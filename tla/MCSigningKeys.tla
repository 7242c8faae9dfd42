--------------------------- MODULE MCSigningKeys ---------------------------
(* Small instances of SigningKeys for TLC. *)
EXTENDS SigningKeys, TLC

CONSTANTS a1, a2

\* Two rotations of the keys of one app, and one rotation under two.
MCScenes == {[keys |-> 3, apps |-> {a1}], [keys |-> 2, apps |-> {a1, a2}]}

Symmetry == Permutations(Workers)
=============================================================================
