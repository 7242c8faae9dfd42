--------------------------- MODULE MCAccountAccess ---------------------------
(* Small instances of AccountAccess for TLC. *)
EXTENDS AccountAccess, TLC

\* Two links and an account that may be suspended; one link and an account
\* that may be suspended or offboarded.
MCScenes == {[links |-> 2, jobs |-> {"suspended"}],
             [links |-> 1, jobs |-> {"suspended", "offboarded"}]}

Symmetry == Permutations(Links) \cup Permutations(Workers)
=============================================================================
