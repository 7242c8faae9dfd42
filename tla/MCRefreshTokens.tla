-------------------------- MODULE MCRefreshTokens --------------------------
(* Small instances of RefreshTokens for TLC. *)
EXTENDS RefreshTokens, TLC

\* Ids are random and interchangeable, and so are the workers; families are
\* told apart by Overlap.
Symmetry == Permutations(Users) \cup Permutations(Sessions)
              \cup Permutations(Tokens) \cup Permutations(Workers)
=============================================================================
