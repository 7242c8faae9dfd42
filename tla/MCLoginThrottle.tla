--------------------------- MODULE MCLoginThrottle ---------------------------
(* Small instances of LoginThrottle for TLC. *)
EXTENDS LoginThrottle, TLC

SmallPolicy ==
    [ip |-> [free |-> 1, base |-> 2, max |-> 2, ttl |-> 2],
     ip_email |-> [free |-> 0, base |-> 1, max |-> 1, ttl |-> 2]]

Symmetry == Permutations(Emails) \cup Permutations(Requests)
=============================================================================
