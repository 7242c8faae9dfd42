--------------------------- MODULE MCAdminFactors ---------------------------
(* A small instance of AdminFactors. *)
EXTENDS AdminFactors, TLC

CONSTANTS x, y, b1, b2, t, k, l, c, d, p1, p2

\* Codes; passkeys; the gate among what withdraws a condition at once, and among
\* what lets one expire; and impersonation.
MCBounds == {
    [time |-> 3, requests |-> 5, ops |-> {"enrol", "activate", "code", "remove"}, enrolled |-> {}],
    [time |-> 2, requests |-> 6, ops |-> {"challenge", "register", "assert"}, enrolled |-> {}],
    [time |-> 2, requests |-> 3, ops |-> {"gate", "forget", "remember", "code"}, enrolled |-> {t}],
    [time |-> 4, requests |-> 2, enrolled |-> {t},
     ops |-> {"gate", "remove", "revoke", "remember", "code", "sign"}],
    [time |-> 3, requests |-> 5, ops |-> {"begin", "stop", "revoke", "crash"}, enrolled |-> {t}]}

Symmetry == Permutations({b1, b2}) \cup Permutations({x, y}) \cup Permutations({p1, p2}) \cup Permutations({k, l})
=============================================================================
