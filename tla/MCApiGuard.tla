----------------------------- MODULE MCApiGuard -----------------------------
(* A small instance of ApiGuard. *)
EXTENDS ApiGuard, TLC

CONSTANTS A, Home, Away, k1, k2, w1, w2, i1, i2, q1, q2

MCKeys == {k1, k2}
MCWorkers == {w1, w2}
MCInstances == {i1, i2}
MCAddresses == {Home, Away}
MCAllowlists == {{}, {{Home}}}
MCDrafts == {[kind |-> "publishable", scopes |-> {"db:read", "db:write"}],
             [kind |-> "secret", scopes |-> {"db:write"}]}

\* Much traffic under few edits, and the reverse; decisions recorded.
MCBounds == {[time |-> 3, requests |-> 4, edits |-> 1, faults |-> 1, decisions |-> 0],
             [time |-> 0, requests |-> 1, edits |-> 4, faults |-> 1, decisions |-> 0],
             [time |-> 2, requests |-> 0, edits |-> 0, faults |-> 1, decisions |-> 3]}

MCBuckets == <<1, 2, 4>>

\* Every sample of up to four latencies, below, in, between and past the buckets.
ASSUME PercentilesOverestimate ==
    \A n \in 1 .. 4, percent \in {50, 95} :
        \A sample \in [1 .. n -> {-1, 0, 1, 2, 3, 5, 9}] : Overestimates(sample, percent)

Symmetry == Permutations(MCKeys) \cup Permutations(MCWorkers) \cup Permutations(MCInstances)
=============================================================================
