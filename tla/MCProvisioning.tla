--------------------------- MODULE MCProvisioning ---------------------------
(* A small instance of Provisioning, and with it of MasterKey. *)
EXTENDS Provisioning, TLC

CONSTANTS c1, c2, e, f, g, p1, p2, r1, r2, l1, l2, a, n

MCTable == (c1 :> "infra_database_configs" @@ c2 :> "infra_database_configs"
            @@ e :> "infra_webhook_endpoints" @@ f :> "infra_mfa_factors"
            @@ g :> "infra_signing_keys")

\* The order of the runbook, of the script's header and of its last message.
Runbook == <<"add", "dry", "rotate", "version", "restart", "remove", "restart">>

\* A rotation among writes and crashes, and with a provision; provisions and
\* releases alone.
MCBounds == {
    [steps |-> 9, writes |-> 2, faults |-> 1, tasks |-> 0],
    [steps |-> 9, writes |-> 1, faults |-> 0, tasks |-> 1],
    [steps |-> 1, writes |-> 0, faults |-> 2, tasks |-> 4]}
RunbookBounds == {[steps |-> 8, writes |-> 1, faults |-> 0, tasks |-> 0]}

Symmetry == Permutations({p1, p2}) \cup Permutations({r1, r2}) \cup Permutations({l1, l2}) \cup Permutations({c1, c2})
=============================================================================
