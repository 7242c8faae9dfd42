------------------------------ MODULE MasterKey ------------------------------
(***************************************************************************)
(* The secrets of the master database and the rotation of the key they are  *)
(* sealed with: packages/core/src/crypto.ts, the statements that write a    *)
(* secret (queries/database-configs.ts, signing-keys.ts, webhooks.ts,       *)
(* mfa.ts), scripts/rotate-master-key.mjs, and the operator who runs it     *)
(* while the application's processes go on writing.                         *)
(*                                                                         *)
(* A key is its version. A sealed secret opens with the key that sealed it; *)
(* the row says which version to try. Each row's AAD is its own id and      *)
(* never changes, so it is left out.                                        *)
(***************************************************************************)
EXTENDS Integers, FiniteSets, Sequences

CONSTANTS
    Secrets,        \* ids of rows that hold a secret, of all four tables
    Table,          \* the table of each
    Seeded,         \* the rows there before the rotation
    Processes,      \* the application's processes
    Runs,           \* executions of the script
    Procedure,      \* what the operator does, in order
    NoRow,
    Bounds          \* bounds: [steps, writes, faults, ...]

TARGETS == <<"infra_database_configs", "infra_signing_keys",
             "infra_webhook_endpoints", "infra_mfa_factors">>

CURRENT_KEY_VERSION == 1
TARGET_VERSION == 2     \* --to 2

Keys == {CURRENT_KEY_VERSION, TARGET_VERSION}
Row == [secret : Nat, sealed : Keys, version : Keys]

ASSUME MasterKeyAssumption ==
    /\ NoRow \notin Row
    /\ Table \in [Secrets -> {TARGETS[i] : i \in DOMAIN TARGETS}]
    /\ Seeded \subseteq Secrets
    /\ Procedure \in Seq({"add", "version", "restart", "dry", "rotate", "remove"})

VARIABLES
    rows,           \* the rows; sealed is the key, version encryption_key_version
    env,            \* what each process was started with: [keys, version]
    deployed,       \* what the next one is started with
    scripts,        \* executions of the script
    step,           \* how far the operator is in Procedure
    given,          \* history: the secret last written by the application, and shown
    crossed,        \* history: the secrets replaced under the key an execution had read
    bound, writes, faults

secretVars == <<rows, env, deployed, scripts, step, given, crossed, bound, writes, faults>>

Live(s) == rows[s] # NoRow
Opens(keys, row) == row.version \in keys /\ row.sealed = row.version
Sealed(secret, version) == [secret |-> secret, sealed |-> version, version |-> version]

-----------------------------------------------------------------------------
(* The application *)

\* loadMasterKey: nothing is sealed without the key the process writes with.
HasKey(p) == env[p].version \in env[p].keys

encryptSecret(p, s, secret) ==
    /\ HasKey(p)
    /\ rows' = [rows EXCEPT ![s] = Sealed(secret, env[p].version)]
    /\ given' = [given EXCEPT ![s] = secret]

Fresh(s) == given[s] = 0
Write == writes < bound.writes /\ writes' = writes + 1 /\ UNCHANGED <<env, deployed, scripts, step, bound, faults>>

Insert(p, s) == Write /\ Fresh(s) /\ encryptSecret(p, s, 1) /\ UNCHANGED crossed

createWebhookEndpoint(p, s) == Table[s] = "infra_webhook_endpoints" /\ Insert(p, s)
startTotpEnrolment(p, s)    == Table[s] = "infra_mfa_factors" /\ Insert(p, s)
provisionSigningKey(p, s)   == Table[s] = "infra_signing_keys" /\ Insert(p, s)

\* The one secret that is replaced in its row; crossed when the script has read
\* the old one under the version this process goes on writing.
Reading(p, s) ==
    \E r \in Runs : \E x \in scripts[r].stale :
        x.id = s /\ x.row.version = env[p].version /\ ~scripts[r].dry

rotateWebhookSecret(p, s) ==
    /\ Write /\ Live(s) /\ Table[s] = "infra_webhook_endpoints"
    /\ encryptSecret(p, s, given[s] + 1)
    /\ crossed' = IF Reading(p, s) THEN crossed \cup {s} ELSE crossed \ {s}

\* deleteDatabaseConfig, removeMfaFactor.
Delete(s) ==
    /\ Write /\ Live(s) /\ Table[s] \in {"infra_database_configs", "infra_mfa_factors"}
    /\ rows' = [rows EXCEPT ![s] = NoRow] /\ UNCHANGED <<given, crossed>>

-----------------------------------------------------------------------------
(* rotate-master-key.mjs *)

NotRunning == [pc |-> "none", stale |-> {}]

\* The checks made before the database is touched, with the environment of the
\* moment.
StartScript(r) ==
    /\ scripts[r].pc = "none" /\ TARGET_VERSION \in deployed.keys
    /\ step <= Len(Procedure) /\ Procedure[step] \in {"dry", "rotate"}
    /\ scripts' = [scripts EXCEPT ![r] =
           [pc |-> "select", dry |-> Procedure[step] = "dry", keys |-> deployed.keys, at |-> 1,
            stale |-> {}, failed |-> FALSE]]
    /\ UNCHANGED <<rows, env, deployed, step, given, crossed, bound, writes, faults>>

\* One table is read whole, ...
SelectTable(r) ==
    LET q == scripts[r] IN
    /\ q.pc = "select" /\ q.at <= Len(TARGETS)
    /\ scripts' = [scripts EXCEPT ![r].pc = "rows",
           ![r].stale = {[id |-> s, row |-> rows[s]] :
               s \in {x \in Secrets : Table[x] = TARGETS[q.at] /\ Live(x) /\ rows[x].version # TARGET_VERSION}}]
    /\ UNCHANGED <<rows, env, deployed, step, given, crossed, bound, writes, faults>>

\* Mutant: the UPDATE does not look at the version.
WhereId(s, row) == Live(s)

\* Only the row as it was read, as far as its version tells.
Where(s, row) == Live(s) /\ rows[s].version = row.version

\* Mutant: the new ciphertext under the old version.
ResealedOnly(row) == [row EXCEPT !.sealed = TARGET_VERSION]

Resealed(row) == Sealed(row.secret, TARGET_VERSION)

\* ... and its stale rows are resealed one by one.
RotateRow(r, x) ==
    LET opened == Opens(scripts[r].keys, x.row)
        hit    == opened /\ ~scripts[r].dry /\ Where(x.id, x.row)
    IN
    /\ scripts[r].pc = "rows" /\ x \in scripts[r].stale
    /\ rows' = IF hit THEN [rows EXCEPT ![x.id] = Resealed(x.row)] ELSE rows
    /\ scripts' = [scripts EXCEPT ![r].stale = @ \ {x},
                       ![r].failed = @ \/ ~opened \/ (~scripts[r].dry /\ ~hit)]
    /\ UNCHANGED <<env, deployed, step, given, crossed, bound, writes, faults>>

NextTable(r) ==
    /\ scripts[r].pc = "rows" /\ scripts[r].stale = {}
    /\ scripts' = [scripts EXCEPT ![r].at = @ + 1, ![r].pc = "select"]
    /\ UNCHANGED <<rows, env, deployed, step, given, crossed, bound, writes, faults>>

Advance == step < bound.steps /\ step' = step + 1

\* The verdict: the operator goes on when nothing failed, and runs it again otherwise.
Verdict(r) ==
    LET q == scripts[r] IN
    /\ q.pc = "select" /\ q.at > Len(TARGETS)
    /\ scripts' = [scripts EXCEPT ![r] = NotRunning]
    /\ IF ~q.failed /\ step <= Len(Procedure) /\ Procedure[step] = (IF q.dry THEN "dry" ELSE "rotate")
       THEN Advance ELSE UNCHANGED step
    /\ UNCHANGED <<rows, env, deployed, given, crossed, bound, writes, faults>>

\* It dies; every row it resealed stays so.
Die(r) ==
    /\ scripts[r].pc # "none" /\ faults < bound.faults /\ faults' = faults + 1
    /\ scripts' = [scripts EXCEPT ![r] = NotRunning]
    /\ UNCHANGED <<rows, env, deployed, step, given, crossed, bound, writes>>

-----------------------------------------------------------------------------
(* The operator: docs/runbooks.md, section 2 *)

Does(what) ==
    /\ step <= Len(Procedure) /\ Procedure[step] = what /\ Advance
    /\ UNCHANGED <<rows, scripts, given, crossed, bound, writes, faults>>

AddKey     == Does("add") /\ deployed' = [deployed EXCEPT !.keys = @ \cup {TARGET_VERSION}] /\ UNCHANGED env
SetVersion == Does("version") /\ deployed' = [deployed EXCEPT !.version = TARGET_VERSION] /\ UNCHANGED env

\* Every process has been restarted.
Restarted == Does("restart") /\ (\A p \in Processes : env[p] = deployed) /\ UNCHANGED <<env, deployed>>

\* The old key goes once every app, sign-in and webhook was seen to work.
RemoveKey ==
    /\ Does("remove") /\ \A p \in Processes, s \in Secrets : Live(s) => Opens(env[p].keys, rows[s])
    /\ deployed' = [deployed EXCEPT !.keys = @ \ {CURRENT_KEY_VERSION}] /\ UNCHANGED env

\* assertMasterKey: a process without the key it writes with does not start.
Restart(p) ==
    /\ deployed.version \in deployed.keys /\ env[p] # deployed
    /\ env' = [env EXCEPT ![p] = deployed]
    /\ UNCHANGED <<rows, deployed, scripts, step, given, crossed, bound, writes, faults>>

-----------------------------------------------------------------------------
InitSecrets ==
    /\ bound \in Bounds
    /\ rows = [s \in Secrets |-> IF s \in Seeded THEN Sealed(1, CURRENT_KEY_VERSION) ELSE NoRow]
    /\ given = [s \in Secrets |-> IF s \in Seeded THEN 1 ELSE 0]
    /\ deployed = [keys |-> {CURRENT_KEY_VERSION}, version |-> CURRENT_KEY_VERSION]
    /\ env = [p \in Processes |-> deployed]
    /\ scripts = [r \in Runs |-> NotRunning]
    /\ crossed = {} /\ step = 1 /\ writes = 0 /\ faults = 0

Writes(p) ==
    \E s \in Secrets :
        \/ createWebhookEndpoint(p, s) \/ startTotpEnrolment(p, s) \/ provisionSigningKey(p, s)
        \/ rotateWebhookSecret(p, s) \/ Delete(s)

Script(r) ==
    \/ StartScript(r) \/ SelectTable(r) \/ NextTable(r) \/ Verdict(r) \/ Die(r)
    \/ \E x \in scripts[r].stale : RotateRow(r, x)

Operator == AddKey \/ SetVersion \/ Restarted \/ RemoveKey

-----------------------------------------------------------------------------
(* Properties *)

Past(what)  == \E i \in DOMAIN Procedure : i < step /\ Procedure[i] = what
Begun(what) == \E i \in DOMAIN Procedure : i <= step /\ Procedure[i] = what

\* Nothing is written under the new version yet.
Untouched == ~Begun("rotate") /\ ~Begun("version")

\* The processes have been restarted with the new key.
KeyEverywhere ==
    \E i, j \in DOMAIN Procedure :
        i < j /\ j < step /\ Procedure[i] = "add" /\ Procedure[j] = "restart"

\* Until the script writes, and again from the restart with the new key until
\* the old one is removed (docs/runbooks.md:157-164, steps 3-4 and 7), every
\* process can open every secret: no execution that overlaps another, died or
\* was started before the restart and still goes on leaves a row whose version
\* is not that of its key.
Openable ==
    (Untouched \/ KeyEverywhere) /\ ~Past("remove") =>
        \A p \in Processes, s \in Secrets : Live(s) => Opens(env[p].keys, rows[s])

\* What is stored is what was last shown: executions that overlap, die and are
\* run again put no replaced secret back (the WHERE of
\* rotate-master-key.mjs:257-258). It compares the version alone, so a secret
\* replaced under the version the execution read is not protected.
NothingReverted ==
    \A s \in Secrets : Live(s) /\ s \notin crossed => rows[s].secret = given[s]

\* Once everything works the old key may be removed, and nothing is lost:
\* false of the runbook's order (docs/runbooks.md:158-164).
NothingLost == \A s \in Secrets : Live(s) => Opens(deployed.keys, rows[s])
=============================================================================
