----------------------------- MODULE Provisioning -----------------------------
(***************************************************************************)
(* Databases the platform creates for its apps: the orchestration           *)
(* (apps/web/src/lib/provisioning.ts), the ledger and the quota readings    *)
(* (packages/db/src/queries/provisioning.ts), and the two provisioners      *)
(* (packages/adapters/src/provisioning/). The connection string it stores   *)
(* is one of the secrets of MasterKey, sealed by the process that           *)
(* provisions.                                                              *)
(*                                                                         *)
(* A call to a provider may take effect and its answer be lost. Each call   *)
(* and each statement is a step.                                            *)
(***************************************************************************)
EXTENDS MasterKey

CONSTANTS
    Apps, Projects,     \* apps, each its own Turso name; ids Neon gives out
    Rows,               \* ids of ledger rows
    Limit               \* the provider's free tier

VARIABLES
    remote,         \* external: [made: how often it was created, stands]
    ledger,         \* infra_provisioned_resources
    quota,          \* infra_provider_quotas: the used count, one provider at a time
    tasks,          \* what each process is doing
    untracked,      \* history: databases whose creation or removal got no answer, or
                    \* whose process died
    begun           \* bound: tasks begun

provisionVars == <<remote, ledger, quota, tasks, untracked, begun>>
vars == <<secretVars, provisionVars>>

Externals == Apps \cup Projects
Idle == [pc |-> "idle"]
NoEntry == [state |-> "none"]
NoReading == -1
ORPHAN_AFTER_ATTEMPTS == 2      \* 5 in the code

Standing == {x \in Externals : remote[x].stands}
Database(x) == [name |-> x, made |-> remote[x].made]

To(p, q) == tasks' = [tasks EXCEPT ![p] = q]
Moves(p, pc) == To(p, [tasks[p] EXCEPT !.pc = pc])
Ends(p) == To(p, Idle)
At(p, pc) == tasks[p].pc = pc

Begins(p) == tasks[p].pc = "idle" /\ begun < bound.tasks /\ begun' = begun + 1 /\ UNCHANGED untracked
Fault == faults < bound.faults /\ faults' = faults + 1
            /\ UNCHANGED <<rows, env, deployed, scripts, step, given, crossed, bound, writes>>
Loses(x) == untracked' = untracked \cup {Database(x)}

-----------------------------------------------------------------------------
(* The provisioners *)

\* From the last reading; none is no objection.
checkQuota == quota < Limit

provisionForApp(p, a, provider) ==
    /\ Begins(p) /\ checkQuota
    /\ To(p, [op |-> "provision", pc |-> "create", app |-> a, provider |-> provider])
    /\ UNCHANGED <<secretVars, remote, ledger, quota>>

\* The provider refuses what is over its limit, and a name it has.
Makes(x) == Cardinality(Standing) < Limit /\ ~remote[x].stands
Created(x) == remote' = [remote EXCEPT ![x] = [made |-> @.made + 1, stands |-> TRUE]]
Holding(p, pc, x) ==
    To(p, [op |-> "provision", pc |-> pc, app |-> tasks[p].app, x |-> x, made |-> remote[x].made + 1])

\* A Turso database is named for its app; a Neon project gets an id of its own.
NameFor(q) == IF q.provider = "turso" THEN {q.app} ELSE {x \in Projects : remote[x].made = 0}

\* Turso: a database, which needs a token yet.
CreateDatabase(p, x) ==
    /\ At(p, "create") /\ tasks[p].provider = "turso" /\ x \in NameFor(tasks[p])
    /\ Makes(x) /\ Created(x) /\ Holding(p, "token", x)
    /\ UNCHANGED <<secretVars, ledger, quota, untracked, begun>>

\* Neon: a project with its connection string, or without one and undone
\* before it is reported.
CreateProject(p, x) ==
    /\ At(p, "create") /\ tasks[p].provider = "neon" /\ x \in NameFor(tasks[p])
    /\ Makes(x) /\ Created(x)
    /\ \/ Holding(p, "record", x) /\ UNCHANGED secretVars
       \/ Fault /\ Holding(p, "undo", x)
    /\ UNCHANGED <<ledger, quota, untracked, begun>>

\* Nothing was made, or it was and the answer is late, or names nothing.
CreateFails(p) ==
    /\ Fault /\ At(p, "create") /\ Ends(p)
    /\ \/ UNCHANGED <<remote, untracked>>
       \/ \E x \in NameFor(tasks[p]) : /\ Makes(x) /\ Created(x)
                                         /\ untracked' = untracked \cup {[name |-> x, made |-> remote[x].made + 1]}
    /\ UNCHANGED <<ledger, quota, begun>>

MintToken(p) == At(p, "token") /\ Moves(p, "record") /\ UNCHANGED <<secretVars, remote, ledger, quota, untracked, begun>>
MintFails(p) == Fault /\ At(p, "token") /\ Moves(p, "undo") /\ UNCHANGED <<remote, ledger, quota, untracked, begun>>

Removed(x) == remote' = [remote EXCEPT ![x].stands = FALSE]

\* deprovision, its error swallowed.
Undo(p) ==
    LET x == tasks[p].x IN
    /\ At(p, "undo") /\ Ends(p)
    /\ \/ Removed(x) /\ UNCHANGED <<secretVars, untracked>>
       \/ Fault /\ Loses(x) /\ (Removed(x) \/ UNCHANGED remote)
    /\ UNCHANGED <<ledger, quota, begun>>

-----------------------------------------------------------------------------
(* provisionForApp, once it is created *)

recordProvisionedResource(p, r) ==
    LET q == tasks[p] IN
    /\ At(p, "record") /\ ledger[r] = NoEntry
    /\ ledger' = [ledger EXCEPT ![r] = [app |-> q.app, x |-> q.x, made |-> q.made, state |-> "active", attempts |-> 0]]
    /\ To(p, [op |-> "provision", pc |-> "config", app |-> q.app, x |-> q.x, made |-> q.made, row |-> r])
    /\ UNCHANGED <<secretVars, remote, quota, untracked, begun>>

\* Mutant: the error is thrown and nothing else.
RecordJustFails(p) ==
    Fault /\ At(p, "record") /\ Ends(p) /\ UNCHANGED <<remote, ledger, quota, untracked, begun>>

RecordFails(p) ==
    Fault /\ At(p, "record") /\ Moves(p, "undo") /\ UNCHANGED <<remote, ledger, quota, untracked, begun>>

\* The connection string is sealed by this process and stored.
upsertDatabaseConfig(p, s) ==
    /\ At(p, "config") /\ Fresh(s) /\ Table[s] = "infra_database_configs"
    /\ encryptSecret(p, s, 1) /\ Ends(p)
    /\ UNCHANGED <<env, deployed, scripts, step, crossed, bound, writes, faults, remote, ledger, quota, untracked, begun>>

\* It is not: the resource is released again.
ConfigFails(p) ==
    LET q == tasks[p] IN
    /\ Fault /\ At(p, "config") /\ To(p, [q EXCEPT !.pc = "mark"])
    /\ UNCHANGED <<remote, ledger, quota, untracked, begun>>

-----------------------------------------------------------------------------
(* Releasing *)

\* The next row of the list as it was read.
Onward(p) ==
    LET q == tasks[p] IN
    IF q.left = {} THEN Ends(p)
    ELSE \E r \in q.left : To(p, [q EXCEPT !.pc = "mark", !.row = r.row, !.x = r.x, !.made = r.made,
                                              !.attempts = r.attempts, !.left = @ \ {r}])

releaseAppResources(p, a) ==
    LET open == {[row |-> r, x |-> ledger[r].x, made |-> ledger[r].made, attempts |-> ledger[r].attempts] :
                     r \in {x \in Rows : ledger[x] # NoEntry /\ ledger[x].app = a /\ ledger[x].state # "released"}}
    IN
    /\ Begins(p) /\ \E r \in open :
           To(p, [op |-> "release", pc |-> "mark", app |-> a, row |-> r.row, x |-> r.x, made |-> r.made,
                  attempts |-> r.attempts, left |-> open \ {r}])
    /\ UNCHANGED <<secretVars, remote, ledger, quota>>

\* The intent, before the call; a row it cannot write ends the release.
markReleasing(p) ==
    LET attempts == ledger[tasks[p].row].attempts + 1 IN
    /\ At(p, "mark")
    /\ \/ /\ ledger' = [ledger EXCEPT ![tasks[p].row] = [@ EXCEPT !.state = "releasing", !.attempts = attempts]]
          /\ Moves(p, "delete") /\ UNCHANGED secretVars
       \/ Fault /\ Ends(p) /\ UNCHANGED ledger
    /\ UNCHANGED <<remote, quota, untracked, begun>>

\* Mutant: released whatever the provider answers.
DeprovisionHopefully(p) ==
    LET q == tasks[p] IN
    /\ At(p, "delete") /\ Moves(p, "released")
    /\ \/ Removed(q.x) /\ UNCHANGED secretVars
       \/ Fault /\ UNCHANGED remote
    /\ UNCHANGED <<ledger, quota, untracked, begun>>

\* Already gone is as good. Without an answer it may be gone or not: a release
\* notes the failure, the compensation of a provision leaves the row as it is.
deprovision(p) ==
    LET q == tasks[p] IN
    /\ At(p, "delete")
    /\ \/ Removed(q.x) /\ Moves(p, "released") /\ UNCHANGED secretVars
       \/ /\ Fault /\ (Removed(q.x) \/ UNCHANGED remote)
          /\ IF q.op = "release" THEN Moves(p, "failed") ELSE Ends(p)
    /\ UNCHANGED <<ledger, quota, untracked, begun>>

markReleased(p) ==
    LET q == tasks[p] IN
    /\ At(p, "released")
    /\ \/ /\ ledger' = [ledger EXCEPT ![q.row].state = "released"]
          /\ IF q.op = "release" THEN Onward(p) ELSE Ends(p)
          /\ UNCHANGED secretVars
       \/ Fault /\ (IF q.op = "release" THEN Moves(p, "failed") ELSE Ends(p)) /\ UNCHANGED ledger
    /\ UNCHANGED <<remote, quota, untracked, begun>>

\* Counted from the row as the list read it.
markReleaseFailed(p) ==
    LET attempts == tasks[p].attempts + 1 IN
    /\ At(p, "failed")
    /\ ledger' = [ledger EXCEPT ![tasks[p].row] = [@ EXCEPT !.attempts = attempts,
           !.state = IF attempts >= ORPHAN_AFTER_ATTEMPTS THEN "orphaned" ELSE "active"]]
    /\ Onward(p)
    /\ UNCHANGED <<secretVars, remote, quota, untracked, begun>>

-----------------------------------------------------------------------------
(* Quota readings and the end of a process *)

\* collectUsage asks the provider; ...
refreshQuotas(p) ==
    /\ Begins(p)
    /\ \/ To(p, [op |-> "poll", pc |-> "reading", used |-> Cardinality(Standing)]) /\ UNCHANGED secretVars
       \/ Fault /\ To(p, [op |-> "poll", pc |-> "reading", used |-> -1])
    /\ UNCHANGED <<remote, ledger, quota>>

\* ... the answer is stored, and a poll that failed leaves the last one.
collectUsageInto(p) ==
    /\ At(p, "reading") /\ Ends(p)
    /\ quota' = IF tasks[p].used < 0 THEN quota ELSE tasks[p].used
    /\ UNCHANGED <<secretVars, remote, ledger, untracked, begun>>

\* A process that is restarted, or dies, drops what it was doing.
Drops(p) ==
    LET q == tasks[p] IN
    /\ Ends(p)
    /\ untracked' = IF q.pc \in {"token", "record", "undo"}
                    THEN untracked \cup {[name |-> q.x, made |-> q.made]} ELSE untracked
    /\ UNCHANGED <<remote, ledger, quota, begun>>

Crash(p) == tasks[p].pc # "idle" /\ Fault /\ Drops(p)

-----------------------------------------------------------------------------
Init ==
    /\ InitSecrets
    /\ remote = [x \in Externals |-> [made |-> 0, stands |-> FALSE]]
    /\ ledger = [r \in Rows |-> NoEntry] /\ quota = NoReading
    /\ tasks = [p \in Processes |-> Idle] /\ untracked = {} /\ begun = 0

Provision(p) ==
    \/ \E a \in Apps, provider \in {"neon", "turso"} : provisionForApp(p, a, provider)
    \/ \E x \in Externals : CreateDatabase(p, x) \/ CreateProject(p, x)
    \/ CreateFails(p) \/ MintToken(p) \/ MintFails(p) \/ Undo(p)
    \/ \E r \in Rows : recordProvisionedResource(p, r)
    \/ RecordFails(p) \/ ConfigFails(p)
    \/ \E s \in Secrets : upsertDatabaseConfig(p, s)

Release(p) ==
    \/ \E a \in Apps : releaseAppResources(p, a)
    \/ markReleasing(p) \/ deprovision(p) \/ markReleased(p) \/ markReleaseFailed(p)

Next ==
    \/ \E p \in Processes :
        \/ Provision(p) \/ Release(p) \/ refreshQuotas(p) \/ collectUsageInto(p)
        \/ Crash(p) \/ (Restart(p) /\ Drops(p))
        \/ Writes(p) /\ UNCHANGED provisionVars
    \/ ((\E r \in Runs : Script(r)) \/ Operator) /\ UNCHANGED provisionVars

Spec == Init /\ [][Next]_vars

-----------------------------------------------------------------------------
(* Properties *)

\* A database that stands at a provider is in the ledger as something to
\* release, or in the hands of a task that will record or remove it, unless
\* the provider's answer or the process was lost (provisioning.ts:8-15,
\* queries/provisioning.ts:4-8).
NoUnknownOrphan ==
    \A x \in Standing :
        \/ Database(x) \in untracked
        \/ \E p \in Processes : tasks[p].pc \in {"token", "record", "undo"}
                                 /\ tasks[p].x = x /\ tasks[p].made = remote[x].made
        \/ \E r \in Rows : ledger[r] # NoEntry /\ ledger[r].state # "released"
                            /\ ledger[r].x = x /\ ledger[r].made = remote[x].made

\* A row says released only of a database that is gone, although releases of
\* one app overlap, answers are lost and a name is used again.
ReleasedIsGone ==
    \A r \in Rows : ledger[r].state = "released" =>
        ~(remote[ledger[r].x].stands /\ remote[ledger[r].x].made = ledger[r].made)
=============================================================================
