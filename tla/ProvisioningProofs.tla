-------------------------- MODULE ProvisioningProofs --------------------------
(***************************************************************************)
(* Proofs about Provisioning, and with it about MasterKey, for every value  *)
(* of their constants.                                                      *)
(*                                                                         *)
(*   - the secrets: in any order of the operator's steps, every process    *)
(*     opens every secret before the script writes and from the restart     *)
(*     with the new key on, and no secret replaced under another version    *)
(*     than the script read is put back;                                    *)
(*   - the ledger: no database is left standing unknown, and what is called *)
(*     released is gone.                                                    *)
(***************************************************************************)
EXTENDS Provisioning, TLAPS

-----------------------------------------------------------------------------
(* The secrets: types *)

Environment == [keys : SUBSET Keys, version : Keys]
StaleRow == [id : Secrets, row : Row]
Execution == [pc : {"select", "rows"}, dry : BOOLEAN, keys : SUBSET Keys,
              at : Nat \ {0}, stale : SUBSET StaleRow, failed : BOOLEAN]

SecretTypes ==
    /\ rows \in [Secrets -> Row \cup {NoRow}]
    /\ env \in [Processes -> Environment]
    /\ deployed \in Environment
    /\ scripts \in [Runs -> Execution \cup {NotRunning}]
    /\ step \in Nat \ {0}
    /\ given \in [Secrets -> Nat]
    /\ crossed \in SUBSET Secrets

LEMMA KeysApart ==
    /\ Keys = {1, 2} /\ CURRENT_KEY_VERSION = 1 /\ TARGET_VERSION = 2
    /\ NoRow \notin Row
  BY MasterKeyAssumption DEF Keys, CURRENT_KEY_VERSION, TARGET_VERSION

LEMMA RowFields ==
    /\ \A r \in Row : r.secret \in Nat /\ r.sealed \in Keys /\ r.version \in Keys
    /\ \A n \in Nat, v \in Keys : /\ Sealed(n, v) \in Row
                                  /\ Sealed(n, v).secret = n
                                  /\ Sealed(n, v).sealed = v
                                  /\ Sealed(n, v).version = v
  BY DEF Row, Sealed

LEMMA ExecutionFields ==
    \A q \in Execution : /\ q.pc \in {"select", "rows"} /\ q.dry \in BOOLEAN
                         /\ q.keys \subseteq Keys /\ q.at \in Nat \ {0}
                         /\ q.stale \subseteq StaleRow /\ q.failed \in BOOLEAN
  BY DEF Execution

LEMMA NotRunningForm ==
    NotRunning.pc = "none" /\ NotRunning.stale = {} /\ NotRunning \notin Execution
  BY DEF NotRunning, Execution

\* What a step of the system does to the secrets: nothing, or one of these.
core == <<rows, env, deployed, scripts, step, given, crossed>>

Seals(p, s) ==
    /\ \E secret \in Nat \ {0} : encryptSecret(p, s, secret)
    /\ \/ Fresh(s) /\ UNCHANGED crossed
       \/ /\ Live(s)
          /\ crossed' = IF Reading(p, s) THEN crossed \cup {s} ELSE crossed \ {s}
    /\ UNCHANGED <<env, deployed, scripts, step>>

SecretNext ==
    \/ UNCHANGED core
    \/ \E p \in Processes, s \in Secrets : Seals(p, s)
    \/ \E s \in Secrets : Delete(s)
    \/ \E r \in Runs : Script(r)
    \/ Operator
    \/ \E p \in Processes : Restart(p)

LEMMA SecretMoves == SecretTypes /\ [Next]_vars => SecretNext
  <1> SUFFICES ASSUME SecretTypes, [Next]_vars PROVE SecretNext
    OBVIOUS
  <1>1. ASSUME NEW p \in Processes, Writes(p) PROVE SecretNext
    <2> PICK s \in Secrets :
          \/ createWebhookEndpoint(p, s) \/ startTotpEnrolment(p, s)
          \/ provisionSigningKey(p, s) \/ rotateWebhookSecret(p, s)
          \/ Delete(s)
      BY <1>1 DEF Writes
    <2>1. ASSUME Insert(p, s) PROVE SecretNext
      BY <2>1 DEF Insert, Write, Seals, SecretNext
    <2>2. ASSUME rotateWebhookSecret(p, s) PROVE SecretNext
      <3>1. given[s] + 1 \in Nat \ {0}
        BY DEF SecretTypes
      <3> QED  BY <2>2, <3>1 DEF rotateWebhookSecret, Write, Seals, SecretNext
    <2> QED
      BY <2>1, <2>2
      DEF createWebhookEndpoint, startTotpEnrolment, provisionSigningKey, SecretNext
  <1>2. ASSUME NEW p \in Processes, Provision(p) PROVE SecretNext
    <2>1. ASSUME NEW s \in Secrets, upsertDatabaseConfig(p, s) PROVE SecretNext
      BY <2>1 DEF upsertDatabaseConfig, Seals, SecretNext
    <2>2. ASSUME NEW x \in Externals, CreateDatabase(p, x) \/ CreateProject(p, x)
          PROVE  UNCHANGED core
      BY <2>2 DEF CreateDatabase, CreateProject, Fault, secretVars, core
    <2>3. ASSUME NEW a \in Apps, NEW provider, provisionForApp(p, a, provider)
          PROVE  UNCHANGED core
      BY <2>3 DEF provisionForApp, secretVars, core
    <2>4. ASSUME NEW r \in Rows, recordProvisionedResource(p, r)
          PROVE  UNCHANGED core
      BY <2>4 DEF recordProvisionedResource, secretVars, core
    <2>5. ASSUME \/ CreateFails(p) \/ MintToken(p) \/ MintFails(p) \/ Undo(p)
                 \/ RecordFails(p) \/ ConfigFails(p)
          PROVE  UNCHANGED core
      BY <2>5 DEF CreateFails, MintToken, MintFails, Undo, RecordFails,
                  ConfigFails, Fault, secretVars, core
    <2> QED
      BY <1>2, <2>1, <2>2, <2>3, <2>4, <2>5 DEF Provision, SecretNext
  <1>3. ASSUME NEW p \in Processes,
               \/ Release(p) \/ refreshQuotas(p) \/ collectUsageInto(p)
               \/ Crash(p)
        PROVE  SecretNext
    <2>1. UNCHANGED core
      BY <1>3 DEF Release, releaseAppResources, markReleasing, deprovision,
                  markReleased, markReleaseFailed, refreshQuotas,
                  collectUsageInto, Crash, Fault, secretVars, core
    <2> QED  BY <2>1 DEF SecretNext
  <1>4. ASSUME UNCHANGED vars PROVE SecretNext
    BY <1>4 DEF vars, secretVars, core, SecretNext
  <1> QED  BY <1>1, <1>2, <1>3, <1>4 DEF Next, SecretNext

-----------------------------------------------------------------------------
\* A step of an execution of the script, to q.
Goes(r, q) == scripts' = [scripts EXCEPT ![r] = q]

\* The executions a script can go to.
Selected(q) ==
    [q EXCEPT !.pc = "rows",
              !.stale = {[id |-> s, row |-> rows[s]] :
                  s \in {x \in Secrets : /\ Table[x] = TARGETS[q.at] /\ Live(x)
                                         /\ rows[x].version # TARGET_VERSION}}]
Rotated(q, x, failed) == [q EXCEPT !.stale = q.stale \ {x}, !.failed = failed]
Turned(q) == [q EXCEPT !.at = q.at + 1, !.pc = "select"]

Opened(q, x) == Opens(q.keys, x.row)
Hit(q, x) == Opened(q, x) /\ ~q.dry /\ Where(x.id, x.row)
Fails(q, x) == q.failed \/ ~Opened(q, x) \/ (~q.dry /\ ~Hit(q, x))

LEMMA SelectedForm ==
    ASSUME SecretTypes, NEW q \in Execution
    PROVE  /\ Selected(q) \in Execution
           /\ Selected(q).pc = "rows" /\ Selected(q).at = q.at
           /\ Selected(q).dry = q.dry /\ Selected(q).failed = q.failed
           /\ \A x \in Selected(q).stale :
                /\ x.id \in Secrets /\ x.row = rows[x.id] /\ x.row \in Row
                /\ x.row.version # TARGET_VERSION
           /\ \A s \in Secrets :
                /\ Table[s] = TARGETS[q.at] /\ Live(s)
                /\ rows[s].version # TARGET_VERSION
                => \E x \in Selected(q).stale : x.id = s
  <1> DEFINE Old == {x \in Secrets : /\ Table[x] = TARGETS[q.at] /\ Live(x)
                                     /\ rows[x].version # TARGET_VERSION}
             S == {[id |-> s, row |-> rows[s]] : s \in Old}
  <1>1. \A s \in Old : rows[s] \in Row
    BY DEF Live, SecretTypes
  <1>2. S \subseteq StaleRow
    BY <1>1 DEF StaleRow
  <1>3. \A x \in S : /\ x.id \in Secrets /\ x.row = rows[x.id] /\ x.row \in Row
                     /\ x.row.version # TARGET_VERSION
    BY <1>1
  <1>4. \A s \in Old : \E x \in S : x.id = s
    <2> SUFFICES ASSUME NEW s \in Old PROVE \E x \in S : x.id = s
      OBVIOUS
    <2>1. [id |-> s, row |-> rows[s]] \in S
      OBVIOUS
    <2> HIDE DEF S
    <2> QED  BY <2>1
  <1>5. Selected(q) = [q EXCEPT !.pc = "rows", !.stale = S]
    BY DEF Selected
  <1> HIDE DEF S
  <1>6. /\ Selected(q) \in Execution
        /\ Selected(q).pc = "rows" /\ Selected(q).at = q.at
        /\ Selected(q).dry = q.dry /\ Selected(q).failed = q.failed
        /\ Selected(q).stale = S
    BY <1>2, <1>5 DEF Execution
  <1> QED  BY <1>3, <1>4, <1>6

LEMMA RotatedForm ==
    ASSUME NEW q \in Execution, NEW x, NEW failed \in BOOLEAN
    PROVE  /\ Rotated(q, x, failed) \in Execution
           /\ Rotated(q, x, failed).pc = q.pc
           /\ Rotated(q, x, failed).at = q.at
           /\ Rotated(q, x, failed).dry = q.dry
           /\ Rotated(q, x, failed).stale = q.stale \ {x}
           /\ Rotated(q, x, failed).failed = failed
  <1> DEFINE S == q.stale \ {x}
  <1>1. S \in SUBSET StaleRow
    BY DEF Execution
  <1>2. Rotated(q, x, failed) = [q EXCEPT !.stale = S, !.failed = failed]
    BY DEF Rotated
  <1> HIDE DEF S
  <1>3. /\ Rotated(q, x, failed) \in Execution
        /\ Rotated(q, x, failed).pc = q.pc
        /\ Rotated(q, x, failed).at = q.at
        /\ Rotated(q, x, failed).dry = q.dry
        /\ Rotated(q, x, failed).stale = S
        /\ Rotated(q, x, failed).failed = failed
    BY <1>1, <1>2 DEF Execution
  <1> QED  BY <1>3 DEF S

LEMMA TurnedForm ==
    ASSUME NEW q \in Execution
    PROVE  /\ Turned(q) \in Execution
           /\ Turned(q).pc = "select" /\ Turned(q).at = q.at + 1
           /\ Turned(q).dry = q.dry /\ Turned(q).failed = q.failed
           /\ Turned(q).stale = q.stale
  <1> DEFINE k == q.at + 1
  <1>1. k \in Nat \ {0}
    BY DEF Execution
  <1>2. Turned(q) = [q EXCEPT !.at = k, !.pc = "select"]
    BY DEF Turned
  <1> HIDE DEF k
  <1>3. /\ Turned(q) \in Execution
        /\ Turned(q).pc = "select" /\ Turned(q).at = k
        /\ Turned(q).dry = q.dry /\ Turned(q).failed = q.failed
        /\ Turned(q).stale = q.stale
    BY <1>1, <1>2 DEF Execution
  <1> QED  BY <1>3 DEF k

\* The execution the operator starts.
Started == [pc |-> "select", dry |-> Procedure[step] = "dry",
            keys |-> deployed.keys, at |-> 1, stale |-> {}, failed |-> FALSE]

LEMMA StartedForm ==
    ASSUME SecretTypes
    PROVE  /\ Started \in Execution /\ Started.pc = "select"
           /\ Started.at = 1 /\ Started.stale = {}
           /\ Started.dry <=> Procedure[step] = "dry"
  <1> DEFINE dry == Procedure[step] = "dry"
  <1>1. dry \in BOOLEAN
    OBVIOUS
  <1>2. deployed.keys \subseteq Keys
    BY DEF SecretTypes, Environment
  <1>3. Started = [pc |-> "select", dry |-> dry, keys |-> deployed.keys,
                   at |-> 1, stale |-> {}, failed |-> FALSE]
    BY DEF Started
  <1>4. Started.dry = dry
    BY <1>3
  <1> HIDE DEF dry
  <1>5. /\ Started \in Execution /\ Started.pc = "select"
        /\ Started.at = 1 /\ Started.stale = {}
    BY <1>1, <1>2, <1>3 DEF Execution
  <1> QED  BY <1>4, <1>5 DEF dry

\* The steps of a script, in one form each.
LEMMA ScriptForms ==
    ASSUME SecretTypes, NEW r \in Runs, Script(r)
    PROVE  /\ UNCHANGED <<env, deployed, given, crossed>>
           /\ \/ /\ rows' = rows /\ Goes(r, Started) /\ UNCHANGED step
                 /\ step <= Len(Procedure)
                 /\ Procedure[step] \in {"dry", "rotate"}
              \/ /\ scripts[r] \in Execution /\ UNCHANGED <<rows, step>>
                 /\ scripts[r].pc = "select" /\ scripts[r].at <= Len(TARGETS)
                 /\ Goes(r, Selected(scripts[r]))
              \/ /\ scripts[r] \in Execution /\ scripts[r].pc = "rows"
                 /\ UNCHANGED step
                 /\ \E x \in scripts[r].stale :
                      /\ rows' = IF Hit(scripts[r], x)
                                   THEN [rows EXCEPT ![x.id] = Resealed(x.row)]
                                   ELSE rows
                      /\ Goes(r, Rotated(scripts[r], x, Fails(scripts[r], x)))
              \/ /\ scripts[r] \in Execution /\ UNCHANGED <<rows, step>>
                 /\ scripts[r].pc = "rows" /\ scripts[r].stale = {}
                 /\ Goes(r, Turned(scripts[r]))
              \/ /\ scripts[r] \in Execution /\ UNCHANGED rows
                 /\ scripts[r].pc = "select" /\ scripts[r].at > Len(TARGETS)
                 /\ Goes(r, NotRunning)
                 /\ \/ UNCHANGED step
                    \/ /\ step' = step + 1 /\ ~scripts[r].failed
                       /\ step <= Len(Procedure)
                       /\ Procedure[step] = (IF scripts[r].dry THEN "dry"
                                                               ELSE "rotate")
              \/ UNCHANGED <<rows, step>> /\ Goes(r, NotRunning)
  <1> DEFINE q == scripts[r]
  <1>1. q \in Execution \/ q.pc = "none"
    BY NotRunningForm DEF SecretTypes
  <1>2. ASSUME StartScript(r)
        PROVE  /\ UNCHANGED <<env, deployed, given, crossed, rows, step>>
               /\ Goes(r, Started) /\ step <= Len(Procedure)
               /\ Procedure[step] \in {"dry", "rotate"}
    BY <1>2 DEF StartScript, Goes, Started
  <1>3. ASSUME SelectTable(r)
        PROVE  /\ UNCHANGED <<env, deployed, given, crossed, rows, step>>
               /\ q \in Execution
               /\ q.pc = "select" /\ q.at <= Len(TARGETS)
               /\ Goes(r, Selected(q))
    BY <1>1, <1>3 DEF SelectTable, Goes, Selected, SecretTypes
  <1>4. ASSUME NEW x \in q.stale, RotateRow(r, x)
        PROVE  /\ UNCHANGED <<env, deployed, given, crossed, step>>
               /\ q \in Execution /\ q.pc = "rows"
               /\ rows' = IF Hit(q, x)
                            THEN [rows EXCEPT ![x.id] = Resealed(x.row)]
                            ELSE rows
               /\ Goes(r, Rotated(q, x, Fails(q, x)))
    BY <1>1, <1>4
    DEF RotateRow, Goes, Rotated, Fails, Hit, Opened, SecretTypes
  <1>5. ASSUME NextTable(r)
        PROVE  /\ UNCHANGED <<env, deployed, given, crossed, rows, step>>
               /\ q \in Execution /\ q.pc = "rows" /\ q.stale = {}
               /\ Goes(r, Turned(q))
    BY <1>1, <1>5 DEF NextTable, Goes, Turned, SecretTypes
  <1>6. ASSUME Verdict(r)
        PROVE  /\ UNCHANGED <<env, deployed, given, crossed, rows>>
               /\ q \in Execution /\ q.pc = "select" /\ q.at > Len(TARGETS)
               /\ Goes(r, NotRunning)
               /\ \/ UNCHANGED step
                  \/ /\ step' = step + 1 /\ ~q.failed
                     /\ step <= Len(Procedure)
                     /\ Procedure[step] = (IF q.dry THEN "dry" ELSE "rotate")
    BY <1>1, <1>6 DEF Verdict, Advance, Goes
  <1>7. ASSUME Die(r)
        PROVE  UNCHANGED <<env, deployed, given, crossed, rows, step>>
                 /\ Goes(r, NotRunning)
    BY <1>7 DEF Die, Goes
  <1> HIDE DEF q
  <1>8. Script(r) <=> \/ StartScript(r) \/ SelectTable(r) \/ NextTable(r)
                      \/ Verdict(r) \/ Die(r)
                      \/ \E x \in q.stale : RotateRow(r, x)
    BY DEF Script, q
  <1> QED  BY <1>2, <1>3, <1>4, <1>5, <1>6, <1>7, <1>8 DEF q

\* What the operator does, in one form each.
LEMMA OperatorForms ==
    ASSUME SecretTypes, Operator
    PROVE  /\ UNCHANGED <<rows, env, scripts, given, crossed>> /\ step' = step + 1
           /\ step \in DOMAIN Procedure
           /\ \/ /\ Procedure[step] = "add"
                 /\ deployed'.keys = deployed.keys \cup {TARGET_VERSION}
                 /\ deployed'.version = deployed.version
              \/ /\ Procedure[step] = "version"
                 /\ deployed'.keys = deployed.keys
                 /\ deployed'.version = TARGET_VERSION
              \/ /\ Procedure[step] = "restart" /\ deployed' = deployed
                 /\ \A p \in Processes : env[p] = deployed
              \/ /\ Procedure[step] = "remove"
                 /\ deployed'.keys = deployed.keys \ {CURRENT_KEY_VERSION}
                 /\ deployed'.version = deployed.version
           /\ deployed' \in Environment
  <1>1. deployed \in Environment /\ step \in Nat \ {0}
    BY DEF SecretTypes
  <1>2. /\ deployed.keys \subseteq Keys /\ deployed.version \in Keys
        /\ TARGET_VERSION \in Keys
    BY <1>1, KeysApart DEF Environment
  <1>3. \A what : Does(what) => /\ UNCHANGED <<rows, scripts, given, crossed>>
                                /\ step' = step + 1
                                /\ step \in DOMAIN Procedure
                                /\ Procedure[step] = what
    BY <1>1, MasterKeyAssumption DEF Does, Advance
  <1>4. ASSUME NEW K \in SUBSET Keys, deployed' = [deployed EXCEPT !.keys = K]
        PROVE  /\ deployed' \in Environment
               /\ deployed'.keys = K /\ deployed'.version = deployed.version
    BY <1>1, <1>4 DEF Environment
  <1>5. CASE AddKey
    <2> DEFINE K == deployed.keys \cup {TARGET_VERSION}
    <2>1. K \in SUBSET Keys /\ deployed' = [deployed EXCEPT !.keys = K]
      BY <1>2, <1>5 DEF AddKey
    <2> HIDE DEF K
    <2>2. /\ deployed' \in Environment
          /\ deployed'.keys = K /\ deployed'.version = deployed.version
      BY <1>4, <2>1
    <2> QED  BY <1>3, <1>5, <2>2 DEF AddKey, K
  <1>6. CASE RemoveKey
    <2> DEFINE K == deployed.keys \ {CURRENT_KEY_VERSION}
    <2>1. K \in SUBSET Keys /\ deployed' = [deployed EXCEPT !.keys = K]
      BY <1>2, <1>6 DEF RemoveKey
    <2> HIDE DEF K
    <2>2. /\ deployed' \in Environment
          /\ deployed'.keys = K /\ deployed'.version = deployed.version
      BY <1>4, <2>1
    <2> QED  BY <1>3, <1>6, <2>2 DEF RemoveKey, K
  <1>7. CASE SetVersion
    <2>1. /\ deployed' \in Environment /\ deployed'.keys = deployed.keys
          /\ deployed'.version = TARGET_VERSION
      BY <1>1, <1>2, <1>7 DEF SetVersion, Environment
    <2> QED  BY <1>3, <1>7, <2>1 DEF SetVersion
  <1>8. CASE Restarted
    BY <1>1, <1>3, <1>8 DEF Restarted
  <1> QED  BY <1>5, <1>6, <1>7, <1>8 DEF Operator

LEMMA SecretTypesInit == Init => SecretTypes
  <1> SUFFICES ASSUME InitSecrets PROVE SecretTypes
    BY DEF Init
  <1>1. Sealed(1, CURRENT_KEY_VERSION) \in Row
    BY KeysApart, RowFields
  <1>2. [keys |-> {CURRENT_KEY_VERSION}, version |-> CURRENT_KEY_VERSION]
          \in Environment
    BY KeysApart DEF Environment
  <1> QED  BY <1>1, <1>2 DEF InitSecrets, SecretTypes

LEMMA SecretTypesStep == SecretTypes /\ SecretNext => SecretTypes'
  <1> SUFFICES ASSUME SecretTypes, SecretNext PROVE SecretTypes'
    OBVIOUS
  <1> DEFINE Goal == SecretTypes'
  <1>1. ASSUME UNCHANGED core PROVE Goal
    BY <1>1 DEF core, SecretTypes
  <1>2. ASSUME NEW p \in Processes, NEW s \in Secrets, Seals(p, s)
        PROVE  Goal
    <2> PICK n \in Nat \ {0} : encryptSecret(p, s, n)
      BY <1>2 DEF Seals
    <2>1. env[p].version \in Keys
      BY DEF SecretTypes, Environment
    <2> DEFINE row == Sealed(n, env[p].version)
    <2>2. /\ row \in Row
          /\ rows' = [rows EXCEPT ![s] = row] /\ given' = [given EXCEPT ![s] = n]
          /\ UNCHANGED <<env, deployed, scripts, step>>
          /\ crossed' \in {crossed, crossed \cup {s}, crossed \ {s}}
      BY <1>2, <2>1, RowFields DEF encryptSecret, Seals
    <2> HIDE DEF row
    <2> QED  BY <2>2 DEF SecretTypes
  <1>3. ASSUME NEW s \in Secrets, Delete(s) PROVE Goal
    <2>1. /\ rows' = [rows EXCEPT ![s] = NoRow]
          /\ UNCHANGED <<env, deployed, scripts, step, given, crossed>>
      BY <1>3 DEF Delete, Write
    <2> QED  BY <2>1 DEF SecretTypes
  <1>4. ASSUME NEW r \in Runs, Script(r) PROVE Goal
    <2> DEFINE q == scripts[r]
    <2>1. UNCHANGED <<env, deployed, given, crossed>>
            /\ (UNCHANGED step \/ step' = step + 1)
      BY <1>4, ScriptForms
    <2>2. \E t \in Execution \cup {NotRunning} : Goes(r, t)
      <3>1. CASE \/ Goes(r, Started) \/ Goes(r, NotRunning)
                 \/ q \in Execution /\ (Goes(r, Selected(q)) \/ Goes(r, Turned(q)))
        BY <3>1, StartedForm, SelectedForm, TurnedForm
      <3>2. ASSUME NEW x \in q.stale, q \in Execution,
                   Goes(r, Rotated(q, x, Fails(q, x)))
            PROVE  \E t \in Execution \cup {NotRunning} : Goes(r, t)
        <4>1. Fails(q, x) \in BOOLEAN
          BY <3>2, ExecutionFields DEF Fails
        <4>2. Rotated(q, x, Fails(q, x)) \in Execution
          BY <3>2, <4>1, RotatedForm
        <4> QED  BY <3>2, <4>2
      <3> QED  BY <1>4, <3>1, <3>2, ScriptForms
    <2>3. rows' \in [Secrets -> Row \cup {NoRow}]
      <3>1. CASE rows' = rows
        BY <3>1 DEF SecretTypes
      <3>2. ASSUME q \in Execution, NEW x \in q.stale,
                   rows' = [rows EXCEPT ![x.id] = Resealed(x.row)]
            PROVE  rows' \in [Secrets -> Row \cup {NoRow}]
        <4>1. x.id \in Secrets /\ x.row \in Row
          BY <3>2 DEF Execution, StaleRow
        <4>2. Resealed(x.row) \in Row
          BY <4>1, KeysApart, RowFields DEF Resealed
        <4> QED  BY <3>2, <4>1, <4>2 DEF SecretTypes
      <3> QED  BY <1>4, <3>1, <3>2, ScriptForms
    <2> HIDE DEF q
    <2>4. PICK t \in Execution \cup {NotRunning} :
            scripts' = [scripts EXCEPT ![r] = t]
      BY <2>2 DEF Goes
    <2>5. scripts' \in [Runs -> Execution \cup {NotRunning}]
      BY <2>4 DEF SecretTypes
    <2> QED  BY <2>1, <2>3, <2>5 DEF SecretTypes
  <1>5. ASSUME Operator PROVE Goal
    BY <1>5, OperatorForms DEF SecretTypes
  <1>6. ASSUME NEW p \in Processes, Restart(p) PROVE Goal
    BY <1>6 DEF Restart, SecretTypes
  <1> HIDE DEF Goal
  <1>7. Goal
    BY <1>1, <1>2, <1>3, <1>4, <1>5, <1>6 DEF SecretNext
  <1> QED  BY <1>7 DEF Goal

-----------------------------------------------------------------------------
(* How far the procedure is.                                                *)

LEMMA Positions ==
    /\ DOMAIN Procedure \subseteq Nat
    /\ \A i \in Nat \ {0} : i <= Len(Procedure) => i \in DOMAIN Procedure
  BY MasterKeyAssumption

\* What was reached stays reached.
LEMMA StaysReached ==
    ASSUME step \in Nat, step' = step \/ step' = step + 1
    PROVE  /\ \A what : Past(what) => Past(what)'
           /\ Untouched' => Untouched
           /\ KeyEverywhere => KeyEverywhere'
  <1>1. \A what : Begun(what) => Begun(what)'
    BY Positions DEF Begun
  <1> QED  BY <1>1, Positions DEF Past, Untouched, KeyEverywhere

\* One step reaches nothing but what it does.
LEMMA Reaches ==
    ASSUME step \in DOMAIN Procedure, step' = step + 1
    PROVE  /\ \A what : Past(what)' => Past(what) \/ Procedure[step] = what
           /\ \A what : Procedure[step] = what => Past(what)'
           /\ KeyEverywhere' => \/ KeyEverywhere
                                \/ Procedure[step] = "restart" /\ Past("add")
  <1>1. \A k \in DOMAIN Procedure : k < step + 1 => k < step \/ k = step
    BY Positions
  <1>2. step < step + 1
    BY Positions
  <1>3. \A what : Past(what)' => Past(what) \/ Procedure[step] = what
    BY <1>1 DEF Past
  <1>4. \A what : Procedure[step] = what => Past(what)'
    BY <1>2 DEF Past
  <1>5. KeyEverywhere' => \/ KeyEverywhere
                          \/ Procedure[step] = "restart" /\ Past("add")
    BY <1>1 DEF Past, KeyEverywhere
  <1> QED  BY <1>3, <1>4, <1>5

LEMMA ReachesNone ==
    ASSUME step' = step
    PROVE  /\ \A what : Past(what)' <=> Past(what)
           /\ Untouched' <=> Untouched
           /\ KeyEverywhere' <=> KeyEverywhere
  BY DEF Past, Untouched, Begun, KeyEverywhere

LEMMA ReachedFirst ==
    ASSUME step \in Nat
    PROVE  /\ KeyEverywhere => Past("add")
           /\ step \in DOMAIN Procedure /\ Procedure[step] \in {"rotate", "version"}
              => ~Untouched
  BY Positions DEF Past, KeyEverywhere, Untouched, Begun

-----------------------------------------------------------------------------
(* The invariant of the secrets.                                            *)

\* The new key reaches the processes by the restart that follows it, the old
\* one stays until it is removed, and neither the processes nor the next ones
\* use the new version before it is given out.
Deploys ==
    /\ Past("add") => TARGET_VERSION \in deployed.keys
    /\ KeyEverywhere => \A p \in Processes : TARGET_VERSION \in env[p].keys
    /\ ~Past("remove") => /\ CURRENT_KEY_VERSION \in deployed.keys
                          /\ \A p \in Processes : CURRENT_KEY_VERSION \in env[p].keys
    /\ deployed.version = TARGET_VERSION => ~Untouched
    /\ \A p \in Processes : env[p].version = TARGET_VERSION => ~Untouched

\* A row says the key it is sealed with; it was shown to somebody; and nothing
\* is under the new version before it is given out or the script writes.
Sealing ==
    \A s \in Secrets : Live(s) => /\ rows[s].sealed = rows[s].version
                                  /\ rows[s].version = TARGET_VERSION => ~Untouched
                                  /\ given[s] # 0

\* What an execution read of a row is the secret last shown, if the version is
\* still the one it read.
Known(x) ==
    Live(x.id) /\ rows[x.id].version = x.row.version /\ x.id \notin crossed
        => x.row.secret = given[x.id]

ScriptOK(q) ==
    /\ ~q.dry => ~Untouched
    /\ q.pc = "select" => q.stale = {}
    /\ \A x \in q.stale : /\ x.row.version # TARGET_VERSION /\ given[x.id] # 0
                          /\ ~q.dry => Known(x)

ScriptsOK == \A r \in Runs, q \in Execution : scripts[r] = q => ScriptOK(q)

SecretInv == SecretTypes /\ Deploys /\ Sealing /\ ScriptsOK /\ NothingReverted

LEMMA StepMoves ==
    ASSUME SecretTypes, SecretNext
    PROVE  UNCHANGED step \/ step' = step + 1
  <1>1. \A r \in Runs : Script(r) => UNCHANGED step \/ step' = step + 1
    BY ScriptForms
  <1>2. Operator => step' = step + 1
    BY OperatorForms
  <1> QED  BY <1>1, <1>2 DEF SecretNext, core, Seals, Delete, Write, Restart

LEMMA DeploysStep ==
    ASSUME SecretInv, SecretNext
    PROVE  Deploys'
  <1>0. SecretTypes /\ Deploys /\ step \in Nat \ {0}
    BY KeysApart DEF SecretInv, SecretTypes
  <1> DEFINE Goal == Deploys'
  <1>1. ASSUME UNCHANGED <<env, deployed, step>> PROVE Goal
    BY <1>0, <1>1, ReachesNone DEF Deploys
  <1>2. ASSUME NEW r \in Runs, Script(r) PROVE Goal
    <2>1. UNCHANGED <<env, deployed>>
      BY <1>0, <1>2, ScriptForms
    <2>2. CASE UNCHANGED step
      BY <1>1, <2>1, <2>2
    <2>3. CASE step' = step + 1 /\ step <= Len(Procedure)
                 /\ Procedure[step] \in {"dry", "rotate"}
      BY <1>0, <2>1, <2>3, Positions, StaysReached, Reaches DEF Deploys
    <2> QED  BY <1>0, <1>2, <2>2, <2>3, ScriptForms
  <1>3. ASSUME Operator PROVE Goal
    <2>1. /\ UNCHANGED env /\ step' = step + 1 /\ step \in DOMAIN Procedure
          /\ deployed' \in Environment
      BY <1>0, <1>3, OperatorForms
    <2>2. CASE /\ Procedure[step] = "add"
               /\ deployed'.keys = deployed.keys \cup {TARGET_VERSION}
               /\ deployed'.version = deployed.version
      BY <1>0, <2>1, <2>2, StaysReached, Reaches DEF Deploys
    <2>3. CASE /\ Procedure[step] = "version"
               /\ deployed'.keys = deployed.keys
               /\ deployed'.version = TARGET_VERSION
      BY <1>0, <2>1, <2>3, StaysReached, Reaches, ReachedFirst DEF Deploys
    <2>4. CASE /\ Procedure[step] = "restart" /\ deployed' = deployed
               /\ \A p \in Processes : env[p] = deployed
      BY <1>0, <2>1, <2>4, StaysReached, Reaches DEF Deploys
    <2>5. CASE /\ Procedure[step] = "remove"
               /\ deployed'.keys = deployed.keys \ {CURRENT_KEY_VERSION}
               /\ deployed'.version = deployed.version
      <3>1. Past("remove")'
        BY <2>1, <2>5, Reaches
      <3> QED
        BY <1>0, <2>1, <2>5, <3>1, KeysApart, StaysReached, Reaches DEF Deploys
    <2> QED  BY <1>0, <1>3, <2>2, <2>3, <2>4, <2>5, OperatorForms
  <1>4. ASSUME NEW p \in Processes, Restart(p) PROVE Goal
    <2>1. /\ env' = [env EXCEPT ![p] = deployed]
          /\ UNCHANGED <<deployed, step>>
      BY <1>4 DEF Restart
    <2>2. \A v \in Processes : env'[v] = env[v] \/ env'[v] = deployed
      BY <1>0, <2>1 DEF SecretTypes
    <2>3. KeyEverywhere => Past("add")
      BY <1>0, ReachedFirst
    <2> QED  BY <1>0, <2>1, <2>2, <2>3, ReachesNone DEF Deploys
  <1>5. ASSUME NEW p \in Processes, NEW s \in Secrets, Seals(p, s) PROVE Goal
    BY <1>1, <1>5 DEF Seals
  <1>6. ASSUME NEW s \in Secrets, Delete(s) PROVE Goal
    BY <1>1, <1>6 DEF Delete, Write
  <1>7. ASSUME UNCHANGED core PROVE Goal
    BY <1>1, <1>7 DEF core
  <1> HIDE DEF Goal
  <1>8. Goal
    BY <1>2, <1>3, <1>4, <1>5, <1>6, <1>7 DEF SecretInv, SecretNext
  <1> QED  BY <1>8 DEF Goal

\* What a step does to one secret: nothing, remove its row, reseal it as an
\* execution read it, or seal a new secret in it.
Kept(s) == given'[s] = given[s] /\ (s \in crossed' <=> s \in crossed)

Resealing(s) ==
    /\ Kept(s) /\ Live(s) /\ ~Untouched
    /\ rows'[s].sealed = TARGET_VERSION /\ rows'[s].version = TARGET_VERSION
    /\ s \notin crossed => rows'[s].secret = given[s]

SealedAnew(p, s) ==
    /\ rows'[s].secret = given'[s] /\ rows'[s].sealed = env[p].version
    /\ rows'[s].version = env[p].version /\ given'[s] # 0 /\ UNCHANGED scripts
    /\ \/ given[s] = 0
       \/ Live(s) /\ (Reading(p, s) => s \in crossed')

Moved(s) ==
    \/ Kept(s) /\ rows'[s] = rows[s]
    \/ Kept(s) /\ rows'[s] = NoRow
    \/ Resealing(s)
    \/ \E p \in Processes : SealedAnew(p, s)

LEMMA SecretMoved ==
    ASSUME SecretInv, SecretNext, NEW s \in Secrets
    PROVE  Moved(s)
  <1>0. SecretTypes
    BY DEF SecretInv
  <1>1. ASSUME NEW p \in Processes, NEW t \in Secrets, Seals(p, t)
        PROVE  Moved(s)
    <2> PICK n \in Nat \ {0} : encryptSecret(p, t, n)
      BY <1>1 DEF Seals
    <2> DEFINE row == Sealed(n, env[p].version)
    <2>1. /\ rows' = [rows EXCEPT ![t] = row] /\ given' = [given EXCEPT ![t] = n]
          /\ UNCHANGED scripts
      BY <1>1 DEF encryptSecret, Seals
    <2>2. /\ row.secret = n /\ row.sealed = env[p].version
          /\ row.version = env[p].version
      BY DEF Sealed
    <2> HIDE DEF row
    <2>3. CASE s = t
      <3>1. rows'[s] = row /\ given'[s] = n
        BY <1>0, <2>1, <2>3 DEF SecretTypes
      <3>2. \/ given[s] = 0
            \/ Live(s) /\ (Reading(p, s) => s \in crossed')
        BY <1>1, <2>3 DEF Seals, Fresh
      <3>3. SealedAnew(p, s)
        BY <2>1, <2>2, <3>1, <3>2 DEF SealedAnew
      <3> QED  BY <3>3 DEF Moved
    <2>4. CASE s # t
      <3>1. rows'[s] = rows[s] /\ given'[s] = given[s]
        BY <1>0, <2>1, <2>4 DEF SecretTypes
      <3>2. s \in crossed' <=> s \in crossed
        BY <1>1, <2>4 DEF Seals
      <3> QED  BY <3>1, <3>2 DEF Moved, Kept
    <2> QED  BY <2>3, <2>4
  <1>2. ASSUME NEW t \in Secrets, Delete(t) PROVE Moved(s)
    <2>1. rows'[s] = rows[s] \/ rows'[s] = NoRow
      BY <1>0, <1>2 DEF Delete, SecretTypes
    <2>2. Kept(s)
      BY <1>2 DEF Delete, Kept
    <2> QED  BY <2>1, <2>2 DEF Moved
  <1>3. ASSUME NEW r \in Runs, Script(r) PROVE Moved(s)
    <2>1. Kept(s)
      BY <1>0, <1>3, ScriptForms DEF Kept
    <2>2. ASSUME NEW q \in Execution, q = scripts[r], NEW x \in q.stale,
                 Hit(q, x), rows' = [rows EXCEPT ![x.id] = Resealed(x.row)]
          PROVE  Moved(s)
      <3> DEFINE row == Resealed(x.row)
      <3>1. ScriptOK(q)
        BY <2>2 DEF SecretInv, ScriptsOK
      <3>2. x.id \in Secrets /\ x.row \in Row
        BY <2>2, ExecutionFields DEF StaleRow
      <3>3. /\ row.secret = x.row.secret /\ row.sealed = TARGET_VERSION
            /\ row.version = TARGET_VERSION
        BY DEF Resealed, Sealed
      <3>4. /\ ~q.dry /\ Live(x.id) /\ rows[x.id].version = x.row.version
        BY <2>2 DEF Hit, Where
      <3>5. ~Untouched /\ Known(x)
        BY <3>1, <3>4 DEF ScriptOK
      <3> HIDE DEF row
      <3>6. CASE s = x.id
        <4>1. rows'[s] = row
          BY <1>0, <2>2, <3>6 DEF SecretTypes, row
        <4>2. Resealing(s)
          BY <2>1, <3>3, <3>4, <3>5, <3>6, <4>1 DEF Resealing, Known
        <4> QED  BY <4>2 DEF Moved
      <3>7. CASE s # x.id
        <4>1. rows'[s] = rows[s]
          BY <1>0, <2>2, <3>7 DEF SecretTypes
        <4> QED  BY <2>1, <4>1 DEF Moved
      <3> QED  BY <3>6, <3>7
    <2>3. CASE rows' = rows
      BY <2>1, <2>3 DEF Moved
    <2> QED  BY <1>0, <1>3, <2>2, <2>3, ScriptForms
  <1>4. ASSUME \/ Operator \/ UNCHANGED core
               \/ \E p \in Processes : Restart(p)
        PROVE  Moved(s)
    <2>1. UNCHANGED <<rows, given, crossed>>
      BY <1>0, <1>4, OperatorForms DEF core, Restart
    <2> QED  BY <2>1 DEF Moved, Kept
  <1> QED  BY <1>1, <1>2, <1>3, <1>4 DEF SecretNext

LEMMA SealingStep ==
    ASSUME SecretInv, SecretNext
    PROVE  Sealing' /\ NothingReverted'
  <1>0. /\ SecretTypes /\ Sealing /\ Deploys /\ NothingReverted
        /\ (Untouched' => Untouched)
    BY StepMoves, StaysReached DEF SecretInv, SecretTypes
  <1> SUFFICES ASSUME NEW s \in Secrets, rows'[s] # NoRow
               PROVE  /\ rows'[s].sealed = rows'[s].version
                      /\ rows'[s].version = TARGET_VERSION => ~Untouched'
                      /\ given'[s] # 0
                      /\ s \notin crossed' => rows'[s].secret = given'[s]
    BY DEF Sealing, NothingReverted, Live
  <1>1. CASE Kept(s) /\ rows'[s] = rows[s]
    BY <1>0, <1>1 DEF Kept, Sealing, NothingReverted, Live
  <1>2. CASE Resealing(s)
    BY <1>0, <1>2 DEF Resealing, Kept, Sealing
  <1>3. ASSUME NEW p \in Processes, SealedAnew(p, s)
        PROVE  /\ rows'[s].sealed = rows'[s].version
               /\ rows'[s].version = TARGET_VERSION => ~Untouched'
               /\ given'[s] # 0 /\ rows'[s].secret = given'[s]
    BY <1>0, <1>3 DEF SealedAnew, Deploys
  <1> QED  BY <1>1, <1>2, <1>3, SecretMoved DEF Moved

\* What held of an execution still does, before its own step is looked at.
LEMMA ScriptLasts ==
    ASSUME SecretInv, SecretNext, NEW r \in Runs, NEW q \in Execution,
           scripts[r] = q
    PROVE  ScriptOK(q)'
  <1>0. /\ ScriptOK(q) /\ (Untouched' => Untouched)
    BY StepMoves, StaysReached DEF SecretInv, SecretTypes, ScriptsOK
  <1>1. ASSUME NEW x \in q.stale
        PROVE  given'[x.id] # 0 /\ (~q.dry => Known(x)')
    <2>1. x.id \in Secrets
      BY ExecutionFields DEF StaleRow
    <2>2. /\ x.row.version # TARGET_VERSION /\ given[x.id] # 0
          /\ ~q.dry => Known(x)
      BY <1>0 DEF ScriptOK
    <2>3. CASE Kept(x.id) /\ (rows'[x.id] = rows[x.id] \/ rows'[x.id] = NoRow)
      BY <2>2, <2>3 DEF Kept, Known, Live
    <2>4. CASE Resealing(x.id)
      BY <2>2, <2>4 DEF Resealing, Kept, Known
    <2>5. ASSUME NEW p \in Processes, SealedAnew(p, x.id)
          PROVE  given'[x.id] # 0 /\ (~q.dry => Known(x)')
      <3>1. ~q.dry /\ x.row.version = env[p].version => Reading(p, x.id)
        BY DEF Reading
      <3> QED  BY <2>2, <2>5, <3>1 DEF SealedAnew, Known
    <2> QED  BY <2>1, <2>3, <2>4, <2>5, SecretMoved DEF Moved
  <1> QED  BY <1>0, <1>1 DEF ScriptOK

LEMMA ScriptsStep ==
    ASSUME SecretInv, SecretNext
    PROVE  ScriptsOK'
  <1> SUFFICES ASSUME NEW t \in Runs, NEW n \in Execution, scripts'[t] = n
               PROVE  ScriptOK(n)'
    BY DEF ScriptsOK
  <1> DEFINE Goal == ScriptOK(n)'
  <1>0. SecretTypes /\ step \in Nat \ {0}
    BY DEF SecretInv, SecretTypes
  <1>1. ASSUME scripts[t] = n PROVE Goal
    BY <1>1, ScriptLasts
  <1>2. ASSUME NEW r \in Runs, Script(r) PROVE Goal
    <2>1. CASE t # r
      <3>1. \E q : Goes(r, q)
        BY <1>0, <1>2, ScriptForms
      <3>2. scripts[t] = n
        BY <1>0, <2>1, <3>1 DEF Goes, SecretTypes
      <3> QED  BY <1>1, <3>2
    <2>2. ASSUME t = r PROVE Goal
      <3> PICK q \in Execution \cup {NotRunning} : q = scripts[r]
        BY <1>0 DEF SecretTypes
      <3>1. \A m : Goes(r, m) => n = m
        BY <1>0, <2>2 DEF Goes, SecretTypes
      <3>2. q \in Execution => ScriptOK(q) /\ ScriptOK(q)'
        BY ScriptLasts DEF SecretInv, ScriptsOK
      <3>3. ASSUME Goes(r, NotRunning) PROVE Goal
        BY <3>1, <3>3, NotRunningForm
      <3>4. ASSUME Goes(r, Started), UNCHANGED step, step <= Len(Procedure),
                   Procedure[step] \in {"dry", "rotate"}
            PROVE  Goal
        <4>1. n.stale = {} /\ (n.dry <=> Procedure[step] = "dry")
          BY <1>0, <3>1, <3>4, StartedForm
        <4>2. ~n.dry => ~Untouched'
          BY <1>0, <3>4, <4>1, Positions, ReachedFirst, ReachesNone
        <4> QED  BY <4>1, <4>2 DEF ScriptOK
      <3>5. ASSUME q \in Execution, UNCHANGED <<rows, given, crossed>>,
                   Goes(r, Selected(q))
            PROVE  Goal
        <4>1. /\ n.pc = "rows" /\ n.dry = q.dry
              /\ \A x \in n.stale :
                   /\ x.id \in Secrets /\ x.row = rows[x.id] /\ x.row \in Row
                   /\ x.row.version # TARGET_VERSION
          BY <1>0, <3>1, <3>5, SelectedForm
        <4>2. \A x \in n.stale : Live(x.id)
          BY <4>1, KeysApart DEF Live
        <4>3. \A x \in n.stale : given[x.id] # 0 /\ Known(x)
          BY <4>1, <4>2 DEF Known, SecretInv, Sealing, NothingReverted
        <4>4. \A x \in n.stale : given'[x.id] # 0 /\ Known(x)'
          BY <3>5, <4>3 DEF Known, Live
        <4>5. ~n.dry => ~Untouched'
          BY <3>2, <3>5, <4>1 DEF ScriptOK
        <4> QED  BY <4>1, <4>4, <4>5 DEF ScriptOK
      <3>6. ASSUME q \in Execution, q.pc = "rows", NEW x \in q.stale,
                   Goes(r, Rotated(q, x, Fails(q, x)))
            PROVE  Goal
        <4>1. Fails(q, x) \in BOOLEAN
          BY <3>6, ExecutionFields DEF Fails
        <4>2. n.pc = "rows" /\ n.dry = q.dry /\ n.stale = q.stale \ {x}
          BY <3>1, <3>6, <4>1, RotatedForm
        <4> QED  BY <3>2, <3>6, <4>2 DEF ScriptOK
      <3>7. ASSUME q \in Execution, q.stale = {}, Goes(r, Turned(q))
            PROVE  Goal
        <4>1. n.stale = {} /\ n.dry = q.dry
          BY <3>1, <3>7, TurnedForm
        <4> QED  BY <3>2, <3>7, <4>1 DEF ScriptOK
      <3> HIDE DEF Goal
      <3> QED
        BY <1>0, <1>2, <3>3, <3>4, <3>5, <3>6, <3>7, ScriptForms
    <2> QED  BY <2>1, <2>2
  <1>3. ASSUME \/ Operator \/ UNCHANGED core
               \/ \E p \in Processes : Restart(p)
               \/ \E s \in Secrets : Delete(s)
               \/ \E p \in Processes, s \in Secrets : Seals(p, s)
        PROVE  Goal
    <2>1. UNCHANGED scripts
      BY <1>0, <1>3, OperatorForms DEF core, Restart, Delete, Write, Seals
    <2> QED  BY <1>1, <2>1
  <1> HIDE DEF Goal
  <1>4. Goal
    BY <1>2, <1>3 DEF SecretNext
  <1> QED  BY <1>4 DEF Goal

LEMMA SecretInit == Init => SecretInv
  <1> SUFFICES ASSUME Init PROVE SecretInv
    OBVIOUS
  <1>1. SecretTypes
    BY SecretTypesInit
  <1>2. /\ step = 1 /\ scripts = [r \in Runs |-> NotRunning]
        /\ deployed.keys = {1} /\ deployed.version = 1
        /\ \A p \in Processes : env[p] = deployed
        /\ \A s \in Secrets :
             /\ rows[s] = IF s \in Seeded THEN Sealed(1, 1) ELSE NoRow
             /\ given[s] = IF s \in Seeded THEN 1 ELSE 0
    BY KeysApart DEF Init, InitSecrets
  <1>3. ~Past("add") /\ ~KeyEverywhere
    <2>1. \A k \in DOMAIN Procedure : ~(k < 1)
      BY MasterKeyAssumption
    <2>2. ~Past("add")
      BY <1>2, <2>1 DEF Past
    <2> QED  BY <1>2, <2>2, ReachedFirst
  <1>4. Deploys
    BY <1>2, <1>3, KeysApart DEF Deploys
  <1>5. /\ Sealed(1, 1).secret = 1 /\ Sealed(1, 1).sealed = 1
        /\ Sealed(1, 1).version = 1
    BY KeysApart, RowFields
  <1>6. Sealing /\ NothingReverted
    BY <1>2, <1>5, KeysApart DEF Sealing, NothingReverted, Live
  <1>7. ScriptsOK
    BY <1>2, NotRunningForm DEF ScriptsOK
  <1> QED  BY <1>1, <1>4, <1>6, <1>7 DEF SecretInv

LEMMA SecretStep == SecretInv /\ [Next]_vars => SecretInv'
  <1>1. SecretInv /\ [Next]_vars => SecretNext
    BY SecretMoves DEF SecretInv
  <1>2. SecretInv /\ SecretNext => SecretTypes'
    BY SecretTypesStep DEF SecretInv
  <1> QED
    BY <1>1, <1>2, DeploysStep, SealingStep, ScriptsStep DEF SecretInv

\* In whatever order the operator takes his steps the invariant of the secrets
\* holds: at each point the processes, the rows and the running executions fit
\* together.
THEOREM SecretsKept == Spec => []SecretInv
  BY SecretInit, SecretStep, PTL DEF Spec

\* Before the script writes, and from the restart with the new key until the
\* old one goes, every process opens every secret (rotate-master-key.mjs
\* beside the writers of the four tables).
THEOREM AlwaysOpenable == Spec => []Openable
  <1>1. SecretInv => Openable
    <2> SUFFICES ASSUME SecretInv, Untouched \/ KeyEverywhere, ~Past("remove"),
                        NEW p \in Processes, NEW s \in Secrets, Live(s)
                 PROVE  Opens(env[p].keys, rows[s])
      BY DEF Openable
    <2>1. rows[s] \in Row
      BY DEF SecretInv, SecretTypes, Live
    <2>2. rows[s].version \in {1, 2} /\ rows[s].sealed = rows[s].version
      BY <2>1, RowFields, KeysApart DEF SecretInv, Sealing
    <2>3. rows[s].version \in env[p].keys
      BY <2>2, KeysApart DEF SecretInv, Sealing, Deploys
    <2> QED  BY <2>2, <2>3 DEF Opens
  <1> QED  BY <1>1, SecretsKept, PTL

\* A secret replaced under another version than an execution of the script
\* read is never put back by it (the WHERE of rotate-master-key.mjs:257-258).
THEOREM NeverReverted == Spec => []NothingReverted
  <1>1. SecretInv => NothingReverted
    BY DEF SecretInv
  <1> QED  BY <1>1, SecretsKept, PTL

-----------------------------------------------------------------------------
(* The ledger: types                                                        *)

States == {"active", "releasing", "orphaned", "released"}
Resource == [made : Nat, stands : BOOLEAN]
Entry == [app : Apps, x : Externals, made : Nat, state : States, attempts : Nat]
OpenRow == [row : Rows, x : Externals, made : Nat, attempts : Nat]

\* What a process may be doing.
MakeTask == [op : {"provision"}, pc : {"create"}, app : Apps,
             provider : {"neon", "turso"}]
HoldTask == [op : {"provision"}, pc : {"token", "record", "undo"}, app : Apps,
             x : Externals, made : Nat]
RowTask == [op : {"provision"}, pc : {"config", "mark", "delete", "released"},
            app : Apps, x : Externals, made : Nat, row : Rows]
ReleaseTask == [op : {"release"}, pc : {"mark", "delete", "released", "failed"},
                app : Apps, row : Rows, x : Externals, made : Nat,
                attempts : Nat, left : SUBSET OpenRow]
Used == {Cardinality(S) : S \in SUBSET Externals} \cup {-1}
PollTask == [op : {"poll"}, pc : {"reading"}, used : Used]
Tasks == {Idle} \cup MakeTask \cup HoldTask \cup RowTask \cup ReleaseTask
           \cup PollTask

LedgerTypes ==
    /\ remote \in [Externals -> Resource]
    /\ ledger \in [Rows -> Entry \cup {NoEntry}]
    /\ tasks \in [Processes -> Tasks]

LEMMA ResourceFields ==
    \A m \in Resource : m.made \in Nat /\ m.stands \in BOOLEAN
  BY DEF Resource

LEMMA EntryFields ==
    /\ \A e \in Entry : /\ e.app \in Apps /\ e.x \in Externals /\ e.made \in Nat
                        /\ e.state \in States /\ e.attempts \in Nat
                        /\ e # NoEntry
    /\ NoEntry.state = "none"
  BY DEF Entry, NoEntry, States

LEMMA OpenRowFields ==
    \A l \in OpenRow : /\ l.row \in Rows /\ l.x \in Externals /\ l.made \in Nat
                       /\ l.attempts \in Nat
  BY DEF OpenRow

\* The place in its program says what a task holds.
LEMMA TaskKinds ==
    ASSUME NEW q \in Tasks
    PROVE  /\ q.pc = "idle" <=> q = Idle
           /\ q.pc = "create" <=> q \in MakeTask
           /\ q.pc \in {"token", "record", "undo"} <=> q \in HoldTask
           /\ q.pc \in {"mark", "delete", "released", "failed", "config"} <=>
                q \in RowTask \cup ReleaseTask
           /\ q \in RowTask => q.op = "provision" /\ q.pc # "failed"
           /\ q \in ReleaseTask => q.op = "release" /\ q.pc # "config"
           /\ q.pc = "reading" <=> q \in PollTask
  <1>1. Idle.pc = "idle"
    BY DEF Idle
  <1>2. \A t \in MakeTask : t.pc = "create"
    BY DEF MakeTask
  <1>3. \A t \in HoldTask : t.pc \in {"token", "record", "undo"}
    BY DEF HoldTask
  <1>4. \A t \in RowTask : /\ t.pc \in {"config", "mark", "delete", "released"}
                           /\ t.op = "provision"
    BY DEF RowTask
  <1>5. \A t \in ReleaseTask :
          /\ t.pc \in {"mark", "delete", "released", "failed"}
          /\ t.op = "release"
    BY DEF ReleaseTask
  <1>6. \A t \in PollTask : t.pc = "reading"
    BY DEF PollTask
  <1> QED  BY <1>1, <1>2, <1>3, <1>4, <1>5, <1>6 DEF Tasks

LEMMA TaskFields ==
    /\ \A q \in MakeTask : q.app \in Apps
    /\ \A q \in HoldTask : q.app \in Apps /\ q.x \in Externals /\ q.made \in Nat
    /\ \A q \in RowTask : /\ q.app \in Apps /\ q.row \in Rows
                          /\ q.x \in Externals /\ q.made \in Nat
    /\ \A q \in ReleaseTask : /\ q.app \in Apps /\ q.row \in Rows
                              /\ q.x \in Externals /\ q.made \in Nat
                              /\ q.attempts \in Nat /\ q.left \subseteq OpenRow
  BY DEF MakeTask, HoldTask, RowTask, ReleaseTask

\* The moves of a task that keeps what it holds.
LEMMA HoldMoves ==
    ASSUME NEW q \in HoldTask, NEW pc \in {"token", "record", "undo"}
    PROVE  /\ [q EXCEPT !.pc = pc] \in HoldTask
           /\ [q EXCEPT !.pc = pc].x = q.x
           /\ [q EXCEPT !.pc = pc].made = q.made
  BY DEF HoldTask

LEMMA RowMoves ==
    ASSUME NEW q \in RowTask, NEW pc \in {"mark", "delete", "released"}
    PROVE  /\ [q EXCEPT !.pc = pc] \in RowTask
           /\ [q EXCEPT !.pc = pc].pc = pc
           /\ [q EXCEPT !.pc = pc].x = q.x /\ [q EXCEPT !.pc = pc].made = q.made
           /\ [q EXCEPT !.pc = pc].row = q.row
  BY DEF RowTask

LEMMA ReleaseMoves ==
    ASSUME NEW q \in ReleaseTask,
           NEW pc \in {"mark", "delete", "released", "failed"}
    PROVE  /\ [q EXCEPT !.pc = pc] \in ReleaseTask
           /\ [q EXCEPT !.pc = pc].pc = pc
           /\ [q EXCEPT !.pc = pc].x = q.x /\ [q EXCEPT !.pc = pc].made = q.made
           /\ [q EXCEPT !.pc = pc].row = q.row
           /\ [q EXCEPT !.pc = pc].left = q.left
  BY DEF ReleaseTask

\* The same, of any task that is at a row of the ledger.
LEMMA RowTaskMoves ==
    ASSUME NEW q \in RowTask \cup ReleaseTask,
           NEW pc \in {"mark", "delete", "released", "failed"},
           pc = "failed" => q.op = "release"
    PROVE  \E t \in RowTask \cup ReleaseTask :
             /\ t = [q EXCEPT !.pc = pc] /\ t.pc = pc
             /\ t.x = q.x /\ t.made = q.made /\ t.row = q.row
             /\ t \in ReleaseTask => q \in ReleaseTask /\ t.left = q.left
  <1> DEFINE t == [q EXCEPT !.pc = pc]
  <1>1. CASE q \in ReleaseTask
    <2>1. /\ t \in ReleaseTask /\ t.pc = pc /\ t.x = q.x /\ t.made = q.made
          /\ t.row = q.row /\ t.left = q.left
      BY <1>1, ReleaseMoves
    <2> HIDE DEF t
    <2> QED  BY <1>1, <2>1 DEF t
  <1>2. CASE q \in RowTask
    <2>1. pc \in {"mark", "delete", "released"}
      BY <1>2 DEF RowTask
    <2>2. /\ t \in RowTask /\ t.pc = pc /\ t.x = q.x /\ t.made = q.made
          /\ t.row = q.row
      BY <1>2, <2>1, RowMoves
    <2>3. t \notin ReleaseTask
      <3> HIDE DEF t
      <3>1. t \in Tasks
        BY <2>2 DEF Tasks
      <3> QED  BY <2>2, <3>1, TaskKinds
    <2> HIDE DEF t
    <2> QED  BY <2>2, <2>3 DEF t
  <1> QED  BY <1>1, <1>2

\* The next row of a release.
Taken(q, l) == [q EXCEPT !.pc = "mark", !.row = l.row, !.x = l.x, !.made = l.made,
                         !.attempts = l.attempts, !.left = q.left \ {l}]

LEMMA TakenForm ==
    ASSUME NEW q \in ReleaseTask, NEW l \in q.left
    PROVE  /\ Taken(q, l) \in ReleaseTask /\ Taken(q, l).pc = "mark"
           /\ Taken(q, l).row = l.row /\ Taken(q, l).x = l.x
           /\ Taken(q, l).made = l.made /\ Taken(q, l).left \subseteq q.left
  <1> DEFINE S == q.left \ {l}
  <1>1. S \in SUBSET OpenRow /\ S \subseteq q.left
    BY TaskFields
  <1>2. l \in OpenRow
    BY TaskFields
  <1>3. /\ l.row \in Rows /\ l.x \in Externals /\ l.made \in Nat
        /\ l.attempts \in Nat
    BY <1>2, OpenRowFields
  <1>4. Taken(q, l) = [q EXCEPT !.pc = "mark", !.row = l.row, !.x = l.x,
                        !.made = l.made, !.attempts = l.attempts, !.left = S]
    BY DEF Taken
  <1> HIDE DEF S
  <1> QED  BY <1>1, <1>3, <1>4 DEF ReleaseTask

-----------------------------------------------------------------------------
(* The invariant of the ledger.                                             *)

Gone(x, made) == ~(remote[x].stands /\ remote[x].made = made)

\* A task or a list entry says of its row what the row says.
Names(l) == /\ ledger[l.row] \in Entry
            /\ ledger[l.row].x = l.x /\ ledger[l.row].made = l.made

TaskOK(q) ==
    /\ q \in HoldTask => q.made <= remote[q.x].made
    /\ q \in RowTask \cup ReleaseTask =>
         Names(q) /\ (q.pc = "released" => Gone(q.x, q.made))
    /\ q \in ReleaseTask => \A l \in q.left : Names(l)

TasksOK == \A p \in Processes, q \in Tasks : tasks[p] = q => TaskOK(q)

LedgerOK ==
    \A r \in Rows : ledger[r] # NoEntry =>
                      ledger[r].made <= remote[ledger[r].x].made

Held(q, x, made) == q \in HoldTask /\ q.x = x /\ q.made = made

\* Somebody knows of the database.
Tracked(x, made) ==
    \/ [name |-> x, made |-> made] \in untracked
    \/ \E p \in Processes : Held(tasks[p], x, made)
    \/ \E r \in Rows : /\ ledger[r] \in Entry /\ ledger[r].state # "released"
                       /\ ledger[r].x = x /\ ledger[r].made = made

AllTracked ==
    \A x \in Externals, m \in Nat :
      remote[x].stands /\ remote[x].made = m => Tracked(x, m)

LedgerInv == /\ LedgerTypes /\ TasksOK /\ LedgerOK /\ ReleasedIsGone
             /\ AllTracked

\* What no step does: databases are made one after the other under a name, and
\* rows keep what they are about.
RemoteKept ==
    \A x \in Externals :
      \/ remote'[x] = remote[x]
      \/ remote'[x].made = remote[x].made /\ ~remote'[x].stands
      \/ ~remote[x].stands /\ remote'[x].made = remote[x].made + 1

LedgerKept ==
    \A r \in Rows : ledger[r] \in Entry =>
      /\ ledger'[r] \in Entry
      /\ ledger'[r].x = ledger[r].x /\ ledger'[r].made = ledger[r].made

LEMMA StaysGone ==
    ASSUME LedgerTypes, RemoteKept, NEW x \in Externals, NEW m \in Nat,
           m <= remote[x].made
    PROVE  /\ m <= remote'[x].made
           /\ Gone(x, m) => Gone(x, m)'
  <1>1. remote[x].made \in Nat
    BY ResourceFields DEF LedgerTypes
  <1>2. \/ remote'[x] = remote[x]
        \/ remote'[x].made = remote[x].made /\ ~remote'[x].stands
        \/ ~remote[x].stands /\ remote'[x].made = remote[x].made + 1
    BY DEF RemoteKept
  <1> QED  BY <1>1, <1>2 DEF Gone

LEMMA StaysNamed ==
    ASSUME LedgerKept, NEW l, l.row \in Rows, Names(l)
    PROVE  Names(l)'
  BY DEF Names, LedgerKept

LEMMA TaskLasts ==
    ASSUME LedgerTypes, LedgerOK, RemoteKept, LedgerKept,
           NEW q \in Tasks, TaskOK(q)
    PROVE  TaskOK(q)'
  <1>1. ASSUME q \in HoldTask PROVE q.made <= remote'[q.x].made
    BY <1>1, TaskFields, StaysGone DEF TaskOK
  <1>2. ASSUME q \in RowTask \cup ReleaseTask
        PROVE  Names(q)' /\ (q.pc = "released" => Gone(q.x, q.made)')
    <2>1. q.row \in Rows /\ q.x \in Externals /\ q.made \in Nat
      BY <1>2, TaskFields
    <2>2. Names(q) /\ (q.pc = "released" => Gone(q.x, q.made))
      BY <1>2 DEF TaskOK
    <2>3. q.made <= remote[q.x].made
      BY <2>1, <2>2, EntryFields DEF Names, LedgerOK
    <2> QED  BY <2>1, <2>2, <2>3, StaysNamed, StaysGone
  <1>3. ASSUME q \in ReleaseTask, NEW l \in q.left PROVE Names(l)'
    <2>1. l.row \in Rows /\ Names(l)
      BY <1>3, TaskFields, OpenRowFields DEF TaskOK
    <2> QED  BY <2>1, StaysNamed
  <1> QED  BY <1>1, <1>2, <1>3 DEF TaskOK

\* A step of process p, whose task becomes t.
LEMMA LedgerMoves ==
    ASSUME LedgerInv, NEW p \in Processes, NEW t \in Tasks,
           tasks' = [tasks EXCEPT ![p] = t],
           remote' \in [Externals -> Resource],
           ledger' \in [Rows -> Entry \cup {NoEntry}],
           RemoteKept, LedgerKept, untracked \subseteq untracked',
           TaskOK(t)',
           \A r \in Rows :
             ledger'[r] \in Entry /\ ledger[r] = NoEntry =>
               ledger'[r].made <= remote'[ledger'[r].x].made,
           \A r \in Rows :
             ledger'[r].state = "released" =>
               \/ ledger[r].state = "released"
               \/ /\ remote' = remote /\ tasks[p].pc = "released"
                  /\ tasks[p].row = r /\ tasks[p] \in RowTask \cup ReleaseTask,
           \A x \in Externals, m \in Nat :
             /\ Held(tasks[p], x, m) \/ remote[x].made # m
             /\ remote'[x].stands /\ remote'[x].made = m
             => Tracked(x, m)'
    PROVE  LedgerInv'
  <1>0. LedgerTypes /\ TasksOK /\ LedgerOK /\ ReleasedIsGone /\ AllTracked
    BY DEF LedgerInv
  <1>1. \A v \in Processes : tasks'[v] = IF v = p THEN t ELSE tasks[v]
    BY <1>0 DEF LedgerTypes
  <1>2. LedgerTypes'
    BY <1>0 DEF LedgerTypes
  <1>3. TasksOK'
    <2> SUFFICES ASSUME NEW v \in Processes, NEW q \in Tasks, tasks'[v] = q
                 PROVE  TaskOK(q)'
      BY DEF TasksOK
    <2>1. CASE v = p
      BY <1>1, <2>1
    <2>2. CASE v # p
      <3>1. TaskOK(q)
        BY <1>0, <1>1, <2>2 DEF TasksOK
      <3> QED  BY <1>0, <3>1, TaskLasts
    <2> QED  BY <2>1, <2>2
  <1>4. LedgerOK'
    <2> SUFFICES ASSUME NEW r \in Rows, ledger'[r] # NoEntry
                 PROVE  ledger'[r].made <= remote'[ledger'[r].x].made
      BY DEF LedgerOK
    <2>1. ledger'[r] \in Entry /\ (ledger[r] \in Entry \/ ledger[r] = NoEntry)
      BY <1>0 DEF LedgerTypes
    <2>2. CASE ledger[r] = NoEntry
      BY <2>1, <2>2
    <2>3. CASE ledger[r] \in Entry
      <3>1. /\ ledger'[r].x = ledger[r].x /\ ledger'[r].made = ledger[r].made
            /\ ledger[r].x \in Externals /\ ledger[r].made \in Nat
            /\ ledger[r].made <= remote[ledger[r].x].made
        BY <1>0, <2>3, EntryFields DEF LedgerKept, LedgerOK
      <3> QED  BY <1>0, <3>1, StaysGone
    <2> QED  BY <2>1, <2>2, <2>3
  <1>5. ReleasedIsGone'
    <2> SUFFICES ASSUME NEW r \in Rows, ledger'[r].state = "released"
                 PROVE  ~(/\ remote'[ledger'[r].x].stands
                          /\ remote'[ledger'[r].x].made = ledger'[r].made)
      BY DEF ReleasedIsGone
    <2>1. CASE ledger[r].state = "released"
      <3>1. ledger[r] \in Entry
        BY <1>0, <2>1, EntryFields DEF LedgerTypes
      <3>2. /\ ledger'[r].x = ledger[r].x /\ ledger'[r].made = ledger[r].made
            /\ ledger[r].x \in Externals /\ ledger[r].made \in Nat
            /\ ledger[r].made <= remote[ledger[r].x].made
            /\ Gone(ledger[r].x, ledger[r].made)
        BY <1>0, <2>1, <3>1, EntryFields
        DEF LedgerKept, LedgerOK, ReleasedIsGone, Gone
      <3> PICK x \in Externals, m \in Nat : x = ledger[r].x /\ m = ledger[r].made
        BY <3>2
      <3>3. Gone(x, m)'
        BY <1>0, <3>2, StaysGone
      <3> QED  BY <3>2, <3>3 DEF Gone
    <2>2. CASE /\ remote' = remote /\ tasks[p].pc = "released"
               /\ tasks[p].row = r /\ tasks[p] \in RowTask \cup ReleaseTask
      <3> PICK q \in Tasks : q = tasks[p]
        BY <1>0 DEF LedgerTypes
      <3>1. TaskOK(q)
        BY <1>0 DEF TasksOK
      <3>2. /\ ledger[r] \in Entry /\ ledger[r].x = q.x
            /\ ledger[r].made = q.made /\ Gone(q.x, q.made)
        BY <2>2, <3>1 DEF TaskOK, Names
      <3>3. ledger'[r].x = q.x /\ ledger'[r].made = q.made
        BY <3>2 DEF LedgerKept
      <3> QED  BY <2>2, <3>2, <3>3 DEF Gone
    <2> QED  BY <2>1, <2>2
  <1>6. AllTracked'
    <2> SUFFICES ASSUME NEW x \in Externals, NEW m \in Nat,
                        remote'[x].stands, remote'[x].made = m
                 PROVE  Tracked(x, m)'
      BY DEF AllTracked
    <2>1. CASE Held(tasks[p], x, m) \/ remote[x].made # m
      BY <2>1
    <2>2. CASE ~Held(tasks[p], x, m) /\ remote[x].made = m
      <3>1. remote'[x] = remote[x]
        BY <2>2 DEF RemoteKept
      <3>2. Tracked(x, m)
        BY <1>0, <2>2, <3>1 DEF AllTracked
      <3>3. CASE [name |-> x, made |-> m] \in untracked
        BY <3>3 DEF Tracked
      <3>4. CASE \E v \in Processes : Held(tasks[v], x, m)
        <4>1. PICK v \in Processes : Held(tasks[v], x, m)
          BY <3>4
        <4>2. tasks'[v] = tasks[v]
          BY <1>1, <2>2, <4>1
        <4> QED  BY <4>1, <4>2 DEF Tracked, Held
      <3>5. CASE \E r \in Rows : /\ ledger[r] \in Entry
                                 /\ ledger[r].state # "released"
                                 /\ ledger[r].x = x /\ ledger[r].made = m
        <4>1. PICK r \in Rows : /\ ledger[r] \in Entry
                                /\ ledger[r].state # "released"
                                /\ ledger[r].x = x /\ ledger[r].made = m
          BY <3>5
        <4>2. /\ ledger'[r] \in Entry /\ ledger'[r].x = x
              /\ ledger'[r].made = m
          BY <4>1 DEF LedgerKept
        <4>3. ledger'[r].state # "released"
          BY <1>5, <4>2 DEF ReleasedIsGone
        <4> QED  BY <4>2, <4>3 DEF Tracked
      <3> QED  BY <3>2, <3>3, <3>4, <3>5 DEF Tracked
    <2> QED  BY <2>1, <2>2
  <1> QED  BY <1>2, <1>3, <1>4, <1>5, <1>6 DEF LedgerInv

\* The same for a step that touches neither the provider nor the ledger.
LEMMA TaskMoves ==
    ASSUME LedgerInv, NEW p \in Processes, NEW t \in Tasks,
           tasks' = [tasks EXCEPT ![p] = t], UNCHANGED <<remote, ledger>>,
           untracked \subseteq untracked', TaskOK(t),
           tasks[p] \in HoldTask =>
             \/ /\ t \in HoldTask /\ t.x = tasks[p].x
                /\ t.made = tasks[p].made
             \/ [name |-> tasks[p].x, made |-> tasks[p].made] \in untracked'
    PROVE  LedgerInv'
  <1>1. LedgerTypes
    BY DEF LedgerInv
  <1>2. RemoteKept /\ LedgerKept
    BY DEF RemoteKept, LedgerKept
  <1>3. /\ remote' \in [Externals -> Resource]
        /\ ledger' \in [Rows -> Entry \cup {NoEntry}]
    BY <1>1 DEF LedgerTypes
  <1>4. TaskOK(t)'
    BY DEF TaskOK, Names, Gone
  <1>5. \A x \in Externals, m \in Nat :
          Held(tasks[p], x, m) => Tracked(x, m)'
    <2> SUFFICES ASSUME NEW x \in Externals, NEW m \in Nat, Held(tasks[p], x, m)
                 PROVE  Tracked(x, m)'
      OBVIOUS
    <2>1. tasks'[p] = t
      BY <1>1 DEF LedgerTypes
    <2>2. CASE [name |-> x, made |-> m] \in untracked'
      BY <2>2 DEF Tracked
    <2>3. CASE t \in HoldTask /\ t.x = x /\ t.made = m
      <3>1. Held(tasks[p], x, m)'
        BY <2>1, <2>3 DEF Held
      <3> QED  BY <3>1 DEF Tracked
    <2> QED  BY <2>2, <2>3 DEF Held
  <1>6. \A r \in Rows :
             ledger'[r] \in Entry /\ ledger[r] = NoEntry =>
               ledger'[r].made <= remote'[ledger'[r].x].made
    BY EntryFields
  <1>7. \A x \in Externals, m \in Nat :
             /\ Held(tasks[p], x, m) \/ remote[x].made # m
             /\ remote'[x].stands /\ remote'[x].made = m
             => Tracked(x, m)'
    BY <1>5
  <1> QED  BY <1>2, <1>3, <1>4, <1>6, <1>7, LedgerMoves

-----------------------------------------------------------------------------
(* The steps, one by one.                                                   *)

LEMMA CreatedForm ==
    ASSUME LedgerTypes, NEW x \in Externals, Makes(x), Created(x)
    PROVE  /\ remote' \in [Externals -> Resource] /\ RemoteKept
           /\ remote'[x].made = remote[x].made + 1
           /\ remote[x].made + 1 \in Nat
           /\ \A y \in Externals : y # x => remote'[y] = remote[y]
  <1> DEFINE k == remote[x].made + 1
  <1>1. k \in Nat /\ remote \in [Externals -> Resource]
    BY ResourceFields DEF LedgerTypes
  <1>2. remote' = [remote EXCEPT ![x] = [made |-> k, stands |-> TRUE]]
    BY DEF Created
  <1>3. ~remote[x].stands
    BY DEF Makes
  <1> HIDE DEF k
  <1>4. [made |-> k, stands |-> TRUE] \in Resource
    BY <1>1 DEF Resource
  <1>5. /\ remote' \in [Externals -> Resource] /\ remote'[x].made = k
        /\ \A y \in Externals : y # x => remote'[y] = remote[y]
    BY <1>1, <1>2, <1>4
  <1> QED  BY <1>1, <1>3, <1>5 DEF RemoteKept, k

LEMMA RemovedForm ==
    ASSUME LedgerTypes, NEW x \in Externals, Removed(x)
    PROVE  /\ remote' \in [Externals -> Resource] /\ RemoteKept
           /\ ~remote'[x].stands
           /\ \A y \in Externals : /\ remote'[y].made = remote[y].made
                                   /\ y # x => remote'[y] = remote[y]
  <1>1. remote \in [Externals -> Resource]
    BY DEF LedgerTypes
  <1>2. \A m \in Resource : /\ [m EXCEPT !.stands = FALSE] \in Resource
                            /\ [m EXCEPT !.stands = FALSE].made = m.made
                            /\ ~[m EXCEPT !.stands = FALSE].stands
    BY DEF Resource
  <1>3. remote' = [remote EXCEPT ![x] = [remote[x] EXCEPT !.stands = FALSE]]
    BY DEF Removed
  <1>4. remote' \in [Externals -> Resource]
    BY <1>1, <1>2, <1>3
  <1>5. \A y \in Externals :
          remote'[y] = IF y = x THEN [remote[x] EXCEPT !.stands = FALSE]
                                ELSE remote[y]
    BY <1>1, <1>3
  <1> QED  BY <1>1, <1>2, <1>4, <1>5 DEF RemoteKept

LEMMA FreshOK ==
    ASSUME NEW t \in {Idle} \cup MakeTask \cup PollTask
    PROVE  t \in Tasks /\ TaskOK(t) /\ t \notin HoldTask
  <1>1. t \in Tasks
    BY DEF Tasks
  <1>2. t.pc \in {"idle", "create", "reading"}
    BY <1>1, TaskKinds
  <1>3. t \notin HoldTask /\ t \notin RowTask /\ t \notin ReleaseTask
    BY <1>1, <1>2, TaskKinds
  <1> QED  BY <1>1, <1>3 DEF TaskOK

LEMMA TaskNow ==
    ASSUME LedgerInv, NEW p \in Processes
    PROVE  /\ tasks[p] \in Tasks
           /\ \A q \in Tasks : q = tasks[p] => TaskOK(q)
  BY DEF LedgerInv, LedgerTypes, TasksOK

\* A process that is idle takes up something new.
LEMMA StartsStep ==
    ASSUME LedgerInv, NEW p \in Processes,
           \/ \E a \in Apps, provider \in {"neon", "turso"} :
                provisionForApp(p, a, provider)
           \/ refreshQuotas(p)
           \/ \E a \in Apps : releaseAppResources(p, a)
    PROVE  LedgerInv'
  <1>1. /\ tasks[p] \notin HoldTask
        /\ UNCHANGED <<remote, ledger, untracked>>
    <2>1. /\ tasks[p].pc = "idle"
          /\ UNCHANGED <<remote, ledger, untracked>>
      BY DEF provisionForApp, refreshQuotas, releaseAppResources, Begins
    <2> QED  BY <2>1, TaskNow, TaskKinds
  <1>2. ASSUME NEW t \in Tasks, To(p, t), TaskOK(t) PROVE LedgerInv'
    BY <1>1, <1>2, TaskMoves DEF To
  <1>3. ASSUME NEW a \in Apps, NEW provider \in {"neon", "turso"},
               provisionForApp(p, a, provider)
        PROVE  LedgerInv'
    <2> DEFINE t == [op |-> "provision", pc |-> "create", app |-> a,
                     provider |-> provider]
    <2>1. t \in MakeTask
      BY DEF MakeTask
    <2>2. To(p, t)
      BY <1>3 DEF provisionForApp
    <2> HIDE DEF t
    <2> QED  BY <1>2, <2>1, <2>2, FreshOK
  <1>4. ASSUME NEW n \in Used,
               To(p, [op |-> "poll", pc |-> "reading", used |-> n])
        PROVE  LedgerInv'
    <2> DEFINE t == [op |-> "poll", pc |-> "reading", used |-> n]
    <2>1. t \in PollTask
      BY DEF PollTask
    <2> HIDE DEF t
    <2> QED  BY <1>2, <1>4, <2>1, FreshOK DEF t
  <1>5. ASSUME refreshQuotas(p) PROVE LedgerInv'
    <2>1. CASE To(p, [op |-> "poll", pc |-> "reading", used |-> -1])
      BY <1>4, <2>1 DEF Used
    <2>2. CASE To(p, [op |-> "poll", pc |-> "reading",
                      used |-> Cardinality(Standing)])
      BY <1>4, <2>2 DEF Standing, Used
    <2> QED  BY <1>5, <2>1, <2>2 DEF refreshQuotas
  <1>6. ASSUME NEW a \in Apps, releaseAppResources(p, a) PROVE LedgerInv'
    <2> DEFINE open == {[row |-> r, x |-> ledger[r].x, made |-> ledger[r].made,
                         attempts |-> ledger[r].attempts] :
                          r \in {y \in Rows : /\ ledger[y] # NoEntry
                                              /\ ledger[y].app = a
                                              /\ ledger[y].state # "released"}}
               Task(l) == [op |-> "release", pc |-> "mark", app |-> a,
                           row |-> l.row, x |-> l.x, made |-> l.made,
                           attempts |-> l.attempts, left |-> open \ {l}]
    <2>1. \A r \in Rows : ledger[r] # NoEntry => ledger[r] \in Entry
      BY DEF LedgerInv, LedgerTypes
    <2>2. open \subseteq OpenRow
      BY <2>1, EntryFields DEF OpenRow
    <2>3. \A l \in open : Names(l)
      BY <2>1 DEF Names
    <2>4. PICK l \in open : To(p, Task(l))
      BY <1>6 DEF releaseAppResources
    <2> DEFINE S == open \ {l}
               t == [op |-> "release", pc |-> "mark", app |-> a,
                     row |-> l.row, x |-> l.x, made |-> l.made,
                     attempts |-> l.attempts, left |-> S]
    <2>5. To(p, t) /\ Names(l) /\ l \in OpenRow
      BY <2>2, <2>3, <2>4
    <2>6. S \subseteq OpenRow /\ \A m \in S : Names(m)
      BY <2>2, <2>3
    <2> HIDE DEF open, S
    <2>7. /\ l.row \in Rows /\ l.x \in Externals /\ l.made \in Nat
          /\ l.attempts \in Nat
      BY <2>5, OpenRowFields
    <2>8. /\ t \in ReleaseTask /\ t.pc = "mark" /\ t.row = l.row /\ t.x = l.x
          /\ t.made = l.made /\ t.left = S
      BY <2>6, <2>7 DEF ReleaseTask
    <2> HIDE DEF t
    <2>9. t \in Tasks /\ t \notin HoldTask
      BY <2>8, TaskKinds DEF Tasks
    <2>10. TaskOK(t)
      BY <2>5, <2>6, <2>8, <2>9 DEF TaskOK, Names
    <2> QED  BY <1>2, <2>5, <2>9, <2>10
  <1> QED  BY <1>3, <1>5, <1>6

\* The provider makes a database; the task holds it, or nobody was told.
LEMMA CreateStep ==
    ASSUME LedgerInv, NEW p \in Processes,
           \/ \E x \in Externals : CreateDatabase(p, x) \/ CreateProject(p, x)
           \/ CreateFails(p)
    PROVE  LedgerInv'
  <1> PICK q \in Tasks : q = tasks[p]
    BY TaskNow
  <1>0. LedgerTypes
    BY DEF LedgerInv
  <1>1. q \in MakeTask /\ q \notin HoldTask /\ ledger' = ledger
    <2>1. q.pc = "create" /\ ledger' = ledger
      BY DEF CreateDatabase, CreateProject, CreateFails, At
    <2> QED  BY <2>1, TaskKinds
  <1>2. \A x \in NameFor(q) : x \in Externals
    BY <1>1, TaskFields DEF NameFor, Externals
  <1>3. ASSUME NEW x \in Externals, Makes(x), Created(x), NEW t \in Tasks,
               NEW k, k = remote[x].made + 1,
               To(p, t), TaskOK(t)', untracked \subseteq untracked',
               Held(t, x, k) \/ [name |-> x, made |-> k] \in untracked'
        PROVE  LedgerInv'
    <2>1. /\ remote' \in [Externals -> Resource] /\ RemoteKept
          /\ remote'[x].made = k
          /\ \A y \in Externals : y # x => remote'[y] = remote[y]
      BY <1>0, <1>3, CreatedForm
    <2>2. /\ ledger' \in [Rows -> Entry \cup {NoEntry}] /\ LedgerKept
          /\ \A r \in Rows : ~(ledger'[r] \in Entry /\ ledger[r] = NoEntry)
          /\ \A r \in Rows : ledger'[r].state = "released"
                               => ledger[r].state = "released"
      BY <1>0, <1>1, EntryFields DEF LedgerTypes, LedgerKept
    <2>3. Tracked(x, k)'
      <3>1. CASE [name |-> x, made |-> k] \in untracked'
        BY <3>1 DEF Tracked
      <3>2. CASE Held(t, x, k)
        <4>1. tasks'[p] = t
          BY <1>0, <1>3 DEF LedgerTypes, To
        <4> QED  BY <3>2, <4>1 DEF Tracked, Held
      <3> QED  BY <1>3, <3>1, <3>2
    <2>4. \A y \in Externals, m \in Nat :
             /\ Held(tasks[p], y, m) \/ remote[y].made # m
             /\ remote'[y].stands /\ remote'[y].made = m
             => Tracked(y, m)'
      BY <1>1, <2>1, <2>3 DEF Held
    <2> QED  BY <1>3, <2>1, <2>2, <2>4, LedgerMoves DEF To
  <1>4. ASSUME NEW x \in Externals, Makes(x), Created(x), untracked' = untracked,
               NEW pc \in {"token", "record", "undo"}, Holding(p, pc, x)
        PROVE  LedgerInv'
    <2>1. PICK k \in Nat : k = remote[x].made + 1 /\ remote'[x].made = k
      BY <1>0, <1>4, CreatedForm
    <2>2. PICK t \in HoldTask : To(p, t) /\ t.x = x /\ t.made = k
      <3> DEFINE u == [op |-> "provision", pc |-> pc, app |-> q.app, x |-> x,
                       made |-> k]
      <3>1. u \in HoldTask /\ u.x = x /\ u.made = k
        BY <1>1, <1>4, TaskFields DEF HoldTask
      <3>2. To(p, u)
        BY <1>4, <2>1 DEF Holding
      <3> HIDE DEF u
      <3> QED  BY <3>1, <3>2
    <2>3. t \in Tasks /\ t \notin RowTask /\ t \notin ReleaseTask
      <3>1. t \in Tasks
        BY DEF Tasks
      <3> QED  BY <3>1, TaskKinds
    <2>4. TaskOK(t)'
      BY <2>1, <2>2, <2>3 DEF TaskOK
    <2> QED  BY <1>3, <1>4, <2>1, <2>2, <2>3, <2>4 DEF Held
  <1>5. ASSUME NEW x \in Externals, CreateDatabase(p, x) \/ CreateProject(p, x)
        PROVE  LedgerInv'
    BY <1>4, <1>5 DEF CreateDatabase, CreateProject
  <1>6. ASSUME CreateFails(p) PROVE LedgerInv'
    <2>1. To(p, Idle)
      BY <1>6 DEF CreateFails, Ends
    <2>2. CASE UNCHANGED <<remote, untracked>>
      <3>1. Idle \in Tasks /\ TaskOK(Idle)
        BY FreshOK
      <3> QED  BY <1>1, <2>1, <2>2, <3>1, TaskMoves DEF To
    <2>3. ASSUME NEW x \in NameFor(q), Makes(x), Created(x),
                 untracked' = untracked
                   \cup {[name |-> x, made |-> remote[x].made + 1]}
          PROVE  LedgerInv'
      <3> PICK k : k = remote[x].made + 1
        OBVIOUS
      <3>1. /\ untracked \subseteq untracked'
            /\ [name |-> x, made |-> k] \in untracked'
        BY <2>3
      <3>3. x \in Externals
        BY <1>2, <2>3
      <3>4. TaskOK(Idle)' /\ Idle \in Tasks
        <4>1. Idle \in Tasks /\ Idle.pc = "idle"
          BY DEF Tasks, Idle
        <4> QED  BY <4>1, TaskKinds DEF TaskOK
      <3> QED  BY <1>3, <2>1, <2>3, <3>1, <3>3, <3>4
    <2>4. \/ UNCHANGED <<remote, untracked>>
          \/ \E x \in NameFor(q) :
               /\ Makes(x) /\ Created(x)
               /\ untracked' = untracked
                    \cup {[name |-> x, made |-> remote[x].made + 1]}
      BY <1>6 DEF CreateFails
    <2> QED  BY <2>2, <2>3, <2>4
  <1> QED  BY <1>5, <1>6

\* Steps that only move a task, or end it.
LEMMA IdleOK == Idle \in Tasks /\ TaskOK(Idle) /\ TaskOK(Idle)'
  <1>1. Idle \in Tasks /\ Idle.pc = "idle"
    BY DEF Tasks, Idle
  <1> QED  BY <1>1, TaskKinds DEF TaskOK

LEMMA QuietStep ==
    ASSUME LedgerInv, NEW p \in Processes,
           \/ MintToken(p) \/ MintFails(p) \/ RecordFails(p) \/ ConfigFails(p)
           \/ \E s \in Secrets : upsertDatabaseConfig(p, s)
           \/ collectUsageInto(p) \/ Crash(p) \/ (Restart(p) /\ Drops(p))
    PROVE  LedgerInv'
  <1> PICK q \in Tasks : q = tasks[p] /\ TaskOK(q)
    BY TaskNow
  <1>1. ASSUME NEW pc \in {"token", "record", "undo"}, Moves(p, pc),
               q.pc \in {"token", "record", "undo"},
               UNCHANGED <<remote, ledger, untracked>>
        PROVE  LedgerInv'
    <2> DEFINE t == [q EXCEPT !.pc = pc]
    <2>1. q \in HoldTask
      BY <1>1, TaskKinds
    <2>2. t \in HoldTask /\ t.x = q.x /\ t.made = q.made /\ To(p, t)
      BY <1>1, <2>1, HoldMoves DEF Moves
    <2> HIDE DEF t
    <2>3. t \in Tasks /\ t \notin RowTask /\ t \notin ReleaseTask
      <3>1. t \in Tasks
        BY <2>2 DEF Tasks
      <3> QED  BY <2>2, <3>1, TaskKinds
    <2>4. TaskOK(t)
      BY <2>1, <2>2, <2>3 DEF TaskOK
    <2> QED  BY <1>1, <2>2, <2>3, <2>4, TaskMoves DEF To
  <1>2. ASSUME MintToken(p) \/ MintFails(p) \/ RecordFails(p) PROVE LedgerInv'
    BY <1>1, <1>2 DEF MintToken, MintFails, RecordFails, At
  <1>3. ASSUME ConfigFails(p) PROVE LedgerInv'
    <2> DEFINE t == [q EXCEPT !.pc = "mark"]
    <2>1. q.pc = "config" /\ To(p, t) /\ UNCHANGED <<remote, ledger, untracked>>
      BY <1>3 DEF ConfigFails, At
    <2>2. q \in RowTask /\ q \notin HoldTask
      BY <2>1, TaskKinds
    <2>3. /\ t \in RowTask /\ t.pc = "mark" /\ t.x = q.x /\ t.made = q.made
          /\ t.row = q.row
      BY <2>2, RowMoves
    <2> HIDE DEF t
    <2>4. t \in Tasks /\ t \notin ReleaseTask /\ t \notin HoldTask
      <3>1. t \in Tasks
        BY <2>3 DEF Tasks
      <3> QED  BY <2>3, <3>1, TaskKinds
    <2>5. TaskOK(t)
      BY <2>2, <2>3, <2>4 DEF TaskOK, Names
    <2> QED  BY <2>1, <2>2, <2>4, <2>5, TaskMoves DEF To
  <1>4. ASSUME Ends(p), UNCHANGED <<remote, ledger>>,
               untracked \subseteq untracked',
               q \in HoldTask => [name |-> q.x, made |-> q.made] \in untracked'
        PROVE  LedgerInv'
    BY <1>4, IdleOK, TaskMoves DEF To, Ends
  <1>5. ASSUME \/ \E s \in Secrets : upsertDatabaseConfig(p, s)
               \/ collectUsageInto(p)
        PROVE  LedgerInv'
    <2>1. /\ q.pc \in {"config", "reading"} /\ Ends(p)
          /\ UNCHANGED <<remote, ledger, untracked>>
      BY <1>5 DEF upsertDatabaseConfig, collectUsageInto, At
    <2>2. q \notin HoldTask
      BY <2>1, TaskKinds
    <2> QED  BY <1>4, <2>1, <2>2
  <1>6. ASSUME Drops(p) PROVE LedgerInv'
    <2>1. /\ Ends(p) /\ UNCHANGED <<remote, ledger>>
          /\ untracked' = IF q.pc \in {"token", "record", "undo"}
                          THEN untracked \cup {[name |-> q.x, made |-> q.made]}
                          ELSE untracked
      BY <1>6 DEF Drops
    <2>2. q.pc \in {"token", "record", "undo"} <=> q \in HoldTask
      BY TaskKinds
    <2> QED  BY <1>4, <2>1, <2>2
  <1> QED  BY <1>2, <1>3, <1>5, <1>6 DEF Crash

\* A database is removed, or the provider does not answer.
LEMMA RemoveStep ==
    ASSUME LedgerInv, NEW p \in Processes, Undo(p) \/ deprovision(p)
    PROVE  LedgerInv'
  <1> PICK q \in Tasks : q = tasks[p] /\ TaskOK(q)
    BY TaskNow
  <1>0. LedgerTypes
    BY DEF LedgerInv
  <1>1. ASSUME NEW x \in Externals, Removed(x) \/ UNCHANGED remote,
               NEW t \in Tasks, To(p, t), TaskOK(t)', UNCHANGED ledger,
               untracked \subseteq untracked',
               \A m \in Nat : Held(q, x, m) /\ remote'[x].stands
                                /\ remote'[x].made = m
                              => [name |-> x, made |-> m] \in untracked',
               q \in HoldTask => q.x = x
        PROVE  LedgerInv'
    <2>1. /\ remote' \in [Externals -> Resource] /\ RemoteKept
          /\ \A y \in Externals : remote'[y].made = remote[y].made
      <3>1. CASE Removed(x)
        BY <1>0, <3>1, RemovedForm
      <3>2. CASE UNCHANGED remote
        BY <1>0, <3>2 DEF LedgerTypes, RemoteKept
      <3> QED  BY <1>1, <3>1, <3>2
    <2>2. /\ ledger' \in [Rows -> Entry \cup {NoEntry}] /\ LedgerKept
          /\ \A r \in Rows : ~(ledger'[r] \in Entry /\ ledger[r] = NoEntry)
          /\ \A r \in Rows : ledger'[r].state = "released"
                               => ledger[r].state = "released"
      BY <1>0, <1>1, EntryFields DEF LedgerTypes, LedgerKept
    <2>3. \A y \in Externals, m \in Nat :
             /\ Held(tasks[p], y, m) \/ remote[y].made # m
             /\ remote'[y].stands /\ remote'[y].made = m
             => Tracked(y, m)'
      <3> SUFFICES ASSUME NEW y \in Externals, NEW m \in Nat,
                          Held(tasks[p], y, m), remote'[y].stands,
                          remote'[y].made = m
                   PROVE  Tracked(y, m)'
        BY <2>1
      <3>1. y = x
        BY <1>1 DEF Held
      <3> QED  BY <1>1, <3>1 DEF Tracked
    <2> QED  BY <1>1, <2>1, <2>2, <2>3, LedgerMoves DEF To
  <1>2. ASSUME Undo(p) PROVE LedgerInv'
    <2>1. q.pc = "undo" /\ To(p, Idle) /\ UNCHANGED ledger
      BY <1>2 DEF Undo, At, Ends
    <2>2. q \in HoldTask /\ q.x \in Externals
      BY <2>1, TaskKinds, TaskFields
    <2>3. \/ Removed(q.x) /\ UNCHANGED untracked
          \/ Loses(q.x) /\ (Removed(q.x) \/ UNCHANGED remote)
      BY <1>2 DEF Undo
    <2>4. \A m \in Nat : Held(q, q.x, m) /\ remote'[q.x].stands
                           /\ remote'[q.x].made = m
                         => [name |-> q.x, made |-> m] \in untracked'
      <3>1. Removed(q.x) => ~remote'[q.x].stands
        BY <1>0, <2>2, RemovedForm
      <3>2. UNCHANGED remote /\ Loses(q.x) =>
              [name |-> q.x, made |-> remote'[q.x].made] \in untracked'
        BY DEF Loses, Database
      <3> QED  BY <2>3, <3>1, <3>2
    <2>5. untracked \subseteq untracked'
      BY <2>3 DEF Loses
    <2> QED  BY <1>1, <2>1, <2>2, <2>3, <2>4, <2>5, IdleOK
  <1>3. ASSUME deprovision(p) PROVE LedgerInv'
    <2>1. q.pc = "delete" /\ UNCHANGED <<ledger, untracked>>
      BY <1>3 DEF deprovision, At
    <2>2. q \in RowTask \cup ReleaseTask /\ q \notin HoldTask
      BY <2>1, TaskKinds
    <2>3. q.x \in Externals /\ q.made \in Nat /\ q.row \in Rows
      BY <2>2, TaskFields
    <2>4. \A m \in Nat : ~Held(q, q.x, m)
      BY <2>2 DEF Held
    <2>5. Names(q)' /\ (q \in ReleaseTask => \A l \in q.left : Names(l)')
      BY <2>1, <2>2 DEF TaskOK, Names
    <2>6. \/ Removed(q.x) /\ Moves(p, "released")
          \/ /\ Removed(q.x) \/ UNCHANGED remote
             /\ IF q.op = "release" THEN Moves(p, "failed") ELSE Ends(p)
      BY <1>3 DEF deprovision
    <2>7. ASSUME NEW t \in RowTask \cup ReleaseTask, To(p, t),
                 t.x = q.x, t.made = q.made, t.row = q.row,
                 t \in ReleaseTask => q \in ReleaseTask /\ t.left = q.left,
                 Removed(q.x) \/ UNCHANGED remote,
                 t.pc = "released" => Removed(q.x)
          PROVE  LedgerInv'
      <3>1. t \in Tasks
        BY DEF Tasks
      <3>2. t \notin HoldTask
        BY <3>1, TaskKinds
      <3>3. t.pc = "released" => Gone(t.x, t.made)'
        <4>1. Removed(q.x) => ~remote'[q.x].stands
          BY <1>0, <2>3, RemovedForm
        <4> QED  BY <2>7, <4>1 DEF Gone
      <3>4. TaskOK(t)'
        BY <2>5, <2>7, <3>2, <3>3 DEF TaskOK, Names
      <3> QED  BY <1>1, <2>1, <2>2, <2>3, <2>4, <2>7, <3>1, <3>4
    <2>8. ASSUME NEW pc \in {"released", "failed"}, Moves(p, pc),
                 pc = "failed" => q.op = "release",
                 pc = "released" => Removed(q.x), Removed(q.x) \/ UNCHANGED remote
          PROVE  LedgerInv'
      <3>0. pc \in {"mark", "delete", "released", "failed"}
        OBVIOUS
      <3>1. PICK t \in RowTask \cup ReleaseTask :
              /\ t = [q EXCEPT !.pc = pc] /\ t.pc = pc
              /\ t.x = q.x /\ t.made = q.made /\ t.row = q.row
              /\ t \in ReleaseTask => q \in ReleaseTask /\ t.left = q.left
        BY <2>2, <2>8, <3>0, RowTaskMoves
      <3>2. To(p, t)
        BY <2>8, <3>1 DEF Moves
      <3> QED  BY <2>7, <2>8, <3>1, <3>2
    <2>9. ASSUME Ends(p), Removed(q.x) \/ UNCHANGED remote PROVE LedgerInv'
      BY <1>1, <2>1, <2>2, <2>3, <2>4, <2>9, IdleOK DEF Ends
    <2> QED  BY <2>6, <2>8, <2>9
  <1> QED  BY <1>2, <1>3

\* An entry rewritten is about the same database.
LEMMA EntryReleased ==
    ASSUME NEW e \in Entry
    PROVE  \E d \in Entry :
             /\ d = [e EXCEPT !.state = "released"]
             /\ d.x = e.x /\ d.made = e.made /\ d.state = "released"
  <1> DEFINE d == [e EXCEPT !.state = "released"]
  <1>1. d \in Entry /\ d.x = e.x /\ d.made = e.made /\ d.state = "released"
    BY DEF Entry, States
  <1> HIDE DEF d
  <1> QED  BY <1>1 DEF d

LEMMA EntryNoted ==
    ASSUME NEW e \in Entry, NEW n \in Nat, NEW s \in States
    PROVE  \E d \in Entry :
             /\ d = [e EXCEPT !.attempts = n, !.state = s]
             /\ d.x = e.x /\ d.made = e.made /\ d.state = s
  <1> DEFINE d == [e EXCEPT !.attempts = n, !.state = s]
  <1>1. d \in Entry /\ d.x = e.x /\ d.made = e.made /\ d.state = s
    BY DEF Entry
  <1> HIDE DEF d
  <1> QED  BY <1>1 DEF d

LEMMA EntryMarked ==
    ASSUME NEW e \in Entry, NEW n \in Nat
    PROVE  \E d \in Entry :
             /\ d = [e EXCEPT !.state = "releasing", !.attempts = n]
             /\ d.x = e.x /\ d.made = e.made /\ d.state = "releasing"
  <1> DEFINE d == [e EXCEPT !.state = "releasing", !.attempts = n]
  <1>1. /\ d \in Entry /\ d.x = e.x /\ d.made = e.made
        /\ d.state = "releasing"
    BY DEF Entry, States
  <1> HIDE DEF d
  <1> QED  BY <1>1 DEF d

\* A task at a row rewrites it and becomes t.
LEMMA RewriteMoves ==
    ASSUME LedgerInv, NEW p \in Processes, NEW t \in Tasks, To(p, t), TaskOK(t),
           tasks[p] \in RowTask \cup ReleaseTask, tasks[p] \notin HoldTask,
           UNCHANGED <<remote, untracked>>,
           NEW r \in Rows, r = tasks[p].row, NEW e \in Entry,
           ledger' = [ledger EXCEPT ![r] = e],
           e.x = ledger[r].x, e.made = ledger[r].made,
           e.state = "released" => tasks[p].pc = "released"
    PROVE  LedgerInv'
  <1>0. LedgerTypes /\ LedgerOK
    BY DEF LedgerInv
  <1>1. ledger[r] \in Entry
    <2> PICK q \in Tasks : q = tasks[p] /\ TaskOK(q)
      BY TaskNow
    <2> QED  BY DEF TaskOK, Names
  <1>2. /\ remote' \in [Externals -> Resource]
        /\ ledger' \in [Rows -> Entry \cup {NoEntry}]
        /\ \A v \in Rows : ledger'[v] = IF v = r THEN e ELSE ledger[v]
    BY <1>0 DEF LedgerTypes
  <1>3. RemoteKept /\ LedgerKept
    BY <1>1, <1>2 DEF RemoteKept, LedgerKept
  <1>4. TaskOK(t)'
    BY <1>0, <1>3, TaskLasts
  <1>5. \A v \in Rows : ~(ledger'[v] \in Entry /\ ledger[v] = NoEntry)
    BY <1>1, <1>2, EntryFields
  <1>6. \A v \in Rows :
          ledger'[v].state = "released" =>
            \/ ledger[v].state = "released"
            \/ /\ remote' = remote /\ tasks[p].pc = "released"
               /\ tasks[p].row = v /\ tasks[p] \in RowTask \cup ReleaseTask
    BY <1>2
  <1>7. \A x \in Externals, m \in Nat :
          /\ Held(tasks[p], x, m) \/ remote[x].made # m
          /\ remote'[x].stands /\ remote'[x].made = m
          => Tracked(x, m)'
    BY DEF Held
  <1> QED  BY <1>2, <1>3, <1>4, <1>5, <1>6, <1>7, LedgerMoves DEF To

\* The release goes on to its next row, or ends.
LEMMA OnwardForm ==
    ASSUME NEW p \in Processes, NEW q \in ReleaseTask, q = tasks[p], TaskOK(q),
           Onward(p)
    PROVE  \E t \in Tasks : To(p, t) /\ TaskOK(t)
  <1>1. CASE q.left = {}
    BY <1>1, IdleOK DEF Onward, Ends
  <1>2. CASE q.left # {}
    <2>1. PICK l \in q.left : To(p, Taken(q, l))
      BY <1>2 DEF Onward, Taken
    <2> DEFINE t == Taken(q, l)
    <2>2. /\ t \in ReleaseTask /\ t.pc = "mark" /\ t.row = l.row /\ t.x = l.x
          /\ t.made = l.made /\ t.left \subseteq q.left
      BY TakenForm
    <2>3. To(p, t)
      BY <2>1
    <2> HIDE DEF t
    <2>4. t \in Tasks /\ t \notin HoldTask
      <3>1. t \in Tasks
        BY <2>2 DEF Tasks
      <3> QED  BY <2>2, <3>1, TaskKinds
    <2>5. TaskOK(t)
      BY <2>2, <2>4 DEF TaskOK, Names
    <2> QED  BY <2>3, <2>4, <2>5
  <1> QED  BY <1>1, <1>2

\* A row for what was made.
LEMMA RecordStep ==
    ASSUME LedgerInv, NEW p \in Processes, NEW r \in Rows,
           recordProvisionedResource(p, r)
    PROVE  LedgerInv'
  <1> PICK q \in Tasks : q = tasks[p] /\ TaskOK(q)
    BY TaskNow
  <1>0. LedgerTypes
    BY DEF LedgerInv
  <1>1. q \in HoldTask
    <2>1. q.pc = "record"
      BY DEF recordProvisionedResource, At
    <2> QED  BY <2>1, TaskKinds
  <1>2. /\ q.app \in Apps /\ q.x \in Externals /\ q.made \in Nat
        /\ q.made <= remote[q.x].made
    BY <1>1, TaskFields DEF TaskOK
  <1> DEFINE e == [app |-> q.app, x |-> q.x, made |-> q.made,
                   state |-> "active", attempts |-> 0]
             t == [op |-> "provision", pc |-> "config", app |-> q.app,
                   x |-> q.x, made |-> q.made, row |-> r]
  <1>3. /\ ledger[r] = NoEntry /\ ledger' = [ledger EXCEPT ![r] = e]
        /\ To(p, t) /\ UNCHANGED <<remote, untracked>>
    BY DEF recordProvisionedResource
  <1>4. e \in Entry /\ e.x = q.x /\ e.made = q.made /\ e.state = "active"
    BY <1>2 DEF Entry, States
  <1>5. /\ t \in RowTask /\ t.pc = "config" /\ t.x = q.x /\ t.made = q.made
        /\ t.row = r
    BY <1>2 DEF RowTask
  <1> HIDE DEF e, t
  <1>6. t \in Tasks /\ t \notin HoldTask /\ t \notin ReleaseTask
    <2>1. t \in Tasks
      BY <1>5 DEF Tasks
    <2> QED  BY <1>5, <2>1, TaskKinds
  <1>7. /\ remote' \in [Externals -> Resource]
        /\ ledger' \in [Rows -> Entry \cup {NoEntry}]
        /\ \A v \in Rows : ledger'[v] = IF v = r THEN e ELSE ledger[v]
    BY <1>0, <1>3, <1>4 DEF LedgerTypes
  <1>8. RemoteKept /\ LedgerKept
    BY <1>3, <1>7, EntryFields DEF RemoteKept, LedgerKept
  <1>9. TaskOK(t)'
    BY <1>4, <1>5, <1>6, <1>7 DEF TaskOK, Names
  <1>10. \A v \in Rows :
           ledger'[v] \in Entry /\ ledger[v] = NoEntry =>
             ledger'[v].made <= remote'[ledger'[v].x].made
    BY <1>2, <1>3, <1>4, <1>7, EntryFields
  <1>11. \A v \in Rows :
           ledger'[v].state = "released" => ledger[v].state = "released"
    BY <1>4, <1>7
  <1>12. \A x \in Externals, m \in Nat :
           Held(tasks[p], x, m) \/ remote[x].made # m =>
           (remote'[x].stands /\ remote'[x].made = m => Tracked(x, m)')
    <2> SUFFICES ASSUME NEW x \in Externals, NEW m \in Nat,
                        Held(tasks[p], x, m)
                 PROVE  Tracked(x, m)'
      BY <1>3
    <2>1. /\ ledger'[r] \in Entry /\ ledger'[r].state # "released"
          /\ ledger'[r].x = x /\ ledger'[r].made = m
      BY <1>4, <1>7 DEF Held
    <2> QED  BY <2>1 DEF Tracked
  <1> QED  BY <1>3, <1>6, <1>7, <1>8, <1>9, <1>10, <1>11, <1>12, LedgerMoves
           DEF To

\* A release writes what it is about to do, what came of it, or stops.
LEMMA ReleaseStep ==
    ASSUME LedgerInv, NEW p \in Processes,
           markReleasing(p) \/ markReleased(p) \/ markReleaseFailed(p)
    PROVE  LedgerInv'
  <1> PICK q \in Tasks : q = tasks[p] /\ TaskOK(q)
    BY TaskNow
  <1>0. LedgerTypes
    BY DEF LedgerInv
  <1>1. q.pc \in {"mark", "released", "failed"} /\ UNCHANGED <<remote, untracked>>
    BY DEF markReleasing, markReleased, markReleaseFailed, At
  <1>2. q \in RowTask \cup ReleaseTask /\ q \notin HoldTask
    BY <1>1, TaskKinds
  <1>3. PICK r \in Rows : r = q.row
    BY <1>2, TaskFields
  <1>4. ledger[r] \in Entry
    BY <1>2, <1>3 DEF TaskOK, Names
  <1>5. PICK old \in Entry : old = ledger[r]
    BY <1>4
  <1>6. ASSUME NEW t \in Tasks, To(p, t), TaskOK(t), NEW e \in Entry,
               ledger' = [ledger EXCEPT ![r] = e], e.x = old.x,
               e.made = old.made, e.state = "released" => q.pc = "released"
        PROVE  LedgerInv'
    BY <1>1, <1>2, <1>3, <1>5, <1>6, RewriteMoves
  <1>7. ASSUME NEW t \in Tasks, To(p, t), TaskOK(t), UNCHANGED ledger
        PROVE  LedgerInv'
    BY <1>1, <1>2, <1>7, TaskMoves DEF To
  <1>8. ASSUME NEW pc \in {"mark", "delete", "released", "failed"},
               Moves(p, pc), pc # "released", pc = "failed" => q.op = "release"
        PROVE  \E t \in Tasks : To(p, t) /\ TaskOK(t)
    <2>1. PICK t \in RowTask \cup ReleaseTask :
            /\ t = [q EXCEPT !.pc = pc] /\ t.pc = pc
            /\ t.x = q.x /\ t.made = q.made /\ t.row = q.row
            /\ t \in ReleaseTask => q \in ReleaseTask /\ t.left = q.left
      BY <1>2, <1>8, RowTaskMoves
    <2>2. To(p, t)
      BY <1>8, <2>1 DEF Moves
    <2>3. t \in Tasks /\ t \notin HoldTask
      <3>1. t \in Tasks
        BY DEF Tasks
      <3> QED  BY <3>1, TaskKinds
    <2>4. TaskOK(t)
      BY <1>2, <1>8, <2>1, <2>3 DEF TaskOK, Names
    <2> QED  BY <2>2, <2>3, <2>4
  <1>9. Ends(p) => \E t \in Tasks : To(p, t) /\ TaskOK(t)
    BY IdleOK DEF Ends
  <1>10. q.op = "release" /\ Onward(p) => \E t \in Tasks : To(p, t) /\ TaskOK(t)
    BY <1>2, TaskKinds, OnwardForm
  <1>11. ASSUME markReleasing(p) PROVE LedgerInv'
    <2>1. CASE Ends(p) /\ UNCHANGED ledger
      BY <1>7, <1>9, <2>1
    <2> DEFINE k == ledger[tasks[p].row].attempts + 1
    <2>0. k \in Nat
      BY <1>3, <1>4, EntryFields
    <2>2. CASE /\ ledger' = [ledger EXCEPT ![tasks[p].row] =
                    [@ EXCEPT !.state = "releasing", !.attempts = k]]
               /\ Moves(p, "delete")
      <3>1. PICK t \in Tasks : To(p, t) /\ TaskOK(t)
        BY <1>8, <2>2
      <3> HIDE DEF k
      <3>2. PICK e \in Entry :
              /\ e = [old EXCEPT !.state = "releasing", !.attempts = k]
              /\ e.x = old.x /\ e.made = old.made /\ e.state = "releasing"
        BY <2>0, EntryMarked
      <3>3. e = [ledger[tasks[p].row] EXCEPT !.state = "releasing",
                                             !.attempts = k]
        BY <1>3, <1>5, <3>2
      <3>4. ledger' = [ledger EXCEPT ![r] = e]
        BY <1>3, <2>2, <3>3
      <3> QED  BY <1>6, <3>1, <3>2, <3>4
    <2>3. \/ Ends(p) /\ UNCHANGED ledger
          \/ /\ ledger' = [ledger EXCEPT ![tasks[p].row] =
                    [@ EXCEPT !.state = "releasing", !.attempts = k]]
             /\ Moves(p, "delete")
      BY <1>11 DEF markReleasing
    <2> QED  BY <2>1, <2>2, <2>3
  <1>12. ASSUME markReleased(p) PROVE LedgerInv'
    <2>0. q.pc = "released"
      BY <1>12 DEF markReleased, At
    <2>1. CASE /\ ledger' = [ledger EXCEPT ![q.row].state = "released"]
               /\ IF q.op = "release" THEN Onward(p) ELSE Ends(p)
      <3>1. PICK t \in Tasks : To(p, t) /\ TaskOK(t)
        BY <1>9, <1>10, <2>1
      <3>2. PICK e \in Entry : /\ e = [old EXCEPT !.state = "released"]
                               /\ e.x = old.x /\ e.made = old.made
        BY EntryReleased
      <3>3. ledger' = [ledger EXCEPT ![r] = e]
        BY <1>3, <1>5, <2>1, <3>2
      <3> QED  BY <1>6, <2>0, <3>1, <3>2, <3>3
    <2>2. CASE /\ IF q.op = "release" THEN Moves(p, "failed") ELSE Ends(p)
               /\ UNCHANGED ledger
      BY <1>7, <1>8, <1>9, <2>2
    <2> QED  BY <1>12, <2>1, <2>2 DEF markReleased
  <1>13. ASSUME markReleaseFailed(p) PROVE LedgerInv'
    <2>1. q.pc = "failed" /\ Onward(p)
      BY <1>13 DEF markReleaseFailed, At
    <2>2. q \in ReleaseTask /\ q.attempts \in Nat
      BY <1>2, <2>1, TaskKinds, TaskFields
    <2>3. PICK t \in Tasks : To(p, t) /\ TaskOK(t)
      BY <1>10, <2>1, <2>2, TaskKinds
    <2>4. PICK n \in Nat, s \in States :
            /\ n = q.attempts + 1 /\ s # "released"
            /\ s = IF n >= ORPHAN_AFTER_ATTEMPTS THEN "orphaned" ELSE "active"
      BY <2>2 DEF States
    <2>5. PICK e \in Entry : /\ e = [old EXCEPT !.attempts = n, !.state = s]
                             /\ e.x = old.x /\ e.made = old.made /\ e.state = s
      BY EntryNoted
    <2> DEFINE k == tasks[p].attempts + 1
               st == IF k >= ORPHAN_AFTER_ATTEMPTS THEN "orphaned"
                                                   ELSE "active"
    <2>7. ledger' = [ledger EXCEPT ![tasks[p].row] =
                       [@ EXCEPT !.attempts = k, !.state = st]]
      BY <1>13 DEF markReleaseFailed
    <2>8. k = n /\ st = s
      BY <2>4
    <2> HIDE DEF k, st
    <2>9. e = [ledger[tasks[p].row] EXCEPT !.attempts = k, !.state = st]
      BY <1>3, <1>5, <2>5, <2>8
    <2>10. ledger' = [ledger EXCEPT ![r] = e]
      BY <1>3, <2>7, <2>9
    <2> QED  BY <1>6, <2>3, <2>4, <2>5, <2>10
  <1> QED  BY <1>11, <1>12, <1>13

LEMMA LedgerInit == Init => LedgerInv
  <1> SUFFICES ASSUME Init PROVE LedgerInv
    OBVIOUS
  <1>1. /\ remote = [x \in Externals |-> [made |-> 0, stands |-> FALSE]]
        /\ ledger = [r \in Rows |-> NoEntry]
        /\ tasks = [p \in Processes |-> Idle]
    BY DEF Init
  <1>2. [made |-> 0, stands |-> FALSE] \in Resource
    BY DEF Resource
  <1>3. LedgerTypes
    BY <1>1, <1>2, IdleOK DEF LedgerTypes
  <1>4. TasksOK
    BY <1>1, IdleOK DEF TasksOK
  <1>5. LedgerOK /\ ReleasedIsGone
    BY <1>1, EntryFields DEF LedgerOK, ReleasedIsGone
  <1>6. AllTracked
    BY <1>1 DEF AllTracked
  <1> QED  BY <1>3, <1>4, <1>5, <1>6 DEF LedgerInv

\* Every step of the system.
LEMMA LedgerStep == LedgerInv /\ [Next]_vars => LedgerInv'
  <1> SUFFICES ASSUME LedgerInv, [Next]_vars PROVE LedgerInv'
    OBVIOUS
  <1> DEFINE Goal == LedgerInv'
  <1>1. UNCHANGED provisionVars => Goal
    BY DEF LedgerInv, LedgerTypes, TasksOK, TaskOK, Names, Gone, LedgerOK,
           ReleasedIsGone, AllTracked, Tracked, Held, provisionVars
  <1>2. ASSUME NEW p \in Processes, Provision(p) PROVE Goal
    BY <1>2, StartsStep, CreateStep, QuietStep, RemoveStep, RecordStep
       DEF Provision
  <1>3. ASSUME NEW p \in Processes, Release(p) PROVE Goal
    BY <1>3, StartsStep, RemoveStep, ReleaseStep DEF Release
  <1>4. ASSUME NEW p \in Processes, refreshQuotas(p) PROVE Goal
    BY <1>4, StartsStep
  <1>5. ASSUME NEW p \in Processes,
               collectUsageInto(p) \/ Crash(p) \/ (Restart(p) /\ Drops(p))
        PROVE  Goal
    BY <1>5, QuietStep
  <1> HIDE DEF Goal
  <1>6. ASSUME NEW p \in Processes,
               \/ Provision(p) \/ Release(p) \/ refreshQuotas(p)
               \/ collectUsageInto(p) \/ Crash(p) \/ (Restart(p) /\ Drops(p))
               \/ Writes(p) /\ UNCHANGED provisionVars
        PROVE  Goal
    BY <1>1, <1>2, <1>3, <1>4, <1>5, <1>6
  <1>7. UNCHANGED vars => Goal
    BY <1>1 DEF vars
  <1>8. Next => Goal
    BY <1>1, <1>6 DEF Next
  <1> QED  BY <1>7, <1>8 DEF Goal

\* The invariant of the ledger holds in every state of every behaviour,
\* whatever the operator's procedure (apps/web/src/lib/provisioning.ts,
\* packages/db/src/queries/provisioning.ts).
THEOREM LedgerStands == Spec => []LedgerInv
  BY LedgerInit, LedgerStep, PTL DEF Spec

\* A database that stands at a provider is recorded as something to release,
\* or held by a task that will record or remove it, or the answer or the
\* process that knew of it was lost (provisioning.ts:8-15).
THEOREM DatabasesAreKnown == Spec => []NoUnknownOrphan
  <1>1. LedgerInv => NoUnknownOrphan
    <2> SUFFICES ASSUME LedgerInv, NEW x \in Standing
                 PROVE  \/ Database(x) \in untracked
                        \/ \E p \in Processes :
                             /\ tasks[p].pc \in {"token", "record", "undo"}
                             /\ tasks[p].x = x
                             /\ tasks[p].made = remote[x].made
                        \/ \E r \in Rows : /\ ledger[r] # NoEntry
                                           /\ ledger[r].state # "released"
                                           /\ ledger[r].x = x
                                           /\ ledger[r].made = remote[x].made
      BY DEF NoUnknownOrphan
    <2>1. x \in Externals /\ remote[x].stands
      BY DEF Standing
    <2>2. PICK m \in Nat : m = remote[x].made
      BY <2>1, ResourceFields DEF LedgerInv, LedgerTypes
    <2>3. Tracked(x, m)
      BY <2>1, <2>2 DEF LedgerInv, AllTracked
    <2>4. CASE [name |-> x, made |-> m] \in untracked
      BY <2>2, <2>4 DEF Database
    <2>5. ASSUME NEW p \in Processes, Held(tasks[p], x, m)
          PROVE  /\ tasks[p].pc \in {"token", "record", "undo"}
                 /\ tasks[p].x = x /\ tasks[p].made = remote[x].made
      BY <2>2, <2>5, TaskNow, TaskKinds DEF Held
    <2>6. ASSUME NEW r \in Rows, ledger[r] \in Entry
          PROVE  ledger[r] # NoEntry
      BY <2>6, EntryFields
    <2> QED  BY <2>2, <2>3, <2>4, <2>5, <2>6 DEF Tracked
  <1> QED  BY <1>1, LedgerStands, PTL

\* A row that says released speaks of a database that is gone, although
\* releases overlap, answers are lost and names are used again
\* (markReleased, queries/provisioning.ts).
THEOREM ReleasedMeansGone == Spec => []ReleasedIsGone
  <1>1. LedgerInv => ReleasedIsGone
    BY DEF LedgerInv
  <1> QED  BY <1>1, LedgerStands, PTL
=============================================================================
