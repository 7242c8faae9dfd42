------------------------- MODULE WebhookQueueProofs -------------------------
(***************************************************************************)
(* Proofs about WebhookQueue, for every value of its constants.             *)
(*                                                                         *)
(*   - type correctness, with the retry schedule's bound on what is queued; *)
(*   - SendsBounded and SettledStaysSettled for the endpoints whose passes  *)
(*     do not share a delivery, from an invariant that says, for every      *)
(*     stage of an attempt, how many of the POSTs that may have reached the *)
(*     receiver its row already counts;                                    *)
(*   - BreakerTrips.                                                       *)
(***************************************************************************)
EXTENDS WebhookQueue, TLAPS

LEMMA SceneTypes ==
    ASSUME scene \in Scenes
    PROVE  /\ scene.managed \subseteq Endpoints
           /\ scene.endpoints \subseteq Endpoints
           /\ scene.deliveries \subseteq Deliveries
           /\ MaxAttempts \in Nat \ {0}
  BY WebhookAssumption DEF MaxAttempts

LEMMA NoRowApart ==
    /\ NoRow \notin Endpoints /\ NoRow \notin Deliveries
    /\ NoRow \notin DeliveryRow
  BY WebhookAssumption DEF DeliveryRow, Statuses

-----------------------------------------------------------------------------
(* The forms a worker and a row take.                                       *)

At(r, pc) == [r EXCEPT !.pc = pc]
AtFail(r, retry, inTry) ==
    [r EXCEPT !.pc = "fail", !.retry = retry, !.inTry = inTry]
Stages == {"idle", "send", "delivered", "success", "fail", "count", "trip"}

\* The rest of a worker's record, which its moves leave alone.
SameJob(r, q) == r.d = q.d /\ r.e = q.e /\ r.attempts = q.attempts

LEMMA AtTask ==
    ASSUME NEW r \in Task, NEW pc \in Stages
    PROVE  At(r, pc) \in Task /\ At(r, pc).pc = pc /\ SameJob(At(r, pc), r)
  BY DEF At, Task, Stages, SameJob

LEMMA AtFailTask ==
    ASSUME NEW r \in Task, NEW retry \in BOOLEAN, NEW inTry \in BOOLEAN
    PROVE  /\ AtFail(r, retry, inTry) \in Task
           /\ AtFail(r, retry, inTry).pc = "fail"
           /\ SameJob(AtFail(r, retry, inTry), r)
  BY DEF AtFail, Task, SameJob

LEMMA FreeTask ==
    /\ Free \in Task
    /\ Free.pc = "idle" /\ Free.d = NoRow /\ Free.e = NoRow
    /\ Free.attempts = 0
  BY DEF Free, Task

LEMMA ClaimedTask ==
    ASSUME NEW d \in Deliveries, delivery[d] \in DeliveryRow
    PROVE  /\ Claimed(d) \in Task
           /\ Claimed(d).pc = "send" /\ Claimed(d).d = d
           /\ Claimed(d).e = delivery[d].endpoint
           /\ Claimed(d).attempts = delivery[d].attempts
  BY DEF Claimed, Free, Task, DeliveryRow

LEMMA DeliveryFields ==
    \A r \in DeliveryRow : /\ r.endpoint \in Endpoints /\ r.attempts \in Nat
                           /\ r.created \in SUBSET Deliveries
                           /\ r.status \in Statuses /\ r.due \in BOOLEAN
  BY DEF DeliveryRow

LEMMA TaskFields ==
    \A r \in Task : /\ r.pc \in Stages /\ r.attempts \in Nat
                    /\ r.d \in Deliveries \cup {NoRow}
                    /\ r.e \in Endpoints \cup {NoRow}
                    /\ r.retry \in BOOLEAN /\ r.inTry \in BOOLEAN
  BY DEF Task, Stages

\* Every step changes at most one worker, which keeps its job, drops it or,
\* idle, takes one.
Sole(w, r) == worker' = [worker EXCEPT ![w] = r]

LEMMA WorkerForms ==
    ASSUME NEW w \in Workers
    PROVE  /\ \A pc : Set(w, pc) => Sole(w, At(worker[w], pc))
           /\ \A retry, inTry :
                Failing(w, retry, inTry) =>
                  Sole(w, AtFail(worker[w], retry, inTry))
           /\ Release(w) => Sole(w, Free)
  BY DEF Set, Failing, Release, Sole, At, AtFail

-----------------------------------------------------------------------------
(* Type correctness *)

\* A pass gives due rows to idle workers, each to one, and writes nothing.
Passes(W, at) ==
    /\ W \subseteq Workers /\ at \in [W -> Deliveries]
    /\ \A w \in Workers : worker'[w] = IF w \in W THEN Claimed(at[w]) ELSE worker[w]
    /\ \A v, w \in W : at[v] = at[w] => v = w
    /\ \A w \in W : /\ worker[w].pc = "idle"
                    /\ Exists(at[w]) /\ delivery[at[w]] \in DeliveryRow
                    /\ delivery[at[w]].status = "pending"
                    /\ delivery[at[w]].endpoint \in Shaky \/ Holders(at[w]) = {}

LEMMA PassForm ==
    ASSUME TypeOK, Claim
    PROVE  /\ \E W, at : Passes(W, at)
           /\ worker' \in [Workers -> Task]
           /\ UNCHANGED <<endpoint, delivery, used, emitter, sent, scene>>
  <1> DEFINE rows == {d \in Deliveries : IsDue(d)}
  <1>1. PICK B \in Oldest(rows) :
          /\ \A d \in B : delivery[d].endpoint \in Shaky \/ Holders(d) = {}
          /\ Pass(B)
    BY DEF Claim
  <1>2. B \subseteq rows
    BY DEF Oldest
  <1>0. PICK W \in SUBSET {w \in Workers : worker[w].pc = "idle"} :
          \E at \in [W -> B] :
            /\ \A v, w \in W : at[v] = at[w] => v = w
            /\ worker' = [w \in Workers |-> IF w \in W THEN Claimed(at[w]) ELSE worker[w]]
    BY <1>1 DEF Pass
  <1>3. PICK at \in [W -> B] :
          /\ \A v, w \in W : at[v] = at[w] => v = w
          /\ worker' = [w \in Workers |-> IF w \in W THEN Claimed(at[w]) ELSE worker[w]]
    BY <1>0
  <1>4. ASSUME NEW d \in B
        PROVE  /\ d \in Deliveries /\ Exists(d) /\ delivery[d] \in DeliveryRow
               /\ delivery[d].status = "pending"
               /\ delivery[d].endpoint \in Shaky \/ Holders(d) = {}
    BY <1>1, <1>2 DEF IsDue, Exists, TypeOK
  <1>5. \A w \in W : at[w] \in B
    BY <1>3
  <1>6. Passes(W, at)
    <2>1. W \subseteq Workers /\ at \in [W -> Deliveries]
      BY <1>3, <1>4
    <2>2. \A w \in Workers : worker'[w] = IF w \in W THEN Claimed(at[w]) ELSE worker[w]
      BY <1>3
    <2>3. \A w \in W : worker[w].pc = "idle"
      BY <1>3
    <2> QED  BY <1>3, <1>4, <1>5, <2>1, <2>2, <2>3 DEF Passes
  <1>7. \A w \in W : Claimed(at[w]) \in Task
    BY <1>4, <1>5, ClaimedTask
  <1>8. worker' \in [Workers -> Task]
    BY <1>3, <1>7 DEF TypeOK
  <1>9. UNCHANGED <<endpoint, delivery, used, emitter, sent, scene>>
    BY DEF Claim
  <1> QED  BY <1>6, <1>8, <1>9

\* A worker is busy with one delivery of one endpoint, or with none.
Busy ==
    \A w \in Workers :
      /\ worker[w].pc = "idle" => worker[w].d = NoRow
      /\ worker[w].pc # "idle" => worker[w].d \in Deliveries
                                  /\ worker[w].e \in Endpoints

\* What a step says of the workers when it moves only w, to r.
LEMMA SoleType ==
    ASSUME TypeOK, Busy, NEW w \in Workers, NEW r \in Task, Sole(w, r),
           r.attempts < MaxAttempts, scene' = scene,
           \/ r = Free
           \/ r.pc # "idle" /\ r.d \in Deliveries /\ r.e \in Endpoints
    PROVE  /\ worker' \in [Workers -> Task]
           /\ \A v \in Workers : worker'[v].attempts < MaxAttempts'
           /\ Busy'
  <1>1. /\ worker' \in [Workers -> Task]
        /\ \A v \in Workers : worker'[v] = IF v = w THEN r ELSE worker[v]
    BY DEF TypeOK, Sole
  <1>2. MaxAttempts' = MaxAttempts
    BY DEF MaxAttempts
  <1>3. \A v \in Workers : worker'[v].attempts < MaxAttempts'
    BY <1>1, <1>2 DEF TypeOK
  <1>4. Busy'
    BY <1>1, FreeTask DEF Busy
  <1> QED  BY <1>1, <1>3, <1>4

\* The moves of a busy worker.
LEMMA MoveType ==
    ASSUME TypeOK, Busy, NEW w \in Workers, worker[w].pc # "idle",
           scene' = scene,
           \/ \E pc \in Stages \ {"idle"} : Set(w, pc)
           \/ \E retry, inTry \in BOOLEAN : Failing(w, retry, inTry)
           \/ Release(w)
    PROVE  /\ worker' \in [Workers -> Task]
           /\ \A v \in Workers : worker'[v].attempts < MaxAttempts'
           /\ Busy'
  <1>1. /\ worker[w] \in Task /\ worker[w].d \in Deliveries
        /\ worker[w].e \in Endpoints /\ worker[w].attempts < MaxAttempts
    BY DEF TypeOK, Busy
  <1>2. ASSUME NEW pc \in Stages \ {"idle"}, Set(w, pc)
        PROVE  \E r \in Task : /\ Sole(w, r) /\ SameJob(r, worker[w])
                               /\ r.pc # "idle"
    BY <1>1, <1>2, WorkerForms, AtTask
  <1>3. ASSUME NEW retry \in BOOLEAN, NEW inTry \in BOOLEAN,
               Failing(w, retry, inTry)
        PROVE  \E r \in Task : /\ Sole(w, r) /\ SameJob(r, worker[w])
                               /\ r.pc # "idle"
    <2> DEFINE r == AtFail(worker[w], retry, inTry)
    <2>1. r \in Task /\ r.pc = "fail" /\ SameJob(r, worker[w])
      BY <1>1, AtFailTask
    <2>2. Sole(w, r)
      BY <1>3, WorkerForms
    <2> HIDE DEF r
    <2> QED  BY <2>1, <2>2
  <1>4. ASSUME \E r \in Task : /\ Sole(w, r) /\ SameJob(r, worker[w])
                               /\ r.pc # "idle"
        PROVE  /\ worker' \in [Workers -> Task]
               /\ \A v \in Workers : worker'[v].attempts < MaxAttempts'
               /\ Busy'
    <2> PICK r \in Task : /\ Sole(w, r) /\ SameJob(r, worker[w])
                          /\ r.pc # "idle"
      BY <1>4
    <2>1. /\ r.attempts < MaxAttempts /\ r.d \in Deliveries
          /\ r.e \in Endpoints
      BY <1>1 DEF SameJob
    <2> QED  BY <2>1, SoleType
  <1>5. ASSUME Release(w)
        PROVE  /\ worker' \in [Workers -> Task]
               /\ \A v \in Workers : worker'[v].attempts < MaxAttempts'
               /\ Busy'
    <2>1. Free.attempts < MaxAttempts
      BY FreeTask, SceneTypes DEF TypeOK
    <2> QED  BY <1>5, <2>1, FreeTask, SoleType, WorkerForms
  <1> QED  BY <1>2, <1>3, <1>4, <1>5

LEMMA SentType ==
    ASSUME TypeOK, Busy, NEW w \in Workers, worker[w].pc # "idle", Sent(w),
           scene' = scene
    PROVE  sent' \in [Deliveries -> 0 .. MaxAttempts' + 1]
  <1>1. MaxAttempts \in Nat /\ MaxAttempts' = MaxAttempts
    BY SceneTypes DEF TypeOK, MaxAttempts
  <1>2. sent \in [Deliveries -> 0 .. MaxAttempts + 1]
    BY DEF TypeOK
  <1>3. \A n \in 0 .. MaxAttempts + 1 :
          Min2(n + 1, MaxAttempts + 1) \in 0 .. MaxAttempts + 1
    BY <1>1 DEF Min2
  <1>4. worker[w].d \in Deliveries
    BY DEF Busy
  <1>5. sent[worker[w].d] \in 0 .. MaxAttempts + 1
    BY <1>2, <1>4
  <1> DEFINE n == Min2(sent[worker[w].d] + 1, MaxAttempts + 1)
  <1>6. n \in 0 .. MaxAttempts + 1
    BY <1>3, <1>5
  <1>7. sent' = [sent EXCEPT ![worker[w].d] = n]
    BY DEF Sent
  <1> HIDE DEF n
  <1>8. sent' \in [Deliveries -> 0 .. MaxAttempts + 1]
    BY <1>2, <1>6, <1>7
  <1> QED  BY <1>1, <1>8

\* The rows of the deliveries have their type and an attempt left.
RowsOK ==
    /\ delivery \in [Deliveries -> DeliveryRow \cup {NoRow}]
    /\ \A d \in Deliveries :
         Exists(d) /\ delivery[d].status = "pending"
           => delivery[d].attempts < MaxAttempts

\* A statement that rewrites one row, if it is still there.
LEMMA RowWritten ==
    ASSUME TypeOK, NEW d \in Deliveries, NEW row \in DeliveryRow,
           delivery' = [delivery EXCEPT ![d] = row], scene' = scene,
           row.status = "pending" => row.attempts < MaxAttempts
    PROVE  RowsOK'
  <1>1. \A g \in Deliveries : delivery'[g] = IF g = d THEN row ELSE delivery[g]
    BY DEF TypeOK
  <1>2. delivery' \in [Deliveries -> DeliveryRow \cup {NoRow}]
    BY DEF TypeOK
  <1>3. MaxAttempts' = MaxAttempts
    BY DEF MaxAttempts
  <1> QED  BY <1>1, <1>2, <1>3 DEF RowsOK, TypeOK, Exists

LEMMA RowsKept ==
    ASSUME TypeOK, delivery' = delivery, scene' = scene
    PROVE  RowsOK'
  BY DEF TypeOK, RowsOK, Exists, MaxAttempts

\* The rows that the outcome of an attempt writes.
DoneRow(row) == [row EXCEPT !.status = "delivered", !.attempts = @ + 1,
                            !.due = FALSE]
DueRow(row) == [row EXCEPT !.due = TRUE]

LEMMA DoneRowForm ==
    ASSUME NEW r \in DeliveryRow
    PROVE  /\ DoneRow(r) \in DeliveryRow /\ DoneRow(r).status = "delivered"
           /\ DoneRow(r).endpoint = r.endpoint
           /\ DoneRow(r).attempts = r.attempts + 1
  <1> DEFINE k == r.attempts + 1
  <1>1. k \in Nat
    BY DEF DeliveryRow
  <1>2. DoneRow(r) = [r EXCEPT !.status = "delivered", !.attempts = k,
                               !.due = FALSE]
    BY DEF DoneRow
  <1> HIDE DEF k
  <1>3. /\ DoneRow(r) \in DeliveryRow /\ DoneRow(r).status = "delivered"
        /\ DoneRow(r).endpoint = r.endpoint /\ DoneRow(r).attempts = k
    BY <1>1, <1>2 DEF DeliveryRow, Statuses
  <1> QED  BY <1>3 DEF k

LEMMA DueRowForm ==
    ASSUME NEW r \in DeliveryRow
    PROVE  /\ DueRow(r) \in DeliveryRow /\ DueRow(r).status = r.status
           /\ DueRow(r).endpoint = r.endpoint
           /\ DueRow(r).attempts = r.attempts
  BY DEF DeliveryRow, DueRow

LEMMA FailedRowForm ==
    ASSUME TypeOK, Busy, NEW w \in Workers, worker[w].pc # "idle",
           Exists(worker[w].d)
    PROVE  /\ FailedRow(w) \in DeliveryRow
           /\ FailedRow(w).endpoint = worker[w].e
           /\ FailedRow(w).attempts = worker[w].attempts + 1
           /\ FailedRow(w).attempts <= MaxAttempts
           /\ FailedRow(w).status = "pending" =>
                FailedRow(w).attempts < MaxAttempts
  <1>1. /\ worker[w].e \in Endpoints /\ worker[w].attempts \in Nat
        /\ worker[w].attempts < MaxAttempts /\ MaxAttempts \in Nat
    BY TaskFields, SceneTypes DEF TypeOK, Busy
  <1>0. delivery[worker[w].d].created \in SUBSET Deliveries
    BY DeliveryFields DEF TypeOK, Busy, Exists
  <1> DEFINE c == delivery[worker[w].d].created
             k == worker[w].attempts + 1
             s == IF WillRetry(k, worker[w].retry) THEN "pending"
                  ELSE IF worker[w].retry THEN "failed" ELSE "dropped"
  <1>2. k \in Nat /\ k <= MaxAttempts
    BY <1>1
  <1>3. s \in Statuses /\ (s = "pending" => k < MaxAttempts)
    BY DEF Statuses, WillRetry
  <1>4. FailedRow(w) = [endpoint |-> worker[w].e, created |-> c, attempts |-> k,
                        due |-> FALSE, status |-> s]
    BY DEF FailedRow
  <1>6. c \in SUBSET Deliveries
    BY <1>0
  <1> HIDE DEF s, k, c
  <1>5. FailedRow(w) \in DeliveryRow
    BY <1>1, <1>6, <1>2, <1>3, <1>4 DEF DeliveryRow
  <1>7. FailedRow(w).attempts = worker[w].attempts + 1
    BY <1>4 DEF k
  <1> QED  BY <1>2, <1>3, <1>4, <1>5, <1>7

\* The workers' part of the type invariant.
WorkersOK == /\ worker \in [Workers -> Task]
             /\ \A w \in Workers : worker[w].attempts < MaxAttempts

LEMMA Idle ==
    ASSUME TypeOK, Busy, worker' = worker, scene' = scene
    PROVE  WorkersOK' /\ Busy'
  BY DEF TypeOK, Busy, WorkersOK, MaxAttempts

LEMMA SameSent ==
    ASSUME TypeOK, sent' = sent, scene' = scene
    PROVE  sent' \in [Deliveries -> 0 .. MaxAttempts' + 1] /\ scene' \in Scenes
  BY DEF TypeOK, MaxAttempts

\* A worker moves between statements.
LEMMA MoveKeeps ==
    ASSUME TypeOK, Busy, NEW w \in Workers, worker[w].pc # "idle",
           UNCHANGED <<used, emitter, scene>>,
           endpoint' \in [Endpoints -> EndpointRow], RowsOK',
           sent' \in [Deliveries -> 0 .. MaxAttempts' + 1],
           \/ \E pc \in Stages \ {"idle"} : Set(w, pc)
           \/ \E retry, inTry \in BOOLEAN : Failing(w, retry, inTry)
           \/ Release(w)
    PROVE  TypeOK' /\ Busy'
  <1>1. WorkersOK' /\ Busy'
    BY MoveType DEF WorkersOK
  <1>2. used' \subseteq Deliveries /\ emitter' \subseteq Endpoints
          /\ scene' \in Scenes
    BY DEF TypeOK
  <1> QED  BY <1>1, <1>2 DEF TypeOK, RowsOK, WorkersOK

LEMMA EndpointForms ==
    ASSUME TypeOK, NEW e \in Endpoints
    PROVE  /\ [endpoint EXCEPT ![e].fails = 0] \in [Endpoints -> EndpointRow]
           /\ [endpoint EXCEPT ![e].fails =
                 Min2(endpoint[e].fails + 1, Threshold)]
                \in [Endpoints -> EndpointRow]
           /\ [endpoint EXCEPT ![e].status = "disabled"]
                \in [Endpoints -> EndpointRow]
  <1>0. /\ endpoint \in [Endpoints -> EndpointRow]
        /\ endpoint[e] \in EndpointRow
    BY DEF TypeOK
  <1>1. endpoint[e].fails \in 0 .. Threshold
    BY <1>0 DEF EndpointRow
  <1> DEFINE n == Min2(endpoint[e].fails + 1, Threshold)
  <1>2. 0 \in 0 .. Threshold /\ n \in 0 .. Threshold
    BY <1>1, WebhookAssumption DEF Min2
  <1> HIDE DEF n
  <1>3. \A k \in 0 .. Threshold : [endpoint[e] EXCEPT !.fails = k] \in EndpointRow
    BY <1>0 DEF EndpointRow
  <1>4. [endpoint[e] EXCEPT !.status = "disabled"] \in EndpointRow
    BY <1>0 DEF EndpointRow
  <1>5. \A k \in 0 .. Threshold :
          [endpoint EXCEPT ![e].fails = k] \in [Endpoints -> EndpointRow]
    BY <1>0, <1>3
  <1>6. [endpoint EXCEPT ![e].status = "disabled"] \in [Endpoints -> EndpointRow]
    BY <1>0, <1>4
  <1>7. [endpoint EXCEPT ![e].fails = n] \in [Endpoints -> EndpointRow]
    BY <1>2, <1>5
  <1> QED  BY <1>2, <1>5, <1>6, <1>7 DEF n

\* The rows an emission inserts.
LEMMA EmitInsertShape ==
    ASSUME TypeOK, EmitInsert
    PROVE  /\ delivery' \in [Deliveries -> DeliveryRow \cup {NoRow}]
           /\ \A d \in Deliveries :
                \/ delivery'[d] = delivery[d]
                \/ /\ d \notin used /\ d \in used'
                   /\ delivery'[d] # NoRow
                   /\ delivery'[d].status = "pending"
                   /\ delivery'[d].attempts = 0
           /\ used \subseteq used' /\ used' \subseteq Deliveries
           /\ emitter' = {}
           /\ UNCHANGED <<endpoint, worker, sent, scene>>
  <1> PICK at \in [emitter -> scene.deliveries \ used] :
        /\ delivery' = [d \in Deliveries |->
                          IF \E e \in emitter : at[e] = d
                            THEN NewDelivery(CHOOSE e \in emitter : at[e] = d)
                            ELSE delivery[d]]
        /\ used' = used \cup {at[e] : e \in emitter}
    BY DEF EmitInsert
  <1>1. emitter \subseteq Endpoints /\ scene.deliveries \subseteq Deliveries
    BY SceneTypes DEF TypeOK
  <1>2. \A e \in Endpoints : /\ NewDelivery(e) \in DeliveryRow
                             /\ NewDelivery(e).status = "pending"
                             /\ NewDelivery(e).attempts = 0
    BY DEF NewDelivery, DeliveryRow, Statuses, TypeOK
  <1>3. ASSUME NEW d \in Deliveries
        PROVE  /\ delivery'[d] \in DeliveryRow \cup {NoRow}
               /\ \/ delivery'[d] = delivery[d]
                  \/ /\ d \notin used /\ d \in used'
                     /\ delivery'[d] # NoRow
                     /\ delivery'[d].status = "pending"
                     /\ delivery'[d].attempts = 0
    <2>1. CASE \E e \in emitter : at[e] = d
      <3> DEFINE g == CHOOSE e \in emitter : at[e] = d
      <3>1. g \in emitter /\ at[g] = d
        BY <2>1
      <3>2. delivery'[d] = NewDelivery(g)
        BY <2>1
      <3> HIDE DEF g
      <3>3. d \notin used /\ d \in used'
        BY <3>1
      <3> QED  BY <1>1, <1>2, <3>1, <3>2, <3>3, NoRowApart
    <2>2. CASE ~ \E e \in emitter : at[e] = d
      BY <2>2 DEF TypeOK
    <2> QED  BY <2>1, <2>2
  <1>4. delivery' \in [Deliveries -> DeliveryRow \cup {NoRow}]
    BY <1>3
  <1>5. used' \subseteq Deliveries
    BY <1>1 DEF TypeOK
  <1> QED  BY <1>3, <1>4, <1>5 DEF EmitInsert

LEMMA TypeInit == Init => TypeOK /\ Busy
  <1> SUFFICES ASSUME Init PROVE TypeOK /\ Busy
    OBVIOUS
  <1>1. MaxAttempts \in Nat \ {0} /\ scene \in Scenes
    BY SceneTypes DEF Init
  <1>2. [status |-> "active", fails |-> 0] \in EndpointRow
    BY WebhookAssumption DEF EndpointRow
  <1>3. endpoint \in [Endpoints -> EndpointRow]
    BY <1>2 DEF Init
  <1>4. RowsOK
    BY DEF Init, RowsOK, Exists
  <1>5. WorkersOK /\ Busy
    BY <1>1, FreeTask DEF Init, WorkersOK, Busy
  <1>6. sent \in [Deliveries -> 0 .. MaxAttempts + 1]
    BY <1>1 DEF Init
  <1> QED
    BY <1>1, <1>3, <1>4, <1>5, <1>6 DEF Init, TypeOK, RowsOK, WorkersOK

LEMMA TypeStep == TypeOK /\ Busy /\ [Next]_vars => TypeOK' /\ Busy'
  <1> SUFFICES ASSUME TypeOK, Busy, [Next]_vars PROVE TypeOK' /\ Busy'
    OBVIOUS
  <1> DEFINE Goal == TypeOK' /\ Busy'
  <1>0. ASSUME UNCHANGED <<worker, sent, scene>>, RowsOK',
               endpoint' \in [Endpoints -> EndpointRow],
               used' \subseteq Deliveries, emitter' \subseteq Endpoints
        PROVE  Goal
    <2>1. WorkersOK' /\ Busy'
      BY <1>0, Idle
    <2> QED  BY <1>0, <2>1, SameSent DEF TypeOK, RowsOK, WorkersOK
  <1>00. /\ endpoint \in [Endpoints -> EndpointRow] /\ used \subseteq Deliveries
         /\ emitter \subseteq Endpoints
    BY DEF TypeOK
  <1>1. CASE EmitSelect
    <2>1. emitter' \subseteq Endpoints
      BY <1>1, SceneTypes DEF EmitSelect, TypeOK
    <2>2. UNCHANGED <<endpoint, delivery, used, worker, sent, scene>>
      BY <1>1 DEF EmitSelect
    <2> QED  BY <1>0, <1>00, <2>1, <2>2, RowsKept
  <1>2. CASE EmitInsert
    <2>1. RowsOK'
      <3>1. MaxAttempts' = MaxAttempts /\ MaxAttempts \in Nat \ {0}
        BY <1>2, EmitInsertShape, SceneTypes DEF MaxAttempts, TypeOK
      <3> QED  BY <1>2, <3>1, EmitInsertShape DEF RowsOK, TypeOK, Exists
    <2> QED  BY <1>0, <1>00, <1>2, <2>1, EmitInsertShape
  <1>3. CASE Claim
    <2>1. PICK W, at : Passes(W, at)
      BY <1>3, PassForm
    <2>2. UNCHANGED <<endpoint, delivery, used, emitter, sent, scene>>
      BY <1>3, PassForm
    <2>3. ASSUME NEW w \in Workers
          PROVE  /\ worker'[w].attempts < MaxAttempts
                 /\ worker'[w].pc = "idle" => worker'[w].d = NoRow
                 /\ worker'[w].pc # "idle" => /\ worker'[w].d \in Deliveries
                                             /\ worker'[w].e \in Endpoints
      <3>1. CASE w \in W
        <4>1. /\ at[w] \in Deliveries /\ worker'[w] = Claimed(at[w])
              /\ Exists(at[w]) /\ delivery[at[w]] \in DeliveryRow
              /\ delivery[at[w]].status = "pending"
          BY <2>1, <3>1 DEF Passes
        <4>2. delivery[at[w]].attempts < MaxAttempts
          BY <4>1 DEF TypeOK
        <4> QED  BY <4>1, <4>2, ClaimedTask, DeliveryFields
      <3>2. CASE w \notin W
        <4>1. worker'[w] = worker[w]
          BY <2>1, <3>2 DEF Passes
        <4> QED  BY <4>1 DEF TypeOK, Busy
      <3> QED  BY <3>1, <3>2
    <2>4. WorkersOK' /\ Busy'
      <3>1. MaxAttempts' = MaxAttempts
        BY <2>2 DEF MaxAttempts
      <3> QED  BY <1>3, <2>3, <3>1, PassForm DEF WorkersOK, Busy
    <2>5. RowsOK'
      BY <2>2, RowsKept
    <2> QED
      BY <1>00, <2>2, <2>4, <2>5, SameSent DEF TypeOK, RowsOK, WorkersOK
  <1>4. ASSUME NEW w \in Workers, worker[w].pc # "idle",
               UNCHANGED <<delivery, used, emitter, sent, scene>>,
               endpoint' \in [Endpoints -> EndpointRow],
               \/ \E pc \in Stages \ {"idle"} : Set(w, pc)
               \/ \E retry, inTry \in BOOLEAN : Failing(w, retry, inTry)
               \/ Release(w)
        PROVE  Goal
    BY <1>4, RowsKept, SameSent, MoveKeeps
  <1>5. ASSUME NEW w \in Workers,
               Reject(w) \/ DbError(w) \/ Crash(w)
        PROVE  Goal
    <2>1. /\ worker[w].pc # "idle"
          /\ UNCHANGED <<endpoint, delivery, used, emitter, sent, scene>>
          /\ \/ \E retry, inTry \in BOOLEAN : Failing(w, retry, inTry)
             \/ Release(w)
      BY <1>5 DEF Reject, DbError, Crash
    <2> QED  BY <1>00, <1>4, <2>1
  <1>6. ASSUME NEW w \in Workers,
               \/ Accepted(w) \/ NoAnswer(w)
               \/ \E retry \in BOOLEAN : Refused(w, retry)
        PROVE  Goal
    <2>1. /\ worker[w].pc # "idle" /\ Sent(w)
          /\ UNCHANGED <<endpoint, delivery, used, emitter, scene>>
      BY <1>6 DEF Accepted, NoAnswer, Refused
    <2>2. \/ \E pc \in Stages \ {"idle"} : Set(w, pc)
          \/ \E retry, inTry \in BOOLEAN : Failing(w, retry, inTry)
      BY <1>6 DEF Accepted, NoAnswer, Refused, Stages
    <2>3. sent' \in [Deliveries -> 0 .. MaxAttempts' + 1]
      BY <2>1, SentType
    <2> QED  BY <1>00, <2>1, <2>2, <2>3, RowsKept, MoveKeeps
  <1>7. ASSUME NEW w \in Workers, MarkDelivered(w)
        PROVE  Goal
    <2> DEFINE d == worker[w].d
    <2>1. /\ worker[w].pc # "idle" /\ d \in Deliveries
          /\ UNCHANGED <<endpoint, used, emitter, sent, scene>>
          /\ Set(w, "success")
          /\ delivery' = IF Exists(d)
               THEN [delivery EXCEPT ![d] = DoneRow(delivery[d])] ELSE delivery
      BY <1>7 DEF MarkDelivered, Busy, DoneRow
    <2>2. Exists(d) => delivery[d] \in DeliveryRow
      BY <2>1 DEF Exists, TypeOK
    <2> HIDE DEF d
    <2>3. RowsOK'
      <3>1. CASE Exists(d)
        <4> DEFINE row == DoneRow(delivery[d])
        <4>1. row \in DeliveryRow /\ row.status # "pending"
          BY <2>2, <3>1, DoneRowForm
        <4>2. delivery' = [delivery EXCEPT ![d] = row]
          BY <2>1, <3>1
        <4> HIDE DEF row
        <4> QED  BY <2>1, <4>1, <4>2, RowWritten
      <3>2. CASE ~Exists(d)
        BY <2>1, <3>2, RowsKept
      <3> QED  BY <3>1, <3>2
    <2>4. "success" \in Stages \ {"idle"}
      BY DEF Stages
    <2> QED  BY <1>00, <2>1, <2>3, <2>4, SameSent, MoveKeeps
  <1>8. ASSUME NEW w \in Workers, MarkFailed(w)
        PROVE  Goal
    <2> DEFINE d == worker[w].d
               row == FailedRow(w)
    <2>1. /\ worker[w].pc # "idle" /\ d \in Deliveries
          /\ UNCHANGED <<endpoint, used, emitter, sent, scene>>
          /\ Set(w, "count")
          /\ delivery' = [delivery EXCEPT ![d] = IF @ = NoRow THEN @ ELSE row]
      BY <1>8 DEF MarkFailed, Busy, Put
    <2>2. delivery[d] # NoRow =>
            /\ row \in DeliveryRow
            /\ row.status = "pending" => row.attempts < MaxAttempts
      BY <2>1, FailedRowForm DEF Exists
    <2> HIDE DEF d, row
    <2>3. RowsOK'
      <3>1. CASE delivery[d] # NoRow
        <4>1. delivery' = [delivery EXCEPT ![d] = row]
          BY <2>1, <3>1 DEF TypeOK
        <4> QED  BY <2>1, <2>2, <3>1, <4>1, RowWritten
      <3>2. CASE delivery[d] = NoRow
        <4>1. delivery' = delivery
          BY <2>1, <3>2 DEF TypeOK
        <4> QED  BY <2>1, <4>1, RowsKept
      <3> QED  BY <3>1, <3>2
    <2>4. "count" \in Stages \ {"idle"}
      BY DEF Stages
    <2> QED  BY <1>00, <2>1, <2>3, <2>4, SameSent, MoveKeeps
  <1>9. ASSUME NEW w \in Workers,
               MarkSuccess(w) \/ CountFailure(w) \/ Trip(w)
        PROVE  Goal
    <2>1. /\ worker[w].pc # "idle"
          /\ UNCHANGED <<delivery, used, emitter, sent, scene>>
          /\ Release(w) \/ Set(w, "trip")
      BY <1>9 DEF MarkSuccess, CountFailure, Trip
    <2>2. worker[w].e \in Endpoints
      BY <2>1 DEF Busy
    <2>3. endpoint' \in [Endpoints -> EndpointRow]
      BY <1>9, <2>2, EndpointForms DEF MarkSuccess, CountFailure, Trip
    <2>4. "trip" \in Stages \ {"idle"}
      BY DEF Stages
    <2> QED  BY <1>4, <2>1, <2>3, <2>4
  <1>10. ASSUME NEW d \in Deliveries, BecomeDue(d)
         PROVE  Goal
    <2> DEFINE row == DueRow(delivery[d])
    <2>1. /\ delivery[d] \in DeliveryRow
          /\ delivery[d].status = "pending"
          /\ delivery[d].attempts < MaxAttempts
          /\ delivery' = [delivery EXCEPT ![d] = row]
          /\ UNCHANGED <<endpoint, used, emitter, worker, sent, scene>>
      BY <1>10 DEF BecomeDue, Exists, DueRow, TypeOK
    <2>2. row \in DeliveryRow /\ row.attempts < MaxAttempts
      BY <2>1, DueRowForm
    <2> HIDE DEF row
    <2>3. RowsOK'
      BY <2>1, <2>2, RowWritten
    <2> QED  BY <1>0, <1>00, <2>1, <2>3
  <1>11. CASE Purge
    <2>1. /\ \A d \in Deliveries : delivery'[d] \in {delivery[d], NoRow}
          /\ delivery' = [d \in Deliveries |-> delivery'[d]]
          /\ UNCHANGED <<endpoint, used, emitter, worker, sent, scene>>
      BY <1>11 DEF Purge
    <2>2. RowsOK'
      BY <2>1 DEF RowsOK, Exists, TypeOK, MaxAttempts
    <2> QED  BY <1>0, <1>00, <2>1, <2>2
  <1>12. ASSUME NEW e \in Endpoints, NEW s \in {"active", "paused", "disabled"},
                SetStatus(e, s)
         PROVE  Goal
    <2> DEFINE n == IF s = "active" THEN 0 ELSE endpoint[e].fails
    <2>1. n \in 0 .. Threshold
      BY <1>00, WebhookAssumption DEF EndpointRow
    <2>2. endpoint' = [endpoint EXCEPT ![e] = [status |-> s, fails |-> n]]
      BY <1>12 DEF SetStatus
    <2> HIDE DEF n
    <2>3. [status |-> s, fails |-> n] \in EndpointRow
      BY <2>1 DEF EndpointRow
    <2>4. endpoint' \in [Endpoints -> EndpointRow]
      BY <1>00, <2>2, <2>3
    <2>5. UNCHANGED <<delivery, used, emitter, worker, sent, scene>>
      BY <1>12 DEF SetStatus
    <2> QED  BY <1>0, <1>00, <2>4, <2>5, RowsKept
  <1>13. CASE UNCHANGED vars
    <2>1. UNCHANGED <<endpoint, delivery, used, emitter, worker, sent, scene>>
      BY <1>13 DEF vars
    <2> QED  BY <1>0, <1>00, <2>1, RowsKept
  <1>14. ASSUME NEW w \in Workers, Dispatch(w)
         PROVE  Goal
    BY <1>5, <1>6, <1>7, <1>8, <1>9, <1>14 DEF Dispatch
  <1>15. scene.managed \subseteq Endpoints
    BY SceneTypes DEF TypeOK
  <1> QED
    BY <1>1, <1>2, <1>3, <1>5, <1>10, <1>11, <1>12, <1>13, <1>14, <1>15
    DEF Next

\* Every row, attempt and endpoint of the queue has its type, no row waits and
\* no attempt is made beyond MAX_DELIVERY_ATTEMPTS, and a worker holds exactly
\* one delivery while it is busy.
THEOREM TasksCorrect == Spec => [](TypeOK /\ Busy)
  BY TypeInit, TypeStep, PTL DEF Spec

\* The type invariant the run checks.
THEOREM TypeCorrect == Spec => []TypeOK
  BY TasksCorrect, PTL

-----------------------------------------------------------------------------
(* The breaker.                                                             *)

\* What a step does to the breaker of an endpoint that is not shaky: nothing,
\* or it leaves it below the threshold or off, or with a worker about to trip
\* it.
LEMMA BreakerMoves ==
    ASSUME TypeOK, Busy, [Next]_vars, NEW e \in Endpoints, e \notin Shaky
    PROVE  \/ /\ endpoint'[e] = endpoint[e]
              /\ \A v \in Workers : worker[v].e = e /\ worker[v].pc = "trip"
                                      => worker'[v] = worker[v]
           \/ endpoint'[e].status # "active"
           \/ endpoint'[e].fails < Threshold
           \/ \E v \in Workers : worker'[v].e = e /\ worker'[v].pc = "trip"
  <1> DEFINE Still == /\ endpoint'[e] = endpoint[e]
                      /\ \A v \in Workers :
                           worker[v].e = e /\ worker[v].pc = "trip"
                             => worker'[v] = worker[v]
             Goal == \/ Still
                     \/ endpoint'[e].status # "active"
                     \/ endpoint'[e].fails < Threshold
                     \/ \E v \in Workers : /\ worker'[v].e = e
                                           /\ worker'[v].pc = "trip"
  <1>0. /\ endpoint \in [Endpoints -> EndpointRow] /\ worker \in [Workers -> Task]
        /\ Threshold \in Nat \ {0} /\ endpoint[e].fails \in 0 .. Threshold
    BY WebhookAssumption DEF TypeOK, EndpointRow
  <1>1. ASSUME NEW w \in Workers, NEW r, Sole(w, r), endpoint' = endpoint,
               worker[w].e # e \/ worker[w].pc # "trip"
        PROVE  Goal
    BY <1>0, <1>1 DEF Sole
  <1>2. ASSUME UNCHANGED <<endpoint, worker>> PROVE Goal
    BY <1>2
  <1>3. ASSUME NEW w \in Workers,
               \/ Reject(w) \/ Accepted(w) \/ NoAnswer(w)
               \/ \E retry \in BOOLEAN : Refused(w, retry)
               \/ MarkDelivered(w) \/ MarkFailed(w)
        PROVE  Goal
    <2>1. endpoint' = endpoint /\ worker[w].pc # "trip"
      BY <1>3 DEF Reject, Accepted, NoAnswer, Refused, MarkDelivered, MarkFailed
    <2>2. \E r : Sole(w, r)
      BY <1>3, WorkerForms
      DEF Reject, Accepted, NoAnswer, Refused, MarkDelivered, MarkFailed
    <2> QED  BY <1>1, <2>1, <2>2
  <1>4. ASSUME Claim PROVE Goal
    <2>1. PICK W, at : Passes(W, at)
      BY <1>4, PassForm
    <2>2. \A v \in Workers : worker[v].pc = "trip" => worker'[v] = worker[v]
      BY <2>1 DEF Passes
    <2> QED  BY <1>4, <2>2 DEF Claim
  <1>5. ASSUME NEW w \in Workers, DbError(w) \/ Crash(w)
        PROVE  Goal
    <2>1. endpoint' = endpoint /\ worker[w].e # e
      BY <1>5 DEF DbError, Crash
    <2>2. \E r : Sole(w, r)
      BY <1>5, WorkerForms DEF DbError, Crash
    <2> QED  BY <1>1, <2>1, <2>2
  <1>6. ASSUME NEW w \in Workers, MarkSuccess(w)
        PROVE  Goal
    <2>1. CASE worker[w].e = e
      <3>1. endpoint'[e].fails = 0
        BY <1>0, <1>6, <2>1 DEF MarkSuccess, EndpointRow
      <3> QED  BY <1>0, <3>1
    <2>2. CASE worker[w].e # e
      BY <1>0, <1>6, <2>2 DEF MarkSuccess, Release
    <2> QED  BY <2>1, <2>2
  <1>7. ASSUME NEW w \in Workers, Trip(w)
        PROVE  Goal
    <2>1. CASE worker[w].e = e
      <3>1. endpoint'[e].status = "disabled"
        BY <1>0, <1>7, <2>1 DEF Trip, EndpointRow
      <3> QED  BY <3>1
    <2>2. CASE worker[w].e # e
      BY <1>0, <1>7, <2>2 DEF Trip, Release
    <2> QED  BY <2>1, <2>2
  <1>8. ASSUME NEW w \in Workers, CountFailure(w)
        PROVE  Goal
    <2> DEFINE n == Min2(endpoint[e].fails + 1, Threshold)
    <2>1. CASE worker[w].e = e
      <3>1. /\ endpoint' = [endpoint EXCEPT ![e].fails = n]
            /\ IF n >= Threshold THEN Set(w, "trip") ELSE Release(w)
        BY <1>8, <2>1 DEF CountFailure
      <3>2. n \in Nat
        BY <1>0 DEF Min2
      <3> HIDE DEF n
      <3>3. CASE n >= Threshold
        <4>1. worker'[w] = At(worker[w], "trip")
          BY <1>0, <3>1, <3>3, WorkerForms DEF Sole
        <4>2. worker'[w].e = e /\ worker'[w].pc = "trip"
          BY <1>0, <2>1, <4>1, AtTask DEF Stages, SameJob
        <4> QED  BY <4>2
      <3>4. CASE ~(n >= Threshold)
        <4>1. endpoint'[e].fails = n
          BY <1>0, <3>1 DEF EndpointRow
        <4> QED  BY <1>0, <3>2, <3>4, <4>1
      <3> QED  BY <3>3, <3>4
    <2>2. CASE worker[w].e # e
      <3>1. endpoint'[e] = endpoint[e] /\ worker[w].pc # "trip"
        BY <1>0, <1>8, <2>2 DEF CountFailure
      <3>2. \E r : Sole(w, r)
        BY <1>8, WorkerForms DEF CountFailure
      <3> QED  BY <1>0, <3>1, <3>2 DEF Sole
    <2> QED  BY <2>1, <2>2
  <1>9. ASSUME NEW g \in Endpoints, NEW s \in {"active", "paused", "disabled"},
               SetStatus(g, s)
        PROVE  Goal
    <2>1. CASE g = e /\ s = "active"
      <3>1. endpoint'[e].fails = 0
        BY <1>0, <1>9, <2>1 DEF SetStatus
      <3> QED  BY <1>0, <3>1
    <2>2. CASE g = e /\ s # "active"
      <3>1. endpoint'[e].status = s
        BY <1>0, <1>9, <2>2 DEF SetStatus
      <3> QED  BY <2>2, <3>1
    <2>3. CASE g # e
      BY <1>0, <1>9, <2>3 DEF SetStatus
    <2> QED  BY <2>1, <2>2, <2>3
  <1>10. ASSUME NEW w \in Workers, Dispatch(w) PROVE Goal
    BY <1>3, <1>6, <1>7, <1>8, <1>10 DEF Dispatch
  <1>11. ASSUME \/ EmitSelect \/ EmitInsert \/ Purge \/ UNCHANGED vars
                \/ \E d \in Deliveries : BecomeDue(d)
         PROVE  Goal
    BY <1>2, <1>11 DEF EmitSelect, EmitInsert, Purge, BecomeDue, vars
  <1>12. scene.managed \subseteq Endpoints
    BY SceneTypes DEF TypeOK
  <1> HIDE DEF Goal
  <1>13. ASSUME \E w \in Workers : Dispatch(w) \/ DbError(w) \/ Crash(w)
         PROVE  Goal
    BY <1>5, <1>10, <1>13
  <1>14. ASSUME \E g \in scene.managed,
                   s \in {"active", "paused", "disabled"} : SetStatus(g, s)
         PROVE  Goal
    BY <1>9, <1>12, <1>14
  <1>15. Goal
    BY <1>4, <1>11, <1>13, <1>14 DEF Next
  <1> QED  BY <1>15 DEF Goal

LEMMA SceneFixed == [Next]_vars => scene' = scene
  BY DEF Next, vars, EmitSelect, EmitInsert, Claim, Dispatch, Reject, Accepted,
         Refused, NoAnswer, MarkDelivered, MarkSuccess, MarkFailed,
         CountFailure, Trip, DbError, Crash, BecomeDue, Purge, SetStatus

LEMMA BreakerInit == Init => BreakerTrips
  BY WebhookAssumption DEF Init, BreakerTrips

LEMMA BreakerStep ==
    TypeOK /\ Busy /\ BreakerTrips /\ [Next]_vars => BreakerTrips'
  <1> SUFFICES ASSUME TypeOK, Busy, BreakerTrips, [Next]_vars,
                      NEW e \in Endpoints, e \notin Shaky',
                      endpoint'[e].status = "active",
                      endpoint'[e].fails >= Threshold
               PROVE  \E w \in Workers : /\ worker'[w].e = e
                                         /\ worker'[w].pc = "trip"
    BY DEF BreakerTrips
  <1>1. e \notin Shaky
    BY SceneFixed DEF Shaky
  <1>2. endpoint'[e].fails \in Nat
    <2>1. TypeOK'
      BY TypeStep
    <2> QED  BY <2>1, WebhookAssumption DEF TypeOK, EndpointRow
  <1>3. \/ /\ endpoint'[e] = endpoint[e]
           /\ \A v \in Workers : worker[v].e = e /\ worker[v].pc = "trip"
                                   => worker'[v] = worker[v]
        \/ \E v \in Workers : worker'[v].e = e /\ worker'[v].pc = "trip"
    <2>1. ~(endpoint'[e].fails < Threshold)
      BY <1>2, WebhookAssumption
    <2> QED  BY <1>1, <2>1, BreakerMoves
  <1> QED  BY <1>1, <1>3 DEF BreakerTrips

\* An active endpoint at BREAKER_THRESHOLD consecutive failures has its
\* disabling statement on the way (markAttemptFailed), however many passes
\* count its failures and successes at once.
THEOREM BreakerHolds == Spec => []BreakerTrips
  BY TypeInit, TypeStep, BreakerInit, BreakerStep, PTL DEF Spec

-----------------------------------------------------------------------------
(* The retry schedule.                                                      *)

\* An id is used once, and whoever sends a row sends it to its endpoint.
BookInv ==
    /\ \A d \in Deliveries : /\ Exists(d) => d \in used
                             /\ d \notin used => sent[d] = 0
    /\ \A w \in Workers :
         worker[w].d # NoRow =>
           /\ worker[w].d \in used
           /\ Exists(worker[w].d)
                => worker[w].e = delivery[worker[w].d].endpoint

\* What the stage of an attempt says of its row and of the POSTs so far: until
\* its outcome is recorded the row is pending as the SELECT saw it, and at
\* most one POST, its own, is not counted there yet.
StageOK(r, row, n) ==
    /\ r.pc \in {"send", "delivered", "fail"} =>
         /\ row.status = "pending" /\ r.attempts = row.attempts
         /\ n <= row.attempts + (IF r.pc = "send" THEN 0 ELSE 1)
    /\ r.pc \in {"success", "count", "trip"} => n <= row.attempts

CalmOf(d) ==
    Calm(delivery[d]) =>
      /\ delivery[d].attempts <= MaxAttempts
      /\ \A v, w \in Workers : worker[v].d = d /\ worker[w].d = d => v = w
      /\ (\A w \in Workers : worker[w].d # d) => sent[d] <= delivery[d].attempts
      /\ \A w \in Workers :
           worker[w].d = d => StageOK(worker[w], delivery[d], sent[d])

CalmInv == \A d \in Deliveries : CalmOf(d)

\* The statements of a worker touch its own delivery and no other, never
\* revive a purged one, and leave it with its endpoint.
LEMMA OwnRowOnly ==
    ASSUME TypeOK, Busy, BookInv, NEW w \in Workers,
           Dispatch(w) \/ DbError(w) \/ Crash(w)
    PROVE  /\ worker[w].pc # "idle" /\ worker[w].d \in Deliveries
           /\ UNCHANGED <<used, scene>>
           /\ \E r \in Task : /\ Sole(w, r)
                              /\ \/ SameJob(r, worker[w]) /\ r.pc # "idle"
                                 \/ r = Free
           /\ \A g \in Deliveries :
                /\ g # worker[w].d => /\ delivery'[g] = delivery[g]
                                      /\ sent'[g] = sent[g]
                /\ delivery[g] = NoRow <=> delivery'[g] = NoRow
                /\ delivery[g] # NoRow =>
                     delivery'[g].endpoint = delivery[g].endpoint
  <1> DEFINE d == worker[w].d
             Step == \/ \E pc \in Stages \ {"idle"} : Set(w, pc)
                     \/ \E retry, inTry \in BOOLEAN : Failing(w, retry, inTry)
                     \/ Release(w)
  <1>1. /\ worker[w].pc # "idle" /\ UNCHANGED <<used, scene>> /\ Step
        /\ delivery' = delivery \/ MarkDelivered(w) \/ MarkFailed(w)
        /\ sent' = sent \/ Sent(w)
    BY DEF Dispatch, DbError, Crash, Reject, Accepted, Refused, NoAnswer,
           MarkDelivered, MarkSuccess, MarkFailed, CountFailure, Trip, Stages
  <1>2. d \in Deliveries /\ worker[w] \in Task
    BY <1>1 DEF Busy, TypeOK
  <1>3. \E r \in Task : /\ Sole(w, r)
                        /\ \/ SameJob(r, worker[w]) /\ r.pc # "idle"
                           \/ r = Free
    <2>1. ASSUME NEW pc \in Stages \ {"idle"}, Set(w, pc)
          PROVE  \E r \in Task : Sole(w, r) /\ SameJob(r, worker[w])
                                   /\ r.pc # "idle"
      BY <1>2, <2>1, WorkerForms, AtTask
    <2>2. ASSUME NEW retry \in BOOLEAN, NEW inTry \in BOOLEAN,
                 Failing(w, retry, inTry)
          PROVE  \E r \in Task : Sole(w, r) /\ SameJob(r, worker[w])
                                   /\ r.pc # "idle"
      <3> DEFINE r == AtFail(worker[w], retry, inTry)
      <3>1. r \in Task /\ r.pc = "fail" /\ SameJob(r, worker[w])
        BY <1>2, AtFailTask
      <3>2. Sole(w, r)
        BY <2>2, WorkerForms
      <3> HIDE DEF r
      <3> QED  BY <3>1, <3>2
    <2>3. Release(w) => Sole(w, Free)
      BY WorkerForms
    <2> QED  BY <1>1, <2>1, <2>2, <2>3, FreeTask
  <1>4. \A g \in Deliveries : g # d => sent'[g] = sent[g]
    BY <1>1 DEF Sent, TypeOK
  <1>5. \A g \in Deliveries :
          /\ g # d => delivery'[g] = delivery[g]
          /\ delivery[g] = NoRow <=> delivery'[g] = NoRow
          /\ delivery[g] # NoRow =>
               delivery'[g].endpoint = delivery[g].endpoint
    <2>1. CASE MarkDelivered(w)
      <3>1. delivery' = IF Exists(d)
               THEN [delivery EXCEPT ![d] = DoneRow(delivery[d])] ELSE delivery
        BY <2>1 DEF MarkDelivered, DoneRow
      <3>2. Exists(d) => /\ DoneRow(delivery[d]) \in DeliveryRow
                         /\ DoneRow(delivery[d]).endpoint = delivery[d].endpoint
        BY <1>2, DoneRowForm DEF Exists, TypeOK
      <3> DEFINE row == DoneRow(delivery[d])
      <3>3. /\ delivery' = IF Exists(d) THEN [delivery EXCEPT ![d] = row]
                                        ELSE delivery
            /\ Exists(d) => row # NoRow /\ row.endpoint = delivery[d].endpoint
        BY <3>1, <3>2, NoRowApart
      <3> HIDE DEF d, row
      <3> QED  BY <1>2, <3>3 DEF TypeOK, Exists
    <2>2. CASE MarkFailed(w)
      <3> DEFINE row == FailedRow(w)
      <3>1. delivery' = [delivery EXCEPT ![d] = IF @ = NoRow THEN @ ELSE row]
        BY <2>2 DEF MarkFailed, Put
      <3>2. delivery[d] # NoRow => row \in DeliveryRow /\ row.endpoint = worker[w].e
        BY <1>1, FailedRowForm DEF Exists
      <3>3. delivery[d] # NoRow => worker[w].e = delivery[d].endpoint
        BY <1>2, NoRowApart DEF BookInv, Exists
      <3>4. delivery[d] # NoRow => row # NoRow
        BY <3>2, NoRowApart
      <3> HIDE DEF d, row
      <3> QED  BY <1>2, <3>1, <3>2, <3>3, <3>4 DEF TypeOK
    <2>3. CASE delivery' = delivery
      BY <2>3
    <2> QED  BY <1>1, <2>1, <2>2, <2>3
  <1> QED  BY <1>1, <1>2, <1>3, <1>4, <1>5

LEMMA BookInit == Init => BookInv
  BY FreeTask DEF Init, BookInv, Exists

LEMMA BookStep ==
    TypeOK /\ Busy /\ BookInv /\ [Next]_vars => BookInv'
  <1> SUFFICES ASSUME TypeOK, Busy, BookInv, [Next]_vars PROVE BookInv'
    OBVIOUS
  <1> DEFINE Goal == BookInv'
  <1>1. ASSUME UNCHANGED <<used, worker, sent>>,
               \A g \in Deliveries :
                 \/ delivery'[g] = NoRow
                 \/ /\ delivery[g] # NoRow
                    /\ delivery'[g].endpoint = delivery[g].endpoint
        PROVE  Goal
    BY <1>1 DEF BookInv, Exists, TypeOK, Task
  <1>2. CASE EmitInsert
    <2>1. UNCHANGED <<worker, sent>> /\ used \subseteq used'
      BY <1>2, EmitInsertShape
    <2>2. \A d \in Deliveries :
            delivery'[d] = delivery[d] \/ (d \notin used /\ d \in used')
      BY <1>2, EmitInsertShape
    <2>3. \A d \in Deliveries : /\ Exists(d)' => d \in used'
                                /\ d \notin used' => sent'[d] = 0
      BY <2>1, <2>2 DEF BookInv, Exists
    <2>4. ASSUME NEW w \in Workers, worker'[w].d # NoRow
          PROVE  /\ worker'[w].d \in used'
                 /\ Exists(worker[w].d)'
                      => worker'[w].e = delivery'[worker'[w].d].endpoint
      <3>1. worker[w].d \in used /\ worker[w].d \in Deliveries
        BY <2>1, <2>4 DEF BookInv, TypeOK, Task
      <3>2. delivery'[worker[w].d] = delivery[worker[w].d]
        BY <2>2, <3>1
      <3> QED  BY <2>1, <2>4, <3>1, <3>2 DEF BookInv, Exists
    <2> QED  BY <2>3, <2>4 DEF BookInv
  <1>3. CASE Claim
    <2>1. PICK W, at : Passes(W, at)
      BY <1>3, PassForm
    <2>2. UNCHANGED <<delivery, used, sent>>
      BY <1>3, PassForm
    <2>3. ASSUME NEW w \in Workers, worker'[w].d # NoRow
          PROVE  /\ worker'[w].d \in used
                 /\ Exists(worker'[w].d) => worker'[w].e = delivery[worker'[w].d].endpoint
      <3>1. CASE w \in W
        <4>1. /\ at[w] \in Deliveries /\ worker'[w] = Claimed(at[w])
              /\ Exists(at[w]) /\ delivery[at[w]] \in DeliveryRow
          BY <2>1, <3>1 DEF Passes
        <4> QED  BY <4>1, ClaimedTask DEF BookInv
      <3>2. CASE w \notin W
        <4>1. worker'[w] = worker[w]
          BY <2>1, <3>2 DEF Passes
        <4> QED  BY <2>3, <4>1 DEF BookInv
      <3> QED  BY <3>1, <3>2
    <2> QED  BY <2>2, <2>3 DEF BookInv, Exists
  <1>4. ASSUME NEW w \in Workers, Dispatch(w) \/ DbError(w) \/ Crash(w)
        PROVE  Goal
    <2>1. PICK r \in Task : /\ Sole(w, r)
                            /\ \/ SameJob(r, worker[w]) /\ r.pc # "idle"
                               \/ r = Free
      BY <1>4, OwnRowOnly
    <2>2. /\ worker[w].d \in Deliveries /\ used' = used
          /\ \A g \in Deliveries :
               /\ g # worker[w].d => sent'[g] = sent[g]
               /\ delivery[g] = NoRow <=> delivery'[g] = NoRow
               /\ delivery[g] # NoRow =>
                    delivery'[g].endpoint = delivery[g].endpoint
      BY <1>4, OwnRowOnly
    <2>3. worker[w].d \in used
      BY <2>2, NoRowApart DEF BookInv
    <2>4. \A d \in Deliveries : /\ Exists(d)' => d \in used'
                                /\ d \notin used' => sent'[d] = 0
      BY <2>2, <2>3 DEF BookInv, Exists
    <2>5. \A v \in Workers :
            \/ worker'[v].d = NoRow
            \/ worker'[v].d = worker[v].d /\ worker'[v].e = worker[v].e
      BY <2>1, FreeTask DEF Sole, SameJob, TypeOK
    <2>6. ASSUME NEW v \in Workers, worker'[v].d # NoRow
          PROVE  /\ worker'[v].d \in used'
                 /\ delivery'[worker'[v].d] # NoRow
                      => worker'[v].e = delivery'[worker'[v].d].endpoint
      <3>1. worker'[v].d = worker[v].d /\ worker'[v].e = worker[v].e
        BY <2>5, <2>6
      <3>2. worker[v].d \in Deliveries
        BY <2>6, <3>1 DEF TypeOK, Task
      <3> QED  BY <2>2, <2>6, <3>1, <3>2 DEF BookInv, Exists
    <2> QED  BY <2>4, <2>6 DEF BookInv, Exists
  <1>5. ASSUME NEW d \in Deliveries, BecomeDue(d)
        PROVE  Goal
    <2> DEFINE row == DueRow(delivery[d])
    <2>1. /\ delivery[d] \in DeliveryRow
          /\ delivery' = [delivery EXCEPT ![d] = row]
          /\ UNCHANGED <<used, worker, sent>>
      BY <1>5 DEF BecomeDue, Exists, DueRow, TypeOK
    <2>2. row \in DeliveryRow /\ row.endpoint = delivery[d].endpoint
      BY <2>1, DueRowForm
    <2> HIDE DEF row
    <2> QED  BY <1>1, <2>1, <2>2, NoRowApart DEF TypeOK
  <1>6. CASE Purge
    <2>1. /\ \A d \in Deliveries : delivery'[d] \in {delivery[d], NoRow}
          /\ UNCHANGED <<used, worker, sent>>
      BY <1>6 DEF Purge
    <2> QED  BY <1>1, <2>1
  <1>7. CASE \/ EmitSelect \/ UNCHANGED vars
             \/ \E e \in scene.managed,
                   s \in {"active", "paused", "disabled"} : SetStatus(e, s)
    <2>1. UNCHANGED <<delivery, used, worker, sent>>
      BY <1>7 DEF EmitSelect, vars, SetStatus
    <2> QED  BY <1>1, <2>1
  <1> HIDE DEF Goal
  <1>8. ASSUME \E w \in Workers : Dispatch(w) \/ DbError(w) \/ Crash(w)
        PROVE  Goal
    BY <1>4, <1>8
  <1>9. Goal
    BY <1>2, <1>3, <1>5, <1>6, <1>7, <1>8 DEF Next, Goal
  <1> QED  BY <1>9 DEF Goal

\* A step that leaves a delivery's row, count and senders as they are.
LEMMA OthersCalm ==
    ASSUME NEW d \in Deliveries, CalmOf(d), scene' = scene,
           delivery'[d] # NoRow =>
             /\ delivery[d] # NoRow
             /\ delivery'[d].endpoint = delivery[d].endpoint
             /\ delivery'[d].attempts = delivery[d].attempts
             /\ delivery'[d].status = delivery[d].status,
           sent'[d] = sent[d],
           \A v \in Workers : \/ worker'[v] = worker[v]
                              \/ worker'[v].d # d /\ worker[v].d # d
    PROVE  CalmOf(d)'
  <1>1. CASE ~Calm(delivery[d])'
    BY <1>1 DEF CalmOf
  <1>2. CASE Calm(delivery[d])'
    <2>1. Calm(delivery[d]) /\ MaxAttempts' = MaxAttempts
      BY <1>2 DEF Calm, Shaky, MaxAttempts
    <2>2. \A v \in Workers : worker'[v].d = d <=> worker[v].d = d
      OBVIOUS
    <2>3. /\ delivery'[d].attempts = delivery[d].attempts
          /\ delivery'[d].status = delivery[d].status
      BY <1>2 DEF Calm
    <2>4. \A w \in Workers :
            worker'[w].d = d => StageOK(worker'[w], delivery'[d], sent'[d])
      BY <2>1, <2>2, <2>3 DEF CalmOf, StageOK
    <2> QED  BY <2>1, <2>2, <2>3, <2>4 DEF CalmOf
  <1> QED  BY <1>1, <1>2

\* A step of the delivery's only sender.
LEMMA OwnCalm ==
    ASSUME TypeOK, NEW d \in Deliveries, NEW w \in Workers, NEW r \in Task,
           Sole(w, r), scene' = scene, r.d \in {d, NoRow},
           \A v \in Workers \ {w} : worker[v].d # d,
           Calm(delivery[d])' =>
             /\ delivery'[d].attempts <= MaxAttempts
             /\ r.d = d => StageOK(r, delivery'[d], sent'[d])
             /\ r.d = NoRow => sent'[d] <= delivery'[d].attempts
    PROVE  CalmOf(d)'
  <1>1. CASE ~Calm(delivery[d])'
    BY <1>1 DEF CalmOf
  <1>2. CASE Calm(delivery[d])'
    <2>1. \A v \in Workers : worker'[v] = IF v = w THEN r ELSE worker[v]
      BY DEF Sole, TypeOK
    <2>2. MaxAttempts' = MaxAttempts /\ d # NoRow
      BY NoRowApart DEF MaxAttempts
    <2> QED  BY <1>2, <2>1, <2>2 DEF CalmOf
  <1> QED  BY <1>1, <1>2

\* The statements of an attempt at a calm delivery keep the account.
LEMMA StageMoves ==
    ASSUME TypeOK, Busy, BookInv, NEW w \in Workers, NEW d \in Deliveries,
           d = worker[w].d, CalmOf(d), Calm(delivery[d]), Dispatch(w)
    PROVE  \E r \in Task :
             /\ Sole(w, r) /\ r.d \in {d, NoRow}
             /\ delivery'[d].attempts <= MaxAttempts
             /\ r.d = d => StageOK(r, delivery'[d], sent'[d])
             /\ r.d = NoRow => sent'[d] <= delivery'[d].attempts
  <1> DEFINE Good(r) == /\ Sole(w, r) /\ r.d \in {d, NoRow}
                        /\ delivery'[d].attempts <= MaxAttempts
                        /\ r.d = d => StageOK(r, delivery'[d], sent'[d])
                        /\ r.d = NoRow => sent'[d] <= delivery'[d].attempts
             Goal == \E r \in Task : Good(r)
             row == delivery[d]
             job == worker[w]
  <1>1. /\ job \in Task /\ row \in DeliveryRow /\ d # NoRow
        /\ row.attempts \in Nat /\ sent[d] \in Nat /\ MaxAttempts \in Nat
        /\ row.attempts <= MaxAttempts
        /\ row.status = "pending" => row.attempts < MaxAttempts
    <2>1. MaxAttempts \in Nat
      BY SceneTypes DEF TypeOK
    <2> QED
      BY <2>1, NoRowApart, DeliveryFields DEF TypeOK, Calm, CalmOf, Exists
  <1>2. StageOK(job, row, sent[d])
    BY DEF CalmOf
  <1>4. ASSUME Reject(w) PROVE Goal
    <2> DEFINE r == AtFail(job, FALSE, FALSE)
    <2>1. job.pc = "send" /\ UNCHANGED <<delivery, sent>> /\ Sole(w, r)
      BY <1>4, WorkerForms DEF Reject
    <2>2. r \in Task /\ r.pc = "fail" /\ r.d = d /\ r.attempts = job.attempts
      BY <1>1, AtFailTask DEF SameJob
    <2> HIDE DEF r
    <2>3. StageOK(r, delivery'[d], sent'[d])
      BY <1>1, <1>2, <2>1, <2>2 DEF StageOK
    <2> QED  BY <1>1, <2>1, <2>2, <2>3
  <1>5. ASSUME NEW r \in Task, SameJob(r, job), r.pc \in {"delivered", "fail"},
               job.pc = "send", Sent(w), delivery' = delivery, Sole(w, r)
        PROVE  Goal
    <2>1. sent'[d] = Min2(sent[d] + 1, MaxAttempts + 1)
      BY <1>5 DEF Sent, TypeOK
    <2>2. sent'[d] <= sent[d] + 1 /\ sent'[d] \in Nat
      BY <1>1, <2>1 DEF Min2
    <2>3. /\ row.status = "pending" /\ job.attempts = row.attempts
          /\ sent[d] <= row.attempts
      BY <1>1, <1>2, <1>5 DEF StageOK
    <2>4. sent'[d] <= row.attempts + 1
      BY <1>1, <2>2, <2>3
    <2>5. StageOK(r, delivery'[d], sent'[d]) /\ r.d = d
      BY <1>5, <2>3, <2>4 DEF StageOK, SameJob
    <2> QED  BY <1>1, <1>5, <2>5
  <1>6. ASSUME Accepted(w) PROVE Goal
    <2> DEFINE r == At(job, "delivered")
    <2>1. /\ r \in Task /\ SameJob(r, job) /\ r.pc = "delivered"
          /\ Sole(w, r)
      BY <1>1, <1>6, AtTask, WorkerForms DEF Accepted, Stages
    <2> HIDE DEF r
    <2> QED  BY <1>5, <1>6, <2>1 DEF Accepted
  <1>7. ASSUME NEW retry \in BOOLEAN, Refused(w, retry) PROVE Goal
    <2> DEFINE r == AtFail(job, retry, TRUE)
    <2>1. /\ r \in Task /\ SameJob(r, job) /\ r.pc = "fail" /\ Sole(w, r)
      BY <1>1, <1>7, AtFailTask, WorkerForms DEF Refused
    <2> HIDE DEF r
    <2> QED  BY <1>5, <1>7, <2>1 DEF Refused
  <1>8. ASSUME NoAnswer(w) PROVE Goal
    <2> DEFINE r == AtFail(job, TRUE, FALSE)
    <2>1. /\ r \in Task /\ SameJob(r, job) /\ r.pc = "fail" /\ Sole(w, r)
      BY <1>1, <1>8, AtFailTask, WorkerForms DEF NoAnswer
    <2> HIDE DEF r
    <2> QED  BY <1>5, <1>8, <2>1 DEF NoAnswer
  <1>9. ASSUME job.pc \in {"delivered", "fail"}, sent' = sent,
               NEW r \in Task, r.pc \in {"success", "count"}, r.d = d,
               Sole(w, r), delivery'[d].attempts = row.attempts + 1
        PROVE  Goal
    <2>1. row.status = "pending" /\ sent[d] <= row.attempts + 1
      BY <1>1, <1>2, <1>9 DEF StageOK
    <2>2. delivery'[d].attempts <= MaxAttempts
      BY <1>1, <1>9, <2>1
    <2>3. StageOK(r, delivery'[d], sent'[d])
      BY <1>9, <2>1 DEF StageOK
    <2> QED  BY <1>1, <1>9, <2>2, <2>3
  <1>10. ASSUME MarkDelivered(w) PROVE Goal
    <2> DEFINE r == At(job, "success")
    <2>1. r \in Task /\ r.pc = "success" /\ r.d = d /\ Sole(w, r)
      BY <1>1, <1>10, AtTask, WorkerForms DEF MarkDelivered, Stages, SameJob
    <2>2. delivery' = [delivery EXCEPT ![d] = DoneRow(row)] /\ sent' = sent
      BY <1>10 DEF MarkDelivered, DoneRow, Exists, Calm
    <2>3. delivery'[d] = DoneRow(row)
      BY <2>2 DEF TypeOK
    <2>4. delivery'[d].attempts = row.attempts + 1
      BY <1>1, <2>3, DoneRowForm
    <2> HIDE DEF r
    <2> QED  BY <1>9, <1>10, <2>1, <2>2, <2>4 DEF MarkDelivered
  <1>11. ASSUME MarkFailed(w) PROVE Goal
    <2> DEFINE r == At(job, "count")
    <2>1. r \in Task /\ r.pc = "count" /\ r.d = d /\ Sole(w, r)
      BY <1>1, <1>11, AtTask, WorkerForms DEF MarkFailed, Stages, SameJob
    <2>2. delivery'[d] = FailedRow(w) /\ sent' = sent /\ job.pc = "fail"
      BY <1>11 DEF MarkFailed, Put, Calm, TypeOK
    <2>3. FailedRow(w).attempts = job.attempts + 1
      BY <2>2, FailedRowForm DEF Calm, Exists
    <2>4. job.attempts = row.attempts
      BY <1>2, <2>2 DEF StageOK
    <2> HIDE DEF r
    <2> QED  BY <1>9, <2>1, <2>2, <2>3, <2>4
  <1>12. ASSUME job.pc \in {"success", "count", "trip"},
                UNCHANGED <<delivery, sent>>,
                NEW r \in Task, r.pc = "trip", r.d = d, Sole(w, r)
         PROVE  Goal
    <2>1. StageOK(r, delivery'[d], sent'[d])
      BY <1>2, <1>12 DEF StageOK
    <2> QED  BY <1>1, <1>12, <2>1
  <1>13. ASSUME job.pc \in {"success", "count", "trip"},
                UNCHANGED <<delivery, sent>>, Sole(w, Free)
         PROVE  Goal
    <2>1. sent'[d] <= delivery'[d].attempts
      BY <1>2, <1>13 DEF StageOK
    <2> QED  BY <1>1, <1>13, <2>1, FreeTask
  <1>14. ASSUME MarkSuccess(w) \/ CountFailure(w) \/ Trip(w) PROVE Goal
    <2>1. /\ job.pc \in {"success", "count", "trip"}
          /\ UNCHANGED <<delivery, sent>>
          /\ Release(w) \/ Set(w, "trip")
      BY <1>14 DEF MarkSuccess, CountFailure, Trip
    <2> DEFINE r == At(job, "trip")
    <2>2. r \in Task /\ r.pc = "trip" /\ r.d = d
      BY <1>1, AtTask DEF Stages, SameJob
    <2>3. Sole(w, r) \/ Sole(w, Free)
      BY <2>1, WorkerForms
    <2> HIDE DEF r
    <2> QED  BY <1>12, <1>13, <2>1, <2>2, <2>3
  <1> HIDE DEF Goal
  <1>15. Goal
    BY <1>4, <1>6, <1>7, <1>8, <1>10, <1>11, <1>14 DEF Dispatch
  <1> QED  BY <1>15 DEF Goal

LEMMA CalmInit == Init => CalmInv
  BY DEF Init, CalmInv, CalmOf, Calm

LEMMA CalmStep ==
    TypeOK /\ Busy /\ BookInv /\ CalmInv /\ [Next]_vars => CalmInv'
  <1> SUFFICES ASSUME TypeOK, Busy, BookInv, CalmInv, [Next]_vars,
                      NEW d \in Deliveries
               PROVE  CalmOf(d)'
    BY DEF CalmInv
  <1> DEFINE Goal == CalmOf(d)'
  <1>1. CalmOf(d) /\ scene' = scene
    BY SceneFixed DEF CalmInv
  <1>2. ASSUME UNCHANGED <<worker, sent>>,
               delivery'[d] # NoRow =>
                 /\ delivery[d] # NoRow
                 /\ delivery'[d].endpoint = delivery[d].endpoint
                 /\ delivery'[d].attempts = delivery[d].attempts
                 /\ delivery'[d].status = delivery[d].status
        PROVE  Goal
    BY <1>1, <1>2, OthersCalm
  <1>3. ASSUME EmitInsert PROVE Goal
    <2>1. UNCHANGED <<worker, sent>>
      BY <1>3, EmitInsertShape
    <2>2. CASE delivery'[d] = delivery[d]
      BY <1>2, <2>1, <2>2
    <2>3. CASE /\ d \notin used /\ delivery'[d] # NoRow
               /\ delivery'[d].attempts = 0
      <3>1. sent'[d] = 0 /\ \A v \in Workers : worker'[v].d # d
        BY <2>1, <2>3, NoRowApart DEF BookInv
      <3>2. (MaxAttempts)' \in Nat
        BY <1>1, SceneTypes DEF TypeOK, MaxAttempts
      <3> QED  BY <2>3, <3>1, <3>2 DEF CalmOf
    <2> QED  BY <1>3, <2>2, <2>3, EmitInsertShape
  <1>4. ASSUME Claim PROVE Goal
    <2>1. PICK W, at : Passes(W, at)
      BY <1>4, PassForm
    <2>2. /\ UNCHANGED <<delivery, sent>> /\ worker \in [Workers -> Task]
          /\ worker' \in [Workers -> Task]
      BY <1>4, PassForm DEF TypeOK
    <2>3. \A w \in W : worker[w].d = NoRow /\ worker'[w].d = at[w]
      BY <2>1, ClaimedTask DEF Passes, Busy
    <2>4. CASE \A w \in W : at[w] # d
      <3>1. \A v \in Workers : \/ worker'[v] = worker[v]
                               \/ worker'[v].d # d /\ worker[v].d # d
        BY <2>1, <2>3, <2>4, NoRowApart DEF Passes
      <3> QED  BY <1>1, <2>2, <3>1, OthersCalm
    <2>5. ASSUME NEW w \in W, at[w] = d PROVE Goal
      <3> DEFINE r == Claimed(d)
      <3>1. /\ w \in Workers /\ worker'[w] = r /\ delivery[d] \in DeliveryRow
            /\ delivery[d].status = "pending"
            /\ delivery[d].endpoint \in Shaky \/ \A v \in Workers : worker[v].d # d
        BY <2>1, <2>5 DEF Passes, Holders
      <3>2. r \in Task /\ r.pc = "send" /\ r.d = d /\ r.attempts = delivery[d].attempts
        BY <3>1, ClaimedTask
      <3> HIDE DEF r
      <3>3. CASE delivery[d].endpoint \in Shaky
        BY <1>1, <2>2, <3>3 DEF CalmOf, Calm, Shaky
      <3>4. CASE delivery[d].endpoint \notin Shaky
        <4>1. \A v \in Workers : worker[v].d # d
          BY <3>1, <3>4
        <4>2. Calm(delivery[d])
          BY <3>1, <3>4, NoRowApart DEF Calm
        <4>3. sent[d] <= delivery[d].attempts /\ delivery[d].attempts <= MaxAttempts
          BY <1>1, <4>1, <4>2 DEF CalmOf
        <4>4. StageOK(r, delivery'[d], sent'[d])
          BY <2>2, <3>1, <3>2, <4>3, DeliveryFields DEF StageOK
        <4>5. \A v \in Workers : worker'[v].d = d => v = w
          <5>1. \A v \in W : worker'[v].d = d => v = w
            BY <2>1, <2>3, <2>5 DEF Passes
          <5>2. \A v \in Workers \ W : worker'[v].d # d
            BY <2>1, <4>1 DEF Passes
          <5> QED  BY <5>1, <5>2
        <4>6. MaxAttempts' = MaxAttempts
          BY <1>1 DEF MaxAttempts
        <4> QED  BY <2>2, <3>1, <3>2, <4>3, <4>4, <4>5, <4>6 DEF CalmOf
      <3> QED  BY <3>3, <3>4
    <2> QED  BY <2>4, <2>5
  <1>5. ASSUME NEW w \in Workers, Dispatch(w) \/ DbError(w) \/ Crash(w)
        PROVE  Goal
    <2>1. CASE worker[w].d # d
      <3>1. PICK r \in Task : /\ Sole(w, r)
                              /\ \/ SameJob(r, worker[w])
                                 \/ r = Free
        BY <1>5, OwnRowOnly
      <3>2. r.d # d
        BY <2>1, <3>1, FreeTask, NoRowApart DEF SameJob
      <3>3. \A v \in Workers : \/ worker'[v] = worker[v]
                               \/ worker'[v].d # d /\ worker[v].d # d
        BY <2>1, <3>1, <3>2 DEF Sole, TypeOK
      <3>4. delivery'[d] = delivery[d] /\ sent'[d] = sent[d]
        BY <1>5, <2>1, OwnRowOnly
      <3> QED  BY <1>1, <3>3, <3>4, OthersCalm
    <2>2. CASE worker[w].d = d /\ Calm(delivery[d])
      <3>1. Dispatch(w)
        <4>1. worker[w].e = delivery[d].endpoint
          BY <2>2, NoRowApart DEF BookInv, Exists, Calm
        <4> QED  BY <1>5, <2>2, <4>1 DEF DbError, Crash, Calm
      <3>2. PICK r \in Task :
              /\ Sole(w, r) /\ r.d \in {d, NoRow}
              /\ delivery'[d].attempts <= MaxAttempts
              /\ r.d = d => StageOK(r, delivery'[d], sent'[d])
              /\ r.d = NoRow => sent'[d] <= delivery'[d].attempts
        BY <1>1, <2>2, <3>1, StageMoves
      <3>3. \A v \in Workers \ {w} : worker[v].d # d
        BY <1>1, <2>2 DEF CalmOf
      <3> QED  BY <1>1, <3>2, <3>3, OwnCalm
    <2>3. CASE ~Calm(delivery[d])
      <3>1. /\ delivery[d] = NoRow <=> delivery'[d] = NoRow
            /\ delivery[d] # NoRow =>
                 delivery'[d].endpoint = delivery[d].endpoint
        BY <1>5, OwnRowOnly
      <3>2. ~Calm(delivery[d])'
        BY <1>1, <2>3, <3>1 DEF Calm, Shaky
      <3> QED  BY <3>2 DEF CalmOf
    <2> QED  BY <2>1, <2>2, <2>3
  <1>6. ASSUME NEW g \in Deliveries, BecomeDue(g) PROVE Goal
    <2> DEFINE row == DueRow(delivery[g])
    <2>1. /\ delivery[g] \in DeliveryRow
          /\ delivery' = [delivery EXCEPT ![g] = row]
          /\ UNCHANGED <<worker, sent>>
      BY <1>6 DEF BecomeDue, Exists, DueRow, TypeOK
    <2>2. /\ row.endpoint = delivery[g].endpoint
          /\ row.attempts = delivery[g].attempts
          /\ row.status = delivery[g].status
      BY <2>1, DueRowForm
    <2> HIDE DEF row
    <2>3. delivery'[d] = IF d = g THEN row ELSE delivery[d]
      BY <2>1 DEF TypeOK
    <2> QED  BY <1>2, <2>1, <2>2, <2>3, NoRowApart
  <1>7. ASSUME Purge PROVE Goal
    <2>1. /\ delivery'[d] \in {delivery[d], NoRow}
          /\ UNCHANGED <<worker, sent>>
      BY <1>7 DEF Purge
    <2> QED  BY <1>2, <2>1
  <1>8. ASSUME \/ EmitSelect \/ UNCHANGED vars
               \/ \E e \in scene.managed,
                     s \in {"active", "paused", "disabled"} : SetStatus(e, s)
        PROVE  Goal
    <2>1. UNCHANGED <<delivery, worker, sent>>
      BY <1>8 DEF EmitSelect, vars, SetStatus
    <2> QED  BY <1>2, <2>1
  <1> HIDE DEF Goal
  <1>9. ASSUME \E w \in Workers : Dispatch(w) \/ DbError(w) \/ Crash(w)
        PROVE  Goal
    BY <1>5, <1>9
  <1>10. Goal
    BY <1>3, <1>4, <1>6, <1>7, <1>8, <1>9 DEF Next
  <1> QED  BY <1>10 DEF Goal

\* The invariant of the queue.
QueueInv == TypeOK /\ Busy /\ BookInv /\ CalmInv

\* The account of every attempt (QueueInv) is kept by every step of the queue:
\* emission, passes, maintenance and operators.
THEOREM AccountKept == Spec => []QueueInv
  <1>1. Init => QueueInv
    BY TypeInit, BookInit, CalmInit DEF QueueInv
  <1>2. QueueInv /\ [Next]_vars => QueueInv'
    BY TypeStep, BookStep, CalmStep DEF QueueInv
  <1> QED  BY <1>1, <1>2, PTL DEF Spec

\* No receiver is sent a delivery more often than MAX_DELIVERY_ATTEMPTS, nor,
\* once the attempt is over, more often than the row records.
THEOREM SendsAreBounded == Spec => []SendsBounded
  <1>1. QueueInv => SendsBounded
    <2> SUFFICES ASSUME QueueInv, NEW d \in Deliveries, Calm(delivery[d])
                 PROVE  /\ sent[d] <= MaxAttempts
                        /\ Holders(d) = {} => sent[d] <= delivery[d].attempts
      BY DEF SendsBounded
    <2>1. /\ delivery[d] \in DeliveryRow /\ delivery[d].attempts \in Nat
          /\ sent[d] \in Nat /\ MaxAttempts \in Nat /\ CalmOf(d)
          /\ delivery[d].status = "pending" => delivery[d].attempts < MaxAttempts
      <3>1. MaxAttempts \in Nat
        BY SceneTypes DEF QueueInv, TypeOK
      <3> QED
        BY <3>1, DeliveryFields DEF QueueInv, TypeOK, Calm, CalmInv, Exists
    <2>2. Holders(d) = {} => sent[d] <= delivery[d].attempts
      BY <2>1 DEF CalmOf, Holders
    <2>3. sent[d] <= MaxAttempts
      <3>1. CASE Holders(d) = {}
        BY <2>1, <2>2, <3>1 DEF CalmOf
      <3>2. CASE Holders(d) # {}
        <4>1. PICK w \in Workers : worker[w].d = d
          BY <3>2 DEF Holders
        <4>2. worker[w].pc \in Stages \ {"idle"}
          BY <4>1, NoRowApart, TaskFields DEF QueueInv, TypeOK, Busy
        <4>3. /\ delivery[d].attempts <= MaxAttempts
              /\ StageOK(worker[w], delivery[d], sent[d])
          BY <2>1, <4>1 DEF CalmOf
        <4>4. \/ sent[d] <= delivery[d].attempts
              \/ /\ sent[d] <= delivery[d].attempts + 1
                 /\ delivery[d].attempts < MaxAttempts
          BY <2>1, <4>2, <4>3 DEF StageOK, Stages
        <4> QED  BY <2>1, <4>3, <4>4
      <3> QED  BY <3>1, <3>2
    <2> QED  BY <2>2, <2>3
  <1> QED  BY <1>1, AccountKept, PTL

\* A settled delivery is only ever purged: no pass, no timer and no emission
\* writes its row again.
THEOREM SettledIsFinal == Spec => SettledStaysSettled
  <1>1. QueueInv /\ [Next]_vars =>
          [\A d \in Deliveries :
             Calm(delivery[d]) /\ Settled(delivery[d])
               => delivery'[d] \in {delivery[d], NoRow}]_vars
    <2> SUFFICES ASSUME QueueInv, [Next]_vars, NEW d \in Deliveries,
                        Calm(delivery[d]), Settled(delivery[d])
                 PROVE  delivery'[d] \in {delivery[d], NoRow}
      OBVIOUS
    <2> DEFINE Goal == delivery'[d] \in {delivery[d], NoRow}
    <2>1. /\ TypeOK /\ Busy /\ BookInv /\ CalmOf(d)
          /\ delivery[d].status # "pending" /\ d \in used
      BY DEF QueueInv, CalmInv, Settled, BookInv, Exists
    <2>2. ASSUME EmitInsert PROVE Goal
      BY <2>1, <2>2, EmitInsertShape
    <2>3. ASSUME NEW g \in Deliveries, BecomeDue(g) PROVE Goal
      BY <2>1, <2>3 DEF BecomeDue, TypeOK
    <2>4. ASSUME NEW w \in Workers, Dispatch(w) \/ DbError(w) \/ Crash(w)
          PROVE  Goal
      <3>1. CASE worker[w].d # d
        BY <2>1, <2>4, <3>1, OwnRowOnly
      <3>2. CASE worker[w].d = d
        <4>1. worker[w].pc \notin {"delivered", "fail"}
          BY <2>1, <3>2 DEF CalmOf, StageOK
        <4>2. delivery' = delivery
          BY <2>4, <4>1
          DEF Dispatch, DbError, Crash, Reject, Accepted, Refused, NoAnswer,
              MarkDelivered, MarkSuccess, MarkFailed, CountFailure, Trip
        <4> QED  BY <4>2
      <3> QED  BY <3>1, <3>2
    <2>5. ASSUME \/ EmitSelect \/ Purge \/ UNCHANGED vars
                 \/ Claim
                 \/ \E e \in scene.managed,
                       s \in {"active", "paused", "disabled"} : SetStatus(e, s)
          PROVE  Goal
      BY <2>5 DEF EmitSelect, Purge, Claim, SetStatus, vars
    <2> HIDE DEF Goal
    <2>6. ASSUME \E w \in Workers : Dispatch(w) \/ DbError(w) \/ Crash(w)
          PROVE  Goal
      BY <2>4, <2>6
    <2>7. Goal
      BY <2>2, <2>3, <2>5, <2>6 DEF Next
    <2> QED  BY <2>7 DEF Goal
  <1> QED  BY <1>1, AccountKept, PTL DEF Spec, SettledStaysSettled
=============================================================================
