---------------------------- MODULE WebhookQueue ----------------------------
(***************************************************************************)
(* The webhook endpoints, their delivery queue and the drain passes that    *)
(* send it: packages/db/src/queries/webhooks.ts and                         *)
(* apps/web/src/lib/webhook-dispatch.ts.                                    *)
(*                                                                         *)
(* A drain pass selects the oldest due rows of all endpoints and sends them *)
(* in parallel, in one process; a worker is one row being sent, from the    *)
(* SELECT that found it to its last UPDATE.  No statement runs in a         *)
(* transaction with another.                                               *)
(***************************************************************************)
EXTENDS Naturals, FiniteSets

CONSTANTS
    Endpoints, Deliveries, Workers,
    Threshold,        \* BREAKER_THRESHOLD
    Scenes,           \* bounds: which endpoints and delivery ids a behaviour
                      \* uses, MAX_DELIVERY_ATTEMPTS, the LIMIT of a pass, the
                      \* endpoints an operator pauses, resumes or disables, and
                      \* which endpoints are shaky: two passes may hold their
                      \* deliveries at once, their statements may fail and the
                      \* processes that send them die
    NoRow

ASSUME WebhookAssumption ==
    /\ Threshold \in Nat \ {0}
    /\ Scenes \subseteq [endpoints : SUBSET Endpoints, shaky : SUBSET Endpoints,
                         deliveries : SUBSET Deliveries, attempts : Nat \ {0},
                         limit : Nat \ {0}, managed : SUBSET Endpoints]
    /\ Deliveries \subseteq Nat
    /\ NoRow \notin Endpoints \cup Deliveries
                      \cup [endpoint : Endpoints, created : SUBSET Deliveries,
                            due : BOOLEAN, attempts : Nat,
                            status : {"pending", "delivered", "failed",
                                      "dropped"}]

VARIABLES
    endpoint,         \* infra_webhook_endpoints
    delivery,         \* infra_webhook_deliveries
    used,             \* delivery ids drawn so far
    emitter,          \* endpoints the emission in progress has selected
    worker,           \* the rows being sent
    sent,             \* history: POSTs that may have reached the receiver
    scene             \* the member of Scenes this behaviour is in

vars == <<endpoint, delivery, used, emitter, worker, sent, scene>>

Shaky == scene.shaky
MaxAttempts == scene.attempts

Free == [pc |-> "idle", d |-> NoRow, e |-> NoRow, attempts |-> 0,
         retry |-> FALSE, inTry |-> FALSE]

Min2(a, b) == IF a < b THEN a ELSE b

Exists(d) == delivery[d] # NoRow
Holders(d) == {w \in Workers : worker[w].d = d}

Init ==
    /\ endpoint = [e \in Endpoints |-> [status |-> "active", fails |-> 0]]
    /\ delivery = [d \in Deliveries |-> NoRow]
    /\ used = {}
    /\ emitter = {}
    /\ worker = [w \in Workers |-> Free]
    /\ sent = [d \in Deliveries |-> 0]
    /\ scene \in Scenes

-----------------------------------------------------------------------------
(* Emitting *)

\* emitWebhookEvent selects the active endpoints ...
EmitSelect ==
    /\ emitter = {}
    /\ \E T \in SUBSET {e \in scene.endpoints : endpoint[e].status = "active"} :
         /\ T # {} /\ Cardinality(T) <= Cardinality(scene.deliveries \ used)
         /\ emitter' = T
    /\ UNCHANGED <<endpoint, delivery, used, worker, sent, scene>>

\* created_at, one for all the rows of an INSERT: the ids drawn before them.
NewDelivery(e) == [endpoint |-> e, created |-> used,
                   status |-> "pending", attempts |-> 0, due |-> TRUE]

\* ... and inserts one row for each, whatever became of it meanwhile.
EmitInsert ==
    /\ emitter # {}
    /\ \E at \in [emitter -> scene.deliveries \ used] :
         /\ \A e, g \in emitter : at[e] = at[g] => e = g
         /\ \A e \in emitter : \A d \in scene.deliveries \ used :
              d < at[e] => \E g \in emitter : at[g] = d   \* ids in order
         /\ delivery' = [d \in Deliveries |->
                           IF \E e \in emitter : at[e] = d
                             THEN NewDelivery(CHOOSE e \in emitter : at[e] = d)
                             ELSE delivery[d]]
         /\ used' = used \cup {at[e] : e \in emitter}
    /\ emitter' = {}
    /\ UNCHANGED <<endpoint, worker, sent, scene>>

-----------------------------------------------------------------------------
(* Draining *)

Set(w, pc) == worker' = [worker EXCEPT ![w].pc = pc]
Release(w) == worker' = [worker EXCEPT ![w] = Free]

\* Move to markAttemptFailed.
Failing(w, retry, inTry) ==
    worker' = [worker EXCEPT ![w].pc = "fail", ![w].retry = retry,
                             ![w].inTry = inTry]

Claimed(d) == [Free EXCEPT !.pc = "send", !.d = d, !.e = delivery[d].endpoint,
                           !.attempts = delivery[d].attempts]

IsDue(d) == /\ Exists(d)
            /\ delivery[d].status = "pending" /\ delivery[d].due
            /\ endpoint[delivery[d].endpoint].status = "active"

\* ORDER BY created_at LIMIT: as many of the rows as the limit admits, and
\* none that is newer than one left out.
Oldest(rows) ==
    {B \in SUBSET rows :
       /\ Cardinality(B) = Min2(Cardinality(rows), scene.limit)
       /\ \A d \in B, g \in rows \ B : delivery[d].created \subseteq delivery[g].created}

\* A pass over the rows B: each is sent from then on by a worker of its own.
Pass(B) ==
    \E W \in SUBSET {w \in Workers : worker[w].pc = "idle"} :
      \E at \in [W -> B] :
        /\ {at[w] : w \in W} = B /\ \A v, w \in W : at[v] = at[w] => v = w
        /\ worker' = [w \in Workers |-> IF w \in W THEN Claimed(at[w])
                                       ELSE worker[w]]

\* Mutant: settled rows are selected too.
ClaimAny ==
    LET rows == {d \in Deliveries :
                   /\ Exists(d) /\ delivery[d].status # "delivered"
                   /\ endpoint[delivery[d].endpoint].status = "active"}
    IN  \E B \in Oldest(rows) :
          /\ B # {}
          /\ \A d \in B : delivery[d].endpoint \in Shaky \/ Holders(d) = {}
          /\ Pass(B)
          /\ UNCHANGED <<endpoint, delivery, used, emitter, sent, scene>>

\* claimDueDeliveries: a SELECT, nothing is written.  The passes that select
\* rows of an endpoint that is not shaky do not overlap.
Claim ==
    \E B \in Oldest({d \in Deliveries : IsDue(d)}) :
      /\ B # {}
      /\ \A d \in B : delivery[d].endpoint \in Shaky \/ Holders(d) = {}
      /\ Pass(B)
      /\ UNCHANGED <<endpoint, delivery, used, emitter, sent, scene>>

\* The URL is refused or the secret does not decrypt: nothing is sent.
Reject(w) ==
    /\ worker[w].pc = "send"
    /\ Failing(w, FALSE, FALSE)
    /\ UNCHANGED <<endpoint, delivery, used, emitter, sent, scene>>

Sent(w) == sent' = [sent EXCEPT ![worker[w].d] = Min2(@ + 1, MaxAttempts + 1)]

\* The receiver answers 2xx.
Accepted(w) ==
    /\ worker[w].pc = "send"
    /\ Sent(w)
    /\ Set(w, "delivered")
    /\ UNCHANGED <<endpoint, delivery, used, emitter, scene>>

\* 5xx, 408 and 429 (shouldRetry), or any other status and redirects.
Refused(w, retry) ==
    /\ worker[w].pc = "send"
    /\ Sent(w)
    /\ Failing(w, retry, TRUE)
    /\ UNCHANGED <<endpoint, delivery, used, emitter, scene>>

\* The fetch fails or its timer aborts it: the catch block.
NoAnswer(w) ==
    /\ worker[w].pc = "send"
    /\ Sent(w)
    /\ Failing(w, TRUE, FALSE)
    /\ UNCHANGED <<endpoint, delivery, used, emitter, scene>>

\* Updates by id touch nothing once the row is purged.
Put(d, row) == delivery' = [delivery EXCEPT ![d] = IF @ = NoRow THEN @ ELSE row]

\* markDelivered, first statement: attempts + 1 in SQL.
MarkDelivered(w) ==
    /\ worker[w].pc = "delivered"
    /\ LET d == worker[w].d IN
         delivery' = IF Exists(d)
           THEN [delivery EXCEPT ![d].status = "delivered", ![d].attempts = @ + 1,
                                 ![d].due = FALSE]
           ELSE delivery
    /\ Set(w, "success")
    /\ UNCHANGED <<endpoint, used, emitter, sent, scene>>

MarkSuccess(w) ==
    /\ worker[w].pc = "success"
    /\ endpoint' = [endpoint EXCEPT ![worker[w].e].fails = 0]
    /\ Release(w)
    /\ UNCHANGED <<delivery, used, emitter, sent, scene>>

\* nextAttemptAt(attempts) is a time, or null at the last attempt.
WillRetry(attempts, retry) == retry /\ attempts < MaxAttempts

\* Mutant: the attempt is not counted.
FailedRowUncounted(w) ==
    LET attempts == worker[w].attempts
        retry == worker[w].retry
    IN  [endpoint |-> worker[w].e, created |-> delivery[worker[w].d].created,
         attempts |-> attempts, due |-> FALSE,
         status |-> IF WillRetry(attempts, retry) THEN "pending"
                    ELSE IF retry THEN "failed" ELSE "dropped"]

\* The row markAttemptFailed writes, from the attempts the SELECT saw.
FailedRow(w) ==
    LET attempts == worker[w].attempts + 1
        retry == worker[w].retry
    IN  [endpoint |-> worker[w].e, created |-> delivery[worker[w].d].created,
         attempts |-> attempts, due |-> FALSE,
         status |-> IF WillRetry(attempts, retry) THEN "pending"
                    ELSE IF retry THEN "failed" ELSE "dropped"]

MarkFailed(w) ==
    /\ worker[w].pc = "fail"
    /\ Put(worker[w].d, FailedRow(w))
    /\ Set(w, "count")
    /\ UNCHANGED <<endpoint, used, emitter, sent, scene>>

\* Mutant: the breaker trips one failure too late.
CountFailureLate(w) ==
    /\ worker[w].pc = "count"
    /\ LET e == worker[w].e
           fails == Min2(endpoint[e].fails + 1, Threshold)
       IN  /\ endpoint' = [endpoint EXCEPT ![e].fails = fails]
           /\ IF endpoint[e].fails >= Threshold THEN Set(w, "trip")
                                                ELSE Release(w)
    /\ UNCHANGED <<delivery, used, emitter, sent, scene>>

\* consecutive_failures + 1 RETURNING; the count saturates at the threshold.
CountFailure(w) ==
    /\ worker[w].pc = "count"
    /\ LET e == worker[w].e
           fails == Min2(endpoint[e].fails + 1, Threshold)
       IN  /\ endpoint' = [endpoint EXCEPT ![e].fails = fails]
           /\ IF fails >= Threshold THEN Set(w, "trip") ELSE Release(w)
    /\ UNCHANGED <<delivery, used, emitter, sent, scene>>

Trip(w) ==
    /\ worker[w].pc = "trip"
    /\ endpoint' = [endpoint EXCEPT ![worker[w].e].status = "disabled"]
    /\ Release(w)
    /\ UNCHANGED <<delivery, used, emitter, sent, scene>>

\* A statement throws.  Inside the try block the catch records the attempt
\* as a network error; anywhere else the pass gives the row up.
DbError(w) ==
    /\ worker[w].e \in Shaky
    /\ worker[w].pc \in {"delivered", "success", "fail", "count", "trip"}
    /\ IF worker[w].pc \in {"delivered", "success"} \/ worker[w].inTry
         THEN Failing(w, TRUE, FALSE) ELSE Release(w)
    /\ UNCHANGED <<endpoint, delivery, used, emitter, sent, scene>>

\* The process dies: its rows are given up, one after the other, in any of
\* the states it may have died in.
Crash(w) ==
    /\ worker[w].e \in Shaky
    /\ worker[w].pc # "idle"
    /\ Release(w)
    /\ UNCHANGED <<endpoint, delivery, used, emitter, sent, scene>>

-----------------------------------------------------------------------------
(* Time, maintenance, operators *)

\* Mutant: a failed attempt is never due again.
NeverDue(d) == FALSE

\* nextAttemptAt passes.
BecomeDue(d) ==
    /\ Exists(d)
    /\ delivery[d].status = "pending" /\ ~delivery[d].due
    /\ delivery' = [delivery EXCEPT ![d].due = TRUE]
    /\ UNCHANGED <<endpoint, used, emitter, worker, sent, scene>>

\* purgeSettledDeliveries: 'delivered' and 'dropped' rows of some age.
Purge ==
    /\ \E S \in SUBSET {d \in Deliveries : Exists(d)} :
         /\ \A d \in S : delivery[d].status \in {"delivered", "dropped"}
         /\ delivery' = [d \in Deliveries |->
                           IF d \in S THEN NoRow ELSE delivery[d]]
    /\ UNCHANGED <<endpoint, used, emitter, worker, sent, scene>>

SetStatus(e, status) ==
    /\ endpoint' = [endpoint EXCEPT ![e] =
         [status |-> status, fails |-> IF status = "active" THEN 0 ELSE @.fails]]
    /\ UNCHANGED <<delivery, used, emitter, worker, sent, scene>>

-----------------------------------------------------------------------------
Dispatch(w) ==
    \/ Reject(w) \/ Accepted(w) \/ NoAnswer(w)
    \/ \E retry \in BOOLEAN : Refused(w, retry)
    \/ MarkDelivered(w) \/ MarkSuccess(w) \/ MarkFailed(w)
    \/ CountFailure(w) \/ Trip(w)

Next ==
    \/ EmitSelect \/ EmitInsert
    \/ Claim
    \/ \E w \in Workers : Dispatch(w) \/ DbError(w) \/ Crash(w)
    \/ \E d \in Deliveries : BecomeDue(d)
    \/ Purge
    \/ \E e \in scene.managed, s \in {"active", "paused", "disabled"} :
         SetStatus(e, s)

Spec == Init /\ [][Next]_vars

\* The scheduler calls the drain route every minute, a row that is being sent
\* is sent to its end (the fetch has an 8 s timer), and time passes.  A pass
\* that may run, may run until it does: weak fairness is enough.
Fairness ==
    /\ WF_vars(Claim)
    /\ \A w \in Workers : WF_vars(Dispatch(w))
    /\ \A d \in Deliveries : WF_vars(BecomeDue(d))

FairSpec == Spec /\ Fairness

-----------------------------------------------------------------------------
(* Properties *)

Statuses == {"pending", "delivered", "failed", "dropped"}

EndpointRow == [status : {"active", "paused", "disabled"},
                fails : 0 .. Threshold]

DeliveryRow == [endpoint : Endpoints, created : SUBSET Deliveries,
                due : BOOLEAN, attempts : Nat, status : Statuses]

Task == [pc : {"idle", "send", "delivered", "success", "fail", "count", "trip"},
         d : Deliveries \cup {NoRow}, e : Endpoints \cup {NoRow},
         attempts : Nat, retry : BOOLEAN, inTry : BOOLEAN]

\* Types; a row that is to be sent again, and every attempt at one, has an
\* attempt of the retry schedule left.
TypeOK ==
    /\ endpoint \in [Endpoints -> EndpointRow]
    /\ delivery \in [Deliveries -> DeliveryRow \cup {NoRow}]
    /\ used \subseteq Deliveries
    /\ emitter \subseteq Endpoints
    /\ worker \in [Workers -> Task]
    /\ sent \in [Deliveries -> 0 .. MaxAttempts + 1]
    /\ scene \in Scenes
    /\ \A d \in Deliveries :
         Exists(d) /\ delivery[d].status = "pending"
           => delivery[d].attempts < MaxAttempts
    /\ \A w \in Workers : worker[w].attempts < MaxAttempts

Settled(row) == row # NoRow /\ row.status # "pending"
Calm(row) == row # NoRow /\ row.endpoint \notin Shaky

\* A settled delivery is never put back in the queue and nothing it says is
\* overwritten, as long as passes do not share it and its statements succeed.
SettledStaysSettled ==
    [][\A d \in Deliveries :
         Calm(delivery[d]) /\ Settled(delivery[d])
           => delivery'[d] \in {delivery[d], NoRow}]_vars

\* The retry schedule bounds what a receiver sees: no delivery is sent more
\* often than its row records, nor more than MAX_DELIVERY_ATTEMPTS times, as
\* long as passes do not share it and its statements succeed.
SendsBounded ==
    \A d \in Deliveries : Calm(delivery[d]) =>
      /\ sent[d] <= MaxAttempts
      /\ Holders(d) = {} => sent[d] <= delivery[d].attempts

\* An endpoint at the failure threshold is switched off: if it is still
\* active, the statement that disables it is already on its way.
BreakerTrips ==
    \A e \in Endpoints \ Shaky :
      endpoint[e].status = "active" /\ endpoint[e].fails >= Threshold
        => \E w \in Workers : worker[w].e = e /\ worker[w].pc = "trip"

\* What may be sent before d again and again without ever being settled: a
\* row of a shaky endpoint whose passes die is selected anew each time.
Obstacles(d) ==
    {g \in Deliveries : /\ Exists(g) /\ delivery[g].status = "pending"
                        /\ delivery[g].endpoint \in Shaky
                        /\ delivery[g].created \subseteq delivery[d].created}

Queued(d) == /\ Calm(delivery[d]) /\ delivery[d].status = "pending"
             /\ endpoint[delivery[d].endpoint].status = "active"
             /\ Cardinality(Obstacles(d)) < scene.limit

\* Every delivery queued for an active endpoint is settled, whatever older
\* rows the LIMIT of a pass prefers to it and whatever happens to the passes of
\* other endpoints, unless the endpoint is switched off or the older rows of
\* endpoints whose passes die fill a whole pass.
EventuallySettled == \A d \in Deliveries : Queued(d) ~> ~Queued(d)
=============================================================================
