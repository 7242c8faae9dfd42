--------------------------- MODULE LoginThrottle ---------------------------
(***************************************************************************)
(* The sign-in throttle: the policy of packages/core/src/throttle.ts, the   *)
(* counters packages/db/src/queries/security.ts keeps, and the handlers     *)
(* that ask it: the shield in front of POST /sign-in/email                  *)
(* (apps/web/src/lib/auth-shield.ts), recovery/request and                  *)
(* recovery/confirm.                                                       *)
(*                                                                         *)
(* Every SQL statement is a step and nothing runs in a transaction, so a    *)
(* request carries the row it read and the Date it took at the call.  A     *)
(* missing row is the EMPTY_ATTEMPT readState returns for it.               *)
(***************************************************************************)
EXTENDS Naturals, Functions

CONSTANTS
    Ips, Emails,
    NoEmail,          \* the `email: null` of the recovery routes
    Requests,         \* requests in progress at once
    Policy,           \* POLICY_FOR: scope -> [free, base, max, ttl]
    SweepAge,         \* sweepLoginAttempts: 24 h
    Unruly,           \* ips whose requests may overlap and die half way
    Delay,            \* bound: ticks between the clock readings of a request
    MaxTime,          \* bound: clock ticks
    MaxFailures       \* bound: failures of all ips

Scopes == {"ip", "ip_email"}
Routes == {"signin", "request", "confirm"}

ASSUME ThrottleBounds ==
    {SweepAge, Delay, MaxTime, MaxFailures} \subseteq Nat /\ Unruly \subseteq Ips /\ Ips # {}
ASSUME Policies ==
    Policy \in [Scopes -> [free : Nat, base : Nat, max : Nat, ttl : Nat \ {0}]]

\* What IP_POLICY, IP_EMAIL_POLICY and the sweep have in common: a counter
\* outlives the lock it set, and is swept only when it has decayed for every
\* request there is.
ASSUME CounterOutlivesLock ==
    \A s \in Scopes : Policy[s].max <= Policy[s].ttl /\ Policy[s].ttl + Delay <= SweepAge

VARIABLES
    now,
    attempts,         \* infra_login_attempts, by key
    request,
    tally             \* history: the failures of each ip, and ip and email

throttleVars == <<now, attempts, request, tally>>

Identities == Ips \X (Emails \cup {NoEmail})

\* loginScopeKey.
KeyOf(scope, id) ==
    IF scope = "ip" THEN <<scope, id[1]>> ELSE <<scope, id[1], id[2]>>

Keys == {KeyOf(s, id) : s \in Scopes, id \in Identities}

\* Whose failures a counter is meant to count.
Subject(scope, id) == IF scope = "ip" THEN <<id[1]>> ELSE id
Subjects == {Subject(s, id) : s \in Scopes, id \in Identities}

Never == 0        \* a null Date; the clock starts at 1
Empty == [count |-> 0, last |-> Never, until |-> Never]

-----------------------------------------------------------------------------
(* throttle.ts *)

Least(a, b) == IF a <= b THEN a ELSE b

\* Mutant: the doubling is not capped.
LockoutUncapped(count, p) ==
    IF count <= p.free THEN 0 ELSE p.base * 2 ^ Least(count - p.free - 1, 30)

LockoutFor(count, p) ==
    IF count <= p.free THEN 0
    ELSE Least(p.base * 2 ^ Least(count - p.free - 1, 30), p.max)

\* `now - last < ttl`, on a `now` that may be older than the row's.
Decay(a, p, t) ==
    IF a.last # Never /\ t < a.last + p.ttl THEN a ELSE Empty

Locked(a, p, t) == Decay(a, p, t).until > t     \* evaluateAttempt says no

AfterFailure(a, p, t) ==
    LET count == Decay(a, p, t).count + 1
        lockout == LockoutFor(count, p)
    IN  [count |-> count, last |-> t,
         until |-> IF lockout = 0 THEN Never ELSE t + lockout]

-----------------------------------------------------------------------------
AnyId == CHOOSE id \in Identities : TRUE
NoRequest == [pc |-> "idle", kind |-> "signin", id |-> AnyId, at |-> Never,
         todo |-> {}, no |-> FALSE, row |-> Empty]

NoTally == [run |-> 0, last |-> Never, ever |-> 0]

ThrottleInit ==
    /\ now = 1
    /\ attempts = [k \in Keys |-> Empty]
    /\ request = [w \in Requests |-> NoRequest]
    /\ tally = [s \in Subjects |-> NoTally]

Answered(w) == request' = [request EXCEPT ![w] = NoRequest]
Mine(w, scope) == KeyOf(scope, request[w].id)
Busy(ip) == {w \in Requests : request[w].pc # "idle" /\ request[w].id[1] = ip}

\* A request arrives; checkLoginThrottle takes `now`.  The recovery routes
\* pass no email, and a sign-in body may lack one.
Arrive(w, kind, id) ==
    /\ request[w].pc = "idle"
    /\ kind # "signin" => id[2] = NoEmail
    /\ id[1] \in Unruly \/ Busy(id[1]) = {}
    /\ request' = [request EXCEPT ![w] =
         [pc |-> "check", kind |-> kind, id |-> id, at |-> now, todo |-> Scopes,
          no |-> FALSE, row |-> Empty]]
    /\ UNCHANGED <<now, attempts, tally>>

\* Mutant: only the IP-wide scope can refuse.
RefusesIpOnly(w, scope) ==
    scope = "ip" /\ Locked(attempts[Mine(w, scope)], Policy[scope], request[w].at)

\* Does this scope's row say no?
Refuses(w, scope) ==
    Locked(attempts[Mine(w, scope)], Policy[scope], request[w].at)

\* checkLoginThrottle reads both rows with Promise.all, in either order.
CheckFirst(w, scope) ==
    /\ request[w].pc = "check" /\ request[w].todo = Scopes
    /\ request' = [request EXCEPT ![w] = [@ EXCEPT !.todo = Scopes \ {scope},
                                                  !.no = Refuses(w, scope)]]
    /\ UNCHANGED <<now, attempts, tally>>

\* The second row is read; strictest decides.
Decides(w, scope, no) ==
    /\ request[w].pc = "check" /\ request[w].todo = {scope}
    /\ no = (request[w].no \/ Refuses(w, scope))

\* recordLoginFailure starts with the IP-wide counter.
Fails(w) ==
    request' = [request EXCEPT ![w] = [@ EXCEPT !.pc = "read", !.at = now, !.todo = {"ip"}]]

Spent == FoldFunctionOnSet(LAMBDA t, n : t.ever + n, 0, tally, {<<ip>> : ip \in Ips})

\* A guess starts a new run if the counter had time to decay; the runs of
\* unruly ips are not followed.
Counted(scope, t, guess) ==
    [run |-> IF ~guess THEN t.run
             ELSE IF t.last # Never /\ now < t.last + Policy[scope].ttl
                    THEN t.run + 1 ELSE 1,
     last |-> IF guess THEN now ELSE t.last,
     ever |-> t.ever + 1]
Tallied(id, guess) ==
    LET timed == guess /\ id[1] \notin Unruly IN
    tally' = [s \in Subjects |->
                IF s = Subject("ip", id) THEN Counted("ip", tally[s], timed)
                ELSE IF s = id THEN Counted("ip_email", tally[s], timed)
                ELSE tally[s]]

Admit(w, scope) ==
    /\ Decides(w, scope, FALSE)
    /\ request' = [request EXCEPT ![w] = [@ EXCEPT !.pc = "handler", !.todo = {}]]
    /\ UNCHANGED <<now, attempts, tally>>

\* 429, or the accepted answer of recovery/request: nothing is recorded.
Refuse(w, scope) ==
    /\ Decides(w, scope, TRUE) /\ request[w].kind # "confirm"
    /\ Answered(w)
    /\ UNCHANGED <<now, attempts, tally>>

\* recovery/confirm throws inside its try, by refusing or because a read
\* failed: its catch records a failure.
RefuseConfirm(w, scope) ==
    /\ request[w].kind = "confirm" /\ Spent < MaxFailures
    /\ \/ Decides(w, scope, TRUE)
       \/ request[w].pc = "check" /\ request[w].id[1] \in Unruly
    /\ Fails(w)
    /\ Tallied(request[w].id, FALSE)
    /\ UNCHANGED <<now, attempts>>

\* The handler refuses the credentials, the address or the link.
HandlerFails(w) ==
    /\ request[w].pc = "handler"
    /\ Spent < MaxFailures
    /\ Fails(w)
    /\ Tallied(request[w].id, TRUE)
    /\ UNCHANGED <<now, attempts>>

\* The recovery routes record no success.
HandlerSucceeds(w) ==
    /\ request[w].pc = "handler"
    /\ IF request[w].kind = "signin"
         THEN request' = [request EXCEPT ![w] = [@ EXCEPT !.pc = "clear"]] ELSE Answered(w)
    /\ UNCHANGED <<now, attempts, tally>>

RecordRead(w) ==
    /\ request[w].pc = "read"
    /\ \E scope \in request[w].todo :
         request' = [request EXCEPT ![w] = [@ EXCEPT !.pc = "write",
                                                     !.row = attempts[Mine(w, scope)]]]
    /\ UNCHANGED <<now, attempts, tally>>

\* The upsert writes what was computed from the row read.
RecordWrite(w) ==
    /\ request[w].pc = "write"
    /\ \E scope \in request[w].todo :
         /\ attempts' = [attempts EXCEPT ![Mine(w, scope)] =
              AfterFailure(request[w].row, Policy[scope], request[w].at)]
         /\ IF scope = "ip"
              THEN request' = [request EXCEPT ![w] = [@ EXCEPT !.pc = "read", !.row = Empty,
                                                               !.todo = {"ip_email"}]]
              ELSE Answered(w)
    /\ UNCHANGED <<now, tally>>

\* clearLoginFailures deletes the ip_email row only.
Clear(w) ==
    /\ request[w].pc = "clear"
    /\ attempts' = [attempts EXCEPT ![Mine(w, "ip_email")] = Empty]
    /\ tally' = [tally EXCEPT ![request[w].id] = [@ EXCEPT !.run = 0]]
    /\ Answered(w)
    /\ UNCHANGED now

\* A statement throws or the function dies.
RequestDies(w) ==
    /\ request[w].pc # "idle" /\ request[w].id[1] \in Unruly
    /\ Answered(w)
    /\ UNCHANGED <<now, attempts, tally>>

\* Mutant: every counter is swept.
SweptAll(k) == attempts[k].last < now

\* The WHERE of sweepLoginAttempts.
Swept(k) == attempts[k].last + SweepAge < now

Sweep ==
    /\ attempts' = [k \in Keys |-> IF Swept(k) THEN Empty ELSE attempts[k]]
    /\ UNCHANGED <<now, request, tally>>

Tick ==
    /\ now < MaxTime
    /\ \A w \in Requests : request[w].pc # "idle" => now < request[w].at + Delay
    /\ now' = now + 1
    /\ UNCHANGED <<attempts, request, tally>>

Serve(w) ==
    \/ \E s \in Scopes : \/ CheckFirst(w, s) \/ Admit(w, s)
                         \/ Refuse(w, s) \/ RefuseConfirm(w, s)
    \/ HandlerFails(w) \/ HandlerSucceeds(w)
    \/ RecordRead(w) \/ RecordWrite(w) \/ Clear(w)

ThrottleNext ==
    \/ \E w \in Requests : \/ \E kind \in Routes, id \in Identities : Arrive(w, kind, id)
                          \/ Serve(w) \/ RequestDies(w)
    \/ Sweep \/ Tick

ThrottleSpec == ThrottleInit /\ [][ThrottleNext]_throttleVars

-----------------------------------------------------------------------------
(* Properties *)

AttemptRow == [count : Nat, last : Nat, until : Nat]

\* Types; a request that has taken no verdict holds no row.
ThrottleTypeOK ==
    /\ now \in Nat \ {0}
    /\ attempts \in [Keys -> AttemptRow]
    /\ request \in [Requests ->
         [pc : {"idle", "check", "handler", "read", "write", "clear"},
          kind : Routes, id : Identities, at : Nat, todo : SUBSET Scopes,
          no : BOOLEAN, row : AttemptRow]]
    /\ tally \in [Subjects -> [run : Nat, last : Nat, ever : Nat]]
    /\ \A w \in Requests : request[w].pc \in {"read", "write"} => request[w].todo # {}

\* The promise of the curve: the n-th wrong guess of an ip, or at an email
\* from an ip, is followed by no other guess before lockoutFor(n) has passed,
\* through decay, sweeps, correct passwords and refusals that count.
GuessesArePaced ==
    \A w \in Requests, s \in Scopes :
      request[w].pc = "handler" /\ request[w].id[1] \notin Unruly =>
        LET t == tally[Subject(s, request[w].id)] IN
          t.last # Never =>
            request[w].at >= t.last + Least(Policy[s].ttl, LockoutFor(t.run, Policy[s]))

\* Nothing but time ends a lock early: no sweep, decay, success or failure.
LockStands ==
    [][\A s \in Scopes, id \in Identities :
         LET k == KeyOf(s, id) IN
         id[1] \notin Unruly /\ attempts[k].until > now
           => attempts'[k].until >= attempts[k].until]_throttleVars

\* "It never throttles on email alone" and never for long (throttle.ts:8-17):
\* a lock takes more than the free failures from the same ip, at the same
\* email if the lock is for one, and lasts no longer than the maximum.
OnlyOwnFailuresLock ==
    \A s \in Scopes, id \in Identities :
      LET a == attempts[KeyOf(s, id)] IN
        /\ a.count <= tally[Subject(s, id)].ever
        /\ a.until # Never => /\ tally[Subject(s, id)].ever > Policy[s].free
                              /\ a.until <= now + Policy[s].max
=============================================================================
