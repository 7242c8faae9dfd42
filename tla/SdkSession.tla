----------------------------- MODULE SdkSession -----------------------------
(***************************************************************************)
(* The session a child app keeps through the SDK: TokenManager and          *)
(* createServerClient (packages/sdk/src), the storage they share and the    *)
(* hub they talk to.                                                        *)
(*                                                                         *)
(* JavaScript runs a segment between two awaits without interruption, so a  *)
(* segment is one step and every await is a place where another caller may  *)
(* run, even the await of a storage that answers at once.  A storage call   *)
(* takes effect at any step between the call and the caller's resumption:   *)
(* memory answers at once, a session store takes its time.  The hub is the  *)
(* abstraction RefreshTokens justifies: a rotation is one step that burns   *)
(* the token presented and issues the next.                                 *)
(***************************************************************************)
EXTENDS Naturals

CONSTANTS
    Callers,          \* calls in progress at once
    Managers,         \* TokenManager instances sharing the storage
    MaxToken,         \* bound: refresh tokens the hub may issue
    Setups,           \* bounds: the RefreshFn and what callers do
    NoPair            \* null

ASSUME SdkAssumption ==
    /\ MaxToken \in Nat \ {0}
    /\ Setups \subseteq [readsReply : BOOLEAN,
         operations : SUBSET {"get", "force", "signIn", "signOut"}]
    /\ NoPair \notin Nat

Pairs == 1 .. MaxToken        \* a pair is named by its refresh token

VARIABLES
    storage,          \* the pair kept between requests
    cached, ended,    \* per manager
    flight,           \* per manager: the refresh in progress, inFlight
    call,             \* per caller: where it is and the pair it loaded
    expiring,         \* pairs whose access token is inside the skew window
    hub,              \* per token: its status, and the login it belongs to
    issued,           \* tokens issued so far
    orphans,          \* requests given up by the client, still on their way
    lost, reused,     \* history: an answer was lost; a burned token came back
    overtaken,        \* history: a caller went on with a pair it had read
                      \* before the session changed
    early,            \* history: callers at a read when their session ended
    setup             \* the member of Setups this behaviour is in: does the
                      \* RefreshFn understand the hub's answer, what are
                      \* callers after

client == <<storage, cached, ended, flight, call>>
history == <<lost, reused, overtaken, early, setup>>
vars == <<storage, cached, ended, flight, call, expiring, hub, issued,
          orphans, lost, reused, overtaken, early, setup>>

Idle == [st |-> "idle", mgr |-> NoPair, pair |-> NoPair, op |-> "none"]
NoFlight == [st |-> "none", token |-> NoPair, answer |-> "none",
             new |-> NoPair]

\* Bound: a request that may draw a token is served while there is one left.
Operations == setup.operations
Room == issued < MaxToken
IsExpiring(p) == p \in expiring

Init ==
    /\ storage \in {1, NoPair}    \* signed in before, or not
    /\ cached = [m \in Managers |-> NoPair]
    /\ ended = [m \in Managers |-> FALSE]
    /\ flight = [m \in Managers |-> NoFlight]
    /\ call = [c \in Callers |-> Idle]
    /\ expiring = {}
    /\ hub = [t \in Pairs |-> [status |-> IF t = 1 THEN "live" ELSE "unborn",
                               login |-> 1]]
    /\ issued = 1
    /\ orphans = {}
    /\ lost = FALSE /\ reused = FALSE /\ overtaken = FALSE /\ early = {}
    /\ setup \in Setups

\* The access token of p enters the skew window.
Age(p) ==
    /\ hub[p].status # "unborn" /\ p \notin expiring
    /\ expiring' = expiring \cup {p}
    /\ UNCHANGED <<client, hub, issued, orphans, history>>

Step(c, st, m, p, op) ==
    call' = [call EXCEPT ![c] = [st |-> st, mgr |-> m, pair |-> p, op |-> op]]
Return(c) == call' = [call EXCEPT ![c] = Idle]

\* Mutant: every caller starts a refresh of its own.
RefreshEach(c, m, p, op) ==
    /\ Step(c, "wait", m, p, op)
    /\ flight' = [flight EXCEPT ![m] = [NoFlight EXCEPT
                    !.st = "asked", !.token = p]]

\* refreshOnce: start a refresh with p's token, or join the one in flight.
RefreshOnce(c, m, p, op) ==
    /\ Step(c, "wait", m, p, op)
    /\ flight' = IF flight[m].st = "none"
                   THEN [flight EXCEPT ![m] = [NoFlight EXCEPT
                           !.st = "asked", !.token = p]]
                   ELSE flight

\* What getAccessToken does once it has a pair.
UsePair(c, m, p) ==
    /\ cached' = [cached EXCEPT ![m] = p]
    /\ IF IsExpiring(p) THEN RefreshOnce(c, m, p, "get")
                        ELSE Return(c) /\ UNCHANGED flight

\* Mutant: nothing looks at `ended`.
OpenAlways(m) == TRUE

\* May this manager be asked at all?
Open(m) == ~ended[m]

\* getAccessToken and forceRefresh up to their first await.
Ask(c, m, op) ==
    /\ call[c].st = "idle" /\ op \in Operations
    /\ Open(m)
    /\ CASE cached[m] = NoPair -> Step(c, "load", m, NoPair, op)
                                    /\ UNCHANGED <<cached, flight>>
         [] cached[m] # NoPair /\ op = "get" -> UsePair(c, m, cached[m])
         [] OTHER -> RefreshOnce(c, m, cached[m], op) /\ UNCHANGED cached
    /\ UNCHANGED <<storage, ended, expiring, hub, issued, orphans, history>>

\* The storage reads; the caller resumes later.
Load(c) ==
    /\ call[c].st = "load"
    /\ call' = [call EXCEPT ![c] = [@ EXCEPT !.st = "loaded", !.pair = storage]]
    /\ UNCHANGED <<storage, cached, ended, flight, expiring, hub, issued,
                   orphans, history>>

\* "Nobody is signed in" is told by the storage alone.
HasPair(p) == p # NoPair

\* Since the read began, a refresh or a sign-in has set `cached`, or the
\* session has ended: neither is looked at again.
Overtaken(m, p) == ended[m] \/ cached[m] \notin {NoPair, p}

\* The caller resumes with the pair it read.
Resume(c) ==
    /\ call[c].st = "loaded" /\ call[c].op \in {"get", "force"}
    /\ LET m == call[c].mgr
           p == call[c].pair
       IN  CASE ~HasPair(p) -> Return(c) /\ UNCHANGED <<cached, flight>>
             [] HasPair(p) /\ call[c].op = "get" -> UsePair(c, m, p)
             [] OTHER -> RefreshOnce(c, m, p, "force") /\ UNCHANGED cached
    /\ overtaken' = (overtaken \/ (HasPair(call[c].pair)
                                     /\ Overtaken(call[c].mgr, call[c].pair)))
    /\ early' = early \ {c}
    /\ UNCHANGED <<storage, ended, expiring, hub, issued, orphans, lost,
                   reused, setup>>

\* A login at the hub, then setTokens up to its await.
SignIn(c, m) ==
    /\ call[c].st = "idle" /\ "signIn" \in Operations
    /\ Room
    /\ issued' = issued + 1
    /\ hub' = [hub EXCEPT ![issued + 1] =
                 [status |-> "live", login |-> issued + 1]]
    /\ ended' = [ended EXCEPT ![m] = FALSE]
    /\ cached' = [cached EXCEPT ![m] = issued + 1]
    /\ Step(c, "save", m, issued + 1, "signIn")
    /\ UNCHANGED <<storage, flight, expiring, orphans, history>>

\* The save of setTokens takes effect.
Save(c) ==
    /\ call[c].st = "save"
    /\ storage' = call[c].pair
    /\ Return(c)
    /\ UNCHANGED <<cached, ended, flight, expiring, hub, issued, orphans,
                   history>>

\* signOut loads the pair it will revoke ...
SignOut(c, m) ==
    /\ call[c].st = "idle" /\ "signOut" \in Operations
    /\ Step(c, "load", m, NoPair, "signOut")
    /\ UNCHANGED <<storage, cached, ended, flight, expiring, hub, issued,
                   orphans, history>>

Reading(m) == {c \in Callers : /\ call[c].st \in {"load", "loaded"}
                                /\ call[c].op # "signOut" /\ call[c].mgr = m}

\* The first segment of endSession.
Forget(m) ==
    /\ ended' = [ended EXCEPT ![m] = TRUE]
    /\ cached' = [cached EXCEPT ![m] = NoPair]
    /\ early' = early \cup IF ended[m] THEN {} ELSE Reading(m)
    /\ UNCHANGED <<lost, reused, overtaken, setup>>

\* ... ends the session locally ...
SignOutEnd(c) ==
    /\ call[c].st = "loaded" /\ call[c].op = "signOut"
    /\ Forget(call[c].mgr)
    /\ call' = [call EXCEPT ![c].st = "clear"]
    /\ UNCHANGED <<storage, flight, expiring, hub, issued, orphans>>

Clear(c) ==
    /\ call[c].st = "clear"
    /\ storage' = NoPair
    /\ IF call[c].pair = NoPair
         THEN Return(c) ELSE call' = [call EXCEPT ![c].st = "revoke"]
    /\ UNCHANGED <<cached, ended, flight, expiring, hub, issued, orphans,
                   history>>

KillLogin(l) ==
    [t \in Pairs |-> IF hub[t].login = l /\ hub[t].status = "live"
                       THEN [hub[t] EXCEPT !.status = "dead"] ELSE hub[t]]

\* ... and asks the hub to revoke it, best effort.
Revoke(c) ==
    /\ call[c].st = "revoke"
    /\ hub' = KillLogin(hub[call[c].pair].login) \/ UNCHANGED hub
    /\ Return(c)
    /\ UNCHANGED <<storage, cached, ended, flight, expiring, issued, orphans,
                   history>>

-----------------------------------------------------------------------------
(* The hub and the network *)

\* POST /api/v1/auth/refresh, as RefreshTokens describes it from outside.
Rotate(t) ==
    /\ IF hub[t].status = "live"
         THEN /\ hub' = [hub EXCEPT ![t].status = "burned", ![issued + 1] =
                           [status |-> "live", login |-> hub[t].login]]
              /\ issued' = issued + 1
         ELSE /\ hub' = IF hub[t].status = "burned"
                          THEN KillLogin(hub[t].login) ELSE hub
              /\ UNCHANGED issued
    /\ reused' = (reused \/ hub[t].status = "burned")

\* The outcome createServerClient's refresh function makes of an answer.  The
\* route answers { accessToken, refreshToken }, the function looks for
\* { access_token, refresh_token } and takes anything else as terminal; a
\* TokenManager given a function of its own may read it right.
Outcome(answer) ==
    CASE answer = "granted" /\ setup.readsReply -> "pair"
      [] answer = "granted" /\ ~setup.readsReply -> "terminal"
      [] answer = "refused" -> "terminal"
      [] answer = "failed" -> "null"

HubServes(m) ==
    /\ Room /\ flight[m].st = "asked" /\ flight[m].answer = "none"
    /\ Rotate(flight[m].token)
    /\ flight' = [flight EXCEPT ![m] =
         IF hub[@.token].status = "live"
           THEN [@ EXCEPT !.answer = "granted", !.new = issued + 1]
           ELSE [@ EXCEPT !.answer = "refused", !.new = NoPair]]
    /\ UNCHANGED <<storage, cached, ended, call, expiring, orphans, lost,
                   overtaken, early, setup>>

\* Mutant: the fetch has no timer.
NeverGivesUp(m) == FALSE

\* The fetch fails or is aborted by its timer; the hub may have served the
\* request, may serve it later, or may never see it.
GiveUp(m) ==
    /\ flight[m].st = "asked" /\ flight[m].answer # "failed"
    /\ orphans' \in IF flight[m].answer = "none"
                      THEN {orphans, orphans \cup {flight[m].token}}
                      ELSE {orphans}
    /\ lost' = TRUE
    /\ flight' = [flight EXCEPT ![m] = [@ EXCEPT !.answer = "failed", !.new = NoPair]]
    /\ UNCHANGED <<storage, cached, ended, call, expiring, hub, issued,
                   reused, overtaken, early, setup>>

HubServesLate(t) ==
    /\ t \in orphans /\ Room
    /\ Rotate(t)
    /\ orphans' = orphans \ {t}
    /\ UNCHANGED <<client, expiring, lost, overtaken, early, setup>>

-----------------------------------------------------------------------------
(* performRefresh after its await *)

\* performRefresh has returned; a turn later inFlight is cleared and everyone
\* who joined, up to then, resumes.
Settle(m) ==
    /\ flight[m].st = "done"
    /\ flight' = [flight EXCEPT ![m] = NoFlight]
    /\ call' = [c \in Callers |->
                  IF call[c].st = "wait" /\ call[c].mgr = m
                    THEN Idle ELSE call[c]]
    /\ UNCHANGED <<storage, cached, ended, expiring, hub, issued, orphans,
                   history>>

Answered(m, outcome) ==
    /\ flight[m].st = "asked" /\ flight[m].answer # "none"
    /\ Outcome(flight[m].answer) = outcome

\* outcome.pair === null: nothing changes.
FlightNull(m) ==
    /\ Answered(m, "null")
    /\ flight' = [flight EXCEPT ![m].st = "done"]
    /\ UNCHANGED <<storage, cached, ended, call, expiring, hub, issued,
                   orphans, history>>

\* Mutant: the new pair is saved but not kept in memory.
FlightForgets(m) ==
    /\ Answered(m, "pair")
    /\ flight' = [flight EXCEPT ![m].st = "save"]
    /\ UNCHANGED <<storage, cached, ended, call, expiring, hub, issued,
                   orphans, history>>

FlightPair(m) ==
    /\ Answered(m, "pair")
    /\ cached' = [cached EXCEPT ![m] = flight[m].new]
    /\ flight' = [flight EXCEPT ![m].st = "save"]
    /\ UNCHANGED <<storage, ended, call, expiring, hub, issued, orphans,
                   history>>

FlightSave(m) ==
    /\ flight[m].st = "save"
    /\ storage' = flight[m].new
    /\ flight' = [flight EXCEPT ![m].st = "done"]
    /\ UNCHANGED <<cached, ended, call, expiring, hub, issued, orphans,
                   history>>

FlightTerminal(m) ==
    /\ Answered(m, "terminal")
    /\ Forget(m)
    /\ flight' = [flight EXCEPT ![m].st = "clear"]
    /\ UNCHANGED <<storage, call, expiring, hub, issued, orphans>>

FlightClear(m) ==
    /\ flight[m].st = "clear"
    /\ storage' = NoPair
    /\ flight' = [flight EXCEPT ![m].st = "done"]
    /\ UNCHANGED <<cached, ended, call, expiring, hub, issued, orphans,
                   history>>

-----------------------------------------------------------------------------
Starts(c) == \E m \in Managers : \/ \E op \in {"get", "force"} : Ask(c, m, op)
                                 \/ SignIn(c, m) \/ SignOut(c, m)

Continues(c) == \/ Load(c) \/ Resume(c) \/ Save(c) \/ SignOutEnd(c)
                \/ Clear(c) \/ Revoke(c)

Flies(m) == \/ GiveUp(m) \/ FlightNull(m) \/ FlightPair(m) \/ FlightSave(m)
            \/ FlightTerminal(m) \/ FlightClear(m) \/ Settle(m)

Next ==
    \/ \E c \in Callers : Starts(c) \/ Continues(c)
    \/ \E m \in Managers : HubServes(m) \/ Flies(m)
    \/ \E p \in Pairs : Age(p) \/ HubServesLate(p)

Spec == Init /\ [][Next]_vars

\* The event loop runs what is ready in turn, storage answers, and the 15 s
\* timer of http.ts ends a fetch nobody answers.  The hub owes nothing.
Fairness == /\ \A c \in Callers : WF_vars(Continues(c))
            /\ \A m \in Managers : WF_vars(Flies(m))

FairSpec == Spec /\ Fairness

-----------------------------------------------------------------------------
(* Properties *)

PairOrNone == Pairs \cup {NoPair}

\* Types, with the states each caller and flight may be in; a refresh in
\* progress always has a token to present.
TypeOK ==
    /\ storage \in PairOrNone
    /\ cached \in [Managers -> PairOrNone]
    /\ ended \in [Managers -> BOOLEAN]
    /\ flight \in [Managers -> [st : {"none", "asked", "save", "clear",
                                      "done"},
                                token : PairOrNone, new : PairOrNone,
                                answer : {"none", "granted", "refused",
                                          "failed"}]]
    /\ call \in [Callers ->
         [st : {"idle", "load", "loaded", "wait", "save", "clear", "revoke"},
          mgr : Managers \cup {NoPair}, pair : PairOrNone,
          op : {"none", "get", "force", "signIn", "signOut"}]]
    /\ expiring \subseteq Pairs /\ orphans \subseteq Pairs
    /\ early \subseteq Callers
    /\ hub \in [Pairs -> [status : {"unborn", "live", "burned", "dead"},
                          login : Pairs]]
    /\ issued \in 1 .. MaxToken /\ setup \in Setups
    /\ \A m \in Managers : flight[m].st = "none" \/ flight[m].token \in Pairs

\* "The rotating refresh token is presented exactly once"
\* (token-manager.ts:115-116): the client trips reuse detection only after an
\* answer of the hub was lost, or after a caller went on with a pair it had
\* read before the session changed.
ReuseMeansLoss == reused => lost \/ overtaken

\* What a manager would present next is the hub's live token, unless an
\* answer was lost, a login was signed out or a read was overtaken: joining,
\* leaving and replacing a refresh never leave it with a burned token.
HoldsLiveToken ==
    ~lost /\ ~overtaken /\ (\A t \in Pairs : hub[t].status # "dead") =>
      \A m \in Managers : cached[m] # NoPair /\ flight[m].st = "none"
                             => hub[cached[m]].status = "live"

Begins(m) == flight[m].st = "none" /\ flight'[m].st = "asked"

\* "This process must stop presenting the token" (server-client.ts:179-180):
\* after the end of its session a manager starts a refresh only for a call
\* that was already at its read of the storage then, and one at most for each
\* such call.
StopsPresenting ==
    [][\A m \in Managers : Begins(m) /\ ended[m] =>
         \E c \in early : /\ call[c].mgr = m /\ call[c].st = "loaded"
                          /\ call'[c].st = "wait" /\ c \notin early']_vars

\* "a stuck in-flight promise would make every later call fail"
\* (token-manager.test.ts:134): every call returns.
CallsReturn == \A c \in Callers : call[c].st # "idle" ~> call[c].st = "idle"
=============================================================================
