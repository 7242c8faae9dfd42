--------------------------- MODULE SdkSessionProofs ---------------------------
(***************************************************************************)
(* Theorems about a caller's side of the API and about what guards it.      *)
(*                                                                         *)
(* SdkSession, for any number of callers and tokens:                        *)
(*   - every variable keeps its type;                                       *)
(*   - a manager whose session has ended starts a refresh only for a call   *)
(*     that was reading the storage when it ended;                          *)
(*   - the client trips reuse detection only after an answer was lost or a  *)
(*     read was overtaken;                                                  *)
(*   - what it would present next is, up to then, the hub's live token.     *)
(* The last two are about one manager: the code promises no more.           *)
(*                                                                         *)
(* ApiGuard and its DecisionLog, for any number of processes, requests,     *)
(* keys and accounts and any limits:                                        *)
(*   - a service account's key is accepted only as the account allows;      *)
(*   - nobody is limited who did not ask for more than the limit;           *)
(*   - no key is let through more than twice the limit in a window;         *)
(*   - the summaries count every decision once: in the log, in memory, or   *)
(*     among the lost.                                                      *)
(***************************************************************************)
EXTENDS SdkSession, ApiGuard, FiniteSetTheorems, WellFoundedInduction, TLAPS

CallRecord == [st : {"idle", "load", "loaded", "wait", "save", "clear", "revoke"},
               mgr : Managers \cup {NoPair}, pair : PairOrNone,
               op : {"none", "get", "force", "signIn", "signOut"}]
FlightRecord == [st : {"none", "asked", "save", "clear", "done"}, token : PairOrNone,
                 new : PairOrNone, answer : {"none", "granted", "refused", "failed"}]
Asking == {"get", "force"}

\* What a caller in progress has in hand.
Called(c) ==
    /\ call[c].st # "idle" => call[c].mgr \in Managers
    /\ call[c].st \in {"save", "revoke"} => call[c].pair \in Pairs
    /\ call[c].st \in {"load", "loaded"} => call[c].op \in Asking \cup {"signOut"}

\* Types, what callers hold, and a refresh that was granted has its new pair.
Types ==
    /\ TypeOK
    /\ \A c \in Callers : Called(c)
    /\ \A m \in Managers :
         /\ flight[m].st = "asked" /\ flight[m].answer = "granted" => flight[m].new \in Pairs
         /\ flight[m].st = "save" => flight[m].new \in Pairs

\* A question that reads the storage for a session that has ended was at its
\* read when the session ended.
EarlyInv == \A c \in Callers, m \in Managers : ended[m] /\ c \in Reading(m) => c \in early

-----------------------------------------------------------------------------
(* Tokens in hand: one manager, no answer lost, no read overtaken *)

OneManager == \A m, n \in Managers : m = n

Unspent(p) == hub[p].status \in {"live", "dead"}

\* The refresh of m was granted and its answer is on the way.
Granted(m) == flight[m].st = "asked" /\ flight[m].answer = "granted"

Numbered == \A t \in Pairs : hub[t].status = "unborn" <=> issued < t

\* A pair that may still be read or written.  A burned one does no harm while
\* the answer that replaces it is on its way; after that, whoever goes on with
\* it has been overtaken.
Harmless(p, m) == p \in Pairs => Unspent(p) \/ Granted(m) \/ Overtaken(m, p)

Kept(m) ==
    /\ cached[m] \in Pairs => Unspent(cached[m]) \/ Granted(m)
    /\ flight[m].st = "asked" => flight[m].answer # "failed"
    /\ flight[m].st = "asked" /\ flight[m].answer = "none" => Unspent(flight[m].token)
    /\ Granted(m) => Unspent(flight[m].new)
    /\ flight[m].st = "save" => Harmless(flight[m].new, m)
    /\ Harmless(storage, m)

Carried(c, m) ==
    \/ call[c].st = "loaded" /\ call[c].op \in Asking
    \/ call[c].st = "save"
    => Harmless(call[c].pair, m)

InHand ==
    /\ Numbered
    /\ \A m \in Managers : Kept(m)
    /\ \A c \in Callers, m \in Managers : Carried(c, m)
    /\ orphans = {} /\ ~reused

TokenInv == lost \/ overtaken \/ InHand

-----------------------------------------------------------------------------
(* Types *)

\* How a caller or a refresh moves on, as a record.
LEMMA CallMoves ==
    ASSUME TypeOK, NEW c \in Callers, NEW st, NEW p
    PROVE  /\ [call EXCEPT ![c] = [@ EXCEPT !.st = st, !.pair = p]] =
                [call EXCEPT ![c] = [st |-> st, mgr |-> call[c].mgr, pair |-> p, op |-> call[c].op]]
           /\ [call EXCEPT ![c].st = st] =
                [call EXCEPT ![c] = [st |-> st, mgr |-> call[c].mgr, pair |-> call[c].pair, op |-> call[c].op]]
  <1>1. /\ call \in [Callers -> CallRecord]
        /\ call[c] \in CallRecord
    BY DEF TypeOK, CallRecord
  <1>2. [call[c] EXCEPT !.st = st, !.pair = p] =
          [st |-> st, mgr |-> call[c].mgr, pair |-> p, op |-> call[c].op]
    <2>1. [call[c] EXCEPT !.st = st] =
            [st |-> st, mgr |-> call[c].mgr, pair |-> call[c].pair, op |-> call[c].op]
      BY <1>1 DEF CallRecord
    <2>2. [call[c] EXCEPT !.st = st, !.pair = p] = [[call[c] EXCEPT !.st = st] EXCEPT !.pair = p]
      OBVIOUS
    <2>3. [[st |-> st, mgr |-> call[c].mgr, pair |-> call[c].pair, op |-> call[c].op] EXCEPT !.pair = p] =
            [st |-> st, mgr |-> call[c].mgr, pair |-> p, op |-> call[c].op]
      OBVIOUS
    <2> QED  BY <2>1, <2>2, <2>3
  <1>3. [call[c] EXCEPT !.st = st] =
          [st |-> st, mgr |-> call[c].mgr, pair |-> call[c].pair, op |-> call[c].op]
    BY <1>1 DEF CallRecord
  <1>4. [call EXCEPT ![c].st = st] = [call EXCEPT ![c] = [call[c] EXCEPT !.st = st]]
    BY <1>1
  <1> QED  BY <1>1, <1>2, <1>3, <1>4

LEMMA FlightMoves ==
    ASSUME TypeOK, NEW m \in Managers, NEW st, NEW answer, NEW p
    PROVE  /\ [flight[m] EXCEPT !.answer = answer, !.new = p] =
                [st |-> flight[m].st, token |-> flight[m].token, answer |-> answer, new |-> p]
           /\ [flight EXCEPT ![m].st = st] =
                [flight EXCEPT ![m] = [st |-> st, token |-> flight[m].token,
                                       answer |-> flight[m].answer, new |-> flight[m].new]]
  <1>1. /\ flight \in [Managers -> FlightRecord]
        /\ flight[m] \in FlightRecord
    BY DEF TypeOK, FlightRecord
  <1>2. [flight[m] EXCEPT !.st = st] =
          [st |-> st, token |-> flight[m].token, answer |-> flight[m].answer, new |-> flight[m].new]
    BY <1>1 DEF FlightRecord
  <1>3. [flight EXCEPT ![m].st = st] = [flight EXCEPT ![m] = [flight[m] EXCEPT !.st = st]]
    BY <1>1
  <1>4. [flight[m] EXCEPT !.answer = answer, !.new = p] =
          [st |-> flight[m].st, token |-> flight[m].token, answer |-> answer, new |-> p]
    <2>1. [flight[m] EXCEPT !.answer = answer] =
            [st |-> flight[m].st, token |-> flight[m].token, answer |-> answer, new |-> flight[m].new]
      BY <1>1 DEF FlightRecord
    <2>2. [flight[m] EXCEPT !.answer = answer, !.new = p] =
            [[flight[m] EXCEPT !.answer = answer] EXCEPT !.new = p]
      OBVIOUS
    <2>3. [[st |-> flight[m].st, token |-> flight[m].token, answer |-> answer, new |-> flight[m].new]
             EXCEPT !.new = p] =
            [st |-> flight[m].st, token |-> flight[m].token, answer |-> answer, new |-> p]
      OBVIOUS
    <2> QED  BY <2>1, <2>2, <2>3
  <1> QED  BY <1>2, <1>3, <1>4

\* What the hub answers a served request leaves the table a table.
LEMMA HubTyped ==
    ASSUME TypeOK, NEW t \in Pairs, Room, Rotate(t)
    PROVE  /\ issued + 1 \in Pairs
           /\ hub' \in [Pairs -> [status : {"unborn", "live", "burned", "dead"}, login : Pairs]]
           /\ issued' \in Pairs
           /\ reused' = (reused \/ hub[t].status = "burned")
  <1>1. issued \in Pairs /\ MaxToken \in Nat \ {0} /\ issued + 1 \in Pairs
    BY SdkAssumption DEF TypeOK, Room, Pairs
  <1>2. hub[t].login \in Pairs /\ hub[t] = [status |-> hub[t].status, login |-> hub[t].login]
    BY DEF TypeOK
  <1>3. CASE hub[t].status = "live"
    BY <1>1, <1>2, <1>3 DEF Rotate, TypeOK
  <1>4. CASE hub[t].status # "live"
    BY <1>1, <1>4 DEF Rotate, TypeOK, KillLogin
  <1> QED  BY <1>3, <1>4

LEMMA InitTypes == Init => Types
  <1> SUFFICES ASSUME Init PROVE Types
    OBVIOUS
  <1>1. 1 \in Pairs /\ NoPair \notin Pairs
    BY SdkAssumption DEF Pairs
  <1>2. TypeOK
    BY <1>1 DEF Init, TypeOK, PairOrNone, NoFlight, Idle, Pairs
  <1> QED  BY <1>2 DEF Types, Init, Called, NoFlight, Idle

\* A refresh begins, or is joined, with a token.
LEMMA RefreshTypes ==
    ASSUME Types, NEW c \in Callers, NEW m \in Managers, NEW p \in Pairs,
           NEW op \in Asking, RefreshOnce(c, m, p, op),
           cached' \in [Managers -> PairOrNone], early' \subseteq Callers,
           UNCHANGED <<storage, ended, expiring, hub, issued, orphans, setup>>
    PROVE  Types'
  <1>1. /\ flight' \in [Managers -> [st : {"none", "asked", "save", "clear", "done"}, token : PairOrNone,
                                     new : PairOrNone, answer : {"none", "granted", "refused", "failed"}]]
        /\ \A n \in Managers : flight'[n] = flight[n] \/
              flight'[n] = [st |-> "asked", token |-> p, answer |-> "none", new |-> NoPair]
    BY DEF RefreshOnce, NoFlight, Types, TypeOK, PairOrNone
  <1>2. /\ call' = [call EXCEPT ![c] = [st |-> "wait", mgr |-> m, pair |-> p, op |-> op]]
    BY DEF RefreshOnce, Step
  <1>3. TypeOK'
    BY <1>1, <1>2 DEF Types, TypeOK, PairOrNone, Asking
  <1>4. \A d \in Callers : Called(d)'
    BY <1>2 DEF Types, TypeOK, Called
  <1> QED  BY <1>1, <1>3, <1>4 DEF Types

LEMMA TypeStep == Types /\ [Next]_vars => Types'
  <1> SUFFICES ASSUME Types, [Next]_vars PROVE Types'
    OBVIOUS
  <1> USE DEF PairOrNone
  <1>n. NoPair \notin Pairs
    BY SdkAssumption DEF Pairs
  <1>1. ASSUME NEW c \in Callers, NEW m \in Managers, NEW op \in Asking, Ask(c, m, op)
        PROVE  Types'
    <2>1. CASE cached[m] = NoPair
      <3>1. call' = [call EXCEPT ![c] = [st |-> "load", mgr |-> m, pair |-> NoPair, op |-> op]]
        BY <1>1, <2>1 DEF Ask, Step
      <3>2. UNCHANGED <<storage, cached, ended, flight, expiring, hub, issued, orphans, history>>
        BY <1>1, <2>1 DEF Ask
      <3> QED  BY <3>1, <3>2 DEF Types, TypeOK, Called, Asking, history
    <2>2. CASE cached[m] # NoPair /\ op = "get" /\ IsExpiring(cached[m])
      <3>1. RefreshOnce(c, m, cached[m], "get") /\ cached' = [cached EXCEPT ![m] = cached[m]]
        BY <1>1, <2>2 DEF Ask, UsePair
      <3>2. cached[m] \in Pairs
        BY <2>2 DEF Types, TypeOK
      <3> QED  BY <1>1, <3>1, <3>2, RefreshTypes DEF Ask, Types, TypeOK, Asking, history
    <2>3. CASE cached[m] # NoPair /\ op = "get" /\ ~IsExpiring(cached[m])
      <3>1. /\ call' = [call EXCEPT ![c] = Idle] /\ UNCHANGED flight
            /\ cached' = [cached EXCEPT ![m] = cached[m]]
        BY <1>1, <2>3 DEF Ask, UsePair, Return
      <3> QED  BY <1>1, <3>1 DEF Ask, Types, TypeOK, Called, Idle, history
    <2>4. CASE cached[m] # NoPair /\ op # "get"
      <3>1. RefreshOnce(c, m, cached[m], op) /\ UNCHANGED cached
        BY <1>1, <2>4 DEF Ask
      <3>2. cached[m] \in Pairs
        BY <2>4 DEF Types, TypeOK
      <3> QED  BY <1>1, <3>1, <3>2, RefreshTypes DEF Ask, Types, TypeOK, history
    <2> QED  BY <2>1, <2>2, <2>3, <2>4
  <1>2. ASSUME NEW c \in Callers, NEW m \in Managers, SignIn(c, m) PROVE Types'
    <2>1. issued \in Nat /\ issued + 1 \in Pairs
      BY <1>2, SdkAssumption DEF SignIn, Room, Types, TypeOK, Pairs
    <2>2. call' = [call EXCEPT ![c] = [st |-> "save", mgr |-> m, pair |-> issued + 1, op |-> "signIn"]]
      BY <1>2 DEF SignIn, Step
    <2>3. TypeOK'
      BY <1>2, <2>1, <2>2 DEF SignIn, Types, TypeOK, history, Pairs
    <2> QED  BY <1>2, <2>1, <2>2, <2>3 DEF SignIn, Types, TypeOK, Called
  <1>3. ASSUME NEW c \in Callers, NEW m \in Managers, SignOut(c, m) PROVE Types'
    BY <1>3 DEF SignOut, Step, Types, TypeOK, Called, history
  <1>4. ASSUME NEW c \in Callers, Load(c) PROVE Types'
    <2>1. call' = [call EXCEPT ![c] = [st |-> "loaded", mgr |-> call[c].mgr, pair |-> storage, op |-> call[c].op]]
      BY <1>4, CallMoves DEF Load, Types
    <2> QED  BY <1>4, <2>1 DEF Load, Types, TypeOK, Called, history
  <1>5. ASSUME NEW c \in Callers, Resume(c) PROVE Types'
    <2> DEFINE m == call[c].mgr
               p == call[c].pair
    <2>1. m \in Managers /\ p \in PairOrNone
      BY <1>5 DEF Resume, Types, TypeOK, Called
    <2>2. CASE ~HasPair(p) \/ (call[c].op = "get" /\ ~IsExpiring(p))
      <3>1. /\ call' = [call EXCEPT ![c] = Idle] /\ UNCHANGED flight
            /\ cached' = cached \/ cached' = [cached EXCEPT ![m] = p]
        BY <1>5, <2>2 DEF Resume, UsePair, Return
      <3> QED  BY <1>5, <2>1, <3>1 DEF Resume, Types, TypeOK, Called, Idle
    <2>3. CASE HasPair(p) /\ call[c].op = "get" /\ IsExpiring(p)
      <3>1. RefreshOnce(c, m, p, "get") /\ cached' = [cached EXCEPT ![m] = p]
        BY <1>5, <2>3 DEF Resume, UsePair
      <3> QED  BY <1>5, <2>1, <2>3, <3>1, RefreshTypes DEF Resume, Types, TypeOK, Asking, HasPair
    <2>4. CASE HasPair(p) /\ call[c].op # "get"
      <3>1. RefreshOnce(c, m, p, "force") /\ UNCHANGED cached
        BY <1>5, <2>4 DEF Resume
      <3> QED  BY <1>5, <2>1, <2>4, <3>1, RefreshTypes DEF Resume, Types, TypeOK, Asking, HasPair
    <2> QED  BY <2>2, <2>3, <2>4
  <1>6. ASSUME NEW c \in Callers, Save(c) PROVE Types'
    BY <1>6 DEF Save, Return, Idle, Types, TypeOK, Called, history
  <1>7. ASSUME NEW c \in Callers, SignOutEnd(c) PROVE Types'
    <2>1. call' = [call EXCEPT ![c] = [st |-> "clear", mgr |-> call[c].mgr, pair |-> call[c].pair, op |-> call[c].op]]
      BY <1>7, CallMoves DEF SignOutEnd, Types
    <2> QED  BY <1>7, <2>1 DEF SignOutEnd, Forget, Reading, Types, TypeOK, Called
  <1>8. ASSUME NEW c \in Callers, Clear(c) PROVE Types'
    <2>1. CASE call[c].pair = NoPair
      <3>1. call' = [call EXCEPT ![c] = Idle]
        BY <1>8, <2>1 DEF Clear, Return
      <3> QED  BY <1>8, <3>1 DEF Clear, Idle, Types, TypeOK, Called, history
    <2>2. CASE call[c].pair # NoPair
      <3>1. call' = [call EXCEPT ![c] = [st |-> "revoke", mgr |-> call[c].mgr, pair |-> call[c].pair, op |-> call[c].op]]
        BY <1>8, <2>2, CallMoves DEF Clear, Types
      <3> QED  BY <1>8, <2>2, <3>1 DEF Clear, Types, TypeOK, Called, history
    <2> QED  BY <2>1, <2>2
  <1>9. ASSUME NEW c \in Callers, Revoke(c) PROVE Types'
    <2>1. hub' \in [Pairs -> [status : {"unborn", "live", "burned", "dead"}, login : Pairs]]
      BY <1>9 DEF Revoke, KillLogin, Types, TypeOK
    <2> QED  BY <1>9, <2>1 DEF Revoke, Return, Idle, Types, TypeOK, Called, history
  <1>10. ASSUME NEW m \in Managers, HubServes(m) PROVE Types'
    <2>1. flight[m].token \in Pairs
      BY <1>10 DEF HubServes, Types, TypeOK
    <2>2. /\ issued + 1 \in Pairs /\ issued' \in Pairs
          /\ hub' \in [Pairs -> [status : {"unborn", "live", "burned", "dead"}, login : Pairs]]
      BY <1>10, <2>1, HubTyped DEF HubServes, Types
    <2>3. flight' = [flight EXCEPT ![m] =
              IF hub[flight[m].token].status = "live"
                THEN [st |-> "asked", token |-> flight[m].token, answer |-> "granted", new |-> issued + 1]
                ELSE [st |-> "asked", token |-> flight[m].token, answer |-> "refused", new |-> NoPair]]
      <3>1. [flight[m] EXCEPT !.answer = "granted", !.new = issued + 1] =
              [st |-> flight[m].st, token |-> flight[m].token, answer |-> "granted", new |-> issued + 1]
        BY FlightMoves DEF Types
      <3>2. [flight[m] EXCEPT !.answer = "refused", !.new = NoPair] =
              [st |-> flight[m].st, token |-> flight[m].token, answer |-> "refused", new |-> NoPair]
        BY FlightMoves DEF Types
      <3> QED  BY <1>10, <3>1, <3>2 DEF HubServes
    <2> QED  BY <1>10, <2>2, <2>3 DEF HubServes, Types, TypeOK, Called, Pairs
  <1>11. ASSUME NEW t \in Pairs, HubServesLate(t) PROVE Types'
    <2>1. /\ issued' \in Pairs
          /\ hub' \in [Pairs -> [status : {"unborn", "live", "burned", "dead"}, login : Pairs]]
      BY <1>11, HubTyped DEF HubServesLate, Types
    <2> QED  BY <1>11, <2>1 DEF HubServesLate, client, Types, TypeOK, Called, Pairs
  <1>12. ASSUME NEW m \in Managers, GiveUp(m) PROVE Types'
    <2>1. flight[m].token \in Pairs
      BY <1>12 DEF GiveUp, Types, TypeOK
    <2>2. flight' = [flight EXCEPT ![m] =
              [st |-> "asked", token |-> flight[m].token, answer |-> "failed", new |-> NoPair]]
      <3>1. [flight[m] EXCEPT !.answer = "failed", !.new = NoPair] =
              [st |-> flight[m].st, token |-> flight[m].token, answer |-> "failed", new |-> NoPair]
        BY FlightMoves DEF Types
      <3> QED  BY <1>12, <3>1 DEF GiveUp
    <2> QED  BY <1>12, <2>1, <2>2 DEF GiveUp, Types, TypeOK, Called
  <1>13. ASSUME NEW m \in Managers, Settle(m) PROVE Types'
    BY <1>13 DEF Settle, Idle, NoFlight, Types, TypeOK, Called, history
  <1>14. ASSUME NEW m \in Managers, FlightNull(m) \/ FlightSave(m) \/ FlightClear(m) PROVE Types'
    <2>1. flight' = [flight EXCEPT ![m].st = "done"] /\ storage' \in PairOrNone /\ flight[m].st # "none"
      BY <1>14 DEF FlightNull, FlightSave, FlightClear, Answered, Types, TypeOK
    <2> QED  BY <1>14, <2>1 DEF FlightNull, FlightSave, FlightClear, Types, TypeOK, Called, history
  <1>15. ASSUME NEW m \in Managers, FlightPair(m) PROVE Types'
    <2>1. flight[m].st = "asked" /\ flight[m].answer = "granted"
      BY <1>15 DEF FlightPair, Answered, Outcome, Types, TypeOK
    <2> QED  BY <1>15, <2>1 DEF FlightPair, Types, TypeOK, Called, history
  <1>16. ASSUME NEW m \in Managers, FlightTerminal(m) PROVE Types'
    <2>1. flight[m].st = "asked"
      BY <1>16 DEF FlightTerminal, Answered
    <2> QED  BY <1>16, <2>1 DEF FlightTerminal, Forget, Reading, Types, TypeOK, Called
  <1>17. ASSUME NEW p \in Pairs, Age(p) PROVE Types'
    BY <1>17 DEF Age, client, history, Types, TypeOK, Called
  <1>18. CASE UNCHANGED vars
    BY <1>18 DEF vars, Types, TypeOK, Called
  <1> QED
    BY <1>1, <1>2, <1>3, <1>4, <1>5, <1>6, <1>7, <1>8, <1>9, <1>10, <1>11, <1>12, <1>13, <1>14,
       <1>15, <1>16, <1>17, <1>18
    DEF Next, Starts, Continues, Flies, Asking

\* Every variable keeps its type, whatever callers, the hub and the network
\* do, for any number of callers and of managers.
THEOREM TypesLast == Spec => []Types
  BY InitTypes, TypeStep, PTL DEF Spec

\* The type invariant of the module.
THEOREM TypeCorrect == Spec => []TypeOK
  <1>1. Types => TypeOK
    BY DEF Types
  <1> QED  BY <1>1, TypesLast, PTL

-----------------------------------------------------------------------------
(* Who starts a refresh *)

\* What a refresh started or joined does to the places of callers and flights.
LEMMA RefreshPlaces ==
    ASSUME Types, NEW c \in Callers, NEW m \in Managers, NEW p, NEW op, RefreshOnce(c, m, p, op)
    PROVE  /\ call'[c].st = "wait" /\ \A d \in Callers \ {c} : call'[d] = call[d]
           /\ flight[m].st = "none" =>
                flight'[m] = [st |-> "asked", token |-> p, answer |-> "none", new |-> NoPair]
           /\ flight[m].st # "none" => flight'[m] = flight[m]
           /\ \A n \in Managers \ {m} : flight'[n] = flight[n]
  BY DEF RefreshOnce, Step, NoFlight, Types, TypeOK

\* A question: it loads, it refreshes, or it is answered from memory.
LEMMA AskPlaces ==
    ASSUME Types, NEW c \in Callers, NEW m \in Managers, NEW op \in Asking, Ask(c, m, op)
    PROVE  /\ \/ /\ call'[c] = [st |-> "load", mgr |-> m, pair |-> NoPair, op |-> op]
                 /\ cached[m] = NoPair /\ UNCHANGED <<cached, flight>>
              \/ /\ RefreshOnce(c, m, cached[m], op) /\ cached[m] \in Pairs
                 /\ UNCHANGED cached
              \/ call'[c] = Idle /\ UNCHANGED <<cached, flight>>
           /\ \A d \in Callers \ {c} : call'[d] = call[d]
           /\ ~ended[m] /\ UNCHANGED <<storage, ended, expiring, hub, issued, orphans, history>>
  <1>1. cached[m] \in PairOrNone /\ cached = [cached EXCEPT ![m] = cached[m]]
    BY DEF Types, TypeOK
  <1>2. CASE cached[m] = NoPair
    BY <1>2 DEF Ask, Step, Open, Types, TypeOK
  <1>3. CASE cached[m] # NoPair /\ op = "get" /\ IsExpiring(cached[m])
    BY <1>1, <1>3, RefreshPlaces DEF Ask, UsePair, Open, PairOrNone
  <1>4. CASE cached[m] # NoPair /\ op = "get" /\ ~IsExpiring(cached[m])
    BY <1>1, <1>4 DEF Ask, UsePair, Return, Open, Types, TypeOK
  <1>5. CASE cached[m] # NoPair /\ op # "get"
    BY <1>1, <1>5, RefreshPlaces DEF Ask, Open, PairOrNone
  <1> QED  BY <1>2, <1>3, <1>4, <1>5

\* A question resumes: it is answered, or it refreshes.
LEMMA ResumePlaces ==
    ASSUME Types, NEW c \in Callers, Resume(c)
    PROVE  /\ call[c].mgr \in Managers /\ call[c].st = "loaded" /\ call[c].op \in Asking
           /\ \/ call'[c] = Idle /\ UNCHANGED flight
              \/ /\ call[c].pair \in Pairs
                 /\ \E op \in Asking : RefreshOnce(c, call[c].mgr, call[c].pair, op)
           /\ \/ UNCHANGED cached
              \/ cached' = [cached EXCEPT ![call[c].mgr] = call[c].pair]
           /\ call[c].pair \in Pairs => overtaken' = (overtaken \/ Overtaken(call[c].mgr, call[c].pair))
           /\ \A d \in Callers \ {c} : call'[d] = call[d]
           /\ early' = early \ {c}
           /\ UNCHANGED <<storage, ended, expiring, hub, issued, orphans, lost, reused, setup>>
  <1> DEFINE m == call[c].mgr
             p == call[c].pair
  <1>1. /\ m \in Managers /\ p \in PairOrNone /\ call[c].st = "loaded" /\ call[c].op \in Asking
        /\ p \in Pairs => HasPair(p)
    BY SdkAssumption DEF Resume, Types, TypeOK, Called, Asking, HasPair, Pairs
  <1>2. CASE ~HasPair(p) \/ (call[c].op = "get" /\ ~IsExpiring(p))
    <2>1. /\ call' = [call EXCEPT ![c] = Idle] /\ UNCHANGED flight
          /\ UNCHANGED cached \/ cached' = [cached EXCEPT ![m] = p]
      BY <1>2 DEF Resume, UsePair, Return
    <2> QED  BY <1>1, <2>1 DEF Resume, Types, TypeOK
  <1>3. CASE HasPair(p) /\ call[c].op = "get" /\ IsExpiring(p)
    <2>1. RefreshOnce(c, m, p, "get") /\ cached' = [cached EXCEPT ![m] = p]
      BY <1>3 DEF Resume, UsePair
    <2> QED  BY <1>1, <1>3, <2>1, RefreshPlaces DEF Resume, HasPair, PairOrNone, Asking
  <1>4. CASE HasPair(p) /\ call[c].op # "get"
    <2>1. RefreshOnce(c, m, p, "force") /\ UNCHANGED cached
      BY <1>4 DEF Resume
    <2> QED  BY <1>1, <1>4, <2>1, RefreshPlaces DEF Resume, HasPair, PairOrNone, Asking
  <1> QED  BY <1>2, <1>3, <1>4

\* A question starts no refresh but the one of its manager ...
LEMMA AskBegins ==
    ASSUME Types, NEW c \in Callers, NEW m \in Managers, NEW op \in Asking, Ask(c, m, op),
           NEW n \in Managers, Begins(n)
    PROVE  n = m
  <1>1. \/ UNCHANGED flight
        \/ RefreshOnce(c, m, cached[m], op)
    BY AskPlaces
  <1>2. RefreshOnce(c, m, cached[m], op) => \A o \in Managers \ {m} : flight'[o] = flight[o]
    BY RefreshPlaces
  <1> QED  BY <1>1, <1>2 DEF Begins

\* ... and one that resumes then waits for it.
LEMMA ResumeBegins ==
    ASSUME Types, NEW c \in Callers, Resume(c), NEW n \in Managers, Begins(n)
    PROVE  n = call[c].mgr /\ call'[c].st = "wait"
  <1> DEFINE m == call[c].mgr
             p == call[c].pair
  <1>1. /\ m \in Managers
        /\ UNCHANGED flight \/ \E op \in Asking : RefreshOnce(c, m, p, op)
    BY ResumePlaces
  <1>2. ASSUME NEW op \in Asking, RefreshOnce(c, m, p, op)
        PROVE  call'[c].st = "wait" /\ \A o \in Managers \ {m} : flight'[o] = flight[o]
    BY <1>1, <1>2, RefreshPlaces
  <1> QED  BY <1>1, <1>2 DEF Begins

LEMMA InitEarly == Init => EarlyInv
  BY DEF Init, EarlyInv, Reading, Idle

LEMMA EarlyStep == Types /\ EarlyInv /\ [Next]_vars => EarlyInv'
  <1> SUFFICES ASSUME Types, EarlyInv, [Next]_vars PROVE EarlyInv'
    OBVIOUS
  <1>1. ASSUME UNCHANGED <<ended, early>>, \A n \in Managers : ended[n] => Reading(n)' \subseteq Reading(n)
        PROVE  EarlyInv'
    BY <1>1 DEF EarlyInv
  <1>2. ASSUME NEW c \in Callers, UNCHANGED <<ended, early>>, \A d \in Callers \ {c} : call'[d] = call[d],
               call'[c].st \in {"load", "loaded"} /\ call'[c].op # "signOut" =>
                 ~ended[call'[c].mgr] \/ c \in Reading(call'[c].mgr)
        PROVE  EarlyInv'
    BY <1>1, <1>2 DEF Reading
  <1>3. ASSUME NEW c \in Callers, NEW m \in Managers, NEW op \in Asking, Ask(c, m, op)
        PROVE  EarlyInv'
    <2>1. \/ call'[c] = [st |-> "load", mgr |-> m, pair |-> NoPair, op |-> op]
          \/ RefreshOnce(c, m, cached[m], op)
          \/ call'[c] = Idle
      BY <1>3, AskPlaces
    <2>2. RefreshOnce(c, m, cached[m], op) => call'[c].st = "wait"
      BY RefreshPlaces
    <2>3. ~ended[m] /\ UNCHANGED <<ended, early>> /\ \A d \in Callers \ {c} : call'[d] = call[d]
      BY <1>3, AskPlaces DEF history
    <2> QED  BY <1>2, <2>1, <2>2, <2>3 DEF Idle
  <1>4. ASSUME NEW c \in Callers, NEW m \in Managers, SignIn(c, m) PROVE EarlyInv'
    <2>1. /\ ended' = [ended EXCEPT ![m] = FALSE] /\ UNCHANGED early /\ call'[c].st = "save"
          /\ \A d \in Callers \ {c} : call'[d] = call[d]
      BY <1>4 DEF SignIn, Step, history, Types, TypeOK
    <2> QED  BY <2>1 DEF EarlyInv, Reading, Types, TypeOK
  <1>5. ASSUME NEW c \in Callers, NEW m \in Managers, SignOut(c, m) PROVE EarlyInv'
    BY <1>2, <1>5 DEF SignOut, Step, history, Types, TypeOK
  <1>6. ASSUME NEW c \in Callers, Load(c) PROVE EarlyInv'
    <2>1. call' = [call EXCEPT ![c] = [st |-> "loaded", mgr |-> call[c].mgr, pair |-> storage, op |-> call[c].op]]
      BY <1>6, CallMoves DEF Load, Types
    <2>2. call[c].st = "load" /\ UNCHANGED <<ended, early>>
      BY <1>6 DEF Load, history
    <2> QED  BY <1>2, <2>1, <2>2 DEF Reading, Types, TypeOK
  <1>7. ASSUME NEW c \in Callers, Resume(c) PROVE EarlyInv'
    <2>1. /\ call'[c] = Idle \/ \E op \in Asking : RefreshOnce(c, call[c].mgr, call[c].pair, op)
          /\ call[c].mgr \in Managers /\ UNCHANGED ended /\ early' = early \ {c}
          /\ \A d \in Callers \ {c} : call'[d] = call[d]
      BY <1>7, ResumePlaces
    <2>2. ASSUME NEW op \in Asking, RefreshOnce(c, call[c].mgr, call[c].pair, op) PROVE call'[c].st = "wait"
      BY <2>1, <2>2, RefreshPlaces
    <2>3. call'[c].st \notin {"load", "loaded"}
      BY <2>1, <2>2 DEF Idle
    <2> QED  BY <2>1, <2>3 DEF EarlyInv, Reading
  <1>8. ASSUME NEW c \in Callers, Save(c) \/ Clear(c) \/ Revoke(c) PROVE EarlyInv'
    <2>1. /\ UNCHANGED <<ended, early>> /\ \A d \in Callers \ {c} : call'[d] = call[d]
          /\ call'[c].st \in {"idle", "revoke"}
      BY <1>8 DEF Save, Clear, Revoke, Return, Idle, history, Types, TypeOK
    <2> QED  BY <1>2, <2>1
  <1>9. ASSUME NEW m \in Managers, Forget(m), \A d \in Callers, n \in Managers : d \in Reading(n)' => d \in Reading(n)
        PROVE  EarlyInv'
    BY <1>9 DEF Forget, EarlyInv, Types, TypeOK
  <1>10. ASSUME NEW c \in Callers, SignOutEnd(c) PROVE EarlyInv'
    <2>1. call[c].mgr \in Managers /\ Forget(call[c].mgr)
      BY <1>10 DEF SignOutEnd, Types, Called
    <2>2. call'[c].st = "clear" /\ \A d \in Callers \ {c} : call'[d] = call[d]
      BY <1>10 DEF SignOutEnd, Types, TypeOK
    <2> QED  BY <1>9, <2>1, <2>2 DEF Reading
  <1>11. ASSUME NEW m \in Managers, FlightTerminal(m) PROVE EarlyInv'
    BY <1>9, <1>11 DEF FlightTerminal, Reading
  <1>12. ASSUME UNCHANGED <<ended, early, call>> PROVE EarlyInv'
    BY <1>1, <1>12 DEF Reading
  <1>13. ASSUME NEW m \in Managers, Settle(m) PROVE EarlyInv'
    <2>1. UNCHANGED <<ended, early>> /\ \A d \in Callers : call'[d] = call[d] \/ call'[d] = Idle
      BY <1>13 DEF Settle, history
    <2> QED  BY <1>1, <2>1 DEF Reading, Idle
  <1>14. ASSUME NEW m \in Managers,
                HubServes(m) \/ GiveUp(m) \/ FlightNull(m) \/ FlightPair(m) \/ FlightSave(m) \/ FlightClear(m)
         PROVE  EarlyInv'
    BY <1>12, <1>14 DEF HubServes, GiveUp, FlightNull, FlightPair, FlightSave, FlightClear, history
  <1>15. ASSUME (\E p \in Pairs : Age(p) \/ HubServesLate(p)) \/ UNCHANGED vars PROVE EarlyInv'
    BY <1>12, <1>15 DEF Age, HubServesLate, client, history, vars
  <1> QED
    BY <1>3, <1>4, <1>5, <1>6, <1>7, <1>8, <1>10, <1>11, <1>13, <1>14, <1>15
    DEF Next, Starts, Continues, Flies, Asking

\* "This process must stop presenting the token" (server-client.ts:179-180):
\* Open is asked before the read and not after it, so only a call that was at
\* its read when the session ended, and each of them once, can start a refresh.
THEOREM EndedStaysQuiet == Spec => StopsPresenting
  <1> DEFINE Quiet(m) == Begins(m) /\ ended[m] =>
               \E c \in early : /\ call[c].mgr = m /\ call[c].st = "loaded"
                                /\ call'[c].st = "wait" /\ c \notin early'
  <1>1. ASSUME Types, EarlyInv, [Next]_vars, NEW m \in Managers PROVE Quiet(m)
    <2> SUFFICES ASSUME Begins(m), ended[m]
                 PROVE  \E c \in early : /\ call[c].mgr = m /\ call[c].st = "loaded"
                                         /\ call'[c].st = "wait" /\ c \notin early'
      OBVIOUS
    <2>1. ASSUME NEW c \in Callers, NEW n \in Managers, NEW op \in Asking, Ask(c, n, op)
          PROVE  FALSE
      <3>1. m = n
        BY <1>1, <2>1, AskBegins
      <3> QED  BY <2>1, <3>1 DEF Ask, Open
    <2>2. ASSUME NEW c \in Callers, Resume(c)
          PROVE  /\ c \in early /\ call[c].mgr = m /\ call[c].st = "loaded"
                 /\ call'[c].st = "wait" /\ c \notin early'
      <3>1. m = call[c].mgr /\ call'[c].st = "wait"
        BY <1>1, <2>2, ResumeBegins
      <3>2. call[c].st = "loaded" /\ call[c].op \in Asking /\ early' = early \ {c}
        BY <1>1, <2>2, ResumePlaces
      <3>3. c \in Reading(m)
        BY <3>1, <3>2 DEF Reading, Asking
      <3> QED  BY <1>1, <3>1, <3>2, <3>3 DEF EarlyInv
    <2>3. ASSUME NEW n \in Managers, HubServes(n) \/ Flies(n) PROVE FALSE
      BY <1>1, <2>3 DEF Begins, HubServes, Flies, GiveUp, FlightNull, FlightPair, FlightSave,
             FlightTerminal, FlightClear, Settle, Answered, NoFlight, Types, TypeOK
    <2>4. ASSUME UNCHANGED flight PROVE FALSE
      BY <2>4 DEF Begins
    <2> QED
      BY <1>1, <2>1, <2>2, <2>3, <2>4
      DEF Next, Starts, Continues, Asking, SignIn, SignOut, Load, Save, SignOutEnd, Clear, Revoke,
          Age, HubServesLate, client, vars
  <1>2. Types /\ EarlyInv /\ [Next]_vars => [\A m \in Managers : Quiet(m)]_vars
    BY <1>1
  <1>3. Types /\ EarlyInv /\ [Next]_vars => EarlyInv'
    BY EarlyStep
  <1> QED  BY <1>2, <1>3, InitEarly, TypesLast, PTL DEF Spec, StopsPresenting

-----------------------------------------------------------------------------
(* Tokens in hand *)

LEMMA InitTokens == Init => TokenInv
  <1> SUFFICES ASSUME Init PROVE InHand
    BY DEF TokenInv
  <1>1. 1 \in Pairs /\ NoPair \notin Pairs /\ Pairs \subseteq Nat
    BY SdkAssumption DEF Pairs
  <1>2. Numbered
    BY <1>1 DEF Init, Numbered, Pairs
  <1> QED
    BY <1>1, <1>2 DEF Init, InHand, Kept, Carried, Harmless, Unspent, Granted, Idle, NoFlight

\* What revoking a login does to the tokens: none is born, burned or revived.
LEMMA KillKeeps ==
    ASSUME Types, NEW l, hub' = KillLogin(l)
    PROVE  \A t \in Pairs : /\ Unspent(t)' <=> Unspent(t)
                            /\ hub'[t].status = "unborn" <=> hub[t].status = "unborn"
  <1> SUFFICES ASSUME NEW t \in Pairs
               PROVE  /\ Unspent(t)' <=> Unspent(t)
                      /\ hub'[t].status = "unborn" <=> hub[t].status = "unborn"
    OBVIOUS
  <1>1. hub[t] \in [status : {"unborn", "live", "burned", "dead"}, login : Pairs]
    BY DEF Types, TypeOK
  <1>2. hub'[t] = IF hub[t].login = l /\ hub[t].status = "live"
                    THEN [hub[t] EXCEPT !.status = "dead"] ELSE hub[t]
    BY DEF KillLogin
  <1> QED  BY <1>1, <1>2 DEF Unspent

\* A pair the manager may go on with becomes, at most, what it has in memory:
\* the others are as harmless as they were.
LEMMA AdoptKeeps ==
    ASSUME Types, NEW m \in Managers, NEW p \in Pairs, ~Overtaken(m, p),
           Unspent(p) \/ Granted(m), Granted(m) <=> Granted(m)', UNCHANGED <<ended, hub>>,
           cached'[m] \in {cached[m], p}
    PROVE  \A q \in PairOrNone : Harmless(q, m) => Harmless(q, m)'
  <1> SUFFICES ASSUME NEW q \in Pairs, Unspent(q) \/ Granted(m) \/ Overtaken(m, q)
               PROVE  Unspent(q)' \/ Granted(m)' \/ Overtaken(m, q)'
    BY SdkAssumption DEF Harmless, PairOrNone, Pairs
  <1>1. CASE Unspent(q) \/ Granted(m)
    BY <1>1 DEF Unspent
  <1>2. CASE Overtaken(m, q) /\ ~(Unspent(q) \/ Granted(m))
    <2>1. ~ended[m] /\ cached[m] \in {NoPair, p}
      BY DEF Overtaken
    <2>2. cached[m] = p /\ q # p /\ NoPair \notin Pairs
      BY <1>2, <2>1, SdkAssumption DEF Overtaken, Pairs
    <2> QED  BY <2>2 DEF Overtaken
  <1> QED  BY <1>1, <1>2

\* A question goes on with a pair that is harmless and not overtaken: it is
\* answered, or a refresh is started or joined.
LEMMA GoOnKeeps ==
    ASSUME OneManager, Types, InHand, NEW c \in Callers, NEW m \in Managers, NEW p \in Pairs,
           Harmless(p, m), ~Overtaken(m, p),
           \/ call'[c] = Idle /\ UNCHANGED flight
           \/ \E op \in Asking : RefreshOnce(c, m, p, op),
           \A d \in Callers \ {c} : call'[d] = call[d],
           UNCHANGED cached \/ cached' = [cached EXCEPT ![m] = p],
           UNCHANGED <<storage, ended, expiring, hub, issued, orphans, reused>>
    PROVE  InHand'
  <1>1. Unspent(p) \/ Granted(m)
    BY DEF Harmless
  <1>2. /\ call'[c].st \in {"idle", "wait"}
        /\ \/ flight'[m] = flight[m]
           \/ /\ flight[m].st = "none"
              /\ flight'[m] = [st |-> "asked", token |-> p, answer |-> "none", new |-> NoPair]
    <2>1. ASSUME NEW op \in Asking, RefreshOnce(c, m, p, op)
          PROVE  /\ call'[c].st = "wait"
                 /\ \/ flight'[m] = flight[m]
                    \/ /\ flight[m].st = "none"
                       /\ flight'[m] = [st |-> "asked", token |-> p, answer |-> "none", new |-> NoPair]
      BY <2>1, RefreshPlaces
    <2> QED  BY <2>1 DEF Idle
  <1>3. Granted(m)' <=> Granted(m)
    BY <1>2 DEF Granted
  <1>4. cached'[m] \in {cached[m], p}
    BY DEF Types, TypeOK
  <1>5. \A q \in PairOrNone : Harmless(q, m) => Harmless(q, m)'
    BY <1>1, <1>3, <1>4, AdoptKeeps
  <1>6. \A n \in Managers : n = m
    BY DEF OneManager
  <1>7. Kept(m)'
    <2>1. cached'[m] \in Pairs => Unspent(cached[m])' \/ Granted(m)'
      BY <1>1, <1>3, <1>4 DEF InHand, Kept, Unspent
    <2>2. Harmless(storage, m)'
      BY <1>5 DEF InHand, Kept, Harmless, Types, TypeOK
    <2>3. CASE flight'[m] = flight[m]
      <3>1. flight[m].st = "save" => Harmless(flight[m].new, m)'
        <4>1. PICK q \in PairOrNone : q = flight[m].new
          BY DEF Types, TypeOK
        <4>2. flight[m].st = "save" => Harmless(q, m)'
          BY <1>5, <4>1 DEF InHand, Kept
        <4> QED  BY <2>3, <4>1, <4>2 DEF Harmless
      <3> QED  BY <1>3, <2>1, <2>2, <2>3, <3>1 DEF InHand, Kept, Unspent, Harmless
    <2>4. CASE /\ flight[m].st = "none"
               /\ flight'[m] = [st |-> "asked", token |-> p, answer |-> "none", new |-> NoPair]
      BY <1>1, <2>1, <2>2, <2>4 DEF Kept, Granted, Unspent
    <2> QED  BY <1>2, <2>3, <2>4
  <1>8. \A d \in Callers : Carried(d, m)'
    <2> SUFFICES ASSUME NEW d \in Callers, d # c PROVE Carried(d, m)'
      BY <1>2 DEF Carried
    <2>1. call[d].pair \in PairOrNone
      BY DEF Types, TypeOK
    <2> QED  BY <1>5, <2>1 DEF InHand, Carried, Harmless
  <1> QED  BY <1>6, <1>7, <1>8 DEF InHand, Numbered

\* The one step that burns a token: it is the one whose refresh is granted.
LEMMA ServeKeeps ==
    ASSUME OneManager, Types, InHand, NEW m \in Managers, HubServes(m)
    PROVE  InHand'
  <1> DEFINE t == flight[m].token
             n == issued + 1
  <1>1. /\ flight[m].st = "asked" /\ flight[m].answer = "none" /\ t \in Pairs
        /\ n \in Pairs /\ issued \in Nat /\ Pairs \subseteq Nat
        /\ UNCHANGED <<storage, cached, ended, call, orphans>>
    BY SdkAssumption DEF HubServes, Room, Types, TypeOK, Pairs
  <1>2. Unspent(t) /\ hub[n].status = "unborn" /\ hub[t].status # "burned"
    BY <1>1 DEF InHand, Kept, Numbered, Unspent
  <1>4. ~reused'
    BY <1>2 DEF HubServes, Rotate, InHand
  <1>5. \A o \in Managers : o = m
    BY DEF OneManager
  <1>7. CASE hub[t].status = "live"
    <2>1. flight'[m].st = "asked" /\ flight'[m].answer = "granted" /\ flight'[m].new = n
      <3>1. flight'[m] = [flight[m] EXCEPT !.answer = "granted", !.new = n]
        BY <1>7 DEF HubServes, Types, TypeOK
      <3>2. [flight[m] EXCEPT !.answer = "granted", !.new = n] =
              [st |-> flight[m].st, token |-> t, answer |-> "granted", new |-> n]
        BY FlightMoves DEF Types
      <3> QED  BY <1>1, <3>1, <3>2
    <2>2. /\ hub' = [hub EXCEPT ![t].status = "burned", ![n] = [status |-> "live", login |-> hub[t].login]]
          /\ issued' = n
      BY <1>7 DEF HubServes, Rotate
    <2>3. /\ hub'[n].status = "live"
          /\ \A p \in Pairs \ {t, n} : hub'[p] = hub[p]
          /\ hub'[t].status = "burned"
      BY <1>1, <1>2, <1>7, <2>2 DEF Types, TypeOK
    <2>4. Granted(m)'
      BY <2>1 DEF Granted
    <2>5. \A q : Harmless(q, m)'
      BY <2>4 DEF Harmless
    <2>6. Kept(m)'
      <3>1. flight'[m].answer = "granted" /\ hub'[flight'[m].new].status = "live"
        BY <2>1, <2>3
      <3>2. Harmless(storage, m)' /\ Harmless(flight[m].new, m)'
        BY <2>4 DEF Harmless
      <3> QED  BY <2>1, <2>4, <3>1, <3>2 DEF Kept, Granted, Unspent
    <2>7. \A c \in Callers : Carried(c, m)'
      BY <2>4 DEF Carried, Harmless
    <2>8. Numbered'
      <3> SUFFICES ASSUME NEW p \in Pairs PROVE hub'[p].status = "unborn" <=> n < p
        BY <2>2 DEF Numbered
      <3>1. hub[p].status = "unborn" <=> issued < p
        BY DEF InHand, Numbered
      <3>2. CASE p = t
        BY <1>1, <1>7, <2>3, <3>1, <3>2
      <3>3. CASE p # t /\ p = n
        BY <1>1, <2>3, <3>3
      <3>4. CASE p # t /\ p # n
        BY <1>1, <2>3, <3>1, <3>4
      <3> QED  BY <3>2, <3>3, <3>4
    <2> QED  BY <1>1, <1>4, <1>5, <2>6, <2>7, <2>8 DEF InHand
  <1>8. CASE hub[t].status # "live"
    <2>1. UNCHANGED <<hub, issued>>
      BY <1>2, <1>8 DEF HubServes, Rotate
    <2>2. flight'[m].st = "asked" /\ flight'[m].answer = "refused"
      <3>1. flight'[m] = [flight[m] EXCEPT !.answer = "refused", !.new = NoPair]
        BY <1>8 DEF HubServes, Types, TypeOK
      <3>2. [flight[m] EXCEPT !.answer = "refused", !.new = NoPair] =
              [st |-> flight[m].st, token |-> t, answer |-> "refused", new |-> NoPair]
        BY FlightMoves DEF Types
      <3> QED  BY <1>1, <3>1, <3>2
    <2>3. ~Granted(m) /\ ~Granted(m)'
      BY <1>1, <2>2 DEF Granted
    <2>4. Kept(m)'
      BY <1>1, <2>1, <2>2, <2>3 DEF InHand, Kept, Unspent, Harmless, Overtaken
    <2>5. \A c \in Callers : Carried(c, m)'
      BY <1>1, <2>1, <2>3 DEF InHand, Carried, Unspent, Harmless, Overtaken
    <2> QED  BY <1>1, <1>4, <1>5, <2>1, <2>4, <2>5 DEF InHand, Numbered
  <1> QED  BY <1>7, <1>8

\* The steps of a flight whose answer has come.
LEMMA LandKeeps ==
    ASSUME OneManager, Types, InHand, NEW m \in Managers,
           \/ FlightNull(m) \/ FlightPair(m) \/ FlightSave(m) \/ FlightTerminal(m)
           \/ FlightClear(m) \/ Settle(m)
    PROVE  InHand'
  <1>1. UNCHANGED <<hub, issued, orphans, reused>>
    BY DEF FlightNull, FlightPair, FlightSave, FlightTerminal, Forget, FlightClear, Settle, history
  <1>2. \A n \in Managers : n = m
    BY DEF OneManager
  <1>3. /\ flight[m].answer \in {"none", "granted", "refused", "failed"}
        /\ setup.readsReply \in BOOLEAN /\ NoPair \notin Pairs
        /\ storage \in PairOrNone /\ cached[m] \in PairOrNone
    BY SdkAssumption DEF Types, TypeOK, Pairs
  <1>4. ASSUME Kept(m)', \A c \in Callers : Carried(c, m)' PROVE InHand'
    BY <1>1, <1>2, <1>4 DEF InHand, Numbered
  <1>5. ASSUME FlightNull(m) PROVE FALSE
    <2>1. flight[m].st = "asked" /\ flight[m].answer = "failed"
      BY <1>3, <1>5 DEF FlightNull, Answered, Outcome
    <2> QED  BY <2>1 DEF InHand, Kept
  <1>6. CASE FlightPair(m)
    <2>1. Granted(m) /\ flight[m].new \in Pairs
      BY <1>3, <1>6 DEF FlightPair, Answered, Outcome, Granted, Types
    <2>2. Unspent(flight[m].new)
      BY <2>1 DEF InHand, Kept
    <2>3. /\ cached'[m] = flight[m].new /\ UNCHANGED <<storage, call, ended>>
          /\ flight'[m].st = "save" /\ flight'[m].new = flight[m].new
      BY <1>6 DEF FlightPair, Types, TypeOK
    <2>4. \A q \in Pairs : Unspent(q)' \/ Overtaken(m, q)'
      BY <1>1, <1>3, <2>1, <2>2, <2>3 DEF Unspent, Overtaken
    <2>5. Kept(m)'
      BY <1>1, <2>2, <2>3, <2>4 DEF Kept, Granted, Unspent, Harmless
    <2>6. \A c \in Callers : Carried(c, m)'
      BY <2>4 DEF Carried, Harmless
    <2> QED  BY <1>4, <2>5, <2>6
  <1>7. CASE FlightTerminal(m)
    <2>1. cached'[m] = NoPair /\ ended'[m] /\ flight'[m].st = "clear"
      BY <1>7 DEF FlightTerminal, Forget, Types, TypeOK
    <2>2. \A q : Overtaken(m, q)'
      BY <2>1 DEF Overtaken
    <2>3. Harmless(storage, m)' /\ \A c \in Callers : Carried(c, m)'
      BY <2>2 DEF Carried, Harmless
    <2>4. Kept(m)'
      BY <1>3, <2>1, <2>3 DEF Kept, Granted
    <2> QED  BY <1>4, <2>3, <2>4
  <1>8. CASE FlightSave(m) \/ FlightClear(m) \/ Settle(m)
    <2>1. /\ flight[m].st \in {"save", "clear", "done"} /\ UNCHANGED <<cached, ended>>
          /\ storage' = storage \/ storage' = NoPair \/ (storage' = flight[m].new /\ flight[m].st = "save")
          /\ flight'[m].st \in {"none", "done"}
          /\ \A c \in Callers : call'[c] = Idle \/ call'[c] = call[c]
      BY <1>8 DEF FlightSave, FlightClear, Settle, NoFlight, Types, TypeOK
    <2>2. ~Granted(m) /\ ~Granted(m)'
      BY <2>1 DEF Granted
    <2>3. \A q : Harmless(q, m) => (q \in Pairs => Unspent(q)' \/ Overtaken(m, q)')
      BY <1>1, <2>1, <2>2 DEF Harmless, Unspent, Overtaken
    <2>4. Harmless(storage', m)
      BY <1>3, <2>1 DEF InHand, Kept, Harmless
    <2>5. Kept(m)'
      BY <1>1, <2>1, <2>2, <2>3, <2>4 DEF InHand, Kept, Unspent, Harmless
    <2>6. \A c \in Callers : Carried(c, m)'
      BY <2>1, <2>3 DEF InHand, Carried, Harmless, Idle
    <2> QED  BY <1>4, <2>5, <2>6
  <1> QED  BY <1>5, <1>6, <1>7, <1>8

\* What was lost or overtaken stays so.
LEMMA HistoryStays == Types /\ [Next]_vars => (lost => lost') /\ (overtaken => overtaken')
  <1>1. \A c \in Callers : Starts(c) => UNCHANGED <<lost, overtaken>>
    BY DEF Starts, Ask, SignIn, SignOut, history
  <1>2. \A c \in Callers : Continues(c) => UNCHANGED lost /\ (overtaken => overtaken')
    <2>1. \A c \in Callers : Load(c) \/ Save(c) \/ SignOutEnd(c) \/ Clear(c) \/ Revoke(c) =>
             UNCHANGED <<lost, overtaken>>
      BY DEF Load, Save, SignOutEnd, Forget, Clear, Revoke, history
    <2>2. \A c \in Callers : Resume(c) => UNCHANGED lost /\ (overtaken => overtaken')
      BY DEF Resume
    <2> QED  BY <2>1, <2>2 DEF Continues
  <1>3. \A m \in Managers : HubServes(m) => UNCHANGED <<lost, overtaken>>
    BY DEF HubServes
  <1>4. \A m \in Managers : Flies(m) => UNCHANGED overtaken /\ (lost => lost')
    BY DEF Flies, GiveUp, FlightNull, FlightPair, FlightSave, FlightTerminal, Forget, FlightClear,
           Settle, history
  <1>5. \A p \in Pairs : Age(p) \/ HubServesLate(p) => UNCHANGED <<lost, overtaken>>
    BY DEF Age, HubServesLate, history
  <1> QED  BY <1>1, <1>2, <1>3, <1>4, <1>5 DEF Next, vars

LEMMA TokenStep ==
    ASSUME OneManager
    PROVE  Types /\ TokenInv /\ [Next]_vars => TokenInv'
  <1> SUFFICES ASSUME Types, InHand, ~lost, ~lost', ~overtaken, ~overtaken', [Next]_vars
               PROVE  InHand'
    BY HistoryStays DEF TokenInv
  <1>1. NoPair \notin Pairs /\ \A m, n \in Managers : m = n
    BY SdkAssumption DEF Pairs, OneManager
  <1>2. ASSUME NEW c \in Callers, UNCHANGED <<cached, ended, flight, hub, issued, orphans, reused>>,
               storage' = storage \/ storage' = NoPair \/ \A m \in Managers : Harmless(storage', m),
               \A d \in Callers \ {c} : call'[d] = call[d], \A m \in Managers : Carried(c, m)'
        PROVE  InHand'
    <2>1. \A q, m : Harmless(q, m)' <=> (q' \in Pairs => Unspent(q') \/ Granted(m) \/ Overtaken(m, q'))
      BY <1>2 DEF Harmless, Unspent, Granted, Overtaken
    <2>2. \A d \in Callers, m \in Managers : Carried(d, m)'
      BY <1>2 DEF InHand, Carried, Harmless, Unspent, Granted, Overtaken
    <2>3. \A m \in Managers : Kept(m)'
      BY <1>1, <1>2 DEF InHand, Kept, Harmless, Unspent, Granted, Overtaken
    <2> QED  BY <1>2, <2>2, <2>3 DEF InHand, Numbered
  <1>3. ASSUME NEW c \in Callers, NEW m \in Managers, NEW op \in Asking, Ask(c, m, op)
        PROVE  InHand'
    <2>1. /\ \A d \in Callers \ {c} : call'[d] = call[d]
          /\ ~ended[m] /\ UNCHANGED <<storage, ended, expiring, hub, issued, orphans, reused>>
      BY <1>3, AskPlaces DEF history
    <2>2. CASE RefreshOnce(c, m, cached[m], op) /\ cached[m] \in Pairs /\ UNCHANGED cached
      <3>1. Harmless(cached[m], m) /\ ~Overtaken(m, cached[m])
        BY <2>1 DEF InHand, Kept, Harmless, Overtaken
      <3> QED  BY <2>1, <2>2, <3>1, GoOnKeeps
    <2>3. CASE /\ call'[c] = [st |-> "load", mgr |-> m, pair |-> NoPair, op |-> op]
               /\ UNCHANGED <<cached, flight>>
      BY <1>2, <2>1, <2>3 DEF Carried
    <2>4. CASE call'[c] = Idle /\ UNCHANGED <<cached, flight>>
      BY <1>2, <2>1, <2>4 DEF Carried, Idle
    <2> QED  BY <1>3, <2>2, <2>3, <2>4, AskPlaces
  <1>4. ASSUME NEW c \in Callers, NEW m \in Managers, SignIn(c, m) PROVE InHand'
    <2> DEFINE n == issued + 1
    <2>1. n \in Pairs /\ issued \in Nat /\ Pairs \subseteq Nat /\ hub[n].status = "unborn"
      BY <1>4, SdkAssumption DEF SignIn, Room, Types, TypeOK, Pairs, InHand, Numbered
    <2>2. /\ hub' = [hub EXCEPT ![n] = [status |-> "live", login |-> n]] /\ issued' = n
          /\ cached'[m] = n /\ call'[c] = [st |-> "save", mgr |-> m, pair |-> n, op |-> "signIn"]
          /\ \A d \in Callers \ {c} : call'[d] = call[d]
          /\ UNCHANGED <<storage, flight, orphans, reused>>
      BY <1>4 DEF SignIn, Step, history, Types, TypeOK
    <2>3. hub'[n].status = "live" /\ \A p \in Pairs \ {n} : hub'[p] = hub[p]
      BY <2>1, <2>2 DEF Types, TypeOK
    <2>4. \A p \in Pairs : Unspent(p) \/ p = n => Unspent(p)'
      BY <2>3 DEF Unspent
    <2>5. Numbered'
      BY <2>1, <2>2, <2>3 DEF InHand, Numbered
    <2>6. \A q \in Pairs : Unspent(q)' \/ Overtaken(m, q)'
      BY <1>1, <2>1, <2>2, <2>4 DEF Overtaken
    <2>7. \A d \in Callers : Carried(d, m)'
      BY <2>6 DEF Carried, Harmless
    <2>8. Kept(m)'
      <3>1. flight[m].st = "asked" => flight[m].token \in Pairs
        BY DEF Types, TypeOK
      <3>2. Granted(m) => flight[m].new \in Pairs
        BY DEF Types, Granted
      <3>3. Harmless(storage, m)' /\ Harmless(flight[m].new, m)'
        BY <2>6 DEF Harmless
      <3>4. UNCHANGED flight /\ (Granted(m)' <=> Granted(m))
        BY <2>2 DEF Granted
      <3>5. (Granted(m) => Unspent(flight[m].new)') /\ Unspent(cached[m])'
        BY <2>1, <2>2, <2>4, <3>2 DEF InHand, Kept, Unspent
      <3>6. flight[m].st = "asked" /\ flight[m].answer = "none" => Unspent(flight[m].token)'
        <4>1. flight[m].st = "asked" /\ flight[m].answer = "none" => Unspent(flight[m].token)
          BY DEF InHand, Kept
        <4> QED  BY <2>3, <3>1, <3>4, <4>1 DEF Unspent
      <3>7. flight[m].st = "asked" => flight[m].answer # "failed"
        BY DEF InHand, Kept
      <3> QED  BY <3>3, <3>4, <3>5, <3>6, <3>7 DEF Kept
    <2> QED  BY <1>1, <2>2, <2>5, <2>7, <2>8 DEF InHand
  <1>5. ASSUME NEW c \in Callers, NEW m \in Managers, SignOut(c, m) PROVE InHand'
    BY <1>2, <1>5 DEF SignOut, Step, Carried, Asking, history, Types, TypeOK
  <1>6. ASSUME NEW c \in Callers, Load(c) PROVE InHand'
    <2>1. call' = [call EXCEPT ![c] = [st |-> "loaded", mgr |-> call[c].mgr, pair |-> storage, op |-> call[c].op]]
      BY <1>6, CallMoves DEF Load, Types
    <2>2. /\ call'[c].st = "loaded" /\ call'[c].pair = storage /\ \A d \in Callers \ {c} : call'[d] = call[d]
          /\ UNCHANGED <<storage, cached, ended, flight, hub, issued, orphans, reused>>
      BY <1>6, <2>1 DEF Load, history, Types, TypeOK
    <2>3. \A m \in Managers : Carried(c, m)'
      BY <2>2 DEF InHand, Kept, Carried, Harmless, Granted, Overtaken, Unspent
    <2> QED  BY <1>2, <2>2, <2>3
  <1>7. ASSUME NEW c \in Callers, Resume(c) PROVE InHand'
    <2> DEFINE m == call[c].mgr
               p == call[c].pair
    <2>1. /\ m \in Managers /\ call[c].st = "loaded" /\ call[c].op \in Asking
          /\ \A d \in Callers \ {c} : call'[d] = call[d]
          /\ UNCHANGED <<storage, ended, expiring, hub, issued, orphans, reused>>
          /\ UNCHANGED cached \/ cached' = [cached EXCEPT ![m] = p]
          /\ \/ call'[c] = Idle /\ UNCHANGED flight
             \/ \E op \in Asking : RefreshOnce(c, m, p, op)
      BY <1>7, ResumePlaces
    <2>2. CASE p \in Pairs
      <3>1. Harmless(p, m) /\ ~Overtaken(m, p)
        BY <1>7, <2>1, <2>2, ResumePlaces DEF InHand, Carried
      <3> QED  BY <2>1, <2>2, <3>1, GoOnKeeps
    <2>3. CASE p \notin Pairs
      <3>1. call'[c] = Idle /\ UNCHANGED <<flight, cached>>
        <4>1. ~HasPair(p)
          BY <2>1, <2>3 DEF HasPair, Types, TypeOK, PairOrNone
        <4> QED  BY <1>7, <4>1, <2>1 DEF Resume, Return, Types, TypeOK
      <3> QED  BY <1>2, <2>1, <3>1 DEF Carried, Idle
    <2> QED  BY <2>2, <2>3
  <1>8. ASSUME NEW c \in Callers, Save(c) PROVE InHand'
    <2>1. /\ call' = [call EXCEPT ![c] = Idle] /\ storage' = call[c].pair
          /\ \A m \in Managers : Harmless(call[c].pair, m)
          /\ UNCHANGED <<cached, ended, flight, hub, issued, orphans, reused>>
      BY <1>8 DEF Save, Return, history, InHand, Carried
    <2>2. call'[c] = Idle /\ \A d \in Callers \ {c} : call'[d] = call[d]
      BY <2>1 DEF Types, TypeOK
    <2> QED  BY <1>2, <2>1, <2>2 DEF Carried, Idle
  <1>9. ASSUME NEW c \in Callers, SignOutEnd(c) PROVE InHand'
    <2> PICK m \in Managers : m = call[c].mgr
      BY <1>9 DEF SignOutEnd, Types, Called
    <2>1. /\ ended'[m] /\ cached'[m] = NoPair
          /\ UNCHANGED <<storage, flight, hub, issued, orphans, reused>>
      BY <1>9 DEF SignOutEnd, Forget, Types, TypeOK, Called
    <2>2. \A q : Overtaken(m, q)'
      BY <2>1 DEF Overtaken
    <2>3. /\ Harmless(storage, m)' /\ Harmless(flight[m].new, m)'
          /\ \A d \in Callers : Carried(d, m)'
      BY <2>2 DEF Carried, Harmless
    <2>4. Kept(m)'
      BY <1>1, <2>1, <2>3 DEF InHand, Kept, Granted, Unspent
    <2> QED  BY <1>1, <2>1, <2>3, <2>4 DEF InHand, Numbered
  <1>10. ASSUME NEW c \in Callers, Clear(c) PROVE InHand'
    <2>1. /\ call'[c].st \in {"idle", "revoke"} /\ \A d \in Callers \ {c} : call'[d] = call[d]
          /\ storage' = NoPair /\ UNCHANGED <<cached, ended, flight, hub, issued, orphans, reused>>
      BY <1>10 DEF Clear, Return, Idle, history, Types, TypeOK
    <2> QED  BY <1>2, <2>1 DEF Carried
  <1>11. ASSUME NEW c \in Callers, Revoke(c) PROVE InHand'
    <2>1. /\ call'[c] = Idle /\ \A d \in Callers \ {c} : call'[d] = call[d]
          /\ UNCHANGED <<storage, cached, ended, flight, issued, orphans, reused>>
      BY <1>11 DEF Revoke, Return, history, Types, TypeOK
    <2>2. \A t \in Pairs : /\ Unspent(t)' <=> Unspent(t)
                           /\ hub'[t].status = "unborn" <=> hub[t].status = "unborn"
      BY <1>11, KillKeeps DEF Revoke, Unspent
    <2>3. Numbered'
      BY <2>1, <2>2 DEF InHand, Numbered
    <2>4. \A q, m : Harmless(q, m) => (q \in Pairs => Unspent(q)' \/ Granted(m)' \/ Overtaken(m, q)')
      BY <2>1, <2>2 DEF Harmless, Granted, Overtaken, Unspent
    <2>5. ASSUME NEW m \in Managers PROVE Kept(m)'
      <3>1. flight[m].st = "asked" => flight[m].token \in Pairs
        BY DEF Types, TypeOK
      <3>2. Granted(m) => flight[m].new \in Pairs
        BY DEF Types, Granted
      <3> QED  BY <2>1, <2>2, <2>4, <3>1, <3>2 DEF InHand, Kept, Granted, Harmless
    <2>6. ASSUME NEW d \in Callers, NEW m \in Managers PROVE Carried(d, m)'
      <3>1. CASE d = c
        BY <2>1, <3>1 DEF Carried, Idle
      <3>2. CASE d # c
        BY <2>1, <2>4, <3>2 DEF InHand, Carried, Harmless
      <3> QED  BY <3>1, <3>2
    <2> QED  BY <2>1, <2>3, <2>5, <2>6 DEF InHand
  <1>12. ASSUME NEW m \in Managers, GiveUp(m) PROVE FALSE
    BY <1>12 DEF GiveUp
  <1>13. ASSUME NEW t \in Pairs, HubServesLate(t) PROVE FALSE
    BY <1>13 DEF HubServesLate, InHand
  <1>14. ASSUME UNCHANGED <<storage, cached, ended, flight, call, hub, issued, orphans, reused>> PROVE InHand'
    BY <1>14 DEF InHand, Numbered, Kept, Carried, Granted, Harmless, Overtaken, Unspent
  <1>15. ASSUME (\E p \in Pairs : Age(p)) \/ UNCHANGED vars PROVE InHand'
    BY <1>14, <1>15 DEF Age, client, history, vars
  <1> QED
    BY <1>3, <1>4, <1>5, <1>6, <1>7, <1>8, <1>9, <1>10, <1>11, <1>12, <1>13, <1>15, ServeKeeps, LandKeeps
    DEF Next, Starts, Continues, Flies, Asking

\* One manager, as long as no answer of the hub was lost and no read was
\* overtaken: a burned token is only where the answer under way will replace
\* it, or with a caller that would be overtaken if it went on with it.
THEOREM TokensInHand ==
    ASSUME OneManager
    PROVE  Spec => []TokenInv
  <1>1. Types /\ TokenInv /\ [Next]_vars => TokenInv'
    BY TokenStep
  <1> QED  BY <1>1, InitTokens, TypesLast, PTL DEF Spec

\* "The rotating refresh token is presented exactly once"
\* (token-manager.ts:115-116): a burned token comes back to the hub only
\* after an answer was lost or a read was overtaken.
THEOREM ReuseNeedsLoss ==
    ASSUME OneManager
    PROVE  Spec => []ReuseMeansLoss
  <1>1. TokenInv => ReuseMeansLoss
    BY DEF TokenInv, InHand, ReuseMeansLoss
  <1>2. Spec => []TokenInv
    BY TokensInHand
  <1> QED  BY <1>1, <1>2, PTL

\* A manager at rest holds the hub's live token, unless an answer was lost, a
\* login was signed out or a read was overtaken.
THEOREM LiveTokenHeld ==
    ASSUME OneManager
    PROVE  Spec => []HoldsLiveToken
  <1>1. Types /\ TokenInv => HoldsLiveToken
    <2> SUFFICES ASSUME Types, InHand, \A t \in Pairs : hub[t].status # "dead",
                        NEW m \in Managers, cached[m] # NoPair, flight[m].st = "none"
                 PROVE  hub[cached[m]].status = "live"
      BY DEF TokenInv, HoldsLiveToken
    <2>1. cached[m] \in Pairs /\ ~Granted(m)
      BY DEF Types, TypeOK, PairOrNone, Granted
    <2> QED  BY <2>1 DEF InHand, Kept, Unspent
  <1>2. Spec => []TokenInv
    BY TokensInHand
  <1> QED  BY <1>1, <1>2, TypesLast, PTL

-----------------------------------------------------------------------------
(* Sums over finite sets *)

\* The sum of f over S, as the folds compute it.
Total(f, S) == FoldSet(LAMBDA t, n : n + f[t], 0, S)

\* Some member.
Pick(s) == CHOOSE x \in s : TRUE

\* g adds f up over every subset of S.
Adds(g, f, S) ==
    g = [s \in SUBSET S |-> IF s = {} THEN 0 ELSE g[s \ {Pick(s)}] + f[Pick(s)]]

\* The fold over S ends with the total of some running sum.
LEMMA TotalIs ==
    ASSUME NEW f, NEW S, \E g : Adds(g, f, S)
    PROVE  \E g : Adds(g, f, S) /\ Total(f, S) = g[S]
  BY DEF Total, FoldSet, MapThenFoldSet, Adds, Pick

\* A set of naturals has a least member.
LEMMA LeastNumber ==
    ASSUME NEW N, N \subseteq Nat, N # {}
    PROVE  \E n \in N : \A m \in N : n <= m
  <1>1. PICK n \in N : \A m \in N : ~(<<m, n>> \in OpToRel(<, Nat))
    BY NatLessThanWellFounded, WFMin
  <1>2. ASSUME NEW m \in N PROVE n <= m
    <2>1. ~(m < n)
      BY <1>1 DEF OpToRel
    <2> QED
      BY <2>1
  <1> QED
    BY <1>2

\* A family of subsets of a finite set has a member none of whose elements
\* can be taken away.
LEMMA LeastSubset ==
    ASSUME NEW S, IsFiniteSet(S), NEW B, B \subseteq SUBSET S, B # {}
    PROVE  \E T \in B : \A x \in T : T \ {x} \notin B
  <1> DEFINE N == {Cardinality(T) : T \in B}
  <1>1. \A T \in B : IsFiniteSet(T) /\ Cardinality(T) \in Nat
    BY FS_Subset, FS_CardinalityType
  <1>2. \E n \in N : \A m \in N : n <= m
    <2>1. N \subseteq Nat /\ N # {}
      BY <1>1
    <2> HIDE DEF N
    <2> QED
      BY <2>1, LeastNumber
  <1>3. PICK T \in B : \A U \in B : Cardinality(T) <= Cardinality(U)
    BY <1>2
  <1>4. ASSUME NEW x \in T, T \ {x} \in B PROVE FALSE
    <2>1. Cardinality(T \ {x}) = Cardinality(T) - 1
      BY <1>1, <1>4, FS_RemoveElement
    <2> QED
      BY <1>1, <1>3, <1>4, <2>1
  <1> QED
    BY <1>4

\* A nonempty set has its pick among its members.
LEMMA PickIn == \A s : s # {} => Pick(s) \in s
  BY DEF Pick

\* Such a g exists, built by the number of elements.
LEMMA AddsExists ==
    ASSUME NEW S, IsFiniteSet(S), NEW f, \A x \in S : f[x] \in Nat
    PROVE  \E g : Adds(g, f, S)
  <1> DEFINE Upto(n) == {s \in SUBSET S : Cardinality(s) <= n}
             Partial(g, n) ==
                 g = [s \in Upto(n) |-> IF s = {} THEN 0 ELSE g[s \ {Pick(s)}] + f[Pick(s)]]
             Missing == {n \in Nat : ~\E g : Partial(g, n)}
  <1>1. \A s \in SUBSET S : IsFiniteSet(s) /\ Cardinality(s) \in Nat /\ (s = {} <=> Cardinality(s) = 0)
    BY FS_Subset, FS_CardinalityType, FS_EmptySet
  <1>2. \A s \in SUBSET S : s # {} =>
          s \ {Pick(s)} \in SUBSET S /\ Cardinality(s \ {Pick(s)}) = Cardinality(s) - 1
    BY <1>1, PickIn, FS_RemoveElement
  <1>3. \E g : Partial(g, 0)
    <2>1. Partial([s \in Upto(0) |-> 0], 0)
      BY <1>1
    <2> QED
      BY <2>1
  <1>4. ASSUME NEW n \in Nat, NEW g, Partial(g, n) PROVE \E h : Partial(h, n + 1)
    <2> DEFINE h == [s \in Upto(n + 1) |-> IF s \in Upto(n) THEN g[s]
                                          ELSE g[s \ {Pick(s)}] + f[Pick(s)]]
    <2>1. \A s \in Upto(n + 1) : s # {} => s \ {Pick(s)} \in Upto(n)
      BY <1>1, <1>2
    <2>2. Upto(n) \subseteq Upto(n + 1)
      BY <1>1
    <2>3. \A s \in Upto(n + 1) : h[s] = IF s = {} THEN 0 ELSE h[s \ {Pick(s)}] + f[Pick(s)]
      <3> TAKE s \in Upto(n + 1)
      <3>1. CASE s = {}
        <4>1. s \in Upto(n)
          BY <1>1, <3>1
        <4> QED
          BY <1>4, <3>1, <4>1
      <3>2. CASE s # {} /\ s \in Upto(n)
        BY <1>4, <2>1, <2>2, <3>2
      <3>3. CASE s # {} /\ s \notin Upto(n)
        BY <2>1, <2>2, <3>3
      <3> QED
        BY <3>1, <3>2, <3>3
    <2>4. Partial(h, n + 1)
      BY <2>3
    <2> QED
      BY <2>4
  <1>5. Missing = {}
    <2> SUFFICES ASSUME Missing # {} PROVE FALSE
      OBVIOUS
    <2>1. PICK n \in Missing : \A m \in Missing : n <= m
      <3>1. Missing \subseteq Nat
        OBVIOUS
      <3> HIDE DEF Missing
      <3> QED
        BY <3>1, LeastNumber
    <2>2. n # 0
      BY <1>3
    <2>3. n - 1 \in Nat /\ n - 1 \notin Missing
      <3>1. n \in Nat /\ n - 1 \in Nat /\ ~(n <= n - 1)
        BY <2>1, <2>2
      <3> QED
        BY <2>1, <3>1
    <2>4. PICK g : Partial(g, n - 1)
      BY <2>3
    <2>5. \E h : Partial(h, (n - 1) + 1)
      BY <1>4, <2>3, <2>4
    <2>6. (n - 1) + 1 = n
      BY <2>1
    <2> QED
      BY <2>5, <2>6
  <1>6. Cardinality(S) \in Nat /\ Upto(Cardinality(S)) = SUBSET S
    <2>1. \A s \in SUBSET S : Cardinality(s) <= Cardinality(S)
      BY FS_Subset
    <2> QED
      BY <1>1, <2>1
  <1>7. PICK g : Partial(g, Cardinality(S))
    BY <1>5, <1>6
  <1> QED
    BY <1>6, <1>7 DEF Adds

\* Whatever the order it takes the elements in.
LEMMA AddsAny ==
    ASSUME NEW S, IsFiniteSet(S), NEW f, \A x \in S : f[x] \in Nat, NEW g, Adds(g, f, S)
    PROVE  /\ \A s \in SUBSET S : g[s] \in Nat
           /\ g[{}] = 0
           /\ \A s \in SUBSET S : \A x \in s : g[s] = g[s \ {x}] + f[x]
  <1>0. \A s \in SUBSET S : g[s] = IF s = {} THEN 0 ELSE g[s \ {Pick(s)}] + f[Pick(s)]
    BY DEF Adds
  <1>1. g[{}] = 0 /\ \A s \in SUBSET S : s # {} => g[s] = g[s \ {Pick(s)}] + f[Pick(s)]
    BY <1>0
  <1>2. \A s \in SUBSET S : g[s] \in Nat
    <2> DEFINE B == {s \in SUBSET S : g[s] \notin Nat}
    <2> SUFFICES ASSUME B # {} PROVE FALSE
      OBVIOUS
    <2>1. PICK s \in B : \A x \in s : s \ {x} \notin B
      <3>1. B \subseteq SUBSET S
        OBVIOUS
      <3> HIDE DEF B
      <3> QED
        BY <3>1, LeastSubset
    <2>2. s \in SUBSET S /\ g[s] \notin Nat /\ s # {}
      BY <1>1
    <2>3. Pick(s) \in s /\ f[Pick(s)] \in Nat
      BY <2>2, PickIn
    <2>4. g[s \ {Pick(s)}] \in Nat
      <3>1. s \ {Pick(s)} \notin B
        BY <2>1, <2>3
      <3> QED
        BY <2>2, <3>1
    <2>5. g[s] = g[s \ {Pick(s)}] + f[Pick(s)]
      BY <1>1, <2>2
    <2> QED
      BY <2>2, <2>3, <2>4, <2>5
  <1>3. \A s \in SUBSET S : \A x \in s : g[s] = g[s \ {x}] + f[x]
    <2> DEFINE B == {s \in SUBSET S : \E x \in s : g[s] # g[s \ {x}] + f[x]}
    <2> SUFFICES ASSUME B # {} PROVE FALSE
      OBVIOUS
    <2>1. PICK s \in B : \A x \in s : s \ {x} \notin B
      <3>1. B \subseteq SUBSET S
        OBVIOUS
      <3> HIDE DEF B
      <3> QED
        BY <3>1, LeastSubset
    <2>2. PICK x \in s : g[s] # g[s \ {x}] + f[x]
      OBVIOUS
    <2>3. Pick(s) \in s /\ g[s] = g[s \ {Pick(s)}] + f[Pick(s)]
      BY <1>1, <2>2, PickIn
    <2>4. Pick(s) # x
      BY <2>2, <2>3
    <2> DEFINE p == Pick(s)
    <2> HIDE DEF p
    <2>5. p \in s /\ p # x /\ g[s] = g[s \ {p}] + f[p]
      BY <2>3, <2>4 DEF p
    <2>6. g[s \ {p}] = g[(s \ {p}) \ {x}] + f[x]
      BY <2>1, <2>2, <2>5
    <2>7. g[s \ {x}] = g[(s \ {x}) \ {p}] + f[p]
      BY <2>1, <2>2, <2>5
    <2>8. (s \ {p}) \ {x} = (s \ {x}) \ {p}
      OBVIOUS
    <2>9. g[(s \ {p}) \ {x}] \in Nat /\ f[x] \in Nat /\ f[p] \in Nat
      BY <1>2, <2>2, <2>5
    <2> DEFINE r == g[(s \ {p}) \ {x}]
    <2>10. g[s \ {p}] = r + f[x] /\ g[s \ {x}] = r + f[p] /\ r \in Nat
      BY <2>6, <2>7, <2>8, <2>9
    <2> HIDE DEF r
    <2> QED
      BY <2>2, <2>5, <2>9, <2>10
  <1> QED
    BY <1>1, <1>2, <1>3

\* Two sums of functions that agree on a set agree on its subsets.
LEMMA AddsSame ==
    ASSUME NEW S, IsFiniteSet(S), NEW f, \A x \in S : f[x] \in Nat, NEW g, Adds(g, f, S),
           NEW R, IsFiniteSet(R), NEW e, \A x \in R : e[x] \in Nat, NEW h, Adds(h, e, R),
           NEW T, T \subseteq S, T \subseteq R, \A x \in T : f[x] = e[x]
    PROVE  g[T] = h[T]
  <1> DEFINE B == {s \in SUBSET T : g[s] # h[s]}
  <1> SUFFICES ASSUME B # {} PROVE FALSE
    OBVIOUS
  <1>1. PICK s \in B : \A x \in s : s \ {x} \notin B
    <2>1. B \subseteq SUBSET T /\ IsFiniteSet(T)
      BY FS_Subset
    <2> HIDE DEF B
    <2> QED
      BY <2>1, LeastSubset
  <1>2. s # {}
    BY AddsAny
  <1>3. PICK x \in s : TRUE
    BY <1>2
  <1>4. g[s] = g[s \ {x}] + f[x]
    BY <1>3, AddsAny
  <1>5. h[s] = h[s \ {x}] + e[x]
    BY <1>3, AddsAny
  <1>6. g[s \ {x}] = h[s \ {x}]
    BY <1>1, <1>3
  <1> QED
    BY <1>3, <1>4, <1>5, <1>6

\* So the sum over a finite set is the last of its running sums.
LEMMA TotalAdds ==
    ASSUME NEW S, IsFiniteSet(S), NEW f, \A x \in S : f[x] \in Nat
    PROVE  \E g : Adds(g, f, S) /\ Total(f, S) = g[S]
  <1>1. \E g : Adds(g, f, S)
    BY AddsExists
  <1> QED
    BY <1>1, TotalIs

\* What is needed of a sum: its type, its recursion in any order, and that
\* only the summands count.
LEMMA TotalFacts ==
    ASSUME NEW S, IsFiniteSet(S), NEW f, \A x \in S : f[x] \in Nat
    PROVE  /\ Total(f, S) \in Nat
           /\ S = {} => Total(f, S) = 0
           /\ \A x \in S : Total(f, S) = Total(f, S \ {x}) + f[x]
  <1>1. PICK g : Adds(g, f, S) /\ Total(f, S) = g[S]
    BY TotalAdds
  <1>2. ASSUME NEW x \in S PROVE Total(f, S \ {x}) = g[S \ {x}]
    <2>1. IsFiniteSet(S \ {x})
      BY FS_RemoveElement
    <2>2. PICK h : Adds(h, f, S \ {x}) /\ Total(f, S \ {x}) = h[S \ {x}]
      BY <2>1, TotalAdds
    <2> QED
      BY <1>1, <2>1, <2>2, AddsSame
  <1>3. g[S] \in Nat /\ g[{}] = 0 /\ \A x \in S : g[S] = g[S \ {x}] + f[x]
    <2>1. S \in SUBSET S
      OBVIOUS
    <2> QED
      BY <1>1, <2>1, AddsAny
  <1> QED
    BY <1>1, <1>2, <1>3

\* Functions that agree on S have the same sum over it.
LEMMA TotalSame ==
    ASSUME NEW S, IsFiniteSet(S), NEW f, NEW e, \A x \in S : f[x] \in Nat /\ f[x] = e[x]
    PROVE  Total(f, S) = Total(e, S)
  <1>1. PICK g : Adds(g, f, S) /\ Total(f, S) = g[S]
    BY TotalAdds
  <1>2. \A x \in S : e[x] \in Nat
    OBVIOUS
  <1>3. PICK h : Adds(h, e, S) /\ Total(e, S) = h[S]
    BY <1>2, TotalAdds
  <1> QED
    BY <1>1, <1>2, <1>3, AddsSame

\* A summand that grows by one.
LEMMA TotalGrows ==
    ASSUME NEW S, IsFiniteSet(S), NEW f, NEW e, NEW y \in S,
           \A x \in S : f[x] \in Nat /\ e[x] = IF x = y THEN f[x] + 1 ELSE f[x]
    PROVE  Total(e, S) = Total(f, S) + 1
  <1>1. IsFiniteSet(S \ {y}) /\ \A x \in S : e[x] \in Nat
    BY FS_RemoveElement
  <1>2. Total(e, S \ {y}) = Total(f, S \ {y})
    BY <1>1, TotalSame
  <1>3. Total(e, S) = Total(e, S \ {y}) + e[y] /\ Total(f, S) = Total(f, S \ {y}) + f[y]
    BY <1>1, TotalFacts
  <1>4. Total(f, S \ {y}) \in Nat /\ f[y] \in Nat
    BY <1>1, TotalFacts
  <1> QED
    BY <1>2, <1>3, <1>4

\* Fewer summands, none of them larger.
LEMMA TotalLess ==
    ASSUME NEW S, IsFiniteSet(S), NEW R, R \subseteq S, NEW f, NEW e,
           \A x \in S : f[x] \in Nat /\ e[x] \in Nat, \A x \in R : e[x] <= f[x]
    PROVE  Total(e, R) <= Total(f, S)
  <1> DEFINE B == {s \in SUBSET S : ~(Total(e, R \cap s) <= Total(f, s))}
  <1> SUFFICES ASSUME B # {} PROVE FALSE
    <2>1. R \cap S = R /\ S \in SUBSET S
      OBVIOUS
    <2> QED
      BY <2>1
  <1>1. PICK s \in B : \A x \in s : s \ {x} \notin B
    <2>1. B \subseteq SUBSET S
      OBVIOUS
    <2> HIDE DEF B
    <2> QED
      BY <2>1, LeastSubset
  <1>2. IsFiniteSet(s) /\ IsFiniteSet(R \cap s) /\ s \subseteq S
    BY <1>1, FS_Subset
  <1>3. s # {}
    <2> SUFFICES ASSUME s = {} PROVE FALSE
      OBVIOUS
    <2>1. R \cap s = {}
      OBVIOUS
    <2>2. Total(e, R \cap s) = 0 /\ Total(f, s) = 0
      BY <1>2, <2>1, TotalFacts
    <2> QED
      BY <1>1, <2>2
  <1>4. PICK x \in s : TRUE
    BY <1>3
  <1>5. Total(e, R \cap (s \ {x})) <= Total(f, s \ {x})
    BY <1>1, <1>4
  <1>6. Total(f, s) = Total(f, s \ {x}) + f[x] /\ Total(f, s \ {x}) \in Nat
    <2>1. IsFiniteSet(s \ {x}) /\ \A y \in s : f[y] \in Nat
      BY <1>2, FS_RemoveElement
    <2> QED
      BY <1>2, <2>1, TotalFacts
  <1>7. /\ Total(e, R \cap (s \ {x})) \in Nat
        /\ x \in R => Total(e, R \cap s) = Total(e, R \cap (s \ {x})) + e[x]
        /\ x \notin R => R \cap s = R \cap (s \ {x})
    <2>1. IsFiniteSet(R \cap (s \ {x})) /\ \A y \in s : e[y] \in Nat
      BY <1>2, FS_Subset
    <2>2. (R \cap s) \ {x} = R \cap (s \ {x})
      OBVIOUS
    <2> QED
      BY <1>2, <1>4, <2>1, <2>2, TotalFacts
  <1>8. f[x] \in Nat /\ e[x] \in Nat /\ (x \in R => e[x] <= f[x])
    BY <1>2, <1>4
  <1> QED
    BY <1>1, <1>4, <1>5, <1>6, <1>7, <1>8

\* Zeros sum to zero.
LEMMA TotalZero ==
    ASSUME NEW S, IsFiniteSet(S), NEW f, \A x \in S : f[x] = 0
    PROVE  Total(f, S) = 0
  <1> DEFINE B == {s \in SUBSET S : Total(f, s) # 0}
  <1> SUFFICES ASSUME B # {} PROVE FALSE
    <2>1. S \in SUBSET S
      OBVIOUS
    <2> QED
      BY <2>1
  <1>1. PICK s \in B : \A x \in s : s \ {x} \notin B
    <2>1. B \subseteq SUBSET S
      OBVIOUS
    <2> HIDE DEF B
    <2> QED
      BY <2>1, LeastSubset
  <1>2. IsFiniteSet(s) /\ \A x \in s : f[x] \in Nat
    BY <1>1, FS_Subset
  <1>3. s # {}
    BY <1>1, <1>2, TotalFacts
  <1>4. PICK x \in s : TRUE
    BY <1>3
  <1>5. Total(f, s) = Total(f, s \ {x}) + f[x]
    BY <1>2, <1>4, TotalFacts
  <1>6. Total(f, s \ {x}) = 0 /\ f[x] = 0
    BY <1>1, <1>4
  <1> QED
    BY <1>1, <1>5, <1>6

-----------------------------------------------------------------------------
(* ApiGuard: what a key was asked and allowed in an interval *)

\* The last instant of any behaviour, the instants of an interval, and what
\* one key has in a history, which counts by key and instant.
LastTime == Max({b.time : b \in Bounds})
Between(from, to) == {t \in Times : from <= t /\ t <= to}
AtKey(h, k) == [t \in Times |-> h[<<k, t>>]]
Histories == [Keys \X Times -> Nat]

\* A finite set of numbers has a largest one.
LEMMA LargestNumber ==
    ASSUME NEW S, S \subseteq Nat, IsFiniteSet(S), S # {}
    PROVE  Max(S) \in S /\ \A x \in S : x <= Max(S)
  <1> DEFINE Top(s) == \E x \in s : \A y \in s : y <= x
             B == {s \in SUBSET S : s # {} /\ ~Top(s)}
  <1>1. B = {}
    <2> SUFFICES ASSUME B # {} PROVE FALSE
      OBVIOUS
    <2>1. PICK s \in B : \A x \in s : s \ {x} \notin B
      <3>1. B \subseteq SUBSET S
        OBVIOUS
      <3> HIDE DEF B
      <3> QED
        BY <3>1, LeastSubset
    <2>2. PICK x \in s : TRUE
      BY <2>1
    <2>3. CASE s \ {x} = {}
      <3>1. \A y \in s : y = x
        BY <2>2, <2>3
      <3>2. x <= x
        BY <2>1, <2>2
      <3> QED
        BY <2>1, <2>2, <3>1, <3>2
    <2>4. CASE s \ {x} # {}
      <3>1. PICK z \in s \ {x} : \A y \in s \ {x} : y <= z
        BY <2>1, <2>2, <2>4
      <3>2. s \subseteq Nat
        BY <2>1
      <3>3. CASE x <= z
        BY <2>1, <3>1, <3>2, <3>3
      <3>4. CASE ~(x <= z)
        <4>1. \A y \in s : y <= x
          BY <2>2, <3>1, <3>2, <3>4
        <4> QED
          BY <2>1, <2>2, <4>1
      <3> QED
        BY <3>3, <3>4
    <2> QED
      BY <2>3, <2>4
  <1>2. Top(S)
    <2>1. S \in SUBSET S
      OBVIOUS
    <2> QED
      BY <1>1, <2>1
  <1>3. \E x \in S : \A y \in S : x >= y
    BY <1>2
  <1> QED
    BY <1>3 DEF Max

\* The instants of the model are finitely many, and every bound is among them.
LEMMA TimesFacts ==
    ASSUME NEW b, b \in Bounds
    PROVE  /\ LastTime \in Nat /\ Times = 0 .. LastTime /\ IsFiniteSet(Times)
           /\ b.time \in Nat /\ b.time <= LastTime
  <1> DEFINE T == {c.time : c \in Bounds}
  <1>1. T \subseteq Nat /\ b.time \in T
    BY GuardAssumption
  <1>2. IsFiniteSet(T)
    <2>1. [c \in Bounds |-> c.time] \in Surjection(Bounds, T)
      BY DEF Surjection
    <2> QED
      BY <2>1, GuardAssumption, FS_Surjection DEF ExistsSurjection
  <1>3. Max(T) \in T /\ \A x \in T : x <= Max(T)
    <2> HIDE DEF T
    <2> QED
      BY <1>1, <1>2, LargestNumber
  <1>4. LastTime \in Nat /\ b.time \in Nat /\ b.time <= LastTime
    BY <1>1, <1>3 DEF LastTime
  <1>5. Times = 0 .. LastTime
    BY DEF Times, LastTime
  <1> QED
    BY <1>4, <1>5, FS_Interval

\* Within is a sum over finitely many instants.
LEMMA WithinIs ==
    ASSUME IsFiniteSet(Times), NEW h \in Histories, NEW k \in Keys, NEW from, NEW to
    PROVE  /\ Within(h, k, from, to) = Total(AtKey(h, k), Between(from, to))
           /\ IsFiniteSet(Between(from, to))
           /\ \A t \in Times : AtKey(h, k)[t] = h[<<k, t>>] /\ h[<<k, t>>] \in Nat
  <1> DEFINE S == Between(from, to)
             f == AtKey(h, k)
             Sums(g) == g = [s \in SUBSET S |-> IF s = {} THEN 0 ELSE g[s \ {Pick(s)}] + h[<<k, Pick(s)>>]]
  <1>1. IsFiniteSet(S) /\ S \subseteq Times
    BY FS_Subset DEF Between
  <1>2. \A t \in Times : f[t] = h[<<k, t>>] /\ h[<<k, t>>] \in Nat
    BY DEF AtKey, Histories
  <1>3. \A s \in SUBSET S : s # {} => f[Pick(s)] = h[<<k, Pick(s)>>]
    BY <1>1, <1>2, PickIn
  <1> HIDE DEF f
  <1>4. \A g : Sums(g) <=> Adds(g, f, S)
    BY <1>3 DEF Adds
  <1>5. \E g : Sums(g)
    BY <1>1, <1>2, <1>4, AddsExists
  <1>6. PICK g : Sums(g) /\ Within(h, k, from, to) = g[S]
    BY <1>5 DEF Within, FoldSet, MapThenFoldSet, Pick, Between
  <1>7. PICK e : Adds(e, f, S) /\ Total(f, S) = e[S]
    BY <1>1, <1>2, TotalAdds
  <1>8. g[S] = e[S]
    <2>1. Adds(g, f, S) /\ S \subseteq S /\ \A x \in S : f[x] \in Nat
      BY <1>1, <1>2, <1>4, <1>6
    <2> HIDE DEF S, Sums
    <2> QED
      BY <1>1, <1>7, <2>1, AddsSame
  <1> QED
    BY <1>1, <1>2, <1>6, <1>7, <1>8 DEF f

\* An interval holds a natural number of requests.
LEMMA WithinNat ==
    ASSUME IsFiniteSet(Times), NEW h \in Histories, NEW k \in Keys, NEW from, NEW to
    PROVE  Within(h, k, from, to) \in Nat
  <1>1. \A t \in Between(from, to) : t \in Times
    BY DEF Between
  <1>2. \A t \in Between(from, to) : AtKey(h, k)[t] \in Nat
    BY <1>1, WithinIs
  <1>3. Total(AtKey(h, k), Between(from, to)) \in Nat
    BY <1>2, WithinIs, TotalFacts
  <1> QED
    BY <1>3, WithinIs

\* A wider interval holds no fewer.
LEMMA WithinMore ==
    ASSUME IsFiniteSet(Times), NEW h \in Histories, NEW k \in Keys,
           NEW from, NEW to, NEW from2, NEW to2,
           Between(from, to) \subseteq Between(from2, to2)
    PROVE  Within(h, k, from, to) <= Within(h, k, from2, to2)
  <1> DEFINE f == AtKey(h, k)
  <1>1. \A t \in Between(from2, to2) : t \in Times
    BY DEF Between
  <1>2. \A t \in Between(from2, to2) : f[t] \in Nat
    BY <1>1, WithinIs
  <1>3. \A t \in Between(from, to) : f[t] <= f[t]
    BY <1>2
  <1>4. IsFiniteSet(Between(from2, to2))
    BY WithinIs
  <1>5. Total(f, Between(from, to)) <= Total(f, Between(from2, to2))
    <2> HIDE DEF f
    <2> QED
      BY <1>2, <1>3, <1>4, TotalLess
  <1> QED
    BY <1>5, WithinIs

\* A history in which nothing happened has nothing in any interval.
LEMMA WithinZero ==
    ASSUME IsFiniteSet(Times), NEW h \in Histories, NEW k \in Keys, NEW from, NEW to,
           \A t \in Times : h[<<k, t>>] = 0
    PROVE  Within(h, k, from, to) = 0
  <1>1. \A t \in Between(from, to) : t \in Times
    BY DEF Between
  <1>2. \A t \in Between(from, to) : AtKey(h, k)[t] = 0
    BY <1>1 DEF AtKey
  <1> QED
    BY <1>2, WithinIs, TotalZero

\* g is h with one more at key and at.
OneMore(h, g, key, at) == g = [h EXCEPT ![<<key, at>>] = @ + 1]

\* What one more request of a key at a time adds to an interval.
LEMMA WithinGrows ==
    ASSUME IsFiniteSet(Times), Times \subseteq Nat, NEW h \in Histories, NEW key \in Keys, NEW at \in Times,
           NEW g, OneMore(h, g, key, at), NEW k \in Keys, NEW from \in Int, NEW to \in Int
    PROVE  /\ g \in Histories
           /\ Within(h, k, from, to) \in Nat
           /\ k = key /\ from <= at /\ at <= to => Within(g, k, from, to) = Within(h, k, from, to) + 1
           /\ ~(k = key /\ from <= at /\ at <= to) => Within(g, k, from, to) = Within(h, k, from, to)
  <1> DEFINE S == Between(from, to)
  <1>1. g \in Histories
    BY DEF Histories, OneMore
  <1>0. at \in S <=> from <= at /\ at <= to
    BY DEF Between
  <1>2. IsFiniteSet(S) /\ S \subseteq Times
    BY WithinIs DEF Between
  <1>3. \A t \in S : AtKey(h, k)[t] \in Nat
    BY <1>2, WithinIs
  <1>4. \A t \in S : AtKey(g, k)[t] = IF k = key /\ t = at THEN AtKey(h, k)[t] + 1 ELSE AtKey(h, k)[t]
    BY <1>2 DEF AtKey, Histories, OneMore
  <1>5. Within(g, k, from, to) = Total(AtKey(g, k), S)
    BY <1>1, WithinIs
  <1>6. Within(h, k, from, to) = Total(AtKey(h, k), S)
    BY WithinIs
  <1>7. k = key /\ at \in S => Within(g, k, from, to) = Within(h, k, from, to) + 1
    <2> SUFFICES ASSUME k = key, at \in S PROVE Within(g, k, from, to) = Within(h, k, from, to) + 1
      OBVIOUS
    <2>1. Total(AtKey(g, k), S) = Total(AtKey(h, k), S) + 1
      <3> HIDE DEF S
      <3> QED
        BY <1>2, <1>3, <1>4, TotalGrows
    <2>2. Within(g, k, from, to) = Within(h, k, from, to) + 1
      BY <1>5, <1>6, <2>1
    <2> QED
      BY <2>2
  <1>8. ~(k = key /\ at \in S) => Within(g, k, from, to) = Within(h, k, from, to)
    <2> SUFFICES ASSUME ~(k = key /\ at \in S) PROVE Within(g, k, from, to) = Within(h, k, from, to)
      OBVIOUS
    <2>1. \A t \in S : AtKey(g, k)[t] = AtKey(h, k)[t]
      BY <1>4
    <2>2. Total(AtKey(h, k), S) = Total(AtKey(g, k), S)
      <3> HIDE DEF S
      <3> QED
        BY <1>2, <1>3, <2>1, TotalSame
    <2>3. Within(g, k, from, to) = Within(h, k, from, to)
      BY <1>5, <1>6, <2>2
    <2> QED
      BY <2>3
  <1>9. Within(h, k, from, to) \in Nat
    BY WithinNat
  <1> QED
    BY <1>0, <1>1, <1>7, <1>8, <1>9

-----------------------------------------------------------------------------
(* ApiGuard: what the variables hold *)

\* A window of either layer.
GuardWindows == [count : Nat, ends : Nat]

\* A key row: its fields, and what the proofs read of them.
IsRow(x) ==
    /\ x = [state |-> x.state, kind |-> x.kind, scopes |-> x.scopes, account |-> x.account,
            machine |-> x.machine, rotated |-> x.rotated]
    /\ x.state \in {"live", "revoked"} /\ x.rotated \in BOOLEAN

\* A request past the first checks: whose key it carries and when it came.
InFlight(x) ==
    /\ x = [pc |-> x.pc, inst |-> x.inst, key |-> x.key, account |-> x.account,
            at |-> x.at, from |-> x.from, endpoint |-> x.endpoint]
    /\ x.pc \in {"count", "account", "done", "refused", "limited"}
    /\ x.key \in Keys /\ x.at \in Times

\* What each variable holds.
GuardShape ==
    /\ bound \in Bounds /\ now \in Nat /\ now <= bound.time
    /\ keys = [k \in Keys |-> keys[k]] /\ \A k \in Keys : keys[k] = NoKey \/ IsRow(keys[k])
    /\ held \subseteq Keys
    /\ req = [w \in Workers |-> req[w]]
    /\ \A w \in Workers : req[w] \in {Vacant, Refused} \/ InFlight(req[w])
    /\ counter \in [Keys -> GuardWindows] /\ local \in [Instances -> [Keys -> GuardWindows]]
    /\ asked \in Histories /\ passed \in Histories

\* A request at the counter came within Delay, none came later than now.
Timely ==
    \A w \in Workers : InFlight(req[w]) =>
        /\ req[w].at <= now
        /\ req[w].pc = "count" => now <= req[w].at + Delay

\* The constants and the clock are numbers, and the clock is an instant.
LEMMA GuardNumbers ==
    ASSUME GuardShape
    PROVE  /\ IsFiniteSet(Times) /\ LastTime \in Nat /\ Times = 0 .. LastTime /\ now \in Times
           /\ {Limit, Window, MaxLocal, Delay} \subseteq Nat \ {0}
           /\ NoWindow \in GuardWindows
  <1>1. /\ LastTime \in Nat /\ Times = 0 .. LastTime /\ IsFiniteSet(Times)
        /\ bound.time \in Nat /\ bound.time <= LastTime
    BY TimesFacts DEF GuardShape
  <1>2. now \in Times
    BY <1>1 DEF GuardShape
  <1> QED
    BY <1>1, <1>2, GuardAssumption DEF NoWindow, GuardWindows

\* A worker at rest, a refusal and an absent row are told apart.
LEMMA GuardPcs ==
    /\ Vacant.pc = "idle" /\ Refused.pc = "refused"
    /\ NoKey.state = "absent"
    /\ \A x : IsRow(x) => x # NoKey
  BY DEF Vacant, Refused, IsRow, NoKey

\* A request that has passed the key's checks, or has not.
LEMMA InFlightAt ==
    ASSUME GuardShape, NEW w \in Workers, req[w].pc \in {"count", "account", "done", "limited"}
    PROVE  InFlight(req[w])
  BY GuardPcs DEF GuardShape

\* Changing where a request stands changes nothing else of it.
LEMMA MovesTo ==
    ASSUME NEW x, InFlight(x), NEW to \in {"count", "account", "done", "refused", "limited"}
    PROVE  /\ InFlight([x EXCEPT !.pc = to])
           /\ [x EXCEPT !.pc = to].pc = to /\ [x EXCEPT !.pc = to].key = x.key
           /\ [x EXCEPT !.pc = to].at = x.at /\ [x EXCEPT !.pc = to].account = x.account
           /\ [x EXCEPT !.pc = to].from = x.from /\ [x EXCEPT !.pc = to].inst = x.inst
  <1> DEFINE y == [pc |-> to, inst |-> x.inst, key |-> x.key, account |-> x.account,
                   at |-> x.at, from |-> x.from, endpoint |-> x.endpoint]
  <1>1. x = [pc |-> x.pc, inst |-> x.inst, key |-> x.key, account |-> x.account,
             at |-> x.at, from |-> x.from, endpoint |-> x.endpoint]
    BY DEF InFlight
  <1>2. [x EXCEPT !.pc = to] = y
    BY ONLY <1>1
  <1>3. InFlight(y)
    BY DEF InFlight
  <1> QED
    BY <1>2, <1>3

\* The five moves of a request.
Moved(w, to) ==
    /\ InFlight(req[w]) /\ req' = [req EXCEPT ![w].pc = to]
    /\ to \in {"count", "account", "done", "refused", "limited"}

\* A request that moved kept its key, its time, its caller and its instance.
LEMMA MovedFacts ==
    ASSUME GuardShape, NEW w \in Workers, NEW to, Moved(w, to)
    PROVE  /\ InFlight(req'[w]) /\ req'[w].pc = to /\ req'[w].key = req[w].key
           /\ req'[w].at = req[w].at /\ req'[w].account = req[w].account
           /\ req' = [v \in Workers |-> req'[v]]
           /\ \A v \in Workers \ {w} : req'[v] = req[v]
  <1>1. req'[w] = [req[w] EXCEPT !.pc = to]
    BY DEF Moved, GuardShape
  <1>2. req' = [v \in Workers |-> req'[v]] /\ \A v \in Workers \ {w} : req'[v] = req[v]
    BY DEF Moved, GuardShape
  <1> DEFINE y == [req[w] EXCEPT !.pc = to]
  <1>3. InFlight(y) /\ y.pc = to /\ y.key = req[w].key /\ y.at = req[w].at /\ y.account = req[w].account
    BY MovesTo DEF Moved
  <1>4. req'[w] = y
    BY <1>1
  <1> HIDE DEF y
  <1> QED
    BY <1>2, <1>3, <1>4

\* Where a request goes once it is counted.
LEMMA AfterPcs ==
    \A w : Served(w) \in {"done", "refused"} /\ AfterCount(w) \in {"done", "refused", "account"}
  BY DEF Served, AfterCount

\* The upsert leaves a window.
LEMMA ShareTyped ==
    ASSUME GuardShape, NEW row \in GuardWindows, NEW at \in Times
    PROVE  /\ share(row, at).count \in Nat /\ share(row, at).ends \in Nat
           /\ share(row, at).allowed \in BOOLEAN
  BY GuardNumbers DEF share, GuardWindows

\* The counting statement moves one request and touches one row.
LEMMA CountMoves ==
    ASSUME GuardShape, NEW w \in Workers, consumeShared(w)
    PROVE  /\ UNCHANGED <<admin, local, asked, faults, now>>
           /\ req[w].pc = "count" /\ InFlight(req[w])
           /\ LET row == share(counter[req[w].key], req[w].at) IN
              /\ counter' = [counter EXCEPT ![req[w].key] = [count |-> row.count, ends |-> row.ends]]
              /\ passed' = IF row.allowed THEN [passed EXCEPT ![<<req[w].key, req[w].at>>] = @ + 1] ELSE passed
              /\ Moved(w, IF row.allowed THEN AfterCount(w) ELSE "limited")
  BY InFlightAt, AfterPcs DEF consumeShared, Moved

\* A counter that cannot be written moves one request and counts nothing.
LEMMA FailMoves ==
    ASSUME GuardShape, NEW w \in Workers, FailOpen(w)
    PROVE  /\ UNCHANGED <<admin, counter, local, asked, passed, now>>
           /\ req[w].pc = "count" /\ Moved(w, AfterCount(w))
  BY InFlightAt, AfterPcs DEF FailOpen, Moved

\* The look at the account moves one request as the account says.
LEMMA CheckMoves ==
    ASSUME GuardShape, NEW w \in Workers, CheckAccount(w)
    PROVE  /\ UNCHANGED <<admin, limits, now>>
           /\ req[w].pc = "account" /\ InFlight(req[w])
           /\ Moved(w, IF Obeys(w, req[w].account) THEN Served(w) ELSE "refused")
  BY InFlightAt, AfterPcs DEF CheckAccount, Moved, Obeys

\* Verification refuses a request or puts it in flight with a key somebody holds.
LEMMA VerifyMoves ==
    ASSUME GuardShape, NEW w \in Workers, Verify(w)
    PROVE  /\ UNCHANGED <<admin, counter, passed, faults, now>>
           /\ req[w].pc = "idle"
           /\ \/ req' = [req EXCEPT ![w] = Refused] /\ UNCHANGED <<local, asked>>
              \/ \E i \in Instances, k \in held :
                   /\ CountLocally(i, k) /\ asked' = [asked EXCEPT ![<<k, now>>] = @ + 1]
                   /\ InFlight(req'[w]) /\ req'[w].key = k /\ req'[w].at = now
                   /\ req'[w].account = keys[k].account
                   /\ req'[w].pc = IF localRefusal(i, k) THEN "limited" ELSE "count"
                   /\ req' = [v \in Workers |-> req'[v]]
                   /\ \A v \in Workers \ {w} : req'[v] = req[v]
  <1>1. PICK i \in Instances, k \in held, e \in Endpoints, from \in Addresses, browser \in BOOLEAN :
       IF Usable(k) /\ Accepts(e, k, browser)
       THEN /\ CountLocally(i, k)
            /\ asked' = [asked EXCEPT ![<<k, now>>] = @ + 1]
            /\ req' = [req EXCEPT ![w] =
                   [pc |-> IF localRefusal(i, k) THEN "limited" ELSE "count", inst |-> i,
                    key |-> k, account |-> keys[k].account, at |-> now, from |-> from, endpoint |-> e]]
       ELSE req' = [req EXCEPT ![w] = Refused] /\ UNCHANGED <<local, asked>>
    BY DEF Verify
  <1>2. CASE Usable(k) /\ Accepts(e, k, browser)
    <2> DEFINE x == [pc |-> IF localRefusal(i, k) THEN "limited" ELSE "count", inst |-> i,
                     key |-> k, account |-> keys[k].account, at |-> now, from |-> from, endpoint |-> e]
    <2>1. req' = [req EXCEPT ![w] = x] /\ CountLocally(i, k) /\ asked' = [asked EXCEPT ![<<k, now>>] = @ + 1]
      BY <1>1, <1>2
    <2>2. InFlight(x)
      BY GuardNumbers DEF InFlight, GuardShape
    <2>3. req'[w] = x /\ req' = [v \in Workers |-> req'[v]] /\ \A v \in Workers \ {w} : req'[v] = req[v]
      BY <2>1 DEF GuardShape
    <2>4. x.key = k /\ x.at = now /\ x.account = keys[k].account
          /\ x.pc = IF localRefusal(i, k) THEN "limited" ELSE "count"
      OBVIOUS
    <2> HIDE DEF x
    <2> QED
      BY <2>1, <2>2, <2>3, <2>4 DEF Verify
  <1>3. CASE ~(Usable(k) /\ Accepts(e, k, browser))
    BY <1>1, <1>3 DEF Verify
  <1> QED
    BY <1>2, <1>3

\* A request that is over frees its worker.
LEMMA LeaveMoves ==
    ASSUME GuardShape, NEW w \in Workers, Leave(w)
    PROVE  UNCHANGED <<admin, limits, now>> /\ req' = [req EXCEPT ![w] = Vacant]
  BY DEF Leave

\* Rows of keys: they appear, never go, and keep whose they are.
KeysGo ==
    /\ keys' = [k \in Keys |-> keys'[k]]
    /\ \A k \in Keys : keys'[k] = NoKey \/ IsRow(keys'[k])
    /\ \A k \in Keys : IsRow(keys[k]) =>
         /\ IsRow(keys'[k]) /\ keys'[k].machine = keys[k].machine /\ keys'[k].rotated = keys[k].rotated
         /\ keys'[k].account \in {keys[k].account, keys[k].machine}

\* A new row is a row, linked to no account yet.
LEMMA RowIsRow ==
    \A kind, scopes, machine : \A rotated \in BOOLEAN :
        /\ IsRow(Row(kind, scopes, machine, rotated))
        /\ Row(kind, scopes, machine, rotated).machine = machine
        /\ Row(kind, scopes, machine, rotated).account = NoAccount
        /\ Row(kind, scopes, machine, rotated).rotated = rotated
  BY DEF Row, IsRow

\* A new row takes the place of no key.
LEMMA NewKeyGoes ==
    ASSUME GuardShape, NEW k \in Keys, Fresh(k), NEW row, IsRow(row), keys' = [keys EXCEPT ![k] = row]
    PROVE  KeysGo /\ keys'[k] = row
  BY GuardPcs DEF KeysGo, GuardShape, Fresh

\* Revoking changes the state of a key and nothing else.
LEMMA RevokedGoes ==
    ASSUME GuardShape, NEW ks, \A k \in ks : k \in Keys => ~Fresh(k), keys' = Revoked(ks)
    PROVE  KeysGo
  <1>1. ASSUME NEW x, IsRow(x)
        PROVE  /\ IsRow([x EXCEPT !.state = "revoked"]) /\ [x EXCEPT !.state = "revoked"].machine = x.machine
               /\ [x EXCEPT !.state = "revoked"].rotated = x.rotated
               /\ [x EXCEPT !.state = "revoked"].account = x.account
    <2>1. x = [state |-> x.state, kind |-> x.kind, scopes |-> x.scopes, account |-> x.account,
               machine |-> x.machine, rotated |-> x.rotated]
      BY <1>1 DEF IsRow
    <2>2. [x EXCEPT !.state = "revoked"] =
              [state |-> "revoked", kind |-> x.kind, scopes |-> x.scopes, account |-> x.account,
               machine |-> x.machine, rotated |-> x.rotated]
      BY ONLY <2>1
    <2> QED
      BY <1>1, <2>2 DEF IsRow
  <1>2. ASSUME NEW k \in Keys
        PROVE  /\ k \in ks => keys'[k] = [keys[k] EXCEPT !.state = "revoked"] /\ IsRow(keys[k])
               /\ k \notin ks => keys'[k] = keys[k]
    BY DEF Revoked, GuardShape, Fresh
  <1>3. keys' = [k \in Keys |-> keys'[k]]
    BY DEF Revoked
  <1>4. ASSUME NEW k \in Keys
        PROVE  /\ keys'[k] = NoKey \/ IsRow(keys'[k])
               /\ IsRow(keys[k]) => /\ IsRow(keys'[k]) /\ keys'[k].machine = keys[k].machine
                                    /\ keys'[k].rotated = keys[k].rotated
                                    /\ keys'[k].account = keys[k].account
    <2>1. CASE k \in ks
      <3> DEFINE y == [keys[k] EXCEPT !.state = "revoked"]
      <3>1. IsRow(y) /\ y.machine = keys[k].machine /\ y.rotated = keys[k].rotated /\ y.account = keys[k].account
        BY <1>1, <1>2, <2>1
      <3>2. keys'[k] = y
        BY <1>2, <2>1
      <3> HIDE DEF y
      <3> QED
        BY <3>1, <3>2
    <2>2. CASE k \notin ks
      BY <1>2, <2>2 DEF GuardShape
    <2> QED
      BY <2>1, <2>2
  <1> QED
    BY <1>3, <1>4 DEF KeysGo

\* Linking a key makes it the account's it was issued for.
LEMMA LinkedGoes ==
    ASSUME GuardShape, NEW k \in Keys, IsRow(keys[k]), keys' = [keys EXCEPT ![k].account = keys[k].machine]
    PROVE  KeysGo /\ keys'[k].account = keys[k].machine
  <1> DEFINE x == keys[k]
             y == [state |-> x.state, kind |-> x.kind, scopes |-> x.scopes, account |-> x.machine,
                   machine |-> x.machine, rotated |-> x.rotated]
  <1>1. x = [state |-> x.state, kind |-> x.kind, scopes |-> x.scopes, account |-> x.account,
             machine |-> x.machine, rotated |-> x.rotated]
    BY DEF IsRow
  <1>2. keys'[k] = [x EXCEPT !.account = x.machine]
    BY DEF GuardShape
  <1>3. [x EXCEPT !.account = x.machine] = y
    <2> HIDE DEF x
    <2> QED
      BY ONLY <1>1
  <1>4. IsRow(y) /\ y.account = x.machine /\ y.machine = x.machine /\ y.rotated = x.rotated
    BY DEF IsRow
  <1>5. keys' = [j \in Keys |-> keys'[j]] /\ \A j \in Keys \ {k} : keys'[j] = keys[j]
    BY DEF GuardShape
  <1>6. keys'[k] = y
    BY <1>2, <1>3
  <1> HIDE DEF y
  <1> QED
    BY <1>4, <1>5, <1>6 DEF KeysGo, GuardShape

-----------------------------------------------------------------------------
(* ApiGuard: a service account's key is tied to it *)

\* A key issued for an account is the account's.
Tied(k) == keys[k].machine # NoAccount /\ ~keys[k].rotated => keys[k].account = keys[k].machine

\* What an action of the dashboard has in hand between two statements.
JobOK(j) ==
    /\ j.op = "link" => j.key \in Keys /\ IsRow(keys[j.key]) /\ keys[j.key].machine = j.account
    /\ j.op = "rotate" =>
         /\ j.key \in Keys /\ IsRow(keys[j.key]) /\ keys[j.key].rotated
         /\ j.old \in Keys /\ IsRow(keys[j.old])

\* Only keys tied to their account are shown, and requests carry what they read of one.
KeysTied ==
    /\ \A k \in held : IsRow(keys[k]) /\ Tied(k)
    /\ \A j \in jobs : JobOK(j)
    /\ \A w \in Workers : req[w].pc \in {"count", "account"} =>
         LET k == keys[req[w].key] IN
         IsRow(k) /\ (k.machine # NoAccount /\ ~k.rotated => req[w].account = k.machine)

\* Whatever happens to the keys this way, those held and those under way stay tied.
LEMMA KeysGoKeep ==
    ASSUME GuardShape, KeysTied, KeysGo
    PROVE  /\ \A k \in held : IsRow(keys'[k]) /\ Tied(k)'
           /\ \A j \in jobs : JobOK(j)'
  <1>1. ASSUME NEW k \in held PROVE IsRow(keys'[k]) /\ Tied(k)'
    <2>1. k \in Keys /\ IsRow(keys[k]) /\ Tied(k)
      BY DEF GuardShape, KeysTied
    <2>2. /\ IsRow(keys'[k]) /\ keys'[k].machine = keys[k].machine /\ keys'[k].rotated = keys[k].rotated
          /\ keys'[k].account \in {keys[k].account, keys[k].machine}
      BY <2>1 DEF KeysGo
    <2> QED
      BY <2>1, <2>2 DEF Tied
  <1>2. ASSUME NEW j \in jobs PROVE JobOK(j)'
    <2>1. JobOK(j)
      BY DEF KeysTied
    <2>2. \A k \in Keys : IsRow(keys[k]) =>
            IsRow(keys'[k]) /\ keys'[k].machine = keys[k].machine /\ keys'[k].rotated = keys[k].rotated
      BY DEF KeysGo
    <2> QED
      BY <2>1, <2>2 DEF JobOK
  <1> QED
    BY <1>1, <1>2

\* Whatever the dashboard does.
Administered ==
    /\ UNCHANGED <<counter, local, asked, passed, now, req>>
    /\ KeysGo /\ held' \subseteq Keys
    /\ \A k \in held' : IsRow(keys'[k]) /\ Tied(k)'
    /\ \A j \in jobs' : JobOK(j)'

\* Keys nobody touches go nowhere.
LEMMA KeysStay == ASSUME GuardShape, UNCHANGED keys PROVE KeysGo
  BY DEF GuardShape, KeysGo, IsRow

\* Every action of the dashboard is a step of that form.
LEMMA AdministerMoves ==
    ASSUME GuardShape, KeysTied, Administer
    PROVE  Administered
  <1> USE DEF GuardShape
  <1>1. ASSUME NEW k \in Keys, NEW d \in Drafts, issueKeyAction(d, k) PROVE Administered
    <2>1. KeysGo /\ keys'[k] = Row(d.kind, d.scopes, NoAccount, FALSE)
      BY <1>1, NewKeyGoes, RowIsRow DEF issueKeyAction
    <2> DEFINE row == Row(d.kind, d.scopes, NoAccount, FALSE)
    <2>a. IsRow(row) /\ row.machine = NoAccount
      BY DEF Row, IsRow
    <2>b. keys'[k] = row
      BY <2>1
    <2> HIDE DEF row
    <2>2. IsRow(keys'[k]) /\ Tied(k)'
      BY <2>a, <2>b DEF Tied
    <2> QED
      BY <1>1, <2>1, <2>2, KeysGoKeep DEF issueKeyAction, Edit, limits, Administered
  <1>2. ASSUME NEW k \in Keys, revokeKeyAction(k) PROVE Administered
    <2>1. \A x \in {k} : x \in Keys => ~Fresh(x)
      BY <1>2, GuardPcs DEF revokeKeyAction, Fresh
    <2>2. KeysGo
      BY <1>2, <2>1, RevokedGoes DEF revokeKeyAction
    <2> QED
      BY <1>2, <2>2, KeysGoKeep DEF revokeKeyAction, Edit, limits, Administered
  <1>3. ASSUME NEW k \in Keys, NEW new \in Keys, rotateKeyAction(k, new) PROVE Administered
    <2> DEFINE row == Row(keys[k].kind, keys[k].scopes, keys[k].machine, TRUE)
               j == [op |-> "rotate", key |-> new, old |-> k]
    <2>1. KeysGo /\ keys'[new] = row
      BY <1>3, NewKeyGoes, RowIsRow DEF rotateKeyAction
    <2>2. IsRow(keys[k]) /\ IsRow(keys'[new]) /\ keys'[new].rotated
      BY <1>3, <2>1, RowIsRow DEF rotateKeyAction, Fresh
    <2>3. JobOK(j)'
      BY <2>1, <2>2 DEF JobOK, KeysGo
    <2>4. jobs' = jobs \cup {j} /\ held' = held
      BY <1>3 DEF rotateKeyAction
    <2> HIDE DEF j
    <2> QED
      BY <1>3, <2>1, <2>3, <2>4, KeysGoKeep DEF rotateKeyAction, Edit, limits, Administered
  <1>4. ASSUME NEW a \in Accounts, createServiceAccountAction(a) PROVE Administered
    BY <1>4, KeysStay, KeysGoKeep DEF createServiceAccountAction, Edit, limits, Administered
  <1>5. ASSUME NEW a \in Accounts, issueServiceKeyAction(a) PROVE Administered
    <2>1. JobOK([op |-> "issue", account |-> a])'
      BY DEF JobOK
    <2> QED
      BY <1>5, <2>1, KeysStay, KeysGoKeep DEF issueServiceKeyAction, Edit, limits, Administered
  <1>6. ASSUME NEW a \in Accounts, revokeServiceAccountAction(a) PROVE Administered
    <2>1. JobOK([op |-> "revoke", account |-> a])'
      BY DEF JobOK
    <2> QED
      BY <1>6, <2>1, KeysStay, KeysGoKeep DEF revokeServiceAccountAction, Edit, limits, Administered
  <1>7. ASSUME NEW j \in jobs, FinishRotation(j) PROVE Administered
    <2>1. j.key \in Keys /\ IsRow(keys[j.key]) /\ keys[j.key].rotated /\ j.old \in Keys /\ IsRow(keys[j.old])
      BY <1>7 DEF FinishRotation, KeysTied, JobOK
    <2>2. \A x \in {j.old} : x \in Keys => ~Fresh(x)
      BY <2>1, GuardPcs DEF Fresh
    <2>3. KeysGo
      BY <1>7, <2>2, RevokedGoes DEF FinishRotation
    <2>4. IsRow(keys'[j.key]) /\ Tied(j.key)'
      BY <2>1, <2>3 DEF KeysGo, Tied
    <2> QED
      BY <1>7, <2>1, <2>3, <2>4, KeysGoKeep DEF FinishRotation, Continue, limits, Administered
  <1>8. ASSUME NEW j \in jobs, LinkServiceKey(j) PROVE Administered
    <2>1. j.key \in Keys /\ IsRow(keys[j.key]) /\ keys[j.key].machine = j.account
      BY <1>8 DEF LinkServiceKey, KeysTied, JobOK
    <2>2. KeysGo /\ keys'[j.key].account = keys[j.key].machine
      BY <1>8, <2>1, LinkedGoes DEF LinkServiceKey
    <2>3. IsRow(keys'[j.key]) /\ Tied(j.key)'
      BY <2>1, <2>2 DEF KeysGo, Tied
    <2> QED
      BY <1>8, <2>1, <2>2, <2>3, KeysGoKeep DEF LinkServiceKey, Continue, limits, Administered
  <1>9. ASSUME NEW j \in jobs, RevokeItsKeys(j) PROVE Administered
    <2> DEFINE ks == {k \in Keys : ~Fresh(k) /\ keys[k].account = j.account}
    <2>0. keys' = Revoked(ks) /\ \A k \in ks : k \in Keys => ~Fresh(k)
      BY <1>9 DEF RevokeItsKeys
    <2> HIDE DEF ks
    <2>1. KeysGo
      BY <2>0, RevokedGoes
    <2> QED
      BY <1>9, <2>1, KeysGoKeep DEF RevokeItsKeys, Continue, limits, Administered
  <1>10. ASSUME NEW j \in jobs, CrashJob(j) PROVE Administered
    BY <1>10, KeysStay, KeysGoKeep DEF CrashJob, Administered
  <1>11. ASSUME NEW j \in jobs, NEW k \in Keys, InsertServiceKey(j, k) PROVE Administered
    <2> DEFINE row == Row("secret", accounts[j.account].scopes, j.account, FALSE)
               l == [op |-> "link", key |-> k, account |-> j.account]
    <2>1. KeysGo /\ keys'[k] = row
      BY <1>11, NewKeyGoes, RowIsRow DEF InsertServiceKey
    <2>a. IsRow(row) /\ row.machine = j.account
      BY DEF Row, IsRow
    <2>b. keys'[k] = row
      BY <2>1
    <2>2. IsRow(keys'[k]) /\ keys'[k].machine = j.account
      <3> HIDE DEF row
      <3> QED
        BY <2>a, <2>b
    <2>3. JobOK(l)'
      BY <2>2 DEF JobOK
    <2>4. jobs' = (jobs \ {j}) \cup {l} /\ held' = held
      BY <1>11 DEF InsertServiceKey
    <2> HIDE DEF l
    <2> QED
      BY <1>11, <2>1, <2>3, <2>4, KeysGoKeep DEF InsertServiceKey, Continue, limits, Administered
  <1>12. ASSUME NEW status, setAppStatusAction(status) PROVE Administered
    BY <1>12, KeysStay, KeysGoKeep DEF setAppStatusAction, Edit, limits, Administered
  <1> QED
    BY <1>1, <1>2, <1>3, <1>4, <1>5, <1>6, <1>7, <1>8, <1>9, <1>10, <1>11, <1>12 DEF Administer

\* The inductive invariant: shapes, times, and keys that are tied.
GuardInv == GuardShape /\ Timely /\ KeysTied

\* The local count leaves windows.
LEMMA LocalTyped ==
    ASSUME GuardShape, NEW i \in Instances, NEW k \in Keys, CountLocally(i, k)
    PROVE  local' \in [Instances -> [Keys -> GuardWindows]]
  <1> DEFINE kept == IF Opens(i, k) /\ Size(i) >= MaxLocal THEN [x \in Keys |-> NoWindow] ELSE local[i]
             first == [count |-> 1, ends |-> now + Window]
             next == [local[i][k] EXCEPT !.count = @ + 1]
             new == [kept EXCEPT ![k] = IF Opens(i, k) THEN first ELSE next]
  <1>1. kept \in [Keys -> GuardWindows]
    BY GuardNumbers DEF GuardShape
  <1>2. local' = [local EXCEPT ![i] = new]
    BY DEF CountLocally
  <1>3. new \in [Keys -> GuardWindows]
    <2>1. local[i][k] \in GuardWindows
      BY DEF GuardShape
    <2> HIDE DEF kept
    <2>2. next \in GuardWindows
      BY <2>1 DEF GuardWindows
    <2>3. first \in GuardWindows
      BY GuardNumbers DEF GuardWindows, GuardShape
    <2> HIDE DEF first, next
    <2> QED
      BY <1>1, <2>2, <2>3
  <1> HIDE DEF new
  <1> QED
    BY <1>2, <1>3 DEF GuardShape

\* Initially.
LEMMA GuardStarts == GuardInit => GuardInv
  <1> SUFFICES ASSUME GuardInit PROVE GuardInv
    OBVIOUS
  <1>1. 0 <= bound.time /\ NoWindow \in GuardWindows
    BY GuardAssumption DEF GuardInit, NoWindow, GuardWindows
  <1>2. GuardShape
    BY <1>1 DEF GuardInit, GuardShape, Histories
  <1>3. \A w \in Workers : req[w] = Vacant
    BY DEF GuardInit
  <1>4. ~InFlight(Vacant)
    BY GuardPcs DEF InFlight
  <1> QED
    BY <1>2, <1>3, <1>4, GuardPcs DEF GuardInit, GuardInv, Timely, KeysTied

\* A request that moves on keeps its key, its account and its time.
LEMMA MovedKeeps ==
    ASSUME GuardInv, NEW w \in Workers, NEW to \in {"account", "done", "refused", "limited"}, Moved(w, to),
           to = "account" => req[w].pc \in {"count", "account"},
           UNCHANGED <<admin, now, bound>>,
           counter' \in [Keys -> GuardWindows], local' = local, asked' = asked, passed' \in Histories
    PROVE  GuardInv'
  <1>1. /\ InFlight(req'[w]) /\ req'[w].pc = to /\ req'[w].key = req[w].key
        /\ req'[w].at = req[w].at /\ req'[w].account = req[w].account
        /\ req' = [v \in Workers |-> req'[v]]
        /\ \A v \in Workers \ {w} : req'[v] = req[v]
        /\ InFlight(req[w])
    BY MovedFacts DEF GuardInv, Moved
  <1>2. GuardShape'
    BY <1>1 DEF GuardInv, GuardShape, admin, InFlight, IsRow
  <1>3. Timely'
    BY <1>1 DEF GuardInv, Timely, InFlight
  <1>4. KeysTied'
    <2>1. UNCHANGED <<keys, held, jobs>>
      BY DEF admin
    <2>2. \A v \in Workers : req'[v].pc \in {"count", "account"} =>
            req[v].pc \in {"count", "account"} /\ req'[v].key = req[v].key /\ req'[v].account = req[v].account
      BY <1>1
    <2> QED
      BY <2>1, <2>2 DEF GuardInv, KeysTied, Tied, JobOK
  <1> QED
    BY <1>2, <1>3, <1>4 DEF GuardInv

\* A step of a request keeps it.
LEMMA RequestKeeps ==
    ASSUME GuardInv, Serve, UNCHANGED bound
    PROVE  GuardInv'
  <1>a. GuardShape /\ Timely /\ KeysTied
    BY DEF GuardInv
  <1>b. counter \in [Keys -> GuardWindows] /\ passed \in Histories
    BY <1>a DEF GuardShape
  <1>1. ASSUME NEW w \in Workers, Verify(w) PROVE GuardInv'
    <2>1. UNCHANGED <<admin, counter, passed, now>> /\ req[w].pc = "idle"
      BY <1>1, <1>a, VerifyMoves
    <2>2. CASE req' = [req EXCEPT ![w] = Refused] /\ UNCHANGED <<local, asked>>
      <3>0. req = [v \in Workers |-> req[v]] /\ req' = [req EXCEPT ![w] = Refused]
        BY <1>a, <2>2 DEF GuardShape
      <3>1. req' = [v \in Workers |-> req'[v]] /\ req'[w] = Refused /\ \A v \in Workers \ {w} : req'[v] = req[v]
        <4> DEFINE x == Refused
        <4>1. req = [v \in Workers |-> req[v]] /\ req' = [req EXCEPT ![w] = x]
          BY <3>0
        <4> HIDE DEF x
        <4>2. req' = [v \in Workers |-> req'[v]] /\ req'[w] = x /\ \A v \in Workers \ {w} : req'[v] = req[v]
          BY ONLY <4>1, w \in Workers
        <4> QED
          BY <4>2 DEF x
      <3>2. ~InFlight(Refused)
        BY DEF InFlight, Refused
      <3>3. GuardShape'
        BY <1>a, <2>1, <2>2, <3>1 DEF GuardShape, admin, InFlight, IsRow
      <3>4. Timely'
        BY <1>a, <2>1, <3>1, <3>2 DEF Timely, InFlight
      <3>5. KeysTied'
        BY <1>a, <2>1, <3>1, GuardPcs DEF KeysTied, Tied, JobOK, admin
      <3> QED
        BY <3>3, <3>4, <3>5 DEF GuardInv
    <2>3. ASSUME NEW i \in Instances, NEW k \in held,
                 CountLocally(i, k), asked' = [asked EXCEPT ![<<k, now>>] = @ + 1],
                 InFlight(req'[w]), req'[w].key = k, req'[w].at = now,
                 req'[w].account = keys[k].account,
                 req' = [v \in Workers |-> req'[v]],
                 \A v \in Workers \ {w} : req'[v] = req[v]
          PROVE  GuardInv'
      <3>1. k \in Keys /\ IsRow(keys[k]) /\ Tied(k)
        BY <1>a DEF GuardShape, KeysTied
      <3>2. local' \in [Instances -> [Keys -> GuardWindows]]
        BY <1>a, <2>3, <3>1, LocalTyped
      <3>3. asked' \in Histories
        BY <1>a, <2>3, <3>1, GuardNumbers DEF GuardShape, Histories
      <3>4. GuardShape'
        BY <1>a, <2>1, <2>3, <3>2, <3>3 DEF GuardShape, admin, InFlight, IsRow
      <3>5. Timely'
        <4>1. now \in Nat /\ Delay \in Nat
          BY <1>a, GuardNumbers DEF GuardShape
        <4> QED
          BY <1>a, <2>1, <2>3, <4>1 DEF Timely, InFlight
      <3>6. KeysTied'
        <4>1. UNCHANGED <<keys, held, jobs>>
          BY <2>1 DEF admin
        <4> QED
          BY <1>a, <2>3, <3>1, <4>1 DEF KeysTied, Tied, JobOK
      <3> QED
        BY <3>4, <3>5, <3>6 DEF GuardInv
    <2> QED
      BY <1>1, <1>a, <2>2, <2>3, VerifyMoves
  <1>2. ASSUME NEW w \in Workers, consumeShared(w) PROVE GuardInv'
    <2> DEFINE k == req[w].key
               row == share(counter[k], req[w].at)
    <2>1. InFlight(req[w]) /\ req[w].pc = "count" /\ UNCHANGED <<admin, local, asked, now>>
      BY <1>2, <1>a, CountMoves
    <2>2. k \in Keys /\ req[w].at \in Times /\ counter[k] \in GuardWindows
      BY <1>b, <2>1 DEF InFlight
    <2>3. [count |-> row.count, ends |-> row.ends] \in GuardWindows
      BY <1>a, <2>2, ShareTyped DEF GuardWindows
    <2>4. counter' = [counter EXCEPT ![k] = [count |-> row.count, ends |-> row.ends]]
      BY <1>2, <1>a, CountMoves
    <2>5. counter' \in [Keys -> GuardWindows]
      <3> HIDE DEF k, row
      <3> QED
        BY <1>b, <2>3, <2>4
    <2>6. passed' \in Histories
      <3>1. passed' \in {passed, [passed EXCEPT ![<<k, req[w].at>>] = @ + 1]}
        BY <1>2, <1>a, CountMoves
      <3> HIDE DEF k
      <3> QED
        BY <1>b, <2>2, <3>1 DEF Histories
    <2>7. \E to \in {"account", "done", "refused", "limited"} : Moved(w, to)
      BY <1>2, <1>a, CountMoves, AfterPcs
    <2> QED
      BY <2>1, <2>5, <2>6, <2>7, MovedKeeps
  <1>3. ASSUME NEW w \in Workers, FailOpen(w) PROVE GuardInv'
    <2>1. \E to \in {"account", "done", "refused", "limited"} : Moved(w, to)
      BY <1>3, <1>a, FailMoves, AfterPcs
    <2> QED
      BY <1>3, <1>a, <1>b, <2>1, FailMoves, MovedKeeps
  <1>4. ASSUME NEW w \in Workers, CheckAccount(w) PROVE GuardInv'
    <2>1. \E to \in {"done", "refused"} : Moved(w, to)
      BY <1>4, <1>a, CheckMoves, AfterPcs
    <2> QED
      BY <1>4, <1>a, <1>b, <2>1, CheckMoves, MovedKeeps DEF limits
  <1>5. ASSUME NEW w \in Workers, Leave(w) PROVE GuardInv'
    <2>1. UNCHANGED <<admin, limits, now>> /\ req' = [req EXCEPT ![w] = Vacant]
      BY <1>5, <1>a, LeaveMoves
    <2>2. req' = [v \in Workers |-> req'[v]] /\ req'[w] = Vacant /\ \A v \in Workers \ {w} : req'[v] = req[v]
      BY <1>a, <2>1 DEF GuardShape
    <2>3. ~InFlight(Vacant)
      BY GuardPcs DEF InFlight
    <2>4. GuardShape'
      BY <1>a, <2>1, <2>2 DEF GuardShape, admin, limits, InFlight, IsRow
    <2>5. Timely'
      BY <1>a, <2>1, <2>2, <2>3 DEF Timely, InFlight
    <2>6. KeysTied'
      BY <1>a, <2>1, <2>2, GuardPcs DEF KeysTied, Tied, JobOK, admin
    <2> QED
      BY <2>4, <2>5, <2>6 DEF GuardInv
  <1> QED
    BY <1>1, <1>2, <1>3, <1>4, <1>5 DEF Serve

\* A step of the dashboard keeps it.
LEMMA AdministeredKeeps ==
    ASSUME GuardInv, Administered, UNCHANGED bound
    PROVE  GuardInv'
  <1>a. GuardShape /\ Timely /\ KeysTied
    BY DEF GuardInv
  <1>1. GuardShape'
    BY <1>a DEF Administered, GuardShape, KeysGo, InFlight, IsRow
  <1>2. Timely'
    BY <1>a DEF Administered, Timely, InFlight
  <1>3. KeysTied'
    <2>1. ASSUME NEW w \in Workers, req[w].pc \in {"count", "account"}
          PROVE  LET k == keys'[req[w].key] IN
                 IsRow(k) /\ (k.machine # NoAccount /\ ~k.rotated => req[w].account = k.machine)
      <3>1. req[w].key \in Keys
        BY <2>1, <1>a, InFlightAt DEF InFlight
      <3> DEFINE k == req[w].key
      <3>2. IsRow(keys[k]) /\ (keys[k].machine # NoAccount /\ ~keys[k].rotated => req[w].account = keys[k].machine)
        BY <2>1, <1>a DEF KeysTied
      <3>3. IsRow(keys'[k]) /\ keys'[k].machine = keys[k].machine /\ keys'[k].rotated = keys[k].rotated
        BY <3>1, <3>2 DEF Administered, KeysGo
      <3> QED
        BY <3>2, <3>3
    <2>2. req' = req
      BY DEF Administered
    <2> QED
      BY <2>1, <2>2 DEF KeysTied, Administered
  <1> QED
    BY <1>1, <1>2, <1>3 DEF GuardInv

\* So every step keeps it.
LEMMA GuardStep ==
    ASSUME GuardInv, [GuardNext]_guardVars
    PROVE  GuardInv'
  <1>a. GuardShape /\ Timely /\ KeysTied
    BY DEF GuardInv
  <1>1. CASE Serve /\ UNCHANGED bound
    BY <1>1, RequestKeeps
  <1>2. CASE Administer /\ UNCHANGED bound
    BY <1>2, <1>a, AdministerMoves, AdministeredKeeps
  <1>3. CASE sweepRateLimits /\ UNCHANGED bound
    <2>1. counter' \in [Keys -> GuardWindows]
      <3>1. counter' = [k \in Keys |-> IF counter[k].ends < now THEN NoWindow ELSE counter[k]]
        BY <1>3 DEF sweepRateLimits
      <3>2. NoWindow \in GuardWindows /\ counter \in [Keys -> GuardWindows]
        BY <1>a, GuardNumbers DEF GuardShape
      <3> QED
        BY <3>1, <3>2
    <2>2. UNCHANGED <<keys, held, jobs, local, asked, passed, now, req, bound>>
      BY <1>3 DEF sweepRateLimits, admin
    <2> QED
      BY <1>a, <2>1, <2>2 DEF GuardInv, GuardShape, Timely, KeysTied, Tied, JobOK, InFlight, IsRow
  <1>4. CASE Tick /\ UNCHANGED bound
    <2>1. UNCHANGED <<keys, held, jobs, counter, local, asked, passed, req, bound>>
          /\ now < bound.time /\ now' = now + 1
          /\ \A w \in Workers : req[w].pc = "count" => now < req[w].at + Delay
      BY <1>4 DEF Tick, admin, limits
    <2>2. bound.time \in Nat /\ now \in Nat /\ Delay \in Nat /\ Times \subseteq Nat
      BY <1>a, GuardNumbers, GuardAssumption DEF GuardShape
    <2>3. GuardShape'
      BY <1>a, <2>1, <2>2 DEF GuardShape, InFlight, IsRow
    <2>4. Timely'
      <3> SUFFICES ASSUME NEW w \in Workers, InFlight(req[w])
                   PROVE  req[w].at <= now' /\ (req[w].pc = "count" => now' <= req[w].at + Delay)
        BY <2>1 DEF Timely, InFlight
      <3>1. req[w].at \in Nat /\ req[w].at <= now
        BY <1>a, <2>2 DEF Timely, InFlight
      <3> QED
        BY <2>1, <2>2, <3>1
    <2>5. KeysTied'
      BY <1>a, <2>1 DEF KeysTied, Tied, JobOK, IsRow
    <2> QED
      BY <2>3, <2>4, <2>5 DEF GuardInv
  <1>5. ASSUME NEW i \in Instances, Recycle(i), UNCHANGED bound PROVE GuardInv'
    <2>1. UNCHANGED <<keys, held, jobs, counter, asked, passed, now, bound>>
      BY <1>5 DEF Recycle, admin
    <2>2. local' \in [Instances -> [Keys -> GuardWindows]]
      <3>1. [k \in Keys |-> NoWindow] \in [Keys -> GuardWindows]
        BY <1>a, GuardNumbers
      <3> QED
        BY <1>5, <1>a, <3>1 DEF Recycle, GuardShape
    <2>3. req' = [w \in Workers |-> req'[w]] /\ \A w \in Workers : req'[w] \in {Vacant, req[w]}
      BY <1>5 DEF Recycle
    <2>4. ~InFlight(Vacant)
      BY GuardPcs DEF InFlight
    <2>5. GuardShape'
      BY <1>a, <2>1, <2>2, <2>3 DEF GuardShape, InFlight, IsRow
    <2>6. Timely'
      BY <1>a, <2>1, <2>3, <2>4 DEF Timely, InFlight
    <2>7. KeysTied'
      BY <1>a, <2>1, <2>3, GuardPcs DEF KeysTied, Tied, JobOK, IsRow
    <2> QED
      BY <2>5, <2>6, <2>7 DEF GuardInv
  <1>6. CASE UNCHANGED <<admin, limits, now, req, bound>>
    BY <1>a, <1>6 DEF admin, limits, GuardInv, GuardShape, Timely, KeysTied, Tied, JobOK, InFlight, IsRow
  <1> QED
    BY <1>1, <1>2, <1>3, <1>4, <1>5, <1>6 DEF GuardNext, guardVars

\* So it always holds.
LEMMA GuardAlways == GuardSpec => []GuardInv
  BY GuardStarts, GuardStep, PTL DEF GuardSpec

\* A request is accepted with a key issued for a service account only while
\* the account is active and from an address its owner listed, whatever the
\* dashboard does between two statements of the request: the row is linked
\* before anybody is shown the key, and the account is read after the key.
THEOREM MachineKeysStayTied == GuardSpec => MachineKeysObey
  <1> DEFINE OK(w) == LET k == keys[req[w].key] IN
                 k.machine # NoAccount /\ ~k.rotated => Obeys(w, k.machine)
             A == \A w \in Workers : Accepted(w) => OK(w)
  <1>1. ASSUME GuardInv, GuardNext PROVE A
    <2>a. GuardShape /\ KeysTied
      BY <1>1 DEF GuardInv
    <2> SUFFICES ASSUME NEW w \in Workers, Accepted(w) PROVE OK(w)
      OBVIOUS
    <2>0. req[w].pc \in {"count", "account"} /\ req'[w].pc = "done" /\ InFlight(req[w])
      BY <2>a, InFlightAt DEF Accepted
    <2> DEFINE k == keys[req[w].key]
    <2>t. k.machine # NoAccount /\ ~k.rotated => req[w].account = k.machine
      BY <2>0, <2>a DEF KeysTied
    <2>n. AfterCount(w) = "done" => req[w].account = NoAccount
      BY DEF AfterCount
    <2>1. CASE \E v \in Workers : Verify(v) \/ consumeShared(v) \/ FailOpen(v) \/ CheckAccount(v) \/ Leave(v)
      <3>1. PICK v \in Workers : Verify(v) \/ consumeShared(v) \/ FailOpen(v) \/ CheckAccount(v) \/ Leave(v)
        BY <2>1
      <3>2. CASE Verify(v)
        <4>1. v # w
          BY <3>2, <2>0, <2>a, VerifyMoves
        <4>2. \A x : req' = [req EXCEPT ![v] = x] => req'[w] = req[w]
          BY <2>a, <4>1 DEF GuardShape
        <4>3. req'[w] = req[w]
          BY <3>2, <4>1, <4>2, <2>a, VerifyMoves
        <4> QED
          BY <4>3, <2>0
      <3>3. CASE consumeShared(v)
        <4>1. PICK to : Moved(v, to) /\ to \in {AfterCount(v), "limited"}
          BY <3>3, <2>a, CountMoves
        <4>2. v = w /\ to = "done"
          BY <4>1, <2>0, <2>a, MovedFacts
        <4> QED
          BY <4>1, <4>2, <2>n, <2>t
      <3>4. CASE FailOpen(v)
        <4>1. Moved(v, AfterCount(v))
          BY <3>4, <2>a, FailMoves
        <4>2. v = w /\ AfterCount(v) = "done"
          BY <4>1, <2>0, <2>a, MovedFacts
        <4> QED
          BY <4>2, <2>n, <2>t
      <3>5. CASE CheckAccount(v)
        <4> DEFINE to == IF Obeys(v, req[v].account) THEN Served(v) ELSE "refused"
        <4>1. Moved(v, to)
          BY <3>5, <2>a, CheckMoves
        <4>2. v = w /\ to = "done"
          <5> HIDE DEF to
          <5> QED
            BY <4>1, <2>0, <2>a, MovedFacts
        <4>3. Obeys(w, req[w].account)
          BY <4>2
        <4> QED
          BY <4>3, <2>t
      <3>6. CASE Leave(v)
        <4>1. req' = [req EXCEPT ![v] = Vacant]
          BY <3>6, <2>a, LeaveMoves
        <4>2. v = w
          BY <4>1, <2>0, <2>a DEF GuardShape
        <4> QED
          BY <3>6, <4>2, <2>0 DEF Leave
      <3> QED
        BY <3>1, <3>2, <3>3, <3>4, <3>5, <3>6
    <2>2. CASE req' = req
      BY <2>0, <2>2
    <2>3. CASE \E i \in Instances : Recycle(i)
      <3>1. req'[w] \in {Vacant, req[w]}
        BY <2>3 DEF Recycle
      <3> QED
        BY <3>1, <2>0, GuardPcs
    <2>4. Administer => req' = req
      BY <2>a, AdministerMoves DEF Administered
    <2> QED
      BY <1>1, <2>1, <2>2, <2>3, <2>4 DEF GuardNext, Serve, sweepRateLimits, Tick
  <1>2. MachineKeysObey <=> [][A]_guardVars
    BY PTL DEF MachineKeysObey
  <1>3. [][GuardNext]_guardVars /\ []GuardInv => [][A]_guardVars
    <2>1. [GuardNext]_guardVars /\ GuardInv => [A]_guardVars
      BY <1>1
    <2> QED
      BY <2>1, PTL
  <1> QED
    BY <1>2, <1>3, GuardAlways, PTL DEF GuardSpec

\* Requests of a key on their way to the counter, made at lo or later.
ToCount(r, k, lo) == {w \in Workers : r[w].pc = "count" /\ r[w].key = k /\ r[w].at >= lo}

\* What was asked covers what is on its way, ...
AskedCovers ==
    \A k \in Keys, lo \in Int : Cardinality(ToCount(req, k, lo)) <= Within(asked, k, lo, now)

\* ... with what the shared window counted, ...
SharedCovered ==
    \A k \in Keys :
        /\ counter[k].ends - Window <= now
        /\ LET lo == counter[k].ends - Window - Delay IN
           counter[k].count + Cardinality(ToCount(req, k, lo)) <= Within(asked, k, lo, now)

\* ... and what each process counted for itself.
LocalCovered ==
    \A i \in Instances, k \in Keys :
        /\ local[i][k].ends - Window <= now
        /\ local[i][k].count <= Within(asked, k, local[i][k].ends - Window, now)

\* What refusals rest on: every counter, of either layer, covers no more
\* than what was asked since its window opened.
Counted == AskedCovers /\ SharedCovered /\ LocalCovered /\ RefusalsEarned

\* WithinMore by its ends.
LEMMA WithinWider ==
    ASSUME GuardShape, NEW h \in Histories, NEW k \in Keys,
           NEW from \in Int, NEW to \in Int, NEW from2 \in Int, NEW to2 \in Int,
           from2 <= from, to <= to2
    PROVE  Within(h, k, from, to) <= Within(h, k, from2, to2)
  <1>1. IsFiniteSet(Times) /\ Times = 0 .. LastTime /\ LastTime \in Nat
    BY GuardNumbers
  <1>2. Between(from, to) \subseteq Between(from2, to2)
    BY <1>1 DEF Between
  <1> QED
    BY <1>1, <1>2, WithinMore

\* The requests on their way to the counter are finitely many.
LEMMA PendingFinite ==
    ASSUME NEW r, NEW k, NEW lo
    PROVE  IsFiniteSet(ToCount(r, k, lo)) /\ Cardinality(ToCount(r, k, lo)) \in Nat
  <1>1. IsFiniteSet(ToCount(r, k, lo))
    BY GuardAssumption, FS_Subset DEF ToCount
  <1> QED
    BY <1>1, FS_CardinalityType

\* Steps that ask nothing new and refuse nobody.
Quiet ==
    /\ asked' = asked /\ now \in Nat /\ now' \in Nat /\ now <= now'
    /\ \A k \in Keys : counter'[k] \in {counter[k], NoWindow}
    /\ \A i \in Instances, k \in Keys : local'[i][k] \in {local[i][k], NoWindow}
    /\ \A w \in Workers : req'[w].pc \in {"count", "limited"} => req'[w] = req[w]

\* What the steps below use of the shapes, in one place.
LEMMA GuardTypes ==
    ASSUME GuardShape
    PROVE  /\ {Limit, Window, MaxLocal, Delay} \subseteq Nat \ {0}
           /\ Limit \in Nat /\ Window \in Nat /\ Delay \in Nat /\ MaxLocal \in Nat
           /\ Limit >= 1 /\ Window >= 1 /\ Delay >= 1
           /\ now \in Nat /\ IsFiniteSet(Times) /\ Times \subseteq Nat /\ now \in Times
           /\ asked \in Histories /\ passed \in Histories
           /\ \A k \in Keys : counter[k].count \in Nat /\ counter[k].ends \in Nat
           /\ \A i \in Instances, k \in Keys : local[i][k].count \in Nat /\ local[i][k].ends \in Nat
           /\ \A w \in Workers : req[w].pc \in {"count", "account", "done", "limited"} =>
                InFlight(req[w]) /\ req[w].key \in Keys /\ req[w].at \in Nat /\ req[w].at \in Times
  <1>1. \A i \in Instances, k \in Keys : local[i][k] \in GuardWindows
    BY DEF GuardShape
  <1>2. \A k \in Keys : counter[k] \in GuardWindows
    BY DEF GuardShape
  <1>3. Times \subseteq Nat
    BY GuardNumbers
  <1>4. \A w \in Workers : req[w].pc \in {"count", "account", "done", "limited"} =>
          InFlight(req[w]) /\ req[w].key \in Keys /\ req[w].at \in Times
    BY InFlightAt DEF InFlight
  <1> QED
    BY <1>1, <1>2, <1>3, <1>4, GuardNumbers DEF GuardShape, GuardWindows

\* A step that asks nothing and sends nobody to the counter keeps it all.
LEMMA QuietKeeps ==
    ASSUME GuardShape, Counted, Quiet
    PROVE  Counted'
  <1> USE GuardTypes
  <1>p. \A k, lo : /\ ToCount(req', k, lo) \subseteq ToCount(req, k, lo)
                   /\ Cardinality(ToCount(req', k, lo)) \in Nat /\ Cardinality(ToCount(req, k, lo)) \in Nat
                   /\ Cardinality(ToCount(req', k, lo)) <= Cardinality(ToCount(req, k, lo))
    <2> TAKE k, lo
    <2>1. ToCount(req', k, lo) \subseteq ToCount(req, k, lo)
      BY DEF ToCount, Quiet
    <2>2. IsFiniteSet(ToCount(req, k, lo)) /\ Cardinality(ToCount(req, k, lo)) \in Nat
      BY PendingFinite
    <2>3. Cardinality(ToCount(req', k, lo)) <= Cardinality(ToCount(req, k, lo)) /\ IsFiniteSet(ToCount(req', k, lo))
      BY <2>1, <2>2, FS_Subset
    <2>4. Cardinality(ToCount(req', k, lo)) \in Nat
      BY <2>3, FS_CardinalityType
    <2> QED
      BY <2>1, <2>2, <2>3, <2>4
  <1>w. \A k \in Keys, lo \in Int :
          /\ Within(asked, k, lo, now) \in Nat /\ Within(asked, k, lo, now') \in Nat
          /\ Within(asked, k, lo, now) <= Within(asked, k, lo, now')
    BY WithinWider, WithinNat DEF Quiet
  <1>0. asked' = asked /\ now <= now' /\ now' \in Nat
    BY DEF Quiet
  <1>1. AskedCovers'
    <2> SUFFICES ASSUME NEW k \in Keys, NEW lo \in Int
                 PROVE  Cardinality(ToCount(req', k, lo)) <= Within(asked, k, lo, now')
      BY <1>0 DEF AskedCovers
    <2>1. Cardinality(ToCount(req, k, lo)) <= Within(asked, k, lo, now)
      BY DEF Counted, AskedCovers
    <2> QED
      BY <2>1, <1>p, <1>w
  <1>2. SharedCovered'
    <2> SUFFICES ASSUME NEW k \in Keys
                 PROVE  /\ counter'[k].ends - Window <= now'
                        /\ counter'[k].count + Cardinality(ToCount(req', k, counter'[k].ends - Window - Delay))
                              <= Within(asked, k, counter'[k].ends - Window - Delay, now')
      BY <1>0 DEF SharedCovered
    <2>1. CASE counter'[k] = counter[k]
      <3> DEFINE lo == counter[k].ends - Window - Delay
      <3>1. counter[k].ends - Window <= now /\ lo \in Int
            /\ counter[k].count + Cardinality(ToCount(req, k, lo)) <= Within(asked, k, lo, now)
        BY DEF Counted, SharedCovered
      <3>2. Cardinality(ToCount(req', k, lo)) <= Cardinality(ToCount(req, k, lo))
        BY <1>p
      <3>3. Within(asked, k, lo, now) <= Within(asked, k, lo, now')
        BY <1>w, <3>1
      <3>4. /\ Cardinality(ToCount(req', k, lo)) \in Nat /\ Cardinality(ToCount(req, k, lo)) \in Nat
            /\ Within(asked, k, lo, now) \in Nat /\ Within(asked, k, lo, now') \in Nat
        BY <1>p, <1>w, <3>1
      <3>5. counter[k].count \in Nat /\ counter[k].ends \in Nat
        OBVIOUS
      <3>6. counter[k].count + Cardinality(ToCount(req', k, lo)) <= Within(asked, k, lo, now')
        BY <3>1, <3>2, <3>3, <3>4, <3>5
      <3> QED
        BY <2>1, <3>1, <3>6, <1>0
    <2>2. CASE counter'[k] = NoWindow
      <3> DEFINE lo == 0 - Window - Delay
      <3>1. lo \in Int /\ counter'[k].count = 0 /\ counter'[k].ends = 0
        BY <2>2 DEF NoWindow
      <3>2. Cardinality(ToCount(req, k, lo)) <= Within(asked, k, lo, now)
        BY <3>1 DEF Counted, AskedCovers
      <3>3. Cardinality(ToCount(req', k, lo)) <= Within(asked, k, lo, now')
        BY <3>1, <3>2, <1>p, <1>w
      <3>4. 0 + Cardinality(ToCount(req', k, lo)) <= Within(asked, k, lo, now')
        BY <3>3, <1>p
      <3> QED
        BY <3>1, <3>4, <1>0
    <2> QED
      BY <2>1, <2>2 DEF Quiet
  <1>3. LocalCovered'
    <2> SUFFICES ASSUME NEW i \in Instances, NEW k \in Keys
                 PROVE  /\ local'[i][k].ends - Window <= now'
                        /\ local'[i][k].count <= Within(asked, k, local'[i][k].ends - Window, now')
      BY <1>0 DEF LocalCovered
    <2>1. CASE local'[i][k] = local[i][k]
      <3> DEFINE lo == local[i][k].ends - Window
      <3>1. lo <= now /\ lo \in Int /\ local[i][k].count <= Within(asked, k, lo, now)
        BY DEF Counted, LocalCovered
      <3>2. Within(asked, k, lo, now) <= Within(asked, k, lo, now')
            /\ Within(asked, k, lo, now) \in Nat /\ Within(asked, k, lo, now') \in Nat
        BY <1>w, <3>1
      <3>3. lo <= now'
        BY <3>1, <1>0
      <3>4. local[i][k].count \in Nat
        OBVIOUS
      <3> QED
        BY <2>1, <3>1, <3>2, <3>3, <3>4
    <2>2. CASE local'[i][k] = NoWindow
      <3>1. 0 - Window \in Int /\ local'[i][k].count = 0 /\ local'[i][k].ends = 0
        BY <2>2 DEF NoWindow
      <3> QED
        BY <3>1, <1>w, <1>0
    <2> QED
      BY <2>1, <2>2 DEF Quiet
  <1>4. RefusalsEarned'
    BY <1>0 DEF RefusalsEarned, Counted, Quiet
  <1> QED
    BY <1>1, <1>2, <1>3, <1>4 DEF Counted

\* The history of what was asked has one more entry, of this moment.
AskedOnce(k) ==
    \A j \in Keys, lo \in Int, hi \in Int :
        /\ Within(asked, j, lo, hi) \in Nat /\ Within(asked', j, lo, hi) \in Nat
        /\ Within(asked', j, lo, hi) >= Within(asked, j, lo, hi)
        /\ j = k /\ lo <= now /\ now <= hi => Within(asked', j, lo, hi) = Within(asked, j, lo, hi) + 1

\* One request asked now is one more in every interval that holds now.
LEMMA AskedOnceHolds ==
    ASSUME GuardShape, NEW k \in Keys, asked' = [asked EXCEPT ![<<k, now>>] = @ + 1]
    PROVE  AskedOnce(k)
  <1> SUFFICES ASSUME NEW j \in Keys, NEW lo \in Int, NEW hi \in Int
               PROVE  /\ Within(asked, j, lo, hi) \in Nat /\ Within(asked', j, lo, hi) \in Nat
                      /\ Within(asked', j, lo, hi) >= Within(asked, j, lo, hi)
                      /\ j = k /\ lo <= now /\ now <= hi => Within(asked', j, lo, hi) = Within(asked, j, lo, hi) + 1
    BY DEF AskedOnce
  <1>1. IsFiniteSet(Times) /\ Times \subseteq Nat /\ asked \in Histories /\ now \in Times
        /\ OneMore(asked, asked', k, now)
    BY GuardTypes DEF OneMore
  <1>2. /\ Within(asked, j, lo, hi) \in Nat
        /\ j = k /\ lo <= now /\ now <= hi => Within(asked', j, lo, hi) = Within(asked, j, lo, hi) + 1
        /\ ~(j = k /\ lo <= now /\ now <= hi) => Within(asked', j, lo, hi) = Within(asked, j, lo, hi)
    BY ONLY <1>1, WithinGrows, k \in Keys, j \in Keys, lo \in Int, hi \in Int
  <1> QED
    BY ONLY <1>2

\* At most one more request is on its way, made this moment.
PendingOnce(k) ==
    \A j \in Keys, lo \in Int :
        /\ Cardinality(ToCount(req', j, lo)) \in Nat /\ Cardinality(ToCount(req, j, lo)) \in Nat
        /\ Cardinality(ToCount(req', j, lo)) <= Cardinality(ToCount(req, j, lo)) + 1
        /\ ~(j = k /\ lo <= now) => Cardinality(ToCount(req', j, lo)) <= Cardinality(ToCount(req, j, lo))

\* One worker sent to the counter is at most one more on the way.
LEMMA PendingOnceHolds ==
    ASSUME GuardShape, NEW k \in Keys, NEW w \in Workers, req'[w].key = k, req'[w].at = now,
           \A v \in Workers \ {w} : req'[v] = req[v]
    PROVE  PendingOnce(k)
  <1> SUFFICES ASSUME NEW j \in Keys, NEW lo \in Int
        PROVE  /\ Cardinality(ToCount(req', j, lo)) \in Nat /\ Cardinality(ToCount(req, j, lo)) \in Nat
               /\ Cardinality(ToCount(req', j, lo)) <= Cardinality(ToCount(req, j, lo)) + 1
               /\ ~(j = k /\ lo <= now) => Cardinality(ToCount(req', j, lo)) <= Cardinality(ToCount(req, j, lo))
    BY DEF PendingOnce
  <1>1. /\ Cardinality(ToCount(req', j, lo)) \in Nat /\ Cardinality(ToCount(req, j, lo)) \in Nat
        /\ IsFiniteSet(ToCount(req, j, lo))
    BY PendingFinite
  <1>2. CASE j = k /\ lo <= now
    <2>1. IsFiniteSet(ToCount(req, j, lo) \cup {w})
          /\ Cardinality(ToCount(req, j, lo) \cup {w}) <= Cardinality(ToCount(req, j, lo)) + 1
      <3> DEFINE P == ToCount(req, j, lo)
      <3>1. IsFiniteSet(P) /\ Cardinality(P) \in Nat
        BY <1>1
      <3> HIDE DEF P
      <3>2. IsFiniteSet(P \cup {w}) /\ Cardinality(P \cup {w}) \in {Cardinality(P), Cardinality(P) + 1}
        BY ONLY <3>1, FS_AddElement
      <3>3. Cardinality(P \cup {w}) <= Cardinality(P) + 1
        BY ONLY <3>1, <3>2
      <3> QED
        BY <3>2, <3>3 DEF P
    <2>2. ToCount(req', j, lo) \subseteq ToCount(req, j, lo) \cup {w}
      BY DEF ToCount
    <2>3. Cardinality(ToCount(req', j, lo)) <= Cardinality(ToCount(req, j, lo) \cup {w})
          /\ Cardinality(ToCount(req, j, lo) \cup {w}) \in Nat
      BY <2>1, <2>2, FS_Subset, FS_CardinalityType
    <2> QED
      BY <1>1, <1>2, <2>1, <2>3
  <1>3. CASE ~(j = k /\ lo <= now)
    <2>1. ToCount(req', j, lo) \subseteq ToCount(req, j, lo)
      BY <1>3, GuardTypes DEF ToCount
    <2>2. Cardinality(ToCount(req', j, lo)) <= Cardinality(ToCount(req, j, lo))
      BY <1>1, <2>1, FS_Subset
    <2> QED
      BY <1>1, <1>3, <2>2
  <1> QED
    BY <1>2, <1>3

\* A request is counted by the process it came to.
LEMMA AskedKeeps ==
    ASSUME GuardShape, Counted, NEW w \in Workers, req[w].pc = "idle",
           NEW i \in Instances, NEW k \in Keys,
           CountLocally(i, k), AskedOnce(k), PendingOnce(k), req'[w].key = k, req'[w].at = now,
           req'[w].pc = IF localRefusal(i, k) THEN "limited" ELSE "count",
           \A v \in Workers \ {w} : req'[v] = req[v],
           counter' = counter, now' = now
    PROVE  Counted'
  <1>t. /\ Limit \in Nat /\ Window \in Nat /\ Delay \in Nat /\ MaxLocal \in Nat
        /\ Limit >= 1 /\ Window >= 1 /\ Delay >= 1
        /\ now \in Nat /\ IsFiniteSet(Times) /\ Times \subseteq Nat /\ now \in Times
        /\ asked \in Histories
        /\ \A j \in Keys : counter[j].count \in Nat /\ counter[j].ends \in Nat
        /\ \A p \in Instances, j \in Keys : local[p][j].count \in Nat /\ local[p][j].ends \in Nat
        /\ \A v \in Workers : req[v].pc \in {"count", "account", "done", "limited"} =>
             InFlight(req[v]) /\ req[v].key \in Keys /\ req[v].at \in Nat /\ req[v].at \in Times
    BY GuardTypes
  <1>1. AskedCovers'
    <2> SUFFICES ASSUME NEW j \in Keys, NEW lo \in Int
                 PROVE  Cardinality(ToCount(req', j, lo)) <= Within(asked', j, lo, now)
      BY DEF AskedCovers
    <2>1. Cardinality(ToCount(req, j, lo)) <= Within(asked, j, lo, now)
      BY DEF Counted, AskedCovers
    <2> QED
      BY <2>1, <1>t DEF AskedOnce, PendingOnce
  <1>2. SharedCovered'
    <2> SUFFICES ASSUME NEW j \in Keys
                 PROVE  /\ counter[j].ends - Window <= now
                        /\ counter[j].count + Cardinality(ToCount(req', j, counter[j].ends - Window - Delay))
                              <= Within(asked', j, counter[j].ends - Window - Delay, now)
      BY DEF SharedCovered
    <2> DEFINE lo == counter[j].ends - Window - Delay
    <2>1. counter[j].ends - Window <= now /\ lo \in Int /\ lo <= now
          /\ counter[j].count + Cardinality(ToCount(req, j, lo)) <= Within(asked, j, lo, now)
      BY <1>t DEF Counted, SharedCovered
    <2>2. counter[j].count \in Nat
      BY <1>t
    <2>3. /\ Cardinality(ToCount(req', j, lo)) \in Nat /\ Cardinality(ToCount(req, j, lo)) \in Nat
          /\ Cardinality(ToCount(req', j, lo)) <= Cardinality(ToCount(req, j, lo)) + 1
          /\ j # k => Cardinality(ToCount(req', j, lo)) <= Cardinality(ToCount(req, j, lo))
      BY <2>1, <1>t DEF PendingOnce
    <2>4. /\ Within(asked, j, lo, now) \in Nat /\ Within(asked', j, lo, now) \in Nat
          /\ Within(asked', j, lo, now) >= Within(asked, j, lo, now)
          /\ j = k => Within(asked', j, lo, now) = Within(asked, j, lo, now) + 1
      BY <2>1, <1>t DEF AskedOnce
    <2>5. counter[j].count + Cardinality(ToCount(req', j, lo)) <= Within(asked', j, lo, now)
      <3> HIDE DEF lo
      <3> QED
        BY <2>1, <2>2, <2>3, <2>4
    <2> QED
      BY <2>1, <2>5
  <1>3. LocalCovered'
    <2> SUFFICES ASSUME NEW p \in Instances, NEW j \in Keys
                 PROVE  /\ local'[p][j].ends - Window <= now
                        /\ local'[p][j].count <= Within(asked', j, local'[p][j].ends - Window, now)
      BY DEF LocalCovered
    <2> DEFINE first == [count |-> 1, ends |-> now + Window]
               next == [local[i][k] EXCEPT !.count = @ + 1]
               kept == IF Opens(i, k) /\ Size(i) >= MaxLocal THEN [x \in Keys |-> NoWindow] ELSE local[i]
               new == IF Opens(i, k) THEN first ELSE next
    <2>0. local' = [local EXCEPT ![i] = [kept EXCEPT ![k] = new]]
      BY DEF CountLocally
    <2>a. local \in [Instances -> [Keys -> GuardWindows]] /\ kept \in [Keys -> GuardWindows]
      BY GuardNumbers DEF GuardShape
    <2>b. ~(p = i /\ j = k) => local'[p][j] \in {local[p][j], NoWindow}
      <3>1. p # i => local'[p][j] = local[p][j]
        BY <2>0, <2>a
      <3>2. j # k => [kept EXCEPT ![k] = new][j] = kept[j]
        <4> HIDE DEF kept, new
        <4> QED
          BY <2>a
      <3>3. kept[j] \in {local[i][j], NoWindow}
        OBVIOUS
      <3>4. p = i => local'[p][j] = [kept EXCEPT ![k] = new][j]
        <4> HIDE DEF kept, new
        <4> QED
          BY <2>0, <2>a
      <3> QED
        BY <3>1, <3>2, <3>3, <3>4
    <2>c. local'[i][k] = new
      <3> HIDE DEF kept, new
      <3> QED
        BY <2>0, <2>a
    <2>1. CASE local'[p][j] = local[p][j] /\ ~(p = i /\ j = k)
      <3>1. local[p][j].ends - Window <= now
            /\ local[p][j].count <= Within(asked, j, local[p][j].ends - Window, now)
        BY DEF Counted, LocalCovered
      <3>2. Within(asked, j, local[p][j].ends - Window, now) \in Nat
            /\ Within(asked, j, local[p][j].ends - Window, now) <= Within(asked', j, local[p][j].ends - Window, now)
            /\ Within(asked', j, local[p][j].ends - Window, now) \in Nat
        <4>1. local[p][j].ends - Window \in Int /\ now \in Int
          BY <1>t
        <4> QED
          BY ONLY <4>1, AskedOnce(k), j \in Keys DEF AskedOnce
      <3> QED
        BY <2>1, <3>1, <3>2, <1>t
    <2>2. CASE local'[p][j] = NoWindow
      <3>1. local'[p][j].count = 0 /\ local'[p][j].ends = 0
        BY <2>2 DEF NoWindow
      <3>2. Within(asked', j, 0 - Window, now) \in Nat
        <4>1. 0 - Window \in Int /\ now \in Int
          BY <1>t
        <4> QED
          BY ONLY <4>1, AskedOnce(k), j \in Keys DEF AskedOnce
      <3> QED
        BY <3>1, <3>2, <1>t
    <2>3. CASE p = i /\ j = k /\ Opens(i, k)
      <3>1. local'[p][j].count = 1 /\ local'[p][j].ends = now + Window
        BY <2>3, <2>c
      <3>2. Within(asked', k, now, now) >= 1
        BY <1>t DEF AskedOnce
      <3>3. (now + Window) - Window = now /\ now <= now
        BY <1>t
      <3> QED
        BY <3>1, <3>2, <3>3, <2>3, <1>t
    <2>4. CASE p = i /\ j = k /\ ~Opens(i, k)
      <3>0. local[i][k] \in GuardWindows
        BY <2>a
      <3>1. local'[p][j].count = local[i][k].count + 1 /\ local'[p][j].ends = local[i][k].ends
        BY <2>4, <2>c, <3>0 DEF GuardWindows
      <3> DEFINE lo == local[i][k].ends - Window
      <3>2. lo <= now /\ lo \in Int /\ local[i][k].count <= Within(asked, k, lo, now)
        BY <1>t DEF Counted, LocalCovered
      <3>3. Within(asked', k, lo, now) = Within(asked, k, lo, now) + 1 /\ Within(asked, k, lo, now) \in Nat
        BY <1>t, <3>2 DEF AskedOnce
      <3>4. local[i][k].count + 1 <= Within(asked', k, lo, now)
        BY <3>2, <3>3, <1>t
      <3> QED
        BY <3>1, <3>2, <3>4, <2>4
    <2> QED
      BY <2>1, <2>2, <2>3, <2>4, <2>b
  <1>4. RefusalsEarned'
    <2> SUFFICES ASSUME NEW v \in Workers, req'[v].pc = "limited"
                 PROVE  Within(asked', req'[v].key, req'[v].at - Window - Delay + 1, req'[v].at + Delay) > Limit
      BY DEF RefusalsEarned
    <2>1. CASE v # w
      <3> DEFINE lo == req[v].at - Window - Delay + 1
                 hi == req[v].at + Delay
      <3>1. req'[v] = req[v] /\ req[v].pc = "limited"
        BY <2>1
      <3>2. Within(asked, req[v].key, lo, hi) > Limit /\ req[v].key \in Keys /\ req[v].at \in Nat
        BY <3>1, <1>t DEF Counted, RefusalsEarned
      <3>3. Within(asked', req[v].key, lo, hi) >= Within(asked, req[v].key, lo, hi)
            /\ Within(asked', req[v].key, lo, hi) \in Nat /\ Within(asked, req[v].key, lo, hi) \in Nat
        <4>1. lo \in Int /\ hi \in Int
          BY <3>2, <1>t
        <4> HIDE DEF lo, hi
        <4> QED
          BY <3>2, <4>1 DEF AskedOnce
      <3> QED
        BY <3>1, <3>2, <3>3, <1>t
    <2>2. CASE v = w
      <3>1. localRefusal(i, k)
        BY <2>2
      <3>2. local[i][k].ends > now /\ local[i][k].count + 1 > Limit
        BY <3>1, <1>t DEF localRefusal, Opens
      <3> DEFINE lo == local[i][k].ends - Window
                 from == now - Window - Delay + 1
                 to == now + Delay
      <3>3. lo <= now /\ lo \in Int /\ local[i][k].count <= Within(asked, k, lo, now) /\ local[i][k].count \in Nat
        BY <1>t DEF Counted, LocalCovered
      <3>4. from \in Int /\ to \in Int /\ from <= lo /\ now <= to
        BY <3>2, <1>t
      <3>5. Within(asked, k, lo, now) <= Within(asked, k, from, to)
        BY <3>3, <3>4, <1>t, WithinWider
      <3>6. Within(asked', k, from, to) = Within(asked, k, from, to) + 1
        BY <3>4, <1>t DEF AskedOnce
      <3>7. Within(asked, k, lo, now) \in Nat /\ Within(asked, k, from, to) \in Nat
        BY <3>3, <3>4, <1>t DEF AskedOnce
      <3>8. Within(asked', k, from, to) > Limit
        <4> HIDE DEF lo, from, to
        <4> QED
          BY <3>2, <3>3, <3>5, <3>6, <3>7, <1>t
      <3> QED
        BY <3>8, <2>2
    <2> QED
      BY <2>1, <2>2
  <1> QED
    BY <1>1, <1>2, <1>3, <1>4 DEF Counted

\* One request on its way arrives.
LEMMA PendingArrives ==
    ASSUME NEW w \in Workers, req[w].pc = "count", req'[w].pc # "count",
           \A v \in Workers \ {w} : req'[v] = req[v], NEW k, NEW lo
    PROVE  /\ Cardinality(ToCount(req', k, lo)) \in Nat /\ Cardinality(ToCount(req, k, lo)) \in Nat
           /\ Cardinality(ToCount(req', k, lo)) <= Cardinality(ToCount(req, k, lo))
           /\ req[w].key = k /\ req[w].at >= lo =>
                Cardinality(ToCount(req', k, lo)) + 1 = Cardinality(ToCount(req, k, lo))
  <1> DEFINE P == ToCount(req, k, lo)
             Q == ToCount(req', k, lo)
  <1>1. IsFiniteSet(P) /\ Cardinality(P) \in Nat /\ Cardinality(Q) \in Nat
    BY PendingFinite
  <1>2. Q = P \ {w} /\ (w \in P <=> req[w].key = k /\ req[w].at >= lo)
    BY DEF ToCount
  <1> HIDE DEF P, Q
  <1>3. Cardinality(P \ {w}) = IF w \in P THEN Cardinality(P) - 1 ELSE Cardinality(P)
    BY ONLY <1>1, FS_RemoveElement
  <1>4. /\ Cardinality(Q) <= Cardinality(P)
        /\ w \in P => Cardinality(Q) + 1 = Cardinality(P)
    BY ONLY <1>1, <1>2, <1>3
  <1> QED
    BY <1>1, <1>2, <1>4 DEF P, Q

\* A request is counted in the shared window.
LEMMA SharedKeeps ==
    ASSUME GuardShape, Timely, Counted, NEW w \in Workers, consumeShared(w)
    PROVE  Counted'
  <1>t. /\ Limit \in Nat /\ Window \in Nat /\ Delay \in Nat
        /\ Limit >= 1 /\ Window >= 1 /\ Delay >= 1
        /\ now \in Nat /\ asked \in Histories
        /\ \A j \in Keys : counter[j].count \in Nat /\ counter[j].ends \in Nat
        /\ req[w].pc = "count" /\ req[w].key \in Keys /\ req[w].at \in Nat
        /\ req[w].at <= now /\ now <= req[w].at + Delay
    <2>1. req[w].pc = "count"
      BY CountMoves
    <2> QED
      BY <2>1, GuardTypes DEF Timely
  <1> DEFINE k == req[w].key
             at == req[w].at
             row == share(counter[k], at)
             to == IF row.allowed THEN AfterCount(w) ELSE "limited"
  <1>m. /\ UNCHANGED <<local, asked, now>>
        /\ counter' = [counter EXCEPT ![k] = [count |-> row.count, ends |-> row.ends]]
        /\ Moved(w, to)
    BY CountMoves
  <1>r. /\ req'[w].pc = to /\ req'[w].key = k /\ req'[w].at = at
        /\ \A v \in Workers \ {w} : req'[v] = req[v]
    <2> HIDE DEF to, row
    <2> QED
      BY <1>m, MovedFacts
  <1>c. to # "count"
    BY AfterPcs
  <1>p. ASSUME NEW j, NEW lo
        PROVE  /\ Cardinality(ToCount(req', j, lo)) \in Nat /\ Cardinality(ToCount(req, j, lo)) \in Nat
               /\ Cardinality(ToCount(req', j, lo)) <= Cardinality(ToCount(req, j, lo))
               /\ k = j /\ at >= lo => Cardinality(ToCount(req', j, lo)) + 1 = Cardinality(ToCount(req, j, lo))
    <2> HIDE DEF to
    <2> QED
      BY <1>t, <1>r, <1>c, PendingArrives
  <1>w. \A j \in Keys, lo \in Int, hi \in Int : Within(asked, j, lo, hi) \in Nat
    BY WithinNat, GuardNumbers DEF GuardShape
  <1>n. /\ counter'[k].count = row.count /\ counter'[k].ends = row.ends
        /\ \A j \in Keys \ {k} : counter'[j] = counter[j]
    <2>1. counter \in [Keys -> GuardWindows] /\ k \in Keys
      BY <1>t DEF GuardShape
    <2> HIDE DEF row, k
    <2> QED
      BY <2>1, <1>m
  <1>s. /\ row.ends - Window <= now
        /\ row.count + Cardinality(ToCount(req', k, row.ends - Window - Delay))
             <= Within(asked, k, row.ends - Window - Delay, now)
    <2>1. CASE counter[k] = NoWindow \/ counter[k].ends <= at
      <3>1. row.count = 1 /\ row.ends = at + Window
        BY <2>1 DEF share
      <3>2. (at + Window) - Window = at /\ (at + Window) - Window - Delay = at - Delay
            /\ at - Delay \in Int /\ at >= at - Delay
        BY <1>t
      <3>3. Cardinality(ToCount(req, k, at - Delay)) <= Within(asked, k, at - Delay, now)
        BY <3>2, <1>t DEF Counted, AskedCovers
      <3>4. Cardinality(ToCount(req', k, at - Delay)) + 1 = Cardinality(ToCount(req, k, at - Delay))
            /\ Cardinality(ToCount(req', k, at - Delay)) \in Nat
        BY <3>2, <1>p
      <3>5. 1 + Cardinality(ToCount(req', k, at - Delay)) <= Within(asked, k, at - Delay, now)
        BY <3>3, <3>4
      <3> HIDE DEF row
      <3> QED
        BY <3>1, <3>2, <3>5, <1>t
    <2>2. CASE ~(counter[k] = NoWindow \/ counter[k].ends <= at)
      <3>1. row.count = counter[k].count + 1 /\ row.ends = counter[k].ends
        BY <2>2 DEF share
      <3> DEFINE lo == counter[k].ends - Window - Delay
      <3>2. counter[k].ends - Window <= now /\ lo \in Int /\ at >= lo
            /\ counter[k].count + Cardinality(ToCount(req, k, lo)) <= Within(asked, k, lo, now)
        BY <1>t DEF Counted, SharedCovered
      <3>3. Cardinality(ToCount(req', k, lo)) + 1 = Cardinality(ToCount(req, k, lo))
            /\ Cardinality(ToCount(req', k, lo)) \in Nat
        BY <3>2, <1>p
      <3>4. counter[k].count + 1 + Cardinality(ToCount(req', k, lo)) <= Within(asked, k, lo, now)
        <4> HIDE DEF lo
        <4> QED
          BY <3>2, <3>3, <1>t
      <3> HIDE DEF row
      <3> QED
        BY <3>1, <3>2, <3>4
    <2> QED
      BY <2>1, <2>2
  <1>1. AskedCovers'
    <2> SUFFICES ASSUME NEW j \in Keys, NEW lo \in Int
                 PROVE  Cardinality(ToCount(req', j, lo)) <= Within(asked, j, lo, now)
      BY <1>m DEF AskedCovers
    <2>1. Cardinality(ToCount(req, j, lo)) <= Within(asked, j, lo, now)
      BY DEF Counted, AskedCovers
    <2>2. /\ Cardinality(ToCount(req', j, lo)) \in Nat /\ Cardinality(ToCount(req, j, lo)) \in Nat
          /\ Cardinality(ToCount(req', j, lo)) <= Cardinality(ToCount(req, j, lo))
      BY <1>p
    <2>3. Within(asked, j, lo, now) \in Nat
      BY <1>w, <1>t
    <2> QED
      BY ONLY <2>1, <2>2, <2>3
  <1>2. SharedCovered'
    <2> SUFFICES ASSUME NEW j \in Keys
                 PROVE  /\ counter'[j].ends - Window <= now
                        /\ counter'[j].count + Cardinality(ToCount(req', j, counter'[j].ends - Window - Delay))
                              <= Within(asked, j, counter'[j].ends - Window - Delay, now)
      BY <1>m DEF SharedCovered
    <2>1. CASE j = k
      <3> HIDE DEF row
      <3> QED
        BY <2>1, <1>n, <1>s
    <2>2. CASE j # k
      <3> DEFINE lo == counter[j].ends - Window - Delay
      <3>1. counter[j].ends - Window <= now /\ lo \in Int /\ counter'[j] = counter[j]
            /\ counter[j].count + Cardinality(ToCount(req, j, lo)) <= Within(asked, j, lo, now)
        BY <2>2, <1>t, <1>n DEF Counted, SharedCovered
      <3>2. /\ Cardinality(ToCount(req', j, lo)) \in Nat /\ Cardinality(ToCount(req, j, lo)) \in Nat
            /\ Cardinality(ToCount(req', j, lo)) <= Cardinality(ToCount(req, j, lo))
        BY <1>p
      <3>3. Within(asked, j, lo, now) \in Nat /\ counter[j].count \in Nat
        BY <3>1, <1>w, <1>t
      <3>4. counter[j].count + Cardinality(ToCount(req', j, lo)) <= Within(asked, j, lo, now)
        <4> HIDE DEF lo
        <4> QED
          BY ONLY <3>1, <3>2, <3>3
      <3> QED
        BY <3>1, <3>4
    <2> QED
      BY <2>1, <2>2
  <1>3. LocalCovered'
    BY <1>m DEF Counted, LocalCovered
  <1>4. RefusalsEarned'
    <2> SUFFICES ASSUME NEW v \in Workers, req'[v].pc = "limited"
                 PROVE  Within(asked, req'[v].key, req'[v].at - Window - Delay + 1, req'[v].at + Delay) > Limit
      BY <1>m DEF RefusalsEarned
    <2>1. CASE v # w
      BY <2>1, <1>r DEF Counted, RefusalsEarned
    <2>2. CASE v = w
      <3>1. ~row.allowed
        BY <2>2, <1>r, AfterPcs
      <3>2. row.count > Limit
        <4>1. row.allowed <=> row.count <= Limit
          BY DEF share
        <4>2. row.count \in Nat
          BY <1>t DEF share
        <4> HIDE DEF row
        <4> QED
          BY ONLY <4>1, <4>2, <3>1, <1>t
      <3>3. row.count = counter[k].count + 1 /\ row.ends = counter[k].ends /\ counter[k].ends > at
        BY <3>2, <1>t DEF share
      <3> DEFINE lo == counter[k].ends - Window - Delay
                 from == at - Window - Delay + 1
                 hi == at + Delay
      <3>4. lo \in Int /\ from \in Int /\ hi \in Int /\ from <= lo /\ now <= hi
        BY <3>3, <1>t
      <3>5. row.count <= Within(asked, k, lo, now)
        <4>1. row.count + Cardinality(ToCount(req', k, lo)) <= Within(asked, k, lo, now)
          <5> HIDE DEF row
          <5> QED
            BY <1>s, <3>3
        <4>2. Cardinality(ToCount(req', k, lo)) \in Nat /\ Within(asked, k, lo, now) \in Nat /\ row.count \in Nat
          <5> HIDE DEF row, lo
          <5>1. Cardinality(ToCount(req', k, lo)) \in Nat
            BY ONLY <1>p
          <5>2. Within(asked, k, lo, now) \in Nat
            BY ONLY <1>w, <3>4, <1>t
          <5>3. row.count \in Nat
            BY ONLY <3>3, <1>t
          <5> QED
            BY ONLY <5>1, <5>2, <5>3
        <4> HIDE DEF row, lo
        <4> QED
          BY ONLY <4>1, <4>2
      <3>6. Within(asked, k, lo, now) <= Within(asked, k, from, hi)
        BY <3>4, <1>t, WithinWider
      <3>7. Within(asked, k, lo, now) \in Nat /\ Within(asked, k, from, hi) \in Nat /\ row.count \in Nat
        BY <1>w, <1>t, <3>3, <3>4
      <3>8. Within(asked, k, from, hi) > Limit
        <4> HIDE DEF row, lo, from, hi
        <4> QED
          BY ONLY <3>2, <3>5, <3>6, <3>7, <1>t
      <3> QED
        BY <2>2, <3>8, <1>r
    <2> QED
      BY <2>1, <2>2
  <1> QED
    BY <1>1, <1>2, <1>3, <1>4 DEF Counted

\* Initially.
LEMMA CountedStarts == ASSUME GuardInit, GuardInv PROVE Counted
  <1>a. GuardShape
    BY DEF GuardInv
  <1>t. /\ Limit \in Nat /\ Window \in Nat /\ Delay \in Nat /\ asked \in Histories /\ IsFiniteSet(Times)
        /\ now = 0 /\ \A w \in Workers : req[w].pc = "idle"
        /\ \A k \in Keys : counter[k] = NoWindow
        /\ \A i \in Instances, k \in Keys : local[i][k] = NoWindow
    BY <1>a, GuardTypes, GuardPcs DEF GuardInit
  <1>n. NoWindow.count = 0 /\ NoWindow.ends = 0
    BY DEF NoWindow
  <1>p. \A k, lo : Cardinality(ToCount(req, k, lo)) = 0
    <2> TAKE k, lo
    <2>1. ToCount(req, k, lo) = {}
      BY <1>t DEF ToCount
    <2> QED
      BY <2>1, FS_EmptySet
  <1>w. \A k \in Keys, lo \in Int, hi \in Int : Within(asked, k, lo, hi) \in Nat
    BY <1>t, WithinNat
  <1>1. AskedCovers
    BY <1>p, <1>w, <1>t DEF AskedCovers
  <1>2. SharedCovered
    <2> SUFFICES ASSUME NEW k \in Keys
                 PROVE  /\ 0 - Window <= 0
                        /\ 0 + Cardinality(ToCount(req, k, 0 - Window - Delay)) <= Within(asked, k, 0 - Window - Delay, 0)
      BY <1>t, <1>n DEF SharedCovered
    <2>1. 0 - Window - Delay \in Int /\ 0 \in Int
      BY <1>t
    <2>2. Within(asked, k, 0 - Window - Delay, 0) \in Nat
      BY <2>1, <1>w
    <2>3. Cardinality(ToCount(req, k, 0 - Window - Delay)) = 0
      BY <1>p
    <2> QED
      BY <1>t, <2>2, <2>3
  <1>3. LocalCovered
    <2> SUFFICES ASSUME NEW k \in Keys
                 PROVE  0 - Window <= 0 /\ 0 <= Within(asked, k, 0 - Window, 0)
      BY <1>t, <1>n DEF LocalCovered
    <2>1. 0 - Window \in Int /\ 0 \in Int
      BY <1>t
    <2>2. Within(asked, k, 0 - Window, 0) \in Nat
      BY <2>1, <1>w
    <2> QED
      BY <1>t, <2>2
  <1>4. RefusalsEarned
    BY <1>t DEF RefusalsEarned
  <1> QED
    BY <1>1, <1>2, <1>3, <1>4 DEF Counted

\* Every step keeps what refusals rest on.
LEMMA CountedStep ==
    ASSUME GuardInv, Counted, [GuardNext]_guardVars
    PROVE  Counted'
  <1>a. GuardShape /\ Timely /\ KeysTied
    BY DEF GuardInv
  <1>t. now \in Nat /\ counter \in [Keys -> GuardWindows] /\ local \in [Instances -> [Keys -> GuardWindows]]
        /\ req = [w \in Workers |-> req[w]]
    BY <1>a, GuardTypes DEF GuardShape
  <1>q. ASSUME now' = now, counter' = counter, local' = local, asked' = asked,
               \A w \in Workers : req'[w].pc \in {"count", "limited"} => req'[w] = req[w]
        PROVE  Counted'
    <2>1. Quiet
      BY <1>t, <1>q DEF Quiet
    <2> QED
      BY <2>1, <1>a, QuietKeeps
  <1>1. ASSUME NEW w \in Workers, Verify(w) PROVE Counted'
    <2>1. UNCHANGED <<counter, now>> /\ req[w].pc = "idle"
      BY <1>1, <1>a, VerifyMoves
    <2>2. CASE req' = [req EXCEPT ![w] = Refused] /\ UNCHANGED <<local, asked>>
      <3>1. \A v \in Workers : req'[v] \in {req[v], Refused}
        BY <1>t, <2>2
      <3> QED
        BY <2>1, <2>2, <3>1, <1>q, GuardPcs
    <2>3. ASSUME NEW i \in Instances, NEW k \in held,
                 CountLocally(i, k), asked' = [asked EXCEPT ![<<k, now>>] = @ + 1],
                 req'[w].key = k, req'[w].at = now,
                 req'[w].pc = IF localRefusal(i, k) THEN "limited" ELSE "count",
                 \A v \in Workers \ {w} : req'[v] = req[v]
          PROVE  Counted'
      <3>1. k \in Keys
        BY <1>a DEF GuardShape
      <3>2. AskedOnce(k)
        BY <1>a, <2>3, <3>1, AskedOnceHolds
      <3>3. PendingOnce(k)
        BY <1>a, <2>3, <3>1, PendingOnceHolds
      <3> QED
        BY <1>a, <2>1, <2>3, <3>1, <3>2, <3>3, AskedKeeps
    <2> QED
      BY <1>1, <1>a, <2>2, <2>3, VerifyMoves
  <1>2. ASSUME NEW w \in Workers, consumeShared(w) PROVE Counted'
    BY <1>2, <1>a, SharedKeeps
  <1>3. ASSUME NEW w \in Workers, FailOpen(w) \/ CheckAccount(w) \/ Leave(w) PROVE Counted'
    <2>1. ASSUME NEW to \in {"account", "done", "refused"}, Moved(w, to)
          PROVE  \A v \in Workers : req'[v].pc \in {"count", "limited"} => req'[v] = req[v]
      BY <1>a, <2>1, MovedFacts
    <2>2. CASE FailOpen(w)
      BY <2>2, <2>1, <1>a, <1>q, FailMoves, AfterPcs
    <2>3. CASE CheckAccount(w)
      <3>1. \E to \in {"account", "done", "refused"} : Moved(w, to)
        BY <2>3, <1>a, CheckMoves, AfterPcs
      <3>2. now' = now /\ counter' = counter /\ local' = local /\ asked' = asked
        BY <2>3, <1>a, CheckMoves DEF limits
      <3> QED
        BY <3>1, <3>2, <2>1, <1>q
    <2>4. CASE Leave(w)
      <3>1. \A v \in Workers : req'[v] \in {req[v], Vacant}
        BY <2>4, <1>a, <1>t, LeaveMoves
      <3>2. now' = now /\ counter' = counter /\ local' = local /\ asked' = asked
        BY <2>4, <1>a, LeaveMoves DEF limits
      <3> QED
        BY <3>1, <3>2, <1>q, GuardPcs
    <2> QED
      BY <1>3, <2>2, <2>3, <2>4
  <1>4. CASE Administer
    BY <1>4, <1>a, <1>q, AdministerMoves DEF Administered
  <1>5. CASE sweepRateLimits
    <2>1. \A k \in Keys : counter'[k] \in {counter[k], NoWindow}
      BY <1>5 DEF sweepRateLimits
    <2>2. UNCHANGED <<local, asked, now, req>>
      BY <1>5 DEF sweepRateLimits
    <2>3. Quiet
      BY <2>1, <2>2, <1>t DEF Quiet
    <2> QED
      BY <2>3, <1>a, QuietKeeps
  <1>6. CASE Tick
    <2>1. UNCHANGED <<local, counter, asked, req>> /\ now' = now + 1
      BY <1>6 DEF Tick, limits
    <2>2. Quiet
      BY <2>1, <1>t DEF Quiet
    <2> QED
      BY <2>2, <1>a, QuietKeeps
  <1>7. ASSUME NEW i \in Instances, Recycle(i) PROVE Counted'
    <2>1. UNCHANGED <<counter, asked, now>>
          /\ \A w \in Workers : req'[w] \in {Vacant, req[w]}
      BY <1>7 DEF Recycle
    <2>2. \A p \in Instances, k \in Keys : local'[p][k] \in {local[p][k], NoWindow}
      BY <1>7, <1>t DEF Recycle
    <2>3. Quiet
      BY <2>1, <2>2, <1>t, GuardPcs DEF Quiet
    <2> QED
      BY <2>3, <1>a, QuietKeeps
  <1>8. CASE UNCHANGED <<limits, now, req>>
    BY <1>8, <1>q DEF limits
  <1> QED
    BY <1>1, <1>2, <1>3, <1>4, <1>5, <1>6, <1>7, <1>8 DEF GuardNext, guardVars, Serve

\* A request is limited, by the map of its process or by the shared counter,
\* only when its key made more than the limit of requests within about a
\* window of it: no process counts for another window, however late its
\* statements run and whoever sweeps or empties the counters meanwhile.
THEOREM RefusalsAreEarned == GuardSpec => []RefusalsEarned
  <1>1. GuardInit => GuardInv /\ Counted
    BY GuardStarts, CountedStarts
  <1>2. GuardInv /\ Counted /\ [GuardNext]_guardVars => (GuardInv /\ Counted)'
    BY GuardStep, CountedStep
  <1>3. GuardInv /\ Counted => RefusalsEarned
    BY DEF Counted
  <1> QED
    BY <1>1, <1>2, <1>3, PTL DEF GuardSpec

-----------------------------------------------------------------------------
(* ApiGuard: how much the shared counter lets through *)

\* What was let through since lo.
Since(p, k, lo) == Within(p, k, lo, LastTime)

\* What was passed since an instant is a number that bounds every interval after it.
LEMMA SinceFacts ==
    ASSUME GuardShape, NEW p \in Histories, NEW k \in Keys, NEW lo \in Int, NEW from \in Int, lo <= from
    PROVE  /\ Since(p, k, lo) \in Nat /\ Since(p, k, from) \in Nat
           /\ Since(p, k, from) <= Since(p, k, lo)
           /\ \A to \in Int : Within(p, k, from, to) \in Nat /\ Within(p, k, from, to) <= Since(p, k, lo)
  <1>1. IsFiniteSet(Times) /\ Times = 0 .. LastTime /\ LastTime \in Nat
    BY GuardNumbers
  <1>2. Between(from, LastTime) \subseteq Between(lo, LastTime)
    BY <1>1 DEF Between
  <1>3. \A to \in Int : Between(from, to) \subseteq Between(lo, LastTime)
    BY <1>1 DEF Between
  <1>4. ASSUME NEW to \in Int
        PROVE  Within(p, k, from, to) \in Nat /\ Within(p, k, from, to) <= Within(p, k, lo, LastTime)
    BY <1>1, <1>3, WithinMore, WithinNat
  <1> QED
    BY <1>1, <1>2, <1>4, WithinMore, WithinNat DEF Since

\* One request passed is one more since any instant up to its call, and no other changes.
LEMMA SinceGrows ==
    ASSUME GuardShape, NEW p \in Histories, NEW k \in Keys, NEW at \in Times, NEW g, OneMore(p, g, k, at)
    PROVE  /\ g \in Histories
           /\ \A lo \in Int : /\ Since(g, k, lo) \in Nat /\ Since(p, k, lo) \in Nat
                              /\ Since(g, k, lo) <= Since(p, k, lo) + 1
                              /\ at < lo => Since(g, k, lo) = Since(p, k, lo)
           /\ \A j \in Keys \ {k}, lo \in Int : Since(g, j, lo) = Since(p, j, lo)
           /\ \A j \in Keys, lo \in Int, hi \in Int :
                ~(j = k /\ lo <= at /\ at <= hi) => Within(g, j, lo, hi) = Within(p, j, lo, hi)
  <1>1. IsFiniteSet(Times) /\ Times = 0 .. LastTime /\ LastTime \in Nat /\ Times \subseteq Nat /\ LastTime \in Int
    BY GuardNumbers
  <1>2. ASSUME NEW j \in Keys, NEW lo \in Int, NEW hi \in Int
        PROVE  /\ g \in Histories /\ Within(p, j, lo, hi) \in Nat
               /\ j = k /\ lo <= at /\ at <= hi => Within(g, j, lo, hi) = Within(p, j, lo, hi) + 1
               /\ ~(j = k /\ lo <= at /\ at <= hi) => Within(g, j, lo, hi) = Within(p, j, lo, hi)
    BY <1>1, WithinGrows
  <1>3. g \in Histories
    BY <1>1, <1>2
  <1>4. ASSUME NEW lo \in Int
        PROVE  /\ Since(g, k, lo) \in Nat /\ Since(p, k, lo) \in Nat
               /\ Since(g, k, lo) <= Since(p, k, lo) + 1
               /\ at < lo => Since(g, k, lo) = Since(p, k, lo)
    <2>1. at \in Int /\ LastTime \in Int
      BY <1>1
    <2>2. /\ Within(p, k, lo, LastTime) \in Nat
          /\ lo <= at /\ at <= LastTime => Within(g, k, lo, LastTime) = Within(p, k, lo, LastTime) + 1
          /\ ~(lo <= at /\ at <= LastTime) => Within(g, k, lo, LastTime) = Within(p, k, lo, LastTime)
      BY <1>2, <2>1
    <2> QED
      BY ONLY <2>1, <2>2, lo \in Int DEF Since
  <1>5. ASSUME NEW j \in Keys \ {k}, NEW lo \in Int
        PROVE  Since(g, j, lo) = Since(p, j, lo)
    BY <1>1, <1>2 DEF Since
  <1> QED
    BY <1>2, <1>3, <1>4, <1>5

\* No window is open, and the last one let little through.
Closed(row, p, time, k) ==
    /\ row = NoWindow
    /\ Since(p, k, time - 1) = 0 /\ Since(p, k, time - Window + Delay - 1) <= Limit

\* What a window has let through.
Let(row) == IF row.count <= Limit THEN row.count ELSE Limit

\* The window was opened at o, by a request that came up to Delay before.
Opened(row, p, time, k, o) ==
    /\ row.count >= 1
    /\ o - Delay <= row.ends - Window /\ row.ends - Window <= o /\ o <= time
    /\ Since(p, k, row.ends) = 0
    /\ \A lo \in Int : row.ends - Window <= lo /\ o - 1 <= lo => Since(p, k, lo) <= Let(row)
    /\ Since(p, k, o - Window + Delay - 1) <= Limit + Let(row)

\* A row is closed, or some window of it is open.
PacedRow(row, p, time, k) ==
    Closed(row, p, time, k) \/ \E o \in Nat : Opened(row, p, time, k, o)

\* The stretch TwiceAtMost is about is not empty.
Wide == Window + 1 >= 2 * Delay

\* The constants are positive numbers, and no window has counted nothing.
LEMMA GuardLimits ==
    ASSUME GuardShape
    PROVE  /\ Limit \in Nat /\ Window \in Nat /\ Delay \in Nat
           /\ Limit >= 1 /\ Window >= 1 /\ Delay >= 1
           /\ NoWindow.count = 0 /\ NoWindow.ends = 0
  BY GuardTypes DEF NoWindow

\* Time passing leaves a row paced.
LEMMA PacedLater ==
    ASSUME GuardShape, NEW p \in Histories, NEW k \in Keys, NEW row,
           NEW time \in Nat, NEW later \in Nat, time <= later, PacedRow(row, p, time, k)
    PROVE  PacedRow(row, p, later, k)
  <1>1. CASE Closed(row, p, time, k)
    <2>1. time - 1 \in Int /\ later - 1 \in Int /\ time - 1 <= later - 1
      OBVIOUS
    <2>2. time - Window + Delay - 1 \in Int /\ later - Window + Delay - 1 \in Int
          /\ time - Window + Delay - 1 <= later - Window + Delay - 1
      BY GuardLimits
    <2>3. Since(p, k, later - 1) \in Nat /\ Since(p, k, time - 1) \in Nat
          /\ Since(p, k, later - 1) <= Since(p, k, time - 1)
      BY <2>1, SinceFacts
    <2> DEFINE a == time - Window + Delay - 1
               b == later - Window + Delay - 1
    <2>4. Since(p, k, b) \in Nat /\ Since(p, k, a) \in Nat /\ Since(p, k, b) <= Since(p, k, a)
      <3> HIDE DEF a, b
      <3> QED
        BY <2>2, SinceFacts DEF a, b
    <2>5. Since(p, k, time - 1) = 0 /\ Since(p, k, a) <= Limit /\ Limit \in Nat
      BY <1>1, GuardLimits DEF Closed
    <2>6. Since(p, k, later - 1) = 0 /\ Since(p, k, b) <= Limit
      <3> HIDE DEF a, b
      <3> QED
        BY ONLY <2>3, <2>4, <2>5
    <2> QED
      BY <1>1, <2>6 DEF PacedRow, Closed
  <1>2. ASSUME NEW o \in Nat, Opened(row, p, time, k, o) PROVE PacedRow(row, p, later, k)
    BY <1>2 DEF PacedRow, Opened
  <1> QED
    BY <1>1, <1>2 DEF PacedRow

\* A window lets through at most the limit.
LEMMA LetFacts ==
    ASSUME GuardShape, NEW row \in GuardWindows
    PROVE  /\ row.count \in Nat /\ row.ends \in Nat /\ Let(row) \in Nat /\ Let(row) <= Limit
           /\ row.count >= 1 => Let(row) >= 1
  BY GuardLimits DEF GuardWindows, Let

\* A row swept once it is over leaves a paced row.
LEMMA PacedSwept ==
    ASSUME GuardShape, NEW p \in Histories, NEW k \in Keys, NEW row \in GuardWindows,
           NEW time \in Nat, PacedRow(row, p, time, k), row.ends < time
    PROVE  PacedRow(NoWindow, p, time, k)
  <1>1. CASE Closed(row, p, time, k)
    BY <1>1 DEF PacedRow, Closed
  <1>2. ASSUME NEW o \in Nat, Opened(row, p, time, k, o) PROVE PacedRow(NoWindow, p, time, k)
    <2> DEFINE a == time - Window + Delay - 1
    <2>t. /\ row.count \in Nat /\ row.ends \in Nat /\ Let(row) \in Nat /\ Let(row) <= Limit
          /\ Limit \in Nat /\ Window \in Nat /\ Delay \in Nat /\ Delay >= 1
      BY LetFacts, GuardLimits
    <2>1. /\ row.ends \in Int /\ time - 1 \in Int /\ row.ends <= time - 1
          /\ a \in Int /\ row.ends - Window <= a /\ o - 1 <= a
      BY <1>2, <2>t DEF Opened
    <2>2. Since(p, k, time - 1) = 0
      <3>1. Since(p, k, row.ends) = 0
        BY <1>2 DEF Opened
      <3>2. Since(p, k, time - 1) \in Nat /\ Since(p, k, time - 1) <= Since(p, k, row.ends)
        BY <2>1, SinceFacts
      <3> QED
        BY <3>1, <3>2
    <2>3. Since(p, k, a) <= Let(row) /\ Since(p, k, a) \in Nat
      <3> HIDE DEF a
      <3>1. Since(p, k, a) <= Let(row)
        BY <1>2, <2>1 DEF Opened
      <3>2. a <= a
        BY <2>1
      <3> QED
        BY <2>1, <3>1, <3>2, SinceFacts
    <2>4. Since(p, k, a) <= Limit
      <3> HIDE DEF a
      <3> QED
        BY ONLY <2>3, <2>t
    <2> QED
      BY <2>2, <2>4 DEF PacedRow, Closed
  <1> QED
    BY <1>1, <1>2 DEF PacedRow

\* A window is opened, at the time of a request that may be late.
LEMMA PacedOpens ==
    ASSUME GuardShape, Wide, NEW p \in Histories, NEW k \in Keys, NEW row \in GuardWindows,
           NEW time \in Nat, PacedRow(row, p, time, k),
           NEW at \in Times, at <= time, time <= at + Delay, row = NoWindow \/ row.ends <= at,
           NEW g, OneMore(p, g, k, at)
    PROVE  Opened([count |-> 1, ends |-> at + Window], g, time, k, time)
  <1> DEFINE new == [count |-> 1, ends |-> at + Window]
  <1>t. /\ Limit \in Nat /\ Window \in Nat /\ Delay \in Nat
        /\ Limit >= 1 /\ Window >= 1 /\ Delay >= 1
        /\ row.count \in Nat /\ row.ends \in Nat /\ Let(row) \in Nat /\ Let(row) <= Limit
        /\ at \in Nat /\ Window + 1 >= 2 * Delay
    BY LetFacts, GuardLimits, GuardTypes DEF Wide
  <1>g. \A lo \in Int : /\ Since(g, k, lo) \in Nat /\ Since(p, k, lo) \in Nat
                        /\ Since(g, k, lo) <= Since(p, k, lo) + 1
                        /\ at < lo => Since(g, k, lo) = Since(p, k, lo)
    BY SinceGrows
  <1>n. new.count = 1 /\ new.ends = at + Window /\ (at + Window) - Window = at /\ Let(new) = 1
    BY <1>t DEF Let
  <1>m. ASSUME NEW lo \in Int, NEW from \in Int, lo <= from
        PROVE  Since(p, k, from) <= Since(p, k, lo)
    BY <1>m, SinceFacts
  <1> DEFINE a == time - Window + Delay - 1
  <1>a. a \in Int
    BY <1>t
  <1>b. Since(p, k, a) <= Limit /\ \A lo \in Int : at <= lo /\ time - 1 <= lo => Since(p, k, lo) = 0
    <2>1. CASE Closed(row, p, time, k)
      <3>1. Since(p, k, a) <= Limit /\ Since(p, k, time - 1) = 0
        BY <2>1 DEF Closed
      <3>2. ASSUME NEW lo \in Int, time - 1 <= lo PROVE Since(p, k, lo) = 0
        <4>1. time - 1 \in Int
          OBVIOUS
        <4>2. Since(p, k, lo) <= Since(p, k, time - 1) /\ Since(p, k, lo) \in Nat
          BY <3>2, <4>1, <1>m, <1>g
        <4> QED
          BY <3>1, <4>2
      <3> QED
        BY <3>1, <3>2
    <2>2. ASSUME NEW o \in Nat, Opened(row, p, time, k, o)
          PROVE  Since(p, k, a) <= Limit /\ \A lo \in Int : at <= lo => Since(p, k, lo) = 0
      <3>0. row.ends <= at
        <4>1. row # NoWindow
          BY <2>2, GuardLimits DEF Opened
        <4> QED
          BY <4>1
      <3>1. row.ends - Window <= a /\ o - 1 <= a
        BY <2>2, <3>0, <1>t DEF Opened
      <3>2. Since(p, k, a) <= Let(row) /\ Since(p, k, row.ends) = 0
        <4> HIDE DEF a
        <4> QED
          BY <2>2, <3>1, <1>a DEF Opened
      <3>3. ASSUME NEW lo \in Int, at <= lo PROVE Since(p, k, lo) = 0
        <4>1. row.ends \in Int /\ row.ends <= lo
          BY <3>3, <3>0, <1>t
        <4>2. Since(p, k, lo) <= Since(p, k, row.ends) /\ Since(p, k, lo) \in Nat
          BY <4>1, <1>m, <1>g
        <4> QED
          BY <3>2, <4>2
      <3>4. Since(p, k, a) <= Limit
        <4>1. Since(p, k, a) \in Nat
          BY <1>g, <1>a
        <4> HIDE DEF a
        <4> QED
          BY ONLY <3>2, <1>t, <4>1
      <3> QED
        BY <3>3, <3>4
    <2> QED
      BY <2>1, <2>2 DEF PacedRow
  <1>1. time - Delay <= at /\ at <= time /\ time <= time
    BY <1>t
  <1>2. Since(g, k, at + Window) = 0
    <2>1. at + Window \in Int /\ at < at + Window /\ at <= at + Window /\ time - 1 <= at + Window
      BY <1>t, <1>1
    <2> QED
      BY <2>1, <1>b, <1>g
  <1>3. ASSUME NEW lo \in Int, at <= lo, time - 1 <= lo PROVE Since(g, k, lo) <= 1
    <2>1. Since(p, k, lo) = 0 /\ Since(g, k, lo) <= Since(p, k, lo) + 1 /\ Since(g, k, lo) \in Nat
      BY <1>3, <1>b, <1>g
    <2> QED
      BY ONLY <2>1
  <1>4. Since(g, k, a) <= Limit + 1
    <2>1. Since(p, k, a) <= Limit /\ Since(g, k, a) <= Since(p, k, a) + 1
          /\ Since(g, k, a) \in Nat /\ Since(p, k, a) \in Nat
      <3> HIDE DEF a
      <3> QED
        BY <1>a, <1>b, <1>g
    <2> HIDE DEF a
    <2> QED
      BY ONLY <2>1, <1>t
  <1> HIDE DEF new
  <1>5. Opened(new, g, time, k, time)
    BY <1>n, <1>1, <1>2, <1>3, <1>4 DEF Opened
  <1> QED
    BY <1>5 DEF new

\* One more is counted in the window, and let through if the limit allows.
LEMMA PacedCounts ==
    ASSUME GuardShape, NEW p \in Histories, NEW k \in Keys, NEW row \in GuardWindows,
           NEW time \in Nat, NEW o \in Nat, Opened(row, p, time, k, o),
           NEW at \in Times, at < row.ends, NEW g, OneMore(p, g, k, at),
           NEW new, new = [count |-> row.count + 1, ends |-> row.ends]
    PROVE  /\ new.count <= Limit => Opened(new, g, time, k, o)
           /\ ~(new.count <= Limit) => Opened(new, p, time, k, o)
  <1>t. /\ Limit \in Nat /\ Window \in Nat /\ Delay \in Nat
        /\ row.count \in Nat /\ row.ends \in Nat /\ Let(row) \in Nat /\ Let(row) <= Limit
        /\ at \in Nat
    BY LetFacts, GuardLimits, GuardTypes
  <1>n. /\ new.count = row.count + 1 /\ new.ends = row.ends /\ Let(new) \in Nat
        /\ new.count <= Limit => Let(new) = Let(row) + 1
        /\ Let(row) <= Let(new)
    BY <1>t DEF Let
  <1>g. \A lo \in Int : /\ Since(g, k, lo) \in Nat /\ Since(p, k, lo) \in Nat
                        /\ Since(g, k, lo) <= Since(p, k, lo) + 1
                        /\ at < lo => Since(g, k, lo) = Since(p, k, lo)
    BY SinceGrows
  <1> DEFINE a == o - Window + Delay - 1
  <1>o. /\ row.count >= 1 /\ o - Delay <= row.ends - Window /\ row.ends - Window <= o /\ o <= time
        /\ Since(p, k, row.ends) = 0
        /\ \A lo \in Int : row.ends - Window <= lo /\ o - 1 <= lo => Since(p, k, lo) <= Let(row)
        /\ Since(p, k, a) <= Limit + Let(row) /\ a \in Int
    BY <1>t DEF Opened
  <1> HIDE DEF a
  <1>1. CASE new.count <= Limit
    <2>1. Since(g, k, row.ends) = 0
      BY <1>g, <1>o, <1>t
    <2>2. ASSUME NEW lo \in Int, row.ends - Window <= lo, o - 1 <= lo PROVE Since(g, k, lo) <= Let(new)
      <3>1. Since(p, k, lo) <= Let(row) /\ Since(g, k, lo) <= Since(p, k, lo) + 1
            /\ Since(g, k, lo) \in Nat /\ Since(p, k, lo) \in Nat
        BY <2>2, <1>o, <1>g
      <3> QED
        BY ONLY <3>1, <1>1, <1>n, <1>t
    <2>3. Since(g, k, a) <= Limit + Let(new)
      <3>1. Since(p, k, a) <= Limit + Let(row) /\ Since(g, k, a) <= Since(p, k, a) + 1
            /\ Since(g, k, a) \in Nat /\ Since(p, k, a) \in Nat
        BY <1>o, <1>g
      <3> QED
        BY ONLY <3>1, <1>1, <1>n, <1>t
    <2>4. new.count >= 1
      BY <1>n, <1>o, <1>t
    <2> QED
      BY <1>1, <1>n, <1>o, <2>1, <2>2, <2>3, <2>4 DEF Opened, a
  <1>2. CASE ~(new.count <= Limit)
    <2>2. ASSUME NEW lo \in Int, row.ends - Window <= lo, o - 1 <= lo PROVE Since(p, k, lo) <= Let(new)
      <3>1. Since(p, k, lo) <= Let(row) /\ Since(p, k, lo) \in Nat
        BY <2>2, <1>o, <1>g
      <3> QED
        BY ONLY <3>1, <1>n, <1>t
    <2>3. Since(p, k, a) <= Limit + Let(new)
      <3>1. Since(p, k, a) <= Limit + Let(row) /\ Since(p, k, a) \in Nat
        BY <1>o, <1>g
      <3> QED
        BY ONLY <3>1, <1>n, <1>t
    <2>4. new.count >= 1
      BY <1>n, <1>o, <1>t
    <2> QED
      BY <1>2, <1>n, <1>o, <2>2, <2>3, <2>4 DEF Opened, a
  <1> QED
    BY <1>1, <1>2

\* The counting statement leaves its row paced: with one more passed when it
\* allows the request, and with nothing passed when it does not.
LEMMA PacedShares ==
    ASSUME GuardShape, Wide, NEW p \in Histories, NEW k \in Keys, NEW row \in GuardWindows,
           NEW time \in Nat, PacedRow(row, p, time, k),
           NEW at \in Times, at <= time, time <= at + Delay, NEW g, OneMore(p, g, k, at),
           NEW new, new = [count |-> share(row, at).count, ends |-> share(row, at).ends]
    PROVE  /\ share(row, at).allowed => \E o \in Nat : Opened(new, g, time, k, o)
           /\ ~share(row, at).allowed => \E o \in Nat : Opened(new, p, time, k, o)
  <1>t. /\ Limit \in Nat /\ Limit >= 1 /\ NoWindow.count = 0
        /\ row.count \in Nat /\ row.ends \in Nat /\ at \in Nat
    BY LetFacts, GuardLimits, GuardTypes
  <1>1. CASE row = NoWindow \/ row.ends <= at
    <2>1. new = [count |-> 1, ends |-> at + Window] /\ share(row, at).allowed
      BY <1>1, <1>t DEF share
    <2> QED
      BY <1>1, <2>1, PacedOpens
  <1>2. CASE ~(row = NoWindow \/ row.ends <= at)
    <2>1. /\ new = [count |-> row.count + 1, ends |-> row.ends] /\ at < row.ends
          /\ new.count = row.count + 1
          /\ share(row, at).allowed <=> row.count + 1 <= Limit
      <3>1. share(row, at) = [count |-> row.count + 1, ends |-> row.ends, allowed |-> row.count + 1 <= Limit]
        BY <1>2 DEF share
      <3>2. at < row.ends
        BY <1>2, <1>t
      <3>3. /\ share(row, at).count = row.count + 1 /\ share(row, at).ends = row.ends
            /\ share(row, at).allowed = (row.count + 1 <= Limit)
        BY <3>1
      <3>4. new = [count |-> row.count + 1, ends |-> row.ends]
        BY <3>3
      <3>5. new.count = row.count + 1
        BY <3>4
      <3> QED
        BY <3>2, <3>3, <3>4, <3>5
    <2>2. PICK o \in Nat : Opened(row, p, time, k, o)
      BY <1>2 DEF PacedRow, Closed
    <2>3. /\ row.count + 1 <= Limit => Opened(new, g, time, k, o)
          /\ ~(row.count + 1 <= Limit) => Opened(new, p, time, k, o)
      BY <2>1, <2>2, PacedCounts
    <2> QED
      BY <2>1, <2>3
  <1> QED
    BY <1>1, <1>2

\* What a window that has just counted a request says of the intervals the
\* request is in.
LEMMA OpenedBounds ==
    ASSUME GuardShape, NEW g \in Histories, NEW k \in Keys, NEW row \in GuardWindows,
           NEW time \in Nat, NEW o \in Nat, Opened(row, g, time, k, o),
           NEW at \in Times, time <= at + Delay,
           NEW t \in Int, NEW to \in Int, to = t + Window - 2 * Delay + 1, at <= to
    PROVE  Within(g, k, t, to) <= 2 * Limit
  <1> DEFINE a == o - Window + Delay - 1
  <1>t. /\ Limit \in Nat /\ Window \in Nat /\ Delay \in Nat /\ at \in Nat
        /\ Let(row) \in Nat /\ Let(row) <= Limit
    BY LetFacts, GuardLimits, GuardTypes
  <1>1. a \in Int /\ a <= t
    BY <1>t DEF Opened
  <1>2. Since(g, k, a) <= Limit + Let(row)
    BY DEF Opened
  <1> HIDE DEF a
  <1>3. Since(g, k, a) \in Nat /\ Within(g, k, t, to) \in Nat /\ Within(g, k, t, to) <= Since(g, k, a)
    BY <1>1, SinceFacts
  <1> QED
    BY ONLY <1>t, <1>2, <1>3

\* Every key's row is paced.
Paced == Wide => \A k \in Keys : PacedRow(counter[k], passed, now, k)

\* Nothing passed keeps the property.
LEMMA TwiceKeeps ==
    ASSUME GuardShape, UNCHANGED passed, TwiceAtMost
    PROVE  TwiceAtMost'
  BY DEF TwiceAtMost

\* When statements may be later than half a window the stretch has no instant.
LEMMA NarrowIsEmpty ==
    ASSUME GuardShape, ~Wide, NEW p \in Histories, NEW k \in Keys, NEW t \in Times
    PROVE  Within(p, k, t, t + Window - 2 * Delay + 1) <= 2 * Limit
  <1> DEFINE to == t + Window - 2 * Delay + 1
  <1>t. /\ Limit \in Nat /\ Window \in Nat /\ Delay \in Nat /\ t \in Nat
        /\ IsFiniteSet(Times) /\ Times \subseteq Nat
    BY GuardLimits, GuardTypes
  <1>1. to < t /\ to \in Int
    BY <1>t DEF Wide
  <1> HIDE DEF to
  <1>2. Between(t, to) = {}
    <2> SUFFICES ASSUME NEW x \in Times, t <= x, x <= to PROVE FALSE
      BY DEF Between
    <2>1. x \in Nat
      BY <1>t
    <2> QED
      BY <2>1, <1>1, <1>t
  <1>3. Within(p, k, t, to) = Total(AtKey(p, k), Between(t, to)) /\ IsFiniteSet(Between(t, to))
    BY <1>t, WithinIs
  <1>4. Total(AtKey(p, k), {}) = 0
    BY FS_EmptySet, TotalFacts
  <1>5. Within(p, k, t, to) = 0 /\ 0 <= 2 * Limit
    BY <1>t, <1>2, <1>3, <1>4
  <1> QED
    BY <1>5 DEF to

\* The counting statement keeps every row paced, and the property with them.
LEMMA PacedCountStep ==
    ASSUME GuardInv, GuardShape', Paced, TwiceAtMost, NEW w \in Workers, consumeShared(w)
    PROVE  (Paced /\ TwiceAtMost)'
  <1>a. GuardShape /\ Timely
    BY DEF GuardInv
  <1> DEFINE k == req[w].key
             at == req[w].at
             row == counter[k]
             made == share(row, at)
             new == [count |-> made.count, ends |-> made.ends]
             g == [passed EXCEPT ![<<k, at>>] = @ + 1]
  <1>t. /\ now \in Nat /\ passed \in Histories /\ Limit \in Nat /\ Window \in Nat /\ Delay \in Nat
        /\ k \in Keys /\ at \in Times /\ at \in Nat /\ Times \subseteq Nat
        /\ at <= now /\ now <= at + Delay
        /\ counter \in [Keys -> GuardWindows] /\ row \in GuardWindows
    <2>1. req[w].pc = "count"
      BY <1>a, CountMoves
    <2> QED
      BY <1>a, <2>1, GuardTypes DEF Timely, GuardShape
  <1>m. /\ now' = now /\ counter' = [counter EXCEPT ![k] = new]
        /\ passed' = IF made.allowed THEN g ELSE passed
    BY <1>a, CountMoves
  <1>g. OneMore(passed, g, k, at)
    BY DEF OneMore
  <1>n. new \in GuardWindows
    BY <1>a, <1>t, ShareTyped DEF GuardWindows
  <1> HIDE DEF g, new, made, row, k, at
  <1>c. counter'[k] = new /\ \A j \in Keys \ {k} : counter'[j] = counter[j]
    BY <1>t, <1>m
  <1>s. /\ g \in Histories
        /\ \A j \in Keys \ {k}, lo \in Int : Since(g, j, lo) = Since(passed, j, lo)
        /\ \A j \in Keys, lo \in Int, hi \in Int :
                ~(j = k /\ lo <= at /\ at <= hi) => Within(g, j, lo, hi) = Within(passed, j, lo, hi)
    BY <1>a, <1>t, <1>g, SinceGrows
  <1>o. Wide => /\ made.allowed => \E o \in Nat : Opened(new, g, now, k, o)
                /\ ~made.allowed => \E o \in Nat : Opened(new, passed, now, k, o)
    <2>1. Wide => PacedRow(row, passed, now, k)
      BY <1>t DEF Paced, row
    <2> QED
      BY <1>a, <1>t, <1>g, <2>1, PacedShares DEF new, made
  <1>1. Paced'
    <2> SUFFICES ASSUME Wide, NEW j \in Keys PROVE PacedRow(counter'[j], passed', now, j)
      BY <1>m DEF Paced, Wide
    <2>1. CASE j = k
      BY <2>1, <1>o, <1>m, <1>c DEF PacedRow
    <2>2. CASE j # k
      <3>1. PacedRow(counter[j], passed, now, j) /\ counter'[j] = counter[j]
        BY <2>2, <1>c DEF Paced
      <3>2. \A lo \in Int : Since(passed', j, lo) = Since(passed, j, lo)
        BY <2>2, <1>m, <1>s
      <3>3. counter[j] \in GuardWindows
        BY <1>t
      <3>4. PacedRow(counter[j], passed', now, j)
        <4>1. now - 1 \in Int /\ now - Window + Delay - 1 \in Int
          BY <1>t
        <4>2. CASE Closed(counter[j], passed, now, j)
          <5>1. Since(passed', j, now - 1) = Since(passed, j, now - 1)
                /\ Since(passed', j, now - Window + Delay - 1) = Since(passed, j, now - Window + Delay - 1)
            BY <3>2, <4>1
          <5> QED
            BY <4>2, <5>1 DEF PacedRow, Closed
        <4>3. ASSUME NEW o \in Nat, Opened(counter[j], passed, now, j, o) PROVE PacedRow(counter[j], passed', now, j)
          <5>1. counter[j].ends \in Int /\ o - Window + Delay - 1 \in Int
            BY <3>3, <1>t DEF GuardWindows
          <5>2. Since(passed', j, counter[j].ends) = Since(passed, j, counter[j].ends)
                /\ Since(passed', j, o - Window + Delay - 1) = Since(passed, j, o - Window + Delay - 1)
            BY <3>2, <5>1
          <5>3. Opened(counter[j], passed', now, j, o)
            BY <4>3, <5>2, <3>2 DEF Opened
          <5> QED
            BY <5>3 DEF PacedRow
        <4> QED
          BY <3>1, <4>2, <4>3 DEF PacedRow
      <3> QED
        BY <3>1, <3>4
    <2> QED
      BY <2>1, <2>2
  <1>2. TwiceAtMost'
    <2> SUFFICES ASSUME NEW j \in Keys, NEW t \in Times
                 PROVE  Within(passed', j, t, t + Window - 2 * Delay + 1) <= 2 * Limit
      BY DEF TwiceAtMost
    <2> DEFINE to == t + Window - 2 * Delay + 1
    <2>0. to \in Int /\ t \in Int /\ t \in Nat /\ Within(passed, j, t, to) <= 2 * Limit
      BY <1>t DEF TwiceAtMost
    <2>1. CASE passed' = passed
      BY <2>0, <2>1
    <2>2. CASE ~Wide
      <3>1. passed' \in Histories
        BY DEF GuardShape
      <3> QED
        BY <2>2, <3>1, <1>a, NarrowIsEmpty
    <2>3. CASE Wide /\ made.allowed
      <3>1. passed' = g
        BY <2>3, <1>m
      <3>2. CASE j = k /\ t <= at /\ at <= to
        <4>1. PICK o \in Nat : Opened(new, g, now, k, o)
          BY <2>3, <1>o
        <4>2. to = t + Window - 2 * Delay + 1
          OBVIOUS
        <4> HIDE DEF to
        <4>3. Within(g, k, t, to) <= 2 * Limit
          BY <1>a, <1>t, <1>n, <1>s, <2>0, <3>2, <4>1, <4>2, OpenedBounds
        <4> QED
          BY <3>1, <3>2, <4>3 DEF to
      <3>3. CASE ~(j = k /\ t <= at /\ at <= to)
        <4>1. Within(g, j, t, to) = Within(passed, j, t, to)
          <5> HIDE DEF to
          <5> QED
            BY <1>s, <2>0, <3>3
        <4> QED
          BY <2>0, <3>1, <4>1
      <3> QED
        BY <3>2, <3>3
    <2>4. ~made.allowed => passed' = passed
      BY <1>m
    <2> QED
      BY <2>1, <2>2, <2>3, <2>4
  <1> QED
    BY <1>1, <1>2

\* Initially.
LEMMA PacedStarts == ASSUME GuardInit, GuardInv PROVE Paced /\ TwiceAtMost
  <1>a. GuardShape
    BY DEF GuardInv
  <1>t. /\ Limit \in Nat /\ Window \in Nat /\ Delay \in Nat /\ passed \in Histories
        /\ IsFiniteSet(Times) /\ now = 0 /\ \A k \in Keys : counter[k] = NoWindow
        /\ \A k \in Keys, t \in Times : passed[<<k, t>>] = 0
    BY <1>a, GuardTypes DEF GuardInit
  <1>w. ASSUME NEW k \in Keys, NEW lo, NEW hi PROVE Within(passed, k, lo, hi) = 0
    BY <1>t, WithinZero
  <1>1. Paced
    <2> SUFFICES ASSUME NEW k \in Keys PROVE Closed(NoWindow, passed, 0, k)
      BY <1>t DEF Paced, PacedRow
    <2>1. \A lo : Since(passed, k, lo) = 0
      BY <1>w DEF Since
    <2> QED
      BY <2>1, <1>t DEF Closed
  <1>2. TwiceAtMost
    <2>1. 0 <= 2 * Limit
      BY <1>t
    <2> QED
      BY <1>w, <2>1 DEF TwiceAtMost
  <1> QED
    BY <1>1, <1>2

\* So does every step.
LEMMA PacedStep ==
    ASSUME GuardInv, GuardInv', Paced, TwiceAtMost, [GuardNext]_guardVars
    PROVE  (Paced /\ TwiceAtMost)'
  <1>a. GuardShape /\ Timely /\ KeysTied /\ GuardShape'
    BY DEF GuardInv
  <1>t. now \in Nat /\ now' \in Nat /\ passed \in Histories /\ counter \in [Keys -> GuardWindows]
    BY <1>a, GuardTypes DEF GuardShape
  \* Whatever neither counts nor deletes a row.
  <1>q. ASSUME counter' = counter, passed' = passed, now <= now' PROVE (Paced /\ TwiceAtMost)'
    <2>1. Wide => \A k \in Keys : PacedRow(counter[k], passed, now', k)
      BY <1>a, <1>t, <1>q, PacedLater DEF Paced
    <2> QED
      BY <1>a, <1>q, <2>1, TwiceKeeps DEF Paced, Wide
  <1>n. now <= now
    BY <1>t
  <1>1. ASSUME NEW w \in Workers, consumeShared(w) PROVE (Paced /\ TwiceAtMost)'
    BY <1>1, <1>a, PacedCountStep
  <1>2. ASSUME NEW w \in Workers, Verify(w) \/ FailOpen(w) \/ CheckAccount(w) \/ Leave(w)
        PROVE  (Paced /\ TwiceAtMost)'
    <2>1. counter' = counter /\ passed' = passed /\ now' = now
      BY <1>2, <1>a, VerifyMoves, FailMoves, CheckMoves, LeaveMoves DEF limits
    <2> QED
      BY <2>1, <1>q, <1>n
  <1>3. CASE Administer
    BY <1>3, <1>a, <1>q, <1>n, AdministerMoves DEF Administered
  <1>4. CASE sweepRateLimits
    <2>1. /\ passed' = passed /\ now' = now
          /\ counter' = [k \in Keys |-> IF counter[k].ends < now THEN NoWindow ELSE counter[k]]
      BY <1>4 DEF sweepRateLimits
    <2>2. ASSUME Wide, NEW k \in Keys PROVE PacedRow(counter'[k], passed, now, k)
      <3>1. PacedRow(counter[k], passed, now, k) /\ counter[k] \in GuardWindows
        BY <2>2, <1>t DEF Paced
      <3>2. CASE counter[k].ends < now
        BY <3>1, <3>2, <1>a, <1>t, <2>1, PacedSwept
      <3>3. CASE ~(counter[k].ends < now)
        BY <3>1, <3>3, <2>1
      <3> QED
        BY <3>2, <3>3
    <2> QED
      BY <1>a, <2>1, <2>2, TwiceKeeps DEF Paced, Wide
  <1>5. CASE Tick
    <2>1. counter' = counter /\ passed' = passed /\ now' = now + 1
      BY <1>5 DEF Tick, limits
    <2> QED
      BY <2>1, <1>q, <1>t
  <1>6. ASSUME NEW i \in Instances, Recycle(i) PROVE (Paced /\ TwiceAtMost)'
    <2>1. counter' = counter /\ passed' = passed /\ now' = now
      BY <1>6 DEF Recycle
    <2> QED
      BY <2>1, <1>q, <1>n
  <1>7. CASE UNCHANGED <<limits, now>>
    BY <1>7, <1>q, <1>n DEF limits
  <1> QED
    BY <1>1, <1>2, <1>3, <1>4, <1>5, <1>6, <1>7 DEF GuardNext, guardVars, Serve

\* Whatever the number of processes, workers and sweeps, no key has more than
\* twice the limit of its requests passed in a stretch of a window less twice
\* what a counting statement may be late beyond one unit: at most two windows
\* of a row reach into such a stretch.
THEOREM TwiceTheLimitAtMost == GuardSpec => []TwiceAtMost
  <1>1. GuardInit => GuardInv /\ Paced /\ TwiceAtMost
    BY GuardStarts, PacedStarts
  <1>2. GuardInv /\ Paced /\ TwiceAtMost /\ [GuardNext]_guardVars => (GuardInv /\ Paced /\ TwiceAtMost)'
    BY GuardStep, PacedStep
  <1> QED
    BY <1>1, <1>2, PTL DEF GuardSpec

-----------------------------------------------------------------------------
(* DecisionLog: where every decision is *)

\* What is counted by subject and outcome.
Tallies == [Subjects -> [Outcomes -> Nat]]

\* A process's window: the record, with numbers in it.
WindowOK(m) ==
    /\ m = [summaries |-> m.summaries, dropped |-> m.dropped, lastFlush |-> m.lastFlush]
    /\ \A s \in DOMAIN m.summaries : m.summaries[s].count \in [Outcomes -> Nat]

\* What it holds of a subject's decisions.
Unflushed(m, s, o) == SummaryOf(m.summaries, s).count[o]

\* The same, of every instance.
AllUnflushed(mm, s, o) == [i \in Instances |-> Unflushed(mm[i], s, o)]

\* What each variable holds.
DecisionShape ==
    /\ metrics = [i \in Instances |-> metrics[i]] /\ \A i \in Instances : WindowOK(metrics[i])
    /\ {auditLog, decided, losses} \subseteq Tallies

\* What an instance has not written is a natural number.
LEMMA UnflushedNat ==
    ASSUME NEW m, WindowOK(m), NEW s, NEW o \in Outcomes
    PROVE  /\ Unflushed(m, s, o) \in Nat /\ SummaryOf(m.summaries, s).count \in [Outcomes -> Nat]
           /\ Unflushed(m, s, o) = SummaryOf(m.summaries, s).count[o]
  <1>1. NoSummary.count \in [Outcomes -> Nat]
    BY DEF NoSummary
  <1> QED
    BY <1>1 DEF WindowOK, Unflushed, SummaryOf

\* What all have not written is a sum over the instances.
LEMMA UnflushedSum ==
    ASSUME NEW mm, \A i \in Instances : WindowOK(mm[i]), NEW s, NEW o \in Outcomes
    PROVE  Unwritten(mm, s, o) = Total(AllUnflushed(mm, s, o), Instances)
  <1> DEFINE S == Instances
             f == AllUnflushed(mm, s, o)
             Sums(g) == g = [T \in SUBSET S |->
                 IF T = {} THEN 0 ELSE SummaryOf(mm[Pick(T)].summaries, s).count[o] + g[T \ {Pick(T)}]]
  <1>1. IsFiniteSet(S) /\ \A x \in S : f[x] \in Nat /\ f[x] = SummaryOf(mm[x].summaries, s).count[o]
    BY DecisionAssumption, UnflushedNat DEF AllUnflushed
  <1>2. \A T \in SUBSET S : T # {} =>
          /\ Pick(T) \in S /\ T \ {Pick(T)} \in SUBSET S /\ f[Pick(T)] \in Nat
          /\ f[Pick(T)] = SummaryOf(mm[Pick(T)].summaries, s).count[o]
    BY <1>1, PickIn
  <1> HIDE DEF f
  <1>3. PICK h : Adds(h, f, S) /\ Total(f, S) = h[S]
    BY <1>1, TotalAdds
  <1>4. \A T \in SUBSET S : h[T] \in Nat
    BY <1>1, <1>3, AddsAny
  <1>5. Sums(h)
    <2>1. h = [T \in SUBSET S |-> IF T = {} THEN 0 ELSE h[T \ {Pick(T)}] + f[Pick(T)]]
      BY <1>3 DEF Adds
    <2>2. \A T \in SUBSET S : T # {} =>
            h[T \ {Pick(T)}] + f[Pick(T)] = SummaryOf(mm[Pick(T)].summaries, s).count[o] + h[T \ {Pick(T)}]
      BY <1>2, <1>4
    <2> QED
      BY <2>1, <2>2
  <1>6. PICK g : Sums(g) /\ Unwritten(mm, s, o) = g[S]
    BY <1>5 DEF Unwritten, MapThenSumSet, MapThenFoldSet, Pick
  <1>7. \A T \in SUBSET S : g[T] = h[T]
    <2> DEFINE B == {T \in SUBSET S : g[T] # h[T]}
    <2> SUFFICES ASSUME B # {} PROVE FALSE
      OBVIOUS
    <2>1. PICK T \in B : \A x \in T : T \ {x} \notin B
      <3>1. B \subseteq SUBSET S
        OBVIOUS
      <3> HIDE DEF B
      <3> QED
        BY <1>1, <3>1, LeastSubset
    <2>2. T \in SUBSET S /\ g[T] # h[T]
      BY <2>1
    <2>3. CASE T = {}
      BY <2>2, <2>3, <1>5, <1>6
    <2>4. CASE T # {}
      <3>1. Pick(T) \in T /\ T \ {Pick(T)} \in SUBSET S
        BY <1>2, <2>2, <2>4, PickIn
      <3>2. g[T \ {Pick(T)}] = h[T \ {Pick(T)}]
        BY <2>1, <3>1
      <3> QED
        BY <2>2, <2>4, <3>2, <1>5, <1>6
    <2> QED
      BY <2>3, <2>4
  <1> QED
    BY <1>3, <1>6, <1>7 DEF f

\* One instance's part of a sum changes.
LEMMA TotalTurns ==
    ASSUME NEW S, IsFiniteSet(S), NEW f, NEW e, NEW y \in S,
           \A x \in S : f[x] \in Nat /\ e[x] \in Nat /\ (x # y => e[x] = f[x])
    PROVE  /\ Total(f, S) \in Nat /\ Total(e, S) \in Nat
           /\ Total(e, S) + f[y] = Total(f, S) + e[y]
  <1>1. IsFiniteSet(S \ {y})
    BY FS_RemoveElement
  <1>2. Total(e, S \ {y}) = Total(f, S \ {y}) /\ Total(f, S \ {y}) \in Nat
    BY <1>1, TotalSame, TotalFacts
  <1>3. /\ Total(e, S) = Total(e, S \ {y}) + e[y] /\ Total(f, S) = Total(f, S \ {y}) + f[y]
        /\ Total(f, S) \in Nat /\ Total(e, S) \in Nat
    BY TotalFacts
  <1> QED
    BY <1>2, <1>3

\* Tallies hold numbers.
LEMMA TallyFacts == \A t \in Tallies, s \in Subjects, o \in Outcomes : t[s][o] \in Nat
  BY DEF Tallies

\* What a decision, or a lost one, adds to a tally.
LEMMA PlusFacts ==
    ASSUME NEW t \in Tallies, NEW s \in Subjects, NEW outcome \in Outcomes
    PROVE  /\ Plus(t, s, outcome, 1) \in Tallies
           /\ \A x \in Subjects, o \in Outcomes :
                Plus(t, s, outcome, 1)[x][o] = IF x = s /\ o = outcome THEN t[x][o] + 1 ELSE t[x][o]
  <1> DEFINE row == [t[s] EXCEPT ![outcome] = @ + 1]
             r == [t EXCEPT ![s] = row]
  <1>1. t[s] \in [Outcomes -> Nat]
    BY DEF Tallies
  <1>2. row \in [Outcomes -> Nat] /\ \A o \in Outcomes : row[o] = IF o = outcome THEN t[s][o] + 1 ELSE t[s][o]
    BY <1>1
  <1> HIDE DEF row
  <1>3. r \in Tallies /\ \A x \in Subjects : r[x] = IF x = s THEN row ELSE t[x]
    BY <1>2 DEF Tallies
  <1>4. \A x \in Subjects, o \in Outcomes : r[x][o] = IF x = s /\ o = outcome THEN t[x][o] + 1 ELSE t[x][o]
    BY <1>2, <1>3
  <1>5. Plus(t, s, outcome, 1) = r
    BY DEF Plus, row
  <1> HIDE DEF r
  <1> QED
    BY <1>3, <1>4, <1>5

\* What a window adds to a tally.
LEMMA WithSummaryFacts ==
    ASSUME NEW t \in Tallies, NEW m, WindowOK(m)
    PROVE  /\ WithSummary(t, m.summaries) \in Tallies
           /\ \A x \in Subjects, o \in Outcomes :
                WithSummary(t, m.summaries)[x][o] = t[x][o] + Unflushed(m, x, o)
  <1>1. ASSUME NEW x \in Subjects, NEW o \in Outcomes
        PROVE  /\ Unflushed(m, x, o) \in Nat /\ Unflushed(m, x, o) = SummaryOf(m.summaries, x).count[o]
               /\ t[x][o] \in Nat
    BY UnflushedNat, TallyFacts
  <1>2. WithSummary(t, m.summaries) =
          [x \in Subjects |-> [o \in Outcomes |-> t[x][o] + SummaryOf(m.summaries, x).count[o]]]
    BY DEF WithSummary
  <1> QED
    BY <1>1, <1>2 DEF Tallies

\* A step that leaves one process's window changed, having put what was in it,
\* in the log and in the losses, somewhere.
Balanced(i, gone, m) ==
    /\ \E after : /\ WindowOK(after) /\ metrics' = [metrics EXCEPT ![i] = after]
                  /\ \A x \in Subjects, o \in Outcomes :
                       auditLog'[x][o] + losses'[x][o] + Unflushed(after, x, o)
                         = auditLog[x][o] + gone[x][o] + Unflushed(m, x, o)
    /\ auditLog' \in Tallies /\ losses' \in Tallies

\* An empty window.
LEMMA EmptyFacts ==
    ASSUME NEW n, NEW m, m = [summaries |-> Untracked, dropped |-> 0, lastFlush |-> n]
    PROVE  WindowOK(m) /\ \A x : \A o \in Outcomes : Unflushed(m, x, o) = 0
  <1>1. m.summaries = Untracked /\ DOMAIN Untracked = {}
    BY DEF Untracked
  <1>2. \A o \in Outcomes : NoSummary.count[o] = 0
    BY DEF NoSummary
  <1>3. \A x : SummaryOf(m.summaries, x) = NoSummary
    BY <1>1 DEF SummaryOf
  <1>4. ASSUME NEW x, NEW o \in Outcomes PROVE Unflushed(m, x, o) = 0
    BY <1>2, <1>3 DEF Unflushed
  <1> QED
    BY <1>1, <1>4 DEF WindowOK

\* A flush balances: what leaves the window was written or lost.
LEMMA FlushedBalances ==
    ASSUME NEW i, NEW m, WindowOK(m), auditLog \in Tallies, NEW gone \in Tallies, Flushed(i, m, gone)
    PROVE  Balanced(i, gone, m)
  <1> DEFINE after == drain(m)
  <1>1. WindowOK(after) /\ \A x : \A o \in Outcomes : Unflushed(after, x, o) = 0
    BY EmptyFacts DEF drain
  <1>2. metrics' = [metrics EXCEPT ![i] = after]
    BY DEF Flushed
  <1> HIDE DEF after
  <1>3. ASSUME NEW x \in Subjects, NEW o \in Outcomes
        PROVE  /\ Unflushed(m, x, o) \in Nat /\ auditLog[x][o] \in Nat /\ gone[x][o] \in Nat
    BY UnflushedNat, TallyFacts
  <1>4. CASE auditLog' = WithSummary(auditLog, m.summaries) /\ losses' = gone
    <2>1. /\ auditLog' \in Tallies
          /\ \A x \in Subjects, o \in Outcomes : auditLog'[x][o] = auditLog[x][o] + Unflushed(m, x, o)
      BY <1>4, WithSummaryFacts
    <2>2. ASSUME NEW x \in Subjects, NEW o \in Outcomes
          PROVE  auditLog'[x][o] + losses'[x][o] + Unflushed(after, x, o)
                         = auditLog[x][o] + gone[x][o] + Unflushed(m, x, o)
      BY <1>1, <1>3, <1>4, <2>1
    <2> QED
      BY <1>1, <1>2, <1>4, <2>1, <2>2 DEF Balanced
  <1>5. CASE auditLog' = auditLog /\ losses' = WithSummary(gone, m.summaries)
    <2>1. /\ losses' \in Tallies
          /\ \A x \in Subjects, o \in Outcomes : losses'[x][o] = gone[x][o] + Unflushed(m, x, o)
      BY <1>5, WithSummaryFacts
    <2>2. ASSUME NEW x \in Subjects, NEW o \in Outcomes
          PROVE  auditLog'[x][o] + losses'[x][o] + Unflushed(after, x, o)
                         = auditLog[x][o] + gone[x][o] + Unflushed(m, x, o)
      BY <1>1, <1>3, <1>5, <2>1
    <2> QED
      BY <1>1, <1>2, <1>5, <2>1, <2>2 DEF Balanced
  <1> QED
    BY <1>4, <1>5 DEF Flushed

\* So does a step that keeps the summaries.
LEMMA KeptBalances ==
    ASSUME NEW i, NEW m, WindowOK(m), auditLog \in Tallies, NEW gone \in Tallies, NEW after,
           WindowOK(after), after.summaries = m.summaries,
           metrics' = [metrics EXCEPT ![i] = after], auditLog' = auditLog, losses' = gone
    PROVE  Balanced(i, gone, m)
  BY DEF Balanced, Unflushed

\* The time of the last flush is no part of the summaries.
LEMMA LastFlushOnly ==
    ASSUME NEW m, WindowOK(m), NEW n
    PROVE  WindowOK([m EXCEPT !.lastFlush = n]) /\ [m EXCEPT !.lastFlush = n].summaries = m.summaries
  <1> DEFINE y == [summaries |-> m.summaries, dropped |-> m.dropped, lastFlush |-> n]
  <1>1. m = [summaries |-> m.summaries, dropped |-> m.dropped, lastFlush |-> m.lastFlush]
    BY DEF WindowOK
  <1>2. [m EXCEPT !.lastFlush = n] = y
    BY ONLY <1>1
  <1>3. WindowOK(y) /\ y.summaries = m.summaries
    BY DEF WindowOK
  <1> QED
    BY <1>2, <1>3

\* The balance of a subject, the sum over the processes being Total.
Balance(d, a, l, mm, x, o) == d[x][o] = a[x][o] + l[x][o] + Total(AllUnflushed(mm, x, o), Instances)

\* Accounted, subject by subject.
LEMMA AccountedIs ==
    /\ DecisionShape =>
         (Accounted <=> \A x \in Subjects, o \in Outcomes : Balance(decided, auditLog, losses, metrics, x, o))
    /\ DecisionShape' =>
         (Accounted' <=> \A x \in Subjects, o \in Outcomes : Balance(decided', auditLog', losses', metrics', x, o))
  <1>1. ASSUME DecisionShape
        PROVE  Accounted <=> \A x \in Subjects, o \in Outcomes : Balance(decided, auditLog, losses, metrics, x, o)
    <2>1. \A x : \A o \in Outcomes : Unwritten(metrics, x, o) = Total(AllUnflushed(metrics, x, o), Instances)
      BY <1>1, UnflushedSum DEF DecisionShape
    <2> QED
      BY <2>1 DEF Accounted, Balance
  <1>2. ASSUME DecisionShape'
        PROVE  Accounted' <=> \A x \in Subjects, o \in Outcomes : Balance(decided', auditLog', losses', metrics', x, o)
    <2>1. \A x : \A o \in Outcomes : Unwritten(metrics', x, o) = Total(AllUnflushed(metrics', x, o), Instances)
      BY <1>2, UnflushedSum DEF DecisionShape
    <2> QED
      BY <2>1 DEF Accounted, Balance
  <1> QED
    BY <1>1, <1>2

\* A step of one instance that balances leaves every decision accounted for.
LEMMA BalancedSettles ==
    ASSUME DecisionShape, Accounted, NEW i \in Instances, NEW gone \in Tallies,
           NEW m, WindowOK(m), Balanced(i, gone, m), decided' \in Tallies,
           \A x \in Subjects, o \in Outcomes :
              decided'[x][o] + losses[x][o] + Unflushed(metrics[i], x, o)
                = decided[x][o] + gone[x][o] + Unflushed(m, x, o)
    PROVE  (DecisionShape /\ Accounted)'
  <1>1. PICK after : /\ WindowOK(after) /\ metrics' = [metrics EXCEPT ![i] = after]
                     /\ \A x \in Subjects, o \in Outcomes :
                          auditLog'[x][o] + losses'[x][o] + Unflushed(after, x, o)
                            = auditLog[x][o] + gone[x][o] + Unflushed(m, x, o)
    BY DEF Balanced
  <1>2. /\ metrics' = [p \in Instances |-> metrics'[p]] /\ metrics'[i] = after
        /\ \A p \in Instances \ {i} : metrics'[p] = metrics[p]
    BY <1>1 DEF DecisionShape
  <1>3. auditLog' \in Tallies /\ losses' \in Tallies
    BY DEF Balanced
  <1>4. DecisionShape'
    BY <1>1, <1>2, <1>3 DEF DecisionShape
  <1>5. ASSUME NEW x \in Subjects, NEW o \in Outcomes
        PROVE  Balance(decided', auditLog', losses', metrics', x, o)
    <2> DEFINE f == AllUnflushed(metrics, x, o)
               e == AllUnflushed(metrics', x, o)
    <2>1. /\ \A p \in Instances : f[p] \in Nat /\ e[p] \in Nat /\ (p # i => e[p] = f[p])
          /\ f[i] = Unflushed(metrics[i], x, o) /\ e[i] = Unflushed(after, x, o)
      <3>1. \A p \in Instances : f[p] = Unflushed(metrics[p], x, o) /\ e[p] = Unflushed(metrics'[p], x, o)
        BY DEF AllUnflushed
      <3>2. \A p \in Instances : WindowOK(metrics[p]) /\ WindowOK(metrics'[p])
        BY <1>4 DEF DecisionShape
      <3>3. \A p \in Instances : Unflushed(metrics[p], x, o) \in Nat /\ Unflushed(metrics'[p], x, o) \in Nat
        BY <3>2, UnflushedNat
      <3> QED
        BY <1>2, <3>1, <3>3
    <2> HIDE DEF f, e
    <2>2. /\ Total(f, Instances) \in Nat /\ Total(e, Instances) \in Nat
          /\ Total(e, Instances) + f[i] = Total(f, Instances) + e[i]
      <3>1. IsFiniteSet(Instances) /\ i \in Instances
        BY DecisionAssumption
      <3>2. \A p \in Instances : f[p] \in Nat /\ e[p] \in Nat /\ (p # i => e[p] = f[p])
        BY <2>1
      <3> QED
        BY ONLY <3>1, <3>2, TotalTurns
    <2>3. Balance(decided, auditLog, losses, metrics, x, o)
      BY AccountedIs
    <2>4. decided[x][o] = auditLog[x][o] + losses[x][o] + Total(f, Instances)
      BY <2>3 DEF Balance, f
    <2>5. /\ decided[x][o] \in Nat /\ auditLog[x][o] \in Nat /\ losses[x][o] \in Nat
          /\ decided'[x][o] \in Nat /\ auditLog'[x][o] \in Nat /\ losses'[x][o] \in Nat
          /\ gone[x][o] \in Nat
      BY <1>3, TallyFacts DEF DecisionShape
    <2>6. Unflushed(m, x, o) \in Nat
      BY UnflushedNat
    <2>8. decided'[x][o] = auditLog'[x][o] + losses'[x][o] + Total(e, Instances)
      <3>1. /\ decided'[x][o] + losses[x][o] + f[i] = decided[x][o] + gone[x][o] + Unflushed(m, x, o)
            /\ auditLog'[x][o] + losses'[x][o] + e[i] = auditLog[x][o] + gone[x][o] + Unflushed(m, x, o)
            /\ f[i] \in Nat /\ e[i] \in Nat
        BY <1>1, <2>1
      <3> DEFINE d == decided[x][o]
                 a == auditLog[x][o]
                 l == losses[x][o]
                 dn == decided'[x][o]
                 an == auditLog'[x][o]
                 ln == losses'[x][o]
                 c == gone[x][o]
                 u == Unflushed(m, x, o)
                 t == Total(f, Instances)
                 tn == Total(e, Instances)
                 fi == f[i]
                 ei == e[i]
      <3>2. /\ {d, a, l, dn, an, ln, c, u, t, tn, fi, ei} \subseteq Nat
            /\ d = a + l + t /\ dn + l + fi = d + c + u /\ an + ln + ei = a + c + u
            /\ tn + fi = t + ei
        BY ONLY <3>1, <2>2, <2>4, <2>5, <2>6
      <3> HIDE DEF d, a, l, dn, an, ln, c, u, t, tn, fi, ei
      <3>4. /\ d \in Nat /\ a \in Nat /\ l \in Nat /\ dn \in Nat /\ an \in Nat /\ ln \in Nat
            /\ c \in Nat /\ u \in Nat /\ t \in Nat /\ tn \in Nat /\ fi \in Nat /\ ei \in Nat
        BY ONLY <3>2
      <3>3. dn = an + ln + tn
        <4>1. dn + fi = t + (an + ln + ei)
          BY ONLY <3>2, <3>4
        <4> QED
          BY ONLY <3>2, <3>4, <4>1
      <3> QED
        BY <3>3 DEF dn, an, ln, tn
    <2> QED
      BY <2>8 DEF Balance, e
  <1> QED
    BY <1>4, <1>5, AccountedIs

\* The window an instance works on has the summaries it keeps.
LEMMA StateOK ==
    ASSUME DecisionShape, NEW i \in Instances
    PROVE  WindowOK(state(i)) /\ state(i).summaries = metrics[i].summaries
  <1>1. WindowOK(metrics[i])
    BY DEF DecisionShape
  <1>2. CASE metrics[i] = Unused
    <2>1. state(i) = [metrics[i] EXCEPT !.lastFlush = now]
      BY <1>2 DEF state
    <2> QED
      BY <1>1, <2>1, LastFlushOnly
  <1>3. CASE metrics[i] # Unused
    BY <1>1, <1>3 DEF state
  <1> QED
    BY <1>2, <1>3

\* A decision in the window: counted for its subject, or past the cap.
LEMMA RecordedOK ==
    ASSUME DecisionShape, NEW i \in Instances, NEW s \in Subjects, NEW outcome \in Outcomes, NEW ms
    PROVE  LET m == Recorded(i, s, outcome, ms) IN
           /\ WindowOK(m)
           /\ \A x \in Subjects, o \in Outcomes :
                Unflushed(m, x, o) = IF x = s /\ o = outcome /\ ~Capped(i, s)
                                     THEN Unflushed(metrics[i], x, o) + 1 ELSE Unflushed(metrics[i], x, o)
  <1> DEFINE m == Recorded(i, s, outcome, ms)
             now0 == state(i)
             old == metrics[i].summaries
  <1>1. /\ WindowOK(metrics[i]) /\ WindowOK(now0) /\ now0.summaries = old
        /\ now0 = [summaries |-> now0.summaries, dropped |-> now0.dropped, lastFlush |-> now0.lastFlush]
    BY StateOK DEF DecisionShape, WindowOK
  <1>2. CASE Capped(i, s)
    <2> DEFINE y == [summaries |-> now0.summaries, dropped |-> now0.dropped + 1, lastFlush |-> now0.lastFlush]
    <2>1. m = [now0 EXCEPT !.dropped = @ + 1]
      BY <1>2 DEF Recorded
    <2> HIDE DEF now0
    <2>2. [now0 EXCEPT !.dropped = @ + 1] = y
      BY ONLY <1>1
    <2>3. WindowOK(y) /\ y.summaries = old
      BY <1>1 DEF WindowOK
    <2>4. m = y
      BY <2>1, <2>2
    <2> HIDE DEF y, m
    <2> QED
      BY <1>2, <2>3, <2>4 DEF Unflushed, m
  <1>3. CASE ~Capped(i, s)
    <2> DEFINE seen == Seen(SummaryOf(old, s), outcome, ms)
               new == [x \in DOMAIN old \cup {s} |-> IF x = s THEN seen ELSE old[x]]
               y == [summaries |-> new, dropped |-> now0.dropped, lastFlush |-> now0.lastFlush]
    <2>1. m = [now0 EXCEPT !.summaries = [x \in DOMAIN @ \cup {s} |->
             IF x = s THEN Seen(SummaryOf(@, s), outcome, ms) ELSE @[x]]]
      BY <1>3 DEF Recorded
    <2>2. m = [now0 EXCEPT !.summaries = new]
      BY <1>1, <2>1
    <2>3. m = y
      <3> HIDE DEF now0, new, m
      <3> QED
        BY ONLY <1>1, <2>2
    <2>4. /\ seen.count \in [Outcomes -> Nat]
          /\ \A o \in Outcomes :
               seen.count[o] = IF o = outcome THEN Unflushed(metrics[i], s, o) + 1 ELSE Unflushed(metrics[i], s, o)
      <3> DEFINE c == SummaryOf(old, s).count
      <3>1. c \in [Outcomes -> Nat] /\ \A o \in Outcomes : Unflushed(metrics[i], s, o) = c[o]
        BY <1>1, UnflushedNat
      <3>2. seen.count = [c EXCEPT ![outcome] = @ + 1]
        BY DEF Seen
      <3> HIDE DEF c, seen
      <3> QED
        BY <3>1, <3>2
    <2> HIDE DEF seen
    <2>5. /\ DOMAIN new = DOMAIN old \cup {s} /\ new[s] = seen
          /\ \A x \in DOMAIN old : x # s => new[x] = old[x]
      OBVIOUS
    <2> HIDE DEF new
    <2>6. WindowOK(y)
      BY <1>1, <2>4, <2>5 DEF WindowOK
    <2>7. /\ \A o \in Outcomes : Unflushed(y, s, o) = seen.count[o]
          /\ \A x \in Subjects, o \in Outcomes : x # s => Unflushed(y, x, o) = Unflushed(metrics[i], x, o)
      BY <2>5 DEF Unflushed, SummaryOf
    <2> HIDE DEF m, y
    <2> QED
      BY <1>3, <2>3, <2>4, <2>6, <2>7 DEF m
  <1> QED
    BY <1>2, <1>3

\* Recording a decision,
LEMMA RecordSettles ==
    ASSUME DecisionShape, Accounted, NEW i \in Instances, NEW s \in Subjects, NEW cause \in Causes,
           NEW ms, recordDecision(i, s, cause, ms)
    PROVE  (DecisionShape /\ Accounted)'
  <1> DEFINE outcome == outcomeOf(cause)
             m == Recorded(i, s, outcome, ms)
             gone == IF Capped(i, s) THEN Plus(losses, s, outcome, 1) ELSE losses
             after == IF Idles(m) THEN [m EXCEPT !.lastFlush = now] ELSE m
  <1>1. outcome \in Outcomes
    BY DEF outcomeOf, Outcomes
  <1>2. /\ decided' = Plus(decided, s, outcome, 1)
        /\ \/ Flushed(i, m, gone)
           \/ /\ metrics' = [metrics EXCEPT ![i] = after]
              /\ losses' = gone /\ auditLog' = auditLog
    BY DEF recordDecision
  <1> HIDE DEF outcome
  <1>3. /\ WindowOK(m)
        /\ \A x \in Subjects, o \in Outcomes :
             Unflushed(m, x, o) = IF x = s /\ o = outcome /\ ~Capped(i, s)
                                  THEN Unflushed(metrics[i], x, o) + 1 ELSE Unflushed(metrics[i], x, o)
    BY <1>1, RecordedOK
  <1>4. auditLog \in Tallies /\ losses \in Tallies /\ decided \in Tallies
    BY DEF DecisionShape
  <1>5. /\ gone \in Tallies
        /\ \A x \in Subjects, o \in Outcomes :
             gone[x][o] = IF x = s /\ o = outcome /\ Capped(i, s) THEN losses[x][o] + 1 ELSE losses[x][o]
    BY <1>1, <1>4, PlusFacts
  <1>6. /\ decided' \in Tallies
        /\ \A x \in Subjects, o \in Outcomes :
             decided'[x][o] = IF x = s /\ o = outcome THEN decided[x][o] + 1 ELSE decided[x][o]
    BY <1>1, <1>2, <1>4, PlusFacts
  <1> HIDE DEF m, gone
  <1>7. WindowOK(after) /\ after.summaries = m.summaries
    BY <1>3, LastFlushOnly
  <1> HIDE DEF after
  <1>8. Balanced(i, gone, m)
    BY <1>2, <1>3, <1>4, <1>5, <1>7, FlushedBalances, KeptBalances
  <1>9. ASSUME NEW x \in Subjects, NEW o \in Outcomes
        PROVE  decided'[x][o] + losses[x][o] + Unflushed(metrics[i], x, o)
                 = decided[x][o] + gone[x][o] + Unflushed(m, x, o)
    <2>1. /\ Unflushed(metrics[i], x, o) \in Nat /\ decided[x][o] \in Nat /\ losses[x][o] \in Nat
      BY <1>4, UnflushedNat, TallyFacts DEF DecisionShape
    <2>2. CASE ~(x = s /\ o = outcome)
      BY <1>3, <1>5, <1>6, <2>1, <2>2
    <2>3. CASE x = s /\ o = outcome /\ Capped(i, s)
      BY <1>3, <1>5, <1>6, <2>1, <2>3
    <2>4. CASE x = s /\ o = outcome /\ ~Capped(i, s)
      BY <1>3, <1>5, <1>6, <2>1, <2>4
    <2> QED
      BY <2>2, <2>3, <2>4
  <1> QED
    BY <1>3, <1>5, <1>6, <1>8, <1>9, BalancedSettles

\* a flush,
LEMMA FlushSettles ==
    ASSUME DecisionShape, Accounted, NEW i \in Instances, flushNow(i)
    PROVE  (DecisionShape /\ Accounted)'
  <1> DEFINE m == state(i)
  <1>1. WindowOK(m) /\ m.summaries = metrics[i].summaries
    BY StateOK
  <1>2. Flushed(i, m, losses) /\ decided' = decided
    BY DEF flushNow
  <1> HIDE DEF m
  <1>3. auditLog \in Tallies /\ losses \in Tallies /\ decided \in Tallies
    BY DEF DecisionShape
  <1>4. Balanced(i, losses, m)
    BY <1>1, <1>2, <1>3, FlushedBalances
  <1>5. \A x, o : Unflushed(m, x, o) = Unflushed(metrics[i], x, o)
    BY <1>1 DEF Unflushed
  <1>6. decided' \in Tallies
    BY <1>2, <1>3
  <1> QED
    BY <1>1, <1>2, <1>3, <1>4, <1>5, <1>6, BalancedSettles

\* and the end of a process leave every decision accounted for.
LEMMA ForgetSettles ==
    ASSUME DecisionShape, Accounted, NEW i \in Instances, Forgets(i)
    PROVE  (DecisionShape /\ Accounted)'
  <1> DEFINE m == metrics[i]
             after == Unused
  <1>1. WindowOK(m) /\ \A x : \A o \in Outcomes : Unflushed(m, x, o) \in Nat
    BY UnflushedNat DEF DecisionShape
  <1>2. auditLog \in Tallies /\ losses \in Tallies /\ decided \in Tallies
    BY DEF DecisionShape
  <1>3. WindowOK(after) /\ \A x : \A o \in Outcomes : Unflushed(after, x, o) = 0
    BY EmptyFacts DEF Unused
  <1>4. /\ metrics' = [metrics EXCEPT ![i] = after] /\ losses' = WithSummary(losses, m.summaries)
        /\ auditLog' = auditLog /\ decided' = decided
    BY DEF Forgets
  <1> HIDE DEF m, after
  <1>5. /\ losses' \in Tallies
        /\ \A x \in Subjects, o \in Outcomes : losses'[x][o] = losses[x][o] + Unflushed(m, x, o)
    BY <1>1, <1>2, <1>4, WithSummaryFacts
  <1>6. ASSUME NEW x \in Subjects, NEW o \in Outcomes
        PROVE  auditLog'[x][o] + losses'[x][o] + Unflushed(after, x, o)
                 = auditLog[x][o] + losses[x][o] + Unflushed(m, x, o)
    <2>1. auditLog[x][o] \in Nat /\ losses[x][o] \in Nat
      BY <1>2, TallyFacts
    <2> QED
      BY <1>1, <1>3, <1>4, <1>5, <2>1
  <1>7. Balanced(i, losses, m)
    BY <1>2, <1>3, <1>4, <1>5, <1>6 DEF Balanced
  <1>8. decided' \in Tallies /\ m = metrics[i]
    BY <1>2, <1>4 DEF m
  <1> QED
    BY <1>1, <1>2, <1>4, <1>7, <1>8, BalancedSettles

\* Initially nothing was decided.
LEMMA DecisionsStart == ASSUME GuardInit PROVE DecisionShape /\ Accounted
  <1> DEFINE none == [s \in Subjects |-> [o \in Outcomes |-> 0]]
  <1>1. metrics = [i \in Instances |-> Unused] /\ auditLog = none /\ decided = none /\ losses = none
    BY DEF GuardInit, InitDecisions
  <1>2. WindowOK(Unused) /\ \A x : \A o \in Outcomes : Unflushed(Unused, x, o) = 0
    <2> DEFINE m == Unused
    <2>1. m = [summaries |-> Untracked, dropped |-> 0, lastFlush |-> -1]
      BY DEF Unused
    <2> HIDE DEF m
    <2>2. WindowOK(m) /\ \A x : \A o \in Outcomes : Unflushed(m, x, o) = 0
      BY <2>1, EmptyFacts
    <2> QED
      BY <2>2 DEF m
  <1>3. none \in Tallies /\ \A x \in Subjects, o \in Outcomes : none[x][o] = 0
    BY DEF Tallies
  <1> HIDE DEF none
  <1>4. DecisionShape
    BY <1>1, <1>2, <1>3 DEF DecisionShape
  <1>5. ASSUME NEW x, NEW o \in Outcomes PROVE Total(AllUnflushed(metrics, x, o), Instances) = 0
    <2>1. \A i \in Instances : AllUnflushed(metrics, x, o)[i] = 0
      BY <1>1, <1>2 DEF AllUnflushed
    <2> QED
      BY <2>1, DecisionAssumption, TotalZero
  <1>6. \A x \in Subjects, o \in Outcomes : Balance(decided, auditLog, losses, metrics, x, o)
    BY <1>1, <1>3, <1>5 DEF Balance
  <1> QED
    BY <1>4, <1>6, AccountedIs

\* So every step leaves it so.
LEMMA DecisionsStep ==
    ASSUME DecisionShape, Accounted, [GuardNext]_guardVars
    PROVE  (DecisionShape /\ Accounted)'
  <1>1. CASE Decide
    BY <1>1, RecordSettles, FlushSettles DEF Decide
  <1>2. ASSUME NEW i \in Instances, Recycle(i) PROVE (DecisionShape /\ Accounted)'
    BY <1>2, ForgetSettles DEF Recycle
  <1>3. CASE UNCHANGED decisionVars
    BY <1>3 DEF decisionVars, DecisionShape, Accounted, WindowOK
  <1> QED
    BY <1>1, <1>2, <1>3 DEF GuardNext, guardVars

\* The summaries count every decision of the data route once: in the audit
\* log, in the memory of one process, or among those lost with an insert that
\* failed, with a process or past the cap; no flush, early or timed, counts a
\* window twice (decision-log.ts:142).
THEOREM EveryDecisionAccounted == GuardSpec => []Accounted
  <1>1. GuardInit => DecisionShape /\ Accounted
    BY DecisionsStart
  <1>2. DecisionShape /\ Accounted /\ [GuardNext]_guardVars => (DecisionShape /\ Accounted)'
    BY DecisionsStep
  <1> QED
    BY <1>1, <1>2, PTL DEF GuardSpec
=============================================================================
