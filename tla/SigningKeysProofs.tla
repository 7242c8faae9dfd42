------------------------- MODULE SigningKeysProofs -------------------------
(***************************************************************************)
(* Proofs about SigningKeys, for any number of workers, keys, apps and      *)
(* tokens and any durations that satisfy WindowCovers:                      *)
(*                                                                         *)
(*   - type correctness;                                                   *)
(*   - TokensVerify: a key outlives the tokens it signed;                   *)
(*   - TrustIsBrief: a cached key outlives its retirement by a cache life;   *)
(*   - NoFalseReject: the cache refuses no token in time.                   *)
(***************************************************************************)
EXTENDS SigningKeys, WellFoundedInduction, TLAPS

USE DEF table, reads, Kids, NoKey

Verifying == {"load", "force", "loaded", "forced"}

\* A key somebody read as active at time s will not be retired for a window.
Lasting(k, s) ==
    \/ status[k] = "active"
    \/ status[k] = "retiring" /\ s + Window <= retiresAt[k]

\* What a request between two statements still relies on.
InFlight(w) ==
    LET r == worker[w] IN
    /\ r.pc # "idle" => r.since <= now /\ now <= r.since + Delay
    /\ r.pc \in {"sign", "retire"} => r.key # NoKey
    /\ r.pc \in {"sign", "mint", "retire"} /\ r.key # NoKey => Lasting(r.key, r.since)
    /\ r.pc = "purge" => \A k \in r.keys :
         status[k] = "retired" \/ (status[k] = "retiring" /\ retiresAt[k] <= now)

\* An unexpired token's key is active, or retires after the token.
Outlived(t) ==
    /\ now <= t.exp + Tolerance /\ t.exp <= now + TTL
    /\ \/ status[t.key] = "active"
       \/ status[t.key] = "retiring" /\ t.exp + Tolerance < retiresAt[t.key]

KeyInv ==
    /\ \A w \in Workers : InFlight(w)
    /\ \A t \in tokens : Outlived(t)

\* The keys a verification loaded, or the cache keeps, were trusted lately.
Recent ==
    /\ cache.at <= now
    /\ \A k \in cache.keys : status[k] = "retired" => cache.at <= gone[k] + Delay
    /\ \A w \in Workers : worker[w].pc \in {"loaded", "forced"} =>
         \A k \in worker[w].keys : status[k] = "retired" => worker[w].since <= gone[k]

\* A verification that has loaded the keys found its token's, or is too late.
Found ==
    /\ \A w \in Workers : worker[w].pc \in Verifying =>
         /\ worker[w].token \in Token
         /\ worker[w].token \in tokens \/ Expired(worker[w].token, now)
         /\ worker[w].pc \in {"loaded", "forced"} =>
              worker[w].token.key \in worker[w].keys \/ Expired(worker[w].token, now)
    /\ ~rejected

-----------------------------------------------------------------------------
(* Types *)

\* A set of numbers below a bound has a largest one.
LEMMA HasMaximum ==
    ASSUME NEW M \in Nat, NEW S, S \subseteq 1 .. M, S # {}
    PROVE  \E k \in S : \A j \in S : j <= k
  <1>1. {M - k : k \in S} \subseteq Nat
    OBVIOUS
  <1>2. {M - k : k \in S} # {}
    OBVIOUS
  <1>3. PICK x \in {M - k : k \in S} :
          \A y \in {M - k : k \in S} : ~ (<<y, x>> \in OpToRel(<, Nat))
    BY <1>1, <1>2, NatLessThanWellFounded, WFMin
  <1>4. PICK k \in S : x = M - k
    BY <1>3
  <1>5. \A j \in S : j <= k
    <2> TAKE j \in S
    <2>1. M - j \in Nat /\ x \in Nat /\ M - j \in {M - i : i \in S}
      BY <1>1
    <2>2. ~ (<<M - j, x>> \in OpToRel(<, Nat))
      BY <1>3, <2>1
    <2>3. ~ (M - j < x)
      BY <2>1, <2>2 DEF OpToRel
    <2>4. j \in Nat /\ k \in Nat
      OBVIOUS
    <2> QED  BY <1>4, <2>3, <2>4
  <1> QED  BY <1>5

LEMMA NewestActive ==
    ASSUME NEW S \in SUBSET Kids, S # {}
    PROVE  Newest(S) \in S
  <1>1. MaxKey \in Nat
    BY KeyBounds
  <1>2. \E k \in S : \A j \in S : j <= k
    BY <1>1, HasMaximum
  <1> QED  BY <1>2 DEF Newest

LEMMA NewestType ==
    Newest(Active) \in Kids \cup {NoKey} /\ (Active # {} => Newest(Active) \in Active)
  BY NewestActive DEF Newest, Active

LEMMA BoundTypes ==
    /\ MaxKey \in Nat /\ TTL \in Nat /\ Tolerance \in Nat /\ Window \in Nat
    /\ CacheTTL \in Nat /\ Delay \in Nat
    /\ \A s \in Scenes : s.keys \in 0 .. MaxKey /\ s.apps \subseteq Apps
  BY KeyBounds

LEMMA ProvisionType ==
    ASSUME TypeOK, Provision
    PROVE  /\ born' \in 0 .. MaxKey
           /\ status' \in [Kids -> {"unborn", "active", "retiring", "retired"}]
           /\ \A k \in Kids : status'[k] = "unborn" <=> k > born'
           /\ retiresAt' = retiresAt /\ gone' = gone
           /\ born' \in Kids /\ status[born'] = "unborn"
           /\ status' = [status EXCEPT ![born'] = "active"]
  <1>1. scene.keys \in 0 .. MaxKey /\ born + 1 \in Kids
    BY BoundTypes DEF TypeOK, Provision
  <1> QED  BY <1>1 DEF TypeOK, Provision



LEMMA RequestType ==
    /\ Idle \in Request
    /\ \A r \in Request : r.key \in Kids \cup {NoKey} /\ r.keys \subseteq Kids /\ r.since \in Nat
    /\ \A pc \in Writing, s \in Nat : [Idle EXCEPT !.pc = pc, !.since = s] \in Request
    /\ \A pc \in Writing \cup {"sign"}, k \in Kids \cup {NoKey}, s \in Nat :
         [Idle EXCEPT !.pc = pc, !.key = k, !.since = s] \in Request
    /\ \A K \in SUBSET Kids, s \in Nat :
         [Idle EXCEPT !.pc = "purge", !.keys = K, !.since = s] \in Request
    /\ \A pc \in {"force", "load"}, t \in Token, a \in Apps, s \in Nat :
         [Idle EXCEPT !.pc = pc, !.token = t, !.app = a, !.since = s] \in Request
    /\ \A r \in Request, pc \in Writing \cup {"force"} : [r EXCEPT !.pc = pc] \in Request
    /\ \A r \in Request, k \in Kids : [r EXCEPT !.pc = "sign", !.key = k] \in Request
    /\ \A r \in Request, K \in SUBSET Kids : [r EXCEPT !.keys = K] \in Request
    /\ \A r \in Request, K \in SUBSET Kids, pc \in {"loaded", "forced"} :
         [r EXCEPT !.pc = pc, !.keys = K] \in Request
  BY DEF Idle, Request, Writing, NoToken

\* The requests stay well typed when one of them goes on.
LEMMA WorkerType ==
    ASSUME TypeOK, NEW w \in Workers, NEW r \in Request, worker' = [worker EXCEPT ![w] = r]
    PROVE  worker' \in [Workers -> Request]
  BY DEF TypeOK

LEMMA TypeInit == Init => TypeOK
  <1> SUFFICES ASSUME Init PROVE TypeOK
    OBVIOUS
  <1>1. worker \in [Workers -> Request]
    BY RequestType DEF Init
  <1>2. \A k \in Kids : status[k] = "unborn" <=> k > born
    BY BoundTypes DEF Init
  <1>3. /\ now \in Nat /\ born \in 0 .. MaxKey
        /\ cache \in [keys : SUBSET Kids, at : Nat, filled : BOOLEAN]
    BY BoundTypes DEF Init
  <1>4. /\ status \in [Kids -> {"unborn", "active", "retiring", "retired"}]
        /\ retiresAt \in [Kids -> Nat] /\ gone \in [Kids -> Nat]
    BY DEF Init
  <1> QED  BY <1>1, <1>2, <1>3, <1>4 DEF Init, TypeOK

LEMMA TypeStep == TypeOK /\ KeyInv /\ [Next]_vars => TypeOK'
  <1> SUFFICES ASSUME TypeOK, KeyInv, [Next]_vars PROVE TypeOK'
    OBVIOUS
  <1>0. /\ \A w \in Workers : worker[w] \in Request
        /\ now \in Nat /\ Newest(Active) \in Kids \cup {NoKey}
    BY NewestType DEF TypeOK
  <1>1. ASSUME NEW w \in Workers, SignLoad(w) PROVE TypeOK'
    <2>1. worker' \in [Workers -> Request]
      BY <1>0, <1>1, RequestType, WorkerType DEF SignLoad, Begin, Writing
    <2> QED  BY <1>1, <2>1 DEF SignLoad, TypeOK
  <1>2. ASSUME NEW w \in Workers, SignProvision(w) PROVE TypeOK'
    <2>1. worker' \in [Workers -> Request]
      BY <1>0, <1>2, RequestType, WorkerType DEF SignProvision, Goto, Writing
    <2> QED  BY <1>2, <2>1, ProvisionType DEF SignProvision, TypeOK
  <1>3. ASSUME NEW w \in Workers, SignReload(w) PROVE TypeOK'
    <2>1. CASE Active # {}
      <3>1. [worker[w] EXCEPT !.pc = "sign", !.key = Newest(Active)] \in Request
        BY <1>0, <2>1, NewestType, RequestType DEF Active
      <3>2. worker' = [worker EXCEPT ![w] =
                         [worker[w] EXCEPT !.pc = "sign", !.key = Newest(Active)]]
        BY <1>3, <2>1 DEF SignReload
      <3> QED  BY <1>3, <3>1, <3>2, WorkerType DEF SignReload, TypeOK
    <2>2. CASE Active = {}
      BY <1>3, <2>2, RequestType, WorkerType DEF SignReload, Finish, TypeOK
    <2> QED  BY <2>1, <2>2
  <1>4. ASSUME NEW w \in Workers, Sign(w) PROVE TypeOK'
    <2>1. worker' \in [Workers -> Request]
      BY <1>4, RequestType, WorkerType DEF Sign, Finish
    <2>2. worker[w].key \in Kids
      BY <1>0, <1>4, RequestType DEF Sign, KeyInv, InFlight
    <2>3. \A a \in scene.apps : signAccessToken(worker[w].key, a) \in Token
      BY <1>0, <2>2, BoundTypes DEF TypeOK, signAccessToken, Token
    <2> QED  BY <1>4, <2>1, <2>3 DEF Sign, TypeOK
  <1>5. ASSUME NEW w \in Workers, RotateLoad(w) PROVE TypeOK'
    <2>1. worker' \in [Workers -> Request]
      BY <1>0, <1>5, RequestType, WorkerType DEF RotateLoad, Writing
    <2> QED  BY <1>5, <2>1 DEF RotateLoad, TypeOK
  <1>6. ASSUME NEW w \in Workers, RotateMint(w) PROVE TypeOK'
    <2>1. worker' \in [Workers -> Request]
      BY <1>0, <1>6, RequestType, WorkerType DEF RotateMint, Goto, Finish, Writing
    <2> QED  BY <1>6, <2>1, ProvisionType DEF RotateMint, TypeOK
  <1>7. ASSUME NEW w \in Workers, RotateRetire(w) PROVE TypeOK'
    <2>1. worker' \in [Workers -> Request]
      BY <1>7, RequestType, WorkerType DEF RotateRetire, Finish
    <2>2. worker[w].key \in Kids /\ status[worker[w].key] # "unborn"
      BY <1>0, <1>7, RequestType DEF RotateRetire, KeyInv, InFlight, Lasting
    <2>3. now + Window \in Nat
      BY <1>0, BoundTypes
    <2> QED  BY <1>7, <2>1, <2>2, <2>3 DEF RotateRetire, TypeOK
  <1>8. ASSUME NEW w \in Workers, PurgeSelect(w) PROVE TypeOK'
    <2>1. worker' \in [Workers -> Request]
      BY <1>0, <1>8, RequestType, WorkerType DEF PurgeSelect
    <2> QED  BY <1>8, <2>1 DEF PurgeSelect, TypeOK
  <1>9. ASSUME NEW w \in Workers, PurgeOne(w) PROVE TypeOK'
    <2> PICK k \in worker[w].keys :
          /\ status' = [status EXCEPT ![k] = IF @ = "retiring" THEN "retired" ELSE @]
          /\ gone' = [gone EXCEPT ![k] = IF status[k] = "retiring" THEN now ELSE @]
          /\ IF worker[w].keys = {k} THEN Finish(w)
             ELSE worker' = [worker EXCEPT ![w].keys = @ \ {k}]
      BY <1>9 DEF PurgeOne
    <2>1. k \in Kids /\ [worker[w] EXCEPT !.keys = worker[w].keys \ {k}] \in Request
      BY <1>0, RequestType
    <2>2. worker' \in [Workers -> Request]
      <3>1. CASE worker[w].keys = {k}
        BY <3>1, RequestType, WorkerType DEF Finish
      <3>2. CASE worker[w].keys # {k}
        <4>1. worker' = [worker EXCEPT ![w] = [worker[w] EXCEPT !.keys = worker[w].keys \ {k}]]
          BY <3>2
        <4> QED  BY <4>1, <2>1, WorkerType
      <3> QED  BY <3>1, <3>2
    <2>3. /\ status' \in [Kids -> {"unborn", "active", "retiring", "retired"}]
          /\ \A j \in Kids : status'[j] = "unborn" <=> status[j] = "unborn"
          /\ gone' \in [Kids -> Nat]
      BY <1>0, <2>1 DEF TypeOK
    <2> QED  BY <1>9, <2>2, <2>3 DEF PurgeOne, TypeOK
  <1>10. ASSUME NEW w \in Workers, JwksList(w) \/ JwksProvision(w) PROVE TypeOK'
    <2>1. worker' \in [Workers -> Request]
      BY <1>0, <1>10, RequestType, WorkerType
      DEF JwksList, JwksProvision, Begin, Finish, Writing
    <2>2. CASE JwksList(w)
      BY <2>1, <2>2 DEF JwksList, TypeOK
    <2>3. CASE JwksProvision(w)
      BY <2>1, <2>3, ProvisionType DEF JwksProvision, TypeOK
    <2> QED  BY <1>10, <2>2, <2>3
  <1>11. ASSUME NEW w \in Workers, NEW t \in tokens, NEW app \in scene.apps,
                VerifyStart(w, t, app)
         PROVE  TypeOK'
    <2>1. t \in Token /\ app \in Apps
      BY BoundTypes DEF TypeOK
    <2>2. worker' \in [Workers -> Request]
      BY <1>0, <1>11, <2>1, RequestType, WorkerType DEF VerifyStart
    <2> QED  BY <1>11, <2>2 DEF VerifyStart, TypeOK
  <1>12. ASSUME NEW w \in Workers, VerifyLoad(w) PROVE TypeOK'
    <2> DEFINE pc == IF worker[w].pc = "load" THEN "loaded" ELSE "forced"
    <2>1. [worker[w] EXCEPT !.pc = pc, !.keys = Trusted] \in Request
      BY <1>0, RequestType DEF Trusted
    <2>2. worker' = [worker EXCEPT ![w] = [worker[w] EXCEPT !.pc = pc, !.keys = Trusted]]
      BY <1>12 DEF VerifyLoad
    <2>3. worker' \in [Workers -> Request]
      BY <2>1, <2>2, WorkerType
    <2> QED  BY <1>12, <2>3 DEF VerifyLoad, TypeOK
  <1>13. ASSUME NEW w \in Workers, VerifyStore(w) PROVE TypeOK'
    <2>1. worker' \in [Workers -> Request]
      BY <1>0, <1>13, RequestType, WorkerType DEF VerifyStore, Goto, Finish
    <2>2. cache' \in [keys : SUBSET Kids, at : Nat, filled : BOOLEAN]
      BY <1>0, <1>13, RequestType DEF VerifyStore
    <2>3. rejected' \in BOOLEAN
      BY <1>13 DEF VerifyStore
    <2> QED  BY <1>13, <2>1, <2>2, <2>3 DEF VerifyStore, TypeOK
  <1>14. ASSUME NEW w \in Workers, Crash(w) PROVE TypeOK'
    <2>1. worker' \in [Workers -> Request]
      BY <1>14, RequestType, WorkerType DEF Crash, Finish
    <2> QED  BY <1>14, <2>1 DEF Crash, TypeOK
  <1>15. CASE Tick
    BY <1>15 DEF Tick, TypeOK
  <1>16. CASE UNCHANGED vars
    BY <1>16 DEF vars, TypeOK
  <1> QED
    BY <1>1, <1>2, <1>3, <1>4, <1>5, <1>6, <1>7, <1>8, <1>9, <1>10, <1>11, <1>12,
       <1>13, <1>14, <1>15, <1>16 DEF Next

-----------------------------------------------------------------------------
(* How a step changes one key, and one request.                             *)

KeyStays(k) == status'[k] = status[k] /\ retiresAt'[k] = retiresAt[k] /\ gone'[k] = gone[k]

KeyMoves(k) ==
    /\ now' = now
    /\ \/ /\ status[k] = "unborn" /\ status'[k] = "active"
          /\ retiresAt'[k] = retiresAt[k] /\ gone'[k] = gone[k]
       \/ /\ status[k] = "active" \/ (status[k] = "retiring" /\ now < retiresAt[k])
          /\ status'[k] = "retiring"
          /\ retiresAt'[k] = now + Window /\ gone'[k] = gone[k]
       \/ /\ status[k] = "retiring" /\ retiresAt[k] <= now /\ status'[k] = "retired"
          /\ retiresAt'[k] = retiresAt[k] /\ gone'[k] = now

LEMMA KeysNext ==
    ASSUME TypeOK, KeyInv, [Next]_vars, NEW k \in Kids
    PROVE  KeyStays(k) \/ KeyMoves(k)
  <1> DEFINE Goal == KeyStays(k) \/ KeyMoves(k)
  <1>1. ASSUME UNCHANGED table PROVE Goal
    BY <1>1 DEF KeyStays
  <1>2. ASSUME Provision, now' = now PROVE Goal
    BY <1>2, ProvisionType DEF TypeOK, KeyStays, KeyMoves
  <1>3. ASSUME NEW w \in Workers, RotateRetire(w) PROVE Goal
    <2>1. CASE k = worker[w].key
      <3>1. Lasting(k, worker[w].since) /\ now <= worker[w].since + Delay
        BY <1>3, <2>1 DEF RotateRetire, KeyInv, InFlight
      <3>2. worker[w].since \in Nat /\ retiresAt[k] \in Nat /\ now \in Nat
        BY RequestType DEF TypeOK
      <3>3. status[k] = "active" \/ (status[k] = "retiring" /\ now < retiresAt[k])
        BY <3>1, <3>2, BoundTypes, WindowCovers DEF Lasting
      <3> QED  BY <1>3, <2>1, <3>3 DEF RotateRetire, TypeOK, KeyMoves
    <2>2. CASE k # worker[w].key
      BY <1>3, <2>2 DEF RotateRetire, TypeOK, KeyStays
    <2> QED  BY <2>1, <2>2
  <1>4. ASSUME NEW w \in Workers, PurgeOne(w) PROVE Goal
    <2> PICK j \in worker[w].keys :
          /\ status' = [status EXCEPT ![j] = IF @ = "retiring" THEN "retired" ELSE @]
          /\ gone' = [gone EXCEPT ![j] = IF status[j] = "retiring" THEN now ELSE @]
      BY <1>4 DEF PurgeOne
    <2>1. CASE k = j /\ status[k] = "retiring"
      <3>1. retiresAt[k] <= now
        BY <1>4, <2>1 DEF PurgeOne, KeyInv, InFlight
      <3> QED  BY <1>4, <2>1, <3>1 DEF PurgeOne, TypeOK, KeyMoves
    <2>2. CASE k # j \/ status[k] # "retiring"
      BY <1>4, <2>2 DEF PurgeOne, TypeOK, KeyStays
    <2> QED  BY <2>1, <2>2
  <1>5. ASSUME NEW w \in Workers, SignProvision(w) \/ RotateMint(w) \/ JwksProvision(w)
        PROVE  Goal
    BY <1>5, <1>2 DEF SignProvision, RotateMint, JwksProvision
  <1>6. ASSUME NEW w \in Workers,
               \/ SignLoad(w) \/ SignReload(w) \/ Sign(w) \/ RotateLoad(w)
               \/ PurgeSelect(w) \/ JwksList(w) \/ VerifyLoad(w) \/ VerifyStore(w) \/ Crash(w)
               \/ \E t \in tokens, app \in scene.apps : VerifyStart(w, t, app)
        PROVE  Goal
    BY <1>6, <1>1 DEF SignLoad, SignReload, Sign, RotateLoad, PurgeSelect, JwksList,
                      VerifyLoad, VerifyStore, Crash, VerifyStart
  <1>7. CASE Tick \/ UNCHANGED vars
    BY <1>7, <1>1 DEF Tick, vars
  <1> QED
    BY <1>3, <1>4, <1>5, <1>6, <1>7 DEF Next

\* Where a request may get to: it stays, ends, or makes one of its steps.
Proceeds(w) ==
    LET r == worker[w]  s == worker'[w] IN
    \/ s = r /\ (r.pc # "idle" => now <= now' /\ now' <= r.since + Delay)
    \/ s = Idle /\ now' = now
    \/ /\ now' = now
       /\ s.since = IF r.pc = "idle" THEN now ELSE r.since
       /\ \/ s.pc \in {"provision", "reload", "jwks"} \cup Verifying
          \/ /\ s.pc \in {"sign", "mint", "retire"}
             /\ s.pc # "mint" => s.key # NoKey
             /\ s.key # NoKey => s.key \in Active \/ (r.pc = "mint" /\ s.key = r.key)
          \/ /\ s.pc = "purge"
             /\ \A k \in s.keys : Lapsed(k) \/ (r.pc = "purge" /\ k \in r.keys)

LEMMA RequestsNext ==
    ASSUME TypeOK, KeyInv, [Next]_vars, NEW v \in Workers
    PROVE  Proceeds(v)
  <1> USE DEF Proceeds
  <1>0. /\ worker[v] \in Request /\ now \in Nat
        /\ worker[v].pc # "idle" => now <= worker[v].since + Delay
    BY DEF TypeOK, KeyInv, InFlight
  <1>new. Active # {} => Newest(Active) \in Active /\ Newest(Active) # NoKey
    BY NewestType DEF Active
  <1>1. ASSUME worker'[v] = worker[v], now' = now PROVE Proceeds(v)
    BY <1>0, <1>1
  <1>2. ASSUME NEW w \in Workers, SignLoad(w) PROVE Proceeds(v)
    <2>1. CASE Active # {} /\ v = w
      <3>1. worker'[v] = [Idle EXCEPT !.pc = "sign", !.key = Newest(Active), !.since = now]
        BY <1>2, <2>1 DEF SignLoad, TypeOK
      <3> DEFINE n == Newest(Active)
      <3> HIDE DEF n
      <3>2. /\ worker'[v].pc = "sign" /\ worker'[v].key = n
            /\ worker'[v].since = now
        BY <3>1 DEF Idle, n
      <3> QED  BY <1>2, <1>new, <2>1, <3>2 DEF SignLoad, n
    <2>2. CASE Active = {} /\ v = w
      <3>1. worker'[v] = [Idle EXCEPT !.pc = "provision", !.since = now]
        BY <1>2, <2>2 DEF SignLoad, Begin, TypeOK
      <3>2. worker'[v].pc = "provision" /\ worker'[v].since = now
        BY <3>1 DEF Idle
      <3> QED  BY <1>2, <2>2, <3>2 DEF SignLoad
    <2>3. CASE v # w
      BY <1>1, <1>2, <2>3 DEF SignLoad, Begin, TypeOK
    <2> QED  BY <2>1, <2>2, <2>3
  <1>3. ASSUME NEW w \in Workers, SignProvision(w) PROVE Proceeds(v)
    BY <1>1, <1>3 DEF SignProvision, Goto, TypeOK, Request
  <1>4. ASSUME NEW w \in Workers, SignReload(w) PROVE Proceeds(v)
    <2>1. CASE Active # {} /\ v = w
      <3>1. worker'[v] = [worker[v] EXCEPT !.pc = "sign", !.key = Newest(Active)]
        BY <1>4, <2>1 DEF SignReload, TypeOK
      <3> QED  BY <1>0, <1>4, <1>new, <2>1, <3>1 DEF SignReload, Request
    <2>2. CASE Active = {} /\ v = w
      BY <1>4, <2>2 DEF SignReload, Finish, TypeOK
    <2>3. CASE v # w
      BY <1>1, <1>4, <2>3 DEF SignReload, Finish, TypeOK
    <2> QED  BY <2>1, <2>2, <2>3
  <1>5. ASSUME NEW w \in Workers, Sign(w) \/ RotateRetire(w) \/ JwksProvision(w) \/ Crash(w)
        PROVE  Proceeds(v)
    BY <1>1, <1>5 DEF Sign, RotateRetire, JwksProvision, Crash, Finish, TypeOK
  <1>6. ASSUME NEW w \in Workers, RotateLoad(w) PROVE Proceeds(v)
    BY <1>1, <1>6, NewestType DEF RotateLoad, Idle, TypeOK, Newest
  <1>7. ASSUME NEW w \in Workers, RotateMint(w) PROVE Proceeds(v)
    BY <1>1, <1>7 DEF RotateMint, Goto, Finish, TypeOK, Request
  <1>8. ASSUME NEW w \in Workers, PurgeSelect(w) PROVE Proceeds(v)
    BY <1>1, <1>8 DEF PurgeSelect, Idle, TypeOK
  <1>9. ASSUME NEW w \in Workers, PurgeOne(w) PROVE Proceeds(v)
    BY <1>1, <1>9 DEF PurgeOne, Finish, TypeOK, Request
  <1>10. ASSUME NEW w \in Workers, JwksList(w) PROVE Proceeds(v)
    BY <1>1, <1>10 DEF JwksList, Begin, Idle, TypeOK
  <1>11. ASSUME NEW w \in Workers, NEW t \in tokens, NEW app \in scene.apps,
                VerifyStart(w, t, app)
         PROVE  Proceeds(v)
    BY <1>1, <1>11 DEF VerifyStart, Idle, TypeOK, Verifying
  <1>12. ASSUME NEW w \in Workers, VerifyLoad(w) PROVE Proceeds(v)
    BY <1>1, <1>12 DEF VerifyLoad, TypeOK, Request, Verifying
  <1>13. ASSUME NEW w \in Workers, VerifyStore(w) PROVE Proceeds(v)
    <2>1. \/ worker' = [worker EXCEPT ![w] = [worker[w] EXCEPT !.pc = "force"]]
          \/ worker' = [worker EXCEPT ![w] = Idle]
      BY <1>13 DEF VerifyStore, Goto, Finish
    <2>2. now' = now /\ worker[w].pc # "idle"
      BY <1>13 DEF VerifyStore
    <2> QED  BY <1>0, <1>1, <2>1, <2>2 DEF TypeOK, Request, Verifying
  <1>14. CASE Tick
    <2>1. worker[v].pc # "idle" => now < worker[v].since + Delay
      BY <1>14 DEF Tick
    <2>2. worker[v].since \in Nat /\ Delay \in Nat /\ now' = now + 1 /\ worker' = worker
      BY <1>0, <1>14, BoundTypes, RequestType DEF Tick
    <2> QED  BY <1>0, <2>1, <2>2
  <1>15. CASE UNCHANGED vars
    BY <1>1, <1>15 DEF vars
  <1> QED
    BY <1>2, <1>3, <1>4, <1>5, <1>6, <1>7, <1>8, <1>9, <1>10, <1>11, <1>12, <1>13,
       <1>14, <1>15 DEF Next

-----------------------------------------------------------------------------
(* TokensVerify *)

\* Lasting, after the step.
LastsOn(k, s) ==
    \/ status'[k] = "active"
    \/ status'[k] = "retiring" /\ s + Window <= retiresAt'[k]

LEMMA LastingNext ==
    ASSUME TypeOK, KeyInv, [Next]_vars, NEW k \in Kids, NEW s \in Nat,
           s <= now, now <= s + Delay, Lasting(k, s)
    PROVE  LastsOn(k, s)
  <1>1. now \in Nat /\ retiresAt[k] \in Nat
    BY DEF TypeOK
  <1>2. CASE KeyStays(k)
    BY <1>2 DEF KeyStays, Lasting, LastsOn
  <1>3. CASE KeyMoves(k)
    BY <1>1, <1>3, BoundTypes, WindowCovers DEF KeyMoves, Lasting, LastsOn
  <1> QED  BY <1>2, <1>3, KeysNext

LEMMA PurgedNext ==
    ASSUME TypeOK, KeyInv, [Next]_vars, NEW k \in Kids, now <= now',
           status[k] = "retired" \/ (status[k] = "retiring" /\ retiresAt[k] <= now)
    PROVE  \/ status'[k] = "retired"
           \/ status'[k] = "retiring" /\ retiresAt'[k] <= now'
  <1>1. now \in Nat /\ retiresAt[k] \in Nat
    BY DEF TypeOK
  <1>2. CASE KeyStays(k)
    <2>1. now' \in Nat
      BY TypeStep DEF TypeOK
    <2> QED  BY <1>1, <1>2, <2>1 DEF KeyStays
  <1>3. CASE KeyMoves(k)
    BY <1>1, <1>3 DEF KeyMoves
  <1> QED  BY <1>2, <1>3, KeysNext

LEMMA NowNext ==
    ASSUME TypeOK, [Next]_vars
    PROVE  \/ now' = now
           \/ Tick /\ now' = now + 1
  BY DEF Next, SignLoad, SignProvision, SignReload, Sign, RotateLoad, RotateMint, RotateRetire,
         PurgeSelect, PurgeOne, JwksList, JwksProvision, VerifyStart, VerifyLoad, VerifyStore,
         Crash, Tick, vars

LEMMA InFlightNext ==
    ASSUME TypeOK, KeyInv, [Next]_vars, NEW w \in Workers
    PROVE  InFlight(w)'
  <1> DEFINE r == worker[w]  s == worker'[w]
  <1>1. /\ r \in Request /\ r.since \in Nat /\ r.keys \subseteq Kids
        /\ s \in Request /\ s.since \in Nat /\ s.keys \subseteq Kids
        /\ now \in Nat /\ now' \in Nat /\ Delay \in Nat
    BY TypeStep, RequestType, BoundTypes DEF TypeOK
  <1>2. InFlight(w)
    BY DEF KeyInv
  <1>3. now <= now'
    BY <1>1, NowNext
  <1>4. CASE s = r /\ (r.pc # "idle" => now <= now' /\ now' <= r.since + Delay)
    <2>1. r.pc # "idle" => r.since <= now'
      BY <1>1, <1>2, <1>3 DEF InFlight
    <2>2. r.pc \in {"sign", "mint", "retire"} /\ r.key # NoKey => LastsOn(r.key, r.since)
      <3>1. r.key # NoKey => r.key \in Kids
        BY <1>1, RequestType
      <3> QED  BY <1>1, <1>2, <3>1, <1>4, LastingNext DEF InFlight
    <2>3. r.pc = "purge" => \A k \in r.keys :
            status'[k] = "retired" \/ (status'[k] = "retiring" /\ retiresAt'[k] <= now')
      BY <1>1, <1>2, <1>3, PurgedNext DEF InFlight
    <2> QED  BY <1>2, <1>4, <2>1, <2>2, <2>3 DEF InFlight, Lasting, LastsOn
  <1>5. CASE s = Idle
    BY <1>5 DEF InFlight, Idle
  <1>6. CASE /\ now' = now
             /\ s.since = IF r.pc = "idle" THEN now ELSE r.since
             /\ s.pc \in {"provision", "reload", "jwks"} \cup Verifying
    BY <1>1, <1>2, <1>6 DEF InFlight, Verifying
  <1>7. CASE /\ now' = now
             /\ s.since = IF r.pc = "idle" THEN now ELSE r.since
             /\ s.pc \in {"sign", "mint", "retire"}
             /\ s.pc # "mint" => s.key # NoKey
             /\ s.key # NoKey => s.key \in Active \/ (r.pc = "mint" /\ s.key = r.key)
    <2>1. s.since <= now /\ now <= s.since + Delay
      BY <1>1, <1>2, <1>7 DEF InFlight
    <2>2. ASSUME s.key # NoKey PROVE Lasting(s.key, s.since)
      BY <1>2, <1>7, <2>2 DEF InFlight, Lasting, Active
    <2>3. s.key # NoKey => s.key \in Kids
      BY <1>1, RequestType
    <2>4. s.key # NoKey => LastsOn(s.key, s.since)
      BY <1>1, <2>1, <2>2, <2>3, LastingNext
    <2> QED  BY <1>7, <2>1, <2>4 DEF InFlight, Lasting, LastsOn
  <1>8. CASE /\ now' = now
             /\ s.since = IF r.pc = "idle" THEN now ELSE r.since
             /\ s.pc = "purge"
             /\ \A k \in s.keys : Lapsed(k) \/ (r.pc = "purge" /\ k \in r.keys)
    <2>1. s.since <= now /\ now <= s.since + Delay
      BY <1>1, <1>2, <1>8 DEF InFlight
    <2>2. \A k \in s.keys :
            status[k] = "retired" \/ (status[k] = "retiring" /\ retiresAt[k] <= now)
      BY <1>2, <1>8 DEF InFlight, Lapsed
    <2>3. \A k \in s.keys :
            status'[k] = "retired" \/ (status'[k] = "retiring" /\ retiresAt'[k] <= now')
      BY <1>1, <1>3, <2>2, PurgedNext
    <2> QED  BY <1>8, <2>1, <2>3 DEF InFlight
  <1> QED
    BY <1>4, <1>5, <1>6, <1>7, <1>8, RequestsNext DEF Proceeds

\* An access token stays in use until it is past its expiry, or is new.
LEMMA TokensNext ==
    ASSUME TypeOK, KeyInv, [Next]_vars, NEW t \in tokens'
    PROVE  \/ t \in tokens /\ now' <= t.exp + Tolerance
           \/ /\ now' = now /\ UNCHANGED table
              /\ t.exp = now + TTL
              /\ \E s \in Nat : s <= now /\ now <= s + Delay /\ Lasting(t.key, s)
  <1>1. CASE Tick
    <2>1. t \in tokens /\ ~Expired(t, now + 1) /\ now' = now + 1
      BY <1>1 DEF Tick
    <2>2. t.exp \in Nat /\ now \in Nat
      BY <2>1 DEF TypeOK, Token
    <2> QED  BY <2>1, <2>2, BoundTypes DEF Expired
  <1>2. ASSUME NEW w \in Workers, Sign(w), t \notin tokens
        PROVE  /\ now' = now /\ UNCHANGED table
               /\ t.exp = now + TTL
               /\ \E s \in Nat : s <= now /\ now <= s + Delay /\ Lasting(t.key, s)
    <2>1. /\ now' = now /\ UNCHANGED table
          /\ \E a \in scene.apps : t = signAccessToken(worker[w].key, a)
      BY <1>2 DEF Sign
    <2>2. t.exp = now + TTL /\ t.key = worker[w].key
      BY <2>1 DEF signAccessToken
    <2>3. /\ worker[w].since \in Nat
          /\ worker[w].since <= now /\ now <= worker[w].since + Delay
          /\ Lasting(worker[w].key, worker[w].since)
      BY <1>2, RequestType DEF Sign, KeyInv, InFlight, TypeOK
    <2> QED  BY <2>1, <2>2, <2>3
  <1>3. ASSUME t \in tokens, now' = now
        PROVE  t \in tokens /\ now' <= t.exp + Tolerance
    BY <1>3 DEF KeyInv, Outlived
  <1>4. ASSUME tokens' = tokens, now' = now
        PROVE  t \in tokens /\ now' <= t.exp + Tolerance
    BY <1>3, <1>4
  <1>5. ASSUME NEW w \in Workers, Sign(w), t \in tokens
        PROVE  t \in tokens /\ now' <= t.exp + Tolerance
    BY <1>3, <1>5 DEF Sign
  <1>6. ASSUME NEW w \in Workers,
               \/ SignLoad(w) \/ SignProvision(w) \/ SignReload(w)
               \/ RotateLoad(w) \/ RotateMint(w) \/ RotateRetire(w)
               \/ PurgeSelect(w) \/ PurgeOne(w) \/ JwksList(w) \/ JwksProvision(w)
               \/ \E u \in tokens, app \in scene.apps : VerifyStart(w, u, app)
               \/ VerifyLoad(w) \/ VerifyStore(w) \/ Crash(w)
        PROVE  tokens' = tokens /\ now' = now
    BY <1>6 DEF SignLoad, SignProvision, SignReload, RotateLoad, RotateMint, RotateRetire,
                PurgeSelect, PurgeOne, JwksList, JwksProvision, VerifyStart, VerifyLoad,
                VerifyStore, Crash
  <1>7. CASE UNCHANGED vars
    BY <1>4, <1>7 DEF vars
  <1> QED  BY <1>1, <1>2, <1>4, <1>5, <1>6, <1>7 DEF Next

LEMMA OutlivedNext ==
    ASSUME TypeOK, KeyInv, [Next]_vars, NEW t \in tokens'
    PROVE  Outlived(t)'
  <1>1. /\ now \in Nat /\ now' \in Nat /\ t.exp \in Nat /\ t.key \in Kids
        /\ retiresAt \in [Kids -> Nat]
    BY TypeStep DEF TypeOK, Token
  <1>2. now <= now'
    BY <1>1, NowNext
  <1>3. CASE t \in tokens /\ now' <= t.exp + Tolerance
    <2>1. Outlived(t)
      BY <1>3 DEF KeyInv
    <2>2. CASE KeyStays(t.key)
      BY <1>1, <1>2, <1>3, <2>1, <2>2, BoundTypes DEF Outlived, KeyStays
    <2>3. CASE KeyMoves(t.key)
      BY <1>1, <1>3, <2>1, <2>3, BoundTypes, WindowCovers DEF Outlived, KeyMoves
    <2> QED  BY <1>1, <2>2, <2>3, KeysNext
  <1>4. CASE /\ now' = now /\ UNCHANGED table
             /\ t.exp = now + TTL
             /\ \E s \in Nat : s <= now /\ now <= s + Delay /\ Lasting(t.key, s)
    BY <1>1, <1>4, BoundTypes, WindowCovers DEF Outlived, Lasting
  <1> QED  BY <1>3, <1>4, TokensNext

LEMMA KeyStep == TypeOK /\ KeyInv /\ [Next]_vars => KeyInv'
  BY InFlightNext, OutlivedNext DEF KeyInv

LEMMA KeyInit == Init => KeyInv
  <1> SUFFICES ASSUME Init, NEW w \in Workers PROVE InFlight(w)
    BY DEF Init, KeyInv
  <1> QED  BY DEF Init, InFlight, Idle

\* Types: a request retires a key only after it has read one.
THEOREM TypeCorrect == Spec => []TypeOK
  <1>1. Init => TypeOK /\ KeyInv
    BY TypeInit, KeyInit
  <1>2. TypeOK /\ KeyInv /\ [Next]_vars => (TypeOK /\ KeyInv)'
    BY TypeStep, KeyStep
  <1> QED  BY <1>1, <1>2, PTL DEF Spec

\* The inductive invariant holds throughout: a signature or a rotation in
\* progress still relies on a key that is active or retires a whole window
\* after it was read, and a purge only holds keys whose time is up.
THEOREM KeysLast == Spec => []KeyInv
  <1>1. Init => TypeOK /\ KeyInv
    BY TypeInit, KeyInit
  <1>2. TypeOK /\ KeyInv /\ [Next]_vars => (TypeOK /\ KeyInv)'
    BY TypeStep, KeyStep
  <1> QED  BY <1>1, <1>2, PTL DEF Spec

\* However signatures, rotations and purges interleave, an access token that
\* is not past its expiry and the tolerance was signed by a key that verifiers
\* can still load (signing-keys.ts:105).
THEOREM KeysOutlive == Spec => []TokensVerify
  <1>1. TypeOK /\ KeyInv => TokensVerify
    BY DEF TypeOK, Token, KeyInv, Outlived, TokensVerify, Trusted
  <1> QED  BY <1>1, TypeCorrect, KeysLast, PTL

-----------------------------------------------------------------------------
(* TrustIsBrief and NoFalseReject: the verifications and the cache.         *)

Loads(v) ==
    /\ worker[v].pc \in {"load", "force"}
    /\ worker'[v].token = worker[v].token
    /\ worker'[v].since = worker[v].since
    /\ worker'[v].keys = Trusted
    /\ UNCHANGED <<table, now, tokens>>

\* How a verification got where it is.
LEMMA VerifyingNext ==
    ASSUME TypeOK, KeyInv, [Next]_vars, NEW v \in Workers, worker'[v].pc \in Verifying
    PROVE  \/ worker'[v] = worker[v]
           \/ Loads(v)
           \/ /\ worker'[v].pc \in {"load", "force"} /\ UNCHANGED <<now, tokens>>
              /\ \/ worker'[v].token \in tokens
                 \/ worker[v].pc \in Verifying /\ worker'[v].token = worker[v].token
  <1> DEFINE Goal == \/ worker'[v] = worker[v]
                     \/ Loads(v)
                     \/ /\ worker'[v].pc \in {"load", "force"} /\ UNCHANGED <<now, tokens>>
                        /\ \/ worker'[v].token \in tokens
                           \/ worker[v].pc \in Verifying /\ worker'[v].token = worker[v].token
  <1>0. worker[v] \in Request /\ worker \in [Workers -> Request]
    BY DEF TypeOK
  <1>1. ASSUME NEW w \in Workers, SignLoad(w) PROVE Goal
    <2>1. \/ worker' = [worker EXCEPT ![w] =
               [Idle EXCEPT !.pc = "sign", !.key = Newest(Active), !.since = now]]
          \/ worker' = [worker EXCEPT ![w] = [Idle EXCEPT !.pc = "provision", !.since = now]]
      BY <1>1 DEF SignLoad, Begin
    <2> DEFINE n == Newest(Active)
    <2> HIDE DEF n
    <2>2. worker'[w].pc \in {"sign", "provision"}
      BY <1>0, <2>1 DEF Idle, n
    <2> QED  BY <1>0, <2>1, <2>2 DEF Verifying
  <1>2. ASSUME NEW w \in Workers,
               \/ SignProvision(w) \/ SignReload(w) \/ Sign(w) \/ RotateMint(w)
               \/ RotateRetire(w) \/ JwksProvision(w) \/ Crash(w)
        PROVE  Goal
    BY <1>0, <1>2 DEF SignProvision, SignReload, Sign, RotateMint, RotateRetire, JwksProvision,
                      Crash, Goto, Finish, Idle, Verifying, Request
  <1>3. ASSUME NEW w \in Workers, RotateLoad(w) PROVE Goal
    <2>1. worker'[w].pc = "mint"
      BY <1>0, <1>3 DEF RotateLoad, Idle
    <2> QED  BY <1>0, <1>3, <2>1 DEF RotateLoad, Verifying
  <1>4. ASSUME NEW w \in Workers, PurgeSelect(w) \/ JwksList(w) PROVE Goal
    <2>1. worker'[w].pc \in {"purge", "jwks"}
      BY <1>0, <1>4 DEF PurgeSelect, JwksList, Begin, Idle
    <2> QED  BY <1>0, <1>4, <2>1 DEF PurgeSelect, JwksList, Begin, Verifying
  <1>5. ASSUME NEW w \in Workers, PurgeOne(w) PROVE Goal
    <2>1. worker'[w].pc \in {"purge", "idle"}
      <3>1. worker[w].pc = "purge"
        BY <1>5 DEF PurgeOne
      <3>2. \/ worker' = [worker EXCEPT ![w] = Idle]
            \/ \E k \in Kids : worker' = [worker EXCEPT ![w].keys = @ \ {k}]
        BY <1>0, <1>5, RequestType DEF PurgeOne, Finish
      <3>3. CASE worker' = [worker EXCEPT ![w] = Idle]
        BY <1>0, <3>3 DEF Idle
      <3>4. ASSUME NEW k \in Kids, worker' = [worker EXCEPT ![w].keys = @ \ {k}]
            PROVE  worker'[w].pc = "purge"
        BY <1>0, <3>1, <3>4 DEF Request
      <3> QED  BY <3>2, <3>3, <3>4
    <2> QED  BY <1>0, <1>5, <2>1 DEF PurgeOne, Finish, Verifying
  <1>6. ASSUME NEW w \in Workers, NEW t \in tokens, NEW app \in scene.apps,
               VerifyStart(w, t, app)
        PROVE  Goal
    <2>1. worker'[w].pc \in {"load", "force"} /\ worker'[w].token = t
      BY <1>0, <1>6 DEF VerifyStart, Idle
    <2> QED  BY <1>0, <1>6, <2>1 DEF VerifyStart
  <1>7. ASSUME NEW w \in Workers, VerifyLoad(w) PROVE Goal
    <2>1. CASE v = w
      BY <1>0, <1>7, <2>1 DEF VerifyLoad, Loads, Request
    <2>2. CASE v # w
      BY <1>0, <1>7, <2>2 DEF VerifyLoad
    <2> QED  BY <2>1, <2>2
  <1>8. ASSUME NEW w \in Workers, VerifyStore(w) PROVE Goal
    <2>1. \/ worker' = [worker EXCEPT ![w] = [worker[w] EXCEPT !.pc = "force"]]
          \/ worker' = [worker EXCEPT ![w] = Idle]
      BY <1>8 DEF VerifyStore, Goto, Finish
    <2>2. UNCHANGED <<now, tokens>> /\ worker[w].pc \in Verifying
      BY <1>8 DEF VerifyStore, Verifying
    <2> QED  BY <1>0, <2>1, <2>2 DEF Idle, Verifying, Request
  <1>9. CASE Tick \/ UNCHANGED vars
    BY <1>9 DEF Tick, vars
  <1> QED
    BY <1>1, <1>2, <1>3, <1>4, <1>5, <1>6, <1>7, <1>8, <1>9 DEF Next

LEMMA CacheNext ==
    ASSUME [Next]_vars
    PROVE  \/ UNCHANGED reads
           \/ \E w \in Workers : VerifyStore(w)
  BY DEF Next, SignLoad, SignProvision, SignReload, Sign, RotateLoad, RotateMint, RotateRetire,
         PurgeSelect, PurgeOne, JwksList, JwksProvision, VerifyStart, VerifyLoad, Crash, Tick, vars

LEMMA RecentStep == TypeOK /\ KeyInv /\ Recent /\ [Next]_vars => Recent'
  <1> SUFFICES ASSUME TypeOK, KeyInv, Recent, [Next]_vars PROVE Recent'
    OBVIOUS
  <1>1. /\ now \in Nat /\ now' \in Nat /\ now <= now' /\ Delay \in Nat
        /\ gone \in [Kids -> Nat] /\ gone' \in [Kids -> Nat]
        /\ cache.at \in Nat /\ cache.keys \subseteq Kids
        /\ \A w \in Workers : worker[w].since \in Nat /\ worker[w].keys \subseteq Kids
    <2>1. TypeOK'
      BY TypeStep
    <2>2. now \in Nat /\ now' \in Nat /\ now <= now' /\ Delay \in Nat
      <3>1. now \in Nat /\ now' \in Nat
        BY <2>1 DEF TypeOK
      <3> QED  BY <3>1, NowNext, BoundTypes
    <2>3. /\ gone \in [Kids -> Nat] /\ gone' \in [Kids -> Nat]
          /\ cache.at \in Nat /\ cache.keys \subseteq Kids
      BY <2>1 DEF TypeOK
    <2>4. \A w \in Workers : worker[w].since \in Nat /\ worker[w].keys \subseteq Kids
      BY RequestType DEF TypeOK
    <2> QED  BY <2>2, <2>3, <2>4
  <1>2. \A k \in Kids : status'[k] = "retired" =>
          \/ status[k] = "retired" /\ gone'[k] = gone[k]
          \/ gone'[k] = now /\ now' = now
    BY KeysNext DEF KeyStays, KeyMoves
  <1>3. \A w \in Workers : worker'[w].pc \in {"loaded", "forced"} =>
          \A k \in worker'[w].keys : status'[k] = "retired" => worker'[w].since <= gone'[k]
    <2> TAKE w \in Workers
    <2> SUFFICES ASSUME worker'[w].pc \in {"loaded", "forced"}, NEW k \in worker'[w].keys,
                        status'[k] = "retired"
                 PROVE  worker'[w].since <= gone'[k]
      OBVIOUS
    <2>1. CASE worker'[w] = worker[w]
      <3>1. k \in Kids /\ (status[k] = "retired" => worker[w].since <= gone[k])
        BY <1>1, <2>1 DEF Recent
      <3>2. worker[w].since <= now
        BY <2>1 DEF KeyInv, InFlight
      <3> QED  BY <1>1, <1>2, <2>1, <3>1, <3>2
    <2>2. CASE Loads(w)
      BY <2>2 DEF Loads, Trusted
    <2> QED  BY <2>1, <2>2, VerifyingNext DEF Verifying
  <1>4. CASE UNCHANGED reads
    <2>1. cache'.at <= now'
      BY <1>1, <1>4 DEF Recent
    <2>2. \A k \in cache'.keys : status'[k] = "retired" => cache'.at <= gone'[k] + Delay
      BY <1>1, <1>2, <1>4 DEF Recent
    <2> QED  BY <1>3, <2>1, <2>2 DEF Recent
  <1>5. ASSUME NEW w \in Workers, VerifyStore(w) PROVE Recent'
    <2>1. cache' = [keys |-> worker[w].keys, at |-> now, filled |-> TRUE] /\ UNCHANGED table
          /\ now' = now
      BY <1>5 DEF VerifyStore
    <2>2. /\ now <= worker[w].since + Delay
          /\ \A k \in worker[w].keys : status[k] = "retired" => worker[w].since <= gone[k]
      BY <1>5 DEF VerifyStore, KeyInv, InFlight, Recent
    <2>3. \A k \in worker[w].keys : status[k] = "retired" => now <= gone[k] + Delay
      BY <1>1, <2>2
    <2> QED  BY <1>1, <1>3, <2>1, <2>3 DEF Recent
  <1> QED  BY <1>4, <1>5, CacheNext

LEMMA RecentInit == Init => Recent
  BY DEF Init, Recent, Idle

\* A fresh cache vouches for a retired key no longer than its TTL, plus the
\* time of the load that filled it (publicKeyCache, tokens.ts).
THEOREM CacheTrustIsBrief == Spec => []TrustIsBrief
  <1>1. TypeOK /\ Recent => TrustIsBrief
    <2> SUFFICES ASSUME TypeOK, Recent, Fresh, NEW k \in cache.keys, status[k] = "retired"
                 PROVE  now <= gone[k] + CacheTTL + Delay
      BY DEF TrustIsBrief
    <2>1. now \in Nat /\ gone[k] \in Nat /\ cache.at \in Nat
      BY DEF TypeOK
    <2>2. now < cache.at + CacheTTL /\ cache.at <= gone[k] + Delay
      BY DEF Fresh, Recent
    <2> QED  BY <2>1, <2>2, BoundTypes
  <1>2. TypeOK /\ KeyInv /\ Recent /\ [Next]_vars => Recent'
    BY RecentStep
  <1> QED  BY <1>1, <1>2, RecentInit, TypeCorrect, KeysLast, PTL DEF Spec

LEMMA FoundStep == TypeOK /\ KeyInv /\ Found /\ [Next]_vars => Found'
  <1> SUFFICES ASSUME TypeOK, KeyInv, Found, [Next]_vars PROVE Found'
    OBVIOUS
  <1>1. /\ now \in Nat /\ now' \in Nat /\ now <= now' /\ Tolerance \in Nat
        /\ tokens \subseteq Token /\ \A t \in Token : t.exp \in Nat
    BY TypeStep, NowNext, BoundTypes DEF TypeOK, Token
  <1>2. \A t \in Token : Expired(t, now) => Expired(t, now')
    BY <1>1 DEF Expired
  <1>3. \A t \in tokens : t \in tokens' \/ Expired(t, now')
    BY DEF Next, SignLoad, SignProvision, SignReload, Sign, RotateLoad, RotateMint, RotateRetire,
           PurgeSelect, PurgeOne, JwksList, JwksProvision, VerifyStart, VerifyLoad, VerifyStore,
           Crash, Tick, vars
  <1>4. ASSUME NEW w \in Workers, worker'[w].pc \in Verifying
        PROVE  /\ worker'[w].token \in Token
               /\ worker'[w].token \in tokens' \/ Expired(worker'[w].token, now')
               /\ worker'[w].pc \in {"loaded", "forced"} =>
                    \/ worker'[w].token.key \in worker'[w].keys
                    \/ Expired(worker'[w].token, now')
    <2>1. CASE worker'[w] = worker[w]
      BY <1>2, <1>3, <1>4, <2>1 DEF Found
    <2>2. CASE Loads(w)
      <3>1. /\ worker'[w].token \in Token
            /\ worker'[w].token \in tokens \/ Expired(worker'[w].token, now)
        BY <2>2 DEF Loads, Found, Verifying
      <3>2. worker'[w].token \in tokens => worker'[w].token.key \in worker'[w].keys
        BY <1>1, <2>2 DEF Loads, KeyInv, Outlived, Trusted, Token
      <3> QED  BY <2>2, <3>1, <3>2 DEF Loads
    <2>3. CASE /\ worker'[w].pc \in {"load", "force"} /\ UNCHANGED <<now, tokens>>
               /\ \/ worker'[w].token \in tokens
                  \/ worker[w].pc \in Verifying /\ worker'[w].token = worker[w].token
      BY <1>1, <2>3 DEF Found
    <2> QED  BY <1>4, <2>1, <2>2, <2>3, VerifyingNext
  <1>5. ~rejected'
    <2>1. ASSUME NEW w \in Workers, VerifyStore(w) PROVE ~rejected'
      <3> DEFINE t == worker[w].token  app == worker[w].app
                 verdict == verifyAccessToken(t, worker[w].keys, app)
      <3>1. t \in Token /\ (t.key \in worker[w].keys \/ Expired(t, now))
        BY <2>1 DEF VerifyStore, Found, Verifying
      <3>2. ASSUME t.aud = app, now <= t.exp PROVE verdict = "valid"
        <4>1. ~Expired(t, now)
          BY <1>1, <3>1, <3>2 DEF Expired
        <4>2. t.key \in worker[w].keys
          BY <3>1, <4>1
        <4> QED  BY <3>2, <4>1, <4>2 DEF verifyAccessToken
      <3>3. ~Wrongly(t, app, verdict)
        BY <3>2 DEF Wrongly
      <3> QED  BY <2>1, <3>3 DEF VerifyStore, Found
    <2>2. CASE UNCHANGED reads
      BY <2>2 DEF Found
    <2> QED  BY <2>1, <2>2, CacheNext
  <1> QED  BY <1>4, <1>5 DEF Found

LEMMA FoundInit == Init => Found
  BY DEF Init, Found, Idle, Verifying

\* "A cache miss on an unknown kid forces a reload" (tokens.ts:91): because a
\* key outlives its tokens, the loaded keys hold that of every token in time.
THEOREM CacheRefusesNone == Spec => []NoFalseReject
  <1>1. Found => NoFalseReject
    BY DEF Found, NoFalseReject
  <1>2. TypeOK /\ KeyInv /\ Found /\ [Next]_vars => Found'
    BY FoundStep
  <1> QED  BY <1>1, <1>2, FoundInit, TypeCorrect, KeysLast, PTL DEF Spec
=============================================================================
