---------------------- MODULE ConnectionResolverProofs ----------------------
(***************************************************************************)
(* Proofs about ConnectionResolver, for every value of its constants.       *)
(*                                                                         *)
(*   - type correctness;                                                   *)
(*   - OwnDatabase and NoLeak, from an invariant that ties every caller,    *)
(*     build and pool entry to the app its adapter was built for;           *)
(*   - EditTakesEffect for the apps whose edits neither overlap a build     *)
(*     nor die, from an invariant about edits in progress.                  *)
(*                                                                         *)
(* The recency list plays no part in them: whichever entries are evicted,   *)
(* they are evicted from the pool and closed together.                     *)
(***************************************************************************)
EXTENDS ConnectionResolver, TLAPS

LEMMA NoneApart ==
    /\ None \notin Apps /\ None \notin Callers /\ None \notin Adapters
    /\ None \notin Entry
  BY ResolverAssumption DEF Entry

-----------------------------------------------------------------------------
(* What every caller, build and pool entry knows of the others.             *)

Building == {"load", "reveal", "open"}

\* A pool entry is open, and its adapter was built for its app.  While a
\* build is in flight for an app the pool holds nothing for it: the miss that
\* began the build discarded the entry, and no other build can refill it.
PoolOwns ==
    \A a \in Apps :
      /\ Cached(a) => pool[a].id \in open /\ adapter[pool[a].id].app = a
      /\ inFlight[a] # None => ~Cached(a)

\* So is the adapter a caller uses, open or not.
UsersOwn ==
    \A c \in Callers : call[c].st = "using" =>
      /\ call[c].app \in Apps /\ call[c].id \in Adapters
      /\ adapter[call[c].id].app = call[c].app

\* The build in flight for an app is a caller building for that app, the
\* only one; whoever joined a build asked for the app it is for.
BuildsJoined ==
    /\ \A a \in Apps : inFlight[a] # None =>
         call[inFlight[a]].st \in Building /\ call[inFlight[a]].app = a
    /\ \A c \in Callers : call[c].st \in Building =>
         call[c].app \in Apps /\ inFlight[call[c].app] = c
    /\ \A c \in Callers : call[c].on # None =>
         /\ call[c].st = "wait" /\ call[c].app \in Apps
         /\ inFlight[call[c].app] = call[c].on

\* An edit in progress is an edit of some app.
EditorsBusy ==
    \A d \in Admins : admin[d].app \in Apps <=> admin[d].pc # "idle"

IdInv == TypeOK /\ EditorsBusy /\ PoolOwns /\ NoLeak /\ UsersOwn /\ BuildsJoined

-----------------------------------------------------------------------------
(* Records *)

LEMMA IdleRequest ==
    /\ Idle \in Request
    /\ Idle.st = "idle" /\ Idle.on = None /\ Idle.app = None
  BY DEF Idle, Request

\* The requests a caller is put in.
Using(a, i) == [Idle EXCEPT !.st = "using", !.app = a, !.id = i]
Waiting(a, c) == [Idle EXCEPT !.st = "wait", !.app = a, !.on = c]
Loading(a) == [Idle EXCEPT !.st = "load", !.app = a]

LEMMA RequestForms ==
    ASSUME NEW a \in Apps
    PROVE  /\ \A i \in Adapters :
                /\ Using(a, i) \in Request
                /\ Using(a, i).st = "using" /\ Using(a, i).app = a
                /\ Using(a, i).id = i /\ Using(a, i).on = None
           /\ \A c \in Callers :
                /\ Waiting(a, c) \in Request
                /\ Waiting(a, c).st = "wait" /\ Waiting(a, c).app = a
                /\ Waiting(a, c).on = c
           /\ /\ Loading(a) \in Request
              /\ Loading(a).st = "load" /\ Loading(a).app = a
              /\ Loading(a).on = None
  BY DEF Using, Waiting, Loading, Idle, Request

LEMMA RequestFields ==
    \A r \in Request :
      /\ r.app \in Apps \cup {None} /\ r.dsn \in Nat
      /\ r.on \in Callers \cup {None} /\ r.id \in Adapters \cup {None}
  BY DEF Request

LEMMA EntryFields ==
    \A e \in Entry : e.id \in Adapters /\ e.age \in 0 .. TTL
  BY DEF Entry

\* What Settle leaves of the callers, field by field.
LEMMA SettleCalls ==
    ASSUME TypeOK, BuildsJoined, NEW c \in Callers,
           NEW result \in Adapters \cup {None}, Settle(c, result),
           call[c].st \in Building
    PROVE  /\ call' \in [Callers -> Request]
           /\ inFlight' = [inFlight EXCEPT ![call[c].app] = None]
           /\ \A b \in Callers :
                \/ /\ b = c \/ call[b].on = c
                   /\ IF result = None THEN call'[b] = Idle
                      ELSE call'[b] = Using(call[b].app, result)
                   /\ call[b].app = call[c].app
                \/ /\ b # c /\ call[b].on # c
                   /\ call'[b] = call[b]
  <1>1. \A b \in Callers :
          b = c \/ call[b].on = c => call[b].app = call[c].app
                                     /\ call[b].app \in Apps
    <2> SUFFICES ASSUME NEW b \in Callers, call[b].on = c
                 PROVE  call[b].app = call[c].app /\ call[b].app \in Apps
      BY DEF BuildsJoined
    <2>1. call[b].app \in Apps /\ inFlight[call[b].app] = c
      BY NoneApart DEF BuildsJoined
    <2> QED  BY <2>1, NoneApart DEF BuildsJoined
  <1>2. \A b \in Callers :
          call'[b] = IF b = c \/ call[b].on = c
                       THEN IF result = None THEN Idle
                            ELSE Using(call[b].app, result)
                       ELSE call[b]
    BY DEF Settle, Using
  <1>3. call' = [b \in Callers |-> call'[b]]
    BY DEF Settle
  <1>4. \A b \in Callers : call'[b] \in Request
    <2> SUFFICES ASSUME NEW b \in Callers PROVE call'[b] \in Request
      OBVIOUS
    <2>1. CASE b = c \/ call[b].on = c
      BY <1>1, <1>2, <2>1, IdleRequest, RequestForms
    <2>2. CASE ~(b = c \/ call[b].on = c)
      BY <1>2, <2>2 DEF TypeOK
    <2> QED  BY <2>1, <2>2
  <1>5. call' \in [Callers -> Request]
    BY <1>3, <1>4
  <1>6. inFlight' = [inFlight EXCEPT ![call[c].app] = None]
    BY DEF Settle
  <1> QED  BY <1>1, <1>2, <1>5, <1>6

-----------------------------------------------------------------------------
(* Type correctness *)

LEMMA TypeInit == Init => TypeOK
  <1> SUFFICES ASSUME Init PROVE TypeOK
    OBVIOUS
  <1>1. AtRest \in Task /\ [app |-> None, dsn |-> 0] \in
          [app : Apps \cup {None}, dsn : Nat]
    BY DEF AtRest, Task
  <1> QED  BY <1>1, IdleRequest DEF Init, TypeOK

LEMMA DiscardType ==
    ASSUME TypeOK, NEW a \in Apps, Discard(a)
    PROVE  /\ pool' = [pool EXCEPT ![a] = None]
           /\ pool' \in [Apps -> Entry \cup {None}]
           /\ open' \subseteq open
  BY DEF Discard, TypeOK

LEMMA AdvanceType ==
    ASSUME TypeOK, NEW d \in Admins, NEW pc, NEW a, Advance(d, pc, a),
           pc \in {"idle", "insert", "invalidate"}, a \in Apps \cup {None}
    PROVE  /\ admin' \in [Admins -> Task]
           /\ admin'[d].pc = pc /\ admin'[d].app = a
           /\ \A e \in Admins : e # d => admin'[e] = admin[e]
  <1> DEFINE r == [pc |-> pc, app |-> a]
  <1>1. r \in Task /\ r.pc = pc /\ r.app = a
    BY DEF Task
  <1>2. admin' = [admin EXCEPT ![d] = r]
    BY DEF Advance
  <1> HIDE DEF r
  <1> QED  BY <1>1, <1>2 DEF TypeOK

-----------------------------------------------------------------------------
(* What each step does, in the terms of the invariants.                     *)

LEMMA HitShape ==
    ASSUME TypeOK, NEW c \in Callers, NEW a \in Apps, Hit(c, a)
    PROVE  /\ call[c].st = "idle" /\ Cached(a) /\ pool[a].id \in Adapters
           /\ call' = [call EXCEPT ![c] = Using(a, pool[a].id)]
           /\ UNCHANGED <<primary, written, admin, adapter, open, pool,
                          inFlight>>
  <1>1. pool' = pool
    BY DEF Hit, Touched, TypeOK
  <1>2. Cached(a) /\ pool[a].id \in Adapters
    BY EntryFields DEF Hit, Usable, Cached, TypeOK
  <1> QED  BY <1>1, <1>2 DEF Hit, Using, configs

LEMMA MissShape ==
    ASSUME TypeOK, NEW c \in Callers, NEW a \in Apps, Miss(c, a)
    PROVE  /\ call[c].st = "idle" /\ Discard(a)
           /\ a \in Unruly \/ Editing(a) = {}
           /\ \/ /\ inFlight[a] \in Callers /\ UNCHANGED inFlight
                 /\ call' = [call EXCEPT ![c] = Waiting(a, inFlight[a])]
              \/ /\ inFlight[a] = None
                 /\ inFlight' = [inFlight EXCEPT ![a] = c]
                 /\ call' = [call EXCEPT ![c] = Loading(a)]
           /\ UNCHANGED <<primary, written, admin, adapter>>
  <1>1. inFlight[a] # None => inFlight[a] \in Callers
    BY DEF TypeOK
  <1> QED  BY <1>1 DEF Miss, Pending, Waiting, Loading, configs

\* Between its statements a build keeps all but its stage and what it read.
LEMMA BuildShape ==
    ASSUME TypeOK, BuildsJoined, NEW c \in Callers,
           BuildLoad(c) \/ BuildReveal(c)
    PROVE  \E r \in Request :
             /\ call' = [call EXCEPT ![c] = r]
             /\ r.app = call[c].app /\ r.on = call[c].on
             /\ call[c].st \in Building /\ r.st \in Building
             /\ r.st = "open" => /\ call[c].st = "reveal"
                                 /\ r.dsn = primary[r.app]
             /\ UNCHANGED <<primary, written, admin, adapter, open, pool,
                            inFlight>>
  <1>0. call[c] \in Request
    BY DEF TypeOK
  <1>1. CASE BuildLoad(c)
    <2> DEFINE r == [call[c] EXCEPT !.st = "reveal"]
    <2>1. /\ r \in Request /\ r.st = "reveal"
          /\ r.app = call[c].app /\ r.on = call[c].on
      BY <1>0 DEF Request
    <2>2. call' = [call EXCEPT ![c] = r]
      BY <1>1 DEF BuildLoad
    <2> HIDE DEF r
    <2> QED  BY <1>1, <2>1, <2>2 DEF BuildLoad, Building, configs, cached
  <1>2. CASE BuildReveal(c)
    <2> DEFINE v == primary[call[c].app]
               r == [call[c] EXCEPT !.st = "open", !.dsn = v]
    <2>1. v \in Nat
      <3>1. call[c].app \in Apps
        BY <1>2 DEF BuildReveal, BuildsJoined, Building
      <3> QED  BY <3>1 DEF TypeOK
    <2>2. call' = [call EXCEPT ![c] = r]
      BY <1>2 DEF BuildReveal
    <2> HIDE DEF v
    <2>3. /\ r \in Request /\ r.st = "open" /\ r.dsn = v
          /\ r.app = call[c].app /\ r.on = call[c].on
      BY <1>0, <2>1 DEF Request
    <2> HIDE DEF r
    <2> QED  BY <1>2, <2>2, <2>3 DEF BuildReveal, Building, configs, cached, v
  <1> QED  BY <1>1, <1>2

\* A driver is opened under an unused id; the entries that go are closed.
LEMMA OpenShape ==
    ASSUME TypeOK, NEW c \in Callers, BuildOpen(c), call[c].app \in Apps
    PROVE  \E i \in Adapters, V \in SUBSET {b \in Apps : Cached(b)} :
             /\ i \notin open /\ \A b \in Callers : call[b].id # i
             /\ adapter' = [adapter EXCEPT ![i] =
                              [app |-> call[c].app, dsn |-> call[c].dsn]]
             /\ open' = (open \ {pool[b].id : b \in V}) \cup {i}
             /\ pool' = [b \in Apps |->
                           IF b = call[c].app THEN [id |-> i, age |-> 0]
                           ELSE IF b \in V THEN None ELSE pool[b]]
             /\ call[c].st = "open" /\ Settle(c, i)
             /\ UNCHANGED <<primary, written, admin>>
  <1> DEFINE kept == Kept(Without(lru, call[c].app))
             V == {b \in Apps : Cached(b)} \ {kept[k] : k \in 1 .. Len(kept)}
             i == NewAdapter
  <1>1. /\ Unused # {}
        /\ adapter' = [adapter EXCEPT ![i] =
                         [app |-> call[c].app, dsn |-> call[c].dsn]]
        /\ open' = (open \ {pool[b].id : b \in V}) \cup {i}
        /\ pool' = [b \in Apps |->
                      IF b = call[c].app THEN [id |-> i, age |-> 0]
                      ELSE IF b \in V THEN None ELSE pool[b]]
        /\ call[c].st = "open" /\ Settle(c, i)
        /\ UNCHANGED <<primary, written, admin>>
    BY DEF BuildOpen, configs
  <1>2. i \in Adapters /\ i \notin open /\ \A b \in Callers : call[b].id # i
    BY <1>1 DEF NewAdapter, Unused
  <1>3. V \in SUBSET {b \in Apps : Cached(b)}
    OBVIOUS
  <1> HIDE DEF V, i
  <1> QED  BY <1>1, <1>2, <1>3

\* An edit touches the pool only when it invalidates.
LEMMA EditShape ==
    ASSUME TypeOK, NEW d \in Admins,
           \/ \E a \in Apps : EditDemote(d, a) \/ Delete(d, a)
           \/ EditInsert(d) \/ EditFails(d)
    PROVE  /\ UNCHANGED <<adapter, open, pool, inFlight, call>>
           /\ primary' \in [Apps -> Nat] /\ written' \in [Apps -> Nat]
           /\ admin' \in [Admins -> Task]
  <1>1. ASSUME NEW a \in Apps, EditDemote(d, a) \/ Delete(d, a)
        PROVE  /\ UNCHANGED <<adapter, open, pool, inFlight, call>>
               /\ primary' \in [Apps -> Nat] /\ written' \in [Apps -> Nat]
               /\ admin' \in [Admins -> Task]
    BY <1>1, AdvanceType DEF EditDemote, Delete, cached, TypeOK
  <1>2. CASE EditInsert(d)
    <2>1. admin[d].app \in Apps \cup {None}
      BY DEF TypeOK, Task
    <2>2. primary' \in [Apps -> Nat] /\ written' \in [Apps -> Nat]
      BY <1>2 DEF EditInsert, TypeOK
    <2>3. admin' \in [Admins -> Task]
      BY <1>2, <2>1, AdvanceType DEF EditInsert
    <2> QED  BY <1>2, <2>2, <2>3 DEF EditInsert, cached
  <1>3. CASE EditFails(d)
    BY <1>3, AdvanceType DEF EditFails, cached, TypeOK
  <1> QED  BY <1>1, <1>2, <1>3

LEMMA InvalidateShape ==
    ASSUME TypeOK, NEW d \in Admins, Invalidate(d), admin[d].app \in Apps
    PROVE  /\ Discard(admin[d].app)
           /\ UNCHANGED <<primary, written, adapter, inFlight, call>>
           /\ admin' \in [Admins -> Task]
  BY AdvanceType DEF Invalidate

-----------------------------------------------------------------------------
(* Adapters stay with their apps.                                           *)

LEMMA TypeStep == IdInv /\ [Next]_vars => TypeOK'
  <1> SUFFICES ASSUME IdInv, [Next]_vars PROVE TypeOK'
    OBVIOUS
  <1> USE DEF IdInv
  <1>1. ASSUME NEW c \in Callers, NEW a \in Apps, Hit(c, a)
        PROVE  TypeOK'
    <2>1. call' \in [Callers -> Request]
      BY <1>1, HitShape, RequestForms DEF TypeOK
    <2> QED  BY <1>1, <2>1, HitShape DEF TypeOK
  <1>2. ASSUME NEW c \in Callers, NEW a \in Apps, Miss(c, a)
        PROVE  TypeOK'
    <2> DEFINE p == Waiting(a, inFlight[a])
               q == Loading(a)
    <2>0. /\ inFlight[a] \in Callers => p \in Request
          /\ q \in Request
      BY RequestForms
    <2>1. call' \in [Callers -> Request]
      <3>1. \/ inFlight[a] \in Callers /\ call' = [call EXCEPT ![c] = p]
            \/ call' = [call EXCEPT ![c] = q]
        BY <1>2, MissShape
      <3> HIDE DEF p, q
      <3> QED  BY <2>0, <3>1 DEF TypeOK
    <2>2. Discard(a) /\ inFlight' \in [Apps -> Callers \cup {None}]
      BY <1>2, MissShape DEF TypeOK
    <2> QED  BY <1>2, <2>1, <2>2, MissShape, DiscardType DEF TypeOK
  <1>3. ASSUME NEW c \in Callers, BuildLoad(c) \/ BuildReveal(c)
        PROVE  TypeOK'
    <2> PICK r \in Request :
          /\ call' = [call EXCEPT ![c] = r]
          /\ UNCHANGED <<primary, written, admin, adapter, open, pool,
                         inFlight>>
      BY <1>3, BuildShape
    <2> QED  BY DEF TypeOK
  <1>4. ASSUME NEW c \in Callers, BuildFails(c)
        PROVE  TypeOK'
    <2>1. call[c].st \in Building /\ Settle(c, None)
      BY <1>4 DEF BuildFails, Building
    <2>2. call' \in [Callers -> Request]
      BY <2>1, SettleCalls
    <2>3. inFlight' \in [Apps -> Callers \cup {None}]
      BY <2>1 DEF Settle, TypeOK
    <2> QED  BY <1>4, <2>2, <2>3 DEF BuildFails, TypeOK, configs, cached
  <1>5. ASSUME NEW c \in Callers, BuildOpen(c)
        PROVE  TypeOK'
    <2>1. call[c].app \in Apps /\ call[c].st \in Building
      BY <1>5 DEF BuildOpen, BuildsJoined, Building
    <2> DEFINE new == [app |-> call[c].app, dsn |-> call[c].dsn]
    <2> PICK i \in Adapters, V \in SUBSET {b \in Apps : Cached(b)} :
             /\ adapter' = [adapter EXCEPT ![i] = new]
             /\ open' = (open \ {pool[b].id : b \in V}) \cup {i}
             /\ pool' = [b \in Apps |->
                           IF b = call[c].app THEN [id |-> i, age |-> 0]
                           ELSE IF b \in V THEN None ELSE pool[b]]
             /\ Settle(c, i)
             /\ UNCHANGED <<primary, written, admin>>
      BY <1>5, <2>1, OpenShape
    <2>2. call' \in [Callers -> Request]
      BY <2>1, SettleCalls
    <2>3. inFlight' \in [Apps -> Callers \cup {None}]
      BY <2>1 DEF Settle, TypeOK
    <2>4. new \in [app : Apps \cup {None}, dsn : Nat]
      BY <2>1, RequestFields DEF TypeOK
    <2> HIDE DEF new
    <2>5. adapter' \in [Adapters -> [app : Apps \cup {None}, dsn : Nat]]
      BY <2>4 DEF TypeOK
    <2>6. [id |-> i, age |-> 0] \in Entry
      BY ResolverAssumption DEF Entry
    <2>7. pool' \in [Apps -> Entry \cup {None}]
      BY <2>6 DEF TypeOK
    <2>8. open' \subseteq Adapters
      BY DEF TypeOK
    <2> QED  BY <2>2, <2>3, <2>5, <2>7, <2>8 DEF TypeOK
  <1>6. ASSUME NEW c \in Callers, Done(c)
        PROVE  TypeOK'
    BY <1>6, IdleRequest DEF Done, TypeOK, configs, cached
  <1>7. ASSUME NEW d \in Admins,
               \/ \E a \in Apps : EditDemote(d, a) \/ Delete(d, a)
               \/ EditInsert(d) \/ EditFails(d)
        PROVE  TypeOK'
    BY <1>7, EditShape DEF TypeOK
  <1>8. ASSUME NEW d \in Admins, Invalidate(d)
        PROVE  TypeOK'
    <2>1. admin[d].app \in Apps
      BY <1>8 DEF Invalidate, EditorsBusy
    <2>2. Discard(admin[d].app)
      BY <1>8, <2>1, InvalidateShape
    <2> QED  BY <1>8, <2>1, <2>2, InvalidateShape, DiscardType DEF TypeOK
  <1>9. ASSUME NEW a \in Apps, Age(a)
        PROVE  TypeOK'
    <2> DEFINE e == [pool[a] EXCEPT !.age = @ + 1]
    <2>1. pool[a] \in Entry /\ pool[a].age < TTL
      BY <1>9 DEF Age, Usable, TypeOK
    <2>2. e \in Entry
      BY <2>1, ResolverAssumption DEF Entry
    <2>3. pool' = [pool EXCEPT ![a] = e]
      BY <1>9 DEF Age
    <2> HIDE DEF e
    <2>4. pool' \in [Apps -> Entry \cup {None}]
      BY <2>2, <2>3 DEF TypeOK
    <2> QED  BY <1>9, <2>4 DEF Age, TypeOK, configs
  <1>10. CASE UNCHANGED vars
    BY <1>10 DEF vars, TypeOK
  <1> QED
    BY <1>1, <1>2, <1>3, <1>4, <1>5, <1>6, <1>7, <1>8, <1>9, <1>10
    DEF Next, Ask, Build, Edit

LEMMA EditorsStep == IdInv /\ [Next]_vars => EditorsBusy'
  <1> SUFFICES ASSUME IdInv, [Next]_vars PROVE EditorsBusy'
    OBVIOUS
  <1> USE DEF IdInv, EditorsBusy
  <1>1. ASSUME admin' = admin PROVE EditorsBusy'
    BY <1>1
  <1>2. ASSUME NEW d \in Admins, NEW pc, NEW a, Advance(d, pc, a),
               pc \in {"idle", "insert", "invalidate"}, a \in Apps \cup {None},
               a = None <=> pc = "idle"
        PROVE  EditorsBusy'
    BY <1>2, AdvanceType, NoneApart
  <1>3. ASSUME NEW d \in Admins, EditInsert(d)
        PROVE  EditorsBusy'
    <2>1. admin[d].app \in Apps
      BY <1>3 DEF EditInsert
    <2>2. \/ Advance(d, "invalidate", admin[d].app)
          \/ Advance(d, "idle", None)
      BY <1>3 DEF EditInsert
    <2> QED  BY <2>1, <2>2, <1>2, NoneApart
  <1>4. ASSUME NEW d \in Admins, Invalidate(d) \/ EditFails(d)
        PROVE  EditorsBusy'
    BY <1>2, <1>4 DEF Invalidate, EditFails
  <1>5. ASSUME NEW d \in Admins, NEW a \in Apps, EditDemote(d, a) \/ Delete(d, a)
        PROVE  EditorsBusy'
    BY <1>2, <1>5, NoneApart DEF EditDemote, Delete
  <1>6. ASSUME NEW c \in Callers, Build(c) \/ Done(c)
        PROVE  admin' = admin
    BY <1>6 DEF Build, BuildFails, BuildLoad, BuildReveal, BuildOpen, Done,
                configs
  <1>7. ASSUME NEW a \in Apps, Ask(a) \/ Age(a)
        PROVE  admin' = admin
    BY <1>7 DEF Ask, Hit, Miss, Age, configs
  <1> QED
    BY <1>1, <1>3, <1>4, <1>5, <1>6, <1>7 DEF Next, Edit, vars

\* No two apps share an adapter.
LEMMA IdsApart ==
    ASSUME PoolOwns, NEW a \in Apps, NEW b \in Apps, Cached(a), Cached(b),
           pool[a].id = pool[b].id
    PROVE  a = b
  BY DEF PoolOwns

LEMMA DiscardKeeps ==
    ASSUME TypeOK, PoolOwns, NoLeak, NEW a \in Apps, Discard(a),
           adapter' = adapter,
           \A b \in Apps : b # a /\ inFlight'[b] # None => inFlight[b] # None
    PROVE  PoolOwns' /\ NoLeak'
  <1>1. /\ \A b \in Apps : pool'[b] = IF b = a THEN None ELSE pool[b]
        /\ open' = IF Cached(a) THEN open \ {pool[a].id} ELSE open
    BY DEF Discard, TypeOK
  <1>2. \A b \in Apps :
          /\ Cached(b)' <=> Cached(b) /\ b # a
          /\ Cached(b)' => pool'[b].id = pool[b].id
    BY <1>1 DEF Cached
  <1>3. NoLeak'
    <2>1. ASSUME NEW i \in open'
          PROVE  \E b \in Apps : Cached(b)' /\ i = pool'[b].id
      BY <1>1, <1>2, <2>1 DEF NoLeak
    <2>2. ASSUME NEW b \in Apps, Cached(b)'
          PROVE  pool'[b].id \in open'
      BY <1>1, <1>2, <2>2, IdsApart DEF NoLeak
    <2> QED  BY <2>1, <2>2 DEF NoLeak
  <1>4. ASSUME NEW b \in Apps
        PROVE  /\ Cached(b)' => pool'[b].id \in open'
                                /\ adapter'[pool'[b].id].app = b
               /\ inFlight'[b] # None => ~Cached(b)'
    <2>1. Cached(b)' => pool'[b].id \in open' /\ adapter'[pool'[b].id].app = b
      BY <1>1, <1>2, IdsApart DEF PoolOwns
    <2>2. inFlight'[b] # None => ~Cached(b)'
      BY <1>2 DEF PoolOwns
    <2> QED  BY <2>1, <2>2
  <1>5. PoolOwns'
    BY <1>4 DEF PoolOwns
  <1> QED  BY <1>3, <1>5

\* Steps that neither open nor close an adapter.
LEMMA CacheKept ==
    ASSUME PoolOwns, NoLeak, open' = open, adapter' = adapter,
           \A a \in Apps : /\ Cached(a)' <=> Cached(a)
                           /\ Cached(a) => pool'[a].id = pool[a].id
                           /\ inFlight'[a] # None => inFlight[a] # None
    PROVE  PoolOwns' /\ NoLeak'
  BY DEF PoolOwns, NoLeak

LEMMA OpenKeeps ==
    ASSUME TypeOK, PoolOwns, NoLeak, BuildsJoined, NEW c \in Callers,
           BuildOpen(c)
    PROVE  PoolOwns' /\ NoLeak'
  <1>0. call[c].app \in Apps /\ inFlight[call[c].app] # None
    BY NoneApart DEF BuildOpen, BuildsJoined, Building
  <1> PICK a \in Apps : a = call[c].app
    BY <1>0
  <1> DEFINE new == [app |-> a, dsn |-> call[c].dsn]
             e(i) == [id |-> i, age |-> 0]
  <1>1. a \in Apps /\ inFlight[a] # None
    BY <1>0
  <1> PICK i \in Adapters, V \in SUBSET {b \in Apps : Cached(b)} :
        /\ i \notin open
        /\ adapter' = [adapter EXCEPT ![i] = new]
        /\ open' = (open \ {pool[b].id : b \in V}) \cup {i}
        /\ pool' = [b \in Apps |-> IF b = a THEN e(i)
                                   ELSE IF b \in V THEN None ELSE pool[b]]
        /\ Settle(c, i)
    BY <1>1, OpenShape
  <1>2. ~Cached(a)
    BY <1>1 DEF PoolOwns
  <1>3. e(i).id = i /\ e(i) \in Entry /\ new.app = a
    BY ResolverAssumption DEF Entry
  <1>4. /\ \A b \in Apps : pool'[b] = IF b = a THEN e(i)
                                      ELSE IF b \in V THEN None ELSE pool[b]
        /\ adapter'[i] = new
        /\ \A j \in Adapters : j # i => adapter'[j] = adapter[j]
    BY DEF TypeOK
  <1> HIDE DEF e, new
  <1>5. \A b \in Apps :
          /\ pool'[b] # None <=> b = a \/ (Cached(b) /\ b \notin V)
          /\ b # a /\ pool'[b] # None => pool'[b].id = pool[b].id
          /\ b = a => pool'[b].id = i
    BY <1>2, <1>3, <1>4, NoneApart DEF Cached
  <1>11. pool'[a] # None /\ pool'[a].id = i
    BY <1>3, <1>4, NoneApart
  <1>6. \A b \in Apps : Cached(b) => pool[b].id \in open /\ pool[b].id # i
                                     /\ pool[b].id \in Adapters
    BY DEF PoolOwns, TypeOK
  <1>7. \A b \in Apps : Cached(b) /\ b \notin V =>
          pool[b].id \notin {pool[g].id : g \in V}
    BY IdsApart
  <1>8. NoLeak'
    <2>1. ASSUME NEW j \in open'
          PROVE  \E b \in Apps : pool'[b] # None /\ j = pool'[b].id
      <3>1. CASE j = i
        BY <3>1, <1>11
      <3>2. CASE j # i
        <4>1. j \in open /\ j \notin {pool[b].id : b \in V}
          BY <3>2
        <4> PICK b \in Apps : Cached(b) /\ j = pool[b].id
          BY <4>1 DEF NoLeak
        <4>2. b \notin V /\ b # a
          BY <4>1, <1>2
        <4>3. pool'[b] # None /\ pool'[b].id = pool[b].id
          BY <4>2, <1>5
        <4> QED  BY <4>3
      <3> QED  BY <3>1, <3>2
    <2>2. ASSUME NEW b \in Apps, pool'[b] # None
          PROVE  pool'[b].id \in open'
      BY <1>5, <1>6, <1>7, <2>2
    <2>3. \A b \in Apps : Cached(b)' <=> pool'[b] # None
      BY DEF Cached
    <2> QED  BY <2>1, <2>2, <2>3 DEF NoLeak
  <1>9. ASSUME NEW b \in Apps
        PROVE  /\ pool'[b] # None => pool'[b].id \in open'
                                /\ adapter'[pool'[b].id].app = b
               /\ inFlight'[b] # None => pool'[b] = None
    <2>1. pool'[b] # None => pool'[b].id \in open'
      BY <1>5, <1>6, <1>7
    <2>2. pool'[b] # None => adapter'[pool'[b].id].app = b
      BY <1>3, <1>4, <1>5, <1>6 DEF PoolOwns
    <2>3. inFlight' = [inFlight EXCEPT ![a] = None]
      BY DEF Settle
    <2>4. inFlight'[b] # None => b # a /\ inFlight[b] # None
      BY <1>1, <2>3 DEF TypeOK
    <2>5. inFlight'[b] # None => pool'[b] = None
      BY <1>5, <2>4 DEF PoolOwns
    <2> QED  BY <2>1, <2>2, <2>5
  <1>10. PoolOwns'
    BY <1>9 DEF PoolOwns, Cached
  <1> QED  BY <1>8, <1>10

\* When a build settles, it and those who joined it are gone together.
LEMMA SettleJoined ==
    ASSUME TypeOK, BuildsJoined, NEW c \in Callers,
           NEW result \in Adapters \cup {None}, Settle(c, result),
           call[c].st \in Building
    PROVE  BuildsJoined'
  <1> PICK g \in Apps : g = call[c].app
    BY DEF BuildsJoined
  <1>0. inFlight[g] = c
    BY DEF BuildsJoined
  <1>1. \A a \in Apps : inFlight'[a] = IF a = g THEN None ELSE inFlight[a]
    BY SettleCalls DEF TypeOK
  <1>2. /\ Idle.st \notin Building /\ Idle.on = None
        /\ \A i \in Adapters : Using(g, i).st \notin Building
                               /\ Using(g, i).on = None
    BY IdleRequest, RequestForms DEF Building
  <1>3. \A b \in Callers :
          \/ call'[b] = call[b] /\ b # c /\ call[b].on # c
          \/ /\ call'[b].st \notin Building /\ call'[b].on = None
             /\ b = c \/ call[b].on = c
    <2> TAKE b \in Callers
    <2>1. \/ /\ call[b].app = call[c].app
             /\ b = c \/ call[b].on = c
             /\ IF result = None THEN call'[b] = Idle
                ELSE call'[b] = Using(call[b].app, result)
          \/ /\ b # c /\ call[b].on # c
             /\ call'[b] = call[b]
      BY SettleCalls
    <2>2. \/ /\ b = c \/ call[b].on = c
             /\ \/ call'[b] = Idle
                \/ result \in Adapters /\ call'[b] = Using(g, result)
          \/ call'[b] = call[b] /\ b # c /\ call[b].on # c
      BY <2>1
    <2> QED  BY <1>2, <2>2
  <1>4. ASSUME NEW a \in Apps, inFlight'[a] # None
        PROVE  call'[inFlight'[a]].st \in Building
               /\ call'[inFlight'[a]].app = a
    <2>1. a # g /\ inFlight'[a] = inFlight[a] /\ inFlight[a] \in Callers
      BY <1>1, <1>4 DEF TypeOK
    <2> PICK k \in Callers : k = inFlight[a]
      BY <2>1
    <2>2. call[k].st \in Building /\ call[k].app = a
      BY <1>4, <2>1 DEF BuildsJoined
    <2>3. k # c
      BY <2>1, <2>2
    <2>4. call[k].on = None
      BY <2>2 DEF BuildsJoined, Building
    <2>5. call'[k] = call[k]
      BY <1>3, <2>3, <2>4, NoneApart
    <2> QED  BY <2>1, <2>2, <2>5
  <1>5. ASSUME NEW b \in Callers, call'[b].st \in Building
        PROVE  call'[b].app \in Apps /\ inFlight'[call'[b].app] = b
    <2>1. call'[b] = call[b] /\ b # c
      BY <1>3, <1>5
    <2>2. call[b].app \in Apps /\ inFlight[call[b].app] = b
      BY <1>5, <2>1 DEF BuildsJoined
    <2> QED  BY <1>0, <1>1, <2>1, <2>2
  <1>6. ASSUME NEW b \in Callers, call'[b].on # None
        PROVE  /\ call'[b].st = "wait" /\ call'[b].app \in Apps
               /\ inFlight'[call'[b].app] = call'[b].on
    <2>1. call'[b] = call[b] /\ call[b].on # c
      BY <1>3, <1>6
    <2>2. /\ call[b].st = "wait" /\ call[b].app \in Apps
          /\ inFlight[call[b].app] = call[b].on
      BY <1>6, <2>1 DEF BuildsJoined
    <2> QED  BY <1>0, <1>1, <2>1, <2>2
  <1> QED  BY <1>4, <1>5, <1>6 DEF BuildsJoined

\* A caller that was not building is put in another state.
LEMMA RequestJoined ==
    ASSUME TypeOK, BuildsJoined, NEW c \in Callers, NEW r \in Request,
           call' = [call EXCEPT ![c] = r], call[c].st \notin Building,
           \/ /\ r.st \notin Building /\ r.on = None /\ UNCHANGED inFlight
           \/ /\ r.st = "wait" /\ r.app \in Apps
              /\ inFlight[r.app] = r.on /\ UNCHANGED inFlight
           \/ /\ r.st \in Building /\ r.app \in Apps /\ r.on = None
              /\ inFlight[r.app] = None
              /\ inFlight' = [inFlight EXCEPT ![r.app] = c]
    PROVE  BuildsJoined'
  <1>1. \A b \in Callers : call'[b] = IF b = c THEN r ELSE call[b]
    BY DEF TypeOK
  <1>2. "wait" \notin Building
    BY DEF Building
  <1>3. \A a \in Apps : inFlight[a] # None => inFlight[a] \in Callers
    BY DEF TypeOK
  <1>4. CASE /\ r.st \notin Building /\ UNCHANGED inFlight
             /\ \/ r.on = None
                \/ r.st = "wait" /\ r.app \in Apps /\ inFlight[r.app] = r.on
    BY <1>1, <1>3, <1>4 DEF BuildsJoined
  <1>5. CASE /\ r.st \in Building /\ r.app \in Apps /\ r.on = None
             /\ inFlight[r.app] = None
             /\ inFlight' = [inFlight EXCEPT ![r.app] = c]
    <2>1. \A a \in Apps : inFlight'[a] = IF a = r.app THEN c ELSE inFlight[a]
      BY <1>5 DEF TypeOK
    <2>2. \A a \in Apps : inFlight'[a] # None =>
            call'[inFlight'[a]].st \in Building /\ call'[inFlight'[a]].app = a
      BY <1>1, <1>3, <1>5, <2>1 DEF BuildsJoined
    <2>3. \A b \in Callers : call'[b].st \in Building =>
            call'[b].app \in Apps /\ inFlight'[call'[b].app] = b
      BY <1>1, <1>5, <2>1, NoneApart DEF BuildsJoined
    <2>4. \A b \in Callers : call'[b].on # None =>
            /\ call'[b].st = "wait" /\ call'[b].app \in Apps
            /\ inFlight'[call'[b].app] = call'[b].on
      BY <1>1, <1>5, <2>1 DEF BuildsJoined
    <2> QED  BY <2>2, <2>3, <2>4 DEF BuildsJoined
  <1> QED  BY <1>2, <1>4, <1>5

\* A build moves on to its next statement.
LEMMA StageJoined ==
    ASSUME TypeOK, BuildsJoined, NEW c \in Callers, NEW r \in Request,
           call' = [call EXCEPT ![c] = r], call[c].st \in Building,
           r.st \in Building, r.app = call[c].app, r.on = call[c].on,
           UNCHANGED inFlight
    PROVE  BuildsJoined'
  <1>1. \A b \in Callers : call'[b] = IF b = c THEN r ELSE call[b]
    BY DEF TypeOK
  <1>2. "wait" \notin Building
    BY DEF Building
  <1>3. \A a \in Apps : inFlight[a] # None => inFlight[a] \in Callers
    BY DEF TypeOK
  <1> QED  BY <1>1, <1>2, <1>3 DEF BuildsJoined

\* A caller put in another state uses what its app owns, if anything.
LEMMA RequestOwns ==
    ASSUME TypeOK, UsersOwn, NEW c \in Callers, NEW r \in Request,
           call' = [call EXCEPT ![c] = r], adapter' = adapter,
           r.st = "using" => r.app \in Apps /\ r.id \in Adapters
                             /\ adapter[r.id].app = r.app
    PROVE  UsersOwn'
  <1>1. \A b \in Callers : call'[b] = IF b = c THEN r ELSE call[b]
    BY DEF TypeOK
  <1> QED  BY <1>1 DEF UsersOwn

\* The driver a build opens is that of everybody who joined it.
LEMMA OpenOwns ==
    ASSUME TypeOK, BuildsJoined, UsersOwn, NEW c \in Callers, BuildOpen(c)
    PROVE  UsersOwn'
  <1>0. call[c].app \in Apps /\ call[c].st \in Building
    BY DEF BuildOpen, BuildsJoined, Building
  <1> PICK a \in Apps : a = call[c].app
    BY <1>0
  <1> DEFINE new == [app |-> a, dsn |-> call[c].dsn]
  <1> PICK i \in Adapters :
        /\ \A b \in Callers : call[b].id # i
        /\ adapter' = [adapter EXCEPT ![i] = new]
        /\ Settle(c, i)
    BY <1>0, OpenShape
  <1>1. new.app = a
    OBVIOUS
  <1> HIDE DEF new
  <1>2. \A j \in Adapters : adapter'[j] = IF j = i THEN new ELSE adapter[j]
    BY DEF TypeOK
  <1>3. i # None
    BY NoneApart
  <1>4. ASSUME NEW b \in Callers, call'[b].st = "using"
        PROVE  /\ call'[b].app \in Apps /\ call'[b].id \in Adapters
               /\ adapter'[call'[b].id].app = call'[b].app
    <2>1. CASE call'[b] = Using(a, i)
      BY <1>1, <1>2, <2>1, RequestForms
    <2>2. CASE call'[b] = call[b]
      <3>1. /\ call[b].app \in Apps /\ call[b].id \in Adapters
            /\ adapter[call[b].id].app = call[b].app
        BY <1>4, <2>2 DEF UsersOwn
      <3> QED  BY <1>2, <2>2, <3>1
    <2>3. call'[b] = Using(a, i) \/ call'[b] = call[b]
      BY <1>0, <1>3, SettleCalls
    <2> QED  BY <2>1, <2>2, <2>3
  <1> QED  BY <1>4 DEF UsersOwn

\* What the steps that leave the callers alone must keep.
LEMMA CallersKept ==
    ASSUME UsersOwn, BuildsJoined, UNCHANGED <<call, inFlight, adapter>>
    PROVE  UsersOwn' /\ BuildsJoined'
  BY DEF UsersOwn, BuildsJoined

LEMMA IdStep == IdInv /\ [Next]_vars => IdInv'
  <1> SUFFICES ASSUME IdInv, [Next]_vars
               PROVE  PoolOwns' /\ NoLeak' /\ UsersOwn' /\ BuildsJoined'
    BY TypeStep, EditorsStep DEF IdInv
  <1> USE DEF IdInv
  <1> DEFINE Goal == PoolOwns' /\ NoLeak' /\ UsersOwn' /\ BuildsJoined'
  <1>1. ASSUME NEW c \in Callers, NEW a \in Apps, Hit(c, a)
        PROVE  Goal
    <2> DEFINE r == Using(a, pool[a].id)
    <2>1. /\ call[c].st = "idle" /\ Cached(a) /\ pool[a].id \in Adapters
          /\ call' = [call EXCEPT ![c] = r]
          /\ UNCHANGED <<adapter, open, pool, inFlight>>
      BY <1>1, HitShape
    <2>2. /\ r \in Request /\ r.st = "using" /\ r.app = a
          /\ r.id = pool[a].id /\ r.on = None
      BY <2>1, RequestForms
    <2>3. r.st \notin Building /\ call[c].st \notin Building
      BY <2>1, <2>2 DEF Building
    <2>4. adapter[r.id].app = r.app
      BY <2>1, <2>2 DEF PoolOwns
    <2> HIDE DEF r
    <2>5. UsersOwn'
      BY <2>1, <2>2, <2>4, RequestOwns
    <2>6. BuildsJoined'
      BY <2>1, <2>2, <2>3, RequestJoined
    <2>7. PoolOwns' /\ NoLeak'
      BY <2>1, CacheKept DEF Cached
    <2> QED  BY <2>5, <2>6, <2>7
  <1>2. ASSUME NEW c \in Callers, NEW a \in Apps, Miss(c, a)
        PROVE  Goal
    <2>1. call[c].st = "idle" /\ Discard(a) /\ adapter' = adapter
      BY <1>2, MissShape
    <2>2. call[c].st \notin Building
      BY <2>1 DEF Building
    <2>3. CASE /\ inFlight[a] \in Callers /\ UNCHANGED inFlight
               /\ call' = [call EXCEPT ![c] = Waiting(a, inFlight[a])]
      <3> DEFINE r == Waiting(a, inFlight[a])
      <3>1. /\ r \in Request /\ r.st = "wait" /\ r.app = a
            /\ r.on = inFlight[a]
        BY <2>3, RequestForms
      <3> HIDE DEF r
      <3>2. call' = [call EXCEPT ![c] = r]
        BY <2>3 DEF r
      <3>3. UsersOwn'
        BY <2>1, <3>1, <3>2, RequestOwns
      <3>4. BuildsJoined'
        BY <2>2, <2>3, <3>1, <3>2, RequestJoined
      <3>5. PoolOwns' /\ NoLeak'
        BY <2>1, <2>3, DiscardKeeps
      <3> QED  BY <3>3, <3>4, <3>5
    <2>4. CASE /\ inFlight[a] = None
               /\ inFlight' = [inFlight EXCEPT ![a] = c]
               /\ call' = [call EXCEPT ![c] = Loading(a)]
      <3> DEFINE r == Loading(a)
      <3>1. r \in Request /\ r.st = "load" /\ r.app = a /\ r.on = None
        BY RequestForms
      <3> HIDE DEF r
      <3>2. call' = [call EXCEPT ![c] = r]
        BY <2>4 DEF r
      <3>3. UsersOwn'
        BY <2>1, <3>1, <3>2, RequestOwns
      <3>4. r.st \in Building
        BY <3>1 DEF Building
      <3>5. BuildsJoined'
        BY <2>2, <2>4, <3>1, <3>2, <3>4, RequestJoined
      <3>6. \A b \in Apps : b # a => inFlight'[b] = inFlight[b]
        BY <2>4 DEF TypeOK
      <3>7. PoolOwns' /\ NoLeak'
        BY <2>1, <3>6, DiscardKeeps
      <3> QED  BY <3>3, <3>5, <3>7
    <2> QED  BY <1>2, <2>3, <2>4, MissShape
  <1>3. ASSUME NEW c \in Callers, BuildLoad(c) \/ BuildReveal(c)
        PROVE  Goal
    <2> PICK r \in Request :
          /\ call' = [call EXCEPT ![c] = r]
          /\ r.app = call[c].app /\ r.on = call[c].on
          /\ call[c].st \in Building /\ r.st \in Building
          /\ UNCHANGED <<adapter, open, pool, inFlight>>
      BY <1>3, BuildShape
    <2>1. r.st # "using"
      BY DEF Building
    <2>2. UsersOwn'
      BY <2>1, RequestOwns
    <2>3. BuildsJoined'
      BY StageJoined
    <2>4. PoolOwns' /\ NoLeak'
      BY CacheKept DEF Cached
    <2> QED  BY <2>2, <2>3, <2>4
  <1>4. ASSUME NEW c \in Callers, BuildFails(c)
        PROVE  Goal
    <2>1. /\ call[c].st \in Building /\ Settle(c, None)
          /\ UNCHANGED <<adapter, open, pool>>
      BY <1>4 DEF BuildFails, Building, cached
    <2>2. BuildsJoined'
      BY <2>1, SettleJoined
    <2>3. \A b \in Callers : call'[b] = Idle \/ call'[b] = call[b]
      BY <2>1, SettleCalls
    <2>4. UsersOwn'
      BY <2>1, <2>3, IdleRequest DEF UsersOwn
    <2>5. \A b \in Apps : inFlight'[b] # None => inFlight[b] # None
      BY <2>1, SettleCalls DEF TypeOK
    <2>6. PoolOwns' /\ NoLeak'
      BY <2>1, <2>5, CacheKept DEF Cached
    <2> QED  BY <2>2, <2>4, <2>6
  <1>5. ASSUME NEW c \in Callers, BuildOpen(c)
        PROVE  Goal
    <2>1. call[c].st \in Building /\ call[c].app \in Apps
      BY <1>5 DEF BuildOpen, BuildsJoined, Building
    <2> PICK i \in Adapters : Settle(c, i)
      BY <1>5, <2>1, OpenShape
    <2>2. BuildsJoined'
      BY <2>1, SettleJoined
    <2> QED  BY <1>5, <2>2, OpenOwns, OpenKeeps
  <1>6. ASSUME NEW c \in Callers, Done(c)
        PROVE  Goal
    <2>1. /\ call[c].st = "using" /\ call' = [call EXCEPT ![c] = Idle]
          /\ UNCHANGED <<adapter, open, pool, inFlight>>
      BY <1>6 DEF Done, cached
    <2>2. call[c].st \notin Building /\ Idle.st \notin Building
          /\ Idle.st # "using"
      BY <2>1, IdleRequest DEF Building
    <2>3. UsersOwn'
      BY <2>1, <2>2, IdleRequest, RequestOwns
    <2>4. BuildsJoined'
      BY <2>1, <2>2, IdleRequest, RequestJoined
    <2>5. PoolOwns' /\ NoLeak'
      BY <2>1, CacheKept DEF Cached
    <2> QED  BY <2>3, <2>4, <2>5
  <1>7. ASSUME NEW d \in Admins,
               \/ \E a \in Apps : EditDemote(d, a) \/ Delete(d, a)
               \/ EditInsert(d) \/ EditFails(d)
        PROVE  Goal
    BY <1>7, EditShape, CallersKept, CacheKept DEF Cached
  <1>8. ASSUME NEW d \in Admins, Invalidate(d)
        PROVE  Goal
    <2>1. admin[d].app \in Apps
      BY <1>8 DEF Invalidate, EditorsBusy
    <2>2. Discard(admin[d].app) /\ UNCHANGED <<adapter, inFlight, call>>
      BY <1>8, <2>1, InvalidateShape
    <2>3. PoolOwns' /\ NoLeak'
      BY <2>1, <2>2, DiscardKeeps
    <2> QED  BY <2>2, <2>3, CallersKept
  <1>9. ASSUME NEW a \in Apps, Age(a)
        PROVE  Goal
    <2> DEFINE e == [pool[a] EXCEPT !.age = @ + 1]
    <2>1. pool[a] \in Entry /\ pool[a].age < TTL
      BY <1>9 DEF Age, Usable, TypeOK
    <2>2. e \in Entry /\ e.id = pool[a].id
      BY <2>1, ResolverAssumption DEF Entry
    <2>3. pool' = [pool EXCEPT ![a] = e]
      BY <1>9 DEF Age
    <2> HIDE DEF e
    <2>4. \A b \in Apps : /\ Cached(b)' <=> Cached(b)
                          /\ Cached(b) => pool'[b].id = pool[b].id
      BY <2>1, <2>2, <2>3, NoneApart DEF Cached, TypeOK
    <2>5. UNCHANGED <<adapter, open, inFlight, call>>
      BY <1>9 DEF Age
    <2> QED  BY <2>4, <2>5, CallersKept, CacheKept
  <1>10. ASSUME UNCHANGED vars
         PROVE  Goal
    BY <1>10, CallersKept, CacheKept DEF vars, Cached
  <1> HIDE DEF Goal, IdInv
  <1>11. ASSUME NEW c \in Callers, Build(c) \/ Done(c)
         PROVE  Goal
    BY <1>3, <1>4, <1>5, <1>6, <1>11 DEF Build
  <1>12. ASSUME NEW a \in Apps, Ask(a) \/ Age(a)
         PROVE  Goal
    BY <1>1, <1>2, <1>9, <1>12 DEF Ask
  <1>13. ASSUME NEW d \in Admins,
                \/ \E a \in Apps : EditDemote(d, a) \/ Delete(d, a)
                \/ Edit(d) \/ EditFails(d)
         PROVE  Goal
    BY <1>7, <1>8, <1>13 DEF Edit
  <1>14. Goal
    <2>1. CASE \E a \in Apps : Ask(a) \/ Age(a)
      BY <1>12, <2>1
    <2>2. CASE \E c \in Callers : Build(c) \/ Done(c)
      BY <1>11, <2>2
    <2>3. CASE \E d \in Admins :
                 \/ \E a \in Apps : EditDemote(d, a) \/ Delete(d, a)
                 \/ Edit(d) \/ EditFails(d)
      BY <1>13, <2>3
    <2> QED  BY <1>10, <2>1, <2>2, <2>3 DEF Next
  <1> QED  BY <1>14 DEF Goal

LEMMA IdInit == Init => IdInv
  <1> SUFFICES ASSUME Init PROVE IdInv
    OBVIOUS
  <1>1. PoolOwns /\ NoLeak
    BY DEF Init, PoolOwns, NoLeak, Cached
  <1>2. UsersOwn /\ BuildsJoined
    BY IdleRequest DEF Init, UsersOwn, BuildsJoined, Building
  <1>3. EditorsBusy
    BY NoneApart DEF Init, EditorsBusy, AtRest
  <1> QED  BY <1>1, <1>2, <1>3, TypeInit DEF IdInv

\* Every reachable state satisfies the invariant about apps and adapters.
THEOREM AdaptersOwned == Spec => []IdInv
  BY IdInit, IdStep, PTL DEF Spec

\* The configuration, the pool, the builds and the callers have their types.
THEOREM TypeCorrect == Spec => []TypeOK
  <1>1. IdInv => TypeOK
    BY DEF IdInv
  <1> QED  BY <1>1, AdaptersOwned, PTL

\* No caller ever holds the database of another app.
THEOREM OwnDatabaseOnly == Spec => []OwnDatabase
  <1>1. IdInv => OwnDatabase
    BY DEF IdInv, UsersOwn, OwnDatabase
  <1> QED  BY <1>1, AdaptersOwned, PTL

\* The open connections are those of the pool, whatever is evicted.
THEOREM NothingLeaks == Spec => []NoLeak
  <1>1. IdInv => NoLeak
    BY DEF IdInv
  <1> QED  BY <1>1, AdaptersOwned, PTL

-----------------------------------------------------------------------------
(* Edits of the apps outside Unruly.                                        *)

Calm == Apps \ Unruly

\* Some edit of a has changed its configuration and not yet told the pool, or
\* is about to write the row that is missing.
Announced(a) ==
    \E d \in Admins :
      /\ admin[d].app = a
      /\ \/ admin[d].pc = "invalidate"
         \/ admin[d].pc = "insert" /\ primary[a] = 0

\* No edit of a calm app overlaps a build for it, so what a build is about to
\* open is the primary row; and while the pool holds anything else, an edit
\* that will discard it is on its way.
EditInv ==
    \A a \in Calm :
      /\ inFlight[a] # None => Editing(a) = {}
      /\ \A c \in Callers :
           call[c].st = "open" /\ call[c].app = a => call[c].dsn = primary[a]
      /\ Stale(a) => Announced(a)

\* What a step of a caller or of time may do to what EditInv speaks of.
Undisturbed(a) ==
    /\ \A d \in Admins : admin'[d] = admin[d]
    /\ primary'[a] = primary[a]
    /\ inFlight'[a] # None => inFlight[a] # None \/ Editing(a) = {}
    /\ \A c \in Callers :
         call'[c].st = "open" /\ call'[c].app = a =>
           \/ call[c].st = "open" /\ call[c].app = a /\ call'[c].dsn = call[c].dsn
           \/ call'[c].dsn = primary[a]
    /\ pool'[a] # None =>
         \/ /\ pool[a] # None /\ pool'[a].id = pool[a].id
            /\ adapter'[pool[a].id] = adapter[pool[a].id]
         \/ adapter'[pool'[a].id].dsn = primary[a]

LEMMA UndisturbedKeeps ==
    ASSUME EditInv, NEW a \in Calm, Undisturbed(a)
    PROVE  /\ inFlight'[a] # None => Editing(a)' = {}
           /\ \A c \in Callers :
                call'[c].st = "open" /\ call'[c].app = a =>
                  call'[c].dsn = primary'[a]
           /\ Stale(a)' => Announced(a)'
  <1>1. Editing(a)' = Editing(a)
    BY DEF Undisturbed, Editing
  <1>2. inFlight'[a] # None => Editing(a)' = {}
    BY <1>1 DEF Undisturbed, EditInv
  <1>3. \A c \in Callers : call'[c].st = "open" /\ call'[c].app = a =>
          call'[c].dsn = primary'[a]
    BY DEF Undisturbed, EditInv
  <1>4. ASSUME Stale(a)' PROVE Announced(a)'
    <2>1. pool'[a] # None /\ adapter'[pool'[a].id].dsn # primary[a]
      BY <1>4 DEF Stale, Cached, Undisturbed
    <2>2. Stale(a)
      BY <2>1 DEF Undisturbed, Stale, Cached
    <2> QED  BY <2>2 DEF EditInv, Announced, Undisturbed
  <1> QED  BY <1>2, <1>3, <1>4

\* A caller put in a state other than "open".
LEMMA QuietRequest ==
    ASSUME TypeOK, NEW c \in Callers, NEW r \in Request,
           call' = [call EXCEPT ![c] = r], r.st # "open"
    PROVE  \A b \in Callers : call'[b].st = "open" => call'[b] = call[b]
  BY DEF TypeOK

LEMMA SettleQuiet ==
    ASSUME TypeOK, BuildsJoined, NEW c \in Callers,
           NEW result \in Adapters \cup {None}, Settle(c, result),
           call[c].st \in Building
    PROVE  /\ \A b \in Callers : call'[b].st = "open" => call'[b] = call[b]
           /\ \A a \in Apps : inFlight'[a] # None => inFlight'[a] = inFlight[a]
  <1> PICK g \in Apps : g = call[c].app
    BY DEF BuildsJoined
  <1>1. /\ Idle.st # "open"
        /\ \A i \in Adapters : Using(g, i).st # "open"
    BY IdleRequest, RequestForms
  <1>2. ASSUME NEW b \in Callers, call'[b].st = "open"
        PROVE  call'[b] = call[b]
    <2>1. \/ call'[b] = Idle
          \/ result \in Adapters /\ call'[b] = Using(g, result)
          \/ call'[b] = call[b]
      BY SettleCalls
    <2> QED  BY <1>1, <1>2, <2>1
  <1>3. \A a \in Apps : inFlight'[a] # None => inFlight'[a] = inFlight[a]
    BY SettleCalls DEF TypeOK
  <1> QED  BY <1>2, <1>3

LEMMA CallerUndisturbs ==
    ASSUME IdInv, EditInv, NEW a \in Calm,
           \/ \E b \in Apps : Ask(b) \/ Age(b)
           \/ \E c \in Callers : Build(c) \/ Done(c)
    PROVE  Undisturbed(a)
  <1> USE DEF IdInv
  <1>0. a \in Apps
    BY DEF Calm
  <1>1. ASSUME NEW c \in Callers, NEW b \in Apps, Hit(c, b)
        PROVE  Undisturbed(a)
    <2> DEFINE r == Using(b, pool[b].id)
    <2>1. /\ pool[b].id \in Adapters
          /\ call' = [call EXCEPT ![c] = r]
          /\ UNCHANGED <<primary, admin, adapter, pool, inFlight>>
      BY <1>1, HitShape
    <2>2. r \in Request /\ r.st # "open"
      BY <2>1, RequestForms
    <2> HIDE DEF r
    <2>3. \A k \in Callers : call'[k].st = "open" => call'[k] = call[k]
      BY <2>1, <2>2, QuietRequest
    <2> QED  BY <2>1, <2>3 DEF Undisturbed
  <1>2. ASSUME NEW c \in Callers, NEW b \in Apps, Miss(c, b)
        PROVE  Undisturbed(a)
    <2> DEFINE p == Waiting(b, inFlight[b])
               q == Loading(b)
    <2>1. /\ Discard(b)
          /\ b \in Unruly \/ Editing(b) = {}
          /\ UNCHANGED <<primary, admin, adapter>>
          /\ \/ /\ inFlight[b] \in Callers /\ UNCHANGED inFlight
                /\ call' = [call EXCEPT ![c] = p]
             \/ /\ inFlight' = [inFlight EXCEPT ![b] = c]
                /\ call' = [call EXCEPT ![c] = q]
      BY <1>2, MissShape
    <2>2. /\ inFlight[b] \in Callers => p \in Request /\ p.st # "open"
          /\ q \in Request /\ q.st # "open"
      BY RequestForms
    <2> HIDE DEF p, q
    <2>3. \A k \in Callers : call'[k].st = "open" => call'[k] = call[k]
      BY <2>1, <2>2, QuietRequest
    <2>4. pool'[a] # None => pool'[a] = pool[a]
      <3>1. pool' = [pool EXCEPT ![b] = None]
        BY <2>1, DiscardType
      <3> QED  BY <1>0, <3>1 DEF TypeOK
    <2>5. inFlight'[a] # None => inFlight[a] # None \/ Editing(a) = {}
      BY <1>0, <2>1 DEF Calm, TypeOK
    <2> QED  BY <2>1, <2>3, <2>4, <2>5 DEF Undisturbed
  <1>3. ASSUME NEW c \in Callers, BuildLoad(c) \/ BuildReveal(c)
        PROVE  Undisturbed(a)
    <2> PICK r \in Request :
          /\ call' = [call EXCEPT ![c] = r]
          /\ r.st = "open" => r.dsn = primary[r.app]
          /\ UNCHANGED <<primary, admin, adapter, pool, inFlight>>
      BY <1>3, BuildShape
    <2>1. \A k \in Callers : call'[k] = IF k = c THEN r ELSE call[k]
      BY DEF TypeOK
    <2> QED  BY <2>1 DEF Undisturbed
  <1>4. ASSUME NEW c \in Callers, BuildFails(c)
        PROVE  Undisturbed(a)
    <2>1. /\ call[c].st \in Building /\ Settle(c, None)
          /\ UNCHANGED <<primary, admin, adapter, pool>>
      BY <1>4 DEF BuildFails, Building, cached, configs
    <2> QED  BY <1>0, <2>1, SettleQuiet DEF Undisturbed
  <1>5. ASSUME NEW c \in Callers, BuildOpen(c)
        PROVE  Undisturbed(a)
    <2>0. /\ call[c].st \in Building /\ call[c].st = "open"
          /\ call[c].app \in Apps
      BY <1>5 DEF BuildOpen, BuildsJoined, Building
    <2> PICK g \in Apps : g = call[c].app
      BY <2>0
    <2> DEFINE new == [app |-> call[c].app, dsn |-> call[c].dsn]
               e(i) == [id |-> i, age |-> 0]
    <2> PICK i \in Adapters, V \in SUBSET {b \in Apps : Cached(b)} :
          /\ i \notin open
          /\ adapter' = [adapter EXCEPT ![i] = new]
          /\ pool' = [b \in Apps |-> IF b = call[c].app THEN e(i)
                                     ELSE IF b \in V THEN None ELSE pool[b]]
          /\ Settle(c, i)
          /\ UNCHANGED <<primary, admin>>
      <3> HIDE DEF IdInv
      <3> QED  BY <1>5, <2>0, OpenShape DEF IdInv
    <2>1. e(i).id = i /\ new.dsn = call[c].dsn
      OBVIOUS
    <2> HIDE DEF e, new
    <2>2. \A j \in Adapters : adapter'[j] = IF j = i THEN new ELSE adapter[j]
      BY DEF TypeOK
    <2>3. CASE a = g
      <3>1. call[c].dsn = primary[a]
        BY <2>0, <2>3 DEF EditInv
      <3>2. pool'[a].id = i
        BY <1>0, <2>1, <2>3
      <3>3. adapter'[pool'[a].id].dsn = primary[a]
        BY <2>1, <2>2, <3>1, <3>2
      <3> QED  BY <1>0, <2>0, <3>3, SettleQuiet DEF Undisturbed
    <2>4. CASE a # g
      <3>1. pool'[a] # None => pool'[a] = pool[a]
        BY <1>0, <2>4
      <3>2. pool[a] # None => pool[a].id \in open /\ pool[a].id \in Adapters
        BY <1>0 DEF PoolOwns, Cached, TypeOK
      <3>3. pool[a] # None => adapter'[pool[a].id] = adapter[pool[a].id]
        BY <2>2, <3>2
      <3> QED  BY <1>0, <2>0, <3>1, <3>3, SettleQuiet DEF Undisturbed
    <2> QED  BY <2>3, <2>4
  <1>6. ASSUME NEW c \in Callers, Done(c)
        PROVE  Undisturbed(a)
    <2>1. /\ call' = [call EXCEPT ![c] = Idle]
          /\ UNCHANGED <<primary, admin, adapter, pool, inFlight>>
      BY <1>6 DEF Done, cached, configs
    <2>2. \A k \in Callers : call'[k].st = "open" => call'[k] = call[k]
      BY <2>1, IdleRequest, QuietRequest
    <2> QED  BY <2>1, <2>2 DEF Undisturbed
  <1>7. ASSUME NEW b \in Apps, Age(b)
        PROVE  Undisturbed(a)
    <2> DEFINE e == [pool[b] EXCEPT !.age = @ + 1]
    <2>1. pool[b] \in Entry
      BY <1>7 DEF Age, Usable, TypeOK
    <2>2. e.id = pool[b].id
      BY <2>1 DEF Entry
    <2>3. pool' = [pool EXCEPT ![b] = e]
      BY <1>7 DEF Age
    <2> HIDE DEF e
    <2>4. pool'[a] # None => pool[a] # None /\ pool'[a].id = pool[a].id
      BY <1>0, <2>1, <2>2, <2>3, NoneApart DEF TypeOK
    <2>5. UNCHANGED <<primary, admin, adapter, inFlight, call>>
      BY <1>7 DEF Age, configs
    <2> QED  BY <2>4, <2>5 DEF Undisturbed
  <1>8. ASSUME NEW c \in Callers, Build(c) \/ Done(c)
        PROVE  Undisturbed(a)
    BY <1>3, <1>4, <1>5, <1>6, <1>8 DEF Build
  <1>9. ASSUME NEW b \in Apps, Ask(b) \/ Age(b)
        PROVE  Undisturbed(a)
    BY <1>1, <1>2, <1>7, <1>9 DEF Ask
  <1> QED  BY <1>8, <1>9

\* What EditInv says of one app.
EditOf(a) ==
    /\ inFlight[a] # None => Editing(a) = {}
    /\ \A c \in Callers :
         call[c].st = "open" /\ call[c].app = a => call[c].dsn = primary[a]
    /\ Stale(a) => Announced(a)

LEMMA EditInvOf == EditInv <=> \A a \in Calm : EditOf(a)
  BY DEF EditInv, EditOf

\* An edit of another app.
LEMMA OtherEdit ==
    ASSUME EditInv, NEW a \in Calm, NEW d \in Admins,
           \A e \in Admins : e # d => admin'[e] = admin[e],
           admin[d].app # a, admin'[d].app # a,
           primary'[a] = primary[a], pool'[a] = pool[a],
           UNCHANGED <<adapter, inFlight, call>>
    PROVE  EditOf(a)'
  <1>1. Editing(a)' = Editing(a)
    BY DEF Editing
  <1>2. EditOf(a)
    BY EditInvOf
  <1>3. Stale(a)' => Announced(a)'
    <2>1. Stale(a)' => Stale(a)
      BY DEF Stale, Cached
    <2> QED  BY <1>2, <2>1 DEF EditOf, Announced
  <1> QED  BY <1>1, <1>2, <1>3 DEF EditOf

\* An edit of a calm app that no build is running for.
LEMMA OwnEdit ==
    ASSUME TypeOK, BuildsJoined, NEW a \in Calm, inFlight[a] = None,
           UNCHANGED <<inFlight, call>>, Stale(a)' => Announced(a)'
    PROVE  EditOf(a)'
  <1>1. \A c \in Callers : ~(call[c].st = "open" /\ call[c].app = a)
    BY NoneApart DEF BuildsJoined, Building
  <1> QED  BY <1>1 DEF EditOf

LEMMA EditsKeep ==
    ASSUME IdInv, EditInv, NEW a \in Calm, NEW d \in Admins,
           \/ \E b \in Apps : EditDemote(d, b) \/ Delete(d, b)
           \/ Edit(d) \/ EditFails(d)
    PROVE  EditOf(a)'
  <1>0. /\ TypeOK /\ BuildsJoined /\ a \in Apps /\ a \notin Unruly
        /\ admin[d].pc = "idle" => admin[d].app # a
    BY DEF IdInv, Calm, EditorsBusy
  <1>1. admin[d].app = a => inFlight[a] = None
    BY DEF EditInv, Editing
  <1>2. ASSUME NEW b \in Apps, EditDemote(d, b) \/ Delete(d, b)
        PROVE  EditOf(a)'
    <2>1. /\ admin[d].pc = "idle"
          /\ b \in Unruly \/ inFlight[b] = None
          /\ primary' = [primary EXCEPT ![b] = 0] \/ UNCHANGED primary
          /\ \/ /\ Advance(d, "insert", b)
                /\ primary' = [primary EXCEPT ![b] = 0]
             \/ Advance(d, "invalidate", b)
          /\ UNCHANGED <<adapter, open, pool, inFlight, call>>
      BY <1>2 DEF EditDemote, Delete, cached
    <2>2. /\ admin'[d].app = b
          /\ \/ admin'[d].pc = "insert" /\ primary' = [primary EXCEPT ![b] = 0]
             \/ admin'[d].pc = "invalidate"
          /\ \A e \in Admins : e # d => admin'[e] = admin[e]
      BY <1>0, <2>1, AdvanceType
    <2>3. CASE a = b
      <3>1. Announced(a)'
        BY <1>0, <2>2, <2>3 DEF Announced, TypeOK
      <3> QED  BY <1>0, <2>1, <2>3, <3>1, OwnEdit
    <2>4. CASE a # b
      <3>1. primary'[a] = primary[a]
        BY <1>0, <2>1, <2>4 DEF TypeOK
      <3> QED  BY <1>0, <2>1, <2>2, <2>4, <3>1, OtherEdit
    <2> QED  BY <2>3, <2>4
  <1>3. ASSUME EditInsert(d)
        PROVE  EditOf(a)'
    <2> PICK b \in Apps : b = admin[d].app
      BY <1>3 DEF EditInsert, IdInv, EditorsBusy
    <2>1. /\ admin[d].pc = "insert"
          /\ \/ /\ primary[b] = 0 /\ Advance(d, "invalidate", b)
                /\ primary' = [primary EXCEPT ![b] = written[b] + 1]
             \/ /\ primary[b] # 0 /\ Advance(d, "idle", None)
                /\ UNCHANGED primary
          /\ UNCHANGED <<adapter, open, pool, inFlight, call>>
      BY <1>3 DEF EditInsert, cached
    <2>2. /\ \/ /\ primary[b] = 0 /\ admin'[d].pc = "invalidate"
                /\ admin'[d].app = b
             \/ /\ primary[b] # 0 /\ admin'[d].app = None
                /\ UNCHANGED primary
          /\ \A e \in Admins : e # d => admin'[e] = admin[e]
      BY <1>0, <2>1, AdvanceType
    <2>3. CASE a = b
      <3>1. CASE primary[b] = 0
        <4>1. Announced(a)'
          BY <2>2, <2>3, <3>1 DEF Announced
        <4> QED  BY <1>0, <1>1, <2>1, <2>3, <4>1, OwnEdit
      <3>2. CASE primary[b] # 0
        <4>1. Stale(a)' => Stale(a)
          BY <2>1, <2>2, <3>2 DEF Stale, Cached
        <4>2. Announced(a) => Announced(a)'
          BY <2>1, <2>2, <2>3, <3>2 DEF Announced
        <4>3. Stale(a)' => Announced(a)'
          BY <4>1, <4>2 DEF EditInv
        <4> QED  BY <1>0, <1>1, <2>1, <2>3, <4>3, OwnEdit
      <3> QED  BY <3>1, <3>2
    <2>4. CASE a # b
      <3>1. primary'[a] = primary[a]
        BY <1>0, <2>1, <2>4 DEF TypeOK
      <3>2. admin[d].app # a /\ admin'[d].app # a
        BY <1>0, <2>2, <2>4, NoneApart
      <3> QED  BY <2>1, <2>2, <3>1, <3>2, OtherEdit
    <2> QED  BY <2>3, <2>4
  <1>4. ASSUME Invalidate(d)
        PROVE  EditOf(a)'
    <2> PICK b \in Apps : b = admin[d].app
      BY <1>4 DEF Invalidate, IdInv, EditorsBusy
    <2>1. /\ Discard(b) /\ Advance(d, "idle", None)
          /\ UNCHANGED <<primary, adapter, inFlight, call>>
      BY <1>4 DEF Invalidate
    <2>2. /\ admin'[d].app = None
          /\ \A e \in Admins : e # d => admin'[e] = admin[e]
      BY <1>0, <2>1, AdvanceType
    <2>3. pool' = [pool EXCEPT ![b] = None]
      BY <1>0, <2>1, DiscardType
    <2>4. CASE a = b
      <3>1. ~Stale(a)'
        BY <1>0, <2>3, <2>4 DEF Stale, Cached, TypeOK
      <3> QED  BY <1>0, <1>1, <2>1, <2>4, <3>1, OwnEdit
    <2>5. CASE a # b
      <3>1. pool'[a] = pool[a]
        BY <1>0, <2>3, <2>5 DEF TypeOK
      <3>2. admin[d].app # a /\ admin'[d].app # a
        BY <1>0, <2>2, <2>5, NoneApart
      <3> QED  BY <2>1, <2>2, <3>1, <3>2, OtherEdit
    <2> QED  BY <2>4, <2>5
  <1>5. ASSUME EditFails(d)
        PROVE  EditOf(a)'
    <2>1. /\ Advance(d, "idle", None) /\ admin[d].app \in Unruly
          /\ UNCHANGED <<primary, pool, adapter, inFlight, call>>
      BY <1>5 DEF EditFails, cached
    <2>2. /\ admin'[d].app = None
          /\ \A e \in Admins : e # d => admin'[e] = admin[e]
      BY <1>0, <2>1, AdvanceType
    <2>3. admin[d].app # a /\ admin'[d].app # a
      BY <1>0, <2>1, <2>2, NoneApart
    <2> QED  BY <2>1, <2>2, <2>3, OtherEdit
  <1> QED  BY <1>2, <1>3, <1>4, <1>5 DEF Edit

LEMMA EditStep == IdInv /\ EditInv /\ [Next]_vars => EditInv'
  <1> SUFFICES ASSUME IdInv, EditInv, [Next]_vars, NEW a \in Calm
               PROVE  EditOf(a)'
    BY DEF EditInv, EditOf
  <1>1. ASSUME Undisturbed(a)
        PROVE  EditOf(a)'
    BY <1>1, UndisturbedKeeps DEF EditOf
  <1>2. CASE \/ \E b \in Apps : Ask(b) \/ Age(b)
             \/ \E c \in Callers : Build(c) \/ Done(c)
    BY <1>1, <1>2, CallerUndisturbs
  <1>3. CASE \E d \in Admins :
               \/ \E b \in Apps : EditDemote(d, b) \/ Delete(d, b)
               \/ Edit(d) \/ EditFails(d)
    BY <1>3, EditsKeep
  <1>4. CASE UNCHANGED vars
    <2>1. Undisturbed(a)
      BY <1>4 DEF vars, Undisturbed
    <2> QED  BY <1>1, <2>1
  <1> QED  BY <1>2, <1>3, <1>4 DEF Next

\* Once an edit of a configuration is over the pool offers no adapter built
\* from an older row, for the apps whose edits neither overlap a build nor die.
THEOREM EditsTakeEffect == Spec => []EditTakesEffect
  <1>1. Init => EditInv
    BY IdleRequest, ResolverAssumption DEF Init, EditInv, Stale, Cached, Calm
  <1>2. EditInv => EditTakesEffect
    BY DEF EditInv, EditTakesEffect, Announced, Editing, Calm
  <1> QED  BY <1>1, <1>2, EditStep, AdaptersOwned, PTL DEF Spec
=============================================================================
