------------------------- MODULE ConnectionResolver -------------------------
(***************************************************************************)
(* From an app id to a live database adapter, in one server process:        *)
(* packages/adapters/src/resolver.ts and pool.ts, wired by                  *)
(* apps/web/src/lib/resolver.ts to packages/db/src/queries/                 *)
(* database-configs.ts, and the admin actions that edit a configuration     *)
(* (apps/web/src/actions/database.ts).                                     *)
(*                                                                         *)
(* A step is one SQL statement or what JavaScript runs between two awaits.  *)
(* A row of the configuration table is its version; what matters of the     *)
(* table is which row is the primary one.  Adapter ids are reused once      *)
(* nobody can tell.                                                        *)
(***************************************************************************)
EXTENDS Naturals, Sequences, FiniteSets

CONSTANTS
    Apps, Callers, Admins,
    Adapters,         \* ids of driver instances
    Max,              \* DEFAULT_POOL_SIZE
    TTL,              \* DEFAULT_TTL_MS, in ticks
    MaxVersion,       \* bound: configuration rows written per app
    Unruly,           \* apps whose edits may overlap a build and die half way
    None

ASSUME ResolverAssumption ==
    /\ Max \in Nat \ {0} /\ TTL \in Nat \ {0} /\ MaxVersion \in Nat
    /\ Unruly \subseteq Apps
    /\ None \notin Apps \cup Callers \cup Adapters
                     \cup [id : Adapters, age : 0 .. TTL]

VARIABLES
    primary,          \* per app: version of the primary row, 0 when none
    written,          \* per app: versions written so far
    admin,            \* edits in progress
    adapter,          \* per id: the app and the row it was built from
    open,             \* ids not closed
    pool,             \* per app: [id, age] or None
    lru,              \* the apps in the pool, least recently used first
    inFlight,         \* per app: the caller whose build is running, or None
    call              \* per caller

configs == <<primary, written, admin>>
cached == <<adapter, open, pool, lru>>
vars == <<primary, written, admin, adapter, open, pool, lru, inFlight, call>>

Idle == [st |-> "idle", app |-> None, dsn |-> 0, on |-> None, id |-> None]
AtRest == [pc |-> "idle", app |-> None]

Editing(a) == {d \in Admins : admin[d].app = a}
Cached(a) == pool[a] # None
Usable(entry) == entry # None /\ entry.age < TTL

Init ==
    /\ primary = [a \in Apps |-> 1] /\ written = [a \in Apps |-> 1]
    /\ admin = [d \in Admins |-> AtRest]
    /\ adapter = [i \in Adapters |-> [app |-> None, dsn |-> 0]]
    /\ open = {}
    /\ pool = [a \in Apps |-> None]
    /\ lru = <<>>
    /\ inFlight = [a \in Apps |-> None]
    /\ call = [c \in Callers |-> Idle]

Without(s, a) == SelectSeq(s, LAMBDA b : b # a)

-----------------------------------------------------------------------------
(* resolve *)

\* Mutant: the TTL slides with every use.
TouchedAnew(entry) == [entry EXCEPT !.age = 0]

\* A use moves lastUsedAt, never createdAt.
Touched(entry) == entry

\* pool.get finds a live entry.
Hit(c, a) ==
    /\ call[c].st = "idle"
    /\ Usable(pool[a])
    /\ lru' = Append(Without(lru, a), a)
    /\ pool' = [pool EXCEPT ![a] = Touched(@)]
    /\ call' = [call EXCEPT ![c] = [Idle EXCEPT
                 !.st = "using", !.app = a, !.id = pool[a].id]]
    /\ UNCHANGED <<configs, adapter, open, inFlight>>

\* Mutant: the adapter is dropped without being closed.
DiscardOpen(a) ==
    /\ pool' = [pool EXCEPT ![a] = None]
    /\ lru' = Without(lru, a)
    /\ UNCHANGED open

\* Delete the entry and close its adapter.
Discard(a) ==
    /\ pool' = [pool EXCEPT ![a] = None]
    /\ lru' = Without(lru, a)
    /\ open' = IF Cached(a) THEN open \ {pool[a].id} ELSE open

\* Mutant: a miss joins whichever build it finds.
PendingAny(a) == LET F == {inFlight[b] : b \in Apps} \ {None}
                 IN  IF F = {} THEN None ELSE CHOOSE c \in F : TRUE

\* The build a miss on a joins.
Pending(a) == inFlight[a]

\* pool.get finds nothing, or discards what has expired; the caller joins
\* the build in flight or starts one.
Miss(c, a) ==
    /\ call[c].st = "idle"
    /\ ~Usable(pool[a])
    /\ a \in Unruly \/ Editing(a) = {}
    /\ Discard(a)
    /\ IF Pending(a) # None
         THEN /\ call' = [call EXCEPT ![c] = [Idle EXCEPT
                           !.st = "wait", !.app = a, !.on = Pending(a)]]
              /\ UNCHANGED inFlight
         ELSE /\ call' = [call EXCEPT ![c] = [Idle EXCEPT
                           !.st = "load", !.app = a]]
              /\ inFlight' = [inFlight EXCEPT ![a] = c]
    /\ UNCHANGED <<configs, adapter>>

\* The promise of c's build settles: everyone who joined it resumes.
Settle(c, result) ==
    /\ inFlight' = [inFlight EXCEPT ![call[c].app] = None]
    /\ call' = [b \in Callers |->
                  IF b = c \/ call[b].on = c
                    THEN IF result = None THEN Idle
                         ELSE [Idle EXCEPT !.st = "using", !.id = result,
                                           !.app = call[b].app]
                    ELSE call[b]]

\* DB_CONFIG_MISSING, "disappeared mid-resolve", or a driver that throws.
BuildFails(c) ==
    /\ \/ call[c].st \in {"load", "reveal"} /\ primary[call[c].app] = 0
       \/ call[c].st = "open"
    /\ Settle(c, None)
    /\ UNCHANGED <<configs, cached>>

\* loadConfig reads the primary row for its provider and pool size, which
\* the model leaves out ...
BuildLoad(c) ==
    /\ call[c].st = "load" /\ primary[call[c].app] # 0
    /\ call' = [call EXCEPT ![c].st = "reveal"]
    /\ UNCHANGED <<configs, cached, inFlight>>

\* ... and decrypt reads the primary row again for the connection string.
BuildReveal(c) ==
    /\ call[c].st = "reveal" /\ primary[call[c].app] # 0
    /\ call' = [call EXCEPT ![c].st = "open",
                            ![c].dsn = primary[call[c].app]]
    /\ UNCHANGED <<configs, cached, inFlight>>

\* A new driver; which id names it makes no difference.
Unused == {i \in Adapters : i \notin open /\ \A c \in Callers : call[c].id # i}
NewAdapter == CHOOSE i \in Adapters : i \in Unused

\* The most recently used apps that stay when one more entry comes in.
Kept(s) == IF Len(s) < Max THEN s ELSE SubSeq(s, Len(s) - Max + 2, Len(s))

\* The driver is created and pool.set makes room for it, closing the entries
\* it evicts.
BuildOpen(c) ==
    /\ call[c].st = "open"
    /\ LET a == call[c].app
           rest == Without(lru, a)
           kept == Kept(rest)
           victims == {b \in Apps : Cached(b)}
                        \ {kept[k] : k \in 1 .. Len(kept)}
           i == NewAdapter
       IN  /\ Unused # {}
           /\ adapter' = [adapter EXCEPT ![i] = [app |-> a, dsn |-> call[c].dsn]]
           /\ open' = (open \ {pool[b].id : b \in victims}) \cup {i}
           /\ pool' = [b \in Apps |->
                         IF b = a THEN [id |-> i, age |-> 0]
                         ELSE IF b \in victims THEN None ELSE pool[b]]
           /\ lru' = Append(kept, a)
           /\ Settle(c, i)
    /\ UNCHANGED configs

\* The request that holds the adapter ends.
Done(c) ==
    /\ call[c].st = "using"
    /\ call' = [call EXCEPT ![c] = Idle]
    /\ UNCHANGED <<configs, cached, inFlight>>

-----------------------------------------------------------------------------
(* saveDatabaseAction and deleteDatabaseAction *)

Advance(d, pc, a) == admin' = [admin EXCEPT ![d] = [pc |-> pc, app |-> a]]

\* upsertDatabaseConfig: no row is primary any more ...
EditDemote(d, a) ==
    /\ admin[d].pc = "idle"
    /\ written[a] + Cardinality(Editing(a)) < MaxVersion
    /\ a \in Unruly \/ inFlight[a] = None
    /\ primary' = [primary EXCEPT ![a] = 0]
    /\ Advance(d, "insert", a)
    /\ UNCHANGED <<written, cached, inFlight, call>>

\* ... then a new primary row, which the unique index may refuse.
EditInsert(d) ==
    /\ admin[d].pc = "insert"
    /\ LET a == admin[d].app IN
         IF primary[a] = 0
           THEN /\ primary' = [primary EXCEPT ![a] = written[a] + 1]
                /\ written' = [written EXCEPT ![a] = @ + 1]
                /\ Advance(d, "invalidate", a)
           ELSE /\ Advance(d, "idle", None)
                /\ UNCHANGED <<primary, written>>
    /\ UNCHANGED <<cached, inFlight, call>>

\* deleteDatabaseConfig of the primary row or of another one.
Delete(d, a) ==
    /\ admin[d].pc = "idle"
    /\ a \in Unruly \/ inFlight[a] = None
    /\ primary' = [primary EXCEPT ![a] = 0] \/ UNCHANGED primary
    /\ Advance(d, "invalidate", a)
    /\ UNCHANGED <<written, cached, inFlight, call>>

\* Mutant: the edit forgets the pool.
InvalidateNothing(d) ==
    /\ admin[d].pc = "invalidate"
    /\ Advance(d, "idle", None)
    /\ UNCHANGED <<primary, written, cached, inFlight, call>>

Invalidate(d) ==
    /\ admin[d].pc = "invalidate"
    /\ Discard(admin[d].app)
    /\ Advance(d, "idle", None)
    /\ UNCHANGED <<primary, written, adapter, inFlight, call>>

\* A statement throws or the process handling the edit dies.
EditFails(d) ==
    /\ admin[d].app \in Unruly
    /\ admin[d].pc \in {"insert", "invalidate"}
    /\ Advance(d, "idle", None)
    /\ UNCHANGED <<primary, written, cached, inFlight, call>>

\* Time passes for the entry of a.
Age(a) ==
    /\ Usable(pool[a])
    /\ pool' = [pool EXCEPT ![a].age = @ + 1]
    /\ UNCHANGED <<configs, adapter, open, lru, inFlight, call>>

-----------------------------------------------------------------------------
Ask(a) == \E c \in Callers : Hit(c, a) \/ Miss(c, a)

Build(c) == BuildFails(c) \/ BuildLoad(c) \/ BuildReveal(c) \/ BuildOpen(c)

Edit(d) == EditInsert(d) \/ Invalidate(d)

Next ==
    \/ \E a \in Apps : Ask(a) \/ Age(a)
    \/ \E c \in Callers : Build(c) \/ Done(c)
    \/ \E d \in Admins : \/ \E a \in Apps : EditDemote(d, a) \/ Delete(d, a)
                         \/ Edit(d) \/ EditFails(d)

Spec == Init /\ [][Next]_vars

\* Statements are answered, requests end and time passes.
Fairness ==
    /\ \A a \in Apps : WF_vars(Age(a))
    /\ \A c \in Callers : WF_vars(Build(c)) /\ WF_vars(Done(c))
    /\ \A d \in Admins : WF_vars(Edit(d))

FairSpec == Spec /\ Fairness

-----------------------------------------------------------------------------
(* Properties *)

Entry == [id : Adapters, age : 0 .. TTL]

Task == [pc : {"idle", "insert", "invalidate"}, app : Apps \cup {None}]

Request == [st : {"idle", "load", "reveal", "open", "wait", "using"},
            app : Apps \cup {None}, dsn : Nat,
            on : Callers \cup {None}, id : Adapters \cup {None}]

\* Every variable but the recency list has its type.
TypeOK ==
    /\ primary \in [Apps -> Nat] /\ written \in [Apps -> Nat]
    /\ admin \in [Admins -> Task]
    /\ adapter \in [Adapters -> [app : Apps \cup {None}, dsn : Nat]]
    /\ open \subseteq Adapters
    /\ pool \in [Apps -> Entry \cup {None}]
    /\ inFlight \in [Apps -> Callers \cup {None}]
    /\ call \in [Callers -> Request]

\* The pool and its recency list hold the same apps, at most Max.
Recency ==
    /\ {lru[k] : k \in DOMAIN lru} = {a \in Apps : Cached(a)}
    /\ Len(lru) <= Max /\ Len(lru) = Cardinality({a \in Apps : Cached(a)})

\* No caller is ever given the database of another app, however builds are
\* joined, evicted and replaced.
OwnDatabase ==
    \A c \in Callers :
      call[c].st = "using" => adapter[call[c].id].app = call[c].app

\* The open connections are exactly those of the pool: what leaves the pool
\* is closed, and the pool never offers a closed adapter.
NoLeak == open = {pool[a].id : a \in {b \in Apps : Cached(b)}}

Stale(a) == Cached(a) /\ adapter[pool[a].id].dsn # primary[a]

\* When the edits of an app neither overlap a build for it nor die, the pool
\* offers no adapter of an older configuration once an edit is over.
EditTakesEffect == \A a \in Apps \ Unruly : Editing(a) = {} => ~Stale(a)

\* "A TTL so a rotated credential cannot stay live forever" (pool.ts:2-3):
\* an app that keeps being used does not keep an adapter of an older
\* configuration, even if its edit died before the invalidation.
StaleIsReplaced ==
    \A a \in Apps : []<><<Ask(a)>>_vars => (Stale(a) ~> ~Stale(a))
=============================================================================
