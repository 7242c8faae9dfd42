------------------------- MODULE AccountAccessProofs -------------------------
(***************************************************************************)
(* Proofs about AccountAccess, for any number of links, requests, resets    *)
(* and withdrawals; after them about Membership, for any number of people,  *)
(* invitations and requests, and about LoginThrottle, for any number of     *)
(* addresses and requests and any policy:                                   *)
(*                                                                         *)
(*   - type correctness;                                                   *)
(*   - OneReset: a recovery link sets one password;                         *)
(*   - OneLink: asking again kills the earlier link;                        *)
(*   - SweptClean: what a complete sweep removed does not come back;        *)
(*   - NeverNowhere: nobody is left without a membership who was not removed; *)
(*   - OnlyOwnFailuresLock: nobody is locked by another's failures;          *)
(*   - GuessesArePaced: the guesses of an orderly address keep to the curve; *)
(*   - LockStands: nothing but time ends its lock.                           *)
(***************************************************************************)
EXTENDS AccountAccess, Membership, LoginThrottle, FiniteSetTheorems, WellFoundedInduction,
        TLAPS

\* What is left of a sweep, from its first statement to its last.
Rests ==
    [reset |-> {ResetSweep, <<"session", "device", "link">>, <<"device", "link">>, <<"link">>},
     suspended |-> {<<"refresh", "session">>, <<"session">>},
     offboarded |-> {<<"refresh", "session", "device">>, <<"session", "device">>, <<"device">>}]

Jobs == {"reset", "suspended", "offboarded"}
Left(todo) == {todo[i] : i \in DOMAIN todo}

\* What a request is about fits its place.
TaskOK(r, e) ==
    /\ r.pc \in {"mail", "burn", "find", "write"} => r.link \in Links
    /\ r.pc = "sweep" => r.job \in Jobs /\ r.todo \in Rests[r.job] /\ r.root <= e
    /\ r.pc # "sweep" => r.todo = <<>>
    /\ r.pc = "status" => r.job \in DOMAIN SweepOf

TasksOK == worker \in [Workers -> Task] /\ \A w \in Workers : TaskOK(worker[w], epoch)

TaskInv == TypeOK /\ TasksOK

Redeeming == {"find", "write"}

\* A link is redeemed by one request, and before that by none.
ResetInv ==
    /\ \A l \in Links : link[l].resets <= 1 /\ (link[l].st # "dead" => link[l].resets = 0)
    /\ \A w \in Workers : worker[w].pc \in Redeeming =>
         /\ link[worker[w].link].st = "dead" /\ link[worker[w].link].resets = 0
         /\ \A v \in Workers :
              worker[v].pc \in Redeeming /\ worker[v].link = worker[w].link => v = w

\* Nothing was mailed since a request revoked the links, unless it knows.
LinkInv ==
    \A w \in Workers : worker[w].pc = "link" /\ "link" \notin worker[w].missed =>
      \A l \in Links : link[l].st # "live"

\* Rows of kind k, and those that requests will insert, are not older than e.
Since(k, e) ==
    /\ \A c \in creds : c.kind = k => c.root >= e
    /\ \A v \in Workers :
         worker[v].pc \in DOMAIN Ahead /\ k \in Ahead[worker[v].pc] \ worker[v].missed
           => worker[v].root >= e

SweptBy(r) == SweptKinds(r.job) \ Left(r.todo)

SweepInv ==
    /\ \A k \in Kinds : Since(k, clean[k])
    /\ \A w \in Workers : worker[w].pc = "sweep" =>
         \A k \in Kinds \cap SweptBy(worker[w]) : Since(k, worker[w].root)
    /\ clean["device"] <= clean["session"]
    /\ \A l \in Links : link[l].st = "live" => clean["link"] <= link[l].root

-----------------------------------------------------------------------------
(* Sweeps *)

LEMMA SweepKinds ==
    /\ SweptKinds("reset") = {"refresh", "session", "device", "link"}
    /\ SweptKinds("suspended") = {"refresh", "session"}
    /\ SweptKinds("offboarded") = {"refresh", "session", "device"}
  <1>1. SweptKinds("reset") = {"refresh", "session", "device", "link"}
    BY DEF SweptKinds, ResetSweep
  <1>2. SweptKinds("suspended") = {"refresh", "session"}
    BY DEF SweptKinds, SweepOf
  <1>3. SweptKinds("offboarded") = {"refresh", "session", "device"}
    BY DEF SweptKinds, SweepOf
  <1> QED  BY <1>1, <1>2, <1>3

\* One statement of a sweep: the sessions go before the devices, the links last.
LEMMA SweepParts ==
    ASSUME NEW job \in Jobs, NEW t \in Rests[job]
    PROVE  /\ t # <<>> /\ t \in Seq(Kinds \cup {"link"})
           /\ Head(t) \in Left(t) /\ Left(t) \subseteq SweptKinds(job)
           /\ Len(t) = 1 => Left(t) = {Head(t)}
           /\ Len(t) # 1 => Tail(t) \in Rests[job] /\ Left(Tail(t)) = Left(t) \ {Head(t)}
           /\ "session" \in Left(t) /\ "device" \in SweptKinds(job) => "device" \in Left(t)
           /\ Len(t) = 1 /\ "link" \in SweptKinds(job) => Head(t) = "link"
  <1>1. ASSUME NEW a \in Kinds \cup {"link"}
        PROVE  LET s == <<a>> IN s # <<>> /\ s \in Seq(Kinds \cup {"link"}) /\ Head(s) = a
                 /\ Len(s) = 1 /\ Left(s) = {a}
    BY DEF Left
  <1>2. ASSUME NEW a \in Kinds \cup {"link"}, NEW b \in Kinds \cup {"link"}
        PROVE  LET s == <<a, b>> IN s # <<>> /\ s \in Seq(Kinds \cup {"link"}) /\ Head(s) = a
                 /\ Len(s) = 2 /\ Left(s) = {a, b} /\ Tail(s) = <<b>>
    BY DEF Left
  <1>3. ASSUME NEW a \in Kinds \cup {"link"}, NEW b \in Kinds \cup {"link"},
               NEW c \in Kinds \cup {"link"}
        PROVE  LET s == <<a, b, c>> IN s # <<>> /\ s \in Seq(Kinds \cup {"link"})
                 /\ Head(s) = a /\ Len(s) = 3 /\ Left(s) = {a, b, c} /\ Tail(s) = <<b, c>>
    BY DEF Left
  <1>4. ASSUME NEW a \in Kinds \cup {"link"}, NEW b \in Kinds \cup {"link"},
               NEW c \in Kinds \cup {"link"}, NEW d \in Kinds \cup {"link"}
        PROVE  LET s == <<a, b, c, d>> IN s # <<>> /\ s \in Seq(Kinds \cup {"link"})
                 /\ Head(s) = a /\ Len(s) = 4 /\ Left(s) = {a, b, c, d} /\ Tail(s) = <<b, c, d>>
    BY DEF Left
  <1>5. {"session", "refresh", "device", "link"} = Kinds \cup {"link"}
    BY DEF Kinds
  <1> HIDE DEF Left
  <1>6. CASE job = "reset"
    <2>1. /\ Rests[job] = {<<"refresh", "session", "device", "link">>,
                         <<"session", "device", "link">>, <<"device", "link">>, <<"link">>}
          /\ SweptKinds(job) = {"refresh", "session", "device", "link"}
      BY <1>6, SweepKinds DEF Rests, ResetSweep
    <2>2. CASE t = <<"refresh", "session", "device", "link">>
      <3>1. /\ t # <<>> /\ t \in Seq(Kinds \cup {"link"})
            /\ Head(t) = "refresh" /\ Len(t) = 4 /\ Left(t) = {"refresh", "session", "device", "link"}
            /\ Tail(t) = <<"session", "device", "link">>
        <4>1. t # <<>> /\ Head(t) = "refresh" /\ Len(t) = 4
              /\ Tail(t) = <<"session", "device", "link">>
          BY <2>2
        <4>2. t \in Seq(Kinds \cup {"link"})
          BY <2>2 DEF Kinds
        <4>3. DOMAIN t = 1 .. 4 /\ t[1] = "refresh" /\ t[2] = "session" /\ t[3] = "device"
              /\ t[4] = "link"
          <5>1. t \in Seq(Kinds \cup {"link"})
            BY <2>2 DEF Kinds
          <5> QED  BY <2>2, <5>1
        <4>4. Left(t) = {t[1], t[2], t[3], t[4]}
          BY <4>3 DEF Left
        <4> QED  BY <4>1, <4>2, <4>3, <4>4
      <3>2. Left(<<"session", "device", "link">>) = {"session", "device", "link"}
        BY DEF Left
      <3>3. {"session", "device", "link"} = {"refresh", "session", "device", "link"} \ {"refresh"}
        OBVIOUS
      <3>4. Left(Tail(t)) = Left(t) \ {Head(t)}
        BY <3>1, <3>2, <3>3
      <3>5. Head(t) \in Left(t) /\ Left(t) \subseteq SweptKinds(job) /\ "device" \in Left(t)
        BY <2>1, <3>1
      <3>6. Tail(t) \in Rests[job]
        BY <2>1, <3>1
      <3> QED  BY <3>1, <3>4, <3>5, <3>6
    <2>3. CASE t = <<"session", "device", "link">>
      <3>1. /\ t # <<>> /\ t \in Seq(Kinds \cup {"link"})
            /\ Head(t) = "session" /\ Len(t) = 3 /\ Left(t) = {"session", "device", "link"}
            /\ Tail(t) = <<"device", "link">>
        BY <1>3, <1>5, <2>3
      <3>2. Left(<<"device", "link">>) = {"device", "link"}
        BY <1>2, <1>5
      <3>3. {"device", "link"} = {"session", "device", "link"} \ {"session"}
        OBVIOUS
      <3>4. Left(Tail(t)) = Left(t) \ {Head(t)}
        BY <3>1, <3>2, <3>3
      <3>5. Head(t) \in Left(t) /\ Left(t) \subseteq SweptKinds(job) /\ "device" \in Left(t)
        BY <2>1, <3>1
      <3>6. Tail(t) \in Rests[job]
        BY <2>1, <3>1
      <3> QED  BY <3>1, <3>4, <3>5, <3>6
    <2>4. CASE t = <<"device", "link">>
      BY <1>1, <1>2, <1>5, <2>1, <2>4
    <2>5. CASE t = <<"link">>
      BY <1>1, <1>5, <2>1, <2>5
    <2> QED  BY <2>1, <2>2, <2>3, <2>4, <2>5
  <1>7. CASE job = "suspended"
    <2>1. /\ Rests[job] = {<<"refresh", "session">>, <<"session">>}
          /\ SweptKinds(job) = {"refresh", "session"}
      BY <1>7, SweepKinds DEF Rests
    <2>2. CASE t = <<"refresh", "session">>
      BY <1>1, <1>2, <1>5, <2>1, <2>2
    <2>3. CASE t = <<"session">>
      BY <1>1, <1>5, <2>1, <2>3
    <2> QED  BY <2>1, <2>2, <2>3
  <1>8. CASE job = "offboarded"
    <2>1. /\ Rests[job] = {<<"refresh", "session", "device">>, <<"session", "device">>,
                         <<"device">>}
          /\ SweptKinds(job) = {"refresh", "session", "device"}
      BY <1>8, SweepKinds DEF Rests
    <2>2. CASE t = <<"refresh", "session", "device">>
      <3>1. /\ t # <<>> /\ t \in Seq(Kinds \cup {"link"})
            /\ Head(t) = "refresh" /\ Len(t) = 3 /\ Left(t) = {"refresh", "session", "device"}
            /\ Tail(t) = <<"session", "device">>
        BY <1>3, <1>5, <2>2
      <3>2. Left(<<"session", "device">>) = {"session", "device"}
        BY <1>2, <1>5
      <3>3. {"session", "device"} = {"refresh", "session", "device"} \ {"refresh"}
        OBVIOUS
      <3>4. Left(Tail(t)) = Left(t) \ {Head(t)}
        BY <3>1, <3>2, <3>3
      <3>5. Head(t) \in Left(t) /\ Left(t) \subseteq SweptKinds(job) /\ "device" \in Left(t)
        BY <2>1, <3>1
      <3>6. Tail(t) \in Rests[job]
        BY <2>1, <3>1
      <3> QED  BY <3>1, <3>4, <3>5, <3>6
    <2>3. CASE t = <<"session", "device">>
      BY <1>1, <1>2, <1>5, <2>1, <2>3
    <2>4. CASE t = <<"device">>
      BY <1>1, <1>5, <2>1, <2>4
    <2> QED  BY <2>1, <2>2, <2>3, <2>4
  <1> QED  BY <1>6, <1>7, <1>8 DEF Jobs

-----------------------------------------------------------------------------
(* Types *)

LEMMA Domains ==
    /\ DOMAIN Ahead = {"session", "refresh", "device"} /\ DOMAIN Ahead = Kinds
    /\ DOMAIN SweepOf = {"suspended", "offboarded"}
    /\ DOMAIN Sources = {"refresh", "device"}
    /\ Ahead["session"] = {"session", "refresh"} /\ Ahead["refresh"] = {"refresh"}
    /\ Ahead["device"] = {"device"}
    /\ Sources["refresh"] = "refresh" /\ Sources["device"] = "session"
    /\ MaxEpoch \in Nat /\ Raced = MaxEpoch + 1
  BY Bounds DEF Ahead, SweepOf, Sources, Kinds, Raced

LEMMA Numbers == MaxEpoch \in Nat /\ Raced = MaxEpoch + 1 /\ Raced \in Nat
  BY Bounds DEF Raced

Sweeping(job, e) == [Idle EXCEPT !.pc = "sweep", !.root = e, !.job = job,
                                 !.todo = IF job = "reset" THEN ResetSweep ELSE SweepOf[job]]

LEMMA IdleTask ==
    /\ Idle \in Task
    /\ \A pc \in DOMAIN Ahead, e \in 0 .. Raced : [Idle EXCEPT !.pc = pc, !.root = e] \in Task
    /\ [Idle EXCEPT !.pc = "link"] \in Task
    /\ \A l \in Links : [Idle EXCEPT !.pc = "burn", !.link = l] \in Task
  <1>1. Idle \in Task
    <2>1. {} \in SUBSET (Kinds \cup {"link"}) /\ <<>> \in Seq(Kinds \cup {"link"})
      OBVIOUS
    <2> QED  BY <2>1, Domains DEF Idle, Task
  <1> QED  BY <1>1, Domains DEF Task

LEMMA SweepTask ==
    ASSUME NEW job \in Jobs, NEW e \in 0 .. Raced
    PROVE  /\ Sweeping(job, e) \in Task
           /\ Sweeping(job, e).pc = "sweep" /\ Sweeping(job, e).root = e
           /\ Sweeping(job, e).job = job /\ Sweeping(job, e).todo \in Rests[job]
           /\ SweptBy(Sweeping(job, e)) = {}
  <1> DEFINE t == IF job = "reset" THEN ResetSweep ELSE SweepOf[job]
  <1>1. t \in Rests[job]
    BY DEF Jobs, Rests, SweepOf, ResetSweep
  <1>2. Left(t) = SweptKinds(job)
    BY DEF Left, SweptKinds
  <1>3. t \in Seq(Kinds \cup {"link"})
    BY <1>1, SweepParts
  <1>4. job \in {"none", "reset"} \cup DOMAIN SweepOf
    BY Domains DEF Jobs
  <1>5. Sweeping(job, e) = [Idle EXCEPT !.pc = "sweep", !.root = e, !.job = job, !.todo = t]
    BY DEF Sweeping
  <1> HIDE DEF t
  <1>6. /\ Sweeping(job, e) \in Task
        /\ Sweeping(job, e).pc = "sweep" /\ Sweeping(job, e).root = e
        /\ Sweeping(job, e).job = job /\ Sweeping(job, e).todo = t
    <2>1. Idle \in Task
      BY IdleTask
    <2>2. Sweeping(job, e) = [pc |-> "sweep", link |-> Idle.link, known |-> Idle.known, root |-> e,
                              job |-> job, todo |-> t, missed |-> Idle.missed]
      BY <1>5, <2>1 DEF Task
    <2>3. Sweeping(job, e) \in Task
      BY <1>3, <1>4, <2>1, <2>2 DEF Task
    <2> QED  BY <2>2, <2>3
  <1> QED  BY <1>1, <1>2, <1>6 DEF SweptBy

LEMMA TaskNext ==
    ASSUME NEW r \in Task
    PROVE  /\ \A pc \in {"refresh", "find", "deletion"} : [r EXCEPT !.pc = pc] \in Task
           /\ \A M \in SUBSET (Kinds \cup {"link"}) :
                /\ [r EXCEPT !.missed = M] \in Task
                /\ [r EXCEPT !.pc = "refresh", !.missed = M] \in Task
           /\ \A l \in Links : [r EXCEPT !.pc = "mail", !.link = l] \in Task
           /\ \A n \in Nat : [r EXCEPT !.pc = "write", !.known = n] \in Task
           /\ \A t \in Seq(Kinds \cup {"link"}) : [r EXCEPT !.todo = t] \in Task
           /\ [r EXCEPT !.pc = "status", !.todo = <<>>] \in Task
           /\ r.missed \subseteq Kinds \cup {"link"} /\ r.root \in 0 .. Raced /\ r.known \in Nat
  <1>1. \A pc \in {"refresh", "find", "deletion"} : [r EXCEPT !.pc = pc] \in Task
    BY Domains DEF Task
  <1>2. \A M \in SUBSET (Kinds \cup {"link"}) :
          /\ [r EXCEPT !.missed = M] \in Task
          /\ [r EXCEPT !.pc = "refresh", !.missed = M] \in Task
    BY Domains DEF Task
  <1>3. /\ \A l \in Links : [r EXCEPT !.pc = "mail", !.link = l] \in Task
        /\ \A n \in Nat : [r EXCEPT !.pc = "write", !.known = n] \in Task
    BY DEF Task
  <1>4. \A t \in Seq(Kinds \cup {"link"}) : [r EXCEPT !.todo = t] \in Task
    BY DEF Task
  <1>5. [r EXCEPT !.pc = "status", !.todo = <<>>] \in Task
    <2>1. <<>> \in Seq(Kinds \cup {"link"})
      OBVIOUS
    <2> QED  BY <2>1 DEF Task
  <1>6. r.missed \subseteq Kinds \cup {"link"} /\ r.root \in 0 .. Raced /\ r.known \in Nat
    BY DEF Task
  <1> QED  BY <1>1, <1>2, <1>3, <1>4, <1>5, <1>6

LEMMA TaskMissed ==
    ASSUME NEW r \in Task, NEW M \in SUBSET (Kinds \cup {"link"})
    PROVE  [r EXCEPT !.missed = M] \in Task
  BY DEF Task

LEMMA TaskTodo ==
    ASSUME NEW r \in Task, NEW t \in Seq(Kinds \cup {"link"})
    PROVE  [r EXCEPT !.todo = t] \in Task
  BY DEF Task

LEMMA TaskFields ==
    ASSUME NEW r \in Task
    PROVE  r.root \in 0 .. Raced /\ r.root \in Nat /\ r.missed \subseteq Kinds \cup {"link"}
  BY Numbers DEF Task

LEMMA TaskInit == Init => TaskInv
  <1> SUFFICES ASSUME Init PROVE TaskInv
    OBVIOUS
  <1>1. MaxEpoch \in Nat
    BY Bounds
  <1>2. worker \in [Workers -> Task] /\ \A w \in Workers : worker[w] = Idle
    BY IdleTask DEF Init
  <1>3. \A w \in Workers : worker[w].pc = "idle" /\ worker[w].todo = <<>>
    BY <1>2 DEF Idle
  <1>4. link \in [Links -> Row]
    BY <1>1 DEF Init, NoRow, Row
  <1>5. clean \in [Kinds \cup {"link"} -> 0 .. epoch] /\ epoch \in 0 .. MaxEpoch
    BY <1>1 DEF Init
  <1> QED  BY <1>2, <1>3, <1>4, <1>5 DEF Init, TaskInv, TypeOK, TaskOK, TasksOK

\* One request goes on, the others stay where they are.
LEMMA OneTask ==
    ASSUME TaskInv, NEW w \in Workers, NEW r \in Task, worker' = [worker EXCEPT ![w] = r],
           epoch' \in Nat, epoch <= epoch', TaskOK(r, epoch')
    PROVE  TasksOK'
  <1>1. worker' \in [Workers -> Task]
    BY DEF TaskInv, TypeOK
  <1>2. ASSUME NEW v \in Workers PROVE TaskOK(worker'[v], epoch')
    <2>1. CASE v = w
      BY <2>1 DEF TaskInv, TypeOK
    <2>2. CASE v # w
      <3>1. worker'[v] = worker[v] /\ TaskOK(worker[v], epoch)
        BY <2>2 DEF TaskInv, TypeOK, TasksOK
      <3>2. worker[v].root \in Nat /\ epoch \in Nat
        BY Numbers, TaskFields DEF TaskInv, TypeOK
      <3> QED  BY <3>1, <3>2 DEF TaskOK
    <2> QED  BY <2>1, <2>2
  <1> QED  BY <1>1, <1>2 DEF TasksOK

LEMMA TasksFit ==
    ASSUME TasksOK, NEW w \in Workers
    PROVE  /\ worker[w].pc \in {"mail", "burn", "find", "write"} => worker[w].link \in Links
           /\ (worker[w].pc = "sweep") = (worker[w].todo # <<>>)
  BY SweepParts DEF TasksOK, TaskOK

LEMMA RowTypes ==
    ASSUME NEW r \in Row
    PROVE  /\ Dead(r) \in Row
           /\ [r EXCEPT !.mailed = TRUE] \in Row
           /\ \A n \in Nat : [r EXCEPT !.resets = n] \in Row
           /\ \A e \in 0 .. MaxEpoch, b \in BOOLEAN :
                [r EXCEPT !.st = "live", !.root = e, !.raced = b] \in Row
           /\ r.resets \in Nat /\ r.root \in 0 .. MaxEpoch
           /\ Dead(r).st = "dead" /\ Dead(r).resets = r.resets
  <1>1. MaxEpoch \in Nat
    BY Bounds
  <1>2. NoRow \in Row
    BY <1>1 DEF NoRow, Row
  <1>3. Dead(r) \in Row /\ Dead(r).st = "dead" /\ Dead(r).resets = r.resets
    <2>1. \A q \in Row, n \in Nat : LET d == [q EXCEPT !.st = "dead", !.resets = n] IN
            d \in Row /\ d.st = "dead" /\ d.resets = n
      BY DEF Row
    <2>2. r.resets \in Nat
      BY DEF Row
    <2> QED  BY <1>2, <2>1, <2>2 DEF Dead
  <1> QED  BY <1>3 DEF Row

LEMMA MadeType ==
    ASSUME TaskInv, NEW w \in Workers, NEW kind \in Kinds
    PROVE  Made(w, kind) \in Cred
  <1>1. worker[w].root \in 0 .. Raced /\ Raced \in 0 .. Raced
    BY Numbers, TaskFields DEF TaskInv, TypeOK
  <1> QED  BY <1>1 DEF Made, Cred

\* The requests after a step.
LEMMA TasksNext == TaskInv /\ [Next]_vars => TasksOK'
  <1> SUFFICES ASSUME TaskInv, [Next]_vars PROVE TasksOK'
    OBVIOUS
  <1>0. /\ \A w \in Workers : worker[w] \in Task /\ TaskOK(worker[w], epoch)
        /\ epoch \in Nat /\ epoch \in 0 .. MaxEpoch /\ epoch \in 0 .. Raced
        /\ passwords \in Nat /\ creds \subseteq Cred /\ scene.jobs \subseteq Jobs
    BY Numbers, Bounds DEF TaskInv, TypeOK, TasksOK, Jobs
  <1>1. ASSUME NEW w \in Workers, epoch' = epoch, worker' = [worker EXCEPT ![w] = Idle]
        PROVE  TasksOK'
    <2>1. Idle \in Task /\ TaskOK(Idle, epoch)
      BY IdleTask DEF TaskOK, Idle
    <2>2. epoch' \in Nat /\ epoch <= epoch' /\ TaskOK(Idle, epoch')
      BY <1>0, <1>1, <2>1
    <2> QED  BY <1>1, <2>1, <2>2, OneTask
  <1>2. ASSUME NEW w \in Workers, epoch' = epoch, NEW r \in Task, TaskOK(r, epoch),
               worker' = [worker EXCEPT ![w] = r]
        PROVE  TasksOK'
    <2>1. epoch' \in Nat /\ epoch <= epoch' /\ TaskOK(r, epoch')
      BY <1>0, <1>2
    <2> QED  BY <1>2, <2>1, OneTask
  <1>3. ASSUME epoch' = epoch, worker' = worker PROVE TasksOK'
    BY <1>3 DEF TaskInv, TasksOK
  <1>4. ASSUME NEW w \in Workers, SignIn(w) PROVE TasksOK'
    <2> DEFINE r == [Idle EXCEPT !.pc = "session", !.root = epoch]
    <2>1. r \in Task
      BY <1>0, IdleTask, Domains
    <2>2. r.pc = "session" /\ r.todo = <<>>
      BY DEF Idle
    <2>3. TaskOK(r, epoch)
      BY <2>2 DEF TaskOK
    <2> QED  BY <1>2, <1>4, <2>1, <2>3 DEF SignIn
  <1>5. ASSUME NEW w \in Workers, InsertSession(w) PROVE TasksOK'
    <2> DEFINE r == [worker[w] EXCEPT !.pc = "refresh",
                                      !.missed = worker[w].missed \cap Ahead["refresh"]]
    <2>1. r \in Task
      BY <1>0, TaskNext, TaskFields
    <2>2. r.pc = "refresh" /\ r.todo = <<>>
      BY <1>0, <1>5 DEF InsertSession, TaskOK, Task
    <2>3. TaskOK(r, epoch)
      BY <2>2 DEF TaskOK
    <2>4. \/ worker' = [worker EXCEPT ![w] = r]
          \/ worker' = [worker EXCEPT ![w] = Idle]
      BY <1>5 DEF InsertSession, Finish, Continue
    <2>5. epoch' = epoch
      BY <1>5 DEF InsertSession
    <2> QED  BY <1>1, <1>2, <2>1, <2>3, <2>4, <2>5
  <1>6. ASSUME NEW w \in Workers, NEW kind \in DOMAIN Sources, DeriveRead(w, kind)
        PROVE  TasksOK'
    <2> PICK c \in creds : worker' = [worker EXCEPT ![w] =
                             [Idle EXCEPT !.pc = kind, !.root = c.root]]
      BY <1>6 DEF DeriveRead
    <2> DEFINE r == [Idle EXCEPT !.pc = kind, !.root = c.root]
    <2>1. c.root \in 0 .. Raced /\ kind \in {"refresh", "device"} /\ kind \in DOMAIN Ahead
      BY <1>0, Domains DEF Cred
    <2>2. r \in Task
      BY <2>1, IdleTask
    <2>3. r.pc = kind /\ r.todo = <<>>
      BY DEF Idle
    <2>4. TaskOK(r, epoch)
      BY <2>1, <2>3, Domains DEF TaskOK
    <2> QED  BY <1>2, <1>6, <2>2, <2>4 DEF DeriveRead
  <1>7. ASSUME NEW w \in Workers,
               InsertDerived(w) \/ Mail(w) \/ Reject(w) \/ SetDeletion(w) \/ Crash(w)
        PROVE  TasksOK'
    BY <1>1, <1>7 DEF InsertDerived, Mail, Reject, SetDeletion, Crash, Finish
  <1>8. ASSUME NEW w \in Workers, Request(w) PROVE TasksOK'
    <2>1. [Idle EXCEPT !.pc = "link"] \in Task
      BY IdleTask
    <2>2. TaskOK([Idle EXCEPT !.pc = "link"], epoch)
      BY DEF Idle, TaskOK
    <2> QED  BY <1>2, <1>8, <2>1, <2>2 DEF Request
  <1>9. ASSUME NEW w \in Workers, InsertLink(w) PROVE TasksOK'
    <2> PICK l \in Links : worker' = [v \in Workers |->
                IF v = w THEN [worker[v] EXCEPT !.pc = "mail", !.link = l]
                ELSE IF worker[v].pc = "link"
                  THEN [worker[v] EXCEPT !.missed = @ \cup {"link"}]
                ELSE worker[v]]
      BY <1>9 DEF InsertLink
    <2>1. ASSUME NEW v \in Workers PROVE worker'[v] \in Task /\ TaskOK(worker'[v], epoch)
      <3>1. CASE v = w
        <4>1. worker'[v] = [worker[v] EXCEPT !.pc = "mail", !.link = l]
          BY <3>1
        <4>2. worker'[v] \in Task
          BY <1>0, <4>1, TaskNext
        <4>3. worker'[v].pc = "mail" /\ worker'[v].link = l /\ worker'[v].todo = <<>>
          BY <1>0, <1>9, <3>1, <4>1 DEF InsertLink, Task, TaskOK
        <4> QED  BY <4>2, <4>3 DEF TaskOK
      <3>2. CASE v # w /\ worker[v].pc = "link"
        <4>1. worker'[v] = [worker[v] EXCEPT !.missed = worker[v].missed \cup {"link"}]
          BY <3>2
        <4>2. worker'[v] \in Task
          BY <1>0, <4>1, TaskNext, TaskFields
        <4>3. worker'[v].pc = "link" /\ worker'[v].todo = <<>>
          BY <1>0, <3>2, <4>1 DEF Task, TaskOK
        <4> QED  BY <4>2, <4>3 DEF TaskOK
      <3>3. CASE v # w /\ worker[v].pc # "link"
        BY <1>0, <3>3
      <3> QED  BY <3>1, <3>2, <3>3
    <2>2. worker' \in [Workers -> Task]
      BY <2>1
    <2> QED  BY <1>9, <2>1, <2>2 DEF InsertLink, TasksOK
  <1>10. ASSUME NEW w \in Workers, NEW l \in Links, Peek(w, l) PROVE TasksOK'
    <2>1. [Idle EXCEPT !.pc = "burn", !.link = l] \in Task
      BY IdleTask
    <2>2. TaskOK([Idle EXCEPT !.pc = "burn", !.link = l], epoch)
      BY DEF Idle, TaskOK
    <2> QED  BY <1>2, <1>10, <2>1, <2>2 DEF Peek
  <1>11. ASSUME NEW w \in Workers, Burn(w) PROVE TasksOK'
    <2> DEFINE r == [worker[w] EXCEPT !.pc = "find"]
    <2>1. r \in Task
      BY <1>0, TaskNext
    <2>2. TaskOK(r, epoch)
      BY <1>0, <1>11 DEF Burn, TaskOK, Task
    <2>3. \/ worker' = [worker EXCEPT ![w] = r]
          \/ worker' = [worker EXCEPT ![w] = Idle]
      BY <1>11 DEF Burn, Goto, Finish
    <2>4. epoch' = epoch
      BY <1>11 DEF Burn
    <2> QED  BY <1>1, <1>2, <2>1, <2>2, <2>3, <2>4
  <1>12. ASSUME NEW w \in Workers, FindCredential(w) PROVE TasksOK'
    <2> DEFINE r == [worker[w] EXCEPT !.pc = "write", !.known = passwords]
    <2>1. r \in Task
      BY <1>0, TaskNext
    <2>2. TaskOK(r, epoch)
      BY <1>0, <1>12 DEF FindCredential, TaskOK, Task
    <2>3. worker' = [worker EXCEPT ![w] = r] /\ epoch' = epoch
      BY <1>12 DEF FindCredential
    <2> QED  BY <1>2, <2>1, <2>2, <2>3
  <1>13. ASSUME NEW w \in Workers, NEW job \in Jobs, epoch < MaxEpoch, epoch' = epoch + 1,
                worker' = [worker EXCEPT ![w] = Sweeping(job, epoch + 1)]
         PROVE  TasksOK'
    <2>1. epoch + 1 \in 0 .. Raced /\ epoch' \in Nat /\ epoch <= epoch'
      BY <1>0, <1>13, Numbers
    <2>2. TaskOK(Sweeping(job, epoch + 1), epoch')
      BY <1>13, <2>1, SweepTask DEF TaskOK
    <2>3. Sweeping(job, epoch + 1) \in Task
      BY <2>1, SweepTask
    <2> QED  BY <1>13, <2>1, <2>2, <2>3, OneTask
  <1>14. ASSUME NEW w \in Workers, WritePassword(w) PROVE TasksOK'
    BY <1>13, <1>14 DEF WritePassword, Sweeping, Jobs
  <1>15. ASSUME NEW w \in Workers, NEW job \in scene.jobs, Disable(w, job) PROVE TasksOK'
    <2>1. job \in Jobs /\ job # "reset"
      BY Bounds DEF TaskInv, TypeOK, Jobs
    <2> QED  BY <1>13, <1>15, <2>1 DEF Disable, Sweeping
  <1>16. ASSUME NEW w \in Workers, Revoke(w) PROVE TasksOK'
    <2> DEFINE t == worker[w].todo
    <2>1. /\ worker[w].job \in Jobs /\ t \in Rests[worker[w].job]
          /\ worker[w].root <= epoch
      BY <1>0, <1>16 DEF Revoke, TaskOK
    <2>2. /\ worker' = [v \in Workers |->
               IF v # w THEN [worker[v] EXCEPT !.missed =
                                IF worker[v].pc \in DOMAIN Ahead
                                  THEN @ \cup ({Head(t)} \cap Ahead[worker[v].pc]) ELSE @]
               ELSE IF Len(t) # 1 THEN [worker[v] EXCEPT !.todo = Tail(@)]
               ELSE IF worker[v].job = "reset" THEN Idle
               ELSE [worker[v] EXCEPT !.pc = "status", !.todo = <<>>]]
          /\ epoch' = epoch /\ worker[w].pc = "sweep"
      BY <1>16 DEF Revoke
    <2>3. t \in Seq(Kinds \cup {"link"}) /\ Head(t) \in Kinds \cup {"link"}
      <3>1. Head(t) \in Left(t) /\ t \in Seq(Kinds \cup {"link"})
        BY <2>1, SweepParts
      <3> QED  BY <3>1 DEF Left
    <2>4. ASSUME NEW v \in Workers PROVE worker'[v] \in Task /\ TaskOK(worker'[v], epoch)
      <3>1. CASE v # w
        <4> DEFINE M == IF worker[v].pc \in DOMAIN Ahead
                        THEN worker[v].missed \cup ({Head(t)} \cap Ahead[worker[v].pc])
                        ELSE worker[v].missed
        <4>1. worker'[v] = [worker[v] EXCEPT !.missed = M]
          BY <2>2, <3>1
        <4>2. M \subseteq Kinds \cup {"link"}
          BY <1>0, <2>3, TaskFields
        <4> HIDE DEF M
        <4>3. worker'[v] \in Task
          BY <1>0, <4>1, <4>2, TaskMissed
        <4>4. /\ worker'[v].pc = worker[v].pc /\ worker'[v].todo = worker[v].todo
              /\ worker'[v].link = worker[v].link /\ worker'[v].job = worker[v].job
              /\ worker'[v].root = worker[v].root
          BY <1>0, <4>1 DEF Task
        <4> QED  BY <1>0, <4>3, <4>4 DEF TaskOK
      <3>2. CASE v = w /\ Len(t) # 1
        <4>1. worker'[v] = [worker[v] EXCEPT !.todo = Tail(t)]
          BY <2>2, <3>2
        <4>2. Tail(t) \in Rests[worker[w].job]
          BY <2>1, <3>2, SweepParts
        <4>3. Tail(t) \in Seq(Kinds \cup {"link"})
          BY <2>1, <4>2, SweepParts
        <4>4. worker'[v] \in Task
          BY <1>0, <4>1, <4>3, TaskTodo
        <4>5. /\ worker'[v].pc = "sweep" /\ worker'[v].todo = Tail(t)
              /\ worker'[v].job = worker[w].job /\ worker'[v].root = worker[w].root
          BY <1>0, <2>2, <3>2, <4>1 DEF Task
        <4> QED  BY <2>1, <4>2, <4>4, <4>5 DEF TaskOK
      <3>3. CASE v = w /\ Len(t) = 1 /\ worker[w].job = "reset"
        BY <2>2, <3>3, IdleTask DEF Idle, TaskOK
      <3>4. CASE v = w /\ Len(t) = 1 /\ worker[w].job # "reset"
        <4>1. worker'[v] = [worker[v] EXCEPT !.pc = "status", !.todo = <<>>]
          BY <2>2, <3>4
        <4>2. worker'[v] \in Task
          BY <1>0, <4>1, TaskNext
        <4>3. worker'[v].pc = "status" /\ worker'[v].todo = <<>> /\ worker'[v].job = worker[w].job
          BY <1>0, <3>4, <4>1 DEF Task
        <4>4. worker[w].job \in DOMAIN SweepOf
          BY <2>1, <3>4, Domains DEF Jobs
        <4> QED  BY <4>2, <4>3, <4>4 DEF TaskOK
      <3> QED  BY <3>1, <3>2, <3>3, <3>4
    <2>5. worker' \in [Workers -> Task]
      BY <2>2, <2>4
    <2> QED  BY <2>2, <2>4, <2>5 DEF TasksOK
  <1>17. ASSUME NEW w \in Workers, SetStatus(w) PROVE TasksOK'
    <2> DEFINE r == [worker[w] EXCEPT !.pc = "deletion"]
    <2>1. r \in Task
      BY <1>0, TaskNext
    <2>2. TaskOK(r, epoch)
      BY <1>0, <1>17 DEF SetStatus, TaskOK, Task
    <2>3. \/ worker' = [worker EXCEPT ![w] = r]
          \/ worker' = [worker EXCEPT ![w] = Idle]
      BY <1>17 DEF SetStatus, Goto, Finish
    <2>4. epoch' = epoch
      BY <1>17 DEF SetStatus
    <2> QED  BY <1>1, <1>2, <2>1, <2>2, <2>3, <2>4
  <1>18. CASE Reinstate \/ (\E l \in Links : Lapse(l)) \/ UNCHANGED vars
    BY <1>3, <1>18 DEF Reinstate, Lapse, vars
  <1> QED
    BY <1>4, <1>5, <1>6, <1>7, <1>8, <1>9, <1>10, <1>11, <1>12, <1>14, <1>15, <1>16, <1>17,
       <1>18 DEF Next, Obtain, Recover, Withdraw

\* Which steps change what.
LEMMA WhoChanges ==
    ASSUME [Next]_vars
    PROVE  /\ UNCHANGED passwords \/ \E w \in Workers : WritePassword(w)
           /\ UNCHANGED status \/ Reinstate \/ \E w \in Workers : SetStatus(w) \/ SetDeletion(w)
           /\ \/ UNCHANGED creds
              \/ \E w \in Workers : InsertSession(w) \/ InsertDerived(w) \/ Revoke(w)
           /\ \/ UNCHANGED link
              \/ \E w \in Workers : \/ Request(w) \/ InsertLink(w) \/ Mail(w) \/ Burn(w)
                                    \/ WritePassword(w) \/ Revoke(w)
              \/ \E l \in Links : Lapse(l)
           /\ \/ UNCHANGED epoch
              \/ /\ epoch' = epoch + 1 /\ epoch < MaxEpoch /\ UNCHANGED <<creds, clean>>
                 /\ \E w \in Workers : WritePassword(w) \/ \E job \in scene.jobs : Disable(w, job)
           /\ UNCHANGED clean \/ \E w \in Workers : Revoke(w)
           /\ UNCHANGED scene
  BY DEF Next, Obtain, Recover, Withdraw, SignIn, InsertSession, DeriveRead, InsertDerived,
         Request, InsertLink, Mail, Peek, Reject, Burn, FindCredential, WritePassword, Disable,
         Revoke, SetStatus, SetDeletion, Reinstate, Lapse, Crash, vars

\* What a step does to one recovery link.
LinkMoves(l) ==
    \/ link'[l] = link[l]
    \/ link[l].st = "live" /\ link'[l] = Dead(link[l])
    \/ link[l].st = "live" /\ link'[l] = [link[l] EXCEPT !.mailed = TRUE]
    \/ /\ link[l].st = "none"
       /\ \E b \in BOOLEAN :
            link'[l] = [link[l] EXCEPT !.st = "live", !.root = epoch, !.raced = b]
       /\ \E w \in Workers : InsertLink(w)
    \/ /\ \E w \in Workers :
            worker[w].pc = "write" /\ worker[w].link = l /\ WritePassword(w)
       /\ link'[l] = [link[l] EXCEPT !.resets = link[l].resets + 1]

LEMMA LinksNext ==
    ASSUME TaskInv, [Next]_vars
    PROVE  DOMAIN link' = Links /\ link' = [l \in Links |-> link'[l]]
           /\ \A l \in Links : LinkMoves(l)
  <1> DEFINE Goal == DOMAIN link' = Links /\ link' = [l \in Links |-> link'[l]]
                     /\ \A l \in Links : LinkMoves(l)
  <1>0. link \in [Links -> Row] /\ \A w \in Workers : TaskOK(worker[w], epoch)
    BY DEF TaskInv, TypeOK, TasksOK
  <1>1. CASE UNCHANGED link
    BY <1>0, <1>1 DEF LinkMoves
  <1>2. CASE link' = Revoked(link)
    <2>1. link' = [l \in Links |-> IF link[l].st = "live" THEN Dead(link[l]) ELSE link[l]]
      BY <1>2 DEF Revoked
    <2> QED  BY <2>1 DEF LinkMoves
  <1>3. ASSUME NEW w \in Workers, InsertLink(w) PROVE Goal
    <2> PICK l \in Links :
          /\ link[l].st = "none"
          /\ link' = [link EXCEPT ![l].st = "live", ![l].root = epoch,
                                  ![l].raced = "link" \in worker[w].missed]
      BY <1>3 DEF InsertLink
    <2> DEFINE b == "link" \in worker[w].missed
    <2>1. b \in BOOLEAN
      OBVIOUS
    <2>2. /\ link'[l] = [link[l] EXCEPT !.st = "live", !.root = epoch, !.raced = b]
          /\ \A m \in Links : m # l => link'[m] = link[m]
          /\ DOMAIN link' = Links /\ link' = [m \in Links |-> link'[m]]
      BY <1>0
    <2> HIDE DEF b
    <2> QED  BY <1>3, <2>1, <2>2 DEF LinkMoves
  <1>4. ASSUME NEW l \in Links, link[l].st = "live",
               \/ link' = [link EXCEPT ![l] = Dead(link[l])]
               \/ link' = [link EXCEPT ![l].mailed = TRUE]
        PROVE  Goal
    BY <1>0, <1>4 DEF LinkMoves
  <1>5. ASSUME NEW w \in Workers, Mail(w), link' # link PROVE Goal
    <2>1. worker[w].link \in Links
      BY <1>0, <1>5 DEF Mail, TaskOK
    <2> QED  BY <1>4, <1>5, <2>1 DEF Mail
  <1>6. ASSUME NEW w \in Workers, Burn(w), link' # link PROVE Goal
    <2>1. worker[w].link \in Links
      BY <1>0, <1>6 DEF Burn, TaskOK
    <2> QED  BY <1>4, <1>6, <2>1 DEF Burn, Burned, Burnable
  <1>7. ASSUME NEW w \in Workers, WritePassword(w) PROVE Goal
    <2>1. worker[w].pc = "write" /\ worker[w].link \in Links
      BY <1>0, <1>7 DEF WritePassword, TaskOK
    <2> QED  BY <1>0, <1>7, <2>1 DEF WritePassword, LinkMoves
  <1>8. ASSUME NEW l \in Links, Lapse(l) PROVE Goal
    BY <1>4, <1>8 DEF Lapse
  <1>9. ASSUME NEW w \in Workers, Request(w) \/ Revoke(w) PROVE Goal
    BY <1>1, <1>2, <1>9 DEF Request, Revoke
  <1> QED  BY <1>1, <1>3, <1>5, <1>6, <1>7, <1>8, <1>9, WhoChanges

LEMMA TypeStep == TaskInv /\ [Next]_vars => TaskInv'
  <1> SUFFICES ASSUME TaskInv, [Next]_vars PROVE TaskInv'
    OBVIOUS
  <1>1. TasksOK'
    BY TasksNext
  <1>2. epoch \in 0 .. MaxEpoch /\ MaxEpoch \in Nat
    BY Numbers DEF TaskInv, TypeOK
  <1>3. epoch' \in 0 .. MaxEpoch /\ epoch <= epoch'
    BY <1>2, WhoChanges
  <1>4. link' \in [Links -> Row]
    <2>1. ASSUME NEW l \in Links PROVE link'[l] \in Row
      <3>1. link[l] \in Row
        BY DEF TaskInv, TypeOK
      <3>2. LinkMoves(l)
        BY LinksNext
      <3>3. link[l].resets + 1 \in Nat
        BY <3>1 DEF Row
      <3>4. CASE link'[l] = Dead(link[l])
        BY <3>1, <3>4, RowTypes
      <3>5. ASSUME NEW b \in BOOLEAN,
                   link'[l] = [link[l] EXCEPT !.st = "live", !.root = epoch, !.raced = b]
            PROVE  link'[l] \in Row
        BY <1>2, <3>1, <3>5 DEF Row
      <3>6. CASE \/ link'[l] = [link[l] EXCEPT !.mailed = TRUE]
                 \/ link'[l] = [link[l] EXCEPT !.resets = link[l].resets + 1]
        BY <3>1, <3>3, <3>6 DEF Row
      <3> QED  BY <3>1, <3>2, <3>4, <3>5, <3>6 DEF LinkMoves
    <2> QED  BY <2>1, LinksNext
  <1>5. creds' \subseteq Cred
    <2>1. ASSUME NEW row \in Cred, Insert(row) PROVE creds' \subseteq Cred
      BY <2>1 DEF Insert, TaskInv, TypeOK
    <2>2. ASSUME NEW w \in Workers, InsertSession(w) \/ InsertDerived(w) PROVE creds' \subseteq Cred
      <3>1. Made(w, "session") \in Cred /\ Made(w, "refresh") \in Cred /\ Made(w, "device") \in Cred
        BY MadeType DEF Kinds
      <3> QED  BY <2>1, <2>2, <3>1 DEF InsertSession, InsertDerived
    <2>3. ASSUME NEW w \in Workers, Revoke(w) PROVE creds' \subseteq Cred
      BY <2>3 DEF Revoke, TaskInv, TypeOK
    <2> QED  BY <2>2, <2>3, WhoChanges DEF TaskInv, TypeOK
  <1>6. clean' \in [Kinds \cup {"link"} -> 0 .. epoch']
    <2>1. clean \in [Kinds \cup {"link"} -> 0 .. epoch]
      BY DEF TaskInv, TypeOK
    <2>2. CASE UNCHANGED clean
      BY <1>2, <1>3, <2>1, <2>2
    <2>3. ASSUME NEW w \in Workers, Revoke(w) PROVE clean' \in [Kinds \cup {"link"} -> 0 .. epoch']
      <3>1. worker[w].root \in 0 .. epoch /\ epoch' = epoch
        <4>1. worker[w].root <= epoch /\ epoch' = epoch
          BY <2>3 DEF Revoke, TaskInv, TasksOK, TaskOK
        <4>2. worker[w].root \in Nat
          BY TaskFields DEF TaskInv, TypeOK
        <4> QED  BY <1>2, <4>1, <4>2
      <3>2. \A k \in Kinds \cup {"link"} : Latest(clean[k], worker[w].root) \in 0 .. epoch'
        BY <2>1, <3>1 DEF Latest
      <3>3. \/ clean' = clean
            \/ clean' = [k \in Kinds \cup {"link"} |->
                           IF k \in SweptKinds(worker[w].job)
                             THEN Latest(clean[k], worker[w].root) ELSE clean[k]]
        BY <2>1, <2>3 DEF Revoke
      <3> QED  BY <2>1, <3>1, <3>2, <3>3
    <2> QED  BY <2>2, <2>3, WhoChanges
  <1>7. passwords' \in Nat /\ scene' \in Scenes
    <2>1. passwords \in Nat /\ scene \in Scenes
      BY DEF TaskInv, TypeOK
    <2>2. ASSUME NEW w \in Workers, WritePassword(w) PROVE passwords' \in Nat
      BY <2>1, <2>2 DEF WritePassword
    <2> QED  BY <2>1, <2>2, WhoChanges
  <1>8. status' \in {"active", "suspended", "offboarded", "pending_deletion"}
    <2>1. ASSUME NEW w \in Workers, SetStatus(w) PROVE status' \in {"suspended", "offboarded"}
      BY <2>1, Domains DEF SetStatus, TaskInv, TasksOK, TaskOK
    <2> QED  BY <2>1, WhoChanges DEF TaskInv, TypeOK, Reinstate, SetDeletion
  <1>9. \A w \in Workers :
          /\ worker'[w].pc \in {"mail", "burn", "find", "write"} => worker'[w].link \in Links
          /\ (worker'[w].pc = "sweep") = (worker'[w].todo # <<>>)
    <2> TAKE w \in Workers
    <2>1. TaskOK(worker'[w], epoch')
      BY <1>1 DEF TasksOK
    <2> QED  BY <2>1, SweepParts DEF TaskOK
  <1> QED
    BY <1>1, <1>3, <1>4, <1>5, <1>6, <1>7, <1>8, <1>9 DEF TaskInv, TypeOK, TasksOK

-----------------------------------------------------------------------------
(* OneReset *)

\* Who is about to set a password had a link a moment ago, or just burned it.
LEMMA RedeemNext ==
    ASSUME TaskInv, [Next]_vars, NEW v \in Workers, worker'[v].pc \in Redeeming
    PROVE  \/ worker[v].pc \in Redeeming /\ worker'[v].link = worker[v].link
           \/ /\ link[worker[v].link].st = "live" /\ worker'[v].link = worker[v].link
              /\ worker[v].pc = "burn" /\ link' = Burned(link, worker[v].link)
              /\ \A u \in Workers : u # v => worker'[u] = worker[u]
  <1> DEFINE Goal == \/ worker[v].pc \in Redeeming /\ worker'[v].link = worker[v].link
                     \/ /\ link[worker[v].link].st = "live" /\ worker'[v].link = worker[v].link
                        /\ worker[v].pc = "burn" /\ link' = Burned(link, worker[v].link)
                        /\ \A u \in Workers : u # v => worker'[u] = worker[u]
  <1>0. worker \in [Workers -> Task] /\ \A w \in Workers : worker[w] \in Task
    BY DEF TaskInv, TypeOK
  <1>1. CASE worker'[v] = worker[v]
    BY <1>1
  <1>2. ASSUME NEW w \in Workers, NEW pc, pc \notin Redeeming, worker'[w].pc = pc,
               \A u \in Workers : u # w => worker'[u] = worker[u]
        PROVE  Goal
    BY <1>1, <1>2
  <1>3. ASSUME NEW w \in Workers, SignIn(w) PROVE Goal
    <2>1. worker'[w].pc = "session"
      BY <1>0, <1>3 DEF SignIn, Idle
    <2> QED  BY <1>0, <1>2, <1>3, <2>1 DEF SignIn, Redeeming
  <1>4. ASSUME NEW w \in Workers,
               InsertSession(w) \/ InsertDerived(w) \/ Mail(w) \/ Reject(w) \/ Crash(w)
        PROVE  Goal
    <2> DEFINE M == worker[w].missed \cap Ahead["refresh"]
    <2>1. \/ worker' = [worker EXCEPT ![w] = Idle]
          \/ worker' = [worker EXCEPT ![w] = [worker[w] EXCEPT !.pc = "refresh", !.missed = M]]
      BY <1>4 DEF InsertSession, InsertDerived, Mail, Reject, Crash, Finish, Continue
    <2>2. worker'[w].pc \in {"idle", "refresh"}
      <3>1. worker' = [worker EXCEPT ![w] = Idle] => worker'[w].pc = "idle"
        BY <1>0 DEF Idle
      <3> HIDE DEF M
      <3>2. worker' = [worker EXCEPT ![w] = [worker[w] EXCEPT !.pc = "refresh", !.missed = M]]
              => worker'[w].pc = "refresh"
        BY <1>0 DEF Task
      <3> QED  BY <2>1, <3>1, <3>2
    <2> QED  BY <1>0, <1>2, <2>1, <2>2 DEF Redeeming
  <1>5. ASSUME NEW w \in Workers, NEW kind \in DOMAIN Sources, DeriveRead(w, kind) PROVE Goal
    <2>1. kind \in {"refresh", "device"}
      BY Domains
    <2>2. worker'[w].pc = kind
      <3> PICK c \in creds : worker' = [worker EXCEPT ![w] =
                               [Idle EXCEPT !.pc = kind, !.root = c.root]]
        BY <1>5 DEF DeriveRead
      <3>1. worker'[w] = [Idle EXCEPT !.pc = kind, !.root = c.root]
        BY <1>0
      <3> QED  BY <3>1 DEF Idle
    <2> QED  BY <1>0, <1>2, <1>5, <2>1, <2>2 DEF DeriveRead, Redeeming
  <1>6. ASSUME NEW w \in Workers, Request(w) \/ \E l \in Links : Peek(w, l) PROVE Goal
    <2>1. \/ worker' = [worker EXCEPT ![w] = [Idle EXCEPT !.pc = "link"]]
          \/ \E l \in Links :
               worker' = [worker EXCEPT ![w] = [Idle EXCEPT !.pc = "burn", !.link = l]]
      BY <1>6 DEF Request, Peek
    <2>2. worker'[w].pc \in {"link", "burn"}
      BY <1>0, <2>1 DEF Idle
    <2> QED  BY <1>0, <1>2, <2>1, <2>2 DEF Redeeming
  <1>7. ASSUME NEW w \in Workers, InsertLink(w) PROVE Goal
    <2>1. \/ v = w /\ worker'[v].pc = "mail"
          \/ worker[v].pc = "link" /\ worker'[v].pc = "link"
          \/ worker'[v] = worker[v]
      <3> PICK l \in Links : worker' = [u \in Workers |->
                  IF u = w THEN [worker[u] EXCEPT !.pc = "mail", !.link = l]
                  ELSE IF worker[u].pc = "link"
                    THEN [worker[u] EXCEPT !.missed = @ \cup {"link"}]
                  ELSE worker[u]]
        BY <1>7 DEF InsertLink
      <3>1. CASE v = w
        <4>1. worker'[v] = [worker[v] EXCEPT !.pc = "mail", !.link = l]
          BY <3>1
        <4> QED  BY <1>0, <3>1, <4>1 DEF Task
      <3>2. CASE v # w /\ worker[v].pc = "link"
        <4>1. worker'[v] = [worker[v] EXCEPT !.missed = @ \cup {"link"}]
          BY <3>2
        <4> QED  BY <1>0, <3>2, <4>1 DEF Task
      <3>3. CASE v # w /\ worker[v].pc # "link"
        BY <3>3
      <3> QED  BY <3>1, <3>2, <3>3
    <2> QED  BY <1>1, <2>1 DEF Redeeming
  <1>8. ASSUME NEW w \in Workers, Burn(w) PROVE Goal
    <2>1. CASE Burnable(worker[w].link) /\ w = v
      BY <1>0, <1>8, <2>1 DEF Burn, Goto, Burnable, Task
    <2>2. CASE w # v
      BY <1>0, <1>1, <1>8, <2>2 DEF Burn, Goto, Finish
    <2>3. CASE ~Burnable(worker[w].link) /\ w = v
      BY <1>0, <1>8, <2>3 DEF Burn, Finish, Idle, Redeeming
    <2> QED  BY <2>1, <2>2, <2>3
  <1>9. ASSUME NEW w \in Workers, FindCredential(w) PROVE Goal
    <2>1. CASE w = v
      BY <1>0, <1>9, <2>1 DEF FindCredential, Redeeming, Task
    <2> QED  BY <1>0, <1>1, <1>9, <2>1 DEF FindCredential
  <1>10. ASSUME NEW w \in Workers, WritePassword(w) PROVE Goal
    <2>1. worker'[w].pc = "sweep"
      BY <1>0, <1>10 DEF WritePassword, Idle
    <2> QED  BY <1>0, <1>2, <1>10, <2>1 DEF WritePassword, Redeeming
  <1>11. ASSUME NEW w \in Workers, NEW job \in scene.jobs, Disable(w, job) PROVE Goal
    <2>1. worker'[w].pc = "sweep"
      BY <1>0, <1>11 DEF Disable, Idle
    <2> QED  BY <1>0, <1>2, <1>11, <2>1 DEF Disable, Redeeming
  <1>12. ASSUME NEW w \in Workers, Revoke(w) PROVE Goal
    <2>1. worker[w].pc = "sweep"
      BY <1>12 DEF Revoke
    <2>2. CASE v # w
      <3>1. worker'[v].pc = worker[v].pc /\ worker'[v].link = worker[v].link
        BY <1>0, <1>12, <2>2 DEF Revoke, Task
      <3> QED  BY <3>1
    <2>3. CASE v = w
      <3>1. worker'[v].pc \in {"sweep", "idle", "status"}
        BY <1>0, <1>12, <2>1, <2>3 DEF Revoke, Task, Idle
      <3> QED  BY <3>1 DEF Redeeming
    <2> QED  BY <2>2, <2>3
  <1>13. ASSUME NEW w \in Workers, SetStatus(w) \/ SetDeletion(w) PROVE Goal
    <2>1. \/ worker' = [worker EXCEPT ![w] = Idle]
          \/ worker' = [worker EXCEPT ![w].pc = "deletion"]
      BY <1>13 DEF SetStatus, SetDeletion, Finish, Goto
    <2>2. worker'[w].pc \in {"idle", "deletion"}
      BY <1>0, <2>1 DEF Idle, Task
    <2> QED  BY <1>0, <1>2, <2>1, <2>2 DEF Redeeming
  <1>14. CASE Reinstate \/ (\E l \in Links : Lapse(l)) \/ UNCHANGED vars
    BY <1>1, <1>14 DEF Reinstate, Lapse, vars
  <1> QED
    BY <1>3, <1>4, <1>5, <1>6, <1>7, <1>8, <1>9, <1>10, <1>11, <1>12, <1>13, <1>14
    DEF Next, Obtain, Recover, Withdraw

LEMMA ResetStep == TaskInv /\ ResetInv /\ [Next]_vars => ResetInv'
  <1> SUFFICES ASSUME TaskInv, ResetInv, [Next]_vars PROVE ResetInv'
    OBVIOUS
  <1>0. /\ worker \in [Workers -> Task] /\ link \in [Links -> Row]
        /\ \A w \in Workers : worker[w].pc \in Redeeming \cup {"burn"} => worker[w].link \in Links
        /\ \A l \in Links : link[l] \in Row /\ link[l].resets \in Nat
                            /\ Dead(link[l]).st = "dead" /\ Dead(link[l]).resets = link[l].resets
    BY RowTypes DEF TaskInv, TypeOK, Redeeming
  <1>1. ASSUME NEW w \in Workers, worker[w].pc = "write", WritePassword(w)
        PROVE  /\ link'[worker[w].link].st = "dead" /\ link'[worker[w].link].resets = 1
               /\ \A l \in Links : l # worker[w].link => link'[l] = link[l]
               /\ \A v \in Workers : v # w => worker'[v] = worker[v]
               /\ worker'[w].pc \notin Redeeming
    <2>1. /\ worker[w].link \in Links /\ link[worker[w].link].st = "dead"
          /\ link[worker[w].link].resets = 0
      BY <1>0, <1>1 DEF ResetInv, Redeeming
    <2>2. worker'[w].pc = "sweep"
      <3>1. worker' = [worker EXCEPT ![w] = Sweeping("reset", epoch + 1)]
        BY <1>1 DEF WritePassword, Sweeping
      <3>2. epoch + 1 \in 0 .. Raced /\ "reset" \in Jobs
        BY <1>1, Numbers DEF WritePassword, TaskInv, TypeOK, Jobs
      <3> QED  BY <1>0, <3>1, <3>2, SweepTask
    <2>3. /\ link'[worker[w].link] = [link[worker[w].link] EXCEPT !.resets = @ + 1]
          /\ \A l \in Links : l # worker[w].link => link'[l] = link[l]
          /\ \A v \in Workers : v # w => worker'[v] = worker[v]
      BY <1>0, <1>1, <2>1 DEF WritePassword
    <2> QED  BY <1>0, <2>1, <2>2, <2>3 DEF Redeeming, Row
  <1>2. ASSUME NEW l \in Links, ~ \E w \in Workers : WritePassword(w)
        PROVE  /\ link'[l].resets = link[l].resets
               /\ link[l].st = "dead" => link'[l] = link[l]
               /\ link'[l].st # "dead" => link[l].st # "dead"
    BY <1>0, <1>2, LinksNext DEF LinkMoves, Row
  <1>3. CASE \E w \in Workers : WritePassword(w)
    <2> PICK w \in Workers : WritePassword(w)
      BY <1>3
    <2>1. worker[w].pc = "write"
      BY DEF WritePassword
    <2>2. \A l \in Links : link'[l].resets <= 1 /\ (link'[l].st # "dead" => link'[l].resets = 0)
      BY <1>1, <2>1 DEF ResetInv
    <2>3. \A v \in Workers : worker'[v].pc \in Redeeming =>
            v # w /\ worker'[v] = worker[v] /\ worker[v].link # worker[w].link
      BY <1>1, <2>1 DEF ResetInv, Redeeming
    <2>4. \A v \in Workers : worker'[v].pc \in Redeeming =>
            link'[worker'[v].link] = link[worker[v].link]
      BY <1>0, <1>1, <2>1, <2>3
    <2> QED  BY <2>2, <2>3, <2>4 DEF ResetInv
  <1>4. CASE ~ \E w \in Workers : WritePassword(w)
    <2>1. \A l \in Links : link'[l].resets <= 1 /\ (link'[l].st # "dead" => link'[l].resets = 0)
      BY <1>2, <1>4 DEF ResetInv
    <2>2. ASSUME NEW v \in Workers, worker'[v].pc \in Redeeming
          PROVE  /\ link'[worker'[v].link].st = "dead" /\ link'[worker'[v].link].resets = 0
                 /\ \A u \in Workers : worker'[u].pc \in Redeeming
                                       /\ worker'[u].link = worker'[v].link => u = v
      <3>1. CASE /\ link[worker[v].link].st = "live" /\ worker'[v].link = worker[v].link
                 /\ worker[v].pc = "burn" /\ link' = Burned(link, worker[v].link)
                 /\ \A u \in Workers : u # v => worker'[u] = worker[u]
        <4>1. link'[worker'[v].link] = Dead(link[worker[v].link])
          BY <1>0, <3>1 DEF Burned
        <4>2. link'[worker'[v].link].st = "dead" /\ link'[worker'[v].link].resets = 0
          BY <1>0, <3>1, <4>1 DEF ResetInv
        <4>3. \A u \in Workers : u # v /\ worker[u].pc \in Redeeming =>
                worker[u].link # worker[v].link
          BY <3>1 DEF ResetInv
        <4> QED  BY <3>1, <4>2, <4>3
      <3>2. CASE worker[v].pc \in Redeeming /\ worker'[v].link = worker[v].link
        <4>1. link[worker[v].link].st = "dead" /\ link[worker[v].link].resets = 0
          BY <3>2 DEF ResetInv
        <4>2. link'[worker'[v].link] = link[worker[v].link]
          BY <1>0, <1>2, <1>4, <3>2, <4>1
        <4>3. ASSUME NEW u \in Workers, worker'[u].pc \in Redeeming,
                     worker'[u].link = worker'[v].link
              PROVE  u = v
          <5>1. worker[u].pc \in Redeeming /\ worker'[u].link = worker[u].link
            BY <3>2, <4>1, <4>3, RedeemNext
          <5> QED  BY <3>2, <4>3, <5>1 DEF ResetInv
        <4> QED  BY <4>1, <4>2, <4>3
      <3> QED  BY <2>2, <3>1, <3>2, RedeemNext
    <2> QED  BY <2>1, <2>2 DEF ResetInv
  <1> QED  BY <1>3, <1>4

LEMMA ResetInit == Init => ResetInv
  BY DEF Init, ResetInv, NoRow, Idle, Redeeming

-----------------------------------------------------------------------------
(* How a request asks for a link, obtains a credential or sweeps.           *)

Fate(v) ==
    LET r == worker[v]  s == worker'[v] IN
    \/ s = r
    \/ s.pc \notin {"link", "sweep"} \cup Kinds
    \/ Request(v)
    \/ s.pc = "session" /\ s.root = epoch
    \/ s.pc = "refresh" /\ r.pc = "session" /\ s.root = r.root
         /\ s.missed = r.missed \cap {"refresh"}
    \/ s.pc \in {"refresh", "device"} /\ \E c \in creds : c.kind = Sources[s.pc] /\ s.root = c.root
    \/ /\ s.pc = r.pc /\ s.root = r.root /\ s.job = r.job /\ s.todo = r.todo
       /\ r.missed \subseteq s.missed
    \/ s.pc = "sweep" /\ SweptBy(s) = {}
    \/ Revoke(v) /\ s.pc \notin {"link"} \cup Kinds

LEMMA FateNext ==
    ASSUME TaskInv, [Next]_vars, NEW v \in Workers
    PROVE  Fate(v)
  <1>0. /\ worker \in [Workers -> Task] /\ epoch \in 0 .. MaxEpoch
        /\ \A w \in Workers : worker[w] \in Task
    BY DEF TaskInv, TypeOK
  <1>1. CASE worker'[v] = worker[v]
    BY <1>1 DEF Fate
  <1>2. CASE worker'[v].pc \notin {"link", "sweep"} \cup Kinds
    BY <1>2 DEF Fate
  <1>3. ASSUME NEW w \in Workers, worker' = [worker EXCEPT ![w] = Idle] PROVE Fate(v)
    <2>1. v = w => worker'[v].pc = "idle"
      BY <1>0, <1>3 DEF Idle
    <2>2. v # w => worker'[v] = worker[v]
      BY <1>0, <1>3
    <2> QED  BY <1>1, <1>2, <2>1, <2>2 DEF Kinds
  <1>4. ASSUME NEW w \in Workers, SignIn(w) PROVE Fate(v)
    <2>1. worker'[w] = [Idle EXCEPT !.pc = "session", !.root = epoch]
      BY <1>0, <1>4 DEF SignIn
    <2>2. worker'[w].pc = "session" /\ worker'[w].root = epoch
      BY <2>1 DEF Idle
    <2>3. v # w => worker'[v] = worker[v]
      BY <1>0, <1>4 DEF SignIn
    <2> QED  BY <1>1, <2>2, <2>3 DEF Fate
  <1>5. ASSUME NEW w \in Workers, InsertSession(w) PROVE Fate(v)
    <2> DEFINE M == worker[w].missed \cap Ahead["refresh"]
    <2>1. \/ worker' = [worker EXCEPT ![w] = Idle]
          \/ worker' = [worker EXCEPT ![w] = [worker[w] EXCEPT !.pc = "refresh", !.missed = M]]
      BY <1>5 DEF InsertSession, Finish, Continue
    <2>2. M = worker[w].missed \cap {"refresh"} /\ worker[w].pc = "session"
      BY <1>5, Domains DEF InsertSession
    <2> HIDE DEF M
    <2>3. CASE worker' = [worker EXCEPT ![w] = [worker[w] EXCEPT !.pc = "refresh", !.missed = M]]
      <3>1. worker'[w].pc = "refresh" /\ worker'[w].missed = M /\ worker'[w].root = worker[w].root
        BY <1>0, <2>3 DEF Task
      <3>2. v # w => worker'[v] = worker[v]
        BY <1>0, <2>3
      <3> QED  BY <2>2, <3>1, <3>2 DEF Fate
    <2> QED  BY <1>3, <2>1, <2>3
  <1>6. ASSUME NEW w \in Workers, NEW kind \in DOMAIN Sources, DeriveRead(w, kind)
        PROVE  Fate(v)
    <2> PICK c \in creds : /\ c.kind = Sources[kind]
                           /\ worker' = [worker EXCEPT ![w] =
                                [Idle EXCEPT !.pc = kind, !.root = c.root]]
      BY <1>6 DEF DeriveRead
    <2>1. kind \in {"refresh", "device"}
      BY Domains
    <2>2. worker'[w] = [Idle EXCEPT !.pc = kind, !.root = c.root]
      BY <1>0
    <2> DEFINE e == c.root
    <2> HIDE DEF e
    <2>3. worker'[w].pc = kind /\ worker'[w].root = e
      <3>1. worker'[w] = [Idle EXCEPT !.pc = kind, !.root = e]
        BY <2>2 DEF e
      <3>2. \A r \in Task : LET q == [r EXCEPT !.pc = kind, !.root = e] IN q.pc = kind /\ q.root = e
        BY DEF Task
      <3> QED  BY <3>1, <3>2, IdleTask
    <2>4. v # w => worker'[v] = worker[v]
      BY <1>0
    <2> QED  BY <2>1, <2>3, <2>4 DEF Fate, e
  <1>7. ASSUME NEW w \in Workers,
               InsertDerived(w) \/ Mail(w) \/ Reject(w) \/ SetDeletion(w) \/ Crash(w)
        PROVE  Fate(v)
    BY <1>3, <1>7 DEF InsertDerived, Mail, Reject, SetDeletion, Crash, Finish
  <1>8. ASSUME NEW w \in Workers, Request(w) PROVE Fate(v)
    <2>1. v # w => worker'[v] = worker[v]
      BY <1>0, <1>8 DEF Request
    <2> QED  BY <1>8, <2>1 DEF Fate
  <1>9. ASSUME NEW w \in Workers, NEW pc \in {"burn", "find", "write", "status", "deletion"},
               worker'[w].pc = pc, \A u \in Workers : u # w => worker'[u] = worker[u]
        PROVE  Fate(v)
    BY <1>1, <1>2, <1>9 DEF Kinds
  <1>10. ASSUME NEW w \in Workers, NEW l \in Links, Peek(w, l) PROVE Fate(v)
    <2>1. worker' = [worker EXCEPT ![w] = [Idle EXCEPT !.pc = "burn", !.link = l]]
      BY <1>10 DEF Peek
    <2>2. worker'[w].pc = "burn"
      BY <1>0, <2>1 DEF Idle
    <2> QED  BY <1>0, <1>9, <2>1, <2>2
  <1>11. ASSUME NEW w \in Workers, Burn(w) PROVE Fate(v)
    <2>1. CASE worker' = [worker EXCEPT ![w].pc = "find"]
      <3>1. worker'[w].pc = "find"
        BY <1>0, <2>1 DEF Task
      <3> QED  BY <1>0, <1>9, <2>1, <3>1
    <2> QED  BY <1>3, <1>11, <2>1 DEF Burn, Goto, Finish
  <1>12. ASSUME NEW w \in Workers, FindCredential(w) PROVE Fate(v)
    <2>1. worker' = [worker EXCEPT ![w] = [worker[w] EXCEPT !.pc = "write", !.known = passwords]]
      BY <1>12 DEF FindCredential
    <2>2. worker'[w].pc = "write"
      BY <1>0, <2>1 DEF Task
    <2> QED  BY <1>0, <1>9, <2>1, <2>2
  <1>13. ASSUME NEW w \in Workers, NEW job \in Jobs, epoch < MaxEpoch,
                worker' = [worker EXCEPT ![w] = Sweeping(job, epoch + 1)]
         PROVE  Fate(v)
    <2>1. epoch + 1 \in 0 .. Raced
      BY <1>0, <1>13, Numbers
    <2>2. worker'[w].pc = "sweep" /\ SweptBy(worker'[w]) = {}
      BY <1>0, <1>13, <2>1, SweepTask
    <2>3. v # w => worker'[v] = worker[v]
      BY <1>0, <1>13
    <2> QED  BY <1>1, <2>2, <2>3 DEF Fate
  <1>14. ASSUME NEW w \in Workers, WritePassword(w) PROVE Fate(v)
    BY <1>13, <1>14 DEF WritePassword, Sweeping, Jobs
  <1>15. ASSUME NEW w \in Workers, NEW job \in scene.jobs, Disable(w, job) PROVE Fate(v)
    <2>1. job \in Jobs /\ job # "reset"
      BY Bounds DEF TaskInv, TypeOK, Jobs
    <2> QED  BY <1>13, <1>15, <2>1 DEF Disable, Sweeping
  <1>16. ASSUME NEW w \in Workers, Revoke(w) PROVE Fate(v)
    <2>1. CASE v # w
      <3> DEFINE M == IF worker[v].pc \in DOMAIN Ahead
                      THEN worker[v].missed \cup ({Head(worker[w].todo)} \cap Ahead[worker[v].pc])
                      ELSE worker[v].missed
      <3>1. worker'[v] = [worker[v] EXCEPT !.missed = M]
        BY <1>16, <2>1 DEF Revoke
      <3>2. worker[v].missed \subseteq M
        OBVIOUS
      <3> HIDE DEF M
      <3>3. /\ worker'[v].pc = worker[v].pc /\ worker'[v].root = worker[v].root
            /\ worker'[v].job = worker[v].job /\ worker'[v].todo = worker[v].todo
            /\ worker'[v].missed = M
        BY <1>0, <3>1 DEF Task
      <3> QED  BY <3>2, <3>3 DEF Fate
    <2>2. CASE v = w
      <3>1. worker[v].pc = "sweep"
        BY <1>16, <2>2 DEF Revoke
      <3>2. \/ worker'[v] = [worker[v] EXCEPT !.todo = Tail(@)]
            \/ worker'[v] = Idle
            \/ worker'[v] = [worker[v] EXCEPT !.pc = "status", !.todo = <<>>]
        BY <1>16, <2>2 DEF Revoke
      <3>3. worker'[v].pc \in {"sweep", "idle", "status"}
        <4>1. worker'[v] = Idle => worker'[v].pc = "idle"
          BY DEF Idle
        <4>2. CASE worker'[v] = [worker[v] EXCEPT !.todo = Tail(@)]
          BY <1>0, <3>1, <4>2 DEF Task
        <4>3. CASE worker'[v] = [worker[v] EXCEPT !.pc = "status", !.todo = <<>>]
          BY <1>0, <4>3 DEF Task
        <4> QED  BY <3>2, <4>1, <4>2, <4>3
      <3> QED  BY <1>16, <2>2, <3>3 DEF Fate, Kinds
    <2> QED  BY <2>1, <2>2
  <1>17. ASSUME NEW w \in Workers, SetStatus(w) PROVE Fate(v)
    <2>1. CASE worker' = [worker EXCEPT ![w].pc = "deletion"]
      <3>1. worker'[w].pc = "deletion"
        BY <1>0, <2>1 DEF Task
      <3> QED  BY <1>0, <1>9, <2>1, <3>1
    <2> QED  BY <1>3, <1>17, <2>1 DEF SetStatus, Goto, Finish
  <1>18. ASSUME NEW w \in Workers, InsertLink(w) PROVE Fate(v)
    <2> PICK l \in Links : worker' = [u \in Workers |->
                IF u = w THEN [worker[u] EXCEPT !.pc = "mail", !.link = l]
                ELSE IF worker[u].pc = "link"
                  THEN [worker[u] EXCEPT !.missed = @ \cup {"link"}]
                ELSE worker[u]]
      BY <1>18 DEF InsertLink
    <2>1. CASE v = w
      <3>1. worker'[v] = [worker[v] EXCEPT !.pc = "mail", !.link = l]
        BY <2>1
      <3>2. worker'[v].pc = "mail"
        BY <1>0, <3>1 DEF Task
      <3> QED  BY <1>2, <3>2 DEF Kinds
    <2>2. CASE v # w /\ worker[v].pc = "link"
      <3>1. worker'[v] = [worker[v] EXCEPT !.missed = worker[v].missed \cup {"link"}]
        BY <2>2
      <3> QED  BY <1>0, <3>1 DEF Fate, Task
    <2>3. CASE v # w /\ worker[v].pc # "link"
      BY <1>1, <2>3
    <2> QED  BY <2>1, <2>2, <2>3
  <1>19. CASE Reinstate \/ (\E l \in Links : Lapse(l)) \/ UNCHANGED vars
    BY <1>1, <1>19 DEF Reinstate, Lapse, vars
  <1> QED
    BY <1>4, <1>5, <1>6, <1>7, <1>8, <1>10, <1>11, <1>12, <1>14, <1>15, <1>16, <1>17,
       <1>18, <1>19 DEF Next, Obtain, Recover, Withdraw

-----------------------------------------------------------------------------
(* OneLink *)

LEMMA LinkStep == TaskInv /\ LinkInv /\ OneLink /\ [Next]_vars => LinkInv' /\ OneLink'
  <1> SUFFICES ASSUME TaskInv, LinkInv, OneLink, [Next]_vars PROVE LinkInv' /\ OneLink'
    OBVIOUS
  <1>0. worker \in [Workers -> Task] /\ link \in [Links -> Row]
    BY DEF TaskInv, TypeOK
  <1>1. ASSUME NEW w \in Workers, InsertLink(w) PROVE LinkInv' /\ OneLink'
    <2> PICK l \in Links :
          /\ link[l].st = "none"
          /\ link' = [link EXCEPT ![l].st = "live", ![l].root = epoch,
                                  ![l].raced = "link" \in worker[w].missed]
          /\ worker' = [v \in Workers |->
               IF v = w THEN [worker[v] EXCEPT !.pc = "mail", !.link = l]
               ELSE IF worker[v].pc = "link"
                 THEN [worker[v] EXCEPT !.missed = @ \cup {"link"}]
               ELSE worker[v]]
      BY <1>1 DEF InsertLink
    <2>1. ASSUME NEW v \in Workers, worker'[v].pc = "link" PROVE "link" \in worker'[v].missed
      <3>1. v # w
        <4>1. v = w => worker'[v] = [worker[v] EXCEPT !.pc = "mail", !.link = l]
          OBVIOUS
        <4>2. v = w => worker'[v].pc = "mail"
          BY <1>0, <4>1 DEF Task
        <4> QED  BY <2>1, <4>2
      <3>2. CASE worker[v].pc = "link"
        <4> DEFINE M == worker[v].missed \cup {"link"}
        <4>1. worker'[v] = [worker[v] EXCEPT !.missed = M] /\ "link" \in M
          BY <3>1, <3>2
        <4> HIDE DEF M
        <4>2. \A r \in Task : [r EXCEPT !.missed = M].missed = M
          BY DEF Task
        <4>3. worker'[v].missed = M
          BY <1>0, <4>1, <4>2
        <4> QED  BY <4>1, <4>3
      <3>3. CASE worker[v].pc # "link"
        BY <2>1, <3>1, <3>3
      <3> QED  BY <3>2, <3>3
    <2>2. \A m \in Links : m # l => link'[m] = link[m]
      BY <1>0
    <2>3. "link" \in worker[w].missed => link'[l].raced
      <3> SUFFICES ASSUME "link" \in worker[w].missed PROVE link'[l].raced = TRUE
        OBVIOUS
      <3>1. ("link" \in worker[w].missed) = TRUE
        OBVIOUS
      <3>2. link' = [link EXCEPT ![l].st = "live", ![l].root = epoch, ![l].raced = TRUE]
        BY <3>1
      <3>3. link'[l] = [link[l] EXCEPT !.st = "live", !.root = epoch, !.raced = TRUE]
        BY <1>0, <3>2
      <3>4. \A r \in Row : [r EXCEPT !.st = "live", !.root = epoch, !.raced = TRUE].raced = TRUE
        BY DEF Row
      <3> QED  BY <1>0, <3>3, <3>4
    <2>4. \A m \in Links : m # l /\ link[m].st = "live" => "link" \in worker[w].missed
      BY <1>1 DEF InsertLink, LinkInv
    <2>5. OneLink'
      <3>1. \A m, n \in Links : m # l /\ n # l /\ m # n
                                /\ link'[m].st = "live" /\ link'[n].st = "live"
              => link'[m].raced \/ link'[n].raced
        BY <2>2 DEF OneLink
      <3>2. \A m \in Links : m # l /\ link'[m].st = "live" => link'[l].raced
        BY <2>2, <2>3, <2>4
      <3> QED  BY <3>1, <3>2 DEF OneLink
    <2> QED  BY <2>1, <2>5 DEF LinkInv
  <1>2. CASE ~ \E w \in Workers : InsertLink(w)
    <2>1. ASSUME NEW l \in Links, link'[l].st = "live"
          PROVE  link[l].st = "live" /\ link'[l].raced = link[l].raced
      <3>1. LinkMoves(l) /\ link[l] \in Row
        BY <1>0, LinksNext
      <3>2. link'[l] # Dead(link[l])
        BY <2>1, <3>1, RowTypes
      <3>3. CASE link'[l] = [link[l] EXCEPT !.mailed = TRUE] /\ link[l].st = "live"
        BY <3>1, <3>3 DEF Row
      <3>4. CASE link'[l] = [link[l] EXCEPT !.resets = link[l].resets + 1]
        BY <2>1, <3>1, <3>4 DEF Row
      <3> QED  BY <1>2, <2>1, <3>1, <3>2, <3>3, <3>4 DEF LinkMoves
    <2>2. OneLink'
      BY <2>1 DEF OneLink
    <2>3. ASSUME NEW v \in Workers, worker'[v].pc = "link", "link" \notin worker'[v].missed
          PROVE  \A l \in Links : link'[l].st # "live"
      <3>1. CASE worker[v].pc = "link" /\ "link" \notin worker[v].missed
        BY <2>1, <3>1 DEF LinkInv
      <3>2. CASE Request(v)
        <4>1. link' = [l \in Links |-> IF link[l].st = "live" THEN Dead(link[l]) ELSE link[l]]
          BY <3>2 DEF Request, Revoked
        <4> QED  BY <1>0, <4>1, RowTypes
      <3>3. Fate(v)
        BY FateNext
      <3>4. CASE worker'[v].pc = worker[v].pc /\ worker[v].missed \subseteq worker'[v].missed
        BY <2>3, <3>1, <3>4
      <3> QED  BY <2>3, <3>1, <3>2, <3>3, <3>4 DEF Fate, Kinds
    <2> QED  BY <2>2, <2>3 DEF LinkInv
  <1> QED  BY <1>1, <1>2

LEMMA LinkInit == Init => LinkInv /\ OneLink
  BY DEF Init, LinkInv, OneLink, NoRow, Idle

-----------------------------------------------------------------------------
(* SweptClean *)

\* Since survives a step that sweeps nothing, if sessions are swept as well.
LEMMA SinceNext ==
    ASSUME TaskInv, [Next]_vars, ~ \E w \in Workers : Revoke(w),
           NEW k \in Kinds, NEW e \in 0 .. epoch, Since(k, e),
           k = "device" => Since("session", e)
    PROVE  /\ \A c \in creds' : c.kind = k => c.root >= e
           /\ \A v \in Workers :
                worker'[v].pc \in DOMAIN Ahead /\ k \in Ahead[worker'[v].pc] \ worker'[v].missed
                  => worker'[v].root >= e
  <1>0. /\ e \in Nat /\ epoch \in Nat /\ e <= epoch /\ Raced \in Nat /\ epoch <= Raced
        /\ \A w \in Workers : worker[w].root \in Nat
    BY Numbers, TaskFields DEF TaskInv, TypeOK
  <1>1. \A c \in creds' : c.kind = k => c.root >= e
    <2>1. ASSUME NEW w \in Workers, NEW kind \in DOMAIN Ahead, worker[w].pc = kind,
                 Insert(Made(w, kind))
          PROVE  \A c \in creds' : c.kind = k => c.root >= e
      <3>1. Made(w, kind).kind = k => Made(w, kind).root >= e
        <4>1. Made(w, kind).kind = kind /\ kind \in Ahead[kind]
          BY <2>1, Domains DEF Made
        <4>2. CASE kind \in worker[w].missed
          BY <1>0, <4>2 DEF Made
        <4>3. CASE kind \notin worker[w].missed /\ kind = k
          BY <2>1, <4>1, <4>3 DEF Since, Made
        <4> QED  BY <4>1, <4>2, <4>3
      <3> QED  BY <2>1, <3>1 DEF Insert, Since
    <2>2. ASSUME NEW w \in Workers, InsertSession(w) \/ InsertDerived(w)
          PROVE  \A c \in creds' : c.kind = k => c.root >= e
      BY <2>1, <2>2, Domains DEF InsertSession, InsertDerived
    <2> QED  BY <2>2, WhoChanges DEF Since
  <1>2. ASSUME NEW v \in Workers, worker'[v].pc \in DOMAIN Ahead,
               k \in Ahead[worker'[v].pc] \ worker'[v].missed
        PROVE  worker'[v].root >= e
    <2> DEFINE r == worker[v]  s == worker'[v]
    <2>0. s.pc \in {"session", "refresh", "device"} /\ s.pc \in Kinds
      BY <1>2, Domains
    <2>1. CASE s.root = epoch
      BY <1>0, <2>1
    <2>2. CASE s.pc = "refresh" /\ r.pc = "session" /\ s.root = r.root
                 /\ s.missed = r.missed \cap {"refresh"}
      <3>1. k = "refresh" /\ k \in Ahead["session"] \ r.missed
        BY <1>2, <2>2, Domains
      <3> QED  BY <2>2, <3>1, Domains DEF Since
    <2>3. ASSUME NEW c \in creds, s.pc \in {"refresh", "device"}, c.kind = Sources[s.pc],
                 s.root = c.root
          PROVE  s.root >= e
      <3>1. k = s.pc
        BY <1>2, <2>3, Domains
      <3>2. CASE k = "refresh"
        BY <2>3, <3>1, <3>2, Domains DEF Since
      <3>3. CASE k = "device"
        BY <2>3, <3>1, <3>3, Domains DEF Since
      <3> QED  BY <2>3, <3>1, <3>2, <3>3
    <2>4. CASE s.pc = r.pc /\ s.root = r.root /\ r.missed \subseteq s.missed
      BY <1>2, <2>4 DEF Since
    <2>5. CASE s = r
      BY <1>2, <2>5 DEF Since
    <2>6. CASE Request(v)
      <3>1. s.pc = "link"
        BY <2>6 DEF Request, Idle, TaskInv, TypeOK
      <3> QED  BY <2>0, <3>1
    <2>7. s.pc # "sweep"
      BY <2>0
    <2> HIDE DEF r, s
    <2>8. Fate(v)
      BY FateNext
    <2> QED
      BY <2>0, <2>1, <2>2, <2>3, <2>4, <2>5, <2>6, <2>7, <2>8 DEF Fate, r, s
  <1> QED  BY <1>1, <1>2

\* A statement that sweeps kind h: nothing of that kind is left, or will come.
LEMMA SinceSwept ==
    ASSUME TaskInv, NEW w \in Workers, Revoke(w), NEW k \in Kinds, NEW e \in 0 .. epoch,
           k = Head(worker[w].todo) \/ Since(k, e)
    PROVE  /\ \A c \in creds' : c.kind = k => c.root >= e
           /\ \A v \in Workers :
                worker'[v].pc \in DOMAIN Ahead /\ k \in Ahead[worker'[v].pc] \ worker'[v].missed
                  => worker'[v].root >= e
  <1> DEFINE h == Head(worker[w].todo)
  <1>0. worker \in [Workers -> Task] /\ worker[w].pc = "sweep"
    BY DEF TaskInv, TypeOK, Revoke
  <1>1. creds' = {c \in creds : c.kind # h}
    BY DEF Revoke
  <1>2. \A c \in creds' : c.kind = k => c.root >= e
    BY <1>1 DEF Since
  <1>3. ASSUME NEW v \in Workers, worker'[v].pc \in DOMAIN Ahead,
               k \in Ahead[worker'[v].pc] \ worker'[v].missed
        PROVE  worker'[v].root >= e
    <2>1. v # w
      <3>1. v = w => \/ worker'[v] = [worker[v] EXCEPT !.todo = Tail(@)]
                     \/ worker'[v] = Idle
                     \/ worker'[v] = [worker[v] EXCEPT !.pc = "status", !.todo = <<>>]
        BY DEF Revoke
      <3>2. worker'[v] = Idle => worker'[v].pc = "idle"
        BY DEF Idle
      <3>3. v = w /\ worker'[v] = [worker[v] EXCEPT !.todo = Tail(@)] => worker'[v].pc = "sweep"
        BY <1>0 DEF Task
      <3>4. worker'[v] = [worker[v] EXCEPT !.pc = "status", !.todo = <<>>]
              => worker'[v].pc = "status"
        BY <1>0 DEF Task
      <3> QED  BY <1>3, <3>1, <3>2, <3>3, <3>4, Domains
    <2> DEFINE M == IF worker[v].pc \in DOMAIN Ahead
                    THEN worker[v].missed \cup ({h} \cap Ahead[worker[v].pc])
                    ELSE worker[v].missed
    <2>2. worker'[v] = [worker[v] EXCEPT !.missed = M]
      BY <2>1 DEF Revoke
    <2> HIDE DEF M
    <2>3. /\ worker'[v].pc = worker[v].pc /\ worker'[v].root = worker[v].root
          /\ worker'[v].missed = M
      BY <1>0, <2>2 DEF Task
    <2>4. worker[v].missed \subseteq M /\ k # h
      BY <1>3, <2>3 DEF M
    <2> QED  BY <1>3, <2>3, <2>4 DEF Since
  <1> QED  BY <1>2, <1>3

LEMMA SweepStep == TaskInv /\ SweepInv /\ [Next]_vars => SweepInv'
  <1> SUFFICES ASSUME TaskInv, SweepInv, [Next]_vars PROVE SweepInv'
    OBVIOUS
  <1>0. /\ epoch \in 0 .. MaxEpoch /\ MaxEpoch \in Nat
        /\ clean \in [Kinds \cup {"link"} -> 0 .. epoch]
        /\ worker \in [Workers -> Task] /\ link \in [Links -> Row]
        /\ \A w \in Workers : TaskOK(worker[w], epoch) /\ worker[w].root \in Nat
    BY Numbers, TaskFields DEF TaskInv, TypeOK, TasksOK
  <1>1. CASE ~ \E w \in Workers : Revoke(w)
    <2>1. clean' = clean
      BY <1>1, WhoChanges
    <2>2. ASSUME NEW k \in Kinds PROVE Since(k, clean[k])'
      <3>1. /\ Since(k, clean[k]) /\ clean[k] \in 0 .. epoch
            /\ k = "device" => Since("session", clean[k])
        <4>1. Since(k, clean[k]) /\ clean[k] \in 0 .. epoch
          BY <1>0 DEF SweepInv
        <4>2. ASSUME k = "device" PROVE Since("session", clean[k])
          <5>1. /\ Since("session", clean["session"]) /\ clean["device"] <= clean["session"]
                /\ clean["session"] \in Nat /\ clean["device"] \in Nat
            BY <1>0 DEF SweepInv, Kinds
          <5>2. \A c \in creds : c.root \in Nat
            BY Numbers DEF TaskInv, TypeOK, Cred
          <5> QED  BY <1>0, <4>2, <5>1, <5>2 DEF Since
        <4> QED  BY <4>1, <4>2
      <3> QED  BY <1>1, <2>1, <3>1, SinceNext DEF Since
    <2>3. ASSUME NEW w \in Workers, worker'[w].pc = "sweep", NEW k \in Kinds \cap SweptBy(worker'[w])
          PROVE  Since(k, worker[w].root)' /\ worker'[w].root = worker[w].root
      <3>1. /\ worker[w].pc = "sweep" /\ worker'[w].root = worker[w].root
            /\ worker'[w].job = worker[w].job /\ worker'[w].todo = worker[w].todo
        <4>1. ~ Request(w)
          <5>1. Request(w) => worker'[w].pc = "link"
            BY <1>0 DEF Request, Idle
          <5> QED  BY <2>3, <5>1
        <4>2. Fate(w) /\ SweptBy(worker'[w]) # {}
          BY <2>3, FateNext
        <4> QED  BY <1>1, <2>3, <4>1, <4>2 DEF Fate, Kinds
      <3>2. k \in SweptBy(worker[w])
        BY <3>1 DEF SweptBy
      <3>3. Since(k, worker[w].root) /\ worker[w].root \in 0 .. epoch
        BY <1>0, <3>1, <3>2 DEF SweepInv, TaskOK
      <3>4. k = "device" => Since("session", worker[w].root)
        <4>1. worker[w].job \in Jobs /\ worker[w].todo \in Rests[worker[w].job]
          BY <1>0, <3>1 DEF TaskOK
        <4>2. k = "device" => "session" \in SweptBy(worker[w])
          BY <3>2, <4>1, SweepParts, SweepKinds DEF SweptBy, Jobs
        <4> QED  BY <3>1, <4>2 DEF SweepInv, Kinds
      <3> QED  BY <1>1, <3>1, <3>3, <3>4, SinceNext DEF Since
    <2>4. ASSUME NEW l \in Links, link'[l].st = "live" PROVE clean["link"] <= link'[l].root
      <3>1. LinkMoves(l) /\ link[l] \in Row
        BY <1>0, LinksNext
      <3>2. CASE link'[l] = link[l]
        BY <2>4, <3>2 DEF SweepInv
      <3>3. CASE link'[l] = Dead(link[l])
        BY <2>4, <3>1, <3>3, RowTypes
      <3>4. ASSUME NEW b \in BOOLEAN,
                   link'[l] = [link[l] EXCEPT !.st = "live", !.root = epoch, !.raced = b]
            PROVE  clean["link"] <= link'[l].root
        <4>1. link'[l].root = epoch
          BY <3>1, <3>4 DEF Row
        <4> QED  BY <1>0, <4>1
      <3>5. CASE \/ link'[l] = [link[l] EXCEPT !.mailed = TRUE]
                 \/ link'[l] = [link[l] EXCEPT !.resets = link[l].resets + 1]
        <4>1. link[l].st = "live" /\ link'[l].root = link[l].root
          BY <2>4, <3>1, <3>5 DEF Row
        <4> QED  BY <4>1 DEF SweepInv
      <3> QED  BY <3>1, <3>2, <3>3, <3>4, <3>5 DEF LinkMoves
    <2> QED  BY <2>1, <2>2, <2>3, <2>4 DEF SweepInv, Since
  <1>2. ASSUME NEW w \in Workers, Revoke(w) PROVE SweepInv'
    <2> DEFINE t == worker[w].todo  h == Head(t)  job == worker[w].job  R == worker[w].root
    <2>1. /\ job \in Jobs /\ t \in Rests[job] /\ R \in 0 .. epoch /\ R \in Nat
          /\ worker[w].pc = "sweep"
      <3>1. TaskOK(worker[w], epoch) /\ worker[w].pc = "sweep" /\ R \in Nat
        BY <1>0, <1>2 DEF Revoke
      <3>2. job \in Jobs /\ t \in Rests[job] /\ R <= epoch
        BY <3>1 DEF TaskOK
      <3> QED  BY <1>0, <3>1, <3>2
    <2>2. /\ h \in Left(t) /\ Left(t) \subseteq SweptKinds(job)
          /\ Len(t) = 1 => Left(t) = {h}
          /\ Len(t) # 1 => Left(Tail(t)) = Left(t) \ {h}
          /\ Len(t) = 1 /\ "link" \in SweptKinds(job) => h = "link"
      BY <2>1, SweepParts
    <2>3. \A k \in Kinds : Since(k, clean[k]) /\ clean[k] \in 0 .. epoch /\ clean[k] \in Nat
      BY <1>0 DEF SweepInv
    <2>4. \A k \in Kinds : k \in SweptKinds(job) \ Left(t) => Since(k, R)
      BY <2>1 DEF SweepInv, SweptBy
    <2>5. \/ Len(t) # 1 /\ clean' = clean
          \/ /\ Len(t) = 1
             /\ clean' = [k \in Kinds \cup {"link"} |->
                            IF k \in SweptKinds(job) THEN Latest(clean[k], R) ELSE clean[k]]
      BY <1>0, <1>2 DEF Revoke
    <2>6. ASSUME NEW k \in Kinds PROVE Since(k, clean[k])'
      <3>1. CASE clean'[k] = clean[k]
        BY <1>2, <2>3, <3>1, SinceSwept DEF Since
      <3>2. CASE Len(t) = 1 /\ k \in SweptKinds(job) /\ clean'[k] = R
        <4>1. k = h \/ Since(k, R)
          BY <2>2, <2>4, <3>2
        <4> QED  BY <1>2, <2>1, <3>2, <4>1, SinceSwept DEF Since
      <3>3. clean'[k] = clean[k] \/ (Len(t) = 1 /\ k \in SweptKinds(job) /\ clean'[k] = R)
        BY <2>5 DEF Latest
      <3> QED  BY <3>1, <3>2, <3>3
    <2>7. ASSUME NEW v \in Workers, worker'[v].pc = "sweep", NEW k \in Kinds \cap SweptBy(worker'[v])
          PROVE  Since(k, worker[v].root)' /\ worker'[v].root = worker[v].root
      <3>1. CASE v = w
        <4>1. Len(t) # 1
          <5>1. Len(t) = 1 => \/ worker'[v] = Idle
                             \/ worker'[v] = [worker[v] EXCEPT !.pc = "status", !.todo = <<>>]
            BY <1>2, <3>1 DEF Revoke
          <5>2. worker'[v] = Idle => worker'[v].pc = "idle"
            BY DEF Idle
          <5>3. worker'[v] = [worker[v] EXCEPT !.pc = "status", !.todo = <<>>]
                  => worker'[v].pc = "status"
            BY <1>0 DEF Task
          <5> QED  BY <2>7, <5>1, <5>2, <5>3
        <4>2. worker'[v] = [worker[v] EXCEPT !.todo = Tail(t)]
          BY <1>2, <3>1, <4>1 DEF Revoke
        <4>3. worker'[v].todo = Tail(t) /\ worker'[v].job = job /\ worker'[v].root = R
          BY <1>0, <3>1, <4>2 DEF Task
        <4>4. k = h \/ Since(k, R)
          BY <2>2, <2>4, <4>1, <4>3 DEF SweptBy
        <4> QED  BY <1>2, <2>1, <3>1, <4>3, <4>4, SinceSwept DEF Since
      <3>2. CASE v # w
        <4> DEFINE M == IF worker[v].pc \in DOMAIN Ahead
                        THEN worker[v].missed \cup ({h} \cap Ahead[worker[v].pc])
                        ELSE worker[v].missed
        <4>1. worker'[v] = [worker[v] EXCEPT !.missed = M]
          BY <1>2, <3>2 DEF Revoke
        <4> HIDE DEF M
        <4>2. /\ worker'[v].pc = worker[v].pc /\ worker'[v].root = worker[v].root
              /\ worker'[v].job = worker[v].job /\ worker'[v].todo = worker[v].todo
          BY <1>0, <4>1 DEF Task
        <4>3. Since(k, worker[v].root) /\ worker[v].root \in 0 .. epoch
          BY <1>0, <2>7, <4>2 DEF SweepInv, SweptBy, TaskOK
        <4> QED  BY <1>2, <4>2, <4>3, SinceSwept DEF Since
      <3> QED  BY <3>1, <3>2
    <2>8. clean'["device"] <= clean'["session"]
      <3>1. "device" \in SweptKinds(job) => "session" \in SweptKinds(job)
        BY <2>1, SweepKinds DEF Jobs
      <3>2. clean["device"] <= clean["session"] /\ clean["device"] \in Nat /\ clean["session"] \in Nat
        BY <2>3 DEF SweepInv, Kinds
      <3>3. CASE clean' = clean
        BY <3>2, <3>3
      <3>4. CASE clean' = [k \in Kinds \cup {"link"} |->
                            IF k \in SweptKinds(job) THEN Latest(clean[k], R) ELSE clean[k]]
        <4>1. /\ clean'["device"] = IF "device" \in SweptKinds(job)
                                    THEN Latest(clean["device"], R) ELSE clean["device"]
              /\ clean'["session"] = IF "session" \in SweptKinds(job)
                                     THEN Latest(clean["session"], R) ELSE clean["session"]
          BY <3>4 DEF Kinds
        <4> QED  BY <2>1, <3>1, <3>2, <4>1 DEF Latest
      <3> QED  BY <2>5, <3>3, <3>4
    <2>9. ASSUME NEW l \in Links, link'[l].st = "live" PROVE clean'["link"] <= link'[l].root
      <3>1. h # "link" /\ link'[l] = link[l]
        <4>1. h = "link" => link' = [m \in Links |-> IF link[m].st = "live" THEN Dead(link[m])
                                                    ELSE link[m]]
          BY <1>2 DEF Revoke, Revoked
        <4>2. h # "link"
          BY <1>0, <2>9, <4>1, RowTypes
        <4> QED  BY <1>2, <4>2 DEF Revoke
      <3>2. clean'["link"] = clean["link"]
        BY <2>2, <2>5, <3>1
      <3> QED  BY <2>9, <3>1, <3>2 DEF SweepInv
    <2> QED  BY <2>6, <2>7, <2>8, <2>9 DEF SweepInv, Since
  <1> QED  BY <1>1, <1>2

LEMMA SweepInit == Init => SweepInv
  <1> SUFFICES ASSUME Init PROVE SweepInv
    OBVIOUS
  <1>1. \A w \in Workers : worker[w].pc = "idle"
    BY DEF Init, Idle
  <1>2. creds = {} /\ \A k \in Kinds \cup {"link"} : clean[k] = 0
    BY DEF Init
  <1>3. \A l \in Links : link[l].st = "none"
    BY DEF Init, NoRow
  <1>4. clean["device"] = 0 /\ clean["session"] = 0
    BY <1>2 DEF Kinds
  <1> QED  BY <1>1, <1>2, <1>3, <1>4, Domains DEF SweepInv, Since

\* What each request holds fits its place; a sweep under way runs to its end.
THEOREM TasksCorrect == Spec => []TaskInv
  <1> QED  BY TaskInit, TypeStep, PTL DEF Spec

\* Types; a request that works on a link has one.
THEOREM TypeCorrect == Spec => []TypeOK
  <1>1. TaskInv => TypeOK
    BY DEF TaskInv
  <1> QED  BY <1>1, TasksCorrect, PTL

\* "of two concurrent redemptions exactly one gets a row back"
\* (security.ts:206-208): a link sets at most one password.
THEOREM LinkResetsOnce == Spec => []OneReset
  <1>1. ResetInv => OneReset
    BY DEF ResetInv, OneReset
  <1> QED  BY <1>1, ResetInit, ResetStep, TasksCorrect, PTL DEF Spec

\* Asking again kills the earlier mail (security.ts:148-149), unless the two
\* requests overlapped between their two statements.
THEOREM LaterLinkOnly == Spec => []OneLink
  <1> QED  BY LinkInit, LinkStep, TasksCorrect, PTL DEF Spec

\* What a complete sweep removed does not come back (recovery.ts:138,
\* lifecycle.ts:4-6), however sign-ins, rotations and sweeps interleave.
THEOREM SweepsLast == Spec => []SweptClean
  <1>1. TaskInv /\ SweepInv => SweptClean
    <2> SUFFICES ASSUME TaskInv, SweepInv PROVE SweptClean
      OBVIOUS
    <2>1. \A c \in creds : c.kind \in Kinds /\ c.root \in Nat
      BY Numbers DEF TaskInv, TypeOK, Cred
    <2>2. \A l \in Links : link[l].root \in Nat
      BY Numbers DEF TaskInv, TypeOK, Row
    <2>3. \A k \in Kinds \cup {"link"} : clean[k] \in Nat
      BY Numbers DEF TaskInv, TypeOK
    <2> QED  BY <2>1, <2>2, <2>3 DEF SweepInv, Since, SweptClean
  <1> QED  BY <1>1, SweepInit, SweepStep, TasksCorrect, PTL DEF Spec

-----------------------------------------------------------------------------
(* Membership *)

\* The places of a request about memberships.
Places ==
    {AtRest} \cup [pc : {"mark", "join"}, invitation : Invitations, who : People]
             \cup [pc : {"leave"}, who : People, from : Sites]
             \cup [pc : {"add", "role"}, who : People]

Leaving(h) == handler[h].pc = "leave"

\* A person who belongs somewhere is moved by one transfer at most, which has
\* added the new membership before it removes the old one.
HomeInv ==
    /\ members \in [Sites -> SUBSET People] /\ settled \subseteq People
    /\ handler \in [Handlers -> Places]
    /\ NeverNowhere
    /\ \A h \in Handlers : Leaving(h) /\ handler[h].who \in settled =>
         /\ handler[h].who \in members[Other(handler[h].from)]
         /\ \A g \in Handlers : Leaving(g) /\ handler[g].who = handler[h].who => g = h

\* A request goes on from one place to another.
LEMMA HandlerMoves ==
    ASSUME handler \in [Handlers -> Places], NEW h \in Handlers
    PROVE  /\ \A p : Continues(h, "mark", p) => handler' = [handler EXCEPT ![h] =
                      [pc |-> p, invitation |-> handler[h].invitation, who |-> handler[h].who]]
           /\ \A p : Continues(h, "add", p) => handler' = [handler EXCEPT ![h] =
                      [pc |-> p, who |-> handler[h].who]]
           /\ handler[h].pc = "mark" => handler[h].invitation \in Invitations
           /\ handler[h].pc \in {"mark", "join", "leave", "add", "role"} => handler[h].who \in People
           /\ handler[h].pc = "leave" => handler[h].from \in Sites
  <1>1. handler[h] \in Places
    OBVIOUS
  <1>2. \A p : [handler EXCEPT ![h].pc = p] = [handler EXCEPT ![h] = [handler[h] EXCEPT !.pc = p]]
    OBVIOUS
  <1>3. ASSUME handler[h].pc = "mark", NEW p
        PROVE  [handler[h] EXCEPT !.pc = p] =
                 [pc |-> p, invitation |-> handler[h].invitation, who |-> handler[h].who]
    BY <1>1, <1>3 DEF Places, AtRest
  <1>4. ASSUME handler[h].pc = "add", NEW p
        PROVE  [handler[h] EXCEPT !.pc = p] = [pc |-> p, who |-> handler[h].who]
    BY <1>1, <1>4 DEF Places, AtRest
  <1>5. /\ handler[h].pc = "mark" => handler[h].invitation \in Invitations
        /\ handler[h].pc \in {"mark", "join", "leave", "add", "role"} => handler[h].who \in People
        /\ handler[h].pc = "leave" => handler[h].from \in Sites
    BY <1>1 DEF Places, AtRest
  <1> QED  BY <1>2, <1>3, <1>4, <1>5 DEF Continues

LEMMA HomeInit ==
    ASSUME NEW here \in SUBSET People, NEW bound \in Nat, InitMembers(here, bound)
    PROVE  HomeInv
  BY DEF InitMembers, HomeInv, NeverNowhere, Places, AtRest, Leaving, Sites

\* A person enters, no request at "leave" begins or ends.
LEMMA EntryKeeps ==
    ASSUME HomeInv, NEW u \in People, NEW site \in Sites, Enters(u, site),
           handler' \in [Handlers -> Places],
           \A g \in Handlers : /\ Leaving(g)' <=> Leaving(g)
                               /\ Leaving(g) => handler'[g] = handler[g]
    PROVE  HomeInv'
  <1>1. /\ members' \in [Sites -> SUBSET People]
        /\ \A s \in Sites : members[s] \subseteq members'[s]
        /\ u \in members'[site]
    BY DEF Enters, HomeInv
  <1>2. settled' = settled \/ (settled' = settled \cup {u} /\ ~Moving(u))
    BY DEF Enters
  <1>3. NeverNowhere' /\ settled' \subseteq People
    BY <1>1, <1>2 DEF HomeInv, NeverNowhere
  <1>4. ASSUME NEW h \in Handlers, Leaving(h)', handler'[h].who \in settled'
        PROVE  /\ handler'[h].who \in members'[Other(handler'[h].from)]
               /\ \A g \in Handlers : Leaving(g)' /\ handler'[g].who = handler'[h].who => g = h
    <2>1. Leaving(h) /\ handler'[h] = handler[h] /\ handler[h].who \in settled
      BY <1>2, <1>4 DEF Moving, Leaving
    <2>2. Other(handler[h].from) \in Sites
      BY DEF Other, Sites
    <2> QED  BY <1>1, <2>1, <2>2 DEF HomeInv
  <1> QED  BY <1>1, <1>3, <1>4 DEF HomeInv

LEMMA HomeStep == HomeInv /\ [Belonging \/ \E h \in Handlers : Welcomed(h)]_memberVars => HomeInv'
  <1> SUFFICES ASSUME HomeInv, [Belonging \/ \E h \in Handlers : Welcomed(h)]_memberVars
               PROVE  HomeInv'
    OBVIOUS
  <1>0. /\ members \in [Sites -> SUBSET People] /\ settled \subseteq People
        /\ handler \in [Handlers -> Places] /\ AtRest \in Places /\ AtRest.pc = "idle"
    BY DEF HomeInv, Places, AtRest
  \* Steps that move no membership and begin or end no transfer.
  <1>1. ASSUME UNCHANGED <<members, settled>>, handler' \in [Handlers -> Places],
               \A g \in Handlers : Leaving(g)' => handler'[g] = handler[g]
        PROVE  HomeInv'
    BY <1>1 DEF HomeInv, NeverNowhere, Leaving
  <1>2. ASSUME NEW h \in Handlers, NEW r \in Places, handler' = [handler EXCEPT ![h] = r]
        PROVE  /\ handler' \in [Handlers -> Places] /\ handler'[h] = r
               /\ \A g \in Handlers \ {h} : handler'[g] = handler[g]
    BY <1>0, <1>2
  <1>3. ASSUME NEW u \in People, NEW site \in Sites, removeMember(u, site) PROVE HomeInv'
    <2>1. /\ UNCHANGED handler /\ settled' = settled \ {u}
          /\ members' \in [Sites -> SUBSET People]
          /\ \A s \in Sites, v \in People : v # u => (v \in members'[s] <=> v \in members[s])
      BY <1>0, <1>3 DEF removeMember
    <2>2. \A h \in Handlers : Other(handler[h].from) \in Sites
      BY DEF Other, Sites
    <2>3. \A h \in Handlers : Leaving(h)' <=> Leaving(h)
      BY <2>1 DEF Leaving
    <2>4. NeverNowhere'
      BY <1>0, <2>1 DEF HomeInv, NeverNowhere
    <2> QED  BY <1>0, <2>1, <2>2, <2>3, <2>4 DEF HomeInv
  <1>4. ASSUME NEW u \in People, NEW v \in Invitations, inviteMember(v, u) PROVE HomeInv'
    BY <1>0, <1>1, <1>4 DEF inviteMember
  <1>5. ASSUME NEW v \in Invitations, LapseInvitation(v) \/ revokeInvitation(v) PROVE HomeInv'
    BY <1>0, <1>1, <1>5 DEF LapseInvitation, revokeInvitation
  <1>6. ASSUME NEW h \in Handlers, NEW u \in People,
               SignInNew(h, u) \/ \E v \in Invitations : OpenInvitation(h, v, u)
        PROVE  HomeInv'
    <2>1. ASSUME NEW r \in Places, r.pc # "leave", handler' = [handler EXCEPT ![h] = r],
                 UNCHANGED <<members, settled>>
          PROVE  HomeInv'
      BY <1>1, <1>2, <2>1 DEF Leaving
    <2>2. CASE SignInNew(h, u)
      <3>1. [pc |-> "add", who |-> u] \in Places
        BY DEF Places
      <3> QED  BY <2>1, <2>2, <3>1 DEF SignInNew, Starts
    <2>3. ASSUME NEW v \in Invitations, OpenInvitation(h, v, u) PROVE HomeInv'
      <3>1. [pc |-> "mark", invitation |-> v, who |-> u] \in Places
        BY DEF Places
      <3> QED  BY <2>1, <2>3, <3>1 DEF OpenInvitation, Starts
    <2> QED  BY <1>6, <2>2, <2>3
  <1>7. ASSUME NEW h \in Handlers, NEW u \in People, NEW from \in Sites, transferMembership(h, u, from)
        PROVE  HomeInv'
    <2> DEFINE r == [pc |-> "leave", who |-> u, from |-> from]
    <2>1. /\ handler[h] = AtRest /\ handler' = [handler EXCEPT ![h] = r]
          /\ members' = [members EXCEPT ![Other(from)] = @ \cup {u}]
          /\ settled' = IF Moving(u) THEN settled \ {u} ELSE settled \cup {u}
      BY <1>7 DEF transferMembership, Starts
    <2>2. r \in Places /\ Other(from) \in Sites
      BY DEF Places, Other, Sites
    <2>3. /\ handler' \in [Handlers -> Places] /\ handler'[h] = r
          /\ \A g \in Handlers \ {h} : handler'[g] = handler[g]
      BY <1>2, <2>1, <2>2
    <2>4. /\ members' \in [Sites -> SUBSET People]
          /\ \A s \in Sites : members[s] \subseteq members'[s]
          /\ u \in members'[Other(from)]
      BY <1>0, <2>1, <2>2
    <2>5. settled' \subseteq People /\ NeverNowhere'
      BY <1>0, <2>1, <2>2, <2>4 DEF HomeInv, NeverNowhere
    <2>6. ASSUME NEW k \in Handlers, Leaving(k)', handler'[k].who \in settled'
          PROVE  /\ handler'[k].who \in members'[Other(handler'[k].from)]
                 /\ \A g \in Handlers : Leaving(g)' /\ handler'[g].who = handler'[k].who => g = k
      <3>1. CASE handler'[k].who = u
        <4>1. ~Moving(u)
          BY <2>1, <2>6, <3>1
        <4>2. \A g \in Handlers : Leaving(g)' /\ handler'[g].who = u => g = h
          BY <2>3, <4>1 DEF Moving, Leaving
        <4> QED  BY <2>3, <2>4, <2>6, <3>1, <4>2
      <3>2. CASE handler'[k].who # u
        <4>1. k # h /\ handler'[k] = handler[k] /\ Leaving(k) /\ handler[k].who \in settled
          BY <2>1, <2>3, <2>6, <3>2 DEF Leaving
        <4>2. Other(handler[k].from) \in Sites
          BY DEF Other, Sites
        <4>3. \A g \in Handlers : Leaving(g)' /\ handler'[g].who = handler[k].who =>
                 Leaving(g) /\ handler[g].who = handler[k].who
          BY <2>3, <3>2, <4>1 DEF Leaving
        <4> QED  BY <2>4, <4>1, <4>2, <4>3 DEF HomeInv
      <3> QED  BY <3>1, <3>2
    <2> QED  BY <2>3, <2>4, <2>5, <2>6 DEF HomeInv
  <1>8. ASSUME NEW h \in Handlers, MarkAccepted(h) PROVE HomeInv'
    <2> DEFINE r == [pc |-> "join", invitation |-> handler[h].invitation, who |-> handler[h].who]
    <2>1. handler' = [handler EXCEPT ![h] = r] /\ r \in Places
      BY <1>0, <1>8, HandlerMoves DEF MarkAccepted, Places, Continues
    <2>2. r.pc # "leave" /\ UNCHANGED <<members, settled>>
      BY <1>8 DEF MarkAccepted
    <2> QED  BY <1>1, <1>2, <2>1, <2>2 DEF Leaving
  <1>9. ASSUME NEW h \in Handlers, JoinInvited(h) PROVE HomeInv'
    <2>1. /\ handler[h].pc = "join" /\ handler' = [handler EXCEPT ![h] = AtRest]
          /\ Enters(handler[h].who, "here") /\ handler[h].who \in People
      BY <1>0, <1>9, HandlerMoves DEF JoinInvited, Returns
    <2>2. \A g \in Handlers : /\ Leaving(g)' <=> Leaving(g)
                              /\ Leaving(g) => handler'[g] = handler[g]
      BY <1>0, <1>2, <2>1 DEF Leaving
    <2> QED  BY <1>0, <1>2, <2>1, <2>2, EntryKeeps DEF Sites
  <1>10. ASSUME NEW h \in Handlers, addMember(h) PROVE HomeInv'
    <2> DEFINE r == [pc |-> "role", who |-> handler[h].who]
    <2>1. /\ handler[h].pc = "add" /\ handler' = [handler EXCEPT ![h] = r] /\ r \in Places
          /\ Enters(handler[h].who, "here") /\ handler[h].who \in People
      BY <1>0, <1>10, HandlerMoves DEF addMember, Continues, Places
    <2>2. \A g \in Handlers : /\ Leaving(g)' <=> Leaving(g)
                              /\ Leaving(g) => handler'[g] = handler[g]
      BY <1>2, <2>1 DEF Leaving
    <2> QED  BY <1>2, <2>1, <2>2, EntryKeeps DEF Sites
  <1>11. ASSUME NEW h \in Handlers, HandlerDies(h) \/ Welcomed(h) PROVE HomeInv'
    <2>1. handler' = [handler EXCEPT ![h] = AtRest] /\ UNCHANGED <<members, settled>>
      BY <1>11 DEF HandlerDies, Welcomed, Returns
    <2> QED  BY <1>0, <1>1, <1>2, <2>1 DEF Leaving
  <1>12. ASSUME NEW h \in Handlers, LeaveOld(h) PROVE HomeInv'
    <2> DEFINE u == handler[h].who
               from == handler[h].from
    <2>1. /\ Leaving(h) /\ handler' = [handler EXCEPT ![h] = AtRest]
          /\ members' = [members EXCEPT ![from] = @ \ {u}] /\ UNCHANGED settled
          /\ u \in People /\ from \in Sites /\ Other(from) \in Sites /\ Other(from) # from
      BY <1>0, <1>12, HandlerMoves DEF LeaveOld, Returns, Leaving, Other, Sites
    <2>2. /\ handler' \in [Handlers -> Places] /\ handler'[h] = AtRest
          /\ \A g \in Handlers \ {h} : handler'[g] = handler[g]
      BY <1>0, <1>2, <2>1
    <2>3. /\ members' \in [Sites -> SUBSET People]
          /\ members'[Other(from)] = members[Other(from)]
          /\ \A s \in Sites, v \in People : v # u => (v \in members'[s] <=> v \in members[s])
      BY <1>0, <2>1
    <2>4. NeverNowhere'
      <3> SUFFICES ASSUME NEW v \in settled PROVE \E s \in Sites : v \in members'[s]
        BY <2>1 DEF NeverNowhere
      <3>1. CASE v = u
        BY <2>1, <2>3, <3>1 DEF HomeInv
      <3>2. CASE v # u
        BY <1>0, <2>3, <3>2 DEF HomeInv, NeverNowhere
      <3> QED  BY <3>1, <3>2
    <2>5. ASSUME NEW k \in Handlers, Leaving(k)', handler'[k].who \in settled'
          PROVE  /\ handler'[k].who \in members'[Other(handler'[k].from)]
                 /\ \A g \in Handlers : Leaving(g)' /\ handler'[g].who = handler'[k].who => g = k
      <3>1. k # h /\ handler'[k] = handler[k] /\ Leaving(k) /\ handler[k].who \in settled
        BY <1>0, <2>1, <2>2, <2>5 DEF Leaving
      <3>2. handler[k].who # u
        BY <2>1, <3>1 DEF HomeInv
      <3>3. Other(handler[k].from) \in Sites
        BY DEF Other, Sites
      <3>4. \A g \in Handlers : Leaving(g)' => handler'[g] = handler[g] /\ Leaving(g)
        BY <1>0, <2>2 DEF Leaving
      <3> QED  BY <1>0, <2>3, <3>1, <3>2, <3>3, <3>4 DEF HomeInv
    <2> QED  BY <1>0, <2>1, <2>2, <2>3, <2>4, <2>5 DEF HomeInv
  <1>13. CASE UNCHANGED memberVars
    BY <1>0, <1>1, <1>13 DEF memberVars
  <1> QED
    BY <1>3, <1>4, <1>5, <1>6, <1>7, <1>8, <1>9, <1>10, <1>11, <1>12, <1>13 DEF Belonging

\* Somebody who joined belongs somewhere until somebody removes them
\* (lifecycle.ts:250), in every system that does to the tables what the
\* requests of Membership do; each step of DataGateway is one of these, or
\* leaves the tables alone.
THEOREM NobodyNowhere == MemberSpec => []NeverNowhere
  <1>1. (\E here \in SUBSET People, bound \in Nat : InitMembers(here, bound)) => HomeInv
    BY HomeInit
  <1>2. HomeInv => NeverNowhere
    BY DEF HomeInv
  <1> QED  BY <1>1, <1>2, HomeStep, PTL DEF MemberSpec

-----------------------------------------------------------------------------
(* LoginThrottle: the invariants of the counters *)

\* A row's lock is the one the curve sets for its count, from its last failure.
RowOK(a, p, time) ==
    /\ a.until = IF LockoutFor(a.count, p) = 0 THEN Never ELSE a.last + LockoutFor(a.count, p)
    /\ a.last <= time /\ (a.last = Never => a.count = 0)

Recording == {"read", "write"}

\* A request reads the clock when it arrives and when it fails.
RequestOK(r, time) ==
    /\ r.pc # "idle" => r.at # Never /\ r.at <= time /\ time <= r.at + Delay
    /\ r.pc = "check" => r.todo # {}
    /\ r.pc \in Recording => r.todo \in {{"ip"}, {"ip_email"}}
    /\ r.pc = "write" => \A s \in r.todo : RowOK(r.row, Policy[s], time)

ThrottleTypes ==
    /\ ThrottleTypeOK
    /\ \A k \in Keys : RowOK(attempts[k], Policy[k[1]], now)
    /\ \A w \in Requests : RequestOK(request[w], now)

\* Has r failed without counting it yet in the counter of s and id?
Owes(r, s, id) ==
    r.pc \in Recording /\ r.todo \in {{s}, {"ip"}} /\ Subject(s, r.id) = Subject(s, id)

Uncounted(s, id) == {w \in Requests : Owes(request[w], s, id)}

\* A counter and what is still to be counted stay within the failures there
\* were, and so will what an open write computes.
CountOK(s, id) ==
    LET ever == tally[Subject(s, id)].ever
        late == Uncounted(s, id) IN
    /\ IsFiniteSet(late)
    /\ attempts[KeyOf(s, id)].count + Cardinality(late) <= ever
    /\ \A w \in late : request[w].pc = "write" /\ request[w].todo = {s} =>
                         request[w].row.count + Cardinality(late) <= ever
CountInv == \A s \in Scopes, id \in Identities : CountOK(s, id)

\* What r will leave in a counter that reads a now.
Coming(r, a, s, id) ==
    IF Owes(r, s, id)
      THEN AfterFailure(IF r.pc = "write" /\ r.todo = {s} THEN r.row ELSE a, Policy[s], r.at)
      ELSE a

\* The counter knows of the guesses of the run, or they no longer matter.
Good(t, a, p, time) ==
    \/ t.last = Never \/ t.run = 0 \/ t.last + p.ttl <= time
    \/ t.last <= a.last /\ t.run <= a.count

Served(r, t, a, s, id) ==
    t.last <= r.at /\ a.last <= r.at /\ Good(t, Coming(r, a, s, id), Policy[s], r.at)

\* What r found, or holds, of its own counter of scope s.
Verdict(r, a, s) ==
    /\ r.pc \in {"handler", "clear"} => a.until <= r.at
    /\ r.pc = "check" /\ ~r.no /\ s \notin r.todo => a.until <= r.at
    /\ r.pc = "write" /\ r.todo = {s} => a \in {r.row, Empty}

\* An orderly address has one request at a time.
PaceOK(ip) ==
    /\ \A v, w \in Busy(ip) : v = w
    /\ \A s \in Scopes, id \in Identities : id[1] = ip =>
         LET t == tally[Subject(s, id)]
             a == attempts[KeyOf(s, id)] IN
         /\ t.last <= now
         /\ Busy(ip) = {} => Good(t, a, Policy[s], now)
         /\ \A w \in Busy(ip) : Served(request[w], t, a, s, id)
    /\ \A w \in Busy(ip), s \in Scopes : Verdict(request[w], attempts[Mine(w, s)], s)
PaceInv == \A ip \in Ips \ Unruly : PaceOK(ip)

-----------------------------------------------------------------------------
(* The curve *)

\* The prover computes powers of numbers only.
LEMMA Powers ==
    ASSUME NEW n \in 0 .. 30
    PROVE  2 ^ n \in Nat
  <1>0. CASE n = 0 BY <1>0  <1>1. CASE n = 1 BY <1>1  <1>2. CASE n = 2 BY <1>2
  <1>3. CASE n = 3 BY <1>3  <1>4. CASE n = 4 BY <1>4  <1>5. CASE n = 5 BY <1>5
  <1>6. CASE n = 6 BY <1>6  <1>7. CASE n = 7 BY <1>7  <1>8. CASE n = 8 BY <1>8
  <1>9. CASE n = 9 BY <1>9  <1>10. CASE n = 10 BY <1>10  <1>11. CASE n = 11 BY <1>11
  <1>12. CASE n = 12 BY <1>12  <1>13. CASE n = 13 BY <1>13  <1>14. CASE n = 14 BY <1>14
  <1>15. CASE n = 15 BY <1>15  <1>16. CASE n = 16 BY <1>16  <1>17. CASE n = 17 BY <1>17
  <1>18. CASE n = 18 BY <1>18  <1>19. CASE n = 19 BY <1>19  <1>20. CASE n = 20 BY <1>20
  <1>21. CASE n = 21 BY <1>21  <1>22. CASE n = 22 BY <1>22  <1>23. CASE n = 23 BY <1>23
  <1>24. CASE n = 24 BY <1>24  <1>25. CASE n = 25 BY <1>25  <1>26. CASE n = 26 BY <1>26
  <1>27. CASE n = 27 BY <1>27  <1>28. CASE n = 28 BY <1>28  <1>29. CASE n = 29 BY <1>29
  <1>30. CASE n = 30 BY <1>30
  <1> QED
    BY <1>0, <1>1, <1>2, <1>3, <1>4, <1>5, <1>6, <1>7, <1>8, <1>9, <1>10,
       <1>11, <1>12, <1>13, <1>14, <1>15, <1>16, <1>17, <1>18, <1>19, <1>20,
       <1>21, <1>22, <1>23, <1>24, <1>25, <1>26, <1>27, <1>28, <1>29, <1>30

LEMMA Doubling ==
    ASSUME NEW n \in 0 .. 29
    PROVE  2 ^ n <= 2 ^ (n + 1)
  <1>0. CASE n = 0 BY <1>0  <1>1. CASE n = 1 BY <1>1  <1>2. CASE n = 2 BY <1>2
  <1>3. CASE n = 3 BY <1>3  <1>4. CASE n = 4 BY <1>4  <1>5. CASE n = 5 BY <1>5
  <1>6. CASE n = 6 BY <1>6  <1>7. CASE n = 7 BY <1>7  <1>8. CASE n = 8 BY <1>8
  <1>9. CASE n = 9 BY <1>9  <1>10. CASE n = 10 BY <1>10  <1>11. CASE n = 11 BY <1>11
  <1>12. CASE n = 12 BY <1>12  <1>13. CASE n = 13 BY <1>13  <1>14. CASE n = 14 BY <1>14
  <1>15. CASE n = 15 BY <1>15  <1>16. CASE n = 16 BY <1>16  <1>17. CASE n = 17 BY <1>17
  <1>18. CASE n = 18 BY <1>18  <1>19. CASE n = 19 BY <1>19  <1>20. CASE n = 20 BY <1>20
  <1>21. CASE n = 21 BY <1>21  <1>22. CASE n = 22 BY <1>22  <1>23. CASE n = 23 BY <1>23
  <1>24. CASE n = 24 BY <1>24  <1>25. CASE n = 25 BY <1>25  <1>26. CASE n = 26 BY <1>26
  <1>27. CASE n = 27 BY <1>27  <1>28. CASE n = 28 BY <1>28  <1>29. CASE n = 29 BY <1>29
  <1> QED
    BY <1>0, <1>1, <1>2, <1>3, <1>4, <1>5, <1>6, <1>7, <1>8, <1>9, <1>10,
       <1>11, <1>12, <1>13, <1>14, <1>15, <1>16, <1>17, <1>18, <1>19, <1>20,
       <1>21, <1>22, <1>23, <1>24, <1>25, <1>26, <1>27, <1>28, <1>29

\* A set of numbers has a smallest one.
LEMMA HasMinimum ==
    ASSUME NEW S, S \subseteq Nat, S # {}
    PROVE  \E k \in S : \A j \in S : k <= j
  <1>1. PICK k \in S : \A j \in S : ~ (<<j, k>> \in OpToRel(<, Nat))
    BY NatLessThanWellFounded, WFMin
  <1>2. \A j \in S : k <= j
    <2> TAKE j \in S
    <2>1. ~ (j < k)
      BY <1>1 DEF OpToRel
    <2> QED  BY <2>1
  <1> QED  BY <1>2

LEMMA PowersGrow ==
    ASSUME NEW m \in 0 .. 30, NEW n \in m .. 30
    PROVE  2 ^ m \in Nat /\ 2 ^ n \in Nat /\ 2 ^ m <= 2 ^ n
  <1>0. \A i \in 0 .. 30 : 2 ^ i \in Nat
    BY Powers
  <1> DEFINE B == {i \in m .. 30 : ~(2 ^ m <= 2 ^ i)}
  <1>1. m \in 0 .. 30 /\ n \in 0 .. 30 /\ n \in m .. 30
    OBVIOUS
  <1>2. ASSUME n \in B PROVE FALSE
    <2>1. B \subseteq Nat /\ B # {}
      BY <1>2
    <2>2. PICK i \in B : \A j \in B : i <= j
      BY <2>1, HasMinimum
    <2>3. i # m
      BY <1>0, <2>2
    <2>4. i - 1 \in m .. 30 /\ i - 1 \notin B /\ i - 1 \in 0 .. 29 /\ (i - 1) + 1 = i
      BY <2>2, <2>3
    <2>5. 2 ^ m <= 2 ^ (i - 1) /\ 2 ^ (i - 1) <= 2 ^ i
      BY <2>4, Doubling
    <2> QED  BY <1>0, <2>2, <2>4, <2>5
  <1>3. 2 ^ m <= 2 ^ n
    BY <1>1, <1>2
  <1> QED  BY <1>0, <1>1, <1>3

LEMMA PolicyTypes ==
    ASSUME NEW s \in Scopes
    PROVE  /\ Policy[s].free \in Nat /\ Policy[s].base \in Nat /\ Policy[s].max \in Nat
           /\ Policy[s].ttl \in Nat \ {0} /\ Policy[s].max <= Policy[s].ttl
           /\ Policy[s].ttl + Delay <= SweepAge
           /\ Delay \in Nat /\ SweepAge \in Nat
  BY Policies, CounterOutlivesLock, ThrottleBounds

LEMMA Times ==
    ASSUME NEW a \in Nat, NEW b \in Nat, NEW c \in Nat, b <= c
    PROVE  a * b \in Nat /\ a * c \in Nat /\ a * b <= a * c
  OBVIOUS

\* The curve grows with the failures, up to its maximum.
LEMMA Curve ==
    ASSUME NEW s \in Scopes, NEW c \in Nat, NEW d \in Nat, c <= d
    PROVE  /\ LockoutFor(c, Policy[s]) \in 0 .. Policy[s].max
           /\ LockoutFor(d, Policy[s]) \in 0 .. Policy[s].max
           /\ LockoutFor(c, Policy[s]) <= LockoutFor(d, Policy[s])
           /\ LockoutFor(c, Policy[s]) # 0 => c > Policy[s].free
  <1> DEFINE p == Policy[s]
             m == Least(c - p.free - 1, 30)
             n == Least(d - p.free - 1, 30)
  <1>0. p.free \in Nat /\ p.base \in Nat /\ p.max \in Nat
    BY PolicyTypes
  <1>1. ASSUME c > p.free
        PROVE  m \in 0 .. 30 /\ n \in m .. 30
    BY <1>0, <1>1 DEF Least
  <1>2. ASSUME d > p.free
        PROVE  n \in 0 .. 30
    BY <1>0, <1>2 DEF Least
  <1>3. ASSUME c > p.free
        PROVE  p.base * 2 ^ m \in Nat /\ p.base * 2 ^ n \in Nat /\ p.base * 2 ^ m <= p.base * 2 ^ n
    <2>1. 2 ^ m \in Nat /\ 2 ^ n \in Nat /\ 2 ^ m <= 2 ^ n
      BY <1>1, <1>3, PowersGrow
    <2> HIDE DEF m, n
    <2> QED  BY <1>0, <2>1, Times
  <1>4. ASSUME d > p.free
        PROVE  p.base * 2 ^ n \in Nat
    <2>1. 2 ^ n \in Nat
      BY <1>2, <1>4, Powers
    <2> HIDE DEF n
    <2> QED  BY <1>0, <2>1, Times
  <1>5. /\ LockoutFor(c, p) = IF c <= p.free THEN 0 ELSE Least(p.base * 2 ^ m, p.max)
        /\ LockoutFor(d, p) = IF d <= p.free THEN 0 ELSE Least(p.base * 2 ^ n, p.max)
    BY DEF LockoutFor
  <1> HIDE DEF m, n
  <1> QED  BY <1>0, <1>3, <1>4, <1>5 DEF Least

-----------------------------------------------------------------------------
(* Keys, rows and requests                                                  *)

LEMMA KeyFacts ==
    ASSUME NEW s \in Scopes, NEW id \in Identities
    PROVE  /\ KeyOf(s, id) \in Keys /\ KeyOf(s, id)[1] = s
           /\ Subject(s, id) \in Subjects
  <1>1. KeyOf(s, id) \in Keys
    BY DEF Keys
  <1>2. Subject(s, id) \in Subjects
    BY DEF Subjects
  <1>3. KeyOf(s, id)[1] = s
    BY DEF KeyOf, Scopes
  <1> QED  BY <1>1, <1>2, <1>3

LEMMA KeysApart ==
    ASSUME NEW s \in Scopes, NEW t \in Scopes, NEW id \in Identities, NEW jd \in Identities
    PROVE  /\ KeyOf(s, id) = KeyOf(t, jd) <=> s = t /\ Subject(s, id) = Subject(t, jd)
           /\ Subject(s, id) = Subject(t, jd) => s = t /\ id[1] = jd[1]
           /\ Subject("ip", id) # id
           /\ Subject("ip_email", id) = id
  <1>1. \A x, y, z : <<x>> # <<y, z>>
    OBVIOUS
  <1>2. id = <<id[1], id[2]>> /\ jd = <<jd[1], jd[2]>>
    BY DEF Identities
  <1> HIDE DEF Identities
  <1>3. CASE s = "ip" /\ t = "ip"
    BY <1>1, <1>2, <1>3 DEF KeyOf, Subject
  <1>4. CASE s = "ip" /\ t = "ip_email"
    BY <1>1, <1>2, <1>4 DEF KeyOf, Subject
  <1>5. CASE s = "ip_email" /\ t = "ip"
    BY <1>1, <1>2, <1>5 DEF KeyOf, Subject
  <1>6. CASE s = "ip_email" /\ t = "ip_email"
    BY <1>1, <1>2, <1>6 DEF KeyOf, Subject
  <1> QED  BY <1>3, <1>4, <1>5, <1>6 DEF Scopes

\* Each key is the key of some scope and identity.
LEMMA KeyOfWhom ==
    \A k \in Keys : \E s \in Scopes, id \in Identities : k = KeyOf(s, id) /\ k[1] = s
  <1> SUFFICES ASSUME NEW s \in Scopes, NEW id \in Identities
               PROVE  KeyOf(s, id)[1] = s
    BY DEF Keys
  <1> QED  BY KeyFacts

LEMMA EmptyRow ==
    ASSUME NEW s \in Scopes, now \in Nat
    PROVE  Empty \in AttemptRow /\ RowOK(Empty, Policy[s], now) /\ Empty.until = 0
  <1>1. LockoutFor(0, Policy[s]) = 0
    BY PolicyTypes DEF LockoutFor
  <1> QED  BY <1>1 DEF Empty, AttemptRow, RowOK, Never

\* A lock is as long as the curve says and no longer than its maximum.
LEMMA RowLocks ==
    ASSUME NEW s \in Scopes, NEW a \in AttemptRow, NEW time, RowOK(a, Policy[s], time)
    PROVE  /\ a.count \in Nat /\ a.last \in Nat /\ a.until \in Nat
           /\ a.until <= a.last + Policy[s].max
           /\ a.until # Never => a.count > Policy[s].free
           /\ a.last = Never => a.until = Never
           /\ a.until # Never => a.until = a.last + LockoutFor(a.count, Policy[s])
           /\ LockoutFor(a.count, Policy[s]) # 0 => a.until = a.last + LockoutFor(a.count, Policy[s])
  <1>1. a.count \in Nat /\ a.last \in Nat /\ a.until \in Nat
    BY DEF AttemptRow
  <1>2. /\ LockoutFor(a.count, Policy[s]) \in 0 .. Policy[s].max
        /\ LockoutFor(a.count, Policy[s]) # 0 => a.count > Policy[s].free
    BY <1>1, Curve
  <1>3. LockoutFor(0, Policy[s]) = 0
    BY PolicyTypes DEF LockoutFor
  <1> QED  BY <1>1, <1>2, <1>3, PolicyTypes DEF RowOK, Never

\* What a failure at a time t makes of a row.
LEMMA Failure ==
    ASSUME NEW s \in Scopes, NEW a \in AttemptRow, NEW t \in Nat \ {0}
    PROVE  LET b == AfterFailure(a, Policy[s], t) IN
           /\ b \in AttemptRow /\ b.last = t
           /\ b.count = Decay(a, Policy[s], t).count + 1
           /\ b.count \in 1 .. a.count + 1
           /\ Decay(a, Policy[s], t) \in AttemptRow
           /\ \A time \in Nat : t <= time => RowOK(b, Policy[s], time)
  <1> DEFINE d == Decay(a, Policy[s], t)
             l == LockoutFor(d.count + 1, Policy[s])
  <1>1. d \in AttemptRow /\ d.count \in 0 .. a.count
    BY DEF Decay, Empty, AttemptRow, Never
  <1>2. l \in Nat
    BY <1>1, Curve, PolicyTypes
  <1>3. AfterFailure(a, Policy[s], t) =
          [count |-> d.count + 1, last |-> t, until |-> IF l = 0 THEN Never ELSE t + l]
    BY DEF AfterFailure
  <1> HIDE DEF d
  <1>4. a.count \in Nat
    BY DEF AttemptRow
  <1>5. d = Decay(a, Policy[s], t)
    BY DEF d
  <1> QED  BY <1>1, <1>2, <1>3, <1>4, <1>5 DEF AttemptRow, RowOK, Never

-----------------------------------------------------------------------------
(* What a step makes of its request                                         *)

Stages == {"idle", "check", "handler", "read", "write", "clear"}
RequestRecord == [pc : Stages, kind : Routes, id : Identities, at : Nat,
                  todo : SUBSET Scopes, no : BOOLEAN, row : AttemptRow]

Becomes(w, pc, at, todo, no, row) ==
    request' = [request EXCEPT ![w] =
        [pc |-> pc, kind |-> request[w].kind, id |-> request[w].id, at |-> at,
         todo |-> todo, no |-> no, row |-> row]]

LEMMA RecordFields ==
    ASSUME NEW r \in RequestRecord
    PROVE  /\ r.pc \in Stages /\ r.kind \in Routes /\ r.id \in Identities /\ r.at \in Nat
           /\ r.todo \in SUBSET Scopes /\ r.no \in BOOLEAN /\ r.row \in AttemptRow
           /\ r = [pc |-> r.pc, kind |-> r.kind, id |-> r.id, at |-> r.at,
                   todo |-> r.todo, no |-> r.no, row |-> r.row]
  BY DEF RequestRecord

LEMMA RequestMoves ==
    ASSUME ThrottleTypeOK, NEW w \in Requests
    PROVE  /\ request[w] \in RequestRecord
           /\ \A s : CheckFirst(w, s) =>
                Becomes(w, "check", request[w].at, Scopes \ {s}, Refuses(w, s), request[w].row)
           /\ \A s : Admit(w, s) =>
                Becomes(w, "handler", request[w].at, {}, request[w].no, request[w].row)
           /\ Fails(w) => Becomes(w, "read", now, {"ip"}, request[w].no, request[w].row)
           /\ HandlerSucceeds(w) =>
                \/ Answered(w)
                \/ Becomes(w, "clear", request[w].at, request[w].todo, request[w].no,
                           request[w].row)
           /\ RecordRead(w) => \E s \in request[w].todo :
                Becomes(w, "write", request[w].at, request[w].todo, request[w].no,
                        attempts[Mine(w, s)])
  <1>1. request \in [Requests -> RequestRecord]
    BY DEF ThrottleTypeOK, RequestRecord, Stages
  <1>2. request[w] \in RequestRecord
    BY <1>1
  <1> DEFINE r == request[w]
  <1>3. r = [pc |-> r.pc, kind |-> r.kind, id |-> r.id, at |-> r.at,
             todo |-> r.todo, no |-> r.no, row |-> r.row]
    BY <1>2, RecordFields
  <1>4. ASSUME NEW f PROVE [request EXCEPT ![w] = f] = [v \in Requests |-> IF v = w THEN f ELSE request[v]]
    BY <1>1
  <1>5. \A s : CheckFirst(w, s) =>
                Becomes(w, "check", request[w].at, Scopes \ {s}, Refuses(w, s), request[w].row)
    BY <1>3 DEF CheckFirst, Becomes
  <1>6. \A s : Admit(w, s) =>
                Becomes(w, "handler", request[w].at, {}, request[w].no, request[w].row)
    BY <1>3 DEF Admit, Becomes
  <1>7. Fails(w) => Becomes(w, "read", now, {"ip"}, request[w].no, request[w].row)
    BY <1>3 DEF Fails, Becomes
  <1>8. HandlerSucceeds(w) =>
                \/ Answered(w)
                \/ Becomes(w, "clear", request[w].at, request[w].todo, request[w].no,
                           request[w].row)
    BY <1>3 DEF HandlerSucceeds, Becomes
  <1>9. RecordRead(w) => \E s \in request[w].todo :
                Becomes(w, "write", request[w].at, request[w].todo, request[w].no,
                        attempts[Mine(w, s)])
    BY <1>3 DEF RecordRead, Becomes
  <1> QED  BY <1>2, <1>5, <1>6, <1>7, <1>8, <1>9

LEMMA Became ==
    ASSUME request \in [Requests -> RequestRecord], NEW w \in Requests,
           NEW pc \in Stages, NEW at \in Nat, NEW todo \in SUBSET Scopes,
           NEW no \in BOOLEAN, NEW row \in AttemptRow,
           Becomes(w, pc, at, todo, no, row)
    PROVE  /\ request' \in [Requests -> RequestRecord]
           /\ \A v \in Requests : v # w => request'[v] = request[v]
           /\ request'[w].pc = pc /\ request'[w].kind = request[w].kind
           /\ request'[w].id = request[w].id /\ request'[w].at = at
           /\ request'[w].todo = todo /\ request'[w].no = no /\ request'[w].row = row
  <1>1. request[w] \in RequestRecord
    OBVIOUS
  <1>2. request[w].kind \in Routes /\ request[w].id \in Identities
    BY <1>1, RecordFields
  <1> DEFINE q == [pc |-> pc, kind |-> request[w].kind, id |-> request[w].id, at |-> at,
                   todo |-> todo, no |-> no, row |-> row]
  <1>3. q \in RequestRecord
    BY <1>2 DEF RequestRecord
  <1>4. request' = [request EXCEPT ![w] = q]
    BY DEF Becomes
  <1>5. request' \in [Requests -> RequestRecord] /\ request'[w] = q
        /\ \A v \in Requests : v # w => request'[v] = request[v]
    BY <1>3, <1>4
  <1> QED  BY <1>5

LEMMA NoRequestType ==
    /\ NoRequest \in RequestRecord /\ NoRequest.pc = "idle"
  <1>1. Identities # {}
    <2>1. PICK ip \in Ips : TRUE
      BY ThrottleBounds
    <2>2. <<ip, NoEmail>> \in Identities
      BY DEF Identities
    <2> QED  BY <2>2
  <1>2. AnyId \in Identities
    BY <1>1 DEF AnyId
  <1> QED  BY <1>2 DEF NoRequest, RequestRecord, Stages, Routes, Empty, AttemptRow, Never

LEMMA WasAnswered ==
    ASSUME request \in [Requests -> RequestRecord], NEW w \in Requests, Answered(w)
    PROVE  /\ request' \in [Requests -> RequestRecord]
           /\ \A v \in Requests : v # w => request'[v] = request[v]
           /\ request'[w] = NoRequest
  BY NoRequestType DEF Answered

LEMMA HasArrived ==
    ASSUME ThrottleTypeOK, NEW w \in Requests, NEW kind \in Routes, NEW id \in Identities,
           Arrive(w, kind, id)
    PROVE  /\ request' \in [Requests -> RequestRecord]
           /\ \A v \in Requests : v # w => request'[v] = request[v]
           /\ request'[w].pc = "check" /\ request'[w].kind = kind /\ request'[w].id = id
           /\ request'[w].at = now /\ request'[w].todo = Scopes /\ request'[w].no = FALSE
  <1> DEFINE p == [pc |-> "check", kind |-> kind, id |-> id, at |-> now, todo |-> Scopes,
                   no |-> FALSE, row |-> Empty]
  <1>2. p \in RequestRecord
    BY DEF ThrottleTypeOK, RequestRecord, Stages, Empty, AttemptRow, Never
  <1>3. request' = [request EXCEPT ![w] = p]
    BY DEF Arrive
  <1>4. request \in [Requests -> RequestRecord]
    BY DEF ThrottleTypeOK, RequestRecord, Stages
  <1> QED  BY <1>2, <1>3, <1>4

-----------------------------------------------------------------------------
(* Rows that stand, age, decay and are swept                                *)

TallyRecord == [run : Nat, last : Nat, ever : Nat]

\* Time does not undo what a request or a counter has.
LEMMA RowAges ==
    ASSUME NEW a \in AttemptRow, NEW p, NEW m \in Nat, NEW n \in Nat, m <= n, RowOK(a, p, m)
    PROVE  RowOK(a, p, n)
  BY DEF RowOK, AttemptRow

\* A counter that does not refuse has no lock left.
LEMMA Passed ==
    ASSUME NEW s \in Scopes, NEW a \in AttemptRow, NEW time, RowOK(a, Policy[s], time),
           NEW at \in Nat, ~Locked(a, Policy[s], at)
    PROVE  a.until <= at
  <1>1. CASE a.last # Never /\ at < a.last + Policy[s].ttl
    BY <1>1, RowLocks DEF Locked, Decay
  <1>2. CASE a.last = Never
    BY <1>2, RowLocks DEF Never
  <1>3. CASE a.last + Policy[s].ttl <= at
    BY <1>3, RowLocks, PolicyTypes
  <1> QED  BY <1>1, <1>2, <1>3, RowLocks, PolicyTypes

LEMMA GoodAges ==
    ASSUME NEW s \in Scopes, NEW t \in TallyRecord, NEW a, NEW m \in Nat, NEW n \in Nat, m <= n,
           Good(t, a, Policy[s], m)
    PROVE  Good(t, a, Policy[s], n)
  BY PolicyTypes DEF Good, TallyRecord

\* A failure is added to the counter, or the counter had decayed.
LEMMA GoodFails ==
    ASSUME NEW s \in Scopes, NEW t \in TallyRecord, NEW a \in AttemptRow,
           NEW m \in Nat, NEW n \in Nat \ {0}, m <= n, t.last <= m, a.last <= m,
           Good(t, a, Policy[s], m)
    PROVE  LET b == AfterFailure(a, Policy[s], n) IN
           /\ Good(t, b, Policy[s], n)
           /\ \A u \in TallyRecord :
                /\ u.last = n
                /\ u.run = IF t.last # Never /\ n < t.last + Policy[s].ttl THEN t.run + 1 ELSE 1
                => Good(u, b, Policy[s], n)
  <1> DEFINE b == AfterFailure(a, Policy[s], n)
  <1>1. b \in AttemptRow /\ b.last = n /\ b.count = Decay(a, Policy[s], n).count + 1
    BY Failure
  <1>2. b.count \in Nat /\ b.count >= 1
    BY <1>1, Failure DEF AttemptRow
  <1>3. a.last # Never /\ n < a.last + Policy[s].ttl => b.count = a.count + 1
    BY <1>1 DEF Decay
  <1>4. /\ t.run \in Nat /\ t.last \in Nat /\ a.count \in Nat /\ a.last \in Nat
        /\ Policy[s].ttl \in Nat
    BY PolicyTypes DEF TallyRecord, AttemptRow
  <1> HIDE DEF b
  <1>5. Good(t, b, Policy[s], n)
    BY <1>1, <1>2, <1>3, <1>4 DEF Good, Never
  <1>6. ASSUME NEW u \in TallyRecord, u.last = n,
               u.run = IF t.last # Never /\ n < t.last + Policy[s].ttl THEN t.run + 1 ELSE 1
        PROVE  Good(u, b, Policy[s], n)
    BY <1>1, <1>2, <1>3, <1>4, <1>6 DEF Good, Never
  <1> QED  BY <1>5, <1>6 DEF b

\* What a sweep takes has decayed for whoever still looks at it.
LEMMA SweptDecayed ==
    ASSUME NEW s \in Scopes, NEW a \in AttemptRow, NEW m \in Nat, NEW at \in Nat,
           a.last + SweepAge < m, m <= at + Delay
    PROVE  /\ Decay(a, Policy[s], at) = Empty
           /\ a.last + Policy[s].ttl <= at
           /\ AfterFailure(a, Policy[s], at) = AfterFailure(Empty, Policy[s], at)
           /\ \A t \in TallyRecord : Good(t, a, Policy[s], at) => Good(t, Empty, Policy[s], at)
  <1>0. /\ a.last \in Nat /\ Policy[s].ttl \in Nat /\ Policy[s].ttl + Delay <= SweepAge
        /\ Delay \in Nat /\ SweepAge \in Nat
    BY PolicyTypes DEF AttemptRow
  <1>1. a.last + Policy[s].ttl <= at
    BY <1>0
  <1>2. Decay(a, Policy[s], at) = Empty
    BY <1>0, <1>1 DEF Decay
  <1>3. Decay(Empty, Policy[s], at) = Empty
    BY DEF Decay, Empty
  <1>4. AfterFailure(a, Policy[s], at) = AfterFailure(Empty, Policy[s], at)
    BY <1>2, <1>3 DEF AfterFailure
  <1>5. ASSUME NEW t \in TallyRecord, Good(t, a, Policy[s], at)
        PROVE  Good(t, Empty, Policy[s], at)
    BY <1>0, <1>1, <1>5 DEF Good, TallyRecord
  <1> QED  BY <1>1, <1>2, <1>4, <1>5

\* A failure under a lock makes it longer.
LEMMA LockGrows ==
    ASSUME NEW s \in Scopes, NEW a \in AttemptRow, NEW time \in Nat, RowOK(a, Policy[s], time),
           NEW at \in Nat, a.last <= at, at < a.until
    PROVE  AfterFailure(a, Policy[s], at).until >= a.until
  <1> DEFINE l == LockoutFor(a.count, Policy[s])
             m == LockoutFor(a.count + 1, Policy[s])
  <1>0. /\ a.count \in Nat /\ a.last \in Nat /\ a.until \in Nat
        /\ Policy[s].ttl \in Nat /\ Policy[s].max \in Nat /\ Policy[s].max <= Policy[s].ttl
    BY RowLocks, PolicyTypes
  <1>1. a.until = a.last + l /\ a.last # Never /\ a.until <= a.last + Policy[s].max
    BY <1>0, RowLocks DEF Never
  <1>2. Decay(a, Policy[s], at) = a
    BY <1>0, <1>1 DEF Decay
  <1>3. l \in Nat /\ m \in Nat /\ l <= m
    <2> DEFINE d == a.count + 1
    <2>1. d \in Nat /\ a.count <= d
      BY <1>0
    <2> HIDE DEF d
    <2>2. /\ LockoutFor(a.count, Policy[s]) \in 0 .. Policy[s].max
          /\ LockoutFor(d, Policy[s]) \in 0 .. Policy[s].max
          /\ LockoutFor(a.count, Policy[s]) <= LockoutFor(d, Policy[s])
      BY <1>0, <2>1, Curve
    <2> QED  BY <1>0, <2>2 DEF d
  <1>4. AfterFailure(a, Policy[s], at).until = IF m = 0 THEN Never ELSE at + m
    BY <1>2 DEF AfterFailure
  <1> HIDE DEF l, m
  <1> QED  BY <1>0, <1>1, <1>3, <1>4

-----------------------------------------------------------------------------
(* Types                                                                    *)

\* The history is a number of failures, whatever the clock says.
LEMMA TallyTypes ==
    ASSUME ThrottleTypeOK, NEW id \in Identities, NEW guess \in BOOLEAN, Tallied(id, guess)
    PROVE  /\ tally' \in [Subjects -> TallyRecord]
           /\ \A s \in Scopes, jd \in Identities :
                LET old == tally[Subject(s, jd)]
                    new == tally'[Subject(s, jd)] IN
                IF Subject(s, jd) = Subject(s, id)
                  THEN new = Counted(s, old, guess /\ id[1] \notin Unruly)
                  ELSE new = old
  <1>1. now \in Nat /\ tally \in [Subjects -> TallyRecord]
    BY DEF ThrottleTypeOK, TallyRecord
  <1>2. \A s \in Scopes, t \in TallyRecord, b \in BOOLEAN : Counted(s, t, b) \in TallyRecord
    BY <1>1 DEF Counted, TallyRecord
  <1> DEFINE timed == guess /\ id[1] \notin Unruly
  <1>3. timed \in BOOLEAN
    OBVIOUS
  <1>4. tally' = [s \in Subjects |->
                IF s = Subject("ip", id) THEN Counted("ip", tally[s], timed)
                ELSE IF s = id THEN Counted("ip_email", tally[s], timed)
                ELSE tally[s]]
    BY DEF Tallied
  <1> HIDE DEF timed
  <1>5. tally' \in [Subjects -> TallyRecord]
    BY <1>1, <1>2, <1>3, <1>4 DEF Scopes
  <1>6. ASSUME NEW s \in Scopes, NEW jd \in Identities
        PROVE  IF Subject(s, jd) = Subject(s, id)
                 THEN tally'[Subject(s, jd)] = Counted(s, tally[Subject(s, jd)], timed)
                 ELSE tally'[Subject(s, jd)] = tally[Subject(s, jd)]
    <2>1. Subject(s, jd) \in Subjects /\ Subject("ip_email", id) = id /\ Subject("ip", id) # id
      BY KeyFacts, KeysApart DEF Scopes
    <2>2. Subject(s, jd) = id => s = "ip_email"
      BY <2>1, KeysApart DEF Scopes
    <2>3. Subject(s, jd) = Subject("ip", id) => s = "ip"
      BY <2>1, KeysApart DEF Scopes
    <2>4. s = "ip" \/ s = "ip_email"
      BY DEF Scopes
    <2> QED  BY <1>4, <2>1, <2>2, <2>3, <2>4
  <1> QED  BY <1>5, <1>6 DEF timed

\* The row a request writes, and where.
LEMMA HasWritten ==
    ASSUME ThrottleTypes, NEW w \in Requests, RecordWrite(w)
    PROVE  /\ request[w].pc = "write"
           /\ \E sc \in Scopes :
                /\ request[w].todo = {sc}
                /\ attempts' = [attempts EXCEPT ![Mine(w, sc)] =
                                  AfterFailure(request[w].row, Policy[sc], request[w].at)]
                /\ IF sc = "ip"
                     THEN Becomes(w, "read", request[w].at, {"ip_email"}, request[w].no, Empty)
                     ELSE Answered(w)
  <1> DEFINE r == request[w]
  <1>1. r \in RequestRecord
    BY DEF ThrottleTypes, ThrottleTypeOK, RequestRecord, Stages
  <1>2. r = [pc |-> r.pc, kind |-> r.kind, id |-> r.id, at |-> r.at,
             todo |-> r.todo, no |-> r.no, row |-> r.row]
    BY <1>1, RecordFields
  <1>3. request[w].pc = "write" /\ request[w].todo \in {{"ip"}, {"ip_email"}}
    BY DEF RecordWrite, ThrottleTypes, RequestOK, Recording
  <1>4. PICK sc \in request[w].todo :
          /\ attempts' = [attempts EXCEPT ![Mine(w, sc)] =
               AfterFailure(request[w].row, Policy[sc], request[w].at)]
          /\ IF sc = "ip"
               THEN request' = [request EXCEPT ![w] = [@ EXCEPT !.pc = "read", !.row = Empty,
                                                                !.todo = {"ip_email"}]]
               ELSE Answered(w)
    BY DEF RecordWrite
  <1>5. request[w].todo = {sc} /\ sc \in Scopes
    BY <1>3 DEF Scopes
  <1>6. sc = "ip" =>
          Becomes(w, "read", request[w].at, {"ip_email"}, request[w].no, Empty)
    BY <1>2, <1>4 DEF Becomes
  <1> QED  BY <1>3, <1>4, <1>5, <1>6

-----------------------------------------------------------------------------
(* What the steps of a request do                                           *)

Same(w) == request'[w].id = request[w].id /\ request'[w].at = request[w].at
Quiet == attempts' = attempts /\ tally' = tally
Gone(w) == request'[w] = NoRequest

Arrived(w) ==
    /\ request[w].pc = "idle"
    /\ request'[w].pc = "check" /\ request'[w].at = now
    /\ request'[w].todo = Scopes /\ request'[w].no = FALSE
    /\ request'[w].id[1] \in Unruly \/ Busy(request'[w].id[1]) = {}
    /\ Quiet
Looked(w) ==
    /\ request[w].pc = "check" /\ request[w].todo = Scopes
    /\ request'[w].pc = "check"
    /\ \E s \in Scopes : request'[w].todo = Scopes \ {s} /\ request'[w].no = Refuses(w, s)
    /\ Same(w) /\ Quiet
Passes(w) ==
    /\ request[w].pc = "check" /\ ~request[w].no
    /\ request'[w].pc = "handler"
    /\ \E s \in Scopes : request[w].todo = {s} /\ ~Refuses(w, s)
    /\ Same(w) /\ Quiet
Leaves(w) ==
    /\ request[w].pc \in {"check", "handler"} \/ request[w].id[1] \in Unruly
    /\ request[w].pc # "idle" /\ Gone(w) /\ Quiet
Failed(w) ==
    /\ request[w].pc \in {"check", "handler"}
    /\ request'[w].pc = "read" /\ request'[w].todo = {"ip"}
    /\ request'[w].id = request[w].id /\ request'[w].at = now
    /\ attempts' = attempts
    /\ \E guess \in BOOLEAN : Tallied(request[w].id, guess)
Succeeded(w) ==
    request[w].pc = "handler" /\ request'[w].pc = "clear" /\ Same(w) /\ Quiet
HasRead(w) ==
    /\ request[w].pc = "read" /\ request'[w].pc = "write"
    /\ \E s \in Scopes : /\ request[w].todo = {s} /\ request'[w].todo = {s}
                         /\ request'[w].row = attempts[Mine(w, s)]
    /\ Same(w) /\ Quiet
Wrote(w, s) ==
    /\ request[w].pc = "write" /\ request[w].todo = {s}
    /\ attempts' = [attempts EXCEPT ![Mine(w, s)] =
                      AfterFailure(request[w].row, Policy[s], request[w].at)]
    /\ tally' = tally
    /\ IF s = "ip" THEN request'[w].pc = "read" /\ request'[w].todo = {"ip_email"} /\ Same(w)
                   ELSE Gone(w)
Cleared(w) ==
    /\ request[w].pc = "clear" /\ Gone(w)
    /\ attempts' = [attempts EXCEPT ![Mine(w, "ip_email")] = Empty]
    /\ tally' = [tally EXCEPT ![request[w].id] = [@ EXCEPT !.run = 0]]

Moves(w) == \/ \E kind \in Routes, id \in Identities : Arrive(w, kind, id)
            \/ Serve(w) \/ RequestDies(w)

LEMMA Effects ==
    ASSUME ThrottleTypes, NEW w \in Requests, Moves(w)
    PROVE  /\ now' = now
           /\ request' \in [Requests -> RequestRecord]
           /\ \A v \in Requests : v # w => request'[v] = request[v]
           /\ \/ Arrived(w) \/ Looked(w) \/ Passes(w) \/ Leaves(w) \/ Failed(w)
              \/ Succeeded(w) \/ HasRead(w) \/ Wrote(w, "ip") \/ Wrote(w, "ip_email")
              \/ Cleared(w)
  <1> DEFINE Frame == /\ request' \in [Requests -> RequestRecord]
                      /\ \A v \in Requests : v # w => request'[v] = request[v]
             Effect == \/ Arrived(w) \/ Looked(w) \/ Passes(w) \/ Leaves(w) \/ Failed(w)
                       \/ Succeeded(w) \/ HasRead(w) \/ Wrote(w, "ip") \/ Wrote(w, "ip_email")
                       \/ Cleared(w)
             Goal == now' = now /\ Frame /\ Effect
             r == request[w]
  <1>0. /\ ThrottleTypeOK /\ request \in [Requests -> RequestRecord] /\ r \in RequestRecord
        /\ attempts \in [Keys -> AttemptRow] /\ now \in Nat
    BY DEF ThrottleTypes, ThrottleTypeOK, RequestRecord, Stages
  <1>00. /\ r.kind \in Routes /\ r.id \in Identities /\ r.at \in Nat /\ r.todo \in SUBSET Scopes
         /\ r.no \in BOOLEAN /\ r.row \in AttemptRow /\ r.pc \in Stages
    BY <1>0, RecordFields
  <1>01. /\ "check" \in Stages /\ "handler" \in Stages /\ "clear" \in Stages
         /\ "write" \in Stages /\ "read" \in Stages
         /\ {} \in SUBSET Scopes /\ {"ip"} \in SUBSET Scopes /\ {"ip_email"} \in SUBSET Scopes
    BY DEF Stages, Scopes
  <1>02. \A s \in Scopes : Mine(w, s) \in Keys /\ Refuses(w, s) \in BOOLEAN
    BY <1>00, KeyFacts DEF Mine, Refuses, Locked
  <1> HIDE DEF r
  <1>1. ASSUME NEW kind \in Routes, NEW id \in Identities, Arrive(w, kind, id)
        PROVE  Goal
    <2>1. Frame /\ Arrived(w)
      BY <1>0, <1>1, HasArrived DEF Arrive, Arrived, Quiet
    <2> QED  BY <1>1, <2>1 DEF Arrive
  <1>2. ASSUME NEW s \in Scopes, CheckFirst(w, s)
        PROVE  Goal
    <2>1. Becomes(w, "check", r.at, Scopes \ {s}, Refuses(w, s), r.row)
      BY <1>0, <1>2, RequestMoves DEF r
    <2>2. /\ Frame /\ request'[w].pc = "check" /\ Same(w)
          /\ request'[w].todo = Scopes \ {s} /\ request'[w].no = Refuses(w, s)
      BY <1>0, <1>00, <1>01, <1>02, <2>1 DEF Becomes, RequestRecord, Same, r
    <2>3. Looked(w)
      BY <1>2, <2>2 DEF CheckFirst, Looked, Quiet
    <2> QED  BY <1>2, <2>2, <2>3 DEF CheckFirst
  <1>3. ASSUME NEW s \in Scopes, Admit(w, s)
        PROVE  Goal
    <2>1. Becomes(w, "handler", r.at, {}, request[w].no, r.row)
      BY <1>0, <1>3, RequestMoves DEF r
    <2>2. Frame /\ request'[w].pc = "handler" /\ Same(w)
      BY <1>0, <1>00, <1>01, <2>1 DEF Becomes, RequestRecord, Same, r
    <2>3. Passes(w)
      BY <1>3, <2>2 DEF Admit, Decides, Passes, Quiet
    <2> QED  BY <1>3, <2>2, <2>3 DEF Admit
  <1>4. ASSUME NEW s \in Scopes, Refuse(w, s)
        PROVE  Goal
    <2>1. Frame /\ Gone(w)
      BY <1>0, <1>4, WasAnswered DEF Refuse, Gone
    <2>2. Leaves(w)
      BY <1>4, <2>1 DEF Refuse, Decides, Leaves, Quiet
    <2> QED  BY <1>4, <2>1, <2>2 DEF Refuse
  <1>5. ASSUME Fails(w), request[w].pc \in {"check", "handler"}, UNCHANGED <<now, attempts>>,
               NEW guess \in BOOLEAN, Tallied(request[w].id, guess)
        PROVE  Goal
    <2>1. Becomes(w, "read", now, {"ip"}, request[w].no, r.row)
      BY <1>0, <1>5, RequestMoves DEF r
    <2>2. /\ Frame /\ request'[w].pc = "read" /\ request'[w].todo = {"ip"}
          /\ request'[w].id = request[w].id /\ request'[w].at = now
      BY <1>0, <1>00, <1>01, <2>1 DEF Becomes, RequestRecord, r
    <2>3. Failed(w)
      BY <1>5, <2>2 DEF Failed
    <2> QED  BY <1>5, <2>2, <2>3
  <1>6. ASSUME NEW s \in Scopes, RefuseConfirm(w, s)
        PROVE  Goal
    BY <1>5, <1>6 DEF RefuseConfirm, Decides
  <1>7. CASE HandlerFails(w)
    BY <1>5, <1>7 DEF HandlerFails
  <1>8. CASE HandlerSucceeds(w)
    <2>1. now' = now /\ Quiet /\ r.pc = "handler"
      BY <1>8 DEF HandlerSucceeds, Quiet, r
    <2>2. CASE Answered(w)
      <3>1. Frame /\ Gone(w)
        BY <1>0, <2>2, WasAnswered DEF Gone
      <3> QED  BY <2>1, <3>1 DEF Leaves, r
    <2>3. CASE Becomes(w, "clear", r.at, r.todo, request[w].no, r.row)
      <3>1. Frame /\ request'[w].pc = "clear" /\ Same(w)
        BY <1>0, <1>00, <1>01, <2>3 DEF Becomes, RequestRecord, Same, r
      <3> QED  BY <2>1, <3>1 DEF Succeeded, r
    <2> QED  BY <1>0, <1>8, <2>2, <2>3, RequestMoves DEF r
  <1>9. CASE RecordRead(w)
    <2>1. now' = now /\ Quiet /\ r.pc = "read"
      BY <1>9 DEF RecordRead, Quiet, r
    <2>2. PICK s \in r.todo : Becomes(w, "write", r.at, r.todo, request[w].no, attempts[Mine(w, s)])
      BY <1>0, <1>9, RequestMoves DEF r
    <2>3. r.todo = {s} /\ s \in Scopes
      BY <2>1 DEF ThrottleTypes, RequestOK, Recording, Scopes, r
    <2>4. attempts[Mine(w, s)] \in AttemptRow
      BY <1>0, <1>02, <2>3
    <2>5. /\ Frame /\ request'[w].pc = "write" /\ Same(w) /\ request'[w].todo = {s}
          /\ request'[w].row = attempts[Mine(w, s)]
      BY <1>0, <1>00, <1>01, <2>2, <2>3, <2>4 DEF Becomes, RequestRecord, Same, r
    <2>6. HasRead(w)
      BY <2>1, <2>3, <2>5 DEF HasRead, r
    <2> QED  BY <2>1, <2>5, <2>6
  <1>10. CASE RecordWrite(w)
    <2>1. PICK s \in Scopes :
             /\ request[w].pc = "write" /\ request[w].todo = {s}
             /\ attempts' = [attempts EXCEPT ![Mine(w, s)] =
                                AfterFailure(request[w].row, Policy[s], request[w].at)]
             /\ IF s = "ip"
                     THEN Becomes(w, "read", request[w].at, {"ip_email"}, request[w].no, Empty)
                     ELSE Answered(w)
      BY <1>10, HasWritten
    <2>2. now' = now /\ tally' = tally
      BY <1>10 DEF RecordWrite
    <2>3. Empty \in AttemptRow
      BY DEF Empty, AttemptRow, Never
    <2>4. CASE s = "ip"
      <3>1. /\ Frame /\ request'[w].pc = "read" /\ request'[w].todo = {"ip_email"} /\ Same(w)
        BY <1>0, <1>00, <1>01, <2>1, <2>3, <2>4 DEF Becomes, RequestRecord, Same, r
      <3> QED  BY <2>1, <2>2, <2>4, <3>1 DEF Wrote
    <2>5. CASE s = "ip_email"
      <3>1. Frame /\ Gone(w)
        BY <1>0, <2>1, <2>5, WasAnswered DEF Gone
      <3> QED  BY <2>1, <2>2, <2>5, <3>1 DEF Wrote
    <2> QED  BY <2>4, <2>5 DEF Scopes
  <1>11. CASE Clear(w)
    <2>1. Frame /\ Gone(w)
      BY <1>0, <1>11, WasAnswered DEF Clear, Gone
    <2> QED  BY <1>11, <2>1 DEF Clear, Cleared
  <1>12. CASE RequestDies(w)
    <2>1. Frame /\ Gone(w)
      BY <1>0, <1>12, WasAnswered DEF RequestDies, Gone
    <2> QED  BY <1>12, <2>1 DEF RequestDies, Leaves, Quiet
  <1>13. CASE Serve(w)
    BY <1>2, <1>3, <1>4, <1>6, <1>7, <1>8, <1>9, <1>10, <1>11, <1>13 DEF Serve
  <1> QED  BY <1>1, <1>12, <1>13 DEF Moves

-----------------------------------------------------------------------------
(* Types of all the states                                                  *)

LEMMA TypesSplit ==
    ThrottleTypes <=>
      /\ now \in Nat \ {0}
      /\ attempts \in [Keys -> AttemptRow]
      /\ request \in [Requests -> RequestRecord]
      /\ tally \in [Subjects -> TallyRecord]
      /\ \A k \in Keys : RowOK(attempts[k], Policy[k[1]], now)
      /\ \A w \in Requests : RequestOK(request[w], now)
  <1>1. ASSUME NEW r, r.todo \in {{"ip"}, {"ip_email"}}
        PROVE  r.todo # {}
    BY <1>1
  <1>2. (\A w \in Requests : RequestOK(request[w], now)) =>
          \A w \in Requests : request[w].pc \in {"read", "write"} => request[w].todo # {}
    BY <1>1 DEF RequestOK, Recording
  <1> QED  BY <1>2 DEF ThrottleTypes, ThrottleTypeOK, RequestRecord, Stages, TallyRecord

LEMMA TypesSplitNext ==
    ThrottleTypes' <=>
      /\ now' \in Nat \ {0}
      /\ attempts' \in [Keys -> AttemptRow]
      /\ request' \in [Requests -> RequestRecord]
      /\ tally' \in [Subjects -> TallyRecord]
      /\ \A k \in Keys : RowOK(attempts'[k], Policy[k[1]], now')
      /\ \A w \in Requests : RequestOK(request'[w], now')
  <1>1. ASSUME NEW r, r.todo \in {{"ip"}, {"ip_email"}}
        PROVE  r.todo # {}
    BY <1>1
  <1>2. (\A w \in Requests : RequestOK(request'[w], now')) =>
          \A w \in Requests : request'[w].pc \in {"read", "write"} => request'[w].todo # {}
    BY <1>1 DEF RequestOK, Recording
  <1> QED  BY <1>2 DEF ThrottleTypes, ThrottleTypeOK, RequestRecord, Stages, TallyRecord

\* What a request writes is a row of the curve.
LEMMA WroteRow ==
    ASSUME ThrottleTypes, NEW w \in Requests, NEW s \in Scopes, Wrote(w, s)
    PROVE  LET b == AfterFailure(request[w].row, Policy[s], request[w].at) IN
           /\ b \in AttemptRow /\ RowOK(b, Policy[s], now)
           /\ Mine(w, s) \in Keys /\ Mine(w, s)[1] = s
           /\ attempts' \in [Keys -> AttemptRow]
           /\ attempts'[Mine(w, s)] = b
           /\ \A k \in Keys : k # Mine(w, s) => attempts'[k] = attempts[k]
  <1> DEFINE b == AfterFailure(request[w].row, Policy[s], request[w].at)
  <1>1. /\ request[w].row \in AttemptRow /\ request[w].at \in Nat /\ request[w].id \in Identities
        /\ attempts \in [Keys -> AttemptRow] /\ now \in Nat
    BY TypesSplit DEF RequestRecord
  <1>2. request[w].at # 0 /\ request[w].at <= now
    BY DEF ThrottleTypes, RequestOK, Wrote, Never
  <1>3. b \in AttemptRow /\ RowOK(b, Policy[s], now)
    BY <1>1, <1>2, Failure
  <1>4. Mine(w, s) \in Keys /\ Mine(w, s)[1] = s
    BY <1>1, KeyFacts DEF Mine
  <1>5. attempts' = [attempts EXCEPT ![Mine(w, s)] = b]
    BY DEF Wrote
  <1> HIDE DEF b
  <1>6. /\ attempts' \in [Keys -> AttemptRow] /\ attempts'[Mine(w, s)] = b
        /\ \A k \in Keys : k # Mine(w, s) => attempts'[k] = attempts[k]
    BY <1>1, <1>3, <1>4, <1>5
  <1> QED  BY <1>3, <1>4, <1>6 DEF b

LEMMA ClearedRow ==
    ASSUME ThrottleTypes, NEW w \in Requests, Cleared(w)
    PROVE  /\ Mine(w, "ip_email") \in Keys /\ request[w].id \in Subjects
           /\ attempts' \in [Keys -> AttemptRow]
           /\ attempts'[Mine(w, "ip_email")] = Empty
           /\ \A k \in Keys : k # Mine(w, "ip_email") => attempts'[k] = attempts[k]
           /\ tally' \in [Subjects -> TallyRecord]
           /\ \A u \in Subjects : IF u = request[w].id
                THEN tally'[u].run = 0 /\ tally'[u].last = tally[u].last
                     /\ tally'[u].ever = tally[u].ever
                ELSE tally'[u] = tally[u]
  <1>1. /\ request[w].id \in Identities /\ attempts \in [Keys -> AttemptRow] /\ now \in Nat
        /\ tally \in [Subjects -> TallyRecord]
    BY TypesSplit DEF RequestRecord
  <1>2. Mine(w, "ip_email") \in Keys /\ request[w].id \in Subjects
    BY <1>1, KeyFacts, KeysApart DEF Mine, Scopes
  <1>3. Empty \in AttemptRow
    BY DEF Empty, AttemptRow, Never
  <1>4. /\ attempts' \in [Keys -> AttemptRow]
        /\ attempts'[Mine(w, "ip_email")] = Empty
        /\ \A k \in Keys : k # Mine(w, "ip_email") => attempts'[k] = attempts[k]
    BY <1>1, <1>2, <1>3 DEF Cleared
  <1>5. /\ tally' \in [Subjects -> TallyRecord]
        /\ \A u \in Subjects : IF u = request[w].id
             THEN tally'[u].run = 0 /\ tally'[u].last = tally[u].last
                  /\ tally'[u].ever = tally[u].ever
             ELSE tally'[u] = tally[u]
    BY <1>1, <1>2 DEF Cleared, TallyRecord
  <1> QED  BY <1>2, <1>4, <1>5

LEMMA TypesInit == ThrottleInit => ThrottleTypes
  <1> SUFFICES ASSUME ThrottleInit PROVE ThrottleTypes
    OBVIOUS
  <1>1. now = 1
    BY DEF ThrottleInit
  <1>2. \A s \in Scopes : Empty \in AttemptRow /\ RowOK(Empty, Policy[s], now)
    BY <1>1, EmptyRow
  <1>3. Empty \in AttemptRow
    BY DEF Empty, AttemptRow, Never
  <1>4. \A k \in Keys : attempts[k] = Empty /\ k[1] \in Scopes
    BY KeyOfWhom DEF ThrottleInit
  <1>5. NoTally \in TallyRecord
    BY DEF NoTally, TallyRecord, Never
  <1>6. RequestOK(NoRequest, now)
    BY NoRequestType DEF RequestOK, Recording
  <1> QED
    BY <1>1, <1>2, <1>3, <1>4, <1>5, <1>6, NoRequestType, TypesSplit DEF ThrottleInit

LEMMA TypesMove ==
    ASSUME ThrottleTypes, NEW w \in Requests, Moves(w)
    PROVE  ThrottleTypes'
  <1>1. /\ now \in Nat \ {0} /\ attempts \in [Keys -> AttemptRow]
        /\ request \in [Requests -> RequestRecord] /\ tally \in [Subjects -> TallyRecord]
        /\ \A k \in Keys : RowOK(attempts[k], Policy[k[1]], now)
        /\ \A v \in Requests : RequestOK(request[v], now)
        /\ ThrottleTypeOK
    BY TypesSplit DEF ThrottleTypes
  <1>2. /\ now' = now /\ request' \in [Requests -> RequestRecord]
        /\ \A v \in Requests : v # w => request'[v] = request[v]
        /\ \/ Arrived(w) \/ Looked(w) \/ Passes(w) \/ Leaves(w) \/ Failed(w)
           \/ Succeeded(w) \/ HasRead(w) \/ Wrote(w, "ip") \/ Wrote(w, "ip_email")
           \/ Cleared(w)
    BY Effects
  <1>3. request[w].id \in Identities /\ RequestOK(request[w], now) /\ now <= now + Delay
    BY <1>1, ThrottleBounds DEF RequestRecord
  <1> DEFINE RowsOK == /\ attempts' \in [Keys -> AttemptRow]
                       /\ \A k \in Keys : RowOK(attempts'[k], Policy[k[1]], now)
             TallyOK == tally' \in [Subjects -> TallyRecord]
  <1>4. RequestOK(NoRequest, now)
    BY NoRequestType DEF RequestOK, Recording
  <1>5. Quiet => RowsOK /\ TallyOK
    BY <1>1 DEF Quiet
  <1>6. ASSUME NEW s \in Scopes, Wrote(w, s)
        PROVE  RowsOK /\ TallyOK
    BY <1>1, <1>6, WroteRow DEF Wrote
  <1>7. RowsOK /\ TallyOK /\ RequestOK(request'[w], now)
    <2>1. CASE Arrived(w)
      BY <1>1, <1>3, <1>5, <2>1 DEF Arrived, RequestOK, Recording, Scopes, Never
    <2>2. CASE Looked(w)
      BY <1>3, <1>5, <2>2 DEF Looked, RequestOK, Recording, Scopes, Same
    <2>3. CASE Passes(w)
      BY <1>3, <1>5, <2>3 DEF Passes, RequestOK, Recording, Same
    <2>4. CASE Leaves(w)
      BY <1>4, <1>5, <2>4 DEF Leaves, Gone
    <2>5. CASE Failed(w)
      <3>1. TallyOK
        BY <1>1, <1>3, <2>5, TallyTypes DEF Failed
      <3>2. RequestOK(request'[w], now)
        BY <1>1, <1>3, <2>5 DEF Failed, RequestOK, Recording, Never
      <3> QED  BY <1>1, <2>5, <3>1, <3>2 DEF Failed
    <2>6. CASE Succeeded(w)
      BY <1>3, <1>5, <2>6 DEF Succeeded, RequestOK, Recording, Same
    <2>7. CASE HasRead(w)
      <3>1. PICK s \in Scopes : /\ request'[w].todo = {s} /\ request[w].todo = {s}
                                /\ request'[w].row = attempts[Mine(w, s)]
        BY <2>7 DEF HasRead
      <3>2. Mine(w, s) \in Keys /\ Mine(w, s)[1] = s
        BY <1>3, KeyFacts DEF Mine
      <3>3. RowOK(request'[w].row, Policy[s], now)
        BY <1>1, <3>1, <3>2
      <3> QED  BY <1>3, <1>5, <2>7, <3>1, <3>3 DEF HasRead, RequestOK, Recording, Same
    <2>8. CASE Wrote(w, "ip")
      <3>1. RequestOK(request'[w], now)
        BY <1>3, <2>8 DEF Wrote, RequestOK, Recording, Same
      <3> QED  BY <1>6, <2>8, <3>1 DEF Scopes
    <2>9. CASE Wrote(w, "ip_email")
      <3>1. RequestOK(request'[w], now)
        BY <1>4, <2>9 DEF Wrote, Gone
      <3> QED  BY <1>6, <2>9, <3>1 DEF Scopes
    <2>10. CASE Cleared(w)
      <3>1. /\ attempts' \in [Keys -> AttemptRow] /\ tally' \in [Subjects -> TallyRecord]
            /\ \A k \in Keys : attempts'[k] \in {attempts[k], Empty}
        BY <1>1, <2>10, ClearedRow
      <3>2. \A k \in Keys : RowOK(attempts'[k], Policy[k[1]], now)
        <4> TAKE k \in Keys
        <4>1. k[1] \in Scopes
          BY KeyOfWhom
        <4> QED  BY <1>1, <3>1, <4>1, EmptyRow
      <3> QED  BY <1>4, <2>10, <3>1, <3>2 DEF Cleared, Gone
    <2> QED  BY <1>2, <2>1, <2>2, <2>3, <2>4, <2>5, <2>6, <2>7, <2>8, <2>9, <2>10
  <1>8. \A v \in Requests : RequestOK(request'[v], now)
    BY <1>1, <1>2, <1>7
  <1> QED  BY <1>1, <1>2, <1>7, <1>8, TypesSplitNext

LEMMA TypesSwept ==
    ASSUME ThrottleTypes, Sweep
    PROVE  ThrottleTypes'
  <1>1. /\ now \in Nat \ {0} /\ attempts \in [Keys -> AttemptRow]
        /\ request \in [Requests -> RequestRecord] /\ tally \in [Subjects -> TallyRecord]
        /\ \A k \in Keys : RowOK(attempts[k], Policy[k[1]], now)
        /\ \A v \in Requests : RequestOK(request[v], now)
    BY TypesSplit
  <1>2. UNCHANGED <<now, request, tally>> /\ \A k \in Keys : attempts'[k] \in {attempts[k], Empty}
    BY DEF Sweep
  <1>3. Empty \in AttemptRow
    BY DEF Empty, AttemptRow, Never
  <1>4. attempts' \in [Keys -> AttemptRow]
    BY <1>1, <1>3 DEF Sweep
  <1>5. \A k \in Keys : RowOK(attempts'[k], Policy[k[1]], now)
    <2> TAKE k \in Keys
    <2>1. k[1] \in Scopes
      BY KeyOfWhom
    <2> QED  BY <1>1, <1>2, <2>1, EmptyRow
  <1> QED  BY <1>1, <1>2, <1>4, <1>5, TypesSplitNext

LEMMA TypesTicked ==
    ASSUME ThrottleTypes, Tick
    PROVE  ThrottleTypes'
  <1>1. /\ now \in Nat \ {0} /\ attempts \in [Keys -> AttemptRow]
        /\ request \in [Requests -> RequestRecord] /\ tally \in [Subjects -> TallyRecord]
        /\ \A k \in Keys : RowOK(attempts[k], Policy[k[1]], now)
        /\ \A v \in Requests : RequestOK(request[v], now)
    BY TypesSplit
  <1>2. now' = now + 1 /\ UNCHANGED <<attempts, request, tally>>
    BY DEF Tick
  <1>3. \A k \in Keys : RowOK(attempts[k], Policy[k[1]], now + 1)
    BY <1>1, RowAges
  <1>4. ASSUME NEW v \in Requests
        PROVE  RequestOK(request[v], now + 1)
    <2>1. /\ request[v].at \in Nat /\ request[v].row \in AttemptRow
          /\ request[v].pc # "idle" => now + 1 <= request[v].at + Delay
      BY <1>1, ThrottleBounds DEF Tick, RequestRecord
    <2>2. request[v].pc = "write" =>
            \A s \in request[v].todo : RowOK(request[v].row, Policy[s], now + 1)
      BY <1>1, <2>1, RowAges DEF RequestOK
    <2> QED  BY <1>1, <2>1, <2>2 DEF RequestOK
  <1> QED  BY <1>1, <1>2, <1>3, <1>4, TypesSplitNext

LEMMA TypesStep == ThrottleTypes /\ [ThrottleNext]_throttleVars => ThrottleTypes'
  <1> SUFFICES ASSUME ThrottleTypes, [ThrottleNext]_throttleVars PROVE ThrottleTypes'
    OBVIOUS
  <1>1. ASSUME NEW w \in Requests, Moves(w) PROVE ThrottleTypes'
    BY <1>1, TypesMove
  <1>2. CASE UNCHANGED throttleVars
    BY <1>2, TypesSplit, TypesSplitNext DEF throttleVars
  <1> QED
    BY <1>1, <1>2, TypesSwept, TypesTicked DEF ThrottleNext, Moves

-----------------------------------------------------------------------------
(* Failures are counted at most once                                        *)

Weight(r, s, id) == IF Owes(r, s, id) THEN 1 ELSE 0

\* The set of late requests changes by one request at most.
LEMMA LateMoves ==
    ASSUME NEW w \in Requests, NEW s \in Scopes, NEW id \in Identities,
           \A v \in Requests : v # w => request'[v] = request[v],
           IsFiniteSet(Uncounted(s, id))
    PROVE  /\ IsFiniteSet(Uncounted(s, id)')
           /\ Cardinality(Uncounted(s, id)) \in Nat /\ Cardinality(Uncounted(s, id)') \in Nat
           /\ Cardinality(Uncounted(s, id)') + Weight(request[w], s, id)
                = Cardinality(Uncounted(s, id)) + Weight(request'[w], s, id)
  <1> DEFINE A == Uncounted(s, id)
             B == {v \in Requests : Owes(request'[v], s, id)}
  <1>1. Uncounted(s, id)' = B
    BY DEF Uncounted
  <1>2. /\ w \in A <=> Owes(request[w], s, id)
        /\ w \in B <=> Owes(request'[w], s, id)
        /\ \A v : v # w => (v \in A <=> v \in B)
    BY DEF Uncounted
  <1> HIDE DEF A, B
  <1>3. Cardinality(A) \in Nat /\ IsFiniteSet(A)
    BY FS_CardinalityType DEF A
  <1>4. CASE w \in A /\ w \notin B
    <2>1. B = A \ {w}
      BY <1>2, <1>4
    <2>2. IsFiniteSet(B) /\ Cardinality(B) = Cardinality(A) - 1
      BY <1>3, <1>4, <2>1, FS_RemoveElement
    <2>3. Cardinality(B) \in Nat
      BY <2>2, FS_CardinalityType
    <2> QED  BY <1>1, <1>2, <1>3, <1>4, <2>2, <2>3 DEF Weight, A
  <1>5. CASE w \notin A /\ w \in B
    <2>1. B = A \cup {w}
      BY <1>2, <1>5
    <2>2. IsFiniteSet(B) /\ Cardinality(B) = Cardinality(A) + 1
      BY <1>3, <1>5, <2>1, FS_AddElement
    <2> QED  BY <1>1, <1>2, <1>3, <1>5, <2>2 DEF Weight, A
  <1>6. CASE w \in A <=> w \in B
    <2>1. A = B
      BY <1>2, <1>6
    <2> QED  BY <1>1, <1>2, <1>3, <1>6, <2>1 DEF Weight, A
  <1> QED  BY <1>4, <1>5, <1>6

\* What an action has to keep for one counter.
LEMMA CountKept ==
    ASSUME ThrottleTypes, NEW w \in Requests, NEW s \in Scopes, NEW id \in Identities,
           request' \in [Requests -> RequestRecord], tally' \in [Subjects -> TallyRecord],
           \A v \in Requests : v # w => request'[v] = request[v],
           CountOK(s, id),
           LET late == Cardinality(Uncounted(s, id))
               more == Weight(request'[w], s, id)
               less == Weight(request[w], s, id)
               ever == tally'[Subject(s, id)].ever IN
           /\ tally[Subject(s, id)].ever + more <= ever + less
           /\ attempts'[KeyOf(s, id)].count + late + more <= ever + less
           /\ Owes(request'[w], s, id) /\ request'[w].pc = "write" /\ request'[w].todo = {s} =>
                request'[w].row.count + late + more <= ever + less,
           attempts'[KeyOf(s, id)].count \in Nat
    PROVE  CountOK(s, id)'
  <1> DEFINE late == Cardinality(Uncounted(s, id))
             next == Cardinality(Uncounted(s, id)')
             more == Weight(request'[w], s, id)
             less == Weight(request[w], s, id)
             old == tally[Subject(s, id)].ever
             ever == tally'[Subject(s, id)].ever
  <1>1. /\ IsFiniteSet(Uncounted(s, id)') /\ late \in Nat /\ next \in Nat
        /\ next + less = late + more
    BY LateMoves DEF CountOK
  <1>2. more \in Nat /\ less \in Nat
    BY DEF Weight
  <1>3. old \in Nat /\ ever \in Nat
    BY TypesSplit, KeyFacts DEF TallyRecord
  <1> HIDE DEF late, next, more, less, old, ever
  <1>4. attempts'[KeyOf(s, id)].count + next <= ever
    BY <1>1, <1>2, <1>3 DEF late, more, less, ever
  <1>5. ASSUME NEW v \in Uncounted(s, id)', request'[v].pc = "write", request'[v].todo = {s}
        PROVE  request'[v].row.count + next <= ever
    <2>0. v \in Requests /\ Owes(request'[v], s, id)
      BY DEF Uncounted
    <2>1. request'[v].row.count \in Nat
      BY <2>0 DEF RequestRecord, AttemptRow
    <2>2. CASE v = w
      BY <1>1, <1>2, <1>3, <1>5, <2>0, <2>1, <2>2 DEF late, more, less, ever
    <2>3. CASE v # w
      <3>1. request'[v] = request[v] /\ v \in Uncounted(s, id)
        BY <2>0, <2>3 DEF Uncounted
      <3>2. request[v].row.count + late <= old
        BY <1>5, <3>1 DEF CountOK, late, old
      <3>3. old + more <= ever + less
        BY DEF old, more, less, ever
      <3> QED  BY <1>1, <1>2, <1>3, <2>1, <3>1, <3>2, <3>3
    <2> QED  BY <2>2, <2>3
  <1> QED  BY <1>1, <1>4, <1>5 DEF CountOK, next, ever

LEMMA CountMove ==
    ASSUME ThrottleTypes, CountInv, NEW w \in Requests, Moves(w)
    PROVE  CountInv'
  <1> SUFFICES ASSUME NEW s \in Scopes, NEW id \in Identities
               PROVE  CountOK(s, id)'
    BY DEF CountInv
  <1> DEFINE k == KeyOf(s, id)
             u == Subject(s, id)
             r == request[w]
             q == request'[w]
             late == Cardinality(Uncounted(s, id))
             more == Weight(q, s, id)
             less == Weight(r, s, id)
             Kept ==
               /\ tally[u].ever + more <= tally'[u].ever + less
               /\ attempts'[k].count + late + more <= tally'[u].ever + less
               /\ Owes(q, s, id) /\ q.pc = "write" /\ q.todo = {s} =>
                    q.row.count + late + more <= tally'[u].ever + less
  <1>1. /\ now \in Nat \ {0} /\ attempts \in [Keys -> AttemptRow]
        /\ request \in [Requests -> RequestRecord] /\ tally \in [Subjects -> TallyRecord]
        /\ ThrottleTypeOK
    BY TypesSplit DEF ThrottleTypes
  <1>2. /\ now' = now /\ request' \in [Requests -> RequestRecord]
        /\ \A v \in Requests : v # w => request'[v] = request[v]
        /\ \/ Arrived(w) \/ Looked(w) \/ Passes(w) \/ Leaves(w) \/ Failed(w)
           \/ Succeeded(w) \/ HasRead(w) \/ Wrote(w, "ip") \/ Wrote(w, "ip_email")
           \/ Cleared(w)
    BY Effects
  <1>3. /\ attempts' \in [Keys -> AttemptRow] /\ tally' \in [Subjects -> TallyRecord]
        /\ ThrottleTypes'
    BY TypesMove, TypesSplitNext
  <1>4. /\ k \in Keys /\ u \in Subjects /\ r.id \in Identities /\ r.row \in AttemptRow
    BY <1>1, KeyFacts DEF RequestRecord
  <1>5. /\ attempts[k].count \in Nat /\ attempts'[k].count \in Nat
        /\ tally[u].ever \in Nat /\ tally'[u].ever \in Nat /\ r.row.count \in Nat
    BY <1>1, <1>3, <1>4 DEF AttemptRow, TallyRecord
  <1>6. /\ late \in Nat /\ attempts[k].count + late <= tally[u].ever
        /\ Owes(r, s, id) /\ r.pc = "write" /\ r.todo = {s} => r.row.count + late <= tally[u].ever
    <2>1. CountOK(s, id)
      BY DEF CountInv
    <2> QED  BY <2>1, FS_CardinalityType DEF CountOK, Uncounted
  <1>7. more \in {0, 1} /\ less \in {0, 1}
    BY DEF Weight
  <1>8. \A x : x.pc \notin Recording => ~Owes(x, s, id) /\ Weight(x, s, id) = 0
    BY DEF Owes, Weight
  <1> SUFFICES Kept
    BY <1>2, <1>3, <1>5, CountKept DEF CountInv
  <1> HIDE DEF k, u, r, q, late, more, less
  <1>9. ASSUME q.pc \notin Recording, attempts'[k].count <= attempts[k].count,
               tally'[u].ever = tally[u].ever
        PROVE  Kept
    BY <1>5, <1>6, <1>7, <1>8, <1>9 DEF more
  <1>10. ASSUME q.pc \notin Recording, Quiet
         PROVE  Kept
    BY <1>5, <1>9, <1>10 DEF Quiet
  <1>11. CASE Arrived(w) \/ Looked(w) \/ Passes(w) \/ Leaves(w) \/ Succeeded(w)
    <2>1. q.pc \notin Recording
      BY <1>11, NoRequestType DEF Arrived, Looked, Passes, Leaves, Succeeded, Gone, Recording, q
    <2>2. Quiet
      BY <1>11 DEF Arrived, Looked, Passes, Leaves, Succeeded
    <2> QED  BY <1>10, <2>1, <2>2
  <1>12. CASE Failed(w)
    <2>1. r.pc \notin Recording /\ less = 0
      BY <1>8, <1>12 DEF Failed, Recording, r, less
    <2>2. /\ q.pc = "read" /\ q.todo = {"ip"} /\ q.id = r.id
      BY <1>12 DEF Failed, q, r
    <2>3. more = IF Subject(s, r.id) = u THEN 1 ELSE 0
      BY <2>2 DEF Weight, Owes, Recording, more, u
    <2>4. PICK guess \in BOOLEAN : Tallied(r.id, guess)
      BY <1>12 DEF Failed, r
    <2>5. tally'[u].ever = tally[u].ever + more
      <3>1. IF u = Subject(s, r.id)
              THEN tally'[u] = Counted(s, tally[u], guess /\ r.id[1] \notin Unruly)
              ELSE tally'[u] = tally[u]
        BY <1>1, <1>4, <2>4, TallyTypes DEF u
      <3> QED  BY <1>5, <2>3, <3>1 DEF Counted
    <2>6. attempts' = attempts
      BY <1>12 DEF Failed
    <2> QED  BY <1>5, <1>6, <1>7, <2>1, <2>2, <2>5, <2>6
  <1>13. CASE HasRead(w)
    <2>1. PICK sc \in Scopes : r.todo = {sc} /\ q.todo = {sc} /\ q.row = attempts[Mine(w, sc)]
      BY <1>13 DEF HasRead, r, q
    <2>2. q.id = r.id /\ r.pc = "read" /\ q.pc = "write" /\ attempts' = attempts /\ tally' = tally
      BY <1>13 DEF HasRead, Same, Quiet, r, q
    <2>3. Owes(q, s, id) <=> Owes(r, s, id)
      BY <2>1, <2>2 DEF Owes, Recording
    <2>4. more = less
      BY <2>3 DEF more, less, Weight
    <2>5. Owes(q, s, id) /\ q.todo = {s} => q.row = attempts[k]
      <3> SUFFICES ASSUME Owes(q, s, id), q.todo = {s} PROVE Mine(w, sc) = k
        BY <2>1
      <3>1. sc = s /\ Subject(s, r.id) = Subject(s, id)
        BY <2>1, <2>2 DEF Owes
      <3> QED  BY <1>4, <3>1, KeysApart DEF Mine, k, r
    <2> QED  BY <1>5, <1>6, <1>7, <2>2, <2>4, <2>5
  <1>14. ASSUME NEW sc \in Scopes, Wrote(w, sc)
         PROVE  Kept
    <2>1. /\ r.pc = "write" /\ r.todo = {sc} /\ tally' = tally
          /\ IF sc = "ip" THEN q.pc = "read" /\ q.todo = {"ip_email"} /\ q.id = r.id
                          ELSE q.pc = "idle"
      BY <1>14, NoRequestType DEF Wrote, Same, Gone, r, q
    <2>2. CASE k = Mine(w, sc)
      <3>1. sc = s /\ Subject(s, r.id) = Subject(s, id)
        BY <1>4, <2>2, KeysApart DEF Mine, k, r
      <3>2. Owes(r, s, id) /\ less = 1
        BY <2>1, <3>1 DEF Owes, Recording, Weight, less
      <3>3. ~Owes(q, s, id) /\ more = 0
        BY <2>1, <3>1 DEF Owes, Recording, Weight, more, Scopes
      <3>4. attempts'[k] = AfterFailure(r.row, Policy[s], r.at)
        BY <1>14, <2>2, <3>1, WroteRow DEF r
      <3>5. r.at \in Nat \ {0}
        BY <1>1, <2>1 DEF ThrottleTypes, RequestOK, RequestRecord, Never, r
      <3>6. attempts'[k].count <= r.row.count + 1
        <4>1. AfterFailure(r.row, Policy[s], r.at).count \in 1 .. r.row.count + 1
          BY <1>4, <3>5, Failure
        <4> QED  BY <1>5, <3>4, <4>1
      <3> QED  BY <1>5, <1>6, <2>1, <3>1, <3>2, <3>3, <3>6
    <2>3. CASE k # Mine(w, sc)
      <3>1. attempts'[k] = attempts[k]
        BY <1>4, <1>14, <2>3, WroteRow
      <3>2. sc # s \/ Subject(s, r.id) # Subject(s, id)
        BY <1>4, <2>3, KeysApart DEF Mine, k, r
      <3>3. (Owes(q, s, id) <=> Owes(r, s, id)) /\ q.pc # "write"
        BY <2>1, <3>2 DEF Owes, Recording, Scopes
      <3>4. more = less
        BY <3>3 DEF more, less, Weight
      <3> QED  BY <1>5, <1>6, <1>7, <2>1, <3>1, <3>3, <3>4
    <2> QED  BY <2>2, <2>3
  <1>15. CASE Cleared(w)
    <2>1. q.pc \notin Recording
      BY <1>15, NoRequestType DEF Cleared, Gone, Recording, q
    <2>2. attempts'[k] \in {attempts[k], Empty} /\ tally'[u].ever = tally[u].ever
      BY <1>4, <1>15, ClearedRow
    <2>3. Empty.count = 0
      BY DEF Empty
    <2> QED  BY <1>5, <1>9, <2>1, <2>2, <2>3
  <1> QED  BY <1>2, <1>11, <1>12, <1>13, <1>14, <1>15 DEF Scopes

LEMMA CountInit == ThrottleInit => CountInv
  <1> SUFFICES ASSUME ThrottleInit, NEW s \in Scopes, NEW id \in Identities
               PROVE  CountOK(s, id)
    BY DEF CountInv
  <1>1. Uncounted(s, id) = {}
    BY NoRequestType DEF ThrottleInit, Uncounted, Owes, Recording
  <1>2. attempts[KeyOf(s, id)].count = 0 /\ tally[Subject(s, id)].ever = 0
    BY KeyFacts DEF ThrottleInit, Empty, NoTally
  <1> QED  BY <1>1, <1>2, FS_EmptySet DEF CountOK

LEMMA CountStep ==
    ThrottleTypes /\ CountInv /\ [ThrottleNext]_throttleVars => CountInv'
  <1> SUFFICES ASSUME ThrottleTypes, CountInv, [ThrottleNext]_throttleVars PROVE CountInv'
    OBVIOUS
  <1>1. ASSUME NEW w \in Requests, Moves(w) PROVE CountInv'
    BY <1>1, CountMove
  <1>2. CASE Sweep \/ Tick \/ UNCHANGED throttleVars
    <2>1. /\ request' = request /\ tally' = tally
          /\ \A k \in Keys : attempts'[k] \in {attempts[k], Empty}
      BY <1>2, TypesSplit DEF Sweep, Tick, throttleVars
    <2> SUFFICES ASSUME NEW s \in Scopes, NEW id \in Identities
                 PROVE  CountOK(s, id)'
      BY DEF CountInv
    <2>2. CountOK(s, id)
      BY DEF CountInv
    <2>3. Uncounted(s, id)' = Uncounted(s, id)
      BY <2>1 DEF Uncounted
    <2>4. /\ attempts[KeyOf(s, id)].count \in Nat /\ tally[Subject(s, id)].ever \in Nat
          /\ Cardinality(Uncounted(s, id)) \in Nat
      BY <2>2, TypesSplit, KeyFacts, FS_CardinalityType DEF CountOK, AttemptRow, TallyRecord
    <2>5. /\ attempts'[KeyOf(s, id)].count \in {attempts[KeyOf(s, id)].count, 0}
      BY <2>1, KeyFacts DEF Empty
    <2>6. attempts'[KeyOf(s, id)].count + Cardinality(Uncounted(s, id))
            <= tally[Subject(s, id)].ever
      BY <2>2, <2>4, <2>5 DEF CountOK
    <2> QED  BY <2>1, <2>2, <2>3, <2>6 DEF CountOK
  <1> QED  BY <1>1, <1>2 DEF ThrottleNext, Moves

-----------------------------------------------------------------------------
(* Orderly addresses are paced                                              *)

\* Nothing an address has changes: it stays paced.
LEMMA PaceElsewhere ==
    ASSUME ThrottleTypes, NEW ip \in Ips, PaceOK(ip), now' = now,
           \A v \in Requests : v \in Busy(ip) \/ v \in Busy(ip)' => request'[v] = request[v],
           \A s \in Scopes, id \in Identities : id[1] = ip =>
             /\ attempts'[KeyOf(s, id)] = attempts[KeyOf(s, id)]
             /\ tally'[Subject(s, id)] = tally[Subject(s, id)]
    PROVE  PaceOK(ip)'
  <1>1. Busy(ip)' = Busy(ip)
    BY DEF Busy
  <1>2. \A v \in Busy(ip) : v \in Requests /\ request'[v] = request[v]
                            /\ request[v].id[1] = ip /\ request[v].id \in Identities
    BY <1>1, TypesSplit DEF Busy, RequestRecord
  <1>3. \A v \in Busy(ip), s \in Scopes : attempts'[Mine(v, s)'] = attempts[Mine(v, s)]
    BY <1>2 DEF Mine
  <1>4. \A v, x \in Busy(ip)' : v = x
    BY <1>1 DEF PaceOK
  <1>5. \A v \in Busy(ip)', s \in Scopes : Verdict(request'[v], attempts'[Mine(v, s)'], s)
    BY <1>1, <1>2, <1>3 DEF PaceOK
  <1>6. ASSUME NEW s \in Scopes, NEW id \in Identities, id[1] = ip
        PROVE  LET t == tally'[Subject(s, id)]
                   a == attempts'[KeyOf(s, id)] IN
               /\ t.last <= now'
               /\ Busy(ip)' = {} => Good(t, a, Policy[s], now')
               /\ \A v \in Busy(ip)' : Served(request'[v], t, a, s, id)
    BY <1>1, <1>2, <1>6 DEF PaceOK
  <1> QED  BY <1>4, <1>5, <1>6 DEF PaceOK

\* What a step of the one request of an address has to keep.
LEMMA PaceServing ==
    ASSUME NEW ip \in Ips, NEW w \in Requests, Busy(ip) \subseteq {w},
           \A v \in Requests : v # w => request'[v] = request[v],
           request'[w].id[1] = ip,
           \A s \in Scopes, id \in Identities : id[1] = ip =>
             /\ tally'[Subject(s, id)].last <= now'
             /\ Served(request'[w], tally'[Subject(s, id)], attempts'[KeyOf(s, id)], s, id),
           \A s \in Scopes : Verdict(request'[w], attempts'[KeyOf(s, request'[w].id)], s),
           request'[w].pc # "idle"
    PROVE  PaceOK(ip)'
  <1>1. Busy(ip)' = {w}
    BY DEF Busy
  <1>2. \A s \in Scopes : Mine(w, s)' = KeyOf(s, request'[w].id)
    BY DEF Mine
  <1>3. \A v \in Busy(ip)', s \in Scopes : Verdict(request'[v], attempts'[Mine(v, s)'], s)
    BY <1>1, <1>2
  <1> QED  BY <1>1, <1>3 DEF PaceOK

LEMMA PaceDone ==
    ASSUME NEW ip \in Ips, NEW w \in Requests, Busy(ip) \subseteq {w},
           \A v \in Requests : v # w => request'[v] = request[v],
           request'[w].pc = "idle",
           \A s \in Scopes, id \in Identities : id[1] = ip =>
             /\ tally'[Subject(s, id)].last <= now'
             /\ Good(tally'[Subject(s, id)], attempts'[KeyOf(s, id)], Policy[s], now')
    PROVE  PaceOK(ip)'
  <1>1. Busy(ip)' = {}
    BY DEF Busy
  <1> QED  BY <1>1 DEF PaceOK

\* What PaceOK says of the one request in progress.
LEMMA PaceFacts ==
    ASSUME ThrottleTypes, NEW ip \in Ips, PaceOK(ip), NEW w \in Busy(ip)
    PROVE  /\ w \in Requests /\ request[w] \in RequestRecord
           /\ Busy(ip) = {w} /\ request[w].pc # "idle" /\ request[w].id[1] = ip
           /\ request[w].at \in Nat \ {0} /\ request[w].at <= now
           /\ now <= request[w].at + Delay /\ request[w].id \in Identities
           /\ \A s \in Scopes : /\ Mine(w, s) \in Keys
                                /\ attempts[Mine(w, s)] \in AttemptRow
                                /\ RowOK(attempts[Mine(w, s)], Policy[s], now)
                                /\ Verdict(request[w], attempts[Mine(w, s)], s)
           /\ \A s \in Scopes, id \in Identities : id[1] = ip =>
                LET t == tally[Subject(s, id)]
                    a == attempts[KeyOf(s, id)] IN
                /\ t \in TallyRecord /\ a \in AttemptRow
                /\ RowOK(a, Policy[s], now)
                /\ t.last <= now
                /\ Served(request[w], t, a, s, id)
  <1>1. /\ w \in Requests /\ request[w].pc # "idle" /\ request[w].id[1] = ip
    BY DEF Busy
  <1>2. /\ request[w] \in RequestRecord /\ request[w].at \in Nat /\ request[w].id \in Identities
        /\ RequestOK(request[w], now) /\ now \in Nat
    BY <1>1, TypesSplit DEF RequestRecord
  <1>3. /\ request[w].at \in Nat \ {0} /\ request[w].at <= now
        /\ now <= request[w].at + Delay
    BY <1>1, <1>2 DEF RequestOK, Never
  <1>4. ASSUME NEW s \in Scopes, NEW id \in Identities
        PROVE  /\ tally[Subject(s, id)] \in TallyRecord /\ attempts[KeyOf(s, id)] \in AttemptRow
               /\ RowOK(attempts[KeyOf(s, id)], Policy[s], now) /\ KeyOf(s, id) \in Keys
    BY TypesSplit, KeyFacts
  <1>5. Busy(ip) = {w}
    BY DEF PaceOK
  <1>6. \A s \in Scopes : /\ Mine(w, s) \in Keys
                          /\ attempts[Mine(w, s)] \in AttemptRow
                          /\ RowOK(attempts[Mine(w, s)], Policy[s], now)
                          /\ Verdict(request[w], attempts[Mine(w, s)], s)
    BY <1>2, <1>4 DEF Mine, PaceOK
  <1>7. \A s \in Scopes, id \in Identities : id[1] = ip =>
          tally[Subject(s, id)].last <= now
          /\ Served(request[w], tally[Subject(s, id)], attempts[KeyOf(s, id)], s, id)
    BY DEF PaceOK
  <1> QED  BY <1>1, <1>2, <1>3, <1>4, <1>5, <1>6, <1>7

\* A request outside of a write leaves the counters as they are.
LEMMA ComingIdle ==
    ASSUME NEW r, NEW a, NEW s, NEW id, r.pc \notin Recording
    PROVE  Coming(r, a, s, id) = a
  BY DEF Coming, Owes

LEMMA PaceArrived ==
    ASSUME ThrottleTypes, NEW ip \in Ips, PaceOK(ip), NEW w \in Requests, Moves(w),
           Busy(ip) = {}, request'[w].id[1] = ip, Arrived(w)
    PROVE  PaceOK(ip)'
  <1>1. /\ now' = now /\ \A v \in Requests : v # w => request'[v] = request[v]
    BY Effects
  <1>2. /\ request'[w].pc = "check" /\ request'[w].at = now /\ request'[w].todo = Scopes
        /\ attempts' = attempts /\ tally' = tally
    BY DEF Arrived, Quiet
  <1>3. \A s \in Scopes : Verdict(request'[w], attempts'[KeyOf(s, request'[w].id)], s)
    BY <1>2 DEF Verdict
  <1>4. ASSUME NEW s \in Scopes, NEW id \in Identities, id[1] = ip
        PROVE  /\ tally'[Subject(s, id)].last <= now'
               /\ Served(request'[w], tally'[Subject(s, id)], attempts'[KeyOf(s, id)], s, id)
    <2>1. /\ tally[Subject(s, id)].last <= now
          /\ Good(tally[Subject(s, id)], attempts[KeyOf(s, id)], Policy[s], now)
      BY <1>4 DEF PaceOK
    <2>2. RowOK(attempts[KeyOf(s, id)], Policy[s], now)
      BY TypesSplit, KeyFacts
    <2>3. Coming(request'[w], attempts[KeyOf(s, id)], s, id) = attempts[KeyOf(s, id)]
      BY <1>2, ComingIdle DEF Recording
    <2> QED  BY <1>1, <1>2, <2>1, <2>2, <2>3 DEF Served, RowOK
  <1> QED  BY <1>1, <1>2, <1>3, <1>4, PaceServing

\* The requests of an orderly address pass their check only when no lock is
\* left.
LEMMA PaceChecked ==
    ASSUME ThrottleTypes, NEW ip \in Ips, PaceOK(ip), NEW w \in Busy(ip), Moves(w),
           Looked(w) \/ Passes(w) \/ Succeeded(w)
    PROVE  PaceOK(ip)'
  <1>1. /\ w \in Requests /\ request[w].at \in Nat /\ now' = now
        /\ \A v \in Requests : v # w => request'[v] = request[v]
    BY PaceFacts, Effects
  <1>2. /\ Busy(ip) = {w} /\ request[w].id[1] = ip /\ request'[w].id = request[w].id
        /\ request'[w].at = request[w].at /\ attempts' = attempts /\ tally' = tally
        /\ request[w].pc \in {"check", "handler"} /\ request'[w].pc \in {"check", "handler", "clear"}
    BY PaceFacts DEF Looked, Passes, Succeeded, Same, Quiet
  <1>3. \A s \in Scopes : Mine(w, s) = KeyOf(s, request'[w].id)
    BY <1>2 DEF Mine
  <1>4. \A s \in Scopes : ~Refuses(w, s) => attempts[Mine(w, s)].until <= request[w].at
    BY <1>1, PaceFacts, Passed DEF Refuses
  <1>5. ASSUME NEW s \in Scopes
        PROVE  Verdict(request'[w], attempts'[KeyOf(s, request'[w].id)], s)
    <2>1. Verdict(request[w], attempts[Mine(w, s)], s)
      BY PaceFacts
    <2>2. CASE Looked(w)
      BY <1>2, <1>3, <1>4, <2>1, <2>2 DEF Looked, Verdict
    <2>3. CASE Passes(w)
      BY <1>2, <1>3, <1>4, <2>1, <2>3 DEF Passes, Verdict
    <2>4. CASE Succeeded(w)
      BY <1>2, <1>3, <2>1, <2>4 DEF Succeeded, Verdict
    <2> QED  BY <2>2, <2>3, <2>4
  <1>6. ASSUME NEW s \in Scopes, NEW id \in Identities, id[1] = ip
        PROVE  /\ tally'[Subject(s, id)].last <= now'
               /\ Served(request'[w], tally'[Subject(s, id)], attempts'[KeyOf(s, id)], s, id)
    <2>1. /\ tally[Subject(s, id)].last <= now
          /\ Served(request[w], tally[Subject(s, id)], attempts[KeyOf(s, id)], s, id)
      BY <1>6, PaceFacts
    <2>2. \A a : Coming(request[w], a, s, id) = a /\ Coming(request'[w], a, s, id) = a
      BY <1>2, ComingIdle DEF Recording
    <2> QED  BY <1>1, <1>2, <2>1, <2>2 DEF Served
  <1>7. request'[w].pc # "idle"
    BY <1>2
  <1> QED  BY <1>1, <1>2, <1>5, <1>6, <1>7, PaceServing

\* A request that ends without a failure leaves what it found.
LEMMA PaceLeft ==
    ASSUME ThrottleTypes, NEW ip \in Ips, PaceOK(ip), NEW w \in Busy(ip), Moves(w),
           ip \notin Unruly, Leaves(w)
    PROVE  PaceOK(ip)'
  <1>1. /\ w \in Requests /\ request[w].at \in Nat /\ now' = now /\ request[w].at <= now
        /\ \A v \in Requests : v # w => request'[v] = request[v]
        /\ Busy(ip) = {w} /\ request[w].id[1] = ip /\ now \in Nat
    BY PaceFacts, Effects, TypesSplit
  <1>2. /\ request[w].pc \notin Recording /\ request'[w].pc = "idle"
        /\ attempts' = attempts /\ tally' = tally
    BY <1>1, NoRequestType DEF Leaves, Gone, Quiet, Recording
  <1>3. ASSUME NEW s \in Scopes, NEW id \in Identities, id[1] = ip
        PROVE  /\ tally'[Subject(s, id)].last <= now'
               /\ Good(tally'[Subject(s, id)], attempts'[KeyOf(s, id)], Policy[s], now')
    <2>1. /\ tally[Subject(s, id)].last <= now /\ tally[Subject(s, id)] \in TallyRecord
          /\ Served(request[w], tally[Subject(s, id)], attempts[KeyOf(s, id)], s, id)
      BY <1>3, PaceFacts
    <2>2. Good(tally[Subject(s, id)], attempts[KeyOf(s, id)], Policy[s], request[w].at)
      BY <1>2, <2>1, ComingIdle DEF Served
    <2> QED  BY <1>1, <1>2, <2>1, <2>2, GoodAges
  <1> QED  BY <1>1, <1>2, <1>3, PaceDone

\* A failure is told to the counter before the next request.
LEMMA PaceFailed ==
    ASSUME ThrottleTypes, NEW ip \in Ips, PaceOK(ip), NEW w \in Busy(ip), Moves(w),
           ip \notin Unruly, Failed(w)
    PROVE  PaceOK(ip)'
  <1> DEFINE r == request[w]
             q == request'[w]
  <1>1. /\ w \in Requests /\ r.at \in Nat /\ now' = now /\ r.at <= now
        /\ \A v \in Requests : v # w => request'[v] = request[v]
        /\ Busy(ip) = {w} /\ r.id[1] = ip /\ now \in Nat \ {0} /\ r.id \in Identities
        /\ ThrottleTypeOK
    BY PaceFacts, Effects, TypesSplit DEF ThrottleTypes
  <1>2. /\ r.pc \notin Recording /\ q.pc = "read" /\ q.todo = {"ip"} /\ q.id = r.id
        /\ q.at = now /\ attempts' = attempts
    BY DEF Failed, Recording
  <1>3. PICK guess \in BOOLEAN : Tallied(r.id, guess)
    BY DEF Failed
  <1> HIDE DEF r, q
  <1>4. \A s \in Scopes : Verdict(q, attempts'[KeyOf(s, q.id)], s)
    BY <1>2 DEF Verdict
  <1>5. ASSUME NEW s \in Scopes, NEW id \in Identities, id[1] = ip
        PROVE  /\ tally'[Subject(s, id)].last <= now
               /\ Served(q, tally'[Subject(s, id)], attempts'[KeyOf(s, id)], s, id)
    <2> DEFINE t == tally[Subject(s, id)]
               u == tally'[Subject(s, id)]
               a == attempts[KeyOf(s, id)]
    <2>1. /\ t \in TallyRecord /\ a \in AttemptRow /\ t.last <= now
          /\ Served(r, t, a, s, id)
      BY <1>5, PaceFacts DEF r
    <2>2. t.last <= r.at /\ a.last <= r.at /\ Good(t, a, Policy[s], r.at)
      BY <1>2, <2>1, ComingIdle DEF Served
    <2>3. t.last \in Nat /\ a.last \in Nat /\ a.last <= now
      BY <1>1, <2>1, <2>2 DEF TallyRecord, AttemptRow
    <2>4. CASE Subject(s, id) = Subject(s, r.id)
      <3>1. u = Counted(s, t, guess) /\ u \in TallyRecord
        <4>1. tally' \in [Subjects -> TallyRecord] /\ Subject(s, id) \in Subjects
          BY <1>1, <1>3, TallyTypes, KeyFacts
        <4>2. u = Counted(s, t, guess /\ r.id[1] \notin Unruly)
          BY <1>1, <1>3, <2>4, TallyTypes
        <4> QED  BY <1>1, <4>1, <4>2
      <3>2. Coming(q, a, s, id) = AfterFailure(a, Policy[s], now)
        BY <1>2, <2>4 DEF Coming, Owes, Recording
      <3>3. Good(t, AfterFailure(a, Policy[s], now), Policy[s], now)
        BY <1>1, <2>1, <2>2, GoodFails
      <3>4. \A x \in TallyRecord :
              /\ x.last = now
              /\ x.run = IF t.last # Never /\ now < t.last + Policy[s].ttl THEN t.run + 1 ELSE 1
              => Good(x, AfterFailure(a, Policy[s], now), Policy[s], now)
        BY <1>1, <2>1, <2>2, GoodFails
      <3> HIDE DEF t, u, a
      <3>5. CASE guess
        <4>1. /\ u.last = now
              /\ u.run = IF t.last # Never /\ now < t.last + Policy[s].ttl THEN t.run + 1 ELSE 1
          BY <3>1, <3>5 DEF Counted
        <4> QED  BY <1>1, <1>2, <2>3, <3>1, <3>2, <3>4, <4>1 DEF Served, a, u
      <3>6. CASE ~guess
        <4>1. u.last = t.last /\ u.run = t.run
          BY <3>1, <3>6 DEF Counted
        <4>2. Good(u, AfterFailure(a, Policy[s], now), Policy[s], now)
          BY <3>3, <4>1 DEF Good
        <4> QED  BY <1>1, <1>2, <2>1, <2>3, <3>2, <4>1, <4>2 DEF Served, a, u
      <3> QED  BY <3>5, <3>6
    <2>5. CASE Subject(s, id) # Subject(s, r.id)
      <3>1. u = t
        BY <1>1, <1>3, <2>5, TallyTypes
      <3>2. Coming(q, a, s, id) = a
        BY <1>2, <2>5 DEF Coming, Owes
      <3>3. Good(t, a, Policy[s], now)
        BY <1>1, <2>1, <2>2, GoodAges
      <3> QED  BY <1>2, <2>1, <2>3, <3>1, <3>2, <3>3 DEF Served
    <2> QED  BY <2>4, <2>5
  <1> QED  BY <1>1, <1>2, <1>4, <1>5, PaceServing DEF q, r

\* Reading the counter does not change what will be written.
LEMMA PaceRead ==
    ASSUME ThrottleTypes, NEW ip \in Ips, PaceOK(ip), NEW w \in Busy(ip), Moves(w), HasRead(w)
    PROVE  PaceOK(ip)'
  <1> DEFINE r == request[w]
             q == request'[w]
  <1>1. /\ w \in Requests /\ now' = now /\ r.id \in Identities
        /\ \A v \in Requests : v # w => request'[v] = request[v]
        /\ Busy(ip) = {w} /\ r.id[1] = ip
    BY PaceFacts, Effects
  <1>2. PICK sc \in Scopes : r.todo = {sc} /\ q.todo = {sc} /\ q.row = attempts[Mine(w, sc)]
    BY DEF HasRead
  <1>3. /\ r.pc = "read" /\ q.pc = "write" /\ q.id = r.id /\ q.at = r.at
        /\ attempts' = attempts /\ tally' = tally
    BY DEF HasRead, Same, Quiet
  <1>4. \A s \in Scopes : Mine(w, s) = KeyOf(s, r.id)
    BY DEF Mine
  <1> HIDE DEF r, q
  <1>5. \A s \in Scopes : Verdict(q, attempts'[KeyOf(s, q.id)], s)
    BY <1>2, <1>3, <1>4 DEF Verdict
  <1>6. ASSUME NEW s \in Scopes, NEW id \in Identities, id[1] = ip
        PROVE  /\ tally'[Subject(s, id)].last <= now'
               /\ Served(q, tally'[Subject(s, id)], attempts'[KeyOf(s, id)], s, id)
    <2> DEFINE a == attempts[KeyOf(s, id)]
    <2>1. /\ tally[Subject(s, id)].last <= now
          /\ Served(r, tally[Subject(s, id)], a, s, id)
      BY <1>6, PaceFacts DEF r
    <2>2. Owes(q, s, id) <=> Owes(r, s, id)
      BY <1>2, <1>3 DEF Owes, Recording
    <2>3. Owes(q, s, id) /\ q.todo = {s} => q.row = a
      <3> SUFFICES ASSUME Owes(q, s, id), q.todo = {s} PROVE Mine(w, sc) = KeyOf(s, id)
        BY <1>2
      <3>1. sc = s /\ Subject(s, r.id) = Subject(s, id)
        BY <1>2, <1>3 DEF Owes
      <3> QED  BY <1>1, <1>4, <3>1, KeysApart
    <2>4. Coming(q, a, s, id) = Coming(r, a, s, id)
      BY <1>3, <2>2, <2>3 DEF Coming
    <2> QED  BY <1>1, <1>3, <2>1, <2>4 DEF Served
  <1>7. q.pc # "idle"
    BY <1>3
  <1> QED  BY <1>1, <1>3, <1>5, <1>6, <1>7, PaceServing DEF q

\* A write makes of its counter what was coming, of the others nothing.
LEMMA WroteComing ==
    ASSUME ThrottleTypes, NEW ip \in Ips, PaceOK(ip), NEW w \in Busy(ip),
           NEW sc \in Scopes, Wrote(w, sc), NEW s \in Scopes, NEW id \in Identities, id[1] = ip
    PROVE  LET t == tally[Subject(s, id)]
               a == attempts[KeyOf(s, id)]
               b == attempts'[KeyOf(s, id)] IN
           /\ IF s = sc /\ Subject(s, id) = Subject(s, request[w].id)
                THEN b = Coming(request[w], a, s, id) /\ b.last = request[w].at
                ELSE b = a /\ a.last <= request[w].at
           /\ t.last <= request[w].at /\ t.last <= now
           /\ Good(t, Coming(request[w], a, s, id), Policy[s], request[w].at)
  <1> DEFINE r == request[w]
             a == attempts[KeyOf(s, id)]
             b == attempts'[KeyOf(s, id)]
  <1>1. /\ w \in Requests /\ r.id \in Identities /\ r.at \in Nat \ {0} /\ r.row \in AttemptRow
        /\ Served(r, tally[Subject(s, id)], a, s, id) /\ tally[Subject(s, id)].last <= now
    BY PaceFacts DEF RequestRecord
  <1>2. r.pc = "write" /\ r.todo = {sc} /\ KeyOf(s, id) \in Keys
    BY KeyFacts DEF Wrote
  <1>3. Mine(w, sc) = KeyOf(s, id) <=> s = sc /\ Subject(s, id) = Subject(s, r.id)
    BY <1>1, KeysApart DEF Mine
  <1>4. CASE s = sc /\ Subject(s, id) = Subject(s, r.id)
    <2>1. b = AfterFailure(r.row, Policy[s], r.at)
      BY <1>1, <1>3, <1>4, WroteRow
    <2>2. Coming(r, a, s, id) = AfterFailure(r.row, Policy[s], r.at)
      BY <1>2, <1>4 DEF Coming, Owes, Recording
    <2>3. AfterFailure(r.row, Policy[s], r.at).last = r.at
      BY <1>1, Failure
    <2> QED  BY <1>1, <1>4, <2>1, <2>2, <2>3 DEF Served
  <1>5. CASE ~(s = sc /\ Subject(s, id) = Subject(s, r.id))
    <2>1. b = a
      BY <1>1, <1>2, <1>3, <1>5, WroteRow
    <2> QED  BY <1>1, <1>5, <2>1 DEF Served
  <1> QED  BY <1>4, <1>5

LEMMA PaceWrote ==
    ASSUME ThrottleTypes, NEW ip \in Ips, PaceOK(ip), NEW w \in Busy(ip), Moves(w),
           NEW sc \in Scopes, Wrote(w, sc)
    PROVE  PaceOK(ip)'
  <1> DEFINE r == request[w]
             q == request'[w]
  <1>1. /\ w \in Requests /\ now' = now /\ r.id \in Identities
        /\ \A v \in Requests : v # w => request'[v] = request[v]
        /\ Busy(ip) = {w} /\ r.id[1] = ip /\ r.at \in Nat /\ r.at <= now /\ now \in Nat
    BY PaceFacts, Effects, TypesSplit
  <1>2. r.pc = "write" /\ r.todo = {sc} /\ tally' = tally
    BY DEF Wrote
  <1>3. CASE sc = "ip"
    <2>1. q.pc = "read" /\ q.todo = {"ip_email"} /\ q.id = r.id /\ q.at = r.at
      BY <1>3 DEF Wrote, Same
    <2> HIDE DEF r, q
    <2>2. \A s \in Scopes : Verdict(q, attempts'[KeyOf(s, q.id)], s)
      BY <2>1 DEF Verdict
    <2>3. ASSUME NEW s \in Scopes, NEW id \in Identities, id[1] = ip
          PROVE  /\ tally'[Subject(s, id)].last <= now'
                 /\ Served(q, tally'[Subject(s, id)], attempts'[KeyOf(s, id)], s, id)
      <3> DEFINE t == tally[Subject(s, id)]
                 a == attempts[KeyOf(s, id)]
                 b == attempts'[KeyOf(s, id)]
      <3>1. /\ IF s = sc /\ Subject(s, id) = Subject(s, r.id)
                 THEN b = Coming(r, a, s, id) /\ b.last = r.at
                 ELSE b = a /\ a.last <= r.at
            /\ t.last <= r.at /\ t.last <= now
            /\ Good(t, Coming(r, a, s, id), Policy[s], r.at)
        BY <2>3, WroteComing DEF r
      <3>2. b.last <= r.at
        BY <1>1, <3>1
      <3>3. Coming(q, b, s, id) = Coming(r, a, s, id)
        <4>1. CASE s = "ip"
          <5>1. Subject(s, id) = Subject(s, r.id)
            BY <1>1, <2>3, <4>1 DEF Subject
          <5>2. ~Owes(q, s, id)
            BY <2>1, <4>1 DEF Owes
          <5> QED  BY <1>3, <3>1, <4>1, <5>1, <5>2 DEF Coming
        <4>2. CASE s = "ip_email"
          <5>1. Owes(q, s, id) <=> Owes(r, s, id)
            BY <1>2, <1>3, <2>1, <4>2 DEF Owes, Recording
          <5>2. b = a /\ r.todo # {s} /\ q.pc # "write"
            BY <1>2, <1>3, <2>1, <3>1, <4>2
          <5> QED  BY <2>1, <5>1, <5>2 DEF Coming
        <4> QED  BY <4>1, <4>2 DEF Scopes
      <3> QED  BY <1>1, <1>2, <2>1, <3>1, <3>2, <3>3 DEF Served
    <2>4. q.pc # "idle"
      BY <2>1
    <2> QED  BY <1>1, <2>1, <2>2, <2>3, <2>4, PaceServing DEF q
  <1>4. CASE sc = "ip_email"
    <2>1. q.pc = "idle"
      BY <1>4, NoRequestType DEF Wrote, Gone
    <2>2. ASSUME NEW s \in Scopes, NEW id \in Identities, id[1] = ip
          PROVE  /\ tally'[Subject(s, id)].last <= now'
                 /\ Good(tally'[Subject(s, id)], attempts'[KeyOf(s, id)], Policy[s], now')
      <3> DEFINE t == tally[Subject(s, id)]
                 a == attempts[KeyOf(s, id)]
                 b == attempts'[KeyOf(s, id)]
      <3>1. /\ IF s = sc /\ Subject(s, id) = Subject(s, r.id)
                 THEN b = Coming(r, a, s, id) /\ b.last = r.at
                 ELSE b = a /\ a.last <= r.at
            /\ t.last <= r.at /\ t.last <= now
            /\ Good(t, Coming(r, a, s, id), Policy[s], r.at)
        BY <2>2, WroteComing
      <3>2. b = Coming(r, a, s, id)
        <4>1. CASE s = sc /\ Subject(s, id) = Subject(s, r.id)
          BY <3>1, <4>1
        <4>2. CASE ~(s = sc /\ Subject(s, id) = Subject(s, r.id))
          <5>1. ~Owes(r, s, id)
            BY <1>2, <1>4, <4>2 DEF Owes
          <5> QED  BY <3>1, <4>2, <5>1 DEF Coming
        <4> QED  BY <4>1, <4>2
      <3>3. t \in TallyRecord
        BY TypesSplit, KeyFacts
      <3> HIDE DEF t, b, a, r
      <3>4. Good(t, b, Policy[s], now)
        BY <1>1, <3>1, <3>2, <3>3, GoodAges
      <3> QED  BY <1>1, <1>2, <3>1, <3>4 DEF t, b
    <2> QED  BY <1>1, <2>1, <2>2, PaceDone
  <1> QED  BY <1>3, <1>4 DEF Scopes

\* A success ends the run at the email it clears, and clears no other.
LEMMA PaceCleared ==
    ASSUME ThrottleTypes, NEW ip \in Ips, PaceOK(ip), NEW w \in Busy(ip), Moves(w), Cleared(w)
    PROVE  PaceOK(ip)'
  <1> DEFINE r == request[w]
  <1>1. /\ w \in Requests /\ now' = now /\ r.id \in Identities
        /\ \A v \in Requests : v # w => request'[v] = request[v]
        /\ Busy(ip) = {w} /\ r.id[1] = ip /\ r.at \in Nat /\ r.at <= now /\ now \in Nat
    BY PaceFacts, Effects, TypesSplit
  <1>2. r.pc \notin Recording /\ request'[w].pc = "idle"
    BY NoRequestType DEF Cleared, Gone, Recording
  <1>3. ASSUME NEW s \in Scopes, NEW id \in Identities, id[1] = ip
        PROVE  /\ tally'[Subject(s, id)].last <= now'
               /\ Good(tally'[Subject(s, id)], attempts'[KeyOf(s, id)], Policy[s], now')
    <2> DEFINE t == tally[Subject(s, id)]
               a == attempts[KeyOf(s, id)]
    <2>1. t.last <= now /\ t \in TallyRecord /\ Served(r, t, a, s, id)
      BY <1>3, PaceFacts
    <2>2. Good(t, a, Policy[s], r.at)
      BY <1>2, <2>1, ComingIdle DEF Served
    <2>3. Good(t, a, Policy[s], now)
      BY <1>1, <2>1, <2>2, GoodAges
    <2>4. Subject(s, id) \in Subjects /\ KeyOf(s, id) \in Keys
      BY KeyFacts
    <2>5. CASE Subject(s, id) = r.id
      <3>1. tally'[Subject(s, id)].run = 0 /\ tally'[Subject(s, id)].last = t.last
        BY <1>1, <2>4, <2>5, ClearedRow
      <3> QED  BY <1>1, <2>1, <3>1 DEF Good
    <2>6. CASE Subject(s, id) # r.id
      <3>1. Subject("ip_email", r.id) = r.id
        BY <1>1, KeysApart
      <3>2. KeyOf(s, id) # Mine(w, "ip_email")
        <4>1. "ip_email" \in Scopes
          BY DEF Scopes
        <4>2. KeyOf(s, id) = KeyOf("ip_email", r.id) =>
                s = "ip_email" /\ Subject(s, id) = Subject("ip_email", r.id)
          BY <1>1, <4>1, KeysApart
        <4> QED  BY <2>6, <3>1, <4>2 DEF Mine
      <3>3. attempts'[KeyOf(s, id)] = a /\ tally'[Subject(s, id)] = t
        BY <1>1, <2>4, <2>6, <3>2, ClearedRow
      <3> QED  BY <1>1, <2>1, <2>3, <3>3
    <2> QED  BY <2>5, <2>6
  <1> QED  BY <1>1, <1>2, <1>3, PaceDone

LEMMA PaceMove ==
    ASSUME ThrottleTypes, PaceInv, NEW w \in Requests, Moves(w)
    PROVE  PaceInv'
  <1> SUFFICES ASSUME NEW ip \in Ips \ Unruly
               PROVE  PaceOK(ip)'
    BY DEF PaceInv
  <1>1. PaceOK(ip)
    BY DEF PaceInv
  <1>2. /\ now' = now /\ request' \in [Requests -> RequestRecord]
        /\ \A v \in Requests : v # w => request'[v] = request[v]
        /\ \/ Arrived(w) \/ Looked(w) \/ Passes(w) \/ Leaves(w) \/ Failed(w)
           \/ Succeeded(w) \/ HasRead(w) \/ Wrote(w, "ip") \/ Wrote(w, "ip_email")
           \/ Cleared(w)
    BY Effects
  <1>3. "ip" \in Scopes /\ "ip_email" \in Scopes
    BY DEF Scopes
  <1>4. CASE w \in Busy(ip)
    <2>1. ~Arrived(w)
      BY <1>4 DEF Arrived, Busy
    <2> QED
      BY <1>1, <1>2, <1>3, <1>4, <2>1, PaceChecked, PaceLeft, PaceFailed, PaceRead, PaceWrote,
         PaceCleared
  <1>5. CASE w \notin Busy(ip)
    <2>1. CASE Arrived(w) /\ request'[w].id[1] = ip
      <3>1. Busy(ip) = {}
        BY <2>1 DEF Arrived
      <3> QED  BY <1>1, <2>1, <3>1, PaceArrived
    <2>2. CASE ~(Arrived(w) /\ request'[w].id[1] = ip)
      <3>1. ~Arrived(w) => request[w].pc # "idle" /\ request[w].id[1] # ip
        BY <1>2, <1>5 DEF Busy, Looked, Passes, Leaves, Failed, Succeeded, HasRead, Wrote, Cleared
      <3>2. w \notin Busy(ip)'
        BY <1>2, <2>2, <3>1, NoRequestType
           DEF Busy, Looked, Passes, Leaves, Failed, Succeeded, HasRead, Wrote, Cleared, Same, Gone
      <3>3. \A v \in Requests : v \in Busy(ip) \/ v \in Busy(ip)' => request'[v] = request[v]
        BY <1>2, <1>5, <3>2
      <3>4. ASSUME NEW s \in Scopes, NEW id \in Identities, id[1] = ip
            PROVE  /\ attempts'[KeyOf(s, id)] = attempts[KeyOf(s, id)]
                   /\ tally'[Subject(s, id)] = tally[Subject(s, id)]
        <4>1. /\ KeyOf(s, id) \in Keys /\ Subject(s, id) \in Subjects
              /\ request[w].id \in Identities /\ ThrottleTypeOK
          BY TypesSplit, KeyFacts DEF RequestRecord, ThrottleTypes
        <4>2. CASE Arrived(w) \/ Looked(w) \/ Passes(w) \/ Leaves(w) \/ Succeeded(w) \/ HasRead(w)
          BY <4>2 DEF Arrived, Looked, Passes, Leaves, Succeeded, HasRead, Quiet
        <4>3. ASSUME request[w].id[1] # ip
              PROVE  \A sc \in Scopes : /\ KeyOf(s, id) # Mine(w, sc)
                                        /\ Subject(s, id) # Subject(sc, request[w].id)
          BY <3>4, <4>1, <4>3, KeysApart DEF Mine
        <4>4. CASE Failed(w)
          <5>1. request[w].id[1] # ip
            BY <3>1, <4>4 DEF Failed, Arrived
          <5>2. attempts' = attempts
            BY <4>4 DEF Failed
          <5> QED  BY <4>1, <4>3, <4>4, <5>1, <5>2, TallyTypes DEF Failed
        <4>5. ASSUME NEW sc \in Scopes, Wrote(w, sc)
              PROVE  /\ attempts'[KeyOf(s, id)] = attempts[KeyOf(s, id)]
                     /\ tally'[Subject(s, id)] = tally[Subject(s, id)]
          <5>1. request[w].id[1] # ip
            BY <3>1, <4>5 DEF Wrote, Arrived
          <5>2. tally' = tally
            BY <4>5 DEF Wrote
          <5> QED  BY <4>1, <4>3, <4>5, <5>1, <5>2, WroteRow
        <4>6. CASE Cleared(w)
          <5>1. request[w].id[1] # ip
            BY <3>1, <4>6 DEF Cleared, Arrived
          <5>2. Subject("ip_email", request[w].id) = request[w].id
            BY <4>1, KeysApart
          <5> QED  BY <1>3, <4>1, <4>3, <4>6, <5>1, <5>2, ClearedRow
        <4> QED  BY <1>2, <1>3, <4>2, <4>4, <4>5, <4>6
      <3> QED  BY <1>1, <1>2, <3>3, <3>4, PaceElsewhere
    <2> QED  BY <2>1, <2>2
  <1> QED  BY <1>4, <1>5

\* The clock only lets more time pass.
LEMMA PaceTicked ==
    ASSUME ThrottleTypes, PaceInv, Tick
    PROVE  PaceInv'
  <1> SUFFICES ASSUME NEW ip \in Ips \ Unruly
               PROVE  PaceOK(ip)'
    BY DEF PaceInv
  <1>1. PaceOK(ip)
    BY DEF PaceInv
  <1>2. /\ now' = now + 1 /\ now \in Nat
        /\ attempts' = attempts /\ request' = request /\ tally' = tally
    BY TypesSplit DEF Tick
  <1>3. Busy(ip)' = Busy(ip)
    BY <1>2 DEF Busy
  <1>4. \A v \in Busy(ip), s \in Scopes :
          Verdict(request'[v], attempts'[Mine(v, s)'], s)
    BY <1>1, <1>2 DEF PaceOK, Mine
  <1>5. ASSUME NEW s \in Scopes, NEW id \in Identities, id[1] = ip
        PROVE  LET t == tally[Subject(s, id)]
                   a == attempts[KeyOf(s, id)] IN
               /\ t.last <= now'
               /\ Busy(ip) = {} => Good(t, a, Policy[s], now')
               /\ \A v \in Busy(ip) : Served(request[v], t, a, s, id)
    <2>1. tally[Subject(s, id)] \in TallyRecord /\ tally[Subject(s, id)].last \in Nat
      BY TypesSplit, KeyFacts DEF TallyRecord
    <2>2. /\ tally[Subject(s, id)].last <= now
          /\ Busy(ip) = {} => Good(tally[Subject(s, id)], attempts[KeyOf(s, id)], Policy[s], now)
          /\ \A v \in Busy(ip) :
               Served(request[v], tally[Subject(s, id)], attempts[KeyOf(s, id)], s, id)
      BY <1>1, <1>5 DEF PaceOK
    <2>3. Busy(ip) = {} => Good(tally[Subject(s, id)], attempts[KeyOf(s, id)], Policy[s], now + 1)
      BY <1>2, <2>1, <2>2, GoodAges
    <2> QED  BY <1>2, <2>1, <2>2, <2>3
  <1> QED  BY <1>1, <1>2, <1>3, <1>4, <1>5 DEF PaceOK

\* The sweep takes nothing a request would still have looked at.
LEMMA PaceSwept ==
    ASSUME ThrottleTypes, PaceInv, Sweep
    PROVE  PaceInv'
  <1> SUFFICES ASSUME NEW ip \in Ips \ Unruly
               PROVE  PaceOK(ip)'
    BY DEF PaceInv
  <1>1. PaceOK(ip)
    BY DEF PaceInv
  <1>2. /\ now' = now /\ now \in Nat /\ request' = request /\ tally' = tally
        /\ \A k \in Keys : \/ attempts'[k] = attempts[k]
                           \/ attempts'[k] = Empty /\ attempts[k].last + SweepAge < now
    BY TypesSplit DEF Sweep, Swept
  <1>3. Busy(ip)' = Busy(ip)
    BY <1>2 DEF Busy
  <1>4. ASSUME NEW v \in Busy(ip), NEW s \in Scopes
        PROVE  Verdict(request'[v], attempts'[Mine(v, s)'], s)
    <2>1. /\ Verdict(request[v], attempts[Mine(v, s)], s) /\ Mine(v, s) \in Keys
          /\ request[v].at \in Nat
      BY <1>1, PaceFacts
    <2>2. Mine(v, s)' = Mine(v, s)
      BY <1>2 DEF Mine
    <2>3. Empty.until = 0
      BY DEF Empty, Never
    <2> QED  BY <1>2, <2>1, <2>2, <2>3 DEF Verdict
  <1>5. ASSUME NEW s \in Scopes, NEW id \in Identities, id[1] = ip
        PROVE  LET t == tally[Subject(s, id)]
                   b == attempts'[KeyOf(s, id)] IN
               /\ t.last <= now
               /\ Busy(ip) = {} => Good(t, b, Policy[s], now)
               /\ \A v \in Busy(ip) : Served(request[v], t, b, s, id)
    <2> DEFINE t == tally[Subject(s, id)]
               a == attempts[KeyOf(s, id)]
               b == attempts'[KeyOf(s, id)]
    <2>1. /\ t \in TallyRecord /\ a \in AttemptRow /\ KeyOf(s, id) \in Keys
      BY TypesSplit, KeyFacts
    <2>2. /\ t.last <= now
          /\ Busy(ip) = {} => Good(t, a, Policy[s], now)
          /\ \A v \in Busy(ip) : Served(request[v], t, a, s, id)
      BY <1>1, <1>5 DEF PaceOK
    <2>3. CASE b = a
      BY <2>2, <2>3
    <2>4. CASE b = Empty /\ a.last + SweepAge < now
      <3>1. Busy(ip) = {} => Good(t, b, Policy[s], now)
        <4>1. now <= now + Delay
          BY <1>2, ThrottleBounds
        <4> QED  BY <1>2, <2>1, <2>2, <2>4, <4>1, SweptDecayed
      <3>2. ASSUME NEW v \in Busy(ip)
            PROVE  Served(request[v], t, b, s, id)
        <4>1. /\ request[v].at \in Nat /\ now <= request[v].at + Delay
              /\ Served(request[v], t, a, s, id)
          BY <1>1, <2>2, PaceFacts
        <4>2. /\ AfterFailure(a, Policy[s], request[v].at)
                   = AfterFailure(b, Policy[s], request[v].at)
              /\ Good(t, a, Policy[s], request[v].at) => Good(t, b, Policy[s], request[v].at)
          BY <1>2, <2>1, <2>4, <4>1, SweptDecayed
        <4>3. Empty.last = 0
          BY DEF Empty, Never
        <4>4. CASE Owes(request[v], s, id)
          <5>1. Coming(request[v], b, s, id) = Coming(request[v], a, s, id)
            BY <4>2, <4>4 DEF Coming
          <5> QED  BY <2>4, <4>1, <4>3, <5>1 DEF Served
        <4>5. CASE ~Owes(request[v], s, id)
          BY <2>4, <4>1, <4>2, <4>3, <4>5 DEF Served, Coming
        <4> QED  BY <4>4, <4>5
      <3> QED  BY <2>2, <3>1, <3>2
    <2> QED  BY <1>2, <2>1, <2>3, <2>4
  <1> QED  BY <1>1, <1>2, <1>3, <1>4, <1>5 DEF PaceOK

LEMMA PaceInit == ThrottleInit => PaceInv
  <1> SUFFICES ASSUME ThrottleInit, NEW ip \in Ips \ Unruly
               PROVE  PaceOK(ip)
    BY DEF PaceInv
  <1>1. Busy(ip) = {}
    BY NoRequestType DEF ThrottleInit, Busy
  <1>2. \A s \in Scopes, id \in Identities : tally[Subject(s, id)].last = 0
    BY KeyFacts DEF ThrottleInit, NoTally, Never
  <1>3. now = 1
    BY DEF ThrottleInit
  <1> QED  BY <1>1, <1>2, <1>3 DEF PaceOK, Good, Never

LEMMA PaceStep ==
    ThrottleTypes /\ PaceInv /\ [ThrottleNext]_throttleVars => PaceInv'
  <1> SUFFICES ASSUME ThrottleTypes, PaceInv, [ThrottleNext]_throttleVars PROVE PaceInv'
    OBVIOUS
  <1>1. ASSUME NEW w \in Requests, Moves(w) PROVE PaceInv'
    BY <1>1, PaceMove
  <1>2. CASE UNCHANGED throttleVars
    BY <1>2 DEF throttleVars, PaceInv, PaceOK, Busy, Mine
  <1> QED
    BY <1>1, <1>2, PaceSwept, PaceTicked DEF ThrottleNext, Moves

-----------------------------------------------------------------------------
(* Theorems                                                                 *)

ThrottleInv == ThrottleTypes /\ CountInv /\ PaceInv

LEMMA ThrottleInvariant == ThrottleSpec => []ThrottleInv
  <1>1. ThrottleInit => ThrottleInv
    BY TypesInit, CountInit, PaceInit DEF ThrottleInv
  <1>2. ThrottleInv /\ [ThrottleNext]_throttleVars => ThrottleInv'
    BY TypesStep, CountStep, PaceStep DEF ThrottleInv
  <1> QED  BY <1>1, <1>2, PTL DEF ThrottleSpec

\* Types of the throttle's counters and requests.
THEOREM ThrottleTyped == ThrottleSpec => []ThrottleTypeOK
  <1>1. ThrottleInv => ThrottleTypeOK
    BY DEF ThrottleInv, ThrottleTypes
  <1> QED  BY <1>1, ThrottleInvariant, PTL

\* A lock takes more failures of its own address, or address and email, than
\* are free, and is no longer than the maximum.
THEOREM NobodyElseLocks == ThrottleSpec => []OnlyOwnFailuresLock
  <1>1. ThrottleInv => OnlyOwnFailuresLock
    <2> SUFFICES ASSUME ThrottleInv, NEW s \in Scopes, NEW id \in Identities
                 PROVE  LET a == attempts[KeyOf(s, id)]
                            ever == tally[Subject(s, id)].ever IN
                        /\ a.count <= ever
                        /\ a.until # Never => ever > Policy[s].free /\ a.until <= now + Policy[s].max
      BY DEF OnlyOwnFailuresLock
    <2> DEFINE a == attempts[KeyOf(s, id)]
               ever == tally[Subject(s, id)].ever
    <2>1. /\ now \in Nat /\ a \in AttemptRow /\ RowOK(a, Policy[s], now) /\ ever \in Nat
          /\ CountOK(s, id)
      BY TypesSplit, KeyFacts DEF ThrottleInv, CountInv, TallyRecord
    <2>2. Cardinality(Uncounted(s, id)) \in Nat /\ a.count + Cardinality(Uncounted(s, id)) <= ever
      BY <2>1, FS_CardinalityType DEF CountOK
    <2>3. /\ a.count \in Nat /\ a.last \in Nat /\ a.until \in Nat
          /\ a.until <= a.last + Policy[s].max
          /\ a.until # Never => a.count > Policy[s].free
      BY <2>1, RowLocks
    <2>4. a.last <= now
      BY <2>1 DEF RowOK
    <2> HIDE DEF a, ever
    <2>5. a.count <= ever /\ (a.until # Never => ever > Policy[s].free /\ a.until <= now + Policy[s].max)
      BY <2>1, <2>2, <2>3, <2>4, PolicyTypes
    <2> QED  BY <2>5 DEF a, ever
  <1> QED  BY <1>1, ThrottleInvariant, PTL

\* The guesses of an orderly address keep to the curve.
THEOREM CurveKept == ThrottleSpec => []GuessesArePaced
  <1>1. ThrottleInv => GuessesArePaced
    <2> SUFFICES ASSUME ThrottleInv, NEW w \in Requests, NEW s \in Scopes,
                        request[w].pc = "handler", request[w].id[1] \notin Unruly,
                        tally[Subject(s, request[w].id)].last # Never
                 PROVE  LET t == tally[Subject(s, request[w].id)] IN
                        request[w].at >= t.last + Least(Policy[s].ttl, LockoutFor(t.run, Policy[s]))
      BY DEF GuessesArePaced
    <2> DEFINE id == request[w].id
               ip == request[w].id[1]
               at == request[w].at
               t == tally[Subject(s, id)]
               a == attempts[KeyOf(s, id)]
               l == LockoutFor(t.run, Policy[s])
               m == LockoutFor(a.count, Policy[s])
    <2>1. id \in Identities /\ ip \in Ips \ Unruly /\ w \in Busy(ip) /\ ThrottleTypes
      BY TypesSplit DEF ThrottleInv, RequestRecord, Identities, Busy
    <2>2. PaceOK(ip)
      BY <2>1 DEF ThrottleInv, PaceInv
    <2>3. /\ at \in Nat /\ t \in TallyRecord /\ a \in AttemptRow /\ RowOK(a, Policy[s], now)
          /\ Served(request[w], t, a, s, id) /\ Verdict(request[w], a, s)
      BY <2>1, <2>2, PaceFacts DEF Mine
    <2>4. a.until <= at
      BY <2>3 DEF Verdict
    <2>5. t.last <= at /\ Good(t, a, Policy[s], at)
      BY <2>3, ComingIdle DEF Served, Recording
    <2>6. /\ t.last \in Nat /\ t.run \in Nat /\ a.last \in Nat /\ a.count \in Nat
          /\ a.until \in Nat /\ Policy[s].ttl \in Nat /\ Policy[s].max \in Nat
          /\ m # 0 => a.until = a.last + m
      BY <2>3, RowLocks, PolicyTypes DEF TallyRecord
    <2>7. l \in Nat /\ m \in Nat /\ (t.run <= a.count => l <= m)
      BY <2>6, Curve
    <2>8. t.run = 0 => l = 0
      BY PolicyTypes DEF LockoutFor
    <2> HIDE DEF id, ip, at, t, a, l, m
    <2>9. at >= t.last + Least(Policy[s].ttl, l)
      <3>1. t.last # 0
        BY DEF t, id, Never
      <3>2. Least(Policy[s].ttl, l) \in Nat /\ Least(Policy[s].ttl, l) <= l
            /\ Least(Policy[s].ttl, l) <= Policy[s].ttl
        BY <2>6, <2>7 DEF Least
      <3>3. CASE t.run = 0 \/ l = 0
        BY <2>5, <2>6, <2>7, <2>8, <3>2, <3>3
      <3>4. CASE t.last + Policy[s].ttl <= at
        BY <2>3, <2>6, <2>7, <3>2, <3>4
      <3>5. CASE t.last <= a.last /\ t.run <= a.count /\ l # 0
        BY <2>3, <2>4, <2>6, <2>7, <3>2, <3>5
      <3> QED  BY <2>5, <3>1, <3>3, <3>4, <3>5 DEF Good, Never
    <2> QED  BY <2>9 DEF at, t, l, id
  <1> QED  BY <1>1, ThrottleInvariant, PTL

\* Nothing but time ends the lock of an orderly address.
THEOREM LocksStand == ThrottleSpec => LockStands
  <1> DEFINE Stands ==
        \A s \in Scopes, id \in Identities :
          LET k == KeyOf(s, id) IN
          id[1] \notin Unruly /\ attempts[k].until > now => attempts'[k].until >= attempts[k].until
  <1>1. ThrottleInv /\ [ThrottleNext]_throttleVars => [Stands]_throttleVars
    <2> SUFFICES ASSUME ThrottleInv, [ThrottleNext]_throttleVars,
                        NEW s \in Scopes, NEW id \in Identities,
                        id[1] \notin Unruly, attempts[KeyOf(s, id)].until > now
                 PROVE  attempts'[KeyOf(s, id)].until >= attempts[KeyOf(s, id)].until
      OBVIOUS
    <2> DEFINE k == KeyOf(s, id)
               a == attempts[KeyOf(s, id)]
               b == attempts'[KeyOf(s, id)]
    <2>1. /\ k \in Keys /\ a \in AttemptRow /\ RowOK(a, Policy[s], now) /\ now \in Nat
          /\ ThrottleTypes /\ id[1] \in Ips \ Unruly
      BY TypesSplit, KeyFacts DEF ThrottleInv, Identities
    <2>2. /\ a.last \in Nat /\ a.until \in Nat /\ a.until <= a.last + Policy[s].max
          /\ a.until > now
      BY <2>1, RowLocks
    <2> HIDE DEF k
    <2>3. b = a => b.until >= a.until
      BY <2>2
    <2>4. CASE Sweep
      <3>1. ~(a.last + SweepAge < now)
        BY <2>1, <2>2, PolicyTypes
      <3>2. b = a
        BY <2>1, <2>4, <3>1 DEF Sweep, Swept, k
      <3> QED  BY <2>3, <3>2
    <2>5. ASSUME NEW w \in Requests, Moves(w)
          PROVE  b.until >= a.until
      <3>1. \/ attempts' = attempts \/ Cleared(w)
            \/ \E sc \in Scopes : Wrote(w, sc)
        BY <2>1, <2>5, Effects DEF Arrived, Looked, Passes, Leaves, Failed, Succeeded, HasRead, Quiet, Scopes
      <3>2. ASSUME NEW sc \in Scopes, Mine(w, sc) = k, request[w].pc # "idle"
            PROVE  /\ sc = s /\ w \in Busy(id[1]) /\ PaceOK(id[1])
                   /\ Verdict(request[w], a, s) /\ a.last <= request[w].at
                   /\ request[w].at \in Nat /\ request[w].at <= now
        <4>1. request[w].id \in Identities
          BY <2>1, TypesSplit DEF RequestRecord
        <4>2. sc = s /\ request[w].id[1] = id[1]
          BY <3>2, <4>1, KeysApart DEF Mine, k
        <4>3. w \in Busy(id[1]) /\ PaceOK(id[1])
          BY <2>1, <3>2, <4>2 DEF Busy, ThrottleInv, PaceInv
        <4>4. Verdict(request[w], attempts[Mine(w, sc)], s) /\ Served(request[w], tally[Subject(s, id)], a, s, id)
          BY <2>1, <4>2, <4>3, PaceFacts
        <4>5. request[w].at \in Nat /\ request[w].at <= now
          BY <2>1, <4>3, PaceFacts
        <4> QED  BY <3>2, <4>2, <4>3, <4>4, <4>5 DEF Served, k
      <3>3. CASE attempts' = attempts
        BY <2>3, <3>3
      <3>4. CASE Cleared(w)
        <4>1. k # Mine(w, "ip_email")
          <5> SUFFICES ASSUME Mine(w, "ip_email") = k PROVE FALSE
            OBVIOUS
          <5>1. "ip_email" \in Scopes /\ request[w].pc = "clear"
            BY <3>4 DEF Scopes, Cleared
          <5>2. Verdict(request[w], a, s) /\ request[w].at \in Nat /\ request[w].at <= now
            BY <3>2, <5>1
          <5> QED  BY <2>1, <2>2, <5>1, <5>2 DEF Verdict
        <4> QED  BY <2>1, <2>3, <3>4, <4>1, ClearedRow DEF k
      <3>5. ASSUME NEW sc \in Scopes, Wrote(w, sc)
            PROVE  b.until >= a.until
        <4>1. CASE Mine(w, sc) = k
          <5>1. request[w].pc = "write" /\ request[w].todo = {sc}
            BY <3>5 DEF Wrote
          <5>2. /\ sc = s /\ Verdict(request[w], a, s) /\ a.last <= request[w].at
                /\ request[w].at \in Nat /\ request[w].at <= now
            BY <3>2, <4>1, <5>1
          <5>3. a = request[w].row
            BY <2>1, <2>2, <5>1, <5>2 DEF Verdict, Empty, Never
          <5>4. b = AfterFailure(a, Policy[s], request[w].at)
            BY <2>1, <3>5, <4>1, <5>2, <5>3, WroteRow DEF k
          <5> HIDE DEF a, b
          <5> QED  BY <2>1, <2>2, <5>2, <5>4, LockGrows
        <4>2. CASE Mine(w, sc) # k
          BY <2>1, <2>3, <3>5, <4>2, WroteRow DEF k
        <4> QED  BY <4>1, <4>2
      <3> QED  BY <3>1, <3>3, <3>4, <3>5
    <2>6. CASE Tick \/ UNCHANGED throttleVars
      BY <2>3, <2>6 DEF Tick, throttleVars
    <2> QED  BY <2>4, <2>5, <2>6 DEF ThrottleNext, Moves
  <1>2. ThrottleSpec => [][Stands]_throttleVars
    BY <1>1, ThrottleInvariant, PTL DEF ThrottleSpec
  <1> QED  BY <1>2 DEF LockStands
=============================================================================
