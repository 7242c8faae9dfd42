---------------------------- MODULE AccountAccess ----------------------------
(***************************************************************************)
(* What one person can get in with, and what takes it away: signing in and  *)
(* deriving credentials from credentials (the token route, rotation, a      *)
(* remembered device), password recovery (packages/auth/src/recovery.ts     *)
(* and packages/db/src/queries/security.ts), suspension, offboarding and    *)
(* reinstatement (packages/db/src/queries/lifecycle.ts).                    *)
(*                                                                         *)
(* Every SQL statement is a step; nothing runs in a transaction.  Of the     *)
(* rows of one kind the model keeps the one from the oldest sign-in: they    *)
(* are swept together, and the oldest is the first to break a promise.       *)
(* RefreshTokens models what rotation does to the row it replaces.  The      *)
(* membership the token route adds on the way is left out.                  *)
(***************************************************************************)
EXTENDS Naturals, Sequences, FiniteSets

CONSTANTS
    Links,            \* the tokens generateRecoveryToken may draw
    Workers,          \* requests in progress at once
    NoLink,
    Scenes,           \* bounds: links mailed and ways to withdraw, of one behaviour each
    MaxEpoch          \* bound: resets, suspensions and offboardings

ASSUME Bounds ==
    /\ MaxEpoch \in Nat /\ NoLink \notin Links
    /\ Scenes \subseteq [links : Nat, jobs : SUBSET {"suspended", "offboarded"}]

Kinds == {"session", "refresh", "device"}

VARIABLES
    passwords,        \* rows of `account` with providerId 'credential'
    status,           \* infra_user_lifecycle
    creds,            \* rows of session, refresh tokens, trusted devices
    link,             \* infra_recovery_tokens
    worker,
    epoch,            \* history: sweeps begun and passwords written
    clean,            \* history: by kind, the epoch of the last full sweep
    scene             \* the member of Scenes this behaviour is in

vars == <<passwords, status, creds, link, worker, epoch, clean, scene>>

Idle == [pc |-> "idle", link |-> NoLink, known |-> 0, root |-> 0,
         job |-> "none", todo |-> <<>>, missed |-> {}]

\* A row that was used and one that has expired are refused alike.
NoRow == [st |-> "none", mailed |-> FALSE, root |-> 0, raced |-> FALSE, resets |-> 0]
Dead(row) == [NoRow EXCEPT !.st = "dead", !.resets = row.resets]

\* An OAuth-only person has no credential row.
Init ==
    /\ passwords \in {0, 1}
    /\ status = "active"
    /\ creds = {}
    /\ link = [l \in Links |-> NoRow]
    /\ worker = [w \in Workers |-> Idle]
    /\ epoch = 0
    /\ clean = [k \in Kinds \cup {"link"} |-> 0]
    /\ scene \in Scenes

Goto(w, pc) == worker' = [worker EXCEPT ![w].pc = pc]
Finish(w) == worker' = [worker EXCEPT ![w] = Idle]

-----------------------------------------------------------------------------
(* Getting in *)

\* The root of a row is the epoch of the sign-in it descends from, or Raced,
\* of which nothing is promised, if rows of its kind, or of one it descends
\* from, were swept between the check and the insert of one request.
Raced == MaxEpoch + 1
Made(w, kind) ==
    [kind |-> kind, root |-> IF kind \in worker[w].missed THEN Raced ELSE worker[w].root]

Insert(row) ==
    creds' = IF \E c \in creds : c.kind = row.kind /\ c.root <= row.root THEN creds
             ELSE {c \in creds : c.kind # row.kind} \cup {row}

\* What a request at a statement has yet to insert.
Ahead ==
    [session |-> {"session", "refresh"}, refresh |-> {"refresh"}, device |-> {"device"}]

\* The request goes on to another insert.
Continue(w, pc) ==
    worker' = [worker EXCEPT ![w].pc = pc, ![w].missed = @ \cap Ahead[pc]]

\* signInEmail finds the password right.  Nobody asks for the status.
SignIn(w) ==
    /\ worker[w].pc = "idle" /\ passwords > 0
    /\ worker' = [worker EXCEPT ![w] = [Idle EXCEPT !.pc = "session", !.root = epoch]]
    /\ UNCHANGED <<passwords, status, creds, link, epoch, clean, scene>>

\* A dashboard sign-in is over with its session; the token route goes on.
InsertSession(w) ==
    /\ worker[w].pc = "session"
    /\ Insert(Made(w, "session"))
    /\ Finish(w) \/ Continue(w, "refresh")
    /\ UNCHANGED <<passwords, status, link, epoch, clean, scene>>

\* A request that holds a row starts to obtain another: rotation reads the
\* refresh token it replaces, rememberThisDevice the session.
Sources == [refresh |-> "refresh", device |-> "session"]

DeriveRead(w, kind) ==
    /\ worker[w].pc = "idle"
    /\ \E c \in creds :
         /\ c.kind = Sources[kind]
         /\ worker' = [worker EXCEPT ![w] =
              [Idle EXCEPT !.pc = kind, !.root = c.root]]
    /\ UNCHANGED <<passwords, status, creds, link, epoch, clean, scene>>

\* issueRefreshToken, the insert of a rotation, or trustDevice.
InsertDerived(w) ==
    /\ worker[w].pc \in {"refresh", "device"}
    /\ Insert(Made(w, worker[w].pc))
    /\ Finish(w)
    /\ UNCHANGED <<passwords, status, link, epoch, clean, scene>>

-----------------------------------------------------------------------------
(* Recovery *)

\* Mutant: asking again leaves the earlier links alone.
RevokedNone(links) == links

\* UPDATE ... SET used_at WHERE user_id AND used_at IS NULL.
Revoked(links) ==
    [l \in Links |-> IF links[l].st = "live" THEN Dead(links[l]) ELSE links[l]]

\* issueRecoveryToken invalidates first ...
Request(w) ==
    /\ worker[w].pc = "idle"
    /\ link' = Revoked(link)
    /\ worker' = [worker EXCEPT ![w] = [Idle EXCEPT !.pc = "link"]]
    /\ UNCHANGED <<passwords, status, creds, epoch, clean, scene>>

\* ... and inserts afterwards.
InsertLink(w) ==
    /\ worker[w].pc = "link"
    /\ Cardinality({l \in Links : link[l].st # "none"}) < scene.links
    /\ \E l \in Links :
         /\ link[l].st = "none"
         /\ link' = [link EXCEPT ![l].st = "live", ![l].root = epoch,
                                 ![l].raced = "link" \in worker[w].missed]
         /\ worker' = [v \in Workers |->
              IF v = w THEN [worker[v] EXCEPT !.pc = "mail", !.link = l]
              ELSE IF worker[v].pc = "link"
                THEN [worker[v] EXCEPT !.missed = @ \cup {"link"}]
              ELSE worker[v]]
    /\ UNCHANGED <<passwords, status, creds, epoch, clean, scene>>

\* deliverRecoveryLink swallows a failure; the answer is the same.
Mail(w) ==
    /\ worker[w].pc = "mail"
    /\ \/ UNCHANGED link
       \/ /\ link[worker[w].link].st = "live"
          /\ link' = [link EXCEPT ![worker[w].link].mailed = TRUE]
    /\ Finish(w)
    /\ UNCHANGED <<passwords, status, creds, epoch, clean, scene>>

\* peekRecoveryToken throws unless the link is live.
Peek(w, l) ==
    /\ worker[w].pc = "idle" /\ link[l].mailed /\ link[l].st = "live"
    /\ worker' = [worker EXCEPT ![w] = [Idle EXCEPT !.pc = "burn", !.link = l]]
    /\ UNCHANGED <<passwords, status, creds, link, epoch, clean, scene>>

\* assessPassword says no: the link stays.
Reject(w) ==
    /\ worker[w].pc = "burn"
    /\ Finish(w)
    /\ UNCHANGED <<passwords, status, creds, link, epoch, clean, scene>>

\* Mutant: the UPDATE does not test used_at.
BurnableTwice(l) == link[l].st \in {"live", "dead"}

\* The WHERE of consumeRecoveryToken.
Burnable(l) == link[l].st = "live"

Burned(links, l) == [links EXCEPT ![l] = Dead(links[l])]

\* The burn, with one winner; the loser throws.
Burn(w) ==
    /\ worker[w].pc = "burn"
    /\ IF Burnable(worker[w].link)
         THEN /\ link' = Burned(link, worker[w].link)
              /\ Goto(w, "find")
         ELSE Finish(w) /\ UNCHANGED link
    /\ UNCHANGED <<passwords, status, creds, epoch, clean, scene>>

FindCredential(w) ==
    /\ worker[w].pc = "find"
    /\ worker' = [worker EXCEPT ![w].pc = "write", ![w].known = passwords]
    /\ UNCHANGED <<passwords, status, creds, link, epoch, clean, scene>>

\* Mutant: remembered devices are forgotten before the sessions are gone.
SweepDevicesFirst == <<"refresh", "device", "session", "link">>

\* revokeAllUserCredentials, statement by statement.
ResetSweep == <<"refresh", "session", "device", "link">>

\* createAccount or updatePassword, on what the request found.
WritePassword(w) ==
    /\ worker[w].pc = "write" /\ epoch < MaxEpoch
    /\ passwords' = IF worker[w].known = 0 THEN passwords + 1 ELSE passwords
    /\ epoch' = epoch + 1
    /\ link' = [link EXCEPT ![worker[w].link].resets = @ + 1]
    /\ worker' = [worker EXCEPT ![w] = [Idle EXCEPT
         !.pc = "sweep", !.root = epoch + 1, !.job = "reset", !.todo = ResetSweep]]
    /\ UNCHANGED <<status, creds, clean, scene>>

-----------------------------------------------------------------------------
(* Suspension and offboarding *)

\* The grants offboardUser removes as well belong to the access tables.
SweepOf ==
    [suspended |-> <<"refresh", "session">>,
     offboarded |-> <<"refresh", "session", "device">>]

\* suspendUser or offboardUser is called, the latter perhaps by
\* requestDeletion.
Disable(w, job) ==
    /\ worker[w].pc = "idle" /\ epoch < MaxEpoch
    /\ epoch' = epoch + 1
    /\ worker' = [worker EXCEPT ![w] = [Idle EXCEPT
         !.pc = "sweep", !.root = epoch + 1, !.job = job, !.todo = SweepOf[job]]]
    /\ UNCHANGED <<passwords, status, creds, link, clean, scene>>

SweptKinds(job) ==
    LET s == IF job = "reset" THEN ResetSweep ELSE SweepOf[job]
    IN  {s[k] : k \in DOMAIN s}

Latest(a, b) == IF a >= b THEN a ELSE b

\* One DELETE or UPDATE of the sweep; the last one makes it complete.
Revoke(w) ==
    LET kind == Head(worker[w].todo)
        last == Len(worker[w].todo) = 1
    IN
    /\ worker[w].pc = "sweep"
    /\ creds' = {c \in creds : c.kind # kind}
    /\ link' = IF kind = "link" THEN Revoked(link) ELSE link
    /\ worker' = [v \in Workers |->
         IF v # w THEN [worker[v] EXCEPT !.missed =
                          IF worker[v].pc \in DOMAIN Ahead
                            THEN @ \cup ({kind} \cap Ahead[worker[v].pc]) ELSE @]
         ELSE IF ~last THEN [worker[v] EXCEPT !.todo = Tail(@)]
         ELSE IF worker[v].job = "reset" THEN Idle
         ELSE [worker[v] EXCEPT !.pc = "status", !.todo = <<>>]]
    /\ clean' = IF ~last THEN clean
                ELSE [k \in DOMAIN clean |->
                        IF k \in SweptKinds(worker[w].job)
                          THEN Latest(clean[k], worker[w].root) ELSE clean[k]]
    /\ UNCHANGED <<passwords, status, epoch, scene>>

\* setStatus comes last; requestDeletion goes on to write its own.
SetStatus(w) ==
    /\ worker[w].pc = "status"
    /\ status' = worker[w].job
    /\ \/ Finish(w)
       \/ worker[w].job = "offboarded" /\ Goto(w, "deletion")
    /\ UNCHANGED <<passwords, creds, link, epoch, clean, scene>>

SetDeletion(w) ==
    /\ worker[w].pc = "deletion"
    /\ status' = "pending_deletion"
    /\ Finish(w)
    /\ UNCHANGED <<passwords, creds, link, epoch, clean, scene>>

Reinstate ==
    /\ status' = "active"
    /\ UNCHANGED <<passwords, creds, link, worker, epoch, clean, scene>>

-----------------------------------------------------------------------------
\* A link's 15 minutes pass.
Lapse(l) ==
    /\ link[l].st = "live"
    /\ link' = [link EXCEPT ![l] = Dead(@)]
    /\ UNCHANGED <<passwords, status, creds, worker, epoch, clean, scene>>

\* A statement throws or the function dies.
Crash(w) ==
    /\ worker[w].pc # "idle"
    /\ Finish(w)
    /\ UNCHANGED <<passwords, status, creds, link, epoch, clean, scene>>

Obtain(w) ==
    \/ SignIn(w) \/ InsertSession(w) \/ InsertDerived(w)
    \/ \E kind \in DOMAIN Sources : DeriveRead(w, kind)

Recover(w) ==
    \/ Request(w) \/ InsertLink(w) \/ Mail(w)
    \/ \E l \in Links : Peek(w, l)
    \/ Reject(w) \/ Burn(w) \/ FindCredential(w) \/ WritePassword(w)

Withdraw(w) ==
    \/ \E job \in scene.jobs : Disable(w, job)
    \/ Revoke(w) \/ SetStatus(w) \/ SetDeletion(w)

Next ==
    \/ \E w \in Workers : Obtain(w) \/ Recover(w) \/ Withdraw(w) \/ Crash(w)
    \/ \E l \in Links : Lapse(l)
    \/ Reinstate

Spec == Init /\ [][Next]_vars

-----------------------------------------------------------------------------
(* Properties *)

Cred == [kind : Kinds, root : 0 .. Raced]

Row == [st : {"none", "live", "dead"}, mailed : BOOLEAN, root : 0 .. MaxEpoch,
        raced : BOOLEAN, resets : Nat]

Task ==
    [pc : {"idle", "link", "mail", "burn", "find", "write", "sweep", "status", "deletion"}
          \cup DOMAIN Ahead,
     link : Links \cup {NoLink}, known : Nat, root : 0 .. Raced,
     job : {"none", "reset"} \cup DOMAIN SweepOf,
     todo : Seq(Kinds \cup {"link"}), missed : SUBSET (Kinds \cup {"link"})]

\* Types; a request that works on a link has one, a sweep has a statement left.
TypeOK ==
    /\ passwords \in Nat
    /\ status \in {"active", "suspended", "offboarded", "pending_deletion"}
    /\ creds \subseteq Cred
    /\ link \in [Links -> Row]
    /\ epoch \in 0 .. MaxEpoch /\ clean \in [Kinds \cup {"link"} -> 0 .. epoch]
    /\ scene \in Scenes
    /\ worker \in [Workers -> Task]
    /\ \A w \in Workers :
         /\ worker[w].pc \in {"mail", "burn", "find", "write"} => worker[w].link \in Links
         /\ (worker[w].pc = "sweep") = (worker[w].todo # <<>>)

\* "of two concurrent redemptions exactly one gets a row back"
\* (security.ts:206-208): a link sets at most one password, however
\* redemptions, requests and crashes fall.
OneReset == \A l \in Links : link[l].resets <= 1

\* Asking again kills the earlier mail (security.ts:148-149), unless the two
\* requests overlapped between their two statements.
OneLink ==
    \A l, m \in Links :
      l # m /\ link[l].st = "live" /\ link[m].st = "live"
        => link[l].raced \/ link[m].raced

\* "nothing the previous password could reach stays reachable"
\* (recovery.ts:138) and "every credential they hold has to stop working"
\* (lifecycle.ts:4-6): once a sweep is complete, a row of a kind it swept
\* descends from a sign-in after it began, unless the statement that sweeps
\* the kind fell inside the very request that inserted the row or one it
\* descends from.  No link is older than the last complete reset.
SweptClean ==
    /\ \A c \in creds : c.root >= clean[c.kind]
    /\ \A l \in Links : link[l].st = "live" => link[l].root >= clean["link"]
=============================================================================
