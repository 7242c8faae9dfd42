---------------------------- MODULE AdminFactors ----------------------------
(***************************************************************************)
(* The control-plane guard and what it rests on, for one administrator:     *)
(* the gate (apps/web/src/lib/admin.ts), TOTP factors and backup codes      *)
(* (packages/db/src/queries/mfa.ts, actions/mfa.ts), passkeys and their     *)
(* challenges (packages/auth/src/passkey.ts, queries/webauthn.ts,           *)
(* actions/passkey.ts), remembered devices (queries/trusted-devices.ts),    *)
(* and the impersonation sessions the gate guards (queries/impersonation.ts,*)
(* actions/impersonation.ts).                                              *)
(*                                                                         *)
(* Time is counted in TOTP steps. A request is a process; each statement of *)
(* the database is a step of it, with what it computes up to the next.      *)
(***************************************************************************)
EXTENDS Integers, FiniteSets, Sequences

CONSTANTS
    Browsers,       \* where the administrator signs in; one session each at a time
    Totps, Passkeys,\* ids of factor rows
    Credentials,    \* what authenticators hold; a passkey's row names one
    BackupCodes,    \* the codes an activation issues
    Devices,        \* ids of remembered devices
    MaxRows,        \* bound: challenges, and impersonation sessions
    None,
    Colleague, Customer,    \* whom the administrator may try to impersonate
    Procs,          \* requests in progress at once
    MaxAge, DeviceTTL, ChallengeTTL, Minutes,   \* lifetimes, in steps
    Delay,          \* bound: a request ends within this of its start
    Bounds          \* bounds: [time, requests, ops, enrolled]: what a behaviour has, and the
                    \* TOTP factors that were turned on just before it

Window == 1         \* TOTP_DEFAULT_WINDOW

ASSUME FactorsAssumption ==
    /\ {MaxAge, DeviceTTL, ChallengeTTL, Minutes} \subseteq Nat \ {0}
    /\ Delay \in Nat
    /\ Totps \cap Passkeys = {} /\ BackupCodes \cap Int = {}
    /\ None \notin Int \cup Devices \cup [mfaAt : Int \cup {None}]
    /\ \A limits \in Bounds : limits.enrolled \subseteq Totps

VARIABLES
    now,
    session,        \* browser -> None or [mfaAt: mfa_verified_at]
    cookie,         \* browser -> the device its cookie names, or None
    factors,        \* infra_mfa_factors
    challenges,     \* infra_webauthn_challenges, oldest first
    devices,        \* infra_trusted_devices: trusted_until, None when there is no row
    admins,         \* infra_platform_admins: "me" and the colleague
    imps,           \* infra_impersonation_sessions, oldest first
    signed,         \* external: responses authenticators have signed
    procs,
    bound, requests,
    accepted, twice,    \* history: the proofs that passed, and those that passed again
    proved,         \* history: when a proof last passed in a browser
    seen,           \* history: what has held since a request came
    crossed,        \* history: factors and challenges that two verifications held at once
    lapped,         \* history: starts about to insert that were so together
    rivals          \* history: the impersonations they inserted

tables == <<session, cookie, factors, challenges, devices, admins, imps>>
history == <<accepted, twice, proved>>
vars == <<now, tables, signed, procs, bound, requests, history, seen, crossed, lapped, rivals>>

Ids == Totps \cup Passkeys
Idle == [pc |-> "idle"]
Absent == [type |-> "absent", verified |-> FALSE]
Removed == [type |-> "removed", verified |-> FALSE]    \* the id of a row is never used again
Here(f) == factors[f].type \in {"totp", "webauthn"}

-----------------------------------------------------------------------------
(* Requests *)

Spends(op) ==
    /\ op \in bound.ops /\ requests < bound.requests
    /\ requests' = requests + 1 /\ UNCHANGED bound

\* currentAdmin, or the session the gate reads: a request without one ends.
Begin(p, b, op) ==
    /\ procs[p].pc = "idle" /\ session[b] # None
    /\ Spends(op)

Goes(p, to) == procs' = [procs EXCEPT ![p] = to]
Moves(p, pc) == Goes(p, [procs[p] EXCEPT !.pc = pc])
Ends(p) == Goes(p, Idle)
At(p, pc) == procs[p].pc = pc /\ UNCHANGED <<bound, requests>>

Passes(proof, b) ==
    /\ accepted' = accepted \cup {proof}
    /\ twice' = IF proof \in accepted THEN twice \cup {proof} ELSE twice
    /\ proved' = [proved EXCEPT ![b] = now]

-----------------------------------------------------------------------------
(* mfa.ts: TOTP and backup codes *)

TotpFactor(verified, step, codes) ==
    [type |-> "totp", verified |-> verified, lastUsedStep |-> step, codes |-> codes]

startEnrolmentAction(p, b, f) ==
    /\ Begin(p, b, "enrol") /\ factors[f] = Absent
    /\ factors' = [factors EXCEPT ![f] = TotpFactor(FALSE, -1, {})]
    /\ UNCHANGED <<now, session, cookie, challenges, devices, admins, imps, signed, procs, history>>

\* verifyTotp: a code of the factor passes within the drift window.
verifyTotp(step) == now - Window <= step /\ step <= now + Window
Steps == {s \in now - Window .. now + Window : s >= 0}

\* activateTotpFactor: the factor is read, ...
ReadEnrolment(p, b, f, step) ==
    /\ Begin(p, b, "activate")
    /\ factors[f].type = "totp" /\ ~factors[f].verified /\ verifyTotp(step)
    /\ Goes(p, [op |-> "activate", pc |-> "enable", b |-> b, at |-> now, f |-> f, step |-> step, remember |-> FALSE])
    /\ UNCHANGED <<now, tables, signed, history>>

\* ... and turned on, the step of the code with it.
activateTotpFactor(p) ==
    LET q == procs[p] IN
    /\ At(p, "enable")
    /\ IF ~Here(q.f) THEN Ends(p) /\ UNCHANGED <<factors, history>>
       ELSE /\ factors' = [factors EXCEPT ![q.f] = TotpFactor(TRUE, q.step, BackupCodes)]
            /\ Passes([f |-> q.f, proof |-> q.step], q.b) /\ Moves(p, "mark")
    /\ UNCHANGED <<now, session, cookie, challenges, devices, admins, imps, signed>>

\* Mutant: the step of the last code may come again.
PassesAgain(f, step) == factors[f].verified /\ verifyTotp(step) /\ step >= factors[f].lastUsedStep

\* A valid code of a verified factor, later than the last.
fresh(f, step) == factors[f].verified /\ verifyTotp(step) /\ step > factors[f].lastUsedStep

\* verifyMfaCode reads every verified factor of the user, ...
ReadFactors(p, b, f, remember) ==
    /\ Begin(p, b, "code") /\ factors[f].type = "totp" /\ factors[f].verified
    /\ \/ \E step \in Steps : fresh(f, step) /\
            Goes(p, [op |-> "code", pc |-> "burn", b |-> b, at |-> now, f |-> f, remember |-> remember,
                     proof |-> step, left |-> {}])
       \/ \E code \in factors[f].codes :
            Goes(p, [op |-> "code", pc |-> "burn", b |-> b, at |-> now, f |-> f, remember |-> remember,
                     proof |-> code, left |-> factors[f].codes \ {code}])
    /\ UNCHANGED <<now, tables, signed, history>>

\* ... and writes back what it has used of one. A factor removed meanwhile
\* takes the write with it, not the verification.
BurnCode(p) ==
    LET q == procs[p] IN
    /\ At(p, "burn")
    /\ factors' = IF ~Here(q.f) THEN factors
                  ELSE IF q.proof \in BackupCodes THEN [factors EXCEPT ![q.f].codes = q.left]
                  ELSE [factors EXCEPT ![q.f].lastUsedStep = q.proof]
    /\ Passes([f |-> q.f, proof |-> q.proof], q.b) /\ Moves(p, "mark")
    /\ UNCHANGED <<now, session, cookie, challenges, devices, admins, imps, signed>>

-----------------------------------------------------------------------------
(* passkey.ts and webauthn.ts *)

\* storeChallenge, by either start; one to sign in needs a verified passkey.
StoreChallenge(p, b, purpose) ==
    /\ Begin(p, b, "challenge") /\ Len(challenges) < MaxRows
    /\ purpose = "authenticate" => \E f \in Passkeys : factors[f].verified
    /\ challenges' = Append(challenges,
           [purpose |-> purpose, expires |-> now + ChallengeTTL, consumed |-> FALSE])
    /\ UNCHANGED <<now, session, cookie, factors, devices, admins, imps, signed, procs, history>>

\* External: an authenticator signs a challenge, counting up or, when it
\* keeps no counter, always zero.
Sign(c, credential, count) ==
    /\ signed' = signed \cup {[challenge |-> c, credential |-> credential, count |-> count]}
    /\ \A r \in signed : r.credential = credential =>
           r.challenge # c /\ (count = 0 <=> r.count = 0) /\ (count # 0 => r.count < count)
    /\ UNCHANGED <<now, tables, procs, bound, requests, history>>

Usable(purpose) ==
    {c \in DOMAIN challenges : challenges[c].purpose = purpose
                                /\ ~challenges[c].consumed /\ challenges[c].expires > now}

\* consumeChallenge reads the latest usable challenge of the purpose, ...
ReadChallenge(p, b, op, r, remember) ==
    LET usable == Usable(IF op = "assert" THEN "authenticate" ELSE "register") IN
    /\ Begin(p, b, op)
    /\ \E c \in usable : /\ \A x \in usable : x <= c
                          /\ Goes(p, [op |-> op, pc |-> "spend", b |-> b, at |-> now, r |-> r,
                                      remember |-> remember, expected |-> c])
    /\ UNCHANGED <<now, tables, signed, history>>

\* ... burns it, and the response is checked against it.
BurnChallenge(p) ==
    LET q == procs[p] IN
    /\ At(p, "spend")
    /\ challenges' = [challenges EXCEPT ![q.expected].consumed = TRUE]
    /\ IF q.r.challenge # q.expected THEN Ends(p) ELSE Moves(p, IF q.op = "assert" THEN "lookup" ELSE "save")
    /\ UNCHANGED <<now, session, cookie, factors, devices, admins, imps, signed, history>>

\* A row of its own, whether or not one names the credential already: the
\* column has an index and no constraint.
savePasskey(p, f) ==
    LET q == procs[p] IN
    /\ At(p, "save") /\ factors[f] = Absent
    /\ factors' = [factors EXCEPT ![f] = [type |-> "webauthn", verified |-> TRUE,
                                            credential |-> q.r.credential, signCount |-> q.r.count]]
    /\ Passes(q.r, q.b) /\ Moves(p, "mark")
    /\ UNCHANGED <<now, session, cookie, challenges, devices, admins, imps, signed>>

\* findPasskeyByCredentialId: a row that names it, verified or not. The library
\* that checks the signature may itself refuse a counter that went back.
Named(credential) == {f \in Passkeys : Here(f) /\ factors[f].credential = credential}

LookUpPasskey(p) ==
    LET q == procs[p] IN
    /\ At(p, "lookup")
    /\ \/ Named(q.r.credential) = {} /\ Ends(p)
       \/ \E f \in Named(q.r.credential) :
            \/ Goes(p, [op |-> q.op, pc |-> "count", b |-> q.b, at |-> q.at, r |-> q.r, remember |-> q.remember,
                        f |-> f, previous |-> factors[f].signCount])
            \/ q.r.count <= factors[f].signCount /\ Ends(p)
    /\ UNCHANGED <<now, tables, signed, history>>

Regressed(count, previous) == count # 0 /\ previous # 0 /\ count <= previous

\* updatePasskeyCounter, against the counter it read before.
updatePasskeyCounter(p) ==
    LET q == procs[p]
        here == Here(q.f)
    IN
    /\ At(p, "count")
    /\ IF Regressed(q.r.count, q.previous)
       THEN /\ factors' = IF here THEN [factors EXCEPT ![q.f].verified = FALSE] ELSE factors
            /\ Ends(p) /\ UNCHANGED history
       ELSE /\ factors' = IF here THEN [factors EXCEPT ![q.f].signCount = q.r.count] ELSE factors
            /\ Passes(q.r, q.b) /\ Moves(p, "mark")
    /\ UNCHANGED <<now, session, cookie, challenges, devices, admins, imps, signed>>

-----------------------------------------------------------------------------
(* After a proof: sessions.ts and trusted-devices.ts *)

\* The session the request came with. A browser's is named by the browser, so
\* one it signed in again since is marked too, where the code marks none.
markSessionMfaVerified(p) ==
    LET q == procs[p] IN
    /\ At(p, "mark")
    /\ session' = IF session[q.b] = None THEN session ELSE [session EXCEPT ![q.b] = [mfaAt |-> now]]
    /\ IF q.remember THEN Moves(p, "remember") ELSE Ends(p)
    /\ UNCHANGED <<now, cookie, factors, challenges, devices, admins, imps, signed, history>>

rememberThisDevice(p, d) ==
    /\ At(p, "remember") /\ devices[d] = None
    /\ devices' = [devices EXCEPT ![d] = now + DeviceTTL]
    /\ cookie' = [cookie EXCEPT ![procs[p].b] = d]
    /\ Ends(p)
    /\ UNCHANGED <<now, session, factors, challenges, admins, imps, signed, history>>

forgetAllDevicesAction(p, b) ==
    /\ Begin(p, b, "forget")
    /\ devices' = [d \in Devices |-> None] /\ cookie' = [cookie EXCEPT ![b] = None]
    /\ UNCHANGED <<now, session, factors, challenges, admins, imps, signed, procs, history>>

removeFactorAction(p, b, f) ==
    /\ Begin(p, b, "remove") /\ Here(f)
    /\ factors' = [factors EXCEPT ![f] = Removed]
    /\ UNCHANGED <<now, session, cookie, challenges, devices, admins, imps, signed, procs, history>>

-----------------------------------------------------------------------------
(* evaluateAdminGate *)

mfaStillFresh(b) == session[b].mfaAt # None /\ now - session[b].mfaAt < MaxAge

\* The session and the row of the roster, made for an address on the list.
OpenGate(p, b, op) ==
    /\ Begin(p, b, op)
    /\ admins' = [admins EXCEPT !.me = IF @ = "absent" THEN "active" ELSE @]
    /\ IF admins'.me = "active"
       THEN Goes(p, [op |-> op, pc |-> "factors", b |-> b, at |-> now, fresh |-> mfaStillFresh(b)]) ELSE UNCHANGED procs
    /\ UNCHANGED <<now, session, cookie, factors, challenges, devices, imps, signed, history>>

hasVerifiedMfa(p) ==
    /\ At(p, "factors")
    /\ IF \E f \in Ids : factors[f].verified THEN Moves(p, "device") ELSE Ends(p)
    /\ UNCHANGED <<now, tables, signed, history>>

\* Mutant: a grant lasts for ever.
trustedForEver(b) == cookie[b] # None /\ devices[cookie[b]] # None

trusted(b) == cookie[b] # None /\ devices[cookie[b]] # None /\ devices[cookie[b]] > now

\* findTrustedDevice and the verdict.
FindTrustedDevice(p) ==
    LET q == procs[p] IN
    /\ At(p, "device")
    /\ IF q.fresh \/ trusted(q.b)
       THEN Moves(p, CASE q.op = "gate" -> "ok" [] q.op = "begin" -> "target" [] q.op = "stop" -> "active")
       ELSE Ends(p)
    /\ UNCHANGED <<now, tables, signed, history>>

Render(p) == At(p, "ok") /\ Ends(p) /\ UNCHANGED <<now, tables, signed, history>>

-----------------------------------------------------------------------------
(* impersonation.ts *)

Open(i) == imps[i].state = "open" /\ imps[i].expires > now

\* Mutant: a start does not look for an open session.
StartAnyway(p, who) ==
    /\ At(p, "target")
    /\ IF who = Colleague /\ admins.colleague = "active" THEN Ends(p) ELSE Moves(p, "insert")
    /\ UNCHANGED <<now, tables, signed, history>>

CheckTarget(p, who) ==
    /\ At(p, "target")
    /\ IF who = Colleague /\ admins.colleague = "active" THEN Ends(p) ELSE Moves(p, "active")
    /\ UNCHANGED <<now, tables, signed, history>>

\* activeImpersonation, for a start and for a stop.
ActiveImpersonation(p) ==
    LET q == procs[p] IN
    /\ At(p, "active")
    /\ IF q.op = "begin"
       THEN IF \E i \in DOMAIN imps : Open(i) THEN Ends(p) ELSE Moves(p, "insert")
       ELSE IF ~\E i \in DOMAIN imps : Open(i) THEN Ends(p)
            ELSE \E i \in DOMAIN imps : Open(i) /\ Goes(p, [op |-> q.op, pc |-> "end", b |-> q.b, at |-> q.at, i |-> i])
    /\ UNCHANGED <<now, tables, signed, history>>

InsertImpersonation(p) ==
    /\ At(p, "insert") /\ Len(imps) < MaxRows
    /\ imps' = Append(imps, [state |-> "open", expires |-> now + Minutes])
    /\ Ends(p)
    /\ UNCHANGED <<now, session, cookie, factors, challenges, devices, admins, signed, history>>

\* Mutant: the row is written whether it has ended or not.
EndAnyway(p) ==
    /\ At(p, "end")
    /\ imps' = [imps EXCEPT ![procs[p].i].state = "ended"]
    /\ Ends(p)
    /\ UNCHANGED <<now, session, cookie, factors, challenges, devices, admins, signed, history>>

endImpersonation(p) ==
    /\ At(p, "end")
    /\ imps' = [imps EXCEPT ![procs[p].i].state = IF @ = "open" THEN "ended" ELSE @]
    /\ Ends(p)
    /\ UNCHANGED <<now, session, cookie, factors, challenges, devices, admins, signed, history>>

\* The maintenance job and the banner of every page.
expireImpersonations ==
    /\ \E i \in DOMAIN imps : imps[i].state = "open" /\ imps[i].expires <= now
    /\ imps' = [i \in DOMAIN imps |-> IF imps[i].state = "open" /\ imps[i].expires <= now
                                          THEN [imps[i] EXCEPT !.state = "expired"] ELSE imps[i]]
    /\ UNCHANGED <<now, session, cookie, factors, challenges, devices, admins, signed, procs, bound, requests, history>>

-----------------------------------------------------------------------------
(* Sign-in and the clock *)

SignIn(b) ==
    /\ Spends("sign") /\ session[b] = None
    /\ session' = [session EXCEPT ![b] = [mfaAt |-> None]]
    /\ UNCHANGED <<now, cookie, factors, challenges, devices, admins, imps, signed, procs, history>>

SignOut(b) ==
    /\ Spends("sign") /\ session[b] # None
    /\ session' = [session EXCEPT ![b] = None]
    /\ UNCHANGED <<now, cookie, factors, challenges, devices, admins, imps, signed, procs, history>>

\* An operator's, at the database: src/ has no caller.
revokePlatformAdmin(who) ==
    /\ Spends("revoke") /\ admins[who] = "active"
    /\ admins' = [admins EXCEPT ![who] = "revoked"]
    /\ UNCHANGED <<now, session, cookie, factors, challenges, devices, imps, signed, procs, history>>

Tick ==
    /\ now < bound.time /\ now' = now + 1
    /\ \A p \in Procs : procs[p].pc # "idle" => now < procs[p].at + Delay
    /\ UNCHANGED <<tables, signed, procs, bound, requests, history>>

Crash(p) ==
    /\ Spends("crash") /\ procs[p].pc # "idle" /\ Ends(p)
    /\ UNCHANGED <<now, tables, signed, history>>

-----------------------------------------------------------------------------
Init ==
    /\ now = 1 /\ bound \in Bounds /\ requests = 0
    /\ \E enrolling \in Browsers :
        LET at == [b \in Browsers |-> IF bound.enrolled # {} /\ b = enrolling THEN now ELSE None]
        IN  proved = at /\ session = [b \in Browsers |-> [mfaAt |-> at[b]]]
    /\ cookie = [b \in Browsers |-> None] /\ devices = [d \in Devices |-> None]
    /\ factors = [f \in Ids |-> IF f \in bound.enrolled THEN TotpFactor(TRUE, now, BackupCodes) ELSE Absent]
    /\ challenges = <<>>
    /\ admins = [me |-> "absent", colleague |-> "active"]
    /\ imps = <<>>
    /\ signed = {} /\ procs = [p \in Procs |-> Idle]
    /\ accepted = {[f |-> f, proof |-> now] : f \in bound.enrolled} /\ twice = {}
    /\ seen = [p \in Procs |-> {}] /\ crossed = {} /\ lapped = {} /\ rivals = {}

Remembering == IF "remember" \in bound.ops THEN BOOLEAN ELSE {FALSE}

Codes(p, b) ==
    \E f \in Totps : \/ startEnrolmentAction(p, b, f)
                     \/ \E step \in Steps : ReadEnrolment(p, b, f, step)
                     \/ \E remember \in Remembering : ReadFactors(p, b, f, remember)

Assertions(p, b) ==
    \/ \E purpose \in {"register", "authenticate"} : StoreChallenge(p, b, purpose)
    \/ \E r \in signed, op \in {"assert", "register"} : 
            \E remember \in Remembering : ReadChallenge(p, b, op, r, op = "assert" /\ remember)

Guarded(p, b) ==
    \/ \E op \in {"gate", "begin", "stop"} : OpenGate(p, b, op)
    \/ forgetAllDevicesAction(p, b) \/ \E f \in Ids : removeFactorAction(p, b, f)

Request(p) ==
    \/ \E b \in Browsers : Codes(p, b) \/ Assertions(p, b) \/ Guarded(p, b)
    \/ activateTotpFactor(p) \/ BurnCode(p)
    \/ BurnChallenge(p) \/ LookUpPasskey(p) \/ updatePasskeyCounter(p)
    \/ \E f \in Passkeys : savePasskey(p, f)
    \/ markSessionMfaVerified(p) \/ \E d \in Devices : rememberThisDevice(p, d)
    \/ hasVerifiedMfa(p) \/ FindTrustedDevice(p) \/ Render(p)
    \/ \E who \in {Colleague, Customer} : CheckTarget(p, who)
    \/ ActiveImpersonation(p) \/ endImpersonation(p) \/ InsertImpersonation(p)
    \/ Crash(p)

Around ==
    \/ \E b \in Browsers : SignIn(b) \/ SignOut(b)
    \/ \E who \in {"me", "colleague"} : revokePlatformAdmin(who)
    \/ \E c \in DOMAIN challenges, credential \in Credentials, count \in 0..2 : Sign(c, credential, count)
    \/ expireImpersonations \/ Tick

\* A proof no older than the session's limit, or a device remembered after one.
StepUp(b) ==
    \/ proved[b] # None /\ now - proved[b] <= MaxAge + Delay
    \/ cookie[b] # None /\ devices[cookie[b]] # None /\ now < devices[cookie[b]]
Holds(p) ==
    IF procs[p].pc = "idle" THEN {}
    ELSE (IF admins.me = "active" THEN {"admin"} ELSE {})
         \cup (IF \E f \in Ids : factors[f].verified THEN {"factor"} ELSE {})
         \cup (IF StepUp(procs[p].b) THEN {"step-up"} ELSE {})

\* What a verification has read and not yet written: a factor or a challenge.
Held(q) ==
    IF q.pc \in {"enable", "burn"} THEN {q.f} ELSE IF q.pc = "spend" THEN {q.expected} ELSE {}
Crossing ==
    UNION {Held(procs[z[1]]) \cap Held(procs[z[2]]) : z \in {y \in Procs \X Procs : y[1] # y[2]}}
Inserting == {p \in Procs : procs[p].pc = "insert"}

Next ==
    /\ (\E p \in Procs : Request(p)) \/ Around
    /\ seen' = [p \in Procs |-> (IF procs[p].pc = "idle" \/ procs'[p].pc = "idle" THEN {} ELSE seen[p]) \cup Holds(p)']
    /\ crossed' = crossed \cup Crossing'
    /\ lapped' = {p \in Inserting' : p \in lapped \/ Inserting' # {p}}
    /\ rivals' = rivals \cup {i \in DOMAIN imps' \ DOMAIN imps : \E p \in lapped : procs'[p] # procs[p]}

Spec == Init /\ [][Next]_vars

-----------------------------------------------------------------------------
(* Properties *)

TypeOK ==
    /\ \A f \in Ids : factors[f].type \in {"absent", "removed", "totp", "webauthn"}
    /\ \A b \in Browsers : cookie[b] \in Devices \cup {None}
    /\ \A i \in DOMAIN imps : imps[i].state \in {"open", "ended", "expired"}
    /\ admins \in [{"me", "colleague"} -> {"absent", "active", "revoked"}]
    /\ now <= bound.time /\ requests <= bound.requests

\* No code, backup code or signed response is accepted a second time, in the
\* same request's retry or another's (mfa.ts:4-7, webauthn.ts:34-37). Every
\* check reads and then writes without a lock, so this is of factors and
\* challenges that no two verifications held at once; everything else overlaps.
Key(proof) == IF "f" \in DOMAIN proof THEN proof.f ELSE proof.challenge
OneUse == \A proof \in twice : Key(proof) \in crossed

\* Nobody passes the gate on less than its three conditions: since the request
\* came, the row was active, some factor was verified, and either a proof had
\* passed in this browser within the limit or its device was remembered and
\* neither expired nor forgotten (admin.ts:4-10).
GateEarned ==
    \A p \in Procs : procs[p].pc \in {"ok", "target", "active", "insert", "end"} =>
        {"admin", "factor", "step-up"} \subseteq seen[p]

\* One impersonation at a time, so that an action belongs to one of them
\* (impersonation.ts:61-62), except of starts that had both looked before either
\* inserted: no other overlap, stop, sweep, boundary or death leaves two open.
OneOpen == \A i, j \in DOMAIN imps : Open(i) /\ Open(j) /\ i # j => {i, j} \subseteq rivals

\* The record of an impersonation that is over never changes, although a stop
\* writes to the session it read and the sweep may have closed it since.
EndedStands ==
    [][\A i \in DOMAIN imps : imps[i].state \in {"ended", "expired"} => imps'[i] = imps[i]]_vars
=============================================================================
