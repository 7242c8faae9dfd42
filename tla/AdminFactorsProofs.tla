-------------------------- MODULE AdminFactorsProofs --------------------------
(***************************************************************************)
(* Proofs about AdminFactors: the gate is never passed on less than its      *)
(* three conditions; no proof passes twice and no two impersonations are     *)
(* open, but of requests that held the same at once.                         *)
(*                                                                         *)
(* First the types and what a step does to the task of a request, then one   *)
(* inductive invariant for each of the three.                                *)
(***************************************************************************)
EXTENDS AdminFactors, TLAPS

-----------------------------------------------------------------------------
(* Types                                                                    *)

Time == Int \cup {None}
Session == [mfaAt : Time]
TotpRow == [type : {"totp"}, verified : BOOLEAN, lastUsedStep : Int,
            codes : SUBSET BackupCodes]
PasskeyRow == [type : {"webauthn"}, verified : BOOLEAN, credential : Credentials,
               signCount : Nat]
Challenge == [purpose : {"authenticate", "register"}, expires : Int,
              consumed : BOOLEAN]
Imp == [state : {"open", "ended", "expired"}, expires : Int]
Response == [challenge : Nat, credential : Credentials, count : Nat]

\* What a request may be doing.
EnableTask == [op : {"activate"}, pc : {"enable", "mark", "remember"},
               b : Browsers, at : Nat, f : Totps, step : Int,
               remember : BOOLEAN]
CodeTask == [op : {"code"}, pc : {"burn", "mark", "remember"}, b : Browsers,
             at : Nat, f : Totps, remember : BOOLEAN,
             proof : Int \cup BackupCodes, left : SUBSET BackupCodes]
ResponseTask == [op : {"assert", "register"},
                 pc : {"spend", "lookup", "save", "mark", "remember"},
                 b : Browsers, at : Nat, r : Response, remember : BOOLEAN,
                 expected : Nat]
CountTask == [op : {"assert", "register"}, pc : {"count", "mark", "remember"},
              b : Browsers, at : Nat, r : Response, remember : BOOLEAN,
              f : Passkeys, previous : Nat]
GateTask == [op : {"gate", "begin", "stop"},
             pc : {"factors", "device", "ok", "target", "active", "insert"},
             b : Browsers, at : Nat, fresh : BOOLEAN]
EndTask == [op : {"gate", "stop"}, pc : {"end"}, b : Browsers, at : Nat, i : Nat]

Verifications == {"activate", "code", "assert", "register"}
Proving == EnableTask \cup CodeTask \cup ResponseTask \cup CountTask
Guarding == GateTask \cup EndTask
Tasks == {Idle} \cup Proving \cup Guarding

\* The row of a factor: a code's or a passkey's.
FactorOK(f, row) ==
    \/ row \in {Absent, Removed}
    \/ f \in Totps /\ row \in TotpRow
    \/ f \in Passkeys /\ row \in PasskeyRow

FactorsOK == /\ factors = [f \in Ids |-> factors[f]]
             /\ \A f \in Ids : FactorOK(f, factors[f])

Types ==
    /\ now \in Nat
    /\ session \in [Browsers -> Session \cup {None}]
    /\ FactorsOK
    /\ challenges \in Seq(Challenge)
    /\ imps \in Seq(Imp)
    /\ signed \subseteq Response
    /\ procs \in [Procs -> Tasks]
    /\ proved \in [Browsers -> Time]

LEMMA TaskFields ==
    /\ Idle.pc = "idle"
    /\ \A q \in EnableTask : /\ q.op = "activate"
                             /\ q.pc \in {"enable", "mark", "remember"}
                             /\ q.b \in Browsers /\ q.at \in Nat
                             /\ q.f \in Totps /\ q.step \in Int
    /\ \A q \in CodeTask : /\ q.op = "code"
                           /\ q.pc \in {"burn", "mark", "remember"}
                           /\ q.b \in Browsers /\ q.at \in Nat /\ q.f \in Totps
                           /\ q.proof \in Int \cup BackupCodes
                           /\ q.left \subseteq BackupCodes
    /\ \A q \in ResponseTask :
         /\ q.op \in {"assert", "register"}
         /\ q.pc \in {"spend", "lookup", "save", "mark", "remember"}
         /\ q.b \in Browsers /\ q.at \in Nat /\ q.r \in Response
         /\ q.expected \in Nat /\ q.remember \in BOOLEAN
    /\ \A q \in CountTask : /\ q.op \in {"assert", "register"}
                            /\ q.pc \in {"count", "mark", "remember"}
                            /\ q.b \in Browsers /\ q.at \in Nat
                            /\ q.r \in Response /\ q.f \in Passkeys
                            /\ q.previous \in Nat
    /\ \A q \in GateTask :
         /\ q.op \in {"gate", "begin", "stop"}
         /\ q.pc \in {"factors", "device", "ok", "target", "active", "insert"}
         /\ q.b \in Browsers /\ q.at \in Nat /\ q.fresh \in BOOLEAN
    /\ \A q \in EndTask : /\ q.op \in {"gate", "stop"} /\ q.pc = "end" /\ q.b \in Browsers
                          /\ q.at \in Nat /\ q.i \in Nat
  BY DEF Idle, EnableTask, CodeTask, ResponseTask, CountTask, GateTask, EndTask

\* The place in its program says what a task is.
LEMMA TaskKinds ==
    ASSUME NEW q \in Tasks
    PROVE  /\ q.pc = "idle" <=> q = Idle
           /\ q.pc = "enable" => q \in EnableTask
           /\ q.pc = "burn" => q \in CodeTask
           /\ q.pc \in {"spend", "lookup", "save"} => q \in ResponseTask
           /\ q.pc = "count" => q \in CountTask
           /\ q.pc \in {"mark", "remember"} => q \in Proving
           /\ q.pc \in {"factors", "device", "ok", "target", "active", "insert"}
                <=> q \in GateTask
           /\ q.pc = "end" <=> q \in EndTask
           /\ q # Idle => /\ q.b \in Browsers /\ q.at \in Nat
                          /\ q \in Proving <=> q.op \in Verifications
                          /\ q \in Guarding <=> q.op \in {"gate", "begin", "stop"}
                          /\ q \in Proving \/ q \in Guarding
  BY TaskFields DEF Tasks, Proving, Guarding, Verifications

\* The moves of a task.
LEMMA EnableMoves ==
    ASSUME NEW q \in EnableTask, NEW pc \in {"mark", "remember"}
    PROVE  /\ [q EXCEPT !.pc = pc] \in EnableTask
           /\ [q EXCEPT !.pc = pc].pc = pc /\ [q EXCEPT !.pc = pc].op = q.op
           /\ [q EXCEPT !.pc = pc].b = q.b /\ [q EXCEPT !.pc = pc].at = q.at
  BY DEF EnableTask

LEMMA CodeMoves ==
    ASSUME NEW q \in CodeTask, NEW pc \in {"mark", "remember"}
    PROVE  /\ [q EXCEPT !.pc = pc] \in CodeTask
           /\ [q EXCEPT !.pc = pc].pc = pc /\ [q EXCEPT !.pc = pc].op = q.op
           /\ [q EXCEPT !.pc = pc].b = q.b /\ [q EXCEPT !.pc = pc].at = q.at
  BY DEF CodeTask

LEMMA ResponseMoves ==
    ASSUME NEW q \in ResponseTask, NEW pc \in {"lookup", "save", "mark", "remember"}
    PROVE  /\ [q EXCEPT !.pc = pc] \in ResponseTask
           /\ [q EXCEPT !.pc = pc].pc = pc /\ [q EXCEPT !.pc = pc].op = q.op
           /\ [q EXCEPT !.pc = pc].b = q.b /\ [q EXCEPT !.pc = pc].at = q.at
           /\ [q EXCEPT !.pc = pc].r = q.r
           /\ [q EXCEPT !.pc = pc].expected = q.expected
  BY DEF ResponseTask

LEMMA CountMoves ==
    ASSUME NEW q \in CountTask, NEW pc \in {"mark", "remember"}
    PROVE  /\ [q EXCEPT !.pc = pc] \in CountTask
           /\ [q EXCEPT !.pc = pc].pc = pc /\ [q EXCEPT !.pc = pc].op = q.op
           /\ [q EXCEPT !.pc = pc].b = q.b /\ [q EXCEPT !.pc = pc].at = q.at
  BY DEF CountTask

Put(q, pc) == [q EXCEPT !.pc = pc]

LEMMA GateMoves ==
    ASSUME NEW q \in GateTask,
           NEW pc \in {"device", "ok", "target", "active", "insert"}
    PROVE  \E t \in GateTask :
             /\ t = Put(q, pc) /\ t.pc = pc /\ t.op = q.op
             /\ t.b = q.b /\ t.at = q.at /\ t.fresh = q.fresh
  <1> DEFINE t == Put(q, pc)
  <1>1. /\ t \in GateTask /\ t.pc = pc /\ t.op = q.op /\ t.b = q.b
        /\ t.at = q.at /\ t.fresh = q.fresh
    BY DEF GateTask, Put
  <1> HIDE DEF t
  <1> QED  BY <1>1 DEF t

LEMMA ProvingMoves ==
    ASSUME NEW q \in Proving, NEW pc \in {"mark", "remember"}
    PROVE  \E t \in Proving :
             /\ t = [q EXCEPT !.pc = pc] /\ t.pc = pc /\ t.op = q.op
             /\ t.b = q.b /\ t.at = q.at
  <1> DEFINE t == [q EXCEPT !.pc = pc]
  <1>1. CASE q \in EnableTask
    <2>1. /\ t \in EnableTask /\ t.pc = pc /\ t.op = q.op /\ t.b = q.b
          /\ t.at = q.at
      BY <1>1, EnableMoves
    <2> HIDE DEF t
    <2> QED  BY <2>1 DEF t, Proving
  <1>2. CASE q \in CodeTask
    <2>1. /\ t \in CodeTask /\ t.pc = pc /\ t.op = q.op /\ t.b = q.b
          /\ t.at = q.at
      BY <1>2, CodeMoves
    <2> HIDE DEF t
    <2> QED  BY <2>1 DEF t, Proving
  <1>3. CASE q \in ResponseTask
    <2>0. pc \in {"lookup", "save", "mark", "remember"}
      OBVIOUS
    <2>1. /\ t \in ResponseTask /\ t.pc = pc /\ t.op = q.op /\ t.b = q.b
          /\ t.at = q.at
      BY <1>3, <2>0, ResponseMoves
    <2> HIDE DEF t
    <2> QED  BY <2>1 DEF t, Proving
  <1>4. CASE q \in CountTask
    <2>1. /\ t \in CountTask /\ t.pc = pc /\ t.op = q.op /\ t.b = q.b
          /\ t.at = q.at
      BY <1>4, CountMoves
    <2> HIDE DEF t
    <2> QED  BY <2>1 DEF t, Proving
  <1> QED  BY <1>1, <1>2, <1>3, <1>4 DEF Proving

LEMMA SpendMoves ==
    ASSUME NEW q \in ResponseTask, NEW pc \in {"lookup", "save"}
    PROVE  \E t \in ResponseTask :
             /\ t = Put(q, pc) /\ t.pc = pc /\ t.op = q.op
             /\ t.b = q.b /\ t.at = q.at /\ t.r = q.r /\ t.expected = q.expected
  <1> DEFINE t == Put(q, pc)
  <1>0. pc \in {"lookup", "save", "mark", "remember"}
    OBVIOUS
  <1>1. /\ t \in ResponseTask /\ t.pc = pc /\ t.op = q.op /\ t.b = q.b
        /\ t.at = q.at /\ t.r = q.r /\ t.expected = q.expected
    BY <1>0, ResponseMoves DEF Put
  <1> HIDE DEF t
  <1> QED  BY <1>1 DEF t

-----------------------------------------------------------------------------
(* What each step does to the task of its request.                          *)

LEMMA GoesForm ==
    ASSUME Types, NEW p \in Procs, NEW t \in Tasks, Goes(p, t)
    PROVE  /\ procs' \in [Procs -> Tasks]
           /\ \A v \in Procs : procs'[v] = IF v = p THEN t ELSE procs[v]
  BY DEF Types, Goes

LEMMA IdleIsTask == Idle \in Tasks /\ Idle.pc = "idle"
  BY DEF Tasks, Idle

\* A proof is begun: the code, backup code or response it will use is read.
LEMMA EnrolmentForm ==
    ASSUME Types, NEW p \in Procs, NEW b \in Browsers, NEW f \in Totps,
           NEW step \in Steps, ReadEnrolment(p, b, f, step)
    PROVE  \E t \in EnableTask :
             /\ Goes(p, t) /\ t.pc = "enable" /\ t.b = b /\ t.at = now
             /\ t.f = f /\ t.step = step
  <1> DEFINE t == [op |-> "activate", pc |-> "enable", b |-> b, at |-> now,
                   f |-> f, step |-> step, remember |-> FALSE]
  <1>0. now \in Nat /\ step \in Int
    BY DEF Types, Steps, Window
  <1>1. /\ t \in EnableTask /\ t.pc = "enable" /\ t.b = b /\ t.at = now
        /\ t.f = f /\ t.step = step
    BY <1>0 DEF EnableTask
  <1>2. Goes(p, t)
    BY DEF ReadEnrolment
  <1> HIDE DEF t
  <1> QED  BY <1>1, <1>2

LEMMA CodeForm ==
    ASSUME Types, NEW p \in Procs, NEW b \in Browsers, NEW f \in Totps,
           NEW remember \in BOOLEAN, ReadFactors(p, b, f, remember)
    PROVE  \E t \in CodeTask :
             /\ Goes(p, t) /\ t.pc = "burn" /\ t.b = b /\ t.at = now
             /\ t.f = f
             /\ \/ t.proof \in Int /\ fresh(f, t.proof)
                \/ /\ t.proof \in BackupCodes /\ t.proof \in factors[f].codes
                   /\ t.left = factors[f].codes \ {t.proof}
  <1>0. now \in Nat /\ factors[f] \in TotpRow
    <2>1. FactorOK(f, factors[f]) /\ f \notin Passkeys /\ now \in Nat
      BY FactorsAssumption DEF Types, FactorsOK, Ids
    <2>2. factors[f].type = "totp"
      BY DEF ReadFactors
    <2>3. factors[f] # Absent /\ factors[f] # Removed
      BY <2>2 DEF Absent, Removed
    <2> QED  BY <2>1, <2>3 DEF FactorOK
  <1>1. factors[f].codes \subseteq BackupCodes
    BY <1>0 DEF TotpRow
  <1>2. ASSUME NEW proof \in Int \cup BackupCodes,
               NEW left \in SUBSET BackupCodes,
               Goes(p, [op |-> "code", pc |-> "burn", b |-> b, at |-> now,
                        f |-> f, remember |-> remember, proof |-> proof,
                        left |-> left])
        PROVE  \E t \in CodeTask :
                 /\ Goes(p, t) /\ t.pc = "burn" /\ t.b = b /\ t.at = now
                 /\ t.f = f /\ t.proof = proof /\ t.left = left
    <2> DEFINE t == [op |-> "code", pc |-> "burn", b |-> b, at |-> now,
                     f |-> f, remember |-> remember, proof |-> proof,
                     left |-> left]
    <2>1. /\ t \in CodeTask /\ t.pc = "burn" /\ t.b = b /\ t.at = now
          /\ t.f = f /\ t.proof = proof /\ t.left = left
      BY <1>0 DEF CodeTask
    <2>2. Goes(p, t)
      BY <1>2
    <2> HIDE DEF t
    <2> QED  BY <2>1, <2>2
  <1>3. CASE \E step \in Steps : fresh(f, step) /\
               Goes(p, [op |-> "code", pc |-> "burn", b |-> b, at |-> now,
                        f |-> f, remember |-> remember, proof |-> step,
                        left |-> {}])
    <2>1. PICK step \in Steps : fresh(f, step) /\
               Goes(p, [op |-> "code", pc |-> "burn", b |-> b, at |-> now,
                        f |-> f, remember |-> remember, proof |-> step,
                        left |-> {}])
      BY <1>3
    <2>2. step \in Int /\ {} \in SUBSET BackupCodes
      BY <1>0 DEF Steps, Window
    <2> QED  BY <1>2, <2>1, <2>2
  <1>4. CASE \E code \in factors[f].codes :
               Goes(p, [op |-> "code", pc |-> "burn", b |-> b, at |-> now,
                        f |-> f, remember |-> remember, proof |-> code,
                        left |-> factors[f].codes \ {code}])
    <2>1. PICK code \in factors[f].codes :
               Goes(p, [op |-> "code", pc |-> "burn", b |-> b, at |-> now,
                        f |-> f, remember |-> remember, proof |-> code,
                        left |-> factors[f].codes \ {code}])
      BY <1>4
    <2>2. /\ code \in BackupCodes
          /\ factors[f].codes \ {code} \in SUBSET BackupCodes
      BY <1>1
    <2> QED  BY <1>2, <2>1, <2>2
  <1> QED  BY <1>3, <1>4 DEF ReadFactors

LEMMA ChallengeForm ==
    ASSUME Types, NEW p \in Procs, NEW b \in Browsers, NEW r \in signed,
           NEW op \in {"assert", "register"}, NEW remember \in BOOLEAN,
           ReadChallenge(p, b, op, r, remember)
    PROVE  \E t \in ResponseTask :
             /\ Goes(p, t) /\ t.pc = "spend" /\ t.op = op /\ t.b = b
             /\ t.at = now /\ t.r = r
             /\ t.expected \in DOMAIN challenges
             /\ ~challenges[t.expected].consumed
  <1>1. PICK c \in DOMAIN challenges :
          /\ ~challenges[c].consumed
          /\ Goes(p, [op |-> op, pc |-> "spend", b |-> b, at |-> now, r |-> r,
                      remember |-> remember, expected |-> c])
    BY DEF ReadChallenge, Usable
  <1>2. c \in Nat /\ r \in Response /\ now \in Nat
    BY DEF Types
  <1> DEFINE t == [op |-> op, pc |-> "spend", b |-> b, at |-> now, r |-> r,
                   remember |-> remember, expected |-> c]
  <1>3. /\ t \in ResponseTask /\ t.pc = "spend" /\ t.op = op /\ t.b = b
        /\ t.at = now /\ t.r = r /\ t.expected = c
    BY <1>2 DEF ResponseTask
  <1>4. Goes(p, t)
    BY <1>1
  <1> HIDE DEF t
  <1> QED  BY <1>1, <1>3, <1>4

\* A guarded request comes, or stops at the roster.
LEMMA GateForm ==
    ASSUME Types, NEW p \in Procs, NEW b \in Browsers,
           NEW op \in {"gate", "begin", "stop"}, OpenGate(p, b, op)
    PROVE  \/ UNCHANGED procs
           \/ /\ admins'.me = "active"
              /\ \E t \in GateTask :
                   /\ Goes(p, t) /\ t.pc = "factors" /\ t.op = op /\ t.b = b
                   /\ t.at = now /\ t.fresh = mfaStillFresh(b)
  <1> DEFINE t == [op |-> op, pc |-> "factors", b |-> b, at |-> now,
                   fresh |-> mfaStillFresh(b)]
  <1>1. now \in Nat /\ mfaStillFresh(b) \in BOOLEAN
    BY DEF Types, mfaStillFresh
  <1>2. \A x \in BOOLEAN :
          LET u == [op |-> op, pc |-> "factors", b |-> b, at |-> now, fresh |-> x]
          IN  /\ u \in GateTask /\ u.pc = "factors" /\ u.op = op /\ u.b = b
              /\ u.at = now /\ u.fresh = x
    BY <1>1 DEF GateTask
  <1>3. /\ t \in GateTask /\ t.pc = "factors" /\ t.op = op /\ t.b = b
        /\ t.at = now /\ t.fresh = mfaStillFresh(b)
    BY <1>1, <1>2
  <1>4. UNCHANGED procs \/ (admins'.me = "active" /\ Goes(p, t))
    BY DEF OpenGate
  <1> HIDE DEF t
  <1> QED  BY <1>3, <1>4

-----------------------------------------------------------------------------
(* The types hold.                                                          *)

LEMMA FactorNow ==
    ASSUME Types
    PROVE  /\ \A f \in Totps : /\ f \in Ids /\ f \notin Passkeys
                               /\ \/ factors[f] = Absent \/ factors[f] = Removed
                                  \/ factors[f] \in TotpRow
                               /\ Here(f) <=> factors[f] \in TotpRow
                               /\ factors[f].type = "totp" <=> factors[f] \in TotpRow
                               /\ factors[f].verified => factors[f] \in TotpRow
           /\ \A f \in Passkeys : /\ f \in Ids /\ f \notin Totps
                                  /\ \/ factors[f] = Absent \/ factors[f] = Removed
                                     \/ factors[f] \in PasskeyRow
                                  /\ Here(f) <=> factors[f] \in PasskeyRow
                                  /\ factors[f].type # "totp"
  <1>1. Absent.type = "absent" /\ ~Absent.verified
    BY DEF Absent
  <1>2. Removed.type = "removed" /\ ~Removed.verified
    BY DEF Removed
  <1>3. \A row \in TotpRow : row.type = "totp"
    BY DEF TotpRow
  <1>4. \A row \in PasskeyRow : row.type = "webauthn"
    BY DEF PasskeyRow
  <1>5. /\ \A f \in Totps : f \in Ids /\ f \notin Passkeys
        /\ \A f \in Passkeys : f \in Ids /\ f \notin Totps
    BY FactorsAssumption DEF Ids
  <1> QED  BY <1>1, <1>2, <1>3, <1>4, <1>5 DEF Types, FactorsOK, FactorOK, Here

\* One factor row is written.
Written(f, row) == factors' = [factors EXCEPT ![f] = row]

LEMMA FactorWritten ==
    ASSUME Types, NEW f \in Ids, NEW row, FactorOK(f, row),
           Written(f, row)
    PROVE  /\ FactorsOK'
           /\ \A g \in Ids : factors'[g] = IF g = f THEN row ELSE factors[g]
  <1>1. factors = [g \in Ids |-> factors[g]] /\ \A g \in Ids : FactorOK(g, factors[g])
    BY DEF Types, FactorsOK
  <1>2. factors' = [g \in Ids |-> IF g = f THEN row ELSE factors[g]]
    BY <1>1 DEF Written
  <1>3. \A g \in Ids : factors'[g] = IF g = f THEN row ELSE factors[g]
    BY <1>2
  <1>4. \A g \in Ids : FactorOK(g, factors'[g])
    BY <1>1, <1>3
  <1>5. factors' = [g \in Ids |-> factors'[g]]
    BY <1>2, <1>3
  <1> QED  BY <1>3, <1>4, <1>5 DEF FactorsOK, FactorOK

\* What using a row makes of it.
WithCodes(row, codes) == [row EXCEPT !.codes = codes]
WithStep(row, step) == [row EXCEPT !.lastUsedStep = step]

LEMMA TotpMade ==
    ASSUME NEW verified \in BOOLEAN, NEW step \in Int,
           NEW codes \in SUBSET BackupCodes
    PROVE  \E new \in TotpRow :
             /\ new = TotpFactor(verified, step, codes)
             /\ new.verified = verified /\ new.lastUsedStep = step
             /\ new.codes = codes
  <1> DEFINE new == TotpFactor(verified, step, codes)
  <1>1. /\ new \in TotpRow /\ new.verified = verified
        /\ new.lastUsedStep = step /\ new.codes = codes
    BY DEF TotpFactor, TotpRow
  <1> HIDE DEF new
  <1> QED  BY <1>1 DEF new

LEMMA CodesSpent ==
    ASSUME NEW row \in TotpRow, NEW codes \in SUBSET BackupCodes
    PROVE  \E new \in TotpRow :
             /\ new = WithCodes(row, codes)
             /\ new.verified = row.verified /\ new.codes = codes
             /\ new.lastUsedStep = row.lastUsedStep
  <1> DEFINE new == WithCodes(row, codes)
  <1>1. /\ new \in TotpRow /\ new.verified = row.verified
        /\ new.codes = codes /\ new.lastUsedStep = row.lastUsedStep
    BY DEF TotpRow, WithCodes
  <1> HIDE DEF new
  <1> QED  BY <1>1 DEF new

LEMMA StepSpent ==
    ASSUME NEW row \in TotpRow, NEW step \in Int
    PROVE  \E new \in TotpRow :
             /\ new = WithStep(row, step)
             /\ new.verified = row.verified /\ new.codes = row.codes
             /\ new.lastUsedStep = step
  <1> DEFINE new == WithStep(row, step)
  <1>1. /\ new \in TotpRow /\ new.verified = row.verified
        /\ new.codes = row.codes /\ new.lastUsedStep = step
    BY DEF TotpRow, WithStep
  <1> HIDE DEF new
  <1> QED  BY <1>1 DEF new

LEMMA PasskeyMoves ==
    ASSUME NEW row \in PasskeyRow, NEW count \in Nat
    PROVE  /\ [row EXCEPT !.verified = FALSE] \in PasskeyRow
           /\ [row EXCEPT !.signCount = count] \in PasskeyRow
  BY DEF PasskeyRow

LEMMA RowFields ==
    /\ \A row \in TotpRow : /\ row.codes \subseteq BackupCodes
                            /\ row.lastUsedStep \in Int
                            /\ row.verified \in BOOLEAN
    /\ \A row \in PasskeyRow : row.signCount \in Nat
  BY DEF TotpRow, PasskeyRow

\* What each write makes of the factors: the rows in question, by whom.
LEMMA TotpWritten ==
    ASSUME Types, NEW f \in Totps, NEW row \in TotpRow,
           Written(f, row)
    PROVE  /\ FactorsOK'
           /\ \A g \in Ids : factors'[g] = IF g = f THEN row ELSE factors[g]
  <1>1. f \in Ids /\ FactorOK(f, row)
    BY FactorNow DEF FactorOK
  <1> QED  BY <1>1, FactorWritten

LEMMA PasskeyWritten ==
    ASSUME Types, NEW f \in Passkeys, NEW row \in PasskeyRow,
           Written(f, row)
    PROVE  /\ FactorsOK'
           /\ \A g \in Ids : factors'[g] = IF g = f THEN row ELSE factors[g]
  <1>1. f \in Ids /\ FactorOK(f, row)
    BY FactorNow DEF FactorOK
  <1> QED  BY <1>1, FactorWritten

LEMMA EnrolWrites ==
    ASSUME Types, NEW p \in Procs, NEW b \in Browsers, NEW f \in Totps,
           startEnrolmentAction(p, b, f)
    PROVE  /\ FactorsOK' /\ factors[f] = Absent
           /\ factors'[f] \in TotpRow /\ ~factors'[f].verified
           /\ \A g \in Ids : g # f => factors'[g] = factors[g]
  <1>0. FALSE \in BOOLEAN /\ -1 \in Int /\ {} \in SUBSET BackupCodes
    OBVIOUS
  <1> PICK row \in TotpRow : row = TotpFactor(FALSE, -1, {}) /\ ~row.verified
    BY <1>0, TotpMade
  <1>1. factors[f] = Absent /\ Written(f, row)
    BY DEF startEnrolmentAction, Written
  <1> QED  BY <1>1, TotpWritten, FactorNow

LEMMA ActivateWrites ==
    ASSUME Types, NEW p \in Procs, NEW q \in EnableTask, q = procs[p],
           activateTotpFactor(p)
    PROVE  /\ FactorsOK'
           /\ \/ ~Here(q.f) /\ Ends(p) /\ UNCHANGED <<factors, history>>
              \/ /\ Here(q.f) /\ Passes([f |-> q.f, proof |-> q.step], q.b)
                 /\ Moves(p, "mark")
                 /\ factors'[q.f] \in TotpRow /\ factors'[q.f].verified
                 /\ factors'[q.f].lastUsedStep = q.step
                 /\ factors'[q.f].codes = BackupCodes
                 /\ \A g \in Ids : g # q.f => factors'[g] = factors[g]
  <1> PICK row \in TotpRow : /\ row = TotpFactor(TRUE, q.step, BackupCodes)
                             /\ row.verified /\ row.lastUsedStep = q.step
                             /\ row.codes = BackupCodes
    <2>1. /\ TRUE \in BOOLEAN /\ q.step \in Int
          /\ BackupCodes \in SUBSET BackupCodes
      BY TaskFields
    <2>2. \E new \in TotpRow :
             /\ new = TotpFactor(TRUE, q.step, BackupCodes)
             /\ new.verified = TRUE /\ new.lastUsedStep = q.step
             /\ new.codes = BackupCodes
      BY <2>1, TotpMade
    <2> QED  BY <2>2
  <1>0. q.f \in Totps /\ q.f \in Ids
    BY TaskFields, FactorNow
  <1>1. CASE ~Here(q.f)
    BY <1>1 DEF activateTotpFactor, Types, FactorsOK
  <1>2. CASE Here(q.f)
    <2>1. /\ Written(q.f, row)
          /\ Passes([f |-> q.f, proof |-> q.step], q.b) /\ Moves(p, "mark")
      BY <1>2 DEF activateTotpFactor, Written
    <2> QED  BY <1>0, <1>2, <2>1, TotpWritten
  <1> QED  BY <1>1, <1>2

LEMMA BurnWrites ==
    ASSUME Types, NEW p \in Procs, NEW q \in CodeTask, q = procs[p], BurnCode(p)
    PROVE  /\ FactorsOK'
           /\ \/ ~Here(q.f) /\ UNCHANGED factors
              \/ /\ Here(q.f) /\ factors'[q.f] \in TotpRow
                 /\ factors'[q.f].verified = factors[q.f].verified
                 /\ \/ /\ q.proof \in BackupCodes /\ factors'[q.f].codes = q.left
                       /\ factors'[q.f].lastUsedStep = factors[q.f].lastUsedStep
                    \/ /\ q.proof \in Int /\ factors'[q.f].lastUsedStep = q.proof
                       /\ factors'[q.f].codes = factors[q.f].codes
                 /\ \A g \in Ids : g # q.f => factors'[g] = factors[g]
  <1>0. /\ q.f \in Totps /\ q.f \in Ids
        /\ q.proof \in Int \cup BackupCodes /\ q.left \in SUBSET BackupCodes
    BY TaskFields, FactorNow
  <1>1. CASE ~Here(q.f)
    BY <1>1 DEF BurnCode, Types, FactorsOK
  <1>2. CASE Here(q.f) /\ q.proof \in BackupCodes
    <2> PICK old \in TotpRow : old = factors[q.f]
      BY <1>0, <1>2, FactorNow
    <2> PICK row \in TotpRow : /\ row = WithCodes(old, q.left)
                               /\ row.codes = q.left
                               /\ row.lastUsedStep = old.lastUsedStep
                               /\ row.verified = old.verified
      BY <1>0, CodesSpent
    <2>1. Written(q.f, row)
      BY <1>2 DEF BurnCode, Written, WithCodes
    <2> QED  BY <1>0, <1>2, <2>1, TotpWritten
  <1>3. CASE Here(q.f) /\ q.proof \notin BackupCodes
    <2> PICK old \in TotpRow : old = factors[q.f]
      BY <1>0, <1>3, FactorNow
    <2>0. q.proof \in Int
      BY <1>0, <1>3
    <2> PICK row \in TotpRow : /\ row = WithStep(old, q.proof)
                               /\ row.codes = old.codes
                               /\ row.lastUsedStep = q.proof
                               /\ row.verified = old.verified
      BY <2>0, StepSpent
    <2>1. Written(q.f, row)
      BY <1>3 DEF BurnCode, Written, WithStep
    <2> QED  BY <1>0, <1>3, <2>0, <2>1, TotpWritten
  <1> QED  BY <1>1, <1>2, <1>3

\* The steps of a passkey leave every TOTP factor alone.
LEMMA PasskeyWrites ==
    ASSUME Types, NEW p \in Procs,
           (\E f \in Passkeys : savePasskey(p, f)) \/ updatePasskeyCounter(p)
    PROVE  FactorsOK' /\ \A g \in Totps : factors'[g] = factors[g]
  <1> PICK q \in Tasks : q = procs[p]
    BY DEF Types
  <1>1. ASSUME UNCHANGED factors PROVE FactorsOK' /\ \A g \in Totps : factors'[g] = factors[g]
    BY <1>1 DEF Types, FactorsOK
  <1>2. ASSUME NEW f \in Passkeys, NEW row \in PasskeyRow, Written(f, row)
        PROVE  FactorsOK' /\ \A g \in Totps : factors'[g] = factors[g]
    BY <1>2, PasskeyWritten, FactorNow
  <1>3. ASSUME NEW f \in Passkeys, savePasskey(p, f)
        PROVE  FactorsOK' /\ \A g \in Totps : factors'[g] = factors[g]
    <2> DEFINE row == [type |-> "webauthn", verified |-> TRUE,
                       credential |-> q.r.credential, signCount |-> q.r.count]
    <2>1. q.r \in Response
      BY <1>3, TaskKinds, TaskFields DEF savePasskey, At
    <2>2. row \in PasskeyRow
      BY <2>1 DEF PasskeyRow, Response
    <2>3. Written(f, row)
      BY <1>3 DEF savePasskey, Written
    <2> HIDE DEF row
    <2> QED  BY <1>2, <2>2, <2>3
  <1>4. CASE updatePasskeyCounter(p)
    <2>0. q.f \in Passkeys /\ q.r.count \in Nat
      <3>1. q \in CountTask
        BY <1>4, TaskKinds DEF updatePasskeyCounter, At
      <3> QED  BY <3>1, TaskFields DEF Response
    <2>1. CASE Here(q.f)
      <3> DEFINE refused == [factors[q.f] EXCEPT !.verified = FALSE]
                 counted == [factors[q.f] EXCEPT !.signCount = q.r.count]
      <3>1. factors[q.f] \in PasskeyRow
        BY <2>0, <2>1, FactorNow
      <3>2. refused \in PasskeyRow /\ counted \in PasskeyRow
        BY <2>0, <3>1, PasskeyMoves
      <3>3. Written(q.f, refused) \/ Written(q.f, counted)
        BY <1>4, <2>1 DEF updatePasskeyCounter, Written
      <3> HIDE DEF refused, counted
      <3> QED  BY <1>2, <2>0, <3>2, <3>3
    <2>2. CASE ~Here(q.f)
      BY <1>1, <1>4, <2>2 DEF updatePasskeyCounter
    <2> QED  BY <2>1, <2>2
  <1> QED  BY <1>3, <1>4

LEMMA RemovalWrites ==
    ASSUME Types, NEW p \in Procs, NEW b \in Browsers, NEW f \in Ids,
           removeFactorAction(p, b, f)
    PROVE  /\ FactorsOK' /\ factors'[f] = Removed
           /\ \A g \in Ids : g # f => factors'[g] = factors[g]
  <1> PICK row : row = Removed
    OBVIOUS
  <1>1. FactorOK(f, row) /\ Written(f, row)
    BY DEF FactorOK, removeFactorAction, Written
  <1> QED  BY <1>1, FactorWritten

-----------------------------------------------------------------------------
(* A request is begun now, goes on as itself, or ends.                      *)

Follows(p, t) ==
    \/ t = Idle
    \/ procs[p] = Idle /\ t # Idle /\ t.at = now
    \/ /\ procs[p] # Idle /\ t # Idle /\ t.op = procs[p].op
       /\ t.b = procs[p].b /\ t.at = procs[p].at

Advances(p) == UNCHANGED procs \/ \E t \in Tasks : Goes(p, t) /\ Follows(p, t)

LEMMA TaskNow ==
    ASSUME Types, NEW p \in Procs
    PROVE  procs[p] \in Tasks
  BY DEF Types

LEMMA BeginsIdle ==
    ASSUME Types, NEW p \in Procs, NEW b, NEW op, Begin(p, b, op)
    PROVE  procs[p] = Idle /\ session[b] # None
  BY TaskNow, TaskKinds DEF Begin

LEMMA KindsAreTasks ==
    /\ \A t \in EnableTask : t \in Tasks /\ t # Idle
    /\ \A t \in CodeTask : t \in Tasks /\ t # Idle
    /\ \A t \in ResponseTask : t \in Tasks /\ t # Idle
    /\ \A t \in CountTask : t \in Tasks /\ t # Idle
    /\ \A t \in GateTask : t \in Tasks /\ t # Idle
    /\ \A t \in EndTask : t \in Tasks /\ t # Idle
    /\ \A t \in Proving : t \in Tasks /\ t # Idle
  BY TaskFields DEF Tasks, Proving, Guarding

LEMMA EndsAdvance ==
    ASSUME NEW p \in Procs, Ends(p)
    PROVE  Advances(p)
  BY IdleIsTask DEF Ends, Advances, Follows

LEMMA CodesAdvance ==
    ASSUME Types, NEW p \in Procs, NEW b \in Browsers, Codes(p, b)
    PROVE  Advances(p)
  <1>1. ASSUME NEW f \in Totps, startEnrolmentAction(p, b, f) PROVE Advances(p)
    BY <1>1 DEF startEnrolmentAction, Advances
  <1>2. ASSUME NEW f \in Totps, NEW step \in Steps, ReadEnrolment(p, b, f, step)
        PROVE  Advances(p)
    <2>1. PICK t \in EnableTask : Goes(p, t) /\ t.at = now
      BY <1>2, EnrolmentForm
    <2>2. procs[p] = Idle
      BY <1>2, BeginsIdle DEF ReadEnrolment
    <2> QED  BY <2>1, <2>2, TaskFields, KindsAreTasks DEF Advances, Follows
  <1>3. ASSUME NEW f \in Totps, NEW remember \in Remembering,
               ReadFactors(p, b, f, remember)
        PROVE  Advances(p)
    <2>0. remember \in BOOLEAN
      BY <1>3 DEF Remembering
    <2>1. PICK t \in CodeTask : Goes(p, t) /\ t.at = now
      BY <1>3, <2>0, CodeForm
    <2>2. procs[p] = Idle
      BY <1>3, BeginsIdle DEF ReadFactors
    <2> QED  BY <2>1, <2>2, TaskFields, KindsAreTasks DEF Advances, Follows
  <1> QED  BY <1>1, <1>2, <1>3 DEF Codes

LEMMA AssertionsAdvance ==
    ASSUME Types, NEW p \in Procs, NEW b \in Browsers, Assertions(p, b)
    PROVE  Advances(p)
  <1>1. ASSUME NEW purpose, StoreChallenge(p, b, purpose) PROVE Advances(p)
    BY <1>1 DEF StoreChallenge, Advances
  <1>2. ASSUME NEW r \in signed, NEW op \in {"assert", "register"},
               NEW remember \in BOOLEAN, ReadChallenge(p, b, op, r, remember)
        PROVE  Advances(p)
    <2>1. PICK t \in ResponseTask : Goes(p, t) /\ t.at = now /\ t.op = op
      BY <1>2, ChallengeForm
    <2>2. procs[p] = Idle
      BY <1>2, BeginsIdle DEF ReadChallenge
    <2> QED  BY <2>1, <2>2, KindsAreTasks DEF Advances, Follows
  <1>3. \A op, remember : remember \in Remembering =>
          (op = "assert" /\ remember) \in BOOLEAN
    OBVIOUS
  <1> QED  BY <1>1, <1>2, <1>3 DEF Assertions

LEMMA GuardedAdvance ==
    ASSUME Types, NEW p \in Procs, NEW b \in Browsers, Guarded(p, b)
    PROVE  Advances(p)
  <1>1. ASSUME NEW op \in {"gate", "begin", "stop"}, OpenGate(p, b, op)
        PROVE  Advances(p)
    <2>1. CASE UNCHANGED procs
      BY <2>1 DEF Advances
    <2>2. ASSUME NEW t \in GateTask, Goes(p, t), t.at = now, t.op = op
          PROVE  Advances(p)
      <3>1. procs[p] = Idle
        BY <1>1, BeginsIdle DEF OpenGate
      <3> QED  BY <2>2, <3>1, KindsAreTasks DEF Advances, Follows
    <2> QED  BY <1>1, <2>1, <2>2, GateForm
  <1>2. ASSUME forgetAllDevicesAction(p, b) PROVE Advances(p)
    BY <1>2 DEF forgetAllDevicesAction, Advances
  <1>3. ASSUME NEW f \in Ids, removeFactorAction(p, b, f) PROVE Advances(p)
    BY <1>3 DEF removeFactorAction, Advances
  <1> QED  BY <1>1, <1>2, <1>3 DEF Guarded

\* The later steps.
LEMMA ProvingAdvance ==
    ASSUME Types, NEW p \in Procs,
           \/ activateTotpFactor(p) \/ BurnCode(p)
           \/ (\E f \in Passkeys : savePasskey(p, f))
           \/ updatePasskeyCounter(p) \/ markSessionMfaVerified(p)
           \/ \E d \in Devices : rememberThisDevice(p, d)
    PROVE  \/ Ends(p)
           \/ \E t \in Proving, pc \in {"mark", "remember"} :
                /\ Goes(p, t) /\ t.pc = pc /\ t.op = procs[p].op
                /\ t.b = procs[p].b /\ t.at = procs[p].at
                /\ Moves(p, pc) /\ procs[p] \in Proving
  <1> PICK q \in Tasks : q = procs[p]
    BY TaskNow
  <1>1. q \in Proving
    <2>1. q.pc \in {"enable", "burn", "save", "count", "mark", "remember"}
      BY DEF activateTotpFactor, BurnCode, savePasskey, updatePasskeyCounter,
             markSessionMfaVerified, rememberThisDevice, At
    <2> QED  BY <2>1, TaskKinds DEF Proving
  <1>2. ASSUME NEW pc \in {"mark", "remember"}, Moves(p, pc)
        PROVE  \E t \in Proving :
                /\ Goes(p, t) /\ t.pc = pc /\ t.op = q.op /\ t.b = q.b
                /\ t.at = q.at
    <2>1. PICK t \in Proving :
             /\ t = [q EXCEPT !.pc = pc] /\ t.pc = pc /\ t.op = q.op
             /\ t.b = q.b /\ t.at = q.at
      BY <1>1, ProvingMoves
    <2>2. Goes(p, t)
      BY <1>2, <2>1 DEF Moves
    <2> QED  BY <2>1, <2>2
  <1>3. Ends(p) \/ \E pc \in {"mark", "remember"} : Moves(p, pc)
    BY DEF activateTotpFactor, BurnCode, savePasskey, updatePasskeyCounter,
           markSessionMfaVerified, rememberThisDevice
  <1> QED  BY <1>1, <1>2, <1>3

LEMMA BurnAdvances ==
    ASSUME Types, NEW p \in Procs, BurnChallenge(p)
    PROVE  /\ procs[p] \in ResponseTask /\ procs[p].pc = "spend"
           /\ \/ Ends(p)
              \/ /\ procs[p].r.challenge = procs[p].expected
                 /\ \E t \in ResponseTask :
                      /\ Goes(p, t) /\ t.pc \in {"lookup", "save"}
                      /\ t.op = procs[p].op /\ t.b = procs[p].b
                      /\ t.at = procs[p].at /\ t.r = procs[p].r
  <1> PICK q \in Tasks : q = procs[p]
    BY TaskNow
  <1>1. q \in ResponseTask /\ q.pc = "spend"
    <2>1. q.pc = "spend"
      BY DEF BurnChallenge, At
    <2> QED  BY <2>1, TaskKinds
  <1>2. ASSUME NEW pc \in {"lookup", "save"}, Moves(p, pc)
        PROVE  \E t \in ResponseTask :
                /\ Goes(p, t) /\ t.pc = pc /\ t.op = q.op /\ t.b = q.b
                /\ t.at = q.at /\ t.r = q.r
    <2>1. PICK t \in ResponseTask :
             /\ t = Put(q, pc) /\ t.pc = pc /\ t.op = q.op
             /\ t.b = q.b /\ t.at = q.at /\ t.r = q.r
      BY <1>1, <1>2, SpendMoves
    <2>2. Goes(p, t)
      BY <1>2, <2>1 DEF Moves, Put
    <2> QED  BY <2>1, <2>2
  <1>3. \/ Ends(p)
        \/ /\ q.r.challenge = q.expected
           /\ \E pc \in {"lookup", "save"} : Moves(p, pc)
    BY DEF BurnChallenge
  <1> QED  BY <1>1, <1>2, <1>3

LEMMA LookUpAdvances ==
    ASSUME Types, NEW p \in Procs, LookUpPasskey(p)
    PROVE  /\ procs[p] \in ResponseTask /\ procs[p].pc = "lookup"
           /\ \/ Ends(p)
              \/ \E t \in CountTask :
                   /\ Goes(p, t) /\ t.pc = "count" /\ t.op = procs[p].op
                   /\ t.b = procs[p].b /\ t.at = procs[p].at
                   /\ t.r = procs[p].r
  <1> PICK q \in Tasks : q = procs[p]
    BY TaskNow
  <1>1. q \in ResponseTask /\ q.pc = "lookup"
    <2>1. q.pc = "lookup"
      BY DEF LookUpPasskey, At
    <2> QED  BY <2>1, TaskKinds
  <1>2. CASE Ends(p)
    BY <1>1, <1>2
  <1>3. CASE ~Ends(p)
    <2> PICK f \in Named(q.r.credential) :
          Goes(p, [op |-> q.op, pc |-> "count", b |-> q.b, at |-> q.at, r |-> q.r,
                   remember |-> q.remember, f |-> f,
                   previous |-> factors[f].signCount])
      BY <1>3 DEF LookUpPasskey
    <2> DEFINE k == factors[f].signCount
               t == [op |-> q.op, pc |-> "count", b |-> q.b, at |-> q.at,
                     r |-> q.r, remember |-> q.remember, f |-> f, previous |-> k]
    <2>1. f \in Passkeys /\ Here(f) /\ Goes(p, t)
      BY DEF Named
    <2>2. /\ q.op \in {"assert", "register"} /\ q.b \in Browsers
          /\ q.at \in Nat /\ q.r \in Response /\ q.remember \in BOOLEAN
      BY <1>1, TaskFields
    <2>3. k \in Nat
      BY <2>1, FactorNow, RowFields
    <2> HIDE DEF k
    <2>4. /\ t \in CountTask /\ t.pc = "count" /\ t.op = q.op /\ t.b = q.b
          /\ t.at = q.at /\ t.r = q.r
      BY <2>1, <2>2, <2>3 DEF CountTask
    <2> HIDE DEF t
    <2> QED  BY <1>1, <2>1, <2>4
  <1> QED  BY <1>2, <1>3

\* The task of a guarded request as it moves on.
GateStep(p, pc) ==
    \E t \in GateTask :
      /\ Goes(p, t) /\ procs[p] \in GateTask /\ t.pc = pc /\ t.op = procs[p].op
      /\ t.b = procs[p].b /\ t.at = procs[p].at /\ t.fresh = procs[p].fresh
EndStep(p) ==
    \E t \in EndTask :
      /\ Goes(p, t) /\ procs[p] \in GateTask /\ t.op = procs[p].op
      /\ t.b = procs[p].b /\ t.at = procs[p].at /\ t.i \in DOMAIN imps

LEMMA GateStepIs ==
    ASSUME Types, NEW p \in Procs, procs[p] \in GateTask,
           NEW pc \in {"device", "ok", "target", "active", "insert"},
           Moves(p, pc)
    PROVE  GateStep(p, pc)
  <1> PICK q \in Tasks : q = procs[p]
    BY TaskNow
  <1>1. PICK t \in GateTask :
           /\ t = Put(q, pc) /\ t.pc = pc /\ t.op = q.op
           /\ t.b = q.b /\ t.at = q.at /\ t.fresh = q.fresh
    BY GateMoves
  <1>2. Goes(p, t)
    BY <1>1 DEF Moves, Put
  <1> QED  BY <1>1, <1>2 DEF GateStep

LEMMA GateAdvances ==
    ASSUME Types, NEW p \in Procs,
           \/ hasVerifiedMfa(p) \/ FindTrustedDevice(p) \/ Render(p)
           \/ \E who \in {Colleague, Customer} : CheckTarget(p, who)
           \/ ActiveImpersonation(p) \/ endImpersonation(p)
           \/ InsertImpersonation(p)
    PROVE  /\ procs[p] \in Guarding
           /\ \/ Ends(p)
              \/ /\ procs[p].pc = "factors" /\ GateStep(p, "device")
                 /\ \E f \in Ids : factors[f].verified
              \/ /\ procs[p].pc = "device"
                 /\ \E pc \in {"ok", "target", "active"} :
                      /\ GateStep(p, pc)
                      /\ pc = "target" => procs[p].op = "begin"
                 /\ (procs[p].fresh \/ trusted(procs[p].b))
              \/ procs[p].pc = "target" /\ GateStep(p, "active")
              \/ /\ procs[p].pc = "active" /\ procs[p].op = "begin"
                 /\ GateStep(p, "insert") /\ \A i \in DOMAIN imps : ~Open(i)
              \/ procs[p].pc = "active" /\ EndStep(p)
  <1> PICK q \in Tasks : q = procs[p]
    BY TaskNow
  <1>1. q \in Guarding
    <2>1. q.pc \in {"factors", "device", "ok", "target", "active", "insert", "end"}
      BY DEF hasVerifiedMfa, FindTrustedDevice, Render, CheckTarget,
             ActiveImpersonation, endImpersonation, InsertImpersonation, At
    <2> QED  BY <2>1, TaskKinds DEF Guarding
  <1>2. q.pc # "end" => q \in GateTask
    BY <1>1, TaskKinds, TaskFields DEF Guarding
  <1>4. CASE Ends(p)
    BY <1>1, <1>4
  <1>5. CASE hasVerifiedMfa(p) /\ ~Ends(p)
    <2>1. /\ q.pc = "factors" /\ Moves(p, "device")
          /\ \E f \in Ids : factors[f].verified
      BY <1>5 DEF hasVerifiedMfa, At
    <2>2. GateStep(p, "device")
      BY <1>2, <2>1, GateStepIs
    <2> QED  BY <1>1, <2>1, <2>2
  <1>6. CASE FindTrustedDevice(p) /\ ~Ends(p)
    <2>1. /\ q.pc = "device" /\ (q.fresh \/ trusted(q.b))
          /\ Moves(p, CASE q.op = "gate" -> "ok" [] q.op = "begin" -> "target"
                      [] q.op = "stop" -> "active")
      BY <1>6 DEF FindTrustedDevice, At
    <2>2. q \in GateTask /\ q.op \in {"gate", "begin", "stop"}
      BY <1>2, <2>1, TaskFields
    <2>3. PICK pc \in {"ok", "target", "active"} :
            Moves(p, pc) /\ (pc = "target" => q.op = "begin")
      BY <2>1, <2>2
    <2>4. GateStep(p, pc)
      BY <2>2, <2>3, GateStepIs
    <2> QED  BY <1>1, <2>1, <2>3, <2>4
  <1>7. CASE (\E who \in {Colleague, Customer} : CheckTarget(p, who)) /\ ~Ends(p)
    <2>1. q.pc = "target" /\ Moves(p, "active")
      BY <1>7 DEF CheckTarget, At
    <2>2. GateStep(p, "active")
      BY <1>2, <2>1, GateStepIs
    <2> QED  BY <1>1, <2>1, <2>2
  <1>8. CASE ActiveImpersonation(p) /\ ~Ends(p)
    <2>0. q.pc = "active" /\ q \in GateTask
      BY <1>2, <1>8 DEF ActiveImpersonation, At
    <2>1. CASE q.op = "begin"
      <3>1. Moves(p, "insert") /\ \A i \in DOMAIN imps : ~Open(i)
        BY <1>8, <2>1 DEF ActiveImpersonation
      <3>2. GateStep(p, "insert")
        BY <2>0, <3>1, GateStepIs
      <3> QED  BY <1>1, <2>0, <2>1, <3>1, <3>2
    <2>2. CASE q.op # "begin"
      <3>0. q.op \in {"gate", "stop"} /\ q.b \in Browsers /\ q.at \in Nat
        BY <2>0, <2>2, TaskFields
      <3>1. PICK i \in DOMAIN imps :
              Goes(p, [op |-> q.op, pc |-> "end", b |-> q.b, at |-> q.at, i |-> i])
        BY <1>8, <2>2 DEF ActiveImpersonation
      <3>2. i \in Nat
        BY DEF Types
      <3> DEFINE t == [op |-> q.op, pc |-> "end", b |-> q.b, at |-> q.at, i |-> i]
      <3>3. /\ t \in EndTask /\ t.op = q.op /\ t.b = q.b /\ t.at = q.at
            /\ t.i = i /\ Goes(p, t)
        BY <3>0, <3>1, <3>2 DEF EndTask
      <3> HIDE DEF t
      <3>4. EndStep(p)
        BY <2>0, <3>3 DEF EndStep
      <3> QED  BY <1>1, <2>0, <3>4
    <2> QED  BY <2>1, <2>2
  <1>9. CASE Render(p) \/ endImpersonation(p) \/ InsertImpersonation(p)
    BY <1>4, <1>9 DEF Render, endImpersonation, InsertImpersonation
  <1> QED  BY <1>4, <1>5, <1>6, <1>7, <1>8, <1>9

-----------------------------------------------------------------------------
(* Every step keeps the types.                                              *)

LEMMA RequestAdvances ==
    ASSUME Types, NEW p \in Procs, Request(p)
    PROVE  Advances(p)
  <1>1. CASE \E b \in Browsers : Codes(p, b) \/ Assertions(p, b) \/ Guarded(p, b)
    BY <1>1, CodesAdvance, AssertionsAdvance, GuardedAdvance
  <1>2. ASSUME NEW t \in Tasks, Goes(p, t), t # Idle, procs[p] # Idle,
               t.op = procs[p].op, t.b = procs[p].b, t.at = procs[p].at
        PROVE  Advances(p)
    BY <1>2 DEF Advances, Follows
  <1>3. procs[p] \in Proving \cup Guarding => procs[p] # Idle
    BY TaskFields DEF Proving, Guarding
  <1>4. CASE \/ activateTotpFactor(p) \/ BurnCode(p)
             \/ (\E f \in Passkeys : savePasskey(p, f))
             \/ updatePasskeyCounter(p) \/ markSessionMfaVerified(p)
             \/ \E d \in Devices : rememberThisDevice(p, d)
    BY <1>2, <1>3, <1>4, ProvingAdvance, KindsAreTasks, EndsAdvance
  <1>5. CASE BurnChallenge(p)
    BY <1>2, <1>3, <1>5, BurnAdvances, KindsAreTasks, EndsAdvance DEF Proving
  <1>6. CASE LookUpPasskey(p)
    BY <1>2, <1>3, <1>6, LookUpAdvances, KindsAreTasks, EndsAdvance DEF Proving
  <1>7. CASE \/ hasVerifiedMfa(p) \/ FindTrustedDevice(p) \/ Render(p)
             \/ \E who \in {Colleague, Customer} : CheckTarget(p, who)
             \/ ActiveImpersonation(p) \/ endImpersonation(p)
             \/ InsertImpersonation(p)
    <2>1. ASSUME NEW pc, GateStep(p, pc) PROVE Advances(p)
      BY <1>2, <1>3, <2>1, KindsAreTasks DEF GateStep, Guarding
    <2>2. ASSUME EndStep(p) PROVE Advances(p)
      BY <1>2, <1>3, <2>2, KindsAreTasks DEF EndStep, Guarding
    <2> QED  BY <1>7, <2>1, <2>2, GateAdvances, EndsAdvance
  <1>8. CASE Crash(p)
    BY <1>8, EndsAdvance DEF Crash
  <1> QED  BY <1>1, <1>4, <1>5, <1>6, <1>7, <1>8 DEF Request

LEMMA AdvancesTypes ==
    ASSUME Types, NEW p \in Procs, Advances(p)
    PROVE  /\ procs' \in [Procs -> Tasks]
           /\ \A v \in Procs : v # p => procs'[v] = procs[v]
           /\ procs'[p] = procs[p] \/ Follows(p, procs'[p])
  <1>1. CASE UNCHANGED procs
    BY <1>1 DEF Types
  <1>2. ASSUME NEW t \in Tasks, Goes(p, t), Follows(p, t)
        PROVE  /\ procs' \in [Procs -> Tasks]
               /\ \A v \in Procs : v # p => procs'[v] = procs[v]
               /\ Follows(p, procs'[p])
    BY <1>2, GoesForm
  <1> QED  BY <1>1, <1>2 DEF Advances

\* What a proof leaves in the browser.
LEMMA PassesTypes ==
    ASSUME Types, NEW proof, NEW b \in Browsers, Passes(proof, b)
    PROVE  /\ proved' \in [Browsers -> Time]
           /\ \A v \in Browsers : proved'[v] = IF v = b THEN now ELSE proved[v]
  BY DEF Passes, Types, Time

Quiet == UNCHANGED <<now, tables, signed, history>>

LEMMA QuietTypes ==
    ASSUME Types, Quiet, procs' \in [Procs -> Tasks]
    PROVE  Types'
  BY DEF Types, FactorsOK, Quiet, tables, history

LEMMA FactorsKept ==
    ASSUME Types, UNCHANGED factors
    PROVE  FactorsOK'
  BY DEF Types, FactorsOK

LEMMA CodesTypes ==
    ASSUME Types, NEW p \in Procs, NEW b \in Browsers, Codes(p, b),
           procs' \in [Procs -> Tasks]
    PROVE  Types'
  <1>1. ASSUME NEW f \in Totps, startEnrolmentAction(p, b, f) PROVE Types'
    BY <1>1, EnrolWrites DEF startEnrolmentAction, Types, history
  <1>2. ASSUME NEW f \in Totps, NEW step \in Steps, ReadEnrolment(p, b, f, step)
        PROVE  Types'
    BY <1>2, QuietTypes DEF ReadEnrolment, Quiet
  <1>3. ASSUME NEW f \in Totps, NEW remember, ReadFactors(p, b, f, remember)
        PROVE  Types'
    BY <1>3, QuietTypes DEF ReadFactors, Quiet
  <1> QED  BY <1>1, <1>2, <1>3 DEF Codes

LEMMA AssertionsTypes ==
    ASSUME Types, NEW p \in Procs, NEW b \in Browsers, Assertions(p, b),
           procs' \in [Procs -> Tasks]
    PROVE  Types'
  <1>1. ASSUME NEW purpose \in {"register", "authenticate"},
               StoreChallenge(p, b, purpose)
        PROVE  Types'
    <2> DEFINE c == [purpose |-> purpose, expires |-> now + ChallengeTTL,
                     consumed |-> FALSE]
    <2>1. c \in Challenge
      BY FactorsAssumption DEF Types, Challenge
    <2>2. challenges' = Append(challenges, c)
      BY <1>1 DEF StoreChallenge
    <2> HIDE DEF c
    <2>3. challenges' \in Seq(Challenge)
      BY <2>1, <2>2 DEF Types
    <2> QED  BY <1>1, <2>3, FactorsKept DEF StoreChallenge, Types, history
  <1>2. ASSUME NEW r, NEW op, NEW remember, ReadChallenge(p, b, op, r, remember)
        PROVE  Types'
    BY <1>2, QuietTypes DEF ReadChallenge, Quiet
  <1> QED  BY <1>1, <1>2 DEF Assertions

LEMMA GuardedTypes ==
    ASSUME Types, NEW p \in Procs, NEW b \in Browsers, Guarded(p, b),
           procs' \in [Procs -> Tasks]
    PROVE  Types'
  <1>1. ASSUME NEW op, OpenGate(p, b, op) PROVE Types'
    BY <1>1, FactorsKept DEF OpenGate, Types, history
  <1>2. ASSUME forgetAllDevicesAction(p, b) PROVE Types'
    BY <1>2, FactorsKept DEF forgetAllDevicesAction, Types, history
  <1>3. ASSUME NEW f \in Ids, removeFactorAction(p, b, f) PROVE Types'
    BY <1>3, RemovalWrites DEF removeFactorAction, Types, history
  <1> QED  BY <1>1, <1>2, <1>3 DEF Guarded

LEMMA ProvingTypes ==
    ASSUME Types, NEW p \in Procs, procs' \in [Procs -> Tasks],
           \/ activateTotpFactor(p) \/ BurnCode(p)
           \/ (\E f \in Passkeys : savePasskey(p, f))
           \/ updatePasskeyCounter(p) \/ markSessionMfaVerified(p)
           \/ \E d \in Devices : rememberThisDevice(p, d)
    PROVE  Types'
  <1> PICK q \in Tasks : q = procs[p]
    BY TaskNow
  <1>0. q.pc # "idle" => q.b \in Browsers
    BY TaskKinds
  <1>1. CASE activateTotpFactor(p)
    <2>1. q \in EnableTask /\ q.b \in Browsers
      BY <1>0, <1>1, TaskKinds DEF activateTotpFactor, At
    <2>2. FactorsOK'
      BY <1>1, <2>1, ActivateWrites
    <2>3. proved' \in [Browsers -> Time]
      <3>1. CASE UNCHANGED history
        BY <3>1 DEF history, Types
      <3>2. CASE \E proof : Passes(proof, q.b)
        BY <2>1, <3>2, PassesTypes
      <3> QED  BY <1>1, <3>1, <3>2 DEF activateTotpFactor
    <2> QED  BY <1>1, <2>2, <2>3 DEF activateTotpFactor, Types
  <1>2. CASE BurnCode(p)
    <2>1. q \in CodeTask /\ q.b \in Browsers
      BY <1>0, <1>2, TaskKinds DEF BurnCode, At
    <2>2. FactorsOK'
      BY <1>2, <2>1, BurnWrites
    <2>3. proved' \in [Browsers -> Time]
      BY <1>2, <2>1, PassesTypes DEF BurnCode
    <2> QED  BY <1>2, <2>2, <2>3 DEF BurnCode, Types
  <1>3. ASSUME NEW f \in Passkeys, savePasskey(p, f) PROVE Types'
    <2>1. q.b \in Browsers
      BY <1>0, <1>3 DEF savePasskey, At
    <2>2. FactorsOK'
      BY <1>3, PasskeyWrites
    <2>3. proved' \in [Browsers -> Time]
      BY <1>3, <2>1, PassesTypes DEF savePasskey
    <2> QED  BY <1>3, <2>2, <2>3 DEF savePasskey, Types
  <1>4. CASE updatePasskeyCounter(p)
    <2>1. q.b \in Browsers
      BY <1>0, <1>4 DEF updatePasskeyCounter, At
    <2>2. FactorsOK'
      BY <1>4, PasskeyWrites
    <2>3. proved' \in [Browsers -> Time]
      <3>1. CASE UNCHANGED history
        BY <3>1 DEF history, Types
      <3>2. CASE \E proof : Passes(proof, q.b)
        BY <2>1, <3>2, PassesTypes
      <3> QED  BY <1>4, <3>1, <3>2 DEF updatePasskeyCounter
    <2> QED  BY <1>4, <2>2, <2>3 DEF updatePasskeyCounter, Types
  <1>5. CASE markSessionMfaVerified(p)
    <2>1. [mfaAt |-> now] \in Session
      BY DEF Types, Session, Time
    <2>2. session' \in [Browsers -> Session \cup {None}]
      BY <1>5, <2>1 DEF markSessionMfaVerified, Types
    <2> QED  BY <1>5, <2>2, FactorsKept DEF markSessionMfaVerified, Types, history
  <1>6. ASSUME NEW d, rememberThisDevice(p, d) PROVE Types'
    BY <1>6, FactorsKept DEF rememberThisDevice, Types, history
  <1> QED  BY <1>1, <1>2, <1>3, <1>4, <1>5, <1>6

\* What happens to the impersonation sessions.
Opened(imp) == imp \in Imp /\ imp.state = "open" /\ imp.expires = now + Minutes
EndedOf(imp) == [imp EXCEPT !.state = IF @ = "open" THEN "ended" ELSE @]

LEMMA ImpFields ==
    ASSUME NEW imp \in Imp
    PROVE  /\ imp.state \in {"open", "ended", "expired"} /\ imp.expires \in Int
           /\ EndedOf(imp) \in Imp /\ EndedOf(imp).state # "open"
           /\ imp.state # "open" => EndedOf(imp) = imp
           /\ [imp EXCEPT !.state = "expired"] \in Imp
           /\ [imp EXCEPT !.state = "expired"].state = "expired"
  BY DEF Imp, EndedOf

LEMMA ImpsInsert ==
    ASSUME Types, NEW p \in Procs, InsertImpersonation(p)
    PROVE  \E imp \in Imp : Opened(imp) /\ imps' = Append(imps, imp)
  <1> DEFINE imp == [state |-> "open", expires |-> now + Minutes]
  <1>1. imp \in Imp /\ Opened(imp)
    BY FactorsAssumption DEF Imp, Opened, Types
  <1>2. imps' = Append(imps, imp)
    BY DEF InsertImpersonation
  <1> HIDE DEF imp
  <1> QED  BY <1>1, <1>2

\* One element of a sequence is replaced, if it is there.
Replaced(s, t, k, e) == t = [s EXCEPT ![k] = e]

LEMMA SeqReplaced ==
    ASSUME NEW S, NEW s \in Seq(S), NEW t, NEW k, NEW e,
           Replaced(s, t, k, e), k \in DOMAIN s => e \in S
    PROVE  /\ t \in Seq(S) /\ DOMAIN t = DOMAIN s
           /\ \A i \in DOMAIN s : t[i] = IF i = k THEN e ELSE s[i]
  <1>1. DOMAIN s = 1..Len(s) /\ Len(s) \in Nat /\ \A i \in DOMAIN s : s[i] \in S
    OBVIOUS
  <1>2. s = [i \in DOMAIN s |-> s[i]]
    OBVIOUS
  <1>3. t = [i \in DOMAIN s |-> IF i = k THEN e ELSE s[i]]
    BY <1>2 DEF Replaced
  <1>4. \A i \in DOMAIN s : (IF i = k THEN e ELSE s[i]) \in S
    BY <1>1
  <1>5. t \in [1..Len(s) -> S]
    BY <1>1, <1>3, <1>4
  <1> QED  BY <1>1, <1>3, <1>5

LEMMA ImpsEnd ==
    ASSUME Types, NEW p \in Procs, endImpersonation(p)
    PROVE  /\ imps' \in Seq(Imp) /\ DOMAIN imps' = DOMAIN imps
           /\ \A i \in DOMAIN imps :
                imps'[i] = imps[i] \/ imps'[i] = EndedOf(imps[i])
  <1> PICK k : k = procs[p].i
    OBVIOUS
  <1>0. \A i \in DOMAIN imps : imps[i] \in Imp
    BY DEF Types
  <1> PICK e : e = EndedOf(imps[k])
    OBVIOUS
  <1>1. Replaced(imps, imps', k, e)
    BY DEF endImpersonation, EndedOf, Replaced
  <1>2. k \in DOMAIN imps => e \in Imp
    BY <1>0, ImpFields
  <1>3. imps \in Seq(Imp)
    BY DEF Types
  <1> QED  BY <1>1, <1>2, <1>3, SeqReplaced

LEMMA ImpsExpire ==
    ASSUME Types, expireImpersonations
    PROVE  /\ imps' \in Seq(Imp) /\ DOMAIN imps' = DOMAIN imps
           /\ \A i \in DOMAIN imps :
                \/ imps'[i] = imps[i]
                \/ imps[i].state = "open" /\ imps'[i].state = "expired"
  <1> DEFINE Swept(i) == IF imps[i].state = "open" /\ imps[i].expires <= now
                         THEN [imps[i] EXCEPT !.state = "expired"] ELSE imps[i]
  <1>0. imps \in Seq(Imp) /\ \A i \in DOMAIN imps : imps[i] \in Imp
    BY DEF Types
  <1>1. imps' = [i \in DOMAIN imps |-> Swept(i)]
    BY DEF expireImpersonations
  <1>2. \A i \in DOMAIN imps :
          /\ Swept(i) \in Imp
          /\ \/ Swept(i) = imps[i]
             \/ imps[i].state = "open" /\ Swept(i).state = "expired"
    BY <1>0, ImpFields
  <1> HIDE DEF Swept
  <1>3. DOMAIN imps = 1..Len(imps) /\ Len(imps) \in Nat
    BY <1>0
  <1>4. imps' \in Seq(Imp) /\ DOMAIN imps' = DOMAIN imps
    BY <1>1, <1>2, <1>3
  <1> QED  BY <1>1, <1>2, <1>4

\* A challenge is consumed.
Burnt(k) == challenges' = [challenges EXCEPT ![k].consumed = TRUE]

LEMMA ChallengeBurnt ==
    ASSUME Types, NEW k, Burnt(k)
    PROVE  /\ challenges' \in Seq(Challenge)
           /\ DOMAIN challenges' = DOMAIN challenges
           /\ k \in DOMAIN challenges => challenges'[k].consumed
           /\ \A i \in DOMAIN challenges : i # k => challenges'[i] = challenges[i]
  <1>1. /\ challenges \in Seq(Challenge)
        /\ \A i \in DOMAIN challenges : challenges[i] \in Challenge
    BY DEF Types
  <1> PICK e : e = [challenges[k] EXCEPT !.consumed = TRUE]
    OBVIOUS
  <1>2. k \in DOMAIN challenges => e \in Challenge /\ e.consumed
    BY <1>1 DEF Challenge
  <1>3. Replaced(challenges, challenges', k, e)
    BY DEF Burnt, Replaced
  <1>4. /\ challenges' \in Seq(Challenge)
        /\ DOMAIN challenges' = DOMAIN challenges
        /\ \A i \in DOMAIN challenges :
             challenges'[i] = IF i = k THEN e ELSE challenges[i]
    BY <1>1, <1>2, <1>3, SeqReplaced
  <1> QED  BY <1>2, <1>4

LEMMA LaterTypes ==
    ASSUME Types, NEW p \in Procs, procs' \in [Procs -> Tasks],
           \/ BurnChallenge(p) \/ LookUpPasskey(p)
           \/ hasVerifiedMfa(p) \/ FindTrustedDevice(p) \/ Render(p)
           \/ \E who \in {Colleague, Customer} : CheckTarget(p, who)
           \/ ActiveImpersonation(p) \/ endImpersonation(p)
           \/ InsertImpersonation(p) \/ Crash(p)
    PROVE  Types'
  <1>1. CASE BurnChallenge(p)
    <2> PICK k : k = procs[p].expected
      OBVIOUS
    <2>0. challenges \in Seq(Challenge)
          /\ \A i \in DOMAIN challenges : challenges[i] \in Challenge
      BY DEF Types
    <2>1. Burnt(k)
      BY <1>1 DEF BurnChallenge, Burnt
    <2>2. challenges' \in Seq(Challenge)
      BY <2>1, ChallengeBurnt
    <2> QED  BY <1>1, <2>2, FactorsKept DEF BurnChallenge, Types, history
  <1>2. CASE endImpersonation(p)
    BY <1>2, ImpsEnd, FactorsKept DEF endImpersonation, Types, history
  <1>3. CASE InsertImpersonation(p)
    <2> PICK imp \in Imp : imps' = Append(imps, imp)
      BY <1>3, ImpsInsert
    <2>1. imps' \in Seq(Imp)
      BY DEF Types
    <2> QED  BY <1>3, <2>1, FactorsKept DEF InsertImpersonation, Types, history
  <1>4. CASE Quiet
    BY <1>4, QuietTypes
  <1> QED  BY <1>1, <1>2, <1>3, <1>4
           DEF LookUpPasskey, hasVerifiedMfa, FindTrustedDevice, Render,
               CheckTarget, ActiveImpersonation, Crash, Quiet

LEMMA AroundTypes ==
    ASSUME Types, Around
    PROVE  /\ Types'
           /\ \A v \in Procs : procs'[v] = procs[v]
  <1>0. UNCHANGED procs
    BY DEF Around, SignIn, SignOut, revokePlatformAdmin, Sign,
           expireImpersonations, Tick
  <1>1. procs' \in [Procs -> Tasks] /\ \A v \in Procs : procs'[v] = procs[v]
    BY <1>0 DEF Types
  <1>2. ASSUME NEW b \in Browsers, SignIn(b) \/ SignOut(b) PROVE Types'
    <2>1. [mfaAt |-> None] \in Session
      BY DEF Session, Time
    <2>2. session' \in [Browsers -> Session \cup {None}]
      BY <1>2, <2>1 DEF SignIn, SignOut, Types
    <2> QED  BY <1>1, <1>2, <2>2, FactorsKept DEF SignIn, SignOut, Types, history
  <1>3. ASSUME NEW who, revokePlatformAdmin(who) PROVE Types'
    BY <1>1, <1>3, FactorsKept DEF revokePlatformAdmin, Types, history
  <1>4. ASSUME NEW c \in DOMAIN challenges, NEW credential \in Credentials,
               NEW count \in 0..2, Sign(c, credential, count)
        PROVE  Types'
    <2>1. c \in Nat /\ count \in Nat
      BY DEF Types
    <2>2. [challenge |-> c, credential |-> credential, count |-> count] \in Response
      BY <2>1 DEF Response
    <2>3. signed' \subseteq Response
      BY <1>4, <2>2 DEF Sign, Types
    <2> QED  BY <1>1, <1>4, <2>3, FactorsKept DEF Sign, Types, tables, history
  <1>5. CASE expireImpersonations
    BY <1>1, <1>5, ImpsExpire, FactorsKept DEF expireImpersonations, Types, history
  <1>6. CASE Tick
    BY <1>1, <1>6, FactorsKept DEF Tick, Types, tables, history
  <1> QED  BY <1>1, <1>2, <1>3, <1>4, <1>5, <1>6 DEF Around

\* A request's step: the types after it, and whose task it changes.
LEMMA RequestTypes ==
    ASSUME Types, NEW p \in Procs, Request(p)
    PROVE  /\ Types' /\ Advances(p)
           /\ \A v \in Procs : v # p => procs'[v] = procs[v]
           /\ procs'[p] = procs[p] \/ Follows(p, procs'[p])
  <1>1. Advances(p)
    BY RequestAdvances
  <1>2. /\ procs' \in [Procs -> Tasks]
        /\ \A v \in Procs : v # p => procs'[v] = procs[v]
        /\ procs'[p] = procs[p] \/ Follows(p, procs'[p])
    BY <1>1, AdvancesTypes
  <1>3. Types'
    BY <1>2, CodesTypes, AssertionsTypes, GuardedTypes, ProvingTypes, LaterTypes
       DEF Request
  <1> QED  BY <1>1, <1>2, <1>3

LEMMA InitTypes ==
    ASSUME Init
    PROVE  Types
  <1> PICK enrolling \in Browsers :
        LET at == [b \in Browsers |-> IF bound.enrolled # {} /\ b = enrolling
                                      THEN now ELSE None]
        IN  proved = at /\ session = [b \in Browsers |-> [mfaAt |-> at[b]]]
    BY DEF Init
  <1>1. now = 1 /\ proved \in [Browsers -> Time]
    BY DEF Init, Time
  <1>2. \A b \in Browsers : [mfaAt |-> proved[b]] \in Session
    BY <1>1 DEF Session
  <1>3. session \in [Browsers -> Session \cup {None}]
    BY <1>2
  <1>4. FactorsOK
    <2>0. TRUE \in BOOLEAN /\ now \in Int /\ BackupCodes \in SUBSET BackupCodes
      BY <1>1
    <2>5. \E new \in TotpRow :
             /\ new = TotpFactor(TRUE, now, BackupCodes)
             /\ new.verified = TRUE /\ new.lastUsedStep = now
             /\ new.codes = BackupCodes
      BY <2>0, TotpMade
    <2> PICK row \in TotpRow : row = TotpFactor(TRUE, now, BackupCodes)
      BY <2>5
    <2>1. factors = [f \in Ids |-> IF f \in bound.enrolled THEN row ELSE Absent]
      BY DEF Init
    <2>2. \A f \in Ids : factors[f] = IF f \in bound.enrolled THEN row ELSE Absent
      BY <2>1
    <2>3. bound.enrolled \subseteq Totps
      BY FactorsAssumption DEF Init
    <2>4. \A f \in Ids : FactorOK(f, factors[f])
      BY <2>2, <2>3 DEF FactorOK
    <2> QED  BY <2>1, <2>2, <2>4 DEF FactorsOK
  <1>5. procs \in [Procs -> Tasks]
    BY IdleIsTask DEF Init
  <1> QED  BY <1>1, <1>3, <1>4, <1>5 DEF Init, Types

LEMMA NextTypes ==
    ASSUME Types, [Next]_vars
    PROVE  Types'
  <1>1. CASE UNCHANGED vars
    BY <1>1 DEF Types, FactorsOK, vars, tables, history
  <1>2. CASE \E p \in Procs : Request(p)
    BY <1>2, RequestTypes
  <1>3. CASE Around
    BY <1>3, AroundTypes
  <1> QED  BY <1>1, <1>2, <1>3 DEF Next

\* Every request is at a step of its own program, with what that step uses,
\* and every row has the form its columns give it.
THEOREM TypesLast == Spec => []Types
  <1>1. Init => Types
    BY InitTypes
  <1>2. Types /\ [Next]_vars => Types'
    BY NextTypes
  <1> QED  BY <1>1, <1>2, PTL DEF Spec

-----------------------------------------------------------------------------
(* The record of an impersonation.                                          *)

\* What a step does to the sessions of impersonation.
LEMMA ImpsStep ==
    ASSUME Types, [Next]_vars
    PROVE  \/ UNCHANGED imps
           \/ \E p \in Procs : InsertImpersonation(p)
           \/ \E p \in Procs : endImpersonation(p)
           \/ expireImpersonations
  <1>1. CASE UNCHANGED vars
    BY <1>1 DEF vars, tables
  <1>2. ASSUME NEW p \in Procs, NEW b \in Browsers,
               Codes(p, b) \/ Assertions(p, b) \/ Guarded(p, b)
        PROVE  UNCHANGED imps
    BY <1>2 DEF Codes, startEnrolmentAction, ReadEnrolment, ReadFactors,
               Assertions, StoreChallenge, ReadChallenge, Guarded, OpenGate,
               forgetAllDevicesAction, removeFactorAction, tables
  <1>3. ASSUME NEW p \in Procs,
               \/ activateTotpFactor(p) \/ BurnCode(p) \/ BurnChallenge(p)
               \/ (\E f \in Passkeys : savePasskey(p, f)) \/ LookUpPasskey(p) \/ updatePasskeyCounter(p)
               \/ markSessionMfaVerified(p)
               \/ \E d \in Devices : rememberThisDevice(p, d)
               \/ hasVerifiedMfa(p) \/ FindTrustedDevice(p) \/ Render(p)
               \/ \E who \in {Colleague, Customer} : CheckTarget(p, who)
               \/ ActiveImpersonation(p) \/ Crash(p)
        PROVE  UNCHANGED imps
    BY <1>3 DEF activateTotpFactor, BurnCode, BurnChallenge, savePasskey,
               LookUpPasskey, updatePasskeyCounter, markSessionMfaVerified,
               rememberThisDevice, hasVerifiedMfa, FindTrustedDevice, Render,
               CheckTarget, ActiveImpersonation, Crash, tables
  <1>4. CASE Around
    BY <1>4 DEF Around, SignIn, SignOut, revokePlatformAdmin, Sign, Tick, tables
  <1>5. ASSUME NEW p \in Procs, Request(p)
        PROVE  UNCHANGED imps \/ InsertImpersonation(p) \/ endImpersonation(p)
    BY <1>2, <1>3, <1>5 DEF Request
  <1> QED  BY <1>1, <1>4, <1>5 DEF Next

\* No step changes the record of an impersonation that is over, whoever ends
\* it: neither a stop that read it while it was open nor the sweep.
THEOREM RecordStands == Spec => EndedStands
  <1>1. ASSUME Types, [Next]_vars
        PROVE  \A i \in DOMAIN imps :
                 imps[i].state \in {"ended", "expired"} => imps'[i] = imps[i]
    <2>0. \A i \in DOMAIN imps : imps[i] \in Imp
      BY <1>1 DEF Types
    <2>1. ASSUME NEW p \in Procs, InsertImpersonation(p)
          PROVE  \A i \in DOMAIN imps : imps'[i] = imps[i]
      <3> PICK imp \in Imp : imps' = Append(imps, imp)
        BY <1>1, <2>1, ImpsInsert
      <3> QED  BY <1>1 DEF Types
    <2>2. ASSUME NEW p \in Procs, endImpersonation(p), NEW i \in DOMAIN imps,
                 imps[i].state # "open"
          PROVE  imps'[i] = imps[i]
      BY <1>1, <2>0, <2>2, ImpsEnd, ImpFields
    <2>3. ASSUME expireImpersonations, NEW i \in DOMAIN imps,
                 imps[i].state # "open"
          PROVE  imps'[i] = imps[i]
      BY <1>1, <2>3, ImpsExpire
    <2>4. UNCHANGED imps => \A i \in DOMAIN imps : imps'[i] = imps[i]
      OBVIOUS
    <2> QED  BY <1>1, <2>1, <2>2, <2>3, <2>4, ImpsStep
  <1>2. Types /\ [Next]_vars =>
          [\A i \in DOMAIN imps :
             imps[i].state \in {"ended", "expired"} => imps'[i] = imps[i]]_vars
    BY <1>1
  <1> QED  BY <1>2, TypesLast, PTL DEF Spec, EndedStands

-----------------------------------------------------------------------------
(* The gate. A request ends within Delay of its start, so a session is       *)
(* marked at most Delay after the proof it is marked for; a request that has *)
(* come so far has seen what the steps behind it have checked.              *)

Conditions == {"admin", "factor", "step-up"}

GateOK(v) ==
    /\ procs[v] # Idle => procs[v].at <= now /\ now <= procs[v].at + Delay
    /\ procs[v].pc = "mark" => /\ proved[procs[v].b] # None
                               /\ procs[v].at <= proved[procs[v].b]
    /\ procs[v] \in GateTask =>
         /\ "admin" \in seen[v]
         /\ procs[v].fresh => "step-up" \in seen[v]
         /\ procs[v].pc # "factors" => "factor" \in seen[v]
         /\ procs[v].pc \notin {"factors", "device"} => "step-up" \in seen[v]
    /\ procs[v] \in EndTask => Conditions \subseteq seen[v]

ProofOK(b) ==
    /\ proved[b] # None => proved[b] <= now
    /\ session[b] # None /\ session[b].mfaAt # None =>
         proved[b] # None /\ session[b].mfaAt <= proved[b] + Delay

GateInv ==
    /\ Types
    /\ \A b \in Browsers : ProofOK(b)
    /\ \A v \in Procs : GateOK(v)

\* The history: what holds now has been seen, and is not forgotten before
\* the request ends.
Remembered ==
    \A v \in Procs : /\ Holds(v)' \subseteq seen'[v]
                     /\ procs[v] # Idle /\ procs'[v] # Idle => seen[v] \subseteq seen'[v]

LEMMA SeenRule ==
    ASSUME Types, Types', Next
    PROVE  Remembered
  <1>1. seen' = [p \in Procs |-> (IF procs[p].pc = "idle" \/ procs'[p].pc = "idle"
                                  THEN {} ELSE seen[p]) \cup Holds(p)']
    BY DEF Next
  <1>2. \A v \in Procs : procs[v] \in Tasks /\ procs'[v] \in Tasks
    BY DEF Types
  <1>3. \A v \in Procs : /\ procs[v].pc = "idle" <=> procs[v] = Idle
                         /\ procs'[v].pc = "idle" <=> procs'[v] = Idle
    BY <1>2, TaskKinds
  <1> QED  BY <1>1, <1>3 DEF Remembered

LEMMA ProvingStep ==
    ASSUME Types, NEW p \in Procs, procs[p] \in Proving,
           NEW pc \in {"mark", "remember"}, Moves(p, pc)
    PROVE  /\ procs'[p] \in Proving /\ procs'[p].pc = pc
           /\ procs'[p].b = procs[p].b /\ procs'[p].at = procs[p].at
           /\ procs'[p].op = procs[p].op
  <1> PICK q \in Proving : q = procs[p]
    OBVIOUS
  <1> PICK t \in Proving :
             /\ t = [q EXCEPT !.pc = pc] /\ t.pc = pc /\ t.op = q.op
             /\ t.b = q.b /\ t.at = q.at
    BY ProvingMoves
  <1>1. Goes(p, t)
    BY DEF Moves
  <1>2. t \in Tasks
    BY KindsAreTasks
  <1> QED  BY <1>1, <1>2, GoesForm

\* What a request does to the session and to the proof of its browser.
LEMMA RequestFrame ==
    ASSUME Types, NEW p \in Procs, Request(p)
    PROVE  /\ now' = now
           /\ UNCHANGED session \/ markSessionMfaVerified(p)
           /\ \/ UNCHANGED proved
              \/ /\ \E proof : Passes(proof, procs[p].b)
                 /\ procs[p].b \in Browsers
                 /\ UNCHANGED session
  <1>1. CASE \E b \in Browsers : Codes(p, b) \/ Assertions(p, b) \/ Guarded(p, b)
    BY <1>1 DEF Codes, startEnrolmentAction, ReadEnrolment, ReadFactors,
               Assertions, StoreChallenge, ReadChallenge, Guarded, OpenGate,
               forgetAllDevicesAction, removeFactorAction, tables, history
  <1>2. CASE \/ activateTotpFactor(p) \/ BurnCode(p)
             \/ (\E f \in Passkeys : savePasskey(p, f))
             \/ updatePasskeyCounter(p)
    <2>1. procs[p].pc # "idle"
      BY <1>2 DEF activateTotpFactor, BurnCode, savePasskey,
                  updatePasskeyCounter, At
    <2>2. procs[p].b \in Browsers
      BY <2>1, TaskNow, TaskKinds
    <2> QED  BY <1>2, <2>2 DEF activateTotpFactor, BurnCode, savePasskey,
                updatePasskeyCounter, history
  <1>3. CASE \/ BurnChallenge(p) \/ LookUpPasskey(p)
             \/ markSessionMfaVerified(p)
             \/ \E d \in Devices : rememberThisDevice(p, d)
             \/ hasVerifiedMfa(p) \/ FindTrustedDevice(p) \/ Render(p)
             \/ \E who \in {Colleague, Customer} : CheckTarget(p, who)
             \/ ActiveImpersonation(p) \/ endImpersonation(p)
             \/ InsertImpersonation(p) \/ Crash(p)
    BY <1>3 DEF BurnChallenge, LookUpPasskey, markSessionMfaVerified,
               rememberThisDevice, hasVerifiedMfa, FindTrustedDevice, Render,
               CheckTarget, ActiveImpersonation, endImpersonation,
               InsertImpersonation, Crash, tables, history
  <1> QED  BY <1>1, <1>2, <1>3 DEF Request

\* The proofs of a browser only get later.
LEMMA ProofsGrow ==
    ASSUME GateInv, NEW p \in Procs, Request(p)
    PROVE  \A b \in Browsers :
             /\ proved[b] # None => /\ proved'[b] # None
                                    /\ proved[b] <= proved'[b]
             /\ proved'[b] # None => proved'[b] <= now'
  <1>0. Types /\ now' = now
    BY RequestFrame DEF GateInv
  <1>1. \A b \in Browsers : /\ proved[b] \in Time
                            /\ proved[b] # None => proved[b] <= now
    BY DEF GateInv, ProofOK, Types
  <1>2. now \in Nat /\ now # None
    BY <1>0, FactorsAssumption DEF Types
  <1>3. CASE UNCHANGED proved
    BY <1>0, <1>1, <1>3 DEF Time
  <1>4. ASSUME NEW b \in Browsers, NEW proof, Passes(proof, b)
        PROVE  \A v \in Browsers : proved'[v] = IF v = b THEN now ELSE proved[v]
    BY <1>0, <1>4, PassesTypes
  <1>5. CASE \E b \in Browsers : \E proof : Passes(proof, b)
    <2> PICK b \in Browsers :
          \A v \in Browsers : proved'[v] = IF v = b THEN now ELSE proved[v]
      BY <1>4, <1>5
    <2> QED  BY <1>0, <1>1, <1>2 DEF Time
  <1> QED  BY <1>0, <1>3, <1>5, RequestFrame

\* The requests that did not move.
LEMMA OthersKeepGate ==
    ASSUME GateInv, NEW p \in Procs, Request(p), Types', Remembered,
           NEW v \in Procs, procs'[v] = procs[v]
    PROVE  GateOK(v)'
  <1>0. Types /\ now' = now /\ GateOK(v) /\ procs[v] \in Tasks
    BY RequestFrame DEF GateInv, Types
  <1>1. procs[v].pc = "mark" => procs[v].b \in Browsers
    BY <1>0, TaskKinds, TaskFields
  <1>2. procs[v].pc = "mark" => /\ proved[procs[v].b] # None
                                /\ procs[v].at <= proved[procs[v].b]
    BY <1>0 DEF GateOK
  <1>3. procs[v].pc = "mark" => /\ proved'[procs[v].b] # None
                                /\ procs[v].at <= proved'[procs[v].b]
    <2> SUFFICES ASSUME procs[v].pc = "mark"
                 PROVE  /\ proved'[procs[v].b] # None
                        /\ procs[v].at <= proved'[procs[v].b]
      OBVIOUS
    <2> PICK b \in Browsers : b = procs[v].b
      BY <1>1
    <2>1. proved[b] # None /\ procs[v].at <= proved[b]
      BY <1>2
    <2>2. proved'[b] # None /\ proved[b] <= proved'[b]
      BY <2>1, ProofsGrow
    <2>3. procs[v].at \in Int /\ proved[b] \in Int /\ proved'[b] \in Int
      <3>1. procs[v] # Idle
        BY TaskFields
      <3> QED  BY <1>0, <2>1, <2>2, <3>1, TaskKinds DEF Types, Time
    <2> QED  BY <2>1, <2>2, <2>3
  <1>4. procs[v] \in GateTask \cup EndTask => seen[v] \subseteq seen'[v]
    BY KindsAreTasks DEF Remembered
  <1> QED  BY <1>0, <1>3, <1>4 DEF GateOK

\* A task of a proof that passed nothing yet.
LEMMA FreshTask ==
    ASSUME Types', now' = now, NEW v \in Procs, procs'[v] \in Proving,
           procs'[v].pc # "mark",
           procs'[v].at <= now, now <= procs'[v].at + Delay
    PROVE  GateOK(v)'
  <1>1. procs'[v] \notin GateTask /\ procs'[v] \notin EndTask
    BY TaskFields DEF Proving
  <1> QED  BY <1>1 DEF GateOK

LEMMA IdleKeepsGate ==
    ASSUME NEW v \in Procs, procs'[v] = Idle
    PROVE  GateOK(v)'
  BY TaskFields DEF GateOK

LEMMA EndsIdle ==
    ASSUME Types, NEW p \in Procs, Ends(p)
    PROVE  procs'[p] = Idle
  BY DEF Types, Ends, Goes

\* A proof is begun.
LEMMA CodesKeepGate ==
    ASSUME GateInv, NEW p \in Procs, NEW b \in Browsers,
           Codes(p, b) \/ Assertions(p, b), Types', now' = now
    PROVE  procs'[p] = procs[p] \/ GateOK(p)'
  <1>0. Types /\ now \in Nat /\ Delay \in Nat
    BY FactorsAssumption DEF GateInv, Types
  <1>1. ASSUME NEW t \in Proving, Goes(p, t), t.at = now, t.pc # "mark"
        PROVE  GateOK(p)'
    <2>1. procs'[p] = t
      BY <1>0, <1>1, KindsAreTasks, GoesForm
    <2> QED  BY <1>0, <1>1, <2>1, FreshTask
  <1>2. ASSUME NEW f \in Totps, startEnrolmentAction(p, b, f)
        PROVE  procs'[p] = procs[p]
    BY <1>2 DEF startEnrolmentAction
  <1>3. ASSUME NEW f \in Totps, NEW step \in Steps, ReadEnrolment(p, b, f, step)
        PROVE  GateOK(p)'
    <2>1. PICK t \in EnableTask : Goes(p, t) /\ t.pc = "enable" /\ t.at = now
      BY <1>0, <1>3, EnrolmentForm
    <2>2. t \in Proving /\ t.pc # "mark"
      BY <2>1 DEF Proving
    <2> QED  BY <1>1, <2>1, <2>2
  <1>4. ASSUME NEW f \in Totps, NEW remember \in Remembering,
               ReadFactors(p, b, f, remember)
        PROVE  GateOK(p)'
    <2>0. remember \in BOOLEAN
      BY <1>4 DEF Remembering
    <2>1. PICK t \in CodeTask : Goes(p, t) /\ t.pc = "burn" /\ t.at = now
      BY <1>0, <1>4, <2>0, CodeForm
    <2>2. t \in Proving /\ t.pc # "mark"
      BY <2>1 DEF Proving
    <2> QED  BY <1>1, <2>1, <2>2
  <1>5. ASSUME NEW purpose, StoreChallenge(p, b, purpose)
        PROVE  procs'[p] = procs[p]
    BY <1>5 DEF StoreChallenge
  <1>6. ASSUME NEW r \in signed, NEW op \in {"assert", "register"},
               NEW remember \in BOOLEAN, ReadChallenge(p, b, op, r, remember)
        PROVE  GateOK(p)'
    <2>1. PICK t \in ResponseTask : Goes(p, t) /\ t.pc = "spend" /\ t.at = now
      BY <1>0, <1>6, ChallengeForm
    <2>2. t \in Proving /\ t.pc # "mark"
      BY <2>1 DEF Proving
    <2> QED  BY <1>1, <2>1, <2>2
  <1>7. \A op, remember : remember \in Remembering =>
          (op = "assert" /\ remember) \in BOOLEAN
    OBVIOUS
  <1>8. CASE Codes(p, b)
    BY <1>2, <1>3, <1>4, <1>8 DEF Codes
  <1>9. CASE Assertions(p, b)
    BY <1>5, <1>6, <1>7, <1>9 DEF Assertions
  <1> QED  BY <1>8, <1>9

\* A proof passes, and its session is marked.
LEMMA ProvingKeepsGate ==
    ASSUME GateInv, NEW p \in Procs, Types',
           \/ activateTotpFactor(p) \/ BurnCode(p)
           \/ (\E f \in Passkeys : savePasskey(p, f))
           \/ updatePasskeyCounter(p) \/ markSessionMfaVerified(p)
           \/ \E d \in Devices : rememberThisDevice(p, d)
    PROVE  GateOK(p)'
  <1>0. Types /\ now \in Nat /\ now # None /\ GateOK(p)
    BY FactorsAssumption DEF GateInv, Types
  <1> PICK q \in Tasks : q = procs[p]
    BY <1>0, TaskNow
  <1>1. q \in Proving /\ q.b \in Browsers /\ q # Idle /\ q.at \in Nat
        /\ q.at <= now /\ now <= q.at + Delay
    <2>1. q.pc \in {"enable", "burn", "save", "count", "mark", "remember"}
      BY DEF activateTotpFactor, BurnCode, savePasskey, updatePasskeyCounter,
             markSessionMfaVerified, rememberThisDevice, At
    <2>2. q \in Proving /\ q # Idle
      BY <2>1, TaskKinds, TaskFields DEF Proving
    <2> QED  BY <1>0, <2>2, TaskKinds DEF GateOK
  <1>2. now' = now
    BY DEF activateTotpFactor, BurnCode, savePasskey, updatePasskeyCounter,
           markSessionMfaVerified, rememberThisDevice
  <1>3. CASE Ends(p)
    BY <1>0, <1>3, EndsIdle, IdleKeepsGate
  <1>4. CASE Moves(p, "remember")
    <2>1. /\ procs'[p] \in Proving /\ procs'[p].pc = "remember"
          /\ procs'[p].at = q.at
      BY <1>0, <1>1, <1>4, ProvingStep
    <2> QED  BY <1>1, <1>2, <2>1, FreshTask
  <1>5. ASSUME Moves(p, "mark"), NEW proof, Passes(proof, q.b)
        PROVE  GateOK(p)'
    <2>1. /\ procs'[p] \in Proving /\ procs'[p].pc = "mark"
          /\ procs'[p].at = q.at /\ procs'[p].b = q.b
      BY <1>0, <1>1, <1>5, ProvingStep
    <2>2. proved'[q.b] = now
      BY <1>0, <1>1, <1>5, PassesTypes
    <2>3. procs'[p] \notin GateTask /\ procs'[p] \notin EndTask
      BY <2>1, TaskFields DEF Proving
    <2> QED  BY <1>0, <1>1, <1>2, <2>1, <2>2, <2>3 DEF GateOK
  <1>6. \/ Ends(p) \/ Moves(p, "remember")
        \/ Moves(p, "mark") /\ \E proof : Passes(proof, q.b)
    BY DEF activateTotpFactor, BurnCode, savePasskey, updatePasskeyCounter,
           markSessionMfaVerified, rememberThisDevice
  <1> QED  BY <1>3, <1>4, <1>5, <1>6

LEMMA ResponsesKeepGate ==
    ASSUME GateInv, NEW p \in Procs, Types', BurnChallenge(p) \/ LookUpPasskey(p)
    PROVE  GateOK(p)'
  <1>0. Types /\ now \in Nat /\ GateOK(p) /\ now' = now
    BY DEF GateInv, Types, BurnChallenge, LookUpPasskey
  <1>1. procs[p] # Idle
    BY <1>0, BurnAdvances, LookUpAdvances, KindsAreTasks
  <1>2. procs[p].at <= now /\ now <= procs[p].at + Delay
    BY <1>0, <1>1 DEF GateOK
  <1>3. CASE Ends(p)
    BY <1>0, <1>3, EndsIdle, IdleKeepsGate
  <1>4. ASSUME NEW t \in Proving, Goes(p, t), t.pc # "mark", t.at = procs[p].at
        PROVE  GateOK(p)'
    <2>1. procs'[p] = t
      BY <1>0, <1>4, KindsAreTasks, GoesForm
    <2> QED  BY <1>0, <1>2, <1>4, <2>1, FreshTask
  <1>5. CASE BurnChallenge(p) /\ ~Ends(p)
    <2> PICK t \in ResponseTask : /\ Goes(p, t) /\ t.pc \in {"lookup", "save"}
                                  /\ t.at = procs[p].at
      BY <1>0, <1>5, BurnAdvances
    <2>1. t \in Proving /\ t.pc # "mark"
      BY DEF Proving
    <2> QED  BY <1>4, <2>1
  <1>6. CASE LookUpPasskey(p) /\ ~Ends(p)
    <2> PICK t \in CountTask : Goes(p, t) /\ t.pc = "count" /\ t.at = procs[p].at
      BY <1>0, <1>6, LookUpAdvances
    <2>1. t \in Proving /\ t.pc # "mark"
      BY DEF Proving
    <2> QED  BY <1>4, <2>1
  <1> QED  BY <1>3, <1>5, <1>6

\* What a request in progress holds it has seen.
LEMMA HoldsSeen ==
    ASSUME Types', Remembered, NEW p \in Procs, procs'[p] # Idle
    PROVE  /\ admins'.me = "active" => "admin" \in seen'[p]
           /\ (\E f \in Ids : factors'[f].verified) => "factor" \in seen'[p]
           /\ \A b : procs'[p].b = b /\ StepUp(b)' => "step-up" \in seen'[p]
           /\ procs[p] # Idle => seen[p] \subseteq seen'[p]
  <1>1. procs'[p].pc # "idle"
    BY TaskKinds DEF Types
  <1>2. /\ admins'.me = "active" => "admin" \in Holds(p)'
        /\ (\E f \in Ids : factors'[f].verified) => "factor" \in Holds(p)'
        /\ \A b : procs'[p].b = b /\ StepUp(b)' => "step-up" \in Holds(p)'
    BY <1>1 DEF Holds, StepUp
  <1> QED  BY <1>2 DEF Remembered

\* A guarded request comes: the row is active, and a session marked within
\* MaxAge goes back to a proof within MaxAge and Delay.
LEMMA OpeningKeepsGate ==
    ASSUME GateInv, NEW p \in Procs, NEW b \in Browsers,
           NEW op \in {"gate", "begin", "stop"}, OpenGate(p, b, op),
           Types', Remembered
    PROVE  procs'[p] = procs[p] \/ GateOK(p)'
  <1>0. /\ Types /\ ProofOK(b) /\ now' = now /\ UNCHANGED <<session, proved>>
        /\ now \in Nat /\ now # None /\ MaxAge \in Nat /\ Delay \in Nat
    BY FactorsAssumption DEF GateInv, Types, OpenGate, history
  <1>1. session[b] # None
    BY <1>0, BeginsIdle DEF OpenGate
  <1>2. ASSUME mfaStillFresh(b) PROVE StepUp(b)'
    <2>1. /\ session[b].mfaAt # None /\ proved[b] # None
          /\ now - session[b].mfaAt < MaxAge
          /\ session[b].mfaAt <= proved[b] + Delay
      BY <1>0, <1>1, <1>2 DEF mfaStillFresh, ProofOK
    <2>2. session[b] \in Session /\ proved[b] \in Time
      BY <1>0, <1>1 DEF Types
    <2>3. session[b].mfaAt \in Int /\ proved[b] \in Int
      BY <2>1, <2>2 DEF Session, Time
    <2>4. now - proved[b] <= MaxAge + Delay
      BY <1>0, <2>1, <2>3
    <2> QED  BY <1>0, <2>1, <2>4 DEF StepUp
  <1>3. ASSUME admins'.me = "active", NEW t \in GateTask, Goes(p, t),
               t.pc = "factors", t.b = b, t.at = now,
               t.fresh = mfaStillFresh(b)
        PROVE  GateOK(p)'
    <2>1. procs'[p] = t /\ t # Idle /\ t \notin EndTask
      BY <1>0, <1>3, KindsAreTasks, GoesForm, TaskFields
    <2>2. /\ "admin" \in seen'[p]
          /\ t.fresh => "step-up" \in seen'[p]
      BY <1>2, <1>3, <2>1, HoldsSeen
    <2> QED  BY <1>0, <1>3, <2>1, <2>2 DEF GateOK
  <1> QED  BY <1>0, <1>3, GateForm

LEMMA GuardingKeepsGate ==
    ASSUME GateInv, NEW p \in Procs, Types', Remembered,
           \/ hasVerifiedMfa(p) \/ FindTrustedDevice(p) \/ Render(p)
           \/ \E who \in {Colleague, Customer} : CheckTarget(p, who)
           \/ ActiveImpersonation(p) \/ endImpersonation(p)
           \/ InsertImpersonation(p)
    PROVE  GateOK(p)'
  <1>0. Types /\ now \in Nat /\ GateOK(p) /\ now' = now
    BY DEF GateInv, Types, hasVerifiedMfa, FindTrustedDevice, Render, CheckTarget,
           ActiveImpersonation, endImpersonation, InsertImpersonation
  <1>1. CASE Ends(p)
    BY <1>0, <1>1, EndsIdle, IdleKeepsGate
  <1>2. procs[p] \in Guarding /\ procs[p] # Idle
    BY <1>0, GateAdvances, KindsAreTasks DEF Guarding
  <1>3. procs[p].at <= now /\ now <= procs[p].at + Delay
    BY <1>0, <1>2 DEF GateOK
  <1>4. ASSUME NEW pc \in {"device", "ok", "target", "active", "insert"},
               GateStep(p, pc), "factor" \in seen'[p],
               pc # "device" => "step-up" \in seen'[p]
        PROVE  GateOK(p)'
    <2> PICK t \in GateTask :
          /\ Goes(p, t) /\ procs[p] \in GateTask /\ t.pc = pc
          /\ t.b = procs[p].b /\ t.at = procs[p].at /\ t.fresh = procs[p].fresh
      BY <1>4 DEF GateStep
    <2>1. procs'[p] = t /\ t # Idle /\ t \notin EndTask
      BY <1>0, KindsAreTasks, GoesForm, TaskFields
    <2>2. seen[p] \subseteq seen'[p]
      BY <1>2, <2>1 DEF Remembered
    <2>3. /\ "admin" \in seen'[p]
          /\ t.fresh => "step-up" \in seen'[p]
      BY <1>0, <2>2 DEF GateOK
    <2> QED  BY <1>0, <1>3, <1>4, <2>1, <2>3 DEF GateOK
  <1>5. ASSUME NEW pc, GateStep(p, pc)
        PROVE  /\ procs'[p] # Idle /\ procs'[p].b = procs[p].b
               /\ seen[p] \subseteq seen'[p] /\ procs[p] \in GateTask
    <2> PICK t \in GateTask : /\ Goes(p, t) /\ t.b = procs[p].b
                              /\ procs[p] \in GateTask
      BY <1>5 DEF GateStep
    <2>1. procs'[p] = t /\ t # Idle
      BY <1>0, KindsAreTasks, GoesForm
    <2> QED  BY <1>2, <2>1 DEF Remembered
  <1>6. ASSUME procs[p].pc = "factors", GateStep(p, "device"),
               \E f \in Ids : factors[f].verified, UNCHANGED factors
        PROVE  GateOK(p)'
    <2>1. "factor" \in seen'[p]
      BY <1>5, <1>6, HoldsSeen
    <2> QED  BY <1>4, <1>6, <2>1
  <1>7. ASSUME procs[p].pc = "device",
               NEW pc \in {"ok", "target", "active"}, GateStep(p, pc),
               procs[p].fresh \/ trusted(procs[p].b),
               UNCHANGED <<now, cookie, devices>>
        PROVE  GateOK(p)'
    <2>0. /\ procs'[p] # Idle /\ procs'[p].b = procs[p].b
          /\ seen[p] \subseteq seen'[p] /\ procs[p] \in GateTask
      BY <1>5, <1>7
    <2>1. "factor" \in seen'[p] /\ (procs[p].fresh => "step-up" \in seen'[p])
      BY <1>0, <1>7, <2>0 DEF GateOK
    <2>2. ASSUME trusted(procs[p].b) PROVE "step-up" \in seen'[p]
      <3> PICK b : b = procs[p].b
        OBVIOUS
      <3>1. cookie[b] # None /\ devices[cookie[b]] # None /\ devices[cookie[b]] > now
        BY <2>2 DEF trusted
      <3>2. StepUp(b)'
        BY <1>7, <3>1 DEF StepUp
      <3> QED  BY <2>0, <3>2, HoldsSeen
    <2> QED  BY <1>4, <1>7, <2>1, <2>2
  <1>8. ASSUME procs[p].pc \in {"target", "active"},
               NEW pc \in {"active", "insert"}, GateStep(p, pc)
        PROVE  GateOK(p)'
    <2>1. seen[p] \subseteq seen'[p] /\ procs[p] \in GateTask
      BY <1>5, <1>8
    <2>2. "factor" \in seen'[p] /\ "step-up" \in seen'[p]
      BY <1>0, <1>8, <2>1 DEF GateOK
    <2> QED  BY <1>4, <1>8, <2>2
  <1>9. ASSUME procs[p].pc = "active", EndStep(p) PROVE GateOK(p)'
    <2> PICK t \in EndTask : /\ Goes(p, t) /\ procs[p] \in GateTask
                             /\ t.at = procs[p].at
      BY <1>9 DEF EndStep
    <2>1. procs'[p] = t /\ t # Idle /\ t \notin GateTask /\ t.pc = "end"
      BY <1>0, KindsAreTasks, GoesForm, TaskFields
    <2>2. seen[p] \subseteq seen'[p]
      BY <1>2, <2>1 DEF Remembered
    <2>3. Conditions \subseteq seen[p]
      BY <1>0, <1>9 DEF GateOK, Conditions
    <2> QED  BY <1>0, <1>3, <2>1, <2>2, <2>3 DEF GateOK
  <1>10. UNCHANGED <<factors, cookie, devices>> \/ Ends(p)
    BY DEF hasVerifiedMfa, FindTrustedDevice, Render, CheckTarget, tables,
           ActiveImpersonation, endImpersonation, InsertImpersonation
  <1> QED  BY <1>0, <1>1, <1>6, <1>7, <1>8, <1>9, <1>10, GateAdvances

\* A session is marked at the time of the mark, which is at most Delay after
\* the proof.
LEMMA ProofsKept ==
    ASSUME GateInv, NEW p \in Procs, Request(p), Types', NEW b \in Browsers
    PROVE  ProofOK(b)'
  <1>0. /\ Types /\ now' = now /\ ProofOK(b) /\ now \in Nat
        /\ Delay \in Nat /\ GateOK(p) /\ procs[p] \in Tasks
        /\ session[b] \in Session \cup {None}
    BY RequestFrame, FactorsAssumption DEF GateInv, Types
  <1>1. /\ proved[b] # None => proved'[b] # None /\ proved[b] <= proved'[b]
        /\ proved'[b] # None => proved'[b] <= now'
    BY ProofsGrow
  <1>2. /\ proved[b] # None => proved[b] \in Int
        /\ proved'[b] # None => proved'[b] \in Int
        /\ session[b] # None /\ session[b].mfaAt # None => session[b].mfaAt \in Int
    BY <1>0 DEF Types, Time, Session
  <1>3. CASE session'[b] = session[b]
    <2>1. session[b] # None /\ session[b].mfaAt # None =>
            proved'[b] # None /\ session[b].mfaAt <= proved'[b] + Delay
      BY <1>0, <1>1, <1>2 DEF ProofOK
    <2> QED  BY <1>1, <1>3, <2>1 DEF ProofOK
  <1>4. CASE markSessionMfaVerified(p) /\ session'[b] # session[b]
    <2>1. /\ procs[p].pc = "mark" /\ b = procs[p].b /\ session[b] # None
          /\ session'[b] = [mfaAt |-> now] /\ UNCHANGED proved
      BY <1>0, <1>4 DEF markSessionMfaVerified, At, history, Types
    <2>2. procs[p] # Idle /\ procs[p].at \in Nat
      BY <1>0, <2>1, TaskFields, TaskKinds
    <2>3. /\ proved[b] # None /\ procs[p].at <= proved[b]
          /\ now <= procs[p].at + Delay
      BY <1>0, <2>1, <2>2 DEF GateOK
    <2>4. session'[b].mfaAt = now /\ now <= proved[b] + Delay
      BY <1>0, <1>2, <2>1, <2>2, <2>3
    <2> QED  BY <1>1, <2>1, <2>3, <2>4 DEF ProofOK
  <1>5. UNCHANGED session \/ markSessionMfaVerified(p)
    BY <1>0, RequestFrame
  <1> QED  BY <1>3, <1>4, <1>5

LEMMA RequestKeepsGate ==
    ASSUME GateInv, NEW p \in Procs, Request(p), Types', Remembered
    PROVE  GateInv'
  <1>0. Types /\ now' = now
    BY RequestFrame DEF GateInv
  <1>1. \A b \in Browsers : ProofOK(b)'
    BY ProofsKept
  <1>2. ASSUME NEW v \in Procs, v # p PROVE GateOK(v)'
    BY <1>0, <1>2, RequestTypes, OthersKeepGate
  <1>3. procs'[p] = procs[p] \/ GateOK(p)'
    <2>1. CASE \E b \in Browsers : Codes(p, b) \/ Assertions(p, b) \/ Guarded(p, b)
      <3>1. ASSUME NEW b \in Browsers, Guarded(p, b)
            PROVE  procs'[p] = procs[p] \/ GateOK(p)'
        BY <3>1, OpeningKeepsGate
           DEF Guarded, forgetAllDevicesAction, removeFactorAction
      <3> QED  BY <1>0, <2>1, <3>1, CodesKeepGate
    <2>2. CASE \/ activateTotpFactor(p) \/ BurnCode(p)
               \/ (\E f \in Passkeys : savePasskey(p, f))
               \/ updatePasskeyCounter(p) \/ markSessionMfaVerified(p)
               \/ \E d \in Devices : rememberThisDevice(p, d)
      BY <2>2, ProvingKeepsGate
    <2>3. CASE BurnChallenge(p) \/ LookUpPasskey(p)
      BY <2>3, ResponsesKeepGate
    <2>4. CASE \/ hasVerifiedMfa(p) \/ FindTrustedDevice(p) \/ Render(p)
               \/ \E who \in {Colleague, Customer} : CheckTarget(p, who)
               \/ ActiveImpersonation(p) \/ endImpersonation(p)
               \/ InsertImpersonation(p)
      BY <2>4, GuardingKeepsGate
    <2>5. CASE Crash(p)
      BY <1>0, <2>5, EndsIdle, IdleKeepsGate DEF Crash
    <2> QED  BY <2>1, <2>2, <2>3, <2>4, <2>5 DEF Request
  <1>4. GateOK(p)'
    BY <1>3, OthersKeepGate
  <1>5. \A v \in Procs : GateOK(v)'
    BY <1>2, <1>4
  <1> QED  BY <1>1, <1>5 DEF GateInv

LEMMA AroundKeepsGate ==
    ASSUME GateInv, Around, Types', Remembered
    PROVE  GateInv'
  <1>0. /\ Types /\ now \in Nat /\ now # None /\ Delay \in Nat
        /\ \A v \in Procs : procs'[v] = procs[v] /\ GateOK(v) /\ procs[v] \in Tasks
        /\ \A b \in Browsers : ProofOK(b) /\ proved[b] \in Time
    BY AroundTypes, FactorsAssumption DEF GateInv, Types
  <1>1. UNCHANGED proved
    BY DEF Around, SignIn, SignOut, revokePlatformAdmin, Sign,
           expireImpersonations, Tick, history
  <1>2. /\ now' \in Nat /\ now <= now'
        /\ \A v \in Procs : procs[v] # Idle => now' <= procs[v].at + Delay
    <2>1. CASE Tick
      <3>1. /\ now' = now + 1
            /\ \A v \in Procs : procs[v].pc # "idle" => now < procs[v].at + Delay
        BY <2>1 DEF Tick
      <3>2. \A v \in Procs : procs[v] # Idle =>
               procs[v].pc # "idle" /\ procs[v].at \in Nat
        BY <1>0, TaskKinds
      <3> QED  BY <1>0, <3>1, <3>2
    <2>2. CASE ~Tick
      <3>1. now' = now
        BY <2>2 DEF Around, SignIn, SignOut, revokePlatformAdmin, Sign,
                    expireImpersonations, tables
      <3> QED  BY <1>0, <3>1 DEF GateOK
    <2> QED  BY <2>1, <2>2
  <1>3. ASSUME NEW v \in Procs PROVE GateOK(v)'
    <2>1. procs[v] # Idle => seen[v] \subseteq seen'[v]
      BY <1>0, <1>3 DEF Remembered
    <2>2. procs[v] # Idle => procs[v].at \in Nat
      BY <1>0, TaskKinds
    <2>3. procs[v] \in GateTask \cup EndTask => procs[v] # Idle
      BY KindsAreTasks
    <2>4. GateOK(v) /\ procs'[v] = procs[v]
      BY <1>0
    <2>5. procs[v] # Idle => procs[v].at <= now' /\ now' <= procs[v].at + Delay
      BY <1>0, <1>2, <2>2, <2>4 DEF GateOK
    <2> QED  BY <1>1, <2>1, <2>3, <2>4, <2>5 DEF GateOK
  <1>4. ASSUME NEW b \in Browsers PROVE ProofOK(b)'
    <2>1. \/ session'[b] = session[b] \/ session'[b] = None
          \/ session'[b].mfaAt = None
      BY <1>0 DEF Around, SignIn, SignOut, revokePlatformAdmin, Sign,
                  expireImpersonations, Tick, tables, Types
    <2>2. proved[b] # None => proved[b] \in Int
      BY <1>0 DEF Time
    <2>3. ProofOK(b)
      BY <1>0
    <2> QED  BY <1>0, <1>1, <1>2, <2>1, <2>2, <2>3 DEF ProofOK
  <1> QED  BY <1>3, <1>4 DEF GateInv

LEMMA InitGate ==
    ASSUME Init
    PROVE  GateInv
  <1>0. Types
    BY InitTypes
  <1>1. \A v \in Procs : procs[v] = Idle
    BY DEF Init
  <1>2. \A v \in Procs : GateOK(v)
    BY <1>1, TaskFields DEF GateOK
  <1> PICK enrolling \in Browsers :
        LET at == [b \in Browsers |-> IF bound.enrolled # {} /\ b = enrolling
                                      THEN now ELSE None]
        IN  proved = at /\ session = [b \in Browsers |-> [mfaAt |-> at[b]]]
    BY DEF Init
  <1>3. \A b \in Browsers : session[b].mfaAt = proved[b]
    OBVIOUS
  <1>4. \A b \in Browsers : proved[b] = None \/ proved[b] = now
    OBVIOUS
  <1>5. now \in Nat /\ now <= now + Delay /\ now # None
    BY <1>0, FactorsAssumption DEF Types
  <1> QED  BY <1>0, <1>2, <1>3, <1>4, <1>5 DEF GateInv, ProofOK

THEOREM GateLasts == Spec => []GateInv
  <1>1. Init => GateInv
    BY InitGate
  <1>2. GateInv /\ [Next]_vars => GateInv'
    <2>1. ASSUME GateInv, Next PROVE GateInv'
      <3>1. Types /\ Types'
        BY <2>1, NextTypes DEF GateInv
      <3>2. Remembered
        BY <2>1, <3>1, SeenRule
      <3> QED  BY <2>1, <3>1, <3>2, RequestKeepsGate, AroundKeepsGate DEF Next
    <2>2. ASSUME GateInv, UNCHANGED vars PROVE GateInv'
      BY <2>2 DEF GateInv, Types, FactorsOK, ProofOK, GateOK, vars, tables, history
    <2> QED  BY <2>1, <2>2
  <1> QED  BY <1>1, <1>2, PTL DEF Spec

\* Whatever passes the gate has met its three conditions since it came, at
\* whatever moments the row is revoked, the factor removed, the device
\* forgotten and the session signed out around it, and however long, up to
\* Delay, it takes.
THEOREM GateIsEarned == Spec => []GateEarned
  <1>1. GateInv => GateEarned
    <2> SUFFICES ASSUME GateInv, NEW v \in Procs,
                        procs[v].pc \in {"ok", "target", "active", "insert", "end"}
                 PROVE  {"admin", "factor", "step-up"} \subseteq seen[v]
      BY DEF GateEarned
    <2>1. procs[v] \in Tasks /\ GateOK(v)
      BY DEF GateInv, Types
    <2>2. \/ procs[v] \in GateTask /\ procs[v].pc \notin {"factors", "device"}
          \/ procs[v] \in EndTask
      BY <2>1, TaskKinds
    <2> QED  BY <2>1, <2>2 DEF GateOK, Conditions
  <1> QED  BY <1>1, GateLasts, PTL

-----------------------------------------------------------------------------
(* One impersonation at a time, of starts that had not both looked before    *)
(* either inserted. A start about to insert found none open, so whatever is  *)
(* open now was inserted by another that was about to insert with it: both   *)
(* are noted in lapped, and what they insert in rivals.                      *)

Inserts(v) == procs[v].pc = "insert"

OpenInv ==
    /\ Types /\ OneOpen
    /\ \A v \in Procs : Inserts(v) =>
         \A i \in DOMAIN imps : Open(i) => v \in lapped /\ i \in rivals
    /\ \A u, v \in Procs : Inserts(u) /\ Inserts(v) /\ u # v => u \in lapped

\* What is noted of a step.
Noted ==
    /\ \A u, v \in Procs : Inserts(u)' /\ Inserts(v)' /\ u # v => u \in lapped'
    /\ \A v \in Procs : Inserts(v)' /\ v \in lapped => v \in lapped'
    /\ rivals \subseteq rivals'
    /\ \A i \in DOMAIN imps' \ DOMAIN imps : \A v \in lapped :
         v \in Procs /\ procs'[v] # procs[v] => i \in rivals'

LEMMA NotedRule ==
    ASSUME Next
    PROVE  Noted
  <1>1. /\ lapped' = {p \in Inserting' : p \in lapped \/ Inserting' # {p}}
        /\ rivals' = rivals \cup {i \in DOMAIN imps' \ DOMAIN imps :
                                    \E p \in lapped : procs'[p] # procs[p]}
    BY DEF Next
  <1>2. \A v \in Procs : Inserts(v)' <=> v \in Inserting'
    BY DEF Inserts, Inserting
  <1> QED  BY <1>1, <1>2 DEF Noted

\* Nothing opens again; only an insert adds a session.
LEMMA OpensOnlyNew ==
    ASSUME Types, [Next]_vars, NEW i \in DOMAIN imps, i \in DOMAIN imps', Open(i)'
    PROVE  Open(i)
  <1>0. now \in Nat /\ now' \in Nat /\ imps \in Seq(Imp) /\ imps[i] \in Imp
    BY NextTypes DEF Types
  <1>1. now <= now'
    <2>1. now' = now \/ Tick
      <3>1. CASE UNCHANGED vars
        BY <3>1 DEF vars
      <3>2. CASE \E p \in Procs : Request(p)
        BY <3>2, RequestFrame
      <3>3. CASE Around
        BY <3>3 DEF Around, SignIn, SignOut, revokePlatformAdmin, Sign,
                    expireImpersonations
      <3> QED  BY <3>1, <3>2, <3>3 DEF Next
    <2> QED  BY <1>0, <2>1 DEF Tick
  <1>2. imps'[i] = imps[i] \/ imps'[i].state # "open"
    <2>1. ASSUME NEW p \in Procs, InsertImpersonation(p)
          PROVE  imps'[i] = imps[i]
      <3> PICK imp \in Imp : imps' = Append(imps, imp)
        BY <2>1, ImpsInsert
      <3> QED  BY <1>0
    <2>2. ASSUME NEW p \in Procs, endImpersonation(p)
          PROVE  imps'[i] = imps[i] \/ imps'[i].state # "open"
      BY <1>0, <2>2, ImpsEnd, ImpFields
    <2>3. ASSUME expireImpersonations
          PROVE  imps'[i] = imps[i] \/ imps'[i].state # "open"
      BY <2>3, ImpsExpire
    <2> QED  BY <2>1, <2>2, <2>3, ImpsStep
  <1>3. imps[i].expires \in Int
    BY <1>0, ImpFields
  <1> QED  BY <1>0, <1>1, <1>2, <1>3 DEF Open

LEMMA NothingOpens ==
    ASSUME OpenInv, [Next]_vars, DOMAIN imps' = DOMAIN imps, rivals \subseteq rivals'
    PROVE  /\ OneOpen'
           /\ \A i \in DOMAIN imps' : Open(i)' => Open(i)
  <1>1. \A i \in DOMAIN imps' : Open(i)' => Open(i)
    BY OpensOnlyNew DEF OpenInv
  <1>2. \A i, j \in DOMAIN imps : Open(i) /\ Open(j) /\ i # j => {i, j} \subseteq rivals
    BY DEF OpenInv, OneOpen
  <1>3. \A i, j \in DOMAIN imps' : Open(i)' /\ Open(j)' /\ i # j => {i, j} \subseteq rivals'
    BY <1>1, <1>2
  <1> QED  BY <1>1, <1>3 DEF OneOpen, Open

\* A start comes to its insert from a look that found none open.
LEMMA ReachesInsert ==
    ASSUME Types, NEW p \in Procs, Request(p), procs'[p].pc = "insert"
    PROVE  procs'[p] = procs[p] \/ \A i \in DOMAIN imps : ~Open(i)
  <1>1. ASSUME NEW t \in Tasks, Goes(p, t), t.pc # "insert" PROVE FALSE
    BY <1>1, GoesForm
  <1>2. ~Ends(p)
    BY <1>1, IdleIsTask DEF Ends
  <1>3. CASE \E b \in Browsers : Codes(p, b) \/ Assertions(p, b) \/ Guarded(p, b)
    <2>2. ASSUME NEW b \in Browsers, NEW op \in {"gate", "begin", "stop"},
                 OpenGate(p, b, op)
          PROVE  procs'[p] = procs[p]
      BY <1>1, <2>2, GateForm, KindsAreTasks
    <2>3. ASSUME NEW b \in Browsers, NEW f \in Totps, NEW step \in Steps,
                 ReadEnrolment(p, b, f, step)
          PROVE  procs'[p] = procs[p]
      BY <1>1, <2>3, EnrolmentForm, KindsAreTasks
    <2>4. ASSUME NEW b \in Browsers, NEW f \in Totps,
                 NEW remember \in BOOLEAN, ReadFactors(p, b, f, remember)
          PROVE  procs'[p] = procs[p]
      BY <1>1, <2>4, CodeForm, KindsAreTasks
    <2>5. ASSUME NEW b \in Browsers, NEW r \in signed,
                 NEW op \in {"assert", "register"}, NEW remember \in BOOLEAN,
                 ReadChallenge(p, b, op, r, remember)
          PROVE  procs'[p] = procs[p]
      BY <1>1, <2>5, ChallengeForm, KindsAreTasks
    <2>6. /\ \A remember \in Remembering : remember \in BOOLEAN
          /\ \A op, remember : (op = "assert" /\ remember) \in BOOLEAN
      BY DEF Remembering
    <2>7. ASSUME NEW b \in Browsers, Codes(p, b) PROVE procs'[p] = procs[p]
      BY <2>3, <2>4, <2>6, <2>7 DEF Codes, startEnrolmentAction
    <2>8. ASSUME NEW b \in Browsers, Assertions(p, b) PROVE procs'[p] = procs[p]
      BY <2>5, <2>6, <2>8 DEF Assertions, StoreChallenge
    <2>9. ASSUME NEW b \in Browsers, Guarded(p, b) PROVE procs'[p] = procs[p]
      BY <2>2, <2>9 DEF Guarded, forgetAllDevicesAction, removeFactorAction
    <2> QED  BY <1>3, <2>7, <2>8, <2>9
  <1>4. CASE \/ activateTotpFactor(p) \/ BurnCode(p)
             \/ (\E f \in Passkeys : savePasskey(p, f))
             \/ updatePasskeyCounter(p) \/ markSessionMfaVerified(p)
             \/ \E d \in Devices : rememberThisDevice(p, d)
    BY <1>1, <1>2, <1>4, ProvingAdvance, KindsAreTasks
  <1>5. CASE BurnChallenge(p)
    BY <1>1, <1>2, <1>5, BurnAdvances, KindsAreTasks
  <1>6. CASE LookUpPasskey(p)
    BY <1>1, <1>2, <1>6, LookUpAdvances, KindsAreTasks
  <1>7. CASE \/ hasVerifiedMfa(p) \/ FindTrustedDevice(p) \/ Render(p)
             \/ \E who \in {Colleague, Customer} : CheckTarget(p, who)
             \/ ActiveImpersonation(p) \/ endImpersonation(p)
             \/ InsertImpersonation(p)
    <2>1. ASSUME NEW pc, GateStep(p, pc) PROVE pc = "insert"
      <3> PICK t \in GateTask : Goes(p, t) /\ t.pc = pc
        BY <2>1 DEF GateStep
      <3>1. procs'[p] = t
        BY GoesForm, KindsAreTasks
      <3> QED  BY <3>1
    <2>2. ~EndStep(p)
      BY <1>1, KindsAreTasks, TaskFields DEF EndStep
    <2> QED  BY <1>2, <1>7, <2>1, <2>2, GateAdvances
  <1> QED  BY <1>2, <1>3, <1>4, <1>5, <1>6, <1>7 DEF Request, Crash

LEMMA RequestKeepsOpen ==
    ASSUME OpenInv, NEW p \in Procs, Request(p), Next
    PROVE  OpenInv'
  <1>0. /\ Types /\ Types' /\ Noted
        /\ \A v \in Procs : v # p => procs'[v] = procs[v]
    BY RequestTypes, NotedRule DEF OpenInv
  <1>1. \A u, v \in Procs : Inserts(u)' /\ Inserts(v)' /\ u # v => u \in lapped'
    BY <1>0 DEF Noted
  <1>2. ASSUME NEW v \in Procs, v # p, Inserts(v)'
        PROVE  /\ Inserts(v) /\ (v \in lapped => v \in lapped')
               /\ \A i \in DOMAIN imps : Open(i) => v \in lapped' /\ i \in rivals'
    <2>1. Inserts(v)
      BY <1>0, <1>2 DEF Inserts
    <2> QED  BY <1>0, <1>2, <2>1 DEF OpenInv, Noted
  <1>3. CASE InsertImpersonation(p)
    <2>1. Inserts(p) /\ procs'[p] = Idle /\ procs'[p] # procs[p]
      BY <1>0, <1>3, EndsIdle, TaskFields DEF InsertImpersonation, At, Inserts
    <2> PICK imp \in Imp : imps' = Append(imps, imp)
      BY <1>0, <1>3, ImpsInsert
    <2> PICK n : n = Len(imps) + 1
      OBVIOUS
    <2>2. /\ DOMAIN imps = 1..Len(imps) /\ DOMAIN imps' = 1..n /\ Len(imps) \in Nat
          /\ n \notin DOMAIN imps /\ n \in DOMAIN imps'
          /\ \A i \in DOMAIN imps' : i = n \/ i \in DOMAIN imps
      BY <1>0 DEF Types
    <2>3. \A i \in DOMAIN imps' : Open(i)' => i = n \/ (i \in DOMAIN imps /\ Open(i))
      BY <1>0, <2>2, OpensOnlyNew
    <2>4. p \in lapped => n \in rivals'
      BY <1>0, <2>1, <2>2 DEF Noted
    <2>5. \A i \in DOMAIN imps : Open(i) => p \in lapped /\ i \in rivals'
      BY <1>0, <2>1 DEF OpenInv, Noted
    <2>6. ASSUME NEW i \in DOMAIN imps', NEW j \in DOMAIN imps', i # j,
                 Open(i)', Open(j)'
          PROVE  {i, j} \subseteq rivals'
      <3>1. CASE i = n \/ j = n
        BY <2>3, <2>4, <2>5, <2>6, <3>1
      <3>2. CASE i # n /\ j # n
        <4>1. i \in DOMAIN imps /\ j \in DOMAIN imps /\ Open(i) /\ Open(j)
          BY <2>3, <2>6, <3>2
        <4> QED  BY <2>5, <4>1
      <3> QED  BY <3>1, <3>2
    <2>7. ASSUME NEW v \in Procs, Inserts(v)', NEW i \in DOMAIN imps', Open(i)'
          PROVE  v \in lapped' /\ i \in rivals'
      <3>1. v # p
        BY <2>1, <2>7, TaskFields DEF Inserts
      <3>2. v \in lapped /\ p \in lapped
        BY <1>2, <2>1, <2>7, <3>1 DEF OpenInv
      <3> QED  BY <1>2, <2>3, <2>4, <2>7, <3>1, <3>2
    <2>8. OneOpen'
      BY <2>6 DEF OneOpen, Open
    <2> QED  BY <1>0, <1>1, <2>7, <2>8 DEF OpenInv, Open, Inserts
  <1>4. CASE ~InsertImpersonation(p)
    <2>0. DOMAIN imps' = DOMAIN imps
      <3>1. CASE UNCHANGED imps
        BY <3>1
      <3>2. CASE endImpersonation(p)
        BY <1>0, <3>2, ImpsEnd
      <3>3. UNCHANGED imps \/ endImpersonation(p)
        BY <1>4 DEF Request, Codes, startEnrolmentAction, ReadEnrolment,
               ReadFactors, Assertions, StoreChallenge, ReadChallenge, Guarded,
               OpenGate, forgetAllDevicesAction, removeFactorAction,
               activateTotpFactor, BurnCode, BurnChallenge, savePasskey,
               LookUpPasskey, updatePasskeyCounter, markSessionMfaVerified,
               rememberThisDevice, hasVerifiedMfa, FindTrustedDevice, Render,
               CheckTarget, ActiveImpersonation, Crash, tables
      <3> QED  BY <3>1, <3>2, <3>3
    <2>1. OneOpen' /\ \A i \in DOMAIN imps' : Open(i)' => Open(i)
      BY <1>0, <2>0, NothingOpens DEF Noted
    <2>2. ASSUME NEW v \in Procs, Inserts(v)', NEW i \in DOMAIN imps', Open(i)'
          PROVE  v \in lapped' /\ i \in rivals'
      <3>0. i \in DOMAIN imps /\ Open(i)
        BY <2>0, <2>1, <2>2
      <3>1. CASE v # p
        BY <1>2, <2>2, <3>0, <3>1
      <3>2. CASE v = p
        <4>1. procs'[p] = procs[p]
          BY <1>0, <2>2, <3>0, <3>2, ReachesInsert DEF Inserts
        <4>2. Inserts(p)
          BY <2>2, <3>2, <4>1 DEF Inserts
        <4> QED  BY <1>0, <2>2, <3>0, <3>2, <4>2 DEF OpenInv, Noted
      <3> QED  BY <3>1, <3>2
    <2> QED  BY <1>0, <1>1, <2>1, <2>2 DEF OpenInv, Open, Inserts
  <1> QED  BY <1>3, <1>4

LEMMA AroundKeepsOpen ==
    ASSUME OpenInv, Around, Next
    PROVE  OpenInv'
  <1>0. Types /\ Types' /\ Noted /\ \A v \in Procs : procs'[v] = procs[v]
    BY AroundTypes, NotedRule DEF OpenInv
  <1>1. DOMAIN imps' = DOMAIN imps
    <2>1. UNCHANGED imps \/ expireImpersonations
      BY DEF Around, SignIn, SignOut, revokePlatformAdmin, Sign, Tick, tables
    <2> QED  BY <1>0, <2>1, ImpsExpire
  <1>2. OneOpen' /\ \A i \in DOMAIN imps' : Open(i)' => Open(i)
    BY <1>0, <1>1, NothingOpens DEF Noted
  <1>3. \A v \in Procs : Inserts(v)' => Inserts(v)
    BY <1>0 DEF Inserts
  <1>4. ASSUME NEW v \in Procs, Inserts(v)', NEW i \in DOMAIN imps', Open(i)'
        PROVE  v \in lapped' /\ i \in rivals'
    BY <1>0, <1>1, <1>2, <1>3, <1>4 DEF OpenInv, Noted
  <1>5. \A u, v \in Procs : Inserts(u)' /\ Inserts(v)' /\ u # v => u \in lapped'
    BY <1>0 DEF Noted
  <1> QED  BY <1>0, <1>2, <1>4, <1>5 DEF OpenInv, Open, Inserts

THEOREM OpenLasts == Spec => []OpenInv
  <1>1. Init => OpenInv
    <2> SUFFICES ASSUME Init PROVE OpenInv
      OBVIOUS
    <2>1. \A v \in Procs : procs[v] = Idle
      BY DEF Init
    <2>2. imps = <<>>
      BY DEF Init
    <2> QED  BY <2>1, <2>2, InitTypes, TaskFields DEF OpenInv, OneOpen, Inserts
  <1>2. OpenInv /\ [Next]_vars => OpenInv'
    <2>1. ASSUME OpenInv, Next PROVE OpenInv'
      BY <2>1, RequestKeepsOpen, AroundKeepsOpen DEF Next
    <2>2. ASSUME OpenInv, UNCHANGED vars PROVE OpenInv'
      BY <2>2 DEF OpenInv, Types, FactorsOK, OneOpen, Inserts, Open, vars, tables,
             history
    <2> QED  BY <2>1, <2>2
  <1> QED  BY <1>1, <1>2, PTL DEF Spec

\* No two impersonations are open at once, of starts that had not both looked
\* before either inserted: not with a stop or the sweep between them, not with
\* any other overlap, and not with a start that fails half way.
THEOREM OneAtATime == Spec => []OneOpen
  <1>1. OpenInv => OneOpen
    BY DEF OpenInv
  <1> QED  BY <1>1, OpenLasts, PTL

-----------------------------------------------------------------------------
(* A proof passes once, unless two verifications held its factor or its      *)
(* challenge at once (crossed). What has passed cannot pass again, for what  *)
(* its row or its challenge says now; and a verification in progress still   *)
(* finds what it read: only one that holds the same can have changed it.     *)

Passed(f, x) == [f |-> f, proof |-> x]

Spent(f, x) ==
    \/ factors[f] = Removed
    \/ /\ factors[f] \in TotpRow /\ factors[f].verified
       /\ \/ x \in Int /\ x <= factors[f].lastUsedStep
          \/ x \in BackupCodes /\ x \notin factors[f].codes

Consumed(c) == c \in DOMAIN challenges /\ challenges[c].consumed

\* What a verification has read holds still.
EnableOK(q) ==
    factors[q.f] = Removed \/ (factors[q.f] \in TotpRow /\ ~factors[q.f].verified)
BurnOK(q) ==
    /\ Passed(q.f, q.proof) \notin accepted
    /\ \/ factors[q.f] = Removed
       \/ /\ factors[q.f] \in TotpRow /\ factors[q.f].verified
          /\ \/ q.proof \in BackupCodes /\ q.left = factors[q.f].codes \ {q.proof}
             \/ q.proof \in Int /\ q.proof > factors[q.f].lastUsedStep
SpendOK(q) ==
    /\ q.expected \in DOMAIN challenges /\ q.r.challenge \in DOMAIN challenges
    /\ q.expected \in crossed \/ ~challenges[q.expected].consumed
BurntOK(q) ==
    /\ Consumed(q.r.challenge)
    /\ q.r.challenge \in crossed \/ q.r \notin accepted

UseOK(v) ==
    /\ procs[v].pc = "enable" => procs[v].f \in crossed \/ EnableOK(procs[v])
    /\ procs[v].pc = "burn" => procs[v].f \in crossed \/ BurnOK(procs[v])
    /\ procs[v].pc = "spend" => SpendOK(procs[v])
    /\ procs[v].pc \in {"lookup", "save", "count"} => BurntOK(procs[v])

CodesSpentOnce ==
    \A f \in Totps : \A x : Passed(f, x) \in accepted => f \in crossed \/ Spent(f, x)
ResponsesSpentOnce == \A r \in Response : r \in accepted => Consumed(r.challenge)
SignedKnown == \A r \in signed : r.challenge \in DOMAIN challenges

\* Two verifications that hold the same have crossed, and so have two that
\* burnt one challenge.
Answered(v) == procs[v].pc \in {"lookup", "save", "count"}
HeldApart ==
    \A u, v \in Procs : u # v => Held(procs[u]) \cap Held(procs[v]) \subseteq crossed
BurntApart ==
    \A u, v \in Procs :
      u # v /\ Answered(u) /\ Answered(v)
        /\ procs[u].r.challenge = procs[v].r.challenge => procs[u].r.challenge \in crossed

UseInv ==
    /\ Types /\ OneUse
    /\ CodesSpentOnce /\ ResponsesSpentOnce /\ SignedKnown
    /\ HeldApart /\ BurntApart
    /\ \A v \in Procs : UseOK(v)

\* A code's proof and a response are told apart by their fields.
LEMMA ProofsApart ==
    /\ \A f, x, g, y : Passed(f, x) = Passed(g, y) => f = g /\ x = y
    /\ \A r \in Response : \A f, x : Passed(f, x) # r
    /\ \A f, x : Key(Passed(f, x)) = f
    /\ \A r \in Response : Key(r) = r.challenge
  <1>1. \A f, x : /\ Passed(f, x).f = f /\ Passed(f, x).proof = x
                  /\ "f" \in DOMAIN Passed(f, x)
    BY DEF Passed
  <1>2. \A r \in Response : "f" \notin DOMAIN r
    BY DEF Response
  <1> QED  BY <1>1, <1>2 DEF Key

\* What is noted of a step.
CrossedGrow == crossed \subseteq crossed'

LEMMA CrossedRule ==
    ASSUME Next
    PROVE  CrossedGrow /\ HeldApart'
  <1>1. crossed' = crossed \cup Crossing'
    BY DEF Next
  <1>2. \A u, v \in Procs : u # v =>
          Held(procs'[u]) \cap Held(procs'[v]) \subseteq Crossing'
    <2> SUFFICES ASSUME NEW u \in Procs, NEW v \in Procs, u # v,
                        NEW x \in Held(procs'[u]) \cap Held(procs'[v])
                 PROVE  x \in Crossing'
      OBVIOUS
    <2>1. <<u, v>> \in {y \in Procs \X Procs : y[1] # y[2]}
      OBVIOUS
    <2>2. Held(procs'[u]) \cap Held(procs'[v])
            = Held(procs'[<<u, v>>[1]]) \cap Held(procs'[<<u, v>>[2]])
      OBVIOUS
    <2>3. Crossing' = UNION {Held(procs'[z[1]]) \cap Held(procs'[z[2]]) :
                               z \in {y \in Procs \X Procs : y[1] # y[2]}}
      BY DEF Crossing, Held
    <2> QED  BY <2>1, <2>2, <2>3
  <1>3. CrossedGrow
    BY <1>1 DEF CrossedGrow
  <1>4. HeldApart'
    BY <1>1, <1>2 DEF HeldApart, Held
  <1> QED  BY <1>3, <1>4

LEMMA HeldForm ==
    ASSUME NEW q
    PROVE  /\ q.pc \in {"enable", "burn"} => Held(q) = {q.f}
           /\ q.pc = "spend" => Held(q) = {q.expected}
  BY DEF Held

\* Steps that pass no proof: a TOTP factor may come or be removed, challenges
\* may come, and no request burns one.
FactorsGo ==
    \A f \in Totps : \/ factors'[f] = factors[f] \/ factors'[f] = Removed
                     \/ factors[f] = Absent
ChallengesStay ==
    \A c \in DOMAIN challenges : /\ c \in DOMAIN challenges'
                                 /\ challenges'[c] = challenges[c]
BurntGo ==
    \A v \in Procs : Answered(v)' => Answered(v) /\ procs'[v].r = procs[v].r

LEMMA AbsentIsNone == Absent \notin TotpRow /\ Absent # Removed
  BY DEF Absent, Removed, TotpRow

LEMMA BurntStayApart ==
    ASSUME UseInv, CrossedGrow, BurntGo
    PROVE  BurntApart'
  <1> SUFFICES ASSUME NEW u \in Procs, NEW v \in Procs, u # v,
                      Answered(u)', Answered(v)',
                      procs'[u].r.challenge = procs'[v].r.challenge
               PROVE  procs'[u].r.challenge \in crossed'
    BY DEF BurntApart, Answered
  <1>1. /\ Answered(u) /\ Answered(v)
        /\ procs'[u].r = procs[u].r /\ procs'[v].r = procs[v].r
    BY DEF BurntGo
  <1> QED  BY <1>1 DEF UseInv, BurntApart, CrossedGrow

LEMMA UseFrame ==
    ASSUME UseInv, FactorsGo, ChallengesStay, UNCHANGED <<accepted, twice>>,
           CrossedGrow, BurntGo
    PROVE  /\ OneUse' /\ CodesSpentOnce' /\ ResponsesSpentOnce' /\ BurntApart'
           /\ \A v \in Procs : procs'[v] = procs[v] => UseOK(v)'
           /\ \A c : Consumed(c) => Consumed(c)'
  <1>0. Types
    BY DEF UseInv
  <1>1. \A f \in Totps : \A x : Spent(f, x) => Spent(f, x)'
    BY AbsentIsNone DEF FactorsGo, Spent
  <1>2. \A c : Consumed(c) => Consumed(c)'
    BY DEF ChallengesStay, Consumed
  <1>3. CodesSpentOnce'
    <2> SUFFICES ASSUME NEW f \in Totps, NEW x, Passed(f, x) \in accepted
                 PROVE  f \in crossed' \/ Spent(f, x)'
      BY DEF CodesSpentOnce, Passed, Spent
    <2>1. f \in crossed \/ Spent(f, x)
      BY DEF UseInv, CodesSpentOnce
    <2> QED  BY <1>1, <2>1 DEF CrossedGrow
  <1>4. ResponsesSpentOnce'
    BY <1>2 DEF UseInv, ResponsesSpentOnce
  <1>5. ASSUME NEW v \in Procs, procs'[v] = procs[v] PROVE UseOK(v)'
    <2> PICK q \in Tasks : q = procs[v]
      BY <1>0, TaskNow
    <2>0. procs'[v] = q /\ UseOK(v)
      BY <1>5 DEF UseInv
    <2>1. CASE q.pc = "enable"
      <3>1. q.f \in Totps /\ (q.f \in crossed \/ EnableOK(q))
        BY <2>0, <2>1, TaskKinds, TaskFields DEF UseOK
      <3>2. q.f \in crossed' \/ EnableOK(q)'
        BY <3>1, AbsentIsNone DEF EnableOK, FactorsGo, CrossedGrow
      <3> QED  BY <2>0, <2>1, <3>2 DEF UseOK, EnableOK
    <2>2. CASE q.pc = "burn"
      <3>1. q.f \in Totps /\ (q.f \in crossed \/ BurnOK(q))
        BY <2>0, <2>2, TaskKinds, TaskFields DEF UseOK
      <3>2. q.f \in crossed' \/ BurnOK(q)'
        BY <3>1, AbsentIsNone DEF BurnOK, FactorsGo, CrossedGrow
      <3> QED  BY <2>0, <2>2, <3>2 DEF UseOK, BurnOK
    <2>3. CASE q.pc = "spend"
      <3>1. SpendOK(q)
        BY <2>0, <2>3 DEF UseOK
      <3>2. SpendOK(q)'
        BY <3>1 DEF SpendOK, ChallengesStay, CrossedGrow
      <3> QED  BY <2>0, <2>3, <3>2 DEF UseOK, SpendOK
    <2>4. CASE q.pc \in {"lookup", "save", "count"}
      <3>1. BurntOK(q)
        BY <2>0, <2>4 DEF UseOK
      <3>2. BurntOK(q)'
        BY <1>2, <3>1 DEF BurntOK, CrossedGrow
      <3> QED  BY <2>0, <2>4, <3>2 DEF UseOK, BurntOK, Consumed
    <2>5. CASE q.pc \notin {"enable", "burn", "spend", "lookup", "save", "count"}
      BY <2>0, <2>5 DEF UseOK
    <2> QED  BY <2>1, <2>2, <2>3, <2>4, <2>5
  <1>6. OneUse'
    BY DEF UseInv, OneUse, CrossedGrow, Key
  <1>7. BurntApart'
    BY BurntStayApart
  <1> QED  BY <1>2, <1>3, <1>4, <1>5, <1>6, <1>7

LEMMA AroundKeepsUse ==
    ASSUME UseInv, Around, CrossedGrow, HeldApart'
    PROVE  UseInv'
  <1>0. Types /\ Types' /\ \A v \in Procs : procs'[v] = procs[v]
    BY AroundTypes DEF UseInv
  <1>1. UNCHANGED <<accepted, twice, factors, challenges>>
    BY DEF Around, SignIn, SignOut, revokePlatformAdmin, Sign,
           expireImpersonations, Tick, history, tables
  <1>2. FactorsGo /\ ChallengesStay /\ BurntGo
    BY <1>0, <1>1 DEF FactorsGo, ChallengesStay, BurntGo, Answered
  <1>3. SignedKnown'
    <2>1. CASE UNCHANGED signed
      BY <1>1, <2>1 DEF UseInv, SignedKnown
    <2>2. ASSUME NEW c \in DOMAIN challenges, NEW credential, NEW count,
                 Sign(c, credential, count)
          PROVE  SignedKnown'
      BY <1>1, <2>2 DEF UseInv, SignedKnown, Sign
    <2> QED  BY <2>1, <2>2 DEF Around, SignIn, SignOut, revokePlatformAdmin,
                expireImpersonations, Tick
  <1> QED  BY <1>0, <1>1, <1>2, <1>3, UseFrame DEF UseInv

\* The task of the step, in the state it leads to.
LEMMA UseNow ==
    ASSUME NEW v \in Procs, NEW t \in Tasks, procs'[v] = t,
           t.pc = "enable" => t.f \in crossed' \/ EnableOK(t)',
           t.pc = "burn" => t.f \in crossed' \/ BurnOK(t)',
           t.pc = "spend" => SpendOK(t)',
           t.pc \in {"lookup", "save", "count"} => BurntOK(t)'
    PROVE  UseOK(v)'
  BY DEF UseOK, EnableOK, BurnOK, SpendOK, BurntOK, Consumed

\* A request's task is the only one that moves, and comes to no answer.
LEMMA NoAnswer ==
    ASSUME NEW p \in Procs, \A v \in Procs : v # p => procs'[v] = procs[v],
           \/ procs'[p].pc \notin {"lookup", "save", "count"}
           \/ procs[p].pc \in {"lookup", "save", "count"} /\ procs'[p].r = procs[p].r
    PROVE  BurntGo
  BY DEF BurntGo, Answered

Uses == /\ OneUse' /\ CodesSpentOnce' /\ ResponsesSpentOnce' /\ BurntApart'
        /\ \A v \in Procs : UseOK(v)'

LEMMA CodesKeepUse ==
    ASSUME UseInv, NEW p \in Procs, NEW b \in Browsers, Codes(p, b), CrossedGrow,
           \A v \in Procs : v # p => procs'[v] = procs[v]
    PROVE  Uses
  <1>0. /\ Types /\ UNCHANGED <<accepted, twice, challenges>>
        /\ \A f \in Totps : \A x : Passed(f, x) \in accepted => f \in crossed \/ Spent(f, x)
    BY DEF UseInv, CodesSpentOnce, Codes, startEnrolmentAction, ReadEnrolment,
           ReadFactors, tables, history
  <1>1. ChallengesStay
    BY <1>0 DEF ChallengesStay
  <1>2. ASSUME NEW f \in Totps, startEnrolmentAction(p, b, f) PROVE Uses
    <2>1. factors[f] = Absent /\ \A g \in Totps : g # f => factors'[g] = factors[g]
      BY <1>0, <1>2, EnrolWrites, FactorNow
    <2>2. FactorsGo
      BY <2>1 DEF FactorsGo
    <2>3. UNCHANGED procs /\ BurntGo
      BY <1>2 DEF startEnrolmentAction, BurntGo, Answered
    <2> QED  BY <1>0, <1>1, <2>2, <2>3, UseFrame DEF Uses
  <1>3. ASSUME UNCHANGED factors, NEW t \in Tasks, Goes(p, t),
               t.pc = "enable" => EnableOK(t)',
               t.pc = "burn" => t.f \in crossed' \/ BurnOK(t)',
               t.pc \notin {"spend", "lookup", "save", "count"}
        PROVE  Uses
    <2>1. FactorsGo
      BY <1>3 DEF FactorsGo
    <2>2. procs'[p] = t
      BY <1>0, <1>3, GoesForm
    <2>3. UseOK(p)'
      BY <1>3, <2>2, UseNow
    <2>4. BurntGo
      BY <1>3, <2>2, NoAnswer
    <2> QED  BY <1>0, <1>1, <2>1, <2>3, <2>4, UseFrame DEF Uses
  <1>4. ASSUME NEW f \in Totps, NEW step \in Steps, ReadEnrolment(p, b, f, step)
        PROVE  Uses
    <2> PICK t \in EnableTask : Goes(p, t) /\ t.pc = "enable" /\ t.f = f
      BY <1>0, <1>4, EnrolmentForm
    <2>1. UNCHANGED factors /\ factors[f].type = "totp" /\ ~factors[f].verified
      BY <1>4 DEF ReadEnrolment, tables
    <2>2. factors[f] \in TotpRow
      BY <1>0, <2>1, FactorNow
    <2>3. EnableOK(t)'
      BY <2>1, <2>2 DEF EnableOK
    <2> QED  BY <1>3, <2>1, <2>3, KindsAreTasks
  <1>5. ASSUME NEW f \in Totps, NEW remember \in Remembering,
               ReadFactors(p, b, f, remember)
        PROVE  Uses
    <2>0. remember \in BOOLEAN
      BY <1>5 DEF Remembering
    <2> PICK t \in CodeTask :
          /\ Goes(p, t) /\ t.pc = "burn" /\ t.f = f
          /\ \/ t.proof \in Int /\ fresh(f, t.proof)
             \/ /\ t.proof \in BackupCodes /\ t.proof \in factors[f].codes
                /\ t.left = factors[f].codes \ {t.proof}
      BY <1>0, <1>5, <2>0, CodeForm
    <2>1. UNCHANGED factors /\ factors[f].type = "totp" /\ factors[f].verified
      BY <1>5 DEF ReadFactors, tables
    <2>2. factors[f] \in TotpRow /\ factors[f] # Removed
      BY <1>0, <2>1, FactorNow DEF Removed
    <2>3. \/ t.proof \in Int /\ t.proof > factors[f].lastUsedStep
          \/ /\ t.proof \in BackupCodes /\ t.proof \in factors[f].codes
             /\ t.left = factors[f].codes \ {t.proof}
      BY DEF fresh
    <2>4. BackupCodes \cap Int = {} /\ factors[f].lastUsedStep \in Int
      BY <2>2, FactorsAssumption, RowFields
    <2>5. ~Spent(f, t.proof)
      BY <2>2, <2>3, <2>4 DEF Spent
    <2>6. t.f \in crossed' \/ Passed(f, t.proof) \notin accepted
      BY <1>0, <2>5 DEF CrossedGrow
    <2>7. t.f \in crossed' \/ BurnOK(t)'
      BY <1>0, <2>1, <2>2, <2>3, <2>6 DEF BurnOK
    <2> QED  BY <1>3, <2>1, <2>7, KindsAreTasks
  <1> QED  BY <1>2, <1>4, <1>5 DEF Codes

LEMMA AssertionsKeepUse ==
    ASSUME UseInv, NEW p \in Procs, NEW b \in Browsers, Assertions(p, b),
           CrossedGrow, \A v \in Procs : v # p => procs'[v] = procs[v]
    PROVE  Uses /\ ChallengesStay
  <1>0. Types /\ UNCHANGED <<accepted, twice, factors>> /\ FactorsGo
    BY DEF UseInv, Assertions, StoreChallenge, ReadChallenge, tables, history,
           FactorsGo
  <1>1. ASSUME NEW purpose, StoreChallenge(p, b, purpose)
        PROVE  Uses /\ ChallengesStay
    <2>1. \E c : challenges' = Append(challenges, c)
      BY <1>1 DEF StoreChallenge
    <2>2. ChallengesStay
      BY <1>0, <2>1 DEF ChallengesStay, Types
    <2>3. UNCHANGED procs /\ BurntGo
      BY <1>1 DEF StoreChallenge, BurntGo, Answered
    <2> QED  BY <1>0, <2>2, <2>3, UseFrame DEF Uses
  <1>2. ASSUME NEW r \in signed, NEW op \in {"assert", "register"},
               NEW remember \in BOOLEAN, ReadChallenge(p, b, op, r, remember)
        PROVE  Uses /\ ChallengesStay
    <2>0. UNCHANGED challenges
      BY <1>2 DEF ReadChallenge, tables
    <2> PICK t \in ResponseTask :
             /\ Goes(p, t) /\ t.pc = "spend" /\ t.r = r
             /\ t.expected \in DOMAIN challenges
             /\ ~challenges[t.expected].consumed
      BY <1>0, <1>2, ChallengeForm
    <2>1. procs'[p] = t /\ t \in Tasks
      BY <1>0, GoesForm, KindsAreTasks
    <2>2. SpendOK(t)'
      BY <2>0 DEF SpendOK, UseInv, SignedKnown
    <2>3. UseOK(p)' /\ BurntGo
      BY <2>1, <2>2, UseNow, NoAnswer
    <2>4. ChallengesStay
      BY <2>0 DEF ChallengesStay
    <2> QED  BY <1>0, <2>3, <2>4, UseFrame DEF Uses
  <1>3. \A op, remember : remember \in Remembering =>
          (op = "assert" /\ remember) \in BOOLEAN
    OBVIOUS
  <1> QED  BY <1>1, <1>2, <1>3 DEF Assertions

LEMMA GuardedKeepUse ==
    ASSUME UseInv, NEW p \in Procs, NEW b \in Browsers, Guarded(p, b), CrossedGrow,
           \A v \in Procs : v # p => procs'[v] = procs[v]
    PROVE  Uses
  <1>0. Types /\ UNCHANGED <<accepted, twice, challenges>> /\ ChallengesStay
    BY DEF UseInv, Guarded, OpenGate, forgetAllDevicesAction, removeFactorAction,
           history, ChallengesStay
  <1>1. ASSUME NEW op \in {"gate", "begin", "stop"}, OpenGate(p, b, op) PROVE Uses
    <2>1. FactorsGo
      BY <1>1 DEF OpenGate, FactorsGo
    <2>2. (procs'[p] = procs[p] \/ UseOK(p)') /\ BurntGo
      <3>1. ASSUME NEW t \in GateTask, Goes(p, t), t.pc = "factors"
            PROVE  UseOK(p)' /\ BurntGo
        <4>1. procs'[p] = t /\ t \in Tasks
          BY <1>0, <3>1, GoesForm, KindsAreTasks
        <4> QED  BY <3>1, <4>1, UseNow, NoAnswer
      <3>2. UNCHANGED procs => BurntGo
        BY DEF BurntGo, Answered
      <3> QED  BY <1>0, <1>1, <3>1, <3>2, GateForm
    <2> QED  BY <1>0, <2>1, <2>2, UseFrame DEF Uses
  <1>2. CASE forgetAllDevicesAction(p, b)
    <2>1. FactorsGo /\ UNCHANGED procs /\ BurntGo
      BY <1>2 DEF forgetAllDevicesAction, FactorsGo, BurntGo, Answered
    <2> QED  BY <1>0, <2>1, UseFrame DEF Uses
  <1>3. ASSUME NEW f \in Ids, removeFactorAction(p, b, f) PROVE Uses
    <2>1. UNCHANGED procs /\ BurntGo
      BY <1>3 DEF removeFactorAction, BurntGo, Answered
    <2>2. FactorsGo
      BY <1>0, <1>3, RemovalWrites, FactorNow DEF FactorsGo
    <2> QED  BY <1>0, <2>1, <2>2, UseFrame DEF Uses
  <1> QED  BY <1>1, <1>2, <1>3 DEF Guarded

\* A write touches only what its request holds; whoever holds the same has
\* crossed, and everyone else still finds what it read.
LEMMA OthersKeepUse ==
    ASSUME UseInv, NEW p \in Procs, CrossedGrow,
           \A v \in Procs : v # p => procs'[v] = procs[v],
           \A f \in Totps : factors'[f] = factors[f] \/ f \in Held(procs[p]),
           \A c \in DOMAIN challenges :
             /\ c \in DOMAIN challenges'
             /\ challenges'[c] = challenges[c] \/ c \in Held(procs[p]),
           \A c : Consumed(c) => Consumed(c)',
           \A a \in accepted' : \/ a \in accepted
                                \/ \E f \in Held(procs[p]) : \E x : a = Passed(f, x)
                                \/ /\ a \in Response /\ Answered(p)
                                   /\ a.challenge = procs[p].r.challenge,
           NEW v \in Procs, v # p
    PROVE  UseOK(v)'
  <1> PICK q \in Tasks : q = procs[v]
    BY TaskNow DEF UseInv
  <1>0. procs'[v] = q /\ UseOK(v) /\ Held(procs[p]) \cap Held(q) \subseteq crossed'
    BY DEF UseInv, HeldApart, CrossedGrow
  <1>1. CASE q.pc \in {"enable", "burn"}
    <2>1. q.f \in Totps /\ q.f \in Held(q)
      BY <1>1, TaskKinds, TaskFields, HeldForm
    <2>2. CASE q.f \in Held(procs[p]) \/ q.f \in crossed
      <3>1. q.f \in crossed'
        BY <1>0, <2>1, <2>2 DEF CrossedGrow
      <3> QED  BY <1>0, <1>1, <3>1, UseNow
    <2>3. CASE q.f \notin Held(procs[p]) /\ q.f \notin crossed
      <3>1. factors'[q.f] = factors[q.f]
        BY <2>1, <2>3
      <3>2. CASE q.pc = "enable"
        <4>1. EnableOK(q)
          BY <1>0, <2>3, <3>2 DEF UseOK
        <4>2. EnableOK(q)'
          BY <3>1, <4>1 DEF EnableOK
        <4> QED  BY <1>0, <3>2, <4>2, UseNow
      <3>3. CASE q.pc = "burn"
        <4>1. BurnOK(q)
          BY <1>0, <2>3, <3>3 DEF UseOK
        <4>2. Passed(q.f, q.proof) \notin accepted'
          BY <2>3, <4>1, ProofsApart DEF BurnOK
        <4>3. BurnOK(q)'
          BY <3>1, <4>1, <4>2 DEF BurnOK
        <4> QED  BY <1>0, <3>3, <4>3, UseNow
      <3> QED  BY <1>1, <3>2, <3>3
    <2> QED  BY <2>2, <2>3
  <1>2. CASE q.pc = "spend"
    <2>1. SpendOK(q) /\ q.expected \in Held(q)
      BY <1>0, <1>2, HeldForm DEF UseOK
    <2>2. SpendOK(q)'
      BY <1>0, <2>1 DEF SpendOK, CrossedGrow
    <2> QED  BY <1>0, <1>2, <2>2, UseNow
  <1>3. CASE q.pc \in {"lookup", "save", "count"}
    <2>1. BurntOK(q) /\ Answered(v) /\ q.r \in Response
      BY <1>0, <1>3, TaskKinds, TaskFields DEF UseOK, Answered
    <2>2. q.r \in accepted' /\ q.r \notin accepted => q.r.challenge \in crossed'
      <3> SUFFICES ASSUME q.r \in accepted', q.r \notin accepted
                   PROVE  q.r.challenge \in crossed'
        OBVIOUS
      <3>1. \A f, x : q.r # Passed(f, x)
        BY <2>1, ProofsApart
      <3>2. Answered(p) /\ q.r.challenge = procs[p].r.challenge
        BY <3>1
      <3> QED  BY <2>1, <3>2 DEF UseInv, BurntApart, CrossedGrow
    <2>3. BurntOK(q)'
      BY <2>1, <2>2 DEF BurntOK, CrossedGrow
    <2> QED  BY <1>0, <1>3, <2>3, UseNow
  <1>4. CASE q.pc \notin {"enable", "burn", "spend", "lookup", "save", "count"}
    BY <1>0, <1>4, UseNow
  <1> QED  BY <1>1, <1>2, <1>3, <1>4

\* A proof passes, and its request goes on to the mark; one that had passed
\* is of what has crossed.
LEMMA PassesOnce ==
    ASSUME UseInv, NEW p \in Procs, procs[p] \in Proving, CrossedGrow,
           \A v \in Procs : v # p => procs'[v] = procs[v],
           NEW proof, NEW b, Passes(proof, b),
           proof \in accepted => Key(proof) \in crossed, Moves(p, "mark")
    PROVE  /\ OneUse' /\ accepted' = accepted \cup {proof}
           /\ UseOK(p)' /\ BurntApart'
  <1>1. /\ accepted' = accepted \cup {proof}
        /\ \A a \in twice' : Key(a) \in crossed
    BY DEF UseInv, OneUse, Passes
  <1>2. procs'[p].pc = "mark" /\ procs'[p] \in Tasks
    BY ProvingStep, KindsAreTasks DEF UseInv
  <1>3. UseOK(p)' /\ BurntGo
    BY <1>2, NoAnswer DEF UseOK
  <1>4. OneUse'
    BY <1>1 DEF OneUse, CrossedGrow, Key
  <1> QED  BY <1>1, <1>3, <1>4, BurntStayApart

\* A request that ends, or goes on without a proof to pass.
LEMMA LeavesUse ==
    ASSUME UseInv, NEW p \in Procs, Ends(p), CrossedGrow,
           \A v \in Procs : v # p => procs'[v] = procs[v],
           FactorsGo, ChallengesStay, UNCHANGED <<accepted, twice>>
    PROVE  Uses
  <1>1. procs'[p] = Idle
    BY EndsIdle DEF UseInv
  <1>2. UseOK(p)' /\ BurntGo
    BY <1>1, TaskFields, NoAnswer DEF UseOK
  <1> QED  BY <1>2, UseFrame DEF Uses

LEMMA ActivateKeepsUse ==
    ASSUME UseInv, NEW p \in Procs, activateTotpFactor(p), CrossedGrow,
           \A v \in Procs : v # p => procs'[v] = procs[v]
    PROVE  Uses
  <1>0. Types /\ UNCHANGED challenges /\ ChallengesStay
    BY DEF UseInv, activateTotpFactor, ChallengesStay
  <1> PICK q \in EnableTask : /\ q = procs[p] /\ q.pc = "enable"
                              /\ q.f \in crossed \/ EnableOK(q)
    <2>1. procs[p].pc = "enable" /\ procs[p] \in Tasks
      BY <1>0, TaskNow DEF activateTotpFactor, At
    <2> QED  BY <2>1, TaskKinds DEF UseInv, UseOK
  <1>1. q.f \in Totps /\ q.f \in Ids /\ q \in Proving /\ Held(q) = {q.f}
    BY <1>0, TaskFields, FactorNow, HeldForm DEF Proving
  <1>2. CASE ~Here(q.f)
    <2>1. Ends(p) /\ UNCHANGED <<factors, accepted, twice>>
      BY <1>0, <1>2, ActivateWrites DEF history, activateTotpFactor
    <2> QED  BY <1>0, <2>1, LeavesUse DEF FactorsGo
  <1>3. CASE Here(q.f)
    <2>1. \A x : Passed(q.f, x) \in accepted => q.f \in crossed
      <3>1. CASE q.f \notin crossed
        <4>1. /\ factors[q.f] \in TotpRow /\ ~factors[q.f].verified
              /\ factors[q.f] # Removed
          BY <1>3, <3>1 DEF EnableOK, Here, Removed
        <4> QED  BY <1>1, <4>1 DEF UseInv, CodesSpentOnce, Spent
      <3> QED  BY <3>1
    <2>3. /\ Passes(Passed(q.f, q.step), q.b) /\ Moves(p, "mark")
          /\ factors'[q.f] \in TotpRow /\ factors'[q.f].verified
          /\ factors'[q.f].lastUsedStep = q.step
          /\ \A g \in Ids : g # q.f => factors'[g] = factors[g]
      BY <1>0, <1>3, ActivateWrites DEF Passed
    <2>4. /\ OneUse' /\ accepted' = accepted \cup {Passed(q.f, q.step)}
          /\ UseOK(p)' /\ BurntApart'
      BY <1>1, <2>1, <2>3, PassesOnce, ProofsApart
    <2>5. ASSUME NEW f \in Totps, NEW x, Passed(f, x) \in accepted'
          PROVE  f \in crossed' \/ Spent(f, x)'
      <3>1. CASE Passed(f, x) \in accepted /\ f = q.f
        BY <2>1, <3>1 DEF CrossedGrow
      <3>2. CASE Passed(f, x) = Passed(q.f, q.step)
        <4>1. x = q.step /\ f = q.f
          BY <3>2, ProofsApart
        <4>2. x \in Int /\ x <= factors'[f].lastUsedStep
          BY <2>3, <4>1, TaskFields
        <4> QED  BY <2>3, <4>1, <4>2 DEF Spent
      <3>3. CASE Passed(f, x) \in accepted /\ f # q.f
        <4>1. factors'[f] = factors[f]
          BY <1>0, <2>3, <3>3, FactorNow
        <4> QED  BY <3>3, <4>1 DEF UseInv, CodesSpentOnce, Spent, CrossedGrow
      <3> QED  BY <2>4, <2>5, <3>1, <3>2, <3>3
    <2>6. ResponsesSpentOnce'
      BY <1>0, <2>4, ProofsApart DEF UseInv, ResponsesSpentOnce, Consumed
    <2>7. \A v \in Procs : v # p => UseOK(v)'
      <3>1. \A f \in Totps : factors'[f] = factors[f] \/ f \in Held(procs[p])
        BY <1>0, <1>1, <2>3, FactorNow
      <3>2. \A a \in accepted' : a \in accepted \/ \E f \in Held(procs[p]) : \E x : a = Passed(f, x)
        BY <1>1, <2>4
      <3>3. \A c : Consumed(c) => Consumed(c)'
        BY <1>0 DEF Consumed
      <3> QED  BY <1>0, <3>1, <3>2, <3>3, OthersKeepUse
    <2>8. \A v \in Procs : UseOK(v)'
      BY <2>4, <2>7
    <2>9. CodesSpentOnce'
      BY <2>5 DEF CodesSpentOnce, Passed, Spent
    <2> QED  BY <2>4, <2>6, <2>8, <2>9 DEF Uses
  <1> QED  BY <1>2, <1>3

LEMMA BurnKeepsUse ==
    ASSUME UseInv, NEW p \in Procs, BurnCode(p), CrossedGrow,
           \A v \in Procs : v # p => procs'[v] = procs[v]
    PROVE  Uses
  <1>0. Types /\ UNCHANGED challenges
    BY DEF UseInv, BurnCode
  <1> PICK q \in CodeTask : /\ q = procs[p] /\ q.pc = "burn"
                            /\ q.f \in crossed \/ BurnOK(q)
    <2>1. procs[p].pc = "burn" /\ procs[p] \in Tasks
      BY <1>0, TaskNow DEF BurnCode, At
    <2> QED  BY <2>1, TaskKinds DEF UseInv, UseOK
  <1>1. /\ q.f \in Totps /\ q.f \in Ids /\ q \in Proving /\ Held(q) = {q.f}
        /\ q.proof \in Int \cup BackupCodes /\ BackupCodes \cap Int = {}
    BY <1>0, TaskFields, FactorNow, FactorsAssumption, HeldForm DEF Proving
  <1>2. /\ Passes(Passed(q.f, q.proof), q.b) /\ Moves(p, "mark")
        /\ Passed(q.f, q.proof) \in accepted => q.f \in crossed
    BY DEF BurnCode, BurnOK, Passed
  <1>3. /\ OneUse' /\ accepted' = accepted \cup {Passed(q.f, q.proof)}
        /\ UseOK(p)' /\ BurntApart'
    BY <1>1, <1>2, PassesOnce, ProofsApart
  <1>4. \A g \in Totps : g # q.f => factors'[g] = factors[g]
    BY <1>0, BurnWrites, FactorNow
  <1>5. ASSUME q.f \notin crossed, NEW x, x = q.proof \/ Spent(q.f, x)
        PROVE  Spent(q.f, x)'
    <2>0. BurnOK(q)
      BY <1>5
    <2>1. CASE ~Here(q.f)
      <3>1. factors[q.f] = Removed /\ factors'[q.f] = factors[q.f]
        BY <1>0, <1>1, <2>0, <2>1, BurnWrites, FactorNow DEF BurnOK
      <3> QED  BY <3>1 DEF Spent
    <2>2. CASE Here(q.f)
      <3>1. factors[q.f] \in TotpRow /\ factors[q.f] # Removed
        BY <1>0, <1>1, <2>2, FactorNow DEF Here, Removed
      <3>2. /\ factors[q.f].verified /\ factors[q.f].lastUsedStep \in Int
            /\ \/ q.proof \in BackupCodes /\ q.left = factors[q.f].codes \ {q.proof}
               \/ q.proof \in Int /\ q.proof > factors[q.f].lastUsedStep
        BY <2>0, <3>1, RowFields DEF BurnOK
      <3>3. /\ factors'[q.f] \in TotpRow
            /\ factors'[q.f].verified = factors[q.f].verified
            /\ \/ /\ q.proof \in BackupCodes /\ factors'[q.f].codes = q.left
                  /\ factors'[q.f].lastUsedStep = factors[q.f].lastUsedStep
               \/ /\ q.proof \in Int /\ factors'[q.f].lastUsedStep = q.proof
                  /\ factors'[q.f].codes = factors[q.f].codes
        BY <1>0, <2>2, BurnWrites
      <3>4. CASE q.proof \in BackupCodes
        <4>1. q.proof \notin Int
          BY <1>1, <3>4
        <4>2. /\ factors'[q.f].codes = factors[q.f].codes \ {q.proof}
              /\ factors'[q.f].lastUsedStep = factors[q.f].lastUsedStep
          BY <3>2, <3>3, <4>1
        <4> QED  BY <1>5, <3>1, <3>2, <3>3, <3>4, <4>2 DEF Spent
      <3>5. CASE q.proof \in Int
        <4>1. q.proof \notin BackupCodes
          BY <1>1, <3>5
        <4>2. /\ q.proof > factors[q.f].lastUsedStep
              /\ factors'[q.f].lastUsedStep = q.proof
              /\ factors'[q.f].codes = factors[q.f].codes
          BY <3>2, <3>3, <4>1
        <4>3. CASE x = q.proof
          BY <3>2, <3>3, <3>5, <4>2, <4>3 DEF Spent
        <4>4. CASE Spent(q.f, x)
          <5>1. \/ x \in Int /\ x <= factors[q.f].lastUsedStep
                \/ x \in BackupCodes /\ x \notin factors[q.f].codes
            BY <3>1, <4>4 DEF Spent
          <5>2. x \in Int /\ x <= factors[q.f].lastUsedStep =>
                  x <= factors'[q.f].lastUsedStep
            BY <3>2, <3>5, <4>2
          <5> QED  BY <3>2, <3>3, <4>2, <5>1, <5>2 DEF Spent
        <4> QED  BY <1>5, <4>3, <4>4
      <3> QED  BY <1>1, <3>4, <3>5
    <2> QED  BY <2>1, <2>2
  <1>6. ASSUME NEW f \in Totps, NEW x, Passed(f, x) \in accepted'
        PROVE  f \in crossed' \/ Spent(f, x)'
    <2>1. CASE f = q.f
      <3>1. x = q.proof \/ Passed(f, x) \in accepted
        BY <1>3, <1>6, ProofsApart
      <3>2. x = q.proof \/ Spent(q.f, x) \/ q.f \in crossed
        BY <2>1, <3>1 DEF UseInv, CodesSpentOnce
      <3> QED  BY <1>5, <2>1, <3>2 DEF Spent, CrossedGrow
    <2>2. CASE f # q.f
      <3>1. Passed(f, x) \in accepted /\ factors'[f] = factors[f]
        BY <1>3, <1>4, <1>6, <2>2, ProofsApart
      <3> QED  BY <3>1 DEF UseInv, CodesSpentOnce, Spent, CrossedGrow
    <2> QED  BY <2>1, <2>2
  <1>7. ResponsesSpentOnce'
    BY <1>0, <1>3, ProofsApart DEF UseInv, ResponsesSpentOnce, Consumed
  <1>8. \A v \in Procs : v # p => UseOK(v)'
    <2>1. \A f \in Totps : factors'[f] = factors[f] \/ f \in Held(procs[p])
      BY <1>1, <1>4
    <2>2. \A a \in accepted' : a \in accepted \/ \E f \in Held(procs[p]) : \E x : a = Passed(f, x)
      BY <1>1, <1>3
    <2>3. \A c : Consumed(c) => Consumed(c)'
      BY <1>0 DEF Consumed
    <2> QED  BY <1>0, <2>1, <2>2, <2>3, OthersKeepUse
  <1>9. \A v \in Procs : UseOK(v)'
    BY <1>3, <1>8
  <1>10. CodesSpentOnce'
    BY <1>6 DEF CodesSpentOnce, Passed, Spent
  <1> QED  BY <1>3, <1>7, <1>9, <1>10 DEF Uses

\* The challenge of a verification is burnt; its response answers it or ends
\* the request.
LEMMA ChallengeKeepsUse ==
    ASSUME UseInv, NEW p \in Procs, BurnChallenge(p), CrossedGrow,
           \A v \in Procs : v # p => procs'[v] = procs[v]
    PROVE  Uses /\ DOMAIN challenges' = DOMAIN challenges
  <1>0. Types /\ UNCHANGED <<factors, accepted, twice>>
    BY DEF UseInv, BurnChallenge, history
  <1> PICK q \in ResponseTask : q = procs[p] /\ SpendOK(q) /\ q.pc = "spend"
    <2>1. procs[p].pc = "spend" /\ procs[p] \in Tasks
      BY <1>0, TaskNow DEF BurnChallenge, At
    <2> QED  BY <2>1, TaskKinds DEF UseInv, UseOK
  <1>1. q.r \in Response /\ Held(q) = {q.expected}
    BY TaskFields, HeldForm
  <1>2. Burnt(q.expected)
    BY DEF BurnChallenge, Burnt
  <1>3. /\ DOMAIN challenges' = DOMAIN challenges
        /\ challenges'[q.expected].consumed
        /\ \A i \in DOMAIN challenges : i # q.expected => challenges'[i] = challenges[i]
    BY <1>0, <1>2, ChallengeBurnt DEF SpendOK
  <1>4. \A c : Consumed(c) => Consumed(c)'
    BY <1>3 DEF Consumed
  <1>5. ResponsesSpentOnce'
    BY <1>0, <1>4 DEF UseInv, ResponsesSpentOnce
  <1>6. CodesSpentOnce' /\ OneUse'
    BY <1>0 DEF UseInv, CodesSpentOnce, OneUse, Spent, CrossedGrow, Key
  <1>7. UseOK(p)' /\ BurntApart'
    <2>1. CASE Ends(p)
      <3>1. procs'[p] = Idle
        BY <1>0, <2>1, EndsIdle
      <3>2. BurntGo
        BY <3>1, TaskFields, NoAnswer
      <3> QED  BY <3>1, <3>2, TaskFields, BurntStayApart DEF UseOK
    <2>2. CASE ~Ends(p)
      <3>1. q.r.challenge = q.expected
        BY <1>0, <2>2, BurnAdvances
      <3> PICK t \in ResponseTask : /\ Goes(p, t) /\ t.pc \in {"lookup", "save"}
                                    /\ t.r = q.r
        BY <1>0, <2>2, BurnAdvances
      <3>2. q.r.challenge \in crossed \/ q.r \notin accepted
        BY <1>1, <3>1 DEF UseInv, ResponsesSpentOnce, Consumed, SpendOK
      <3>3. Consumed(q.expected)'
        BY <1>3 DEF Consumed, SpendOK
      <3>4. BurntOK(t)'
        BY <1>0, <3>1, <3>2, <3>3 DEF BurntOK, Consumed, CrossedGrow
      <3>5. procs'[p] = t /\ t \in Tasks
        BY <1>0, GoesForm, KindsAreTasks
      <3>6. ASSUME NEW v \in Procs, v # p, Answered(v),
                   procs[v].r.challenge = q.expected
            PROVE  q.expected \in crossed'
        <4>1. Consumed(q.expected)
          BY <3>6 DEF UseInv, UseOK, Answered, BurntOK
        <4> QED  BY <4>1 DEF SpendOK, Consumed, CrossedGrow
      <3>7. BurntApart'
        <4> SUFFICES ASSUME NEW u \in Procs, NEW v \in Procs, u # v,
                            Answered(u)', Answered(v)',
                            procs'[u].r.challenge = procs'[v].r.challenge
                     PROVE  procs'[u].r.challenge \in crossed'
          BY DEF BurntApart, Answered
        <4>1. CASE u # p /\ v # p
          <5>1. Answered(u) /\ Answered(v) /\ procs[u].r.challenge = procs[v].r.challenge
            BY <4>1 DEF Answered
          <5> QED  BY <4>1, <5>1 DEF UseInv, BurntApart, CrossedGrow
        <4>2. CASE u = p
          <5>1. Answered(v) /\ procs[v].r.challenge = q.expected
            BY <3>1, <3>5, <4>2 DEF Answered
          <5> QED  BY <3>1, <3>5, <3>6, <4>2, <5>1
        <4>3. CASE v = p
          <5>1. Answered(u) /\ procs[u].r.challenge = q.expected
            BY <3>1, <3>5, <4>3 DEF Answered
          <5> QED  BY <3>1, <3>5, <3>6, <4>3, <5>1
        <4> QED  BY <4>1, <4>2, <4>3
      <3> QED  BY <3>4, <3>5, <3>7, UseNow
    <2> QED  BY <2>1, <2>2
  <1>8. \A v \in Procs : v # p => UseOK(v)'
    <2>1. \A c \in DOMAIN challenges :
             /\ c \in DOMAIN challenges'
             /\ challenges'[c] = challenges[c] \/ c \in Held(procs[p])
      BY <1>1, <1>3
    <2> QED  BY <1>0, <1>4, <2>1, OthersKeepUse
  <1>9. \A v \in Procs : UseOK(v)'
    BY <1>7, <1>8
  <1> QED  BY <1>3, <1>5, <1>6, <1>7, <1>9 DEF Uses

LEMMA LookUpKeepsUse ==
    ASSUME UseInv, NEW p \in Procs, LookUpPasskey(p), CrossedGrow,
           \A v \in Procs : v # p => procs'[v] = procs[v]
    PROVE  Uses
  <1>0. /\ Types /\ UNCHANGED <<factors, challenges, accepted, twice>>
        /\ FactorsGo /\ ChallengesStay
    BY DEF UseInv, LookUpPasskey, tables, history, FactorsGo, ChallengesStay
  <1>1. procs[p].pc = "lookup" /\ BurntOK(procs[p])
    BY DEF LookUpPasskey, At, UseInv, UseOK
  <1>2. CASE Ends(p)
    BY <1>0, <1>2, LeavesUse
  <1>3. CASE ~Ends(p)
    <2> PICK t \in CountTask : Goes(p, t) /\ t.pc = "count" /\ t.r = procs[p].r
      BY <1>0, <1>3, LookUpAdvances
    <2>1. BurntOK(t)'
      BY <1>0, <1>1 DEF BurntOK, Consumed, CrossedGrow
    <2>2. procs'[p] = t /\ t \in Tasks
      BY <1>0, GoesForm, KindsAreTasks
    <2>3. UseOK(p)' /\ BurntGo
      BY <1>1, <2>1, <2>2, UseNow, NoAnswer
    <2> QED  BY <1>0, <2>3, UseFrame DEF Uses
  <1> QED  BY <1>2, <1>3

\* A response is accepted, of a challenge burnt for it.
LEMMA PasskeysKeepUse ==
    ASSUME UseInv, NEW p \in Procs, CrossedGrow,
           (\E f \in Passkeys : savePasskey(p, f)) \/ updatePasskeyCounter(p),
           \A v \in Procs : v # p => procs'[v] = procs[v]
    PROVE  Uses
  <1>0. /\ Types /\ UNCHANGED challenges /\ ChallengesStay
        /\ \A f \in Totps : factors'[f] = factors[f]
    BY PasskeyWrites DEF UseInv, savePasskey, updatePasskeyCounter, ChallengesStay
  <1> PICK q \in Proving : /\ q = procs[p] /\ BurntOK(q) /\ q.r \in Response
                           /\ Answered(p)
    <2>1. procs[p].pc \in {"save", "count"} /\ procs[p] \in Tasks
      BY <1>0, TaskNow DEF savePasskey, updatePasskeyCounter, At
    <2> QED  BY <2>1, TaskKinds, TaskFields DEF UseInv, UseOK, Proving, Answered
  <1>1. CASE Passes(q.r, q.b) /\ Moves(p, "mark")
    <2>1. /\ OneUse' /\ accepted' = accepted \cup {q.r}
          /\ UseOK(p)' /\ BurntApart'
      BY <1>1, PassesOnce, ProofsApart DEF BurntOK
    <2>2. ASSUME NEW f \in Totps, NEW x, Passed(f, x) \in accepted'
          PROVE  f \in crossed' \/ Spent(f, x)'
      <3>1. Passed(f, x) \in accepted
        BY <2>1, <2>2, ProofsApart
      <3> QED  BY <1>0, <2>2, <3>1 DEF UseInv, CodesSpentOnce, Spent, CrossedGrow
    <2>3. ASSUME NEW r \in Response, r \in accepted' PROVE Consumed(r.challenge)'
      <3>1. Consumed(r.challenge)
        BY <2>1, <2>3 DEF UseInv, ResponsesSpentOnce, BurntOK
      <3> QED  BY <1>0, <3>1 DEF Consumed
    <2>4. \A v \in Procs : v # p => UseOK(v)'
      <3>1. \A a \in accepted' : \/ a \in accepted
                                 \/ /\ a \in Response /\ Answered(p)
                                    /\ a.challenge = procs[p].r.challenge
        BY <2>1
      <3>2. \A c : Consumed(c) => Consumed(c)'
        BY <1>0 DEF Consumed
      <3> QED  BY <1>0, <3>1, <3>2, OthersKeepUse
    <2>5. \A v \in Procs : UseOK(v)'
      BY <2>1, <2>4
    <2>6. CodesSpentOnce' /\ ResponsesSpentOnce'
      BY <2>2, <2>3 DEF CodesSpentOnce, ResponsesSpentOnce, Passed, Spent, Consumed
    <2> QED  BY <2>1, <2>5, <2>6 DEF Uses
  <1>2. CASE Ends(p) /\ UNCHANGED history
    <2>1. FactorsGo /\ UNCHANGED <<accepted, twice>>
      BY <1>0, <1>2 DEF FactorsGo, history
    <2> QED  BY <1>0, <1>2, <2>1, LeavesUse
  <1> QED  BY <1>1, <1>2 DEF savePasskey, updatePasskeyCounter

LEMMA RestKeepsUse ==
    ASSUME UseInv, NEW p \in Procs, CrossedGrow,
           \A v \in Procs : v # p => procs'[v] = procs[v],
           \/ markSessionMfaVerified(p) \/ \E d \in Devices : rememberThisDevice(p, d)
           \/ hasVerifiedMfa(p) \/ FindTrustedDevice(p) \/ Render(p)
           \/ \E who \in {Colleague, Customer} : CheckTarget(p, who)
           \/ ActiveImpersonation(p) \/ endImpersonation(p)
           \/ InsertImpersonation(p) \/ Crash(p)
    PROVE  Uses
  <1>0. /\ Types /\ UNCHANGED <<factors, challenges, accepted, twice>>
        /\ FactorsGo /\ ChallengesStay
    BY DEF UseInv, markSessionMfaVerified, rememberThisDevice, hasVerifiedMfa,
           FindTrustedDevice, Render, CheckTarget, ActiveImpersonation,
           endImpersonation, InsertImpersonation, Crash, tables, history,
           FactorsGo, ChallengesStay
  <1>1. CASE Ends(p)
    BY <1>0, <1>1, LeavesUse
  <1>2. ASSUME NEW t \in Tasks, procs'[p] = t,
               t.pc \notin {"enable", "burn", "spend", "lookup", "save", "count"}
        PROVE  Uses
    <2>1. UseOK(p)' /\ BurntGo
      BY <1>2, UseNow, NoAnswer
    <2> QED  BY <1>0, <2>1, UseFrame DEF Uses
  <1>3. CASE markSessionMfaVerified(p) \/ \E d \in Devices : rememberThisDevice(p, d)
    <2>1. Ends(p) \/ (Moves(p, "remember") /\ procs[p].pc = "mark")
      BY <1>3 DEF markSessionMfaVerified, rememberThisDevice, At
    <2>2. procs[p].pc = "mark" => procs[p] \in Proving
      BY <1>0, TaskNow, TaskKinds
    <2>3. Ends(p) \/ (procs'[p] \in Tasks /\ procs'[p].pc = "remember")
      BY <1>0, <2>1, <2>2, ProvingStep, KindsAreTasks
    <2> QED  BY <1>1, <1>2, <2>3
  <1>4. ASSUME NEW pc, GateStep(p, pc) PROVE Uses
    <2> PICK t \in GateTask : Goes(p, t)
      BY <1>4 DEF GateStep
    <2>1. procs'[p] = t /\ t \in Tasks
      BY <1>0, GoesForm, KindsAreTasks
    <2> QED  BY <1>2, <2>1, TaskFields
  <1>5. ASSUME EndStep(p) PROVE Uses
    <2> PICK t \in EndTask : Goes(p, t)
      BY <1>5 DEF EndStep
    <2>1. procs'[p] = t /\ t \in Tasks
      BY <1>0, GoesForm, KindsAreTasks
    <2> QED  BY <1>2, <2>1, TaskFields
  <1>6. CASE \/ hasVerifiedMfa(p) \/ FindTrustedDevice(p) \/ Render(p)
             \/ \E who \in {Colleague, Customer} : CheckTarget(p, who)
             \/ ActiveImpersonation(p) \/ endImpersonation(p)
             \/ InsertImpersonation(p)
    BY <1>0, <1>1, <1>4, <1>5, <1>6, GateAdvances
  <1>7. CASE Crash(p)
    BY <1>1, <1>7 DEF Crash
  <1> QED  BY <1>3, <1>6, <1>7

LEMMA RequestKeepsUse ==
    ASSUME UseInv, NEW p \in Procs, Request(p), CrossedGrow, HeldApart'
    PROVE  UseInv'
  <1>0. /\ Types /\ Types'
        /\ \A v \in Procs : v # p => procs'[v] = procs[v]
    BY RequestTypes DEF UseInv
  <1>2. Uses
    BY <1>0, CodesKeepUse, AssertionsKeepUse, GuardedKeepUse, ActivateKeepsUse,
       BurnKeepsUse, ChallengeKeepsUse, LookUpKeepsUse, PasskeysKeepUse,
       RestKeepsUse DEF Request
  <1>3. UNCHANGED signed
    BY DEF Request, Codes, startEnrolmentAction, ReadEnrolment,
           ReadFactors, Assertions, StoreChallenge, ReadChallenge, Guarded,
           OpenGate, forgetAllDevicesAction, removeFactorAction,
           activateTotpFactor, BurnCode, BurnChallenge, savePasskey,
           LookUpPasskey, updatePasskeyCounter, markSessionMfaVerified,
           rememberThisDevice, hasVerifiedMfa, FindTrustedDevice, Render,
           CheckTarget, ActiveImpersonation, endImpersonation,
           InsertImpersonation, Crash
  <1>4. DOMAIN challenges \subseteq DOMAIN challenges'
    <2>1. UNCHANGED challenges => DOMAIN challenges \subseteq DOMAIN challenges'
      OBVIOUS
    <2>2. ASSUME NEW b \in Browsers, Assertions(p, b)
          PROVE  DOMAIN challenges \subseteq DOMAIN challenges'
      BY <1>0, <2>2, AssertionsKeepUse DEF ChallengesStay
    <2>3. BurnChallenge(p) => DOMAIN challenges \subseteq DOMAIN challenges'
      BY <1>0, ChallengeKeepsUse
    <2>4. \/ UNCHANGED challenges \/ BurnChallenge(p)
          \/ \E b \in Browsers : Assertions(p, b)
      BY DEF Request, Codes, startEnrolmentAction, ReadEnrolment,
             ReadFactors, Guarded, OpenGate, forgetAllDevicesAction,
             removeFactorAction, activateTotpFactor, BurnCode, savePasskey,
             LookUpPasskey, updatePasskeyCounter, markSessionMfaVerified,
             rememberThisDevice, hasVerifiedMfa, FindTrustedDevice, Render,
             CheckTarget, ActiveImpersonation, endImpersonation,
             InsertImpersonation, Crash, tables
    <2> QED  BY <2>1, <2>2, <2>3, <2>4
  <1>5. SignedKnown'
    BY <1>3, <1>4 DEF UseInv, SignedKnown
  <1> QED  BY <1>0, <1>2, <1>5 DEF UseInv, Uses

LEMMA InitUse ==
    ASSUME Init
    PROVE  UseInv
  <1>0. Types
    BY InitTypes
  <1>1. \A v \in Procs : procs[v] = Idle
    BY DEF Init
  <1>2. \A v \in Procs : UseOK(v)
    BY <1>1, TaskFields DEF UseOK
  <1>3. ASSUME NEW a \in accepted
        PROVE  \E f \in Totps : /\ a = Passed(f, now) /\ f \in bound.enrolled
    BY FactorsAssumption DEF Init, Passed
  <1>4. ASSUME NEW f \in Totps, f \in bound.enrolled PROVE Spent(f, now)
    <2>0. TRUE \in BOOLEAN /\ now \in Int /\ BackupCodes \in SUBSET BackupCodes
      BY <1>0 DEF Types
    <2>1. \E new \in TotpRow :
             /\ new = TotpFactor(TRUE, now, BackupCodes)
             /\ new.verified = TRUE /\ new.lastUsedStep = now
             /\ new.codes = BackupCodes
      BY <2>0, TotpMade
    <2> PICK new \in TotpRow :
             /\ new = TotpFactor(TRUE, now, BackupCodes)
             /\ new.verified /\ new.lastUsedStep = now
      BY <2>1
    <2>2. f \in Ids /\ factors[f] = new
      BY <1>4 DEF Init, Ids
    <2>3. now <= now
      BY <2>0
    <2> QED  BY <2>0, <2>2, <2>3 DEF Spent
  <1>5. CodesSpentOnce
    BY <1>3, <1>4, ProofsApart DEF CodesSpentOnce
  <1>6. ResponsesSpentOnce
    BY <1>3, ProofsApart DEF ResponsesSpentOnce
  <1>7. HeldApart /\ BurntApart
    BY <1>1, TaskFields DEF HeldApart, BurntApart, Answered, Held
  <1> QED  BY <1>0, <1>2, <1>5, <1>6, <1>7 DEF UseInv, SignedKnown, OneUse, Init

THEOREM UsesLast == Spec => []UseInv
  <1>1. Init => UseInv
    BY InitUse
  <1>2. UseInv /\ [Next]_vars => UseInv'
    <2>1. ASSUME UseInv, Next PROVE UseInv'
      <3>1. CrossedGrow /\ HeldApart'
        BY <2>1, CrossedRule
      <3> QED  BY <2>1, <3>1, RequestKeepsUse, AroundKeepsUse DEF Next
    <2>2. ASSUME UseInv, UNCHANGED vars PROVE UseInv'
      BY <2>2 DEF UseInv, Types, FactorsOK, OneUse, CodesSpentOnce,
             ResponsesSpentOnce, SignedKnown, HeldApart, BurntApart, Answered,
             UseOK, EnableOK, BurnOK, SpendOK, BurntOK, Spent, Consumed, vars,
             tables, history
    <2> QED  BY <2>1, <2>2
  <1> QED  BY <1>1, <1>2, PTL DEF Spec

\* No code, no backup code and no signed response is accepted twice, unless two
\* verifications held its factor or its challenge at once: not when the factor
\* is removed, replaced or activated between the read and the write, nor when
\* another challenge is asked for, nor when a request ends half way.
THEOREM ProofsPassOnce == Spec => []OneUse
  <1>1. UseInv => OneUse
    BY DEF UseInv
  <1> QED  BY <1>1, UsesLast, PTL
=============================================================================
