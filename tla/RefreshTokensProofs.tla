------------------------ MODULE RefreshTokensProofs ------------------------
(***************************************************************************)
(* Proofs about RefreshTokens and DataGateway, for every value of their     *)
(* constants.  Of RefreshTokens:                                            *)
(*                                                                         *)
(*   - type correctness;                                                   *)
(*   - FamilyCoherent, LineageBurned and DeadStaysDead for any             *)
(*     interleaving of requests;                                           *)
(*   - AtMostOneLive and KilledStaysDead when rotations of a family do not  *)
(*     overlap, and that the table then implements TokenFamily.            *)
(*                                                                         *)
(* And about DataGateway, where the tokens those rows renew are used:       *)
(*   - no statement runs on authority its caller lost before it came.       *)
(***************************************************************************)
EXTENDS RefreshTokens, DataGateway, TLAPS

LEMMA RowTypes ==
    /\ NoRow \notin Row
    /\ \A r \in Row : Revoked(r) \in Row /\ Burned(r) \in Row
    /\ \A r \in Row : Minted(r) \in Row
    /\ \A f \in Families, u \in Users, a \in Apps, s \in Sessions :
         NewRow(f, u, a, s) \in Row
  BY NoRowAssumption DEF Row, Revoked, Burned, Minted, NewRow

\* What the requests know of each other: every id in use has been drawn, and
\* a worker between two statements holds the row it read.
Bookkeeping ==
    /\ \A t \in Tokens : table[t] # NoRow =>
         /\ t \in tokensMade
         /\ table[t].family \in familiesMade
         /\ table[t].session \in sessionsMade
    /\ \A w \in Workers : snap[w] # NoRow =>
         /\ snap[w].family \in familiesMade
         /\ snap[w].session \in sessionsMade
    /\ \A w \in Workers :
         pc[w] \in {"reuse", "burn", "mint", "logout"} =>
           snap[w] # NoRow /\ tok[w] \in tokensMade
    /\ \A w \in Workers : pc[w] = "reply" => tok[w] \in tokensMade
    /\ \A w \in Workers : pc[w] \in {"idle", "reply"} => snap[w] = NoRow
    /\ \A t \in Tokens : parent[t] # NoToken => parent[t] \in tokensMade

Inv == TypeOK /\ Bookkeeping

\* Revoking a set of rows keeps the table's type, its ids and its lineage.
LEMMA RevokeRowsType ==
    ASSUME TypeOK, NEW S, RevokeRows(S)
    PROVE  /\ table' \in [Tokens -> Row \cup {NoRow}]
           /\ \A t \in Tokens : table'[t] = NoRow <=> table[t] = NoRow
           /\ \A t \in Tokens : table[t] # NoRow =>
                /\ table'[t].family = table[t].family
                /\ table'[t].user = table[t].user
                /\ table'[t].app = table[t].app
                /\ table'[t].session = table[t].session
                /\ table'[t].used = table[t].used
                /\ table[t].revoked => table'[t].revoked
                /\ table'[t].expired = table[t].expired
                /\ t \in S => table'[t].revoked
  <1>1. \A t \in Tokens : table[t] # NoRow => table[t] \in Row
    BY DEF TypeOK
  <1>2. \A r \in Row : /\ Revoked(r) \in Row
                       /\ Revoked(r).family = r.family
                       /\ Revoked(r).user = r.user
                       /\ Revoked(r).app = r.app
                       /\ Revoked(r).session = r.session
                       /\ Revoked(r).used = r.used
                       /\ Revoked(r).revoked
                       /\ Revoked(r).expired = r.expired
    BY DEF Row, Revoked
  <1>3. \A t \in Tokens :
          table'[t] = IF t \in S /\ table[t] # NoRow
                        THEN Revoked(table[t]) ELSE table[t]
    BY DEF RevokeRows, Rows
  <1>4. table' \in [Tokens -> Row \cup {NoRow}]
    BY <1>1, <1>2 DEF RevokeRows, Rows, TypeOK
  <1> QED
    BY <1>1, <1>2, <1>3, <1>4, RowTypes

LEMMA TypeInit == Init => Inv
  <1> SUFFICES ASSUME Init PROVE Inv
    OBVIOUS
  <1>1. TypeOK
    BY DEF Init, TypeOK, PCs
  <1>2. Bookkeeping
    BY DEF Init, Bookkeeping
  <1> QED  BY <1>1, <1>2 DEF Inv

\* The steps that only revoke rows, together: their effect on the bookkeeping.
LEMMA RevokeRowsInv ==
    ASSUME Inv, NEW S, RevokeRows(S),
           UNCHANGED <<tokensMade, familiesMade, sessionsMade, parent>>,
           \/ UNCHANGED <<pc, tok, snap>>
           \/ \E w \in Workers : Goto(w, "idle", NoToken, NoRow),
           known' = known, killed' \subseteq Families
    PROVE  Inv'
  <1>1. TypeOK'
    BY RevokeRowsType, RowTypes DEF Inv, TypeOK, Goto, PCs
  <1>2. Bookkeeping'
    BY RevokeRowsType DEF Inv, Bookkeeping, TypeOK, Goto, PCs
  <1> QED  BY <1>1, <1>2 DEF Inv

LEMMA TypeStep == Inv /\ [Next]_vars => Inv'
  <1> SUFFICES ASSUME Inv, [Next]_vars PROVE Inv'
    OBVIOUS
  <1> USE DEF Inv, dbVars, workerVars, historyVars
  <1>1. ASSUME NEW w \in Workers, NEW u \in Users, NEW a \in Apps,
               Login(w, u, a)
        PROVE  Inv'
    <2> PICK f \in Families, s \in Sessions, t \in Tokens :
          /\ table' = [table EXCEPT ![t] = NewRow(f, u, a, s)]
          /\ tokensMade' = tokensMade \cup {t}
          /\ familiesMade' = familiesMade \cup {f}
          /\ sessionsMade' = sessionsMade \cup {s}
          /\ Goto(w, "reply", t, NoRow)
      BY <1>1 DEF Login
    <2>1. NewRow(f, u, a, s) \in Row
      BY RowTypes
    <2>2. NewRow(f, u, a, s).family = f /\ NewRow(f, u, a, s).session = s
      BY DEF NewRow
    <2>3. TypeOK'
      BY <1>1, <2>1 DEF TypeOK, PCs, Login, Goto
    <2>4. Bookkeeping'
      BY <1>1, <2>2 DEF TypeOK, PCs, Bookkeeping, Login, Goto
    <2> QED  BY <2>3, <2>4
  <1>2. ASSUME NEW w \in Workers, NEW t \in Tokens, NEW label,
               label \in {"reuse", "burn"}, Present(w, t, label)
        PROVE  Inv'
    <2>1. t \in tokensMade /\ table[t] # NoRow /\ table[t] \in Row
      BY <1>2 DEF Present, Rows, TypeOK, Bookkeeping
    <2>2. TypeOK'
      BY <1>2, <2>1 DEF TypeOK, PCs, Present, Goto
    <2>3. Bookkeeping'
      BY <1>2, <2>1 DEF TypeOK, PCs, Bookkeeping, Present, Goto
    <2> QED  BY <2>2, <2>3
  <1>3. ASSUME NEW w \in Workers, NEW t \in Tokens, LogoutFind(w, t)
        PROVE  Inv'
    <2>1. t \in tokensMade /\ table[t] # NoRow /\ table[t] \in Row
      BY <1>3 DEF LogoutFind, Rows, TypeOK, Bookkeeping
    <2>2. TypeOK'
      BY <1>3, <2>1 DEF TypeOK, PCs, LogoutFind, Goto
    <2>3. Bookkeeping'
      BY <1>3, <2>1 DEF TypeOK, PCs, Bookkeeping, LogoutFind, Goto
    <2> QED  BY <2>2, <2>3
  <1>4. ASSUME NEW w \in Workers, KillFamily(w)
        PROVE  Inv'
    <2>1. snap[w].family \in Families
      BY <1>4, RowTypes DEF KillFamily, Bookkeeping, TypeOK, Row
    <2> QED
      BY <1>4, <2>1, RevokeRowsInv DEF KillFamily, TypeOK
  <1>5. ASSUME NEW w \in Workers, Burn(w)
        PROVE  Inv'
    <2>1. \A r \in Row : /\ Burned(r) \in Row
                         /\ Burned(r).family = r.family
                         /\ Burned(r).session = r.session
      BY RowTypes DEF Burned, Row
    <2>2. table' \in [Tokens -> Row \cup {NoRow}]
      BY <1>5, <2>1 DEF Burn, Rows, TypeOK
    <2>3. \A t \in Tokens : table'[t] = NoRow <=> table[t] = NoRow
      BY <1>5, <2>1, RowTypes DEF Burn, Rows, TypeOK
    <2>4. \A t \in Tokens : table[t] # NoRow =>
            /\ table'[t].family = table[t].family
            /\ table'[t].session = table[t].session
      BY <1>5, <2>1, RowTypes DEF Burn, Rows, TypeOK
    <2>5. TypeOK'
      BY <1>5, <2>2 DEF TypeOK, PCs, Burn
    <2>6. Bookkeeping'
      BY <1>5, <2>3, <2>4 DEF TypeOK, PCs, Bookkeeping, Burn
    <2> QED  BY <2>5, <2>6
  <1>6. ASSUME NEW w \in Workers, Mint(w)
        PROVE  Inv'
    <2> PICK t \in Tokens :
          /\ table' = [table EXCEPT ![t] = Minted(snap[w])]
          /\ tokensMade' = tokensMade \cup {t}
          /\ parent' = [parent EXCEPT ![t] = tok[w]]
          /\ Goto(w, "reply", t, NoRow)
      BY <1>6 DEF Mint
    <2>1. snap[w] \in Row /\ tok[w] \in tokensMade
      BY <1>6 DEF Mint, Bookkeeping, TypeOK
    <2>2. /\ Minted(snap[w]) \in Row
          /\ Minted(snap[w]).family = snap[w].family
          /\ Minted(snap[w]).session = snap[w].session
      BY <2>1, RowTypes DEF Minted, NewRow
    <2>3. TypeOK'
      BY <1>6, <2>1, <2>2 DEF TypeOK, PCs, Mint, Goto
    <2>4. Bookkeeping'
      BY <1>6, <2>1, <2>2, RowTypes DEF TypeOK, PCs, Bookkeeping, Mint, Goto
    <2> QED  BY <2>3, <2>4
  <1>7. ASSUME NEW w \in Workers, Reply(w)
        PROVE  Inv'
    <2>1. TypeOK'
      BY <1>7, NoTokenAssumption DEF TypeOK, PCs, Bookkeeping, Reply, Goto
    <2>2. Bookkeeping'
      BY <1>7 DEF TypeOK, PCs, Bookkeeping, Reply, Goto
    <2> QED  BY <2>1, <2>2
  <1>8. ASSUME NEW w \in Workers, Fail(w)
        PROVE  Inv'
    BY <1>8 DEF TypeOK, PCs, Bookkeeping, Fail, Goto
  <1>9. ASSUME NEW w \in Workers, LogoutSession(w)
        PROVE  Inv'
    <2>1. snap[w].family \in Families
      BY <1>9, RowTypes DEF LogoutSession, Bookkeeping, TypeOK, Row
    <2> QED
      BY <1>9, <2>1, RevokeRowsInv DEF LogoutSession, TypeOK
  <1>10. ASSUME NEW S, RevokeRows(S), Statement
         PROVE  Inv'
    BY <1>10, RevokeRowsInv DEF Statement, TypeOK
  <1>11. ASSUME NEW t \in Tokens, Expire(t)
         PROVE  Inv'
    <2> DEFINE q == [table[t] EXCEPT !.expired = TRUE]
    <2>1. /\ table[t] \in Row /\ q \in Row
          /\ q.family = table[t].family /\ q.session = table[t].session
      BY <1>11 DEF Expire, Rows, TypeOK, Row
    <2>2. table' = [table EXCEPT ![t] = q]
      BY <1>11 DEF Expire
    <2> HIDE DEF q
    <2>3. TypeOK'
      BY <1>11, <2>1, <2>2 DEF TypeOK, Expire, Statement
    <2>4. Bookkeeping'
      BY <1>11, <2>1, <2>2, RowTypes
      DEF TypeOK, Bookkeeping, Expire, Statement, Rows
    <2> QED  BY <2>3, <2>4
  <1>12. CASE PurgeExpired
    <2>1. TypeOK'
      BY <1>12 DEF TypeOK, PurgeExpired, Statement
    <2>2. Bookkeeping'
      BY <1>12 DEF TypeOK, Bookkeeping, PurgeExpired, Statement, Rows
    <2> QED  BY <2>1, <2>2
  <1>13. CASE UNCHANGED vars
    BY <1>13 DEF vars, TypeOK, Bookkeeping
  <1> QED
    BY <1>1, <1>2, <1>3, <1>4, <1>5, <1>6, <1>7, <1>8, <1>9, <1>10, <1>11,
       <1>12, <1>13
    DEF Next, Worker, Environment, PresentSpent, PresentLive, RevokeSession,
        RevokeAllForUser, RevokeOnApp

\* Every reachable state is well typed (TypeOK), and the ids in use are drawn.
THEOREM Typed == Spec => []Inv
  BY TypeInit, TypeStep, PTL DEF Spec

THEOREM TypeCorrect == Spec => []TypeOK
  BY Typed, PTL DEF Inv

-----------------------------------------------------------------------------
(* A step either starts one login with fresh ids, or every row it leaves in *)
(* the table or in a worker's hands copies the login of a row held before.  *)

SameIds(r, q) == /\ r.family = q.family /\ r.user = q.user
                 /\ r.app = q.app /\ r.session = q.session

Inherited(r) == \E q \in InHand : SameIds(r, q)

LEMMA InHandTyped ==
    ASSUME Inv
    PROVE  \A r \in InHand : /\ r \in Row
                             /\ r.family \in familiesMade
                             /\ r.session \in sessionsMade
  BY DEF Inv, TypeOK, Bookkeeping, InHand, Rows

LEMMA InHandNext ==
    ASSUME NEW r, r \in InHand'
    PROVE  \/ \E t \in Tokens : table'[t] # NoRow /\ r = table'[t]
           \/ \E w \in Workers : snap'[w] # NoRow /\ r = snap'[w]
  BY DEF InHand, Rows

LEMMA RevokeInherits ==
    ASSUME Inv, NEW S, RevokeRows(S),
           \A w \in Workers : snap'[w] = snap[w] \/ snap'[w] = NoRow
    PROVE  \A r \in InHand' : Inherited(r)
  BY RevokeRowsType, InHandNext DEF Inv, InHand, Inherited, SameIds, Rows

LEMMA Inherits ==
    ASSUME Inv, [Next]_vars
    PROVE  \/ \A r \in InHand' : Inherited(r)
           \/ \E f \in Families, s \in Sessions, u \in Users, a \in Apps :
                /\ FreshFamily(f) /\ FreshSession(s)
                /\ \A r \in InHand' :
                     r = NewRow(f, u, a, s) \/ Inherited(r)
  <1> USE DEF Inv, dbVars, workerVars, historyVars
  <1>0. \A r \in InHand : Inherited(r)
    BY DEF Inherited, SameIds
  <1>1. ASSUME NEW w \in Workers, NEW u \in Users, NEW a \in Apps,
               Login(w, u, a)
        PROVE  \E f \in Families, s \in Sessions :
                 /\ FreshFamily(f) /\ FreshSession(s)
                 /\ \A r \in InHand' :
                      r = NewRow(f, u, a, s) \/ Inherited(r)
    <2> PICK f \in Families, s \in Sessions, t \in Tokens :
          /\ FreshFamily(f) /\ FreshSession(s) /\ FreshToken(t)
          /\ table' = [table EXCEPT ![t] = NewRow(f, u, a, s)]
          /\ Goto(w, "reply", t, NoRow)
      BY <1>1 DEF Login
    <2>1. \A v \in Tokens : v # t => table'[v] = table[v]
      BY DEF TypeOK
    <2>2. \A v \in Workers : snap'[v] = snap[v] \/ snap'[v] = NoRow
      BY DEF Goto, TypeOK
    <2>3. table'[t] = NewRow(f, u, a, s)
      BY DEF TypeOK
    <2>4. ASSUME NEW r \in InHand'
          PROVE  r = NewRow(f, u, a, s) \/ r \in InHand
      BY <2>1, <2>2, <2>3, InHandNext DEF InHand, Rows
    <2> QED  BY <2>4, <1>0
  <1> DEFINE Old == \A r \in InHand' : Inherited(r)
  <1>2. ASSUME NEW w \in Workers, NEW t \in Tokens, NEW label,
               Present(w, t, label)
        PROVE  Old
    <2>1. \A v \in Workers : snap'[v] = snap[v] \/ snap'[v] = table[t]
      BY <1>2 DEF Present, Goto, TypeOK
    <2>2. \A r \in InHand' : r \in InHand
      BY <1>2, <2>1, InHandNext DEF Present, InHand, Rows
    <2> QED  BY <2>2, <1>0
  <1>3. ASSUME NEW w \in Workers, NEW t \in Tokens, LogoutFind(w, t)
        PROVE  Old
    <2>1. \A v \in Workers : snap'[v] = snap[v] \/ snap'[v] = table[t]
      BY <1>3 DEF LogoutFind, Goto, TypeOK
    <2>2. \A r \in InHand' : r \in InHand
      BY <1>3, <2>1, InHandNext DEF LogoutFind, InHand, Rows
    <2> QED  BY <2>2, <1>0
  <1>4. ASSUME NEW w \in Workers, KillFamily(w) \/ LogoutSession(w)
        PROVE  Old
    BY <1>4, RevokeInherits DEF KillFamily, LogoutSession, Goto, TypeOK
  <1>5. ASSUME NEW w \in Workers, Burn(w)
        PROVE  Old
    <2>1. \A r \in Row : SameIds(Burned(r), r)
      BY DEF SameIds, Burned, Row
    <2>2. \A t \in Tokens :
            \/ table'[t] = table[t]
            \/ table[t] # NoRow /\ table'[t] = Burned(table[t])
      <3>1. CASE tok[w] \in Rows
        BY <1>5, <3>1 DEF Burn, Rows, TypeOK
      <3>2. CASE tok[w] \notin Rows
        BY <1>5, <3>2 DEF Burn
      <3> QED  BY <3>1, <3>2
    <2>3. snap' = snap
      BY <1>5 DEF Burn
    <2>4. ASSUME NEW r \in InHand'
          PROVE  r \in InHand
                 \/ \E t \in Tokens : table[t] # NoRow /\ r = Burned(table[t])
      BY <2>2, <2>3, InHandNext DEF InHand, Rows
    <2>5. \A t \in Tokens : table[t] # NoRow =>
            table[t] \in InHand /\ table[t] \in Row
      BY DEF InHand, Rows, TypeOK
    <2> QED  BY <2>1, <2>4, <2>5, <1>0 DEF Inherited
  <1>6. ASSUME NEW w \in Workers, Mint(w)
        PROVE  Old
    <2> PICK t \in Tokens :
          /\ table' = [table EXCEPT ![t] = Minted(snap[w])]
          /\ Goto(w, "reply", t, NoRow)
      BY <1>6 DEF Mint
    <2>1. snap[w] # NoRow /\ snap[w] \in Row
      BY <1>6 DEF Mint, Bookkeeping, TypeOK
    <2>2. SameIds(Minted(snap[w]), snap[w])
      BY DEF Minted, NewRow, SameIds
    <2>3. \A v \in Workers : snap'[v] = snap[v] \/ snap'[v] = NoRow
      BY DEF Goto, TypeOK
    <2>4. \A v \in Tokens :
            table'[v] = table[v] \/ table'[v] = Minted(snap[w])
      BY DEF TypeOK
    <2>5. ASSUME NEW r \in InHand'
          PROVE  r \in InHand \/ r = Minted(snap[w])
      BY <2>3, <2>4, InHandNext DEF InHand, Rows
    <2>6. snap[w] \in InHand
      BY <2>1 DEF InHand
    <2> QED  BY <2>2, <2>5, <2>6, <1>0 DEF Inherited
  <1>7. ASSUME NEW w \in Workers, Reply(w) \/ Fail(w)
        PROVE  Old
    <2>1. \A v \in Workers : snap'[v] = snap[v] \/ snap'[v] = NoRow
      BY <1>7 DEF Reply, Fail, Goto, TypeOK
    <2>2. \A r \in InHand' : r \in InHand
      BY <1>7, <2>1, InHandNext DEF Reply, Fail, InHand, Rows
    <2> QED  BY <2>2, <1>0
  <1>8. ASSUME NEW S, RevokeRows(S), Statement
        PROVE  Old
    BY <1>8, RevokeInherits DEF Statement
  <1>9. ASSUME NEW t \in Tokens, Expire(t)
        PROVE  Old
    <2> DEFINE q == [table[t] EXCEPT !.expired = TRUE]
    <2>1. table[t] \in InHand /\ SameIds(q, table[t])
      BY <1>9 DEF Expire, Rows, InHand, TypeOK, SameIds, Row
    <2>2. table' = [table EXCEPT ![t] = q] /\ snap' = snap
      BY <1>9 DEF Expire, Statement
    <2> HIDE DEF q
    <2>3. ASSUME NEW r \in InHand'
          PROVE  r \in InHand \/ r = q
      BY <2>2, InHandNext DEF InHand, Rows, TypeOK
    <2> QED  BY <2>1, <2>3, <1>0 DEF Inherited
  <1>10. ASSUME PurgeExpired
         PROVE  Old
    <2>1. \A r \in InHand' : r \in InHand
      BY <1>10, InHandNext DEF PurgeExpired, Statement, InHand, Rows
    <2> QED  BY <2>1, <1>0
  <1>11. ASSUME UNCHANGED vars
         PROVE  Old
    <2>1. \A r \in InHand' : r \in InHand
      BY <1>11, InHandNext DEF vars, InHand, Rows
    <2> QED  BY <2>1, <1>0
  <1> HIDE DEF Old
  <1>12. ASSUME Environment
         PROVE  Old
    BY <1>12, <1>8, <1>9, <1>10
    DEF Environment, RevokeSession, RevokeAllForUser, RevokeOnApp
  <1>13. ASSUME NEW w \in Workers, Worker(w)
         PROVE  (\E u \in Users, a \in Apps : Login(w, u, a)) \/ Old
    BY <1>13, <1>2, <1>3, <1>4, <1>5, <1>6, <1>7
    DEF Worker, PresentSpent, PresentLive
  <1>14. CASE Old
    BY <1>14 DEF Old
  <1>15. CASE \E w \in Workers, u \in Users, a \in Apps : Login(w, u, a)
    <2> PICK w \in Workers, u \in Users, a \in Apps : Login(w, u, a)
      BY <1>15
    <2> QED  BY <1>1
  <1> QED  BY <1>11, <1>12, <1>13, <1>14, <1>15 DEF Next

LEMMA CoherentStep == Inv /\ FamilyCoherent /\ [Next]_vars => FamilyCoherent'
  <1> SUFFICES ASSUME Inv, FamilyCoherent, [Next]_vars,
                      NEW r \in InHand', NEW q \in InHand'
               PROVE  SameLogin(r, q)
    BY DEF FamilyCoherent, SameLogin
  <1>1. ASSUME Inherited(r), Inherited(q)
        PROVE  SameLogin(r, q)
    BY <1>1 DEF Inherited, SameIds, FamilyCoherent, SameLogin
  <1>2. ASSUME NEW f, NEW s, NEW u, NEW a, FreshFamily(f), FreshSession(s),
               \A x \in InHand' : x = NewRow(f, u, a, s) \/ Inherited(x)
        PROVE  SameLogin(r, q)
    <2>1. \A x : Inherited(x) => x.family # f /\ x.session # s
      BY <1>2, InHandTyped DEF Inherited, SameIds, FreshFamily, FreshSession
    <2>2. /\ NewRow(f, u, a, s).family = f
          /\ NewRow(f, u, a, s).session = s
      BY DEF NewRow
    <2> QED  BY <1>1, <1>2, <2>1, <2>2 DEF SameLogin
  <1>3. CASE \A x \in InHand' : Inherited(x)
    BY <1>1, <1>3
  <1> QED  BY <1>2, <1>3, Inherits

\* Rows and snapshots of one family carry one session, user and app, however
\* the requests interleave (FamilyCoherent).
THEOREM Coherent == Spec => []FamilyCoherent
  <1>1. Init => FamilyCoherent
    BY DEF Init, FamilyCoherent, InHand, Rows
  <1> QED  BY <1>1, CoherentStep, Typed, PTL DEF Spec

-----------------------------------------------------------------------------
(* How the rows of a step relate to the rows before it.                     *)

\* A row that survives a step keeps its family, and what was used, revoked or
\* expired stays so; a row that appears is a login's first or a replacement.
RowAges(t) ==
    /\ table'[t].family = table[t].family
    /\ table[t].used => table'[t].used
    /\ table[t].revoked => table'[t].revoked
    /\ table[t].expired => table'[t].expired

RowAppears(t) ==
    /\ t \notin tokensMade
    /\ \/ table'[t].family \notin familiesMade
       \/ \E w \in Workers : /\ pc[w] = "mint" /\ pc'[w] = "reply"
                             /\ table'[t].family = snap[w].family
                             /\ parent'[t] = tok[w]

LEMMA RowsNext ==
    ASSUME Inv, [Next]_vars, NEW t \in Tokens, table'[t] # NoRow
    PROVE  \/ table[t] # NoRow /\ RowAges(t)
           \/ table[t] = NoRow /\ RowAppears(t)
  <1> USE DEF Inv, dbVars, workerVars, historyVars
  <1> DEFINE Goal == \/ table[t] # NoRow /\ RowAges(t)
                     \/ table[t] = NoRow /\ RowAppears(t)
  <1>0. ASSUME table'[t] = table[t]
        PROVE  Goal
    BY <1>0 DEF RowAges
  <1>1. ASSUME NEW w \in Workers, NEW u \in Users, NEW a \in Apps,
               Login(w, u, a)
        PROVE  Goal
    BY <1>0, <1>1
    DEF Login, FreshToken, FreshFamily, NewRow, RowAppears, TypeOK, Bookkeeping
  <1>2. ASSUME NEW S, RevokeRows(S)
        PROVE  Goal
    BY <1>2, RevokeRowsType DEF RowAges
  <1>3. ASSUME NEW w \in Workers, Burn(w)
        PROVE  Goal
    <2>1. \A r \in Row :
            /\ Burned(r).family = r.family /\ Burned(r).used
            /\ Burned(r).revoked /\ Burned(r).expired = r.expired
      BY DEF Burned, Row
    <2>2. CASE tok[w] \in Rows /\ t = tok[w]
      BY <1>3, <2>1, <2>2 DEF Burn, RowAges, Rows, TypeOK
    <2>3. CASE tok[w] \notin Rows \/ t # tok[w]
      BY <1>0, <1>3, <2>3 DEF Burn, TypeOK
    <2> QED  BY <2>2, <2>3
  <1>4. ASSUME NEW w \in Workers, Mint(w)
        PROVE  Goal
    <2> PICK v \in Tokens :
          /\ FreshToken(v)
          /\ table' = [table EXCEPT ![v] = Minted(snap[w])]
          /\ parent' = [parent EXCEPT ![v] = tok[w]]
          /\ Goto(w, "reply", v, NoRow)
      BY <1>4 DEF Mint
    <2>1. CASE t # v
      BY <1>0, <2>1 DEF TypeOK
    <2>2. CASE t = v
      <3>1. table'[t].family = snap[w].family
        BY <2>2 DEF Minted, NewRow, TypeOK
      <3>2. parent'[t] = tok[w] /\ pc'[w] = "reply" /\ pc[w] = "mint"
        BY <1>4, <2>2 DEF TypeOK, Goto, Mint
      <3>3. table[t] = NoRow /\ t \notin tokensMade
        BY <2>2 DEF FreshToken, Bookkeeping
      <3> QED  BY <3>1, <3>2, <3>3 DEF RowAppears
    <2> QED  BY <2>1, <2>2
  <1>5. ASSUME NEW v \in Tokens, Expire(v)
        PROVE  Goal
    <2>1. CASE t # v
      BY <1>0, <1>5, <2>1 DEF Expire, TypeOK
    <2>2. CASE t = v
      BY <1>5, <2>2 DEF Expire, TypeOK, Rows, RowAges, Row
    <2> QED  BY <2>1, <2>2
  <1>6. ASSUME PurgeExpired
        PROVE  Goal
    BY <1>0, <1>6 DEF PurgeExpired
  <1>7. ASSUME NEW w \in Workers, NEW v \in Tokens, NEW label,
               Present(w, v, label) \/ LogoutFind(w, v) \/ Reply(w) \/ Fail(w)
        PROVE  Goal
    BY <1>0, <1>7 DEF Present, LogoutFind, Reply, Fail
  <1>8. ASSUME UNCHANGED vars
        PROVE  Goal
    BY <1>0, <1>8 DEF vars
  <1> HIDE DEF Goal
  <1>9. ASSUME NEW w \in Workers, Worker(w)
        PROVE  Goal
    <2>1. ASSUME Reply(w) \/ Fail(w)
          PROVE  Goal
      BY <1>7, <2>1
    <2> QED
      BY <1>9, <1>1, <1>2, <1>3, <1>4, <1>7, <2>1
      DEF Worker, PresentSpent, PresentLive, KillFamily, LogoutSession
  <1>10. ASSUME Environment
         PROVE  Goal
    BY <1>10, <1>2, <1>5, <1>6
    DEF Environment, RevokeSession, RevokeAllForUser, RevokeOnApp
  <1> QED  BY <1>8, <1>9, <1>10 DEF Next, Goal

\* What happens to a worker that is rotating: it started in this step from a
\* usable row, or from a spent one, or it was already at it.
WorkerStep(w) ==
    \/ /\ snap'[w] = snap[w] /\ tok'[w] = tok[w]
       /\ \/ pc'[w] = pc[w]
          \/ pc[w] = "burn" /\ pc'[w] = "mint" /\ Burn(w)
    \/ \E t \in Tokens :
         /\ pc[w] = "idle"
         /\ tok'[w] = t /\ table[t] # NoRow /\ snap'[w] = table[t]
         /\ UNCHANGED table
         /\ table[t].family \in Overlap \/ Rotating(table[t].family) = {}
         /\ \/ pc'[w] = "burn" /\ Usable(table[t])
            \/ pc'[w] = "reuse" /\ table[t].used

LEMMA WorkersNext ==
    ASSUME Inv, [Next]_vars, NEW w \in Workers,
           pc'[w] \in {"reuse", "burn", "mint"}
    PROVE  WorkerStep(w)
  <1> USE DEF Inv, dbVars, workerVars, historyVars
  <1>0. ASSUME pc'[w] = pc[w], snap'[w] = snap[w], tok'[w] = tok[w]
        PROVE  WorkerStep(w)
    BY <1>0 DEF WorkerStep
  <1>1. ASSUME NEW v \in Workers, NEW label, NEW t, NEW r,
               Goto(v, label, t, r), label \notin {"reuse", "burn", "mint"}
        PROVE  WorkerStep(w)
    BY <1>0, <1>1 DEF Goto, TypeOK
  <1>2. ASSUME NEW v \in Workers, NEW t \in Tokens,
               PresentSpent(v, t) \/ PresentLive(v, t)
        PROVE  WorkerStep(w)
    <2>1. CASE v # w
      BY <1>0, <1>2, <2>1 DEF PresentSpent, PresentLive, Present, Goto, TypeOK
    <2>2. CASE v = w
      BY <1>2, <2>2
      DEF PresentSpent, PresentLive, Present, Goto, TypeOK, WorkerStep, Rows
    <2> QED  BY <2>1, <2>2
  <1>3. ASSUME NEW v \in Workers, Burn(v)
        PROVE  WorkerStep(w)
    <2>1. CASE v # w
      BY <1>0, <1>3, <2>1 DEF Burn, TypeOK
    <2>2. CASE v = w
      BY <1>3, <2>2 DEF Burn, TypeOK, WorkerStep
    <2> QED  BY <2>1, <2>2
  <1>4. ASSUME NEW v \in Workers, Worker(v)
        PROVE  WorkerStep(w)
    BY <1>4, <1>1, <1>2, <1>3
    DEF Worker, Login, KillFamily, Mint, Reply, Fail, LogoutFind,
        LogoutSession
  <1>5. ASSUME Environment
        PROVE  WorkerStep(w)
    BY <1>0, <1>5 DEF Environment, RevokeSession, RevokeAllForUser,
                      RevokeOnApp, Expire, PurgeExpired, Statement
  <1> QED  BY <1>0, <1>4, <1>5 DEF Next, vars

-----------------------------------------------------------------------------
(* Lineage: a worker about to mint has burned its token, or the row is gone. *)

LineageInv ==
    /\ LineageBurned
    /\ \A w \in Workers :
         pc[w] = "mint" /\ tok[w] \in Rows => table[tok[w]].used

LEMMA ParentNext ==
    ASSUME Inv, [Next]_vars, NEW t \in Tokens
    PROVE  \/ parent'[t] = parent[t]
           \/ \E w \in Workers : pc[w] = "mint" /\ parent'[t] = tok[w]
  <1> USE DEF Inv, dbVars, workerVars, historyVars
  <1>1. ASSUME NEW w \in Workers, Mint(w)
        PROVE  \/ parent'[t] = parent[t]
               \/ pc[w] = "mint" /\ parent'[t] = tok[w]
    BY <1>1 DEF Mint, TypeOK
  <1>2. ASSUME NEW w \in Workers, Worker(w), ~Mint(w)
        PROVE  parent' = parent
    BY <1>2 DEF Worker, Login, PresentSpent, PresentLive, Present, KillFamily,
                Burn, Reply, Fail, LogoutFind, LogoutSession
  <1>3. ASSUME Environment
        PROVE  parent' = parent
    BY <1>3 DEF Environment, RevokeSession, RevokeAllForUser, RevokeOnApp,
                Expire, PurgeExpired, Statement
  <1> QED  BY <1>1, <1>2, <1>3 DEF Next, vars

LEMMA LineageStep == Inv /\ LineageInv /\ [Next]_vars => LineageInv'
  <1> SUFFICES ASSUME Inv, LineageInv, [Next]_vars PROVE LineageInv'
    OBVIOUS
  <1> USE DEF LineageInv, LineageBurned, Inv
  <1>1. \A p \in tokensMade : table'[p] # NoRow =>
          table[p] # NoRow /\ (table[p].used => table'[p].used)
    BY RowsNext DEF RowAges, RowAppears, TypeOK
  <1>2. ASSUME NEW t \in Tokens, parent'[t] # NoToken, parent'[t] \in Rows'
        PROVE  table'[parent'[t]].used
    <2>1. CASE parent'[t] = parent[t]
      BY <1>1, <1>2, <2>1 DEF Rows, Bookkeeping
    <2>2. ASSUME NEW w \in Workers, pc[w] = "mint", parent'[t] = tok[w]
          PROVE  table'[parent'[t]].used
      BY <1>1, <1>2, <2>2 DEF Rows, Bookkeeping
    <2> QED  BY <2>1, <2>2, ParentNext
  <1>3. ASSUME NEW w \in Workers, pc'[w] = "mint", tok'[w] \in Rows'
        PROVE  table'[tok'[w]].used
    <2>1. WorkerStep(w)
      BY <1>3, WorkersNext
    <2>2. CASE pc[w] = "mint" /\ tok'[w] = tok[w]
      BY <1>1, <1>3, <2>2 DEF Rows, Bookkeeping
    <2>3. CASE Burn(w)
      <3>1. \A r \in Row : Burned(r).used
        BY DEF Burned, Row
      <3>2. tok[w] \in Rows /\ table[tok[w]] \in Row
        BY <1>3, <2>3 DEF Burn, Rows, TypeOK
      <3> QED  BY <1>3, <2>3, <3>1, <3>2 DEF Burn, Rows, TypeOK
    <2> QED  BY <1>3, <2>1, <2>2, <2>3 DEF WorkerStep
  <1> QED  BY <1>2, <1>3

\* A token that has been replaced is used in every reachable state, so a
\* second presentation of it is always seen as reuse (LineageBurned).
THEOREM Lineage == Spec => []LineageBurned
  <1>1. Init => LineageInv
    BY DEF Init, LineageInv, LineageBurned, Rows
  <1>2. LineageInv => LineageBurned
    BY DEF LineageInv
  <1> QED  BY <1>1, <1>2, LineageStep, Typed, PTL DEF Spec

-----------------------------------------------------------------------------
(* A family that has ended stays ended.                                     *)

LEMMA FamiliesGrow ==
    ASSUME [Next]_vars PROVE familiesMade \subseteq familiesMade'
  <1> USE DEF dbVars, historyVars, workerVars
  <1>1. ASSUME NEW w \in Workers, Worker(w)
        PROVE  familiesMade \subseteq familiesMade'
    BY <1>1 DEF Worker, Login, PresentSpent, PresentLive, Present, KillFamily,
                Burn, Mint, Reply, Fail, LogoutFind, LogoutSession
  <1>2. ASSUME Environment
        PROVE  familiesMade' = familiesMade
    BY <1>2 DEF Environment, RevokeSession, RevokeAllForUser, RevokeOnApp,
                Expire, PurgeExpired, Statement
  <1> QED  BY <1>1, <1>2 DEF Next, vars

LEMMA DeadStep ==
    ASSUME Inv, [Next]_vars, NEW f \in Families, Dead(f) PROVE Dead(f)'
  <1> USE DEF Inv, Dead
  <1>1. f \in familiesMade'
    BY FamiliesGrow
  <1>2. ASSUME NEW t \in Live(f)' PROVE FALSE
    <2>1. /\ t \in Tokens /\ table'[t] # NoRow /\ table'[t].family = f
          /\ Usable(table'[t])
      BY <1>2 DEF Live, OfFamily, Rows
    <2>2. CASE table[t] # NoRow /\ RowAges(t)
      BY <2>1, <2>2 DEF RowAges, Usable, Live, OfFamily, Rows
    <2>3. CASE RowAppears(t)
      BY <2>1, <2>3 DEF RowAppears, Rotating
    <2> QED  BY <2>1, <2>2, <2>3, RowsNext
  <1>3. ASSUME NEW w \in Rotating(f)' PROVE pc'[w] = "reuse"
    <2>1. /\ w \in Workers /\ pc'[w] \in {"reuse", "burn", "mint"}
          /\ snap'[w].family = f
      BY <1>3 DEF Rotating
    <2>2. WorkerStep(w)
      BY <2>1, WorkersNext
    <2>3. CASE /\ snap'[w] = snap[w]
               /\ pc'[w] = pc[w] \/ pc[w] = "burn"
      BY <2>1, <2>3 DEF Rotating
    <2>4. CASE \E t \in Tokens : /\ table[t] # NoRow /\ snap'[w] = table[t]
                                 /\ pc'[w] = "reuse" \/ Usable(table[t])
      BY <2>1, <2>4 DEF Live, OfFamily, Rows
    <2> QED  BY <2>2, <2>3, <2>4 DEF WorkerStep
  <1> QED  BY <1>1, <1>2, <1>3

\* Nothing revives a family that holds no usable token and is not being
\* rotated: revocation, expiry, reuse detection and purge are final.
THEOREM DeadFinal == Spec => DeadStaysDead
  <1>1. Inv /\ [Next]_vars => [\A f \in Families : Dead(f) => Dead(f)']_vars
    BY DeadStep
  <1> QED  BY <1>1, Typed, PTL DEF Spec, DeadStaysDead

-----------------------------------------------------------------------------
(* Families whose rotations do not overlap.                                 *)

\* The rows of a family that have not been revoked, expired or not.
Held(f) == {t \in OfFamily(f) : ~table[t].revoked}

Calm == Families \ Overlap

SerialInv ==
    /\ \A f \in Calm : \A w, v \in Rotating(f) : w = v
    /\ \A f \in Calm : \A t, v \in Held(f) : t = v
    /\ \A w \in Workers : pc[w] = "burn" /\ snap[w].family \in Calm =>
         \A t \in Held(snap[w].family) : t = tok[w]
    /\ \A w \in Workers : pc[w] = "mint" /\ snap[w].family \in Calm =>
         Held(snap[w].family) = {}
    /\ \A f \in killed \ Overlap :
         /\ f \in familiesMade
         /\ Held(f) = {}
         /\ \A w \in Rotating(f) : pc[w] = "reuse"

\* A family gains an unrevoked row only by being born or by a mint.
LEMMA HeldNext ==
    ASSUME Inv, [Next]_vars, NEW f \in Families, NEW t \in Held(f)'
    PROVE  \/ t \in Held(f)
           \/ table[t] = NoRow /\ f \notin familiesMade
           \/ /\ table[t] = NoRow
              /\ \E w \in Rotating(f) : pc[w] = "mint" /\ pc'[w] = "reply"
  <1>1. t \in Tokens /\ table'[t] # NoRow /\ table'[t].family = f
          /\ ~table'[t].revoked
    BY DEF Held, OfFamily, Rows
  <1>2. CASE table[t] # NoRow /\ RowAges(t)
    BY <1>1, <1>2 DEF RowAges, Held, OfFamily, Rows
  <1>3. CASE table[t] = NoRow /\ RowAppears(t)
    BY <1>1, <1>3 DEF RowAppears, Rotating
  <1> QED  BY <1>1, <1>2, <1>3, RowsNext

\* A step inserts at most one row.
LEMMA OneRowAppears ==
    ASSUME Inv, [Next]_vars, NEW t \in Tokens, NEW v \in Tokens,
           table[t] = NoRow, table'[t] # NoRow,
           table[v] = NoRow, table'[v] # NoRow
    PROVE  t = v
  <1> USE DEF Inv, dbVars, workerVars, historyVars
  <1>1. ASSUME NEW x \in Tokens, NEW r, table' = [table EXCEPT ![x] = r]
        PROVE  t = v
    BY <1>1 DEF TypeOK
  <1>2. ASSUME NEW w \in Workers, Burn(w)
        PROVE  t = v
    BY <1>1, <1>2 DEF Burn, Rows
  <1>3. ASSUME NEW S, RevokeRows(S)
        PROVE  t = v
    BY <1>3, RevokeRowsType
  <1>4. ASSUME NEW w \in Workers, Worker(w)
        PROVE  t = v
    BY <1>4, <1>1, <1>2, <1>3
    DEF Worker, Login, PresentSpent, PresentLive, Present, KillFamily, Mint,
        Reply, Fail, LogoutFind, LogoutSession
  <1>5. ASSUME Environment
        PROVE  t = v
    <2>1. ASSUME PurgeExpired PROVE t = v
      BY <2>1 DEF PurgeExpired, Rows
    <2>2. ASSUME NEW x \in Tokens, Expire(x) PROVE t = v
      BY <2>2, <1>1 DEF Expire
    <2> QED
      BY <1>5, <1>3, <2>1, <2>2
      DEF Environment, RevokeSession, RevokeAllForUser, RevokeOnApp
  <1> QED  BY <1>4, <1>5 DEF Next, vars

\* Who rotates a family after a step: whoever did before, or one newcomer to
\* a family nobody was rotating.
LEMMA RotatingNext ==
    ASSUME Inv, [Next]_vars, NEW f \in Calm,
           NEW w \in Rotating(f)'
    PROVE  \/ /\ w \in Rotating(f)
              /\ snap'[w] = snap[w] /\ tok'[w] = tok[w]
              /\ \/ pc'[w] = pc[w]
                 \/ pc'[w] = "mint" /\ Burn(w)
           \/ /\ Rotating(f) = {} /\ UNCHANGED table
              /\ pc[w] = "idle" /\ snap'[w] = table[tok'[w]]
              /\ tok'[w] \in OfFamily(f)
              /\ \/ pc'[w] = "burn" /\ Usable(table[tok'[w]])
                 \/ pc'[w] = "reuse"
  <1>1. /\ w \in Workers /\ pc'[w] \in {"reuse", "burn", "mint"}
        /\ snap'[w].family = f
    BY DEF Rotating
  <1>2. WorkerStep(w)
    BY <1>1, WorkersNext
  <1> QED  BY <1>1, <1>2 DEF WorkerStep, Rotating, OfFamily, Rows, Calm

\* Two workers never start in the same step.
LEMMA OneStarts ==
    ASSUME Inv, [Next]_vars, NEW w \in Workers, NEW v \in Workers,
           pc[w] = "idle", pc'[w] # "idle", pc[v] = "idle", pc'[v] # "idle"
    PROVE  w = v
  <1> USE DEF Inv, dbVars, workerVars, historyVars
  <1>1. ASSUME NEW x \in Workers, NEW label, NEW t, NEW r,
               Goto(x, label, t, r)
        PROVE  w = v
    BY <1>1 DEF Goto, TypeOK
  <1>2. ASSUME NEW x \in Workers, Burn(x)
        PROVE  w = v
    BY <1>2 DEF Burn, TypeOK
  <1>3. ASSUME NEW x \in Workers, Worker(x)
        PROVE  w = v
    BY <1>3, <1>1, <1>2
    DEF Worker, Login, PresentSpent, PresentLive, Present, KillFamily, Mint,
        Reply, Fail, LogoutFind, LogoutSession
  <1>4. ASSUME Environment
        PROVE  w = v
    BY <1>4 DEF Environment, RevokeSession, RevokeAllForUser, RevokeOnApp,
                Expire, PurgeExpired, Statement
  <1> QED  BY <1>3, <1>4 DEF Next, vars

LEMMA SerialStep == Inv /\ SerialInv /\ [Next]_vars => SerialInv'
  <1> SUFFICES ASSUME Inv, SerialInv, [Next]_vars
               PROVE  SerialInv'
    OBVIOUS
  <1> USE DEF Calm
  <1>0. Inv'
    BY TypeStep
  <1>1. ASSUME NEW f \in Calm, NEW w \in Rotating(f)', NEW v \in Rotating(f)'
        PROVE  w = v
    <2>1. CASE w \in Rotating(f) /\ v \in Rotating(f)
      BY <2>1 DEF SerialInv
    <2>2. CASE Rotating(f) = {} /\ pc[w] = "idle" /\ pc[v] = "idle"
      BY <2>2, OneStarts DEF Rotating
    <2> QED  BY <2>1, <2>2, RotatingNext
  <1>2. ASSUME NEW f \in Calm, NEW t \in Held(f)', NEW v \in Held(f)'
        PROVE  t = v
    <2>1. t \in Tokens /\ table'[t] # NoRow /\ v \in Tokens /\ table'[v] # NoRow
      BY DEF Held, OfFamily, Rows
    <2>2. CASE table[t] = NoRow /\ table[v] = NoRow
      BY <2>1, <2>2, OneRowAppears
    <2>3. \A x \in Held(f) : f \in familiesMade /\ table[x] # NoRow
      BY DEF Held, OfFamily, Rows, Inv, Bookkeeping
    <2>4. \A w \in Rotating(f) : pc[w] = "mint" => Held(f) = {}
      BY DEF SerialInv, Rotating
    <2>5. CASE t \in Held(f) /\ v \in Held(f)
      BY <2>5 DEF SerialInv
    <2> QED  BY <2>2, <2>3, <2>4, <2>5, HeldNext
  <1>3. ASSUME NEW w \in Workers, pc'[w] = "burn",
               NEW f \in Calm, f = snap'[w].family, NEW t \in Held(f)'
        PROVE  t = tok'[w]
    <2>1. w \in Rotating(f)'
      BY <1>3 DEF Rotating
    <2>3. CASE /\ w \in Rotating(f)
               /\ snap'[w] = snap[w] /\ tok'[w] = tok[w]
               /\ pc[w] = "burn"
      <3>1. f \in familiesMade
        BY <1>3, <2>3 DEF Inv, Bookkeeping, Rotating
      <3>2. \A v \in Rotating(f) : v = w
        BY <2>1, <2>3 DEF SerialInv
      <3>3. t \in Held(f)
        BY <2>3, <3>1, <3>2, HeldNext
      <3> QED  BY <1>3, <2>3, <3>3 DEF SerialInv
    <2>4. CASE /\ Rotating(f) = {} /\ UNCHANGED table
               /\ tok'[w] \in OfFamily(f)
               /\ Usable(table[tok'[w]])
      <3>1. tok'[w] \in Held(f)
        BY <2>4 DEF Held, Usable
      <3>2. t \in Held(f)
        BY <2>4 DEF Held, OfFamily, Rows
      <3> QED  BY <2>1, <3>1, <3>2 DEF SerialInv
    <2>5. ~(pc'[w] = "mint") /\ ~(pc'[w] = "reuse")
      BY <1>3
    <2> QED  BY <1>3, <2>1, <2>3, <2>4, <2>5, RotatingNext
  <1>4. ASSUME NEW w \in Workers, pc'[w] = "mint",
               NEW f \in Calm, f = snap'[w].family, NEW t \in Held(f)'
        PROVE  FALSE
    <2>1. w \in Rotating(f)'
      BY <1>4 DEF Rotating
    <2>3. /\ w \in Rotating(f) /\ snap'[w] = snap[w] /\ tok'[w] = tok[w]
          /\ pc[w] = "mint" \/ Burn(w)
      BY <1>4, <2>1, RotatingNext
    <2>4. f \in familiesMade
      BY <2>3 DEF Rotating, Inv, Bookkeeping
    <2>5. \A v \in Rotating(f) : v = w
      BY <2>1, <2>3 DEF SerialInv
    <2>6. t \in Held(f)
      BY <1>4, <2>3, <2>4, <2>5, HeldNext
    <2>7. CASE pc[w] = "mint"
      BY <1>4, <2>3, <2>6, <2>7 DEF SerialInv
    <2>8. CASE Burn(w)
      <3>1. t = tok[w]
        BY <1>4, <2>3, <2>6, <2>8 DEF SerialInv, Burn
      <3>2. t \in Rows /\ table[t] \in Row
        BY <2>6 DEF Held, OfFamily, Rows, Inv, TypeOK
      <3>3. table'[t] = Burned(table[t])
        BY <2>8, <3>1, <3>2 DEF Burn, Rows, Inv, TypeOK
      <3>4. table'[t].revoked
        BY <3>2, <3>3 DEF Burned, Row
      <3> QED  BY <3>4 DEF Held
    <2> QED  BY <2>3, <2>7, <2>8
  <1>5. ASSUME NEW f \in killed \ Overlap, Held(f)' # {}
        PROVE  FALSE
    <2>1. f \in Families /\ f \in familiesMade /\ Held(f) = {}
            /\ \A w \in Rotating(f) : pc[w] = "reuse"
      BY DEF SerialInv, Inv, TypeOK
    <2> QED  BY <1>5, <2>1, HeldNext
  <1>6. ASSUME NEW f \in killed \ Overlap, NEW w \in Rotating(f)'
        PROVE  pc'[w] = "reuse"
    <2>1. f \in Families /\ Held(f) = {}
            /\ \A v \in Rotating(f) : pc[v] = "reuse"
      BY DEF SerialInv, Inv, TypeOK
    <2>2. \A x \in OfFamily(f) : ~Usable(table[x])
      BY <2>1 DEF Held, Usable
    <2>3. ~(w \in Rotating(f) /\ Burn(w))
      BY <2>1 DEF Burn
    <2> QED  BY <1>6, <2>1, <2>2, <2>3, RotatingNext
  <1>7. ASSUME NEW w \in Workers, KillFamily(w), NEW f, f = snap[w].family,
               f \notin Overlap
        PROVE  /\ f \in familiesMade
               /\ Held(f)' = {}
               /\ Rotating(f)' = {}
    <2>1. f \in Calm /\ f \in familiesMade /\ w \in Rotating(f)
      BY <1>7 DEF KillFamily, Inv, Bookkeeping, TypeOK, Row, Rotating
    <2>2. ASSUME NEW t \in Held(f)' PROVE FALSE
      <3>1. t \in OfFamily(f)
        BY <1>7, <2>2, RevokeRowsType
        DEF KillFamily, Inv, Held, OfFamily, Rows
      <3>2. table'[t].revoked
        BY <1>7, <3>1, RevokeRowsType DEF KillFamily, Inv, OfFamily, Rows
      <3> QED  BY <2>2, <3>2 DEF Held
    <2>3. pc'[w] = "idle"
      BY <1>7 DEF KillFamily, Goto, Inv, TypeOK
    <2>4. ASSUME NEW v \in Rotating(f)' PROVE FALSE
      <3>1. v \in Rotating(f)
        BY <2>1, <2>4, RotatingNext
      <3>2. w = v
        BY <2>1, <3>1 DEF SerialInv
      <3> QED  BY <2>3, <2>4, <3>2 DEF Rotating
    <2> QED  BY <2>1, <2>2, <2>4
  <1>8. \A f \in killed' :
          f \in killed \/ \E w \in Workers : KillFamily(w) /\ f = snap[w].family
    <2> USE DEF dbVars, historyVars, workerVars
    <2>1. ASSUME NEW w \in Workers, Worker(w), ~KillFamily(w)
          PROVE  killed' = killed
      BY <2>1 DEF Worker, Login, PresentSpent, PresentLive, Present, Burn, Mint,
                  Reply, Fail, LogoutFind, LogoutSession
    <2>2. ASSUME Environment
          PROVE  killed' = killed
      BY <2>2 DEF Environment, RevokeSession, RevokeAllForUser, RevokeOnApp,
                  Expire, PurgeExpired, Statement
    <2> QED  BY <2>1, <2>2 DEF Next, vars, KillFamily
  <1>9. ASSUME NEW f \in killed' \ Overlap
        PROVE  /\ f \in familiesMade'
               /\ Held(f)' = {}
               /\ \A w \in Rotating(f)' : pc'[w] = "reuse"
    <2>1. CASE f \in killed
      BY <2>1, <1>5, <1>6, FamiliesGrow DEF SerialInv
    <2>2. ASSUME NEW w \in Workers, KillFamily(w), f = snap[w].family
          PROVE  /\ f \in familiesMade'
                 /\ Held(f)' = {}
                 /\ Rotating(f)' = {}
      BY <2>2, <1>7, FamiliesGrow
    <2> QED  BY <2>1, <2>2, <1>8
  <1>11. \A w \in Workers : pc'[w] = "burn" /\ snap'[w].family \in Calm =>
           \A t \in Held(snap[w].family)' : t = tok'[w]
    BY <1>3 DEF Held, OfFamily, Rows
  <1>12. \A w \in Workers : pc'[w] = "mint" /\ snap'[w].family \in Calm =>
           Held(snap[w].family)' = {}
    BY <1>4 DEF Held, OfFamily, Rows
  <1> QED  BY <1>1, <1>2, <1>9, <1>11, <1>12 DEF SerialInv

LEMMA SerialInit == Init => SerialInv
  BY DEF Init, SerialInv, Rotating, Held, OfFamily, Rows, Calm

LEMMA HeldIsLive ==
    ASSUME SerialInv PROVE AtMostOneLive /\ KilledStaysDead
  BY DEF SerialInv, AtMostOneLive, KilledStaysDead, Held, Live, Usable, Calm

LEMMA Serial == Spec => [](Inv /\ SerialInv)
  <1>1. Inv /\ SerialInv /\ [Next]_vars => SerialInv'
    BY SerialStep
  <1> QED  BY <1>1, SerialInit, Typed, PTL DEF Spec

\* A login whose rotations do not overlap never has two usable refresh tokens.
THEOREM OneLive == Spec => []AtMostOneLive
  <1>1. SerialInv => AtMostOneLive
    BY HeldIsLive
  <1> QED  BY <1>1, Serial, PTL

\* For a login whose rotations do not overlap reuse detection is final: no
\* token of a family it revoked is ever usable again.
THEOREM KillFinal == Spec => []KilledStaysDead
  <1>1. SerialInv => KilledStaysDead
    BY HeldIsLive
  <1> QED  BY <1>1, Serial, PTL

-----------------------------------------------------------------------------
(* The calm logins implement TokenFamily.                                   *)

\* The two functions of the table that stand for TokenFamily's variables.
Holding == [f \in Families \ Overlap |-> Live(f)]

Turning ==
    {f \in Families \ Overlap : \E w \in Rotating(f) : pc[w] # "reuse"}

LEMMA FamilyInit == Init => Family!Init
  BY DEF Init, Family!Init, Live, OfFamily, Rows, Rotating

LEMMA TurningIff ==
    \A f : f \in Turning <=>
      /\ f \in Calm
      /\ \E w \in Workers : pc[w] \in {"burn", "mint"} /\ snap[w].family = f
  BY DEF Turning, Rotating, Calm

LEMMA TurningNext ==
    \A f : f \in Turning' <=>
      /\ f \in Calm
      /\ \E w \in Workers : pc'[w] \in {"burn", "mint"} /\ snap'[w].family = f
  BY DEF Turning, Rotating, Calm

\* A request that neither starts nor ends a rotation.
LEMMA NotTurning ==
    ASSUME TypeOK, NEW w \in Workers, NEW label, NEW t, NEW r,
           Goto(w, label, t, r),
           label \notin {"burn", "mint"}, pc[w] \notin {"burn", "mint"}
    PROVE  UNCHANGED Turning
  <1>1. \A v \in Workers :
          \/ pc'[v] = pc[v] /\ snap'[v] = snap[v]
          \/ pc'[v] \notin {"burn", "mint"} /\ pc[v] \notin {"burn", "mint"}
    BY DEF Goto, TypeOK
  <1>2. \A f : f \in Turning' <=> f \in Turning
    BY <1>1, TurningIff, TurningNext
  <1> QED  BY <1>2

\* A worker that leaves a rotation was the only one in a calm family.
LEMMA TurnEnds ==
    ASSUME Inv, SerialInv, NEW w \in Workers, NEW label, NEW t, NEW r,
           Goto(w, label, t, r),
           label \notin {"burn", "mint"}, pc[w] \in {"burn", "mint"}
    PROVE  Turning' = Turning \ {snap[w].family}
  <1>1. \A v \in Workers :
          /\ v # w => pc'[v] = pc[v] /\ snap'[v] = snap[v]
          /\ v = w => pc'[v] = label
    BY DEF Goto, Inv, TypeOK
  <1>2. \A v \in Workers :
          /\ snap[w].family \in Calm
          /\ pc[v] \in {"burn", "mint"} /\ snap[v].family = snap[w].family
          => v = w
    BY DEF SerialInv, Rotating
  <1> QED  BY <1>1, <1>2, TurningIff, TurningNext

\* A step that issues nothing leaves every calm family with what it held or
\* with nothing.
LEMMA LosesOnly ==
    ASSUME Inv, SerialInv, [Next]_vars, tokensMade' = tokensMade,
           NEW f \in Calm
    PROVE  Live(f)' = Live(f) \/ Live(f)' = {}
  <1>1. Inv'
    BY TypeStep
  <1>2. ASSUME NEW t \in Live(f)'
        PROVE  t \in Live(f)
    <2>1. /\ t \in Tokens /\ table'[t] # NoRow /\ table'[t].family = f
          /\ Usable(table'[t])
      BY <1>2 DEF Live, OfFamily, Rows
    <2>2. t \in tokensMade
      BY <1>1, <2>1 DEF Inv, Bookkeeping
    <2>3. table[t] # NoRow /\ RowAges(t)
      BY <2>1, <2>2, RowsNext DEF RowAppears
    <2> QED  BY <2>1, <2>3 DEF RowAges, Usable, Live, OfFamily, Rows
  <1>3. \A t, v \in Live(f) : t = v
    BY HeldIsLive DEF AtMostOneLive, Calm
  <1> QED  BY <1>2, <1>3

LEMMA Loses ==
    ASSUME Inv, SerialInv, [Next]_vars,
           UNCHANGED <<tokensMade, familiesMade>>, UNCHANGED Turning
    PROVE  Family!Next
  <1> DEFINE F == {f \in Families \ Overlap : Live(f)' = {}}
  <1>1. \A f \in Families \ Overlap :
          Live(f)' = IF f \in F THEN {} ELSE Live(f)
    BY LosesOnly DEF Calm
  <1>2. F \in SUBSET (Families \ Overlap)
    OBVIOUS
  <1> HIDE DEF F
  <1>3. Family!Lose(F)
    BY <1>1 DEF Family!Lose, Turning
  <1> QED  BY <1>2, <1>3 DEF Family!Next

\* The step draws a token for a family that is none of the calm ones.
LEMMA Elsewheres ==
    ASSUME NEW t \in Tokens, t \notin tokensMade,
           tokensMade' = tokensMade \cup {t},
           familiesMade' \ Overlap = familiesMade \ Overlap,
           UNCHANGED Holding, UNCHANGED Turning
    PROVE  Family!Next
  BY DEF Family!Next, Family!Elsewhere, Holding, Turning

\* A usable row is added to its family and to no other.
LEMMA RowInserted ==
    ASSUME Inv, NEW t \in Tokens, t \notin tokensMade,
           NEW row \in Row, Usable(row), table' = [table EXCEPT ![t] = row]
    PROVE  \A f : Live(f)' = IF f = row.family THEN Live(f) \cup {t}
                                               ELSE Live(f)
  <1>1. table[t] = NoRow
    BY DEF Inv, Bookkeeping
  <1>2. \A v \in Tokens : table'[v] = IF v = t THEN row ELSE table[v]
    BY DEF Inv, TypeOK
  <1>3. row # NoRow
    BY RowTypes
  <1>4. \A f : \A v \in Tokens :
          v \in Live(f)' <=> \/ v = t /\ f = row.family
                             \/ v \in Live(f)
    BY <1>1, <1>2, <1>3 DEF Live, OfFamily, Rows
  <1>5. \A f : Live(f) \subseteq Tokens /\ Live(f)' \subseteq Tokens
    BY DEF Live, OfFamily, Rows
  <1> QED  BY <1>4, <1>5

\* A sign-in starts a calm family, or draws a token elsewhere.
LEMMA LoginStarts ==
    ASSUME Inv, SerialInv, NEW w \in Workers, NEW u \in Users, NEW a \in Apps,
           Login(w, u, a)
    PROVE  Family!Next
  <1> PICK f \in Families, s \in Sessions, t \in Tokens :
        /\ FreshFamily(f) /\ FreshToken(t)
        /\ table' = [table EXCEPT ![t] = NewRow(f, u, a, s)]
        /\ tokensMade' = tokensMade \cup {t}
        /\ familiesMade' = familiesMade \cup {f}
        /\ Goto(w, "reply", t, NoRow)
    BY DEF Login
  <1> DEFINE row == NewRow(f, u, a, s)
  <1>1. row \in Row /\ row.family = f /\ Usable(row)
    BY RowTypes DEF NewRow, Usable
  <1>2. t \notin tokensMade /\ f \notin familiesMade
    BY DEF FreshToken, FreshFamily
  <1> HIDE DEF row
  <1>3. \A g : Live(g)' = IF g = f THEN Live(g) \cup {t} ELSE Live(g)
    BY <1>1, <1>2, RowInserted DEF row
  <1>4. Live(f) = {}
    BY <1>2 DEF Live, OfFamily, Rows, Inv, Bookkeeping
  <1>5. UNCHANGED Turning
    BY NotTurning DEF Login, Inv
  <1>6. CASE f \in Overlap
    <2>1. UNCHANGED Holding
      BY <1>3, <1>6 DEF Holding
    <2>2. familiesMade' \ Overlap = familiesMade \ Overlap
      BY <1>6
    <2> QED  BY <1>2, <1>5, <2>1, <2>2, Elsewheres
  <1>7. CASE f \in Families \ Overlap
    <2>1. Holding' = [Holding EXCEPT ![f] = {t}]
      BY <1>3, <1>4 DEF Holding
    <2>2. familiesMade' \ Overlap = (familiesMade \ Overlap) \cup {f}
      BY <1>7
    <2>3. f \notin familiesMade \ Overlap
      BY <1>2
    <2>4. Family!Start(f, t)
      BY <1>2, <1>5, <2>1, <2>2, <2>3 DEF Family!Start, Holding, Turning
    <2> QED  BY <1>7, <2>4 DEF Family!Next
  <1> QED  BY <1>6, <1>7

\* A mint replaces the token of a calm family, which holds none.
LEMMA MintReplaces ==
    ASSUME Inv, SerialInv, NEW w \in Workers, Mint(w)
    PROVE  Family!Next
  <1> PICK t \in Tokens :
        /\ FreshToken(t)
        /\ table' = [table EXCEPT ![t] = Minted(snap[w])]
        /\ tokensMade' = tokensMade \cup {t}
        /\ Goto(w, "reply", t, NoRow)
    BY DEF Mint
  <1> DEFINE row == Minted(snap[w])
             f == snap[w].family
  <1>1. pc[w] = "mint" /\ snap[w] \in Row /\ f \in Families
    BY DEF Mint, Inv, Bookkeeping, TypeOK, Row
  <1>2. row \in Row /\ row.family = f /\ Usable(row)
    BY <1>1, RowTypes DEF Minted, NewRow, Usable
  <1>3. t \notin tokensMade /\ familiesMade' = familiesMade
    BY DEF FreshToken, Mint
  <1> HIDE DEF row
  <1>4. \A g : Live(g)' = IF g = f THEN Live(g) \cup {t} ELSE Live(g)
    BY <1>2, <1>3, RowInserted DEF row
  <1>5. Turning' = Turning \ {f}
    BY <1>1, TurnEnds
  <1>6. CASE f \in Overlap
    <2>1. UNCHANGED Holding
      BY <1>4, <1>6 DEF Holding
    <2>2. UNCHANGED Turning
      BY <1>5, <1>6 DEF Turning
    <2> QED  BY <1>3, <2>1, <2>2, Elsewheres
  <1>7. CASE f \in Families \ Overlap
    <2>1. Live(f) = {}
      BY <1>1, <1>7 DEF SerialInv, Calm, Held, Live, Usable
    <2>2. Holding' = [Holding EXCEPT ![f] = {t}]
      BY <1>4, <2>1 DEF Holding
    <2>3. Holding[f] = {}
      BY <1>7, <2>1 DEF Holding
    <2>4. f \in Turning
      BY <1>1, <1>7, TurningIff DEF Calm
    <2> PICK g \in Families \ Overlap : g = f
      BY <1>7
    <2>5. Family!Replace(g, t)
      BY <1>3, <1>5, <2>2, <2>3, <2>4 DEF Family!Replace, Holding, Turning
    <2> QED  BY <2>5 DEF Family!Next
  <1> QED  BY <1>1, <1>6, <1>7

\* A presented token of a calm family begins its only rotation.
LEMMA PresentBegins ==
    ASSUME Inv, SerialInv, [Next]_vars,
           NEW w \in Workers, NEW t \in Tokens, PresentLive(w, t)
    PROVE  Family!Next
  <1> DEFINE f == table[t].family
  <1>1. /\ pc[w] = "idle" /\ t \in Rows /\ Usable(table[t])
        /\ f \in Overlap \/ Rotating(f) = {}
        /\ Goto(w, "burn", t, table[t])
        /\ UNCHANGED <<table, tokensMade, familiesMade>>
    BY DEF PresentLive, Present, dbVars
  <1>2. f \in Families /\ t \in Live(f)
    BY <1>1 DEF Rows, Inv, TypeOK, Row, Live, OfFamily
  <1>3. \A v \in Workers :
          /\ v # w => pc'[v] = pc[v] /\ snap'[v] = snap[v]
          /\ v = w => pc'[v] = "burn" /\ snap'[v] = table[t]
    BY <1>1 DEF Goto, Inv, TypeOK
  <1>4. \A g : g \in Turning' <=> g \in Turning \/ (g \in Calm /\ g = f)
    BY <1>1, <1>3, TurningIff, TurningNext
  <1>5. CASE f \in Overlap
    <2>1. UNCHANGED Turning
      BY <1>4, <1>5 DEF Calm
    <2> QED  BY <1>1, <2>1, Loses
  <1>6. CASE f \in Families \ Overlap
    <2>1. f \notin Turning /\ Turning' = Turning \cup {f}
      BY <1>1, <1>4, <1>6 DEF Turning, Calm
    <2>2. Holding[f] # {}
      BY <1>2, <1>6 DEF Holding
    <2>3. UNCHANGED Holding
      BY <1>1 DEF Holding, Live, OfFamily, Rows
    <2> PICK g \in Families \ Overlap : g = f
      BY <1>6
    <2>4. Family!Begin(g)
      BY <1>1, <2>1, <2>2, <2>3 DEF Family!Begin, Holding, Turning
    <2> QED  BY <2>4 DEF Family!Next
  <1> QED  BY <1>2, <1>5, <1>6

\* A request that fails between two statements of a rotation abandons it.
LEMMA FailAbandons ==
    ASSUME Inv, SerialInv, [Next]_vars, NEW w \in Workers, Fail(w)
    PROVE  Family!Next
  <1> DEFINE f == snap[w].family
  <1>1. /\ Goto(w, "idle", NoToken, NoRow)
        /\ UNCHANGED <<table, tokensMade, familiesMade>>
    BY DEF Fail, dbVars
  <1>2. CASE pc[w] \notin {"burn", "mint"}
    <2>1. UNCHANGED Turning
      BY <1>1, <1>2, NotTurning DEF Inv
    <2> QED  BY <1>1, <2>1, Loses
  <1>3. CASE pc[w] \in {"burn", "mint"}
    <2>1. Turning' = Turning \ {f}
      BY <1>1, <1>3, TurnEnds
    <2>2. UNCHANGED Holding
      BY <1>1 DEF Holding, Live, OfFamily, Rows
    <2>3. CASE f \in Turning
      <3> PICK g \in Families \ Overlap : g = f
        BY <2>3 DEF Turning
      <3>1. Family!Abandon(g)
        BY <1>1, <2>1, <2>2, <2>3 DEF Family!Abandon, Holding, Turning
      <3> QED  BY <3>1 DEF Family!Next
    <2>4. CASE f \notin Turning
      BY <1>1, <2>1, <2>4, Loses
    <2> QED  BY <2>3, <2>4
  <1> QED  BY <1>2, <1>3

LEMMA FamilyStep ==
    Inv /\ SerialInv /\ [Next]_vars => [Family!Next]_(Family!famVars)
  <1> SUFFICES ASSUME Inv, SerialInv, [Next]_vars
               PROVE  Family!Next \/ UNCHANGED Family!famVars
    OBVIOUS
  <1> USE DEF dbVars, historyVars
  <1>1. ASSUME NEW w \in Workers, KillFamily(w) \/ LogoutSession(w) \/ Reply(w)
        PROVE  Family!Next
    <2>1. /\ Goto(w, "idle", NoToken, NoRow) /\ pc[w] \notin {"burn", "mint"}
          /\ UNCHANGED <<tokensMade, familiesMade>>
      BY <1>1 DEF KillFamily, LogoutSession, Reply
    <2>2. UNCHANGED Turning
      BY <2>1, NotTurning DEF Inv
    <2> QED  BY <2>1, <2>2, Loses
  <1>2. ASSUME NEW w \in Workers, NEW t \in Tokens,
               PresentSpent(w, t) \/ LogoutFind(w, t)
        PROVE  Family!Next
    <2> PICK label \in {"reuse", "logout"} : Goto(w, label, t, table[t])
      BY <1>2 DEF PresentSpent, Present, LogoutFind
    <2>1. pc[w] = "idle" /\ UNCHANGED <<tokensMade, familiesMade>>
      BY <1>2 DEF PresentSpent, Present, LogoutFind
    <2>2. UNCHANGED Turning
      BY <2>1, NotTurning DEF Inv
    <2> QED  BY <2>1, <2>2, Loses
  <1>3. ASSUME NEW w \in Workers, Burn(w)
        PROVE  Family!Next
    <2>1. \A v \in Workers :
            /\ snap'[v] = snap[v]
            /\ pc[v] \in {"burn", "mint"} <=> pc'[v] \in {"burn", "mint"}
      BY <1>3 DEF Burn, Inv, TypeOK
    <2>2. \A f : f \in Turning' <=> f \in Turning
      BY <2>1, TurningIff, TurningNext
    <2>3. UNCHANGED Turning
      BY <2>2
    <2>4. UNCHANGED <<tokensMade, familiesMade>>
      BY <1>3 DEF Burn
    <2> QED  BY <2>3, <2>4, Loses
  <1>4. ASSUME Statement
        PROVE  Family!Next
    <2>1. UNCHANGED Turning
      BY <1>4 DEF Statement, workerVars, Turning, Rotating
    <2> QED  BY <1>4, <2>1, Loses DEF Statement
  <1>5. ASSUME NEW w \in Workers, Worker(w)
        PROVE  Family!Next
    <2>1. ASSUME Mint(w) PROVE Family!Next
      BY <2>1, MintReplaces
    <2>2. ASSUME Fail(w) PROVE Family!Next
      BY <2>2, FailAbandons
    <2>3. ASSUME NEW t \in Tokens, PresentLive(w, t) PROVE Family!Next
      BY <2>3, PresentBegins
    <2>4. ASSUME NEW u \in Users, NEW a \in Apps, Login(w, u, a)
          PROVE  Family!Next
      BY <2>4, LoginStarts
    <2>5. ASSUME KillFamily(w) \/ LogoutSession(w) \/ Reply(w)
          PROVE  Family!Next
      BY <2>5, <1>1
    <2> QED  BY <1>5, <1>2, <1>3, <2>1, <2>2, <2>3, <2>4, <2>5 DEF Worker
  <1>6. ASSUME Environment
        PROVE  Family!Next
    BY <1>6, <1>4 DEF Environment, RevokeSession, RevokeAllForUser,
                      RevokeOnApp, Expire, PurgeExpired
  <1>7. ASSUME UNCHANGED vars
        PROVE  UNCHANGED Family!famVars
    BY <1>7 DEF vars, Family!famVars, Live, OfFamily, Rows, Rotating, Usable
  <1> QED  BY <1>5, <1>6, <1>7 DEF Next

\* The table implements TokenFamily for the calm logins: seen from outside,
\* a login holds one usable token or none, replaces it one at a time, and once
\* it holds none and is not being rotated it has ended.
THEOREM FamiliesImplemented == Spec => FamilySpec
  <1> QED
    BY FamilyInit, FamilyStep, Serial, PTL DEF Spec, FamilySpec, Family!Spec

-----------------------------------------------------------------------------
(* DataGateway: authority that was lost before a request came *)

Kinds == {"absent", "permanent", "temporary", "expired"}
RequestPcs == {"member", "roles", "policies", "run", "done", "denied", "refused"}

\* A request in progress: what was asked, what it has read, what it touched.
Underway(x) ==
    /\ x = [pc |-> x.pc, q |-> x.q, read |-> x.read, touched |-> x.touched]
    /\ x.pc \in RequestPcs /\ x.q \in Requests

GatewayShape ==
    /\ grants \in [Subjects -> [Roles -> Kinds]]
    /\ scene \in Scenes
    /\ req = [c \in Callers |-> req[c]]
    /\ \A c \in Callers : req[c] \in {Idle, Refused} \/ Underway(req[c])

\* A user past the first check was a member; past the second, whoever asks
\* held the permission.
Checked(c) ==
    /\ req[c].pc \in {"roles", "policies", "run", "done", "denied"} /\ req[c].q.kind = "user" =>
         "member" \in seen[c]
    /\ req[c].pc \in {"policies", "run", "done", "denied"} => "permitted" \in seen[c]

GatewayInv == GatewayShape /\ \A c \in Callers : Checked(c)

LEMMA Pcs ==
    /\ Idle.pc = "idle" /\ Refused.pc = "refused"
    /\ \A x : Underway(x) => x.pc # "idle"
  BY DEF Idle, Refused, Underway, RequestPcs

\* The two readings of a grant agree: a live grant is one of the two kinds.
LEMMA LiveGrants ==
    ASSUME GatewayShape, NEW s \in Subjects
    PROVE  {r \in Roles : grants[s][r] \notin {"absent", "expired"}} = rolesOf(s)
  BY DEF GatewayShape, rolesOf, Kinds


\* Each handler of a request starts one, refuses one, frees its place or moves
\* one, and leaves what administrators edit alone.
LEMMA RequestMoves ==
    ASSUME GatewayShape, NEW c \in Callers, Request(c)
    PROVE  /\ UNCHANGED edited
           /\ \A d \in Callers \ {c} : req'[d] = req[d]
           /\ req' = [d \in Callers |-> req'[d]]
           /\ \/ req'[c] \in {Idle, Refused}
              \/ /\ req[c].pc = "idle" /\ Underway(req'[c])
                 /\ req'[c].pc = AfterArrival(req'[c].q)
              \/ /\ Underway(req[c]) /\ Underway(req'[c]) /\ req'[c].q = req[c].q
                 /\ \/ req[c].pc = "member" /\ req'[c].pc = "roles" /\ req[c].q.subject \in members["here"]
                    \/ req[c].pc = "roles" /\ req'[c].pc = "policies" /\ Permitted(req[c].q)
                    \/ req[c].pc = "policies" /\ req'[c].pc \in {"run", "denied", "refused"}
                    \/ req[c].pc = "run" /\ req'[c].pc = "done"
  <1>1. \A d \in Callers : req[d].pc # "idle" /\ req[d].pc # "refused" => Underway(req[d])
    BY DEF GatewayShape, Idle, Refused
  <1>2. CASE Arrive(c)
    <2>1. PICK q \in scene.requests : req' = [req EXCEPT ![c] =
            IF KeyMay(q) /\ parseQuerySpec(q.spec)
            THEN [pc |-> AfterArrival(q), q |-> q, read |-> {}, touched |-> {}] ELSE Refused]
      BY <1>2 DEF Arrive
    <2>2. q \in Requests
      BY GatewayAssumption DEF GatewayShape
    <2>3. AfterArrival(q) \in {"member", "roles"}
      BY DEF AfterArrival
    <2> QED
      BY <1>2, <2>1, <2>2, <2>3 DEF Arrive, GatewayShape, Underway, RequestPcs
  <1>3. CASE CheckMember(c)
    BY <1>1, <1>3 DEF CheckMember, GatewayShape, Underway, RequestPcs
  <1>4. CASE ReadRoles(c)
    BY <1>1, <1>4 DEF ReadRoles, GatewayShape, Underway, RequestPcs
  <1>5. CASE ReadPolicies(c)
    <2>1. \E next \in {"run", "denied", "refused"} : \E found :
            req' = [req EXCEPT ![c] = [@ EXCEPT !.read = found, !.pc = next]]
      BY <1>5 DEF ReadPolicies
    <2>2. PICK next \in {"run", "denied", "refused"} : \E found :
            req' = [req EXCEPT ![c] = [@ EXCEPT !.read = found, !.pc = next]]
      BY <2>1
    <2>. PICK found : req' = [req EXCEPT ![c] = [@ EXCEPT !.read = found, !.pc = next]]
      BY <2>2
    <2>3. Underway(req[c]) /\ req[c].pc = "policies" /\ UNCHANGED edited
      BY <1>1, <1>5 DEF ReadPolicies
    <2>4. req'[c] = [req[c] EXCEPT !.read = found, !.pc = next]
      BY DEF GatewayShape
    <2>a. req[c] = [pc |-> req[c].pc, q |-> req[c].q, read |-> req[c].read, touched |-> req[c].touched]
      BY <2>3 DEF Underway
    <2>5. req'[c] = [pc |-> next, q |-> req[c].q, read |-> found, touched |-> req[c].touched]
      BY ONLY <2>4, <2>a
    <2>6. Underway(req'[c]) /\ req'[c].q = req[c].q /\ req'[c].pc = next
      BY <2>3, <2>5 DEF Underway, RequestPcs
    <2> QED
      BY <2>3, <2>6 DEF GatewayShape
  <1>6. CASE Run(c)
    <2>1. \E ids : Finish(c, ids)
      BY <1>6 DEF Run, Select, Delete, Update, Insert
    <2> QED
      BY <1>1, <1>6, <2>1 DEF Run, Finish, GatewayShape, Underway, RequestPcs
  <1>7. CASE Leave(c)
    BY <1>7 DEF Leave, GatewayShape
  <1> QED
    BY <1>2, <1>3, <1>4, <1>5, <1>6, <1>7 DEF Request

LEMMA AssignedTyped ==
    ASSUME GatewayShape, NEW s, NEW r, NEW kind \in Kinds
    PROVE  Assigned(s, r, kind) \in [Subjects -> [Roles -> Kinds]]
  BY DEF Assigned, GatewayShape

\* Whatever administrators do, the grants keep their type and the requests in
\* progress are left alone.
LEMMA AdministrationMoves ==
    ASSUME GatewayShape, Administration
    PROVE  /\ grants' \in [Subjects -> [Roles -> Kinds]]
           /\ UNCHANGED <<scene, req>>
  <1> USE DEF GatewayShape, Kinds
  <1>1. ASSUME NEW d \in DOMAIN Drafts, CreatePolicy(d) \/ DeletePolicy(d) \/ \E b \in BOOLEAN : TogglePolicy(d, b)
        PROVE  UNCHANGED <<grants, scene, req>>
    BY <1>1 DEF CreatePolicy, DeletePolicy, TogglePolicy, Edit
  <1>2. ASSUME NEW s \in Subjects, NEW r \in Roles, NEW kind \in {"permanent", "temporary"}, AssignRole(s, r, kind)
        PROVE  grants' \in [Subjects -> [Roles -> Kinds]] /\ UNCHANGED <<scene, req>>
    BY <1>2, AssignedTyped DEF AssignRole, Edit
  <1>3. ASSUME NEW s \in Subjects, NEW r \in Roles, RevokeAssignment(s, r) \/ ExpireGrant(s, r)
        PROVE  grants' \in [Subjects -> [Roles -> Kinds]] /\ UNCHANGED <<scene, req>>
    BY <1>3 DEF RevokeAssignment, ExpireGrant, Edit
  <1>4. ASSUME NEW r \in Roles, setDefaultRole(r)
        PROVE  UNCHANGED <<grants, scene, req>>
    BY <1>4 DEF setDefaultRole, Edit
  <1>5. ASSUME NEW u \in People, offboardUser(u)
        PROVE  grants' \in [Subjects -> [Roles -> Kinds]] /\ UNCHANGED <<scene, req>>
    BY <1>5 DEF offboardUser, Edit
  <1>6. ASSUME NEW h \in Handlers, assignDefaultRole(h)
        PROVE  grants' \in [Subjects -> [Roles -> Kinds]] /\ UNCHANGED <<scene, req>>
    BY <1>6, AssignedTyped DEF assignDefaultRole
  <1> QED
    BY <1>1, <1>2, <1>3, <1>4, <1>5, <1>6 DEF Administration

LEMMA ShapeStep == GatewayShape /\ [GatewayNext]_gatewayVars => GatewayShape'
  <1> SUFFICES ASSUME GatewayShape, [GatewayNext]_gatewayVars PROVE GatewayShape'
    OBVIOUS
  <1>1. ASSUME NEW c \in Callers, Request(c) PROVE GatewayShape'
    <2>1. UNCHANGED <<grants, scene>>
      BY <1>1, RequestMoves DEF edited
    <2>2. req'[c] \in {Idle, Refused} \/ Underway(req'[c])
      BY <1>1, RequestMoves
    <2>3. /\ \A d \in Callers \ {c} : req'[d] = req[d]
          /\ req' = [d \in Callers |-> req'[d]]
      BY <1>1, RequestMoves
    <2> QED
      BY <2>1, <2>2, <2>3 DEF GatewayShape, Underway
  <1>2. CASE Administration
    BY <1>2, AdministrationMoves DEF GatewayShape, Underway
  <1>3. CASE UNCHANGED gatewayVars
    BY <1>3 DEF gatewayVars, edited, GatewayShape, Underway
  <1> QED
    BY <1>1, <1>2, <1>3 DEF GatewayNext

\* What a request has been seen to hold stays seen while it is in progress.
LEMMA CheckedStep == GatewayInv /\ [GatewayNext]_gatewayVars => \A c \in Callers : Checked(c)'
  <1> SUFFICES ASSUME GatewayInv, [GatewayNext]_gatewayVars, NEW c \in Callers PROVE Checked(c)'
    OBVIOUS
  <1>a. GatewayShape /\ Checked(c)
    BY DEF GatewayInv
  <1>1. ASSUME req'[c] = req[c], GatewayNext PROVE Checked(c)'
    <2>1. req[c].pc # "idle" => seen[c] \subseteq seen'[c]
      BY <1>1 DEF GatewayNext
    <2> QED
      BY <1>a, <1>1, <2>1 DEF Checked
  <1>2. ASSUME NEW d \in Callers, Request(d), GatewayNext PROVE Checked(c)'
    <2>1. CASE d # c
      BY <1>a, <1>1, <1>2, <2>1, RequestMoves
    <2>2. CASE d = c
      <3>1. UNCHANGED <<grants, members>>
        BY <1>a, <1>2, RequestMoves DEF edited, memberVars
      <3>2. seen'[c] = (IF req[c].pc = "idle" THEN {} ELSE seen[c]) \cup Authority(c)'
        BY <1>2 DEF GatewayNext
      <3>3. CASE req'[c] \in {Idle, Refused}
        BY <3>3 DEF Checked, Idle, Refused
      <3>4. CASE req[c].pc = "idle" /\ Underway(req'[c]) /\ req'[c].pc = AfterArrival(req'[c].q)
        BY <3>4 DEF Checked, AfterArrival
      <3>5. CASE ~(req'[c] \in {Idle, Refused}) /\ ~(req[c].pc = "idle" /\ Underway(req'[c]) /\ req'[c].pc = AfterArrival(req'[c].q))
        <4>0. Underway(req[c]) /\ Underway(req'[c]) /\ req'[c].q = req[c].q
          BY <1>a, <1>2, <2>2, <3>5, RequestMoves
        <4>1. seen[c] \subseteq seen'[c]
          BY <3>2, <4>0, Pcs
        <4>2. CASE req[c].pc = "member" /\ req'[c].pc = "roles" /\ req[c].q.subject \in members["here"]
          <5>1. "member" \in Authority(c)'
            BY <3>1, <4>0, <4>2 DEF Authority
          <5> QED
            BY <3>2, <4>2, <5>1 DEF Checked
        <4>3. CASE req[c].pc = "roles" /\ req'[c].pc = "policies" /\ Permitted(req[c].q)
          <5>1. req[c].q.subject \in Subjects
            BY <4>0 DEF Underway, Subjects
          <5>2. {r \in Roles : grants[req[c].q.subject][r] \notin {"absent", "expired"}} = rolesOf(req[c].q.subject)
            BY <1>a, <5>1, LiveGrants
          <5>3. "permitted" \in Authority(c)'
            BY <3>1, <4>0, <4>3, <5>2 DEF Authority, Permitted, effectivePermissions
          <5> QED
            BY <1>a, <3>2, <4>0, <4>1, <4>3, <5>3 DEF Checked
        <4>4. CASE req[c].pc = "policies" /\ req'[c].pc \in {"run", "denied", "refused"}
          BY <1>a, <4>0, <4>1, <4>4 DEF Checked
        <4>5. CASE req[c].pc = "run" /\ req'[c].pc = "done"
          BY <1>a, <4>0, <4>1, <4>5 DEF Checked
        <4> QED
          BY <1>a, <1>2, <2>2, <3>5, <4>2, <4>3, <4>4, <4>5, RequestMoves
      <3> QED
        BY <1>a, <1>2, <2>2, <3>3, <3>4, <3>5, RequestMoves
    <2> QED
      BY <2>1, <2>2
  <1>3. CASE Administration /\ GatewayNext
    BY <1>a, <1>1, <1>3, AdministrationMoves
  <1>4. CASE UNCHANGED gatewayVars
    BY <1>a, <1>4 DEF gatewayVars, Checked
  <1> QED
    BY <1>2, <1>3, <1>4 DEF GatewayNext

LEMMA GatewayStarts == GatewayInit => GatewayInv
  BY DEF GatewayInit, GatewayInv, GatewayShape, Checked, Kinds, Idle

\* However edits, sign-ins and removals land between the statements of a
\* request, whoever runs one was a member and held the permission by a live
\* grant at some moment after the request came (data/[resource]/route.ts,
\* access.ts): stated for any roles, requests, people and number of callers.
THEOREM NobodyActsOnLostAuthority == GatewaySpec => []NoStaleAuthority
  <1>1. GatewayInv /\ [GatewayNext]_gatewayVars => GatewayInv'
    BY ShapeStep, CheckedStep DEF GatewayInv
  <1>2. GatewayInv => NoStaleAuthority
    BY DEF GatewayInv, Checked, NoStaleAuthority
  <1> QED
    BY GatewayStarts, <1>1, <1>2, PTL DEF GatewaySpec
=============================================================================
