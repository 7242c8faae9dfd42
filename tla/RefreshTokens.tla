--------------------------- MODULE RefreshTokens ---------------------------
(***************************************************************************)
(* The refresh-token table and the requests that read and write it:         *)
(* packages/db/src/queries/refresh-tokens.ts, reached through               *)
(* packages/auth/src/tokens.ts and the routes /api/v1/auth/token, /refresh  *)
(* and /revoke.                                                            *)
(*                                                                         *)
(* Nothing in this path runs in a database transaction, so each SQL         *)
(* statement is a step of its own and a worker (one request being served)   *)
(* keeps the row it read in `snap` between its statements.                  *)
(***************************************************************************)
CONSTANTS
    Users, Apps,      \* ids that exist before any login
    Sessions,         \* session ids: randomUUID() in the token route
    Families,         \* family ids: randomUUID() in generateRefreshToken
    Tokens,           \* raw tokens: 32 random bytes; the hash is one-to-one
    Workers,          \* requests that may be served at the same time
    NoRow, NoToken,   \* "no such row", "no token"
    Overlap           \* the families whose rotations may overlap

ASSUME NoRowAssumption == NoRow \notin
    [family : Families, user : Users, app : Apps, session : Sessions,
     used : BOOLEAN, revoked : BOOLEAN, expired : BOOLEAN]
ASSUME NoTokenAssumption == NoToken \notin Tokens
ASSUME OverlapAssumption == Overlap \subseteq Families

VARIABLES
    table,            \* infra_refresh_tokens, keyed by token
    tokensMade,       \* random ids are never drawn twice, purged or not
    familiesMade,
    sessionsMade,
    known,            \* raw tokens that reached a client
    pc, tok, snap,    \* per worker: next statement, token, row it read
    parent,           \* history: the token each token was minted from
    killed            \* history: families whose reuse was detected and revoked

dbVars == <<table, tokensMade, familiesMade, sessionsMade>>
workerVars == <<pc, tok, snap>>
historyVars == <<parent, killed>>
vars == <<table, tokensMade, familiesMade, sessionsMade, known,
          pc, tok, snap, parent, killed>>

\* used_at, revoked_at and expires_at as the tests the code makes of them.
Row == [family : Families, user : Users, app : Apps, session : Sessions,
        used : BOOLEAN, revoked : BOOLEAN, expired : BOOLEAN]

PCs == {"idle", "reuse", "burn", "mint", "reply", "logout"}

Rows == {t \in Tokens : table[t] # NoRow}

\* The checks of rotateRefreshToken after the reuse check.
Usable(row) == ~row.used /\ ~row.revoked /\ ~row.expired

\* Mutant: the burn is lost.
NotBurned(row) == row

Revoked(row) == [row EXCEPT !.revoked = TRUE]
Burned(row) == [row EXCEPT !.used = TRUE, !.revoked = TRUE]

\* The row issueRefreshToken inserts.
NewRow(f, u, a, s) ==
    [family |-> f, user |-> u, app |-> a, session |-> s,
     used |-> FALSE, revoked |-> FALSE, expired |-> FALSE]

\* A rotation copies the login from the row it read, not from the table.
Minted(row) == NewRow(row.family, row.user, row.app, row.session)

\* UPDATE ... SET revoked_at WHERE <in S> AND revoked_at IS NULL.
RevokeRows(S) ==
    table' = [t \in Tokens |->
                IF t \in S /\ t \in Rows THEN Revoked(table[t]) ELSE table[t]]

OfFamily(f)  == {t \in Rows : table[t].family = f}
OfSession(s) == {t \in Rows : table[t].session = s}
OfUser(u)    == {t \in Rows : table[t].user = u}
Live(f)      == {t \in OfFamily(f) : Usable(table[t])}

\* Workers that are rotating a token of family f or killing the family.
Rotating(f) ==
    {w \in Workers : pc[w] \in {"reuse", "burn", "mint"} /\ snap[w].family = f}

FreshToken(t)   == t \notin tokensMade
FreshSession(s) == s \notin sessionsMade
FreshFamily(f)  == f \notin familiesMade

-----------------------------------------------------------------------------
Init ==
    /\ table = [t \in Tokens |-> NoRow]
    /\ tokensMade = {} /\ familiesMade = {} /\ sessionsMade = {}
    /\ known = {}
    /\ pc = [w \in Workers |-> "idle"]
    /\ tok = [w \in Workers |-> NoToken]
    /\ snap = [w \in Workers |-> NoRow]
    /\ parent = [t \in Tokens |-> NoToken]
    /\ killed = {}

Goto(w, label, t, row) ==
    /\ pc' = [pc EXCEPT ![w] = label]
    /\ tok' = [tok EXCEPT ![w] = t]
    /\ snap' = [snap EXCEPT ![w] = row]

\* POST /auth/token, password grant: one insert starts a family.
Login(w, u, a) ==
    /\ pc[w] = "idle"
    /\ \E f \in Families, s \in Sessions, t \in Tokens :
         /\ FreshFamily(f) /\ FreshSession(s) /\ FreshToken(t)
         /\ table' = [table EXCEPT ![t] = NewRow(f, u, a, s)]
         /\ tokensMade' = tokensMade \cup {t}
         /\ familiesMade' = familiesMade \cup {f}
         /\ sessionsMade' = sessionsMade \cup {s}
         /\ Goto(w, "reply", t, NoRow)
    /\ UNCHANGED <<known, historyVars>>

\* The SELECT of rotateRefreshToken and the checks on the row it returned.
\* A token with no row, a revoked one or an expired one is refused with no
\* change of state.
Present(w, t, label) ==
    /\ pc[w] = "idle"
    /\ t \in known /\ t \in Rows
    /\ table[t].family \in Overlap \/ Rotating(table[t].family) = {}
    /\ Goto(w, label, t, table[t])
    /\ UNCHANGED <<dbVars, known, historyVars>>

\* Mutant: revoked_at is not looked at.
PresentRevoked(w, t) ==
    Present(w, t, "burn") /\ ~table[t].used /\ ~table[t].expired

PresentSpent(w, t) == Present(w, t, "reuse") /\ table[t].used
PresentLive(w, t)  == Present(w, t, "burn") /\ Usable(table[t])

\* The token was used before: revokeFamily, then the error reply.
KillFamily(w) ==
    /\ pc[w] = "reuse"
    /\ RevokeRows(OfFamily(snap[w].family))
    /\ killed' = killed \cup {snap[w].family}
    /\ Goto(w, "idle", NoToken, NoRow)
    /\ UNCHANGED <<tokensMade, familiesMade, sessionsMade, known, parent>>

\* UPDATE ... WHERE id: no test of used_at, and no row if it was purged.
Burn(w) ==
    /\ pc[w] = "burn"
    /\ table' = IF tok[w] \in Rows
                  THEN [table EXCEPT ![tok[w]] = Burned(@)] ELSE table
    /\ pc' = [pc EXCEPT ![w] = "mint"]
    /\ UNCHANGED <<tokensMade, familiesMade, sessionsMade, known, tok, snap,
                   historyVars>>

Mint(w) ==
    /\ pc[w] = "mint"
    /\ \E t \in Tokens :
         /\ FreshToken(t)
         /\ table' = [table EXCEPT ![t] = Minted(snap[w])]
         /\ tokensMade' = tokensMade \cup {t}
         /\ parent' = [parent EXCEPT ![t] = tok[w]]
         /\ Goto(w, "reply", t, NoRow)
    /\ UNCHANGED <<familiesMade, sessionsMade, known, killed>>

\* The access token is signed and the pair reaches the client.
Reply(w) ==
    /\ pc[w] = "reply"
    /\ known' = known \cup {tok[w]}
    /\ Goto(w, "idle", NoToken, NoRow)
    /\ UNCHANGED <<dbVars, historyVars>>

\* A statement throws, the function is killed, or the answer is lost.
Fail(w) ==
    /\ pc[w] # "idle"
    /\ Goto(w, "idle", NoToken, NoRow)
    /\ UNCHANGED <<dbVars, known, historyVars>>

\* POST /auth/revoke {refreshToken}: findRefreshTokenByHash ...
LogoutFind(w, t) ==
    /\ pc[w] = "idle"
    /\ t \in known /\ t \in Rows
    /\ Goto(w, "logout", t, table[t])
    /\ UNCHANGED <<dbVars, known, historyVars>>

\* ... then revokeSession on the session of the row found.
LogoutSession(w) ==
    /\ pc[w] = "logout"
    /\ RevokeRows(OfSession(snap[w].session))
    /\ Goto(w, "idle", NoToken, NoRow)
    /\ UNCHANGED <<tokensMade, familiesMade, sessionsMade, known, parent,
                   killed>>

\* Statements that are one step by themselves.
Statement == UNCHANGED <<tokensMade, familiesMade, sessionsMade, known,
                         workerVars, historyVars>>

\* POST /auth/revoke {sessionId}.
RevokeSession(s) ==
    /\ s \in sessionsMade
    /\ RevokeRows(OfSession(s))
    /\ Statement

\* {allSessions}, a completed password reset, offboardUser, suspendUser.
RevokeAllForUser(u) == RevokeRows(OfUser(u)) /\ Statement

\* transferMembership: the tokens of one user on one app.
RevokeOnApp(u, a) ==
    /\ RevokeRows({t \in OfUser(u) : table[t].app = a})
    /\ Statement

\* expires_at passes.
Expire(t) ==
    /\ t \in Rows /\ ~table[t].expired
    /\ table' = [table EXCEPT ![t].expired = TRUE]
    /\ Statement

PurgeExpired ==
    /\ table' = [t \in Tokens |->
                   IF t \in Rows /\ table[t].expired THEN NoRow ELSE table[t]]
    /\ Statement

Worker(w) ==
    \/ \E u \in Users, a \in Apps : Login(w, u, a)
    \/ \E t \in Tokens : PresentSpent(w, t) \/ PresentLive(w, t)
                           \/ LogoutFind(w, t)
    \/ KillFamily(w) \/ Burn(w) \/ Mint(w) \/ Reply(w) \/ Fail(w)
    \/ LogoutSession(w)

Environment ==
    \/ \E s \in Sessions : RevokeSession(s)
    \/ \E u \in Users : RevokeAllForUser(u)
    \/ \E u \in Users, a \in Apps : RevokeOnApp(u, a)
    \/ \E t \in Tokens : Expire(t)
    \/ PurgeExpired

Next == (\E w \in Workers : Worker(w)) \/ Environment

Spec == Init /\ [][Next]_vars

-----------------------------------------------------------------------------
(* Properties *)

\* Every variable has its type, and an idle worker holds nothing.
TypeOK ==
    /\ table \in [Tokens -> Row \cup {NoRow}]
    /\ tokensMade \subseteq Tokens
    /\ familiesMade \subseteq Families
    /\ sessionsMade \subseteq Sessions
    /\ known \subseteq Tokens
    /\ pc \in [Workers -> PCs]
    /\ tok \in [Workers -> Tokens \cup {NoToken}]
    /\ snap \in [Workers -> Row \cup {NoRow}]
    /\ parent \in [Tokens -> Tokens \cup {NoToken}]
    /\ killed \subseteq Families

\* The rows that exist in the table or in the hands of a worker.
InHand == {table[t] : t \in Rows} \cup
          {snap[w] : w \in {v \in Workers : snap[v] # NoRow}}

SameLogin(r, q) ==
    /\ (r.family = q.family) <=> (r.session = q.session)
    /\ r.family = q.family => r.user = q.user /\ r.app = q.app

\* Revoking by family, by session or by user selects whole logins: no
\* rotation ever moves a token to another family, session, user or app, so
\* revokeSession in the revoke route ends what revokeFamily would end.
FamilyCoherent == \A r, q \in InHand : SameLogin(r, q)

\* A replacement exists only if the token it replaces is burned (or its row
\* was purged): the "burn first, then mint" order of rotateRefreshToken under
\* every interleaving, so a replay of the parent is always seen as reuse.
LineageBurned ==
    \A t \in Tokens :
        parent[t] # NoToken /\ parent[t] \in Rows => table[parent[t]].used

\* A family is dead when it holds no usable token and nobody is rotating it.
Dead(f) ==
    /\ f \in familiesMade
    /\ Live(f) = {}
    /\ \A w \in Rotating(f) : pc[w] = "reuse"

\* No sequence of requests revives a dead family: revocation, expiry, reuse
\* detection and purge are final.
DeadStaysDead == [][\A f \in Families : Dead(f) => Dead(f)']_vars

\* A login never has two usable refresh tokens as long as its rotations do
\* not overlap, which is what the client library promises, whatever the
\* rotations of other logins do.
AtMostOneLive ==
    \A f \in Families \ Overlap : \A t, v \in Live(f) : t = v

\* Reuse detection ends a login for good as long as its rotations do not
\* overlap: after revokeFamily no token of the family is usable.
KilledStaysDead == \A f \in killed \ Overlap : Live(f) = {}

\* The rows of the logins whose rotations do not overlap implement
\* TokenFamily.
Family == INSTANCE TokenFamily WITH
    Families <- Families \ Overlap,
    born <- familiesMade \ Overlap,
    holds <- [f \in Families \ Overlap |-> Live(f)],
    rotating <- {f \in Families \ Overlap : \E w \in Rotating(f) : pc[w] # "reuse"},
    issued <- tokensMade

FamilySpec == Family!Spec
=============================================================================
