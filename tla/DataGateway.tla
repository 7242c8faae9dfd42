----------------------------- MODULE DataGateway -----------------------------
(***************************************************************************)
(* POST /api/v1/data/:resource: the endpoint a browser may call, with what  *)
(* it reads of the Master database (memberships, role grants, policies) and *)
(* the table of the application it runs the compiled statement on           *)
(* (apps/web/src/app/api/v1/data/[resource]/route.ts, packages/auth/src/    *)
(* gateway.ts and access.ts, packages/db/src/queries/access.ts and          *)
(* members.ts), while administrators edit roles and policies                *)
(* (apps/web/src/actions/access.ts) and people join and leave (Membership). *)
(*                                                                         *)
(* A request reads the membership, the roles and the policies in three      *)
(* statements and runs its own in a fourth; any edit may land in between.   *)
(***************************************************************************)
EXTENDS Policy, Membership

CONSTANTS
    Callers,        \* requests in progress at once
    Requests,       \* what clients send: [subject, kind, workspace, scopes, spec]
    Drafts,         \* policies the form is asked for, by id
    RolePermissions,\* role -> set of permissions
    Tables,         \* tables the application starts with: id -> row or Absent
    Absent,
    Scenes          \* bounds: [edits, moves, starts, requests], of one behaviour each

ASSUME GatewayAssumption ==
    /\ People = {q.subject : q \in {r \in Requests : r.kind = "user"}}
    /\ \A b \in Scenes : {b.edits, b.moves} \subseteq Nat /\ b.requests \subseteq Requests
    /\ \A d \in DOMAIN Drafts : buildCondition(Drafts[d].condition)

Roles == DOMAIN RolePermissions
Subjects == {q.subject : q \in Requests}
Ids == DOMAIN (CHOOSE t \in Tables : TRUE)
Columns == {"owner", "rank"}

VARIABLES
    policies,       \* infra_policies of the app: draft -> "absent", "enabled", "disabled"
    grants,         \* infra_role_assignments: absent, permanent, temporary or expired
    defaultRole,    \* infra_apps.default_role_key
    rows, dialect,  \* the application's own database
    req,            \* the requests in progress
    edits,
    scene,          \* the bounds of this behaviour
    seen            \* history: the authority a request's subject had since it came

edited == <<policies, grants, defaultRole, edits, scene, memberVars>>
gatewayVars == <<edited, rows, dialect, req, seen>>

Idle == [pc |-> "idle"]
Refused == [pc |-> "refused"]

-----------------------------------------------------------------------------
(* queries/access.ts *)

\* Mutant: an expired grant still counts.
rolesEverGranted(s) == {r \in Roles : grants[s][r] # "absent"}

\* effectivePermissions: the live grants of the subject, their permissions merged.
rolesOf(s) == {r \in Roles : grants[s][r] \in {"permanent", "temporary"}}
effectivePermissions(s) == UNION {RolePermissions[r] : r \in rolesOf(s)}

Stored(d) == [id |-> d, enabled |-> policies[d] = "enabled", resource |-> Drafts[d].resource,
              action |-> Drafts[d].action, effect |-> Drafts[d].effect,
              condition |-> Drafts[d].condition, priority |-> Drafts[d].priority]

listPolicies(resource, action) ==
    {Stored(d) : d \in {x \in DOMAIN Drafts : policies[x] # "absent"
                            /\ Drafts[x].resource \in {"*", resource} /\ Drafts[x].action = action}}

-----------------------------------------------------------------------------
(* The request *)

Subject(q) == [id |-> q.subject, workspace |-> q.workspace]
Permitted(q) == hasPermission(effectivePermissions(q.subject), q.spec.resource,
                              ACTION_TO_PERMISSION[q.spec.action])

\* The key's scopes: hasScope for the request, `includes` for a write.
KeyMay(q) ==
    /\ q.scopes \cap {"admin", "db:read"} # {}
    /\ q.spec.action # "select" => "db:write" \in q.scopes

\* A service account has no membership to check.
AfterArrival(q) == IF q.kind = "user" THEN "member" ELSE "roles"

Arrive(c) ==
    /\ req[c].pc = "idle"
    /\ \E q \in scene.requests :
        req' = [req EXCEPT ![c] =
            IF KeyMay(q) /\ parseQuerySpec(q.spec)
            THEN [pc |-> AfterArrival(q), q |-> q, read |-> {}, touched |-> {}] ELSE Refused]
    /\ UNCHANGED <<edited, rows, dialect>>

\* getMembership: a token that outlived the membership stops here.
CheckMember(c) ==
    /\ req[c].pc = "member"
    /\ req' = [req EXCEPT ![c] = IF req[c].q.subject \in members["here"] THEN [@ EXCEPT !.pc = "roles"] ELSE Refused]
    /\ UNCHANGED <<edited, rows, dialect>>

\* checkAccess, RBAC.
ReadRoles(c) ==
    /\ req[c].pc = "roles"
    /\ req' = [req EXCEPT ![c] = IF Permitted(req[c].q) THEN [@ EXCEPT !.pc = "policies"] ELSE Refused]
    /\ UNCHANGED <<edited, rows, dialect>>

\* assertRowsSatisfyPolicy.
RowsPass(q, decision) ==
    q.spec.action = "insert" =>
        \A i \in DOMAIN q.spec.values :
            evaluateDecisionForRow(decision.conditions, Subject(q), q.spec.values[i])

\* checkAccess, ABAC, and planQuery.
ReadPolicies(c) ==
    LET q == req[c].q
        found == listPolicies(q.spec.resource, q.spec.action)
        decision == decide(found, q.spec.resource, q.spec.action)
    IN
    /\ req[c].pc = "policies"
    /\ req' = [req EXCEPT ![c] = [@ EXCEPT !.read = found,
           !.pc = IF decision.effect = "deny" THEN "denied"
                  ELSE IF RowsPass(q, decision) THEN "run" ELSE "refused"]]
    /\ UNCHANGED <<edited, rows, dialect>>

Compiled(c) ==
    LET q == req[c].q IN
    compileQuerySpec(q.spec, decide(req[c].read, q.spec.resource, q.spec.action).conditions, Subject(q))

Taken(c) == {i \in Ids : rows[i] # Absent /\ Selects(Compiled(c), dialect, rows[i])}

\* A column an insert does not set takes its DEFAULT, null.
InsertedRow(values) == [col \in Columns |-> IF col \in DOMAIN values THEN values[col] ELSE Null]
Updated(row, stmt) ==
    [col \in Columns |->
        IF \E i \in DOMAIN stmt.set : stmt.set[i] = col
        THEN stmt.params[CHOOSE i \in DOMAIN stmt.set : stmt.set[i] = col] ELSE row[col]]

Finish(c, ids) == req' = [req EXCEPT ![c] = [@ EXCEPT !.pc = "done", !.touched = ids]]

Select(c) ==
    /\ req[c].q.spec.action = "select"
    /\ Finish(c, Taken(c)) /\ UNCHANGED rows
Delete(c) ==
    /\ req[c].q.spec.action = "delete"
    /\ Finish(c, Taken(c))
    /\ rows' = [i \in Ids |-> IF i \in Taken(c) THEN Absent ELSE rows[i]]
Update(c) ==
    /\ req[c].q.spec.action = "update"
    /\ Finish(c, Taken(c))
    /\ rows' = [i \in Ids |-> IF i \in Taken(c) THEN Updated(rows[i], Compiled(c)) ELSE rows[i]]
Insert(c) ==
    /\ req[c].q.spec.action = "insert"
    /\ \E at \in [DOMAIN req[c].q.spec.values -> {i \in Ids : rows[i] = Absent}] :
        /\ \A i, j \in DOMAIN at : i < j => at[i] < at[j]
        /\ Finish(c, {at[i] : i \in DOMAIN at})
        /\ rows' = [i \in Ids |-> IF \E n \in DOMAIN at : at[n] = i
                         THEN InsertedRow(req[c].q.spec.values[CHOOSE n \in DOMAIN at : at[n] = i]) ELSE rows[i]]

\* adapter.query
Run(c) ==
    /\ req[c].pc = "run"
    /\ Select(c) \/ Delete(c) \/ Update(c) \/ Insert(c)
    /\ UNCHANGED <<edited, dialect>>

Leave(c) ==
    /\ req[c].pc \in {"done", "denied", "refused"}
    /\ req' = [req EXCEPT ![c] = Idle]
    /\ UNCHANGED <<edited, rows, dialect>>

-----------------------------------------------------------------------------
(* The dashboard and the token route *)

Edit == edits < scene.edits /\ edits' = edits + 1 /\ UNCHANGED <<rows, dialect, req, scene, memberVars>>

\* createPolicyAction refuses the one combination that turns the engine off.
CreatePolicy(d) ==
    /\ Edit /\ policies[d] = "absent"
    /\ ~(Drafts[d].effect = "allow" /\ Drafts[d].resource = "*" /\ Drafts[d].condition = Always)
    /\ policies' = [policies EXCEPT ![d] = "enabled"]
    /\ UNCHANGED <<grants, defaultRole>>

TogglePolicy(d, enabled) ==
    /\ Edit /\ policies[d] # "absent"
    /\ policies' = [policies EXCEPT ![d] = IF enabled THEN "enabled" ELSE "disabled"]
    /\ UNCHANGED <<grants, defaultRole>>

DeletePolicy(d) ==
    /\ Edit /\ policies[d] # "absent"
    /\ policies' = [policies EXCEPT ![d] = "absent"]
    /\ UNCHANGED <<grants, defaultRole>>

\* assignRole: on a conflict, expired or not, the old grant stands.
Assigned(s, r, kind) == [grants EXCEPT ![s][r] = IF @ = "absent" THEN kind ELSE @]

AssignRole(s, r, kind) ==
    /\ Edit /\ grants' = Assigned(s, r, kind)
    /\ UNCHANGED <<policies, defaultRole>>

RevokeAssignment(s, r) ==
    /\ Edit /\ grants[s][r] # "absent"
    /\ grants' = [grants EXCEPT ![s][r] = "absent"]
    /\ UNCHANGED <<policies, defaultRole>>

ExpireGrant(s, r) ==
    /\ Edit /\ grants[s][r] = "temporary"
    /\ grants' = [grants EXCEPT ![s][r] = "expired"]
    /\ UNCHANGED <<policies, defaultRole>>

UNSAFE_FOR_DEFAULT == {May("*", "*"), May("admin", "*")}

setDefaultRole(r) ==
    /\ Edit /\ RolePermissions[r] \cap UNSAFE_FOR_DEFAULT = {}
    /\ defaultRole' = r
    /\ UNCHANGED <<policies, grants>>

\* The grants are one statement of offboardUser; the memberships stay.
offboardUser(u) ==
    /\ Edit /\ grants' = [grants EXCEPT ![u] = [r \in Roles |-> "absent"]]
    /\ UNCHANGED <<policies, defaultRole>>

\* The last statement of a first sign-in, for a person who was new: whoever
\* joined by an invitation, or whose request died, is never given the role.
assignDefaultRole(h) ==
    /\ Welcomed(h)
    /\ grants' = IF defaultRole \in Roles THEN Assigned(handler[h].who, defaultRole, "permanent") ELSE grants
    /\ UNCHANGED <<policies, defaultRole, edits, scene, rows, dialect, req>>

-----------------------------------------------------------------------------
Authority(c) ==
    LET q == req[c].q
        live == {r \in Roles : grants[q.subject][r] \notin {"absent", "expired"}}
        held == UNION {RolePermissions[r] : r \in live}
    IN  IF req[c].pc \in {"idle", "refused"} THEN {}
        ELSE (IF q.subject \in members["here"] THEN {"member"} ELSE {}) \cup
             (IF hasPermission(held, q.spec.resource, ACTION_TO_PERMISSION[q.spec.action])
              THEN {"permitted"} ELSE {})

GatewayInit ==
    /\ scene \in Scenes
    /\ \E start \in scene.starts :
           policies = [d \in DOMAIN Drafts |-> IF d \in start THEN "enabled" ELSE "absent"]
    /\ \E r \in Roles, kind \in {"absent", "permanent", "temporary"} :
           grants = [s \in Subjects |-> [x \in Roles |-> IF x = r THEN kind ELSE "absent"]]
    /\ \/ InitMembers(People, scene.moves) /\ defaultRole = Null
       \/ InitMembers({}, scene.moves) /\ defaultRole \in Roles /\ RolePermissions[defaultRole] \cap UNSAFE_FOR_DEFAULT = {}
    /\ rows \in Tables /\ dialect \in Dialects
    /\ req = [c \in Callers |-> Idle]
    /\ edits = 0
    /\ seen = [c \in Callers |-> {}]

Request(c) ==
    Arrive(c) \/ CheckMember(c) \/ ReadRoles(c) \/ ReadPolicies(c) \/ Run(c) \/ Leave(c)

Administration ==
    \/ \E d \in DOMAIN Drafts :
        CreatePolicy(d) \/ DeletePolicy(d) \/ \E b \in BOOLEAN : TogglePolicy(d, b)
    \/ \E s \in Subjects, r \in Roles :
        \/ \E kind \in {"permanent", "temporary"} : AssignRole(s, r, kind)
        \/ RevokeAssignment(s, r) \/ ExpireGrant(s, r)
    \/ \E r \in Roles : setDefaultRole(r)
    \/ \E u \in People : offboardUser(u)
    \/ \E h \in Handlers : assignDefaultRole(h)
    \/ Belonging /\ UNCHANGED <<policies, grants, defaultRole, edits, scene, rows, dialect, req>>

GatewayNext ==
    /\ (\E c \in Callers : Request(c)) \/ Administration
    /\ seen' = [c \in Callers |-> (IF req[c].pc = "idle" THEN {} ELSE seen[c]) \cup Authority(c)']

GatewaySpec == GatewayInit /\ [][GatewayNext]_gatewayVars

-----------------------------------------------------------------------------
(* Properties *)

GatewayTyped ==
    /\ policies \in [DOMAIN Drafts -> {"absent", "enabled", "disabled"}]
    /\ grants \in [Subjects -> [Roles -> {"absent", "permanent", "temporary", "expired"}]]
    /\ \A s \in Sites : members[s] \subseteq People
    /\ defaultRole \in Roles \cup {Null}
    /\ \A i \in Ids : rows[i] = Absent \/ rows[i] \in [Columns -> Nat \cup {Null}]
    /\ \A c \in Callers : req[c].pc \in {"idle", "member", "roles", "policies", "run", "done", "denied", "refused"}
    /\ edits <= scene.edits

\* What a policy says of a row, written without the evaluator: SQL's reading
\* of a comparison, and on an insert the row's own.
Says(p, q, row) ==
    LET Means(leaf) ==
            LET v == resolveAttribute(leaf.ref, Subject(q)) IN
            IF q.spec.action = "insert" THEN TrueOfRow(leaf, Subject(q), row)
            ELSE IF leaf.op = "is_null" \/ (leaf.op = "eq" /\ v = Null) THEN row[leaf.field] = Null
            ELSE /\ row[leaf.field] # Null
                 /\ leaf.op # "is_not_null" /\ v # Null => Compare(leaf.op, row[leaf.field], v)
    IN \E j \in DOMAIN p.condition : \A k \in DOMAIN p.condition[j] : Means(p.condition[j][k])

WithinPolicy(read, q, row) ==
    LET on == {p \in read : relevant(p, q.spec.resource, q.spec.action)} IN
    /\ \E p \in on : p.effect = "allow" /\ Says(p, q, row)
    /\ \A p \in on : p.effect = "deny" => ~Says(p, q, row)

Decides(c) == req[c].pc \in {"policies", "run"} /\ req'[c].pc \in {"done", "denied"}

\* A statement returns, changes or adds only rows that some allow policy it
\* read covers and no deny policy does, whatever the caller's filters, and no
\* table changes otherwise: `negate`, the two readings of a condition and the
\* placeholders that interleave with the query's own (query-compiler.ts).  Not so
\* of a deny that orders a column by a null attribute: see the README, section 4.
TouchesWithinPolicy ==
    [][\A i \in Ids :
        LET touching == {c \in Callers : Decides(c) /\ req'[c].pc = "done" /\ i \in req'[c].touched}
            row(c) == IF req[c].q.spec.action = "insert" THEN rows'[i] ELSE rows[i]
        IN /\ \A c \in touching : WithinPolicy(req[c].read, req[c].q, row(c))
           /\ rows'[i] # rows[i] => touching # {}]_gatewayVars

\* The policy costs nobody a row it allows: of the rows whose columns are all
\* set, a statement that is not refused takes every one the policies allow
\* and the filters select, and one refused by policy had none to take.
FullAnswer ==
    [][\A c \in Callers, i \in Ids :
        LET q == req[c].q IN
        (/\ Decides(c) /\ q.spec.action # "insert" /\ q.workspace # Null
         /\ rows[i] # Absent /\ \A col \in Columns : rows[i][col] # Null) =>
            ((/\ WithinPolicy(req'[c].read, q, rows[i])
              /\ \A n \in DOMAIN q.spec.filters :
                    Says([condition |-> << <<q.spec.filters[n]>> >>], q, rows[i]))
                <=> (req'[c].pc = "done" /\ i \in req'[c].touched))]_gatewayVars

\* Nobody reads or writes with authority they lost before they asked: the
\* subject of a statement that ran was a member, and held the permission
\* through a grant that had not expired, at some moment after the request came
\* (data/[resource]/route.ts: "a token that outlived the membership it was
\* minted under stops working immediately").
NoStaleAuthority ==
    \A c \in Callers : req[c].pc \in {"run", "done"} =>
        /\ "permitted" \in seen[c]
        /\ req[c].q.kind = "user" => "member" \in seen[c]
=============================================================================
