------------------------------ MODULE ApiGuard ------------------------------
(***************************************************************************)
(* What stands in front of every /api/v1 endpoint: requireApiKey            *)
(* (apps/web/src/lib/guard.ts) with the reads it makes of keys, application *)
(* and service account (packages/db/src/queries/api-keys.ts, apps.ts and    *)
(* service-accounts.ts), the two layers of the rate limit                   *)
(* (apps/web/src/lib/rate-limit.ts, queries/rate-limits.ts), and the        *)
(* administrators who issue, rotate and revoke keys meanwhile               *)
(* (apps/web/src/actions/keys.ts, machines.ts and apps.ts).                 *)
(*                                                                         *)
(* A statement of the database is one step; everything between two awaits   *)
(* is one step of its process.                                              *)
(***************************************************************************)
EXTENDS DecisionLog

CONSTANTS
    Workers,        \* requests in progress at once
    Keys,           \* ids of key rows
    Accounts, NoAccount,
    Addresses,      \* where a call may come from; "unknown" is no address
    Allowlists,     \* sets of entries, an entry being the set of addresses it matches
    Drafts,         \* keys the dashboard is asked for: [kind, scopes]
    Limit, Window,  \* DEFAULT_LIMIT, WINDOW_MS
    MaxLocal,       \* MAX_LOCAL_KEYS
    Delay,          \* bound: a counting statement runs within this of its call
    Bounds          \* bounds: how much of each a behaviour has, [time, requests,
                    \* edits, faults, decisions]

ASSUME GuardAssumption ==
    /\ {Limit, Window, MaxLocal, Delay} \subseteq Nat \ {0}
    /\ IsFiniteSet(Workers) /\ IsFiniteSet(Bounds)
    /\ Bounds \subseteq [time : Nat, requests : Nat, edits : Nat, faults : Nat, decisions : Nat]

Both == {"publishable", "secret"}

\* The endpoints: the kinds and the scope each gives requireApiKey, and the
\* scopes the data route then looks for itself.
Asks(kinds, scope, exact) == [kinds |-> kinds, scope |-> scope, exact |-> exact]
dataRoute == {Asks(Both, "db:read", {}), Asks(Both, "db:read", {"db:write"})}
queryRoute == {Asks({"secret"}, "db:read", {}), Asks({"secret"}, "db:write", {})}
meRoute == {Asks(Both, "auth:read", {})}      \* and the token, refresh and revoke routes
webhooksRoute == {Asks({"secret"}, "auth:read", {}), Asks({"secret"}, "admin", {})}
Endpoints == dataRoute \cup queryRoute \cup meRoute \cup webhooksRoute

VARIABLES
    keys,           \* infra_api_keys; machine and rotated are history
    held,           \* keys somebody outside was shown
    accounts,       \* infra_service_accounts
    app,            \* infra_apps.status
    jobs,           \* actions of the dashboard between two statements
    counter,        \* infra_rate_limits
    local,          \* per instance, the map `windows`
    req,
    asked, passed,  \* history: requests counted, and allowed, by the time of their call
    edits, faults,
    bound           \* the bounds of this behaviour

admin == <<keys, held, accounts, app, jobs, edits>>
limits == <<counter, local, asked, passed, faults>>
guardVars == <<admin, limits, now, req, bound, decisionVars>>

NoKey == [state |-> "absent"]
NoWindow == [count |-> 0, ends |-> 0]
Vacant == [pc |-> "idle"]
Refused == [pc |-> "refused"]
Times == 0..Max({b.time : b \in Bounds})

-----------------------------------------------------------------------------
(* core/api-key.ts and core/ip.ts *)

PUBLISHABLE_ALLOWED_SCOPES == {"db:read", "auth:read"}

normaliseScopes(kind, requested) ==
    LET capped == requested \cap PUBLISHABLE_ALLOWED_SCOPES IN
    IF kind = "secret" THEN requested ELSE IF capped = {} THEN {"auth:read"} ELSE capped

hasScope(granted, required) == {"admin", required} \cap granted # {}

ipAllowed(ip, allowlist) == allowlist = {} \/ \E entry \in allowlist : ip \in entry

-----------------------------------------------------------------------------
(* lib/rate-limit.ts, the layer of one process *)

Opens(i, k) == local[i][k] = NoWindow \/ local[i][k].ends <= now
Size(i) == Cardinality({k \in Keys : local[i][k] # NoWindow})

localRefusal(i, k) == ~Opens(i, k) /\ local[i][k].count + 1 > Limit

\* A full map is emptied before it takes a new window.
CountLocally(i, k) ==
    LET kept == IF Opens(i, k) /\ Size(i) >= MaxLocal THEN [x \in Keys |-> NoWindow] ELSE local[i]
    IN  local' = [local EXCEPT ![i] = [kept EXCEPT ![k] =
                      IF Opens(i, k) THEN [count |-> 1, ends |-> now + Window]
                      ELSE [local[i][k] EXCEPT !.count = @ + 1]]]

-----------------------------------------------------------------------------
(* requireApiKey *)

Usable(k) == keys[k].state = "live" /\ app = "active"

\* The checks that need nothing but the row and the request.
Accepts(endpoint, k, browser) ==
    /\ keys[k].kind \in endpoint.kinds
    /\ ~(keys[k].kind = "secret" /\ browser)
    /\ hasScope(keys[k].scopes, endpoint.scope)

\* verifyApiKey, the checks, then the local layer, up to the next await.
Verify(w) ==
    /\ req[w].pc = "idle" /\ FoldSet(LAMBDA x, n : n + asked[x], 0, Keys \X Times) < bound.requests
    /\ \E i \in Instances, k \in held, e \in Endpoints, from \in Addresses, browser \in BOOLEAN :
       IF Usable(k) /\ Accepts(e, k, browser)
       THEN /\ CountLocally(i, k)
            /\ asked' = [asked EXCEPT ![<<k, now>>] = @ + 1]
            /\ req' = [req EXCEPT ![w] =
                   [pc |-> IF localRefusal(i, k) THEN "limited" ELSE "count", inst |-> i,
                    key |-> k, account |-> keys[k].account, at |-> now, from |-> from, endpoint |-> e]]
       ELSE req' = [req EXCEPT ![w] = Refused] /\ UNCHANGED <<local, asked>>
    /\ UNCHANGED <<admin, counter, passed, faults, now>>

\* The data route's own look at the scopes comes last.
Served(w) == IF req[w].endpoint.exact \subseteq keys[req[w].key].scopes THEN "done" ELSE "refused"
AfterCount(w) == IF req[w].account = NoAccount THEN Served(w) ELSE "account"

\* Mutant: the comparison is the wrong way round.
ShareBackwards(row, at) ==
    LET restarts == row = NoWindow \/ row.ends >= at
        n == IF restarts THEN 1 ELSE row.count + 1
    IN  [count |-> n, ends |-> IF restarts THEN at + Window ELSE row.ends, allowed |-> n <= Limit]

\* Mutant: the count runs on when the window restarts.
ShareForever(row, at) ==
    [count |-> row.count + 1, ends |-> IF row.ends <= at THEN at + Window ELSE row.ends,
     allowed |-> row.count < Limit]

\* The upsert: a window that is over restarts at one.
share(row, at) ==
    LET restarts == row = NoWindow \/ row.ends <= at
        n == IF restarts THEN 1 ELSE row.count + 1
    IN  [count |-> n, ends |-> IF restarts THEN at + Window ELSE row.ends, allowed |-> n <= Limit]

consumeShared(w) ==
    LET k == req[w].key
        row == share(counter[k], req[w].at)
    IN
    /\ req[w].pc = "count"
    /\ counter' = [counter EXCEPT ![k] = [count |-> row.count, ends |-> row.ends]]
    /\ passed' = IF row.allowed THEN [passed EXCEPT ![<<k, req[w].at>>] = @ + 1] ELSE passed
    /\ req' = [req EXCEPT ![w].pc = IF row.allowed THEN AfterCount(w) ELSE "limited"]
    /\ UNCHANGED <<admin, local, asked, faults, now>>

\* A counter that cannot be written does not take the request down.
FailOpen(w) ==
    /\ req[w].pc = "count" /\ faults < bound.faults /\ faults' = faults + 1
    /\ req' = [req EXCEPT ![w].pc = AfterCount(w)]
    /\ UNCHANGED <<admin, counter, local, asked, passed, now>>

\* assertServiceAccountUsable
CheckAccount(w) ==
    LET account == accounts[req[w].account] IN
    /\ req[w].pc = "account"
    /\ req' = [req EXCEPT ![w].pc =
           IF account.status = "active" /\ ipAllowed(req[w].from, account.allowlist)
           THEN Served(w) ELSE "refused"]
    /\ UNCHANGED <<admin, limits, now>>

Leave(w) ==
    /\ req[w].pc \in {"done", "refused", "limited"}
    /\ req' = [req EXCEPT ![w] = Vacant]
    /\ UNCHANGED <<admin, limits, now>>

\* A process that goes takes its windows, its requests and its summaries with it.
Recycle(i) ==
    /\ faults < bound.faults /\ faults' = faults + 1
    /\ local' = [local EXCEPT ![i] = [k \in Keys |-> NoWindow]]
    /\ req' = [w \in Workers |-> IF req[w].pc \in {"count", "account"} /\ req[w].inst = i THEN Vacant ELSE req[w]]
    /\ UNCHANGED <<admin, counter, asked, passed, now>>
    /\ Forgets(i)

sweepRateLimits ==
    /\ \E k \in Keys : counter[k] # NoWindow /\ counter[k].ends < now
    /\ counter' = [k \in Keys |-> IF counter[k].ends < now THEN NoWindow ELSE counter[k]]
    /\ UNCHANGED <<admin, local, asked, passed, faults, now, req>>

Tick ==
    /\ now < bound.time /\ now' = now + 1
    /\ \A w \in Workers : req[w].pc = "count" => now < req[w].at + Delay
    /\ UNCHANGED <<admin, limits, req>>

-----------------------------------------------------------------------------
(* The dashboard *)

Edit == edits < bound.edits /\ edits' = edits + 1 /\ UNCHANGED <<limits, now, req>>
Continue(j) == j \in jobs /\ UNCHANGED <<edits, limits, now, req>>

Row(kind, scopes, machine, rotated) ==
    [state |-> "live", kind |-> kind, scopes |-> normaliseScopes(kind, scopes),
     account |-> NoAccount, machine |-> machine, rotated |-> rotated]

Fresh(k) == keys[k] = NoKey

issueKeyAction(d, k) ==
    /\ Edit /\ Fresh(k)
    /\ keys' = [keys EXCEPT ![k] = Row(d.kind, d.scopes, NoAccount, FALSE)]
    /\ held' = held \cup {k}
    /\ UNCHANGED <<accounts, app, jobs>>

Revoked(ks) == [k \in Keys |-> IF k \in ks THEN [keys[k] EXCEPT !.state = "revoked"] ELSE keys[k]]

revokeKeyAction(k) ==
    /\ Edit /\ keys[k].state = "live"
    /\ keys' = Revoked({k})
    /\ UNCHANGED <<held, accounts, app, jobs>>

\* rotateApiKey: a replacement with the kind and the scopes of the old key,
\* revoked or not, and with nothing else of it; then the old key is revoked.
rotateKeyAction(old, new) ==
    /\ Edit /\ ~Fresh(old) /\ Fresh(new)
    /\ keys' = [keys EXCEPT ![new] = Row(keys[old].kind, keys[old].scopes, keys[old].machine, TRUE)]
    /\ jobs' = jobs \cup {[op |-> "rotate", key |-> new, old |-> old]}
    /\ UNCHANGED <<held, accounts, app>>

FinishRotation(j) ==
    /\ Continue(j) /\ j.op = "rotate"
    /\ keys' = Revoked({j.old}) /\ held' = held \cup {j.key}
    /\ jobs' = jobs \ {j}
    /\ UNCHANGED <<accounts, app>>

createServiceAccountAction(a) ==
    /\ Edit /\ accounts[a].status = "absent"
    /\ \E list \in Allowlists, d \in Drafts :
        accounts' = [accounts EXCEPT ![a] = [status |-> "active", allowlist |-> list, scopes |-> d.scopes]]
    /\ UNCHANGED <<keys, held, app, jobs>>

\* issueServiceAccountKey reads the account, ...
issueServiceKeyAction(a) ==
    /\ Edit /\ accounts[a].status = "active"
    /\ jobs' = jobs \cup {[op |-> "issue", account |-> a]}
    /\ UNCHANGED <<keys, held, accounts, app>>

\* Mutant: the key is shown as soon as its row is there.
ShowAtOnce(j, k) ==
    /\ Continue(j) /\ j.op = "issue" /\ Fresh(k)
    /\ keys' = [keys EXCEPT ![k] = Row("secret", accounts[j.account].scopes, j.account, FALSE)]
    /\ jobs' = (jobs \ {j}) \cup {[op |-> "link", key |-> k, account |-> j.account]}
    /\ held' = held \cup {k}
    /\ UNCHANGED <<accounts, app>>

\* ... inserts a key like any other, ...
InsertServiceKey(j, k) ==
    /\ Continue(j) /\ j.op = "issue" /\ Fresh(k)
    /\ keys' = [keys EXCEPT ![k] = Row("secret", accounts[j.account].scopes, j.account, FALSE)]
    /\ jobs' = (jobs \ {j}) \cup {[op |-> "link", key |-> k, account |-> j.account]}
    /\ UNCHANGED <<held, accounts, app>>

\* ... and makes it the account's before it is shown.
LinkServiceKey(j) ==
    /\ Continue(j) /\ j.op = "link"
    /\ keys' = [keys EXCEPT ![j.key].account = j.account] /\ held' = held \cup {j.key}
    /\ jobs' = jobs \ {j}
    /\ UNCHANGED <<accounts, app>>

\* revokeServiceAccount: the account, then the keys linked to it.
revokeServiceAccountAction(a) ==
    /\ Edit /\ accounts[a].status # "absent"
    /\ accounts' = [accounts EXCEPT ![a].status = "revoked"]
    /\ jobs' = jobs \cup {[op |-> "revoke", account |-> a]}
    /\ UNCHANGED <<keys, held, app>>

RevokeItsKeys(j) ==
    /\ Continue(j) /\ j.op = "revoke"
    /\ keys' = Revoked({k \in Keys : ~Fresh(k) /\ keys[k].account = j.account})
    /\ jobs' = jobs \ {j}
    /\ UNCHANGED <<held, accounts, app>>

\* The process dies between two statements: what it would have shown is lost.
CrashJob(j) ==
    /\ j \in jobs /\ jobs' = jobs \ {j}
    /\ faults < bound.faults /\ faults' = faults + 1
    /\ UNCHANGED <<keys, held, accounts, app, edits, counter, local, asked, passed, now, req>>

setAppStatusAction(status) ==
    /\ Edit /\ app' = status
    /\ UNCHANGED <<keys, held, accounts, jobs>>

-----------------------------------------------------------------------------
GuardInit ==
    /\ keys = [k \in Keys |-> NoKey] /\ held = {} /\ jobs = {} /\ app = "active"
    /\ accounts = [a \in Accounts |-> [status |-> "absent", allowlist |-> {}, scopes |-> {}]]
    /\ counter = [k \in Keys |-> NoWindow] /\ local = [i \in Instances |-> [k \in Keys |-> NoWindow]]
    /\ InitDecisions /\ now = 0 /\ req = [w \in Workers |-> Vacant]
    /\ asked = [x \in Keys \X Times |-> 0] /\ passed = asked
    /\ edits = 0 /\ faults = 0 /\ bound \in Bounds

Serve ==
    \/ \E w \in Workers :
        Verify(w) \/ consumeShared(w) \/ FailOpen(w) \/ CheckAccount(w) \/ Leave(w)

Administer ==
    \/ \E k \in Keys :
        \/ \E d \in Drafts : issueKeyAction(d, k)
        \/ revokeKeyAction(k) \/ \E new \in Keys : rotateKeyAction(k, new)
    \/ \E a \in Accounts :
        createServiceAccountAction(a) \/ issueServiceKeyAction(a) \/ revokeServiceAccountAction(a)
    \/ \E j \in jobs :
        \/ FinishRotation(j) \/ LinkServiceKey(j) \/ RevokeItsKeys(j) \/ CrashJob(j)
        \/ \E k \in Keys : InsertServiceKey(j, k)
    \/ \E status \in {"active", "suspended", "archived"} : setAppStatusAction(status)

\* The data route records what DataGateway decided.
Decide ==
    \/ /\ FoldSet(LAMBDA x, n : n + decided[x[1]][x[2]], 0, Subjects \X Outcomes) < bound.decisions
       /\ \E i \in Instances, s \in Subjects, cause \in Causes, ms \in Latencies :
            recordDecision(i, s, cause, ms)
    \/ bound.decisions > 0 /\ \E i \in Instances : flushNow(i)

GuardNext ==
    /\ UNCHANGED bound
    /\ \/ (Serve \/ Administer \/ sweepRateLimits \/ Tick) /\ UNCHANGED decisionVars
       \/ \E i \in Instances : Recycle(i)
       \/ Decide /\ UNCHANGED <<admin, limits, now, req>>

GuardSpec == GuardInit /\ [][GuardNext]_guardVars

-----------------------------------------------------------------------------
(* Properties *)

GuardTyped ==
    /\ \A k \in Keys : keys[k] = NoKey \/
          keys[k] \in [state : {"live", "revoked"}, kind : Both, scopes : SUBSET UNION {d.scopes : d \in Drafts \cup {[scopes |-> {"auth:read"}]}},
                       account : Accounts \cup {NoAccount}, machine : Accounts \cup {NoAccount}, rotated : BOOLEAN]
    /\ held \subseteq {k \in Keys : ~Fresh(k)}
    /\ \A w \in Workers : req[w].pc \in {"idle", "count", "account", "done", "refused", "limited"}
    /\ now \in Times /\ edits <= bound.edits /\ faults <= bound.faults

Accepted(w) == req[w].pc \in {"count", "account"} /\ req'[w].pc = "done"
Obeys(w, a) == accounts[a].status = "active" /\ ipAllowed(req[w].from, accounts[a].allowlist)

\* A request is accepted with a key issued for a service account only while
\* the account is active and from an address its owner listed, although the
\* key is a row like any other until it is linked, and the account may be
\* revoked before that (service-accounts.ts:64-75, 81-88).
MachineKeysObey ==
    [][\A w \in Workers : Accepted(w) =>
        LET k == keys[req[w].key] IN k.machine # NoAccount /\ ~k.rotated => Obeys(w, k.machine)]_guardVars

Within(history, k, from, to) ==
    FoldSet(LAMBDA t, n : n + history[<<k, t>>], 0, {t \in Times : from <= t /\ t <= to})

\* Whatever the number of processes, the shared counter lets through at most
\* twice the limit of the requests made in a window's length, when a counting
\* statement runs within a unit of its call, and in a stretch as much shorter
\* as two statements may be later than that: the fixed windows of one upsert
\* never overlap, but a late request may count in the window after its own, or
\* open that one in the past once the row was swept.
TwiceAtMost ==
    \A k \in Keys, t \in Times : Within(passed, k, t, t + Window - 2 * Delay + 1) <= 2 * Limit

\* Nobody is limited for what is over: a request is refused only when its key
\* made more than the limit within about a window of it, by either layer.
RefusalsEarned ==
    \A w \in Workers : req[w].pc = "limited" =>
        Within(asked, req[w].key, req[w].at - Window - Delay + 1, req[w].at + Delay) > Limit
=============================================================================
