# Formal models of the App System hub

The repository is a hub for a family of apps: it signs users in, issues access
and refresh tokens, connects each app to a database of its own, sends webhooks
and lets operators administer all of it. It is a TypeScript monorepo that runs
as stateless functions over one Postgres database. There is almost no
transaction in it: a request is a sequence of single SQL statements, many
requests run at once, and any of them may die between two statements. A unit
test sees one request at a time; what goes wrong here goes wrong between
requests. This directory holds TLA+ models of the parts where that matters,
the TLC runs that check them on small instances, and machine-checked proofs
for every instance.

## 1. Inventory

Paths are relative to the repository root. "Statement" means one SQL statement,
the unit of atomicity in everything below.

| component | code | state | operations |
|---|---|---|---|
| refresh tokens | `packages/db/src/queries/refresh-tokens.ts`, routes `auth/token`, `auth/refresh`, `auth/revoke` | `infra_refresh_tokens`: family, session, user, app, used_at, revoked_at, expires_at | issue, rotate (select, burn, insert), reuse detection, revoke by family / session / user / user and app, purge |
| signing keys | `packages/db/src/queries/signing-keys.ts`, `packages/auth/src/tokens.ts`, route `jwks` | `infra_signing_keys` (active, retiring, retired), a key cache per process | provision, sign, rotate, purge, publish, verify |
| SDK session | `packages/sdk/src/token-manager.ts`, `server-client.ts`, `http.ts` | the stored pair, `cached`, `ended`, `inFlight` | getAccessToken, forceRefresh, setTokens, endSession, signOut |
| webhook outbox | `packages/db/src/queries/webhooks.ts`, `apps/web/src/lib/webhook-dispatch.ts` | endpoints with a failure count, deliveries with attempts and status | emit, claim, send, mark delivered / failed, trip the breaker, purge, pause, resume |
| connection resolver | `packages/adapters/src/resolver.ts`, `pool.ts`, `apps/web/src/lib/resolver.ts`, `database-configs.ts` | configuration rows; per process a pool with TTL and LRU, builds in flight | resolve, build, evict, invalidate, edit, delete |
| sign-in throttle | `packages/db/src/queries/security.ts`, `packages/core/src/throttle.ts`, `apps/web/src/lib/auth-shield.ts` | `infra_login_attempts`: failures, last failure, lock, per ip and per ip+email | check, record failure (read, write), clear, sweep |
| account recovery | `packages/auth/src/recovery.ts`, recovery routes, `recovery-delivery.ts` | recovery tokens; credentials swept by a reset | request, peek, burn, write password, revoke four kinds of credential |
| lifecycle, invitations, members | `queries/lifecycle.ts`, `members.ts`, route `auth/token` | user status, memberships, invitations | invite, accept (select, mark, insert), revoke, transfer, remove, first sign-in; suspend, offboard, request deletion, reinstate |
| roles, policies, query compiler, data endpoint | `queries/access.ts`, `core/src/permissions.ts`, `policy.ts`, `query-dsl.ts`, `query-compiler.ts`, `auth/src/gateway.ts`, route `data/[resource]` | roles, grants, policies, default role; the table of the application | edit; check membership, read roles, read policies, decide, compile, run |
| request guard, keys, machines | `apps/web/src/lib/guard.ts`, `queries/api-keys.ts`, `service-accounts.ts`, `actions/keys.ts`, `machines.ts` | key rows, service accounts with allow-lists, app status | verify a call; issue, rotate, revoke |
| rate limits | `queries/rate-limits.ts`, `apps/web/src/lib/rate-limit.ts` | a shared counter per window, a bounded local map per process | refuse locally, consume, fail open, sweep |
| decision log | `packages/core/src/decision-log.ts`, `apps/web/src/lib/decision-log.ts` | histograms and counts per process, rows of the audit log | record, flush |
| second factors, passkeys, trusted devices, admin gate | `queries/mfa.ts`, `webauthn.ts`, `trusted-devices.ts`, `sessions.ts`, `auth/src/passkey.ts`, `lib/admin.ts` | factors with last step and backup codes, challenges, counters, devices, the step-up mark of a session | enrol, activate, verify, register, assert, remember, forget, remove, pass the gate |
| impersonation | `queries/impersonation.ts`, `actions/impersonation.ts` | sessions with an expiry and an end | start, stop, expire |
| master key | `packages/core/src/crypto.ts`, `scripts/rotate-master-key.mjs` | the key version of every secret, the environment of every process | seal, open, replace, delete; rotate row by row |
| provisioning | `apps/web/src/lib/provisioning.ts`, `queries/provisioning.ts`, `packages/adapters/src/provisioning/` | databases at two providers, a ledger, quota readings | create, record, configure, undo, release, poll |
| access tokens, maintenance job, audit log, apps, workspaces, mail, pages | `packages/auth/src/tokens.ts`, `queries/*.ts`, `apps/web` | one row each | single-statement reads and writes |

How they interact. The SDK session talks HTTP to the refresh-token routes and
may lose any answer; the routes sign with the key the signing-key module gives
them. Every call first passes the guard, which counts it against its key; the
data endpoint then verifies the user's token with the process's key cache,
reads membership, roles and policies, records its decision and runs the
compiled statement on the database the connection resolver finds. A completed
recovery, a suspension and an offboarding revoke refresh tokens by user, and an
offboarding the role grants as well. Provisioning writes the configuration rows
the resolver reads, sealed, as signing keys, webhook secrets and TOTP secrets
are, with the master key. Scheduled jobs call the drain route every
minute and the maintenance route every hour (`docs/runbooks.md:15-16`); nothing
else runs by itself.

What is hard in it:

- interleaving: read-then-write without a transaction or a lock, nearly
  everywhere (rotation, key rotation, drain claims, failure counters,
  configuration edits, recovery links, TOTP steps, challenges, invitations);
- crashes: a function may die between any two statements;
- messages: an answer of the hub may be lost, late, or arrive after the client
  gave up at 15 s and tried again; a provider may create a database and its
  answer be lost;
- stale copies: the SDK's `cached`, the verifier's key cache, the adapter pool,
  a row kept across an `await`, the policies a request read before an edit, the
  rows a script selected;
- liveness: a call that shares somebody else's promise, a delivery that waits
  for drains and for its endpoint, an adapter only its TTL replaces.

What makes each component correct, in a sentence:

- refresh tokens: a login is one lineage of tokens, a burned or revoked one
  never works again, and what ends a login ends it for good;
- signing keys: a token that has not expired verifies everywhere, whatever
  rotations and purges do, and a retired key stops being trusted soon;
- SDK session: the rotating token is presented once, an ended session presents
  nothing but what was asked before its end, no caller waits forever;
- webhooks: every delivery is settled, within the retry schedule, and a settled
  one stays so; no other endpoint's failing passes starve it; a failing endpoint
  is switched off;
- resolver: each app gets its own database and the current one, with one
  connection per app and none leaked;
- throttle: guesses of one source are paced by the curve, and nobody is locked
  by somebody else's failures, or for longer than the curve's maximum;
- recovery and lifecycle: a link works once, and after a reset, a suspension or
  an offboarding nothing obtained before it works.
- membership: a transfer, an acceptance or a sign-in leaves nobody nowhere;
- policies: a statement touches exactly the rows the policies allow, under SQL's
  three truth values and whatever the caller's filters, and nobody acts with
  authority lost before the request came;
- guard: the ceiling holds over all processes, a refusal has been earned, a
  machine's key obeys its account, every decision is accounted for;
- administration: a proof passes once, the gate opens on nothing less than its
  conditions, one impersonation is open at a time and final once over;
- secrets: every process can open every secret before the rotation writes, and
  again from the restart with the new key on; a replaced secret does not come
  back, and the old key takes none along;
- provisioning: no database is forgotten, none is called released that stands.

The hazards, line by line, with the properties that cover them, are in
`PROJECT.json`.

## 2. Modules

| module | what it is |
|---|---|
| `TokenFamily` | abstract specification of one login: what it promises from outside the table |
| `RefreshTokens` | the refresh-token table and the requests on it, statement by statement; implements `TokenFamily` |
| `SdkSession` | the client library, cut at each `await`, with the hub and the network around it |
| `SigningKeys` | the key table, rotation, purge, signing, cached verification |
| `WebhookQueue` | endpoints, deliveries and drain passes |
| `ConnectionResolver` | configuration rows, the adapter pool, builds and edits |
| `LoginThrottle` | failure counters, lockout curve, the three routes that ask, the sweep |
| `AccountAccess` | one person's credentials: sign-in and derivation, recovery links, the sweeps of a reset, a suspension and an offboarding |
| `Policy` | permissions, policy decision, both readings of a condition, grammar, compiler and SQL's three-valued WHERE, without state |
| `Membership` | memberships, invitations, transfers, the membership of a first sign-in |
| `DataGateway` | one data request, statement by statement, over `Policy` and `Membership`, while administrators edit |
| `DecisionLog` | counts and histograms per process and their way to the audit log |
| `ApiGuard` | requests through the guard and the two layers of the rate limit, keys and service accounts; extends `DecisionLog` |
| `AdminFactors` | one administrator's factors, passkeys, devices and gate, and the impersonation behind it |
| `MasterKey` | secrets, processes, the rotation script and the operator |
| `Provisioning` | databases, ledger and quota readings; extends `MasterKey`, whose secrets it adds to |
| `MC*` | the small instances TLC checks; each `.cfg` is one run |
| `SigningKeysProofs`, `WebhookQueueProofs`, `ConnectionResolverProofs` | theorems about the module each is named after, for every value of its constants |
| `RefreshTokensProofs` | the same for `RefreshTokens` and for `DataGateway`, where the tokens are used |
| `SdkSessionProofs` | the same for `SdkSession`, and for `ApiGuard` with its `DecisionLog`: a caller, and what guards the API it calls |
| `AccountAccessProofs` | the same for `AccountAccess`, `Membership` and `LoginThrottle` |
| `ProvisioningProofs` | the same for `Provisioning` and the secrets of `MasterKey` |
| `AdminFactorsProofs` | the same for `AdminFactors` |

Conventions. A worker, caller or admin is one request being served; it holds in
its record what the code holds in local variables. One action is one statement,
or what JavaScript runs between two awaits, together with everything that
follows it up to the next statement. An operator whose comment begins with
`Mutant` is a plausible bug, used to show that a property can fail. History
variables, which the code does not have, are marked in the declarations.

The code's guarantees often hold only where requests do not overlap. Rather
than checking two models, a set constant names the families, endpoints or apps
for which they may (`Overlap`, `Shaky`, `Unruly`); the properties that need the
discipline quantify over the rest, in the presence of the undisciplined ones.
`SdkSession`, `AccountAccess`, `DataGateway`, `ApiGuard`, `AdminFactors` and
`MasterKey` go further and mark what a race produced (`overtaken` and `early`,
`Raced`, `crossed`, `lapped` and `rivals`), so that they need no such constant:
everything overlaps, and a property excepts what the race marked and nothing
else.

A behaviour of a larger model starts by choosing its bounds from a constant set
(`Scenes` in `WebhookQueue`, `DataGateway`, `SigningKeys` and `AccountAccess`,
`Setups` in `SdkSession`,
`Bounds` in `ApiGuard`, `AdminFactors`, `MasterKey` and `Provisioning`) and
keeps them: one run then holds several small instances, each with plenty of one
kind of event, instead of one instance with little of everything. In
`SdkSession` the choice is also of what the code is given: the kind of storage
and the refresh function.

### RefreshTokens

`table` is `infra_refresh_tokens` keyed by token, with `used`, `revoked` and
`expired` as the tests the code makes of its timestamps. `pc`, `tok` and `snap`
are a request: the next statement, the token in hand, the row it selected.
`PresentLive; Burn; Mint; Reply` is `rotateRefreshToken` and the answer,
`PresentSpent; KillFamily` its reuse branch, `LogoutFind; LogoutSession` the
revoke route. The mass revocations and the purge are single statements. `Fail`
is an exception or a crash anywhere. `Burn` updates by id with no test of
`used_at`, as the code does, and `Mint` copies from the row selected, not from
the table. Random ids are elements not drawn before.

`TokenFamily` forgets rows and statements: a family is born, holds at most one
usable token, begins a replacement, loses its token, gets the replacement, or
ends. `FamilySpec` is `TokenFamily` under the mapping at the end of
`RefreshTokens`, over the families whose rotations do not overlap.

### SdkSession

`storage`, `cached`, `ended` and `flight` (`inFlight`) are the fields of
`TokenManager`; `call` is a caller suspended at an await. Every `await` lets
others run, that of a storage which answers at once included: the promise is
resolved, but the caller goes on in a later turn. So a storage call is two
places, the call and, for a load, its answer (`Load`, `Resume`), and any step of
another caller, of a refresh or of `signOut` may come between; a memory storage
and a session store differ in how long that takes, not in what it allows.
`performRefresh` has returned in `done`, and `Settle` is the turn in which
`finally` clears `inFlight` and everybody who joined resumes.

The hub is one record per token, rotated in one step: `RefreshTokens` is what
justifies that for requests that do not overlap. `GiveUp` is the abort timer of
`http.ts` (or a network error): the request may have been served, may be served
later (`orphans`), or never. A setup says what the manager was built with and
what its callers do. With `readsReply` the refresh function is one that
understands the hub's answer, which is what `TokenManager` asks of its caller;
without it, it is the one of `createServerClient`, which looks for field names
the route does not use, so that a granted refresh ends the session.

`overtaken` is set when a caller goes on with a pair it read before a refresh or
a sign-in set `cached`, or before the session ended: the code looks at neither
again after `storage.load` (`token-manager.ts:102-105`). `early` are the callers
that were at that read when the session of their manager ended. The safety
properties say what holds until such a read, and that no other way leads there.

### SigningKeys

Kids are numbered in the order of their insert, which is `not_before` order.
`SignLoad`, `SignProvision`, `SignReload`, `Sign` are `issueAccessToken`;
`RotateLoad`, `RotateMint`, `RotateRetire` are `rotateSigningKey`;
`PurgeSelect`, `PurgeOne` the purge; `JwksList`, `JwksProvision` the first
publication; `VerifyStart`, `VerifyLoad`, `VerifyStore` a verification that the
cache could not answer. `signAccessToken` and `verifyAccessToken` make and judge
a token by its key, audience and expiry, in the order of the code's checks.
Time is discrete, and no request lasts longer than `Delay`. The assumption
`WindowCovers` (`TTL + Tolerance + Delay < Window`) is 10 minutes, 30 seconds of
clock tolerance and a request, against 24 hours.

### WebhookQueue

A worker is one delivery being sent, from the SELECT that found it to its last
UPDATE; a drain pass sends its rows in parallel, so a pass is a set of workers.
`Claim` is one such pass, of all endpoints: it takes the oldest due rows up to
the LIMIT (`Oldest`; the rows of one emission have one `created_at`) and writes
nothing. `FailedRow` computes from the row the claim saw, and `DbError` follows
the code's try block: an error of a statement inside it is recorded as an attempt
the receiver failed. Retry times are abstracted to "due or not". Signatures and
payloads are left out. A scene says which endpoints and deliveries there are, the
LIMIT, which endpoints an operator manages, and for which (`Shaky`) passes may
overlap, statements throw and processes die.

`EventuallySettled` says of a calm delivery how the LIMIT can starve it: by
pending rows of shaky endpoints, no newer than itself, that fill a whole pass
(`Obstacles`), since rows whose pass dies before the UPDATE are selected again
first.

### ConnectionResolver

`Hit` and `Miss` are the synchronous part of `resolve`; `BuildLoad`,
`BuildReveal`, `BuildOpen` and `BuildFails` the build a miss starts, which
looks the primary row up twice; `EditDemote`, `EditInsert`, `Delete` and
`Invalidate` the two admin actions. `lru` is the insertion order of the
pool's `Map`. Ages count up to the TTL, which is looked at only on `get`.

### LoginThrottle

`attempts` is `infra_login_attempts` keyed by scope and ip, or ip and email; a
missing row is the empty one, as in `readState`. `Arrive`, `CheckFirst`,
`Admit` and `Refuse` are `checkLoginThrottle` in front of a handler, whose own
work is a choice between failure and success; `RecordRead` and `RecordWrite`
run once per counter and write what was computed from the row read. `kind`
tells the sign-in shield from the two recovery routes, which differ in what
they count: a confirmation that is refused counts, a request or a sign-in does
not. Time is discrete; a request keeps the `Date` of its call. `tally` counts
what each ip really did. `CounterOutlivesLock` is what the two policies and the
24-hour sweep have in common.

### AccountAccess

`creds` are the rows that let a person in: sessions, refresh tokens, trusted
devices. `SignIn; InsertSession; InsertDerived` is the token route,
`InsertSession` alone the dashboard, `DeriveRead; InsertDerived` a rotation or a
remembered device. `Request; InsertLink; Mail` is a link, `Peek; Burn;
FindCredential; WritePassword` and four times `Revoke` its redemption, `Disable;
Revoke...; SetStatus` a suspension or an offboarding. Each row carries `root`,
the epoch of the sign-in it descends from; a request that the sweep of a kind
overtakes between its check and its insert makes a row whose root is `Raced`,
and so is all that descends from it. `SweptClean` therefore says exactly which
rows may survive a sweep. Used and expired links are one state, since the code
refuses them alike; email verification is left out. `status` is written and never read, as in the code.

### Policy

A permission is `[deny, resource, action]`. A condition is a sequence of
alternatives, each a sequence of comparisons that must all hold: what the
dashboard's form can write (`buildCondition`) and what `negate` and the OR of
several allows make of it. `decide` returns the conditions the code's decision
carries; `compileQuerySpec` numbers placeholders as `Binder` does, SET first,
then the policy, then the caller's filters. `Selects` is not code: it is how a
database reads that text, with three truth values, postgres by the number of a
placeholder and libsql by its position. `evaluateDecisionForRow` is the other
reading, of the row of an insert.

### Membership and DataGateway

Each request about memberships is a `handler`: `OpenInvitation; MarkAccepted;
JoinInvited`, `transferMembership; LeaveOld`, `SignInNew; addMember;
assignDefaultRole`. `settled` remembers who belongs somewhere and was not
removed. The data request is `Arrive` (guard's scopes and the grammar),
`CheckMember`, `ReadRoles`, `ReadPolicies` and `Run`, each one statement; the
decision is taken in `ReadPolicies`, on what was read. `Administration` edits
policies, grants and the default role in between. `seen` remembers which
authority the subject held at some moment since the request came.

### ApiGuard and DecisionLog

`Verify` is everything up to the first await after the local layer counted;
`consumeShared` the upsert, with the clock of the call and not of the
statement; `FailOpen` the catch; `CheckAccount` the look at the service account,
after which the data route looks at the scopes once more. Dashboard actions
with several statements are `jobs`, which may die. `Recycle` ends a process
with its local map, its requests and its summaries. `Delay` is how late a
counting statement may run after its call; `TwiceAtMost` is about a stretch of
`Window - 2 * (Delay - 1)` time units, which is a whole window where `Delay` is
1, as in the run, since each of the two windows that reach into it may count
requests that much older than itself. In `DecisionLog` every decision is counted
by the window of its process and reaches the log in the summary of a flush. A
denial has rows of its own besides, written at once and best effort: two when
`checkAccess` denied, one of `checkAccess` and one of `recordDecision`, and one
when `planQuery` failed for another reason, as on an insert its policies do not
admit. `Accounted` is about the summaries; the rows (`denials`) are in no
property. `losses` collects what the summaries give up: past the cap, when an
insert fails, when the process goes. The percentile of a
histogram is checked against the exact one by an assumption of `MCApiGuard`.

### AdminFactors

Time is counted in TOTP steps. `ReadFactors; BurnCode` is `verifyMfaCode`,
`ReadEnrolment; activateTotpFactor` the activation, `ReadChallenge;
BurnChallenge` and then `savePasskey` or `LookUpPasskey; updatePasskeyCounter`
the two ends of a WebAuthn ceremony, each followed by `markSessionMfaVerified`
and perhaps `rememberThisDevice`. `OpenGate; hasVerifiedMfa; FindTrustedDevice`
is `evaluateAdminGate`, in front of a page or of a start or stop of an
impersonation. `Sign` is the authenticator, which may keep a counter or none.
`savePasskey` inserts a row of its own for a credential that may have one
already, as the schema allows, and `LookUpPasskey` finds any of them.
`markSessionMfaVerified` marks the browser's current session where the code marks
the one the request came with: a step-up the code does not give, so the gate is
checked under more than the code does.

Requests overlap without restraint. `crossed` collects the factors and challenges
that two verifications held between their read and their write at once, `rivals`
the impersonations inserted by starts that had both looked before either inserted
(`lapped`); `OneUse` and `OneOpen` except those and nothing else.

### MasterKey and Provisioning

A key is its version; a row carries the version it claims (`version`) and the
key it was really sealed with (`sealed`). `env` is what each process was started
with, `deployed` what the next one will be. The script is cut at each statement:
`SelectTable` reads a table whole, `RotateRow` reseals one row where its version
is still the one read. The operator is a sequence of steps, `Procedure`; the runs
have the one of the runbook, the theorems any. `crossed` are the secrets replaced
under the version an execution had read of them. In `Provisioning` a database is a name and how many times it was
created, because a Turso name is used again; a call may take effect and lose its
answer. `provisionForApp; CreateDatabase; MintToken; recordProvisionedResource;
upsertDatabaseConfig` is a provision, with `Undo`, `RecordFails` and
`ConfigFails` its compensations; `releaseAppResources; markReleasing;
deprovision; markReleased` a release. `ORPHAN_AFTER_ATTEMPTS` is 2 instead of 5.

## 3. Runs

Eleven passing runs and one disagreement between the code and its documents.

| run | what it shows |
|---|---|
| `refresh` | dead logins stay dead; where rotations do not overlap, there is one usable token and `TokenFamily` is implemented |
| `sdk` | reuse detection only after a lost answer or an overtaken read, until then the live token in memory; after the end, a refresh only for calls that were at their read; every call returns |
| `webhook` | sends within the schedule, the breaker is never late, settled is final, and an undisturbed endpoint's deliveries settle whatever happens around them, unless older rows whose passes die fill every pass |
| `keys` | unexpired tokens verify, no false reject, brief trust |
| `resolver` | own database, no leak, orderly edits take effect, any stale adapter is replaced |
| `throttle` | an orderly address guesses no faster than the curve and loses its lock only to time; nobody is locked by another's failures or beyond the maximum |
| `account` | a link resets once, asking again kills the earlier link, a complete sweep leaves nothing older than itself |
| `gateway` | a statement touches exactly the rows the policies it read allow; no authority lost before the request; nobody is left nowhere |
| `guard` | at most twice the limit in any window, refusals earned, machine keys obey their account, the summaries count every decision once |
| `factors` | a proof passes once and one impersonation is open, but for requests that had both read before either wrote; the gate is earned, ended impersonations are final |
| `store` | in the runbook's order, every process opens every secret until the script writes and again from the restart on, and nothing replaced under another version comes back; no database is forgotten or falsely released |
| `key_removal` | in the runbook's order a secret can be left that only the removed key opens |

Bounds, and why they are enough:

- `refresh`: two logins, three tokens, two requests. Reuse needs a token and its
  replacement, an overlap two requests, and a mix-up two logins; a third token
  lets one login rotate twice or both rotate. The theorems remove the bounds.
- `sdk`: two callers, one manager, three tokens: a refresh shared by two
  callers, and another after it, with a sign-in, a sign-out or a lost answer
  between, and each caller overtaken by the other. The setups with fewer
  operations keep the ones that matter to them.
- `webhook`: four scenes. One endpoint that an operator manages, two deliveries,
  three attempts and passes of one row, with threshold two: both deliveries fail
  and succeed around each other's counts. A calm and a shaky endpoint, a delivery
  of either and two attempts: two passes may hold the shaky one's. And the two
  endpoints with two deliveries tried once, in passes of one row, which the shaky
  endpoint's delivery can fill, and of two, which it cannot.
- `keys`: two workers, one token in use at a time, seven ticks, TTL 1, tolerance
  1, window 4: a key is born, signs, is retired and purged while a second
  rotation runs. Two scenes: three keys and one app, two keys and two apps; the
  audience decides a verdict only after the key was found, so the third key and
  the second app need not meet.
- `resolver`: two apps and a pool of one, so each build evicts the other app;
  two callers; two versions of a row; TTL 2; three adapter ids (one in the pool,
  two held by callers).
- `throttle`: an orderly and an unruly address, one email and the missing one,
  two requests, five ticks, two failures. The lock lengths are 1 and 2, the
  counter life 2, the sweep age 2, so that locks end, counters decay and rows
  are swept within the five ticks; a request takes no tick (`Delay = 0`).
- `account`: two links, two requests, two epochs: two redemptions of one link, a
  request between the statements of another, two sweeps that overlap or a sweep
  that overtakes a sign-in or a derivation. Two scenes: two links on an account
  that may be suspended, one link on one that may be suspended or offboarded.
- `gateway`: thirteen policies of which up to three are in force, twelve
  requests of a person and a machine, rows with every combination of owner and
  rank and with nulls, both dialects, one edit at any point; in the other scene
  one request, one person, an invitation, three calls about memberships by two
  handlers. One request at a time: requests do not write what others read, except
  rows, and the properties speak of the table at the statement.
- `guard`: two keys, two requests, two processes, limit 1, window 2, a local map
  of one key, and three bounds: four requests within three ticks and one edit;
  one request among four edits (issue a machine key, rotate or revoke, revoke
  the account takes three); three decisions of two subjects on a log that tracks
  one.
- `factors`: two browsers, two requests at once, a TOTP factor with two backup
  codes, two rows for the passkeys of one authenticator, a device, lifetimes of
  one or two steps, and five bounds: enrolment and codes (five requests within
  two steps of the first); passkeys (six, enough for two rows of one credential
  and an assertion); the gate while a device is remembered and forgotten (three),
  and while marks and devices expire and factors, the roster and sessions go (two
  requests, four instants); and impersonation (five, in three). Two verifications
  or two starts may overlap anywhere, and both exceptions are met.
- `store`: five secrets (every table and the one a provision adds), two
  processes, two executions of the script, two writes or one fault; two databases at a limit
  of two, two ledger rows, four tasks, two faults, so that a name is released and
  used again around a release that hangs.

`CHECK_DEADLOCK FALSE` appears where a bound stops the model and not the
system: tokens the hub may issue (`SdkSession`), clock ticks and keys
(`SigningKeys`), ticks and failures (`LoginThrottle`), links and epochs
(`AccountAccess`), edits and calls (`DataGateway`), ticks, requests and edits
(`ApiGuard`), ticks and requests (`AdminFactors`), steps, writes and tasks
(`Provisioning`).

Fairness, used only by the three liveness properties:

- `CallsReturn`: the event loop runs what is ready, storage answers, and the
  15 s timer ends a fetch. Weak fairness of each caller and each refresh is
  enough, since nothing another does takes their next step away. The hub is not
  fair: it may never answer.
- `EventuallySettled`: the drain is called every minute (`docs/runbooks.md:15`),
  a row that is being sent is sent to its end (a fetch ends after 8 s), retry
  times pass. The claim is weakly fair as a whole: a pass that may run until it
  does, does, and which rows it takes is the ORDER BY's choice and nobody's
  fairness. Operators, failing statements and deaths are not fair; the property
  is about endpoints whose passes neither die nor overlap, next to others whose
  passes do.
- `StaleIsReplaced`: statements are answered, requests end, time passes. That
  somebody asks for the app again and again is a premise of the property, not
  an assumption: nothing else replaces an adapter.

## 4. Proofs

The theorems hold for every value of the constants that satisfies the module's
assumptions: any number of users, tokens, keys, apps, requests, processes.
Finiteness is assumed only where something is counted: of the requests in
progress, the bounds and the processes of `ApiGuard` and `DecisionLog`. The
assumptions otherwise type the constants and keep the values that stand for
"nothing" apart from the rest, unless said below. Each
invariant was checked by TLC on the instance of the run before it was proved.

Every proof has the same shape: a type invariant, an inductive invariant that
says what a request between two statements still relies on, a lemma per action,
and one step per disjunct of `Next`. The property follows from the invariant.

| theorem | statement | under |
|---|---|---|
| **`RefreshTokensProofs`** | | |
| `TypeCorrect` | `Spec => []TypeOK` | |
| `Coherent` | `Spec => []FamilyCoherent` | |
| `Lineage` | `Spec => []LineageBurned` | |
| `DeadFinal` | `Spec => DeadStaysDead` | |
| `OneLive` | `Spec => []AtMostOneLive` | |
| `KillFinal` | `Spec => []KilledStaysDead` | |
| `FamiliesImplemented` | `Spec => FamilySpec` | |
| `NobodyActsOnLostAuthority` | `GatewaySpec => []NoStaleAuthority` | |
| **`SdkSessionProofs`** | | |
| `TypesLast`, `TypeCorrect` | `Spec => []Types`, `[]TypeOK` | |
| `EndedStaysQuiet` | `Spec => StopsPresenting` | |
| `TokensInHand` | `Spec => []TokenInv` | `OneManager` |
| `ReuseNeedsLoss` | `Spec => []ReuseMeansLoss` | `OneManager` |
| `LiveTokenHeld` | `Spec => []HoldsLiveToken` | `OneManager` |
| `MachineKeysStayTied` | `GuardSpec => MachineKeysObey` | |
| `RefusalsAreEarned` | `GuardSpec => []RefusalsEarned` | |
| `TwiceTheLimitAtMost` | `GuardSpec => []TwiceAtMost` | |
| `EveryDecisionAccounted` | `GuardSpec => []Accounted` | |
| **`SigningKeysProofs`** | | |
| `TypeCorrect`, `KeysLast` | `Spec => []TypeOK`, `[]KeyInv` | |
| `KeysOutlive` | `Spec => []TokensVerify` | |
| `CacheTrustIsBrief` | `Spec => []TrustIsBrief` | |
| `CacheRefusesNone` | `Spec => []NoFalseReject` | |
| **`WebhookQueueProofs`** | | |
| `TasksCorrect`, `TypeCorrect` | `Spec => [](TypeOK /\ Busy)`, `[]TypeOK` | |
| `BreakerHolds` | `Spec => []BreakerTrips` | |
| `AccountKept` | `Spec => []QueueInv` | |
| `SendsAreBounded` | `Spec => []SendsBounded` | |
| `SettledIsFinal` | `Spec => SettledStaysSettled` | |
| **`ConnectionResolverProofs`** | | |
| `TypeCorrect`, `AdaptersOwned` | `Spec => []TypeOK`, `[]IdInv` | |
| `OwnDatabaseOnly` | `Spec => []OwnDatabase` | |
| `NothingLeaks` | `Spec => []NoLeak` | |
| `EditsTakeEffect` | `Spec => []EditTakesEffect` | |
| **`AccountAccessProofs`** | | |
| `TasksCorrect`, `TypeCorrect` | `Spec => []TaskInv`, `[]TypeOK` | |
| `LinkResetsOnce` | `Spec => []OneReset` | |
| `LaterLinkOnly` | `Spec => []OneLink` | |
| `SweepsLast` | `Spec => []SweptClean` | |
| `NobodyNowhere` | `MemberSpec => []NeverNowhere` | |
| `ThrottleTyped` | `ThrottleSpec => []ThrottleTypeOK` | |
| `NobodyElseLocks` | `ThrottleSpec => []OnlyOwnFailuresLock` | |
| `CurveKept` | `ThrottleSpec => []GuessesArePaced` | |
| `LocksStand` | `ThrottleSpec => LockStands` | |
| **`AdminFactorsProofs`** | | |
| `TypesLast` | `Spec => []Types` | |
| `RecordStands` | `Spec => EndedStands` | |
| `GateLasts`, `GateIsEarned` | `Spec => []GateInv`, `[]GateEarned` | |
| `OpenLasts`, `OneAtATime` | `Spec => []OpenInv`, `[]OneOpen` | |
| `UsesLast`, `ProofsPassOnce` | `Spec => []UseInv`, `[]OneUse` | |
| **`ProvisioningProofs`** | | |
| `SecretsKept` | `Spec => []SecretInv` | |
| `AlwaysOpenable` | `Spec => []Openable` | |
| `NeverReverted` | `Spec => []NothingReverted` | |
| `LedgerStands` | `Spec => []LedgerInv` | |
| `DatabasesAreKnown` | `Spec => []NoUnknownOrphan` | |
| `ReleasedMeansGone` | `Spec => []ReleasedIsGone` | |

The arguments, and why each invariant is needed.

**Refresh tokens.** `FamilyCoherent` is about the table and the hands of the
requests; to be inductive it must also know that ids in use have been drawn
(a login draws fresh ones) and that a request between statements holds the row
its token had: that is `Inv`. `LineageBurned` needs more of a request about to
mint: its token is burned or purged already, and a token not drawn has no row
and no child (`LineageInv`). `AtMostOneLive` is false of overlapping rotations,
so `SerialInv` says of a family outside `Overlap` that one request at most is
rotating it, that while one stands before its insert the family has no usable
token but the one being burned, and that a killed family has none at all; the
guard of `Present` keeps the first part. `DeadStaysDead` follows from `Inv`
step by step: the two actions that insert a usable row need a fresh family or a
rotation in progress. The refinement follows from `SerialInv`: the mapping is
`Holding` and `Turning`, and each action of the table is shown to be one step of
`TokenFamily` for the family it is about, or a stutter.

**SDK session.** After the end of a session only a caller with a pair in hand
can ask for a refresh, and it has one from a read that began before the end:
those are in `early` (`EarlyInv`), whatever the storage and however many
managers. `TokenInv` says where a burned token may be while no answer was lost
and no read overtaken: in the memory of a manager whose refresh was granted,
whose answer will replace it, and elsewhere, in the storage or in the hands of a
caller that read it, only where it is `Harmless`: whoever goes on with it finds
`cached` set to something else or the session ended, and so has been overtaken.
`OneManager` is needed, not convenient: two managers over one storage present the
same pair, and so can trip reuse detection with nothing lost.

**Signing keys.** A request that read a key as active at time `s` can rely on it
until `s + Window` (`Lasting`): a rotation that overlaps it retires the key a
window after a later time. So a token signed by a request of at most `Delay`
expires before its key is retired, which is `WindowCovers`, the one assumption
with content: `TTL + Tolerance + Delay < Window`. A cache adds `Recent`: the keys
it keeps were trusted when it loaded them; and `Found`: a verification that has
loaded the keys has its token's among them, or the token has expired.

**Webhooks.** A delivery outside the shaky endpoints is in the hands of one
worker, since a pass gives each of its rows a worker of its own and takes no row
of a calm endpoint that another holds, and for every stage of an attempt the invariant says how many of the
POSTs made so far its row already counts (`StageOK`): all but the worker's own.
`BreakerTrips` needs only that whoever crosses the threshold disables the
endpoint next, for any overlap.

**Resolver.** `IdInv` ties every caller, build and pool entry to the app its
adapter was built for; while a build for an app is in flight the pool holds
nothing for it, so a second insert, which would leak the first, cannot be. Which
entry is evicted plays no part. `EditInv` is about the apps outside `Unruly`: a
pool entry that is stale has an edit under way that will discard it.

**Accounts.** A link is in the hands of one redeemer, and before that of none
(`ResetInv`), because its burn is one conditional UPDATE. A sweep of epoch `e`
has, of the kinds it has swept, left nothing older than `e`, neither in the table
nor in the hands of a request that knows of no sweep (`SweepInv`).

**Memberships.** A person who belongs somewhere is moved by one transfer at
most, and that one has added the new membership before it removes the old
(`HomeInv`). `MemberSpec` is what a system that serves these requests may do to
these tables; every step of `DataGateway` is one of them or leaves the tables
alone, which TLC confirmed on the instance of the `gateway` run, where
`MemberSpec` holds as a property.

**Data requests.** A request past the look at its membership saw its caller
among the members since it came, and one past the look at its roles saw a grant
that carries the permission (`Checked`); `seen` only grows while a request is in
progress, so neither is ever forgotten, whatever administrators edit.

**Guard.** A service account's key passes only as the account allows because of
`KeysTied`: a key somebody holds is linked to the account it was issued for, or
is one that `rotateApiKey` made and cut loose; one that is not linked yet is in
the hands of a job and shown to nobody. The link of a key never changes again,
so what a request read of it is still so when the account is read.

The two layers of the limit are sums over the past, and each needs to know what
a counter stands for. `Counted` says it from below: what was asked since a
window opened covers what the window counted and what is on its way to the
counter (`ToCount`), so a refusal has more than the limit of requests behind it.
`Paced` says it from above: a row is `Closed`, and nothing was passed of late,
or `Opened` at some instant, and what was passed since then is at most what it
let through, and since a window earlier at most that and the limit of one window
more. A late request may open a window that begins before the statement that
opens it, which is why the instant of the opening is kept apart from the begin
of the window. Where `Delay` is more than half a window the stretch of
`TwiceAtMost` is empty (`NarrowIsEmpty`); otherwise `Wide` holds and two windows
are all it can meet. An attempt to prove the property for a whole window at any
`Delay` failed for a reason that TLC confirmed at a delay of 2: a late request
counts in the next window. The property now says how much shorter the stretch is.

**Decision log.** The balance of a subject's summaries is an equation between three tallies
and a sum over the processes. A step touches one process, and is shown to move
as much into one side as out of the other (`Balanced`): a record into a window,
a flush out of it, a process that goes out of it into the losses.

Both rest on lemmas about sums over finite sets (`Total`). That a fold is the sum
it looks like is an induction; it is done here by looking at the smallest set for
which it fails (`LeastSubset`), which needs no induction theorem.

**Throttle.** Each row is one the curve makes of its count (`RowOK`), and the
curve grows (`Curve`): its exponent is capped at 30, so that powers of two grow
is thirty cases and no induction. `CountInv` adds to a counter the failures
still to be counted (`Uncounted`): together they are no more than the failures
there were, and neither is what an open write will store, so overlaps lose
failures and never invent one. `PaceInv` is about the addresses outside `Unruly`:
the counter, or what the request in progress will make of it (`Coming`), knows
every guess of the run, or the run has decayed; and a request past its check
found no lock. A sweep takes a row only when it has decayed for every request
there is, which is where `CounterOutlivesLock` is needed; without it the sweep
would end locks, and a counter would forget while its lock stands.

**Gate and factors.** The gate needs only what each place in it has seen, and
that a session's mark has a proof at most `Delay` older behind it (`GateInv`).
`UseInv` says of every verification in progress that it still finds what it read,
unless another holds or held the same factor or challenge with it: what has been
accepted is spent in its row or consumed with its challenge, or its key is in
`crossed`. `OpenInv` says of a start about to insert that what is open beside it
was inserted by one that was about to insert with it. Nothing is assumed of what
overlaps.

**Secrets.** Nothing is assumed of the operator's order either. `SecretInv` says
that the keys of the processes follow the steps done (`Deploys`), that every row
is sealed under the version it names, and under the new one only once that was
given out or the script writes (`Sealing`), and that what an execution read of a
row whose version is still the same is the secret last shown, or one replaced
under that version (`ScriptsOK`). That a row can be opened is then a matter of
where the keys are, which is all `Openable` claims; that none is lost would need
the script to have seen every row, which the runbook's order does not give
(`key_removal`).

**Ledger.** The rows, the tasks and the databases that stand name each other
(`LedgerInv`), by name and by how often the name was created: that is what makes
`ReleasedIsGone` survive a name used again.

### Only model-checked

- The liveness properties `CallsReturn`, `EventuallySettled` and
  `StaleIsReplaced`: fairness and `ENABLED` are out of the prover's reach.
- `DataGateway`: `TouchesWithinPolicy` and `FullAnswer` speak of what a compiled
  statement selects, whose conditions and parameters are sequences of any length
  put together by concatenation.
  `TouchesWithinPolicy` is not true of every set of drafts: an ordering of a deny
  policy against an attribute that is null compiles, as its negation does, to
  `IS NOT NULL` (`policy.ts:229`), so the rows the deny names are the rows its
  negation lets through. TLC finds that step as soon as a draft orders a column
  by `workspace_id` and the caller has no workspace. The drafts of `MCDataGateway`
  compare an attribute only for equality, and a theorem would have to assume as
  much of the deny policies.
- The percentile of a histogram, which is checked over every sample of up to four
  latencies.
- The pool's bound and its order (`lru`), kept with `SelectSeq`: no run states a
  property of them.

## 5. Where code and words part

One disagreement is a run. `key_removal` follows `docs/runbooks.md`, section 2:
the script of step 5 reads a table once (`rotate-master-key.mjs:205`) while
processes go on sealing with the old version until step 6, so a secret written
behind the script is left under a key that step 8 removes, after the checks of
step 7 were all green.

The models contain the following as well, and no run singles them out.

Tokens and sessions:

- two overlapping rotations of one token both mint (`Burn` does not test
  `used_at`), which is why `AtMostOneLive` is about families outside `Overlap`;
  for the same reason a rotation between its burn and its insert survives reuse
  detection, which tells its caller "every session in this family has been
  revoked" (`refresh-tokens.ts:144`);
- a sign-out that runs between the burn and the insert of a rotation of the same
  session answers while a usable token is about to appear;
- `createServerClient` looks for `access_token` in the hub's answer
  (`server-client.ts:108`), which has `accessToken` (`tokens.ts:245-252`); the
  tests mock the former (`server-client.test.ts:137`), and a granted refresh
  ends the session;
- a `getAccessToken` whose `storage.load` began before a refresh puts the burned
  pair back in memory (`token-manager.ts:105`), and one that waits there goes on
  after `endSession` and refreshes: on memory storage too, where the await takes
  one turn of the event loop. A refresh answered after `signOut` writes the
  storage that was cleared;
- two managers over one storage, one per request as `token-manager.ts:27` asks,
  refresh the same pair;
- two first uses or two rotations of signing keys that overlap leave two active
  ones, the older for good: no read-and-insert of `signing-keys.ts` takes a lock,
  and only the newest active key is ever retired. `TokensVerify` holds all the
  same.

Webhooks and databases:

- a dropped delivery goes back in the queue when `markAttemptFailed` throws after
  its first statement: the catch records a refusal by the receiver
  (`webhook-dispatch.ts:93`) over the status (`webhooks.ts:303`);
- the breaker disables an endpoint whose count a success has just reset;
- a pass takes the 25 oldest due rows of all endpoints (`webhooks.ts:255-256`), so
  25 older rows whose pass dies before its UPDATE, minute after minute, starve
  every newer delivery;
- a delivery is signed with the one secret the claimed row had, although
  `parseSignatureHeader` reads several "so a secret can be rotated without
  dropping deliveries" (`core/webhook.ts:85`): one claimed before a rotation may
  be refused, and a 401 drops it;
- a build in flight puts an adapter of a replaced configuration into the pool
  after `invalidate` (`resolver.ts:58`); `EditTakesEffect` excepts it and
  `StaleIsReplaced` bounds its life. The resolver may also take the provider of
  one row and the connection string of the next, and between the two statements
  of an edit (`database-configs.ts:53`) an app has no primary.

People:

- guesses in flight together all pass a lock the first of them sets, and failures
  that overlap count as one, which is why the pacing is about requests that
  follow one another; `POST /api/v1/auth/token` signs in without asking the
  throttle at all (`auth/token/route.ts:107`);
- no code reads the lifecycle status: a suspended or offboarded person signs in
  again (`getUserStatus` has no caller), offboarding leaves memberships, and
  `reinstateUser` leaves `purge_after` set;
- two resets of a person without a credential row create two
  (`recovery.ts:119`);
- an invitation that is revoked while it is accepted ends up both, and the member
  joins; one whose acceptance dies after the mark is spent with nobody joined;
- two opposite transfers of one person that overlap leave them in neither app;
- the default role goes only to who was new at a sign-in: somebody who joined by
  an invitation, or whose first sign-in died after `addMember`, never gets it.
  `assignRole` over an expired grant changes nothing.

Policies and keys:

- comparisons with a null attribute compile to `IS NOT NULL`, their negations
  too, and a negated deny hides null rows; the two readings of a condition differ
  on `neq` of a null; an update has no check of the row it leaves behind;
- a key with `admin` reads but does not write through the data route, which looks
  for `db:write` literally (`data/[resource]/route.ts:80`);
- `rotateApiKey` drops the service account (and the expiry), so "Every key that
  speaks for it dies with it" (`service-accounts.ts:83`) is not so of a rotated
  key; it copies from revoked keys, and two rotations leave two live
  replacements;
- a local refusal does not imply that the shared counter would refuse
  (`rate-limit.ts:12-15`), since the windows are not aligned;
- "Denials are written immediately, one row each" (`lib/decision-log.ts:4`): a
  denial of `checkAccess` on the data route has two, its own
  (`auth/src/access.ts:98`, `:122`) and the one of `recordDecision`
  (`lib/decision-log.ts:49`), and the window's summary counts it as well; `drain`
  forgets `dropped` unreported, though the comment says "the gap is
  visible".

Administration:

- verifications that overlap pass twice on one TOTP step, backup code or
  challenge, and a lower step written last reopens a higher one
  (`mfa.ts:168-175`, `webauthn.ts:34-54`); two starts of an impersonation that
  overlap leave two (`impersonation.ts:63-73`). Both happen in `factors`, whose
  properties except them by what they held;
- the proof the gate asks for is one of this browser: a session signed in again
  meanwhile is marked in the model, and not in the code;
- a passkey registered twice has two rows: `credential_id` has an index and no
  constraint (`schema/mfa.ts:47`);
- activating or removing a factor and forgetting devices ask for a session only,
  not for a step-up; a passkey is looked up whether its row is verified or not;
- in the order of the runbook (steps 5 and 6), of the script's header
  (`rotate-master-key.mjs:24`) and of its last message (`:289-293`), processes
  lack the new key from the first row the script reseals until their restart, and
  a webhook secret replaced under version 1 between the script's select and its
  update is put back, since the WHERE compares the version alone (`:257-258`).
  With the key and the version in every process before the script runs, neither
  would happen, nor the loss of `key_removal`; no document asks for that order;
- the header of `queries/provisioning.ts` asks to record before creating, and
  `lib/provisioning.ts` creates first; a create whose answer is lost is known to
  nobody; a release that dies leaves a row `releasing` that `listReclaimable`
  does not list; a late release of a Turso name deletes the next database of that
  name;
- these have no caller and are modelled as somebody's direct call, if at all:
  `revokePlatformAdmin`, `setDefaultRole`, `provisionForApp`,
  `releaseAppResources`, `refreshQuotas`, `removeMember` and the operations of
  `queries/lifecycle.ts`.

## 6. Not modelled

Cryptography, password rules, mail and webhook payloads: only their outcome
matters to the models. The OAuth code grant and the roles copied into access
tokens, which no check reads. In the query grammar, projection, ordering, limits,
joins, `in` and nested conditions, and the raw SQL of the query route, of which
only the guard is modelled. Cross-origin headers and the comparison of the
internal secret: one request, no state. Rendering; the audit log, which nothing
reads back; single-row administration of apps and workspaces; operations without
a caller that add nothing (regenerating backup codes, purging challenges, revoking
one device); environment scripts and drills.

## 7. Plan

The modules of the plan are written, and the theorems that were planned for
`RefreshTokens`, `ConnectionResolver`, `WebhookQueue`, `SigningKeys`,
`MasterKey`, `Membership` and `AdminFactors` are proved, and with them those of
`SdkSession`, `AccountAccess`, `LoginThrottle`, `Provisioning`, `ApiGuard` and
`DecisionLog`. What is left: `TouchesWithinPolicy` and `FullAnswer` of
`DataGateway`, whose lemmas are about the operators of `Policy`: that `InOrder`
lists a finite set of policies, that `Alternatives` has the alternatives of its
arguments, and that the placeholders number the comparisons one by one. The
first needs the rank of a policy in a finite strict order, the last the position
of a comparison among those bound before it; the theorem assumes that no deny
policy orders a column by an attribute that may be null (section 4).
