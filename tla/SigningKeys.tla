---------------------------- MODULE SigningKeys ----------------------------
(***************************************************************************)
(* The keys access tokens are signed with: provisioning, rotation and purge *)
(* in packages/db/src/queries/signing-keys.ts, signing and verification     *)
(* with its public-key cache in packages/auth/src/tokens.ts and            *)
(* packages/core/src/jwt.ts, and the JWKS route.                           *)
(*                                                                         *)
(* Every SQL statement is a step, nothing runs in a transaction, and a      *)
(* worker keeps what it read.  Kids are numbered in the order of their      *)
(* insert, which is the order of not_before.  There is one clock, so the    *)
(* test for tokens issued in the future never fires; every caller asks for  *)
(* an access token of its own app and for no scope.                         *)
(***************************************************************************)
EXTENDS Naturals, FiniteSets

CONSTANTS
    Workers,          \* requests and operator commands in progress at once
    MaxKey,           \* bound: the most keys a scene has
    MaxTime,          \* bound: clock ticks
    MaxTokens,        \* bound: tokens in use at once
    Apps,             \* audiences
    TTL,              \* DEFAULT_ACCESS_TOKEN_TTL_SECONDS (10 min)
    Tolerance,        \* clockToleranceSeconds (30 s)
    Window,           \* retireAfterSeconds (24 h)
    CacheTTL,         \* JWKS_CACHE_TTL_MS (30 s)
    Delay,            \* bound: ticks one request or command may last
    Scenes,           \* bounds: keys provisioned and apps, of one behaviour each
    Crashes           \* may a writer die between two statements?

ASSUME KeyBounds ==
    /\ {MaxKey, MaxTime, MaxTokens, TTL, Tolerance, Window, CacheTTL, Delay} \subseteq Nat
    /\ Scenes \subseteq [keys : 0 .. MaxKey, apps : SUBSET Apps]
    /\ Crashes \in BOOLEAN
ASSUME WindowCovers == TTL + Tolerance + Delay < Window

VARIABLES
    now,
    born,             \* kids provisioned so far are 1 .. born
    status, retiresAt,
    tokens,           \* access tokens not yet refused as expired: [key, exp, aud]
    cache,            \* the public keys one server process keeps
    worker,
    gone,             \* history: when a key was set to 'retired'
    rejected,         \* history: a good token was refused
    scene             \* the member of Scenes this behaviour is in

vars == <<now, born, status, retiresAt, tokens, cache, worker, gone, rejected, scene>>

Kids == 1 .. MaxKey

NoKey == 0
NoToken == [key |-> NoKey, exp |-> 0, aud |-> NoKey]

\* key: what a writer read; token, app: what is verified, and for whom.
Idle == [pc |-> "idle", key |-> NoKey, keys |-> {}, token |-> NoToken,
         app |-> NoKey, since |-> 0]

\* The pcs from which a worker will still write to the table.
Writing == {"provision", "reload", "rotate", "mint", "retire", "purge", "jwks"}

Active == {k \in Kids : status[k] = "active"}
Trusted == {k \in Kids : status[k] \in {"active", "retiring"}}   \* listPublicSigningKeys

\* loadActiveRow: ORDER BY not_before DESC LIMIT 1.
Newest(S) == IF S = {} THEN NoKey ELSE CHOOSE k \in S : \A j \in S : j <= k

Init ==
    /\ now = 0 /\ born = 0
    /\ status = [k \in Kids |-> "unborn"]
    /\ retiresAt = [k \in Kids |-> 0]
    /\ tokens = {}
    /\ cache = [keys |-> {}, at |-> 0, filled |-> FALSE]
    /\ worker = [w \in Workers |-> Idle]
    /\ gone = [k \in Kids |-> 0]
    /\ rejected = FALSE
    /\ scene \in Scenes

Begin(w, pc) == worker' = [worker EXCEPT ![w] = [Idle EXCEPT !.pc = pc, !.since = now]]
Goto(w, pc)  == worker' = [worker EXCEPT ![w].pc = pc]
Finish(w)    == worker' = [worker EXCEPT ![w] = Idle]

table == <<born, status, retiresAt, gone>>
reads == <<cache, rejected>>

\* INSERT of a new active key.
Provision ==
    /\ born < scene.keys
    /\ born' = born + 1
    /\ status' = [status EXCEPT ![born + 1] = "active"]
    /\ UNCHANGED <<retiresAt, gone>>

-----------------------------------------------------------------------------
(* issueAccessToken *)

\* getActiveSigningKey reads the active row, or finds none.
SignLoad(w) ==
    /\ worker[w].pc = "idle"
    /\ IF Active # {}
         THEN worker' = [worker EXCEPT ![w] =
                [Idle EXCEPT !.pc = "sign", !.key = Newest(Active), !.since = now]]
         ELSE Begin(w, "provision")
    /\ UNCHANGED <<now, scene, table, tokens, reads>>

SignProvision(w) ==
    /\ worker[w].pc = "provision"
    /\ Provision
    /\ Goto(w, "reload")
    /\ UNCHANGED <<now, scene, tokens, reads>>

SignReload(w) ==
    /\ worker[w].pc = "reload"
    /\ IF Active # {}
         THEN worker' = [worker EXCEPT ![w].pc = "sign", ![w].key = Newest(Active)]
         ELSE Finish(w)
    /\ UNCHANGED <<now, scene, table, tokens, reads>>

signAccessToken(k, app) == [key |-> k, exp |-> now + TTL, aud |-> app]

\* A token for the app the credential belongs to.
Sign(w) ==
    /\ worker[w].pc = "sign" /\ Cardinality(tokens) < MaxTokens
    /\ \E a \in scene.apps : tokens' = tokens \cup {signAccessToken(worker[w].key, a)}
    /\ Finish(w)
    /\ UNCHANGED <<now, scene, table, reads>>

-----------------------------------------------------------------------------
(* rotateSigningKey, purgeRetiredSigningKeys, GET /api/jwks *)

\* The key to retire, read before the new one exists; NoKey when there is none.
RotateLoad(w) ==
    /\ worker[w].pc = "idle"
    /\ worker' = [worker EXCEPT ![w] =
         [Idle EXCEPT !.pc = "mint", !.key = Newest(Active), !.since = now]]
    /\ UNCHANGED <<now, scene, table, tokens, reads>>

RotateMint(w) ==
    /\ worker[w].pc = "mint"
    /\ Provision
    /\ IF worker[w].key = NoKey THEN Finish(w) ELSE Goto(w, "retire")
    /\ UNCHANGED <<now, scene, tokens, reads>>

\* Mutant: no window.
RotateRetireAtOnce(w) ==
    /\ worker[w].pc = "retire"
    /\ status' = [status EXCEPT ![worker[w].key] = "retiring"]
    /\ retiresAt' = [retiresAt EXCEPT ![worker[w].key] = now]
    /\ Finish(w)
    /\ UNCHANGED <<now, scene, born, gone, tokens, reads>>

\* UPDATE ... WHERE kid: whatever the status has become.
RotateRetire(w) ==
    /\ worker[w].pc = "retire"
    /\ status' = [status EXCEPT ![worker[w].key] = "retiring"]
    /\ retiresAt' = [retiresAt EXCEPT ![worker[w].key] = now + Window]
    /\ Finish(w)
    /\ UNCHANGED <<now, scene, born, gone, tokens, reads>>

Lapsed(k) == status[k] = "retiring" /\ retiresAt[k] <= now

PurgeSelect(w) ==
    /\ worker[w].pc = "idle"
    /\ \E k \in Kids : Lapsed(k)
    /\ worker' = [worker EXCEPT ![w] = [Idle EXCEPT
         !.pc = "purge", !.keys = {k \in Kids : Lapsed(k)}, !.since = now]]
    /\ UNCHANGED <<now, scene, table, tokens, reads>>

\* One UPDATE for each row selected, WHERE status = 'retiring'.
PurgeOne(w) ==
    /\ worker[w].pc = "purge"
    /\ \E k \in worker[w].keys :
         /\ status' = [status EXCEPT ![k] =
                         IF @ = "retiring" THEN "retired" ELSE @]
         /\ gone' = [gone EXCEPT ![k] = IF status[k] = "retiring" THEN now ELSE @]
         /\ IF worker[w].keys = {k}
              THEN Finish(w)
              ELSE worker' = [worker EXCEPT ![w].keys = @ \ {k}]
    /\ UNCHANGED <<now, scene, born, retiresAt, tokens, reads>>

\* The JWKS route found no key to publish and creates one.
JwksList(w) ==
    /\ worker[w].pc = "idle"
    /\ Trusted = {}
    /\ Begin(w, "jwks")
    /\ UNCHANGED <<now, scene, table, tokens, reads>>

JwksProvision(w) ==
    /\ worker[w].pc = "jwks"
    /\ Provision
    /\ Finish(w)
    /\ UNCHANGED <<now, scene, tokens, reads>>

-----------------------------------------------------------------------------
(* verifyToken and its cache *)

\* Mutant: the cache never goes stale.
FreshForever == cache.filled

Fresh == cache.filled /\ now < cache.at + CacheTTL

Expired(t, at) == at > t.exp + Tolerance

\* verifyAccessToken: the checks in their order; the key comes first.
verifyAccessToken(t, keys, app) ==
    CASE t.key \notin keys -> "unknown signing key"
      [] t.key \in keys /\ t.aud # app -> "wrong audience"
      [] t.key \in keys /\ t.aud = app -> IF Expired(t, now) THEN "expired" ELSE "valid"

\* A token is refused that its own app asked about in time.
Wrongly(t, app, verdict) == verdict # "valid" /\ t.aud = app /\ now <= t.exp

\* Mutant: a fresh cache is believed when it does not know the kid.
VerifyStartOnce(w, t, app) ==
    /\ worker[w].pc = "idle"
    /\ verifyAccessToken(t, IF Fresh THEN cache.keys ELSE {}, app) = "unknown signing key"
    /\ IF Fresh
         THEN rejected' = (rejected \/ Wrongly(t, app, "unknown signing key")) /\ UNCHANGED worker
         ELSE /\ worker' = [worker EXCEPT ![w] = [Idle EXCEPT
                   !.pc = "load", !.token = t, !.app = app, !.since = now]]
              /\ UNCHANGED rejected
    /\ UNCHANGED <<now, scene, table, tokens, cache>>

\* A token arrives and the cache cannot answer at once.  A stale cache is
\* loaded again, an unknown kid forces a load.
VerifyStart(w, t, app) ==
    /\ worker[w].pc = "idle"
    /\ verifyAccessToken(t, IF Fresh THEN cache.keys ELSE {}, app) = "unknown signing key"
    /\ worker' = [worker EXCEPT ![w] = [Idle EXCEPT
         !.pc = IF Fresh THEN "force" ELSE "load",
         !.token = t, !.app = app, !.since = now]]
    /\ UNCHANGED <<now, scene, table, tokens, reads>>

\* The SELECT of loadPublicKeys.
VerifyLoad(w) ==
    /\ worker[w].pc \in {"load", "force"}
    /\ worker' = [worker EXCEPT
         ![w].pc = IF @ = "load" THEN "loaded" ELSE "forced", ![w].keys = Trusted]
    /\ UNCHANGED <<now, scene, table, tokens, reads>>

\* The rows go to the cache with the time of now, and the token is verified
\* against them.  Only the first attempt is made again, and only for a kid.
VerifyStore(w) ==
    /\ worker[w].pc \in {"loaded", "forced"}
    /\ cache' = [keys |-> worker[w].keys, at |-> now, filled |-> TRUE]
    /\ LET verdict == verifyAccessToken(worker[w].token, worker[w].keys, worker[w].app)
           again == verdict = "unknown signing key" /\ worker[w].pc = "loaded"
       IN  /\ IF again THEN Goto(w, "force") ELSE Finish(w)
           /\ rejected' = (rejected \/ (~again /\ Wrongly(worker[w].token, worker[w].app, verdict)))
    /\ UNCHANGED <<now, scene, table, tokens>>

-----------------------------------------------------------------------------
\* A writer dies between two statements.
Crash(w) ==
    /\ Crashes /\ worker[w].pc # "idle"
    /\ Finish(w)
    /\ UNCHANGED <<now, scene, table, tokens, reads>>

\* Time passes; no request outlives Delay.  Tokens past use are forgotten.
Tick ==
    /\ now < MaxTime
    /\ \A w \in Workers : worker[w].pc # "idle" => now < worker[w].since + Delay
    /\ now' = now + 1
    /\ tokens' = {t \in tokens : ~Expired(t, now + 1)}
    /\ UNCHANGED <<table, reads, worker, scene>>

Next ==
    \/ \E w \in Workers :
         \/ SignLoad(w) \/ SignProvision(w) \/ SignReload(w) \/ Sign(w)
         \/ RotateLoad(w) \/ RotateMint(w) \/ RotateRetire(w)
         \/ PurgeSelect(w) \/ PurgeOne(w)
         \/ JwksList(w) \/ JwksProvision(w)
         \/ \E t \in tokens, app \in scene.apps : VerifyStart(w, t, app)
         \/ VerifyLoad(w) \/ VerifyStore(w) \/ Crash(w)
    \/ Tick

Spec == Init /\ [][Next]_vars

-----------------------------------------------------------------------------
(* Properties *)

Token == [key : Kids, exp : Nat, aud : Apps]

Request ==
    [pc : {"idle", "sign", "load", "loaded", "force", "forced"} \cup Writing,
     key : Kids \cup {NoKey}, keys : SUBSET Kids, token : Token \cup {NoToken},
     app : Apps \cup {NoKey}, since : Nat]

\* Types; the rows of the table are the keys provisioned so far.
TypeOK ==
    /\ now \in Nat /\ born \in 0 .. MaxKey
    /\ status \in [Kids -> {"unborn", "active", "retiring", "retired"}]
    /\ \A k \in Kids : status[k] = "unborn" <=> k > born
    /\ retiresAt \in [Kids -> Nat] /\ gone \in [Kids -> Nat]
    /\ tokens \subseteq Token
    /\ cache \in [keys : SUBSET Kids, at : Nat, filled : BOOLEAN]
    /\ worker \in [Workers -> Request]
    /\ rejected \in BOOLEAN
    /\ scene \in Scenes

\* "Never delete a key immediately - tokens it signed are still in flight"
\* (signing-keys.ts:105): whatever rotations and purges overlap with a
\* signature, a token that is not past its expiry and the tolerance was signed
\* by a key every verifier can still load.
TokensVerify == \A t \in tokens : t.key \in Trusted

\* "A cache miss on an unknown kid forces a reload" (tokens.ts:91): the cache
\* never makes a process refuse a token of its app that has not expired.
NoFalseReject == ~rejected

\* A fresh cache vouches for a retired key no longer than its TTL, plus the
\* time the load that filled it may have taken.
TrustIsBrief ==
    \A k \in cache.keys :
      Fresh /\ status[k] = "retired" => now <= gone[k] + CacheTTL + Delay

=============================================================================
