------------------------------- MODULE JwtAuth -------------------------------
(***************************************************************************)
(* jwt-auth: bearer tokens are verified against the local certificates and *)
(* the remote JWKS of the key managers.  One instance serves all APIs: it  *)
(* caches the key sets by URI and the verdicts by configuration and token. *)
(* Requests interleave at the JWKS fetches; the endpoint changes its keys, *)
(* replies late or fails; deployments swap the verdict cache; time passes. *)
(* The durations are system parameters, the same for all APIs.             *)
(***************************************************************************)
EXTENDS LruCache, FiniteSets

CONSTANTS
    JwtParams,         \* the parameters of the APIs, old and new deployments
    JwtTokens,         \* the tokens
    JwtHeaders,        \* values of the authorization header, as words; <<>>: none
    JwksSets,          \* key sets the endpoints may publish, a sequence: at first the first
    JwksUris,          \* endpoints
    JwksCacheTtl, JwksFetchTimeout, TokenCacheTtl, NegativeCacheTtl,
    JwtCacheSizes,     \* values of cacheMaxSize
    DefaultTokenCacheMaxSize,
    JwtCallers,        \* concurrent requests
    MaxJwtRequests, MaxRotations, JwtHorizon

ASSUME JwtAssumption ==
    /\ {JwksCacheTtl, JwksFetchTimeout, TokenCacheTtl, NegativeCacheTtl} \subseteq Nat \ {0}
    /\ DefaultTokenCacheMaxSize \in Nat \ {0} /\ JwtCacheSizes \subseteq Int
    /\ JwksSets \in Seq(ToSet(JwksSets)) /\ JwksSets # <<>>
    /\ \A p \in JwtParams :
          /\ p.leeway \in Nat /\ p.retryCount \in Int
          /\ p.issuers \in Seq(ToSet(p.issuers)) /\ p.keyManagers \in Seq(ToSet(p.keyManagers))
          /\ \A km \in ToSet(p.keyManagers) : km.remote \in JwksUris \union {""}
    /\ \A t \in JwtTokens : \A times \in {t.exp, t.nbf} :
          times \subseteq Int /\ \A m, n \in times : m = n

VARIABLES
    published,   \* the endpoints' key sets
    withdrawn,   \* key -> when the endpoints stopped publishing it
    jwksStore,   \* cacheStore and cacheTTLs: per URI, at most one {[keys, ttl]}
    verdicts,    \* tokenCache, least recently used first: [key, verdict] records
    cacheSize,   \* tokenCacheSize
    jwtClock,
    jwt,         \* the requests under way
    outlived,    \* history: the acceptances that relied on a withdrawn key for too long
    wronged,     \* history: the answers that a verification would not have given
    jwtCount,    \* requests so far, without those answered at once that left no trace
    rotations    \* key changes so far

jwtVars == <<published, withdrawn, jwksStore, verdicts, cacheSize, jwtClock, jwt,
             outlived, wronged, jwtCount, rotations>>

NoJwt == [pc |-> "idle"]

-----------------------------------------------------------------------------
(* Keys and signatures.                                                    *)

\* parseRSAPublicKey, parseECPublicKey: a key that cannot be decoded, or is on an
\* unknown curve or off its curve, is not usable.
ParsesAsKey(k) == k.encoded /\ (k.kty = "RSA" \/ (k.kty = "EC" /\ k.crv \in {"P-256", "P-384", "P-521"}))

\* fetchJWKS, the key set: keys without an id, of other types or broken are dropped.
fetchJWKS(set) == {k \in set : k.kid # "" /\ ParsesAsKey(k)}

\* signatureKeyFunc: the signing method has to fit the type of the key.
signatureKeyFunc(k, t) ==
    (k.kty = "RSA" /\ t.alg \in {"RS256", "PS256"}) \/ (k.kty = "EC" /\ t.alg = "ES256")

\* The jwt library's ParseWithClaims: the signature, and exp and nbf once more.
ParseWithClaims(t, k, leeway) ==
    /\ signatureKeyFunc(k, t) /\ t.signedBy = k.id
    /\ \A e \in t.exp : jwtClock < e + leeway
    /\ \A n \in t.nbf : n - leeway <= jwtClock

\* The keys a token is tried with: the one its kid names, all when it has none.
TriedKeys(keys, t) == IF t.kid = "" THEN keys ELSE {k \in keys : k.kid = t.kid}

-----------------------------------------------------------------------------
(* The configuration of a request.                                         *)

\* The keyManagers parameter: entries without a name, without keys, or with a
\* certificate that cannot be loaded are skipped; of two with one name the last counts.
Loads(km) ==
    /\ km.name # "" /\ (km.remote # "" => km.tls) /\ km.local.state # "bad"
    /\ (km.remote # "" \/ km.local.state = "ok")
keyManagers(p) ==
    {p.keyManagers[i] : i \in {j \in DOMAIN p.keyManagers :
        /\ Loads(p.keyManagers[j])
        /\ \A l \in j+1..Len(p.keyManagers) :
              Loads(p.keyManagers[l]) => p.keyManagers[l].name # p.keyManagers[j].name}}

\* extractToken: the word after the scheme; without a scheme the second word, or the
\* only one.
extractToken(words, scheme) ==
    IF scheme # "" THEN IF Len(words) = 2 /\ words[1] = scheme THEN words[2] ELSE ""
    ELSE CASE words = <<>> -> ""
           [] Len(words) = 1 -> words[1]
           [] OTHER -> words[2]

\* Which key managers verify a token, in which order: a sequence of sets, each tried in
\* any order (Go maps).  The configured issuers name key managers or issuers; without
\* them one that has the token's issuer; else wildcards, or all when lenient.
applicableKeyManagers(p, t) ==
    LET all == keyManagers(p)
        of(iss) == {km \in all : km.issuer = iss}
        named(i) == {km \in all : km.name = i /\ km.issuer \in {"", t.iss}}
        valued(i) == IF i = t.iss THEN of(i) ELSE {}
    IN  IF p.issuers # <<>>
        THEN {[n \in 1..2 * Len(p.issuers) |->
                 LET i == p.issuers[(n + 1) \div 2] IN IF n % 2 = 1 THEN named(i) ELSE valued(i)]}
        ELSE IF t.iss # "" /\ of(t.iss) # {} THEN {<<{km}>> : km \in of(t.iss)}
        ELSE IF ~p.validateIssuer THEN {<<all>>}
        ELSE IF t.iss # "" THEN {<<of("")>>}
        ELSE {<<{}>>}

\* Mutant: the configured issuers are left out.
FingerprintWithoutIssuers(p) == <<p.api, p.keyManagers, p.validateIssuer, p.leeway>>

\* tokenConfigFingerprint: all of the configuration that a verdict depends on.  The code
\* joins the fields with "|" and the issuers with ","; the tuple supposes that no issuer
\* holds a comma, which would make two lists of issuers one string.
tokenConfigFingerprint(p) == <<p.api, p.keyManagers, p.validateIssuer, p.issuers, p.leeway>>
buildTokenCacheKey(p, t) == <<tokenConfigFingerprint(p), t>>

-----------------------------------------------------------------------------
(* Claims: functions from names to values.  A string value is its items    *)
(* joined by a separator (text names the whole), an array its items.       *)

NoClaim == [kind |-> "absent", items |-> {}, sep |-> " ", text |-> ""]
Claim(t, c) == IF c \in DOMAIN t.claims THEN t.claims[c] ELSE NoClaim
Words(v, sep) == IF v.sep = sep \/ Cardinality(v.items) < 2 THEN v.items ELSE {v.text}

\* parseAudience: a string or an array.
parseAudience(v) == CASE v.kind = "string" -> {v.text}
                      [] v.kind = "array" -> v.items
                      [] OTHER -> {}

\* parseScopes: the legacy claims, a string and an array, together.
parseScopes(scope, scp) ==
    (IF scope.kind = "string" THEN Words(scope, " ") ELSE {}) \cup (IF scp.kind = "array" THEN scp.items ELSE {})

\* parseScopeClaim, resolveScopes: the claim the key manager configures, else the legacy.
parseScopeClaim(v, sep) ==
    CASE v.kind = "string" -> Words(v, IF sep = "" THEN " " ELSE sep)
      [] v.kind = "array" -> v.items
      [] OTHER -> {}
resolveScopes(t, km) ==
    IF km.scopeClaim # "" THEN parseScopeClaim(Claim(t, km.scopeClaim), km.separator)
    ELSE parseScopes(Claim(t, "scope"), Claim(t, "scp"))

\* resolveScopeConstraints, resolveClaimConstraints: the new parameter unless it is
\* empty, then the deprecated one.
IsEmpty(c) == c.allOf = {} /\ c.anyOf = {}
resolveScopeConstraints(p) ==
    IF ~IsEmpty(p.scopes) THEN p.scopes ELSE [p.scopes EXCEPT !.anyOf = p.requiredScopes]
resolveClaimConstraints(p) ==
    IF ~IsEmpty(p.claims) THEN p.claims
    ELSE [p.claims EXCEPT !.allOf = {[claim |-> c.claim, values |-> {c.value}, legacy |-> TRUE] : c \in p.requiredClaims}]

\* parseClaimMatchers: a matcher without a claim or without values is an error.
parseClaimMatchers(ms) == \A m \in ms : m.claim # "" /\ m.values # {}
MalformedConstraints(p) ==
    \/ p.scopes.malformed \/ p.claims.malformed
    \/ ~parseClaimMatchers(p.claims.allOf \cup p.claims.anyOf)

\* claimMatcherMatches: a legacy matcher compares strings only.
claimValuesAsStrings(v) ==
    (IF v.kind = "array" THEN v.items ELSE {v.text}) \ {""}
claimMatcherMatches(m, t) ==
    LET v == Claim(t, m.claim)
    IN  IF m.legacy THEN v.kind = "string" /\ v.text # "" /\ v.text \in m.values
        ELSE claimValuesAsStrings(v) \cap m.values # {}

\* evaluateScopeConstraints, evaluateClaimConstraints.
evaluateScopeConstraints(sc, scopes) ==
    sc.allOf \subseteq scopes /\ (sc.anyOf # {} => sc.anyOf \cap scopes # {})
evaluateClaimConstraints(cc, t) ==
    /\ \A m \in cc.allOf : claimMatcherMatches(m, t)
    /\ cc.anyOf # {} => \E m \in cc.anyOf : claimMatcherMatches(m, t)

\* finishAuthentication: what is decided anew on every request.
finishAuthentication(p, t, scopes) ==
    /\ p.audiences # {} => p.audiences \cap parseAudience(Claim(t, "aud")) # {}
    /\ evaluateScopeConstraints(resolveScopeConstraints(p), scopes)
    /\ evaluateClaimConstraints(resolveClaimConstraints(p), t)

-----------------------------------------------------------------------------
(* The verdict cache.                                                      *)

\* getCachedVerdict: at most one verdict, not expired; a read makes it the newest (LRU),
\* an expired one is deleted.
Cached(key) == {v \in ToSet(verdicts) : v.key = key /\ jwtClock < v.expiresAt}
getCachedVerdict(key) == IF Cached(key) = {} THEN LruDelete(verdicts, key) ELSE LruTouch(verdicts, key)

\* putVerdict: into the cache that is current now; a full one drops its oldest entry.
putVerdict(key, v) ==
    LruPut(verdicts, cacheSize,
           [key |-> key, ok |-> v.ok, km |-> v.km, scopes |-> v.scopes, expiresAt |-> v.expiresAt])

Expiry(t, leeway) == {e - leeway : e \in t.exp} \cup {jwtClock + TokenCacheTtl}
FirstExpiry(t, leeway) == CHOOSE x \in Expiry(t, leeway) : \A y \in Expiry(t, leeway) : x <= y

-----------------------------------------------------------------------------
(* A request.                                                              *)

\* handleAuthFailureHeaders, handleAuthSuccessHeaders: the answer, with what it was
\* given for and how long ago the token's key was withdrawn; a key that a key manager of
\* the API holds as a local certificate is not withdrawn by the endpoints.
LocalIds(p) == {km.local.key.id : km \in {m \in keyManagers(p) : m.local.state = "ok"}}
Lag(p, t) ==
    IF t.signedBy \in DOMAIN withdrawn \ LocalIds(p) THEN jwtClock - withdrawn[t.signedBy] ELSE 0
Answer(q, result, km, cached) ==
    [pc |-> "done", params |-> q.params, token |-> q.token, result |-> result, km |-> km,
     cached |-> cached, lag |-> Lag(q.params, q.token)]
Denied(q) == Answer(q, "denied", "", FALSE)
Decide(q, km, scopes, cached) ==
    Answer(q, IF finishAuthentication(q.params, q.token, scopes) THEN "accepted" ELSE "denied", km, cached)

\* A rejection that is final for the token, malformed or expired, is cached.
Reject(q, key) ==
    [verdicts |-> IF q.params.tokenCaching
                  THEN putVerdict(key, [ok |-> FALSE, km |-> "", scopes |-> {}, expiresAt |-> jwtClock + NegativeCacheTtl])
                  ELSE verdicts,
     jwt |-> Denied(q)]

TokenExpired(t, leeway) == \E e \in t.exp : jwtClock > e + leeway
NotYetValid(t, leeway) == \E n \in t.nbf : jwtClock < n - leeway

\* How an answer is judged: an acceptance may rely on a withdrawn key while a reply was
\* under way, a cached key set and then a cached verdict lived, each used strictly before
\* it expires; it needs a token within its validity that meets the API's constraints and
\* a key manager the configuration admits; a cached rejection needs a reason that lasts.
Outlives(q) ==
    q.result = "accepted" /\ q.lag > JwksFetchTimeout + (JwksCacheTtl - 1) + (TokenCacheTtl - 1)
Admitted(q) ==
    {km \in UNION {UNION ToSet(s) : s \in applicableKeyManagers(q.params, q.token)} : km.name = q.km}
Fulfils(q) == \E km \in Admitted(q) : finishAuthentication(q.params, q.token, resolveScopes(q.token, km))
Unsound(q) ==
    IF q.result = "accepted"
    THEN \/ \E e \in q.token.exp : jwtClock >= e + q.params.leeway
         \/ \E n \in q.token.nbf : jwtClock < n - q.params.leeway
         \/ ~Fulfils(q)
    ELSE /\ q.cached /\ q.token.wellFormed
         /\ ~TokenExpired(q.token, q.params.leeway)
         /\ Admitted(q) = {} \/ Fulfils(q)

\* A step of a request that ends it with an answer, or goes on.
Outcome(r, o) ==
    /\ verdicts' = o.verdicts
    /\ jwt' = [jwt EXCEPT ![r] = IF o.jwt.pc = "done" THEN NoJwt ELSE o.jwt]
    /\ outlived' = outlived \union {q \in {o.jwt} : q.pc = "done" /\ Outlives(q)}
    /\ wronged' = wronged \union {q \in {o.jwt} : q.pc = "done" /\ Unsound(q)}
Kept(cache, rec) == [verdicts |-> cache, jwt |-> rec]

\* OnRequestHeaders after a cache miss, up to the first key manager.
Examine(r, q, key, cache) ==
    LET p == q.params
    IN  IF keyManagers(p) = {} THEN Outcome(r, Kept(cache, Denied(q)))
        ELSE IF ~q.token.wellFormed \/ TokenExpired(q.token, p.leeway) THEN Outcome(r, Reject(q, key))
        ELSE IF NotYetValid(q.token, p.leeway) THEN Outcome(r, Kept(cache, Denied(q)))
        ELSE \E todo \in applicableKeyManagers(p, q.token) :
                Outcome(r, Kept(cache, [q EXCEPT !.todo = todo]))

\* OnRequestHeaders up to there: configuration, header, cached verdict.  Callers are
\* alike: the first idle one.
JwtRequest(r) ==
    /\ jwt[r].pc = "idle" /\ r = CHOOSE c \in JwtCallers : jwt[c].pc = "idle"
    /\ jwtCount < MaxJwtRequests
    /\ \E p \in JwtParams, t \in JwtTokens, words \in JwtHeaders :
          LET q == [pc |-> "verify", params |-> p, token |-> t, todo |-> <<>>, km |-> {},
                    attempt |-> 0, reply |-> {}, due |-> 0]
              key == buildTokenCacheKey(p, t)
          IN  IF ~p.configured \/ MalformedConstraints(p) \/ words = <<>> \/ extractToken(words, p.scheme) = ""
              THEN Outcome(r, Kept(verdicts, Denied(q)))
              ELSE IF ~p.tokenCaching THEN Examine(r, q, key, verdicts)
              ELSE IF Cached(key) = {} THEN Examine(r, q, key, getCachedVerdict(key))
              ELSE \E v \in Cached(key) :
                      Outcome(r, [verdicts |-> getCachedVerdict(key),
                                  jwt |-> IF v.ok THEN Decide(q, v.km, v.scopes, TRUE)
                                          ELSE Answer(q, "denied", "", TRUE)])
    /\ jwtCount' = IF <<verdicts, jwt>>' = <<verdicts, jwt>> THEN jwtCount ELSE jwtCount + 1
    /\ UNCHANGED <<published, withdrawn, jwksStore, cacheSize, jwtClock, rotations>>

\* On to the next key manager.
NextManager(q) == [q EXCEPT !.pc = "verify", !.km = {}, !.attempt = 0, !.reply = {}, !.due = 0]

\* A key manager's keys verify the token: the verdict is cached for as long as the token
\* is valid and at most its time to live; the next key manager is tried otherwise.
Verify(q, km, tried) ==
    LET p == q.params
        t == q.token
        scopes == resolveScopes(t, km)
        until == FirstExpiry(t, p.leeway)
    IN  IF \E k \in tried : ParseWithClaims(t, k, p.leeway)
        THEN [verdicts |-> IF p.tokenCaching /\ until > jwtClock
                           THEN putVerdict(buildTokenCacheKey(p, t),
                                           [ok |-> TRUE, km |-> km.name, scopes |-> scopes, expiresAt |-> until])
                           ELSE verdicts,
              jwt |-> Decide(q, km.name, scopes, FALSE)]
        ELSE Kept(verdicts, NextManager(q))

\* Mutant: a cached key set is used whatever its age.
JwksHitStale(uri) == jwksStore[uri]

\* fetchJWKSWithRetry, the cache: the key set of the URI while its time to live lasts.
JwksHit(uri) == {e \in jwksStore[uri] : jwtClock < e.ttl}

\* validateTokenWithSignature, one round of its loop: the local certificate alone if
\* there is one, else the cached key set, else a fetch.
JwtVerify(r) ==
    LET q == jwt[r]
        left == {i \in DOMAIN q.todo : q.todo[i] # {}}
    IN  /\ q.pc = "verify"
        /\ IF left = {} THEN Outcome(r, Kept(verdicts, Denied(q)))
           ELSE \E i \in left : (\A j \in left : i <= j) /\ \E km \in q.todo[i] :
                  LET next == [q EXCEPT !.todo = [j \in DOMAIN q.todo |-> q.todo[j] \ {km}], !.km = {km}]
                  IN  IF km.local.state = "ok" THEN Outcome(r, Verify(next, km, {km.local.key}))
                      ELSE IF q.params.retryCount < 0 THEN Outcome(r, Kept(verdicts, NextManager(next)))
                      ELSE IF JwksHit(km.remote) # {}
                      THEN \E e \in JwksHit(km.remote) : Outcome(r, Verify(next, km, TriedKeys(e.keys, q.token)))
                      ELSE Outcome(r, Kept(verdicts, [next EXCEPT !.pc = "fetch"]))
        /\ UNCHANGED <<published, withdrawn, jwksStore, cacheSize, jwtClock, jwtCount, rotations>>

\* The endpoint answers the GET with what it publishes now; the reply is under way for
\* at most the client's timeout.
JwksServe(r) ==
    /\ jwt[r].pc = "fetch"
    /\ \E km \in jwt[r].km :
          jwt' = [jwt EXCEPT ![r].pc = "reply", ![r].reply = published[km.remote],
                             ![r].due = jwtClock + JwksFetchTimeout]
    /\ UNCHANGED <<published, withdrawn, jwksStore, verdicts, cacheSize, jwtClock, jwtCount, rotations, outlived, wronged>>

\* A failed attempt: retried until the retries are used up, then the next key manager.
FetchFailed(q) ==
    IF q.attempt < q.params.retryCount
    THEN [q EXCEPT !.pc = "fetch", !.attempt = @ + 1, !.reply = {}, !.due = 0]
    ELSE NextManager(q)
JwksFails(r) ==
    /\ jwt[r].pc \in {"fetch", "reply"}
    /\ jwt' = [jwt EXCEPT ![r] = FetchFailed(@)]
    /\ UNCHANGED <<published, withdrawn, jwksStore, verdicts, cacheSize, jwtClock, jwtCount, rotations, outlived, wronged>>

\* The reply arrives: its keys, if any, replace the cached ones, whoever fetched those,
\* and verify the token.
JwksReceived(r) ==
    LET q == jwt[r]
        keys == fetchJWKS(q.reply)
    IN  /\ q.pc = "reply"
        /\ IF keys = {}
           THEN Outcome(r, Kept(verdicts, FetchFailed(q))) /\ UNCHANGED jwksStore
           ELSE \E km \in q.km :
                  /\ jwksStore' = [jwksStore EXCEPT ![km.remote] = {[keys |-> keys, ttl |-> jwtClock + JwksCacheTtl]}]
                  /\ Outcome(r, Verify(q, km, TriedKeys(keys, q.token)))
        /\ UNCHANGED <<published, withdrawn, cacheSize, jwtClock, jwtCount, rotations>>

-----------------------------------------------------------------------------
\* GetPolicy, ensureTokenCache: a new size means a new, empty cache.
JwtGetPolicy ==
    /\ \E n \in JwtCacheSizes :
          LET size == IF n <= 0 THEN DefaultTokenCacheMaxSize ELSE n
          IN  size # cacheSize /\ cacheSize' = size
    /\ verdicts' = <<>>
    /\ UNCHANGED <<published, withdrawn, jwksStore, jwtClock, jwt, jwtCount, rotations, outlived, wronged>>

\* The identity provider changes the keys an endpoint publishes.
RotateKeys ==
    /\ rotations < MaxRotations /\ rotations' = rotations + 1
    /\ \E u \in JwksUris, set \in ToSet(JwksSets) :
          /\ set # published[u]
          /\ published' = [published EXCEPT ![u] = set]
    /\ LET ids(f) == {k.id : k \in UNION {f[u] : u \in JwksUris}}
           gone == (DOMAIN withdrawn \cup ids(published)) \ ids(published')
       IN  withdrawn' = [k \in gone |-> IF k \in DOMAIN withdrawn THEN withdrawn[k] ELSE jwtClock]
    /\ UNCHANGED <<jwksStore, verdicts, cacheSize, jwtClock, jwt, jwtCount, outlived, wronged>>

JwtTick ==
    /\ jwtClock < JwtHorizon
    /\ \A r \in JwtCallers : jwt[r].pc = "reply" => jwtClock < jwt[r].due
    /\ jwtClock' = jwtClock + 1
    /\ UNCHANGED <<published, withdrawn, jwksStore, verdicts, cacheSize, jwt, jwtCount, rotations, outlived, wronged>>

JwtInit ==
    /\ published = [u \in JwksUris |-> JwksSets[1]] /\ withdrawn = [k \in {} |-> 0]
    /\ jwksStore = [u \in JwksUris |-> {}] /\ verdicts = <<>> /\ cacheSize = DefaultTokenCacheMaxSize
    /\ jwtClock = 0 /\ jwt = [r \in JwtCallers |-> NoJwt]
    /\ outlived = {} /\ wronged = {} /\ jwtCount = 0 /\ rotations = 0

JwtNext ==
    \/ \E r \in JwtCallers :
          JwtRequest(r) \/ JwtVerify(r) \/ JwksServe(r) \/ JwksFails(r) \/ JwksReceived(r)
    \/ JwtGetPolicy \/ RotateKeys \/ JwtTick

-----------------------------------------------------------------------------
(* Properties.                                                             *)

\* A key an identity provider has withdrawn stops being accepted: at the latest after a
\* reply that was under way, the life of the cached key set and the life of a cached
\* verdict, both used strictly before they expire.  Concurrent fetches whose replies
\* overtake one another, retries and swapped verdict caches do not add to it.
WithdrawnKeyDies == outlived = {}

\* Cached verdicts answer as a verification would: a token accepted, also from the cache,
\* is within its validity, meets the audiences, scopes and claims of the API, and was
\* verified with a key manager this API's configuration admits for its issuer; a token
\* rejected from the cache is malformed, expired or fails the API's constraints.
VerdictsSound == wronged = {}
=============================================================================
