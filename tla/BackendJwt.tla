----------------------------- MODULE BackendJwt -----------------------------
(***************************************************************************)
(* backend-jwt, behind an authentication policy: the AuthContext becomes a *)
(* signed JWT, the assertion, in a header of the upstream request.  One    *)
(* cache of assertions serves all APIs; an entry is kept for half the life *)
(* of the assertion.  exp is in whole seconds.                             *)
(***************************************************************************)
EXTENDS OpaqueTokenAuth, TLC

CONSTANTS
    MinCacheTTL,            \* minCacheTTL, in ticks
    TicksInSecond,
    SignLag,                \* ticks that may pass between signing and caching
    AssertionCacheSizes,    \* values of cacheMaxSize
    DefaultAssertionCacheSize

ASSUME BackendAssumption ==
    /\ {MinCacheTTL, TicksInSecond, DefaultAssertionCacheSize} \subseteq Nat \ {0}
    /\ SignLag \in {0, 1}                      \* signing takes less than a tick
    /\ MinCacheTTL % TicksInSecond = 0         \* 30 seconds
    /\ AssertionCacheSizes \subseteq Int
    /\ \A route \in IdentityRoutes : route.backend.tokenExpiry \in Nat \ {0}

VARIABLES
    assertions,     \* tokenCache, least recently used first: [key, claims, life, exp, expiresAt]
    assertionSize   \* currentMaxSize

backendVars == <<assertions, assertionSize>>
identityVars == <<opaqueVars, backendVars>>

-----------------------------------------------------------------------------
(* The signing key.                                                        *)

\* algorithms: the type of key each needs.
algorithms == [SHA256withRSA |-> "rsa", ES256 |-> "ecdsa", NONE |-> "none"]

\* extractSigningKeyPEM, parsePrivateKey, loadKey: the key inline, else from the file;
\* "" when there is none or it does not parse.  The caches of file contents and parsed
\* keys return what was read and parsed first.
signingKey(b) ==
    CASE b.signingKey.is \in {"absent", "notObject", "neither"} -> ""
      [] b.signingKey.is \in {"inline", "path"} /\ ~b.signingKey.readable -> ""
      [] OTHER -> IF b.signingKey.block \in {"rsa", "ecdsa"} THEN b.signingKey.block ELSE ""
checkKeyType(key, keyType) == key = keyType
Signs(b) ==
    /\ b.algorithm \in DOMAIN algorithms
    /\ algorithms[b.algorithm] = "none" \/ checkKeyType(signingKey(b), algorithms[b.algorithm])

-----------------------------------------------------------------------------
(* Claims, by <<dialect, name>>; those the policy sets itself have none.   *)

restrictedClaims == {"iss", "sub", "aud", "exp", "iat", "nbf", "jti"}
NoClaims == [n \in {} |-> {}]

\* resolveClaimValue: a static value, or what a $ctx reference names; at most one.
resolveClaimValue(v, ctx, op) ==
    CASE v.kind = "static" -> {v.value}
      [] v.kind = "ctx" /\ v.ref \in DOMAIN op.values -> {op.values[v.ref]}
      [] v.kind = "auth" /\ ~ctx.nil ->
            [subject |-> {ctx.subject}, type |-> {ctx.type}, credential_id |-> {ctx.credential}][v.ref]
      [] v.kind = "property" /\ ~ctx.nil /\ v.ref \in DOMAIN ctx.properties -> {ctx.properties[v.ref]}
      [] OTHER -> {}

\* applyClaimMappings: destinations that get a property, and the properties used up.
Mapped(b, ctx) ==
    {d \in DOMAIN b.claimMappings \ restrictedClaims :
        b.claimMappings[d] # "" /\ ~ctx.nil /\ b.claimMappings[d] \in DOMAIN ctx.properties}
applyClaimMappings(b, ctx) == [d \in Mapped(b, ctx) |-> {ctx.properties[b.claimMappings[d]]}]
mappedSources(b, ctx) == {b.claimMappings[d] : d \in Mapped(b, ctx)}

\* applyCustomClaims: strings that resolve, and other values as they are.
Custom(b) == DOMAIN b.customClaims \ restrictedClaims
stringClaims(b, ctx, op) ==
    [k \in {c \in Custom(b) : b.customClaims[c].kind # "raw" /\ resolveClaimValue(b.customClaims[c], ctx, op) # {}}
        |-> resolveClaimValue(b.customClaims[k], ctx, op)]
    @@ applyClaimMappings(b, ctx)
rawClaims(b) == [k \in {c \in Custom(b) : b.customClaims[c].kind = "raw"} |-> {b.customClaims[k].value}]

\* buildClaims without iat and exp: later ones override earlier ones; the properties and
\* scopes of a JWT are passed on.
InDialect(b, f) == [n \in {<<b.dialect, k>> : k \in DOMAIN f} |-> f[n[2]]]
Own(name, values) == IF values \subseteq {""} THEN NoClaims ELSE (<<"", name>> :> values)
forwardedClaims(b, ctx) ==
    [k \in DOMAIN ctx.properties \ (restrictedClaims \cup b.excludedClaims \cup mappedSources(b, ctx))
        |-> {ctx.properties[k]}]
buildClaims(b, ctx, op) ==
    InDialect(b, rawClaims(b)) @@ InDialect(b, stringClaims(b, ctx, op))
    @@ (IF ctx.nil \/ ctx.type # "jwt" THEN NoClaims
        ELSE Own("scope", ctx.scopes) @@ InDialect(b, forwardedClaims(b, ctx)))
    @@ (IF ctx.nil THEN NoClaims
        ELSE Own("sub", {ctx.subject}) @@ Own("auth_type", {ctx.type}) @@ Own("aud", ctx.audience)
             @@ Own("credential_id", {ctx.credential}))
    @@ Own("iss", {b.issuer})

-----------------------------------------------------------------------------
(* The cache of assertions.                                                *)

\* keyClaims: names and values of the configured claims.
keyClaims(b, ctx, op) ==
    {<<k, stringClaims(b, ctx, op)[k]>> : k \in DOMAIN stringClaims(b, ctx, op)}
    \cup {<<k, rawClaims(b)[k]>> : k \in DOMAIN rawClaims(b)}

\* buildTokenCacheKey, the caller: nobody, the token, or all of the identity.
KeyIdentity(ctx) ==
    IF ctx.nil THEN <<"nobody">>
    ELSE IF ctx.tokenId # "" THEN <<"token", ctx.tokenId>>
    ELSE <<"identity", ctx>>

\* Mutant: the configured claims are not part of the key.
KeyWithoutClaims(b, ctx, op) ==
    <<b.api, b.issuer, b.algorithm, b.dialect, b.excludedClaims, KeyIdentity(ctx), op.path, op.method>>

\* buildTokenCacheKey: namespace, the token or the whole identity, path without query,
\* method and configured claims.  The code joins them with NUL, "|" and ","; the tuple
\* supposes that the joined values hold no separator.
assertionKey(b, ctx, op) ==
    <<b.api, b.issuer, b.algorithm, b.dialect, b.excludedClaims, KeyIdentity(ctx), op.path, op.method,
      keyClaims(b, ctx, op)>>

\* getCachedToken: strictly before its expiry, and then the newest; deleted otherwise.
AssertionHit(key) == {a \in ToSet(assertions) : a.key = key /\ idClock < a.expiresAt}
getCachedToken(key) ==
    IF AssertionHit(key) = {} THEN LruDelete(assertions, key) ELSE LruTouch(assertions, key)

\* putCachedToken, the time to live: half the life, at least the floor if that is less
\* than the life.
AssertionTtl(expiry) ==
    IF expiry \div 2 < MinCacheTTL /\ MinCacheTTL < expiry THEN MinCacheTTL ELSE expiry \div 2
putCachedToken(a, expiry) ==
    LruPut(assertions, assertionSize, [a EXCEPT !.expiresAt = idClock + AssertionTtl(expiry)])

-----------------------------------------------------------------------------
(* A request.                                                              *)

\* What an assertion may say of a caller: the identity the AuthContext holds, or, for an
\* opaque token, one the servers report or reported not too long ago: until a report that
\* was then still usable was signed, and the assertion lived in the cache.
MaxAssertionAge(a) ==
    MaxReportAge + SignLag + (IF AssertionTtl(a.life) = 0 THEN 0 ELSE AssertionTtl(a.life) - 1)
TrueReports(t, a) ==
    {rep \in Reported(t) : rep.active}
    \cup {x.report : x \in {y \in retired : y.token = t /\ y.report.active
                                             /\ idClock - y.at <= MaxAssertionAge(a)}}
TrueContexts(route, ctx, a) ==
    IF route.others # {} THEN route.others
    ELSE {AuthContext(route, rep, ctx.tokenId) : rep \in TrueReports(ctx.tokenId, a)}

\* Deployments of one operation of an API that are to say the same of two identities,
\* and these identities those of one caller, as far as configuration shapes the key.
SameAssertion(b1, ctx1, op1, b2, ctx2, op2) ==
    /\ b1.api = b2.api /\ b1.issuer = b2.issuer /\ b1.algorithm = b2.algorithm /\ b1.dialect = b2.dialect
    /\ b1.excludedClaims = b2.excludedClaims /\ op1.path = op2.path /\ op1.method = op2.method
    /\ KeyIdentity(ctx1) = KeyIdentity(ctx2) /\ keyClaims(b1, ctx1, op1) = keyClaims(b2, ctx2, op2)
VouchedFor(q, a) ==
    \E ctx \in q.ctx, route \in IdentityRoutes : \E c \in TrueContexts(route, ctx, a) :
        /\ SameAssertion(q.route.backend, ctx, q.route.operation, route.backend, c, route.operation)
        /\ a.claims = buildClaims(route.backend, c, route.operation)

\* An assertion that has expired, or says what nobody vouches for.  Because exp is cut to
\* whole seconds, lives of a second or of fractions of one are not judged.
WrongAssertion(q, a) ==
    \/ idClock >= a.exp /\ a.life >= 2 * TicksInSecond /\ a.life % TicksInSecond = 0
    \/ ~VouchedFor(q, a)

\* The request goes upstream with the assertion.
Forward(r, q, a) ==
    /\ caller' = [caller EXCEPT ![r] = NoCaller]
    /\ misled' = misled \union {x \in {<<q.token, a>>} : WrongAssertion(q, a)}

\* OnRequestHeaders: an assertion from the cache, or a new one; an error response for an
\* unknown algorithm, and when a new one cannot be signed.
AssertIdentity(r) ==
    LET q == caller[r]
        b == q.route.backend
        fail == caller' = [caller EXCEPT ![r] = NoCaller] /\ UNCHANGED misled
    IN  /\ q.pc = "accepted"
        /\ \E ctx \in q.ctx :
              LET key == assertionKey(b, ctx, q.route.operation)
                  hit == IF b.tokenCaching THEN AssertionHit(key) ELSE {}
                  a == [key |-> key, claims |-> buildClaims(b, ctx, q.route.operation), life |-> b.tokenExpiry,
                        exp |-> ((idClock + b.tokenExpiry) \div TicksInSecond) * TicksInSecond, expiresAt |-> 0]
              IN  IF b.algorithm \notin DOMAIN algorithms THEN fail /\ UNCHANGED assertions
                  ELSE /\ assertions' = IF b.tokenCaching THEN getCachedToken(key) ELSE assertions
                       /\ IF hit # {} THEN \E x \in hit : Forward(r, q, x)
                          ELSE IF ~Signs(b) THEN fail
                          ELSE IF ~b.tokenCaching THEN Forward(r, q, a)
                          ELSE /\ caller' = [caller EXCEPT ![r].pc = "signed", ![r].reply = {a},
                                                           ![r].due = idClock + SignLag]
                               /\ UNCHANGED misled
        /\ UNCHANGED <<providers, reports, retired, introspections, idClock, idCount, assertionSize>>

\* The rest of it: the assertion goes into the cache that is current now.
AssertSigned(r) ==
    LET q == caller[r]
    IN  /\ q.pc = "signed"
        /\ \E a \in q.reply :
              assertions' = putCachedToken(a, q.route.backend.tokenExpiry) /\ Forward(r, q, a)
        /\ UNCHANGED <<providers, reports, retired, introspections, idClock, idCount, assertionSize>>

\* GetPolicy, ensureTokenCache: a new size means a new, empty cache.
BackendGetPolicy ==
    /\ \E n \in AssertionCacheSizes :
          LET size == IF n <= 0 THEN DefaultAssertionCacheSize ELSE n
          IN  size # assertionSize /\ assertionSize' = size
    /\ assertions' = <<>>
    /\ UNCHANGED opaqueVars

\* Time passes, except between the acceptance of a request and its assertion.
IdentityTick ==
    /\ idClock < IdentityHorizon
    /\ \A r \in IdentityCallers :
          caller[r].pc # "accepted" /\ (caller[r].pc \in {"ask", "reply", "signed"} => idClock < caller[r].due)
    /\ idClock' = idClock + 1
    /\ UNCHANGED <<providers, reports, retired, introspections, caller, misled, idCount, backendVars>>

IdentityInit == OpaqueInit /\ assertions = <<>> /\ assertionSize = DefaultAssertionCacheSize

IdentityNext ==
    \/ OpaqueNext /\ UNCHANGED backendVars
    \/ \E r \in IdentityCallers : AssertIdentity(r) \/ AssertSigned(r)
    \/ BackendGetPolicy \/ IdentityTick

-----------------------------------------------------------------------------
\* The upstream is told the truth about the caller.  A token is accepted only on a report
\* that is no older than one reply and one life in the cache of opaque-token-auth, never
\* from the cache past the token's expiry, so that a revoked token dies; the assertion of
\* backend-jwt has not expired, says what its API operation, deployed with this issuer,
\* dialect, excluded and configured claims, is to say of this caller, of whom it was
\* reported at most one more life in its own cache ago, also after redeployments that
\* change the claims and across swaps of the cache.
IdentityCurrent == misled = {}

\* What the comment on buildTokenCacheKey says: a redeployment with any change that
\* affects the token never serves an assertion built from the old configuration.
RedeploymentMisses ==
    \A r \in IdentityCallers : caller[r].pc = "accepted" =>
        LET route == caller[r].route
        IN  \A ctx \in caller[r].ctx :
               \A a \in AssertionHit(assertionKey(route.backend, ctx, route.operation)) :
                  ctx.tokenId = "" => a.claims = buildClaims(route.backend, ctx, route.operation)
=============================================================================
