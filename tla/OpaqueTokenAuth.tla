--------------------------- MODULE OpaqueTokenAuth ---------------------------
(***************************************************************************)
(* opaque-token-auth: a bearer token without structure is accepted when an *)
(* authorization server reports it active and the report meets the route's *)
(* requirements.  One instance serves all routes and caches the reports by *)
(* provider and token.  Requests interleave at the introspection calls;    *)
(* the servers revoke tokens and change what they report, reply late or    *)
(* fail; time passes.  What an accepted token stands for is left in the    *)
(* AuthContext (ctx) for the policies that follow: pc "accepted".          *)
(* Durations are system parameters, the same for all routes.               *)
(***************************************************************************)
EXTENDS LruCache, FiniteSets

CONSTANTS
    IntrospectionConfigs,  \* values of introspectionProviders: sequences of entries
    IdentityRoutes,        \* routes with their parameters, old and new deployments
    OpaqueTokens, OpaqueHeaders,
    InitialReports,        \* what each server reports of a token at first, by URI
    ReportChanges,         \* [uri, report] records: what it may come to report
    IntrospectionCacheTtl, IntrospectionNegativeCacheTtl, IntrospectionTimeout, OpaqueLeeway,
    IntrospectionRetryCount,
    OpaqueCacheMaxSize,
    IdentityCallers,       \* concurrent requests
    MaxIdentityWork,       \* requests, one that starts beside another counting twice
    MaxReportChanges, IdentityHorizon

ASSUME OpaqueAssumption ==
    /\ {IntrospectionCacheTtl, IntrospectionTimeout, OpaqueCacheMaxSize} \subseteq Nat \ {0}
    /\ {IntrospectionNegativeCacheTtl, OpaqueLeeway} \subseteq Nat /\ IntrospectionRetryCount \in Int
    /\ \A list \in IntrospectionConfigs :
          /\ list \in Seq(ToSet(list))
          /\ \A e \in ToSet(list) : e.uri \in DOMAIN InitialReports \union {""}
    /\ \A rep \in {InitialReports[u] : u \in DOMAIN InitialReports} \union {c.report : c \in ReportChanges} :
          rep.exp \subseteq Int /\ \A m, n \in rep.exp : m = n

VARIABLES
    providers,         \* provOnce, providers and provErr: {} until a request parsed the configuration
    reports,           \* what the servers report now: uri -> token -> report
    retired,           \* the reports given up: [token, report, at] records
    introspections,    \* cache, least recently used first: [key, result, expiresAt]
    idClock,
    caller,            \* the requests under way
    misled,            \* history: the acceptances and assertions that were wrong
    idCount            \* work so far, without requests that left no trace

opaqueVars == <<providers, reports, retired, introspections, idClock, caller, misled, idCount>>

NoCaller == [pc |-> "idle"]

-----------------------------------------------------------------------------
(* Providers.                                                              *)

\* parseIntrospectionProviders: entries without a name, an introspection object or a URI
\* are skipped, a name given twice is an error, and so are a pattern that does not
\* compile, two ways to authenticate, and a certificate that cannot be loaded.  The
\* providers are kept with their places in the list.
Named(e) == e.object /\ e.name # ""
Introspects(e) == Named(e) /\ e.uri # ""
buildTLSConfig(e) == e.cert # "bad"
parseIntrospectionProviders(list) ==
    [err |-> \/ \E i, j \in DOMAIN list : i # j /\ Named(list[i]) /\ Named(list[j]) /\ list[i].name = list[j].name
             \/ \E e \in ToSet(list) :
                   Introspects(e) /\ (e.pattern = "bad" \/ (e.bearerToken /\ e.clientId) \/ ~buildTLSConfig(e)),
     entries |-> {<<i, list[i]>> : i \in {j \in DOMAIN list : Introspects(list[j])}}]

\* getProviders: the configuration is read once, an error included.
getProviders ==
    IF providers # {} THEN providers ELSE {parseIntrospectionProviders(list) : list \in IntrospectionConfigs}

\* selectProviders: those the route names, by name or by issuer; all without a choice.
selectProviders(entries, issuers) ==
    IF issuers = {} THEN entries
    ELSE {x \in entries : x[2].name \in issuers \/ (x[2].issuer # "" /\ x[2].issuer \in issuers)}

\* filterProvidersByToken: a provider with a pattern is asked about matching tokens only.
filterProvidersByToken(entries, t) == {x \in entries : x[2].pattern = "none" \/ t \in x[2].matches}

\* The providers are asked in the order of the list.
First(todo) == CHOOSE x \in todo : \A y \in todo : x[1] <= y[1]
Provider(todo) == First(todo)[2]
Others(todo) == todo \ {First(todo)}

\* extractToken: the word after the scheme; without a scheme the second or only word.
bearerToken(words, scheme) ==
    IF scheme # "" THEN IF Len(words) = 2 /\ words[1] = scheme THEN words[2] ELSE ""
    ELSE IF words = <<>> THEN "" ELSE words[IF Len(words) > 1 THEN 2 ELSE 1]

-----------------------------------------------------------------------------
(* Reports: active, exp and nbf (sets, empty when absent), and the members *)
(* by name; a string has its words as items, an array its elements.        *)

NoMember == [kind |-> "absent", items |-> {}, text |-> ""]
MemberOf(rep, m) == IF m \in DOMAIN rep.raw THEN rep.raw[m] ELSE NoMember

\* doIntrospect fills the typed fields as far as the types fit.
Typed(rep, m) == IF MemberOf(rep, m).kind = "string" THEN MemberOf(rep, m).text ELSE ""

\* parseAudience, parseScopes, claimValueToString.
audienceOf(rep) ==
    LET v == MemberOf(rep, "aud")
    IN  CASE v.kind = "string" -> {v.text}
          [] v.kind = "array" -> v.items
          [] OTHER -> {}
scopesOf(rep) == UNION {v.items : v \in {w \in {MemberOf(rep, "scope"), MemberOf(rep, "scp")} : w.kind \in {"string", "array"}}}
claimText(rep, m) == MemberOf(rep, m).text

\* buildProperties: the members that are not standard ones.
standardIntrospectionClaims ==
    {"active", "scope", "scp", "client_id", "exp", "iat", "nbf", "sub", "aud", "iss", "jti"}
buildProperties(rep) == [m \in DOMAIN rep.raw \ standardIntrospectionClaims |-> claimText(rep, m)]

\* OnRequestHeaders, the part after the introspection.
MeetsRoute(route, rep) ==
    /\ \A e \in rep.exp : idClock <= e + OpaqueLeeway
    /\ \A n \in rep.nbf : n - OpaqueLeeway <= idClock
    /\ route.audiences # {} => route.audiences \cap audienceOf(rep) # {}
    /\ route.requiredScopes # {} => route.requiredScopes \cap scopesOf(rep) # {}
    /\ \A c \in route.requiredClaims : claimText(rep, c.claim) = c.value

\* handleAuthSuccessHeaders: the AuthContext; TokenId is a fingerprint of the token.
SubjectOf(route, rep) ==
    LET own == claimText(rep, route.userIdClaim)
    IN  IF route.userIdClaim \notin {"", "sub"} /\ own \notin {"", "null"} THEN own ELSE Typed(rep, "sub")
AuthContext(route, rep, t) ==
    [nil |-> FALSE, type |-> "opaque", subject |-> SubjectOf(route, rep), issuer |-> Typed(rep, "iss"),
     audience |-> audienceOf(rep), scopes |-> scopesOf(rep), credential |-> Typed(rep, "client_id"),
     tokenId |-> t, properties |-> buildProperties(rep)]

-----------------------------------------------------------------------------
(* The cache of reports.                                                   *)

introspectionCacheKey(e, t) == <<e.name, t>>

\* A report is used strictly before its expiry; any read makes the entry the newest.
IntrospectionHit(key) == {x \in ToSet(introspections) : x.key = key /\ idClock < x.expiresAt}
Touched(key) == LruTouch(introspections, key)

\* introspect: an active report is kept for the time to live and not past the token's
\* expiry, an inactive one for the negative time to live.
KeepUntil(rep) ==
    IF rep.active
    THEN CHOOSE x \in {idClock + IntrospectionCacheTtl} \cup rep.exp :
            \A y \in {idClock + IntrospectionCacheTtl} \cup rep.exp : x <= y
    ELSE idClock + IntrospectionNegativeCacheTtl
Store(key, rep) ==
    IF KeepUntil(rep) > idClock
    THEN LruPut(introspections, OpaqueCacheMaxSize, [key |-> key, result |-> rep, expiresAt |-> KeepUntil(rep)])
    ELSE introspections

-----------------------------------------------------------------------------
(* A request.                                                              *)

\* How long ago the servers stopped reporting this of a token: nobody does any more, and
\* the last one gave it up then.
Reported(t) == {reports[u][t] : u \in DOMAIN reports}
StaleSince(t, rep) == {x \in retired : x.token = t /\ x.report = rep /\ rep \notin Reported(t)}

\* A report a token was accepted on may be out of date by a reply under way and the life
\* of a cached report, used strictly before its end, and is never used from the cache
\* after the token's expiry.
MaxReportAge == IntrospectionTimeout + IntrospectionCacheTtl - 1
WrongAcceptance(q, rep, cached) ==
    \/ StaleSince(q.token, rep) # {} /\ \A x \in StaleSince(q.token, rep) : idClock - x.at > MaxReportAge
    \/ cached /\ \E e \in rep.exp : idClock >= e
    \/ ~rep.active

\* The answer to a provider's report: accepted or refused when it is active, on to the
\* next provider otherwise.
AfterReport(r, q, rep, cached) ==
    LET ok == MeetsRoute(q.route, rep)
        next == [q EXCEPT !.todo = Others(@), !.attempt = 0, !.reply = {}, !.due = 0, !.pc = "introspect"]
    IN  /\ caller' = [caller EXCEPT ![r] =
              IF ~rep.active THEN next
              ELSE IF ~ok THEN NoCaller
              ELSE [next EXCEPT !.todo = {}, !.pc = "accepted", !.ctx = {AuthContext(q.route, rep, q.token)}]]
        /\ misled' = misled \union
              {x \in {<<q.token, rep>>} : rep.active /\ ok /\ WrongAcceptance(q, rep, cached)}

Busy == {r \in IdentityCallers : caller[r].pc # "idle"}

\* OnRequestHeaders up to the first provider.  handleAuthFailureHeaders answers at once
\* and leaves nothing.  A route may leave authentication to another policy, whose
\* AuthContext is then given.  Callers are alike: the first idle one.
IdentityRequest(r) ==
    /\ caller[r].pc = "idle" /\ r = CHOOSE c \in IdentityCallers : caller[c].pc = "idle"
    /\ idCount + Cardinality(Busy) < MaxIdentityWork
    /\ \E route \in IdentityRoutes, t \in OpaqueTokens, words \in OpaqueHeaders, parsed \in getProviders :
          LET todo == filterProvidersByToken(selectProviders(parsed.entries, route.issuers), t)
              q == [pc |-> "introspect", route |-> route, token |-> t, todo |-> todo, attempt |-> 0,
                    reply |-> {}, due |-> 0, ctx |-> {}]
          IN  /\ providers' = IF route.others # {} THEN providers ELSE {parsed}
              /\ caller' = [caller EXCEPT ![r] =
                    IF route.others # {} THEN [q EXCEPT !.pc = "accepted", !.todo = {}, !.ctx = route.others]
                    ELSE IF parsed.err \/ todo = {} \/ bearerToken(words, route.scheme) = "" THEN NoCaller
                    ELSE q]
    /\ idCount' = IF <<caller, providers>>' = <<caller, providers>> THEN idCount ELSE idCount + 1 + Cardinality(Busy)
    /\ UNCHANGED <<reports, retired, introspections, idClock, misled>>

\* The loop over the providers, at its head: no provider left, or the cached report, or
\* a call.
Introspect(r) ==
    LET q == caller[r]
    IN  /\ q.pc = "introspect"
        /\ IF q.todo = {}
           THEN caller' = [caller EXCEPT ![r] = NoCaller] /\ UNCHANGED <<introspections, misled>>
           ELSE LET key == introspectionCacheKey(Provider(q.todo), q.token)
                IN  IF IntrospectionRetryCount < 0
                    THEN caller' = [caller EXCEPT ![r].todo = Others(@)] /\ UNCHANGED <<introspections, misled>>
                    ELSE /\ introspections' = Touched(key)
                         /\ IF IntrospectionHit(key) = {}
                            THEN /\ caller' = [caller EXCEPT ![r].pc = "ask", ![r].due = idClock + IntrospectionTimeout]
                                 /\ UNCHANGED misled
                            ELSE \E x \in IntrospectionHit(key) : AfterReport(r, q, x.result, TRUE)
        /\ UNCHANGED <<providers, reports, retired, idClock, idCount>>

\* The server answers with what holds now; the client's timeout covers the whole call.
IntrospectionServe(r) ==
    /\ caller[r].pc = "ask"
    /\ caller' = [caller EXCEPT ![r].pc = "reply",
                                ![r].reply = {reports[Provider(caller[r].todo).uri][caller[r].token]}]
    /\ UNCHANGED <<providers, reports, retired, introspections, idClock, misled, idCount>>

\* No connection, a timeout, a status other than 200 or a body that is not JSON: another
\* attempt, the pause before it left out; the next provider when they are used up, or the
\* client has gone.
IntrospectionFails(r) ==
    LET q == caller[r]
    IN  /\ q.pc \in {"ask", "reply"}
        /\ \/ /\ q.attempt < IntrospectionRetryCount
              /\ caller' = [caller EXCEPT ![r].pc = "ask", ![r].attempt = @ + 1, ![r].reply = {},
                                          ![r].due = idClock + IntrospectionTimeout]
           \/ caller' = [caller EXCEPT ![r].pc = "introspect", ![r].todo = Others(@), ![r].attempt = 0,
                                       ![r].reply = {}, ![r].due = 0]
        /\ UNCHANGED <<providers, reports, retired, introspections, idClock, misled, idCount>>

\* doIntrospect and the rest of introspect: the report is cached and used.
IntrospectionReceived(r) ==
    LET q == caller[r]
    IN  /\ q.pc = "reply"
        /\ \E rep \in q.reply :
              /\ introspections' = Store(introspectionCacheKey(Provider(q.todo), q.token), rep)
              /\ AfterReport(r, q, rep, FALSE)
        /\ UNCHANGED <<providers, reports, retired, idClock, idCount>>

\* A server revokes a token or changes what it says of it.
ReportChange ==
    /\ Cardinality(retired) < MaxReportChanges
    /\ \E c \in ReportChanges, t \in OpaqueTokens :
          /\ c.uri \in DOMAIN reports /\ reports[c.uri][t] # c.report
          /\ reports' = [reports EXCEPT ![c.uri][t] = c.report]
          /\ retired' = retired \union {[token |-> t, report |-> reports[c.uri][t], at |-> idClock]}
    /\ UNCHANGED <<providers, introspections, idClock, caller, misled, idCount>>

OpaqueInit ==
    /\ providers = {}
    /\ reports = [u \in DOMAIN InitialReports |-> [t \in OpaqueTokens |-> InitialReports[u]]]
    /\ retired = {} /\ introspections = <<>> /\ idClock = 0
    /\ caller = [r \in IdentityCallers |-> NoCaller] /\ misled = {} /\ idCount = 0

OpaqueNext ==
    \/ \E r \in IdentityCallers :
          IdentityRequest(r) \/ Introspect(r) \/ IntrospectionServe(r) \/ IntrospectionFails(r) \/ IntrospectionReceived(r)
    \/ ReportChange
=============================================================================
