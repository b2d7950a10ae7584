----------------------------- MODULE MCPolicyHost -----------------------------
(***************************************************************************)
(* Small instances of the policies of PolicyHost and of LimiterCache.      *)
(***************************************************************************)
EXTENDS PolicyHost, MCBackendJwt, MCLimiterCache, TLC

VARIABLE follows   \* what this behaviour follows: a policy, or the limiter cache

gatewayVars == <<follows, hostVars, vars>>

GatewayInit ==
    /\ follows \in {"policies", "limiters"}
    /\ HostInit /\ Init
    /\ follows = "limiters" => policy = "routing"

GatewayNext ==
    \/ follows = "policies" /\ HostNext /\ UNCHANGED <<follows, vars>>
    \/ follows = "limiters" /\ Next /\ UNCHANGED <<follows, hostVars>>

GatewaySpec == GatewayInit /\ [][GatewayNext]_gatewayVars

-----------------------------------------------------------------------------
\* Model routing: plain and weighted, suspensions of 0, 2 and 30 (default) seconds,
\* two providers of one model, a weight that is refused, every location of the model.
Whole(n) == [type |-> "int", whole |-> TRUE, int |-> n]
Model(p, m, w) == [provider |-> p, model |-> m, weight |-> Whole(w)]
RawPlain == [models |-> <<Model("", "a", 1), Model("x", "a", 1), Model("", "b", 1)>>,
             suspend |-> {Whole(2)}, location |-> "payload", identifier |-> "id"]
RawWeighted == [RawPlain EXCEPT !.models = <<Model("", "a", 2), Model("x", "a", 1)>>, !.location = "pathParam"]
MCRouteConfigs ==
    {[kind |-> "roundRobin", raw |-> RawPlain],
     [kind |-> "roundRobin", raw |-> [RawPlain EXCEPT !.suspend = {}, !.location = "queryParam"]],
     [kind |-> "weighted", raw |-> RawWeighted],
     [kind |-> "weighted", raw |-> [RawPlain EXCEPT !.suspend = {Whole(0)}, !.location = "header"]],
     [kind |-> "weighted", raw |-> [RawPlain EXCEPT !.models = <<Model("", "a", 0)>>, !.location = "header"]]}
MCRoutePaths == {[form |-> "plain", parts |-> 2, parses |-> TRUE, matches |-> TRUE],
                 [form |-> "badEscape", parts |-> 1, parses |-> TRUE, matches |-> FALSE]}

-----------------------------------------------------------------------------
\* GCRA: two limits at once on both backends, a burst above the limit, a limit of one
\* (its burst by default), a limit whose Redis entry would live less than a second, and configurations that are refused.
Limit(l, d, b) == [limit |-> l, duration |-> d, burst |-> b]
MCGcraConfigs ==
    {[backend |-> b, client |-> TRUE, limits |-> <<Limit(2, 2, 3), Limit(2, 4, 4)>>] : b \in {"memory", "redis"}}
    \union {[backend |-> "redis", client |-> TRUE, limits |-> <<Limit(2, 2, 4)>>],
            [backend |-> "redis", client |-> TRUE, limits |-> <<Limit(1, 1, 1)>>],
            [backend |-> "memory", client |-> FALSE, limits |-> <<Limit(1, 2, 0)>>],
            [backend |-> "redis", client |-> FALSE, limits |-> <<Limit(3, 3, 4)>>],
            [backend |-> "memory", client |-> FALSE, limits |-> <<>>]}

-----------------------------------------------------------------------------
\* Subscriptions: tokens and an application with the id of a token, an hourly and a
\* daily plan, the day longer than the eviction TTL.  A policy that names a cookie and
\* policies that leave the cookie lookup disabled.
MCSubParams == {[header |-> "blank", cookie |-> "session"]}
               \union {[header |-> "K", cookie |-> c] : c \in {"absent", "blank", "bad"}}
SubRequest(h, ck, app) == [headers |-> h, cookies |-> ck, app |-> app, apiKnown |-> TRUE]
MCSubRequests ==
    {SubRequest([x \in {"K", "Subscription-Key"} |-> "t1"], <<>>, "t2"),
     SubRequest([x \in {} |-> ""], <<[name |-> "other", value |-> "o"], [name |-> "session", value |-> "t2"]>>, "t1"),
     SubRequest([x \in {} |-> ""], <<>>, "t1")}
HourPlan == [name |-> "gold", limit |-> 1, unit |-> "hour", stop |-> TRUE]
DayPlan == [HourPlan EXCEPT !.unit = "day"]
MCSubscriptions == <<"token", "t1">> :> HourPlan @@ <<"token", "t2">> :> DayPlan @@ <<"application", "t1">> :> HourPlan
MCWindowTicks == "min" :> 1 @@ "hour" :> 2 @@ "day" :> 7

-----------------------------------------------------------------------------
\* Delegates: templates that read the costs elsewhere, one quota without valid limits.
Template(p, c, t) == [state |-> "ok", spec |-> [promptTokens |-> p, completionTokens |-> c, totalTokens |-> t]]
MCTemplates == {Template("header", "payload", "payload"), Template("payload", "metadata", "absent")}
MCTokenParams ==
    {[consumerBased |-> FALSE, limits |-> [prompt_tokens |-> <<>>, completion_tokens |-> <<"bad">>, total_tokens |-> <<"l">>]]}

Num(n) == [type |-> "number", int |-> n]
NotNum == [type |-> "text", int |-> 0]
CostP(b, s, r) == [budgetLimits |-> b, systemScale |-> s, rootScale |-> r, storage |-> "memory"]
MCCostParams ==
    {CostP(<<Num(1), NotNum, Num(2)>>, NotNum, NotNum), CostP(<<Num(1), NotNum, Num(2)>>, NotNum, Num(10)),
     CostP(<<NotNum>>, Num(10), Num(20))}

Rule(n) == [object |-> TRUE, name |-> n, limits |-> 1]
List(s) == [state |-> "list", items |-> s]
McpRules == [tools |-> List(<<Rule(""), Rule("t1")>>), resources |-> List(<<Rule("u1")>>),
             prompts |-> [state |-> "absent", items |-> <<>>], methods |-> List(<<Rule("tools/call")>>)]
MCMcpConfigs == {McpRules, [McpRules EXCEPT !.tools = List(<<[Rule("") EXCEPT !.limits = 0]>>)]}
Member(n, i) == [name |-> n, is |-> i]
ToolCall == [post |-> TRUE, state |-> "json", members |-> <<Member("method", "method"), Member("params", "params")>>,
             params |-> <<Member("name", "name")>>, method |-> "tools/call", family |-> "tools", name |-> "t1"]
MCMcpBodies ==
    {ToolCall, [ToolCall EXCEPT !.name = "t2"], [ToolCall EXCEPT !.params = <<Member("Name", "name")>>],
     [ToolCall EXCEPT !.state = "broken"], [ToolCall EXCEPT !.post = FALSE],
     [ToolCall EXCEPT !.method = "resources/read", !.family = "resources", !.name = "u1"]}

-----------------------------------------------------------------------------
\* JWT: an endpoint that replaces its key; a remote and a local key manager; two
\* configurations of one API that admit different issuers, and ones that deny.
PublicKey(id, kid, kty) == [id |-> id, kid |-> kid, kty |-> kty, crv |-> "P-256", encoded |-> TRUE]
OldKey == PublicKey("old", "k1", "RSA")
MCJwksSets == <<{OldKey, PublicKey("x", "", "RSA")},
                {PublicKey("new", "k2", "EC"), [PublicKey("y", "k1", "EC") EXCEPT !.crv = "P-224"]}>>
NoLocal == [state |-> "none", key |-> OldKey]
RemoteKM == [name |-> "km1", issuer |-> "issA", remote |-> "u1", tls |-> TRUE, local |-> NoLocal,
             scopeClaim |-> "", separator |-> ""]
LocalKM == [RemoteKM EXCEPT !.name = "km2", !.issuer = "", !.remote = "", !.scopeClaim = "roles", !.separator = ",",
                            !.local = [state |-> "ok", key |-> PublicKey("cert", "", "EC")]]
Unconstrained == [malformed |-> FALSE, allOf |-> {}, anyOf |-> {}]
StrictApi == [api |-> "a", configured |-> TRUE, scheme |-> "Bearer", keyManagers |-> <<RemoteKM, LocalKM>>,
              validateIssuer |-> TRUE, issuers |-> <<>>, leeway |-> 1, retryCount |-> 1, tokenCaching |-> TRUE,
              audiences |-> {}, scopes |-> Unconstrained, claims |-> Unconstrained,
              requiredScopes |-> {}, requiredClaims |-> {}]
MCJwtParams ==
    {StrictApi,
     [StrictApi EXCEPT !.issuers = <<"km2", "issB">>, !.scopes.anyOf = {"read"},
                       !.requiredClaims = {[claim |-> "team", value |-> "t"]}],
     [StrictApi EXCEPT !.claims.malformed = TRUE],
     [StrictApi EXCEPT !.keyManagers = <<[RemoteKM EXCEPT !.tls = FALSE]>>, !.scheme = "", !.tokenCaching = FALSE]}
Text(items) == [kind |-> "string", items |-> items, sep |-> ",", text |-> "text"]
OldToken == [wellFormed |-> TRUE, exp |-> {}, nbf |-> {}, iss |-> "issA", kid |-> "k1", alg |-> "RS256",
             signedBy |-> "old", claims |-> [roles |-> Text({"read", "write"}), team |-> [Text({"t"}) EXCEPT !.text = "t"]]]
MCJwtTokens == {OldToken, [OldToken EXCEPT !.exp = {2}, !.kid = "", !.alg = "ES256", !.signedBy = "cert"]}
MCJwtHeaders == {<<"Bearer", "TOKEN">>, <<"TOKEN">>}
=============================================================================
