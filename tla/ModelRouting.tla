---------------------------- MODULE ModelRouting ----------------------------
(***************************************************************************)
(* model-round-robin and model-weighted-round-robin: every request is      *)
(* given the next target (a model, perhaps of a named provider) in turn;   *)
(* a target whose response was an error is suspended for a while.          *)
(*                                                                         *)
(* The two policies differ in the sequence they walk and in how they keep  *)
(* their index; the handlers around them are the same code twice.  Requests*)
(* overlap: a response may come long after later requests were routed.     *)
(***************************************************************************)
EXTENDS Integers, Sequences, FiniteSets, FiniteSetsExt

CONSTANTS
    RouteConfigs,   \* raw parameters, and the kind of policy they are given to
    RoutePaths,     \* the request paths
    RouteBodies,    \* the request bodies: "nil", "notJSON", "noModel" or "ok"
    MaxRouted,      \* bound: requests
    RouteHorizon    \* bound: the clock, in seconds

ASSUME RoutingAssumption == MaxRouted \in Nat /\ RouteHorizon \in Nat

VARIABLES
    route,      \* the policy: kind, the sequence of targets, SuspendDuration, location
    index,      \* currentIndex
    suspended,  \* suspendedModels: target -> end of its suspension
    second,     \* time.Now()
    inFlight,   \* the requests, by number: phase, metadata and what is sent upstream
    failedAt,   \* history: when an error response last came for a target
    decided,    \* history: the last selection, with the targets out of service then
    passedOver  \* history: selections since an available target was last selected

routeVars == <<route, index, suspended, second, inFlight, failedAt, decided, passedOver>>

NoTarget == <<"", "">>
DefaultSuspendDuration == 30
NoRoute == [kind |-> "none", seq |-> <<>>, suspend |-> 0, location |-> "none"]
Rejected == [NoRoute EXCEPT !.kind = "rejected"]
Waiting == [phase |-> "new", target |-> NoTarget, upstream |-> "", model |-> "client", query |-> "none"]

-----------------------------------------------------------------------------
\* Parameters.  A value that is absent, of the wrong type or empty is "bad";
\* an optional integer is a set of at most one element.

\* extractInt: an integer, or a float64 without a fraction.
extractInt(v) == [ok |-> v.type \in {"int", "int64"} \/ (v.type = "float64" /\ v.whole), int |-> v.int]

\* suspensionKey: a model is suspended for one provider at a time.
suspensionKey(m) == <<m.provider, m.model>>

SuspendDuration(raw) ==
    IF raw.suspend = {} THEN DefaultSuspendDuration ELSE extractInt(CHOOSE v \in raw.suspend : TRUE).int

ParamsValid(raw) ==
    /\ raw.models # <<>>
    /\ \A i \in DOMAIN raw.models : raw.models[i].model # "bad" /\ raw.models[i].provider # "bad"
    /\ \A v \in raw.suspend : extractInt(v).ok /\ extractInt(v).int >= 0
    /\ raw.location \in {"payload", "header", "queryParam", "pathParam"}
    /\ raw.identifier # "bad"

RoundRobinParams(raw) ==
    IF ~ParamsValid(raw) THEN Rejected
    ELSE [kind |-> "roundRobin",
          seq |-> [i \in DOMAIN raw.models |-> suspensionKey(raw.models[i])],
          suspend |-> SuspendDuration(raw), location |-> raw.location]

\* buildWeightedSequence: each target in turn, as often as its weight says.
Repeat(m) == [i \in 1..m.weight.int |-> suspensionKey(m)]
buildWeightedSequence(models) ==
    LET upTo[n \in 0..Len(models)] == IF n = 0 THEN <<>> ELSE upTo[n - 1] \o Repeat(models[n])
    IN  upTo[Len(models)]

WeightsValid(models) ==
    \A i \in DOMAIN models : extractInt(models[i].weight).ok /\ extractInt(models[i].weight).int >= 1

WeightedParams(raw) ==
    IF ~ParamsValid(raw) \/ ~WeightsValid(raw.models) THEN Rejected
    ELSE [kind |-> "weighted", seq |-> buildWeightedSequence(raw.models),
          suspend |-> SuspendDuration(raw), location |-> raw.location]

\* The models are a list, a model that is given has a name, and what is read as an
\* integer is one.
ASSUME RouteConfigAssumption ==
    \A c \in RouteConfigs :
        LET models == c.raw.models
        IN  /\ models \in Seq({models[i] : i \in DOMAIN models})
            /\ \A i \in DOMAIN models : models[i].model # "" /\ models[i].weight.int \in Int
            /\ \A v \in c.raw.suspend : v.int \in Int

-----------------------------------------------------------------------------
\* Selection, under the mutex: the first target from the index on that is not
\* suspended at this moment.

Targets == {route.seq[i] : i \in DOMAIN route.seq}
IsSuspended(t) == t \in DOMAIN suspended /\ second < suspended[t]
At(i) == route.seq[(i % Len(route.seq)) + 1]

Usable(i) == ~IsSuspended(At(i))

\* How many targets are tried, and the one selected; NoTarget when all are suspended.
Tries ==
    LET free == {k \in 0..(Len(route.seq) - 1) : Usable(index + k)}
    IN  IF free = {} THEN Len(route.seq) ELSE Min(free) + 1
Selected == IF \E k \in 0..(Len(route.seq) - 1) : Usable(index + k) THEN At(index + Tries - 1) ELSE NoTarget

\* Mutant: the index stays at the selected target.
selectNextAvailableModelStuck == index' = (index + Tries - 1) % Len(route.seq)

\* The weighted policy lets its index grow, the other wraps it.
selectNextAvailableModel == index' = (index + Tries) % Len(route.seq)
selectNextAvailableWeightedModel == index' = index + Tries

\* Only the suspension of the target that is selected is removed.
DropSuspension(t) == suspended' = [k \in DOMAIN suspended \ {t} |-> suspended[k]]

\* Targets that an error put out of service and that the pause still holds there.
OutOfService == {t \in Targets : failedAt[t] # 0 /\ second < failedAt[t] + route.suspend}

RecordSelection(t) ==
    /\ decided' = [made |-> TRUE, target |-> t, out |-> OutOfService, all |-> Targets]
    /\ passedOver' = [u \in Targets |-> IF u = t \/ u \in OutOfService THEN 0 ELSE passedOver[u] + 1]

-----------------------------------------------------------------------------
\* Rewriting the path.  A path is empty, badly escaped or plain; it has a number
\* of "?"-separated parts, a query that parses or not, and matches the pattern or not.

Readable(path) == path.form = "plain"

\* modifyQueryParamInPath: only a single query is kept.
modifyQueryParamInPath(path, model) ==
    IF ~Readable(path) \/ (path.parts = 2 /\ ~path.parses)
    THEN [model |-> "client", query |-> "client"]
    ELSE [model |-> model, query |-> IF path.parts = 2 THEN "client" ELSE "dropped"]

\* modifyPathParamInPath: the pattern must compile and its first group must match.
modifyPathParamInPath(path, model) ==
    IF ~Readable(path) \/ ~path.matches
    THEN [model |-> "client", query |-> "client"]
    ELSE [model |-> model, query |-> IF path.parts = 2 THEN "client" ELSE "dropped"]

\* What the upstream is sent after the header phase.
Rewritten(path, model) ==
    CASE route.location = "header"     -> [model |-> model, query |-> "client"]
      [] route.location = "queryParam" -> modifyQueryParamInPath(path, model)
      [] route.location = "pathParam"  -> modifyPathParamInPath(path, model)
      [] OTHER                         -> [model |-> "client", query |-> "client"]

-----------------------------------------------------------------------------
\* The handlers.  The upstream is only named when the target has a provider.

\* Requests are numbered in the order in which they arrive.
Next1(r) == \A q \in 1..(r - 1) : inFlight[q].phase # "new"

RequestHeaders(r, path) ==
    /\ inFlight[r].phase = "new" /\ Next1(r)
    /\ RecordSelection(Selected)
    /\ DropSuspension(Selected)
    /\ inFlight' = [inFlight EXCEPT ![r] =
          IF Selected = NoTarget THEN [@ EXCEPT !.phase = "503"]
          ELSE LET sent == Rewritten(path, Selected[2])
               IN  [phase |-> "headers", target |-> Selected, upstream |-> Selected[1],
                    model |-> sent.model, query |-> sent.query]]
    /\ UNCHANGED <<route, second, failedAt>>

RoundRobinOnRequestHeaders(r, path) ==
    route.kind = "roundRobin" /\ selectNextAvailableModel /\ RequestHeaders(r, path)
WeightedOnRequestHeaders(r, path) ==
    route.kind = "weighted" /\ selectNextAvailableWeightedModel /\ RequestHeaders(r, path)

\* The body phase: the model is written into the payload, or the request refused.
RewriteBody(q, body) ==
    IF route.location # "payload" THEN [q EXCEPT !.phase = "upstream"]
    ELSE IF body = "ok" THEN [q EXCEPT !.phase = "upstream", !.model = q.target[2]]
    ELSE [q EXCEPT !.phase = "400"]
RequestBody(r, body) ==
    /\ inFlight[r].phase = "headers"
    /\ inFlight' = [inFlight EXCEPT ![r] = RewriteBody(@, body)]
    /\ UNCHANGED <<route, index, suspended, second, failedAt, decided, passedOver>>

RoundRobinOnRequestBody(r, body) == route.kind = "roundRobin" /\ RequestBody(r, body)
WeightedOnRequestBody(r, body) == route.kind = "weighted" /\ RequestBody(r, body)

\* Mutant: an error only suspends a target that is not suspended already.
SuspendOnce(t) ==
    suspended' = [k \in DOMAIN suspended \union {t} |->
                    IF k \in DOMAIN suspended THEN suspended[k] ELSE second + route.suspend]

\* A later error extends the suspension.
Suspend(t) ==
    suspended' = [k \in DOMAIN suspended \union {t} |->
                    IF k = t THEN second + route.suspend ELSE suspended[k]]

\* OnResponseHeaders: 5xx and 429 count as errors.
IsError(status) == status >= 500 \/ status = 429
ResponseHeaders(r, status) ==
    /\ inFlight[r].phase = "upstream"
    /\ inFlight' = [inFlight EXCEPT ![r] = [Waiting EXCEPT !.phase = "done"]]
    /\ IF IsError(status) /\ route.suspend > 0
       THEN Suspend(inFlight[r].target)
       ELSE UNCHANGED suspended
    /\ failedAt' = IF IsError(status) THEN [failedAt EXCEPT ![inFlight[r].target] = second] ELSE failedAt
    /\ passedOver' = IF IsError(status) THEN [passedOver EXCEPT ![inFlight[r].target] = 0] ELSE passedOver
    /\ UNCHANGED <<route, index, second, decided>>

RoundRobinOnResponseHeaders(r, status) == route.kind = "roundRobin" /\ ResponseHeaders(r, status)
WeightedOnResponseHeaders(r, status) == route.kind = "weighted" /\ ResponseHeaders(r, status)

\* GetPolicy of the two policies.
InstallRoute(built) ==
    /\ route.kind = "none"
    /\ route' = built
    /\ failedAt' = [t \in {built.seq[i] : i \in DOMAIN built.seq} |-> 0]
    /\ passedOver' = failedAt'
    /\ UNCHANGED <<index, suspended, second, inFlight, decided>>
RoundRobinGetPolicy == \E c \in RouteConfigs : c.kind = "roundRobin" /\ InstallRoute(RoundRobinParams(c.raw))
WeightedGetPolicy == \E c \in RouteConfigs : c.kind = "weighted" /\ InstallRoute(WeightedParams(c.raw))

RouteTick ==
    /\ route.kind \notin {"none", "rejected"} /\ second < RouteHorizon
    /\ second' = second + 1
    /\ UNCHANGED <<route, index, suspended, inFlight, failedAt, decided, passedOver>>

\* The clock starts at 1, so that 0 is before every error.
RouteInit ==
    /\ route = NoRoute /\ index = 0 /\ suspended = << >> /\ second = 1
    /\ inFlight = [r \in 1..MaxRouted |-> Waiting]
    /\ failedAt = << >> /\ passedOver = << >>
    /\ decided = [made |-> FALSE, target |-> NoTarget, out |-> {}, all |-> {}]

RouteNext ==
    \/ RoundRobinGetPolicy
    \/ WeightedGetPolicy
    \/ \E r \in 1..MaxRouted, path \in RoutePaths :
          RoundRobinOnRequestHeaders(r, path) \/ WeightedOnRequestHeaders(r, path)
    \/ \E r \in 1..MaxRouted, body \in RouteBodies :
          RoundRobinOnRequestBody(r, body) \/ WeightedOnRequestBody(r, body)
    \/ \E r \in 1..MaxRouted, status \in {200, 429, 500} :
          RoundRobinOnResponseHeaders(r, status) \/ WeightedOnResponseHeaders(r, status)
    \/ RouteTick

-----------------------------------------------------------------------------
\* A target whose error response is less than SuspendDuration old is never selected,
\* whatever responses came late and whatever was selected meanwhile, and 503 "All
\* models are currently unavailable" is only answered when every target is in that
\* state (selectNextAvailableModel and OnResponseHeaders of both policies).
SuspensionHonoured ==
    decided.made =>
        IF decided.target = NoTarget THEN decided.out = decided.all ELSE decided.target \notin decided.out

\* A target that stays available is selected at least once in every round: fewer
\* selections than the sequence is long go by it, although the index moves past
\* suspended targets and is shared by overlapping requests.
NoTargetStarved == \A t \in DOMAIN passedOver : passedOver[t] < Len(route.seq)
=============================================================================
