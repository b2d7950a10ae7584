--------------------------- MODULE MCLimiterCache ---------------------------
(* Finite instances of LimiterCache: two routes of one API with a policy   *)
(* attached to the API on both and one attached to the first route.        *)
EXTENDS LimiterCache

CONSTANTS r1, r2, api, apiLevel, routeLevel, p1, p2, p3,
          shared, sharedLow, perRoute,         \* quotas: API-scoped, with a lower limit, route-scoped
          g1, g2, op, mcp1, mcp2          \* instances

TwoRoutes  == {r1, r2}
OneApi     == [r \in TwoRoutes |-> api]
TwoLevels  == {apiLevel, routeLevel}
AllQuotas  == {shared, sharedLow, perRoute}
ApiQuotas  == {shared, sharedLow}

\* One policy per route and level.
GlobalAndRoute == {g1, g2, op}
RouteOfInstance == [o \in GlobalAndRoute |-> IF o = g2 THEN r2 ELSE r1]
LevelOfInstance == [o \in GlobalAndRoute |-> IF o = op THEN routeLevel ELSE apiLevel]
SomeConfigs == {<<shared>>, <<shared, perRoute>>, <<sharedLow, sharedLow>>}

\* Two delegates of one mcp-ratelimit policy: same route, same level.
Delegates       == {mcp1, mcp2}
RouteOfDelegate == [o \in Delegates |-> r1]
LevelOfDelegate == [o \in Delegates |-> apiLevel]
DelegateConfigs == {<<shared>>, <<perRoute>>}
=============================================================================
