SPECIFICATION Spec
CONSTANTS
  r1 = r1
  r2 = r2
  api = api
  apiLevel = apiLevel
  routeLevel = routeLevel
  p1 = p1
  p2 = p2
  p3 = p3
  shared = shared
  sharedLow = sharedLow
  perRoute = perRoute
  g1 = g1
  g2 = g2
  op = op
  mcp1 = mcp1
  mcp2 = mcp2
  Routes <- TwoRoutes
  ApiOf <- OneApi
  Levels <- TwoLevels
  Params = {p1}
  Known = {p1}
  Quotas <- AllQuotas
  ApiScoped <- ApiQuotas
  Configs <- DelegateConfigs
  Owners <- Delegates
  RouteOf <- RouteOfDelegate
  LevelOf <- LevelOfDelegate
  MaxBuilds = 4
INVARIANT
  LiveNotClosed
CHECK_DEADLOCK FALSE
