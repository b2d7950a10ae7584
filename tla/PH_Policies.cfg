SPECIFICATION GatewaySpec
CONSTANTS
    RouteConfigs <- MCRouteConfigs
    RoutePaths <- MCRoutePaths
    RouteBodies = {"ok", "nil"}
    MaxRouted = 4
    RouteHorizon = 3
    GcraConfigs <- MCGcraConfigs
    GcraCalls = {c1, c2}
    GcraCosts = {2}
    TicksPerSecond = 2
    GcraHorizon = 4
    MaxGcraCalls = 3
    SubParams <- MCSubParams
    SubRequests <- MCSubRequests
    Subscriptions <- MCSubscriptions
    WindowTicks <- MCWindowTicks
    EvictionTTL = 3
    LockLag = 1
    SubCallers = {s1, s2}
    MaxSubRequests = 3
    MaxInactive = 1
    SubHorizon = 7
    Templates <- MCTemplates
    TokenParams <- MCTokenParams
    TokenLevels = {"api"}
    TokenRequests = {t1, t2, t3}
    MaxTemplateChanges = 2
    CostParams <- MCCostParams
    CostRequests = {d1, d2, d3}
    McpConfigs <- MCMcpConfigs
    McpBodies <- MCMcpBodies
    McpCallers = {m1, m2}
    JwtParams <- MCJwtParams
    JwtTokens <- MCJwtTokens
    JwtHeaders <- MCJwtHeaders
    JwksSets <- MCJwksSets
    JwksUris = {"u1"}
    JwksCacheTtl = 2
    JwksFetchTimeout = 1
    TokenCacheTtl = 2
    NegativeCacheTtl = 2
    JwtCacheSizes = {1}
    DefaultTokenCacheMaxSize = 2
    JwtCallers = {j1, j2}
    MaxJwtRequests = 3
    MaxRotations = 1
    JwtHorizon = 4
    IntrospectionConfigs <- MCIntrospectionConfigs
    IdentityRoutes <- MCIdentityRoutes
    OpaqueTokens = {"tok"}
    OpaqueHeaders <- MCOpaqueHeaders
    InitialReports <- MCInitialReports
    ReportChanges <- MCReportChanges
    IntrospectionCacheTtl = 2
    IntrospectionNegativeCacheTtl = 1
    IntrospectionTimeout = 1
    OpaqueLeeway = 1
    IntrospectionRetryCount = 1
    OpaqueCacheMaxSize = 1
    IdentityCallers = {i1, i2}
    MaxIdentityWork = 3
    MaxReportChanges = 1
    IdentityHorizon = 4
    MinCacheTTL = 4
    TicksInSecond = 2
    SignLag = 1
    AssertionCacheSizes = {1}
    DefaultAssertionCacheSize = 2
    r1 = r1
    r2 = r2
    api = api
    apiLevel = apiLevel
    routeLevel = routeLevel
    p1 = p1
    p2 = p2
    p3 = p3
    shared = shared
    sharedLow = sharedLow
    perRoute = perRoute
    g1 = g1
    g2 = g2
    op = op
    mcp1 = mcp1
    mcp2 = mcp2
    Routes <- TwoRoutes
    ApiOf <- OneApi
    Levels <- TwoLevels
    Params = {p1, p3}
    Known = {p1}
    Quotas <- AllQuotas
    ApiScoped <- ApiQuotas
    Configs <- SomeConfigs
    Owners <- GlobalAndRoute
    RouteOf <- RouteOfInstance
    LevelOf <- LevelOfInstance
    MaxBuilds = 4
INVARIANTS
    TypeOK
    RefCountCovers
    LiveNotClosed
    SameKeySameLimiter
    SuspensionHonoured
    NoTargetStarved
    GcraNeverForgets
    GcraRateKept
    MultiDenialWins
    SubscriptionQuota
    TokenDelegateFits
    CostChargedWhereChecked
    McpOneDelegate
    WithdrawnKeyDies
    VerdictsSound
    IdentityCurrent
CHECK_DEADLOCK FALSE
