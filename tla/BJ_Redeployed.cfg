SPECIFICATION IdentitySpec
CONSTANTS
    IntrospectionConfigs <- MCIntrospectionConfigs
    IdentityRoutes <- MCRedeployed
    OpaqueTokens = {"tok"}
    OpaqueHeaders <- MCOpaqueHeaders
    InitialReports <- MCInitialReports
    ReportChanges <- MCReportChanges
    IntrospectionCacheTtl = 2
    IntrospectionNegativeCacheTtl = 1
    IntrospectionTimeout = 1
    OpaqueLeeway = 1
    IntrospectionRetryCount = 1
    OpaqueCacheMaxSize = 1
    IdentityCallers = {i1, i2}
    MaxIdentityWork = 3
    MaxReportChanges = 1
    IdentityHorizon = 4
    MinCacheTTL = 4
    TicksInSecond = 2
    SignLag = 1
    AssertionCacheSizes = {1}
    DefaultAssertionCacheSize = 2
INVARIANT
    RedeploymentMisses
CHECK_DEADLOCK FALSE
