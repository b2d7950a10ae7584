SPECIFICATION FairSpec
CONSTANTS
    k1 = k1
    k2 = k2
    t1 = t1
    t2 = t2
    Keys <- OneKey
    Threads = {t1, t2}
    NumStripes = 1
    StripeOf <- SameStripe
    StripeCap = 1
    ScanLimit = 8
    Limit = 2
    Duration = 1
    Grace = 1
    Jitter = 1
    Costs = {1}
    FailOpen = FALSE
    MaxPipeline = 2
    Threshold = 2
    MaxTime = 1
    MaxRequests = 2
    MaxOthers = 1
    MaxOutages = 1
    MayClose = FALSE
INVARIANTS
    RedisDownProbed
PROPERTIES
    RedisDownClears
    AdmittedReachesRedis
