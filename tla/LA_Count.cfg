SPECIFICATION Spec
CONSTANTS
    k1 = k1
    k2 = k2
    t1 = t1
    t2 = t2
    Keys <- TwoKeys
    Threads = {t1, t2}
    NumStripes = 1
    StripeOf <- SameStripe
    StripeCap = 1
    ScanLimit = 8
    Limit = 2
    Duration = 1
    Grace = 1
    Jitter = 1
    Costs = {1}
    FailOpen = TRUE
    MaxPipeline = 2
    Threshold = 2
    MaxTime = 1
    MaxRequests = 3
    MaxOthers = 0
    MaxOutages = 1
    MayClose = FALSE
SYMMETRY Symmetry
INVARIANTS
    ReplicaQuota
    NoOvercount
    NoUndercount
    CreatedKeyHasTTL
