SPECIFICATION Spec
CONSTANTS
    k1 = k1
    k2 = k2
    t1 = t1
    t2 = t2
    Keys <- TwoKeys
    Threads = {t1, t2}
    NumStripes = 2
    StripeOf <- OwnStripe
    StripeCap = 1
    ScanLimit = 8
    Limit = 2
    Duration = 1
    Grace = 1
    Jitter = 1
    Costs = {1}
    FailOpen = TRUE
    MaxPipeline = 1
    Threshold = 1
    MaxTime = 0
    MaxRequests = 3
    MaxOthers = 0
    MaxOutages = 1
    MayClose = TRUE
SYMMETRY ThreadSymmetry
INVARIANTS
    TypeOK
    NoLostWakeup
    NoStrandedDelta
PROPERTIES
    GlobalBaseNeverRegresses
