SPECIFICATION Spec
CONSTANTS
    PAIRS <- ThreePairs
    Pairs <- ThreePairSet
    Bases <- ThreeBases
    Responses <- AllOrNone
    BurstPair <- UsdEur
    Profiles = {4}
    LOADTEST_VUS = 1
    Arrivals <- MCArrivals
    BurstVUs = 100
    Window = 1
    BatchSize = 3
    WarmCount = 4
    MaxTime = 0
    BurstTime = 0
    Ticks = TRUE
    Faulty = FALSE
    MaxErrors <- None
    MaxFaults <- None
INVARIANTS
    ThresholdCoversDelta
