SPECIFICATION Spec
CONSTANTS
    PAIRS <- TwoPairs
    Pairs <- TwoPairSet
    Bases <- TwoBases
    Responses <- AllOrNone
    BurstPair <- UsdEur
    Profiles = {1, 2, 3, 4, 5}
    LOADTEST_VUS = 1
    Arrivals <- MCArrivals
    BurstVUs = 2
    Window = 2
    BatchSize = 2
    WarmCount = 3
    MaxTime = 2
    BurstTime = 1
    Ticks = TRUE
    Faulty = TRUE
    MaxErrors <- MCMaxErrors
    MaxFaults <- MCMaxFaults
INVARIANTS
    TypeOK
    PairsSpread
    RefreshesCoalesce
    QuietBurstPasses
    ThresholdsAgree
    UpstreamBudget
