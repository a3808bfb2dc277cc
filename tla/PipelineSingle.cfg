SPECIFICATION Spec
CONSTANTS
    JobIds = {j1, j2}
    Pairs = {usdEur, usdMxn}
    Workers = {w1}
    Snapshots <- MCSnapshots
    Null = Null
    BucketSize = 2
    Lease = 1
    Delays = {0, 1, 2}
    BatchSizes = {2}
    MaxSkew = 0
    MaxTime = 3
    MaxCharged = 0
    BatchSize = 2
    MaxAttempts = 1
    BackoffBase = 1
    BackoffCap = 1
    QuotaDelay = 2
    Timely = FALSE
    MaxFetches = 2
SYMMETRY Symmetry
INVARIANTS
    TypeOK
    HolderOwnsRow
    CacheCoversDone
PROPERTIES
    BudgetKept
