SPECIFICATION Spec
CONSTANTS
    JobIds = {j1, j2}
    Pairs = {usdEur}
    Workers = {w1, w2}
    Snapshots <- MCSnapshots
    Null = Null
    BucketSize = 2
    Lease = 1
    Delays = {0, 1, 2}
    BatchSizes = {1}
    MaxSkew = 0
    MaxTime = 3
    MaxCharged = 0
    BatchSize = 1
    MaxAttempts = 1
    BackoffBase = 1
    BackoffCap = 1
    QuotaDelay = 2
    Timely = FALSE
    MaxFetches = 2
SYMMETRY Symmetry
INVARIANT
    LeaseIsExclusive
