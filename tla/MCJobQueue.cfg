SPECIFICATION QSpec
CONSTANTS
    JobIds = {j1, j2}
    Pairs = {usdEur, usdMxn}
    Snapshots = {q1}
    Null = Null
    BucketSize = 2
    Lease = 1
    Delays = {0, 1}
    BatchSizes = {1, 2}
    MaxSkew = 1
    MaxTime = 3
    MaxCharged = 2
SYMMETRY Symmetry
INVARIANTS
    QTypeOK
    OneJobPerKey
    DoneHasQuote
    LeaseWhileRunning
    RenderersFindFields
PROPERTIES
    TerminalIsFinal
    NoEarlyRecovery
    ImplementsLifecycle
