SPECIFICATION Spec
CONSTANTS
    Requests = {r1}
    NPairs = 2
    BatchSize = 2
    MaxConns = 1
INVARIANTS
    TypeOK
    ShutdownOrder
    NoHalfDeadService
PROPERTIES
    StopLeadsToExit
    NobodyWaitsForever
