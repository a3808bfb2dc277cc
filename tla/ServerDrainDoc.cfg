SPECIFICATION Spec
CONSTANTS
    Requests = {r1}
    NPairs = 2
    BatchSize = 1
    MaxConns = 1
INVARIANT
    WorkersFinishCurrentJobs
