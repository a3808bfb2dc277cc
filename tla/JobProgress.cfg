SPECIFICATION Spec
CONSTANTS
    Workers = {w1, w2}
    Steady = {w2}
    MaxAttempts = 2
INVARIANTS
    TypeOK
PROPERTIES
    NeverStuckRunning
    JobEnds
