SPECIFICATION Spec
CONSTANTS
    MaxRuns = 2
    MaxAttempts = 2
    MaxRounds = 1
    MaxBatch = 1
INVARIANTS
    SpansFormTree
    StatusTruthful
    RunSpansClosed
CHECK_DEADLOCK FALSE
