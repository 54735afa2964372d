SPECIFICATION FairAgentSpec
CONSTANTS
    Keys = {"read", "list", "write", "send"}
    Registered = {"read", "list", "write", "send"}
    Visible = {"read", "list", "write", "send"}
    SideEffects = {"send"}
    Idempotent = {"read", "list", "send"}
    ParallelSafe = {"read", "list"}
    Resource <- Resources
    NoResource = "none"
    ParallelMode = TRUE
    MaxDuplicateCalls = 1
    Batches <- LoopBatches
    MaxRounds = 3
    MaxRuns = 2
    MaxToolCalls = 6
INVARIANTS
    AgentTypeOK
    BudgetHolds
    TranscriptPaired
PROPERTIES
    LoopStops
CHECK_DEADLOCK FALSE
