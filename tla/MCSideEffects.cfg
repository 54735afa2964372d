SPECIFICATION ToolSpec
CONSTANTS
    Keys = {"send", "notify", "list"}
    Registered = {"send", "notify", "list"}
    Visible = {"send", "notify", "list"}
    SideEffects = {"send", "notify"}
    Idempotent = {"list"}
    ParallelSafe = {"send", "notify", "list"}
    Resource <- TwoSenders
    NoResource = "none"
    ParallelMode = TRUE
    MaxDuplicateCalls = 1
    Batches <- SenderBatches
    MaxRounds = 1
    MaxRuns = 1
INVARIANTS
    SideEffectsSerialized
CHECK_DEADLOCK FALSE
