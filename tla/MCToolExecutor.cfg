SPECIFICATION ToolSpec
CONSTANTS
    Keys = {"list", "read", "peek", "write", "send", "purge", "ghost"}
    Registered = {"list", "read", "peek", "write", "send", "purge"}
    Visible = {"list", "read", "peek", "write", "send"}
    SideEffects = {"send", "purge"}
    Idempotent = {"list", "read", "peek", "purge"}
    ParallelSafe = {"list", "read", "peek"}
    Resource <- Resources
    NoResource = "none"
    ParallelMode = TRUE
    MaxDuplicateCalls = 1
    Batches <- AllBatches
    MaxRounds = 2
    MaxRuns = 2
INVARIANTS
    EffectsAccounted
    RecordedBeforeContinue
    AnswersTruthful
    ResourcesSerialized
PROPERTIES
    VerdictsFinal
CHECK_DEADLOCK FALSE
