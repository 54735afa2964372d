SPECIFICATION Spec
CONSTANTS
    Runs = {1, 2, 3}
    Agents = {"profile", "evaluator"}
    AgentOf <- TwoAndOne
    Sizes = {0, 3}
    WithHistory = TRUE
    SnapshotSize = 1
    MaxRecent = 2
    MaxSummarized = 1
    SummarySize = 2
    MaxChars = 3
    MaxMessages = 2
INVARIANTS
    ContextSound
    HistoryComplete
PROPERTIES
    NewestKept
CHECK_DEADLOCK FALSE
