SPECIFICATION FairSpec
CONSTANTS
    Timeout = 3
    Retry = 2
    Threads = 2
    Kinds = {"tool", "draft", "loop"}
INVARIANTS
    StepTimeBounded
    DraftCurrent
PROPERTIES
    StepEnds
CHECK_DEADLOCK FALSE
