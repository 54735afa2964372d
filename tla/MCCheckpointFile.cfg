SPECIFICATION Spec
CONSTANTS
    None = None
    t1 = t1
    t2 = t2
    q1 = q1
    q2 = q2
    p1 = p1
    g1 = g1
    Tools <- MCTools
    Questions <- MCQuestions
    Points <- MCPoints
    Targets <- MCTargets
    Scores <- MCScores
    MaxFollowUpRounds = 1
    Timeout = 0
    MaxTime = 1
INVARIANTS
    SameSession
    LinksResolve
CHECK_DEADLOCK FALSE
