SPECIFICATION Spec
CONSTANTS
    Callers = {c1, c2}
    MainQuestions = {q1, q2}
    Records = {r1}
    PlannedQuestions = 2
    PlannedFollowUps = 1
    QuestionLimit = 2
    MaxFollowUpRounds = 2
SYMMETRY Symmetry
INVARIANTS
    ConcurrencyTypeOK
    SnapshotsConsistent
    AnswersAwaited
    EvaluationsBounded
PROPERTIES
    OnlyStaleStepsUndo
CHECK_DEADLOCK FALSE
