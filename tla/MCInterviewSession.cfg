SPECIFICATION Spec
CONSTANTS
    DimCount = 2
    Weight <- TwoWeights
    Targets = {t1, t2}
    Scores <- AllScores
    EvidenceCounts = {0, 1, 3}
    SessionQuestionLimit = 10
    MaxFollowUpRounds = 2
    MaxSteps = 6
SYMMETRY Symmetry
INVARIANTS
    TypeOK
    LogsFollowQuestions
    BudgetsConserved
    QuestionIdsUnique
    OneLateQuestion
    ReviewGate
    StepBudgetSuffices
PROPERTIES
    EndIsFinal
    ImplementsFlow
