SPECIFICATION Spec
CONSTANTS
    DimCount = 3
    Weight <- ThreeWeights
    Targets = {t1}
    Scores <- FewScores
    EvidenceCounts = {0, 3}
    SessionQuestionLimit = 3
    MaxFollowUpRounds = 2
    MaxSteps = 4
INVARIANTS
    QuestionLimit
    DimensionBudgetsCovered
    PlanTracksCoverage
    PromisedQuestionExists
PROPERTIES
    CompletedDimensionsClosed
