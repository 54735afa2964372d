SPECIFICATION Spec
CONSTANTS
    DimCount = 1
    Weight <- OneWeight
    Targets = {t1}
    Scores <- AllScores
    EvidenceCounts = {0, 1, 3}
    SessionQuestionLimit = 10
    MaxFollowUpRounds = 2
    MaxSteps = 6
PROPERTIES
    AuditFollowUpRule
