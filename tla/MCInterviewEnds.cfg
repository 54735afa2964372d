SPECIFICATION FairSpec
CONSTANTS
    DimCount = 1
    Weight <- OneWeight
    Targets = {t1}
    Scores <- FewScores
    EvidenceCounts = {0, 3}
    SessionQuestionLimit = 10
    MaxFollowUpRounds = 2
    MaxSteps = 6
PROPERTIES
    InterviewEnds
