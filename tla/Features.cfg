SPECIFICATION Spec
CONSTANTS
    Lines <- MCLines
    NumLogs = 2
    TestLog <- MCTestLog
    MinCount <- MCMinCount
    TagMaxLen = 2
    MaxLines = 3
    FracNum = 2
    FracDen = 3
    MaxRuns = 2
INVARIANTS
    ArtifactsComeLast
    FittedOnTrainingRowsOnly
    ServingMatchesTraining
