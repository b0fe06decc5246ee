SPECIFICATION Spec
CONSTANTS
    RowCounts = {1, 4, 5}
    BatchSize = 2
    Epochs = 4
    Patience = 2
    MaxLoss = 3
    Tol = 1
INVARIANTS
    CheckpointIsBest
    PatienceIsExact
    ScheduleFitsRun
