SPECIFICATION Spec
CONSTANTS
    PriceOf <- MCPriceOf
    Window = 2
    NumBins = 3
    MaxCrashes = 1
    MinRows = 1
    MaxRounds = 2
    MaxTrained = 2
    MaxRestarts = 1
INVARIANTS
    CrashTearsOneLine
    PublishedIsWhole
    TrainedOnStretch
    StatusDescribesModel
    UnchangedMeansServed
PROPERTIES
    RunningBidderRefusesBadModels
    NewExportServed
