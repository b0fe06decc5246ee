SPECIFICATION Spec
CONSTANTS
    NumBins = 3
    NumCands = 3
    CandStep = 2
    Rows <- MCRows
    FixedV = 5
    Tables <- MCTables
    Mixtures <- MCMixtures
    Files = {"a", "calA", "calB"}
    Calibrated = {"calA", "calB"}
    DirOf <- MCDirOf
    MemberLists <- MCMemberLists
    Draws <- MCDraws
    Subset = {1}
    TopK = 1
    Tolerance = 0
    Fractions <- MCFractions
    Multipliers <- MCMultipliers
    MaxTrials = 2
    MaxGreedy = 1
    MaxWrites = 3
    MaxSearches = 2
INVARIANTS
    
    SearchReportsBest
    SearchSeesItsMembers
