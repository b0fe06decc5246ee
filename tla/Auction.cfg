\* Two companies, days of two auctions and a new day, bids above and below V.
CONSTANTS
    NumCompanies = 2
    DailyBudget <- Budgets
    DayAuctions = 2
    ImpressionValue = 2
    MaxBid = 3
    MaxMarket = 2
    MaxAuctions = 3
SPECIFICATION FairSpec
INVARIANTS
    TypeOK
    WithinDailyBudget
    ScoreboardAddsUp
    OnlyTheAheadSitOut
    ShownIsAfterLastWin
    BiddersNeverAhead
PROPERTIES
    HighestAffordableBidWins
    AuctionFinishes
CHECK_DEADLOCK FALSE
