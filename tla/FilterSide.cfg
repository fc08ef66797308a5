CONSTANTS
    f1 = f1
    Threads = {a1, a2}
    FreeTokens <- MCFreeTokens
    Paid = paid
    DailyLimit = 2
    MaxDays = 1
    Handlers = {h1, h2}
    Jobs = {j1, j2}
    ParentJobs = {j1}
    StockCount = 2
    MaxRuns = 3
    MaxRestarts = 1
    MaxHours = 143
    MaxRequest = 1
SPECIFICATION SideSpec
INVARIANTS
    MarketInv
    FailedOnlyAfterPaid
    FlagsInv
    HistorySurvives
    CacheInv
PROPERTIES
    PaidOnlyWhenFreeUsedUp
CHECK_DEADLOCK FALSE
