CONSTANTS
    Handlers = {h1}
    Jobs = {j1, j2}
    ParentJobs = {j1}
    StockCount = 1
    MaxRuns = 2
    MaxRestarts = 0
SPECIFICATION AppSpec
INVARIANT HistoryIsStored
CHECK_DEADLOCK FALSE
