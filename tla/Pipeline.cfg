SPECIFICATION PipelineFairSpec
CONSTANTS
    s1 = s1  s2 = s2
    StockList <- TwoStocks
    Workers = {local, remote}
    MaxRetry = 1
    FailureThreshold = 2
    HasDeadline = TRUE
    OnResultMayRaise = FALSE
    Nobody = Nobody
    NoReport = NoReport
    Truncated = Truncated
INVARIANTS
    ReportInv
    CountsAddUp
    ReportLosesNothing
PROPERTIES
    RunEnds
