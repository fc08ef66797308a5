SPECIFICATION FairSpec
CONSTANTS
    s1 = s1  s2 = s2  s3 = s3
    StockList <- TwoStocks
    Workers = {local, remote}
    MaxRetry = 1
    FailureThreshold = 3
    HasDeadline = TRUE
    OnResultMayRaise = TRUE
    Nobody = Nobody
INVARIANTS
    OneCopy
    AttemptBound
PROPERTIES
    RoundSettles
