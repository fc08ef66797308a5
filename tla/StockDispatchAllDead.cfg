SPECIFICATION Spec
CONSTANTS
    s1 = s1  s2 = s2  s3 = s3
    StockList <- ThreeStocks
    Workers = {local, remote}
    MaxRetry = 1
    FailureThreshold = 2
    HasDeadline = TRUE
    OnResultMayRaise = FALSE
    Nobody = Nobody
INVARIANT AllDeadRecordsEveryStock
