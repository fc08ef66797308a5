SPECIFICATION FairSpec
CONSTANTS
    Tasks = {t1, t2}
    PoolSize = 1
    MaxDbFaults = 1
    MaxCrashes = 1
    MaxRequests = 2
INVARIANTS
    OutcomeStands
    CompletedIsDeliverable
    DeletedNeverRuns
PROPERTIES
    EveryTaskSettles
CHECK_DEADLOCK FALSE
