SPECIFICATION SideSpec
CONSTANTS
    LastDay = 12
    HolidayChoices = {1, 2, 4, 7, 8}
    LastKnown = 11
    ScheduleHours = {1, 23}
    FirstRunHours = {1, 9, 12, 23}
    Overrun = 13
    NoJob = NoJob
    Stocks = {s1, s2, s3}
    Pool = {p1, p2}
    NoStock = NoStock
    MaxRetries = 3
    Timeout = 9
    MaxConnErrors = 3
    MaxExpiries = 2
INVARIANTS
    ScheduleInv
    RunsInTimeAndOrder
    FilterInv
    ForgottenOnlyByClash
    TimeoutOnlyIfLate
    UnavailableMeansOutage
PROPERTIES
    FilterRunEnds
    AnalysisEnds
