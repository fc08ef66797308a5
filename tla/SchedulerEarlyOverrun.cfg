SPECIFICATION Spec
CONSTANTS
    LastDay = 12
    HolidayChoices = {1, 2, 4, 7, 8}
    LastKnown = 11
    ScheduleHours = {1}
    FirstRunHours = {}
    Overrun = 13
    NoJob = NoJob
INVARIANTS
    NoTradingDayLeftOut
