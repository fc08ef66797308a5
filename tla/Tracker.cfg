SPECIFICATION Spec
CONSTANTS
    Codes = {c1}
    Processes = {p, q}
    HoldDays = 1
    LastDay = 4
    MaxRuns = 2
    MayCrash = TRUE
    Torn = Torn
SYMMETRY ProcessSymmetry
INVARIANTS
    TrackerInv
    AtMostOnce
    RecordedOnce
PROPERTIES
    SettledInTime
