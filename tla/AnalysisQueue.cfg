CONSTANTS
    t1 = t1
    t2 = t2
    u1 = u1
    Tasks <- MCTasks
    Users <- MCUsers
    Owner <- MCOwner
    Batch <- MCBatch
    Workers = {w1, w2}
    Cleaners = {c1}
    Cancellers = {x1}
    Nothing = Nothing
    UserLimit = 1
    GlobalLimit = 1
    Timeout = 1
    MaxTime = 2
    MaxInterrupts = 1
SPECIFICATION Spec
INVARIANTS
    OnePlace
    NoLeak
    OverrunOnlyByRace
PROPERTIES
    OnlyLateLeasesFound
CHECK_DEADLOCK FALSE
SYMMETRY WorkerSymmetry
