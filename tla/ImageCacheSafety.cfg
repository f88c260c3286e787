SPECIFICATION Spec
CONSTANTS
    r1 = r1
    r2 = r2
    r3 = r3
    w1 = w1
    w2 = w2
    t1 = t1
    Reqs = {r1, r2, r3}
    Tiles = {t1}
    Workers = {w1, w2}
    TaskCap = 1
    IOCap = 2
    MaxFaults = 1
    MaxMemoryImageCache = 1
    Old = Old
    Torn = Torn
    Nil = Nil
    Commands <- CoreCommands
SYMMETRY Symmetry
INVARIANTS
    TypeOK
    WaitersHaveIO
    OneHome
    DirtyHoldsLatest
    SetSurvives
    NativeTrafficNeverPanics
PROPERTIES
    SaveWritesLatest
    KeepsPromise
CHECK_DEADLOCK FALSE
