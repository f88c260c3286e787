SPECIFICATION Spec
CONSTANTS
    c1 = c1
    w1 = w1
    g1 = g1
    g2 = g2
    x1 = x1
    x2 = x2
    Calls = {c1}
    Regions = {g1}
    Chunks = {x1}
    RegionOf <- OneRegion
    Workers = {w1}
    ReqCap = 2
    ChanCap = 1
    Ops = {"set"}
    MaxFaults = 1
    MaxDamaged = 0
    SlowWorkers = FALSE
    Old = Old
    Nil = Nil
INVARIANTS
    AckedSetsWritten
CHECK_DEADLOCK FALSE
