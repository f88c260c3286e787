SPECIFICATION FairSpec
CONSTANTS
    c1 = c1
    c2 = c2
    c3 = c3
    w1 = w1
    w2 = w2
    w3 = w3
    g1 = g1
    g2 = g2
    x1 = x1
    x2 = x2
    Calls = {c1, c2, c3}
    Regions = {g1}
    Chunks = {x1}
    RegionOf <- OneRegion
    Workers = {w1, w2, w3}
    ReqCap = 1
    ChanCap = 1
    Ops = {"get", "moddate"}
    MaxFaults = 0
    MaxDamaged = 0
    SlowWorkers = TRUE
    Old = Old
    Nil = Nil
PROPERTIES
    CallsEnd
    CloseCompletes
CHECK_DEADLOCK FALSE
