SPECIFICATION Spec
CONSTANTS
    c1 = c1
    c2 = c2
    c3 = c3
    w1 = w1
    w2 = w2
    w3 = w3
    g1 = g1
    g2 = g2
    x1 = x1
    x2 = x2
    Calls = {c1, c2, c3}
    Regions = {g1, g2}
    Chunks = {x1, x2}
    RegionOf <- TwoRegions
    Workers = {w1, w2, w3}
    ReqCap = 2
    ChanCap = 1
    Ops = {"get", "set"}
    MaxFaults = 1
    MaxDamaged = 1
    SlowWorkers = FALSE
    Old = Old
    Nil = Nil
SYMMETRY Symmetry
INVARIANTS
    OneHome
    OneFileUser
    PanicsOnlyAfterClose
PROPERTIES
    NilMeansNotStored
    UnwrittenAckMeansMissingOrBroken
CHECK_DEADLOCK FALSE
