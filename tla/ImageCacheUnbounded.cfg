SPECIFICATION Spec
CONSTANTS
    r1 = r1
    r2 = r2
    w1 = w1
    t1 = t1
    t2 = t2
    Reqs = {r1, r2}
    Tiles = {t1, t2}
    Workers = {w1}
    TaskCap = 1
    IOCap = 2
    MaxFaults = 0
    MaxMemoryImageCache = 1
    Old = Old
    Torn = Torn
    Nil = Nil
    Commands <- GetCommands
INVARIANTS
    CacheBounded
CHECK_DEADLOCK FALSE
