SPECIFICATION FairSpec
CONSTANTS
    r1 = r1
    r2 = r2
    r3 = r3
    r4 = r4
    w1 = w1
    t1 = t1
    Reqs = {r1, r2, r3, r4}
    Tiles = {t1}
    Workers = {w1}
    TaskCap = 1
    IOCap = 1
    MaxFaults = 0
    MaxMemoryImageCache = 1
    Old = Old
    Torn = Torn
    Nil = Nil
    Commands <- GetCommands
PROPERTIES
    OnlyWedgesStop
CHECK_DEADLOCK FALSE
