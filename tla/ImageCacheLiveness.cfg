SPECIFICATION FairSpec
CONSTANTS
    r1 = r1
    r2 = r2
    w1 = w1
    w2 = w2
    t1 = t1
    Reqs = {r1, r2}
    Tiles = {t1}
    Workers = {w1, w2}
    TaskCap = 1
    IOCap = 3
    MaxFaults = 0
    MaxMemoryImageCache = 1
    Old = Old
    Torn = Torn
    Nil = Nil
    Commands <- AllCommands
PROPERTIES
    GetAnswered
    SetReachesDisk
    CacheExits
CHECK_DEADLOCK FALSE
