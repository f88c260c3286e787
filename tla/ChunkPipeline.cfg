SPECIFICATION FairSpec
CONSTANTS
    p1 = p1
    p2 = p2
    h1 = h1
    o1 = o1
    r1 = r1
    fs = fs
    db = db
    over = over
    other = other
    consumer = consumer
    none = none
    Proxied = {p1, p2}
    Posted = {h1}
    Orders = {o1}
    Readers = {r1}
    Storages = {fs, db}
    Files = {fs}
    Dims = {over, other}
    DimOf <- MCDimOf
    KnownDims = {over}
    Scenes <- MCScenes
    None = none
    Consumer = consumer
    ChanCap = 1
INVARIANTS
    TypeOK
    OneStoragePerWorld
    StoredIsFound
    LossHasACause
    DeathsNamed
PROPERTIES
    KeepsFate
    Concluded
    ProcessEnds
CHECK_DEADLOCK FALSE
