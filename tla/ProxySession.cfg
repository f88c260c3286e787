SPECIFICATION FairSpec
CONSTANTS
    listed = listed
    custom = custom
    none = none
    Dims = {listed, custom}
    None = none
    Registry = {listed}
    AcceptorCap = 1
    QueueCap = 1
    ReportCap = 1
    Scripts <- MCScripts
INVARIANTS
    SavedUnderItsDimension
PROPERTIES
    PlayerSessionEnds
    CollectedIsSaved
CHECK_DEADLOCK FALSE
