SPECIFICATION FairSpec
CONSTANTS
    s1 = s1
    s2 = s2
    q1 = q1
    q2 = q2
    Sessions = {s1}
    Requestors = {q1, q2}
    WQCap = 1
    RQCap = 1
    EQCap = 2
    ConnCap = 1
INVARIANTS
    ErrorsNeverBlock
    EventsOpenWhileUsed
    RouterForgetsLeavers
PROPERTIES
    SessionEnds
    ReaderEnds
    ShutdownCompletes
CHECK_DEADLOCK FALSE
