CONSTANTS
    Sessions = {s1, s2}
    Busy = {s1}
    ChanSize = 1
    RespSize = 1
    MaxBodies = 2
    MaxRecords = 2
SPECIFICATION FairSpec
CHECK_DEADLOCK FALSE
INVARIANTS
    RecordsWhole
    AtMostOneLost
PROPERTY
    SessionReleased
