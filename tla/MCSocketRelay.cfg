CONSTANTS
    Sessions = {s1, s2}
    Busy = {s1}
    ChanSize = 1
    RespSize = 2
    MaxBodies = 2
    MaxReads = 1
SPECIFICATION FairSpec
CHECK_DEADLOCK FALSE
INVARIANTS
    TypeOK
    WrittenInOrder
    OutputComplete
    CloseIsLast
PROPERTIES
    SessionReleased
    RoutedUnlessStuck
