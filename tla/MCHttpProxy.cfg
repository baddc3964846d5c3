CONSTANTS
    Sessions = {s1}
    Busy = {s1}
    ChanSize = 2
    RespSize = 1
    MaxBodies = 4
    MaxReads = 2
SPECIFICATION FairSpec
CHECK_DEADLOCK FALSE
INVARIANTS
    BodyInOrder
    CompleteIsWhole
    ResponseWhole
PROPERTIES
    SessionReleased
    AnswerEndsSession
