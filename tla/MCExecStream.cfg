CONSTANTS
    Sessions = {s1}
    Busy = {s1}
    ChanSize = 2
    RespSize = 1
    MaxBodies = 3
    MaxChunks = 3
SPECIFICATION FairSpec
CHECK_DEADLOCK FALSE
INVARIANTS
    InputInOrder
    OutputOvertaken
PROPERTY
    ExecEnds
