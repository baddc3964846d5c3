CONSTANTS
    Sessions = {s1, s2}
    Busy = {s1}
    ChanSize = 1
    RespSize = 1
    MaxBodies = 2
    MaxReads = 0
SPECIFICATION PeersReadSpec
CHECK_DEADLOCK FALSE
PROPERTY
    MessagesRouted
