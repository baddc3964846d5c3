CONSTANTS
    MaxEvents = 2
    MaxStreams = 2
    MaxErrors = 1
    CSize = 1
    BufferSize = 1
    Stops = TRUE
SPECIFICATION FairSpec
CHECK_DEADLOCK FALSE
INVARIANTS
    ListenerOpenWhileSending
    PanicNeedsErrorOrStop
PROPERTY
    DecodedReachesListener
