SPECIFICATION FairSpec
CONSTANTS
    MaxEvents = 2
    MaxStreams = 1
    MaxErrors = 0
    CSize = 1
    BufferSize = 1
    Stops = FALSE
PROPERTIES
    EventsWillBeSent
CHECK_DEADLOCK FALSE
