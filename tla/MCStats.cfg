CONSTANTS
    Containers = {c1, c2, c3}
    Requested = {c1, c2}
    MaxSamples = 3
    CPUs = {1, 2}
    HZ = 2
    MaxTicks = 2
SPECIFICATION StatsSpec
CHECK_DEADLOCK FALSE
INVARIANTS
    TypeOK
    RecordsInStep
    StreamsOwned
    HostUsageConsistent
PROPERTY
    EndedStreamEndsSession
