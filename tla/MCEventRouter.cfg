CONSTANTS
    Containers = {c1}
    Workers = {w1, w2}
    Lifecycle <- WholeLifecycle
    BufferSize = 1
    HasRancherClient = TRUE
    MaxEvents = 2
    MaxFaults = 1
SPECIFICATION FairSpec
CHECK_DEADLOCK FALSE
INVARIANTS
    TypeOK
    WorkersConserved
    EachEventOnce
    LocksOwned
    LossesNeedFaults
    InspectedAfterEvent
    RancherLedger
PROPERTIES
    LedgerSpec
    ListenedIsHandled
