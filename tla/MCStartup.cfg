CONSTANTS
    MaxWaitOnHostTries = 20
    MaxListed = 2
    Syllables = {"con", "tainer", "stats", "host", "/"}
    MaxPath = 3
SPECIFICATION StartupFairSpec
CHECK_DEADLOCK FALSE
INVARIANTS
    TypeOK
    GivesUpUnregistered
    RequestsConfigured
    BestMatch
PROPERTY
    Settles
