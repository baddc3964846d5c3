CONSTANTS
    MaxWaitOnHostTries = 20
    MaxListed = 2
    Syllables = {"con", "tainer", "stats", "host", "/"}
    MaxPath = 1
SPECIFICATION StartupSpec
CHECK_DEADLOCK FALSE
INVARIANT BlankTokenBlocks
