CONSTANTS
    Sessions = {s1, s2}
    Messages <- Words
    MaxMessages = 2
    Spare = 1
SPECIFICATION LogSpec
SYMMETRY SessionSymmetry
CHECK_DEADLOCK FALSE
INVARIANT
    FramesKept
