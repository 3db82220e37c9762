SPECIFICATION Spec
CONSTANTS
    p1 = p1
    p2 = p2
    Proc <- MCProc
    Kinds = {"complete"}
    Limit = 2
    MaxTokens = 2
    DayLen = 2
    MaxDay = 1
    MaxFaults = 1
    MaxUsed = 6
SYMMETRY MCSymmetry
INVARIANT
    KeyAlwaysHasTTL
CHECK_DEADLOCK FALSE
