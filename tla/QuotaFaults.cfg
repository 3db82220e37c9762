SPECIFICATION Spec
CONSTANTS
    p1 = p1
    p2 = p2
    Proc <- MCProc
    Kinds = {"complete", "stream"}
    Limit = 2
    MaxTokens = 2
    DayLen = 2
    MaxDay = 1
    MaxFaults = 2
    MaxUsed = 6
SYMMETRY MCSymmetry
INVARIANTS
    TypeOK
    QuotaBound
    KeyHasTTL
PROPERTIES
    CounterOutlivesDay
CHECK_DEADLOCK FALSE
