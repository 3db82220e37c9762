SPECIFICATION Spec
CONSTANTS
    r1 = r1
    r2 = r2
    r3 = r3
    Req <- MCReq
    Limit = 1
    Window = 7
    Slack = 1
    Grain = 2
    Skew = 1
    MaxDelay = 2
    MaxTries = 2
    MaxClock = 8
SYMMETRY MCSymmetry
INVARIANTS
    TypeOK
    MembersWithinLimit
    ExpiryHidesOnlyFromLate
CHECK_DEADLOCK FALSE
