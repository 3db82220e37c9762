SPECIFICATION Spec
CONSTANTS
    r1 = r1
    r2 = r2
    r3 = r3
    Req <- MCReq
    Limit = 2
    Window = 5
    Slack = 2
    Grain = 2
    Skew = 0
    MaxDelay = 0
    MaxTries = 1
    MaxClock = 7
INVARIANT
    RequestsWithinLimit
CHECK_DEADLOCK FALSE
