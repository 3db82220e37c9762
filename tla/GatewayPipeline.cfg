SPECIFICATION FairSpec
CONSTANTS
    r1 = r1
    r2 = r2
    Reqs <- MCReqs
    Inputs <- MCInputs
    WriteTimeout = 3
    ProviderTimeout = 3
    DrainTimeout = 1
INVARIANTS
    TypeOK
    GuardsBeforeProvider
    AuditAgrees
    
    TimeoutNeverReceived
PROPERTIES
    RequestsEnd
CHECK_DEADLOCK FALSE
