SPECIFICATION FairSpec
CONSTANTS
    v1 = v1
    v2 = v2
    v3 = v3
    bad = bad
    dev = dev
    acme = acme
    h1 = h1
    h2 = h2
    h3 = h3
    h4 = h4
    Torn = Torn
    Missing = Missing
    None = None
    Versions <- MCVersions
    Broken = {bad}
    Tenants = {dev, acme}
    tenantOf <- MCTenantOf
    contentVersion <- MCContentVersion
    SaveKinds = {"inplace", "atomic", "delete"}
    MaxSaves = 3
    MaxRestarts = 1
INVARIANTS
    TypeOK
    ServesCompiled
    Converged
PROPERTIES
    NoRollback
    PublishesActive
    SavesTakeEffect
    ImplementsRegister
CHECK_DEADLOCK FALSE
