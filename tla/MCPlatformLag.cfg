SPECIFICATION Spec
CONSTANTS
    Absent = Absent
    p1 = p1
    p2 = p2
    t1 = t1
    t2 = t2
    n1 = n1
    n2 = n2
    d1 = d1
    Platforms = {p1}
    NoPlatform = NoPlatform
    Tenants = {}
    Namespaces = {n1}
    DomainNames = {d1}
    Domains <- OneDomain
    Infos = {"i1"}
    NoInfo = NoInfo
    TenantVals <- NoTenantVals
    DomainVals <- FixedDomainVals
    InitialApi <- FullApiOnly
    ConfigMapsLag = TRUE
    PlatformsMayChange = TRUE
    NamesReusedAtOnce = TRUE
    Workers = {w1}
    NoWrite = NoWrite
    MaxEdits = 2
    MaxFailures = 1
    MaxCrashes = 0
INVARIANTS
    TypeOK
    ReadyIsWithdrawn
    FalseIsReconciling
CHECK_DEADLOCK FALSE
