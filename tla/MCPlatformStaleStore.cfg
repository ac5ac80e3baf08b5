SPECIFICATION Spec
CONSTANTS
    Absent = Absent
    p1 = p1
    p2 = p2
    t1 = t1
    t2 = t2
    n1 = n1
    n2 = n2
    d1 = d1
    Platforms = {p1}
    NoPlatform = NoPlatform
    Tenants = {t1}
    Namespaces = {n1}
    DomainNames = {d1}
    Domains <- OneDomain
    Infos = {"i1"}
    NoInfo = NoInfo
    TenantVals <- OneTenantVals
    DomainVals <- OneDomainVals
    InitialApi <- FullApiOnly
    ConfigMapsLag = TRUE
    PlatformsMayChange = FALSE
    NamesReusedAtOnce = FALSE
    Workers = {w1}
    NoWrite = NoWrite
    MaxEdits = 2
    MaxFailures = 0
    MaxCrashes = 0
INVARIANTS
    DifferentDataIsUpdated
CHECK_DEADLOCK FALSE
