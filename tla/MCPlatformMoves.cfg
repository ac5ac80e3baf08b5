SPECIFICATION Spec
CONSTANTS
    Absent = Absent
    p1 = p1
    p2 = p2
    t1 = t1
    t2 = t2
    n1 = n1
    n2 = n2
    d1 = d1
    Platforms = {p1, p2}
    NoPlatform = NoPlatform
    Tenants = {t1}
    Namespaces = {n1}
    DomainNames = {d1}
    Domains <- OneDomain
    Infos = {"i1"}
    NoInfo = NoInfo
    TenantVals <- MovingTenantVals
    DomainVals <- MovingDomainVals
    InitialApi <- DomainApiOnly
    ConfigMapsLag = FALSE
    PlatformsMayChange = FALSE
    NamesReusedAtOnce = FALSE
    Workers = {w1, w2}
    NoWrite = NoWrite
    MaxEdits = 2
    MaxFailures = 0
    MaxCrashes = 0
INVARIANTS
    SettledDomainMaps
    PlatformMapsAreConsistent
PROPERTIES
    OnlyOwnMapsAreReplaced
SYMMETRY WorkerSymmetry
CHECK_DEADLOCK FALSE
