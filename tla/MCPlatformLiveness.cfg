SPECIFICATION FairSpec
CONSTANTS
    Absent = Absent
    p1 = p1
    p2 = p2
    t1 = t1
    t2 = t2
    n1 = n1
    n2 = n2
    d1 = d1
    Platforms = {p1}
    NoPlatform = NoPlatform
    Tenants = {t1}
    Namespaces = {n1, n2}
    DomainNames = {d1}
    Domains <- OneDomain
    Infos = {"i1"}
    NoInfo = NoInfo
    TenantVals <- OneTenantVals
    DomainVals <- OneDomainVals
    InitialApi <- EmptyOrFullApi
    ConfigMapsLag = FALSE
    PlatformsMayChange = TRUE
    NamesReusedAtOnce = FALSE
    Workers = {w1}
    NoWrite = NoWrite
    MaxEdits = 1
    MaxFailures = 1
    MaxCrashes = 1
PROPERTIES
    ImplementsReconciler
    EventuallyReconciled
CHECK_DEADLOCK FALSE
