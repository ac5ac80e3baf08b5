SPECIFICATION Spec
CONSTANTS
    Absent = Absent
    p1 = p1
    p2 = p2
    t1 = t1
    t2 = t2
    d1 = d1
    d2 = d2
    c1 = c1
    r1 = r1
    r2 = r2
    Platforms = {p1}
    NoPlatform = NoPlatform
    Tenants = {t1}
    NoTenant = NoTenant
    TenantName <- MCTenantName
    PlatformWord = PlatformWord
    StackName <- MCStackName
    Malformed <- MCMalformed
    Domains = {d1}
    NoDomain = NoDomain
    Categories = {c1}
    NoCategory = NoCategory
    Resources = {r1}
    TenantVals <- OneTenantVals
    CategoryVals <- OneCategoryVals
    ResourceVals <- OneResourceVals
    Specs <- MCSpecs
    Settings <- MCSettings
    Overrides <- MCOverrides
    NoOverride = "none"
    NoSettings = "none"
    SkipInitialReconcile = FALSE
    InitialApi <- FullApiOnly
    WarmStart = FALSE
    Workers = {w1}
    PlatformsMayChange = FALSE
    MaxEdits = 0
    MaxFailures = 1
    MaxCrashes = 0
    MaxLost = 0
INVARIANTS
    FailureIsRetried
CHECK_DEADLOCK FALSE
