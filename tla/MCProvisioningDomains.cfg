SPECIFICATION Spec
CONSTANTS
    Absent = Absent
    p1 = p1
    p2 = p2
    t1 = t1
    t2 = t2
    d1 = d1
    d2 = d2
    c1 = c1
    r1 = r1
    r2 = r2
    Platforms = {p1}
    NoPlatform = NoPlatform
    Tenants = {t1, t2}
    NoTenant = NoTenant
    TenantName <- MCTenantName
    PlatformWord = PlatformWord
    StackName <- MCStackName
    Malformed <- MCMalformed
    Domains = {d1, d2}
    NoDomain = NoDomain
    Categories = {}
    NoCategory = NoCategory
    Resources = {r1}
    TenantVals <- TwoDomainTenantVals
    CategoryVals <- NoCategoryVals
    ResourceVals <- TwoDomainResourceVals
    Specs <- MCSpecs
    Settings <- MCSettings
    Overrides <- MCOverrides
    NoOverride = "none"
    NoSettings = "none"
    SkipInitialReconcile = FALSE
    InitialApi <- EmptyOrFullApi
    WarmStart = FALSE
    Workers = {w1, w2}
    PlatformsMayChange = FALSE
    MaxEdits = 2
    MaxFailures = 0
    MaxCrashes = 0
    MaxLost = 0
INVARIANTS
    TypeOK
    NoLostWakeup
    StaleJobIsRedone
    WorkersHoldKeys
    OneWorkerPerStack
    SettledIsCleanedUp
    SettledIsMigrated
    SettledPlatformIsProvisioned
    SkippedIsUntouched
CHECK_DEADLOCK FALSE
