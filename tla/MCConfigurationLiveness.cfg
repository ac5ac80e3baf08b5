SPECIFICATION FairSpec
CONSTANTS
    Absent = Absent
    Platforms = {"p1"}
    Namespaces <- TwoNamespaces
    Domains <- OneDomain
    NoDomain = NoDomain
    Kinds <- WithVault
    Sources <- OneSecret
    Data <- AllData
    DomainVals <- SecretsOrNot
    SourceVals <- VaultVals
    Unselectable <- NoDomains
    Foreign = Foreign
    Role = Role
    InitialApi <- VaultApi
    PlatformsMayChange = TRUE
    PlatformsMayCome = FALSE
    Tampering = {"take"}
    Workers = {w1}
    MaxEdits = 1
    MaxFailures = 1
    MaxCrashes = 1
PROPERTIES
    EventuallyAggregated
CHECK_DEADLOCK FALSE
