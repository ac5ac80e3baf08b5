SPECIFICATION Spec
CONSTANTS
    Absent = Absent
    Platforms = {"p1"}
    Namespaces <- TwoNamespaces
    Domains <- OneDomain
    NoDomain = NoDomain
    Kinds <- MapsAndSecrets
    Sources <- TwoMaps
    Data <- AllData
    DomainVals <- MapsOrNot
    SourceVals <- TwoMapVals
    Unselectable <- NoDomains
    Foreign = Foreign
    Role = Role
    InitialApi <- FullMapsApi
    PlatformsMayChange = FALSE
    PlatformsMayCome = FALSE
    Tampering = {"delete", "empty"}
    Workers = {w1}
    MaxEdits = 2
    MaxFailures = 0
    MaxCrashes = 1
INVARIANTS
    TypeOK
    ReadyIsWithdrawn
    SettledIsAggregated
    SettledIsCleanedUp
    OwnConfigWins
PROPERTIES
    ImplementsReconciler
CHECK_DEADLOCK FALSE
