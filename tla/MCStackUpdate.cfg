SPECIFICATION FairSpec
CONSTANTS
    Targets = {t1}
    Nobody = Nobody
    Resources <- AllResources
    Order <- KindsInOrder
    DependsOn <- BucketFirst
    Stateful <- StatefulOnes
    Undelayed <- OneUndelayed
    Drifting <- Databases
    Buckets <- OneBucket
    Scripts <- OneScript
    SkipRefresh = FALSE
    Manifests <- FewManifests
    MaxEdits = 2
    MaxFailures = 1
    MaxOutages = 1
INVARIANTS
    TypeOK
    SucceededIsAsked
    ChangesAreReported
PROPERTIES
    DependenciesComeFirst
    OnlyRetaggedAreReplaced
    StatefulIsRetained
    UpdatesEnd
