SPECIFICATION FairSpec
CONSTANTS
    Targets = {t1}
    Nobody = Nobody
    Resources <- AllResources
    Order <- KindsInOrder
    DependsOn <- BucketFirst
    Stateful <- StatefulOnes
    Undelayed <- OneUndelayed
    Drifting <- Databases
    Buckets <- OneBucket
    Scripts <- OneScript
    SkipRefresh = FALSE
    Manifests <- DelayManifests
    MaxEdits = 0
    MaxFailures = 0
    MaxOutages = 0
PROPERTIES
    DependenciesDelay
