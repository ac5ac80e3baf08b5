SPECIFICATION Spec
CONSTANTS
    Targets = {t1, t2}
    Nobody = Nobody
    Resources <- AllResources
    Order <- KindsInOrder
    DependsOn <- BucketFirst
    Stateful <- StatefulOnes
    Undelayed <- OneUndelayed
    Drifting <- Databases
    Buckets <- OneBucket
    Scripts <- OneScript
    SkipRefresh = FALSE
    Manifests <- ScriptManifests
    MaxEdits = 0
    MaxFailures = 0
    MaxOutages = 0
INVARIANTS
    ScriptsHaveOwnValues
