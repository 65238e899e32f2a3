SPECIFICATION FairSpec
CONSTANTS
    NumJobs = 2
    Clusters = {"main"}
    NoCluster = "none"
    ClusterOf <- SharedCluster
    MaxAttempts <- OneRetryEach
    SpecPriority <- EqualPriority
    MaxCrashes = 0
PROPERTIES
    SlotReturned
    HeadIsServed
    EveryJobEnds
