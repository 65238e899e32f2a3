SPECIFICATION Spec
CONSTANTS
    NumJobs = 2
    Clusters = {"main"}
    NoCluster = "none"
    ClusterOf <- MixedClusters
    MaxAttempts <- MixedAttempts
    SpecPriority <- EqualPriority
    MaxCrashes = 1
INVARIANTS
    TypeOK
    AttemptsPaidFor
    OpenAttemptsPaidFor
    DriversPaidFor
    LeaseFollowsSlot
    RunningRowIsDriven
PROPERTIES
    FinishedStays
    LivesAsPromised
