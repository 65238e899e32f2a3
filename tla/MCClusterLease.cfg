SPECIFICATION Spec
CONSTANTS
    Clusters = {"main"}
    VMs = {"v1"}
    VMsOf <- SoloVMs
    LeaseSets <- SoloLeases
    Scheduler = "scheduler"
    Users = {"operator"}
    Loops = {"l1", "l2"}
    Nobody = "nobody"
    MaxFaults = 1
    MaxCrashes = 0
INVARIANTS
    TypeOK
    KeptByOneLoop
    OnlyOperatorsLimitJobs
    
    RunningLive
PROPERTIES
    JobKeepsLease
CHECK_DEADLOCK FALSE
