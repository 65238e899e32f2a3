SPECIFICATION Spec
CONSTANTS
    Clusters = {"main", "wide"}
    VMs = {"v1"}
    VMsOf <- TwinVMs
    LeaseSets <- TwinLeases
    Scheduler = "scheduler"
    Users = {"operator"}
    Loops = {"l1", "l2"}
    Nobody = "nobody"
    MaxFaults = 0
    MaxCrashes = 0
INVARIANTS
    NoOverlap
CHECK_DEADLOCK FALSE
