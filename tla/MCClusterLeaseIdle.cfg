SPECIFICATION Spec
CONSTANTS
    Clusters = {"main"}
    VMs = {"v1"}
    VMsOf <- SoloVMs
    LeaseSets <- SoloLeases
    Scheduler = "scheduler"
    Users = {}
    Loops = {"l1", "l2"}
    Nobody = "nobody"
    MaxFaults = 1
    MaxCrashes = 0
INVARIANTS
    IdleHasDeadline
CHECK_DEADLOCK FALSE
