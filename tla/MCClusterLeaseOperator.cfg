SPECIFICATION FairSpec
CONSTANTS
    Clusters = {"main"}
    VMs = {"v1"}
    VMsOf <- SoloVMs
    LeaseSets <- SoloLeases
    Scheduler = "scheduler"
    Users = {"operator"}
    Loops = {"l1"}
    Nobody = "nobody"
    MaxFaults = 0
    MaxCrashes = 1
PROPERTIES
    DeadlineFires
    StraysSeen
    StaleRowsFixed
CHECK_DEADLOCK FALSE
