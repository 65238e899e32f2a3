SPECIFICATION FleetSpec
CONSTANTS
    VMs = {v1, v2}
    Deadman = 7
    RearmInterval = 2
    RearmDeadline = 3
    BeatTimeout = 1
    TickTime = 1
    DrainTimeout = 1
    ArmTimeout = 1
    MaxFaults = 1
    MaxHands = 1
INVARIANTS
    FleetTypeOK
    ArmsRecent
    NoUnboundedBill
    FailsForCause
PROPERTIES
    UpEnds
CHECK_DEADLOCK FALSE
