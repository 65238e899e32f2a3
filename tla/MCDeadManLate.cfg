SPECIFICATION FleetSpec
CONSTANTS
    VMs = {v1}
    Deadman = 60
    RearmInterval = 30
    RearmDeadline = 50
    BeatTimeout = 5
    TickTime = 1
    DrainTimeout = 10
    ArmTimeout = 2
    MaxFaults = 1
    MaxHands = 0
INVARIANTS
    NoSurprise
CHECK_DEADLOCK FALSE
