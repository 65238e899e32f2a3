SPECIFICATION StreamSpec
CONSTANTS
    QueueSize = 1
    ReplayLimit = 1
    MaxEvents = 3
    MaxBreaks = 2
    MaxFetches = 2
    MaxLost = 1
INVARIANTS
    StreamTypeOK
    ShownOrComing
PROPERTIES
    CatchesUp
CHECK_DEADLOCK FALSE
