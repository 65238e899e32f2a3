SPECIFICATION SweepSpec
CONSTANTS
    StartRate = 4
    MinRate = 2
    MaxRate = 7
    MaxStep = 3
    RefineSteps = 1
    MaxPasses <- Unlimited
    Tolerance = 0
    Resolution = 1
    BaseTrials = 1
    LastTrial = 1
    RetryPoints <- Retried
    FirstOutcomes <- First
    LaterOutcomes = {"flat"}
    RetryOutcomes <- Again
    MaxAttempts = 2
    RetryDead = FALSE
    MaxJobs = 3
    MaxKills = 2
INVARIANTS
    SweepTypeOK
    BracketWellFormed
    NothingAskedTwice
PROPERTIES
    DonePointsStay
    OneSearch
    ResultsCatchUp
    DriverEnds
CHECK_DEADLOCK FALSE
