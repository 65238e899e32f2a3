SPECIFICATION IngestSpec
CONSTANTS
    NJobs = 1
    Points = {"a", "b"}
    Ids = {"a", "b", "position"}
    ScanId <- TwoIds
    MaxLines = 6
    MaxStarts = 2
    MaxFailures = 1
    MaxMishaps = 0
INVARIANTS
    GivenUpForCause
CHECK_DEADLOCK FALSE
