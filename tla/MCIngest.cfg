SPECIFICATION IngestSpec
CONSTANTS
    NJobs = 2
    Points = {"a", "b"}
    Ids = {"a", "b", "position"}
    ScanId <- TwoIds
    MaxLines = 4
    MaxStarts = 2
    MaxFailures = 1
    MaxMishaps = 1
INVARIANTS
    IngestTypeOK
    ProgressIsLastRun
    LedgerCurrent
PROPERTIES
    TailRead
CHECK_DEADLOCK FALSE
