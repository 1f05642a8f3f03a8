SPECIFICATION LiveSpec
CONSTANTS
    Jobs = {j1, j2}
    NumCores = 2
    MaxSubmit = 2
    Requests <- MixedRequests
    Faults = {}
    NoJob = NoJob
CHECK_DEADLOCK FALSE
INVARIANTS
    TypeOK
    QueuedJobsLive
    QuietMeansClean
    DoneMeansExecuted
    GangNeverCrossed
PROPERTIES
    JobsComplete
