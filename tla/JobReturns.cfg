SPECIFICATION FairSpec
CONSTANTS
    Jobs = {j1, j2}
    NumCores = 1
    MaxSubmit = 2
    Requests <- SequelRequests
    Faults = {"timeout", "overtime", "reset_fail", "fence_out"}
    NoJob = NoJob
CHECK_DEADLOCK FALSE
PROPERTIES
    SubmitReturns
