SPECIFICATION Spec
CONSTANTS
    Jobs = {j1, j2}
    NumCores = 1
    MaxSubmit = 2
    Requests <- BatchRequests
    Faults = {"timeout"}
    NoJob = NoJob
CHECK_DEADLOCK FALSE
SYMMETRY Symmetry
VIEW NoHistory
INVARIANTS
    RemoveFindsNothing
