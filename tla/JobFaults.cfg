SPECIFICATION Spec
CONSTANTS
    Jobs = {j1, j2}
    NumCores = 1
    MaxSubmit = 2
    Requests <- BlockingRequests
    Faults = {"timeout", "bad_irq", "shared_irq", "reset_fail", "domain", "fence_in"}
    NoJob = NoJob
CHECK_DEADLOCK FALSE
SYMMETRY Symmetry
VIEW NoHistory
INVARIANTS
    HandlerOwnsCore
    SuccessMeansDone
