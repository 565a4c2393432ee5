SPECIFICATION Spec
CONSTANTS
    Names = {n1}
    Callers = {c1}
    Free = Free
    MaxSessions = 1
    MaxCalls = 2
    MaxRestarts = 0
    Ops = {"Start", "StartPairing"}
CHECK_DEADLOCK FALSE
PROPERTIES
    ResetSparesPaired
