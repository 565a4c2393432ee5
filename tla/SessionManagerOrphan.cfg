SPECIFICATION Spec
CONSTANTS
    Names = {n1}
    Callers = {c1, c2}
    Free = Free
    MaxSessions = 1
    MaxCalls = 2
    MaxRestarts = 0
    Ops = {"Start", "RemoveSession"}
CHECK_DEADLOCK FALSE
INVARIANTS
    NoOrphanEngine
