SPECIFICATION SavedSpec
CONSTANTS
    Names = {n1, n2}
    Callers = {c1, mon}
    Monitor = mon
    Free = Free
    MaxSessions = 1
    MaxCalls = 2
    MaxRestarts = 0
    MaxSleeps = 2
    Ops = {"Start", "RemoveSession", "Shutdown"}
CHECK_DEADLOCK FALSE
INVARIANTS
    SleepStops
PROPERTIES
    WakeRestores
    SleepIsUndone
    MonitorReturns
    CallbacksReturn
