SPECIFICATION FairSpec
CONSTANTS
    Callers = {c1}
    Handlers = {h1}
    Managers = {m1}
    Enabled = TRUE
    SendOnConnect = TRUE
    SimulateTyping = TRUE
    InitialDelay = 10
    Multiplier = 2
    MaxDelay = 30
    BackoffJitter = 0
    MaxAttempts = 0
    Ops = {"SendTextReply", "Start", "Stop"}
    Events = {"Connected"}
    MaxCalls = 3
    MaxEvents = 2
CHECK_DEADLOCK FALSE
PROPERTIES
    NobodyStaysOnline
