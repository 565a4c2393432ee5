SPECIFICATION Spec
CONSTANTS
    Callers = {c1, c2}
    Handlers = {h1}
    Managers = {m1}
    Enabled = TRUE
    SendOnConnect = TRUE
    SimulateTyping = TRUE
    InitialDelay = 10
    Multiplier = 2
    MaxDelay = 30
    BackoffJitter = 20
    MaxAttempts = 0
    Ops = {"handleSendText", "Stop"}
    Events = {"Connected", "Disconnected", "LoggedOut", "StreamReplaced", "PairSuccess",
              "KeepAliveTimeout", "KeepAliveRestored"}
    MaxCalls = 2
    MaxEvents = 3
CHECK_DEADLOCK FALSE
SYMMETRY Symmetric
INVARIANTS
    TypeOK
    TypingIsStopped
    OnlineIsWatched
    DelayBounded
    DelaysGrow
