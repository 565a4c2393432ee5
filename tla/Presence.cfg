SPECIFICATION FairSpec
CONSTANTS
    Callers = {c1}
    Handlers = {h1}
    Managers = {m1, m2}
    Enabled = TRUE
    SendOnConnect = TRUE
    SimulateTyping = TRUE
    InitialDelay = 10
    Multiplier = 2
    MaxDelay = 30
    BackoffJitter = 0
    MaxAttempts = 1
    Ops = {"handleSendText", "handleSendImage", "handleSendDocument", "handleSendVideo", "handleSendAudio",
           "SendTextReply", "SendImage", "SendLocation", "SendContact", "SetTyping", "MarkRead",
           "SendPresence", "handleMarkActive", "SetPresenceConfig", "Start", "Stop"}
    Events = {"Connected", "Disconnected"}
    MaxCalls = 2
    MaxEvents = 2
CHECK_DEADLOCK FALSE
INVARIANTS
    AnswerAgreesWithEvents
PROPERTIES
    IdleGoesOffline
