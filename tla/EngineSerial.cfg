SPECIFICATION SerialSpec
CONSTANTS
    Callers = {c1}
    NoCaller = NoCaller
    MaxCalls = 5
    MaxEvents = 4
    Ops = {"Connect", "StartPairing", "Disconnect"}
CHECK_DEADLOCK FALSE
INVARIANTS
    StoppedIsClosed
    ConnectedIsReal
PROPERTIES
    LifeSpec
