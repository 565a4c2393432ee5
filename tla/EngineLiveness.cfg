SPECIFICATION FairSpec
CONSTANTS
    Callers = {c1, c2}
    NoCaller = NoCaller
    MaxCalls = 3
    MaxEvents = 2
    Ops = {"Connect", "Disconnect"}
CHECK_DEADLOCK FALSE
PROPERTIES
    OperationsReturn
