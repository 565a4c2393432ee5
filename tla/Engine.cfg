SPECIFICATION Spec
CONSTANTS
    Callers = {c1, c2}
    NoCaller = NoCaller
    MaxCalls = 3
    MaxEvents = 2
    Ops = {"Connect", "StartPairing", "StartPhonePairing", "Disconnect"}
SYMMETRY Symmetric
CHECK_DEADLOCK FALSE
INVARIANTS
    TypeOK
    NothingUnheard
    ReconnectsOncePaired
    ConnectingIsNotStuck
    NoTransientLeftBehind
PROPERTIES
    StartsFromRest
