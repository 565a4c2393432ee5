SPECIFICATION Spec
CONSTANTS
    Names = {n1, n2}
    Callers = {c1, c2}
    Free = Free
    MaxSessions = 1
    MaxCalls = 3
    MaxRestarts = 1
    Ops = {"Start", "Stop", "Logout", "StartPhonePairing", "LogoutSession", "StopAll", "Destroy"}
SYMMETRY Symmetric
CHECK_DEADLOCK FALSE
INVARIANTS
    TypeOK
    SessionsWithinLimit
    MappedOwnsDirectory
    CredentialsAreDurable
    SomebodyCanGoOn
PROPERTIES
    CredentialsLostOnPurpose
    StoreSpec
