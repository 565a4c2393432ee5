SPECIFICATION FairSpec
CONSTANTS
    Waiters = {w1, w2}
    BurstSize = 2
    Cost = 2
    MinInterval = 2
    JitterPercent = 50
    MaxCalls = 3
    Horizon = 5
CHECK_DEADLOCK FALSE
INVARIANTS
    TypeOK
    ThroughputBounded
    SpacedFromSeen
PROPERTIES
    BucketSpec
    EveryWaitReturns
