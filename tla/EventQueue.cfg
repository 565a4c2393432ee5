SPECIFICATION FairSpec
CONSTANTS
    MaxSize = 3
    MaxPushed = 7
    EventTypes = {message, receipt}
    NoType = NoType
INVARIANTS
    TypeOK
    Conservation
    LossesReported
    Suffix
PROPERTIES
    StreamSpec
    EveryEventAccounted
