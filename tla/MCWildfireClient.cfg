CONSTANTS
    Ids = {i1}
    MaxConns = 2
    QueueCap = 1
    NoId = NoId
SPECIFICATION FairSpec
PROPERTY CorrelatorImplemented
CHECK_DEADLOCK FALSE
