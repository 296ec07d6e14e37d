CONSTANTS
    Ids = {i1}
    MaxConns = 2
    QueueCap = 1
    NoId = NoId
SPECIFICATION Spec
INVARIANT FailedConnectReleasesSocket
CHECK_DEADLOCK FALSE
