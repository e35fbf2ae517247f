SPECIFICATION Spec
CONSTANTS
    r1 = r1
    r2 = r2
    Request <- Requests
    Asks <- AnyAndDiscover
    Spoken = {"log", "record", "connection_failed"}
    MaxItems = 1
INVARIANT SourceFailureIsTold
CHECK_DEADLOCK FALSE
