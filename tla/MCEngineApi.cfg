SPECIFICATION FairSpec
CONSTANTS
    r1 = r1
    r2 = r2
    Request <- Requests
    Asks <- AnyAndDiscover
    Spoken = {"log", "record", "connection_failed"}
    MaxItems = 1
INVARIANTS
    OneConnector
    StopsAfterOne
    AnswersAreTrue
    NoProcessLeft
PROPERTIES
    EveryRequestIsAnswered
CHECK_DEADLOCK FALSE
