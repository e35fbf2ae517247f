SPECIFICATION Spec
CONSTANTS
    Stream = {customers}
    Websocket = {TRUE, FALSE}
    MaxTime = 3
    MaxEvents = 2
    MaxRequests = 2
INVARIANTS
    LiveHandover
    AcknowledgedIsInTable
CHECK_DEADLOCK FALSE
