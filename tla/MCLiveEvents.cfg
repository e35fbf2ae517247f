SPECIFICATION Spec
CONSTANTS
    Stream = {customers}
    Websocket = {TRUE, FALSE}
    MaxTime = 3
    MaxEvents = 3
    MaxRequests = 4
INVARIANTS
    EventsCovered
PROPERTIES
    RowsOnlyAdvance
CHECK_DEADLOCK FALSE
