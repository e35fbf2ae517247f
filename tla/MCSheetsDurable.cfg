SPECIFICATION WriteSpec
CONSTANTS
    Key = {a, b}
    MaxVersion = 2
    MaxBatch = 2
    MaxRequests = 2
INVARIANT DurableRecords
CHECK_DEADLOCK FALSE
