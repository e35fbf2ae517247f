SPECIFICATION WriteSpec
CONSTANTS
    Key = {a, b, c}
    MaxVersion = 2
    MaxBatch = 3
    MaxRequests = 2
SYMMETRY Keys
INVARIANTS
    TabSound
PROPERTIES
    RowsNeverRegress
    DeletesReachSheet
CHECK_DEADLOCK FALSE
