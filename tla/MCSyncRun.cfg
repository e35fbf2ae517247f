SPECIFICATION Spec
CONSTANTS
    Stream = {customers, invoices}
    Records = 1
    BatchSize = 2
    StateLimit = 2
    MaxRuns = 2
    MaxRequests = 3
SYMMETRY Streams
INVARIANTS
    TypeOK
    CommitFence
    EofIsTruthful
PROPERTIES
    EndedStreamsStay
CHECK_DEADLOCK FALSE
