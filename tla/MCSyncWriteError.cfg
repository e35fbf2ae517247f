SPECIFICATION Spec
CONSTANTS
    Stream = {customers, invoices}
    Records = 1
    BatchSize = 1
    StateLimit = 2
    MaxRuns = 1
    MaxRequests = 1
INVARIANTS
    SucceededIsWritten
CHECK_DEADLOCK FALSE
