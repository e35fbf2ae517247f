SPECIFICATION ResourcesSpec
CONSTANTS
    Pipeline = {p, q}
    OnSheets = {p}
    Url = {u}
    MaxAttempts = 2
    MaxFaults = 1
    MaxCreated = 2
INVARIANT TeardownCleansUp
CHECK_DEADLOCK FALSE
