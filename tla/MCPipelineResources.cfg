SPECIFICATION ResourcesSpec
CONSTANTS
    Pipeline = {p, q}
    OnSheets = {p}
    Url = {u, v}
    MaxAttempts = 3
    MaxFaults = 1
    MaxCreated = 3
SYMMETRY Urls
INVARIANTS
    RunningIsReady
    NothingLeft
PROPERTIES
    TeardownTouchesOwn
CHECK_DEADLOCK FALSE
