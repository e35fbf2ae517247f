SPECIFICATION Spec
CONSTANTS
    l1 = l1
    l2 = l2
    l3 = l3
    get = get
    post = post
    Kind <- Kinds
    Rate = 1
    MaxRetries = 1
    BackoffBase = 1
    BackoffMax = 2
    RetryAfter = {2}
    Timeout = 1
    MaxDelay = 1
    LastStart = 1
    MaxTime = 12
SYMMETRY Lists
INVARIANTS
    RateKept
    RetriesEnd
CHECK_DEADLOCK FALSE
