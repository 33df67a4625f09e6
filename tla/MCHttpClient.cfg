CONSTANTS
    t1 = t1
    t2 = t2
    Threads <- MCThreads
    RatePerMinute = 40
    Capacity = 1
    MaxCalls = 4
    MaxTime = 40
    MaxSpare = 1
    MaxAttempts = 2
    BackoffBase = 1
    BackoffCap = 2
    RetryAfters <- MCRetryAfters
SPECIFICATION HttpSpec
INVARIANTS
    HttpTypeOK
    RateLimit
    SleepSuffices
    WireRate
    Verdict
PROPERTIES
    EveryRequestEnds
CHECK_DEADLOCK FALSE
