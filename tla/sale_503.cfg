SPECIFICATION Spec
CONSTANTS
    Price = 1
    DailyCap = 1
    MaxRetries = 2
    MaxAttempts = 2
    LogMax = 1
    Bindings = {"IOT_KV", "RATE_LIMITER", "AI"}
    NoEvent = NoEvent
    FaultSets = {{"call"}}
CHECK_DEADLOCK FALSE
INVARIANTS CapIsHard
