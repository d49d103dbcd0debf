SPECIFICATION FairSpec
CONSTANTS
    Price = 1
    DailyCap = 2
    MaxRetries = 2
    MaxAttempts = 2
    LogMax = 1
    Bindings = {"IOT_KV", "RATE_LIMITER", "AI"}
    NoEvent = NoEvent
    FaultSets = {{"kv", "stale", "abort"}, {"kv", "stale", "call", "abort"}}
CHECK_DEADLOCK FALSE
INVARIANTS UnrecordedOnlyAfter503
PROPERTIES BuyerSpec PurchaseEnds
