SPECIFICATION FairSpec
CONSTANTS
    Window = 4
    Quota = 2
    Second = 2
    LastHit = 10
    MaxTime = 17
    FaultSets <- AllFaultSets
CHECK_DEADLOCK FALSE
INVARIANTS QuotaHolds RetryAfterIsExact
PROPERTIES SlidingWindowSpec IdleBucketCleaned
