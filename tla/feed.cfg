SPECIFICATION FairSpec
CONSTANTS
    Event = {e1, e2, e3}
    NoEvent = NoEvent
    PollsPerStream = 2
    MaxTime = 3
    MaxBreaks = 1
    FaultSets = {{"expiry"}, {"expiry", "kv"}, {"expiry", "kv", "stale"}}
CHECK_DEADLOCK FALSE
INVARIANTS ShownOnceInOrder NothingStaleShown
PROPERTIES CatchesUp
