SPECIFICATION FairSpec
CONSTANTS
    Request = {r1, r2}
    Proof = {p1, p2, pMismatched, pUnverifiable}
    NoProof = NoProof
    Rewritten = {p1}
    Header <- HeadersSent
    Resources = {"readings", "inference", "legacy"}
    Mandates = {"none", "good", "bad"}
    Mismatched = {pMismatched}
    Unverifiable = {pUnverifiable}
    NoEvent = NoEvent
    LogMax = 1
    RequireMandate = TRUE
    Bindings = {"IOT_KV", "RATE_LIMITER", "AI"}
    FaultSets = {{"kv", "abort", "expire"}, {"kv", "stale", "call", "abort", "expire"}}
CHECK_DEADLOCK FALSE
INVARIANTS KeyBeforeCharge FailureIsFree LedgerIsTrue OnlyAuthorizedSettle DeliveredOncePerCharge NoLateReplay
PROPERTIES IdealSpec EveryRequestAnswered
