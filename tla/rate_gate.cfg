SPECIFICATION Spec
CONSTANTS
    Caller = {c1, c2}
    Address = {a1, a2}
    Payer = {p}
    NoPayer = none
    AddressQuota = 2
    PayerQuota = 1
    Window = 2
    Second = 1
    MaxTime = 2
    HitMayFail = TRUE
INVARIANTS
    BothQuotasHold
    RetryAfterSuffices
SYMMETRY Symmetric
CHECK_DEADLOCK FALSE
