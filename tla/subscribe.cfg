SPECIFICATION Spec
CONSTANTS
    Post = {p1, p2, p3, p4}
    Email = {a1, a2}
    Ip = {ip1}
    Page = 1
    Quota = 2
    Window = 2
    MaxTime = 2
    Settings <- Deployments
CHECK_DEADLOCK FALSE
SYMMETRY Interchangeable
INVARIANTS AcknowledgedIsStored ListedOnlyWithConsent SerialThrottleHolds ListingIsComplete
