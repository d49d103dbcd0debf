SPECIFICATION Spec
CONSTANTS
    Post = {p1, p2, p3}
    Email = {a1}
    Ip = {ip1}
    Page = 1
    Quota = 2
    Window = 2
    MaxTime = 1
    Settings <- Burst
CHECK_DEADLOCK FALSE
SYMMETRY Interchangeable
INVARIANTS ThrottleHolds
