SPECIFICATION ReportsFairSpec
CONSTANTS
    Payer = {buyer, visitor}
    NoPayer = NoPayer
    OwnWallets = {buyer}
    Amount = {1, 2}
    Time = {10, 11, 20}
    DayOf <- Day
    LogMax = 3
    v1 = v1
    v2 = v2
    v3 = v3
    Visit = {v1, v2, v3}
    Source = {direct, devto}
    Direct = direct
    Campaign = {none, launch}
    NoCampaign = none
    Unlisted = unlisted
    Fetch = {f1, f2}
    MaxReports = 1
    Workloads <- Loads
CHECK_DEADLOCK FALSE
INVARIANTS SummariseIsGroupBy ReportsAgree CountsAreAFloor LossNeedsOverlap
PROPERTIES TableCatchesUp
