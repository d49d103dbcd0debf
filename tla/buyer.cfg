SPECIFICATION FairSpec
CONSTANTS
    ListPrice <- ReadingAndInference
    Prices = {1, 2, 3}
    PriceLists <- Either
    Key = {"k1", "k2", "k3"}
    NoKey = NoKey
    Malformed = Malformed
    Unusable = Unusable
    FirstKey = "k1"
    SellerSecrets = {"k1", "k2", Malformed, Unusable}
    Forgeries <- ByOthers
    MaxPerCall = 2
    DailyCap = 3
    MandateLife = 2
    Day = 2
    Lag = 1
    MaxRetries = 2
    MaxTime <- Clock
    MaxAttempts <- Attempts
    Scenarios = {{}, {"lost", "seller", "restart"}, {"lost", "late"}, {"reprice"},
                 {"reprice", "rotate", "altered"},
                 {"errorCharged", "late", "killed", "switch"}}
CHECK_DEADLOCK FALSE
INVARIANTS CapHolds EveryChargeRecorded PerCallHolds PaysSignedOffersOnly
PROPERTIES RunBuysEverything SwitchedOffForGood
