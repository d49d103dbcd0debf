SPECIFICATION MandateSpec
CONSTANTS
    Address = {"buyer", "thief"}
    Seller = {"here", "elsewhere"}
    Cap <- Limits
    Prices = {1, 2}
    MaxTime = 2
    NotANumber = NotANumber
CHECK_DEADLOCK FALSE
INVARIANTS GoodMandateIsAccepted AcceptedIsAuthorized
