\* One spend account and its shadow.
SPECIFICATION Spec
CONSTANTS
    b1 = b1
    Keys <- TwoKeys
    Account1 <- Spend
    Items = {b1}
    BidAmounts = {2}
    PaidAmounts = {3}
    Budget = 4
    NewBalances = {3}
    LateMessages = FALSE
    MaxOps = 3
    MaxBalances = 1
    MaxCrashes = 1
    MaxMessages = 2

CHECK_DEADLOCK FALSE
INVARIANTS
    ShadowTypeOK
    ShadowChecksHold
    OperationsKept
    ReportAccepted
    OverdraftBounded
    PoolsPointwise
