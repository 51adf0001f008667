\* An overdrawn budget account makes amounts negative.
SPECIFICATION Spec
CONSTANTS
    Keys <- PairKeys
    Budgets = {1}
    Balances = {1}
    Adjustments <- SignedAdjustments
    Shadows <- NoShadows
    ShadowKeys <- PairKeys
    LoadMayFail = FALSE
    MaxRequests = 4
    MaxRestarts = 0
    MaxErrors = 0
INVARIANTS
    EverythingButBalancePositive
