\* A recreated account overwrites its archived record.
SPECIFICATION Spec
CONSTANTS
    Keys <- PairKeys
    Budgets = {2}
    Balances = {1}
    Adjustments = {}
    Shadows <- NoShadows
    ShadowKeys <- PairKeys
    LoadMayFail = FALSE
    MaxRequests = 3
    MaxRestarts = 1
    MaxErrors = 0
PROPERTIES
    StoredAmountsNeverGoDown
