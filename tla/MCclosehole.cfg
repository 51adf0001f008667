\* A close skips what is below a closed account.
SPECIFICATION Spec
CONSTANTS
    Keys <- ChainKeys
    Budgets = {}
    Balances = {}
    Adjustments = {1}
    Shadows <- NoShadows
    ShadowKeys <- ChainKeys
    LoadMayFail = FALSE
    MaxRequests = 4
    MaxRestarts = 0
    MaxErrors = 0
PROPERTIES
    CloseClosesSubtree
