\* Amounts of any sign on any account; loads and saves may fail.
SPECIFICATION Spec
CONSTANTS
    Keys <- ChainKeys
    Budgets = {0, 2}
    Balances <- SignedBalances
    Adjustments <- SignedAdjustments
    Shadows <- BothShadows
    ShadowKeys <- ChainKeys
    LoadMayFail = TRUE
    MaxRequests = 3
    MaxRestarts = 1
    MaxErrors = 1
INVARIANTS
    TypeOK
    BooksBalance
    ParentsPresent
    StoredInOneSet
    StoredTransfersConsistent
PROPERTIES
    KeepsLedger
    NegativeOnlyFromOverdraft
\* A process that cannot parse what it stored does not start again.
CHECK_DEADLOCK FALSE
