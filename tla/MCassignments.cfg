\* Signals, crashes and redis errors between the assignments of a handler.
SPECIFICATION AssignmentSpec
CONSTANTS
    Keys <- ChainKeys
    Budgets = {3}
    Balances = {2}
    Adjustments = {1}
    Shadows <- SpendShadow
    ShadowKeys <- AgentOnly
    LoadMayFail = FALSE
    MaxRequests = 3
    MaxRestarts = 1
    MaxErrors = 1
INVARIANTS
    RestartPossible
    StorageNeverAhead
PROPERTIES
    HandlersAtomic
