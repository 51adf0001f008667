\* One process from its start on: no restart, amounts that overdraw no
\* budget account.
SPECIFICATION FairSpec
CONSTANTS
    Keys <- ChainKeys
    Budgets = {3}
    Balances = {0, 2}
    Adjustments = {}
    Shadows <- SpendShadow
    ShadowKeys <- AgentOnly
    LoadMayFail = FALSE
    MaxRequests = 5
    MaxRestarts = 0
    MaxErrors = 1
INVARIANTS
    StorageNeverAhead
    TransfersConsistent
PROPERTIES
    CloseFromTheLeaves
    EventuallySaved
