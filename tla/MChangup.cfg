\* Redis is lost, or was never there, while a ping waits.
SPECIFICATION FairSpec
CONSTANTS
    save = save  ping = ping  multi = multi
    Calls = {save, ping}
    NumCommands <- SaveAndPing
    WithTimeout = {ping}
    MayClose = FALSE
    PeerFaults = {"hangup"}
CHECK_DEADLOCK FALSE
PROPERTY TimeoutsHonoured
