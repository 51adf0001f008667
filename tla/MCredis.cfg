\* A save, a ping with a timeout and two commands queued as one, with a redis
\* that is slow, closes the connection or is lost, and an owner that closes.
SPECIFICATION FairSpec
CONSTANTS
    save = save  ping = ping  multi = multi
    Calls = {save, ping, multi}
    NumCommands <- Sizes
    WithTimeout = {ping, multi}
    MayClose = TRUE
    PeerFaults = {"closed", "hangup"}
\* Calls may wait for ever on a connection that ended.
CHECK_DEADLOCK FALSE
INVARIANTS
    RedisTypeOK
    NothingDangles
    CountedOnce
PROPERTIES
    KeepsPromise
    AnsweredWhileLooping
