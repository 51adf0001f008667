\* Single requests and requests to all shards over shared connections.
SPECIFICATION FairSpec
CONSTANTS
    r1 = r1  r2 = r2  r3 = r3
    c1 = c1  c2 = c2  c3 = c3  c4 = c4
    mb1 = mb1  mb2 = mb2
    NULL = NULL
    NoEndpoint = NoEndpoint
    Config <- TwoShards
    SDBMHash <- Hash
    Requests = {r1, r2, r3}
    Connections = {c1, c2, c3, c4}
    Targets <- AllTargets
    MinConnections = 1
    MaxUses = 2
    Outcomes = {"ok", "error", "refused", "lost"}
    FreedReads = {"garbled", "crash"}
    MaxAllocFailures = 1
\* All requests may have been answered, and the process may have ended.
CHECK_DEADLOCK FALSE
INVARIANTS
    RelayTypeOK
    ConnectionsAccountedFor
    CloseAnnouncedIsKept
    OneReplyEach
    RightBanker
    MergedInFull
PROPERTY AnsweredWhileUp
