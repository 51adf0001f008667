\* A banker that is lost ends the relay.
SPECIFICATION FairSpec
CONSTANTS
    r1 = r1  r2 = r2  r3 = r3
    c1 = c1  c2 = c2  c3 = c3  c4 = c4
    mb1 = mb1  mb2 = mb2
    NULL = NULL
    NoEndpoint = NoEndpoint
    Config <- TwoShards
    SDBMHash <- Hash
    Requests = {r1, r2}
    Connections = {c1, c2, c3}
    Targets <- OneTree
    MinConnections = 1
    MaxUses = 2
    Outcomes = {"ok", "lost"}
    FreedReads = {}
    MaxAllocFailures = 0
CHECK_DEADLOCK FALSE
PROPERTY EveryRequestAnswered
