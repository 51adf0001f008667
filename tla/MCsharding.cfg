\* The migrations of the README, interrupted and repeated, and the requests that
\* come afterwards.
SPECIFICATION Spec
CONSTANTS
    db0 = db0  db1 = db1  db2 = db2
    Databases = {db0, db1, db2}
    Names <- AccountNames
    Parent <- FirstComponent
    Bytes <- NameBytes
    CharSigned = TRUE
    Migrations <- MCMigrations
    Methods = {"GET", "POST", "PUT", "DELETE"}
    Paths <- MCPaths
    QueryNames = {"", "bla", "hello:agent"}
    MaxCrashes = 1
\* The script has ended and its requests were served.
CHECK_DEADLOCK FALSE
INVARIANTS
    ShardingTypeOK
    AccountsFound
    OneOwner
    NothingLost
    RoutesAgree
    SupportedReached
