------------------------------ MODULE Sharding ------------------------------
(***************************************************************************)
(* Moving the accounts to another number of shards, and the requests that  *)
(* come afterwards.  The script src/scripts/shard.py reads the accounts of *)
(* the old databases, deletes them there when it is told to, and pushes    *)
(* each one to the database of its new shard; it may end at any command    *)
(* and be started again.  The bankers are then started on the new          *)
(* databases, and the relay passes each request to the banker of the shard *)
(* it computes, which looks the account up in its own database.            *)
(*                                                                         *)
(* Bankers are stopped while the script runs.  A database is what it holds *)
(* of the banker: the records banker-<name>, the set banker:accounts and   *)
(* the set banker:archive.  A value is pushed as it was read; the value of *)
(* a record that is missing is None, which the client library writes as    *)
(* the text "None", a record no banker can parse (texts).                  *)
(***************************************************************************)
EXTENDS Integers, Sequences, FiniteSets, SequencesExt

CONSTANTS
    Names,        \* the names of accounts
    Parent,       \* the first component of each name a request may hold
    Bytes,        \* the bytes of each first component
    CharSigned,   \* whether char is signed where the relay was built
    Databases,    \* the redis databases
    Migrations,   \* what the script may be run for: the database of each old
                  \* shard, from_redis and to_redis
    Methods, Paths, QueryNames,  \* the requests, with accountName of the query
    MaxCrashes    \* bound: how often the script is ended

Hash == INSTANCE ShardHash
Path == INSTANCE Routing

\* Every account's name has a first component of plain characters, by which it
\* is hashed; "*" and the empty text are no accounts, and stand for themselves.
ASSUME NamesAssumption ==
    LET special == { "*", Path!Empty, Path!NoSuchSegment } IN
    /\ special \cap Names = {} /\ special \cap DOMAIN Bytes = {}
    /\ Parent["*"] = "*" /\ Parent[Path!Empty] = Path!Empty
    /\ \A n \in Names : Parent[n] \in DOMAIN Bytes
    /\ \A p \in DOMAIN Bytes : Bytes[p] \in Seq(0 .. 127)

\* A migration leaves no old shard out, and has at least one new one.
ASSUME MigrationsAssumption ==
    \A m \in Migrations :
       /\ m.from \in Seq(Databases)
       /\ Cardinality(DOMAIN m.old) \in Nat \ {0}
       /\ m.old \in [ 0 .. Cardinality(DOMAIN m.old) - 1 -> ToSet(m.from) ]
       /\ m.to \in [ DOMAIN m.to -> Databases ]
       /\ DOMAIN m.to \in SUBSET Nat /\ IsFiniteSet(DOMAIN m.to) /\ DOMAIN m.to # {}

\* A path has a first segment, and an account named in a request has a first
\* component.
ASSUME RequestsAssumption ==
    /\ Paths \subseteq Seq(STRING) \ { << >> }
    /\ \A method \in Methods, path \in Paths, accountName \in QueryNames :
         LET account == Path!relay_account(method, path, accountName) IN
         account # Path!NoSuchSegment => Parent[account] \in DOMAIN Bytes \cup { "*", Path!Empty }

VARIABLES
    migration, delete_from, dry_run,  \* the arguments
    before,       \* the databases before the script was ever run
    dbs,          \* the databases
    pc,           \* where the script is
    i,            \* the place in from_redis of the database it cleans
    accounts,     \* the accounts it has read and not yet pushed, each with
                  \* whether there was a record to read
    setting,      \* the name of which SET was done and not SADD
    crashes,
    interrupted,  \* whether a run of it ended before it was done
    served        \* the request served last

arguments == << migration, delete_from, dry_run, before >>
vars == << arguments, dbs, pc, i, accounts, setting, crashes, interrupted, served >>

Nobody == Path!Empty
NoRequest == [ method |-> Path!Empty, path |-> << >>, accountName |-> Nobody,
               parent |-> Nobody, shards |-> {}, handler |-> Path!NotFound ]

----------------------------------------------------------------------------
(* The shard of an account, in the script and in the relay.                *)

HashOf == [ p \in DOMAIN Bytes |-> Hash!SDBMHash(Bytes[p]) ]
HashOfPython == [ p \in DOMAIN Bytes |-> Hash!SDBMHashPython(Bytes[p]) ]

\* Sharder.get_shard
get_shard(name) == HashOfPython[Parent[name]] % Cardinality(DOMAIN migration.to)

\* Mutant: one shard too many.
relay_shardOneMore(parent) == HashOf[parent] % (Cardinality(DOMAIN migration.to) + 1)

\* The relay's configuration lists the shards the script was given.
relay_shard(parent) == HashOf[parent] % Cardinality(DOMAIN migration.to)

\* The bankers have kept every account in the database of its old shard, with
\* its record, among the active or the archived ones.
Init ==
    /\ migration \in Migrations
    /\ delete_from \in BOOLEAN /\ dry_run \in BOOLEAN
    /\ \E active \in SUBSET Names : \E archived \in SUBSET (Names \ active) :
         LET Owned(s, d) ==
                 { a \in s : migration.old[HashOf[Parent[a]]
                                 % Cardinality(DOMAIN migration.old)] = d }
         IN  before = [ d \in Databases |->
                 [ records |-> Owned(active \cup archived, d), texts |-> {},
                   accounts |-> Owned(active, d), archive |-> Owned(archived, d) ] ]
    /\ dbs = before
    /\ pc = "read" /\ i = 1
    /\ accounts = {} /\ setting = Nobody
    /\ crashes = 0 /\ interrupted = FALSE
    /\ served = NoRequest

----------------------------------------------------------------------------
(* Sharder.run                                                             *)

\* Mutant: it returns after the first database.
get_existing_accountsFirst ==
    LET d == migration.from[1] IN
    /\ pc = "read"
    /\ accounts' = { [ name |-> a, parses |-> a \in dbs[d].records \ dbs[d].texts ] :
                        a \in dbs[d].accounts }
    /\ pc' = IF delete_from THEN "clean" ELSE "push"
    /\ i' = 1
    /\ UNCHANGED << arguments, dbs, setting, crashes, interrupted, served >>

get_existing_accounts ==
    /\ pc = "read"
    /\ accounts' = UNION { { [ name |-> a,
                               parses |-> a \in dbs[d].records \ dbs[d].texts ] :
                               a \in dbs[d].accounts } : d \in ToSet(migration.from) }
    /\ pc' = IF delete_from THEN "clean" ELSE "push"
    /\ i' = 1
    /\ UNCHANGED << arguments, dbs, setting, crashes, interrupted, served >>

\* Mutant: dry_run is not looked at.
cleanDespiteDryRun(k) ==
    LET d == migration.from[i] IN
    /\ pc = "clean" /\ i <= Len(migration.from)
    /\ k \in dbs[d].records
    /\ dbs' = [ dbs EXCEPT ![d].records = @ \ {k}, ![d].texts = @ \ {k} ]
    /\ UNCHANGED << arguments, pc, i, accounts, setting, crashes, interrupted, served >>

\* clean_from_redis: one key matching banker-* ...
clean_key(k) ==
    LET d == migration.from[i] IN
    /\ pc = "clean" /\ i <= Len(migration.from) /\ ~dry_run
    /\ k \in dbs[d].records
    /\ dbs' = [ dbs EXCEPT ![d].records = @ \ {k}, ![d].texts = @ \ {k} ]
    /\ UNCHANGED << arguments, pc, i, accounts, setting, crashes, interrupted, served >>

\* Mutant: the set of active accounts is left behind.
clean_accountsKept ==
    LET d == migration.from[i] IN
    /\ pc = "clean" /\ i <= Len(migration.from)
    /\ ~dry_run => dbs[d].records = {}
    /\ i' = i + 1
    /\ UNCHANGED << arguments, dbs, pc, accounts, setting, crashes, interrupted, served >>

\* ... and, when all of them are gone, banker:accounts.
clean_accounts ==
    LET d == migration.from[i] IN
    /\ pc = "clean" /\ i <= Len(migration.from)
    /\ ~dry_run => dbs[d].records = {}
    /\ dbs' = IF dry_run THEN dbs ELSE [ dbs EXCEPT ![d].accounts = {} ]
    /\ i' = i + 1
    /\ UNCHANGED << arguments, pc, accounts, setting, crashes, interrupted, served >>

cleaned ==
    /\ pc = "clean" /\ i > Len(migration.from)
    /\ pc' = "push"
    /\ UNCHANGED << arguments, dbs, i, accounts, setting, crashes, interrupted, served >>

\* push_accounts: SET banker-<name> ...
push_set(a) ==
    LET shard == get_shard(a.name)
        d == migration.to[shard]
    IN
    /\ pc = "push" /\ ~dry_run /\ setting = Nobody
    /\ a \in accounts
    /\ shard \in DOMAIN migration.to
    /\ dbs' = [ dbs EXCEPT ![d].records = @ \cup {a.name},
                           ![d].texts = IF a.parses THEN @ \ {a.name} ELSE @ \cup {a.name} ]
    /\ setting' = a.name
    /\ accounts' = accounts \ {a}
    /\ UNCHANGED << arguments, pc, i, crashes, interrupted, served >>

\* ... and SADD banker:accounts <name>.
push_sadd ==
    LET shard == get_shard(setting) IN
    /\ pc = "push" /\ setting # Nobody
    /\ dbs' = [ dbs EXCEPT ![migration.to[shard]].accounts = @ \cup {setting} ]
    /\ setting' = Nobody
    /\ UNCHANGED << arguments, pc, i, accounts, crashes, interrupted, served >>

\* self.to_redis[shard] raises KeyError for a shard that was not given.
push_fails(a) ==
    /\ pc = "push" /\ ~dry_run /\ setting = Nobody
    /\ a \in accounts
    /\ get_shard(a.name) \notin DOMAIN migration.to
    /\ pc' = "failed" /\ interrupted' = TRUE
    /\ UNCHANGED << arguments, dbs, i, accounts, setting, crashes, served >>

pushed ==
    /\ pc = "push"
    /\ dry_run \/ (accounts = {} /\ setting = Nobody)
    /\ pc' = "done"
    /\ accounts' = {}
    /\ UNCHANGED << arguments, dbs, i, setting, crashes, interrupted, served >>

\* The process is ended, or redis cannot be reached: an exception of the client
\* library is not caught.
Crash ==
    /\ pc \in {"read", "clean", "push"} /\ crashes < MaxCrashes
    /\ pc' = "failed" /\ interrupted' = TRUE
    /\ crashes' = crashes + 1
    /\ UNCHANGED << arguments, dbs, i, accounts, setting, served >>

\* The same command line once more, after it failed or after it was done.
RunAgain ==
    /\ pc \in {"failed", "done"} /\ served = NoRequest
    /\ pc' = "read" /\ i' = 1
    /\ accounts' = {} /\ setting' = Nobody
    /\ UNCHANGED << arguments, dbs, crashes, interrupted, served >>

----------------------------------------------------------------------------
(* A request, once the bankers run on the new databases.                   *)

\* The shards a request may be passed on to: the one of the parent account, all
\* of them, none; any when the account was read beyond the end of path_parts
\* (a crash of the relay passes it on to none).  A shard that the configuration
\* leaves out has no banker.
Forwarded(parent) ==
    CASE parent = "*" -> {DOMAIN migration.to}
      [] parent = Nobody -> {{}}
      [] parent = Path!NoSuchSegment ->
             {{}} \cup { {s} : s \in 0 .. Cardinality(DOMAIN migration.to) - 1 }
      [] OTHER -> {{relay_shard(parent)}}

Request(method, path, accountName) ==
    LET account == Path!relay_account(method, path, accountName)
        parent == IF account = Path!NoSuchSegment THEN account ELSE Parent[account]
    IN
    /\ pc = "done" /\ ~dry_run /\ served = NoRequest
    /\ \E shards \in Forwarded(parent) :
         served' = [ method |-> method, path |-> path,
                     accountName |-> accountName, parent |-> parent,
                     shards |-> shards,
                     handler |-> IF shards = {} \/ ~(shards \subseteq DOMAIN migration.to)
                                 THEN Path!NotFound
                                 ELSE Path!route(method, path, accountName) ]
    /\ UNCHANGED << arguments, dbs, pc, i, accounts, setting, crashes, interrupted >>

Next ==
    \/ get_existing_accounts
    \/ \E k \in Names : clean_key(k)
    \/ clean_accounts
    \/ cleaned
    \/ \E a \in accounts : push_set(a)
    \/ push_sadd
    \/ \E a \in accounts : push_fails(a)
    \/ pushed
    \/ Crash
    \/ RunAgain
    \/ \E method \in Methods, path \in Paths, accountName \in QueryNames :
         Request(method, path, accountName)

Spec == Init /\ [][Next]_vars

----------------------------------------------------------------------------
\* Every state of the script and of the databases is made of names.
ShardingTypeOK ==
    /\ \A d \in Databases :
         dbs[d] \in [ records : SUBSET Names, texts : SUBSET dbs[d].records,
                      accounts : SUBSET Names, archive : SUBSET Names ]
    /\ pc \in {"read", "clean", "push", "done", "failed"}
    /\ i \in 1 .. Len(migration.from) + 1
    /\ accounts \in SUBSET [ name : Names, parses : BOOLEAN ]
    /\ setting \in Names \cup {Nobody}
    /\ served.shards \subseteq 0 .. Cardinality(DOMAIN migration.to) - 1 \/ served.parent = "*"

\* A creation on a path that only begins like /v1/accounts, with an action for a
\* third segment: the relay takes that segment for the account, the banker takes
\* accountName.
StrayPath(method, path) == /\ method = "POST" /\ Len(path) = 3 /\ path[2] # "accounts"
                           /\ path[3] \in { "adjustment", "balance", "shadow", "budget" }
Stray(request) == StrayPath(request.method, request.path)

Active == UNION { before[d].accounts : d \in Databases }
NewDatabases == { migration.to[s] : s \in DOMAIN migration.to }

\* Once the script has run to its end, whatever was interrupted and repeated
\* before when nothing is deleted, every request (but a stray one) for an account
\* that was active goes to a banker that finds it in its database: the script's hash
\* of unbounded integers and the relay's 32-bit hash agree, and every account
\* below a tree's top follows its parent.
AccountsFound ==
    (/\ pc = "done" /\ ~dry_run
     /\ delete_from => ~interrupted
     /\ served.handler.account \in Active /\ ~Stray(served))
    => \A s \in served.shards :
           /\ s \in DOMAIN migration.to
           /\ LET db == dbs[migration.to[s]] IN
              served.handler.account \in (db.records \ db.texts) \cap db.accounts

\* Once the script has run to its end over databases that were emptied or new,
\* no account is active in two of them (two bankers would each spend its
\* budget), even if it was interrupted and repeated; and every banker can load
\* its database (load_redis fails on a listed account without a record) unless
\* it was interrupted while it deleted.
OneOwner ==
    (/\ pc = "done" /\ ~dry_run
     /\ delete_from \/ ToSet(migration.from) \cap NewDatabases = {})
    => /\ \A d, e \in NewDatabases : d # e => dbs[d].accounts \cap dbs[e].accounts = {}
       /\ (delete_from => ~interrupted) =>
             \A d \in NewDatabases : dbs[d].accounts \subseteq dbs[d].records \ dbs[d].texts

\* A dry run changes nothing; without --delete_from everything the databases
\* held stays, wherever the script was interrupted.
NothingLost ==
    /\ dry_run => dbs = before
    /\ ~delete_from =>
         \A d \in Databases : /\ before[d].records \subseteq dbs[d].records \ dbs[d].texts
                              /\ before[d].accounts \subseteq dbs[d].accounts
                              /\ before[d].archive \subseteq dbs[d].archive

\* The relay and the banker read a request alike: a handler that works on one
\* account runs only in the banker of the shard of its tree, a list is made by
\* all of them.  A stray creation is the only request they read differently.
RoutesAgree ==
    LET h == served.handler IN
    h # Path!NotFound /\ ~Stray(served) =>
        \/ h.account = "*" /\ served.shards = DOMAIN migration.to
        \/ h.account \in Names /\ served.shards = {relay_shard(Parent[h.account])}

\* The endpoints of the README's list.
NamedActions == [ GET |-> {"children", "close", "subtree", "summary"},
                  POST |-> {"adjustment", "balance", "budget", "shadow"},
                  PUT |-> {"adjustment", "balance", "budget", "shadow"} ]
Supported(method, path, accountName, n) ==
    \/ method = "POST" /\ path = << "v1", "accounts" >> /\ accountName = n
    \/ method = "GET" /\ path = << "v1", "accounts", n >>
    \/ /\ method \in DOMAIN NamedActions
       /\ \E act \in NamedActions[method] : path = << "v1", "accounts", n, act >>

\* Every endpoint the README lists as supported is passed on by the relay, and
\* handled by the banker for the account it names, even when the account has
\* the name of an action.
SupportedReached ==
    /\ \A n \in Names :
         Supported(served.method, served.path, served.accountName, n)
         => \/ served.shards # {} /\ served.handler.account = n
            \/ relay_shard(Parent[n]) \notin DOMAIN migration.to
    /\ (served.method = "GET" /\ served.path \in Path!ForAll)
       => served.handler.account = "*"

----------------------------------------------------------------------------
(* Why all of this holds: the parts of the inductive invariant.            *)

Database == [ records : SUBSET Names, texts : SUBSET Names,
              accounts : SUBSET Names, archive : SUBSET Names ]
From == ToSet(migration.from)

\* What the bankers left, of which nothing changes.
Beginning ==
    /\ migration \in Migrations /\ delete_from \in BOOLEAN /\ dry_run \in BOOLEAN
    /\ before \in [ Databases -> Database ]
    /\ \A d \in Databases :
         /\ before[d].texts = {} /\ before[d].accounts \subseteq before[d].records
         /\ before[d].accounts # {} => d \in From

\* Where the script is decides what it has in hand.
InHand ==
    /\ dbs \in [ Databases -> Database ]
    /\ \A d \in Databases : dbs[d].texts \subseteq dbs[d].records
    /\ pc \in { "read", "clean", "push", "done", "failed" }
    /\ i \in 1 .. Len(migration.from) + 1
    /\ accounts \in SUBSET [ name : Names, parses : BOOLEAN ]
    /\ pc = "clean" => delete_from
    /\ interrupted \in BOOLEAN /\ (pc = "failed" => interrupted)
    /\ setting # Nobody =>
         /\ setting \in Names /\ pc \in { "push", "failed" } /\ ~dry_run
         /\ get_shard(setting) \in DOMAIN migration.to

\* A list without a record is only met while a database is cleaned, unless an
\* interruption left one behind.
RecordsThere ==
    (delete_from => ~interrupted) =>
       /\ \A d \in Databases :
            /\ dbs[d].texts = {}
            /\ \/ dbs[d].accounts \subseteq dbs[d].records
               \/ pc = "clean" /\ i <= Len(migration.from) /\ d = migration.from[i]
       /\ \A a \in accounts : a.parses
       /\ setting # Nobody => setting \in dbs[migration.to[get_shard(setting)]].records

\* Whether what d lists was put there by this script.
Pushed(d) ==
    \/ d \notin From
    \/ /\ delete_from /\ ~dry_run
       /\ \/ pc \in { "push", "done" }
          \/ pc = "clean" /\ \E j \in 1 .. i - 1 : migration.from[j] = d

\* Such a database lists the accounts of its own shard only.
Placed ==
    \A d \in Databases : Pushed(d) =>
       \A a \in dbs[d].accounts :
          get_shard(a) \in DOMAIN migration.to /\ migration.to[get_shard(a)] = d

AtHome(n) == /\ get_shard(n) \in DOMAIN migration.to
             /\ n \in dbs[migration.to[get_shard(n)]].accounts
Listed(n) == \E d \in From : n \in dbs[d].accounts
Taken(n) == \E a \in accounts : a.name = n

\* Every active account is in an old database, in hand, or in its new one.
Carried ==
    ~dry_run /\ (delete_from => ~interrupted) =>
       \A n \in Active :
          /\ pc = "read" => Listed(n) \/ AtHome(n)
          /\ pc = "clean" => \/ Taken(n)
                             \/ AtHome(n) /\ migration.to[get_shard(n)] \notin From
          /\ pc = "push" => Taken(n) \/ setting = n \/ AtHome(n)
          /\ pc = "done" => AtHome(n)

\* A handler only runs in a shard that has a banker.
BankersOnly == served.handler # Path!NotFound => served.shards \subseteq DOMAIN migration.to

ShardingInv ==
    /\ Beginning /\ InHand /\ RecordsThere /\ Placed /\ Carried /\ NothingLost
    /\ RoutesAgree /\ BankersOnly
=============================================================================
