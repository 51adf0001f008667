# Verification of the master banker and its relay

TLA+ models of the parts of this repository that keep and route money: the
**master banker**, which holds the accounts of an advertising budget in memory
and saves them to redis, the **shadow accounts** from which other processes spend
them, the **redis client**, the **relay** in front of several master bankers, and
the **migration script** that moves accounts to another number of bankers.
TLC checks the models on small instances, and TLAPS proves all of the invariants
and action properties, and two refinements, for every instance. Paths are relative to
the root of the repository.

Every definition is translated from the source. `PROJECT.json` names the lines
each one stands for (`map`), the runs, one mutation of the code per property that
the property must catch, the hazards the properties are aimed at, the theorems,
and the places where the code and its own comments disagree (`findings`).

## 1. Inventory

| component | state | operations | interacts with |
|---|---|---|---|
| accounts (`src/src/banker/account.h`, `account.cpp`, `account_key.*`) | a map from account key (`a:b:c`) to an account: type, status, balance and ten amounts on a credit and a debit side | `setBudget`, `setBalance`, `addAdjustment`, `recuperateTo`, `syncFromShadow`, `ensureAccount`, `closeAccount`, `restoreAccount` | called by the REST handlers |
| shadow accounts (`account.h`) | per account the budget last heard of, the counters, the open bids; whether the master has answered yet | `authorizeBid`, `commitBid`, `cancelBid`, `detachBid`, `attachBid`, `forceWinBid`, `initializeAndMergeState`, `syncFromMaster`, `syncToMaster` | another process; reports to the master and its answers |
| currency pools (`currency.*`) | amounts by currency | `+`, `-`, `limit`, `nonNegative`, `isSameOrPastVersion` | inside an account |
| REST handlers and persistence (`banker.cc`, `banker.h`, `src/src/master_banker.cpp`) | the accounts, the flag `persisting`, the copy a save works on; in redis a record per account and the sets `banker:accounts` and `banker:archive` | one handler per endpoint, the timer, the two phases of a save, the load at start, the signal handler | event loop thread, a detached thread per save, redis |
| router (`src/src/utils/router.*`) | a table built at start | dispatch | calls the handlers |
| redis client (`src/src/soa/service/redis.*`) | requests hiredis points to, timeouts, callbacks to run | `queue`, `exec`, `queueMulti`, `execMulti`, `close`; the event loop's thread | callers, hiredis, redis |
| relay (`src/src/relay/*`, `src/src/master_banker_relay.cpp`) | the shard map, a connection pool per slot, one placeholder per request in flight | `process_request`, `relay_cb`, `multiple_relay_cb` | HTTP clients on one side, master bankers on the other, all on one event loop |
| HTTP connection pool (`src/src/utils/http_connection_pool.*`) | uses per connection, queue of free connections | `get_connection`, `return_connection`, `last_use`, `set_connection_header` | one per shard slot of the relay |
| shard migration (`scripts/shard.py`) | redis databases | read, clean, push | redis, off line |
| hash test programs (`test/sdbm.*`) | none | print a hash | must agree with the relay and the script |
| support code and vendored libraries | none of their own | dates, strings, logs, JSON, URLs | everywhere |

What is hard to get right, and where the properties are aimed:

* **Money.** Every transfer touches two accounts and several amounts of each; a
  negative adjustment may overdraw an account; a shadow report may come twice or
  late. The books of every account must balance, amounts must not turn negative,
  and what a parent gave must be what its child got.
* **Saving while serving.** The copy being saved is older than memory; a save is
  compared with what redis holds and given up when one account looks wrong; a
  signal may arrive in the middle of a close, or of a transfer; the process may end at
  any step. What redis holds must be a consistent cut that a new process can load, must
  never be ahead of memory, and must catch up in the end.
* **Trees.** Creations, closes and reactivations in any order: parents must be
  there, closes must go from the leaves up.
* **Relaying.** Callbacks of many requests interleave, bankers fail in several
  ways, connections are recycled. No connection may be lost, used by two requests
  or used after it was freed, each client gets one reply, from the right banker.
* **Talking to redis.** A reply races its timeout, the connection ends with
  commands outstanding, its owner closes it. A request must live as long as
  hiredis points to it, and its caller must be told once.
* **Spending elsewhere.** A shadow spends from a budget it last heard of some time
  ago and reports counters over a network that loses, repeats and reorders; either
  side restarts. Nothing spent may be lost or counted twice, and no money may be
  authorized twice.
* **Two programs that must agree.** Relay and banker each parse the path; relay and
  script each compute the hash, in different arithmetic. Where they differ an
  account is looked for, or created, in the wrong banker.
* **Moving accounts.** The script deletes before it writes, and may end in between.

## 2. Modules

| module | what it models |
|---|---|
| `Account` | `struct Account` and `ShadowAccount::syncToMaster` as operators on a record of one currency: each operation returns the new account |
| `Accounts` | `struct Accounts`: the map and what creating, closing, restoring and transferring do to it |
| `Ledger` | what the master banker promises of the money given to it: an abstract specification |
| `MasterBanker` | the process and its database: one action per handler, the unwound recursion of a close, the two phases of a save, errors, signals, crashes, restarts; implements `Ledger` |
| `InterAccountConsistency` | the repository's own recursive check that transfers cancel out (`ensureInterAccountConsistency`), as recursive functions over the tree of a state |
| `MasterBankerAssignments` | the same process with the assignments of every handler and of every step of a close one by one, in the order of the source, so that signals, saves, errors and crashes fall between them; implements `MasterBanker` but for the signals that fall there |
| `MCMasterBanker`, `MCAssignments` | keys and amounts for TLC |
| `AccountsProofs`, `MasterBankerProofs` | lemmas per operation of an account, per change of the map, the theorems, and every step of the banker as a step of `Ledger` or a stutter |
| `InterAccountConsistencyProofs` | sums over finite sets, induction from the leaves of the tree, what keeps a tree of accounts conserved, and the two theorems on transfers |
| `CurrencyPool` | pools of several currencies as sequences of amounts, and that every operator acts on each currency alone |
| `ShadowBanker` | a spend account of the master and its shadow in another process, composed from `Accounts` and `CurrencyPool` over an unreliable network |
| `MCShadowBanker` | keys for TLC |
| `ShadowBankerProofs` | lemmas on pools, on the account and its parent, on the turns of either side, and the theorems |
| `CommandQueue` | what a connection to redis promises: an abstract specification |
| `RedisClient` | `AsyncConnection` and its event loop, with hiredis and redis as environment; implements `CommandQueue` |
| `MCRedisClient` | calls for TLC |
| `HttpConnectionPool` | the pool as operators on a record |
| `RedisClientProofs` | types, the invariants, and every step of the client as a step of `CommandQueue` or a stutter |
| `Relay` | the relay, with libevent and the bankers as its environment |
| `MCRelay` | shards, accounts and hashes for TLC |
| `RelayProofs` | lemmas on queues, pools, places and merged bodies, and the theorems |
| `SequenceFilter` | `Only(s, S)`: the elements of a sequence that are in a set, as a recursive function |
| `SequenceProofs` | recursive functions on `0 .. n` exist, induction up to `n`, and what `Only`, `\o` and `SubSeq` do |
| `ShardHash` | `SDBMHash` of the relay (32 bits, signed characters) and of the script (exact), on 16-bit limbs |
| `Routing` | the account the relay finds in a request, and the handler and account the banker finds in it |
| `Sharding` | the migration script over the databases, composed with `ShardHash` and `Routing` for the requests that follow |
| `ShardingProofs` | the two hashes agree on names of any length; the migration and the routing, for any names, shards and hash |
| `MCSharding` | the README's migrations, names and paths for TLC; the hashes compared over short names |

### The master banker

An account is a record with the field names of the code. `status` and `type` are
strings, amounts are integers; a record in redis is the account as `toJson`
writes it, and `fromJson` computes the balance anew, as the code does. The stack
`closing` is the call stack of `closeAccountImpl`: the recursion is split into
`CloseChild` and `CloseSelf` because a signal handler may run, and start a save,
in the middle of it; requests and the timer wait until it is empty, because they
run on the same event loop. Within a handler, or within the close of one account, no
other step falls in this module. For the thread that saves, redis errors and crashes
that is no restriction, because they do not see the accounts; `MasterBankerAssignments`
takes the assignments one by one, and run `assignments` shows that each of its steps is
one of `MasterBanker` or none (`HandlersAtomic`). The one exception is a signal:
`std::signal` interrupts the event loop at any instruction, and the handler copies the
accounts as they are then. `TornSignal` is that step; section 3 says what comes
of it. All that is said below of signals is said of those between two operations.

A handler that throws is modelled with what it had changed before it threw. The
persisting thread is `save`: its phase, its copy, and the commands it decided on.
`persist`, `onPhase1Result`, `Exec` and `RedisError` are the steps of that thread, and
the handlers interleave with them.
`MainReturns` and `Crash` drop memory and the thread; `Start` loads the records
that `banker:accounts` names and creates the ancestors that are missing.
`StartUnloaded` is a load that redis answered with an error: the code logs it and
serves requests with no accounts.

`Ledger` says what an owner of a budget relies on, in four variables: whether a process
serves, its books, the image a save works on, and what is stored. Of each account the
books say what it holds, what funded it (adjustments and, at the top, budgets), what was
used of it (what shadows reported) and its status. A request, or one step of a close,
funds or uses one account or moves money between an account and its parent. A save
stores the whole image of one moment over what was stored, or nothing. A load that redis
answers has every account that is stored as active, with the money stored. The MGET, the
comparison, the commands and the two sets are below this description: `MasterBanker`
maps its maps to books by `Entries`, and the records by parsing them (`KeepsLedger`).

### The relay

A request is sent with a target: the components of the account it names, `<<"*">>`
for the three paths that ask all bankers, `<<"">>` when no account is found.
`single_shoot` finds the shard of the top-level name, makes the pool of the slot
if there is none, takes a connection and sends the request; `multiple_shoot` makes
a connection of its own to every shard. `relay_cb` and `multiple_relay_cb` are the
callbacks, with the outcomes libevent can report: `ok`, `error` (an HTTP error of
the banker), `refused` (a reply without a code or a body) and `lost` (a null
pointer). `shards[shard]` on a `std::map` adds an entry when there is none, and
the model keeps that (`get_banker_uri`).

A body is the sequence of the bankers it came from, each part intact or not. Two
outcomes are undefined in the code and therefore a choice: what is read from the
memory of a freed document is the text, garbage or a crash (`FreedReads`). A null
reply, an assertion of rapidjson in `add_replies` and a request on a null
connection end the process (`up = FALSE`).

Here a request is the account it names, and the hash is a parameter: the theorems
hold for any hash. How an account is found in a request is in `Routing`, and the
hash itself in `ShardHash`.

libevent and the bankers are external: `Fresh`, `Sent`, `Freed`, `Code` and `Body`
are what `relay.cpp` can see of them.

### Shadow accounts

`shadow` is a `ShadowAccount` and the flags of its `AccountEntry`, with its amounts
as pools in two currencies: micro-dollars, and impressions, of which a bid that was
paid for counts one. The operations on bids are one action each; `cancelBid` is a
commit of zero, as in the code. The master's side are the operators of `Accounts`,
once per currency. Messages are sets that only grow, so a message may arrive never,
late, twice or after later ones. The process that uses `ShadowAccounts` is not in
the repository: that it asks the master to create the account when
`createAccountAtomic` says so, and reports accounts that are initialized and active,
follows from the flags and from `forEachInitializedAndActiveAccount`.

### The redis client

Callers' threads queue commands under the lock. The timeout of a call of several
commands is compared with the clock for each of them, so that the last ones may be too
late (`queuePartly`, `queueRefusedPartly`). The thread of `EventLoop::run`
expires timeouts, lets hiredis write and read, and then runs callbacks without the
lock. hiredis is four counters over the sequence of accepted commands: written,
executed by redis, and given to `resultCallback`, each a prefix of the one before
or of the whole. `requests` is what keeps a `RequestData` alive while hiredis points
to it. A connection ends in two ways that the code tells apart: redis closes it
(POLLIN at the end of the stream: hiredis calls back with an error for every
command left, and frees the context) or it is lost or refused (POLLHUP, POLLERR:
the loop just ends). A call on the freed context is undefined, and so a choice: the
assertion throws, or the process crashes.

`CommandQueue` says what callers rely on, in three variables: commands take effect
in order, at most once; each is answered at most once; a reply is only given to a
command that was executed. `RedisClient` implements it with its own `issued`,
`executed` and `outcome` (`KeepsPromise`).

### Migration and routing

`Sharding` has one action per redis command of `shard.py` (a `DEL`, a `SET`, a
`SADD`), so that it can end between any two, and `RunAgain`. A database is the
names it has records of, lists as active and lists as archived. `texts` are records
that hold the text `None`: the script pushes what `GET` returned, also for a name
that was listed without a record. When the script is done, `Request` passes one
request of any method, path and `accountName` through the relay's
`get_parent_account`, the relay's shard, and the banker's router. A path is the
sequence of its segments; the base path is only compared as a prefix, and
`path_parts[3]` of a shorter path is undefined, so such a request may go anywhere.

## 3. Runs

Every invariant and action property of these runs, but for those of `assignments`, whose
specification is model-checked only, is also a theorem (section 4), for all amounts,
keys and numbers; the instances say that the theorems are about something.
All bounds are named constants: `MaxRequests`, `MaxRestarts`, `MaxErrors`,
`MaxAllocFailures` and the sets `Requests`, `Connections`, `Keys` and of amounts.

| run | checks | instance, and why it is enough |
|---|---|---|
| `session` | `StorageNeverAhead`, `TransfersConsistent`, `CloseFromTheLeaves`, `EventuallySaved` | a chain of three accounts, five requests, one process, one failed save. Three levels are the least with an account that is both child and parent; five requests fit a budget, two transfers, a report and a close. No adjustments: `inputs` and `assignments` have them. |
| `inputs` | `TypeOK`, `BooksBalance`, `ParentsPresent`, `StoredInOneSet`, `NegativeOnlyFromOverdraft`, `StoredTransfersConsistent`, `KeepsLedger` | amounts of both signs and zero on every account, reports for every account, failed loads, a signal or a crash at every step, one failed command, one restart. Three requests create an account, close it and reopen it, each saved or not, before the process ends and the next one loads. |
| `assignments` | `HandlersAtomic`, `RestartPossible`, `StorageNeverAhead` | the chain with one budget, one balance, one adjustment and one report, three requests, each cut between any two assignments by a step of the saving thread, a signal, a failed command or a crash, and one restart. A transfer needs one request before it, for the budget, and a third fits a report, a close or a second transfer; it is also enough to close an account that is stored and to create one below it, which leaves the next process to restore an ancestor that no set lists. |
| `relay` | `RelayTypeOK`, `ConnectionsAccountedFor`, `CloseAnnouncedIsKept`, `OneReplyEach`, `RightBanker`, `MergedInFull`, `AnsweredWhileUp` | two shards, three requests over four connections that are recycled after two uses: two requests can share a connection one after the other, two requests to all shards can be open at once, and an address can be freed and used again. |
| `redis` | `RedisTypeOK`, `NothingDangles`, `CountedOnce`, `KeepsPromise`, `AnsweredWhileLooping` | a save without a timeout, a ping with one, and two commands queued as one with one, so that a timeout can pass between the two, and can expire for a part of what hiredis holds, and one call can be answered by a reply and a timeout; both ways a connection ends; an owner who closes at any step. |
| `shadow` | `ShadowTypeOK`, `ShadowChecksHold`, `OperationsKept`, `ReportAccepted`, `OverdraftBounded`, `PoolsPointwise` | one bid of 2 that may cost 3, a balance of 2 out of a budget of 4, so that a second bid is authorized only after the master gave more; three operations (authorize, detach, commit), one balance request or close, one restart of either process, two messages of each kind in any order and number. |
| `sharding` | `ShardingTypeOK`, `AccountsFound`, `OneOwner`, `NothingLost`, `RoutesAgree`, `SupportedReached` | the two migrations of the repository's README and one without shard 1, over a tree of two accounts, a name of its own and an account named `close`, each active, archived or absent; one interruption at any command, any number of repetitions; four methods, 53 paths. |

In words:

* `StorageNeverAhead`: while the first process lives, no amount in redis is ahead
  of memory, so the version test that guards a save does not fail.
* `TransfersConsistent`, `StoredTransfersConsistent`: while the first process lives, the
  repository's consistency check holds of the accounts between operations, and of what
  redis holds, if signals come between transfers.
* `HandlersAtomic`: whatever falls between the assignments of a handler, the banker
  behaves as if each handler, and the close of each account, were one step; only a
  signal there may start a save of a half done copy, and it changes nothing else.
* With the assignments one by one, and signals between them, `RestartPossible` and
  `StorageNeverAhead` hold, too: a torn copy can be loaded, and no amount of it is
  ahead of memory.
* `CloseFromTheLeaves`: an account is closed only when its children are, and is
  empty then.
* `RestartPossible`: redis never holds what a new process cannot load, when no
  budget account was overdrawn and no load failed.
* `BooksBalance`: credit and debit sides are equal in memory, and in the copy if signals
  come between operations.
* `ParentsPresent`: every account has a budget account as parent.
* `StoredInOneSet`: every record is in exactly one of the two sets.
* `NegativeOnlyFromOverdraft`: amounts begin to be negative only in a step taken
  while a budget account is overdrawn.
* `KeepsLedger`: the banker implements `Ledger`; an account that was archived, reopened
  and saved, say, is there after a restart.
* `EventuallySaved`: what is in memory gets stored, and stays so.
* `ConnectionsAccountedFor`: every allocated connection is free in one pool, lent
  to one request, or one of a request to all shards, and never in two places.
* `CloseAnnouncedIsKept`: what `set_connection_header` told the banker agrees with
  what `return_connection` later does.
* `OneReplyEach`: at most one reply, and none while a banker has the request.
* `RightBanker`: requests for one tree of accounts go to the banker that owns it,
  and so do the replies come from it.
* `MergedInFull`: a merged body has every shard's answer once, or is empty.
* `AnsweredWhileUp`: every request is answered as long as the relay runs.
* `NothingDangles`: what hiredis and the timeouts point to is still there, however
  timeouts, replies and the end of the connection interleave.
* `CountedOnce`: the aggregator counts every command of a call once, so that the
  call completes exactly when each of its commands has a result.
* `KeepsPromise`: the connection implements `CommandQueue`.
* `AnsweredWhileLooping`: as long as the event loop runs, a call is answered once
  redis has executed it, and one with a timeout in any case.
* `ShadowChecksHold`: the assertions of `ShadowAccount::checkInvariants` hold at all
  times, whatever views of the master come in, so that no operation throws.
* `OperationsKept`: every operation on a bid counts once, before or after the
  master's counters were merged in.
* `ReportAccepted`: the master is never ahead of the living shadow, so that its
  reports pass the assertions of `syncToMaster`.
* `OverdraftBounded`: the account is overdrawn at most by what was paid without
  being authorized and what the master took back.
* `PoolsPointwise`: every operator on pools acts on each currency alone. This is
  what allows `Account` to hold an integer where the code has a pool.
* `AccountsFound`: after a migration every request for an account that was active
  goes to a banker that has it.
* `OneOwner`: when the script has run to its end, not as a dry run, and its new databases
  were emptied by `--delete_from` or are none of the old ones, no account is active in two
  of them, interruptions and repetitions before or not. Every banker can then load its
  own, unless the script was interrupted while it deleted.
* `NothingLost`: a dry run changes nothing, and without `--delete_from` nothing the
  databases held is gone, wherever the script was interrupted.
* `RoutesAgree`: a handler for one account runs only in the banker that owns it.
* `SupportedReached`: the endpoints the README lists reach their handler, also for
  an account with the name of an action.

`MCSharding` also has TLC compare the two hashes on every name of one and two bytes
that `AccountKey` accepts, and on names of three (`HashesAgree`), where the exact
hash exceeds 32 bits.

`CHECK_DEADLOCK FALSE` is set where the system may stop: in the relay, which waits
for clients, on a connection to redis that ended, when the shadow's bounds are used
up, after the last request of `sharding`, and in the run in which redis may hold what
cannot be loaded.

### Where the code and its own words disagree

Each is a run that TLC must find violated; the finding quotes the line.

| run | property | what happens |
|---|---|---|
| `overdraft` | `EverythingButBalancePositive` | A negative adjustment overdraws a budget account; a balance request below it then moves a negative amount, and `checkInvariants` throws only afterwards. Once saved, the record no longer parses, and nothing is saved any more. |
| `lostamounts` | `StoredAmountsNeverGoDown` | After a restart an archived account is not in memory; a request that names it creates it anew, and an empty pool passes `isSameOrPastVersion` against any stored amount. |
| `closehole` | `CloseClosesSubtree` | `closeAccountImpl` returns at once at a closed account, below which an account may have been created since. |
| `relaydown` | `EveryRequestAnswered` | A banker lost during a request to all shards: the null reply is dereferenced, which `process_relay` avoids. |
| `hangup` | `TimeoutsHonoured` | Redis refuses the connection or is lost: the event loop ends at POLLHUP or POLLERR, and with it the only thread that expires timeouts. `redis->test()`, with which the banker starts, then waits for ever, and so does a save. |

More defects are in the models without a run of their own:

* *Banker.* A signal after `parentAccount.allocatedOut += fromBudget` and before the
  child's `budgetIncreases += fromBudget` (`account.h:372`) copies the parent's half of
  the transfer. The thread may store it before `main` returns, and the next process
  computes its balances from it: the money is in neither account. With
  `StoredTransfersConsistent` among the invariants of `MCassignments.cfg`, TLC shows it.
* *Banker.* After a restart, an archived account that is created again with an amount
  below its archived one is inconsistent, and `onPhase1Result` then saves no account
  at all: `EventuallySaved` is checked without restarts for that reason. An account
  that is closed before its first save is added to `banker:accounts` whatever its
  status (`banker.cc:563`), and is active after a restart.
* *Relay.* The empty body of a banker that refused the connection makes the merged
  list empty when it comes first, with the code of the reply that came last, 200.
  `PushBack` and `AddMember` of rapidjson move values out of a document whose memory
  is freed before the result is written: a part of a merged body may be not `intact`,
  or the process may end. A failed allocation leaves an entry for NULL in
  `uses_per_conn`, which counts as a connection of the pool for ever. `shards[shard]`
  adds an entry for a shard the configuration leaves out, which changes the number of
  shards and so the banker of every account. `path_parts[3]` is read without a test.
* *Redis client.* After redis closed the connection, `context_` points to freed memory
  and nothing connects again. `close()` with a reply outstanding waits for ever: the
  event loop waits for a disconnection that only its own reads could complete. A call
  that hiredis refuses puts its callback into a queue that no one empties any more.
* *Shadow.* A report of a process that ended, arriving after its successor was
  initialized, puts the master ahead: every later report fails an assertion
  (`ReportAccepted` fails with `LateMessages = TRUE`). A shadow that learned that its
  account is closed is never reported again, and so never learns of a reactivation.
* *Routing.* `POST /v1/accountsx/budget?accountName=bla` creates `bla`, in the banker of
  the shard of `budget`: the relay takes the last segment for the action and the third
  for the account (`relay.cpp:328`), the banker only compares `/v1/accounts` as a prefix
  and takes the account from the query. `Stray` in `Sharding` names these requests; the
  theorems hold for all others.
* *Script.* Interrupted with `--delete_from`, it loses accounts, and the next run may
  write the text `None` as a record. A missing shard number raises KeyError after the
  deletion. The records of archived accounts match `banker-*` and are deleted without
  being pushed, while `banker:archive` still names them. Without `--delete_from`, on
  databases that are reused, accounts are active in two of them.

### Fairness

* Master banker (`FairSpec`): weak fairness of the steps of a close and of the
  timer (the event loop runs its callbacks and a persistent timer), of the two
  phases of a save (a thread runs and redis answers), of `main` returning after a
  signal and of a new start (a supervisor restarts the process). None for
  requests, errors, signals and crashes.
* Relay (`FairSpec`): weak fairness of the callback of every request that was
  sent, per request and connection: libevent calls back with the reply, at a
  failure, or when its timeout ends. None for clients.
* Redis client (`FairSpec`): weak fairness of the event loop as a whole (its thread
  runs), of time passing, and of `join` returning once the thread ended. None for
  callers, redis or the network, so that redis may stay silent.

## 4. Proofs

All theorems are about `Spec`, for every value of the constants that satisfies the
named assumptions, and so for any number of requests, restarts, accounts, shards,
commands and connections.

Assumptions on constants: `KeysAssumption` (keys are non-empty sequences of
strings, closed under taking the parent), `InputsAssumption` (amounts are
integers, reports are shadow records), `BoundsAssumption`, `PoolAssumption` (NULL
is no connection), `RelayAssumption` (a non-empty finite shard map, targets with a
first component whose hash is a number), `RedisAssumption` (a call has at least one command,
redis ends a connection in the two ways the code tells apart), `NamesAssumption` (names
are ASCII, as `validateSlug` demands), `MigrationsAssumption` (old shards are numbered
without a gap, and none is left out), `RequestsAssumption` (paths and the names in them
have a first segment). Two theorems assume `ContiguousShards`, one that no load
fails.

**Master banker** (`MasterBankerProofs`). `TypeCorrect`, `BooksAlwaysBalance`,
`ParentsAlwaysPresent`, `EveryRecordInOneSet` and
`NegativeAmountsOnlyFromOverdraft` follow from `IInv`. The invariants are not
inductive: `IInv` adds that all ancestors of an account are there (`ensureAccount`
stops at the first one it finds), that the frames of a close name accounts that are
there and a process that is down has none, and that the commands of a save in its
second phase are what the records still call for (which holds because one save runs
at a time). `AccountsProofs` begins with lemmas per operation of an account: it keeps the
two sides equal and, unless the account is overdrawn, the amounts non-negative; no amount
goes down. It then lifts them to the map, where a transfer changes two accounts at once.
Three more invariants build on `IInv`:

* `LeavesFirst`: of every frame of a close, each child is still to be visited,
  closed, or the next frame's account. A child created while the close is under way
  would break it, and cannot be: handlers wait for the stack to be empty. It gives
  `ClosedFromTheLeaves`, which is about direct children: run `closehole` shows that an
  account further below may stay open.
* `Behind`: what redis holds is behind the copy being saved, and the copy is behind
  memory, account by account and amount by amount (`Grew`). It gives
  `StorageStaysBehind` and `FirstProcessStoresForward`. Both hold for the behaviours in
  which no budget account is overdrawn, because a negative adjustment that overdraws
  one makes amounts negative and lets a later one shrink; and both are about the time
  before the first restart, because a new process starts without the archived
  accounts. Runs `overdraft` and `lostamounts` show that neither can be left out.
* `Loadable`: every member of `banker:accounts` is in memory and in the copy, with
  its type, and the ancestors of a member are stored or can be created as budget
  accounts. It gives `RestartAlwaysPossible`, for loads that redis answers
  (`LoadMayFail = FALSE`): after a load that failed the banker serves requests with an
  empty memory and may create an account with another type than the stored one.

`BankKeepsLedger` is the refinement of `Ledger`, from `IInv`, `LeavesFirst` and one more
invariant, `Listed`: a record of an active account is in `banker:accounts`. Without it a
load could miss an account; it holds because `storeCommands` compares the status stored
with the one in the copy, and because an account that is to be reopened is in one of the
two sets. The steps on maps are classified first: nothing moves (`Quiet`), one account is
funded or used, or a child and its parent exchange (`Transacts`, a lemma per handler); a
reactivation or a creation before a transaction is part of it (`TransactsAfterQuiet`).
`ExecCommits` shows that the records which a save does not write are what the copy says:
they have the same JSON, and the balance that parsing computes is the copy's, because
the copy is balanced. `Ledger` has no hypothesis on overdrafts: money is
accounted for below zero, too.

`PositiveWithoutOverdraft` says that an overdraft is the only way to the
counterexample of run `overdraft`.

**Transfers** (`InterAccountConsistencyProofs`): `NoTransferLosesMoney` and
`NoSaveCutsATransfer`, of `TransfersConsistent` and `StoredTransfersConsistent`, for any
forest of accounts and amounts of either sign, overdrawn accounts included. The
repository's check is a recursion over each tree, and its result says nothing about the
accounts in the middle, so it is not inductive. `Conserved` is: what every account
allocated is what its children received (`BudgetsAgree`), and there are numbers, one in
and one out per account and zero at the top, that account for what it exchanged with its
parent (`Cancels`).

* *Sums.* `SumFunction` takes the elements of a set in an order of its own. `SumFacts`
  says that any order gives the same sum, `SumChange` and `SumExtends` what one changed
  element or more elements with zero do to it.
* *Trees.* `FromTheLeaves`: what holds of an account when it holds of its children holds
  of all, because a finite set of keys has a longest one. With it the recursive functions
  of the check compute the numbers of `Cancels`, and `ConservedIsConsistent` follows.
* *Changes.* An operation either moves nothing (`ConservedSame`), exchanges money between
  an account and its parent, of which only the account's own numbers and the two
  accounts' amounts change (`ConservedExchange`), or adds empty accounts, none of them
  above an old one (`ConservedGrows`). Every handler and every step of a close is one of
  the three.
* *Saves.* `Cuts`: while the first process lives, accounts, copy and records are each
  conserved. A save writes the accounts one by one, but the copy has every account that
  is stored, and an `EXEC` is all or nothing, so that afterwards the records are the
  whole copy. A new process does not load the archived accounts, and from then on the
  check does fail: hence `FirstProcess` in both properties. Both theorems are about
  `MasterBanker`, where signals come between transfers; the second does not hold of
  those that come inside one.

**Relay** (`RelayProofs`): `RelayTypes`, `NoConnectionLost`, `CloseKept`,
`AtMostOneReply`, `RequestsReachTheirBanker`, `AllShardsMerged`. `RelayInv` adds to the
invariants that a request has a placeholder of one kind at most, and only between
arrival and reply; that a request to all shards has as many stored bodies as
connections that answered (so that the last reply is the last); and that the header
sent on a lent connection still agrees with the pool. A lemma per change of the pools
(`NewPoolPlaces`, `CreatePlaces`, `NullPlaces`, `ReusePlaces`, `ReturnPlaces`,
`OwnPlaces`, `DisownPlaces`) shows that the connections keep their places; the
lemmas on actions cite them. `RequestsReachTheirBanker` needs a second invariant on
top, `Routed`: with shards numbered from 0 without a gap the lookup never adds an
entry, and every pool's endpoint is the one of its slot. `AllShardsMerged` needs a
third, `Merging`: a request for all has one connection to every shard, and each body
stored so far is empty or the part of a connection that answered. Bodies are stored in
the order of the answers, so which body is whose is not known; that there are as many
bodies as connections, and one for each, is enough. Both assume `ContiguousShards`: an
entry that a lookup adds for a missing shard has no banker behind it, and would have to
answer too.

**Redis client** (`RedisClientProofs`): `RedisTypeCorrect`, `RedisNothingDangles`,
`RedisCountedOnce` and the refinement `RedisKeepsPromise`: `PromiseInit` maps the
initial state, and `PromiseStep` every step of callers, event loop, hiredis and redis
to a step of `CommandQueue` or a stutter. `RedisInv` adds that a command is issued once,
that one in `replyQueue` was REPLIED, was executed if its reply is ok, and has no
outcome yet, that a timeout is one of a WAITING command, and that a freed context stays
out of use. Without the last, hiredis could be given a command twice.

**Migration and routing** (`ShardingProofs`). `HashesAlike`: the relay's 32-bit hash
with signed characters and the script's unbounded one agree on the low 31 bits, for
names of any length: the low limbs of a turn depend on the low limbs before it only
(`LowerLimbs`). `ShardingRoutesAgree` and `ShardingSupportedReached` are about every path
and query, and rest on no more than the shape of the path; `ShardingLosesNothing`,
`ShardingOneOwner` and `ShardingAccountsFound` are about the script, interrupted and
repeated at will. `ShardingInv` says where each active account is: listed in an old
database, in the script's hands, being written, or at home (`Carried`); that a
database which was cleaned or is new lists accounts of its own shard only (`Placed`);
and that records without text are met only after an interruption (`RecordsThere`).

**Shadow accounts and currency pools** (`ShadowBankerProofs`): `ShadowTypes`,
`ShadowAlwaysInBooks`, `EveryOperationCounts`, `OverdraftStaysBounded`,
`PoolsAlwaysPointwise`, and `EveryReportAccepted`, for any amounts, any number of bids,
messages, requests and restarts. The argument has four layers.

* *Pools.* Sorted sequences with one amount per currency (`SortedPools`) are closed
  under every operator, and what the operator does is stated by `getAvailable` alone
  (`PlusPoolAdds`, `MinusPoolSubtracts`, `LimitedPool`, `ThroughJson` and others).
* *Trees.* What each operator of `Accounts` does to an account and its parent: it is
  still balanced and not overdrawn, and it keeps the counters, or takes the reported
  ones (`TreeOK`, `CountsKept`). The accounts of all currencies stay alike.
* *Turns.* An operation on a bid is a `BidStep(d, x)`: the counters grow by `d`, the
  balance moves with them, and `x` is paid in excess. Whatever the master does is a
  `Turn`: the account keeps its counters, takes a report's, or goes back to the saved
  ones. `StepKinds` says that there are no other steps.
* *Invariants.* `StateOK` has the types and the shadow's books. `MoneyOK` is what makes
  `OverdraftBounded` inductive. `Total` is the master's net budget and the excess, and
  never falls, because what the master takes back is counted as excess. No net budget on
  its way is above `Total`, and whatever counters a shadow may ever start from (of a
  message, in memory, saved, or none, if the account was lost) are covered by it, with
  what an uninitialized shadow has already authorized on top. `Behind` orders the
  counters: saved, in memory, reported, counted. It holds only without messages of a
  process that ended (`LateMessages = FALSE`), and so this is a hypothesis of
  `EveryReportAccepted`; section 3 has what happens otherwise. The repository does not
  say how long a new process waits.

**How recursion is proved.** Where a definition computes by a loop (the hash, `Only`,
adding and subtracting pools), it is written as a recursive function on `0 .. n`.
`SequenceProofs` proves `UptoInduction` (from the smallest element of a non-empty set
of numbers) and, from it, `Recursion`: a function that starts and steps as the
definition says exists. The recursion over the tree of accounts and the sums over
children go by `FromTheLeaves` and `OneByOne`,
on finite sets. No lemma takes an operator as a parameter: the property is a set and the
steps are a function, so that every prover can use it.

**Only model-checked**: liveness (`EventuallySaved`, `AnsweredWhileUp`,
`AnsweredWhileLooping`), which is beyond this prover, and the three properties of
`AssignmentSpec` (run `assignments`): `HandlersAtomic`, and that `RestartPossible` and
`StorageNeverAhead` hold with signals between two assignments.

## 5. What is not modelled

* Several currencies in the master banker's run: `PoolsPointwise` shows that they do
  not interact. Line items (`lineItems`) are carried along by the code and take no
  part in the balance. 64-bit overflow of amounts: micro-dollars would have to exceed
  9 x 10^12 dollars.
* A signal inside an insertion into the map of accounts, inside a `+=` of a pool, or
  inside `persist_redis` between the test of `persisting` and its assignment: a copy of
  a container that is being changed is undefined. Signals are modelled between the
  assignments of a handler (`MasterBankerAssignments`) and between operations
  (`MasterBanker`, which the theorems are about). Signals that are handled on another
  thread than the event loop's.
* Of a shadow, more than one detached amount of the same item held by the caller.
* Paths that only begin like the base path are represented by `/v1/accountsx`: the
  router reads nothing of the rest of that segment.
* The redis client inside the save: in `MasterBanker` a command succeeds or is answered
  by an error. That a save may wait for ever on a lost connection is shown by `hangup`.
  Addresses, `auth` and the building of commands; `cancel`, which throws.
* The difference between a pool without an entry and one with a zero entry in
  `isSameOrPastVersion`.
* Handlers that only read, HTTP headers other than the one of the pool (the client's
  own `Connection` header is copied behind it), clients that disconnect, an empty
  configuration of the relay.
* Bankers that run, and save, while the script moves their accounts.
* `evhttp_make_request` refusing a request at once: its result is ignored by the
  code, and the model's libevent accepts every request.
* `importSpend`, `recuperate`, `recycle` and the whole-map `syncTo` and `syncFrom`, which
  nothing in the banker calls; `AccountSummary`, which only reads.
* Vendored libraries; dates, strings and logs.

## 6. Plan

Done: the models of all components but support code, and the proofs of section 4.
Next, in this order:

1. An abstract specification of what the relay promises a client.
2. The save on top of `RedisClient`; `evhttp_make_request` that refuses at once;
   `AccountSummary`.
