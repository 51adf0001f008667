---------------------------- MODULE MasterBanker ---------------------------
(***************************************************************************)
(* The master banker process (src/src/banker/banker.cc and                 *)
(* src/src/master_banker.cpp) with the redis database behind it.           *)
(*                                                                         *)
(* One event-loop thread runs the REST handlers and a timer.  The timer    *)
(* copies the accounts and hands the copy to a detached thread, which      *)
(* fetches the stored records (MGET), decides what to write and writes it  *)
(* in one MULTI/EXEC.  Handlers run between the steps of that thread.  The *)
(* process may end at any step; a new one loads what redis holds.          *)
(***************************************************************************)
EXTENDS Accounts

CONSTANTS
    Budgets,        \* amounts a budget request may carry
    Balances,       \* amounts a balance request may carry
    Adjustments,    \* amounts an adjustment request may carry
    Shadows,        \* shadow accounts a shadow request may carry
    ShadowKeys,     \* the accounts shadow requests name
    LoadMayFail,    \* whether redis may answer load_redis by an error
    MaxRequests,    \* bound: state-changing requests handled
    MaxRestarts,    \* bound: how often the process ends
    MaxErrors       \* bound: redis commands answered by an error

ASSUME InputsAssumption ==
    /\ Budgets \subseteq Int /\ Balances \subseteq Int
    /\ Adjustments \subseteq Int /\ Shadows \subseteq ShadowRecord
    /\ ShadowKeys \subseteq Keys /\ LoadMayFail \in BOOLEAN

ASSUME BoundsAssumption ==
    MaxRequests \in Nat /\ MaxRestarts \in Nat /\ MaxErrors \in Nat

VARIABLES
    up,         \* "down", "running", or "stopping" after SIGINT or SIGTERM
    accounts,   \* the accounts in memory
    closing,    \* call stack of closeAccountImpl: the key of each frame and
                \* the children its loop has still to visit
    save,       \* the persisting thread: its phase ("idle" = not persisting),
                \* the copy accounts_to_save and the commands it will send
    records,    \* redis: the record of each account stored
    members,    \* redis: the set "banker:accounts"
    archive,    \* redis: the set "banker:archive"
    requests, restarts, errors

redis == << records, members, archive >>
process == << up, accounts, closing, save >>
vars == << process, redis, requests, restarts, errors >>

NoCommands == [ set |-> {}, sadd |-> {}, toArchive |-> {}, toAccounts |-> {} ]
NotPersisting == [ phase |-> "idle", toSave |-> NoAccounts, cmds |-> NoCommands ]
Persisting(accts) == [ phase |-> "fetch", toSave |-> accts, cmds |-> NoCommands ]

Init == /\ up = "down"
        /\ accounts = NoAccounts
        /\ closing = <<>>
        /\ save = NotPersisting
        /\ records = NoAccounts /\ members = {} /\ archive = {}
        /\ requests = 0 /\ restarts = 0 /\ errors = 0

----------------------------------------------------------------------------
(* REST handlers.  Each runs to its end on the event loop.                 *)

Request == /\ up = "running" /\ closing = <<>>
           /\ requests < MaxRequests
           /\ requests' = requests + 1
           /\ UNCHANGED << up, save, redis, restarts, errors >>

\* POST, PUT /v1/accounts/<k>/adjustment
adjustment(k, amount) ==
    LET active == reactivatePresentAccounts(accounts, k) IN
    /\ Request
    /\ accounts' = IF k \in DOMAIN active
                   THEN [ active EXCEPT ![k] = addAdjustment(@, amount) ]
                   ELSE active
    /\ UNCHANGED closing

\* POST, PUT /v1/accounts/<k>/balance?accountType=<t>: an absent account is
\* created unless t is "none", even when the transfer then throws.
balance(k, newBalance, t) ==
    LET active == reactivatePresentAccounts(accounts, k)
        creates == k \notin DOMAIN active /\ t # "none"
    IN
    /\ Request
    /\ accounts' = IF ~creates THEN setBalance(active, k, newBalance)
                   ELSE IF CanEnsure(active, k, t)
                   THEN setBalance(ensureAccount(active, k, t), k, newBalance)
                   ELSE active
    /\ UNCHANGED closing

\* POST, PUT /v1/accounts/<k>/shadow: ignored when the account is closed.
shadow(k, s) ==
    /\ Request
    /\ accounts' = IF k \in DOMAIN accounts
                   THEN IF accounts[k].status = "closed" THEN accounts
                        ELSE syncFromShadow(accounts, k, s)
                   ELSE IF CanEnsure(accounts, k, "spend")
                   THEN syncFromShadow(ensureAccount(accounts, k, "spend"), k, s)
                   ELSE accounts
    /\ UNCHANGED closing

\* POST, PUT /v1/accounts/<k>/budget: top-level accounts only.
budget(k, newBudget) ==
    LET active == reactivatePresentAccounts(accounts, k) IN
    /\ Request
    /\ accounts' = IF Len(k) = 1 /\ CanEnsure(active, k, "budget")
                   THEN [ ensureAccount(active, k, "budget") EXCEPT
                            ![k] = setBudget(@, newBudget) ]
                   ELSE active
    /\ UNCHANGED closing

\* POST /v1/accounts?accountName=<k>&accountType=<t>
create_account(k, t) ==
    LET active == reactivatePresentAccounts(accounts, k) IN
    /\ Request
    /\ accounts' = IF CanEnsure(active, k, t) THEN ensureAccount(active, k, t)
                   ELSE active
    /\ UNCHANGED closing

(***************************************************************************)
(* GET /v1/accounts/<k>/close.  The recursion of closeAccountImpl is       *)
(* unwound, so that a signal may find it half done.  A frame visits its    *)
(* children, of which the closed ones return at once, and then closes its  *)
(* own account.                                                            *)
(***************************************************************************)
close(k) ==
    LET active == reactivatePresentAccounts(accounts, k) IN
    /\ Request
    /\ accounts' = active
    /\ closing' = IF k \in DOMAIN active
                  THEN << [ key |-> k, todo |-> Children(active, k) ] >>
                  ELSE <<>>

CloseChild ==
    /\ closing # <<>>
    /\ \E c \in Last(closing).todo :
         LET rest == [ closing EXCEPT ![Len(closing)].todo = @ \ {c} ] IN
         closing' = IF accounts[c].status = "closed" THEN rest
                    ELSE Append(rest, [ key |-> c,
                                        todo |-> Children(accounts, c) ])
    /\ UNCHANGED << up, accounts, save, redis, requests, restarts, errors >>

\* Mutant: the account is closed before its children.
CloseSelfFirst ==
    /\ closing # <<>>
    /\ LET k == Last(closing).key IN
       /\ accounts' = closeOne(accounts, k)
       /\ closing' = IF CloseThrows(accounts, k) THEN <<>> ELSE Front(closing)
    /\ UNCHANGED << up, save, redis, requests, restarts, errors >>

CloseSelf ==
    /\ closing # <<>>
    /\ Last(closing).todo = {}
    /\ LET k == Last(closing).key IN
       /\ accounts' = closeOne(accounts, k)
       /\ closing' = IF CloseThrows(accounts, k) THEN <<>> ELSE Front(closing)
    /\ UNCHANGED << up, save, redis, requests, restarts, errors >>

----------------------------------------------------------------------------
(* Persistence.                                                            *)

\* The timer: copy the accounts, start the thread, unless one is at work.
persist ==
    /\ up = "running" /\ closing = <<>>
    /\ save.phase = "idle"
    /\ save' = Persisting(accounts)
    /\ UNCHANGED << up, accounts, closing, redis, requests, restarts, errors >>

(***************************************************************************)
(* save_to_redis, phase 1: MGET answers, and every account of the copy is  *)
(* compared with its record.  One account that would go back in time, or   *)
(* one record that does not parse, and nothing is saved.                   *)
(***************************************************************************)
Stored(toSave) == DOMAIN toSave \cap DOMAIN records

badAccounts(toSave) ==
    { k \in Stored(toSave) : ~isSameOrPastVersion(toSave[k], records[k]) }

\* Mutant: every account written is added to "banker:accounts".
storeCommandsAddAll(toSave) ==
    LET written == { k \in DOMAIN toSave :
                       k \in DOMAIN records => toJson(toSave[k]) # records[k] }
        moved(from, to) == { k \in written \cap DOMAIN records :
                               /\ records[k].status = from
                               /\ toSave[k].status = to }
    IN  [ set |-> written, sadd |-> written,
          toArchive |-> moved("active", "closed"),
          toAccounts |-> moved("closed", "active") ]

\* Mutant: the record of a reactivated account stays in "banker:archive".
storeCommandsArchiveKept(toSave) ==
    LET missing == DOMAIN toSave \ DOMAIN records
        changed == { k \in Stored(toSave) : toJson(toSave[k]) # records[k] }
    IN  [ set |-> missing \cup changed, sadd |-> missing,
          toArchive |-> { k \in changed : /\ records[k].status = "active"
                                          /\ toSave[k].status = "closed" },
          toAccounts |-> {} ]

storeCommands(toSave) ==
    LET missing == DOMAIN toSave \ DOMAIN records
        changed == { k \in Stored(toSave) : toJson(toSave[k]) # records[k] }
        moved(from, to) == { k \in changed : /\ records[k].status = from
                                             /\ toSave[k].status = to }
    IN  [ set |-> missing \cup changed, sadd |-> missing,
          toArchive |-> moved("active", "closed"),
          toAccounts |-> moved("closed", "active") ]

onPhase1Result ==
    LET toSave == save.toSave
        parses == \A k \in Stored(toSave) : AmountsNonNegative(records[k])
        cmds   == storeCommands(toSave)
    IN
    /\ save.phase = "fetch"
    /\ save' = IF parses /\ badAccounts(toSave) = {} /\ cmds.set # {}
               THEN [ save EXCEPT !.phase = "exec", !.cmds = cmds ]
               ELSE NotPersisting
    /\ UNCHANGED << up, accounts, closing, redis, requests, restarts, errors >>

\* Mutant: without MULTI the commands take effect one by one, and the
\* connection may be lost between two of them.
ExecWithoutMulti ==
    /\ save.phase = "exec"
    /\ \E written \in SUBSET save.cmds.set :
         records' = [ k \in DOMAIN records \cup written |->
                        IF k \in written THEN toJson(save.toSave[k])
                        ELSE records[k] ]
    /\ members' = (members \cup save.cmds.sadd) \cap DOMAIN records'
    /\ save' = NotPersisting
    /\ UNCHANGED << up, accounts, closing, archive, requests, restarts, errors >>

\* Phase 2: MULTI, the commands, EXEC.  SMOVE moves what its source holds.
Exec ==
    LET cmds == save.cmds IN
    /\ save.phase = "exec"
    /\ records' = [ k \in DOMAIN records \cup cmds.set |->
                      IF k \in cmds.set THEN toJson(save.toSave[k])
                      ELSE records[k] ]
    /\ members' = (members \ cmds.toArchive) \cup cmds.sadd
                  \cup (cmds.toAccounts \cap archive)
    /\ archive' = (archive \ cmds.toAccounts) \cup (cmds.toArchive \cap members)
    /\ save' = NotPersisting
    /\ UNCHANGED << up, accounts, closing, requests, restarts, errors >>

\* Mutant: after an error the flag `persisting' is not reset.
RedisErrorFlagKept ==
    /\ save.phase # "idle"
    /\ errors < MaxErrors
    /\ errors' = errors + 1
    /\ save' = [ save EXCEPT !.phase = "failed" ]
    /\ UNCHANGED << up, accounts, closing, redis, requests, restarts >>

\* MGET or EXEC answers with an error: this save is given up.
RedisError ==
    /\ save.phase # "idle"
    /\ errors < MaxErrors
    /\ errors' = errors + 1
    /\ save' = NotPersisting
    /\ UNCHANGED << up, accounts, closing, redis, requests, restarts >>

----------------------------------------------------------------------------
(* The life of the process.                                                *)

\* SIGINT, SIGTERM: the loop stops after the current callback, and a last
\* save is started, whatever accounts a close has got to.  Signals come between
\* steps here; MasterBankerAssignments has those within a handler.
signal_handler ==
    /\ up # "down"
    /\ restarts < MaxRestarts
    /\ up' = "stopping"
    /\ save' = IF save.phase = "idle" THEN Persisting(accounts) ELSE save
    /\ UNCHANGED << accounts, closing, redis, requests, restarts, errors >>

\* The process is gone, and with it the detached thread.
ProcessGone ==
    /\ restarts < MaxRestarts
    /\ restarts' = restarts + 1
    /\ up' = "down"
    /\ accounts' = NoAccounts /\ closing' = <<>> /\ save' = NotPersisting
    /\ UNCHANGED << redis, requests, errors >>

\* main() returns from the dispatch loop; it does not wait for the thread.
MainReturns == up = "stopping" /\ closing = <<>> /\ ProcessGone

Crash == up # "down" /\ ProcessGone

\* load_redis: every member of "banker:accounts" must have a record.  An
\* exception of restoreAccount ends the process before it serves requests.
Start ==
    /\ up = "down"
    /\ members \subseteq DOMAIN records => CanRestore(members, records)
    /\ up' = "running"
    /\ accounts' = IF members \subseteq DOMAIN records
                   THEN RestoredAccounts(members, records) ELSE NoAccounts
    /\ UNCHANGED << closing, save, redis, requests, restarts, errors >>

\* A command of load_redis fails: the process logs it and goes on, empty.
StartUnloaded ==
    /\ up = "down"
    /\ LoadMayFail
    /\ errors < MaxErrors
    /\ errors' = errors + 1
    /\ up' = "running"
    /\ UNCHANGED << accounts, closing, save, redis, requests, restarts >>

----------------------------------------------------------------------------
Handler ==
    \E k \in Keys :
        \/ \E amount \in Adjustments : adjustment(k, amount)
        \/ \E v \in Balances, t \in AccountType : balance(k, v, t)
        \/ k \in ShadowKeys /\ \E s \in Shadows : shadow(k, s)
        \/ \E v \in Budgets : budget(k, v)
        \/ \E t \in AccountType : create_account(k, t)
        \/ close(k)

Next == \/ Handler \/ CloseChild \/ CloseSelf
        \/ persist \/ onPhase1Result \/ Exec \/ RedisError
        \/ signal_handler \/ MainReturns \/ Crash \/ Start \/ StartUnloaded

Spec == Init /\ [][Next]_vars

(***************************************************************************)
(* The event loop, the timer and the thread make progress, redis answers,  *)
(* and a process that ended is started again.  Nothing obliges clients to  *)
(* send requests.                                                          *)
(***************************************************************************)
Fairness == /\ WF_vars(CloseChild) /\ WF_vars(CloseSelf)
            /\ WF_vars(persist) /\ WF_vars(onPhase1Result) /\ WF_vars(Exec)
            /\ WF_vars(MainReturns) /\ WF_vars(Start)

FairSpec == Spec /\ Fairness

----------------------------------------------------------------------------
(* Properties.                                                             *)

\* The process that found the database empty has not ended yet.
FirstProcess == restarts = 0

Frame == [ key : Keys, todo : SUBSET Keys ]

Commands == [ set : SUBSET Keys, sadd : SUBSET Keys,
              toArchive : SUBSET Keys, toAccounts : SUBSET Keys ]

(***************************************************************************)
(* Type correctness: the maps of accounts_to_save, accounts and redis hold *)
(* accounts under keys, and a frame of closeAccountImpl names keys.        *)
(***************************************************************************)
TypeOK == /\ up \in {"down", "running", "stopping"}
          /\ IsAccountMap(accounts)
          /\ closing \in Seq(Frame)
          /\ save = [ phase |-> save.phase, toSave |-> save.toSave,
                       cmds |-> save.cmds ]
          /\ save.phase \in {"idle", "fetch", "exec"}
          /\ IsAccountMap(save.toSave)
          /\ save.cmds \in Commands
          /\ IsAccountMap(records)
          /\ members \in SUBSET Keys
          /\ archive \in SUBSET Keys
          /\ requests \in Nat /\ restarts \in Nat /\ errors \in Nat

(***************************************************************************)
(* "Invariant: sum(Credit Side) = sum(Debit Side)" (account.h, struct      *)
(* Account): whatever the handlers, the transfers between accounts, the    *)
(* close recursion and a reload did, every account in memory and every     *)
(* account of the copy being saved has equal sides, the copy as long as no *)
(* signal was caught inside an operation.                                  *)
(***************************************************************************)
BooksBalance ==
    /\ \A k \in DOMAIN accounts : Balanced(accounts[k])
    /\ \A k \in DOMAIN save.toSave : Balanced(save.toSave[k])

(***************************************************************************)
(* getParentAccount() never throws for an account that is there: its       *)
(* parent is there too and is a budget account, whatever the order of      *)
(* creations, closes and reloads (a reload creates the ancestors that      *)
(* "banker:accounts" does not list).                                       *)
(***************************************************************************)
ParentsPresent ==
    \A k \in DOMAIN accounts : Len(k) > 1 => HasParent(accounts, k)

\* No amount of an account in memory is negative.
AllNonNegative == \A k \in DOMAIN accounts : AmountsNonNegative(accounts[k])

\* A budget account whose balance is below zero.
OverdrawnBudget ==
    \E k \in DOMAIN accounts : /\ accounts[k].type = "budget"
                               /\ accounts[k].balance < 0

(***************************************************************************)
(* The assertions of checkInvariants() on the sign of the amounts can only *)
(* begin to fail in a step taken while some budget account is overdrawn:   *)
(* the transfers of setBalance and of recuperateTo, the shadow             *)
(* synchronisation and the reload keep every amount non-negative           *)
(* otherwise, whatever amounts the requests carry.                         *)
(***************************************************************************)
NegativeOnlyFromOverdraft ==
    [][ AllNonNegative /\ ~OverdrawnBudget => AllNonNegative' ]_vars

(***************************************************************************)
(* "Everything but balance must be positive" (Account::checkInvariants).   *)
(***************************************************************************)
EverythingButBalancePositive == AllNonNegative

(***************************************************************************)
(* closeAccountImpl works from the leaves up: in the step that closes an   *)
(* account every child is closed already, so the money the children gave   *)
(* back is in the account when it is emptied into its own parent, and      *)
(* nothing is left in an account below the top level.                      *)
(***************************************************************************)
CloseFromTheLeaves ==
    [][ \A k \in DOMAIN accounts \cap DOMAIN accounts' :
          accounts[k].status = "active" /\ accounts'[k].status = "closed" =>
             /\ \A c \in Children(accounts', k) : accounts'[c].status = "closed"
             /\ Len(k) > 1 => accounts'[k].balance <= 0 ]_vars

(***************************************************************************)
(* "closeAccount behavior is to close all children then close itself"      *)
(* (account.h, Accounts::closeAccount): when the outermost call returns,   *)
(* everything below the account is closed.                                 *)
(***************************************************************************)
CloseClosesSubtree ==
    [][ closing # <<>> /\ closing' = <<>> /\ up' # "down" =>
          LET k == closing[1].key IN
          accounts'[k].status = "closed" =>
             \A c \in Subtree(accounts', k) : accounts'[c].status = "closed" ]_vars

(***************************************************************************)
(* Every account stored is in exactly one of the two sets of redis, and    *)
(* the sets name nothing else, so that load_redis finds no nil record and  *)
(* no account is lost from both: over saves, closes and reactivations,     *)
(* errors and restarts.                                                    *)
(***************************************************************************)
StoredInOneSet ==
    /\ members \cup archive = DOMAIN records
    /\ members \cap archive = {}

(***************************************************************************)
(* The database never holds a state that a new process cannot load: every  *)
(* member has a record that parses and the parents of members are budget   *)
(* accounts.                                                               *)
(***************************************************************************)
RestartPossible == /\ members \subseteq DOMAIN records
                   /\ CanRestore(members, records)

(***************************************************************************)
(* While a process that began with an empty database lives, no stored      *)
(* amount is ahead of the one in memory, although the copy written is      *)
(* older than the accounts: so the test isSameOrPastVersion, which guards  *)
(* every save, does not fail.                                              *)
(***************************************************************************)
StorageNeverAhead ==
    FirstProcess /\ up # "down" =>
      \A k \in DOMAIN records :
         /\ k \in DOMAIN accounts
         /\ \A f \in AmountFields : records[k][f] <= accounts[k][f]

(***************************************************************************)
(* "Make sure that it's a valid update (eg, that no always increasing      *)
(* numbers would go down" (banker.cc, onPhase1Result): no write replaces   *)
(* an amount by a smaller one.                                             *)
(***************************************************************************)
StoredAmountsNeverGoDown ==
    [][ \A k \in DOMAIN records :
          \A f \in AmountFields : records'[k][f] >= records[k][f] ]_vars

\* What is in memory is in the database.
AllSaved == up = "running" /\ \A k \in DOMAIN accounts :
               k \in DOMAIN records /\ records[k] = toJson(accounts[k])

(***************************************************************************)
(* "the MBs sync every few secs" (README): once requests stop, everything  *)
(* in memory gets stored and stays stored.                                 *)
(***************************************************************************)
EventuallySaved == <>[]AllSaved

----------------------------------------------------------------------------
(***************************************************************************)
(* The banker keeps a Ledger.  An account holds its balance; adjustments,  *)
(* and at the top budgets, fund it; what shadows report uses it.           *)
(***************************************************************************)
Entry(k, a) ==
    [ held   |-> a.balance,
      funded |-> a.adjustmentsIn - a.adjustmentsOut
                 + (IF Len(k) = 1 THEN a.budgetIncreases - a.budgetDecreases
                    ELSE 0),
      used   |-> a.spent + a.commitmentsMade - a.commitmentsRetired,
      status |-> a.status ]

Entries(accts) == [ k \in DOMAIN accts |-> Entry(k, accts[k]) ]

Bank == INSTANCE Ledger WITH
    serving <- up # "down",
    books   <- Entries(accounts),
    copy    <- Entries(save.toSave),
    stored  <- [ k \in DOMAIN records |-> Entry(k, fromJson(records[k])) ]

(***************************************************************************)
(* The handlers, the recursion of a close, the two phases of a save with   *)
(* its comparison and its commands, the errors, signals, crashes and loads *)
(* of the banker are the steps of a ledger: money only moves as Ledger     *)
(* says, a save is the whole image of one moment or nothing, and no active *)
(* account that is stored is missing after a load that redis answered.     *)
(***************************************************************************)
KeepsLedger == Bank!Spec

============================================================================
