---------------------- MODULE MasterBankerAssignments -----------------------
(***************************************************************************)
(* The master banker with the assignments of its handlers one by one.      *)
(*                                                                         *)
(* signal_handler is installed with std::signal: it interrupts the event   *)
(* loop at any instruction and copies the accounts as they are then, also  *)
(* between two assignments of a transfer.  MasterBanker takes a handler,   *)
(* or the close of one account, as one step.  Here it begins with one step *)
(* that decides on its assignments, and the statements follow one at a     *)
(* time, in the order of the source, with the thread that saves and the    *)
(* signals in between.  The creation of missing accounts stays one step:   *)
(* a copy of a std::map during an insertion is undefined.                  *)
(***************************************************************************)
EXTENDS InterAccountConsistency

VARIABLE pending    \* the assignments the running callback has still to do

avars == << vars, pending >>

\* account.field += by; for the status, account.status = by.
Assignment(k, f, by) == [ key |-> k, field |-> f, by |-> by ]

Assign(accts, s) ==
    [ accts EXCEPT ![s.key][s.field] = IF s.field = "status" THEN s.by ELSE @ + s.by ]

\* The accounts once the assignments are done.
Assigned(accts, todo) == FoldLeft(Assign, accts, todo)

----------------------------------------------------------------------------
(* The assignments of each operation, in the order of the source.          *)

\* reactivateAccount: the account, its ancestors from below, and its subtree,
\* children before parents.
reactivate(accts, k) ==
    IF k \in DOMAIN accts /\ accts[k].status = "closed"
    THEN LET above == [ n \in 1 .. Len(k) |-> SubSeq(k, 1, Len(k) + 1 - n) ]
             below == SetToSortSeq(Subtree(accts, k), LAMBDA a, b : Len(a) > Len(b))
         IN  [ n \in 1 .. Len(above) + Len(below) |->
                 Assignment((above \o below)[n], "status", "active") ]
    ELSE <<>>

\* Mutant: the account's own budget is not increased.
transferWithoutIncrease(accts, k, newBalance) ==
    IF k \in DOMAIN accts /\ HasParent(accts, k) /\ checkInvariants(accts[k])
    THEN LET p == Front(k)
             t == Transfer(accts[k], accts[p], newBalance)
         IN  << Assignment(p, "recycledOut", t.fromRecycled),
                Assignment(p, "balance", -t.fromRecycled),
                Assignment(k, "recycledIn", t.fromRecycled),
                Assignment(k, "balance", t.fromRecycled),
                Assignment(p, "allocatedOut", t.fromBudget),
                Assignment(p, "balance", -t.fromBudget),
                Assignment(k, "balance", t.fromBudget),
                Assignment(p, "recycledIn", t.toRecycled),
                Assignment(p, "balance", t.toRecycled),
                Assignment(k, "recycledOut", t.toRecycled),
                Assignment(k, "balance", -t.toRecycled) >>
    ELSE <<>>

\* Account::setBalance, if the account's invariants hold on entry.
transfer(accts, k, newBalance) ==
    IF k \in DOMAIN accts /\ HasParent(accts, k) /\ checkInvariants(accts[k])
    THEN LET p == Front(k)
             t == Transfer(accts[k], accts[p], newBalance)
         IN  << Assignment(p, "recycledOut", t.fromRecycled),
                Assignment(p, "balance", -t.fromRecycled),
                Assignment(k, "recycledIn", t.fromRecycled),
                Assignment(k, "balance", t.fromRecycled),
                Assignment(p, "allocatedOut", t.fromBudget),
                Assignment(p, "balance", -t.fromBudget),
                Assignment(k, "budgetIncreases", t.fromBudget),
                Assignment(k, "balance", t.fromBudget),
                Assignment(p, "recycledIn", t.toRecycled),
                Assignment(p, "balance", t.toRecycled),
                Assignment(k, "recycledOut", t.toRecycled),
                Assignment(k, "balance", -t.toRecycled) >>
    ELSE <<>>

\* Mutant: what comes back is taken off what the parent has allocated.
recuperateFromAllocated(accts, k) ==
    LET amount == nonNegative(accts[k].balance)
        moves  == << Assignment(k, "recycledOut", amount),
                     Assignment(k, "balance", -amount),
                     Assignment(Front(k), "allocatedOut", -amount),
                     Assignment(Front(k), "balance", amount) >>
    IN  (IF HasParent(accts, k) THEN moves ELSE <<>>)
        \o (IF CloseThrows(accts, k) THEN <<>>
            ELSE << Assignment(k, "status", "closed") >>)

\* recuperateTo, and the change of status that an exception skips.
recuperate(accts, k) ==
    LET amount == nonNegative(accts[k].balance)
        moves  == << Assignment(k, "recycledOut", amount),
                     Assignment(k, "balance", -amount),
                     Assignment(Front(k), "recycledIn", amount),
                     Assignment(Front(k), "balance", amount) >>
    IN  (IF HasParent(accts, k) THEN moves ELSE <<>>)
        \o (IF CloseThrows(accts, k) THEN <<>>
            ELSE << Assignment(k, "status", "closed") >>)

fund(accts, k, newBudget) ==
    LET after == setBudget(accts[k], newBudget)
        by(f) == after[f] - accts[k][f]
        side  == IF by("balance") >= 0 THEN "budgetIncreases" ELSE "budgetDecreases"
    IN  << Assignment(k, side, by(side)), Assignment(k, "balance", by("balance")) >>

adjust(k, amount) ==
    << IF amount >= 0 THEN Assignment(k, "adjustmentsIn", amount)
       ELSE Assignment(k, "adjustmentsOut", -amount),
       Assignment(k, "balance", amount) >>

sync(accts, k, s) ==
    IF k \in DOMAIN accts /\ checkInvariants(accts[k]) /\ ShadowIsNewer(s, accts[k])
    THEN LET by(f) == syncToMaster(s, accts[k])[f] - accts[k][f]
         IN  [ n \in 1 .. 4 |->
                 LET f == << "commitmentsRetired", "commitmentsMade", "spent",
                             "balance" >>[n]
                 IN  Assignment(k, f, by(f)) ]
    ELSE <<>>

----------------------------------------------------------------------------
(* The callbacks of the event loop begin when the one before has ended.    *)

Begin == pending = <<>>

\* ensureAccount, when a handler calls it and it does not throw.
Ensured(accts, k, t, called) ==
    IF called /\ k \notin DOMAIN accts /\ CanEnsure(accts, k, t)
    THEN ensureAccount(accts, k, t) ELSE accts

adjustmentBegins(k, amount) ==
    /\ Begin /\ Request
    /\ pending' = IF k \in DOMAIN accounts
                  THEN reactivate(accounts, k) \o adjust(k, amount) ELSE <<>>
    /\ UNCHANGED << accounts, closing >>

balanceBegins(k, newBalance, t) ==
    /\ Begin /\ Request
    /\ accounts' = Ensured(accounts, k, t, t # "none")
    /\ pending' = reactivate(accounts, k)
                  \o transfer(reactivatePresentAccounts(accounts', k), k, newBalance)
    /\ UNCHANGED closing

shadowBegins(k, s) ==
    /\ Begin /\ Request
    /\ accounts' = Ensured(accounts, k, "spend", TRUE)
    /\ pending' = IF k \in DOMAIN accounts /\ accounts[k].status = "closed"
                  THEN <<>> ELSE sync(accounts', k, s)
    /\ UNCHANGED closing

budgetBegins(k, newBudget) ==
    /\ Begin /\ Request
    /\ accounts' = Ensured(accounts, k, "budget", Len(k) = 1)
    /\ pending' = reactivate(accounts, k)
                  \o (IF Len(k) = 1 /\ CanEnsure(accounts, k, "budget")
                      THEN fund(accounts', k, newBudget) ELSE <<>>)
    /\ UNCHANGED closing

createBegins(k, t) ==
    /\ Begin /\ Request
    /\ accounts' = Ensured(accounts, k, t, TRUE)
    /\ pending' = reactivate(accounts, k)
    /\ UNCHANGED closing

closeBegins(k) ==
    /\ Begin /\ Request
    /\ pending' = reactivate(accounts, k)
    /\ closing' = IF k \in DOMAIN accounts
                  THEN << [ key |-> k, todo |-> Children(accounts, k) ] >>
                  ELSE <<>>
    /\ UNCHANGED accounts

\* recuperateTo and the return from a frame of closeAccountImpl.
closeSelfBegins ==
    /\ Begin
    /\ closing # <<>>
    /\ Last(closing).todo = {}
    /\ LET k == Last(closing).key IN
       /\ pending' = recuperate(accounts, k)
       /\ closing' = IF CloseThrows(accounts, k) THEN <<>> ELSE Front(closing)
    /\ UNCHANGED << up, accounts, save, redis, requests, restarts, errors >>

\* The next assignment.
Statement ==
    /\ pending # <<>>
    /\ accounts' = Assign(accounts, Head(pending))
    /\ pending' = Tail(pending)
    /\ UNCHANGED << up, closing, save, redis, requests, restarts, errors >>

HandlerBegins ==
    \E k \in Keys :
        \/ \E amount \in Adjustments : adjustmentBegins(k, amount)
        \/ \E v \in Balances, t \in AccountType : balanceBegins(k, v, t)
        \/ k \in ShadowKeys /\ \E s \in Shadows : shadowBegins(k, s)
        \/ \E v \in Budgets : budgetBegins(k, v)
        \/ \E t \in AccountType : createBegins(k, t)
        \/ closeBegins(k)

\* A signal between two assignments: what it copies is half done.
TornSignal == pending # <<>> /\ signal_handler /\ UNCHANGED pending

AInit == Init /\ pending = <<>>

ANext == \/ HandlerBegins \/ closeSelfBegins \/ Statement
         \/ Begin /\ (CloseChild \/ persist \/ MainReturns) /\ UNCHANGED pending
         \/ Begin /\ signal_handler /\ UNCHANGED pending
         \/ TornSignal
         \/ (onPhase1Result \/ Exec \/ RedisError) /\ UNCHANGED pending
         \/ Crash /\ pending' = <<>>
         \/ Start /\ UNCHANGED pending

AssignmentSpec == AInit /\ [][ANext]_avars

----------------------------------------------------------------------------
(* Properties.                                                             *)

\* The banker of MasterBanker, whose accounts change when a callback begins.
Atomic == INSTANCE MasterBanker WITH accounts <- Assigned(accounts, pending)

(***************************************************************************)
(* MasterBanker may take a handler, and the close of one account, as one   *)
(* step: whatever saves, errors, crashes and restarts fall between the     *)
(* assignments, each step is one of MasterBanker or none.  The only        *)
(* exception is the signal that falls between two assignments and starts a *)
(* save, and what it changes is that one copy.                             *)
(***************************************************************************)
HandlersAtomic ==
    /\ Atomic!Init
    /\ [][ \/ Atomic!Next
           \/ /\ TornSignal
              /\ save' = Persisting(accounts)
              /\ UNCHANGED Assigned(accounts, pending) ]_(Atomic!vars)
============================================================================
