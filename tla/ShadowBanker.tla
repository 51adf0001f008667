---------------------------- MODULE ShadowBanker ----------------------------
(***************************************************************************)
(* A spend account and its shadow (ShadowAccount and ShadowAccounts of     *)
(* src/src/banker/account.h).  The shadow lives in another process, which  *)
(* authorizes bids from the balance it knows of and counts commitments and *)
(* spend.  It reports its counters to the master banker, which answers     *)
(* with its account.  Requests and answers may be lost, late, repeated and *)
(* out of order; both processes may end and start again, the shadow's from *)
(* nothing and the master from what it saved.                              *)
(***************************************************************************)
EXTENDS Accounts, FiniteSets

CONSTANTS
    Account1,      \* the key of the account; its parent holds the budget
    Items,         \* bids
    BidAmounts,    \* amounts a bid may ask for
    PaidAmounts,   \* amounts paid for a bid that was won
    Budget,        \* the parent's budget
    NewBalances,   \* amounts a balance request may carry
    LateMessages,  \* whether messages of a shadow process that ended arrive
    MaxOps,        \* bound: operations on bids
    MaxBalances,   \* bound: balance and close requests to the master
    MaxCrashes,    \* bound: how often either process ends
    MaxMessages    \* bound: different messages of each kind on their way

P == INSTANCE CurrencyPool

ASSUME ShadowAssumption ==
    /\ Account1 \in Keys /\ Len(Account1) > 1
    /\ BidAmounts \subseteq Nat /\ PaidAmounts \subseteq Nat
    /\ Budget \in Nat /\ NewBalances \subseteq Nat
    /\ LateMessages \in BOOLEAN
    /\ MaxOps \in Nat /\ MaxBalances \in Nat /\ MaxCrashes \in Nat
    /\ MaxMessages \in Nat

Codes == { P!CC_USD, P!CC_IMP }
USD(value) == P!Amount(P!CC_USD, value)

\* A message that was sent may arrive any number of times, or never.
Sending(messages, m) ==
    IF Cardinality(messages) < MaxMessages THEN messages \cup {m} ELSE messages

VARIABLES
    shadow,       \* the ShadowAccount and the flags of its AccountEntry
    commitments,  \* ShadowAccount::commitments: the amount of each open bid
    detached,     \* amounts of bids that were detached and not committed yet
    creating,     \* the shadow's process has asked the master for the account
    created,      \* the master's answers to that
    reports,      \* the reports sent,
    answers,      \* and the master's answers to them
    accounts,     \* the master's accounts, for each currency
    saved,        \* what the master saved last
    base, done,   \* ghosts: the counters the shadow started from, and what
                  \* operations have added to them since
    excess,       \* ghost: what was paid without being authorized, and what
                  \* the master has taken back
    ops, balances, crashes

sides == << shadow, commitments, detached, base, done >>
network == << creating, created, reports, answers >>
master == << accounts, saved >>
bounds == << ops, balances, crashes >>
vars == << sides, network, master, excess, bounds >>

NoShadow == [ status |-> "active", netBudget |-> <<>>, commitmentsRetired |-> <<>>,
              commitmentsMade |-> <<>>, spent |-> <<>>, balance |-> <<>>,
              uninitialized |-> TRUE, first |-> TRUE ]

Counters == { "commitmentsMade", "commitmentsRetired", "spent" }
NoCounts == [ c \in Codes |-> [ f \in Counters |-> 0 ] ]
NoBids == [ i \in {} |-> 0 ]

\* The parent with its budget, and the account with half of it.
OpenAccounts ==
    [ c \in Codes |->
        LET empty == ensureAccount(NoAccounts, Account1, "spend") IN
        IF c = P!CC_USD
        THEN setBalance([ empty EXCEPT ![Front(Account1)] = setBudget(@, Budget) ],
                        Account1, Budget \div 2)
        ELSE empty ]

Init == /\ shadow = NoShadow /\ commitments = NoBids /\ detached = NoBids
        /\ creating = FALSE /\ created = {} /\ reports = {} /\ answers = {}
        /\ accounts = OpenAccounts /\ saved = OpenAccounts
        /\ base = NoCounts /\ done = NoCounts
        /\ excess = 0
        /\ ops = 0 /\ balances = 0 /\ crashes = 0

----------------------------------------------------------------------------
(* Operations on bids.  The ghost done counts what each should add.        *)

\* ShadowAccount::checkInvariants
ShadowChecks(s) ==
    /\ P!isNonNegative(s.commitmentsRetired)
    /\ P!isNonNegative(s.commitmentsMade)
    /\ P!isNonNegative(s.spent)
    /\ P!SamePool(P!PlusPool(s.netBudget, s.commitmentsRetired),
                  P!PlusPool(P!PlusPool(s.commitmentsMade, s.spent), s.balance))

Op == /\ ops < MaxOps
      /\ ops' = ops + 1
      /\ ShadowChecks(shadow)
      /\ UNCHANGED << network, master, base, balances, crashes >>

Without(bids, i) == [ j \in DOMAIN bids \ {i} |-> bids[j] ]
With(bids, i, amount) == [ j \in DOMAIN bids \cup {i} |->
                             IF j = i THEN amount ELSE bids[j] ]
Excess(paid, authorized) == IF paid > authorized THEN paid - authorized ELSE 0

\* What authorizing a bid, and committing one, should add to the counters.
Authorized(amount) ==
    [ c \in Codes |-> [ f \in Counters |->
        IF c = P!CC_USD /\ f = "commitmentsMade" THEN amount ELSE 0 ] ]
Settled(authorized, paid) ==
    [ c \in Codes |-> [ f \in Counters |->
        IF f = "commitmentsMade" THEN 0
        ELSE IF c = P!CC_IMP THEN IF paid = 0 THEN 0 ELSE 1
        ELSE IF f = "spent" THEN paid ELSE authorized ] ]
Counted(counts) ==
    done' = [ c \in Codes |-> [ f \in Counters |-> done[c][f] + counts[c][f] ] ]

\* Mutant: the balance is not looked at.
authorizeBidUnchecked(i, amount) ==
    /\ Op
    /\ i \notin DOMAIN commitments
    /\ commitments' = With(commitments, i, amount)
    /\ shadow' = [ shadow EXCEPT !.balance = P!MinusAmount(@, USD(amount)),
                                 !.commitmentsMade = P!PlusAmount(@, USD(amount)) ]
    /\ Counted(Authorized(amount))
    /\ UNCHANGED << detached, excess >>

\* authorizeBid: nothing changes when the balance does not cover the bid, or
\* when the item is attached (attachBid throws).  A detached item may be used
\* again.
authorizeBid(i, amount) ==
    /\ Op
    /\ P!hasAvailable(shadow.balance, USD(amount))
    /\ i \notin DOMAIN commitments
    /\ commitments' = With(commitments, i, amount)
    /\ shadow' = [ shadow EXCEPT !.balance = P!MinusAmount(@, USD(amount)),
                                 !.commitmentsMade = P!PlusAmount(@, USD(amount)) ]
    /\ Counted(Authorized(amount))
    /\ UNCHANGED << detached, excess >>

commitEvent(s, am) == [ s EXCEPT !.spent = P!PlusAmount(@, am),
                                 !.commitmentsRetired = P!PlusAmount(@, am) ]

\* A bid that was paid for counts one impression.
commitDetachedBid(s, authorized, paid) ==
    LET paidFor == [ s EXCEPT
            !.balance = P!PlusAmount(@, USD(authorized - paid)),
            !.commitmentsRetired = P!PlusAmount(@, USD(authorized)),
            !.spent = P!PlusAmount(@, USD(paid)) ]
    IN  IF paid = 0 THEN paidFor ELSE commitEvent(paidFor, P!Amount(P!CC_IMP, 1))

\* What committing a bid does to the shadow and to the ghosts.
Commit(authorized, paid) ==
    /\ shadow' = commitDetachedBid(shadow, authorized, paid)
    /\ Counted(Settled(authorized, paid))
    /\ excess' = excess + Excess(paid, authorized)

commitBid(i, paid) ==
    /\ Op
    /\ i \in DOMAIN commitments
    /\ Commit(commitments[i], paid)
    /\ commitments' = Without(commitments, i)
    /\ UNCHANGED detached

cancelBid(i) == commitBid(i, 0)

\* A bound: the caller holds one detached amount of an item at a time.
detachBid(i) ==
    /\ Op
    /\ i \in DOMAIN commitments /\ i \notin DOMAIN detached
    /\ commitments' = Without(commitments, i)
    /\ detached' = With(detached, i, commitments[i])
    /\ UNCHANGED << shadow, done, excess >>

attachBid(i) ==
    /\ Op
    /\ i \in DOMAIN detached /\ i \notin DOMAIN commitments
    /\ commitments' = With(commitments, i, detached[i])
    /\ detached' = Without(detached, i)
    /\ UNCHANGED << shadow, done, excess >>

commitDetached(i, paid) ==
    /\ Op
    /\ i \in DOMAIN detached
    /\ Commit(detached[i], paid)
    /\ detached' = Without(detached, i)
    /\ UNCHANGED commitments

forceWinBid(paid) ==
    /\ Op
    /\ Commit(0, paid)
    /\ UNCHANGED << commitments, detached >>

----------------------------------------------------------------------------
(* The shadow's process and the master.  The process itself is not part of *)
(* the repository: what it sends and when follows from the flags and the   *)
(* comments of ShadowAccounts.                                             *)

\* The part of the master's Account the shadow reads.
getNetBudget(a) == a.budgetIncreases - a.budgetDecreases
                   + a.allocatedIn - a.allocatedOut
                   + a.recycledIn - a.recycledOut
                   + a.adjustmentsIn - a.adjustmentsOut

Budgets(accts) == [ status |-> accts[P!CC_USD][Account1].status,
                    net |-> [ c \in Codes |-> getNetBudget(accts[c][Account1]) ] ]

View(accts) == [ net |-> Budgets(accts).net,
                 counts |-> [ c \in Codes |-> [ f \in Counters |->
                                accts[c][Account1][f] ] ] ]

\* The CurrencyPool with the amounts v[c].
Pool(v) == P!fromJson({ P!Amount(c, v[c]) : c \in Codes })
Count(view, f) == Pool([ c \in Codes |-> view.counts[c][f] ])

\* createAccountAtomic returns true once, and the process asks the master.
createAccountAtomic ==
    /\ shadow.first
    /\ shadow' = [ shadow EXCEPT !.first = FALSE ]
    /\ creating' = TRUE
    /\ UNCHANGED << commitments, detached, base, done, created, reports, answers,
                    master, excess, bounds >>

\* isStalled: no answer came for a minute.
reinitializeStalledAccount ==
    /\ shadow.uninitialized /\ ~shadow.first
    /\ shadow' = [ shadow EXCEPT !.first = TRUE ]
    /\ UNCHANGED << commitments, detached, base, done, network, master, excess, bounds >>

\* Mutant: the counters of the master replace what was counted before.
MergedReplaced(s, view) ==
    LET made == Count(view, "commitmentsMade")
        retired == Count(view, "commitmentsRetired")
        spent == Count(view, "spent")
    IN  [ s EXCEPT
            !.netBudget = Pool(view.net),
            !.commitmentsMade = made, !.commitmentsRetired = retired, !.spent = spent,
            !.balance = P!MinusPool(P!MinusPool(
                            P!PlusPool(Pool(view.net), retired), made), spent),
            !.uninitialized = FALSE ]

Merged(s, view) ==
    LET made == P!PlusPool(s.commitmentsMade, Count(view, "commitmentsMade"))
        retired == P!PlusPool(s.commitmentsRetired, Count(view, "commitmentsRetired"))
        spent == P!PlusPool(s.spent, Count(view, "spent"))
    IN  [ s EXCEPT
            !.netBudget = Pool(view.net),
            !.commitmentsMade = made, !.commitmentsRetired = retired, !.spent = spent,
            !.balance = P!MinusPool(P!MinusPool(
                            P!PlusPool(Pool(view.net), retired), made), spent),
            !.uninitialized = FALSE ]

\* A second answer fails ExcAssert(a.uninitialized).
initializeAndMergeState(view) ==
    /\ view \in created
    /\ shadow.uninitialized /\ ShadowChecks(shadow)
    /\ shadow' = Merged(shadow, view)
    /\ base' = view.counts
    /\ UNCHANGED << commitments, detached, done, network, master, excess, bounds >>

\* A report is sent for accounts that are initialized and active
\* (forEachInitializedAndActiveAccount, ShadowAccount::toJson).
Sent(pool, c) == P!getAvailable(P!fromJson(P!toJson(pool)), c)
SendReport ==
    /\ ~shadow.uninitialized /\ shadow.status = "active"
    /\ ShadowChecks(shadow)
    /\ reports' = Sending(reports,
           [ c \in Codes |-> [ f \in Counters |-> Sent(shadow[f], c) ] ])
    /\ UNCHANGED << sides, creating, created, answers, master, excess, bounds >>

\* Mutant: the balance is the net budget less what was spent.
Refreshed(s, view) ==
    [ s EXCEPT !.netBudget = Pool(view.net),
               !.balance = P!MinusPool(Pool(view.net), s.spent),
               !.status = view.status ]

\* ShadowAccount::syncFromMaster
Synced(s, view) ==
    [ s EXCEPT !.netBudget = Pool(view.net),
               !.balance = P!MinusPool(P!MinusPool(
                               P!PlusPool(Pool(view.net), s.commitmentsRetired),
                               s.commitmentsMade), s.spent),
               !.status = view.status ]

syncFromMaster(view) ==
    /\ view \in answers
    /\ ~shadow.uninitialized /\ ShadowChecks(shadow)
    /\ shadow' = Synced(shadow, view)
    /\ UNCHANGED << commitments, detached, base, done, network, master, excess, bounds >>

\* The process ends, and a new one starts.
ShadowCrash ==
    /\ crashes < MaxCrashes
    /\ crashes' = crashes + 1
    /\ shadow' = NoShadow /\ commitments' = NoBids /\ detached' = NoBids
    /\ base' = NoCounts /\ done' = NoCounts
    /\ IF LateMessages THEN UNCHANGED network
       ELSE creating' = FALSE /\ created' = {} /\ reports' = {} /\ answers' = {}
    /\ UNCHANGED << master, excess, ops, balances >>

----------------------------------------------------------------------------
(* The master banker's handlers, on the accounts of every currency.        *)

Present == Account1 \in DOMAIN accounts[P!CC_USD]

\* What a step of the master takes from the net budget the shadow may use.
TakenBack(before, after) ==
    LET net(accts) == IF Account1 \in DOMAIN accts
                      THEN getNetBudget(accts[Account1]) ELSE 0
    IN  Excess(net(before), net(after))

MasterStep(accts) ==
    /\ accounts' = accts
    /\ excess' = excess + TakenBack(accounts[P!CC_USD], accts[P!CC_USD])
    /\ UNCHANGED << sides, saved, ops >>

\* POST /v1/accounts: the answer is what initializes the shadow.
create_account ==
    LET active(c) == reactivatePresentAccounts(accounts[c], Account1)
        after == [ c \in Codes |-> ensureAccount(active(c), Account1, "spend") ]
    IN
    /\ creating
    /\ MasterStep(after)
    /\ created' = Sending(created, View(after))
    /\ UNCHANGED << creating, reports, answers, balances, crashes >>

\* PUT /v1/accounts/<k>/shadow.  The assertions of syncToMaster must hold for
\* every currency.
shadowReport(r) ==
    LET known == IF Present THEN accounts
                 ELSE [ c \in Codes |-> ensureAccount(accounts[c], Account1, "spend") ]
        accepts == /\ known[P!CC_USD][Account1].status = "active"
                   /\ \A c \in Codes : ShadowIsNewer(r[c], known[c][Account1])
        after == IF accepts THEN [ c \in Codes |-> syncFromShadow(known[c], Account1, r[c]) ]
                 ELSE known
    IN
    /\ r \in reports
    /\ MasterStep(after)
    /\ answers' = IF accepts \/ known[P!CC_USD][Account1].status = "closed"
                  THEN Sending(answers, Budgets(after)) ELSE answers
    /\ UNCHANGED << creating, created, reports, balances, crashes >>

ForMaster == /\ balances < MaxBalances
             /\ balances' = balances + 1
             /\ UNCHANGED << network, crashes >>

\* PUT /v1/accounts/<k>/balance, in micro-dollars.
balance(newBalance) ==
    /\ ForMaster
    /\ Present
    /\ MasterStep([ c \in Codes |->
           setBalance(reactivatePresentAccounts(accounts[c], Account1), Account1,
                      IF c = P!CC_USD THEN newBalance ELSE 0) ])

\* GET /v1/accounts/<k>/close
close ==
    /\ ForMaster
    /\ Present
    /\ MasterStep([ c \in Codes |->
           closeOne(reactivatePresentAccounts(accounts[c], Account1), Account1) ])

Save == /\ saved' = accounts /\ crashes < MaxCrashes
        /\ UNCHANGED << sides, network, accounts, excess, bounds >>

\* Only accounts that are not archived are loaded.
MasterRestart ==
    /\ crashes < MaxCrashes
    /\ crashes' = crashes + 1
    /\ MasterStep([ c \in Codes |->
           LET members == { k \in DOMAIN saved[c] : saved[c][k].status = "active" } IN
           RestoredAccounts(members, [ k \in members |-> toJson(saved[c][k]) ]) ])
    /\ UNCHANGED << network, balances >>

Bid == \/ \E i \in Items : \/ \E a \in BidAmounts : authorizeBid(i, a)
                           \/ \E a \in PaidAmounts : commitBid(i, a) \/ commitDetached(i, a)
                           \/ cancelBid(i) \/ detachBid(i) \/ attachBid(i)
       \/ \E a \in PaidAmounts : forceWinBid(a)

Next == \/ Bid
        \/ createAccountAtomic \/ reinitializeStalledAccount
        \/ \E view \in created : initializeAndMergeState(view)
        \/ SendReport
        \/ \E view \in answers : syncFromMaster(view)
        \/ ShadowCrash
        \/ create_account
        \/ \E r \in reports : shadowReport(r)
        \/ \E b \in NewBalances : balance(b)
        \/ close \/ Save \/ MasterRestart

Spec == Init /\ [][Next]_vars

----------------------------------------------------------------------------
(* Properties.                                                             *)

ShadowPools == { shadow[f] : f \in Counters \cup {"netBudget", "balance"} }

\* The pools of the shadow are sorted with one amount per currency, bids have
\* amounts, and the master has accounts for every currency.
ShadowTypeOK ==
    /\ \A p \in ShadowPools : P!IsPool(p) /\ \A i \in DOMAIN p : p[i].code \in Codes
    /\ commitments \in [ DOMAIN commitments -> Nat ]
    /\ detached \in [ DOMAIN detached -> Nat ]
    /\ \A c \in Codes : IsAccountMap(accounts[c]) /\ IsAccountMap(saved[c])
    /\ excess \in Nat

\* The assertions of ShadowAccount::checkInvariants hold at all times, so no
\* operation throws and is lost, whatever views of the master come in.
ShadowChecksHold == ShadowChecks(shadow)

\* Every operation of this process counts once, whether it came before or
\* after the master's state was merged in (initializeAndMergeState: "the same
\* as if ... all operations had been replayed").
OperationsKept ==
    \A c \in Codes, f \in Counters :
        P!getAvailable(shadow[f], c) = base[c][f] + done[c][f]

\* The master never has more than the shadow of any counter, so a report of
\* the shadow's state is always accepted (the assertions of syncToMaster).
ReportAccepted ==
    ~shadow.uninitialized /\ Present =>
        \A c \in Codes : ShadowIsNewer([ f \in Counters |-> P!getAvailable(shadow[f], c) ],
                                       accounts[c][Account1])

\* The balance the master will arrive at when it gets the shadow's state.
FinalBalance ==
    LET count(f) == P!getAvailable(shadow[f], P!CC_USD) IN
    getNetBudget(accounts[P!CC_USD][Account1])
    + count("commitmentsRetired") - count("commitmentsMade") - count("spent")

\* The account can be overdrawn by no more than what was paid without being
\* authorized and what the master took back: money is never authorized twice,
\* however old the views are that the shadow works with.
OverdraftBounded ==
    ~shadow.uninitialized /\ Present => FinalBalance + excess >= 0

\* Each operator on pools acts on every currency alone, for the pools that
\* the shadow gets: one that may turn negative or zero, and one with amounts
\* in two currencies (CurrencyPool).
PoolsPointwise ==
    \A p, q \in { shadow.balance, shadow.spent } : P!ActsPointwise(p, q, Codes)

=============================================================================
