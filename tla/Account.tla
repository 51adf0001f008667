------------------------------ MODULE Account ------------------------------
(***************************************************************************)
(* An account of the master banker (src/src/banker/account.h and           *)
(* account.cpp) and the one- and two-sided operations on it, as pure       *)
(* operators on records.                                                   *)
(*                                                                         *)
(* A CurrencyPool is modelled for the one currency the REST handlers of    *)
(* the banker build ("USD/1M"), so a pool is an integer: 0 stands for the  *)
(* empty pool.  Amounts are 64-bit counts of micro-dollars in the code and *)
(* unbounded here.  The line items are extra information the source marks  *)
(* "not used in any calculations" and are left out.                        *)
(***************************************************************************)
EXTENDS Integers

AccountType == {"none", "budget", "spend"}
Status == {"active", "closed"}

(***************************************************************************)
(* The pools of struct Account: the credit side, the debit side, and the   *)
(* balance, which is the debit that makes the two sides equal.             *)
(***************************************************************************)
AmountFields == { "budgetIncreases", "budgetDecreases", "recycledIn",
                  "allocatedIn", "commitmentsRetired", "adjustmentsIn",
                  "recycledOut", "allocatedOut", "commitmentsMade",
                  "adjustmentsOut", "spent" }

AccountRecord ==
    [ type : AccountType, status : Status, balance : Int,
      budgetIncreases : Int, budgetDecreases : Int, recycledIn : Int,
      allocatedIn : Int, commitmentsRetired : Int, adjustmentsIn : Int,
      recycledOut : Int, allocatedOut : Int, commitmentsMade : Int,
      adjustmentsOut : Int, spent : Int ]

NewAccount(t) ==
    [ type |-> t, status |-> "active", balance |-> 0,
      budgetIncreases |-> 0, budgetDecreases |-> 0, recycledIn |-> 0,
      allocatedIn |-> 0, commitmentsRetired |-> 0, adjustmentsIn |-> 0,
      recycledOut |-> 0, allocatedOut |-> 0, commitmentsMade |-> 0,
      adjustmentsOut |-> 0, spent |-> 0 ]

----------------------------------------------------------------------------
(* CurrencyPool::nonNegative and ::limit on one-currency pools.  limit     *)
(* walks the entries of the amount asked for, hence the flag: without an   *)
(* entry the result is the empty pool, whatever is available.              *)

nonNegative(x) == IF x >= 0 THEN x ELSE 0

limit(available, asked, hasEntry) ==
    IF ~hasEntry THEN 0 ELSE IF available < asked THEN available ELSE asked

----------------------------------------------------------------------------
(* Account::checkInvariants: amounts are not negative, and the two sides   *)
(* are equal.                                                              *)

Credit(a) == a.budgetIncreases + a.recycledIn + a.commitmentsRetired
             + a.adjustmentsIn + a.allocatedIn

\* The debit side but for the balance.
Debit(a) == a.budgetDecreases + a.recycledOut + a.commitmentsMade + a.spent
            + a.adjustmentsOut + a.allocatedOut

Balanced(a) == Credit(a) = Debit(a) + a.balance

AmountsNonNegative(a) == \A f \in AmountFields : a[f] >= 0

checkInvariants(a) == AmountsNonNegative(a) /\ Balanced(a)

getRecycledAvail(a) == nonNegative(a.recycledIn - a.recycledOut)

----------------------------------------------------------------------------
(* setBudget changes a top-level account.  A reduction that the balance    *)
(* cannot cover is cut down to the balance.                                *)
setBudget(a, newBudget) ==
    LET totalBudget == a.budgetIncreases - a.budgetDecreases
        wanted      == newBudget - totalBudget
        extraBudget == IF a.balance + wanted >= 0 THEN wanted ELSE -a.balance
    IN  [ a EXCEPT
            !.budgetIncreases = @ + nonNegative(extraBudget),
            !.budgetDecreases = @ + nonNegative(-extraBudget),
            !.balance = @ + extraBudget,
            !.status = "active" ]

\* Mutant: the sign of the adjustment is not looked at.
addAdjustmentUnsplit(a, newAdjustment) ==
    [ a EXCEPT !.adjustmentsIn = @ + newAdjustment,
               !.balance = @ + newAdjustment ]

addAdjustment(a, newAdjustment) ==
    [ a EXCEPT
        !.adjustmentsIn = @ + nonNegative(newAdjustment),
        !.adjustmentsOut = @ + nonNegative(-newAdjustment),
        !.balance = @ + newAdjustment ]

(***************************************************************************)
(* setBalance moves money between an account and its parent.  toTransfer   *)
(* comes in, first from what the parent had recycled and then from its     *)
(* budget; requiredOut goes back.  newBalance - balance has an entry       *)
(* unless both are empty, and nonNegative() drops it when it is negative:  *)
(* that is the flag given to limit.                                        *)
(***************************************************************************)
Transfer(a, parent, newBalance) ==
    LET requiredTotal == newBalance - a.balance
        requiredIn    == nonNegative(requiredTotal)
        requiredOut   == requiredIn - requiredTotal
        hasEntry      == \/ requiredTotal > 0
                         \/ requiredTotal = 0 /\ newBalance # 0
        toTransfer    == limit(parent.balance, requiredIn, hasEntry)
        fromRecycled  == limit(getRecycledAvail(parent), toTransfer,
                               toTransfer # 0)
    IN  [ fromRecycled |-> fromRecycled,
          fromBudget   |-> toTransfer - fromRecycled,
          toRecycled   |-> requiredOut ]

\* Mutant: what is given back reduces the budget instead of being recycled.
TransferChildOutOfBudget(a, t) ==
    [ a EXCEPT
        !.recycledIn = @ + t.fromRecycled,
        !.budgetIncreases = @ + t.fromBudget - t.toRecycled,
        !.balance = @ + t.fromRecycled + t.fromBudget - t.toRecycled ]

\* The account's side of the transfer t ...
TransferChild(a, t) ==
    [ a EXCEPT
        !.recycledIn = @ + t.fromRecycled,
        !.budgetIncreases = @ + t.fromBudget,
        !.recycledOut = @ + t.toRecycled,
        !.balance = @ + (t.fromRecycled + t.fromBudget - t.toRecycled) ]

\* ... and its parent's.
TransferParent(p, t) ==
    [ p EXCEPT
        !.recycledOut = @ + t.fromRecycled,
        !.allocatedOut = @ + t.fromBudget,
        !.recycledIn = @ + t.toRecycled,
        !.balance = @ + (t.toRecycled - t.fromRecycled - t.fromBudget) ]

(* recuperateTo gives what is left in an account to its parent.            *)
RecuperateChild(a) ==
    [ a EXCEPT !.recycledOut = @ + nonNegative(a.balance),
               !.balance = @ - nonNegative(a.balance) ]

\* Mutant: the parent books the money as an allocation.
RecuperateParentAllocated(p, a) ==
    [ p EXCEPT !.allocatedIn = @ + nonNegative(a.balance),
               !.balance = @ + nonNegative(a.balance) ]

RecuperateParent(p, a) ==
    [ p EXCEPT !.recycledIn = @ + nonNegative(a.balance),
               !.balance = @ + nonNegative(a.balance) ]

----------------------------------------------------------------------------
(* The part of a shadow account the master reads.  Its own invariants are  *)
(* checked when it is parsed, so the amounts are not negative.             *)
ShadowRecord == [ commitmentsRetired : Nat, commitmentsMade : Nat, spent : Nat ]

\* The three assertions of syncToMaster: what the shadow counted never shrinks.
ShadowIsNewer(shadow, m) == /\ shadow.commitmentsMade >= m.commitmentsMade
                            /\ shadow.commitmentsRetired >= m.commitmentsRetired
                            /\ shadow.spent >= m.spent

\* Mutant: the spend reported is not taken from the balance.
syncToMasterSpendForgotten(shadow, m) ==
    [ m EXCEPT
        !.commitmentsRetired = shadow.commitmentsRetired,
        !.commitmentsMade = shadow.commitmentsMade,
        !.spent = shadow.spent,
        !.balance = @ + (shadow.commitmentsRetired - m.commitmentsRetired)
                      - (shadow.commitmentsMade - m.commitmentsMade) ]

\* Mutant: the shadow's spend is added to the master's.
syncToMasterAdded(shadow, m) ==
    [ m EXCEPT
        !.commitmentsRetired = shadow.commitmentsRetired,
        !.commitmentsMade = shadow.commitmentsMade,
        !.spent = @ + shadow.spent,
        !.balance = @ + ((shadow.commitmentsRetired - m.commitmentsRetired)
                         - (shadow.commitmentsMade - m.commitmentsMade)
                         - shadow.spent) ]

syncToMaster(shadow, m) ==
    [ m EXCEPT
        !.commitmentsRetired = shadow.commitmentsRetired,
        !.commitmentsMade = shadow.commitmentsMade,
        !.spent = shadow.spent,
        !.balance = @ + ((shadow.commitmentsRetired - m.commitmentsRetired)
                         - (shadow.commitmentsMade - m.commitmentsMade)
                         - (shadow.spent - m.spent)) ]

----------------------------------------------------------------------------
(* The stored form has every pool but the balance, which is cleared here   *)
(* and computed again from the others when the record is parsed.           *)
toJson(a) == [ a EXCEPT !.balance = 0 ]

fromJson(json) == [ json EXCEPT !.balance = Credit(json) - Debit(json) ]

(***************************************************************************)
(* isSameOrPastVersion compares the entries of the banker's pools with the *)
(* stored ones: a pool without an entry passes against any stored amount.  *)
(* A pool that never went down is without an entry exactly when it is 0.   *)
(***************************************************************************)
isSameOrPastVersion(a, stored) ==
    \A f \in AmountFields : a[f] = 0 \/ a[f] >= stored[f]

============================================================================
