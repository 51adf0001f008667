---------------------- MODULE InterAccountConsistency ----------------------
(***************************************************************************)
(* The consistency checks between an account and the accounts below it     *)
(* (Accounts::checkBudgetConsistencyImpl and ::getRecycledUp of            *)
(* src/src/banker/account.cpp), which on_redis_loaded runs over what it    *)
(* loaded.  They are recursive over the tree of accounts.                  *)
(***************************************************************************)
EXTENDS MasterBanker

\* Whether the budgets of an account and of everything below it are consistent.
checkBudgetConsistency(accts) ==
    LET consistent[k \in DOMAIN accts] ==
          LET children == Children(accts, k) IN
          /\ accts[k].allocatedOut =
               SumFunction([ c \in children |-> accts[c].budgetIncreases ])
          /\ \A c \in children : consistent[c]
    IN  consistent

(***************************************************************************)
(* What an account exchanged with its parent: its recycled amounts less    *)
(* the part that its children gave to it or took from it.                  *)
(***************************************************************************)
getRecycledUp(accts) ==
    LET recycledUp[k \in DOMAIN accts] ==
          LET children == Children(accts, k) IN
          [ in  |-> accts[k].recycledIn
                    - SumFunction([ c \in children |-> recycledUp[c].out ]),
            out |-> accts[k].recycledOut
                    - SumFunction([ c \in children |-> recycledUp[c].in ]) ]
    IN  recycledUp

ensureInterAccountConsistency(accts) ==
    \A k \in DOMAIN accts : Len(k) = 1 =>
        /\ checkBudgetConsistency(accts)[k]
        /\ getRecycledUp(accts)[k] = [ in |-> 0, out |-> 0 ]

(***************************************************************************)
(* Until a restart leaves archived accounts behind, no transfer creates or *)
(* loses money: what an account allocated is what its children received,   *)
(* and the recycled amounts of a whole tree cancel out.  Holds at every    *)
(* step, in the middle of a close too.                                     *)
(***************************************************************************)
TransfersConsistent == FirstProcess => ensureInterAccountConsistency(accounts)

(***************************************************************************)
(* The same of the records in redis, archived ones included: what a save   *)
(* writes, whole or given up, has both halves of every transfer, wherever  *)
(* in the requests and between the accounts of a close it was started.     *)
(* That is so for signals that arrive between two transfers.  One that     *)
(* arrives inside a transfer saves half of it: see MasterBankerAssignments *)
(* and its TornSignal.                                                     *)
(***************************************************************************)
StoredTransfersConsistent ==
    FirstProcess => ensureInterAccountConsistency(records)

============================================================================
