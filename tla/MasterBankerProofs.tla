------------------------- MODULE MasterBankerProofs -------------------------
(***************************************************************************)
(* Proofs about the master banker for every set of keys, every set of      *)
(* amounts, and any number of requests, restarts and errors.               *)
(*                                                                         *)
(* TypeOK and the safety invariants are not inductive by themselves.  The  *)
(* inductive invariant IInv adds                                           *)
(*  - that every ancestor, not only the parent, is there (ensureAccount    *)
(*    stops at the first account present and relies on the rest);          *)
(*  - that the frames of closeAccountImpl name accounts that are there,    *)
(*    and that a process that is down has none;                            *)
(*  - that the commands of a save are the ones that the records, which     *)
(*    only this save may change, call for.                                 *)
(***************************************************************************)
EXTENDS MasterBanker, AccountsProofs, SequenceTheorems

FramesPresent == \A i \in 1 .. Len(closing) :
                    /\ closing[i].key \in DOMAIN accounts
                    /\ closing[i].todo \subseteq DOMAIN accounts

DownHasNoFrame == up = "down" => closing = <<>>

CommandsMatch == save.phase = "exec" => save.cmds = storeCommands(save.toSave)

IInv == /\ TypeOK
        /\ BooksBalance
        /\ AncestorsPresent(accounts)
        /\ FramesPresent
        /\ DownHasNoFrame
        /\ CommandsMatch
        /\ StoredInOneSet

(* The part of IInv about the accounts in memory.                          *)
LEMMA IInvGoodMap == IInv => GoodMap(accounts)
  BY DEF IInv, TypeOK, BooksBalance, GoodMap, AllBalanced

(* The empty map is good.                                                  *)
LEMMA NoAccountsGood == GoodMap(NoAccounts) /\ AllAmountsNonNegative(NoAccounts)
  BY DEF NoAccounts, GoodMap, IsAccountMap, AllBalanced, AncestorsPresent,
         AllAmountsNonNegative

----------------------------------------------------------------------------
(* The handlers: each leaves a good map, in the sense of StepOK.           *)

(* An adjustment request changes one account, after a reactivation.        *)
LEMMA AdjustmentStep ==
    ASSUME GoodMap(accounts), NEW k \in Keys, NEW v \in Int, adjustment(k, v)
    PROVE  StepOK(accounts, accounts')
<1> DEFINE active == reactivatePresentAccounts(accounts, k)
           b == addAdjustment(active[k], v)
<1>1. /\ GoodMap(active)
      /\ AllAmountsNonNegative(accounts) => AllAmountsNonNegative(active)
  BY ReactivateStep
<1>2. accounts' = IF k \in DOMAIN active
                  THEN [ active EXCEPT ![k] = b ] ELSE active
  BY DEF adjustment
<1> HIDE DEF active
<1>3. ASSUME k \in DOMAIN active
      PROVE  /\ GoodMap([ active EXCEPT ![k] = b ])
             /\ AllAmountsNonNegative(active) =>
                  AllAmountsNonNegative([ active EXCEPT ![k] = b ])
  <2>1. active[k] \in AccountRecord
    BY <1>1, <1>3, MapElement DEF GoodMap
  <2>2. /\ b \in AccountRecord /\ b.type = active[k].type
        /\ Balanced(active[k]) => Balanced(b)
        /\ AmountsNonNegative(active[k]) => AmountsNonNegative(b)
    BY <2>1, AddAdjustmentOK
  <2> HIDE DEF b
  <2> QED
    BY <1>1, <1>3, <2>2, UpdateStep
<1> HIDE DEF b
<1> QED
  BY <1>1, <1>2, <1>3 DEF StepOK

(* A balance request, which may create the account it transfers to.        *)
LEMMA BalanceStep ==
    ASSUME GoodMap(accounts), NEW k \in Keys, NEW v \in Int,
           NEW t \in AccountType, balance(k, v, t)
    PROVE  StepOK(accounts, accounts')
<1> DEFINE active == reactivatePresentAccounts(accounts, k)
           ensured == ensureAccount(active, k, t)
<1>1. /\ GoodMap(active)
      /\ AllAmountsNonNegative(accounts) => AllAmountsNonNegative(active)
      /\ NoOverdraft(accounts) => NoOverdraft(active)
  BY ReactivateStep
<1>2. \/ accounts' = active
      \/ accounts' = setBalance(active, k, v)
      \/ CanEnsure(active, k, t) /\ accounts' = setBalance(ensured, k, v)
  BY DEF balance
<1> HIDE DEF active
<1>3. CanEnsure(active, k, t) =>
        /\ GoodMap(ensured)
        /\ AllAmountsNonNegative(active) => AllAmountsNonNegative(ensured)
        /\ NoOverdraft(active) => NoOverdraft(ensured)
  BY <1>1, EnsureAccountOK, EnsureNoOverdraft
<1> HIDE DEF ensured
<1>4. StepOK(active, setBalance(active, k, v))
  BY <1>1, SetBalanceStep
<1>5. GoodMap(ensured) => StepOK(ensured, setBalance(ensured, k, v))
  BY SetBalanceStep
<1> QED
  BY <1>1, <1>2, <1>3, <1>4, <1>5 DEF StepOK

(* A shadow request, which may create the spend account it reports.        *)
LEMMA ShadowStep ==
    ASSUME GoodMap(accounts), NEW k \in Keys, NEW s \in ShadowRecord,
           shadow(k, s)
    PROVE  StepOK(accounts, accounts')
<1> DEFINE ensured == ensureAccount(accounts, k, "spend")
<1>1. \/ accounts' = accounts
      \/ accounts' = syncFromShadow(accounts, k, s)
      \/ /\ CanEnsure(accounts, k, "spend")
         /\ accounts' = syncFromShadow(ensured, k, s)
  BY DEF shadow
<1>2. CanEnsure(accounts, k, "spend") =>
        /\ GoodMap(ensured)
        /\ AllAmountsNonNegative(accounts) => AllAmountsNonNegative(ensured)
        /\ NoOverdraft(accounts) => NoOverdraft(ensured)
  BY EnsureAccountOK, EnsureNoOverdraft DEF AccountType
<1> HIDE DEF ensured
<1>3. StepOK(accounts, syncFromShadow(accounts, k, s))
  BY SyncFromShadowStep
<1>4. GoodMap(ensured) => StepOK(ensured, syncFromShadow(ensured, k, s))
  BY SyncFromShadowStep
<1> QED
  BY <1>1, <1>2, <1>3, <1>4 DEF StepOK

(* A budget request on a top-level account.                                *)
LEMMA BudgetStep ==
    ASSUME GoodMap(accounts), NEW k \in Keys, NEW v \in Int, budget(k, v)
    PROVE  StepOK(accounts, accounts')
<1> DEFINE active == reactivatePresentAccounts(accounts, k)
           ensured == ensureAccount(active, k, "budget")
           b == setBudget(ensured[k], v)
<1>1. /\ GoodMap(active)
      /\ AllAmountsNonNegative(accounts) => AllAmountsNonNegative(active)
  BY ReactivateStep
<1>2. \/ accounts' = active
      \/ /\ CanEnsure(active, k, "budget")
         /\ accounts' = [ ensured EXCEPT ![k] = b ]
  BY DEF budget
<1> HIDE DEF active
<1>3. ASSUME CanEnsure(active, k, "budget")
      PROVE  /\ GoodMap([ ensured EXCEPT ![k] = b ])
             /\ AllAmountsNonNegative(active) =>
                  AllAmountsNonNegative([ ensured EXCEPT ![k] = b ])
  <2>1. /\ GoodMap(ensured) /\ k \in DOMAIN ensured
        /\ AllAmountsNonNegative(active) => AllAmountsNonNegative(ensured)
    BY <1>1, <1>3, EnsureAccountOK DEF AccountType
  <2> HIDE DEF ensured
  <2>2. ensured[k] \in AccountRecord
    BY <2>1, MapElement DEF GoodMap
  <2>3. /\ b \in AccountRecord /\ b.type = ensured[k].type
        /\ Balanced(ensured[k]) => Balanced(b)
        /\ AmountsNonNegative(ensured[k]) => AmountsNonNegative(b)
    BY <2>2, SetBudgetOK
  <2> HIDE DEF b
  <2> QED
    BY <2>1, <2>3, UpdateStep
<1> HIDE DEF ensured, b
<1> QED
  BY <1>1, <1>2, <1>3 DEF StepOK

(* A request that creates an account.                                      *)
LEMMA CreateAccountStep ==
    ASSUME GoodMap(accounts), NEW k \in Keys, NEW t \in AccountType,
           create_account(k, t)
    PROVE  StepOK(accounts, accounts')
<1> DEFINE active == reactivatePresentAccounts(accounts, k)
<1>1. /\ GoodMap(active)
      /\ AllAmountsNonNegative(accounts) => AllAmountsNonNegative(active)
  BY ReactivateStep
<1>2. \/ accounts' = active
      \/ CanEnsure(active, k, t) /\ accounts' = ensureAccount(active, k, t)
  BY DEF create_account
<1> HIDE DEF active
<1> QED
  BY <1>1, <1>2, EnsureAccountOK DEF StepOK

(* The beginning of a close: a reactivation and the first frame.           *)
LEMMA CloseStep ==
    ASSUME GoodMap(accounts), NEW k \in Keys, close(k)
    PROVE  /\ StepOK(accounts, accounts')
           /\ closing' \in Seq(Frame)
           /\ FramesPresent'
<1> DEFINE active == reactivatePresentAccounts(accounts, k)
           f == [ key |-> k, todo |-> Children(active, k) ]
<1>1. /\ GoodMap(active)
      /\ AllAmountsNonNegative(accounts) => AllAmountsNonNegative(active)
  BY ReactivateStep
<1>2. /\ accounts' = active
      /\ closing' = IF k \in DOMAIN active THEN << f >> ELSE <<>>
  BY DEF close
<1> HIDE DEF active
<1>3. Children(active, k) \subseteq DOMAIN active /\ DOMAIN active \subseteq Keys
  BY <1>1 DEF Children, GoodMap, IsAccountMap
<1>4. StepOK(accounts, accounts')
  BY <1>1, <1>2 DEF StepOK
<1>5. f \in Frame
  BY <1>3 DEF Frame
<1>6. closing' \in Seq(Frame)
  BY <1>2, <1>5
<1>7. FramesPresent'
  BY <1>2, <1>3 DEF FramesPresent
<1> QED
  BY <1>4, <1>6, <1>7

----------------------------------------------------------------------------
(* The recursion of a close.                                               *)

(* A stack without its last frame.                                         *)
LEMMA FrontSeq ==
    ASSUME NEW S, NEW s \in Seq(S), Len(s) >= 1
    PROVE  /\ Front(s) \in Seq(S)
           /\ Len(Front(s)) = Len(s) - 1
           /\ \A i \in 1 .. Len(s) - 1 : Front(s)[i] = s[i]
<1>1. Len(s) \in Nat /\ Len(s) - 1 \in Nat
  BY LenProperties
<1> DEFINE n == Len(s) - 1
           front == SubSeq(s, 1, n)
<1>2. \A i \in 1 .. n : s[i] \in S
  BY <1>1, ElementOfSeq
<1>3. /\ front \in Seq(S)
      /\ Len(front) = IF 1 <= n THEN n - 1 + 1 ELSE 0
      /\ \A i \in 1 .. n - 1 + 1 : front[i] = s[1 + i - 1]
  BY <1>1, <1>2, SubSeqProperties
<1>4. Front(s) = front /\ n \in Nat
  BY <1>1 DEF Front
<1> HIDE DEF front, n
<1>5. Len(front) = n
  BY <1>3, <1>4
<1>6. \A i \in 1 .. n : front[i] = s[i]
  <2>1. ASSUME NEW i \in 1 .. n
        PROVE  i \in 1 .. n - 1 + 1 /\ 1 + i - 1 = i
    BY <1>4
  <2> QED
    BY <1>3, <2>1
<1> QED
  BY <1>3, <1>4, <1>5, <1>6 DEF n

(* A frame whose loop has one child less to visit.                         *)
LEMMA FrameWithout ==
    ASSUME NEW f \in Frame, NEW c
    PROVE  /\ [ f EXCEPT !.todo = @ \ {c} ] \in Frame
           /\ [ f EXCEPT !.todo = @ \ {c} ].key = f.key
           /\ [ f EXCEPT !.todo = @ \ {c} ].todo \subseteq f.todo
  BY DEF Frame

(* The innermost frame.                                                    *)
LEMMA LastFrame ==
    ASSUME closing \in Seq(Frame), FramesPresent, closing # <<>>
    PROVE  /\ Len(closing) \in Nat /\ Len(closing) >= 1
           /\ Last(closing) = closing[Len(closing)]
           /\ Last(closing) \in Frame
           /\ Last(closing).key \in DOMAIN accounts
           /\ Last(closing).todo \subseteq DOMAIN accounts
<1>1. Len(closing) \in Nat /\ Len(closing) # 0
  BY EmptySeq
<1>2. Len(closing) \in 1 .. Len(closing)
  BY <1>1
<1>3. closing[Len(closing)] \in Frame
  BY <1>2, ElementOfSeq
<1> QED
  BY <1>1, <1>2, <1>3 DEF Last, FramesPresent

(* Visiting a child keeps the frames' keys among the accounts.             *)
LEMMA CloseChildStep ==
    ASSUME IInv, CloseChild
    PROVE  closing' \in Seq(Frame) /\ FramesPresent'
<1>1. /\ closing \in Seq(Frame) /\ FramesPresent /\ closing # <<>>
      /\ DOMAIN accounts \subseteq Keys /\ accounts' = accounts
  BY DEF IInv, TypeOK, IsAccountMap, CloseChild
<1> DEFINE n == Len(closing)
           f == closing[n]
           rest(c) == [ closing EXCEPT ![n].todo = @ \ {c} ]
           child(c) == [ key |-> c, todo |-> Children(accounts, c) ]
<1>2. /\ n \in Nat /\ n >= 1 /\ Last(closing) = f /\ f \in Frame
      /\ f.key \in DOMAIN accounts /\ f.todo \subseteq DOMAIN accounts
  BY <1>1, LastFrame
<1>3. PICK c \in f.todo : closing' = IF accounts[c].status = "closed" THEN rest(c)
                                     ELSE Append(rest(c), child(c))
  BY <1>2 DEF CloseChild
<1> DEFINE g == [ f EXCEPT !.todo = @ \ {c} ]
           r == rest(c)
<1> HIDE DEF f
<1>4. g \in Frame /\ g.key = f.key /\ g.todo \subseteq f.todo
  BY <1>2, FrameWithout
<1>5. r = [ closing EXCEPT ![n] = g ]
  BY DEF f
<1> HIDE DEF g, r
<1>6. /\ r \in Seq(Frame) /\ Len(r) = n
      /\ r[n] = g /\ \A i \in 1 .. n : i # n => r[i] = closing[i]
  BY <1>1, <1>2, <1>4, <1>5
<1>7. \A i \in 1 .. n : r[i].key \in DOMAIN accounts
                        /\ r[i].todo \subseteq DOMAIN accounts
  BY <1>1, <1>2, <1>4, <1>6 DEF FramesPresent
<1>8. /\ c \in DOMAIN accounts
      /\ child(c) \in Frame /\ child(c).key = c
      /\ child(c).todo \subseteq DOMAIN accounts
  BY <1>1, <1>2 DEF Frame, Children
<1> HIDE DEF child
<1>9. closing' = r \/ closing' = Append(r, child(c))
  BY <1>3 DEF r
<1>10. CASE closing' = r
  BY <1>1, <1>6, <1>7, <1>10 DEF FramesPresent
<1>11. CASE closing' = Append(r, child(c))
  <2> DEFINE a == Append(r, child(c))
  <2>1. /\ a \in Seq(Frame) /\ Len(a) = n + 1
        /\ \A i \in 1 .. n : a[i] = r[i]
        /\ a[n + 1] = child(c)
    BY <1>2, <1>6, <1>8, AppendProperties
  <2> HIDE DEF a
  <2>2. \A i \in 1 .. Len(a) : a[i].key \in DOMAIN accounts
                               /\ a[i].todo \subseteq DOMAIN accounts
    BY <1>2, <1>7, <1>8, <2>1
  <2>3. closing' = a
    BY <1>11 DEF a
  <2> QED
    BY <1>1, <2>1, <2>2, <2>3 DEF FramesPresent
<1> QED
  BY <1>9, <1>10, <1>11

(* Closing the account of the innermost frame, or failing to.              *)
LEMMA CloseSelfStep ==
    ASSUME IInv, CloseSelf
    PROVE  /\ StepOK(accounts, accounts')
           /\ closing' \in Seq(Frame)
           /\ FramesPresent'
<1>1. closing \in Seq(Frame) /\ FramesPresent /\ closing # <<>>
  BY DEF IInv, TypeOK, CloseSelf
<1> DEFINE k == Last(closing).key
<1>2. k \in DOMAIN accounts /\ Len(closing) \in Nat /\ Len(closing) >= 1
  BY <1>1, LastFrame
<1>3. /\ accounts' = closeOne(accounts, k)
      /\ closing' = <<>> \/ closing' = Front(closing)
  BY DEF CloseSelf
<1> HIDE DEF k
<1>4. /\ Keeps(accounts, accounts')
      /\ AllAmountsNonNegative(accounts) => AllAmountsNonNegative(accounts')
  BY <1>2, <1>3, IInvGoodMap, CloseOneOK
<1>5. StepOK(accounts, accounts')
  BY <1>4, IInvGoodMap, KeepsGood DEF StepOK
<1>6. DOMAIN accounts' = DOMAIN accounts
  BY <1>4 DEF Keeps
<1>7. CASE closing' = <<>>
  BY <1>5, <1>7 DEF FramesPresent
<1>8. CASE closing' = Front(closing)
  <2> DEFINE n == Len(closing) - 1
  <2>1. /\ closing' \in Seq(Frame) /\ Len(closing') = n
        /\ \A i \in 1 .. n : closing'[i] = closing[i]
    BY <1>1, <1>2, <1>8, FrontSeq
  <2>2. FramesPresent'
    BY <1>1, <1>2, <1>6, <2>1 DEF FramesPresent
  <2> QED
    BY <1>5, <2>1, <2>2
<1> QED
  BY <1>3, <1>7, <1>8

----------------------------------------------------------------------------
(* Saving.                                                                 *)

(* The parts of IInv about a save, which say nothing of one that is over.  *)
SaveOK == /\ save = [ phase |-> save.phase, toSave |-> save.toSave,
                      cmds |-> save.cmds ]
          /\ save.phase \in {"idle", "fetch", "exec"}
          /\ IsAccountMap(save.toSave)
          /\ AllBalanced(save.toSave)
          /\ save.cmds \in Commands
          /\ CommandsMatch

(* No save is going on.                                                    *)
LEMMA SaveIdle ==
    ASSUME save' = NotPersisting
    PROVE  SaveOK'
<1>1. IsAccountMap(NoAccounts) /\ AllBalanced(NoAccounts)
  BY DEF NoAccounts, IsAccountMap, AllBalanced
<1>2. NoCommands \in Commands
  BY DEF NoCommands, Commands
<1> QED
  BY <1>1, <1>2 DEF SaveOK, NotPersisting, CommandsMatch

(* A save begins with a copy of the accounts, and without commands.        *)
LEMMA SaveBegins ==
    ASSUME GoodMap(accounts), save' = Persisting(accounts)
    PROVE  SaveOK'
<1>1. NoCommands \in Commands
  BY DEF NoCommands, Commands
<1> QED
  BY <1>1 DEF SaveOK, Persisting, CommandsMatch, GoodMap

(* What storeCommands computes: missing accounts are added, and only       *)
(* stored accounts move between the sets.                                  *)
LEMMA StoreCommandsOK ==
    ASSUME NEW toSave, IsAccountMap(toSave)
    PROVE  LET cmds == storeCommands(toSave) IN
           /\ cmds \in Commands
           /\ cmds.set \subseteq DOMAIN toSave
           /\ cmds.sadd = cmds.set \ DOMAIN records
           /\ cmds.toArchive \subseteq DOMAIN records
           /\ cmds.toAccounts \subseteq DOMAIN records
<1>1. DOMAIN toSave \subseteq Keys
  BY DEF IsAccountMap
<1> QED
  BY <1>1 DEF storeCommands, Commands, Stored

(* Phase 1 goes on with the commands its records call for, or gives up.    *)
LEMMA Phase1Step ==
    ASSUME SaveOK, onPhase1Result
    PROVE  SaveOK'
<1> DEFINE cmds == storeCommands(save.toSave)
<1>1. cmds \in Commands
  BY StoreCommandsOK DEF SaveOK
<1>2. /\ \/ save' = NotPersisting
         \/ save' = [ save EXCEPT !.phase = "exec", !.cmds = cmds ]
      /\ records' = records
  BY DEF onPhase1Result, redis
<1>3. CASE save' = NotPersisting
  BY <1>3, SaveIdle
<1>4. CASE save' = [ save EXCEPT !.phase = "exec", !.cmds = cmds ]
  <2> HIDE DEF cmds
  <2>1. save' = [ phase |-> "exec", toSave |-> save.toSave, cmds |-> cmds ]
    BY <1>4 DEF SaveOK
  <2>2. save'.phase = "exec" /\ save'.toSave = save.toSave /\ save'.cmds = cmds
    BY <2>1
  <2>3. storeCommands(save.toSave)' = cmds
    BY <1>2, <2>2 DEF storeCommands, Stored, cmds
  <2> QED
    BY <1>1, <2>1, <2>2, <2>3 DEF SaveOK, CommandsMatch
<1> QED
  BY <1>2, <1>3, <1>4

(* EXEC keeps the records well typed and every record in one set.          *)
LEMMA ExecStep ==
    ASSUME IInv, Exec
    PROVE  /\ IsAccountMap(records')
           /\ members' \in SUBSET Keys /\ archive' \in SUBSET Keys
           /\ StoredInOneSet'
<1> DEFINE cmds == save.cmds
           new == [ k \in DOMAIN records \cup cmds.set |->
                      IF k \in cmds.set THEN toJson(save.toSave[k])
                      ELSE records[k] ]
<1>1. IsAccountMap(save.toSave) /\ IsAccountMap(records) /\ StoredInOneSet
  BY DEF IInv, TypeOK
<1>2. save.cmds = storeCommands(save.toSave)
  BY DEF IInv, CommandsMatch, Exec
<1>3. /\ cmds.set \subseteq DOMAIN save.toSave
      /\ cmds.sadd = cmds.set \ DOMAIN records
      /\ cmds.toArchive \subseteq DOMAIN records
      /\ cmds.toAccounts \subseteq DOMAIN records
  BY <1>1, <1>2, StoreCommandsOK
<1>4. /\ records' = new
      /\ members' = (members \ cmds.toArchive) \cup cmds.sadd
                    \cup (cmds.toAccounts \cap archive)
      /\ archive' = (archive \ cmds.toAccounts)
                    \cup (cmds.toArchive \cap members)
  BY DEF Exec
<1> HIDE DEF cmds
<1>5. /\ \A k \in DOMAIN save.toSave : toJson(save.toSave[k]) \in AccountRecord
      /\ \A k \in DOMAIN records : records[k] \in AccountRecord
  BY <1>1, MapElement, JsonOK
<1>6. \A k \in DOMAIN new : new[k] \in AccountRecord
  BY <1>3, <1>5
<1>7. DOMAIN new \subseteq Keys
  BY <1>1, <1>3 DEF IsAccountMap
<1>8. IsAccountMap(new)
  BY <1>6, <1>7 DEF IsAccountMap
<1>9. DOMAIN records' = DOMAIN records \cup cmds.set
  BY <1>4
<1> HIDE DEF new
<1>10. members \cup archive = DOMAIN records /\ members \cap archive = {}
  BY <1>1 DEF StoredInOneSet
<1>11. /\ members' \cup archive' = DOMAIN records'
       /\ members' \cap archive' = {}
  BY <1>3, <1>4, <1>9, <1>10
<1>12. DOMAIN records' \subseteq Keys
  BY <1>4, <1>7
<1> QED
  BY <1>4, <1>8, <1>11, <1>12 DEF StoredInOneSet

(* A process that starts has loaded a good map.                            *)
LEMMA StartStep ==
    ASSUME IInv, Start
    PROVE  StepOK(accounts, accounts')
<1>1. IsAccountMap(records)
  BY DEF IInv, TypeOK
<1>2. CASE members \subseteq DOMAIN records
  <2>1. /\ CanRestore(members, records)
        /\ accounts' = RestoredAccounts(members, records)
    BY <1>2 DEF Start
  <2> QED
    BY <1>1, <1>2, <2>1, RestoredAccountsOK DEF StepOK
<1>3. CASE ~(members \subseteq DOMAIN records)
  <2>1. accounts' = NoAccounts
    BY <1>3 DEF Start
  <2> QED
    BY <2>1, NoAccountsGood DEF StepOK
<1> QED
  BY <1>2, <1>3

----------------------------------------------------------------------------
(* The parts of IInv that a step can disturb: the account map, the frames, *)
(* the save and the records.                                               *)
Rest == /\ up \in {"down", "running", "stopping"}
        /\ requests \in Nat /\ restarts \in Nat /\ errors \in Nat
        /\ DownHasNoFrame

Frames == closing \in Seq(Frame) /\ FramesPresent

Redis == /\ IsAccountMap(records)
         /\ members \in SUBSET Keys /\ archive \in SUBSET Keys
         /\ StoredInOneSet

(* IInv is the conjunction of these parts.                                 *)
LEMMA IInvParts ==
    IInv <=> GoodMap(accounts) /\ Frames /\ SaveOK /\ Redis /\ Rest
  BY DEF IInv, TypeOK, BooksBalance, GoodMap, AllBalanced, Frames, SaveOK,
         Redis, Rest

(* The initial state, an empty database and no process, satisfies IInv.    *)
LEMMA InitIInv == Init => IInv
<1> SUFFICES ASSUME Init PROVE IInv
  OBVIOUS
<1>1. GoodMap(accounts)
  BY NoAccountsGood DEF Init
<1>2. closing = <<>> /\ save = NotPersisting
  BY DEF Init
<1>3. Frames
  BY <1>2 DEF Frames, FramesPresent
<1>4. SaveOK
  <2>1. IsAccountMap(NoAccounts) /\ AllBalanced(NoAccounts)
    BY NoAccountsGood DEF GoodMap
  <2>2. NoCommands \in Commands
    BY DEF NoCommands, Commands
  <2> QED
    BY <1>2, <2>1, <2>2 DEF SaveOK, NotPersisting, CommandsMatch
<1>5. Redis
  <2>1. DOMAIN NoAccounts = {} /\ IsAccountMap(NoAccounts)
    BY NoAccountsGood DEF NoAccounts, GoodMap
  <2> QED
    BY <2>1 DEF Init, Redis, StoredInOneSet
<1>6. Rest
  BY DEF Init, Rest, DownHasNoFrame
<1> QED
  BY <1>1, <1>3, <1>4, <1>5, <1>6, IInvParts

(* What a request does: one of the handlers runs to its end, or a close    *)
(* begins.                                                                 *)
LEMMA HandlerStep ==
    ASSUME IInv, Handler
    PROVE  /\ StepOK(accounts, accounts')
           /\ Frames'
           /\ UNCHANGED << save, redis >>
           /\ Rest'
<1>1. GoodMap(accounts)
  BY IInvGoodMap
<1>2. PICK k \in Keys :
        \/ \E v \in Adjustments : adjustment(k, v)
        \/ \E v \in Balances, t \in AccountType : balance(k, v, t)
        \/ k \in ShadowKeys /\ \E s \in Shadows : shadow(k, s)
        \/ \E v \in Budgets : budget(k, v)
        \/ \E t \in AccountType : create_account(k, t)
        \/ close(k)
  BY DEF Handler
<1>3. Request
  BY <1>2 DEF adjustment, balance, shadow, budget, create_account, close
<1>4. UNCHANGED << save, redis >> /\ Rest'
  BY <1>3 DEF Request, Rest, DownHasNoFrame, IInv, TypeOK
<1>5. closing = <<>>
  BY <1>3 DEF Request
<1>6. closing' = <<>> => Frames'
  BY DEF Frames, FramesPresent
<1>7. CASE \E v \in Adjustments : adjustment(k, v)
  BY <1>1, <1>4, <1>5, <1>6, <1>7, AdjustmentStep, InputsAssumption DEF adjustment
<1>8. CASE \E v \in Balances, t \in AccountType : balance(k, v, t)
  BY <1>1, <1>4, <1>5, <1>6, <1>8, BalanceStep, InputsAssumption DEF balance
<1>9. CASE k \in ShadowKeys /\ \E s \in Shadows : shadow(k, s)
  BY <1>1, <1>4, <1>5, <1>6, <1>9, ShadowStep, InputsAssumption DEF shadow
<1>10. CASE \E v \in Budgets : budget(k, v)
  BY <1>1, <1>4, <1>5, <1>6, <1>10, BudgetStep, InputsAssumption DEF budget
<1>11. CASE \E t \in AccountType : create_account(k, t)
  BY <1>1, <1>4, <1>5, <1>6, <1>11, CreateAccountStep DEF create_account
<1>12. CASE close(k)
  BY <1>1, <1>4, <1>12, CloseStep DEF Frames
<1> QED
  BY <1>2, <1>7, <1>8, <1>9, <1>10, <1>11, <1>12

(* A step that leaves the save and the records alone keeps the parts about *)
(* them.                                                                   *)
LEMMA SaveUnchanged ==
    ASSUME SaveOK, UNCHANGED << save, records >>
    PROVE  SaveOK'
<1>1. storeCommands(save.toSave)' = storeCommands(save.toSave)
  BY DEF storeCommands, Stored
<1> QED
  BY <1>1 DEF SaveOK, CommandsMatch

(* Nor does a step that leaves redis alone disturb its part.               *)
LEMMA RedisUnchanged ==
    ASSUME Redis, UNCHANGED redis
    PROVE  Redis'
  BY DEF Redis, redis, StoredInOneSet

(* The frames depend on the stack and on the accounts.                     *)
LEMMA FramesUnchanged ==
    ASSUME Frames, UNCHANGED << closing, accounts >>
    PROVE  Frames'
  BY DEF Frames, FramesPresent

(* Every step keeps IInv, and keeps the amounts non-negative unless a      *)
(* budget account was overdrawn before it.                                 *)
LEMMA NextIInv ==
    ASSUME IInv, [Next]_vars
    PROVE  IInv' /\ StepOK(accounts, accounts')
<1>1. GoodMap(accounts) /\ Frames /\ SaveOK /\ Redis /\ Rest
  BY IInvParts
<1>2. SUFFICES StepOK(accounts, accounts') /\ Frames' /\ SaveOK' /\ Redis' /\ Rest'
  <2>1. IInv' <=> GoodMap(accounts)' /\ Frames' /\ SaveOK' /\ Redis' /\ Rest'
    BY IInvParts, PTL
  <2> QED
    BY <2>1 DEF StepOK
<1>3. accounts' = accounts => StepOK(accounts, accounts')
  BY <1>1 DEF StepOK
<1>4. CASE Handler
  <2>1. StepOK(accounts, accounts') /\ Frames' /\ UNCHANGED << save, redis >> /\ Rest'
    BY <1>4, HandlerStep
  <2>2. SaveOK'
    BY <1>1, <2>1, SaveUnchanged DEF redis
  <2>3. Redis'
    BY <1>1, <2>1, RedisUnchanged
  <2> QED
    BY <2>1, <2>2, <2>3
<1>5. CASE CloseChild
  <2>1. UNCHANGED << up, accounts, save, redis, requests, restarts, errors >>
        /\ closing # <<>>
    BY <1>5 DEF CloseChild
  <2>2. Frames'
    BY <1>5, CloseChildStep DEF Frames
  <2>3. SaveOK'
    BY <1>1, <2>1, SaveUnchanged DEF redis
  <2>4. Redis'
    BY <1>1, <2>1, RedisUnchanged
  <2>5. Rest'
    BY <1>1, <2>1 DEF Rest, DownHasNoFrame
  <2> QED
    BY <1>3, <2>1, <2>2, <2>3, <2>4, <2>5
<1>6. CASE CloseSelf
  <2>1. UNCHANGED << up, save, redis, requests, restarts, errors >>
        /\ closing # <<>>
    BY <1>6 DEF CloseSelf
  <2>2. StepOK(accounts, accounts') /\ Frames'
    BY <1>6, CloseSelfStep DEF Frames
  <2>3. SaveOK'
    BY <1>1, <2>1, SaveUnchanged DEF redis
  <2>4. Redis'
    BY <1>1, <2>1, RedisUnchanged
  <2>5. Rest'
    BY <1>1, <2>1 DEF Rest, DownHasNoFrame
  <2> QED
    BY <2>2, <2>3, <2>4, <2>5
<1>7. CASE persist
  <2>1. /\ UNCHANGED << up, accounts, closing, redis, requests, restarts, errors >>
        /\ save' = Persisting(accounts)
    BY <1>7 DEF persist
  <2>2. SaveOK'
    BY <1>1, <2>1, SaveBegins
  <2>3. Frames' /\ Redis'
    BY <1>1, <2>1, FramesUnchanged, RedisUnchanged
  <2>4. Rest'
    BY <1>1, <2>1 DEF Rest, DownHasNoFrame
  <2> QED
    BY <1>3, <2>1, <2>2, <2>3, <2>4
<1>8. CASE onPhase1Result
  <2>1. UNCHANGED << up, accounts, closing, redis, requests, restarts, errors >>
    BY <1>8 DEF onPhase1Result
  <2>2. SaveOK'
    BY <1>1, <1>8, Phase1Step
  <2>3. Frames' /\ Redis'
    BY <1>1, <2>1, FramesUnchanged, RedisUnchanged
  <2>4. Rest'
    BY <1>1, <2>1 DEF Rest, DownHasNoFrame
  <2> QED
    BY <1>3, <2>1, <2>2, <2>3, <2>4
<1>9. CASE Exec
  <2>1. /\ UNCHANGED << up, accounts, closing, requests, restarts, errors >>
        /\ save' = NotPersisting
    BY <1>9 DEF Exec
  <2>2. Redis'
    BY <1>9, ExecStep DEF Redis
  <2>3. Frames' /\ SaveOK'
    BY <1>1, <2>1, FramesUnchanged, SaveIdle
  <2>4. Rest'
    BY <1>1, <2>1 DEF Rest, DownHasNoFrame
  <2> QED
    BY <1>3, <2>1, <2>2, <2>3, <2>4
<1>10. CASE RedisError
  <2>1. /\ UNCHANGED << up, accounts, closing, redis, requests, restarts >>
        /\ save' = NotPersisting /\ errors' = errors + 1
    BY <1>10 DEF RedisError
  <2>2. Frames' /\ Redis' /\ SaveOK'
    BY <1>1, <2>1, FramesUnchanged, RedisUnchanged, SaveIdle
  <2>3. Rest'
    BY <1>1, <2>1 DEF Rest, DownHasNoFrame
  <2> QED
    BY <1>3, <2>1, <2>2, <2>3
<1>11. CASE signal_handler
  <2>1. /\ UNCHANGED << accounts, closing, redis, requests, restarts, errors >>
        /\ save' = Persisting(accounts) \/ save' = save
        /\ up' = "stopping"
    BY <1>11 DEF signal_handler
  <2>2. SaveOK'
    BY <1>1, <2>1, SaveBegins, SaveUnchanged DEF redis
  <2>3. Frames' /\ Redis'
    BY <1>1, <2>1, FramesUnchanged, RedisUnchanged
  <2>4. Rest'
    BY <1>1, <2>1 DEF Rest, DownHasNoFrame
  <2> QED
    BY <1>3, <2>1, <2>2, <2>3, <2>4
<1>12. CASE MainReturns \/ Crash
  <2>1. /\ accounts' = NoAccounts /\ closing' = <<>> /\ save' = NotPersisting
        /\ up' = "down" /\ restarts' = restarts + 1
        /\ UNCHANGED << redis, requests, errors >>
    BY <1>12 DEF MainReturns, Crash, ProcessGone
  <2>2. StepOK(accounts, accounts')
    BY <2>1, NoAccountsGood DEF StepOK
  <2>3. Frames'
    BY <2>1 DEF Frames, FramesPresent
  <2>4. Redis' /\ SaveOK'
    BY <1>1, <2>1, RedisUnchanged, SaveIdle
  <2>5. Rest'
    BY <1>1, <2>1 DEF Rest, DownHasNoFrame
  <2> QED
    BY <2>2, <2>3, <2>4, <2>5
<1>13. CASE Start
  <2>1. /\ UNCHANGED << closing, save, redis, requests, restarts, errors >>
        /\ up = "down" /\ up' = "running"
    BY <1>13 DEF Start
  <2>2. StepOK(accounts, accounts')
    BY <1>13, StartStep
  <2>3. closing = <<>>
    BY <1>1, <2>1 DEF Rest, DownHasNoFrame
  <2>4. Frames'
    BY <2>1, <2>3 DEF Frames, FramesPresent
  <2>5. Redis' /\ SaveOK'
    BY <1>1, <2>1, RedisUnchanged, SaveUnchanged DEF redis
  <2>6. Rest'
    BY <1>1, <2>1 DEF Rest, DownHasNoFrame
  <2> QED
    BY <2>2, <2>4, <2>5, <2>6
<1>14. CASE StartUnloaded
  <2>1. /\ UNCHANGED << accounts, closing, save, redis, requests, restarts >>
        /\ up' = "running" /\ errors' = errors + 1
    BY <1>14 DEF StartUnloaded
  <2>2. Frames' /\ Redis' /\ SaveOK'
    BY <1>1, <2>1, FramesUnchanged, RedisUnchanged, SaveUnchanged DEF redis
  <2>3. Rest'
    BY <1>1, <2>1 DEF Rest, DownHasNoFrame
  <2> QED
    BY <1>3, <2>1, <2>2, <2>3
<1>15. CASE UNCHANGED vars
  <2>1. UNCHANGED << up, accounts, closing, save, redis, requests, restarts, errors >>
    BY <1>15 DEF vars, process
  <2>2. Frames' /\ Redis' /\ SaveOK'
    BY <1>1, <2>1, FramesUnchanged, RedisUnchanged, SaveUnchanged DEF redis
  <2>3. Rest'
    BY <1>1, <2>1 DEF Rest, DownHasNoFrame
  <2> QED
    BY <1>3, <2>1, <2>2, <2>3
<1> QED
  BY <1>4, <1>5, <1>6, <1>7, <1>8, <1>9, <1>10, <1>11, <1>12, <1>13, <1>14,
     <1>15 DEF Next

----------------------------------------------------------------------------
(* What requests never undo. Their amounts may be anything: the pools that *)
(* count what came in and went out only grow, unless a budget account is   *)
(* overdrawn.                                                              *)

(* ~OverdrawnBudget in the form the lemmas about the operations use.       *)
LEMMA NotOverdrawn ==
    ASSUME IInv, ~OverdrawnBudget
    PROVE  NoOverdraft(accounts)
<1>1. \A k \in DOMAIN accounts : accounts[k].balance \in Int
  BY IInvGoodMap, MapElement, SidesType DEF GoodMap
<1> QED
  BY <1>1 DEF OverdrawnBudget, NoOverdraft

\* What a handler does to the accounts.
HandlerGrows(m, n) == /\ NoOverdraft(m) => GrewAll(m, n)
                      /\ SameTypes(m, n)
                      /\ TopBudget(m) => TopBudget(n)
                      /\ NoneClosed(m, n)

(* The first thing most handlers do: reactivate what is there.             *)
LEMMA ActiveGrows ==
    ASSUME GoodMap(accounts), NEW k
    PROVE  LET active == reactivatePresentAccounts(accounts, k) IN
           /\ GrewAll(accounts, active) /\ NoneClosed(accounts, active)
           /\ IsAccountMap(active) /\ GoodMap(active)
           /\ NoOverdraft(accounts) => NoOverdraft(active)
           /\ DOMAIN active = DOMAIN accounts
           /\ TopBudget(accounts) => TopBudget(active)
<1>1. IsAccountMap(accounts)
  BY DEF GoodMap
<1>2. TopBudget(accounts) => TopBudget(reactivatePresentAccounts(accounts, k))
  BY <1>1, ReactivateOK DEF Keeps, TopBudget
<1> QED
  BY <1>1, <1>2, ReactivateGrew, ReactivateStep DEF GoodMap

(* A change without harm, and then a handler's.                            *)
LEMMA GrowsOn ==
    ASSUME NEW m, NEW n, NEW o, IsAccountMap(m), IsAccountMap(n), IsAccountMap(o),
           GrewAll(m, n), NoneClosed(m, n),
           NoOverdraft(m) => NoOverdraft(n), TopBudget(m) => TopBudget(n),
           HandlerGrows(n, o)
    PROVE  HandlerGrows(m, o)
<1>1. DOMAIN m \subseteq DOMAIN n /\ SameTypes(m, n)
  BY DEF GrewAll, Grew, SameTypes
<1>2. NoneClosed(m, o)
  BY <1>1, NoneClosedTransitive DEF HandlerGrows
<1>3. NoOverdraft(m) => GrewAll(m, o)
  BY GrewAllTransitive DEF HandlerGrows
<1>4. SameTypes(m, o)
  BY <1>1 DEF HandlerGrows, SameTypes
<1> QED
  BY <1>2, <1>3, <1>4 DEF HandlerGrows

(* A change that lets every account grow and closes none.                  *)
LEMMA GrewGrows ==
    ASSUME NEW m, NEW n, GrewAll(m, n), NoneClosed(m, n), TopBudget(m) => TopBudget(n)
    PROVE  HandlerGrows(m, n)
  BY DEF HandlerGrows, GrewAll, Grew, SameTypes

(* A change that keeps the type of the one account it replaces keeps the   *)
(* top-level accounts budget accounts.                                     *)
LEMMA ExceptTop ==
    ASSUME NEW m, NEW k \in DOMAIN m, NEW b, Grew(m[k], b)
    PROVE  TopBudget(m) => TopBudget([ m EXCEPT ![k] = b ])
  BY DEF TopBudget, Grew

(* An adjustment request.                                                  *)
LEMMA AdjustmentGrows ==
    ASSUME GoodMap(accounts), NEW k \in Keys, NEW v \in Int, adjustment(k, v)
    PROVE  HandlerGrows(accounts, accounts')
<1> DEFINE active == reactivatePresentAccounts(accounts, k)
           b == addAdjustment(active[k], v)
<1>1. /\ GrewAll(accounts, active) /\ NoneClosed(accounts, active)
      /\ IsAccountMap(active) /\ (NoOverdraft(accounts) => NoOverdraft(active))
      /\ (TopBudget(accounts) => TopBudget(active))
  BY ActiveGrows
<1>2. accounts' = IF k \in DOMAIN active
                  THEN [ active EXCEPT ![k] = b ] ELSE active
  BY DEF adjustment
<1>3. IsAccountMap(accounts) /\ IsAccountMap(accounts')
  BY AdjustmentStep DEF StepOK, GoodMap
<1> HIDE DEF active
<1>4. CASE k \in DOMAIN active
  <2>1. Grew(active[k], b) /\ b.status = active[k].status
    BY <1>1, <1>4, MapElement, AddAdjustmentGrew
  <2> HIDE DEF b
  <2>2. GrewAll(active, accounts') /\ NoneClosed(active, accounts')
    <3>1. accounts' = [ active EXCEPT ![k] = b ]
      BY <1>2, <1>4
    <3>2. /\ GrewAll(active, [ active EXCEPT ![k] = b ])
          /\ NoneClosed(active, [ active EXCEPT ![k] = b ])
      BY <1>1, <1>4, <2>1, GrewExcept
    <3> QED
      BY <3>1, <3>2
  <2>3. HandlerGrows(active, accounts')
    BY <1>2, <1>4, <2>1, <2>2, ExceptTop, GrewGrows
  <2> QED
    BY <1>1, <1>3, <2>3, GrowsOn
<1>5. CASE k \notin DOMAIN active
  BY <1>1, <1>2, <1>5, GrewGrows
<1> QED
  BY <1>4, <1>5

(* The second thing: create what is missing, where that is allowed.        *)
LEMMA EnsuredGrows ==
    ASSUME NEW m, GoodMap(m), NEW k \in Keys, NEW t \in AccountType, CanEnsure(m, k, t)
    PROVE  LET n == ensureAccount(m, k, t) IN
           /\ GrewAll(m, n) /\ NoneClosed(m, n)
           /\ GoodMap(n) /\ IsAccountMap(n) /\ k \in DOMAIN n
           /\ NoOverdraft(m) => NoOverdraft(n)
           /\ TopBudget(m) => TopBudget(n)
<1>1. IsAccountMap(m)
  BY DEF GoodMap
<1>2. TopBudget(m) => TopBudget(ensureAccount(m, k, t))
  <2>1. \A u : NewAccount(u).type = u
    BY DEF NewAccount
  <2>2. \A j \in DOMAIN ensureAccount(m, k, t) :
          \/ j \in DOMAIN m /\ ensureAccount(m, k, t)[j] = m[j]
          \/ j = k /\ k \notin DOMAIN m /\ ensureAccount(m, k, t)[j] = NewAccount(t)
          \/ ensureAccount(m, k, t)[j] = NewAccount("budget")
    BY DEF ensureAccount
  <2> QED
    BY <2>1, <2>2 DEF TopBudget, CanEnsure
<1> QED
  BY <1>1, <1>2, EnsureGrew, EnsureAccountOK, EnsureNoOverdraft DEF GoodMap

(* setBalance as part of a handler.                                        *)
LEMMA SetBalanceGrows ==
    ASSUME NEW m, IsAccountMap(m), NEW k, NEW v \in Int
    PROVE  HandlerGrows(m, setBalance(m, k, v)) /\ IsAccountMap(setBalance(m, k, v))
<1>1. Keeps(m, setBalance(m, k, v))
  BY SetBalanceOK
<1> QED
  BY <1>1, SetBalanceGrew DEF HandlerGrows, Keeps, SameTypes, TopBudget

(* syncFromShadow as part of a handler.                                    *)
LEMMA SyncGrows ==
    ASSUME NEW m, IsAccountMap(m), NEW k, NEW s \in ShadowRecord
    PROVE  /\ HandlerGrows(m, syncFromShadow(m, k, s))
           /\ IsAccountMap(syncFromShadow(m, k, s))
<1>1. Keeps(m, syncFromShadow(m, k, s))
  BY SyncFromShadowOK
<1> QED
  BY <1>1, SyncFromShadowGrew DEF HandlerGrows, Keeps, SameTypes, TopBudget

(* A balance request.                                                      *)
LEMMA BalanceGrows ==
    ASSUME GoodMap(accounts), NEW k \in Keys, NEW v \in Int,
           NEW t \in AccountType, balance(k, v, t)
    PROVE  HandlerGrows(accounts, accounts')
<1> DEFINE active == reactivatePresentAccounts(accounts, k)
           ensured == ensureAccount(active, k, t)
<1>1. /\ GrewAll(accounts, active) /\ NoneClosed(accounts, active)
      /\ IsAccountMap(active) /\ (NoOverdraft(accounts) => NoOverdraft(active))
      /\ (TopBudget(accounts) => TopBudget(active))
      /\ GoodMap(active)
  BY ActiveGrows
<1>2. \/ accounts' = active
      \/ accounts' = setBalance(active, k, v)
      \/ CanEnsure(active, k, t) /\ accounts' = setBalance(ensured, k, v)
  BY DEF balance
<1>3. IsAccountMap(accounts) /\ IsAccountMap(accounts')
  BY BalanceStep DEF StepOK, GoodMap
<1> HIDE DEF active
<1>4. HandlerGrows(active, accounts')
  <2>1. CASE accounts' = active
    BY <1>1, <2>1, GrewItself, GrewGrows
  <2>2. CASE accounts' = setBalance(active, k, v)
    BY <1>1, <2>2, SetBalanceGrows
  <2>3. CASE CanEnsure(active, k, t) /\ accounts' = setBalance(ensured, k, v)
    <3>1. /\ GrewAll(active, ensured) /\ NoneClosed(active, ensured)
          /\ IsAccountMap(ensured) /\ (NoOverdraft(active) => NoOverdraft(ensured))
          /\ (TopBudget(active) => TopBudget(ensured))
      BY <1>1, <2>3, EnsuredGrows
    <3> HIDE DEF ensured
    <3>2. HandlerGrows(ensured, accounts')
      BY <2>3, <3>1, SetBalanceGrows
    <3> QED
      BY <1>1, <1>3, <3>1, <3>2, GrowsOn
  <2> QED
    BY <1>2, <2>1, <2>2, <2>3
<1> QED
  BY <1>1, <1>3, <1>4, GrowsOn

(* A shadow request.                                                       *)
LEMMA ShadowGrows ==
    ASSUME GoodMap(accounts), NEW k \in Keys, NEW s \in ShadowRecord, shadow(k, s)
    PROVE  HandlerGrows(accounts, accounts')
<1> DEFINE ensured == ensureAccount(accounts, k, "spend")
<1>1. \/ accounts' = accounts
      \/ accounts' = syncFromShadow(accounts, k, s)
      \/ /\ CanEnsure(accounts, k, "spend")
         /\ accounts' = syncFromShadow(ensured, k, s)
  BY DEF shadow
<1>2. IsAccountMap(accounts) /\ IsAccountMap(accounts')
  BY ShadowStep DEF StepOK, GoodMap
<1>3. CASE accounts' = accounts
  BY <1>2, <1>3, GrewItself, GrewGrows
<1>4. CASE accounts' = syncFromShadow(accounts, k, s)
  BY <1>2, <1>4, SyncGrows
<1>5. CASE CanEnsure(accounts, k, "spend") /\ accounts' = syncFromShadow(ensured, k, s)
  <2>0. "spend" \in AccountType
    BY DEF AccountType
  <2>1. /\ GrewAll(accounts, ensured) /\ NoneClosed(accounts, ensured)
        /\ IsAccountMap(ensured) /\ (NoOverdraft(accounts) => NoOverdraft(ensured))
        /\ (TopBudget(accounts) => TopBudget(ensured))
    BY <1>5, <2>0, EnsuredGrows
  <2> HIDE DEF ensured
  <2>2. HandlerGrows(ensured, accounts')
    BY <1>5, <2>1, SyncGrows
  <2> QED
    BY <1>2, <2>1, <2>2, GrowsOn
<1> QED
  BY <1>1, <1>3, <1>4, <1>5

(* A budget request.                                                       *)
LEMMA BudgetGrows ==
    ASSUME GoodMap(accounts), NEW k \in Keys, NEW v \in Int, budget(k, v)
    PROVE  HandlerGrows(accounts, accounts')
<1> DEFINE active == reactivatePresentAccounts(accounts, k)
           ensured == ensureAccount(active, k, "budget")
           b == setBudget(ensured[k], v)
<1>1. /\ GrewAll(accounts, active) /\ NoneClosed(accounts, active)
      /\ IsAccountMap(active) /\ (NoOverdraft(accounts) => NoOverdraft(active))
      /\ (TopBudget(accounts) => TopBudget(active))
      /\ GoodMap(active)
  BY ActiveGrows
<1>2. \/ accounts' = active
      \/ /\ CanEnsure(active, k, "budget")
         /\ accounts' = [ ensured EXCEPT ![k] = b ]
  BY DEF budget
<1>3. IsAccountMap(accounts) /\ IsAccountMap(accounts')
  BY BudgetStep DEF StepOK, GoodMap
<1> HIDE DEF active
<1>4. HandlerGrows(active, accounts')
  <2>1. CASE accounts' = active
    BY <1>1, <2>1, GrewItself, GrewGrows
  <2>2. CASE CanEnsure(active, k, "budget") /\ accounts' = [ ensured EXCEPT ![k] = b ]
    <3>0. "budget" \in AccountType
      BY DEF AccountType
    <3>1. /\ GrewAll(active, ensured) /\ NoneClosed(active, ensured)
          /\ IsAccountMap(ensured) /\ (NoOverdraft(active) => NoOverdraft(ensured))
          /\ (TopBudget(active) => TopBudget(ensured))
          /\ k \in DOMAIN ensured
      BY <1>1, <2>2, <3>0, EnsuredGrows
    <3> HIDE DEF ensured
    <3>2. Grew(ensured[k], b) /\ b.status = "active"
      BY <3>1, MapElement, SetBudgetGrew
    <3> HIDE DEF b
    <3>3. /\ GrewAll(ensured, [ ensured EXCEPT ![k] = b ])
          /\ NoneClosed(ensured, [ ensured EXCEPT ![k] = b ])
      BY <3>1, <3>2, GrewExcept
    <3>4. HandlerGrows(ensured, accounts')
      BY <2>2, <3>1, <3>2, <3>3, ExceptTop, GrewGrows
    <3> QED
      BY <1>1, <1>3, <3>1, <3>4, GrowsOn
  <2> QED
    BY <1>2, <2>1, <2>2
<1> QED
  BY <1>1, <1>3, <1>4, GrowsOn

(* A request that creates an account.                                      *)
LEMMA CreateAccountGrows ==
    ASSUME GoodMap(accounts), NEW k \in Keys, NEW t \in AccountType,
           create_account(k, t)
    PROVE  HandlerGrows(accounts, accounts')
<1> DEFINE active == reactivatePresentAccounts(accounts, k)
<1>1. /\ GrewAll(accounts, active) /\ NoneClosed(accounts, active)
      /\ IsAccountMap(active) /\ (NoOverdraft(accounts) => NoOverdraft(active))
      /\ (TopBudget(accounts) => TopBudget(active))
      /\ GoodMap(active)
  BY ActiveGrows
<1>2. \/ accounts' = active
      \/ CanEnsure(active, k, t) /\ accounts' = ensureAccount(active, k, t)
  BY DEF create_account
<1>3. IsAccountMap(accounts) /\ IsAccountMap(accounts')
  BY CreateAccountStep DEF StepOK, GoodMap
<1> HIDE DEF active
<1>4. CASE accounts' = active
  BY <1>1, <1>4, GrewGrows
<1>5. CASE CanEnsure(active, k, t) /\ accounts' = ensureAccount(active, k, t)
  <2>1. /\ GrewAll(active, accounts') /\ NoneClosed(active, accounts')
        /\ (TopBudget(active) => TopBudget(accounts'))
    BY <1>1, <1>5, EnsuredGrows
  <2>2. HandlerGrows(active, accounts')
    BY <2>1, GrewGrows
  <2> QED
    BY <1>1, <1>3, <2>2, GrowsOn
<1> QED
  BY <1>2, <1>4, <1>5

(* The beginning of a close, which only reactivates.                       *)
LEMMA CloseGrows ==
    ASSUME GoodMap(accounts), NEW k \in Keys, close(k)
    PROVE  HandlerGrows(accounts, accounts')
<1> DEFINE active == reactivatePresentAccounts(accounts, k)
<1>1. GrewAll(accounts, active) /\ NoneClosed(accounts, active)
      /\ (TopBudget(accounts) => TopBudget(active))
  BY ActiveGrows
<1>2. accounts' = active
  BY DEF close
<1> HIDE DEF active
<1> QED
  BY <1>1, <1>2, GrewGrows

(* Every request.                                                          *)
LEMMA HandlerGrowsAccounts ==
    ASSUME GoodMap(accounts), Handler
    PROVE  HandlerGrows(accounts, accounts')
<1>2. PICK k \in Keys :
        \/ \E v \in Adjustments : adjustment(k, v)
        \/ \E v \in Balances, t \in AccountType : balance(k, v, t)
        \/ k \in ShadowKeys /\ \E s \in Shadows : shadow(k, s)
        \/ \E v \in Budgets : budget(k, v)
        \/ \E t \in AccountType : create_account(k, t)
        \/ close(k)
  BY DEF Handler
<1>7. CASE \E v \in Adjustments : adjustment(k, v)
  BY <1>7, AdjustmentGrows, InputsAssumption
<1>8. CASE \E v \in Balances, t \in AccountType : balance(k, v, t)
  BY <1>8, BalanceGrows, InputsAssumption
<1>9. CASE k \in ShadowKeys /\ \E s \in Shadows : shadow(k, s)
  BY <1>9, ShadowGrows, InputsAssumption
<1>10. CASE \E v \in Budgets : budget(k, v)
  BY <1>10, BudgetGrows, InputsAssumption
<1>11. CASE \E t \in AccountType : create_account(k, t)
  BY <1>11, CreateAccountGrows
<1>12. CASE close(k)
  BY <1>12, CloseGrows
<1> QED
  BY <1>2, <1>7, <1>8, <1>9, <1>10, <1>11, <1>12

----------------------------------------------------------------------------
(* The copy that a save writes is older than the accounts and newer than   *)
(* the records, while the first process lives.                             *)

\* While the first process lives, redis is behind the copy being saved, and
\* the copy is behind the accounts.
Behind ==
    FirstProcess =>
      /\ up = "down" => DOMAIN records = {} /\ save.phase = "idle"
      /\ GrewAll(records, accounts)
      /\ save.phase # "idle" => /\ GrewAll(records, save.toSave)
                                /\ GrewAll(save.toSave, accounts)

(* Nothing is stored at first.                                             *)
LEMMA InitBehind == Init => Behind
<1>1. DOMAIN NoAccounts = {}
  BY DEF NoAccounts
<1> QED
  BY <1>1 DEF Init, Behind, NotPersisting, GrewAll

(* The maps are maps of accounts.                                          *)
LEMMA MapsTyped ==
    ASSUME IInv
    PROVE  /\ IsAccountMap(accounts) /\ IsAccountMap(records)
           /\ IsAccountMap(save.toSave) /\ GoodMap(accounts)
  BY IInvGoodMap DEF IInv, TypeOK

(* A step that only lets the accounts grow.                                *)
LEMMA BehindGrows ==
    ASSUME IInv, IInv', Behind, GrewAll(accounts, accounts'),
           UNCHANGED << up, save, redis, restarts >>
    PROVE  Behind'
<1>1. /\ IsAccountMap(accounts) /\ IsAccountMap(records) /\ IsAccountMap(save.toSave)
      /\ IsAccountMap(accounts')
  BY MapsTyped DEF IInv, TypeOK
<1>2. GrewAll(records, accounts) => GrewAll(records, accounts')
  BY <1>1, GrewAllTransitive
<1>3. GrewAll(save.toSave, accounts) => GrewAll(save.toSave, accounts')
  BY <1>1, GrewAllTransitive
<1> QED
  BY <1>2, <1>3 DEF Behind, FirstProcess, redis

(* A save ends without a write.                                            *)
LEMMA BehindIdle ==
    ASSUME Behind, save' = NotPersisting, UNCHANGED << up, accounts, redis, restarts >>
    PROVE  Behind'
  BY DEF Behind, FirstProcess, redis, NotPersisting

(* A save begins.                                                          *)
LEMMA BehindCopied ==
    ASSUME IInv, Behind, up # "down", up' # "down", save' = Persisting(accounts),
           UNCHANGED << accounts, redis, restarts >>
    PROVE  Behind'
<1>1. GrewAll(accounts, accounts)
  BY MapsTyped, GrewItself
<1> QED
  BY <1>1 DEF Behind, FirstProcess, redis, Persisting

(* Every record was there before EXEC or is the stored form of an account  *)
(* of the copy.                                                            *)
LEMMA ExecRecords ==
    ASSUME IInv, Exec
    PROVE  /\ DOMAIN records \subseteq DOMAIN records'
           /\ \A k \in DOMAIN records' :
                \/ k \in DOMAIN records /\ records'[k] = records[k]
                \/ k \in DOMAIN save.toSave /\ records'[k] = toJson(save.toSave[k])
<1>1. save.cmds = storeCommands(save.toSave)
  BY DEF IInv, CommandsMatch, Exec
<1>2. save.cmds.set \subseteq DOMAIN save.toSave
  BY <1>1, MapsTyped, StoreCommandsOK
<1> QED
  BY <1>2 DEF Exec

(* EXEC writes amounts that lie between the stored ones and those in       *)
(* memory.                                                                 *)
LEMMA ExecBehind ==
    ASSUME IInv, IInv', Behind, Exec
    PROVE  /\ Behind'
           /\ FirstProcess => GrewAll(records, records')
<1>1. /\ IsAccountMap(accounts) /\ IsAccountMap(records) /\ IsAccountMap(save.toSave)
      /\ IsAccountMap(records')
  BY MapsTyped DEF IInv, TypeOK
<1>2. /\ DOMAIN records \subseteq DOMAIN records'
      /\ \A k \in DOMAIN records' :
           \/ k \in DOMAIN records /\ records'[k] = records[k]
           \/ k \in DOMAIN save.toSave /\ records'[k] = toJson(save.toSave[k])
  BY ExecRecords
<1>3. /\ save.phase # "idle" /\ save' = NotPersisting
      /\ UNCHANGED << up, accounts, restarts >>
  BY DEF Exec
<1>4. \A k \in DOMAIN save.toSave :
        /\ save.toSave[k] \in AccountRecord /\ toJson(save.toSave[k]) \in AccountRecord
        /\ Grew(save.toSave[k], toJson(save.toSave[k]))
        /\ Grew(toJson(save.toSave[k]), save.toSave[k])
  BY <1>1, MapElement, JsonOK, JsonGrew
<1>5. ASSUME FirstProcess
      PROVE  GrewAll(records', accounts) /\ GrewAll(records, records')
  <2>1. /\ GrewAll(records, accounts) /\ GrewAll(records, save.toSave)
        /\ GrewAll(save.toSave, accounts) /\ GrewAll(records, records)
    BY <1>1, <1>3, <1>5, GrewItself DEF Behind
  <2>2. ASSUME NEW k \in DOMAIN records'
        PROVE  /\ k \in DOMAIN accounts /\ Grew(records'[k], accounts[k])
               /\ k \in DOMAIN records => Grew(records[k], records'[k])
    <3>1. CASE k \in DOMAIN records /\ records'[k] = records[k]
      BY <2>1, <3>1 DEF GrewAll
    <3>2. CASE k \in DOMAIN save.toSave /\ records'[k] = toJson(save.toSave[k])
      <4>1. k \in DOMAIN accounts /\ Grew(save.toSave[k], accounts[k])
        BY <2>1, <3>2 DEF GrewAll
      <4>2. accounts[k] \in AccountRecord
        BY <1>1, <4>1, MapElement
      <4>3. Grew(toJson(save.toSave[k]), accounts[k])
        BY <1>4, <3>2, <4>1, <4>2, GrewTransitive
      <4>4. ASSUME k \in DOMAIN records
            PROVE  Grew(records[k], toJson(save.toSave[k]))
        <5>1. Grew(records[k], save.toSave[k]) /\ records[k] \in AccountRecord
          BY <1>1, <2>1, <4>4, MapElement DEF GrewAll
        <5> QED
          BY <1>4, <3>2, <5>1, GrewTransitive
      <4> QED
        BY <3>2, <4>1, <4>3, <4>4
    <3> QED
      BY <1>2, <3>1, <3>2
  <2> QED
    BY <1>2, <2>2 DEF GrewAll
<1>6. FirstProcess => up # "down"
  <2>1. ASSUME FirstProcess, up = "down" PROVE FALSE
    BY <1>3, <2>1 DEF Behind
  <2> QED
    BY <2>1
<1>7. save'.phase = "idle"
  BY <1>3 DEF NotPersisting
<1> QED
  BY <1>3, <1>5, <1>6, <1>7 DEF Behind, FirstProcess

(* Every step keeps the order of the three, unless a budget account was    *)
(* overdrawn before it, and lowers no record.                              *)
LEMMA NextBehind ==
    ASSUME IInv, IInv', Behind, ~OverdrawnBudget, [Next]_vars
    PROVE  /\ Behind'
           /\ FirstProcess /\ FirstProcess' => GrewAll(records, records')
<1>1. NoOverdraft(accounts)
  BY NotOverdrawn
<1>2. GrewAll(accounts, accounts) /\ GrewAll(records, records)
  BY MapsTyped, GrewItself
<1>3. UNCHANGED redis => GrewAll(records, records')
  BY <1>2 DEF redis
<1>4. CASE Handler
  <2>1. UNCHANGED << save, redis, restarts, up >>
    BY <1>4 DEF Handler, Request, adjustment, balance, shadow, budget, create_account, close
  <2>2. GrewAll(accounts, accounts')
    BY <1>1, <1>4, MapsTyped, HandlerGrowsAccounts DEF HandlerGrows
  <2> QED
    BY <1>3, <2>1, <2>2, BehindGrows
<1>5. CASE CloseChild
  <2>1. UNCHANGED << accounts, save, redis, restarts, up >>
    BY <1>5 DEF CloseChild
  <2> QED
    BY <1>2, <1>3, <2>1, BehindGrows
<1>6. CASE CloseSelf
  <2>1. UNCHANGED << save, redis, restarts, up >>
    BY <1>6 DEF CloseSelf
  <2>2. closing \in Seq(Frame) /\ FramesPresent /\ closing # <<>>
    BY <1>6 DEF IInv, TypeOK, CloseSelf
  <2>3. Last(closing).key \in DOMAIN accounts
    BY <2>2, LastFrame
  <2>4. accounts' = closeOne(accounts, Last(closing).key)
    BY <1>6 DEF CloseSelf
  <2>5. GrewAll(accounts, accounts')
    BY <2>3, <2>4, MapsTyped, CloseOneGrew DEF ClosesOne
  <2> QED
    BY <1>3, <2>1, <2>5, BehindGrows
<1>7. CASE persist
  <2>1. /\ UNCHANGED << up, accounts, redis, restarts >> /\ up = "running"
        /\ save' = Persisting(accounts)
    BY <1>7 DEF persist
  <2> QED
    BY <1>3, <2>1, BehindCopied
<1>8. CASE onPhase1Result
  <2>1. /\ UNCHANGED << up, accounts, redis, restarts >> /\ save.phase = "fetch"
    BY <1>8 DEF onPhase1Result
  <2>2. CASE save' = NotPersisting
    BY <1>3, <2>1, <2>2, BehindIdle
  <2>3. CASE save' = [ save EXCEPT !.phase = "exec", !.cmds = storeCommands(save.toSave) ]
    <3>1. save = [ phase |-> save.phase, toSave |-> save.toSave, cmds |-> save.cmds ]
      BY DEF IInv, TypeOK
    <3>2. save'.phase # "idle" /\ save'.toSave = save.toSave
      BY <2>3, <3>1
    <3> QED
      BY <1>3, <2>1, <3>2 DEF Behind, FirstProcess, redis
  <2> QED
    BY <1>8, <2>2, <2>3 DEF onPhase1Result
<1>9. CASE Exec
  BY <1>9, ExecBehind
<1>10. CASE RedisError
  <2>1. save' = NotPersisting /\ UNCHANGED << up, accounts, redis, restarts >>
    BY <1>10 DEF RedisError
  <2> QED
    BY <1>3, <2>1, BehindIdle
<1>11. CASE signal_handler
  <2>1. /\ UNCHANGED << accounts, redis, restarts >>
        /\ up # "down" /\ up' = "stopping"
        /\ save' = Persisting(accounts) \/ save' = save
    BY <1>11 DEF signal_handler
  <2>2. CASE save' = Persisting(accounts)
    BY <1>3, <2>1, <2>2, BehindCopied
  <2>3. CASE save' = save
    BY <1>3, <2>1, <2>3 DEF Behind, FirstProcess, redis
  <2> QED
    BY <2>1, <2>2, <2>3
<1>12. CASE MainReturns \/ Crash
  <2>1. restarts' = restarts + 1 /\ restarts \in Nat
    BY <1>12 DEF MainReturns, Crash, ProcessGone, IInv, TypeOK
  <2>2. ~FirstProcess'
    BY <2>1 DEF FirstProcess
  <2> QED
    BY <2>2 DEF Behind
<1>13. CASE Start
  <2>1. UNCHANGED << save, redis, restarts >> /\ up = "down" /\ up' = "running"
    BY <1>13 DEF Start
  <2> QED
    BY <1>3, <2>1 DEF Behind, FirstProcess, redis, GrewAll
<1>14. CASE StartUnloaded
  <2>1. UNCHANGED << save, redis, restarts, accounts >> /\ up = "down" /\ up' = "running"
    BY <1>14 DEF StartUnloaded
  <2> QED
    BY <1>3, <2>1 DEF Behind, FirstProcess, redis
<1>15. CASE UNCHANGED vars
  <2>1. UNCHANGED << up, accounts, save, redis, restarts >>
    BY <1>15 DEF vars, process
  <2> QED
    BY <1>2, <1>3, <2>1, BehindGrows
<1> QED
  BY <1>4, <1>5, <1>6, <1>7, <1>8, <1>9, <1>10, <1>11, <1>12, <1>13, <1>14,
     <1>15 DEF Next

----------------------------------------------------------------------------
(* The recursion of a close works from the leaves up.                      *)

\* Every child of a frame's account is still to be visited, or closed, or the
\* next frame is at work on it.
ChildrenDone ==
    \A i \in 1 .. Len(closing) : \A c \in Children(accounts, closing[i].key) :
        \/ c \in closing[i].todo
        \/ accounts[c].status = "closed"
        \/ i < Len(closing) /\ closing[i + 1].key = c

\* A process that is gone has no accounts.
DownIsEmpty == up = "down" => DOMAIN accounts = {}

LeavesFirst == ChildrenDone /\ DownIsEmpty

\* The step part of CloseFromTheLeaves.
ClosesLeaves(m, n) ==
    \A k \in DOMAIN m \cap DOMAIN n :
       m[k].status = "active" /\ n[k].status = "closed" =>
          /\ \A c \in Children(n, k) : n[c].status = "closed"
          /\ Len(k) > 1 => n[k].balance <= 0

(* A step that closes nothing.                                             *)
LEMMA NoneClosedLeaves ==
    ASSUME NEW m, NEW n, NoneClosed(m, n)
    PROVE  ClosesLeaves(m, n)
  BY DEF NoneClosed, ClosesLeaves

(* At first nothing is being closed.                                       *)
LEMMA InitLeaves == Init => LeavesFirst
<1>1. DOMAIN NoAccounts = {} /\ Len(<<>>) = 0
  BY DEF NoAccounts
<1> QED
  BY <1>1 DEF Init, LeavesFirst, ChildrenDone, DownIsEmpty

(* Nor when the outermost call has returned.                               *)
LEMMA NoFrameNoChild ==
    ASSUME closing' = <<>>
    PROVE  ChildrenDone'
  BY DEF ChildrenDone

(* Visiting a child: it is closed, or the new frame is at work on it.      *)
LEMMA CloseChildLeaves ==
    ASSUME IInv, ChildrenDone, CloseChild
    PROVE  ChildrenDone'
<1>1. /\ closing \in Seq(Frame) /\ FramesPresent /\ closing # <<>>
      /\ accounts' = accounts
  BY DEF IInv, TypeOK, CloseChild
<1> DEFINE n == Len(closing)
           f == closing[n]
           rest(c) == [ closing EXCEPT ![n].todo = @ \ {c} ]
           child(c) == [ key |-> c, todo |-> Children(accounts, c) ]
<1>2. /\ n \in Nat /\ n >= 1 /\ Last(closing) = f /\ f \in Frame
  BY <1>1, LastFrame
<1>3. PICK c \in f.todo : closing' = IF accounts[c].status = "closed" THEN rest(c)
                                     ELSE Append(rest(c), child(c))
  BY <1>2 DEF CloseChild
<1> DEFINE g == [ f EXCEPT !.todo = @ \ {c} ]
           r == rest(c)
<1> HIDE DEF f
<1>4. g \in Frame /\ g.key = f.key /\ g.todo = f.todo \ {c}
  BY <1>2 DEF Frame
<1>5. r = [ closing EXCEPT ![n] = g ]
  BY DEF f
<1> HIDE DEF g, r
<1>6. /\ r \in Seq(Frame) /\ Len(r) = n
      /\ r[n] = g /\ \A i \in 1 .. n : i # n => r[i] = closing[i]
  BY <1>1, <1>2, <1>4, <1>5
<1>7. \A i \in 1 .. n : \A d \in Children(accounts, r[i].key) :
        \/ d \in r[i].todo
        \/ accounts[d].status = "closed"
        \/ i < n /\ r[i + 1].key = d
        \/ i = n /\ d = c
  <2> SUFFICES ASSUME NEW i \in 1 .. n, NEW d \in Children(accounts, r[i].key)
               PROVE  \/ d \in r[i].todo
                      \/ accounts[d].status = "closed"
                      \/ i < n /\ r[i + 1].key = d
                      \/ i = n /\ d = c
    OBVIOUS
  <2>1. r[i].key = closing[i].key /\ (i # n => r[i].todo = closing[i].todo)
        /\ (i = n => r[i].todo = closing[i].todo \ {c})
    BY <1>4, <1>6 DEF f
  <2>2. i < n => i + 1 \in 1 .. n /\ r[i + 1].key = closing[i + 1].key
    BY <1>2, <1>4, <1>6 DEF f
  <2>3. \/ d \in closing[i].todo
        \/ accounts[d].status = "closed"
        \/ i < n /\ closing[i + 1].key = d
    BY <2>1 DEF ChildrenDone
  <2> QED
    BY <1>2, <2>1, <2>2, <2>3
<1>9. \/ closing' = r /\ accounts[c].status = "closed"
      \/ closing' = Append(r, child(c))
  BY <1>3 DEF r
<1>8. child(c).key = c /\ child(c).todo = Children(accounts, c)
  OBVIOUS
<1>0. child(c) \in Frame
  <2>1. c \in DOMAIN accounts
    BY <1>1, <1>2, LastFrame
  <2>2. DOMAIN accounts \subseteq Keys
    BY DEF IInv, TypeOK, IsAccountMap
  <2> QED
    BY <2>1, <2>2 DEF Frame, Children
<1> HIDE DEF child
<1>10. CASE closing' = r /\ accounts[c].status = "closed"
  BY <1>1, <1>6, <1>7, <1>10 DEF ChildrenDone
<1>11. CASE closing' = Append(r, child(c))
  <2> DEFINE a == Append(r, child(c))
  <2>1. /\ Len(a) = n + 1
        /\ \A i \in 1 .. n : a[i] = r[i]
        /\ a[n + 1] = child(c)
    BY <1>0, <1>2, <1>6, AppendProperties
  <2> HIDE DEF a
  <2>2. \A i \in 1 .. Len(a) : \A d \in Children(accounts, a[i].key) :
          \/ d \in a[i].todo
          \/ accounts[d].status = "closed"
          \/ i < Len(a) /\ a[i + 1].key = d
    <3> SUFFICES ASSUME NEW i \in 1 .. Len(a), NEW d \in Children(accounts, a[i].key)
                 PROVE  \/ d \in a[i].todo
                        \/ accounts[d].status = "closed"
                        \/ i < Len(a) /\ a[i + 1].key = d
      OBVIOUS
    <3>1. CASE i = n + 1
      BY <1>8, <2>1, <3>1
    <3>2. CASE i = n
      <4>1. a[i] = r[i] /\ a[i + 1].key = c /\ i < Len(a)
        BY <1>2, <1>8, <2>1, <3>2
      <4> QED
        BY <1>2, <1>7, <3>2, <4>1
    <3>3. CASE i # n /\ i # n + 1
      <4>1. i \in 1 .. n /\ i + 1 \in 1 .. n /\ i < Len(a)
        BY <1>2, <2>1, <3>3
      <4>2. a[i] = r[i] /\ a[i + 1] = r[i + 1]
        BY <2>1, <4>1
      <4> QED
        BY <1>7, <3>3, <4>1, <4>2
    <3> QED
      BY <3>1, <3>2, <3>3
  <2>3. closing' = a
    BY <1>11 DEF a
  <2> QED
    BY <1>1, <2>2, <2>3 DEF ChildrenDone
<1> QED
  BY <1>9, <1>10, <1>11

(* The children of an account depend on the accounts there are.            *)
LEMMA ChildrenSame ==
    ASSUME NEW m, NEW n, DOMAIN n = DOMAIN m, NEW k
    PROVE  Children(n, k) = Children(m, k)
  BY DEF Children

(* Closing the account of the innermost frame, whose children are done, or *)
(* failing to.                                                             *)
LEMMA CloseSelfLeaves ==
    ASSUME IInv, ChildrenDone, CloseSelf
    PROVE  /\ ChildrenDone'
           /\ ClosesLeaves(accounts, accounts')
<1>1. closing \in Seq(Frame) /\ FramesPresent /\ closing # <<>>
  BY DEF IInv, TypeOK, CloseSelf
<1> DEFINE n == Len(closing)
           k == Last(closing).key
<1>2. /\ k \in DOMAIN accounts /\ n \in Nat /\ n >= 1
      /\ k = closing[n].key /\ closing[n].todo = {}
  BY <1>1, LastFrame DEF CloseSelf
<1>3. /\ accounts' = closeOne(accounts, k)
      /\ closing' = IF CloseThrows(accounts, k) THEN <<>> ELSE Front(closing)
  BY DEF CloseSelf
<1> HIDE DEF k
<1>4. ClosesOne(accounts, accounts', k)
  BY <1>2, <1>3, MapsTyped, CloseOneGrew
<1>5. /\ DOMAIN accounts' = DOMAIN accounts
      /\ \A j \in DOMAIN accounts : j # k => accounts'[j].status = accounts[j].status
      /\ Len(k) > 1 => accounts'[k].balance <= 0
      /\ ~CloseThrows(accounts, k) => accounts'[k].status = "closed"
      /\ CloseThrows(accounts, k) => accounts'[k].status = accounts[k].status
  BY <1>4 DEF ClosesOne
<1>6. \A j : Children(accounts', j) = Children(accounts, j)
  BY <1>5, ChildrenSame
<1>7. \A j : Children(accounts, j) \subseteq DOMAIN accounts
  BY DEF Children
<1>8. \A j \in DOMAIN accounts : accounts[j].status = "closed" =>
                                   accounts'[j].status = "closed"
  BY <1>5
<1>9. \A c \in Children(accounts, k) : accounts[c].status = "closed"
  <2>1. n \in 1 .. n /\ ~(n < n)
    BY <1>2
  <2> QED
    BY <1>2, <2>1 DEF ChildrenDone
<1>10. ClosesLeaves(accounts, accounts')
  <2> SUFFICES ASSUME NEW j \in DOMAIN accounts \cap DOMAIN accounts',
                      accounts[j].status = "active", accounts'[j].status = "closed"
               PROVE  /\ \A c \in Children(accounts', j) : accounts'[c].status = "closed"
                      /\ Len(j) > 1 => accounts'[j].balance <= 0
    BY DEF ClosesLeaves
  <2>1. j = k
    BY <1>5
  <2> QED
    BY <1>5, <1>6, <1>7, <1>8, <1>9, <2>1
<1>11. CASE CloseThrows(accounts, k)
  BY <1>3, <1>10, <1>11, NoFrameNoChild
<1>12. CASE ~CloseThrows(accounts, k)
  <2>1. /\ closing' = Front(closing) /\ Len(closing') = n - 1
        /\ \A i \in 1 .. n - 1 : closing'[i] = closing[i]
    BY <1>1, <1>2, <1>3, <1>12, FrontSeq
  <2>2. accounts'[k].status = "closed"
    BY <1>5, <1>12
  <2>3. ASSUME NEW i \in 1 .. n - 1, NEW c \in Children(accounts, closing[i].key)
        PROVE  \/ c \in closing[i].todo
               \/ accounts'[c].status = "closed"
               \/ i < n - 1 /\ closing[i + 1].key = c
    <3>1. i \in 1 .. n
      BY <1>2
    <3>2. \/ c \in closing[i].todo
          \/ accounts[c].status = "closed"
          \/ i < n /\ closing[i + 1].key = c
      BY <3>1 DEF ChildrenDone
    <3>3. i < n - 1 \/ i + 1 = n
      BY <1>2
    <3> QED
      BY <1>2, <1>7, <1>8, <2>2, <3>2, <3>3
  <2>4. \A i \in 1 .. n - 1 : i < n - 1 => i + 1 \in 1 .. n - 1
    BY <1>2
  <2>5. ChildrenDone'
    <3> SUFFICES ASSUME NEW i \in 1 .. Len(closing'),
                        NEW c \in Children(accounts', closing'[i].key)
                 PROVE  \/ c \in closing'[i].todo
                        \/ accounts'[c].status = "closed"
                        \/ i < Len(closing') /\ closing'[i + 1].key = c
      BY DEF ChildrenDone
    <3>1. i \in 1 .. n - 1 /\ closing'[i] = closing[i]
      BY <2>1
    <3>2. c \in Children(accounts, closing[i].key)
      BY <1>6, <3>1
    <3>3. i < n - 1 => closing'[i + 1] = closing[i + 1]
      BY <2>1, <2>4, <3>1
    <3> QED
      BY <2>1, <2>3, <3>1, <3>2, <3>3
  <2> QED
    BY <1>10, <2>5
<1> QED
  BY <1>11, <1>12

(* The first frame of a close has all children before it.                  *)
LEMMA CloseLeaves ==
    ASSUME GoodMap(accounts), NEW k \in Keys, close(k)
    PROVE  ChildrenDone'
<1> DEFINE active == reactivatePresentAccounts(accounts, k)
           f == [ key |-> k, todo |-> Children(active, k) ]
<1>2. /\ accounts' = active
      /\ closing' = IF k \in DOMAIN active THEN << f >> ELSE <<>>
  BY DEF close
<1> HIDE DEF active
<1>3. CASE closing' = <<>>
  BY <1>3, NoFrameNoChild
<1>4. CASE closing' = << f >>
  <2>1. Len(closing') = 1 /\ closing'[1].key = k /\ closing'[1].todo = Children(active, k)
    BY <1>4
  <2> HIDE DEF f
  <2> QED
    BY <1>2, <2>1 DEF ChildrenDone
<1> QED
  BY <1>2, <1>3, <1>4

(* Every step keeps the children of the frames accounted for, and closes   *)
(* accounts from the leaves up.                                            *)
LEMMA NextLeaves ==
    ASSUME IInv, LeavesFirst, [Next]_vars
    PROVE  LeavesFirst' /\ ClosesLeaves(accounts, accounts')
<1>1. ClosesLeaves(accounts, accounts)
  BY MapsTyped, GrewItself, NoneClosedLeaves
<1>2. ChildrenDone /\ DownIsEmpty
  BY DEF LeavesFirst
<1>3. UNCHANGED << up, accounts, closing >> => LeavesFirst' /\ ClosesLeaves(accounts, accounts')
  BY <1>1, <1>2 DEF LeavesFirst, ChildrenDone, DownIsEmpty
<1>4. CASE Handler
  <2>1. up' = up /\ closing = <<>> /\ up = "running"
    BY <1>4 DEF Handler, Request, adjustment, balance, shadow, budget, create_account, close
  <2>2. ClosesLeaves(accounts, accounts')
    BY <1>4, MapsTyped, HandlerGrowsAccounts, NoneClosedLeaves DEF HandlerGrows
  <2>3. ChildrenDone'
    <3>1. CASE closing' = closing
      BY <2>1, <3>1, NoFrameNoChild
    <3>2. CASE \E k \in Keys : close(k)
      BY <3>2, MapsTyped, CloseLeaves
    <3> QED
      BY <1>4, <3>1, <3>2 DEF Handler, adjustment, balance, shadow, budget, create_account
  <2> QED
    BY <2>1, <2>2, <2>3 DEF LeavesFirst, DownIsEmpty
<1>5. CASE CloseChild
  <2>1. accounts' = accounts /\ up' = up
    BY <1>5 DEF CloseChild
  <2>2. ChildrenDone'
    BY <1>2, <1>5, CloseChildLeaves
  <2> QED
    BY <1>1, <1>2, <2>1, <2>2 DEF LeavesFirst, DownIsEmpty
<1>6. CASE CloseSelf
  <2>1. up' = up /\ closing # <<>>
    BY <1>6 DEF CloseSelf
  <2>2. ChildrenDone' /\ ClosesLeaves(accounts, accounts')
    BY <1>2, <1>6, CloseSelfLeaves
  <2>3. up # "down"
    BY <2>1 DEF IInv, DownHasNoFrame
  <2> QED
    BY <2>1, <2>2, <2>3 DEF LeavesFirst, DownIsEmpty
<1>7. CASE persist \/ onPhase1Result \/ Exec \/ RedisError \/ UNCHANGED vars
  <2>1. UNCHANGED << up, accounts, closing >>
    BY <1>7 DEF persist, onPhase1Result, Exec, RedisError, vars, process
  <2> QED
    BY <1>3, <2>1
<1>11. CASE signal_handler
  <2>1. UNCHANGED << accounts, closing >> /\ up' # "down"
    BY <1>11 DEF signal_handler
  <2> QED
    BY <1>1, <1>2, <2>1 DEF LeavesFirst, ChildrenDone, DownIsEmpty
<1>12. CASE MainReturns \/ Crash
  <2>1. accounts' = NoAccounts /\ closing' = <<>>
    BY <1>12 DEF MainReturns, Crash, ProcessGone
  <2>2. DOMAIN accounts' = {}
    BY <2>1 DEF NoAccounts
  <2>3. ClosesLeaves(accounts, accounts')
    BY <2>2 DEF ClosesLeaves
  <2> QED
    BY <2>1, <2>2, <2>3, NoFrameNoChild DEF LeavesFirst, DownIsEmpty
<1>13. CASE Start \/ StartUnloaded
  <2>1. closing' = closing /\ up = "down" /\ up' = "running"
    BY <1>13 DEF Start, StartUnloaded
  <2>2. closing = <<>> /\ DOMAIN accounts = {}
    BY <1>2, <2>1 DEF IInv, DownHasNoFrame, DownIsEmpty
  <2>3. ClosesLeaves(accounts, accounts')
    BY <2>2 DEF ClosesLeaves
  <2> QED
    BY <2>1, <2>2, <2>3, NoFrameNoChild DEF LeavesFirst, DownIsEmpty
<1> QED
  BY <1>4, <1>5, <1>6, <1>7, <1>11, <1>12, <1>13 DEF Next

----------------------------------------------------------------------------
(* What is stored can be loaded.                                           *)

\* Every member of "banker:accounts" is in m, with the type stored.
MembersIn(m) == \A k \in members : k \in DOMAIN m /\ m[k].type = records[k].type

\* What the accounts, the copy being saved and redis agree on, so that the
\* next process can load what this one writes.
Loadable ==
    /\ RestartPossible
    /\ TopBudget(accounts)
    /\ up = "down" => save.phase = "idle"
    /\ up # "down" => MembersIn(accounts)
    /\ save.phase # "idle" =>
         /\ AncestorsPresent(save.toSave) /\ TopBudget(save.toSave)
         /\ AllAmountsNonNegative(save.toSave)
         /\ SameTypes(save.toSave, accounts) /\ MembersIn(save.toSave)

(* An empty database can be loaded.                                        *)
LEMMA InitLoadable == Init => Loadable
<1>1. DOMAIN NoAccounts = {}
  BY DEF NoAccounts
<1> QED
  BY <1>1 DEF Init, Loadable, RestartPossible, CanRestore, TopBudget, NotPersisting

(* A step of the handlers, or of a close.                                  *)
LEMMA LoadableGrows ==
    ASSUME Loadable, SameTypes(accounts, accounts'), TopBudget(accounts'),
           UNCHANGED << up, save, redis >>
    PROVE  Loadable'
  BY DEF Loadable, RestartPossible, SameTypes, MembersIn, redis

(* A save ends without a write.                                            *)
LEMMA LoadableIdle ==
    ASSUME Loadable, save' = NotPersisting, UNCHANGED << up, accounts, redis >>
    PROVE  Loadable'
  BY DEF Loadable, RestartPossible, MembersIn, redis, NotPersisting

(* A save begins.                                                          *)
LEMMA LoadableCopied ==
    ASSUME IInv, AllNonNegative, Loadable, up # "down", up' # "down",
           save' = Persisting(accounts), UNCHANGED << accounts, redis >>
    PROVE  Loadable'
<1>1. AncestorsPresent(accounts) /\ AllAmountsNonNegative(accounts)
      /\ SameTypes(accounts, accounts)
  BY DEF IInv, AllNonNegative, AllAmountsNonNegative, SameTypes
<1> QED
  BY <1>1 DEF Loadable, RestartPossible, MembersIn, redis, Persisting

(* EXEC: every member has its type from the copy, whose accounts have      *)
(* their ancestors, and every amount from the copy or from a record that   *)
(* could be loaded before.                                                 *)
LEMMA ExecLoadable ==
    ASSUME IInv, Loadable, Exec
    PROVE  Loadable'
<1> DEFINE cmds == save.cmds
           n == save.toSave
<1>1. /\ IsAccountMap(records) /\ IsAccountMap(n) /\ StoredInOneSet
      /\ save.cmds = storeCommands(n)
  BY MapsTyped DEF IInv, CommandsMatch, Exec
<1>2. /\ cmds.set \subseteq DOMAIN n
      /\ cmds.sadd = cmds.set \ DOMAIN records
      /\ cmds.toAccounts \subseteq cmds.set
  <2>1. cmds.toAccounts \subseteq cmds.set
    BY <1>1 DEF storeCommands
  <2> QED
    BY <1>1, <2>1, StoreCommandsOK
<1>3. /\ AncestorsPresent(n) /\ TopBudget(n) /\ AllAmountsNonNegative(n)
      /\ SameTypes(n, accounts) /\ MembersIn(n)
      /\ TopBudget(accounts) /\ RestartPossible
  BY DEF Loadable, Exec
<1>4. /\ DOMAIN records' = DOMAIN records \cup cmds.set
      /\ \A k \in DOMAIN records' :
           records'[k] = IF k \in cmds.set THEN toJson(n[k]) ELSE records[k]
      /\ members' = (members \ cmds.toArchive) \cup cmds.sadd
                    \cup (cmds.toAccounts \cap archive)
      /\ save' = NotPersisting /\ UNCHANGED << up, accounts >>
      /\ save.phase # "idle"
  BY DEF Exec
<1>5. up # "down"
  BY <1>4 DEF Loadable
<1> HIDE DEF cmds, n
<1>6. members' \subseteq members \cup cmds.set
  BY <1>2, <1>4
<1>7. ASSUME NEW k \in members'
      PROVE  /\ k \in DOMAIN records' /\ k \in DOMAIN n
             /\ records'[k].type = n[k].type
             /\ AmountsNonNegative(records'[k])
  <2>1. CASE k \in cmds.set
    <3>1. k \in DOMAIN n /\ n[k] \in AccountRecord /\ AmountsNonNegative(n[k])
          /\ records'[k] = toJson(n[k]) /\ k \in DOMAIN records'
      BY <1>1, <1>2, <1>3, <1>4, <2>1, MapElement DEF AllAmountsNonNegative
    <3>2. toJson(n[k]).type = n[k].type /\ AmountsNonNegative(toJson(n[k]))
      BY <3>1 DEF toJson, AccountRecord, AmountsNonNegative, AmountFields
    <3> QED
      BY <3>1, <3>2
  <2>2. CASE k \notin cmds.set
    <3>1. k \in members /\ k \in DOMAIN records
      BY <1>3, <1>6, <2>2 DEF RestartPossible
    <3>2. records'[k] = records[k] /\ k \in DOMAIN records'
      BY <1>4, <2>2, <3>1
    <3>3. k \in DOMAIN n /\ n[k].type = records[k].type
      BY <1>3, <3>1 DEF MembersIn
    <3>4. AmountsNonNegative(records[k])
      BY <1>3, <3>1 DEF RestartPossible, CanRestore
    <3> QED
      BY <3>2, <3>3, <3>4
  <2> QED
    BY <2>1, <2>2
<1>8. RestartPossible'
  <2>1. \A k \in members' : Len(k) = 1 => records'[k].type = "budget"
    BY <1>3, <1>7 DEF TopBudget
  <2>2. ASSUME NEW k \in members', NEW c \in members', k \in Ancestors(c)
        PROVE  records'[k].type = "budget"
    BY <1>3, <1>7, <2>2 DEF AncestorsPresent
  <2> QED
    BY <1>7, <2>1, <2>2 DEF RestartPossible, CanRestore
<1>9. MembersIn(accounts)'
  BY <1>3, <1>4, <1>7 DEF MembersIn, SameTypes
<1>10. save'.phase = "idle"
  BY <1>4 DEF NotPersisting
<1>11. TopBudget(accounts')
  BY <1>3, <1>4
<1> QED
  BY <1>5, <1>8, <1>9, <1>10, <1>11, <1>4 DEF Loadable

(* Loading gives every member its stored type, and its ancestors the type  *)
(* of budget accounts.                                                     *)
LEMMA StartLoadable ==
    ASSUME IInv, Loadable, Start
    PROVE  Loadable'
<1>1. /\ up = "down" /\ up' = "running"
      /\ UNCHANGED << closing, save, redis >>
      /\ accounts' = RestoredAccounts(members, records)
      /\ RestartPossible /\ IsAccountMap(records)
  BY MapsTyped DEF Start, Loadable, RestartPossible
<1>2. \A j \in members : fromJson(records[j]).type = records[j].type
                         /\ fromJson(records[j]) \in AccountRecord
  BY <1>1, MapElement, JsonOK DEF RestartPossible
<1> DEFINE n == RestoredAccounts(members, records)
           above == UNION { Ancestors(k) : k \in members }
           loaded(j) == [ fromJson(records[j]) EXCEPT !.status = "active" ]
<1>3. /\ DOMAIN n = members \cup above
      /\ \A j \in members : n[j] = loaded(j)
      /\ \A j \in above \ members : n[j] = NewAccount("budget")
  BY DEF RestoredAccounts
<1>4. \A j \in members : loaded(j).type = records[j].type
  <2> SUFFICES ASSUME NEW j \in members PROVE loaded(j).type = records[j].type
    OBVIOUS
  <2> DEFINE a == fromJson(records[j])
  <2>1. a \in AccountRecord /\ a.type = records[j].type
    BY <1>2
  <2> HIDE DEF a
  <2>2. [ a EXCEPT !.status = "active" ].type = a.type
    BY <2>1 DEF AccountRecord
  <2> QED
    BY <2>1, <2>2 DEF a
<1> HIDE DEF n, loaded, above
<1>5. NewAccount("budget").type = "budget"
  BY DEF NewAccount
<1>6. TopBudget(n)
  BY <1>1, <1>3, <1>4, <1>5 DEF TopBudget, RestartPossible, CanRestore
<1>7. \A k \in members : k \in DOMAIN n /\ n[k].type = records[k].type
  BY <1>3, <1>4
<1>8. accounts' = n
  BY <1>1 DEF n
<1>9. save.phase = "idle"
  BY <1>1 DEF Loadable
<1> QED
  BY <1>1, <1>6, <1>7, <1>8, <1>9 DEF Loadable, MembersIn, redis, RestartPossible

(* Every step keeps the database loadable, as long as no amount in memory  *)
(* is negative.                                                            *)
LEMMA NextLoadable ==
    ASSUME LoadMayFail = FALSE, IInv, AllNonNegative, Loadable, [Next]_vars
    PROVE  Loadable'
<1>1. TopBudget(accounts)
  BY DEF Loadable
<1>2. SameTypes(accounts, accounts)
  BY DEF SameTypes
<1>4. CASE Handler
  <2>1. UNCHANGED << save, redis, up >>
    BY <1>4 DEF Handler, Request, adjustment, balance, shadow, budget, create_account, close
  <2>2. SameTypes(accounts, accounts') /\ TopBudget(accounts')
    BY <1>1, <1>4, MapsTyped, HandlerGrowsAccounts DEF HandlerGrows
  <2> QED
    BY <2>1, <2>2, LoadableGrows
<1>5. CASE CloseChild \/ UNCHANGED vars
  <2>1. UNCHANGED << accounts, save, redis, up >>
    BY <1>5 DEF CloseChild, vars, process
  <2> QED
    BY <1>1, <1>2, <2>1, LoadableGrows
<1>6. CASE CloseSelf
  <2>1. UNCHANGED << save, redis, up >>
    BY <1>6 DEF CloseSelf
  <2>2. closing \in Seq(Frame) /\ FramesPresent /\ closing # <<>>
    BY <1>6 DEF IInv, TypeOK, CloseSelf
  <2>3. Last(closing).key \in DOMAIN accounts
    BY <2>2, LastFrame
  <2>4. accounts' = closeOne(accounts, Last(closing).key)
    BY <1>6 DEF CloseSelf
  <2>5. Keeps(accounts, accounts')
    BY <2>3, <2>4, MapsTyped, CloseOneOK
  <2>6. SameTypes(accounts, accounts') /\ TopBudget(accounts')
    BY <1>1, <2>5 DEF Keeps, SameTypes, TopBudget
  <2> QED
    BY <2>1, <2>6, LoadableGrows
<1>7. CASE persist
  <2>1. /\ UNCHANGED << up, accounts, redis >> /\ up = "running"
        /\ save' = Persisting(accounts)
    BY <1>7 DEF persist
  <2> QED
    BY <2>1, LoadableCopied
<1>8. CASE onPhase1Result
  <2>1. /\ UNCHANGED << up, accounts, redis >> /\ save.phase = "fetch"
    BY <1>8 DEF onPhase1Result
  <2>2. CASE save' = NotPersisting
    BY <2>1, <2>2, LoadableIdle
  <2>3. CASE save' = [ save EXCEPT !.phase = "exec", !.cmds = storeCommands(save.toSave) ]
    <3>1. save = [ phase |-> save.phase, toSave |-> save.toSave, cmds |-> save.cmds ]
      BY DEF IInv, TypeOK
    <3>2. save'.phase # "idle" /\ save'.toSave = save.toSave
      BY <2>3, <3>1
    <3> QED
      BY <2>1, <3>2 DEF Loadable, RestartPossible, MembersIn, redis
  <2> QED
    BY <1>8, <2>2, <2>3 DEF onPhase1Result
<1>9. CASE Exec
  BY <1>9, ExecLoadable
<1>10. CASE RedisError
  <2>1. save' = NotPersisting /\ UNCHANGED << up, accounts, redis >>
    BY <1>10 DEF RedisError
  <2> QED
    BY <2>1, LoadableIdle
<1>11. CASE signal_handler
  <2>1. /\ UNCHANGED << accounts, redis >>
        /\ up # "down" /\ up' = "stopping"
        /\ save' = Persisting(accounts) \/ save' = save
    BY <1>11 DEF signal_handler
  <2>2. CASE save' = Persisting(accounts)
    BY <2>1, <2>2, LoadableCopied
  <2>3. CASE save' = save
    BY <2>1, <2>3 DEF Loadable, RestartPossible, MembersIn, redis
  <2> QED
    BY <2>1, <2>2, <2>3
<1>12. CASE MainReturns \/ Crash
  <2>1. accounts' = NoAccounts /\ save' = NotPersisting /\ up' = "down" /\ UNCHANGED redis
    BY <1>12 DEF MainReturns, Crash, ProcessGone
  <2>2. TopBudget(NoAccounts)
    BY DEF TopBudget, NoAccounts
  <2> QED
    BY <2>1, <2>2 DEF Loadable, RestartPossible, redis, NotPersisting
<1>13. CASE Start
  BY <1>13, StartLoadable
<1>14. CASE StartUnloaded
  BY <1>14 DEF StartUnloaded
<1> QED
  BY <1>4, <1>5, <1>6, <1>7, <1>8, <1>9, <1>10, <1>11, <1>12, <1>13, <1>14 DEF Next

----------------------------------------------------------------------------
(* IInv is an invariant.                                                   *)
THEOREM Inductive == Spec => []IInv
<1>1. IInv /\ [Next]_vars => IInv'
  BY NextIInv
<1> QED
  BY <1>1, InitIInv, PTL DEF Spec

(* Type correctness: the maps in memory, in the copy being saved and in    *)
(* redis hold accounts under keys, at every step of every interleaving.    *)
THEOREM TypeCorrect == Spec => []TypeOK
<1>1. IInv => TypeOK
  BY DEF IInv
<1> QED
  BY <1>1, Inductive, PTL

(* The two sides of every account are equal, in memory and in every copy   *)
(* that is being saved: for any amounts, of either sign, in any number of  *)
(* requests, with closes, saves and restarts in between.                   *)
THEOREM BooksAlwaysBalance == Spec => []BooksBalance
<1>1. IInv => BooksBalance
  BY DEF IInv
<1> QED
  BY <1>1, Inductive, PTL

(* Every account below the top level has its parent in memory, as a budget *)
(* account, so getParentAccount() does not throw; after a reload, too.     *)
THEOREM ParentsAlwaysPresent == Spec => []ParentsPresent
<1>1. IInv => ParentsPresent
  BY IInvGoodMap, GoodHasParent DEF ParentsPresent
<1> QED
  BY <1>1, Inductive, PTL

(* Every record of redis is in exactly one of "banker:accounts" and        *)
(* "banker:archive", whatever fails and whenever the process ends.         *)
THEOREM EveryRecordInOneSet == Spec => []StoredInOneSet
<1>1. IInv => StoredInOneSet
  BY DEF IInv
<1> QED
  BY <1>1, Inductive, PTL

(* The sign assertions of checkInvariants() begin to fail only in a step   *)
(* taken while a budget account is overdrawn.                              *)
THEOREM NegativeAmountsOnlyFromOverdraft == Spec => NegativeOnlyFromOverdraft
<1>1. AllNonNegative <=> AllAmountsNonNegative(accounts)
  BY DEF AllNonNegative, AllAmountsNonNegative
<1>2. AllNonNegative' <=> AllAmountsNonNegative(accounts')
  BY DEF AllNonNegative, AllAmountsNonNegative
<1>3. IInv => (~OverdrawnBudget => NoOverdraft(accounts))
  BY NotOverdrawn
<1>4. IInv /\ [Next]_vars =>
        [ AllNonNegative /\ ~OverdrawnBudget => AllNonNegative' ]_vars
  BY <1>1, <1>2, <1>3, NextIInv DEF StepOK
<1> QED
  BY <1>4, Inductive, PTL DEF Spec, NegativeOnlyFromOverdraft

(* As long as no budget account is overdrawn, checkInvariants() finds no   *)
(* negative amount in any account: "Everything but balance must be         *)
(* positive".                                                              *)
THEOREM PositiveWithoutOverdraft ==
    Spec /\ []~OverdrawnBudget => []EverythingButBalancePositive
<1>1. Init => AllNonNegative
  BY NoAccountsGood DEF Init, AllNonNegative, AllAmountsNonNegative
<1>2. AllNonNegative /\ ~OverdrawnBudget
        /\ [ AllNonNegative /\ ~OverdrawnBudget => AllNonNegative' ]_vars
      => AllNonNegative'
  BY DEF AllNonNegative, vars, process
<1>3. Spec => NegativeOnlyFromOverdraft
  BY NegativeAmountsOnlyFromOverdraft
<1> QED
  BY <1>1, <1>2, <1>3, PTL
     DEF Spec, NegativeOnlyFromOverdraft, EverythingButBalancePositive

(* No stored amount is ahead of the one in memory while the first process  *)
(* lives, and so no save is refused as going back in time: the copy that   *)
(* was written is older than the accounts, but no handler lowers an        *)
(* amount. The condition is needed: a transfer from an overdrawn parent    *)
(* lowers two.                                                             *)
THEOREM StorageStaysBehind == Spec /\ []~OverdrawnBudget => []StorageNeverAhead
<1>1. Behind => StorageNeverAhead
  BY DEF Behind, StorageNeverAhead, GrewAll, Grew
<1>2. IInv /\ IInv' /\ Behind /\ ~OverdrawnBudget /\ [Next]_vars => Behind'
  BY NextBehind
<1> QED
  BY <1>1, <1>2, InitBehind, Inductive, PTL DEF Spec

(* What the comment in onPhase1Result says, that no stored number goes     *)
(* down, is true of every write of the first process without an overdraft. *)
(* The counterexample of the run lostamounts needs the restart: an account *)
(* that was archived is not loaded, and starts again from zero.            *)
THEOREM FirstProcessStoresForward ==
    Spec /\ []~OverdrawnBudget /\ []FirstProcess => StoredAmountsNeverGoDown
<1>1. IInv /\ IInv' /\ Behind /\ ~OverdrawnBudget /\ [Next]_vars => Behind'
  BY NextBehind
<1>2. IInv /\ IInv' /\ Behind /\ ~OverdrawnBudget /\ FirstProcess /\ FirstProcess'
        /\ [Next]_vars
      => [ \A k \in DOMAIN records :
             \A f \in AmountFields : records'[k][f] >= records[k][f] ]_vars
  <2> SUFFICES ASSUME IInv, IInv', Behind, ~OverdrawnBudget, FirstProcess, FirstProcess',
                      [Next]_vars, NEW k \in DOMAIN records, NEW f \in AmountFields
               PROVE  records'[k][f] >= records[k][f]
    OBVIOUS
  <2>1. GrewAll(records, records')
    BY NextBehind
  <2>2. records[k] \in AccountRecord /\ k \in DOMAIN records' /\ records'[k] \in AccountRecord
    BY <2>1, MapElement DEF GrewAll, IInv, TypeOK
  <2>3. records[k][f] \in Int /\ records'[k][f] \in Int
    BY <2>2 DEF AccountRecord, AmountFields
  <2>4. records[k][f] <= records'[k][f]
    BY <2>1 DEF GrewAll, Grew
  <2> QED
    BY <2>3, <2>4
<1> QED
  BY <1>1, <1>2, InitBehind, Inductive, PTL DEF Spec, StoredAmountsNeverGoDown

(* LeavesFirst is an invariant.                                            *)
LEMMA LeavesInvariant == Spec => []LeavesFirst
<1>1. IInv /\ LeavesFirst /\ [Next]_vars => LeavesFirst'
  BY NextLeaves
<1> QED
  BY <1>1, InitLeaves, Inductive, PTL DEF Spec

(* In the step that closes an account its direct children are closed       *)
(* already and, below the top level, it has been emptied into its parent:  *)
(* for every forest of accounts, with signals and the persisting thread    *)
(* between the steps of a close, and also when an exception cuts the       *)
(* recursion short.  Of accounts further below it says nothing (closehole).*)
THEOREM ClosedFromTheLeaves == Spec => CloseFromTheLeaves
<1>1. IInv /\ LeavesFirst /\ [Next]_vars => [ ClosesLeaves(accounts, accounts') ]_vars
  BY NextLeaves
<1>2. [ ClosesLeaves(accounts, accounts') ]_vars =>
      [ \A k \in DOMAIN accounts \cap DOMAIN accounts' :
          accounts[k].status = "active" /\ accounts'[k].status = "closed" =>
             /\ \A c \in Children(accounts', k) : accounts'[c].status = "closed"
             /\ Len(k) > 1 => accounts'[k].balance <= 0 ]_vars
  BY DEF ClosesLeaves
<1> QED
  BY <1>1, <1>2, LeavesInvariant, Inductive, PTL DEF Spec, CloseFromTheLeaves

(* A new process can load whatever the earlier ones stored: every member   *)
(* has a record that parses, and the parents of members are stored as      *)
(* budget accounts or are not members. Needed are the hypotheses: a        *)
(* process that went on without having loaded redis may store another      *)
(* type, and a negative amount does not parse.                             *)
THEOREM RestartAlwaysPossible ==
    ASSUME LoadMayFail = FALSE
    PROVE  Spec /\ []AllNonNegative => []RestartPossible
<1>1. IInv /\ AllNonNegative /\ Loadable /\ [Next]_vars => Loadable'
  BY NextLoadable
<1>2. Loadable => RestartPossible
  BY DEF Loadable
<1> QED
  BY <1>1, <1>2, InitLoadable, Inductive, PTL DEF Spec

(* So an overdrawn budget account is the one thing that can make the       *)
(* database impossible to load.                                            *)
COROLLARY RestartPossibleWithoutOverdraft ==
    ASSUME LoadMayFail = FALSE
    PROVE  Spec /\ []~OverdrawnBudget => []RestartPossible
  BY RestartAlwaysPossible, PositiveWithoutOverdraft, PTL
     DEF EverythingButBalancePositive

----------------------------------------------------------------------------
(* The banker keeps a Ledger.                                              *)

\* What a map says of an account, if it is there.
Was(m, k) == IF k \in DOMAIN m THEN Entry(k, m[k]) ELSE Bank!NewEntry

\* From one entry of an account to the next: its money is the same, or it was
\* funded, or used, or went to or came from another account.
SameMoney(a, b) == b.held = a.held /\ b.funded = a.funded /\ b.used = a.used
Funded(a, b) == b.held - a.held = b.funded - a.funded /\ b.used = a.used
Used(a, b)   == b.held - a.held = a.used - b.used /\ b.funded = a.funded
Passed(a, b) == b.funded = a.funded /\ b.used = a.used

\* The accounts but for S have the money they had.
RestSame(m, n, S) ==
    \A j \in DOMAIN n \ S : SameMoney(Was(m, j), Entry(j, n[j]))

\* No account is closed.
Opens(m, n) ==
    \A k \in DOMAIN n :
        Was(m, k).status = "active" => Entry(k, n[k]).status = "active"

\* Accounts may appear or become active, but no money moves.
Quiet(m, n) == DOMAIN m \subseteq DOMAIN n /\ RestSame(m, n, {}) /\ Opens(m, n)

\* Ledger!Transaction, between two maps of accounts.
Transacts(m, n) ==
    /\ DOMAIN m \subseteq DOMAIN n
    /\ \/ RestSame(m, n, {})
       \/ \E k \in DOMAIN n : /\ \/ Funded(Was(m, k), Entry(k, n[k]))
                                 \/ Used(Was(m, k), Entry(k, n[k]))
                              /\ RestSame(m, n, {k})
       \/ \E k, p \in DOMAIN n :
            /\ Len(k) > 1 /\ p = Front(k)
            /\ Passed(Was(m, k), Entry(k, n[k]))
            /\ Passed(Was(m, p), Entry(p, n[p]))
            /\ Entry(p, n[p]).held - Was(m, p).held
                 = Was(m, k).held - Entry(k, n[k]).held
            /\ RestSame(m, n, {k, p})

\* Ledger!ClosedEmpty.
ClosesEmpty(m, n) ==
    \A k \in DOMAIN n :
        Was(m, k).status = "active" /\ Entry(k, n[k]).status # "active" =>
            (Len(k) > 1 => Entry(k, n[k]).held <= 0)

IsEntry(e) == /\ e.held \in Int /\ e.funded \in Int /\ e.used \in Int

(* Entries have integers.                                                  *)
LEMMA EntryTyped ==
    ASSUME NEW a \in AccountRecord, NEW k
    PROVE  IsEntry(Entry(k, a))
<1>1. /\ a.balance \in Int
      /\ a.adjustmentsIn \in Int /\ a.adjustmentsOut \in Int
      /\ a.budgetIncreases \in Int /\ a.budgetDecreases \in Int
      /\ a.spent \in Int /\ a.commitmentsMade \in Int
      /\ a.commitmentsRetired \in Int
  BY DEF AccountRecord
<1> QED BY <1>1 DEF Entry, IsEntry

LEMMA WasTyped ==
    ASSUME NEW m, IsAccountMap(m), NEW k
    PROVE  IsEntry(Was(m, k))
<1>1. IsEntry(Bank!NewEntry)
  BY DEF IsEntry, Bank!NewEntry
<1>2. k \in DOMAIN m => IsEntry(Entry(k, m[k]))
  BY MapElement, EntryTyped
<1> QED BY <1>1, <1>2 DEF Was

(* A change of status, or nothing, moves no money.                         *)
LEMMA QuietItself ==
    ASSUME NEW m
    PROVE  Quiet(m, m)
  BY DEF Quiet, RestSame, Opens, SameMoney, Was

LEMMA QuietTransacts ==
    ASSUME NEW m, NEW n, Quiet(m, n)
    PROVE  Transacts(m, n) /\ Opens(m, n)
  BY DEF Quiet, Transacts

(* Something quiet before a transaction is part of it.                     *)
LEMMA TransactsAfterQuiet ==
    ASSUME NEW m, NEW a, NEW n, Quiet(m, a), Transacts(a, n), Opens(a, n)
    PROVE  Transacts(m, n) /\ Opens(m, n)
<1>1. DOMAIN m \subseteq DOMAIN a /\ DOMAIN a \subseteq DOMAIN n
  BY DEF Quiet, Transacts
<1>2. \A j : /\ SameMoney(Was(m, j), Was(a, j))
             /\ Was(m, j).status = "active" => Was(a, j).status = "active"
  BY <1>1 DEF Quiet, RestSame, Opens, SameMoney, Was
<1>3. \A S : RestSame(a, n, S) => RestSame(m, n, S)
  BY <1>2 DEF RestSame, SameMoney
<1>4. \A k, e : /\ Funded(Was(a, k), e) => Funded(Was(m, k), e)
                /\ Used(Was(a, k), e) => Used(Was(m, k), e)
                /\ Passed(Was(a, k), e) => Passed(Was(m, k), e)
  BY <1>2 DEF SameMoney, Funded, Used, Passed
<1>5. \A k : Was(m, k).held = Was(a, k).held
  BY <1>2 DEF SameMoney
<1>6. Opens(m, n)
  BY <1>2 DEF Opens
<1>7. DOMAIN m \subseteq DOMAIN n
  BY <1>1
<1>8. CASE RestSame(a, n, {})
  BY <1>3, <1>6, <1>7, <1>8 DEF Transacts
<1>9. CASE \E k \in DOMAIN n : /\ \/ Funded(Was(a, k), Entry(k, n[k]))
                                 \/ Used(Was(a, k), Entry(k, n[k]))
                              /\ RestSame(a, n, {k})
  BY <1>3, <1>4, <1>6, <1>7, <1>9 DEF Transacts
<1>10. CASE \E k, p \in DOMAIN n :
            /\ Len(k) > 1 /\ p = Front(k)
            /\ Passed(Was(a, k), Entry(k, n[k]))
            /\ Passed(Was(a, p), Entry(p, n[p]))
            /\ Entry(p, n[p]).held - Was(a, p).held
                 = Was(a, k).held - Entry(k, n[k]).held
            /\ RestSame(a, n, {k, p})
  <2>1. PICK k \in DOMAIN n, p \in DOMAIN n :
            /\ Len(k) > 1 /\ p = Front(k)
            /\ Passed(Was(a, k), Entry(k, n[k]))
            /\ Passed(Was(a, p), Entry(p, n[p]))
            /\ Entry(p, n[p]).held - Was(a, p).held
                 = Was(a, k).held - Entry(k, n[k]).held
            /\ RestSame(a, n, {k, p})
    BY <1>10
  <2>2. /\ Passed(Was(m, k), Entry(k, n[k]))
        /\ Passed(Was(m, p), Entry(p, n[p]))
        /\ RestSame(m, n, {k, p})
    BY <1>3, <1>4, <2>1
  <2>3. Entry(p, n[p]).held - Was(m, p).held = Was(m, k).held - Entry(k, n[k]).held
    BY <1>5, <2>1
  <2> QED BY <1>6, <1>7, <2>1, <2>2, <2>3 DEF Transacts
<1> QED BY <1>8, <1>9, <1>10 DEF Transacts

(* Two quiet changes are one.                                              *)
LEMMA QuietTwice ==
    ASSUME NEW m, NEW a, NEW n, Quiet(m, a), Quiet(a, n)
    PROVE  Quiet(m, n)
<1>1. DOMAIN m \subseteq DOMAIN a /\ DOMAIN a \subseteq DOMAIN n
  BY DEF Quiet
<1>2. \A j : /\ SameMoney(Was(m, j), Was(a, j))
             /\ Was(m, j).status = "active" => Was(a, j).status = "active"
  BY <1>1 DEF Quiet, RestSame, Opens, SameMoney, Was
<1>3. RestSame(m, n, {}) /\ Opens(m, n)
  BY <1>2 DEF Quiet, RestSame, SameMoney, Opens
<1> QED BY <1>1, <1>3 DEF Quiet

(* A reactivation is quiet.                                                *)
LEMMA ReactivateQuiet ==
    ASSUME NEW m, IsAccountMap(m), NEW k
    PROVE  Quiet(m, reactivatePresentAccounts(m, k))
<1> DEFINE n == reactivatePresentAccounts(m, k)
<1>1. /\ DOMAIN n = DOMAIN m
      /\ \A j \in DOMAIN m : n[j] = m[j] \/ n[j] = [ m[j] EXCEPT !.status = "active" ]
  BY DEF reactivatePresentAccounts
<1> HIDE DEF n
<1>2. ASSUME NEW j \in DOMAIN n
      PROVE  /\ SameMoney(Was(m, j), Entry(j, n[j]))
             /\ Was(m, j).status = "active" => Entry(j, n[j]).status = "active"
  <2>1. m[j] \in AccountRecord /\ Was(m, j) = Entry(j, m[j])
    BY <1>1, MapElement DEF Was
  <2>2. CASE n[j] = m[j]
    BY <2>1, <2>2 DEF SameMoney
  <2>3. CASE n[j] = [ m[j] EXCEPT !.status = "active" ]
    <3>1. /\ n[j].status = "active" /\ n[j].balance = m[j].balance
          /\ n[j].adjustmentsIn = m[j].adjustmentsIn
          /\ n[j].adjustmentsOut = m[j].adjustmentsOut
          /\ n[j].budgetIncreases = m[j].budgetIncreases
          /\ n[j].budgetDecreases = m[j].budgetDecreases
          /\ n[j].spent = m[j].spent
          /\ n[j].commitmentsMade = m[j].commitmentsMade
          /\ n[j].commitmentsRetired = m[j].commitmentsRetired
      BY <2>1, <2>3 DEF AccountRecord
    <3>2. /\ Entry(j, n[j]).held = Entry(j, m[j]).held
          /\ Entry(j, n[j]).used = Entry(j, m[j]).used
          /\ Entry(j, n[j]).status = "active"
      BY <3>1 DEF Entry
    <3>3. Entry(j, n[j]).funded = Entry(j, m[j]).funded
      BY <3>1 DEF Entry
    <3> QED BY <2>1, <3>2, <3>3 DEF SameMoney
  <2> QED BY <1>1, <2>2, <2>3
<1>3. Quiet(m, n)
  BY <1>1, <1>2 DEF Quiet, RestSame, Opens
<1> QED BY <1>3 DEF n

(* So is the creation of accounts.                                         *)
LEMMA EnsureQuiet ==
    ASSUME NEW m, NEW k, NEW t
    PROVE  Quiet(m, ensureAccount(m, k, t))
<1> DEFINE n == ensureAccount(m, k, t)
<1>1. /\ DOMAIN m \subseteq DOMAIN n
      /\ \A j \in DOMAIN m : n[j] = m[j]
      /\ \A j \in DOMAIN n \ DOMAIN m : \E u : n[j] = NewAccount(u)
  BY DEF ensureAccount
<1> HIDE DEF n
<1>2. \A j, u : Entry(j, NewAccount(u)) = Bank!NewEntry
  <2> SUFFICES ASSUME NEW j, NEW u PROVE Entry(j, NewAccount(u)) = Bank!NewEntry
    OBVIOUS
  <2> DEFINE a == NewAccount(u)
  <2>1. /\ a.balance = 0 /\ a.adjustmentsIn = 0 /\ a.adjustmentsOut = 0
        /\ a.budgetIncreases = 0 /\ a.budgetDecreases = 0 /\ a.spent = 0
        /\ a.commitmentsMade = 0 /\ a.commitmentsRetired = 0 /\ a.status = "active"
    BY DEF NewAccount
  <2> HIDE DEF a
  <2> DEFINE funded == a.adjustmentsIn - a.adjustmentsOut
                       + (IF Len(j) = 1 THEN a.budgetIncreases - a.budgetDecreases
                          ELSE 0)
             used == a.spent + a.commitmentsMade - a.commitmentsRetired
  <2>2. funded = 0 /\ used = 0
    BY <2>1
  <2>3. Entry(j, a) = [ held |-> a.balance, funded |-> funded, used |-> used,
                        status |-> a.status ]
    BY DEF Entry
  <2> HIDE DEF funded, used
  <2>4. Entry(j, a) = Bank!NewEntry
    BY <2>1, <2>2, <2>3 DEF Bank!NewEntry
  <2> QED BY <2>4 DEF a
<1>3. ASSUME NEW j \in DOMAIN n
      PROVE  Entry(j, n[j]) = Was(m, j)
  BY <1>1, <1>2 DEF Was
<1>4. Quiet(m, n)
  BY <1>1, <1>3 DEF Quiet, RestSame, Opens, SameMoney
<1> QED BY <1>4 DEF n

(* One account is funded or used.                                          *)
LEMMA UpdateTransacts ==
    ASSUME NEW m, IsAccountMap(m), NEW k \in DOMAIN m, NEW b,
           Funded(Entry(k, m[k]), Entry(k, b)) \/ Used(Entry(k, m[k]), Entry(k, b)),
           Entry(k, m[k]).status = "active" => Entry(k, b).status = "active"
    PROVE  /\ Transacts(m, [ m EXCEPT ![k] = b ])
           /\ Opens(m, [ m EXCEPT ![k] = b ])
<1> DEFINE n == [ m EXCEPT ![k] = b ]
<1>1. DOMAIN n = DOMAIN m /\ n[k] = b /\ \A j \in DOMAIN m : j # k => n[j] = m[j]
  BY DEF IsAccountMap
<1> HIDE DEF n
<1>2. RestSame(m, n, {k}) /\ Opens(m, n)
  BY <1>1 DEF RestSame, Opens, SameMoney, Was
<1>3. Was(m, k) = Entry(k, m[k])
  BY DEF Was
<1>4. Transacts(m, n)
  BY <1>1, <1>2, <1>3 DEF Transacts
<1> QED BY <1>2, <1>4 DEF n

(* An adjustment funds its account.                                        *)
LEMMA AdjustmentTransacts ==
    ASSUME NEW m, IsAccountMap(m), NEW k \in DOMAIN m, NEW v \in Int
    PROVE  /\ Transacts(m, [ m EXCEPT ![k] = addAdjustment(m[k], v) ])
           /\ Opens(m, [ m EXCEPT ![k] = addAdjustment(m[k], v) ])
<1> DEFINE a == m[k]
           b == addAdjustment(a, v)
<1>1. /\ a.balance \in Int /\ a.adjustmentsIn \in Int /\ a.adjustmentsOut \in Int
      /\ a.budgetIncreases \in Int /\ a.budgetDecreases \in Int
      /\ a \in AccountRecord
  BY MapElement DEF AccountRecord
<1>2. nonNegative(v) \in Int /\ nonNegative(-v) \in Int
      /\ nonNegative(v) - nonNegative(-v) = v
  BY DEF nonNegative
<1>3. /\ b.balance = a.balance + v
      /\ b.adjustmentsIn = a.adjustmentsIn + nonNegative(v)
      /\ b.adjustmentsOut = a.adjustmentsOut + nonNegative(-v)
      /\ b.budgetIncreases = a.budgetIncreases
      /\ b.budgetDecreases = a.budgetDecreases
      /\ b.spent = a.spent /\ b.commitmentsMade = a.commitmentsMade
      /\ b.commitmentsRetired = a.commitmentsRetired /\ b.status = a.status
  BY <1>1 DEF addAdjustment, AccountRecord
<1> HIDE DEF a, b
<1>4. /\ Funded(Entry(k, a), Entry(k, b))
      /\ Entry(k, a).status = "active" => Entry(k, b).status = "active"
  BY <1>1, <1>2, <1>3 DEF Funded, Entry
<1> QED BY <1>4, UpdateTransacts DEF a, b

(* A budget funds an account at the top.                                   *)
LEMMA BudgetTransacts ==
    ASSUME NEW m, IsAccountMap(m), NEW k \in DOMAIN m, Len(k) = 1, NEW v \in Int
    PROVE  /\ Transacts(m, [ m EXCEPT ![k] = setBudget(m[k], v) ])
           /\ Opens(m, [ m EXCEPT ![k] = setBudget(m[k], v) ])
<1> DEFINE a == m[k]
           b == setBudget(a, v)
           wanted == v - (a.budgetIncreases - a.budgetDecreases)
           extra == IF a.balance + wanted >= 0 THEN wanted ELSE -a.balance
<1>1. /\ a.balance \in Int /\ a.adjustmentsIn \in Int /\ a.adjustmentsOut \in Int
      /\ a.budgetIncreases \in Int /\ a.budgetDecreases \in Int
      /\ a \in AccountRecord
  BY MapElement DEF AccountRecord
<1>2. extra \in Int
  BY <1>1
<1>3. /\ b.balance = a.balance + extra
      /\ b.budgetIncreases = a.budgetIncreases + nonNegative(extra)
      /\ b.budgetDecreases = a.budgetDecreases + nonNegative(-extra)
      /\ b.adjustmentsIn = a.adjustmentsIn
      /\ b.adjustmentsOut = a.adjustmentsOut
      /\ b.spent = a.spent /\ b.commitmentsMade = a.commitmentsMade
      /\ b.commitmentsRetired = a.commitmentsRetired /\ b.status = "active"
  BY <1>1 DEF setBudget, AccountRecord
<1> HIDE DEF a, b, extra, wanted
<1>4. nonNegative(extra) \in Int /\ nonNegative(-extra) \in Int
      /\ nonNegative(extra) - nonNegative(-extra) = extra
  BY <1>2 DEF nonNegative
<1>5. /\ Entry(k, b).used = Entry(k, a).used /\ Entry(k, b).status = "active"
      /\ Entry(k, b).held = Entry(k, a).held + extra
  BY <1>1, <1>2, <1>3 DEF Entry
<1>6. Entry(k, b).funded = Entry(k, a).funded + extra
  BY <1>1, <1>2, <1>3, <1>4 DEF Entry
<1>7. IsEntry(Entry(k, a))
  BY <1>1, EntryTyped
<1>8. Funded(Entry(k, a), Entry(k, b))
  BY <1>2, <1>5, <1>6, <1>7 DEF Funded, IsEntry
<1> QED BY <1>5, <1>8, UpdateTransacts DEF a, b

(* A shadow's report says what was used.                                   *)
LEMMA SyncTransacts ==
    ASSUME NEW m, IsAccountMap(m), NEW k, NEW s \in ShadowRecord
    PROVE  /\ Transacts(m, syncFromShadow(m, k, s))
           /\ Opens(m, syncFromShadow(m, k, s))
<1> DEFINE a == m[k]
           b == syncToMaster(s, a)
           n == [ m EXCEPT ![k] = b ]
<1>1. ASSUME k \in DOMAIN m PROVE Transacts(m, n) /\ Opens(m, n)
  <2>1. /\ a.balance \in Int /\ a.adjustmentsIn \in Int /\ a.adjustmentsOut \in Int
        /\ a.spent \in Int /\ a.commitmentsMade \in Int
        /\ a.commitmentsRetired \in Int /\ a \in AccountRecord
    BY <1>1, MapElement DEF AccountRecord
  <2>2. s.spent \in Int /\ s.commitmentsMade \in Int /\ s.commitmentsRetired \in Int
    BY DEF ShadowRecord
  <2>3. /\ b.balance = a.balance + ((s.commitmentsRetired - a.commitmentsRetired)
                         - (s.commitmentsMade - a.commitmentsMade)
                         - (s.spent - a.spent))
        /\ b.budgetIncreases = a.budgetIncreases
        /\ b.budgetDecreases = a.budgetDecreases
        /\ b.adjustmentsIn = a.adjustmentsIn
        /\ b.adjustmentsOut = a.adjustmentsOut
        /\ b.spent = s.spent /\ b.commitmentsMade = s.commitmentsMade
        /\ b.commitmentsRetired = s.commitmentsRetired /\ b.status = a.status
    BY <2>1 DEF syncToMaster, AccountRecord
  <2> HIDE DEF a, b
  <2>4. /\ Used(Entry(k, a), Entry(k, b))
        /\ Entry(k, a).status = "active" => Entry(k, b).status = "active"
    BY <2>1, <2>2, <2>3 DEF Used, Entry
  <2> QED BY <1>1, <2>4, UpdateTransacts DEF a, b
<1>2. syncFromShadow(m, k, s) \in { n, m } /\ (k \notin DOMAIN m => syncFromShadow(m, k, s) = m)
  BY DEF syncFromShadow
<1> HIDE DEF n
<1> QED BY <1>1, <1>2, QuietItself, QuietTransacts

(* Money passes between an account and its parent.                         *)
LEMMA TransferTransacts ==
    ASSUME NEW m, IsAccountMap(m), NEW k \in DOMAIN m, Len(k) > 1,
           NEW p \in DOMAIN m, p = Front(k), NEW b, NEW c, NEW x \in Int,
           Passed(Entry(k, m[k]), Entry(k, b)), Passed(Entry(p, m[p]), Entry(p, c)),
           b.balance = m[k].balance + x, c.balance = m[p].balance - x,
           b.status = m[k].status, c.status = m[p].status
    PROVE  /\ Transacts(m, [ m EXCEPT ![k] = b, ![p] = c ])
           /\ Opens(m, [ m EXCEPT ![k] = b, ![p] = c ])
<1> DEFINE n == [ m EXCEPT ![k] = b, ![p] = c ]
<1>1. k # p
  BY MapElement, ParentIsAncestor
<1>2. /\ DOMAIN n = DOMAIN m /\ n[k] = b /\ n[p] = c
      /\ \A j \in DOMAIN m : j # k /\ j # p => n[j] = m[j]
  BY <1>1 DEF IsAccountMap
<1> HIDE DEF n
<1>3. /\ Was(m, k) = Entry(k, m[k]) /\ Was(m, p) = Entry(p, m[p])
      /\ RestSame(m, n, {k, p})
  BY <1>2 DEF RestSame, SameMoney, Was
<1>4. Opens(m, n)
  <2>1. \A j \in DOMAIN m : n[j].status = m[j].status
    BY <1>2
  <2> QED BY <1>2, <2>1 DEF Opens, Was, Entry
<1>5. Entry(p, n[p]).held - Was(m, p).held = Was(m, k).held - Entry(k, n[k]).held
  <2>1. m[k].balance \in Int /\ m[p].balance \in Int
    BY MapElement DEF AccountRecord
  <2> QED BY <1>2, <1>3, <2>1 DEF Entry
<1>6. Passed(Was(m, k), Entry(k, n[k])) /\ Passed(Was(m, p), Entry(p, n[p]))
  BY <1>2, <1>3
<1>7. Transacts(m, n)
  BY <1>2, <1>3, <1>5, <1>6 DEF Transacts
<1> QED BY <1>4, <1>7 DEF n

(* A key below the top is longer than 1.                                   *)
LEMMA LongKey ==
    ASSUME NEW m, IsAccountMap(m), NEW k \in DOMAIN m, Len(k) > 1
    PROVE  Len(k) # 1
<1>1. k \in Seq(STRING)
  BY MapElement, KeysAssumption
<1>2. Len(k) \in Nat
  BY <1>1
<1>3. \A i \in Nat : i > 1 => i # 1
  OBVIOUS
<1> QED BY <1>2, <1>3

(* setBalance passes money between an account and its parent.              *)
LEMMA SetBalanceTransacts ==
    ASSUME NEW m, IsAccountMap(m), NEW k, NEW v \in Int
    PROVE  Transacts(m, setBalance(m, k, v)) /\ Opens(m, setBalance(m, k, v))
<1> DEFINE p == Front(k)
           t == Transfer(m[k], m[p], v)
           moves == k \in DOMAIN m /\ HasParent(m, k) /\ checkInvariants(m[k])
           n == setBalance(m, k, v)
<1>1. CASE ~moves
  BY <1>1, QuietItself, QuietTransacts DEF setBalance
<1>2. CASE moves
  <2> DEFINE b == TransferChild(m[k], t)
             c == TransferParent(m[p], t)
             x == t.fromRecycled + t.fromBudget - t.toRecycled
  <2>1. /\ p \in DOMAIN m /\ k \in DOMAIN m /\ Len(k) > 1
        /\ m[k] \in AccountRecord /\ m[p] \in AccountRecord
    BY <1>2, MapElement DEF HasParent
  <2>2. k # p
    BY <1>2, <2>1, MapElement, ParentIsAncestor
  <2>3. t.fromRecycled \in Int /\ t.fromBudget \in Int /\ t.toRecycled \in Int
    BY <2>1, TransferOK DEF TransferRecord
  <2>4. n = [ m EXCEPT ![k] = b, ![p] = c ]
    BY <1>2, <2>1, <2>2 DEF setBalance
  <2> HIDE DEF t, p, n
  <2>5. /\ b.balance = m[k].balance + x
        /\ b.adjustmentsIn = m[k].adjustmentsIn
        /\ b.adjustmentsOut = m[k].adjustmentsOut
        /\ b.spent = m[k].spent /\ b.commitmentsMade = m[k].commitmentsMade
        /\ b.commitmentsRetired = m[k].commitmentsRetired
        /\ b.status = m[k].status
    BY <2>1 DEF TransferChild, AccountRecord
  <2>6. /\ c.balance = m[p].balance + (t.toRecycled - t.fromRecycled - t.fromBudget)
        /\ c.budgetIncreases = m[p].budgetIncreases
        /\ c.budgetDecreases = m[p].budgetDecreases
        /\ c.adjustmentsIn = m[p].adjustmentsIn
        /\ c.adjustmentsOut = m[p].adjustmentsOut
        /\ c.spent = m[p].spent /\ c.commitmentsMade = m[p].commitmentsMade
        /\ c.commitmentsRetired = m[p].commitmentsRetired
        /\ c.status = m[p].status
    BY <2>1 DEF TransferParent, AccountRecord
  <2>7. x \in Int /\ c.balance = m[p].balance - x
    <3>1. m[p].balance \in Int
      BY <2>1 DEF AccountRecord
    <3> QED BY <2>3, <2>6, <3>1
  <2> HIDE DEF b, c, x
  <2>8. Passed(Entry(k, m[k]), Entry(k, b)) /\ Passed(Entry(p, m[p]), Entry(p, c))
    <3>1. Len(k) # 1
      BY <2>1, LongKey
    <3> QED BY <2>5, <2>6, <3>1 DEF Passed, Entry
  <2>9. Transacts(m, n) /\ Opens(m, n)
    BY <2>1, <2>4, <2>5, <2>6, <2>7, <2>8, TransferTransacts DEF p
  <2> QED BY <2>9 DEF n
<1> QED BY <1>1, <1>2

(* A step of a close does too, and leaves the account closed and empty.    *)
LEMMA CloseOneTransacts ==
    ASSUME NEW m, GoodMap(m), NEW k \in DOMAIN m
    PROVE  Transacts(m, closeOne(m, k)) /\ ClosesEmpty(m, closeOne(m, k))
<1> DEFINE r == Recuperated(m, k)
           e == [ r EXCEPT ![k].status = "closed" ]
           n == closeOne(m, k)
<1>1. IsAccountMap(m) /\ m[k] \in AccountRecord /\ k \in Keys
  BY MapElement DEF GoodMap
<1>2. IsAccountMap(r) /\ DOMAIN r = DOMAIN m
  <2>1. Keeps(m, r)
    BY RecuperatedKeeps
  <2> QED BY <2>1 DEF Keeps
<1>3. Transacts(m, r)
  <2>1. CASE Len(k) = 1
    BY <2>1, QuietItself, QuietTransacts DEF Recuperated
  <2>2. CASE Len(k) # 1
    <3> DEFINE p == Front(k)
               x == -nonNegative(m[k].balance)
               b == RecuperateChild(m[k])
               c == RecuperateParent(m[p], m[k])
    <3>1. Len(k) > 1
      BY <1>1, <2>2, BelowTop
    <3>2. p \in DOMAIN m /\ m[p] \in AccountRecord /\ k # p
      BY <1>1, <3>1, GoodHasParent, ParentIsAncestor, MapElement DEF HasParent
    <3>3. r = [ m EXCEPT ![k] = b, ![p] = c ]
      BY <2>2, <3>2 DEF Recuperated
    <3>4. nonNegative(m[k].balance) \in Int /\ m[k].balance \in Int /\ m[p].balance \in Int
      BY <1>1, <3>2 DEF AccountRecord, nonNegative
    <3>5. /\ b.balance = m[k].balance - nonNegative(m[k].balance)
          /\ b.adjustmentsIn = m[k].adjustmentsIn
          /\ b.adjustmentsOut = m[k].adjustmentsOut
          /\ b.spent = m[k].spent /\ b.commitmentsMade = m[k].commitmentsMade
          /\ b.commitmentsRetired = m[k].commitmentsRetired
          /\ b.status = m[k].status
      BY <1>1 DEF RecuperateChild, AccountRecord
    <3>6. /\ c.balance = m[p].balance + nonNegative(m[k].balance)
          /\ c.budgetIncreases = m[p].budgetIncreases
          /\ c.budgetDecreases = m[p].budgetDecreases
          /\ c.adjustmentsIn = m[p].adjustmentsIn
          /\ c.adjustmentsOut = m[p].adjustmentsOut
          /\ c.spent = m[p].spent /\ c.commitmentsMade = m[p].commitmentsMade
          /\ c.commitmentsRetired = m[p].commitmentsRetired
          /\ c.status = m[p].status
      BY <3>2 DEF RecuperateParent, AccountRecord
    <3>7. x \in Int /\ b.balance = m[k].balance + x /\ c.balance = m[p].balance - x
      <4> HIDE DEF b, c
      <4> QED BY <3>4, <3>5, <3>6
    <3> HIDE DEF b, c, x, p, r
    <3>8. Passed(Entry(k, m[k]), Entry(k, b)) /\ Passed(Entry(p, m[p]), Entry(p, c))
      BY <2>2, <3>5, <3>6 DEF Passed, Entry
    <3> QED
      BY <1>1, <3>1, <3>2, <3>3, <3>5, <3>6, <3>7, <3>8, TransferTransacts DEF p
  <2> QED BY <2>1, <2>2
<1> HIDE DEF r
<1>4. Transacts(m, e)
  <2> DEFINE b == [ r[k] EXCEPT !.status = "closed" ]
  <2>1. r[k] \in AccountRecord /\ k \in DOMAIN r
    BY <1>2, MapElement
  <2>2. /\ b.balance = r[k].balance
        /\ b.budgetIncreases = r[k].budgetIncreases
        /\ b.budgetDecreases = r[k].budgetDecreases
        /\ b.adjustmentsIn = r[k].adjustmentsIn
        /\ b.adjustmentsOut = r[k].adjustmentsOut
        /\ b.spent = r[k].spent /\ b.commitmentsMade = r[k].commitmentsMade
        /\ b.commitmentsRetired = r[k].commitmentsRetired
    BY <2>1 DEF AccountRecord
  <2>3. /\ DOMAIN e = DOMAIN r /\ e[k] = b
        /\ \A j \in DOMAIN r : j # k => e[j] = r[j]
    BY <1>2, <2>1 DEF IsAccountMap
  <2> HIDE DEF b, e
  <2>4. \A j \in DOMAIN e :
           /\ Entry(j, e[j]).held = Entry(j, r[j]).held
           /\ Entry(j, e[j]).funded = Entry(j, r[j]).funded
           /\ Entry(j, e[j]).used = Entry(j, r[j]).used
    BY <2>2, <2>3 DEF Entry
  <2>5. \A j \in DOMAIN e : /\ SameMoney(Was(m, j), Entry(j, r[j])) =>
                                 SameMoney(Was(m, j), Entry(j, e[j]))
                            /\ Passed(Was(m, j), Entry(j, r[j])) =>
                                 Passed(Was(m, j), Entry(j, e[j]))
                            /\ Funded(Was(m, j), Entry(j, r[j])) =>
                                 Funded(Was(m, j), Entry(j, e[j]))
                            /\ Used(Was(m, j), Entry(j, r[j])) =>
                                 Used(Was(m, j), Entry(j, e[j]))
    BY <2>4 DEF SameMoney, Passed, Funded, Used
  <2>6. \A S : RestSame(m, r, S) => RestSame(m, e, S)
    BY <2>3, <2>5 DEF RestSame
  <2>7. DOMAIN e = DOMAIN r
    BY <2>3
  <2> QED BY <1>3, <2>4, <2>5, <2>6, <2>7 DEF Transacts
<1>5. n \in { r, m, e }
  BY DEF closeOne, r, e
<1>6. Transacts(m, n)
  <2> HIDE DEF e, n
  <2> QED BY <1>3, <1>4, <1>5, QuietItself, QuietTransacts
<1>7. ClosesOne(m, n, k)
  BY CloseOneGrew
<1> HIDE DEF n, e
<1>8. ClosesEmpty(m, n)
  BY <1>7 DEF ClosesOne, ClosesEmpty, Was, Entry
<1> QED BY <1>6, <1>8 DEF n

(* Every request is a transaction of the ledger.                           *)
LEMMA HandlerTransacts ==
    ASSUME GoodMap(accounts), Handler
    PROVE  Transacts(accounts, accounts') /\ Opens(accounts, accounts')
<1>1. PICK k \in Keys :
        \/ \E v \in Adjustments : adjustment(k, v)
        \/ \E v \in Balances, t \in AccountType : balance(k, v, t)
        \/ k \in ShadowKeys /\ \E s \in Shadows : shadow(k, s)
        \/ \E v \in Budgets : budget(k, v)
        \/ \E t \in AccountType : create_account(k, t)
        \/ close(k)
  BY DEF Handler
<1> DEFINE active == reactivatePresentAccounts(accounts, k)
<1>2. /\ GoodMap(active) /\ IsAccountMap(active)
      /\ Quiet(accounts, active)
  BY ActiveGrows, ReactivateQuiet DEF GoodMap
<1>3. \A n : Transacts(active, n) /\ Opens(active, n) =>
               Transacts(accounts, n) /\ Opens(accounts, n)
  BY <1>2, TransactsAfterQuiet
<1>4. Transacts(accounts, active) /\ Opens(accounts, active)
  BY <1>2, QuietTransacts
<1>5. CASE \E v \in Adjustments : adjustment(k, v)
  <2>1. PICK v \in Adjustments :
          accounts' = IF k \in DOMAIN active
                      THEN [ active EXCEPT ![k] = addAdjustment(active[k], v) ]
                      ELSE active
    BY <1>5 DEF adjustment
  <2>2. v \in Int
    BY InputsAssumption
  <2> HIDE DEF active
  <2> QED BY <1>2, <1>3, <1>4, <2>1, <2>2, AdjustmentTransacts
<1>6. CASE \E v \in Balances, t \in AccountType : balance(k, v, t)
  <2>1. PICK v \in Balances, t \in AccountType : balance(k, v, t)
    BY <1>6
  <2> DEFINE ensured == ensureAccount(active, k, t)
  <2>2. \/ accounts' = active
        \/ accounts' = setBalance(active, k, v)
        \/ CanEnsure(active, k, t) /\ accounts' = setBalance(ensured, k, v)
    BY <2>1 DEF balance
  <2> HIDE DEF active
  <2>3. Quiet(active, ensured) /\ (CanEnsure(active, k, t) => IsAccountMap(ensured))
    BY <1>2, EnsureQuiet, EnsuredGrows
  <2> HIDE DEF ensured
  <2>4. v \in Int
    BY InputsAssumption
  <2> QED
    BY <1>2, <1>3, <1>4, <2>2, <2>3, <2>4, SetBalanceTransacts, TransactsAfterQuiet
<1>7. CASE k \in ShadowKeys /\ \E s \in Shadows : shadow(k, s)
  <2> DEFINE ensured == ensureAccount(accounts, k, "spend")
  <2>1. PICK s \in Shadows :
                 \/ accounts' = accounts
                 \/ accounts' = syncFromShadow(accounts, k, s)
                 \/ /\ CanEnsure(accounts, k, "spend")
                    /\ accounts' = syncFromShadow(ensured, k, s)
    BY <1>7 DEF shadow
  <2>2. /\ Quiet(accounts, ensured)
        /\ CanEnsure(accounts, k, "spend") => IsAccountMap(ensured)
    BY EnsureQuiet, EnsuredGrows DEF AccountType
  <2> HIDE DEF ensured
  <2>3. s \in ShadowRecord /\ IsAccountMap(accounts)
    BY InputsAssumption DEF GoodMap
  <2> QED
    BY <2>1, <2>2, <2>3, SyncTransacts, TransactsAfterQuiet, QuietItself, QuietTransacts
<1>8. CASE \E v \in Budgets : budget(k, v)
  <2> DEFINE ensured == ensureAccount(active, k, "budget")
  <2>1. PICK v \in Budgets :
                 \/ accounts' = active
                 \/ /\ CanEnsure(active, k, "budget") /\ Len(k) = 1
                    /\ accounts' = [ ensured EXCEPT ![k] = setBudget(ensured[k], v) ]
    BY <1>8 DEF budget
  <2> HIDE DEF active
  <2>2. /\ Quiet(active, ensured)
        /\ CanEnsure(active, k, "budget") => IsAccountMap(ensured) /\ k \in DOMAIN ensured
    BY <1>2, EnsureQuiet, EnsuredGrows DEF AccountType
  <2> HIDE DEF ensured
  <2>3. v \in Int
    BY InputsAssumption
  <2> QED BY <1>3, <1>4, <2>1, <2>2, <2>3, BudgetTransacts, TransactsAfterQuiet
<1>9. CASE \E t \in AccountType : create_account(k, t)
  <2>1. PICK t \in AccountType :
          accounts' = active \/ accounts' = ensureAccount(active, k, t)
    BY <1>9 DEF create_account
  <2> HIDE DEF active
  <2> QED BY <1>3, <1>4, <2>1, EnsureQuiet, QuietTransacts
<1>10. CASE close(k)
  <2>1. accounts' = active
    BY <1>10 DEF close
  <2> HIDE DEF active
  <2> QED BY <1>4, <2>1
<1> QED
  BY <1>1, <1>5, <1>6, <1>7, <1>8, <1>9, <1>10

(* Such a step of the banker is a step of the ledger.                      *)
LEMMA TransactionServes ==
    ASSUME IsAccountMap(accounts), IsAccountMap(accounts'), up # "down",
           Transacts(accounts, accounts'), ClosesEmpty(accounts, accounts'),
           UNCHANGED << up, save, records >>
    PROVE  Bank!Serve
<1> DEFINE m == accounts
           n == accounts'
           E == Entries(accounts)
           F == Entries(accounts)'
<1>1. /\ DOMAIN E = DOMAIN m /\ DOMAIN F = DOMAIN n
      /\ \A k \in DOMAIN m : E[k] = Entry(k, m[k])
      /\ \A k \in DOMAIN n : F[k] = Entry(k, n[k])
  BY DEF Entries
<1>2. \A k : Bank!Before(k) = Was(m, k)
  BY <1>1 DEF Bank!Before, Was
<1> HIDE DEF E, F
<1>3. ASSUME NEW k \in DOMAIN n
      PROVE  /\ Bank!Change(k, "held") = Entry(k, n[k]).held - Was(m, k).held
             /\ Bank!Change(k, "funded") = Entry(k, n[k]).funded - Was(m, k).funded
             /\ Bank!Change(k, "used") = Entry(k, n[k]).used - Was(m, k).used
             /\ IsEntry(Entry(k, n[k])) /\ IsEntry(Was(m, k))
  <2>1. IsEntry(Entry(k, n[k])) /\ IsEntry(Was(m, k))
    BY MapElement, EntryTyped, WasTyped
  <2> QED BY <1>1, <1>2, <2>1 DEF Bank!Change, F
<1>4. ASSUME NEW k \in DOMAIN n
      PROVE  /\ SameMoney(Was(m, k), Entry(k, n[k])) => Bank!Keep(k)
             /\ Funded(Was(m, k), Entry(k, n[k])) => Bank!Fund(k)
             /\ Used(Was(m, k), Entry(k, n[k])) => Bank!Use(k)
             /\ Passed(Was(m, k), Entry(k, n[k])) => Bank!Pass(k)
  BY <1>3 DEF SameMoney, Funded, Used, Passed, IsEntry, Bank!Keep, Bank!Fund,
              Bank!Use, Bank!Pass
<1>5. \A S : RestSame(m, n, S) => Bank!Others(S)
  BY <1>1, <1>4 DEF RestSame, Bank!Others, F
<1>6. Bank!Transaction
  <2>1. CASE RestSame(m, n, {})
    BY <1>5, <2>1 DEF Bank!Transaction
  <2>2. CASE \E k \in DOMAIN n : /\ \/ Funded(Was(m, k), Entry(k, n[k]))
                                    \/ Used(Was(m, k), Entry(k, n[k]))
                                 /\ RestSame(m, n, {k})
    <3>1. \E k \in DOMAIN F : (Bank!Fund(k) \/ Bank!Use(k)) /\ Bank!Others({k})
      BY <1>1, <1>4, <1>5, <2>2
    <3> QED BY <3>1 DEF Bank!Transaction, F
  <2>3. CASE \E k, p \in DOMAIN n :
            /\ Len(k) > 1 /\ p = Front(k)
            /\ Passed(Was(m, k), Entry(k, n[k]))
            /\ Passed(Was(m, p), Entry(p, n[p]))
            /\ Entry(p, n[p]).held - Was(m, p).held
                 = Was(m, k).held - Entry(k, n[k]).held
            /\ RestSame(m, n, {k, p})
    <3>1. PICK k \in DOMAIN n, p \in DOMAIN n :
            /\ Len(k) > 1 /\ p = Front(k)
            /\ Passed(Was(m, k), Entry(k, n[k]))
            /\ Passed(Was(m, p), Entry(p, n[p]))
            /\ Entry(p, n[p]).held - Was(m, p).held
                 = Was(m, k).held - Entry(k, n[k]).held
            /\ RestSame(m, n, {k, p})
      BY <2>3
    <3>2. Bank!Change(p, "held") = -Bank!Change(k, "held")
      BY <1>3, <3>1 DEF IsEntry
    <3>3. Bank!Pass(k) /\ Bank!Pass(p) /\ Bank!Others({k, p})
      BY <1>4, <1>5, <3>1
    <3>4. k \in DOMAIN F /\ p \in DOMAIN F
      BY <1>1
    <3>5. \E i, j \in DOMAIN F :
            /\ Len(i) > 1 /\ j = Front(i)
            /\ Bank!Pass(i) /\ Bank!Pass(j)
            /\ Bank!Change(j, "held") = -Bank!Change(i, "held")
            /\ Bank!Others({i, j})
      BY <3>1, <3>2, <3>3, <3>4
    <3>6. \E i, j \in DOMAIN Entries(accounts)' :
            /\ Len(i) > 1 /\ j = Front(i)
            /\ Bank!Pass(i) /\ Bank!Pass(j)
            /\ Bank!Change(j, "held") = -Bank!Change(i, "held")
            /\ Bank!Others({i, j})
      BY <3>5 DEF F
    <3>7. \A s : Bank!Front(s) = Front(s)
      BY DEF Front, Bank!Front
    <3> QED BY <3>6, <3>7 DEF Bank!Transaction
  <2> QED BY <2>1, <2>2, <2>3 DEF Transacts
<1>7. Bank!ClosedEmpty
  <2>1. \A k \in DOMAIN F :
          Bank!Before(k).status = "active" /\ F[k].status # "active" =>
            (Len(k) > 1 => F[k].held <= 0)
    BY <1>1, <1>2 DEF ClosesEmpty
  <2> QED BY <2>1 DEF Bank!ClosedEmpty, F
<1>8. DOMAIN E \subseteq DOMAIN F
  BY <1>1 DEF Transacts
<1> QED BY <1>6, <1>7, <1>8 DEF Bank!Serve, E, F

(* The stored form of a balanced account says what the account says.       *)
LEMMA JsonEntry ==
    ASSUME NEW a \in AccountRecord, Balanced(a), NEW k
    PROVE  /\ Entry(k, fromJson(toJson(a))) = Entry(k, a)
           /\ toJson(a).status = a.status
<1> DEFINE j == toJson(a)
           b == fromJson(j)
<1>1. /\ Credit(a) \in Int /\ Debit(a) \in Int /\ a.balance \in Int
  BY SidesType
<1>2. /\ j \in AccountRecord /\ Credit(j) = Credit(a) /\ Debit(j) = Debit(a)
      /\ j.status = a.status
      /\ \A f \in AmountFields : j[f] = a[f]
  BY DEF toJson, AccountRecord, Credit, Debit, AmountFields
<1> HIDE DEF j
<1>3. /\ b.balance = Credit(j) - Debit(j) /\ b.status = j.status
      /\ \A f \in AmountFields : b[f] = j[f]
  BY <1>2 DEF fromJson, AccountRecord, AmountFields
<1> HIDE DEF b
<1>4. b.balance = a.balance
  BY <1>1, <1>2, <1>3 DEF Balanced
<1>5. /\ b.adjustmentsIn = a.adjustmentsIn /\ b.adjustmentsOut = a.adjustmentsOut
      /\ b.budgetIncreases = a.budgetIncreases
      /\ b.budgetDecreases = a.budgetDecreases
      /\ b.spent = a.spent /\ b.commitmentsMade = a.commitmentsMade
      /\ b.commitmentsRetired = a.commitmentsRetired /\ b.status = a.status
  BY <1>2, <1>3 DEF AmountFields
<1>6. Entry(k, b) = Entry(k, a)
  BY <1>4, <1>5 DEF Entry
<1> QED BY <1>2, <1>6 DEF b, j

(* Without accounts there are no entries.                                  *)
LEMMA NoEntries ==
    ASSUME NEW m, DOMAIN m = {}
    PROVE  Entries(m) = Bank!NoBooks
  BY DEF Entries, Bank!NoBooks

(* An empty database, and no process, is an empty ledger.                  *)
LEMMA InitLedger == Init => Bank!Init
<1> SUFFICES ASSUME Init PROVE Bank!Init
  OBVIOUS
<1>1. DOMAIN NoAccounts = {}
  BY DEF NoAccounts
<1>2. /\ up = "down" /\ accounts = NoAccounts /\ records = NoAccounts
      /\ save.toSave = NoAccounts
  BY DEF Init, NotPersisting
<1>3. Entries(accounts) = Bank!NoBooks /\ Entries(save.toSave) = Bank!NoBooks
  BY <1>1, <1>2, NoEntries
<1>4. [ k \in DOMAIN records |-> Entry(k, fromJson(records[k])) ] = Bank!NoBooks
  BY <1>1, <1>2 DEF Bank!NoBooks
<1> QED BY <1>2, <1>3, <1>4 DEF Bank!Init

----------------------------------------------------------------------------
(* What is stored as active is found by the next load.                     *)

\* A record of an active account is in "banker:accounts".
Listed == \A k \in DOMAIN records : records[k].status = "active" => k \in members

LEMMA InitListed == Init => Listed
  BY DEF Init, Listed, NoAccounts

(* EXEC moves the accounts that changed their status.                      *)
LEMMA ExecListed ==
    ASSUME IInv, Listed, Exec
    PROVE  Listed'
<1> DEFINE cmds == save.cmds
           n == save.toSave
<1>1. /\ IsAccountMap(records) /\ IsAccountMap(n) /\ StoredInOneSet
      /\ save.cmds = storeCommands(n)
  BY MapsTyped DEF IInv, CommandsMatch, Exec
<1>2. /\ cmds.set = (DOMAIN n \ DOMAIN records) \cup
                    { k \in DOMAIN n \cap DOMAIN records : toJson(n[k]) # records[k] }
      /\ cmds.sadd = DOMAIN n \ DOMAIN records
      /\ cmds.toArchive = { k \in DOMAIN n \cap DOMAIN records :
                              /\ toJson(n[k]) # records[k]
                              /\ records[k].status = "active"
                              /\ n[k].status = "closed" }
      /\ cmds.toAccounts = { k \in DOMAIN n \cap DOMAIN records :
                               /\ toJson(n[k]) # records[k]
                               /\ records[k].status = "closed"
                               /\ n[k].status = "active" }
  BY <1>1 DEF storeCommands, Stored
<1>3. /\ DOMAIN records' = DOMAIN records \cup cmds.set
      /\ \A k \in DOMAIN records' :
           records'[k] = IF k \in cmds.set THEN toJson(n[k]) ELSE records[k]
      /\ members' = (members \ cmds.toArchive) \cup cmds.sadd
                    \cup (cmds.toAccounts \cap archive)
  BY DEF Exec
<1>4. \A k \in DOMAIN n : toJson(n[k]).status = n[k].status
  <2>1. \A k \in DOMAIN n : n[k] \in AccountRecord
    BY <1>1, MapElement
  <2> HIDE DEF n
  <2> QED BY <2>1 DEF toJson, AccountRecord
<1>5. \A k \in DOMAIN records : records[k].status \in { "active", "closed" }
  <2>1. \A k \in DOMAIN records : records[k] \in AccountRecord
    BY <1>1, MapElement
  <2> QED BY <2>1 DEF AccountRecord, Status
<1> HIDE DEF cmds, n
<1>6. ASSUME NEW k \in DOMAIN records', records'[k].status = "active"
      PROVE  k \in members'
  <2>1. CASE k \notin cmds.set
    <3>1. k \in members
      BY <1>3, <1>6, <2>1 DEF Listed
    <3>2. k \notin cmds.toArchive
      BY <1>2, <2>1
    <3> QED BY <1>3, <3>1, <3>2
  <2>2. CASE k \in DOMAIN n \ DOMAIN records
    BY <1>2, <1>3, <2>2
  <2>3. CASE k \in cmds.set /\ k \in DOMAIN records
    <3>1. k \in DOMAIN n /\ n[k].status = "active" /\ toJson(n[k]) # records[k]
      BY <1>2, <1>3, <1>4, <1>6, <2>3
    <3>2. k \notin cmds.toArchive
      BY <1>2, <3>1
    <3>3. CASE k \in members
      BY <1>3, <3>2, <3>3
    <3>4. CASE k \notin members
      <4>1. k \in archive /\ records[k].status = "closed"
        BY <1>1, <1>5, <2>3, <3>4 DEF StoredInOneSet, Listed
      <4>2. k \in cmds.toAccounts
        BY <1>2, <2>3, <3>1, <4>1
      <4> QED BY <1>3, <4>1, <4>2
    <3> QED BY <3>3, <3>4
  <2> QED BY <1>2, <2>1, <2>2, <2>3
<1> QED BY <1>6 DEF Listed

(* No other step writes to redis.                                          *)
LEMMA NextListed ==
    ASSUME IInv, Listed, [Next]_vars
    PROVE  Listed'
<1>1. CASE Exec
  BY <1>1, ExecListed
<1>2. CASE UNCHANGED redis
  BY <1>2 DEF Listed, redis
<1>3. Handler => UNCHANGED redis
  BY DEF Handler, adjustment, balance, shadow, budget, create_account, close, Request
<1>4. CloseChild \/ CloseSelf \/ persist \/ onPhase1Result \/ RedisError
        \/ signal_handler => UNCHANGED redis
  BY DEF CloseChild, CloseSelf, persist, onPhase1Result, RedisError, signal_handler
<1>5. MainReturns \/ Crash \/ Start \/ StartUnloaded => UNCHANGED redis
  BY DEF MainReturns, Crash, ProcessGone, Start, StartUnloaded
<1>6. UNCHANGED vars => UNCHANGED redis
  BY DEF vars
<1> QED BY <1>1, <1>2, <1>3, <1>4, <1>5, <1>6 DEF Next

----------------------------------------------------------------------------
(* Every step of the banker is a step of the ledger, or changes nothing    *)
(* that the ledger shows.                                                  *)

\* What the ledger shows stays as it is.
LedgerSame == UNCHANGED << accounts, records >> /\ save'.toSave = save.toSave
              /\ (up' = "down" <=> up = "down")

LEMMA SameStutters ==
    ASSUME LedgerSame
    PROVE  UNCHANGED Bank!vars
<1>1. Entries(accounts)' = Entries(accounts)
  BY DEF LedgerSame, Entries
<1>2. Entries(save.toSave)' = Entries(save.toSave)
  BY DEF LedgerSame, Entries
<1>3. [ k \in DOMAIN records |-> Entry(k, fromJson(records[k])) ]'
        = [ k \in DOMAIN records |-> Entry(k, fromJson(records[k])) ]
  BY DEF LedgerSame
<1>4. (up # "down")' = (up # "down")
  BY DEF LedgerSame
<1> QED BY <1>1, <1>2, <1>3, <1>4 DEF Bank!vars

(* A request, and the step of a close that changes an account.             *)
LEMMA HandlerServes ==
    ASSUME IInv, IInv', Handler
    PROVE  Bank!Serve
<1>1. up = "running" /\ UNCHANGED << up, save, records >>
  BY DEF Handler, adjustment, balance, shadow, budget, create_account, close,
         Request, redis
<1>2. /\ GoodMap(accounts) /\ IsAccountMap(accounts)
      /\ IsAccountMap(accounts')
  BY MapsTyped DEF IInv, TypeOK
<1>3. Transacts(accounts, accounts') /\ ClosesEmpty(accounts, accounts')
  BY <1>2, HandlerTransacts DEF Opens, ClosesEmpty
<1> QED BY <1>1, <1>2, <1>3, TransactionServes

LEMMA CloseSelfServes ==
    ASSUME IInv, IInv', CloseSelf
    PROVE  Bank!Serve
<1>1. closing # <<>> /\ UNCHANGED << up, save, records >>
  BY DEF CloseSelf, redis
<1>2. up # "down"
  BY <1>1 DEF IInv, DownHasNoFrame
<1>3. /\ GoodMap(accounts) /\ IsAccountMap(accounts)
      /\ IsAccountMap(accounts')
  BY MapsTyped DEF IInv, TypeOK
<1>4. Last(closing).key \in DOMAIN accounts
  BY <1>1, LastFrame DEF IInv, TypeOK
<1>5. accounts' = closeOne(accounts, Last(closing).key)
  BY DEF CloseSelf
<1>6. Transacts(accounts, accounts') /\ ClosesEmpty(accounts, accounts')
  BY <1>3, <1>4, <1>5, CloseOneTransacts
<1> QED BY <1>1, <1>2, <1>3, <1>6, TransactionServes

(* The timer, and a signal when no save is going on, take the image.       *)
LEMMA CopyBegins ==
    ASSUME save' = Persisting(accounts), up # "down", up' # "down",
           UNCHANGED << accounts, records >>
    PROVE  Bank!Begin
<1>1. Entries(save.toSave)' = Entries(accounts)
  BY DEF Persisting, Entries
<1>2. Entries(accounts)' = Entries(accounts)
  BY DEF Entries
<1>3. [ k \in DOMAIN records |-> Entry(k, fromJson(records[k])) ]'
        = [ k \in DOMAIN records |-> Entry(k, fromJson(records[k])) ]
  OBVIOUS
<1>4. (up # "down")' = (up # "down")
  OBVIOUS
<1> QED BY <1>1, <1>2, <1>3, <1>4 DEF Bank!Begin

(* A save that writes nothing.                                             *)
LEMMA SaveAbandoned ==
    ASSUME save' = NotPersisting, UNCHANGED << up, accounts, records >>
    PROVE  Bank!Abandon
<1>1. DOMAIN save'.toSave = {}
  BY DEF NotPersisting, NoAccounts
<1>2. Entries(save.toSave)' = Bank!NoBooks
  BY <1>1, NoEntries
<1>3. Entries(accounts)' = Entries(accounts)
  BY DEF Entries
<1>4. [ k \in DOMAIN records |-> Entry(k, fromJson(records[k])) ]'
        = [ k \in DOMAIN records |-> Entry(k, fromJson(records[k])) ]
  OBVIOUS
<1>5. (up # "down")' = (up # "down")
  OBVIOUS
<1> QED BY <1>2, <1>3, <1>4, <1>5 DEF Bank!Abandon

(* EXEC: what it leaves unwritten is stored as the copy has it.            *)
LEMMA ExecCommits ==
    ASSUME IInv, Exec
    PROVE  Bank!Commit
<1> DEFINE n == save.toSave
           old == [ k \in DOMAIN records |-> Entry(k, fromJson(records[k])) ]
           new == [ k \in DOMAIN records |-> Entry(k, fromJson(records[k])) ]'
           both == [ k \in DOMAIN Entries(n) \cup DOMAIN old |->
                       IF k \in DOMAIN Entries(n) THEN Entries(n)[k] ELSE old[k] ]
<1>1. /\ IsAccountMap(n) /\ AllBalanced(n) /\ save.cmds = storeCommands(n)
  BY MapsTyped DEF IInv, CommandsMatch, Exec, BooksBalance, AllBalanced
<1>2. save.cmds.set = { k \in DOMAIN n : k \in DOMAIN records =>
                                            toJson(n[k]) # records[k] }
  BY <1>1 DEF storeCommands, Stored
<1>3. /\ DOMAIN records' = DOMAIN records \cup DOMAIN n
      /\ \A k \in DOMAIN n : records'[k] = toJson(n[k])
      /\ \A k \in DOMAIN records \ DOMAIN n : records'[k] = records[k]
      /\ save' = NotPersisting /\ UNCHANGED << up, accounts >>
  BY <1>2 DEF Exec
<1>4. \A k \in DOMAIN n : Entry(k, fromJson(toJson(n[k]))) = Entry(k, n[k])
  BY <1>1, MapElement, JsonEntry DEF AllBalanced
<1>5. DOMAIN Entries(n) = DOMAIN n /\ \A k \in DOMAIN n : Entries(n)[k] = Entry(k, n[k])
  BY DEF Entries
<1> HIDE DEF n
<1>6. new = both
  <2>1. new = [ k \in DOMAIN records' |-> Entry(k, fromJson(records'[k])) ]
    OBVIOUS
  <2>2. DOMAIN old = DOMAIN records
        /\ \A k \in DOMAIN records : old[k] = Entry(k, fromJson(records[k]))
    OBVIOUS
  <2> HIDE DEF new, old
  <2>3. DOMAIN both = DOMAIN records'
    BY <1>3, <1>5, <2>2
  <2>4. ASSUME NEW k \in DOMAIN records'
        PROVE  both[k] = Entry(k, fromJson(records'[k]))
    <3>1. CASE k \in DOMAIN n
      BY <1>3, <1>4, <1>5, <3>1
    <3>2. CASE k \notin DOMAIN n
      BY <1>3, <1>5, <2>2, <3>2
    <3> QED BY <3>1, <3>2
  <2>5. both = [ k \in DOMAIN both |-> both[k] ]
    OBVIOUS
  <2> HIDE DEF both
  <2> QED BY <2>1, <2>3, <2>4, <2>5
<1>7. DOMAIN save'.toSave = {}
  BY <1>3 DEF NotPersisting, NoAccounts
<1>8. Entries(save.toSave)' = Bank!NoBooks
  BY <1>7, NoEntries
<1>9. Entries(accounts)' = Entries(accounts)
  BY <1>3 DEF Entries
<1>10. (up # "down")' = (up # "down")
  BY <1>3
<1> QED BY <1>6, <1>8, <1>9, <1>10 DEF Bank!Commit, new, old, both, n

(* The process ends.                                                       *)
LEMMA ProcessEnds ==
    ASSUME up # "down", ProcessGone
    PROVE  Bank!End
<1>1. DOMAIN save'.toSave = {} /\ DOMAIN accounts' = {}
      /\ up' = "down" /\ records' = records
  BY DEF ProcessGone, NotPersisting, NoAccounts, redis
<1>2. Entries(save.toSave)' = Bank!NoBooks /\ Entries(accounts)' = Bank!NoBooks
  BY <1>1, NoEntries
<1>3. [ k \in DOMAIN records |-> Entry(k, fromJson(records[k])) ]'
        = [ k \in DOMAIN records |-> Entry(k, fromJson(records[k])) ]
  BY <1>1
<1> QED BY <1>1, <1>2, <1>3 DEF Bank!End

(* A load that redis answers.                                              *)
LEMMA StartReloads ==
    ASSUME IInv, Listed, Start
    PROVE  Bank!Reload
<1> DEFINE n == RestoredAccounts(members, records)
           above == UNION { Ancestors(k) : k \in members }
           loaded(j) == [ fromJson(records[j]) EXCEPT !.status = "active" ]
           image == [ k \in DOMAIN records |-> Entry(k, fromJson(records[k])) ]
<1>1. /\ up = "down" /\ up' = "running" /\ members \subseteq DOMAIN records
      /\ UNCHANGED << save, records >> /\ IsAccountMap(records)
  BY MapsTyped DEF Start, redis, IInv, StoredInOneSet
<1>2. accounts' = n
  BY <1>1 DEF Start
<1>3. /\ DOMAIN n = members \cup above
      /\ \A j \in members : n[j] = loaded(j)
      /\ \A j \in DOMAIN n \ members : n[j] = NewAccount("budget")
  BY DEF RestoredAccounts
<1>4. ASSUME NEW j \in members
      PROVE  Entry(j, loaded(j)) = [ Entry(j, fromJson(records[j]))
                                       EXCEPT !.status = "active" ]
  <2> DEFINE a == fromJson(records[j])
             b == [ a EXCEPT !.status = "active" ]
  <2>1. a \in AccountRecord
    BY <1>1, <1>4, MapElement, JsonOK
  <2> HIDE DEF a
  <2>2. /\ b.balance = a.balance /\ b.status = "active"
        /\ b.adjustmentsIn = a.adjustmentsIn /\ b.adjustmentsOut = a.adjustmentsOut
        /\ b.budgetIncreases = a.budgetIncreases
        /\ b.budgetDecreases = a.budgetDecreases
        /\ b.spent = a.spent /\ b.commitmentsMade = a.commitmentsMade
        /\ b.commitmentsRetired = a.commitmentsRetired
    BY <2>1 DEF AccountRecord
  <2> HIDE DEF b
  <2>3. Entry(j, b) = [ Entry(j, a) EXCEPT !.status = "active" ]
    BY <2>2 DEF Entry
  <2> QED BY <2>3 DEF a, b
<1>5. \A j : Entry(j, NewAccount("budget")) = Bank!NewEntry
  BY DEF Entry, NewAccount, Bank!NewEntry
<1>6. /\ DOMAIN image = DOMAIN records
      /\ \A k \in DOMAIN records : /\ image[k] = Entry(k, fromJson(records[k]))
                                   /\ image[k].status = records[k].status
  <2>1. \A k \in DOMAIN records : fromJson(records[k]).status = records[k].status
    <3>1. \A k \in DOMAIN records : records[k] \in AccountRecord
      BY <1>1, MapElement
    <3> QED BY <3>1 DEF fromJson, AccountRecord
  <2> QED BY <2>1 DEF Entry
<1> HIDE DEF n, above, loaded, image
<1>7. /\ DOMAIN Entries(n) = DOMAIN n
      /\ \A k \in DOMAIN n : Entries(n)[k] = Entry(k, n[k])
  BY DEF Entries
<1>8. Entries(accounts)' = Entries(n)
  BY <1>2 DEF Entries
<1>9. \A k \in DOMAIN image : image[k].status = "active" => k \in DOMAIN Entries(n)
  BY <1>3, <1>6, <1>7 DEF Listed
<1>10. ASSUME NEW k \in DOMAIN Entries(n)
       PROVE  IF k \in DOMAIN image /\ (image[k].status = "active"
                                         \/ Entries(n)[k] # Bank!NewEntry)
              THEN Entries(n)[k] = [ image[k] EXCEPT !.status = "active" ]
              ELSE Entries(n)[k] = Bank!NewEntry
  <2>1. CASE k \in members
    <3>1. k \in DOMAIN image /\ Entries(n)[k] = [ image[k] EXCEPT !.status = "active" ]
      BY <1>1, <1>3, <1>4, <1>6, <1>7, <2>1
    <3> QED BY <3>1
  <2>2. CASE k \notin members
    <3>1. Entries(n)[k] = Bank!NewEntry
      BY <1>3, <1>5, <1>7, <2>2
    <3>2. k \in DOMAIN image => image[k].status # "active"
      BY <1>6, <2>2 DEF Listed
    <3> QED BY <3>1, <3>2
  <2> QED BY <2>1, <2>2
<1>11. image' = image
  BY <1>1 DEF image
<1>12. Entries(save.toSave)' = Entries(save.toSave)
  BY <1>1 DEF Entries
<1>13. ~(up # "down") /\ (up # "down")'
  BY <1>1
<1> QED BY <1>8, <1>9, <1>10, <1>11, <1>12, <1>13 DEF Bank!Reload, image

(* A load that it does not answer.                                         *)
LEMMA StartUnloadedFails ==
    ASSUME DownIsEmpty, StartUnloaded
    PROVE  Bank!ReloadFails
<1>1. /\ up = "down" /\ up' = "running" /\ UNCHANGED << accounts, save, records >>
  BY DEF StartUnloaded, redis
<1>2. DOMAIN accounts' = {}
  BY <1>1 DEF DownIsEmpty
<1>3. Entries(accounts)' = Bank!NoBooks
  BY <1>2, NoEntries
<1>4. Entries(save.toSave)' = Entries(save.toSave)
  BY <1>1 DEF Entries
<1>5. [ k \in DOMAIN records |-> Entry(k, fromJson(records[k])) ]'
        = [ k \in DOMAIN records |-> Entry(k, fromJson(records[k])) ]
  BY <1>1
<1>6. ~(up # "down") /\ (up # "down")'
  BY <1>1
<1> QED BY <1>3, <1>4, <1>5, <1>6 DEF Bank!ReloadFails

(* The refinement, step by step.                                           *)
LEMMA NextLedger ==
    ASSUME IInv, IInv', LeavesFirst, Listed, [Next]_vars
    PROVE  [Bank!Next]_(Bank!vars)
<1>1. CASE Handler
  BY <1>1, HandlerServes DEF Bank!Next
<1>2. CASE CloseSelf
  BY <1>2, CloseSelfServes DEF Bank!Next
<1>3. CASE CloseChild \/ UNCHANGED vars
  <2>1. LedgerSame
    BY <1>3 DEF CloseChild, vars, process, redis, LedgerSame
  <2> QED BY <2>1, SameStutters
<1>4. CASE persist
  <2>1. Bank!Begin
    BY <1>4, CopyBegins DEF persist, redis
  <2> QED BY <2>1 DEF Bank!Next
<1>5. CASE onPhase1Result
  <2>1. UNCHANGED << up, accounts, records >>
    BY <1>5 DEF onPhase1Result, redis
  <2>2. CASE save' = NotPersisting
    BY <2>1, <2>2, SaveAbandoned DEF Bank!Next
  <2>3. CASE save' = [ save EXCEPT !.phase = "exec", !.cmds = storeCommands(save.toSave) ]
    <3>1. save = [ phase |-> save.phase, toSave |-> save.toSave, cmds |-> save.cmds ]
      BY DEF IInv, TypeOK
    <3>2. save'.toSave = save.toSave
      BY <2>3, <3>1
    <3>3. LedgerSame
      BY <2>1, <3>2 DEF LedgerSame
    <3> QED BY <3>3, SameStutters
  <2> QED BY <1>5, <2>2, <2>3 DEF onPhase1Result
<1>6. CASE Exec
  BY <1>6, ExecCommits DEF Bank!Next
<1>7. CASE RedisError
  <2>1. Bank!Abandon
    BY <1>7, SaveAbandoned DEF RedisError, redis
  <2> QED BY <2>1 DEF Bank!Next
<1>8. CASE signal_handler
  <2>1. /\ up # "down" /\ up' # "down" /\ UNCHANGED << accounts, records >>
        /\ save' = Persisting(accounts) \/ save' = save
    BY <1>8 DEF signal_handler, redis
  <2>2. CASE save' = Persisting(accounts)
    BY <2>1, <2>2, CopyBegins DEF Bank!Next
  <2>3. CASE save' = save
    <3>1. LedgerSame
      BY <2>1, <2>3 DEF LedgerSame
    <3> QED BY <3>1, SameStutters
  <2> QED BY <2>1, <2>2, <2>3
<1>9. CASE MainReturns \/ Crash
  <2>1. up # "down" /\ ProcessGone
    BY <1>9 DEF MainReturns, Crash
  <2> QED BY <2>1, ProcessEnds DEF Bank!Next
<1>10. CASE Start
  BY <1>10, StartReloads DEF Bank!Next
<1>11. CASE StartUnloaded
  BY <1>11, StartUnloadedFails DEF Bank!Next, LeavesFirst
<1> QED
  BY <1>1, <1>2, <1>3, <1>4, <1>5, <1>6, <1>7, <1>8, <1>9, <1>10, <1>11 DEF Next

(* Listed is an invariant.                                                 *)
LEMMA ListedInvariant == Spec => []Listed
<1>1. IInv /\ Listed /\ [Next]_vars => Listed'
  BY NextListed
<1> QED BY <1>1, InitListed, Inductive, PTL DEF Spec

(* The master banker keeps a Ledger, for every set of keys and amounts:    *)
(* money comes from adjustments and budgets, goes by what shadows report   *)
(* and otherwise only between an account and its parent; what redis holds  *)
(* changes only by the whole image of one moment; and a load that redis    *)
(* answers misses no active account and changes no amount.                 *)
THEOREM BankKeepsLedger == Spec => KeepsLedger
<1>1. IInv /\ IInv' /\ LeavesFirst /\ Listed /\ [Next]_vars => [Bank!Next]_(Bank!vars)
  BY NextLedger
<1> QED
  BY <1>1, InitLedger, Inductive, LeavesInvariant, ListedInvariant, PTL
     DEF Spec, KeepsLedger, Bank!Spec

=============================================================================
