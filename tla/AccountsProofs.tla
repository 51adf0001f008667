--------------------------- MODULE AccountsProofs ---------------------------
(***************************************************************************)
(* What the operations on one account, or on an account and its parent,    *)
(* and the operations on the map of accounts preserve.                     *)
(***************************************************************************)
EXTENDS Accounts, TLAPS

(***************************************************************************)
(* One account: the type of the record, the equality of its two sides, and *)
(* the sign of its amounts.  Every operation is a few postings, each of    *)
(* which adds an amount to one pool; the lemmas on postings come first.    *)
(***************************************************************************)


CreditFields == { "budgetIncreases", "recycledIn", "commitmentsRetired",
                  "adjustmentsIn", "allocatedIn" }
DebitFields == { "budgetDecreases", "recycledOut", "commitmentsMade", "spent",
                 "adjustmentsOut", "allocatedOut" }
Pools == AmountFields \cup {"balance"}

Post(a, f, d) == [ a EXCEPT ![f] = @ + d ]

(* A posting changes the pool it names and nothing else.                   *)
LEMMA PostType ==
    ASSUME NEW a \in AccountRecord, NEW f \in Pools, NEW d \in Int
    PROVE  /\ Post(a, f, d) \in AccountRecord
           /\ Post(a, f, d).type = a.type
           /\ Post(a, f, d).status = a.status
           /\ Post(a, f, d)[f] = a[f] + d
           /\ \A g \in Pools : g # f => Post(a, f, d)[g] = a[g]
  BY DEF Post, AccountRecord, Pools, AmountFields

(* A posting to a pool of the credit side raises that side.                *)
LEMMA PostCredit ==
    ASSUME NEW a \in AccountRecord, NEW f \in CreditFields, NEW d \in Int
    PROVE  /\ Credit(Post(a, f, d)) = Credit(a) + d
           /\ Debit(Post(a, f, d)) = Debit(a)
           /\ Post(a, f, d).balance = a.balance
  BY DEF Post, AccountRecord, CreditFields, Credit, Debit

(* A posting to a pool of the debit side raises that side.                 *)
LEMMA PostDebit ==
    ASSUME NEW a \in AccountRecord, NEW f \in DebitFields, NEW d \in Int
    PROVE  /\ Credit(Post(a, f, d)) = Credit(a)
           /\ Debit(Post(a, f, d)) = Debit(a) + d
           /\ Post(a, f, d).balance = a.balance
  BY DEF Post, AccountRecord, DebitFields, Credit, Debit

(* A posting to the balance leaves both sides alone.                       *)
LEMMA PostBalance ==
    ASSUME NEW a \in AccountRecord, NEW d \in Int
    PROVE  /\ Credit(Post(a, "balance", d)) = Credit(a)
           /\ Debit(Post(a, "balance", d)) = Debit(a)
           /\ Post(a, "balance", d).balance = a.balance + d
  BY DEF Post, AccountRecord, Credit, Debit

(* Adding a non-negative amount to a pool, or any amount to the balance,   *)
(* makes no amount negative.                                               *)
LEMMA PostSign ==
    ASSUME NEW a \in AccountRecord, NEW f \in Pools, NEW d \in Int,
           AmountsNonNegative(a), f = "balance" \/ d >= 0
    PROVE  AmountsNonNegative(Post(a, f, d))
  BY DEF Post, AccountRecord, AmountFields, AmountsNonNegative, Pools

(* The two sides of an account are integers.                               *)
LEMMA SidesType ==
    ASSUME NEW a \in AccountRecord
    PROVE  Credit(a) \in Int /\ Debit(a) \in Int /\ a.balance \in Int
  BY DEF AccountRecord, Credit, Debit

(* A change of status touches no pool.                                     *)
LEMMA SetStatusOK ==
    ASSUME NEW a \in AccountRecord, NEW s \in Status
    PROVE  /\ [ a EXCEPT !.status = s ] \in AccountRecord
           /\ [ a EXCEPT !.status = s ].type = a.type
           /\ Balanced(a) => Balanced([ a EXCEPT !.status = s ])
           /\ AmountsNonNegative(a) =>
                AmountsNonNegative([ a EXCEPT !.status = s ])
<1> DEFINE b == [ a EXCEPT !.status = s ]
<1>1. b \in AccountRecord /\ b.type = a.type
  BY DEF AccountRecord
<1>2. Balanced(a) => Balanced(b)
  BY DEF AccountRecord, Balanced, Credit, Debit
<1>3. AmountsNonNegative(a) => AmountsNonNegative(b)
  BY DEF AccountRecord, AmountsNonNegative, AmountFields
<1> QED
  BY <1>1, <1>2, <1>3

(* A new account has empty pools on both sides.                            *)
LEMMA NewAccountOK ==
    ASSUME NEW t \in AccountType
    PROVE  /\ NewAccount(t) \in AccountRecord
           /\ Balanced(NewAccount(t))
           /\ AmountsNonNegative(NewAccount(t))
           /\ NewAccount(t).type = t
<1>1. NewAccount(t) \in AccountRecord
  BY DEF NewAccount, AccountRecord, AccountType, Status
<1>2. Balanced(NewAccount(t))
  BY DEF NewAccount, Balanced, Credit, Debit
<1>3. AmountsNonNegative(NewAccount(t))
  BY DEF NewAccount, AmountsNonNegative, AmountFields
<1> QED
  BY <1>1, <1>2, <1>3 DEF NewAccount

(* addAdjustment books an amount of either sign on the side it belongs to. *)
LEMMA AddAdjustmentOK ==
    ASSUME NEW a \in AccountRecord, NEW v \in Int
    PROVE  /\ addAdjustment(a, v) \in AccountRecord
           /\ addAdjustment(a, v).type = a.type
           /\ Balanced(a) => Balanced(addAdjustment(a, v))
           /\ AmountsNonNegative(a) => AmountsNonNegative(addAdjustment(a, v))
<1> DEFINE in == nonNegative(v)
           out == nonNegative(-v)
           a1 == Post(a, "adjustmentsIn", in)
           a2 == Post(a1, "adjustmentsOut", out)
           a3 == Post(a2, "balance", v)
<1>1. in \in Int /\ out \in Int /\ in >= 0 /\ out >= 0 /\ v = in - out
  BY DEF nonNegative
<1>2. addAdjustment(a, v) = a3
  BY DEF addAdjustment, Post, AccountRecord
<1> HIDE DEF in, out
<1>3. a1 \in AccountRecord /\ a1.type = a.type
  BY <1>1, PostType DEF Pools, AmountFields
<1>4. Credit(a1) = Credit(a) + in /\ Debit(a1) = Debit(a) /\ a1.balance = a.balance
  BY <1>1, PostCredit DEF CreditFields
<1>5. AmountsNonNegative(a) => AmountsNonNegative(a1)
  BY <1>1, PostSign DEF Pools, AmountFields
<1> HIDE DEF a1
<1>6. a2 \in AccountRecord /\ a2.type = a.type
  BY <1>1, <1>3, PostType DEF Pools, AmountFields
<1>7. Credit(a2) = Credit(a1) /\ Debit(a2) = Debit(a1) + out /\ a2.balance = a1.balance
  BY <1>1, <1>3, PostDebit DEF DebitFields
<1>8. AmountsNonNegative(a) => AmountsNonNegative(a2)
  BY <1>1, <1>3, <1>5, PostSign DEF Pools, AmountFields
<1> HIDE DEF a2
<1>9. a3 \in AccountRecord /\ a3.type = a.type
  BY <1>6, PostType DEF Pools
<1>10. Credit(a3) = Credit(a2) /\ Debit(a3) = Debit(a2) /\ a3.balance = a2.balance + v
  BY <1>6, PostBalance
<1>11. AmountsNonNegative(a) => AmountsNonNegative(a3)
  BY <1>6, <1>8, PostSign DEF Pools
<1> HIDE DEF a3
<1>12. Balanced(a) => Balanced(a3)
  BY <1>1, <1>4, <1>7, <1>10, SidesType DEF Balanced
<1> QED
  BY <1>2, <1>9, <1>11, <1>12

(* setBudget adds the same amount to a credit or debit pool and to the     *)
(* balance.                                                                *)
LEMMA SetBudgetOK ==
    ASSUME NEW a \in AccountRecord, NEW v \in Int
    PROVE  /\ setBudget(a, v) \in AccountRecord
           /\ setBudget(a, v).type = a.type
           /\ Balanced(a) => Balanced(setBudget(a, v))
           /\ AmountsNonNegative(a) => AmountsNonNegative(setBudget(a, v))
<1> DEFINE wanted == v - (a.budgetIncreases - a.budgetDecreases)
           extra == IF a.balance + wanted >= 0 THEN wanted ELSE -a.balance
           in == nonNegative(extra)
           out == nonNegative(-extra)
           a1 == Post(a, "budgetIncreases", in)
           a2 == Post(a1, "budgetDecreases", out)
           a3 == Post(a2, "balance", extra)
           a4 == [ a3 EXCEPT !.status = "active" ]
<1>1. extra \in Int
  BY DEF AccountRecord
<1>2. setBudget(a, v) = a4
  BY DEF setBudget, Post, AccountRecord
<1> HIDE DEF extra
<1>3. in \in Int /\ out \in Int /\ in >= 0 /\ out >= 0 /\ extra = in - out
  BY <1>1 DEF nonNegative
<1> HIDE DEF in, out
<1>4. a1 \in AccountRecord /\ a1.type = a.type
  BY <1>3, PostType DEF Pools, AmountFields
<1>5. Credit(a1) = Credit(a) + in /\ Debit(a1) = Debit(a) /\ a1.balance = a.balance
  BY <1>3, PostCredit DEF CreditFields
<1>6. AmountsNonNegative(a) => AmountsNonNegative(a1)
  BY <1>3, PostSign DEF Pools, AmountFields
<1> HIDE DEF a1
<1>7. a2 \in AccountRecord /\ a2.type = a.type
  BY <1>3, <1>4, PostType DEF Pools, AmountFields
<1>8. Credit(a2) = Credit(a1) /\ Debit(a2) = Debit(a1) + out /\ a2.balance = a1.balance
  BY <1>3, <1>4, PostDebit DEF DebitFields
<1>9. AmountsNonNegative(a) => AmountsNonNegative(a2)
  BY <1>3, <1>4, <1>6, PostSign DEF Pools, AmountFields
<1> HIDE DEF a2
<1>10. a3 \in AccountRecord /\ a3.type = a.type
  BY <1>1, <1>7, PostType DEF Pools
<1>11. Credit(a3) = Credit(a2) /\ Debit(a3) = Debit(a2) /\ a3.balance = a2.balance + extra
  BY <1>1, <1>7, PostBalance
<1>12. AmountsNonNegative(a) => AmountsNonNegative(a3)
  BY <1>1, <1>7, <1>9, PostSign DEF Pools
<1> HIDE DEF a3
<1>13. Balanced(a) => Balanced(a3)
  BY <1>1, <1>3, <1>5, <1>8, <1>11, SidesType DEF Balanced
<1> QED
  BY <1>2, <1>10, <1>12, <1>13, SetStatusOK DEF Status

TransferRecord == [ fromRecycled : Int, fromBudget : Int, toRecycled : Int ]

(* The amounts setBalance moves; none is negative unless the parent is     *)
(* overdrawn.                                                              *)
LEMMA TransferOK ==
    ASSUME NEW a \in AccountRecord, NEW p \in AccountRecord, NEW v \in Int
    PROVE  /\ Transfer(a, p, v) \in TransferRecord
           /\ p.balance >= 0 =>
                /\ Transfer(a, p, v).fromRecycled >= 0
                /\ Transfer(a, p, v).fromBudget >= 0
                /\ Transfer(a, p, v).toRecycled >= 0
<1>1. /\ a.balance \in Int /\ p.balance \in Int
      /\ p.recycledIn \in Int /\ p.recycledOut \in Int
  BY DEF AccountRecord
<1>2. getRecycledAvail(p) \in Int /\ getRecycledAvail(p) >= 0
  BY <1>1 DEF getRecycledAvail, nonNegative
<1> QED
  BY <1>1, <1>2 DEF Transfer, TransferRecord, limit, nonNegative

(* The account's side of a transfer stays balanced, and a transfer of       *)
(* non-negative amounts keeps its amounts non-negative.                    *)
LEMMA TransferChildOK ==
    ASSUME NEW a \in AccountRecord, NEW t \in TransferRecord
    PROVE  /\ TransferChild(a, t) \in AccountRecord
           /\ TransferChild(a, t).type = a.type
           /\ Balanced(a) => Balanced(TransferChild(a, t))
           /\ /\ AmountsNonNegative(a)
              /\ t.fromRecycled >= 0 /\ t.fromBudget >= 0 /\ t.toRecycled >= 0
              => AmountsNonNegative(TransferChild(a, t))
<1> DEFINE fr == t.fromRecycled
           fb == t.fromBudget
           tr == t.toRecycled
           total == fr + fb - tr
           nonneg == AmountsNonNegative(a) /\ fr >= 0 /\ fb >= 0 /\ tr >= 0
           a1 == Post(a, "recycledIn", fr)
           a2 == Post(a1, "budgetIncreases", fb)
           a3 == Post(a2, "recycledOut", tr)
           a4 == Post(a3, "balance", total)
<1>1. fr \in Int /\ fb \in Int /\ tr \in Int
  BY DEF TransferRecord
<1>2. TransferChild(a, t) = a4
  BY <1>1 DEF TransferChild, Post, AccountRecord
<1> HIDE DEF fr, fb, tr
<1>3. a1 \in AccountRecord /\ a1.type = a.type
  BY <1>1, PostType DEF Pools, AmountFields
<1>4. /\ Credit(a1) = Credit(a) + fr
      /\ Debit(a1) = Debit(a)
      /\ a1.balance = a.balance
  BY <1>1, PostCredit DEF CreditFields
<1>5. nonneg => AmountsNonNegative(a1)
  BY <1>1, PostSign DEF Pools, AmountFields
<1> HIDE DEF a1
<1>6. a2 \in AccountRecord /\ a2.type = a.type
  BY <1>1, <1>3, PostType DEF Pools, AmountFields
<1>7. /\ Credit(a2) = Credit(a1) + fb
      /\ Debit(a2) = Debit(a1)
      /\ a2.balance = a1.balance
  BY <1>1, <1>3, PostCredit DEF CreditFields
<1>8. nonneg => AmountsNonNegative(a2)
  BY <1>1, <1>3, <1>5, PostSign DEF Pools, AmountFields
<1> HIDE DEF a2
<1>9. a3 \in AccountRecord /\ a3.type = a.type
  BY <1>1, <1>6, PostType DEF Pools, AmountFields
<1>10. /\ Credit(a3) = Credit(a2)
      /\ Debit(a3) = Debit(a2) + tr
      /\ a3.balance = a2.balance
  BY <1>1, <1>6, PostDebit DEF DebitFields
<1>11. nonneg => AmountsNonNegative(a3)
  BY <1>1, <1>6, <1>8, PostSign DEF Pools, AmountFields
<1> HIDE DEF a3
<1>12. total \in Int
  BY <1>1
<1>13. a4 \in AccountRecord /\ a4.type = a.type
  BY <1>12, <1>9, PostType DEF Pools
<1>14. /\ Credit(a4) = Credit(a3) /\ Debit(a4) = Debit(a3)
       /\ a4.balance = a3.balance + total
  BY <1>12, <1>9, PostBalance
<1>15. nonneg => AmountsNonNegative(a4)
  BY <1>12, <1>9, <1>11, PostSign DEF Pools
<1> HIDE DEF a4
<1>16. Balanced(a) => Balanced(a4)
  BY <1>1, <1>4, <1>7, <1>10, <1>14, SidesType DEF Balanced
<1> QED
  BY <1>2, <1>13, <1>15, <1>16 DEF fr, fb, tr

(* The same of the parent's side.                                          *)
LEMMA TransferParentOK ==
    ASSUME NEW a \in AccountRecord, NEW t \in TransferRecord
    PROVE  /\ TransferParent(a, t) \in AccountRecord
           /\ TransferParent(a, t).type = a.type
           /\ Balanced(a) => Balanced(TransferParent(a, t))
           /\ /\ AmountsNonNegative(a)
              /\ t.fromRecycled >= 0 /\ t.fromBudget >= 0 /\ t.toRecycled >= 0
              => AmountsNonNegative(TransferParent(a, t))
<1> DEFINE fr == t.fromRecycled
           fb == t.fromBudget
           tr == t.toRecycled
           total == tr - fr - fb
           nonneg == AmountsNonNegative(a) /\ fr >= 0 /\ fb >= 0 /\ tr >= 0
           a1 == Post(a, "recycledOut", fr)
           a2 == Post(a1, "allocatedOut", fb)
           a3 == Post(a2, "recycledIn", tr)
           a4 == Post(a3, "balance", total)
<1>1. fr \in Int /\ fb \in Int /\ tr \in Int
  BY DEF TransferRecord
<1>2. TransferParent(a, t) = a4
  BY <1>1 DEF TransferParent, Post, AccountRecord
<1> HIDE DEF fr, fb, tr
<1>3. a1 \in AccountRecord /\ a1.type = a.type
  BY <1>1, PostType DEF Pools, AmountFields
<1>4. /\ Credit(a1) = Credit(a)
      /\ Debit(a1) = Debit(a) + fr
      /\ a1.balance = a.balance
  BY <1>1, PostDebit DEF DebitFields
<1>5. nonneg => AmountsNonNegative(a1)
  BY <1>1, PostSign DEF Pools, AmountFields
<1> HIDE DEF a1
<1>6. a2 \in AccountRecord /\ a2.type = a.type
  BY <1>1, <1>3, PostType DEF Pools, AmountFields
<1>7. /\ Credit(a2) = Credit(a1)
      /\ Debit(a2) = Debit(a1) + fb
      /\ a2.balance = a1.balance
  BY <1>1, <1>3, PostDebit DEF DebitFields
<1>8. nonneg => AmountsNonNegative(a2)
  BY <1>1, <1>3, <1>5, PostSign DEF Pools, AmountFields
<1> HIDE DEF a2
<1>9. a3 \in AccountRecord /\ a3.type = a.type
  BY <1>1, <1>6, PostType DEF Pools, AmountFields
<1>10. /\ Credit(a3) = Credit(a2) + tr
      /\ Debit(a3) = Debit(a2)
      /\ a3.balance = a2.balance
  BY <1>1, <1>6, PostCredit DEF CreditFields
<1>11. nonneg => AmountsNonNegative(a3)
  BY <1>1, <1>6, <1>8, PostSign DEF Pools, AmountFields
<1> HIDE DEF a3
<1>12. total \in Int
  BY <1>1
<1>13. a4 \in AccountRecord /\ a4.type = a.type
  BY <1>12, <1>9, PostType DEF Pools
<1>14. /\ Credit(a4) = Credit(a3) /\ Debit(a4) = Debit(a3)
       /\ a4.balance = a3.balance + total
  BY <1>12, <1>9, PostBalance
<1>15. nonneg => AmountsNonNegative(a4)
  BY <1>12, <1>9, <1>11, PostSign DEF Pools
<1> HIDE DEF a4
<1>16. Balanced(a) => Balanced(a4)
  BY <1>1, <1>4, <1>7, <1>10, <1>14, SidesType DEF Balanced
<1> QED
  BY <1>2, <1>13, <1>15, <1>16 DEF fr, fb, tr

(* recuperateTo on the side of the account ...                             *)
LEMMA RecuperateChildOK ==
    ASSUME NEW a \in AccountRecord
    PROVE  /\ RecuperateChild(a) \in AccountRecord
           /\ RecuperateChild(a).type = a.type
           /\ Balanced(a) => Balanced(RecuperateChild(a))
           /\ AmountsNonNegative(a) => AmountsNonNegative(RecuperateChild(a))
<1> DEFINE d == nonNegative(a.balance)
           a1 == Post(a, "recycledOut", d)
           a2 == Post(a1, "balance", -d)
<1>1. d \in Int /\ d >= 0 /\ -d \in Int
  BY SidesType DEF nonNegative
<1> HIDE DEF d
<1>2. RecuperateChild(a) = a2
  BY <1>1 DEF RecuperateChild, Post, AccountRecord, d
<1>3. a1 \in AccountRecord /\ a1.type = a.type
  BY <1>1, PostType DEF Pools, AmountFields
<1>4. Credit(a1) = Credit(a) /\ Debit(a1) = Debit(a) + d /\ a1.balance = a.balance
  BY <1>1, PostDebit DEF DebitFields
<1>5. AmountsNonNegative(a) => AmountsNonNegative(a1)
  BY <1>1, PostSign DEF Pools, AmountFields
<1> HIDE DEF a1
<1>6. a2 \in AccountRecord /\ a2.type = a.type
  BY <1>1, <1>3, PostType DEF Pools
<1>7. Credit(a2) = Credit(a1) /\ Debit(a2) = Debit(a1) /\ a2.balance = a1.balance + -d
  BY <1>1, <1>3, PostBalance
<1>8. AmountsNonNegative(a) => AmountsNonNegative(a2)
  BY <1>1, <1>3, <1>5, PostSign DEF Pools
<1> HIDE DEF a2
<1>9. Balanced(a) => Balanced(a2)
  BY <1>1, <1>4, <1>7, SidesType DEF Balanced
<1> QED
  BY <1>2, <1>6, <1>8, <1>9

(* ... and on that of its parent.                                          *)
LEMMA RecuperateParentOK ==
    ASSUME NEW p \in AccountRecord, NEW a \in AccountRecord
    PROVE  /\ RecuperateParent(p, a) \in AccountRecord
           /\ RecuperateParent(p, a).type = p.type
           /\ Balanced(p) => Balanced(RecuperateParent(p, a))
           /\ AmountsNonNegative(p) => AmountsNonNegative(RecuperateParent(p, a))
<1> DEFINE d == nonNegative(a.balance)
           p1 == Post(p, "recycledIn", d)
           p2 == Post(p1, "balance", d)
<1>1. d \in Int /\ d >= 0
  BY SidesType DEF nonNegative
<1> HIDE DEF d
<1>2. RecuperateParent(p, a) = p2
  BY <1>1 DEF RecuperateParent, Post, AccountRecord, d
<1>3. p1 \in AccountRecord /\ p1.type = p.type
  BY <1>1, PostType DEF Pools, AmountFields
<1>4. Credit(p1) = Credit(p) + d /\ Debit(p1) = Debit(p) /\ p1.balance = p.balance
  BY <1>1, PostCredit DEF CreditFields
<1>5. AmountsNonNegative(p) => AmountsNonNegative(p1)
  BY <1>1, PostSign DEF Pools, AmountFields
<1> HIDE DEF p1
<1>6. p2 \in AccountRecord /\ p2.type = p.type
  BY <1>1, <1>3, PostType DEF Pools
<1>7. Credit(p2) = Credit(p1) /\ Debit(p2) = Debit(p1) /\ p2.balance = p1.balance + d
  BY <1>1, <1>3, PostBalance
<1>8. AmountsNonNegative(p) => AmountsNonNegative(p2)
  BY <1>1, <1>3, <1>5, PostSign DEF Pools
<1> HIDE DEF p2
<1>9. Balanced(p) => Balanced(p2)
  BY <1>1, <1>4, <1>7, SidesType DEF Balanced
<1> QED
  BY <1>2, <1>6, <1>8, <1>9

(* syncToMaster takes the shadow's counters and settles the balance.       *)
LEMMA SyncToMasterOK ==
    ASSUME NEW a \in AccountRecord, NEW s \in ShadowRecord,
           ShadowIsNewer(s, a)
    PROVE  /\ syncToMaster(s, a) \in AccountRecord
           /\ syncToMaster(s, a).type = a.type
           /\ Balanced(a) => Balanced(syncToMaster(s, a))
           /\ AmountsNonNegative(a) => AmountsNonNegative(syncToMaster(s, a))
<1> DEFINE retired == s.commitmentsRetired - a.commitmentsRetired
           made == s.commitmentsMade - a.commitmentsMade
           spend == s.spent - a.spent
           total == retired - made - spend
           a1 == Post(a, "commitmentsRetired", retired)
           a2 == Post(a1, "commitmentsMade", made)
           a3 == Post(a2, "spent", spend)
           a4 == Post(a3, "balance", total)
<1>1. /\ retired \in Int /\ made \in Int /\ spend \in Int
      /\ retired >= 0 /\ made >= 0 /\ spend >= 0
  BY DEF ShadowRecord, AccountRecord, ShadowIsNewer
<1>2. syncToMaster(s, a) = a4
  <2> DEFINE b1 == [ a EXCEPT !.commitmentsRetired = s.commitmentsRetired ]
             b2 == [ b1 EXCEPT !.commitmentsMade = s.commitmentsMade ]
             b3 == [ b2 EXCEPT !.spent = s.spent ]
             b4 == [ b3 EXCEPT !.balance = a.balance + total ]
  <2>1. /\ s.commitmentsRetired = a.commitmentsRetired + retired
        /\ s.commitmentsMade = a.commitmentsMade + made
        /\ s.spent = a.spent + spend
    BY DEF ShadowRecord, AccountRecord
  <2>2. syncToMaster(s, a) = b4
    BY DEF syncToMaster
  <2> HIDE DEF retired, made, spend, total
  <2>3. b1 = a1
    BY <2>1 DEF Post
  <2>4. a1.commitmentsMade = a.commitmentsMade /\ a1.spent = a.spent
        /\ a1.balance = a.balance
    BY DEF Post, AccountRecord
  <2> HIDE DEF a1, b1
  <2>5. b2 = a2
    BY <2>1, <2>3, <2>4 DEF Post
  <2>6. a2.spent = a.spent /\ a2.balance = a.balance
    BY <2>4 DEF Post
  <2> HIDE DEF a2, b2
  <2>7. b3 = a3
    BY <2>1, <2>5, <2>6 DEF Post
  <2>8. a3.balance = a.balance
    BY <2>6 DEF Post
  <2> HIDE DEF a3, b3
  <2>9. b4 = a4
    BY <2>7, <2>8 DEF Post
  <2> QED
    BY <2>2, <2>9
<1> HIDE DEF retired, made, spend
<1>3. a1 \in AccountRecord /\ a1.type = a.type
  BY <1>1, PostType DEF Pools, AmountFields
<1>4. /\ Credit(a1) = Credit(a) + retired /\ Debit(a1) = Debit(a)
      /\ a1.balance = a.balance
  BY <1>1, PostCredit DEF CreditFields
<1>5. AmountsNonNegative(a) => AmountsNonNegative(a1)
  BY <1>1, PostSign DEF Pools, AmountFields
<1> HIDE DEF a1
<1>6. a2 \in AccountRecord /\ a2.type = a.type
  BY <1>1, <1>3, PostType DEF Pools, AmountFields
<1>7. /\ Credit(a2) = Credit(a1) /\ Debit(a2) = Debit(a1) + made
      /\ a2.balance = a1.balance
  BY <1>1, <1>3, PostDebit DEF DebitFields
<1>8. AmountsNonNegative(a) => AmountsNonNegative(a2)
  BY <1>1, <1>3, <1>5, PostSign DEF Pools, AmountFields
<1> HIDE DEF a2
<1>9. a3 \in AccountRecord /\ a3.type = a.type
  BY <1>1, <1>6, PostType DEF Pools, AmountFields
<1>10. /\ Credit(a3) = Credit(a2) /\ Debit(a3) = Debit(a2) + spend
       /\ a3.balance = a2.balance
  BY <1>1, <1>6, PostDebit DEF DebitFields
<1>11. AmountsNonNegative(a) => AmountsNonNegative(a3)
  BY <1>1, <1>6, <1>8, PostSign DEF Pools, AmountFields
<1> HIDE DEF a3
<1>12. total \in Int
  BY <1>1
<1>13. a4 \in AccountRecord /\ a4.type = a.type
  BY <1>9, <1>12, PostType DEF Pools
<1>14. /\ Credit(a4) = Credit(a3) /\ Debit(a4) = Debit(a3)
       /\ a4.balance = a3.balance + total
  BY <1>9, <1>12, PostBalance
<1>15. AmountsNonNegative(a) => AmountsNonNegative(a4)
  BY <1>9, <1>11, <1>12, PostSign DEF Pools
<1> HIDE DEF a4
<1>16. Balanced(a) => Balanced(a4)
  BY <1>1, <1>4, <1>7, <1>10, <1>14, SidesType DEF Balanced
<1> QED
  BY <1>2, <1>13, <1>15, <1>16

(* Parsing a stored record computes the balance that makes it balanced.    *)
LEMMA JsonOK ==
    ASSUME NEW a \in AccountRecord
    PROVE  /\ toJson(a) \in AccountRecord
           /\ toJson(a).type = a.type
           /\ fromJson(a) \in AccountRecord
           /\ fromJson(a).type = a.type
           /\ Balanced(fromJson(a))
           /\ AmountsNonNegative(a) => AmountsNonNegative(fromJson(a))
<1>1. Credit(a) \in Int /\ Debit(a) \in Int
  BY SidesType
<1>2. toJson(a) \in AccountRecord /\ toJson(a).type = a.type
  BY DEF toJson, AccountRecord
<1>3. fromJson(a) \in AccountRecord /\ fromJson(a).type = a.type
  BY <1>1 DEF fromJson, AccountRecord
<1>4. Balanced(fromJson(a))
  BY DEF fromJson, AccountRecord, Balanced, Credit, Debit
<1>5. AmountsNonNegative(a) => AmountsNonNegative(fromJson(a))
  BY <1>1 DEF fromJson, AccountRecord, AmountsNonNegative, AmountFields
<1> QED
  BY <1>2, <1>3, <1>4, <1>5

----------------------------------------------------------------------------
(* Amounts only grow, whatever an operation is given; the balance may not. *)

\* Account b has the type of a, and none of its amounts is smaller.
Grew(a, b) == /\ b.type = a.type
              /\ \A f \in AmountFields : a[f] <= b[f]

(* Growing twice is growing.                                               *)
LEMMA GrewTransitive ==
    ASSUME NEW a \in AccountRecord, NEW b \in AccountRecord, NEW c \in AccountRecord,
           Grew(a, b), Grew(b, c)
    PROVE  Grew(a, c)
<1>1. \A g \in AmountFields : a[g] \in Int /\ b[g] \in Int /\ c[g] \in Int
  BY DEF AccountRecord, AmountFields
<1> QED
  BY <1>1 DEF Grew

(* An adjustment adds to one of two pools, whatever its sign.              *)
LEMMA AddAdjustmentGrew ==
    ASSUME NEW a \in AccountRecord, NEW v \in Int
    PROVE  Grew(a, addAdjustment(a, v)) /\ addAdjustment(a, v).status = a.status
  BY DEF addAdjustment, Grew, AccountRecord, AmountFields, nonNegative

(* A budget change adds to the increases or to the decreases, and makes    *)
(* the account active.                                                     *)
LEMMA SetBudgetGrew ==
    ASSUME NEW a \in AccountRecord, NEW v \in Int
    PROVE  Grew(a, setBudget(a, v)) /\ setBudget(a, v).status = "active"
  BY DEF setBudget, Grew, AccountRecord, AmountFields, nonNegative

(* A transfer of amounts that are not negative only adds to the pools of   *)
(* the two accounts.                                                       *)
LEMMA TransferGrew ==
    ASSUME NEW a \in AccountRecord, NEW t \in TransferRecord,
           t.fromRecycled >= 0, t.fromBudget >= 0, t.toRecycled >= 0
    PROVE  /\ Grew(a, TransferChild(a, t)) /\ TransferChild(a, t).status = a.status
           /\ Grew(a, TransferParent(a, t)) /\ TransferParent(a, t).status = a.status
  BY DEF TransferChild, TransferParent, TransferRecord, Grew, AccountRecord, AmountFields

(* Giving back adds to recycledOut and recycledIn, and leaves nothing.     *)
LEMMA RecuperateGrew ==
    ASSUME NEW a \in AccountRecord, NEW p \in AccountRecord
    PROVE  /\ Grew(a, RecuperateChild(a)) /\ RecuperateChild(a).status = a.status
           /\ RecuperateChild(a).balance <= 0
           /\ Grew(p, RecuperateParent(p, a)) /\ RecuperateParent(p, a).status = p.status
  BY DEF RecuperateChild, RecuperateParent, Grew, AccountRecord, AmountFields, nonNegative

(* A shadow report that passed the assertions of syncToMaster counts no    *)
(* less than the master did.                                               *)
LEMMA SyncToMasterGrew ==
    ASSUME NEW a \in AccountRecord, NEW s \in ShadowRecord, ShadowIsNewer(s, a)
    PROVE  Grew(a, syncToMaster(s, a)) /\ syncToMaster(s, a).status = a.status
  BY DEF syncToMaster, ShadowRecord, ShadowIsNewer, Grew, AccountRecord, AmountFields

(* The status is not an amount.                                            *)
LEMMA StatusGrew ==
    ASSUME NEW a \in AccountRecord, NEW s \in Status
    PROVE  Grew(a, [ a EXCEPT !.status = s ]) /\ [ a EXCEPT !.status = s ].status = s
           /\ [ a EXCEPT !.status = s ].balance = a.balance
  BY DEF Grew, AccountRecord, AmountFields

(* The stored form has the amounts of the account.                         *)
LEMMA JsonGrew ==
    ASSUME NEW a \in AccountRecord
    PROVE  /\ Grew(a, toJson(a)) /\ Grew(toJson(a), a)
           /\ Grew(a, fromJson(a)) 
  BY DEF toJson, fromJson, Grew, AccountRecord, AmountFields

----------------------------------------------------------------------------
(***************************************************************************)
(* The map.  An operation either keeps the set of accounts and their types *)
(* and changes pools (relation Keeps), or adds new, empty accounts.        *)
(***************************************************************************)


AllBalanced(m) == \A k \in DOMAIN m : Balanced(m[k])

AllAmountsNonNegative(m) == \A k \in DOMAIN m : AmountsNonNegative(m[k])

\* Every ancestor of an account is there and is a budget account.
AncestorsPresent(m) ==
    \A k \in DOMAIN m : \A p \in Ancestors(k) :
        p \in DOMAIN m /\ m[p].type = "budget"

GoodMap(m) == IsAccountMap(m) /\ AllBalanced(m) /\ AncestorsPresent(m)

\* n has the accounts of m with their types, and is balanced where m was.
Keeps(m, n) == /\ IsAccountMap(n)
               /\ DOMAIN n = DOMAIN m
               /\ \A k \in DOMAIN m : /\ n[k].type = m[k].type
                                      /\ Balanced(m[k]) => Balanced(n[k])

(* Such a change leaves a map good.                                        *)
LEMMA KeepsGood ==
    ASSUME NEW m, NEW n, Keeps(m, n), GoodMap(m)
    PROVE  GoodMap(n)
  BY DEF Keeps, GoodMap, AllBalanced, AncestorsPresent

(* Two such changes make one.                                              *)
LEMMA KeepsTransitive ==
    ASSUME NEW m, NEW n, NEW o, Keeps(m, n), Keeps(n, o)
    PROVE  Keeps(m, o)
  BY DEF Keeps

(* Nothing changed is such a change.                                       *)
LEMMA KeepsItself ==
    ASSUME NEW m, IsAccountMap(m)
    PROVE  Keeps(m, m)
  BY DEF Keeps

(* A map holds accounts.                                                   *)
LEMMA MapElement ==
    ASSUME NEW m, IsAccountMap(m), NEW k \in DOMAIN m
    PROVE  m[k] \in AccountRecord /\ k \in Keys
  BY DEF IsAccountMap

(* Replacing one account by one of the same type that is balanced if the   *)
(* old one was.                                                            *)
LEMMA KeepsExcept ==
    ASSUME NEW m, IsAccountMap(m), NEW k \in DOMAIN m, NEW b \in AccountRecord,
           b.type = m[k].type, Balanced(m[k]) => Balanced(b)
    PROVE  Keeps(m, [ m EXCEPT ![k] = b ])
  BY DEF Keeps, IsAccountMap

(* Replacing one account keeps the amounts of all of them non-negative if  *)
(* the new one's are.                                                      *)
LEMMA SignExcept ==
    ASSUME NEW m, AllAmountsNonNegative(m), NEW k \in DOMAIN m, NEW b,
           AmountsNonNegative(b)
    PROVE  AllAmountsNonNegative([ m EXCEPT ![k] = b ])
  BY DEF AllAmountsNonNegative

----------------------------------------------------------------------------
(* The order on keys.                                                      *)

(* The prefix relation is transitive.                                      *)
LEMMA StrictPrefixTransitive ==
    ASSUME NEW p \in Seq(STRING), NEW q \in Seq(STRING), NEW r \in Seq(STRING),
           IsStrictPrefix(p, q), IsStrictPrefix(q, r)
    PROVE  IsStrictPrefix(p, r)
<1>1. /\ Len(p) \in Nat /\ Len(q) \in Nat /\ Len(r) \in Nat
      /\ Len(p) <= Len(q) /\ Len(q) <= Len(r)
  BY DEF IsStrictPrefix, IsPrefix
<1>2. \A i \in 1 .. Len(p) : p[i] = q[i]
  BY <1>1 DEF IsStrictPrefix, IsPrefix
<1>3. \A i \in 1 .. Len(q) : q[i] = r[i]
  BY <1>1 DEF IsStrictPrefix, IsPrefix
<1>4. SubSeq(p, 1, Len(p)) = SubSeq(r, 1, Len(p))
  BY <1>1, <1>2, <1>3
<1>5. p # r
  <2>1. SUFFICES ASSUME p = r PROVE FALSE
    OBVIOUS
  <2>2. Len(p) = Len(q)
    BY <1>1, <2>1
  <2>3. p = q
    BY <1>1, <1>2, <2>2
  <2> QED
    BY <2>3 DEF IsStrictPrefix
<1> QED
  BY <1>1, <1>4, <1>5 DEF IsStrictPrefix, IsPrefix

(* The ancestors of an ancestor are ancestors.                             *)
LEMMA AncestorsTransitive ==
    ASSUME NEW k \in Keys, NEW q \in Ancestors(k), NEW p \in Ancestors(q)
    PROVE  p \in Ancestors(k)
  BY KeysAssumption, StrictPrefixTransitive DEF Ancestors

(* The parent is an ancestor.                                              *)
LEMMA ParentIsAncestor ==
    ASSUME NEW k \in Keys, Len(k) > 1
    PROVE  /\ Front(k) \in Ancestors(k)
           /\ Front(k) # k
<1>1. k \in Seq(STRING) /\ Front(k) \in Keys
  BY KeysAssumption
<1>2. /\ Len(Front(k)) = Len(k) - 1
      /\ \A i \in 1 .. Len(k) - 1 : Front(k)[i] = k[i]
  BY <1>1 DEF Front
<1>3. Len(k) \in Nat /\ Front(k) \in Seq(STRING)
  BY <1>1, KeysAssumption
<1>4. Front(k) # k
  BY <1>2, <1>3
<1>5. SubSeq(Front(k), 1, Len(Front(k))) = SubSeq(k, 1, Len(Front(k)))
  BY <1>1, <1>2, <1>3
<1> QED
  BY <1>1, <1>2, <1>3, <1>4, <1>5 DEF Ancestors, IsStrictPrefix, IsPrefix

(* A key that is not a top-level one has a parent.                         *)
LEMMA BelowTop ==
    ASSUME NEW k \in Keys, Len(k) # 1
    PROVE  Len(k) > 1
<1>1. k \in Seq(STRING) /\ Len(k) > 0
  BY KeysAssumption
<1>2. Len(k) \in Nat
  BY <1>1
<1>3. \A n \in Nat : n > 0 /\ n # 1 => n > 1
  OBVIOUS
<1> QED
  BY <1>1, <1>2, <1>3

(* An account that is not at the top has its parent in a good map.         *)
LEMMA GoodHasParent ==
    ASSUME NEW m, GoodMap(m), NEW k \in DOMAIN m, Len(k) > 1
    PROVE  HasParent(m, k)
  BY MapElement, ParentIsAncestor DEF GoodMap, AncestorsPresent, HasParent

----------------------------------------------------------------------------
(* The operations.                                                         *)

(* ensureAccount adds empty accounts and leaves the others alone.          *)
LEMMA EnsureAccountOK ==
    ASSUME NEW m, GoodMap(m), NEW k \in Keys, NEW t \in AccountType,
           CanEnsure(m, k, t)
    PROVE  /\ GoodMap(ensureAccount(m, k, t))
           /\ k \in DOMAIN ensureAccount(m, k, t)
           /\ DOMAIN m \subseteq DOMAIN ensureAccount(m, k, t)
           /\ \A j \in DOMAIN m : ensureAccount(m, k, t)[j] = m[j]
           /\ AllAmountsNonNegative(m) =>
                AllAmountsNonNegative(ensureAccount(m, k, t))
<1> DEFINE n == ensureAccount(m, k, t)
<1>1. /\ DOMAIN n = DOMAIN m \cup {k} \cup Ancestors(k)
      /\ \A j \in DOMAIN m : n[j] = m[j]
      /\ \A j \in DOMAIN n \ DOMAIN m :
            n[j] = NewAccount(IF j = k THEN t ELSE "budget")
      /\ n = [ j \in DOMAIN n |-> n[j] ]
  BY DEF ensureAccount
<1> HIDE DEF n
<1>2. \A j \in DOMAIN n \ DOMAIN m :
        /\ n[j] \in AccountRecord /\ Balanced(n[j]) /\ AmountsNonNegative(n[j])
        /\ j # k => n[j].type = "budget"
  BY <1>1, NewAccountOK DEF AccountType
<1>3. DOMAIN n \subseteq Keys
  BY <1>1 DEF GoodMap, IsAccountMap, Ancestors
<1>4. \A j \in DOMAIN m : m[j] \in AccountRecord
  BY MapElement DEF GoodMap
<1>5. \A j \in DOMAIN n : n[j] \in AccountRecord
  BY <1>1, <1>2, <1>4
<1>6. IsAccountMap(n)
  BY <1>1, <1>3, <1>5 DEF IsAccountMap
<1>7. AllBalanced(n)
  BY <1>1, <1>2 DEF AllBalanced, GoodMap
<1>8. \A p \in Ancestors(k) : p \in DOMAIN n /\ n[p].type = "budget"
  <2>1. \A p \in Ancestors(k) : p \in DOMAIN n /\ p # k
    BY <1>1 DEF Ancestors, IsStrictPrefix
  <2>2. \A p \in Ancestors(k) \cap DOMAIN m : m[p].type = "budget"
    <3>1. CASE k \in DOMAIN m
      BY <3>1 DEF GoodMap, AncestorsPresent
    <3>2. CASE k \notin DOMAIN m
      <4>1. SUFFICES ASSUME NEW p \in Ancestors(k) \cap DOMAIN m,
                            NEW q \in Ancestors(k) \cap DOMAIN m,
                            IsStrictPrefix(p, q)
                     PROVE  m[p].type = "budget"
        BY <3>2 DEF CanEnsure
      <4>2. p \in Ancestors(q)
        BY <4>1 DEF Ancestors
      <4> QED
        BY <4>2 DEF GoodMap, AncestorsPresent
    <3> QED
      BY <3>1, <3>2
  <2> QED
    BY <1>1, <1>2, <2>1, <2>2
<1>9. AncestorsPresent(n)
  <2>1. SUFFICES ASSUME NEW j \in DOMAIN n, NEW p \in Ancestors(j)
                 PROVE  p \in DOMAIN n /\ n[p].type = "budget"
    BY DEF AncestorsPresent
  <2>2. CASE j \in DOMAIN m
    BY <1>1, <2>2 DEF GoodMap, AncestorsPresent
  <2>3. CASE j = k
    BY <1>8, <2>3
  <2>4. CASE j \in Ancestors(k)
    BY <1>8, <2>4, AncestorsTransitive
  <2> QED
    BY <1>1, <2>2, <2>3, <2>4
<1>10. AllAmountsNonNegative(m) => AllAmountsNonNegative(n)
  BY <1>1, <1>2 DEF AllAmountsNonNegative
<1> QED
  BY <1>1, <1>6, <1>7, <1>9, <1>10 DEF GoodMap, n

(* reactivatePresentAccounts changes statuses only.                        *)
LEMMA ReactivateOK ==
    ASSUME NEW m, IsAccountMap(m), NEW k
    PROVE  /\ Keeps(m, reactivatePresentAccounts(m, k))
           /\ AllAmountsNonNegative(m) =>
                AllAmountsNonNegative(reactivatePresentAccounts(m, k))
           /\ \A j \in DOMAIN m :
                reactivatePresentAccounts(m, k)[j].balance = m[j].balance
<1> DEFINE set(j) == [ m[j] EXCEPT !.status = "active" ]
           n == [ j \in DOMAIN m |->
                    IF j \in Ancestors(k) \cup Subtree(m, k)
                    THEN set(j) ELSE m[j] ]
<1>1. reactivatePresentAccounts(m, k) \in {m, n}
  BY DEF reactivatePresentAccounts
<1>2. \A j \in DOMAIN m :
        /\ set(j) \in AccountRecord /\ set(j).type = m[j].type
        /\ Balanced(m[j]) => Balanced(set(j))
        /\ AmountsNonNegative(m[j]) => AmountsNonNegative(set(j))
        /\ set(j).balance = m[j].balance
  <2>1. SUFFICES ASSUME NEW j \in DOMAIN m
                 PROVE  /\ set(j) \in AccountRecord /\ set(j).type = m[j].type
                        /\ Balanced(m[j]) => Balanced(set(j))
                        /\ AmountsNonNegative(m[j]) => AmountsNonNegative(set(j))
                        /\ set(j).balance = m[j].balance
    OBVIOUS
  <2>2. m[j] \in AccountRecord
    BY MapElement
  <2>3. set(j).balance = m[j].balance
    BY <2>2 DEF AccountRecord
  <2> QED
    BY <2>2, <2>3, SetStatusOK DEF Status
<1> HIDE DEF set
<1>3. \A j \in DOMAIN m : n[j] \in AccountRecord
  BY <1>2, MapElement
<1>4. Keeps(m, n)
  BY <1>2, <1>3 DEF Keeps, IsAccountMap
<1>5. AllAmountsNonNegative(m) => AllAmountsNonNegative(n)
  BY <1>2 DEF AllAmountsNonNegative
<1>6. \A j \in DOMAIN m : n[j].balance = m[j].balance
  BY <1>2
<1> HIDE DEF n
<1> QED
  BY <1>1, <1>4, <1>5, <1>6, KeepsItself

(* Two accounts change at once: an account and its parent.                 *)
LEMMA KeepsExceptTwo ==
    ASSUME NEW m, IsAccountMap(m), NEW k \in DOMAIN m, NEW p \in DOMAIN m,
           k # p, NEW b \in AccountRecord, NEW c \in AccountRecord,
           b.type = m[k].type, Balanced(m[k]) => Balanced(b),
           c.type = m[p].type, Balanced(m[p]) => Balanced(c)
    PROVE  /\ Keeps(m, [ m EXCEPT ![k] = b, ![p] = c ])
           /\ AllAmountsNonNegative(m) /\ AmountsNonNegative(b)
                /\ AmountsNonNegative(c) =>
                AllAmountsNonNegative([ m EXCEPT ![k] = b, ![p] = c ])
<1>1. Keeps(m, [ m EXCEPT ![k] = b, ![p] = c ])
  BY DEF Keeps, IsAccountMap
<1>2. AllAmountsNonNegative(m) /\ AmountsNonNegative(b)
        /\ AmountsNonNegative(c) =>
        AllAmountsNonNegative([ m EXCEPT ![k] = b, ![p] = c ])
  BY DEF AllAmountsNonNegative
<1> QED
  BY <1>1, <1>2

(* setBalance: both sides of a transfer stay balanced, and the amounts     *)
(* stay non-negative unless the parent is overdrawn.                       *)
LEMMA SetBalanceOK ==
    ASSUME NEW m, IsAccountMap(m), NEW k, NEW v \in Int
    PROVE  /\ Keeps(m, setBalance(m, k, v))
           /\ /\ AllAmountsNonNegative(m)
              /\ \A p \in DOMAIN m : m[p].type = "budget" => m[p].balance >= 0
              => AllAmountsNonNegative(setBalance(m, k, v))
<1> DEFINE p == Front(k)
           t == Transfer(m[k], m[p], v)
           moves == k \in DOMAIN m /\ HasParent(m, k) /\ checkInvariants(m[k])
<1>1. CASE ~moves
  <2>1. setBalance(m, k, v) = m
    BY <1>1 DEF setBalance
  <2> QED
    BY <2>1, KeepsItself
<1>2. CASE moves
  <2>1. /\ p \in DOMAIN m /\ m[p].type = "budget" /\ k \in DOMAIN m
        /\ m[k] \in AccountRecord /\ m[p] \in AccountRecord
    BY <1>2, MapElement DEF HasParent
  <2>2. k # p
    BY <1>2, <2>1, MapElement, ParentIsAncestor DEF HasParent
  <2>3. setBalance(m, k, v) = [ m EXCEPT ![k] = TransferChild(m[k], t),
                                         ![p] = TransferParent(m[p], t) ]
    BY <1>2, <2>1, <2>2 DEF setBalance
  <2>4. /\ t \in TransferRecord
        /\ m[p].balance >= 0 => /\ t.fromRecycled >= 0 /\ t.fromBudget >= 0
                                /\ t.toRecycled >= 0
    BY <2>1, TransferOK
  <2> HIDE DEF t, p
  <2> DEFINE b == TransferChild(m[k], t)
             c == TransferParent(m[p], t)
  <2>5. /\ b \in AccountRecord /\ b.type = m[k].type
        /\ Balanced(m[k]) => Balanced(b)
    BY <2>1, <2>4, TransferChildOK
  <2>6. /\ c \in AccountRecord /\ c.type = m[p].type
        /\ Balanced(m[p]) => Balanced(c)
    BY <2>1, <2>4, TransferParentOK
  <2>7. ASSUME AllAmountsNonNegative(m), m[p].balance >= 0
        PROVE  AmountsNonNegative(b) /\ AmountsNonNegative(c)
    BY <2>1, <2>4, <2>7, TransferChildOK, TransferParentOK
       DEF AllAmountsNonNegative
  <2>8. setBalance(m, k, v) = [ m EXCEPT ![k] = b, ![p] = c ]
    BY <2>3
  <2> HIDE DEF b, c, moves
  <2>9. Keeps(m, [ m EXCEPT ![k] = b, ![p] = c ])
    BY <2>1, <2>2, <2>5, <2>6, KeepsExceptTwo
  <2>10. ASSUME AllAmountsNonNegative(m), m[p].balance >= 0
         PROVE  AllAmountsNonNegative([ m EXCEPT ![k] = b, ![p] = c ])
    <3>1. AmountsNonNegative(b) /\ AmountsNonNegative(c)
      BY <2>7, <2>10
    <3> QED
      BY <2>1, <2>2, <2>5, <2>6, <2>10, <3>1, KeepsExceptTwo
  <2> QED
    BY <2>1, <2>8, <2>9, <2>10
<1> QED
  BY <1>1, <1>2

(* syncFromShadow.                                                         *)
LEMMA SyncFromShadowOK ==
    ASSUME NEW m, IsAccountMap(m), NEW k, NEW s \in ShadowRecord
    PROVE  /\ Keeps(m, syncFromShadow(m, k, s))
           /\ AllAmountsNonNegative(m) =>
                AllAmountsNonNegative(syncFromShadow(m, k, s))
<1> DEFINE syncs == k \in DOMAIN m /\ checkInvariants(m[k])
                                   /\ ShadowIsNewer(s, m[k])
           b == syncToMaster(s, m[k])
<1>1. CASE ~syncs
  <2>1. syncFromShadow(m, k, s) = m
    BY <1>1 DEF syncFromShadow
  <2> QED
    BY <2>1, KeepsItself
<1>2. CASE syncs
  <2>1. /\ b \in AccountRecord /\ b.type = m[k].type
        /\ Balanced(m[k]) => Balanced(b)
        /\ AmountsNonNegative(m[k]) => AmountsNonNegative(b)
    BY <1>2, MapElement, SyncToMasterOK
  <2>2. syncFromShadow(m, k, s) = [ m EXCEPT ![k] = b ]
    BY <1>2 DEF syncFromShadow
  <2> HIDE DEF b
  <2>3. Keeps(m, [ m EXCEPT ![k] = b ])
    BY <1>2, <2>1, KeepsExcept
  <2>4. AllAmountsNonNegative(m) => AllAmountsNonNegative([ m EXCEPT ![k] = b ])
    BY <1>2, <2>1, SignExcept DEF AllAmountsNonNegative
  <2> QED
    BY <2>2, <2>3, <2>4
<1> QED
  BY <1>1, <1>2

(* Emptying an account into its parent.                                    *)
LEMMA RecuperatedKeeps ==
    ASSUME NEW m, GoodMap(m), NEW k \in DOMAIN m
    PROVE  /\ Keeps(m, Recuperated(m, k))
           /\ AllAmountsNonNegative(m) => AllAmountsNonNegative(Recuperated(m, k))
<1> DEFINE r == Recuperated(m, k)
<1>0. IsAccountMap(m) /\ m[k] \in AccountRecord /\ k \in Keys
  BY MapElement DEF GoodMap
<1>1. CASE Len(k) = 1
  BY <1>0, <1>1, KeepsItself DEF Recuperated
<1>2. CASE Len(k) # 1
  <2> DEFINE p == Front(k)
             b == RecuperateChild(m[k])
             c == RecuperateParent(m[p], m[k])
  <2>1. Len(k) > 1
    BY <1>0, <1>2, BelowTop
  <2>2. p \in DOMAIN m /\ m[p] \in AccountRecord /\ k # p
    BY <1>0, <2>1, GoodHasParent, ParentIsAncestor, MapElement DEF HasParent
  <2>3. r = [ m EXCEPT ![k] = b, ![p] = c ]
    BY <1>2, <2>2 DEF Recuperated
  <2>4. /\ b \in AccountRecord /\ b.type = m[k].type
        /\ Balanced(m[k]) => Balanced(b)
        /\ AllAmountsNonNegative(m) => AmountsNonNegative(b)
    BY <1>0, RecuperateChildOK DEF AllAmountsNonNegative
  <2>5. /\ c \in AccountRecord /\ c.type = m[p].type
        /\ Balanced(m[p]) => Balanced(c)
        /\ AllAmountsNonNegative(m) => AmountsNonNegative(c)
    BY <1>0, <2>2, RecuperateParentOK DEF AllAmountsNonNegative
  <2> HIDE DEF b, c, p, r
  <2> DEFINE n == [ m EXCEPT ![k] = b, ![p] = c ]
  <2>6. Keeps(m, n) /\ (AllAmountsNonNegative(m) => AllAmountsNonNegative(n))
    BY <1>0, <2>2, <2>4, <2>5, KeepsExceptTwo
  <2> HIDE DEF n
  <2>7. r = n
    BY <2>3 DEF n
  <2> QED
    BY <2>6, <2>7 DEF r
<1> QED
  BY <1>1, <1>2

(* One step of a close, whether it throws or not.                          *)
LEMMA CloseOneOK ==
    ASSUME NEW m, GoodMap(m), NEW k \in DOMAIN m
    PROVE  /\ Keeps(m, closeOne(m, k))
           /\ AllAmountsNonNegative(m) => AllAmountsNonNegative(closeOne(m, k))
<1> DEFINE r == Recuperated(m, k)
           e == [ r EXCEPT ![k].status = "closed" ]
<1>1. IsAccountMap(m) /\ m[k] \in AccountRecord /\ k \in Keys
  BY MapElement DEF GoodMap
<1>2. /\ Keeps(m, r)
      /\ AllAmountsNonNegative(m) => AllAmountsNonNegative(r)
  BY RecuperatedKeeps
<1> HIDE DEF r
<1>3. IsAccountMap(r) /\ k \in DOMAIN r /\ r[k] \in AccountRecord
  BY <1>2, MapElement DEF Keeps
<1>4. Keeps(r, e) /\ (AllAmountsNonNegative(r) => AllAmountsNonNegative(e))
  <2> DEFINE b == [ r[k] EXCEPT !.status = "closed" ]
  <2>1. /\ b \in AccountRecord /\ b.type = r[k].type
        /\ Balanced(r[k]) => Balanced(b)
        /\ AmountsNonNegative(r[k]) => AmountsNonNegative(b)
    BY <1>3, SetStatusOK DEF Status
  <2>2. e = [ r EXCEPT ![k] = b ]
    OBVIOUS
  <2> HIDE DEF b, e
  <2>3. Keeps(r, [ r EXCEPT ![k] = b ])
    BY <1>3, <2>1, KeepsExcept
  <2>4. AllAmountsNonNegative(r) => AllAmountsNonNegative([ r EXCEPT ![k] = b ])
    BY <1>3, <2>1, SignExcept DEF AllAmountsNonNegative
  <2> QED
    BY <2>2, <2>3, <2>4
<1>5. Keeps(m, e)
  BY <1>2, <1>4, KeepsTransitive
<1>6. closeOne(m, k) \in {m, r, e}
  BY DEF closeOne, r, e
<1> HIDE DEF e
<1> QED
  BY <1>1, <1>2, <1>4, <1>5, <1>6, KeepsItself

(* load_redis builds a good map from records that it can restore, with     *)
(* amounts that are not negative.                                          *)
LEMMA RestoredAccountsOK ==
    ASSUME NEW records, IsAccountMap(records),
           NEW members \in SUBSET DOMAIN records, CanRestore(members, records)
    PROVE  /\ GoodMap(RestoredAccounts(members, records))
           /\ AllAmountsNonNegative(RestoredAccounts(members, records))
<1> DEFINE n == RestoredAccounts(members, records)
           above == UNION { Ancestors(k) : k \in members }
           loaded(j) == [ fromJson(records[j]) EXCEPT !.status = "active" ]
<1>1. /\ DOMAIN n = members \cup above
      /\ \A j \in members : n[j] = loaded(j)
      /\ \A j \in above \ members : n[j] = NewAccount("budget")
      /\ n = [ j \in DOMAIN n |-> n[j] ]
  BY DEF RestoredAccounts
<1>2. \A j \in members : /\ loaded(j) \in AccountRecord
                         /\ Balanced(loaded(j))
                         /\ loaded(j).type = records[j].type
                         /\ AmountsNonNegative(loaded(j))
  <2>1. SUFFICES ASSUME NEW j \in members
                 PROVE  /\ loaded(j) \in AccountRecord
                        /\ Balanced(loaded(j))
                        /\ loaded(j).type = records[j].type
                        /\ AmountsNonNegative(loaded(j))
    OBVIOUS
  <2>2. records[j] \in AccountRecord /\ AmountsNonNegative(records[j])
    BY MapElement DEF CanRestore
  <2> DEFINE a == fromJson(records[j])
  <2>3. /\ a \in AccountRecord /\ a.type = records[j].type
        /\ Balanced(a) /\ AmountsNonNegative(a)
    BY <2>2, JsonOK
  <2> HIDE DEF a
  <2>4. LET b == [ a EXCEPT !.status = "active" ] IN
        /\ b \in AccountRecord /\ b.type = a.type
        /\ Balanced(b) /\ AmountsNonNegative(b)
    BY <2>3, SetStatusOK DEF Status
  <2> QED
    BY <2>3, <2>4 DEF a
<1> HIDE DEF n, loaded
<1>3. \A j \in DOMAIN n \ members :
         /\ n[j] \in AccountRecord /\ Balanced(n[j]) /\ AmountsNonNegative(n[j])
         /\ n[j].type = "budget"
  BY <1>1, NewAccountOK DEF AccountType
<1>4. members \subseteq Keys /\ above \subseteq Keys
  BY DEF IsAccountMap, Ancestors
<1>5. IsAccountMap(n)
  <2>1. \A j \in DOMAIN n : n[j] \in AccountRecord
    BY <1>1, <1>2, <1>3
  <2>2. DOMAIN n \subseteq Keys
    BY <1>1, <1>4
  <2> QED
    BY <1>1, <2>1, <2>2 DEF IsAccountMap
<1>6. AllBalanced(n) /\ AllAmountsNonNegative(n)
  BY <1>1, <1>2, <1>3 DEF AllBalanced, AllAmountsNonNegative
<1>7. AncestorsPresent(n)
  <2>1. SUFFICES ASSUME NEW j \in DOMAIN n, NEW p \in Ancestors(j)
                 PROVE  p \in DOMAIN n /\ n[p].type = "budget"
    BY DEF AncestorsPresent
  <2>2. PICK c \in members : j = c \/ j \in Ancestors(c)
    BY <1>1
  <2>3. p \in Ancestors(c)
    BY <1>4, <2>2, AncestorsTransitive
  <2>4. p \in DOMAIN n
    BY <1>1, <2>3
  <2>5. p \in members => n[p].type = "budget"
    BY <1>1, <1>2, <2>3 DEF CanRestore
  <2> QED
    BY <1>3, <2>4, <2>5
<1> QED
  BY <1>5, <1>6, <1>7 DEF GoodMap, n

----------------------------------------------------------------------------
(* What a request does to a good map: it stays good, and its amounts stay  *)
(* non-negative if no budget account was overdrawn.                        *)

NoOverdraft(m) == \A p \in DOMAIN m : m[p].type = "budget" => m[p].balance >= 0

StepOK(m, n) == /\ GoodMap(n)
                /\ AllAmountsNonNegative(m) /\ NoOverdraft(m) =>
                     AllAmountsNonNegative(n)

(* Restoring an account first changes neither premise.                     *)
LEMMA ReactivateStep ==
    ASSUME NEW m, GoodMap(m), NEW k
    PROVE  LET active == reactivatePresentAccounts(m, k) IN
           /\ GoodMap(active)
           /\ DOMAIN active = DOMAIN m
           /\ AllAmountsNonNegative(m) => AllAmountsNonNegative(active)
           /\ NoOverdraft(m) => NoOverdraft(active)
<1> DEFINE active == reactivatePresentAccounts(m, k)
<1>1. /\ Keeps(m, active)
      /\ AllAmountsNonNegative(m) => AllAmountsNonNegative(active)
      /\ \A j \in DOMAIN m : active[j].balance = m[j].balance
  BY ReactivateOK DEF GoodMap
<1> HIDE DEF active
<1>2. GoodMap(active)
  BY <1>1, KeepsGood
<1>3. NoOverdraft(m) => NoOverdraft(active)
  BY <1>1 DEF NoOverdraft, Keeps
<1> QED
  BY <1>1, <1>2, <1>3 DEF active, Keeps

(* A new account is not overdrawn.                                         *)
LEMMA EnsureNoOverdraft ==
    ASSUME NEW m, NoOverdraft(m), NEW k, NEW t
    PROVE  NoOverdraft(ensureAccount(m, k, t))
<1>1. \A u : NewAccount(u).balance = 0
  BY DEF NewAccount
<1>2. \A j \in DOMAIN ensureAccount(m, k, t) :
         \/ j \in DOMAIN m /\ ensureAccount(m, k, t)[j] = m[j]
         \/ ensureAccount(m, k, t)[j].balance = 0
  BY <1>1 DEF ensureAccount
<1> QED
  BY <1>2 DEF NoOverdraft

(* StepOK for a change of one account by an operation that suits it.       *)
LEMMA UpdateStep ==
    ASSUME NEW m, GoodMap(m), NEW k \in DOMAIN m, NEW b \in AccountRecord,
           b.type = m[k].type, Balanced(m[k]) => Balanced(b),
           AmountsNonNegative(m[k]) => AmountsNonNegative(b)
    PROVE  /\ GoodMap([ m EXCEPT ![k] = b ])
           /\ AllAmountsNonNegative(m) =>
                AllAmountsNonNegative([ m EXCEPT ![k] = b ])
<1>1. Keeps(m, [ m EXCEPT ![k] = b ])
  BY KeepsExcept DEF GoodMap
<1>2. AllAmountsNonNegative(m) => AmountsNonNegative(b)
  BY DEF AllAmountsNonNegative
<1> QED
  BY <1>1, <1>2, KeepsGood, SignExcept

(* setBalance and syncFromShadow as steps.                                 *)
LEMMA SetBalanceStep ==
    ASSUME NEW m, GoodMap(m), NEW k, NEW v \in Int
    PROVE  StepOK(m, setBalance(m, k, v))
  BY SetBalanceOK, KeepsGood DEF StepOK, GoodMap, NoOverdraft

(* A shadow report as a step (syncFromShadow).                             *)
LEMMA SyncFromShadowStep ==
    ASSUME NEW m, GoodMap(m), NEW k, NEW s \in ShadowRecord
    PROVE  StepOK(m, syncFromShadow(m, k, s))
  BY SyncFromShadowOK, KeepsGood DEF StepOK, GoodMap

----------------------------------------------------------------------------
(* What the operations never undo: amounts only grow, types stay, and only *)
(* a close closes.                                                         *)

\* No account goes away, and none of its amounts goes down.
GrewAll(m, n) == DOMAIN m \subseteq DOMAIN n /\ \A k \in DOMAIN m : Grew(m[k], n[k])

\* No account is closed that was active.
NoneClosed(m, n) ==
    \A k \in DOMAIN m \cap DOMAIN n : n[k].status = "closed" => m[k].status = "closed"

\* The accounts of m are in n with their types.
SameTypes(m, n) == \A k \in DOMAIN m : k \in DOMAIN n /\ n[k].type = m[k].type

\* Top-level accounts are budget accounts.
TopBudget(m) == \A k \in DOMAIN m : Len(k) = 1 => m[k].type = "budget"

(* Nothing changed: all accounts have grown, and none was closed.          *)
LEMMA GrewItself ==
    ASSUME NEW m, IsAccountMap(m)
    PROVE  GrewAll(m, m) /\ NoneClosed(m, m)
<1>1. \A k \in DOMAIN m : m[k] \in AccountRecord
  BY MapElement
<1>2. \A k \in DOMAIN m : Grew(m[k], m[k])
  BY <1>1 DEF Grew, AccountRecord, AmountFields
<1> QED
  BY <1>2 DEF GrewAll, NoneClosed

(* All accounts have grown over two changes.                               *)
LEMMA GrewAllTransitive ==
    ASSUME NEW m, NEW n, NEW o, IsAccountMap(m), IsAccountMap(n), IsAccountMap(o),
           GrewAll(m, n), GrewAll(n, o)
    PROVE  GrewAll(m, o)
  BY MapElement, GrewTransitive DEF GrewAll

(* None was closed over two changes, when the first keeps all accounts.    *)
LEMMA NoneClosedTransitive ==
    ASSUME NEW m, NEW n, NEW o, DOMAIN m \subseteq DOMAIN n,
           NoneClosed(m, n), NoneClosed(n, o)
    PROVE  NoneClosed(m, o)
  BY DEF NoneClosed

(* One account is replaced by one that has grown.                          *)
LEMMA GrewExcept ==
    ASSUME NEW m, IsAccountMap(m), NEW k \in DOMAIN m, NEW b, Grew(m[k], b)
    PROVE  /\ GrewAll(m, [ m EXCEPT ![k] = b ])
           /\ (b.status = "closed" => m[k].status = "closed")
              => NoneClosed(m, [ m EXCEPT ![k] = b ])
<1>1. GrewAll(m, m)
  BY GrewItself
<1>2. IsAccountMap(m) => m = [ j \in DOMAIN m |-> m[j] ]
  BY DEF IsAccountMap
<1> DEFINE n == [ m EXCEPT ![k] = b ]
<1>3. DOMAIN n = DOMAIN m /\ n[k] = b /\ \A j \in DOMAIN m : j # k => n[j] = m[j]
  BY <1>2
<1> HIDE DEF n
<1> QED
  BY <1>1, <1>3 DEF GrewAll, NoneClosed, n

(* An account and its parent are replaced by ones that have grown.         *)
LEMMA GrewExceptTwo ==
    ASSUME NEW m, IsAccountMap(m), NEW k \in DOMAIN m, NEW p \in DOMAIN m, k # p,
           NEW b, NEW c, Grew(m[k], b), Grew(m[p], c)
    PROVE  GrewAll(m, [ m EXCEPT ![k] = b, ![p] = c ])
<1>1. GrewAll(m, m)
  BY GrewItself
<1> DEFINE n == [ m EXCEPT ![k] = b, ![p] = c ]
<1>2. /\ DOMAIN n = DOMAIN m /\ n[k] = b /\ n[p] = c
      /\ \A j \in DOMAIN m : j # k /\ j # p => n[j] = m[j]
  BY DEF IsAccountMap
<1> HIDE DEF n
<1> QED
  BY <1>1, <1>2 DEF GrewAll, n

(* ensureAccount leaves the accounts that are there alone.                 *)
LEMMA EnsureGrew ==
    ASSUME NEW m, IsAccountMap(m), NEW k, NEW t
    PROVE  GrewAll(m, ensureAccount(m, k, t)) /\ NoneClosed(m, ensureAccount(m, k, t))
<1> DEFINE n == ensureAccount(m, k, t)
<1>1. DOMAIN m \subseteq DOMAIN n /\ \A j \in DOMAIN m : n[j] = m[j]
  BY DEF ensureAccount
<1> HIDE DEF n
<1> QED
  BY <1>1, GrewItself DEF GrewAll, NoneClosed, n

(* reactivatePresentAccounts changes statuses, to active only.             *)
LEMMA ReactivateGrew ==
    ASSUME NEW m, IsAccountMap(m), NEW k
    PROVE  /\ GrewAll(m, reactivatePresentAccounts(m, k))
           /\ NoneClosed(m, reactivatePresentAccounts(m, k))
<1> DEFINE set(j) == [ m[j] EXCEPT !.status = "active" ]
           n == [ j \in DOMAIN m |->
                    IF j \in Ancestors(k) \cup Subtree(m, k) THEN set(j) ELSE m[j] ]
<1>1. reactivatePresentAccounts(m, k) \in {m, n}
  BY DEF reactivatePresentAccounts
<1>2. \A j \in DOMAIN m : Grew(m[j], set(j)) /\ set(j).status = "active"
  <2> SUFFICES ASSUME NEW j \in DOMAIN m
               PROVE  Grew(m[j], set(j)) /\ set(j).status = "active"
    OBVIOUS
  <2>1. m[j] \in AccountRecord
    BY MapElement
  <2> QED
    BY <2>1, StatusGrew DEF Status
<1>3. \A j \in DOMAIN m : Grew(m[j], m[j])
  BY GrewItself DEF GrewAll
<1> HIDE DEF set
<1>4. DOMAIN n = DOMAIN m /\ \A j \in DOMAIN m : n[j] = set(j) \/ n[j] = m[j]
  OBVIOUS
<1> HIDE DEF n
<1>5. GrewAll(m, n) /\ NoneClosed(m, n)
  BY <1>2, <1>3, <1>4 DEF GrewAll, NoneClosed
<1> QED
  BY <1>1, <1>5, GrewItself

(* setBalance adds to pools unless the parent is overdrawn: then the       *)
(* amount it can give is negative, and is subtracted.                      *)
LEMMA SetBalanceGrew ==
    ASSUME NEW m, IsAccountMap(m), NEW k, NEW v \in Int
    PROVE  /\ NoOverdraft(m) => GrewAll(m, setBalance(m, k, v))
           /\ NoneClosed(m, setBalance(m, k, v))
<1> DEFINE p == Front(k)
           t == Transfer(m[k], m[p], v)
           moves == k \in DOMAIN m /\ HasParent(m, k) /\ checkInvariants(m[k])
<1>1. CASE ~moves
  <2>1. setBalance(m, k, v) = m
    BY <1>1 DEF setBalance
  <2> QED
    BY <2>1, GrewItself
<1>2. CASE moves
  <2>1. /\ p \in DOMAIN m /\ m[p].type = "budget" /\ k \in DOMAIN m
        /\ m[k] \in AccountRecord /\ m[p] \in AccountRecord
    BY <1>2, MapElement DEF HasParent
  <2>2. k # p
    BY <1>2, <2>1, MapElement, ParentIsAncestor DEF HasParent
  <2>3. setBalance(m, k, v) = [ m EXCEPT ![k] = TransferChild(m[k], t),
                                         ![p] = TransferParent(m[p], t) ]
    BY <1>2, <2>1, <2>2 DEF setBalance
  <2>4. /\ t \in TransferRecord
        /\ m[p].balance >= 0 => /\ t.fromRecycled >= 0 /\ t.fromBudget >= 0
                                /\ t.toRecycled >= 0
    BY <2>1, TransferOK
  <2> HIDE DEF t, p
  <2> DEFINE b == TransferChild(m[k], t)
             c == TransferParent(m[p], t)
  <2>5. b.status = m[k].status /\ c.status = m[p].status
    BY <2>1 DEF TransferChild, TransferParent, AccountRecord
  <2>6. NoOverdraft(m) => Grew(m[k], b) /\ Grew(m[p], c)
    BY <2>1, <2>4, TransferGrew DEF NoOverdraft
  <2>7. setBalance(m, k, v) = [ m EXCEPT ![k] = b, ![p] = c ]
    BY <2>3
  <2> HIDE DEF b, c, moves
  <2>8. NoOverdraft(m) => GrewAll(m, [ m EXCEPT ![k] = b, ![p] = c ])
    BY <2>1, <2>2, <2>6, GrewExceptTwo
  <2>9. NoneClosed(m, [ m EXCEPT ![k] = b, ![p] = c ])
    BY <2>1, <2>2, <2>5 DEF NoneClosed
  <2> QED
    BY <2>7, <2>8, <2>9
<1> QED
  BY <1>1, <1>2

(* syncFromShadow never lowers an amount, thanks to the assertions.        *)
LEMMA SyncFromShadowGrew ==
    ASSUME NEW m, IsAccountMap(m), NEW k, NEW s \in ShadowRecord
    PROVE  GrewAll(m, syncFromShadow(m, k, s)) /\ NoneClosed(m, syncFromShadow(m, k, s))
<1> DEFINE syncs == k \in DOMAIN m /\ checkInvariants(m[k]) /\ ShadowIsNewer(s, m[k])
           b == syncToMaster(s, m[k])
<1>1. CASE ~syncs
  <2>1. syncFromShadow(m, k, s) = m
    BY <1>1 DEF syncFromShadow
  <2> QED
    BY <2>1, GrewItself
<1>2. CASE syncs
  <2>1. Grew(m[k], b) /\ b.status = m[k].status
    BY <1>2, MapElement, SyncToMasterGrew
  <2>0. k \in DOMAIN m
    BY <1>2
  <2>2. syncFromShadow(m, k, s) = [ m EXCEPT ![k] = b ]
    BY <1>2 DEF syncFromShadow
  <2> HIDE DEF b, syncs
  <2>3. GrewAll(m, [ m EXCEPT ![k] = b ])
    BY <2>0, <2>1, GrewExcept
  <2>4. NoneClosed(m, [ m EXCEPT ![k] = b ])
    BY <2>0, <2>1, GrewExcept
  <2> QED
    BY <2>2, <2>3, <2>4
<1> QED
  BY <1>1, <1>2

\* Closing one account, its children being done.
ClosesOne(m, n, k) ==
    /\ GrewAll(m, n)
    /\ DOMAIN n = DOMAIN m
    /\ \A j \in DOMAIN m : j # k => n[j].status = m[j].status
    /\ Len(k) > 1 => n[k].balance <= 0
    /\ ~CloseThrows(m, k) => n[k].status = "closed"
    /\ CloseThrows(m, k) => n[k].status = m[k].status

(* closeOne closes its account, or throws and leaves the statuses alone.   *)
LEMMA CloseOneGrew ==
    ASSUME NEW m, GoodMap(m), NEW k \in DOMAIN m
    PROVE  ClosesOne(m, closeOne(m, k), k)
<1> DEFINE r == Recuperated(m, k)
           e == [ r EXCEPT ![k].status = "closed" ]
<1>1. IsAccountMap(m) /\ m[k] \in AccountRecord /\ k \in Keys
  BY MapElement DEF GoodMap
<1>2. /\ GrewAll(m, r) /\ DOMAIN r = DOMAIN m
      /\ \A j \in DOMAIN m : r[j].status = m[j].status
      /\ Len(k) > 1 => r[k].balance <= 0
  <2>1. CASE Len(k) = 1
    BY <1>1, <2>1, GrewItself DEF Recuperated
  <2>2. CASE Len(k) # 1
    <3> DEFINE p == Front(k)
               b == RecuperateChild(m[k])
               c == RecuperateParent(m[p], m[k])
    <3>1. Len(k) > 1
      BY <1>1, <2>2, BelowTop
    <3>2. p \in DOMAIN m /\ m[p] \in AccountRecord /\ k # p
      BY <1>1, <3>1, GoodHasParent, ParentIsAncestor, MapElement DEF HasParent
    <3>3. r = [ m EXCEPT ![k] = b, ![p] = c ]
      BY <2>2, <3>2 DEF Recuperated
    <3>4. /\ Grew(m[k], b) /\ b.status = m[k].status /\ b.balance <= 0
          /\ Grew(m[p], c) /\ c.status = m[p].status
      BY <1>1, <3>2, RecuperateGrew
    <3> HIDE DEF b, c, p, r
    <3>5. GrewAll(m, [ m EXCEPT ![k] = b, ![p] = c ])
      BY <1>1, <3>2, <3>4, GrewExceptTwo
    <3>6. /\ DOMAIN r = DOMAIN m /\ r[k] = b /\ r[p] = c
          /\ \A j \in DOMAIN m : j # k /\ j # p => r[j] = m[j]
      BY <1>1, <3>2, <3>3 DEF IsAccountMap
    <3> QED
      BY <3>3, <3>4, <3>5, <3>6
  <2> QED
    BY <2>1, <2>2
<1>3. IsAccountMap(r)
  <2>1. Keeps(m, r)
    BY RecuperatedKeeps
  <2> QED
    BY <2>1 DEF Keeps
<1> HIDE DEF r
<1>4. /\ GrewAll(m, e) /\ DOMAIN e = DOMAIN m /\ e[k].status = "closed"
      /\ \A j \in DOMAIN m : j # k => e[j].status = m[j].status
      /\ Len(k) > 1 => e[k].balance <= 0
  <2> DEFINE b == [ r[k] EXCEPT !.status = "closed" ]
  <2>1. k \in DOMAIN r /\ r[k] \in AccountRecord
    BY <1>2, <1>3, MapElement
  <2>2. Grew(r[k], b) /\ b.status = "closed" /\ b.balance = r[k].balance
        /\ b \in AccountRecord
    BY <2>1, StatusGrew, SetStatusOK DEF Status
  <2>3. e = [ r EXCEPT ![k] = b ]
    OBVIOUS
  <2> HIDE DEF b, e
  <2>4. DOMAIN e = DOMAIN r /\ e[k] = b /\ \A j \in DOMAIN r : j # k => e[j] = r[j]
    BY <1>3, <2>1, <2>3 DEF IsAccountMap
  <2>5. GrewAll(r, e)
    BY <1>3, <2>1, <2>2, <2>3, GrewExcept
  <2>6. IsAccountMap(e)
    BY <1>3, <2>1, <2>2, <2>3 DEF IsAccountMap
  <2>7. GrewAll(m, e)
    BY <1>1, <1>2, <1>3, <2>5, <2>6, GrewAllTransitive
  <2> QED
    BY <1>2, <2>2, <2>4, <2>7
<1>5. closeOne(m, k) = IF CloseThrows(m, k)
                       THEN IF HasParent(m, k) THEN r ELSE m
                       ELSE e
  BY DEF closeOne, r, e
<1>6. CloseThrows(m, k) => HasParent(m, k)
  BY <1>1, GoodHasParent DEF CloseThrows
<1> HIDE DEF e
<1> QED
  BY <1>2, <1>4, <1>5, <1>6 DEF ClosesOne

=============================================================================
