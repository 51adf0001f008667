------------------------- MODULE ShadowBankerProofs -------------------------
(***************************************************************************)
(* Proofs about a spend account and its shadow: pools of several           *)
(* currencies act on each currency alone, the shadow's assertions always   *)
(* hold and every operation counts once, an account is not overdrawn       *)
(* beyond what was paid without being authorized, and, when the messages   *)
(* of a process that ended do not arrive, every report is accepted.        *)
(***************************************************************************)
EXTENDS ShadowBanker, AccountsProofs, SequenceProofs, FiniteSetTheorems

----------------------------------------------------------------------------
(* The state.                                                              *)

Entry == [ code : Codes, value : Int ]
SortedPools == { p \in Seq(Entry) : P!IsPool(p) }
ShadowRec == [ status : Status, uninitialized : BOOLEAN, first : BOOLEAN,
               netBudget : SortedPools, balance : SortedPools,
               commitmentsRetired : SortedPools, commitmentsMade : SortedPools,
               spent : SortedPools ]
Counts == [ Codes -> [ Counters -> Nat ] ]
Nets == [ Codes -> Int ]

\* What the shadow has counted, and the two sides of its books.
Tally(s) == [ c \in Codes |-> [ f \in Counters |-> P!getAvailable(s[f], c) ] ]
InBooks(s, c) ==
    P!getAvailable(s.balance, c) =
      P!getAvailable(s.netBudget, c) + P!getAvailable(s.commitmentsRetired, c)
      - P!getAvailable(s.commitmentsMade, c) - P!getAvailable(s.spent, c)

SidesOK ==
    /\ shadow \in ShadowRec
    /\ commitments \in [ DOMAIN commitments -> Nat ]
    /\ detached \in [ DOMAIN detached -> Nat ]
    /\ base \in Counts /\ done \in Counts
    /\ \A c \in Codes : InBooks(shadow, c)
    /\ \A c \in Codes, f \in Counters :
          P!getAvailable(shadow[f], c) = base[c][f] + done[c][f]
    /\ shadow.uninitialized =>
          base = NoCounts /\ \A c \in Codes : P!getAvailable(shadow.netBudget, c) = 0

NetworkOK ==
    /\ created \subseteq [ net : Nets, counts : Counts ]
    /\ reports \subseteq Counts
    /\ answers \subseteq [ status : Status, net : Nets ]

\* An account of the spend account's tree.
TreeTypes(m) ==
    \A k \in DOMAIN m : \/ k = Account1 /\ m[k].type = "spend"
                        \/ k \in Ancestors(Account1) /\ m[k].type = "budget"
TreeOK(m) == GoodMap(m) /\ AllAmountsNonNegative(m) /\ NoOverdraft(m) /\ TreeTypes(m)

\* The same accounts in every currency, with the same status.
Alike(m, n) == DOMAIN m = DOMAIN n /\ \A k \in DOMAIN m : m[k].status = n[k].status
TreesOK(accts) == /\ accts = [ c \in Codes |-> accts[c] ]
                  /\ \A c \in Codes : TreeOK(accts[c])
                  /\ \A c, d \in Codes : Alike(accts[c], accts[d])

IsThere(accts) == Account1 \in DOMAIN accts[P!CC_USD]
Listed(accts) == IsThere(accts) /\ accts[P!CC_USD][Account1].status = "active"
CountsOf(accts) == [ c \in Codes |-> [ f \in Counters |-> accts[c][Account1][f] ] ]

StateOK == /\ SidesOK /\ NetworkOK /\ TreesOK(accounts) /\ TreesOK(saved)
           /\ excess \in Nat

----------------------------------------------------------------------------
(* The money.                                                              *)

\* The net budget the master gives the shadow, and what is in excess of it.
NetOf(accts) == IF IsThere(accts) THEN getNetBudget(accts[P!CC_USD][Account1]) ELSE 0
Total == NetOf(accounts) + excess
Rest(counts) == counts[P!CC_USD].commitmentsRetired - counts[P!CC_USD].commitmentsMade
                - counts[P!CC_USD].spent

\* A shadow that starts from these counters, or has started without and will
\* add them, has authorized no more than there is.
Covered(total, s, counts) ==
    /\ total + Rest(counts) >= 0
    /\ s.uninitialized =>
          total + Rest(counts) + P!getAvailable(s.balance, P!CC_USD) >= 0

MoneyOK ==
    /\ \A v \in created : v.net[P!CC_USD] <= Total /\ Covered(Total, shadow, v.counts)
    /\ \A v \in answers : v.net[P!CC_USD] <= Total
    /\ \A r \in reports : Covered(Total, shadow, r)
    /\ Covered(Total, shadow, NoCounts)
    /\ IsThere(accounts) => Covered(Total, shadow, CountsOf(accounts))
    /\ IsThere(saved) => Covered(Total, shadow, CountsOf(saved))
    /\ ~shadow.uninitialized => /\ P!getAvailable(shadow.netBudget, P!CC_USD) <= Total
                                /\ Total + Rest(Tally(shadow)) >= 0

----------------------------------------------------------------------------
(* The counters.                                                           *)

Upto(k, l) == \A c \in Codes, f \in Counters : k[c][f] <= l[c][f]

\* Nothing the master has, or may get, is ahead of the living shadow, or of
\* the views a new one may start from.
Behind ==
    /\ Listed(saved) => IsThere(accounts) /\ Upto(CountsOf(saved), CountsOf(accounts))
    /\ ~shadow.uninitialized =>
         /\ IsThere(accounts) => Upto(CountsOf(accounts), Tally(shadow))
         /\ \A r \in reports : Upto(r, Tally(shadow))
    /\ shadow.uninitialized =>
         /\ reports = {}
         /\ \A v \in created : IsThere(accounts) => Upto(CountsOf(accounts), v.counts)
----------------------------------------------------------------------------
(* Pools.  What an operator on pools does is stated by the amounts that    *)
(* getAvailable finds before and after.                                    *)

(* The currencies, and their number.                                       *)
LEMMA TheCodes ==
    /\ P!CC_USD \in Codes /\ P!CC_IMP \in Codes /\ P!CC_USD # P!CC_IMP
    /\ Codes \subseteq Int /\ IsFiniteSet(Codes)
    /\ \A c \in Codes : c = P!CC_USD \/ c = P!CC_IMP
<1>1. IsFiniteSet(Codes)
  <2>1. IsFiniteSet({ P!CC_USD }) /\ Codes = { P!CC_USD } \cup { P!CC_IMP }
    BY FS_Singleton DEF Codes
  <2> QED BY <2>1, FS_AddElement
<1> QED BY <1>1 DEF Codes, P!CC_USD, P!CC_IMP

\* Module CurrencyPool's own Only is the one the lemmas are about.
LEMMA SameOnly == \A s, S : P!Only(s, S) = Only(s, S)
BY DEF P!Only, Only

\* At most one amount per currency.
Distinct(p) == \A i, j \in 1 .. Len(p) : p[i].code = p[j].code => i = j

(* What is in a pool.                                                      *)
LEMMA PoolType ==
    ASSUME NEW p \in SortedPools
    PROVE  /\ p \in Seq(Entry) /\ Len(p) \in Nat /\ DOMAIN p = 1 .. Len(p)
           /\ \A i \in 1 .. Len(p) : p[i] \in Entry /\ p[i].code \in Codes /\ p[i].value \in Int
           /\ \A i, j \in 1 .. Len(p) : i < j => p[i].code < p[j].code
           /\ Distinct(p)
<1>1. p \in Seq(Entry) /\ P!IsPool(p)
  BY DEF SortedPools
<1>2. /\ Len(p) \in Nat /\ DOMAIN p = 1 .. Len(p)
      /\ \A i \in 1 .. Len(p) : p[i] \in Entry
  BY <1>1
<1>3. \A i \in 1 .. Len(p) : p[i].code \in Codes /\ p[i].value \in Int
  BY <1>2 DEF Entry
<1>4. \A i, j \in 1 .. Len(p) : i < j => p[i].code < p[j].code
  BY <1>1, <1>2 DEF P!IsPool
<1>5. Distinct(p)
  <2> SUFFICES ASSUME NEW i \in 1 .. Len(p), NEW j \in 1 .. Len(p), i # j
               PROVE  p[i].code # p[j].code
    BY DEF Distinct
  <2>1. i < j \/ j < i
    BY <1>2
  <2>2. Codes \subseteq Int
    BY TheCodes
  <2>3. p[i].code \in Int /\ p[j].code \in Int
    BY <1>3, <2>2
  <2> QED BY <1>4, <2>1, <2>3
<1> QED BY <1>1, <1>2, <1>3, <1>4, <1>5

(* Sorted amounts are a pool.                                              *)
LEMMA PoolIsSorted ==
    ASSUME NEW p \in Seq(Entry), \A i, j \in 1 .. Len(p) : i < j => p[i].code < p[j].code
    PROVE  p \in SortedPools
BY DEF SortedPools, P!IsPool

\* What getAvailable finds.
LEMMA Lookup ==
    ASSUME NEW p \in Seq(Entry), Distinct(p), NEW c
    PROVE  /\ \A i \in 1 .. Len(p) : p[i].code = c => P!getAvailable(p, c) = p[i].value
           /\ (\A i \in 1 .. Len(p) : p[i].code # c) => P!getAvailable(p, c) = 0
           /\ P!getAvailable(p, c) \in Int
           /\ P!HasEntry(p, c) <=> \E i \in 1 .. Len(p) : p[i].code = c
<1>1. /\ Len(p) \in Nat /\ DOMAIN p = 1 .. Len(p)
      /\ \A i \in 1 .. Len(p) : p[i].value \in Int
  <2>1. \A i \in 1 .. Len(p) : p[i] \in Entry
    OBVIOUS
  <2> QED BY <2>1 DEF Entry
<1>2. P!HasEntry(p, c) <=> \E i \in 1 .. Len(p) : p[i].code = c
  BY <1>1 DEF P!HasEntry
<1>3. ASSUME NEW i \in 1 .. Len(p), p[i].code = c
      PROVE  P!getAvailable(p, c) = p[i].value
  <2> DEFINE First(x) == p[x].code = c /\ \A j \in 1 .. x - 1 : p[j].code # c
             first == CHOOSE x \in DOMAIN p : First(x)
  <2>1. First(i) /\ i \in DOMAIN p
    <3>1. \A j \in 1 .. i - 1 : j \in 1 .. Len(p) /\ j # i
      BY <1>1
    <3> QED BY <1>1, <1>3, <3>1 DEF Distinct
  <2>2. first \in DOMAIN p /\ First(first)
    BY <2>1
  <2>3. first = i
    BY <1>1, <1>3, <2>2 DEF Distinct
  <2>4. P!getAvailable(p, c) = p[first].value
    BY <1>2, <1>3 DEF P!getAvailable
  <2> QED BY <2>3, <2>4
<1>4. ASSUME \A i \in 1 .. Len(p) : p[i].code # c
      PROVE  P!getAvailable(p, c) = 0
  BY <1>2, <1>4 DEF P!getAvailable
<1>5. P!getAvailable(p, c) \in Int
  BY <1>1, <1>3, <1>4
<1> QED BY <1>2, <1>3, <1>4, <1>5

(* There is an amount of every currency.                                   *)
LEMMA AvailableType ==
    ASSUME NEW p \in SortedPools, NEW c
    PROVE  P!getAvailable(p, c) \in Int
BY PoolType, Lookup

(* No amounts at all.                                                      *)
LEMMA EmptyPool ==
    /\ << >> \in SortedPools
    /\ \A c : P!getAvailable(<< >>, c) = 0
<1> DEFINE none == << >>
<1>1. none \in Seq(Entry) /\ Len(none) = 0
  OBVIOUS
<1> HIDE DEF none
<1>2. \A i \in 1 .. Len(none) : FALSE
  BY <1>1
<1>3. none \in SortedPools /\ Distinct(none)
  BY <1>1, <1>2, PoolIsSorted DEF Distinct
<1>4. \A c : P!getAvailable(none, c) = 0
  BY <1>1, <1>2, <1>3, Lookup
<1> QED BY <1>3, <1>4 DEF none

\* q is p with v more of currency c.
Adds(q, p, c, v) ==
    /\ q \in SortedPools
    /\ P!getAvailable(q, c) = P!getAvailable(p, c) + v
    /\ \A d \in Codes : d # c => P!getAvailable(q, d) = P!getAvailable(p, d)

\* An amount is added to the entry of its currency.
LEMMA PlusEntry ==
    ASSUME NEW p \in SortedPools, NEW am \in Entry, P!HasEntry(p, am.code), am.value # 0
    PROVE  Adds(P!PlusAmount(p, am), p, am.code, am.value)
<1> DEFINE q == [ i \in DOMAIN p |->
                    IF p[i].code = am.code THEN [ p[i] EXCEPT !.value = @ + am.value ]
                    ELSE p[i] ]
<1>1. P!PlusAmount(p, am) = q
  BY DEF P!PlusAmount
<1>2. /\ p \in Seq(Entry) /\ Len(p) \in Nat /\ DOMAIN p = 1 .. Len(p) /\ Distinct(p)
      /\ \A i \in 1 .. Len(p) : p[i] \in Entry /\ p[i].code \in Codes /\ p[i].value \in Int
      /\ \A i, j \in 1 .. Len(p) : i < j => p[i].code < p[j].code
  BY PoolType
<1>3. am.code \in Codes /\ am.value \in Int
  BY DEF Entry
<1>4. \A i \in 1 .. Len(p) :
         /\ q[i] \in Entry /\ q[i].code = p[i].code
         /\ q[i].value = IF p[i].code = am.code THEN p[i].value + am.value ELSE p[i].value
  BY <1>2, <1>3 DEF Entry
<1>5. q \in Seq(Entry) /\ Len(q) = Len(p)
  <2>1. q \in [ 1 .. Len(p) -> Entry ]
    BY <1>2, <1>4
  <2> HIDE DEF q
  <2> QED BY <1>2, <2>1
<1> HIDE DEF q
<1>6. q \in SortedPools
  BY <1>2, <1>4, <1>5, PoolIsSorted
<1>7. Distinct(q)
  BY <1>6, PoolType
<1>8. P!getAvailable(q, am.code) = P!getAvailable(p, am.code) + am.value
  <2>1. PICK i \in 1 .. Len(p) : p[i].code = am.code
    BY <1>2, Lookup
  <2>2. P!getAvailable(p, am.code) = p[i].value
    BY <1>2, <2>1, Lookup
  <2>3. P!getAvailable(q, am.code) = q[i].value
    BY <1>4, <1>5, <1>7, <2>1, Lookup
  <2> QED BY <1>4, <2>1, <2>2, <2>3
<1>9. ASSUME NEW d \in Codes, d # am.code
      PROVE  P!getAvailable(q, d) = P!getAvailable(p, d)
  <2>1. CASE \E i \in 1 .. Len(p) : p[i].code = d
    <3>1. PICK i \in 1 .. Len(p) : p[i].code = d
      BY <2>1
    <3>2. P!getAvailable(p, d) = p[i].value
      BY <1>2, <3>1, Lookup
    <3>3. P!getAvailable(q, d) = q[i].value
      BY <1>4, <1>5, <1>7, <3>1, Lookup
    <3> QED BY <1>4, <1>9, <3>1, <3>2, <3>3
  <2>2. CASE \A i \in 1 .. Len(p) : p[i].code # d
    <3>1. P!getAvailable(p, d) = 0
      BY <1>2, <2>2, Lookup
    <3>2. \A i \in 1 .. Len(q) : q[i].code # d
      BY <1>4, <1>5, <2>2
    <3>3. P!getAvailable(q, d) = 0
      BY <1>5, <1>7, <3>2, Lookup
    <3> QED BY <3>1, <3>3
  <2> QED BY <2>1, <2>2
<1> QED BY <1>1, <1>6, <1>8, <1>9 DEF Adds

\* The entries of p that a filter takes: they stay sorted.
LEMMA FilteredPool ==
    ASSUME NEW p \in SortedPools, NEW S
    PROVE  LET w == P!Only(p, S) IN
           /\ w \in SortedPools
           /\ \A j \in 1 .. Len(w) : w[j] \in S /\ \E h \in 1 .. Len(p) : w[j] = p[h]
           /\ \A h \in 1 .. Len(p) : p[h] \in S => \E j \in 1 .. Len(w) : w[j] = p[h]
<1> DEFINE w == Only(p, S)
<1>1. /\ p \in Seq(Entry)
      /\ \A i, j \in 1 .. Len(p) : i < j => p[i].code < p[j].code
  BY PoolType
<1>2. w \in Seq(Entry) /\ Filters(w, p, S) /\ InOrder(w, p)
  BY <1>1, OnlyFilters, OnlyKeepsOrder
<1>3. P!Only(p, S) = w
  BY SameOnly
<1> HIDE DEF w
<1>4. w \in SortedPools
  <2> SUFFICES ASSUME NEW i \in 1 .. Len(w), NEW j \in 1 .. Len(w), i < j
               PROVE  w[i].code < w[j].code
    BY <1>2, PoolIsSorted
  <2>1. \E a, b \in 1 .. Len(p) : a < b /\ w[i] = p[a] /\ w[j] = p[b]
    BY <1>2 DEF InOrder
  <2> QED BY <1>1, <2>1
<1> QED BY <1>2, <1>3, <1>4 DEF Filters

\* An amount in a new currency takes its place in the order.
LEMMA PlusNewEntry ==
    ASSUME NEW p \in SortedPools, NEW am \in Entry, ~P!HasEntry(p, am.code), am.value # 0
    PROVE  Adds(P!PlusAmount(p, am), p, am.code, am.value)
<1> DEFINE below == { e \in P!ToSet(p) : e.code < am.code }
           above == { e \in P!ToSet(p) : e.code > am.code }
           lo == P!Only(p, below)
           hi == P!Only(p, above)
           one == << am >>
           lm == lo \o one
           q == lm \o hi
<1>1. P!PlusAmount(p, am) = q
  BY DEF P!PlusAmount
<1>2. /\ p \in Seq(Entry) /\ Len(p) \in Nat /\ DOMAIN p = 1 .. Len(p) /\ Distinct(p)
      /\ \A i \in 1 .. Len(p) : p[i] \in Entry /\ p[i].code \in Codes /\ p[i].value \in Int
      /\ \A i, j \in 1 .. Len(p) : i < j => p[i].code < p[j].code
  BY PoolType
<1>3. am.code \in Codes /\ am.value \in Int
  BY DEF Entry
<1>4. P!ToSet(p) = { p[i] : i \in 1 .. Len(p) }
  BY <1>2 DEF P!ToSet
<1>5. \A i \in 1 .. Len(p) : p[i].code # am.code
  BY <1>2, Lookup
<1>6. \A c \in Codes : c \in Int
  BY TheCodes
<1>7. /\ lo \in SortedPools
      /\ \A j \in 1 .. Len(lo) : lo[j].code < am.code /\ \E h \in 1 .. Len(p) : lo[j] = p[h]
      /\ \A h \in 1 .. Len(p) : p[h].code < am.code => \E j \in 1 .. Len(lo) : lo[j] = p[h]
  <2>1. /\ \A e \in below : e.code < am.code
        /\ \A h \in 1 .. Len(p) : p[h].code < am.code => p[h] \in below
    BY <1>4
  <2> HIDE DEF below
  <2>2. /\ lo \in SortedPools
        /\ \A j \in 1 .. Len(lo) : lo[j] \in below /\ \E h \in 1 .. Len(p) : lo[j] = p[h]
        /\ \A h \in 1 .. Len(p) : p[h] \in below => \E j \in 1 .. Len(lo) : lo[j] = p[h]
    BY FilteredPool
  <2> HIDE DEF lo
  <2> QED
    BY <2>1, <2>2
<1>8. /\ hi \in SortedPools
      /\ \A j \in 1 .. Len(hi) : hi[j].code > am.code /\ \E h \in 1 .. Len(p) : hi[j] = p[h]
      /\ \A h \in 1 .. Len(p) : p[h].code > am.code => \E j \in 1 .. Len(hi) : hi[j] = p[h]
  <2>1. /\ \A e \in above : e.code > am.code
        /\ \A h \in 1 .. Len(p) : p[h].code > am.code => p[h] \in above
    BY <1>4
  <2> HIDE DEF above
  <2>2. /\ hi \in SortedPools
        /\ \A j \in 1 .. Len(hi) : hi[j] \in above /\ \E h \in 1 .. Len(p) : hi[j] = p[h]
        /\ \A h \in 1 .. Len(p) : p[h] \in above => \E j \in 1 .. Len(hi) : hi[j] = p[h]
    BY FilteredPool
  <2> HIDE DEF hi
  <2> QED
    BY <2>1, <2>2
<1>9. one \in Seq(Entry) /\ Len(one) = 1 /\ one[1] = am
  OBVIOUS
<1> HIDE DEF lo, hi, one
<1>10. /\ lo \in Seq(Entry) /\ Len(lo) \in Nat
       /\ \A i \in 1 .. Len(lo) : lo[i] \in Entry /\ lo[i].code \in Codes
       /\ \A i, j \in 1 .. Len(lo) : i < j => lo[i].code < lo[j].code
  BY <1>7, PoolType
<1>11. /\ hi \in Seq(Entry) /\ Len(hi) \in Nat
       /\ \A i \in 1 .. Len(hi) : hi[i] \in Entry /\ hi[i].code \in Codes
       /\ \A i, j \in 1 .. Len(hi) : i < j => hi[i].code < hi[j].code
  BY <1>8, PoolType
<1>12. lm \in Seq(Entry) /\ Joins(lm, lo, one)
  BY <1>9, <1>10, Joined
<1> HIDE DEF lm
<1>13. q \in Seq(Entry) /\ Joins(q, lm, hi)
  BY <1>11, <1>12, Joined
<1> HIDE DEF q
<1>14. /\ Len(q) = Len(lo) + 1 + Len(hi) /\ Len(lm) = Len(lo) + 1
       /\ \A i \in 1 .. Len(lo) : q[i] = lo[i]
       /\ q[Len(lo) + 1] = am
       /\ \A i \in 1 .. Len(hi) : q[Len(lo) + 1 + i] = hi[i]
  <2>1. Len(lm) = Len(lo) + 1 /\ Len(q) = Len(lo) + 1 + Len(hi)
    BY <1>9, <1>10, <1>11, <1>12, <1>13 DEF Joins
  <2>2. ASSUME NEW i \in 1 .. Len(lo) PROVE q[i] = lo[i]
    <3>1. i \in 1 .. Len(lm)
      BY <1>10, <2>1
    <3> QED BY <1>12, <1>13, <3>1 DEF Joins
  <2>3. q[Len(lo) + 1] = am
    <3>1. Len(lo) + 1 \in 1 .. Len(lm) /\ 1 \in 1 .. Len(one)
      BY <1>9, <1>10, <2>1
    <3>2. q[Len(lo) + 1] = lm[Len(lo) + 1]
      BY <1>13, <3>1 DEF Joins
    <3>3. lm[Len(lo) + 1] = one[1]
      BY <1>12, <3>1 DEF Joins
    <3> QED BY <1>9, <3>2, <3>3
  <2>4. \A i \in 1 .. Len(hi) : q[Len(lm) + i] = hi[i]
    BY <1>13 DEF Joins
  <2> QED BY <2>1, <2>2, <2>3, <2>4
<1>15. \A i \in 1 .. Len(q) : \/ i \in 1 .. Len(lo)
                              \/ i = Len(lo) + 1
                              \/ \E j \in 1 .. Len(hi) : i = Len(lo) + 1 + j
  <2> SUFFICES ASSUME NEW i \in 1 .. Len(q)
               PROVE  \/ i \in 1 .. Len(lo)
                      \/ i = Len(lo) + 1
                      \/ \E j \in 1 .. Len(hi) : i = Len(lo) + 1 + j
    OBVIOUS
  <2>1. CASE i > Len(lo) + 1
    <3>1. i - (Len(lo) + 1) \in 1 .. Len(hi) /\ i = Len(lo) + 1 + (i - (Len(lo) + 1))
      BY <1>10, <1>11, <1>14, <2>1
    <3> QED BY <3>1
  <2>2. CASE ~(i > Len(lo) + 1)
    BY <1>10, <1>11, <1>14, <2>2
  <2> QED BY <2>1, <2>2
<1>16. q \in SortedPools
  <2> SUFFICES ASSUME NEW i \in 1 .. Len(q), NEW j \in 1 .. Len(q), i < j
               PROVE  q[i].code < q[j].code
    BY <1>13, PoolIsSorted
  <2>1. CASE i \in 1 .. Len(lo)
    <3>1. q[i].code = lo[i].code /\ lo[i].code < am.code /\ lo[i].code \in Int
      BY <1>6, <1>7, <1>10, <1>14, <2>1
    <3>2. CASE j \in 1 .. Len(lo)
      <4>1. q[j].code = lo[j].code
        BY <1>14, <3>2
      <4> QED BY <1>10, <2>1, <3>1, <3>2, <4>1
    <3>3. CASE j = Len(lo) + 1
      BY <1>14, <3>1, <3>3
    <3>4. CASE \E h \in 1 .. Len(hi) : j = Len(lo) + 1 + h
      <4>1. PICK h \in 1 .. Len(hi) : j = Len(lo) + 1 + h
        BY <3>4
      <4>2. q[j].code = hi[h].code /\ hi[h].code > am.code /\ hi[h].code \in Int
        BY <1>6, <1>8, <1>11, <1>14, <4>1
      <4>3. am.code \in Int
        BY <1>3, <1>6
      <4> QED BY <3>1, <4>2, <4>3
    <3> QED BY <1>15, <3>2, <3>3, <3>4
  <2>2. CASE ~(i \in 1 .. Len(lo))
    <3>1. i >= Len(lo) + 1 /\ j > Len(lo) + 1
      BY <1>10, <1>14, <2>2
    <3>2. PICK h \in 1 .. Len(hi) : j = Len(lo) + 1 + h
      <4>1. ~(j \in 1 .. Len(lo)) /\ j # Len(lo) + 1
        BY <1>10, <3>1
      <4> QED BY <1>15, <4>1
    <3>3. q[j].code = hi[h].code /\ hi[h].code > am.code
      BY <1>8, <1>14, <3>2
    <3>4. CASE i = Len(lo) + 1
      <4>1. am.code \in Int /\ hi[h].code \in Int
        BY <1>3, <1>6, <1>11
      <4> QED BY <1>14, <3>3, <3>4, <4>1
    <3>5. CASE i # Len(lo) + 1
      <4>1. PICK g \in 1 .. Len(hi) : i = Len(lo) + 1 + g
        BY <1>15, <2>2, <3>5
      <4>2. q[i].code = hi[g].code /\ g < h
        BY <1>10, <1>14, <3>2, <4>1
      <4> QED BY <1>11, <3>3, <4>2
    <3> QED BY <3>4, <3>5
  <2> QED BY <2>1, <2>2
<1>17. Distinct(q)
  BY <1>16, PoolType
<1>18. P!getAvailable(q, am.code) = P!getAvailable(p, am.code) + am.value
  <2>1. Len(lo) + 1 \in 1 .. Len(q)
    BY <1>10, <1>11, <1>14
  <2>2. P!getAvailable(q, am.code) = am.value
    BY <1>13, <1>14, <1>17, <2>1, Lookup
  <2>3. P!getAvailable(p, am.code) = 0
    BY <1>2, <1>5, Lookup
  <2> QED BY <1>3, <2>2, <2>3
<1>19. ASSUME NEW d \in Codes, d # am.code
       PROVE  P!getAvailable(q, d) = P!getAvailable(p, d)
  <2>1. CASE \E h \in 1 .. Len(p) : p[h].code = d
    <3>1. PICK h \in 1 .. Len(p) : p[h].code = d
      BY <2>1
    <3>2. d \in Int /\ am.code \in Int
      BY <1>3, <1>6
    <3>3. \E i \in 1 .. Len(q) : q[i] = p[h]
      <4>1. CASE d < am.code
        <5>1. PICK j \in 1 .. Len(lo) : lo[j] = p[h]
          BY <1>7, <3>1, <4>1
        <5>2. j \in 1 .. Len(q) /\ q[j] = p[h]
          BY <1>10, <1>11, <1>14, <5>1
        <5> QED BY <5>2
      <4>2. CASE d > am.code
        <5>1. PICK j \in 1 .. Len(hi) : hi[j] = p[h]
          BY <1>8, <3>1, <4>2
        <5>2. Len(lo) + 1 + j \in 1 .. Len(q) /\ q[Len(lo) + 1 + j] = p[h]
          BY <1>10, <1>11, <1>14, <5>1
        <5> QED BY <5>2
      <4> QED BY <1>19, <3>2, <4>1, <4>2
    <3>4. P!getAvailable(q, d) = p[h].value
      BY <1>13, <1>17, <3>1, <3>3, Lookup
    <3>5. P!getAvailable(p, d) = p[h].value
      BY <1>2, <3>1, Lookup
    <3> QED BY <3>4, <3>5
  <2>2. CASE \A h \in 1 .. Len(p) : p[h].code # d
    <3>1. \A i \in 1 .. Len(q) : q[i].code # d
      <4> SUFFICES ASSUME NEW i \in 1 .. Len(q) PROVE q[i].code # d
        OBVIOUS
      <4>1. CASE i \in 1 .. Len(lo)
        BY <1>7, <1>14, <2>2, <4>1
      <4>2. CASE i = Len(lo) + 1
        BY <1>14, <1>19, <4>2
      <4>3. CASE \E j \in 1 .. Len(hi) : i = Len(lo) + 1 + j
        BY <1>8, <1>14, <2>2, <4>3
      <4> QED BY <1>15, <4>1, <4>2, <4>3
    <3>2. P!getAvailable(q, d) = 0
      BY <1>13, <1>17, <3>1, Lookup
    <3>3. P!getAvailable(p, d) = 0
      BY <1>2, <2>2, Lookup
    <3> QED BY <3>2, <3>3
  <2> QED BY <2>1, <2>2
<1> QED BY <1>1, <1>16, <1>18, <1>19 DEF Adds

\* What adding an amount does.
LEMMA PlusAmountAdds ==
    ASSUME NEW p \in SortedPools, NEW am \in Entry
    PROVE  Adds(P!PlusAmount(p, am), p, am.code, am.value)
<1>1. CASE am.value = 0
  <2>1. P!PlusAmount(p, am) = p
    BY <1>1 DEF P!PlusAmount
  <2>2. P!getAvailable(p, am.code) \in Int
    BY AvailableType
  <2> QED BY <1>1, <2>1, <2>2 DEF Adds
<1>2. CASE am.value # 0
  BY <1>2, PlusEntry, PlusNewEntry
<1> QED BY <1>1, <1>2

\* g is the pools that the loop over the amounts of terms goes through.
Sums(g, p, terms) ==
    /\ g[0] = p
    /\ \A i \in 1 .. Len(terms) : g[i] = P!PlusAmount(g[i - 1], terms[i])

\* The recursive functions of PlusPool and MinusPool exist.
LEMMA PlusPoolExists ==
    ASSUME NEW p \in SortedPools, NEW other \in Seq(Entry)
    PROVE  \E g \in Runs(Len(other), SortedPools) :
              Sums(g, p, other) /\ P!PlusPool(p, other) = g[Len(other)]
<1> DEFINE Q == SortedPools
           N == Len(other)
           add(q, i) == P!PlusAmount(q, other[i])
           Def(g) == [ i \in 0 .. N |-> IF i = 0 THEN p ELSE add(g[i - 1], i) ]
           step == [ i \in 1 .. N |-> [ q \in Q |-> add(q, i) ] ]
           sum == CHOOSE g : g = Def(g)
<1>1. N \in Nat /\ p \in Q /\ \A i \in 1 .. N : other[i] \in Entry
  OBVIOUS
<1>2. \A i \in 1 .. N : \A q \in Q : add(q, i) \in Q
  BY <1>1, PlusAmountAdds DEF Adds
<1>3. P!PlusPool(p, other) = sum[N]
  BY DEF P!PlusPool
<1> HIDE DEF Q, N, add
<1>4. step \in Steps(N, Q)
  BY <1>1, <1>2 DEF Steps
<1>5. \A i \in 1 .. N, q \in Q : step[i][q] = add(q, i)
  BY <1>1
<1> HIDE DEF step
<1>6. PICK g \in Runs(N, Q) : IsRun(g, p, N, step)
  BY <1>1, <1>4, Recursion, Zenon
<1>7. g = Def(g)
  <2>1. \A i \in 1 .. N : g[i - 1] \in Q
    BY <1>1 DEF Runs
  <2>2. \A i \in 1 .. N : g[i] = add(g[i - 1], i)
    BY <1>5, <1>6, <2>1 DEF IsRun
  <2> QED BY <1>1, <1>6, <2>2 DEF IsRun, Runs
<1>8. sum = Def(sum)
  BY <1>7, Zenon
<1>9. \E f : f = Def(f) /\ P!PlusPool(p, other) = f[N]
  BY <1>3, <1>8, Zenon
<1> HIDE DEF sum
<1>10. PICK f : f = Def(f) /\ P!PlusPool(p, other) = f[N]
  BY <1>9, Zenon
<1>11. f = [ i \in 0 .. N |-> IF i = 0 THEN p ELSE add(f[i - 1], i) ]
  BY <1>10
<1> HIDE DEF Def
<1>12. /\ f[0] = p /\ DOMAIN f = 0 .. N
       /\ \A i \in 1 .. N : f[i] = add(f[i - 1], i)
  BY <1>1, <1>11
<1>13. f \in Runs(N, Q)
  <2> DEFINE T == { i \in 0 .. N : f[i] \in Q }
  <2>1. 0 \in T
    BY <1>1, <1>12
  <2>2. \A i \in 1 .. N : i - 1 \in T => i \in T
    BY <1>1, <1>2, <1>12
  <2>3. \A i \in 0 .. N : i \in T
    <3> HIDE DEF T
    <3> QED BY <1>1, <2>1, <2>2, UptoInduction
  <2> QED BY <1>11, <2>3 DEF Runs
<1> QED BY <1>10, <1>12, <1>13 DEF Q, N, add, Sums

(* Subtracting a pool is adding the opposite amounts one by one.           *)
LEMMA MinusPoolExists ==
    ASSUME NEW p \in SortedPools, NEW other \in Seq(Entry), NEW terms \in Seq(Entry),
           Len(terms) = Len(other),
           \A i \in 1 .. Len(other) : terms[i] = P!Amount(other[i].code, -other[i].value)
    PROVE  \E g \in Runs(Len(terms), SortedPools) :
              Sums(g, p, terms) /\ P!MinusPool(p, other) = g[Len(terms)]
<1> DEFINE Q == SortedPools
           N == Len(other)
           take(q, i) == P!MinusAmount(q, other[i])
           Def(g) == [ i \in 0 .. N |-> IF i = 0 THEN p ELSE take(g[i - 1], i) ]
           step == [ i \in 1 .. N |-> [ q \in Q |-> take(q, i) ] ]
           rest == CHOOSE g : g = Def(g)
<1>1. N \in Nat /\ p \in Q /\ \A i \in 1 .. N : terms[i] \in Entry
  OBVIOUS
<1>2. \A i \in 1 .. N : \A q \in Q : take(q, i) = P!PlusAmount(q, terms[i]) /\ take(q, i) \in Q
  BY <1>1, PlusAmountAdds DEF Adds, P!MinusAmount
<1>3. P!MinusPool(p, other) = rest[N]
  BY DEF P!MinusPool
<1>14. N = Len(terms)
  OBVIOUS
<1> HIDE DEF Q, N, take
<1>4. step \in Steps(N, Q)
  BY <1>1, <1>2 DEF Steps
<1>5. \A i \in 1 .. N, q \in Q : step[i][q] = take(q, i)
  BY <1>1
<1> HIDE DEF step
<1>6. PICK g \in Runs(N, Q) : IsRun(g, p, N, step)
  BY <1>1, <1>4, Recursion, Zenon
<1>7. g = Def(g)
  <2>1. \A i \in 1 .. N : g[i - 1] \in Q
    BY <1>1 DEF Runs
  <2>2. \A i \in 1 .. N : g[i] = take(g[i - 1], i)
    BY <1>5, <1>6, <2>1 DEF IsRun
  <2> QED BY <1>1, <1>6, <2>2 DEF IsRun, Runs
<1>8. rest = Def(rest)
  BY <1>7, Zenon
<1>9. \E f : f = Def(f) /\ P!MinusPool(p, other) = f[N]
  BY <1>3, <1>8, Zenon
<1> HIDE DEF rest
<1>10. PICK f : f = Def(f) /\ P!MinusPool(p, other) = f[N]
  BY <1>9, Zenon
<1>11. f = [ i \in 0 .. N |-> IF i = 0 THEN p ELSE take(f[i - 1], i) ]
  BY <1>10
<1> HIDE DEF Def
<1>12. /\ f[0] = p /\ DOMAIN f = 0 .. N
       /\ \A i \in 1 .. N : f[i] = take(f[i - 1], i)
  BY <1>1, <1>11
<1>13. \A i \in 0 .. N : f[i] \in Q
  <2> DEFINE T == { i \in 0 .. N : f[i] \in Q }
  <2>1. 0 \in T
    BY <1>1, <1>12
  <2>2. \A i \in 1 .. N : i - 1 \in T => i \in T
    BY <1>1, <1>2, <1>12
  <2>3. \A i \in 0 .. N : i \in T
    <3> HIDE DEF T
    <3> QED BY <1>1, <2>1, <2>2, UptoInduction
  <2> QED BY <2>3
<1>15. f \in Runs(N, Q)
  BY <1>11, <1>13 DEF Runs
<1>16. \A i \in 1 .. N : f[i] = P!PlusAmount(f[i - 1], terms[i])
  BY <1>1, <1>2, <1>12, <1>13
<1> QED BY <1>10, <1>12, <1>14, <1>15, <1>16 DEF Q, Sums

\* What a loop over amounts in different currencies adds up.
LEMMA SumUp ==
    ASSUME NEW p \in SortedPools, NEW terms \in Seq(Entry), Distinct(terms),
           NEW g \in Runs(Len(terms), SortedPools), Sums(g, p, terms)
    PROVE  /\ g[Len(terms)] \in SortedPools
           /\ \A c \in Codes : P!getAvailable(g[Len(terms)], c) =
                                  P!getAvailable(p, c) + P!getAvailable(terms, c)
<1> DEFINE N == Len(terms)
<1>1. N \in Nat /\ \A i \in 1 .. N : terms[i] \in Entry /\ terms[i].value \in Int
  <2>1. \A i \in 1 .. N : terms[i] \in Entry
    OBVIOUS
  <2> QED BY <2>1 DEF Entry
<1>2. \A i \in 0 .. N : g[i] \in SortedPools
  BY DEF Runs
<1>3. N \in 0 .. N
  BY <1>1
<1> SUFFICES ASSUME NEW c \in Codes
             PROVE  P!getAvailable(g[N], c) = P!getAvailable(p, c) + P!getAvailable(terms, c)
  BY <1>2, <1>3
<1> DEFINE had == P!getAvailable(p, c)
           now(i) == P!getAvailable(g[i], c)
           T == { i \in 0 .. N :
                    /\ (\A j \in 1 .. i : terms[j].code # c) => now(i) = had
                    /\ \A j \in 1 .. i : terms[j].code = c => now(i) = had + terms[j].value }
<1>4. had \in Int
  BY AvailableType
<1>5. \A i \in 1 .. N : /\ terms[i].code = c => now(i) = now(i - 1) + terms[i].value
                        /\ terms[i].code # c => now(i) = now(i - 1)
  <2> SUFFICES ASSUME NEW i \in 1 .. N
               PROVE  /\ terms[i].code = c => now(i) = now(i - 1) + terms[i].value
                      /\ terms[i].code # c => now(i) = now(i - 1)
    OBVIOUS
  <2>1. i - 1 \in 0 .. N
    BY <1>1
  <2>2. Adds(g[i], g[i - 1], terms[i].code, terms[i].value)
    BY <1>1, <1>2, <2>1, PlusAmountAdds DEF Sums
  <2> QED BY <2>2 DEF Adds
<1>6. g[0] = p
  BY DEF Sums
<1>7. 0 \in T
  BY <1>1, <1>6
<1>8. \A i \in 1 .. N : i - 1 \in T => i \in T
  <2> SUFFICES ASSUME NEW i \in 1 .. N, i - 1 \in T PROVE i \in T
    OBVIOUS
  <2>1. i \in 0 .. N /\ i \in Nat /\ \A j \in 1 .. i : j \in 1 .. i - 1 \/ j = i
    BY <1>1
  <2>2. /\ (\A j \in 1 .. i - 1 : terms[j].code # c) => now(i - 1) = had
        /\ \A j \in 1 .. i - 1 : terms[j].code = c => now(i - 1) = had + terms[j].value
    OBVIOUS
  <2>5. \A j \in 1 .. i - 1 : j \in 1 .. i
    BY <2>1
  <2>3. CASE terms[i].code = c
    <3>1. \A j \in 1 .. i - 1 : j \in 1 .. N /\ j # i
      BY <1>1
    <3>2. \A j \in 1 .. i - 1 : terms[j].code # c
      BY <2>3, <3>1 DEF Distinct
    <3>3. now(i) = had + terms[i].value
      BY <1>5, <2>2, <2>3, <3>2
    <3>4. i \in 1 .. i
      BY <1>1
    <3> HIDE DEF now, had
    <3> QED BY <2>1, <2>3, <3>2, <3>3, <3>4
  <2>4. CASE terms[i].code # c
    <3>1. now(i) = now(i - 1)
      BY <1>5, <2>4
    <3> HIDE DEF now, had
    <3> QED BY <2>1, <2>2, <2>4, <2>5, <3>1
  <2> QED BY <2>3, <2>4
<1>9. \A i \in 0 .. N : i \in T
  <2> HIDE DEF T
  <2> QED BY <1>1, <1>7, <1>8, UptoInduction
<1>10. /\ (\A j \in 1 .. N : terms[j].code # c) => now(N) = had
       /\ \A j \in 1 .. N : terms[j].code = c => now(N) = had + terms[j].value
  BY <1>3, <1>9
<1>11. CASE \E j \in 1 .. N : terms[j].code = c
  BY <1>10, <1>11, Lookup
<1>12. CASE \A j \in 1 .. N : terms[j].code # c
  <2>1. P!getAvailable(terms, c) = 0
    BY <1>12, Lookup
  <2> QED BY <1>4, <1>10, <1>12, <2>1
<1> QED BY <1>11, <1>12

\* The sum of a pool and amounts in different currencies, and the difference.
LEMMA PlusPoolAdds ==
    ASSUME NEW p \in SortedPools, NEW other \in Seq(Entry), Distinct(other)
    PROVE  /\ P!PlusPool(p, other) \in SortedPools
           /\ \A c \in Codes : P!getAvailable(P!PlusPool(p, other), c) =
                                  P!getAvailable(p, c) + P!getAvailable(other, c)
<1>1. PICK g \in Runs(Len(other), SortedPools) :
         Sums(g, p, other) /\ P!PlusPool(p, other) = g[Len(other)]
  BY PlusPoolExists
<1> QED BY <1>1, SumUp

(* operator -=, in each currency.                                          *)
LEMMA MinusPoolSubtracts ==
    ASSUME NEW p \in SortedPools, NEW other \in Seq(Entry), Distinct(other)
    PROVE  /\ P!MinusPool(p, other) \in SortedPools
           /\ \A c \in Codes : P!getAvailable(P!MinusPool(p, other), c) =
                                  P!getAvailable(p, c) - P!getAvailable(other, c)
<1> DEFINE terms == [ i \in 1 .. Len(other) |-> P!Amount(other[i].code, -other[i].value) ]
<1>1. /\ Len(other) \in Nat
      /\ \A i \in 1 .. Len(other) : /\ other[i] \in Entry
                                    /\ other[i].code \in Codes /\ other[i].value \in Int
  <2>1. \A i \in 1 .. Len(other) : other[i] \in Entry
    OBVIOUS
  <2> QED BY <2>1 DEF Entry
<1>2. \A i \in 1 .. Len(other) :
         /\ terms[i] = P!Amount(other[i].code, -other[i].value)
         /\ terms[i] \in Entry
         /\ terms[i].code = other[i].code /\ terms[i].value = -other[i].value
  BY <1>1 DEF Entry, P!Amount
<1>3. terms \in Seq(Entry) /\ Len(terms) = Len(other)
  <2>1. terms \in [ 1 .. Len(other) -> Entry ]
    BY <1>2
  <2> HIDE DEF terms
  <2> QED BY <1>1, <2>1
<1> HIDE DEF terms
<1>4. Distinct(terms)
  BY <1>2, <1>3 DEF Distinct
<1>5. PICK g \in Runs(Len(terms), SortedPools) :
         Sums(g, p, terms) /\ P!MinusPool(p, other) = g[Len(terms)]
  BY <1>2, <1>3, MinusPoolExists
<1>6. \A c \in Codes : P!getAvailable(terms, c) = 0 - P!getAvailable(other, c)
  <2> SUFFICES ASSUME NEW c \in Codes
               PROVE  P!getAvailable(terms, c) = 0 - P!getAvailable(other, c)
    OBVIOUS
  <2>1. CASE \E i \in 1 .. Len(other) : other[i].code = c
    <3>1. PICK i \in 1 .. Len(other) : other[i].code = c
      BY <2>1
    <3>2. P!getAvailable(other, c) = other[i].value
      BY <3>1, Lookup
    <3>3. P!getAvailable(terms, c) = terms[i].value
      BY <1>2, <1>3, <1>4, <3>1, Lookup
    <3> QED BY <1>1, <1>2, <3>2, <3>3
  <2>2. CASE \A i \in 1 .. Len(other) : other[i].code # c
    <3>1. P!getAvailable(other, c) = 0
      BY <2>2, Lookup
    <3>2. \A i \in 1 .. Len(terms) : terms[i].code # c
      BY <1>2, <1>3, <2>2
    <3>3. P!getAvailable(terms, c) = 0
      BY <1>3, <1>4, <3>2, Lookup
    <3> QED BY <3>1, <3>3
  <2> QED BY <2>1, <2>2
<1>7. \A c \in Codes : P!getAvailable(p, c) \in Int /\ P!getAvailable(other, c) \in Int
  BY AvailableType, Lookup
<1> QED BY <1>3, <1>4, <1>5, <1>6, <1>7, SumUp

----------------------------------------------------------------------------
(* The trip of a pool through JSON, and its other operators.               *)

\* Parsing a finite set of amounts in different currencies gives each of them.
LEMMA FromJson ==
    ASSUME NEW S, S \subseteq Entry, IsFiniteSet(S),
           \A a, b \in S : a.code = b.code => a = b
    PROVE  /\ P!fromJson(S) \in SortedPools
           /\ \A a \in S : P!getAvailable(P!fromJson(S), a.code) = a.value
           /\ \A c \in Codes : (\A a \in S : a.code # c) => P!getAvailable(P!fromJson(S), c) = 0
<1> DEFINE n == Cardinality(S)
           f == P!SetToSeq(S)
           q == P!fromJson(S)
<1>1. n \in Nat /\ \E g \in Bijection(1 .. n, S) : TRUE
  <2>1. \E m \in Nat : ExistsBijection(1 .. m, S)
    BY FS_NatBijection
  <2>2. PICK m \in Nat : ExistsBijection(1 .. m, S)
    BY <2>1
  <2>3. n = m
    BY <2>2, FS_CountingElements
  <2> QED BY <2>2, <2>3 DEF ExistsBijection
<1>2. PICK g \in Bijection(1 .. n, S) : TRUE
  BY <1>1
<1>3. g \in [ 1 .. n -> S ] /\ P!IsInjective(g)
  BY <1>2 DEF Bijection, Injection, IsInjective, P!IsInjective
<1>4. f \in [ 1 .. n -> S ] /\ P!IsInjective(f)
  <2>1. P!Cardinality(S) = n
    BY DEF P!Cardinality, Cardinality
  <2> QED BY <1>3, <2>1 DEF P!SetToSeq
<1> HIDE DEF f
<1>5. f \in Seq(Entry) /\ Len(f) = n /\ \A i \in 1 .. n : f[i] \in S
  BY <1>1, <1>4
<1>6. Distinct(f)
  BY <1>4, <1>5 DEF Distinct, P!IsInjective
<1>7. \A a \in S : \E i \in 1 .. n : f[i] = a
  <2>1. f \in Injection(1 .. n, S)
    BY <1>4 DEF Injection, IsInjective, P!IsInjective
  <2>2. IsFiniteSet(1 .. n) /\ Cardinality(1 .. n) = n
    BY <1>1, FS_Interval
  <2>3. f \in Surjection(1 .. n, S)
    BY <2>1, <2>2, FS_Injection, FS_Surjection
  <2> QED BY <2>3 DEF Surjection
<1>8. /\ q \in SortedPools
      /\ \A c \in Codes : P!getAvailable(q, c) = 0 + P!getAvailable(f, c)
  BY <1>5, <1>6, EmptyPool, PlusPoolAdds DEF P!fromJson, f
<1> HIDE DEF q
<1>9. ASSUME NEW a \in S PROVE P!getAvailable(q, a.code) = a.value
  <2>1. PICK i \in 1 .. n : f[i] = a
    BY <1>7
  <2>2. P!getAvailable(f, a.code) = a.value
    BY <1>5, <1>6, <2>1, Lookup
  <2>3. a.code \in Codes /\ a.value \in Int
    BY DEF Entry
  <2> QED BY <1>8, <2>2, <2>3
<1>10. ASSUME NEW c \in Codes, \A a \in S : a.code # c PROVE P!getAvailable(q, c) = 0
  <2>1. P!getAvailable(f, c) = 0
    BY <1>5, <1>6, <1>10, Lookup
  <2> QED BY <1>8, <2>1
<1> QED BY <1>8, <1>9, <1>10 DEF q

\* The pool with given amounts.
LEMMA PoolOf ==
    ASSUME NEW v \in Nets
    PROVE  /\ Pool(v) \in SortedPools
           /\ \A c \in Codes : P!getAvailable(Pool(v), c) = v[c]
<1> DEFINE S == { P!Amount(c, v[c]) : c \in Codes }
<1>1. \A a \in S : a \in Entry /\ a.value = v[a.code]
  BY DEF Nets, Entry, P!Amount
<1>2. ASSUME NEW c \in Codes PROVE \E a \in S : a.code = c /\ a.value = v[c]
  <2>1. P!Amount(c, v[c]) \in S
    OBVIOUS
  <2> QED BY <2>1 DEF P!Amount
<1>3. \A a, b \in S : a.code = b.code => a = b
  BY DEF P!Amount
<1>4. IsFiniteSet(S)
  <2> DEFINE am == [ c \in Codes |-> P!Amount(c, v[c]) ]
  <2>1. am \in Surjection(Codes, S)
    BY DEF Surjection
  <2> QED BY <2>1, TheCodes, FS_Surjection
<1>5. Pool(v) = P!fromJson(S)
  BY DEF Pool
<1> HIDE DEF S
<1> QED BY <1>1, <1>2, <1>3, <1>4, <1>5, FromJson

\* A pool that is written and parsed again has the same amounts.
LEMMA ThroughJson ==
    ASSUME NEW p \in SortedPools
    PROVE  /\ P!fromJson(P!toJson(p)) \in SortedPools
           /\ \A c \in Codes : P!getAvailable(P!fromJson(P!toJson(p)), c) = P!getAvailable(p, c)
<1> DEFINE S == P!toJson(p)
<1>1. /\ p \in Seq(Entry) /\ Len(p) \in Nat /\ DOMAIN p = 1 .. Len(p) /\ Distinct(p)
      /\ \A i \in 1 .. Len(p) : p[i] \in Entry
  BY PoolType
<1>2. S = { p[i] : i \in 1 .. Len(p) }
  BY <1>1 DEF P!toJson
<1>3. IsFiniteSet(S)
  <2>1. p \in Surjection(1 .. Len(p), S)
    BY <1>1, <1>2 DEF Surjection
  <2>2. IsFiniteSet(1 .. Len(p))
    BY <1>1, FS_Interval
  <2> QED BY <2>1, <2>2, FS_Surjection
<1>4. S \subseteq Entry /\ \A a, b \in S : a.code = b.code => a = b
  BY <1>1, <1>2 DEF Distinct
<1> HIDE DEF S
<1>5. /\ P!fromJson(S) \in SortedPools
      /\ \A a \in S : P!getAvailable(P!fromJson(S), a.code) = a.value
      /\ \A c \in Codes : (\A a \in S : a.code # c) => P!getAvailable(P!fromJson(S), c) = 0
  BY <1>3, <1>4, FromJson
<1>6. ASSUME NEW c \in Codes
      PROVE  P!getAvailable(P!fromJson(S), c) = P!getAvailable(p, c)
  <2>1. CASE \E i \in 1 .. Len(p) : p[i].code = c
    <3>1. PICK i \in 1 .. Len(p) : p[i].code = c
      BY <2>1
    <3>2. p[i] \in S
      BY <1>2
    <3> QED BY <1>1, <1>5, <3>1, <3>2, Lookup
  <2>2. CASE \A i \in 1 .. Len(p) : p[i].code # c
    <3>1. \A a \in S : a.code # c
      BY <1>2, <2>2
    <3> QED BY <1>1, <1>5, <2>2, <3>1, Lookup
  <2> QED BY <2>1, <2>2
<1> QED BY <1>5, <1>6 DEF S

\* What a pool shows of all its currencies decides what it is compared by.
LEMMA ComparedByAmounts ==
    ASSUME NEW p \in SortedPools, NEW q \in SortedPools
    PROVE  /\ P!isNonNegative(p) <=> \A c \in Codes : P!getAvailable(p, c) >= 0
           /\ P!SamePool(p, q) <=>
                 \A c \in Codes : P!getAvailable(p, c) = P!getAvailable(q, c)
           /\ P!isSameOrPastVersion(p, q) <=>
                 \A c \in Codes : P!HasEntry(p, c) => P!getAvailable(p, c) >= P!getAvailable(q, c)
<1>1. /\ p \in Seq(Entry) /\ DOMAIN p = 1 .. Len(p) /\ Distinct(p)
      /\ \A i \in 1 .. Len(p) : p[i].code \in Codes
  BY PoolType
<1>2. /\ q \in Seq(Entry) /\ DOMAIN q = 1 .. Len(q) /\ Distinct(q)
      /\ \A i \in 1 .. Len(q) : q[i].code \in Codes
  BY PoolType
<1>3. /\ \A i \in 1 .. Len(p) : P!getAvailable(p, p[i].code) = p[i].value
      /\ \A c \in Codes : \/ P!getAvailable(p, c) = 0 /\ ~P!HasEntry(p, c)
                          \/ \E i \in 1 .. Len(p) : p[i].code = c
      /\ \A i \in 1 .. Len(p) : P!HasEntry(p, p[i].code)
  BY <1>1, Lookup
<1>4. /\ \A i \in 1 .. Len(q) : P!getAvailable(q, q[i].code) = q[i].value
      /\ \A c \in Codes : \/ P!getAvailable(q, c) = 0
                          \/ \E i \in 1 .. Len(q) : q[i].code = c
  BY <1>2, Lookup
<1>5. P!isNonNegative(p) <=> \A c \in Codes : P!getAvailable(p, c) >= 0
  BY <1>1, <1>3 DEF P!isNonNegative
<1>6. P!SamePool(p, q) <=> \A c \in Codes : P!getAvailable(p, c) = P!getAvailable(q, c)
  BY <1>1, <1>2, <1>3, <1>4 DEF P!SamePool
<1>7. P!isSameOrPastVersion(p, q) <=>
         \A c \in Codes : P!HasEntry(p, c) => P!getAvailable(p, c) >= P!getAvailable(q, c)
  BY <1>1, <1>3 DEF P!isSameOrPastVersion
<1> QED BY <1>5, <1>6, <1>7

(* nonNegative(), in each currency.                                        *)
LEMMA NonNegativePool ==
    ASSUME NEW p \in SortedPools, NEW c \in Codes
    PROVE  P!getAvailable(P!nonNegative(p), c) =
              IF P!getAvailable(p, c) >= 0 THEN P!getAvailable(p, c) ELSE 0
<1> DEFINE S == { e \in P!ToSet(p) : e.value >= 0 }
           w == P!nonNegative(p)
<1>1. /\ p \in Seq(Entry) /\ DOMAIN p = 1 .. Len(p) /\ Distinct(p)
  BY PoolType
<1>2. \A h \in 1 .. Len(p) : p[h] \in S <=> p[h].value >= 0
  BY <1>1 DEF P!ToSet
<1>3. w = P!Only(p, S)
  BY DEF P!nonNegative
<1> HIDE DEF S, w
<1>4. /\ w \in SortedPools
      /\ \A j \in 1 .. Len(w) : w[j] \in S /\ \E h \in 1 .. Len(p) : w[j] = p[h]
      /\ \A h \in 1 .. Len(p) : p[h] \in S => \E j \in 1 .. Len(w) : w[j] = p[h]
  BY <1>3, FilteredPool
<1>5. w \in Seq(Entry) /\ Distinct(w)
  BY <1>4, PoolType
<1>6. CASE \E h \in 1 .. Len(p) : p[h].code = c
  <2>1. PICK h \in 1 .. Len(p) : p[h].code = c
    BY <1>6
  <2>2. P!getAvailable(p, c) = p[h].value
    BY <1>1, <2>1, Lookup
  <2>3. CASE p[h].value >= 0
    <3>1. PICK j \in 1 .. Len(w) : w[j] = p[h]
      BY <1>2, <1>4, <2>3
    <3>2. P!getAvailable(w, c) = p[h].value
      BY <1>5, <2>1, <3>1, Lookup
    <3> QED BY <2>2, <2>3, <3>2 DEF w
  <2>4. CASE ~(p[h].value >= 0)
    <3>1. \A j \in 1 .. Len(w) : w[j].code # c
      BY <1>1, <1>2, <1>4, <2>1, <2>4 DEF Distinct
    <3>2. P!getAvailable(w, c) = 0
      BY <1>5, <3>1, Lookup
    <3> QED BY <2>2, <2>4, <3>2 DEF w
  <2> QED BY <2>3, <2>4
<1>7. CASE \A h \in 1 .. Len(p) : p[h].code # c
  <2>1. \A j \in 1 .. Len(w) : w[j].code # c
    BY <1>4, <1>7
  <2>2. P!getAvailable(w, c) = 0 /\ P!getAvailable(p, c) = 0
    BY <1>1, <1>5, <1>7, <2>1, Lookup
  <2> QED BY <2>2 DEF w
<1> QED BY <1>6, <1>7

(* limit(), in each currency.                                              *)
LEMMA LimitedPool ==
    ASSUME NEW p \in SortedPools, NEW q \in SortedPools, NEW c \in Codes
    PROVE  LET a == P!getAvailable(p, c)
               b == P!getAvailable(q, c)
           IN  P!getAvailable(P!limit(p, q), c) =
                  IF P!HasEntry(q, c) THEN IF a < b THEN a ELSE b ELSE 0
<1> DEFINE Least(e) == IF P!getAvailable(p, e.code) < e.value
                       THEN P!Amount(e.code, P!getAvailable(p, e.code)) ELSE e
           cut == [ i \in DOMAIN q |-> Least(q[i]) ]
           S == { e \in P!ToSet(cut) : e.value # 0 }
           w == P!limit(p, q)
<1>1. /\ q \in Seq(Entry) /\ Len(q) \in Nat /\ DOMAIN q = 1 .. Len(q) /\ Distinct(q)
      /\ \A i \in 1 .. Len(q) : q[i] \in Entry /\ q[i].code \in Codes /\ q[i].value \in Int
      /\ \A i, j \in 1 .. Len(q) : i < j => q[i].code < q[j].code
  BY PoolType
<1>2. \A i \in 1 .. Len(q) :
         LET a == P!getAvailable(p, q[i].code) IN
         /\ cut[i] \in Entry /\ cut[i].code = q[i].code
         /\ cut[i].value = IF a < q[i].value THEN a ELSE q[i].value
  BY <1>1, AvailableType DEF P!Amount, Entry
<1>3. cut \in Seq(Entry) /\ Len(cut) = Len(q) /\ DOMAIN cut = 1 .. Len(q)
  <2>1. cut \in [ 1 .. Len(q) -> Entry ]
    BY <1>1, <1>2
  <2> HIDE DEF cut
  <2> QED BY <1>1, <2>1
<1>4. w = P!Only(cut, S)
  BY DEF P!limit
<1>5. \A i \in 1 .. Len(q) : cut[i] \in S <=> cut[i].value # 0
  <2> HIDE DEF cut
  <2> QED BY <1>3 DEF P!ToSet
<1> HIDE DEF cut, S, w
<1>6. cut \in SortedPools
  BY <1>1, <1>2, <1>3, PoolIsSorted
<1>7. /\ w \in SortedPools
      /\ \A j \in 1 .. Len(w) : w[j] \in S /\ \E h \in 1 .. Len(q) : w[j] = cut[h]
      /\ \A h \in 1 .. Len(q) : cut[h] \in S => \E j \in 1 .. Len(w) : w[j] = cut[h]
  BY <1>3, <1>4, <1>6, FilteredPool
<1>8. w \in Seq(Entry) /\ Distinct(w)
  BY <1>7, PoolType
<1>9. CASE \E h \in 1 .. Len(q) : q[h].code = c
  <2>1. PICK h \in 1 .. Len(q) : q[h].code = c
    BY <1>9
  <2>2. P!getAvailable(q, c) = q[h].value /\ P!HasEntry(q, c)
    BY <1>1, <2>1, Lookup
  <2>3. cut[h].code = c
        /\ cut[h].value = IF P!getAvailable(p, c) < q[h].value THEN P!getAvailable(p, c)
                          ELSE q[h].value
    BY <1>2, <2>1
  <2>4. P!getAvailable(w, c) = cut[h].value
    <3>1. CASE cut[h].value # 0
      <4>1. PICK j \in 1 .. Len(w) : w[j] = cut[h]
        BY <1>5, <1>7, <3>1
      <4> QED BY <1>8, <2>3, <4>1, Lookup
    <3>2. CASE cut[h].value = 0
      <4>1. \A i \in 1 .. Len(q) : cut[i].code = c => i = h
        BY <1>1, <1>2, <2>1 DEF Distinct
      <4>2. \A j \in 1 .. Len(w) : w[j].code # c
        BY <1>5, <1>7, <3>2, <4>1
      <4> QED BY <1>8, <3>2, <4>2, Lookup
    <3> QED BY <3>1, <3>2
  <2> QED BY <2>2, <2>3, <2>4 DEF w
<1>10. CASE \A h \in 1 .. Len(q) : q[h].code # c
  <2>1. \A j \in 1 .. Len(w) : w[j].code # c
    <3>1. \A h \in 1 .. Len(q) : cut[h].code # c
      BY <1>2, <1>10
    <3>2. \A j \in 1 .. Len(w) : \E h \in 1 .. Len(q) : w[j] = cut[h]
      BY <1>7
    <3> QED
      BY <3>1, <3>2
  <2>2. P!getAvailable(w, c) = 0 /\ ~P!HasEntry(q, c)
    BY <1>1, <1>8, <1>10, <2>1, Lookup
  <2> QED BY <2>2 DEF w
<1> QED BY <1>9, <1>10

\* All operators, for any two pools of the code's currencies.
LEMMA PoolsActPointwise ==
    ASSUME NEW p \in SortedPools, NEW q \in SortedPools
    PROVE  P!ActsPointwise(p, q, Codes)
<1> SUFFICES ASSUME NEW c \in Codes
             PROVE  LET a == P!getAvailable(p, c)
                        b == P!getAvailable(q, c)
                    IN  /\ P!getAvailable(P!PlusPool(p, q), c) = a + b
                        /\ P!getAvailable(P!MinusPool(p, q), c) = a - b
                        /\ P!getAvailable(P!nonNegative(p), c) = IF a >= 0 THEN a ELSE 0
                        /\ P!getAvailable(P!limit(p, q), c) =
                               IF P!HasEntry(q, c) THEN IF a < b THEN a ELSE b ELSE 0
                        /\ P!getAvailable(P!fromJson(P!toJson(p)), c) = a
                        /\ P!isSameOrPastVersion(p, q) => ~P!HasEntry(p, c) \/ a >= b
                        /\ P!SamePool(p, q) => a = b
  BY DEF P!ActsPointwise
<1>1. q \in Seq(Entry) /\ Distinct(q)
  BY PoolType
<1>2. P!getAvailable(P!PlusPool(p, q), c) = P!getAvailable(p, c) + P!getAvailable(q, c)
  BY <1>1, PlusPoolAdds
<1>3. P!getAvailable(P!MinusPool(p, q), c) = P!getAvailable(p, c) - P!getAvailable(q, c)
  BY <1>1, MinusPoolSubtracts
<1>4. P!isSameOrPastVersion(p, q) =>
         ~P!HasEntry(p, c) \/ P!getAvailable(p, c) >= P!getAvailable(q, c)
  BY ComparedByAmounts
<1>5. P!SamePool(p, q) => P!getAvailable(p, c) = P!getAvailable(q, c)
  BY ComparedByAmounts
<1> QED BY <1>2, <1>3, <1>4, <1>5, NonNegativePool, LimitedPool, ThroughJson

----------------------------------------------------------------------------
(* What the master's operations do to the accounts of one currency.        *)

\* The shadow's counters in the account are as they were.
CountsKept(m, n) ==
    Account1 \in DOMAIN m =>
        Account1 \in DOMAIN n /\ \A f \in Counters : n[Account1][f] = m[Account1][f]

StatusesKept(m, n) ==
    DOMAIN n = DOMAIN m /\ \A k \in DOMAIN m : n[k].status = m[k].status

\* The accounts a spend account may be among.
LEMMA AccountOne ==
    /\ Account1 \in Keys /\ Len(Account1) > 1 /\ Len(Account1) # 1
    /\ "spend" \in AccountType
    /\ Counters \subseteq AmountFields
    /\ Account1 \notin Ancestors(Account1)
    /\ Front(Account1) \in Ancestors(Account1) /\ Front(Account1) # Account1
<1>1. Account1 \in Keys /\ Len(Account1) > 1
  BY ShadowAssumption
<1>2. Account1 \notin Ancestors(Account1)
  BY DEF Ancestors, IsStrictPrefix
<1>3. Len(Account1) # 1
  <2>1. Len(Account1) \in Nat
    BY <1>1, KeysAssumption
  <2>2. \A n \in Nat : n > 1 => n # 1
    OBVIOUS
  <2> QED
    BY <1>1, <2>1, <2>2
<1> QED
  BY <1>1, <1>2, <1>3, ParentIsAncestor DEF AccountType, Counters, AmountFields

\* An account of the tree is a record with counters that are not negative.
LEMMA TreeAccount ==
    ASSUME NEW m, TreeOK(m), NEW k \in DOMAIN m
    PROVE  /\ m[k] \in AccountRecord /\ k \in Keys
           /\ AmountsNonNegative(m[k]) /\ Balanced(m[k])
           /\ \A f \in Counters : m[k][f] \in Nat
<1>1. m[k] \in AccountRecord /\ k \in Keys
  BY MapElement DEF TreeOK, GoodMap
<1>2. AmountsNonNegative(m[k]) /\ Balanced(m[k])
  BY DEF TreeOK, GoodMap, AllBalanced, AllAmountsNonNegative
<1>3. \A f \in Counters : m[k][f] \in Int /\ m[k][f] >= 0
  BY <1>1, <1>2 DEF AccountRecord, AmountsNonNegative, AmountFields, Counters
<1> QED
  BY <1>1, <1>2, <1>3

\* Types and places are kept by what changes pools only.
LEMMA TypesKept ==
    ASSUME NEW m, NEW n, TreeTypes(m), Keeps(m, n)
    PROVE  TreeTypes(n)
  BY DEF TreeTypes, Keeps

(* reactivatePresentAccounts on the accounts of one currency.              *)
LEMMA ReactivatedTree ==
    ASSUME NEW m, TreeOK(m)
    PROVE  LET n == reactivatePresentAccounts(m, Account1) IN
           /\ TreeOK(n) /\ DOMAIN n = DOMAIN m
           /\ CountsKept(m, n)
           /\ Account1 \in DOMAIN m => n[Account1].status = "active"
           /\ \A k \in DOMAIN m :
                 n[k].status = IF /\ Account1 \in DOMAIN m
                                  /\ m[Account1].status = "closed"
                                  /\ k \in Ancestors(Account1) \cup Subtree(m, Account1)
                               THEN "active" ELSE m[k].status
<1> DEFINE n == reactivatePresentAccounts(m, Account1)
           set(j) == [ m[j] EXCEPT !.status = "active" ]
           all == Ancestors(Account1) \cup Subtree(m, Account1)
           closed == Account1 \in DOMAIN m /\ m[Account1].status = "closed"
<1>1. /\ GoodMap(n) /\ DOMAIN n = DOMAIN m /\ AllAmountsNonNegative(n) /\ NoOverdraft(n)
      /\ Keeps(m, n)
  BY ReactivateStep, ReactivateOK DEF TreeOK, GoodMap
<1>2. TreeOK(n)
  BY <1>1, TypesKept DEF TreeOK
<1>3. n = IF closed THEN [ j \in DOMAIN m |-> IF j \in all THEN set(j) ELSE m[j] ] ELSE m
  BY DEF reactivatePresentAccounts
<1>4. \A j \in DOMAIN m : /\ set(j).status = "active"
                          /\ \A f \in Counters : set(j)[f] = m[j][f]
  <2> SUFFICES ASSUME NEW j \in DOMAIN m
               PROVE  /\ set(j).status = "active"
                      /\ \A f \in Counters : set(j)[f] = m[j][f]
    OBVIOUS
  <2>1. m[j] \in AccountRecord
    BY TreeAccount
  <2> QED
    BY <2>1 DEF AccountRecord, Counters
<1>5. Account1 \in DOMAIN m => Account1 \in all
  <2>1. Account1 \in Seq(STRING)
    BY AccountOne, KeysAssumption
  <2> QED
    BY <2>1 DEF Subtree, IsPrefix
<1>6. Account1 \in DOMAIN m => m[Account1].status \in {"active", "closed"}
  BY TreeAccount DEF AccountRecord, Status
<1> HIDE DEF n, set, all
<1>7. \A k \in DOMAIN m : n[k] = IF closed /\ k \in all THEN set(k) ELSE m[k]
  BY <1>3
<1>8. \A k \in DOMAIN m : n[k].status = IF closed /\ k \in all THEN "active" ELSE m[k].status
  BY <1>4, <1>7
<1>9. CountsKept(m, n)
  BY <1>1, <1>4, <1>7 DEF CountsKept
<1>10. Account1 \in DOMAIN m => n[Account1].status = "active"
  BY <1>5, <1>6, <1>8
<1> QED
  BY <1>1, <1>2, <1>8, <1>9, <1>10 DEF n, all

(* The currencies stay alike.                                              *)
LEMMA ReactivatedAlike ==
    ASSUME NEW m, NEW o, TreeOK(m), TreeOK(o), Alike(m, o)
    PROVE  Alike(reactivatePresentAccounts(m, Account1),
                 reactivatePresentAccounts(o, Account1))
<1>1. Subtree(m, Account1) = Subtree(o, Account1)
  BY DEF Subtree, Alike
<1> QED
  BY <1>1, ReactivatedTree DEF Alike

(* ensureAccount finds budget accounts above, and adds what is missing.    *)
LEMMA EnsuredTree ==
    ASSUME NEW m, TreeOK(m)
    PROVE  LET n == ensureAccount(m, Account1, "spend") IN
           /\ TreeOK(n) /\ Account1 \in DOMAIN n
           /\ DOMAIN n = DOMAIN m \cup {Account1} \cup Ancestors(Account1)
           /\ \A k \in DOMAIN m : n[k] = m[k]
           /\ \A k \in DOMAIN n \ DOMAIN m : n[k].status = "active"
           /\ Account1 \notin DOMAIN m => \A f \in Counters : n[Account1][f] = 0
<1> DEFINE n == ensureAccount(m, Account1, "spend")
<1>1. /\ DOMAIN n = DOMAIN m \cup {Account1} \cup Ancestors(Account1)
      /\ \A k \in DOMAIN m : n[k] = m[k]
      /\ \A k \in DOMAIN n \ DOMAIN m :
            n[k] = NewAccount(IF k = Account1 THEN "spend" ELSE "budget")
  BY DEF ensureAccount
<1>2. CanEnsure(m, Account1, "spend")
  <2>1. Account1 \in DOMAIN m => m[Account1].type = "spend"
    BY AccountOne DEF TreeOK, TreeTypes
  <2>2. \A p \in Ancestors(Account1) \cap DOMAIN m : m[p].type = "budget"
    BY AccountOne DEF TreeOK, TreeTypes
  <2> QED
    BY <2>1, <2>2, AccountOne DEF CanEnsure
<1>3. GoodMap(n) /\ AllAmountsNonNegative(n)
  BY <1>2, AccountOne, EnsureAccountOK DEF TreeOK
<1>4. NoOverdraft(n)
  BY EnsureNoOverdraft DEF TreeOK
<1>5. /\ \A t : NewAccount(t).status = "active" /\ NewAccount(t).type = t
      /\ \A t : \A f \in Counters : NewAccount(t)[f] = 0
  BY DEF NewAccount, Counters
<1> HIDE DEF n
<1>6. TreeTypes(n)
  <2> SUFFICES ASSUME NEW k \in DOMAIN n
               PROVE  \/ k = Account1 /\ n[k].type = "spend"
                      \/ k \in Ancestors(Account1) /\ n[k].type = "budget"
    BY DEF TreeTypes
  <2>1. CASE k \in DOMAIN m
    BY <1>1, <2>1 DEF TreeOK, TreeTypes
  <2>2. CASE k \notin DOMAIN m
    BY <1>1, <1>5, <2>2
  <2> QED
    BY <2>1, <2>2
<1> QED
  BY <1>1, <1>3, <1>4, <1>5, <1>6 DEF n, TreeOK

(* The currencies stay alike.                                              *)
LEMMA EnsuredAlike ==
    ASSUME NEW m, NEW o, TreeOK(m), TreeOK(o), Alike(m, o)
    PROVE  Alike(ensureAccount(m, Account1, "spend"), ensureAccount(o, Account1, "spend"))
<1> DEFINE n == ensureAccount(m, Account1, "spend")
           q == ensureAccount(o, Account1, "spend")
<1>1. /\ DOMAIN n = DOMAIN m \cup {Account1} \cup Ancestors(Account1)
      /\ \A k \in DOMAIN m : n[k] = m[k]
      /\ \A k \in DOMAIN n \ DOMAIN m : n[k].status = "active"
  BY EnsuredTree
<1>2. /\ DOMAIN q = DOMAIN o \cup {Account1} \cup Ancestors(Account1)
      /\ \A k \in DOMAIN o : q[k] = o[k]
      /\ \A k \in DOMAIN q \ DOMAIN o : q[k].status = "active"
  BY EnsuredTree
<1> HIDE DEF n, q
<1> QED
  BY <1>1, <1>2 DEF Alike, n, q

(* A transfer takes no more from a parent than it has.                     *)
LEMMA TransferCovered ==
    ASSUME NEW a \in AccountRecord, NEW p \in AccountRecord, NEW v \in Int,
           p.balance >= 0
    PROVE  TransferParent(p, Transfer(a, p, v)).balance >= 0
<1> DEFINE t == Transfer(a, p, v)
<1>1. /\ a.balance \in Int /\ p.balance \in Int
      /\ p.recycledIn \in Int /\ p.recycledOut \in Int
  BY DEF AccountRecord
<1>2. getRecycledAvail(p) \in Int /\ getRecycledAvail(p) >= 0
  BY <1>1 DEF getRecycledAvail, nonNegative
<1>3. /\ t.fromRecycled \in Int /\ t.fromBudget \in Int /\ t.toRecycled \in Int
      /\ t.toRecycled >= 0
  BY TransferOK DEF TransferRecord
<1>4. t.fromRecycled + t.fromBudget <= p.balance
  BY <1>1, <1>2 DEF Transfer, limit, nonNegative
<1> HIDE DEF t
<1>5. TransferParent(p, t).balance
        = p.balance + (t.toRecycled - t.fromRecycled - t.fromBudget)
  BY DEF TransferParent, AccountRecord
<1> QED
  BY <1>1, <1>3, <1>4, <1>5 DEF t

(* A transfer leaves the counters alone.                                   *)
LEMMA TransferCounts ==
    ASSUME NEW a \in AccountRecord, NEW t
    PROVE  /\ TransferChild(a, t).status = a.status
           /\ TransferParent(a, t).status = a.status
           /\ \A f \in Counters : TransferChild(a, t)[f] = a[f]
  BY DEF TransferChild, TransferParent, AccountRecord, Counters

(* setBalance on the accounts of one currency.                             *)
LEMMA SetBalanceTree ==
    ASSUME NEW m, TreeOK(m), NEW v \in Int
    PROVE  LET n == setBalance(m, Account1, v) IN
           TreeOK(n) /\ StatusesKept(m, n) /\ CountsKept(m, n)
<1> DEFINE n == setBalance(m, Account1, v)
           A == Account1
           p == Front(A)
           t == Transfer(m[A], m[p], v)
           moves == A \in DOMAIN m /\ HasParent(m, A) /\ checkInvariants(m[A])
           b == TransferChild(m[A], t)
           c == TransferParent(m[p], t)
<1>1. GoodMap(n) /\ AllAmountsNonNegative(n) /\ Keeps(m, n)
  BY SetBalanceStep, SetBalanceOK DEF TreeOK, StepOK, GoodMap
<1>2. TreeTypes(n)
  BY <1>1, TypesKept DEF TreeOK
<1>3. CASE ~moves
  <2>1. n = m
    BY <1>3 DEF setBalance
  <2> QED
    BY <2>1 DEF StatusesKept, CountsKept
<1>4. CASE moves
  <2>1. /\ A \in DOMAIN m /\ p \in DOMAIN m /\ A # p /\ m[p].type = "budget"
        /\ m[A] \in AccountRecord /\ m[p] \in AccountRecord
    BY <1>4, AccountOne, TreeAccount DEF HasParent
  <2>2. n = [ m EXCEPT ![A] = TransferChild(@, t), ![p] = TransferParent(@, t) ]
    BY <1>4 DEF setBalance
  <2>3. m = [ j \in DOMAIN m |-> m[j] ]
    BY DEF TreeOK, GoodMap, IsAccountMap
  <2>4. /\ DOMAIN n = DOMAIN m /\ n[A] = b /\ n[p] = c
        /\ \A j \in DOMAIN m : j # A /\ j # p => n[j] = m[j]
    BY <2>1, <2>2, <2>3
  <2>5. /\ b.status = m[A].status /\ c.status = m[p].status
        /\ \A f \in Counters : b[f] = m[A][f]
    BY <2>1, TransferCounts
  <2>6. c.balance >= 0
    BY <2>1, TransferCovered DEF TreeOK, NoOverdraft
  <2>7. m[A].type = "spend"
    BY <2>1, AccountOne DEF TreeOK, TreeTypes
  <2> HIDE DEF b, c, t, n
  <2>8. n[A].type = "spend"
    BY <1>1, <2>1, <2>7 DEF Keeps
  <2>9. NoOverdraft(n)
    <3> SUFFICES ASSUME NEW j \in DOMAIN n, n[j].type = "budget"
                 PROVE  n[j].balance >= 0
      BY DEF NoOverdraft
    <3>1. CASE j = A
      BY <2>8, <3>1
    <3>2. CASE j = p
      BY <2>4, <2>6, <3>2
    <3>3. CASE j # A /\ j # p
      BY <2>4, <3>3 DEF TreeOK, NoOverdraft
    <3> QED
      BY <3>1, <3>2, <3>3
  <2>10. StatusesKept(m, n) /\ CountsKept(m, n)
    BY <2>4, <2>5 DEF StatusesKept, CountsKept
  <2> QED
    BY <1>1, <1>2, <2>9, <2>10 DEF n, TreeOK
<1> QED
  BY <1>3, <1>4

(* closeOne closes the account: nothing throws.                            *)
LEMMA ClosedTree ==
    ASSUME NEW m, TreeOK(m), Account1 \in DOMAIN m
    PROVE  LET n == closeOne(m, Account1) IN
           /\ TreeOK(n) /\ DOMAIN n = DOMAIN m /\ CountsKept(m, n)
           /\ n[Account1].status = "closed"
           /\ \A k \in DOMAIN m : k # Account1 => n[k].status = m[k].status
<1> DEFINE n == closeOne(m, Account1)
           A == Account1
           p == Front(A)
           b == RecuperateChild(m[A])
           c == RecuperateParent(m[p], m[A])
           d == [ b EXCEPT !.status = "closed" ]
<1>1. GoodMap(n) /\ AllAmountsNonNegative(n) /\ Keeps(m, n)
  BY CloseOneOK, KeepsGood DEF TreeOK
<1>2. TreeTypes(n)
  BY <1>1, TypesKept DEF TreeOK
<1>3. HasParent(m, A)
  BY AccountOne, GoodHasParent DEF TreeOK
<1>4. /\ p \in DOMAIN m /\ A # p /\ m[p].type = "budget"
      /\ m[A] \in AccountRecord /\ m[p] \in AccountRecord
      /\ AmountsNonNegative(m[A]) /\ Balanced(m[A])
  BY <1>3, AccountOne, TreeAccount DEF HasParent
<1>5. b \in AccountRecord /\ AmountsNonNegative(b) /\ Balanced(b)
  BY <1>4, RecuperateChildOK
<1>6. ~CloseThrows(m, A)
  BY <1>3, <1>5 DEF CloseThrows, checkInvariants
<1>7. ClosesOne(m, n, A)
  BY CloseOneGrew DEF TreeOK
<1>8. n = [ [ m EXCEPT ![A] = b, ![p] = c ] EXCEPT ![A].status = "closed" ]
  BY <1>4, <1>6, AccountOne DEF closeOne, Recuperated
<1>9. m = [ j \in DOMAIN m |-> m[j] ]
  BY DEF TreeOK, GoodMap, IsAccountMap
<1>10. \A f \in Counters : d[f] = m[A][f]
  BY <1>4 DEF RecuperateChild, AccountRecord, Counters
<1>11. c.balance >= 0
  <2>1. m[p].balance \in Int /\ m[p].balance >= 0 /\ m[A].balance \in Int
    BY <1>4 DEF TreeOK, NoOverdraft, AccountRecord
  <2>2. c.balance = m[p].balance + nonNegative(m[A].balance)
    BY <1>4 DEF RecuperateParent, AccountRecord
  <2> QED
    BY <2>1, <2>2 DEF nonNegative
<1> HIDE DEF b, c
<1>12. /\ n[A] = d /\ n[p] = c
       /\ \A j \in DOMAIN m : j # A /\ j # p => n[j] = m[j]
  BY <1>4, <1>8, <1>9
<1> HIDE DEF d, n
<1>13. m[A].type = "spend" /\ n[A].type = "spend"
  BY <1>1, AccountOne DEF TreeOK, TreeTypes, Keeps
<1>14. NoOverdraft(n)
  <2> SUFFICES ASSUME NEW j \in DOMAIN n, n[j].type = "budget"
               PROVE  n[j].balance >= 0
    BY DEF NoOverdraft
  <2>0. j \in DOMAIN m
    BY <1>1 DEF Keeps
  <2>1. CASE j = A
    BY <1>13, <2>1
  <2>2. CASE j = p
    BY <1>11, <1>12, <2>2
  <2>3. CASE j # A /\ j # p
    BY <1>12, <2>0, <2>3 DEF TreeOK, NoOverdraft
  <2> QED
    BY <2>1, <2>2, <2>3
<1>15. DOMAIN n = DOMAIN m
  BY <1>1 DEF Keeps
<1>16. CountsKept(m, n)
  BY <1>10, <1>12, <1>15 DEF CountsKept
<1>17. n[A].status = "closed" /\ \A k \in DOMAIN m : k # A => n[k].status = m[k].status
  BY <1>6, <1>7 DEF ClosesOne
<1> QED
  BY <1>1, <1>2, <1>14, <1>15, <1>16, <1>17 DEF n, TreeOK

(* syncFromShadow takes over the counters of a report that is accepted.    *)
LEMMA SyncedTree ==
    ASSUME NEW m, TreeOK(m), Account1 \in DOMAIN m,
           NEW r \in [ Counters -> Nat ], ShadowIsNewer(r, m[Account1])
    PROVE  LET n == syncFromShadow(m, Account1, r) IN
           /\ TreeOK(n) /\ StatusesKept(m, n)
           /\ \A f \in Counters : n[Account1][f] = r[f]
<1> DEFINE n == syncFromShadow(m, Account1, r)
           A == Account1
           b == syncToMaster(r, m[A])
<1>1. r \in ShadowRecord
  BY DEF ShadowRecord, Counters
<1>2. GoodMap(n) /\ AllAmountsNonNegative(n) /\ Keeps(m, n)
  BY <1>1, SyncFromShadowStep, SyncFromShadowOK DEF TreeOK, StepOK, GoodMap
<1>3. TreeTypes(n)
  BY <1>2, TypesKept DEF TreeOK
<1>4. m[A] \in AccountRecord /\ AmountsNonNegative(m[A]) /\ Balanced(m[A])
  BY TreeAccount
<1>5. n = [ m EXCEPT ![A] = b ]
  BY <1>4 DEF syncFromShadow, checkInvariants
<1>6. b.status = m[A].status /\ \A f \in Counters : b[f] = r[f]
  BY <1>4 DEF syncToMaster, AccountRecord, Counters
<1>7. m = [ j \in DOMAIN m |-> m[j] ]
  BY DEF TreeOK, GoodMap, IsAccountMap
<1> HIDE DEF b
<1>8. DOMAIN n = DOMAIN m /\ n[A] = b /\ \A j \in DOMAIN m : j # A => n[j] = m[j]
  BY <1>5, <1>7
<1>9. m[A].type = "spend" /\ n[A].type = "spend"
  BY <1>2, AccountOne DEF TreeOK, TreeTypes, Keeps
<1> HIDE DEF n
<1>10. NoOverdraft(n)
  BY <1>8, <1>9 DEF TreeOK, NoOverdraft
<1>11. StatusesKept(m, n)
  BY <1>6, <1>8 DEF StatusesKept
<1> QED
  BY <1>2, <1>3, <1>6, <1>8, <1>10, <1>11 DEF n, TreeOK

(* Parsing what was stored of an account gives the account again, active.  *)
LEMMA ParsedAccount ==
    ASSUME NEW a \in AccountRecord, Balanced(a)
    PROVE  LET b == [ fromJson(toJson(a)) EXCEPT !.status = "active" ] IN
           /\ b.balance = a.balance /\ b.status = "active" /\ b.type = a.type
           /\ \A f \in Counters : b[f] = a[f]
<1> DEFINE j == toJson(a)
           g == fromJson(j)
<1>1. j \in AccountRecord /\ g \in AccountRecord
  BY JsonOK
<1>0. j.type = a.type /\ g.type = a.type
  BY <1>1, JsonOK
<1>2. \A f \in AmountFields : j[f] = a[f]
  BY DEF toJson, AccountRecord, AmountFields
<1>3. Credit(j) = Credit(a) /\ Debit(j) = Debit(a)
  BY <1>2 DEF Credit, Debit, AmountFields
<1>4. Credit(a) - Debit(a) = a.balance
  BY SidesType DEF Balanced
<1>5. \A f \in Counters : j[f] = a[f]
  BY <1>2 DEF Counters, AmountFields
<1> HIDE DEF j
<1>6. g.balance = a.balance /\ \A f \in Counters : g[f] = a[f]
  BY <1>1, <1>3, <1>4, <1>5 DEF fromJson, AccountRecord, Counters
<1> HIDE DEF g
<1>7. LET b == [ g EXCEPT !.status = "active" ] IN
      /\ b.balance = g.balance /\ b.status = "active" /\ b.type = g.type
      /\ \A f \in Counters : b[f] = g[f]
  BY <1>1 DEF AccountRecord, Counters
<1> QED
  BY <1>0, <1>6, <1>7 DEF g, j

\* The accounts that are not archived, and what is stored of them.
Members(m) == { k \in DOMAIN m : m[k].status = "active" }
Records(m) == [ k \in Members(m) |-> toJson(m[k]) ]

(* The master restarts from what it saved of the accounts of one currency. *)
LEMMA RestoredTree ==
    ASSUME NEW m, TreeOK(m)
    PROVE  LET n == RestoredAccounts(Members(m), Records(m)) IN
           /\ TreeOK(n)
           /\ DOMAIN n = Members(m) \cup UNION { Ancestors(k) : k \in Members(m) }
           /\ \A k \in DOMAIN n : n[k].status = "active"
           /\ Account1 \in DOMAIN n <=> Account1 \in Members(m)
           /\ Account1 \in DOMAIN n =>
                 \A f \in Counters : n[Account1][f] = m[Account1][f]
<1> DEFINE n == RestoredAccounts(Members(m), Records(m))
           above == UNION { Ancestors(k) : k \in Members(m) }
           loaded(k) == [ fromJson(toJson(m[k])) EXCEPT !.status = "active" ]
<1>1. /\ DOMAIN n = Members(m) \cup above
      /\ \A k \in Members(m) : n[k] = loaded(k)
      /\ \A k \in above \ Members(m) : n[k] = NewAccount("budget")
  BY DEF RestoredAccounts, Records
<1>2. \A k \in Members(m) :
         /\ k \in DOMAIN m /\ k \in Keys /\ m[k] \in AccountRecord
         /\ AmountsNonNegative(m[k]) /\ Balanced(m[k])
  BY TreeAccount DEF Members
<1>3. \A k \in Members(m) :
         /\ loaded(k).balance = m[k].balance /\ loaded(k).status = "active"
         /\ loaded(k).type = m[k].type
         /\ \A f \in Counters : loaded(k)[f] = m[k][f]
  BY <1>2, ParsedAccount
<1>4. \A k \in Members(m) : /\ toJson(m[k]) \in AccountRecord
                            /\ toJson(m[k]).type = m[k].type
                            /\ AmountsNonNegative(toJson(m[k]))
  <2> SUFFICES ASSUME NEW k \in Members(m)
               PROVE  /\ toJson(m[k]) \in AccountRecord
                      /\ toJson(m[k]).type = m[k].type
                      /\ AmountsNonNegative(toJson(m[k]))
    OBVIOUS
  <2>1. toJson(m[k]) \in AccountRecord /\ toJson(m[k]).type = m[k].type
    BY <1>2, JsonOK
  <2>2. \A f \in AmountFields : toJson(m[k])[f] = m[k][f]
    BY <1>2 DEF toJson, AccountRecord, AmountFields
  <2> QED
    BY <1>2, <2>1, <2>2 DEF AmountsNonNegative
<1> HIDE DEF loaded
<1>5. \A k \in DOMAIN m : \/ k = Account1 /\ m[k].type = "spend"
                          \/ k \in Ancestors(Account1) /\ m[k].type = "budget"
  BY DEF TreeOK, TreeTypes
<1>6. /\ Members(m) \subseteq DOMAIN m /\ IsAccountMap(Records(m))
      /\ DOMAIN Records(m) = Members(m)
  BY <1>2, <1>4 DEF Members, Records, IsAccountMap
<1>7. CanRestore(Members(m), Records(m))
  <2> SUFFICES ASSUME NEW k \in Members(m)
               PROVE  /\ AmountsNonNegative(Records(m)[k])
                      /\ Len(k) = 1 => Records(m)[k].type = "budget"
                      /\ (\E c \in Members(m) : k \in Ancestors(c)) =>
                            Records(m)[k].type = "budget"
    BY DEF CanRestore
  <2>1. Records(m)[k] = toJson(m[k])
    BY DEF Records
  <2>2. Len(k) = 1 => m[k].type = "budget"
    BY <1>2, <1>5, AccountOne
  <2>3. ASSUME NEW c \in Members(m), k \in Ancestors(c)
        PROVE  m[k].type = "budget"
    BY <1>2, <2>3 DEF TreeOK, GoodMap, AncestorsPresent
  <2> QED
    BY <1>4, <2>1, <2>2, <2>3
<1>8. GoodMap(n) /\ AllAmountsNonNegative(n)
  BY <1>6, <1>7, RestoredAccountsOK
<1> HIDE DEF n
<1>9. above \subseteq Ancestors(Account1)
  <2> SUFFICES ASSUME NEW c \in Members(m), NEW k \in Ancestors(c)
               PROVE  k \in Ancestors(Account1)
    OBVIOUS
  <2>1. c = Account1 \/ c \in Ancestors(Account1)
    BY <1>2, <1>5
  <2> QED
    BY <2>1, AccountOne, AncestorsTransitive
<1>10. NewAccount("budget").type = "budget" /\ NewAccount("budget").balance = 0
       /\ NewAccount("budget").status = "active"
  BY DEF NewAccount
<1>11. TreeTypes(n)
  <2> SUFFICES ASSUME NEW k \in DOMAIN n
               PROVE  \/ k = Account1 /\ n[k].type = "spend"
                      \/ k \in Ancestors(Account1) /\ n[k].type = "budget"
    BY DEF TreeTypes
  <2>1. CASE k \in Members(m)
    <3>1. n[k].type = m[k].type
      BY <1>1, <1>3, <2>1
    <3> QED
      BY <1>2, <1>5, <2>1, <3>1
  <2>2. CASE k \notin Members(m)
    BY <1>1, <1>9, <1>10, <2>2
  <2> QED
    BY <2>1, <2>2
<1>12. NoOverdraft(n)
  <2> SUFFICES ASSUME NEW k \in DOMAIN n, n[k].type = "budget"
               PROVE  n[k].balance >= 0
    BY DEF NoOverdraft
  <2>1. CASE k \in Members(m)
    <3>1. m[k].type = "budget"
      BY <1>2, <1>5, <1>11, <2>1, AccountOne DEF TreeTypes
    <3>2. m[k].balance >= 0
      BY <1>2, <2>1, <3>1 DEF TreeOK, NoOverdraft
    <3> QED
      BY <1>1, <1>3, <2>1, <3>2
  <2>2. CASE k \notin Members(m)
    BY <1>1, <1>10, <2>2
  <2> QED
    BY <2>1, <2>2
<1>13. \A k \in DOMAIN n : n[k].status = "active"
  BY <1>1, <1>3, <1>10
<1>14. /\ Account1 \in DOMAIN n <=> Account1 \in Members(m)
       /\ Account1 \in DOMAIN n => \A f \in Counters : n[Account1][f] = m[Account1][f]
  BY <1>1, <1>3, <1>9, AccountOne
<1> QED
  BY <1>1, <1>8, <1>11, <1>12, <1>13, <1>14 DEF n, TreeOK

(* The first balance of a new account is what its parent gives.            *)
LEMMA FirstBalance ==
    ASSUME NEW m, TreeOK(m), Account1 \in DOMAIN m, m[Account1] = NewAccount("spend"),
           NEW v \in Nat
    PROVE  getNetBudget(setBalance(m, Account1, v)[Account1]) >= 0
<1> DEFINE A == Account1
           p == Front(A)
           t == Transfer(m[A], m[p], v)
           b == TransferChild(m[A], t)
           moves == A \in DOMAIN m /\ HasParent(m, A) /\ checkInvariants(m[A])
<1>1. /\ m[A].balance = 0 /\ m[A].budgetIncreases = 0 /\ m[A].budgetDecreases = 0
      /\ m[A].allocatedIn = 0 /\ m[A].allocatedOut = 0 /\ m[A].recycledIn = 0
      /\ m[A].recycledOut = 0 /\ m[A].adjustmentsIn = 0 /\ m[A].adjustmentsOut = 0
      /\ m[A] \in AccountRecord
  BY TreeAccount DEF NewAccount
<1>2. CASE ~moves
  <2>1. setBalance(m, A, v) = m
    BY <1>2 DEF setBalance
  <2> QED
    BY <1>1, <2>1 DEF getNetBudget
<1>3. CASE moves
  <2>1. p \in DOMAIN m /\ A # p /\ m[p] \in AccountRecord /\ m[p].balance >= 0
    BY <1>3, AccountOne, TreeAccount DEF HasParent, TreeOK, NoOverdraft
  <2>2. setBalance(m, A, v) = [ m EXCEPT ![A] = TransferChild(@, t), ![p] = TransferParent(@, t) ]
    BY <1>3 DEF setBalance
  <2>3. m = [ j \in DOMAIN m |-> m[j] ]
    BY DEF TreeOK, GoodMap, IsAccountMap
  <2>4. setBalance(m, A, v)[A] = b
    BY <2>1, <2>2, <2>3
  <2>5. t \in TransferRecord /\ t.fromRecycled >= 0 /\ t.fromBudget >= 0
    BY <1>1, <2>1, TransferOK
  <2>6. t.toRecycled = 0
    BY <1>1 DEF Transfer, nonNegative
  <2> HIDE DEF t
  <2>8. t.fromRecycled \in Int /\ t.fromBudget \in Int
    BY <2>5 DEF TransferRecord
  <2>7. /\ b.budgetIncreases = t.fromBudget /\ b.budgetDecreases = 0
        /\ b.allocatedIn = 0 /\ b.allocatedOut = 0 /\ b.recycledIn = t.fromRecycled
        /\ b.recycledOut = 0 /\ b.adjustmentsIn = 0 /\ b.adjustmentsOut = 0
    BY <1>1, <2>6, <2>8 DEF TransferChild, AccountRecord
  <2> HIDE DEF b
  <2> QED
    BY <2>4, <2>5, <2>7, <2>8 DEF getNetBudget
<1> QED
  BY <1>2, <1>3

(* The accounts the banker starts with.                                    *)
LEMMA OpenedTrees ==
    /\ TreesOK(OpenAccounts) /\ IsThere(OpenAccounts)
    /\ NetOf(OpenAccounts) >= 0 /\ CountsOf(OpenAccounts) = NoCounts
<1> DEFINE empty == ensureAccount(NoAccounts, Account1, "spend")
           p == Front(Account1)
           b == setBudget(empty[p], Budget)
           rich == [ empty EXCEPT ![p] = b ]
           full == setBalance(rich, Account1, Budget \div 2)
<1>1. TreeOK(NoAccounts)
  <2>1. DOMAIN NoAccounts = {}
    BY DEF NoAccounts
  <2>2. NoAccounts = [ k \in DOMAIN NoAccounts |-> NoAccounts[k] ]
    BY DEF NoAccounts
  <2>3. NoAccounts \in [ DOMAIN NoAccounts -> AccountRecord ]
    BY <2>1, <2>2
  <2> QED
    BY <2>1, <2>3 DEF TreeOK, GoodMap, AllBalanced, AncestorsPresent, IsAccountMap,
                      AllAmountsNonNegative, NoOverdraft, TreeTypes
<1>2. /\ TreeOK(empty)
      /\ DOMAIN empty = {Account1} \cup Ancestors(Account1)
      /\ \A k \in DOMAIN empty : empty[k].status = "active"
  <2>1. DOMAIN NoAccounts = {}
    BY DEF NoAccounts
  <2> QED
    BY <1>1, <2>1, EnsuredTree
<1>3. empty[p] = NewAccount("budget")
  <2>1. DOMAIN NoAccounts = {}
    BY DEF NoAccounts
  <2> QED
    BY <2>1, AccountOne DEF ensureAccount
<1> HIDE DEF empty
<1>4. p \in DOMAIN empty /\ p # Account1 /\ empty[p] \in AccountRecord
      /\ Budget \in Int /\ Budget >= 0 /\ Budget \div 2 \in Int
  BY <1>2, AccountOne, TreeAccount, ShadowAssumption
<1>5. /\ b \in AccountRecord /\ b.type = empty[p].type
      /\ Balanced(empty[p]) => Balanced(b)
      /\ AmountsNonNegative(empty[p]) => AmountsNonNegative(b)
      /\ b.status = "active"
  BY <1>4, SetBudgetOK, SetBudgetGrew
<1>6. b.balance >= 0
  <2>1. NewAccount("budget").balance = 0 /\ NewAccount("budget").budgetIncreases = 0
        /\ NewAccount("budget").budgetDecreases = 0
    BY DEF NewAccount
  <2>2. b.balance = Budget
    BY <1>3, <1>4, <2>1 DEF setBudget, AccountRecord
  <2> QED
    BY <1>4, <2>2
<1> HIDE DEF b
<1>7. GoodMap(rich) /\ AllAmountsNonNegative(rich) /\ Keeps(empty, rich)
  BY <1>2, <1>4, <1>5, UpdateStep, KeepsExcept DEF TreeOK, GoodMap
<1>8. empty = [ j \in DOMAIN empty |-> empty[j] ]
  BY <1>2 DEF TreeOK, GoodMap, IsAccountMap
<1>9. DOMAIN rich = DOMAIN empty /\ rich[p] = b
      /\ \A j \in DOMAIN empty : j # p => rich[j] = empty[j]
  BY <1>4, <1>8
<1> HIDE DEF rich
<1>10. TreeOK(rich)
  <2>1. TreeTypes(rich)
    BY <1>2, <1>7, TypesKept DEF TreeOK
  <2>2. NoOverdraft(rich)
    BY <1>2, <1>6, <1>9 DEF TreeOK, NoOverdraft
  <2> QED
    BY <1>7, <2>1, <2>2 DEF TreeOK
<1>11. TreeOK(full) /\ StatusesKept(rich, full)
  BY <1>4, <1>10, SetBalanceTree
<1>12. /\ DOMAIN full = DOMAIN empty
       /\ \A k \in DOMAIN full : full[k].status = "active"
  BY <1>2, <1>5, <1>9, <1>11 DEF StatusesKept
<1>13. /\ OpenAccounts = [ c \in Codes |-> OpenAccounts[c] ]
       /\ \A c \in Codes : OpenAccounts[c] = IF c = P!CC_USD THEN full ELSE empty
  BY DEF OpenAccounts, full, rich, b, empty
<1>14. empty[Account1] = NewAccount("spend")
  <2>1. DOMAIN NoAccounts = {}
    BY DEF NoAccounts
  <2> QED
    BY <2>1 DEF ensureAccount, empty
<1>15. /\ Account1 \in DOMAIN empty /\ Account1 \in DOMAIN rich
       /\ rich[Account1] = NewAccount("spend")
  BY <1>2, <1>4, <1>9, <1>14
<1>16. getNetBudget(full[Account1]) >= 0
  <2>1. Budget \div 2 \in Nat
    BY ShadowAssumption
  <2> QED
    BY <1>10, <1>15, <2>1, FirstBalance
<1>17. \A f \in Counters : empty[Account1][f] = 0 /\ full[Account1][f] = 0
  <2>1. \A f \in Counters : NewAccount("spend")[f] = 0
    BY DEF NewAccount, Counters
  <2>2. CountsKept(rich, full)
    BY <1>4, <1>10, SetBalanceTree
  <2> QED
    BY <1>14, <1>15, <2>1, <2>2 DEF CountsKept
<1> HIDE DEF full
<1>18. TreesOK(OpenAccounts)
  BY <1>2, <1>11, <1>12, <1>13 DEF TreesOK, Alike
<1>19. IsThere(OpenAccounts) /\ NetOf(OpenAccounts) >= 0
  BY <1>12, <1>13, <1>15, <1>16, TheCodes DEF IsThere, NetOf
<1>20. CountsOf(OpenAccounts) = NoCounts
  <2>1. \A c \in Codes, f \in Counters : OpenAccounts[c][Account1][f] = 0
    BY <1>13, <1>17
  <2> QED
    BY <2>1 DEF CountsOf, NoCounts
<1> QED
  BY <1>18, <1>19, <1>20

----------------------------------------------------------------------------
(* Operations on bids.                                                     *)

\* What P!Amount gives is an amount of a pool.
LEMMA UsdAmounts ==
    ASSUME NEW p \in SortedPools, NEW v \in Int
    PROVE  /\ Adds(P!PlusAmount(p, USD(v)), p, P!CC_USD, v)
           /\ Adds(P!MinusAmount(p, USD(v)), p, P!CC_USD, 0 - v)
<1>1. USD(v) \in Entry /\ USD(v).code = P!CC_USD /\ USD(v).value = v
  BY TheCodes DEF USD, P!Amount, Entry
<1>2. P!Amount(P!CC_USD, -v) \in Entry
      /\ P!Amount(P!CC_USD, -v).code = P!CC_USD
      /\ P!Amount(P!CC_USD, -v).value = 0 - v
  BY TheCodes DEF P!Amount, Entry
<1>3. P!MinusAmount(p, USD(v)) = P!PlusAmount(p, P!Amount(P!CC_USD, -v))
  BY <1>1 DEF P!MinusAmount
<1> QED
  BY <1>1, <1>2, <1>3, PlusAmountAdds

(* One impression.                                                         *)
LEMMA ImpAmount ==
    ASSUME NEW p \in SortedPools
    PROVE  Adds(P!PlusAmount(p, P!Amount(P!CC_IMP, 1)), p, P!CC_IMP, 1)
<1>1. P!Amount(P!CC_IMP, 1) \in Entry
      /\ P!Amount(P!CC_IMP, 1).code = P!CC_IMP /\ P!Amount(P!CC_IMP, 1).value = 1
  BY TheCodes DEF P!Amount, Entry
<1> QED
  BY <1>1, PlusAmountAdds

\* In t every counter is by d more than in s, and the balance follows.
Moved(s, t, d) ==
    /\ t \in ShadowRec /\ t.uninitialized = s.uninitialized
    /\ t.netBudget = s.netBudget
    /\ \A c \in Codes, f \in Counters :
          P!getAvailable(t[f], c) = P!getAvailable(s[f], c) + d[c][f]
    /\ \A c \in Codes :
          P!getAvailable(t.balance, c) = P!getAvailable(s.balance, c)
             + d[c].commitmentsRetired - d[c].commitmentsMade - d[c].spent

\* What an operation on a bid does: x is paid without being authorized, or
\* else the balance covers it.
BidStep(d, x) ==
    /\ Moved(shadow, shadow', d)
    /\ done' \in Counts
    /\ \A c \in Codes, f \in Counters : done'[c][f] = done[c][f] + d[c][f]
    /\ excess' = excess + x
    /\ \/ Rest(d) + x >= 0
       \/ x = 0 /\ P!getAvailable(shadow.balance, P!CC_USD) + Rest(d) >= 0
    /\ commitments' \in [ DOMAIN commitments' -> Nat ]
    /\ detached' \in [ DOMAIN detached' -> Nat ]
    /\ UNCHANGED << base, created, reports, answers, master >>

(* The pools of a shadow.                                                  *)
LEMMA ShadowPoolTypes ==
    ASSUME NEW s \in ShadowRec
    PROVE  /\ s.netBudget \in SortedPools /\ s.balance \in SortedPools
           /\ s.commitmentsRetired \in SortedPools /\ s.commitmentsMade \in SortedPools
           /\ s.spent \in SortedPools
           /\ s.uninitialized \in BOOLEAN /\ s.first \in BOOLEAN /\ s.status \in Status
           /\ \A f \in Counters : s[f] \in SortedPools
  BY DEF ShadowRec, Counters

(* Nothing moves.                                                          *)
LEMMA NothingMoved ==
    ASSUME NEW s \in ShadowRec
    PROVE  NoCounts \in Counts /\ Rest(NoCounts) = 0 /\ Moved(s, s, NoCounts)
<1>1. NoCounts \in Counts
  BY DEF NoCounts, Counts
<1>2. \A c \in Codes, f \in Counters : NoCounts[c][f] = 0
  BY DEF NoCounts
<1>3. \A c \in Codes : /\ NoCounts[c].commitmentsRetired = 0
                       /\ NoCounts[c].commitmentsMade = 0 /\ NoCounts[c].spent = 0
  BY <1>2 DEF Counters
<1>4. Rest(NoCounts) = 0
  BY <1>3, TheCodes DEF Rest
<1>5. \A c \in Codes : /\ P!getAvailable(s.balance, c) \in Int
                       /\ \A f \in Counters : P!getAvailable(s[f], c) \in Int
  BY ShadowPoolTypes, AvailableType
<1> QED
  BY <1>1, <1>2, <1>3, <1>4, <1>5 DEF Moved

(* Authorizing a bid.                                                      *)
LEMMA AuthorizedMoves ==
    ASSUME NEW s \in ShadowRec, NEW a \in Nat
    PROVE  LET t == [ s EXCEPT !.balance = P!MinusAmount(@, USD(a)),
                               !.commitmentsMade = P!PlusAmount(@, USD(a)) ]
           IN  /\ Authorized(a) \in Counts /\ Rest(Authorized(a)) = 0 - a
               /\ Moved(s, t, Authorized(a))
<1> DEFINE b == P!MinusAmount(s.balance, USD(a))
           m == P!PlusAmount(s.commitmentsMade, USD(a))
           t == [ s EXCEPT !.balance = b, !.commitmentsMade = m ]
<1>1. Adds(b, s.balance, P!CC_USD, 0 - a) /\ Adds(m, s.commitmentsMade, P!CC_USD, a)
  BY ShadowPoolTypes, UsdAmounts
<1>2. /\ Authorized(a) \in Counts
      /\ \A c \in Codes : /\ Authorized(a)[c].commitmentsRetired = 0
                          /\ Authorized(a)[c].spent = 0
                          /\ Authorized(a)[c].commitmentsMade =
                                IF c = P!CC_USD THEN a ELSE 0
  BY DEF Authorized, Counts, Counters
<1>3. Rest(Authorized(a)) = 0 - a
  BY <1>2, TheCodes DEF Rest
<1> HIDE DEF b, m
<1>4. b \in SortedPools /\ m \in SortedPools
  BY <1>1 DEF Adds
<1>5. /\ t \in ShadowRec /\ t.uninitialized = s.uninitialized /\ t.netBudget = s.netBudget
      /\ t.balance = b /\ t.commitmentsMade = m
      /\ t.commitmentsRetired = s.commitmentsRetired /\ t.spent = s.spent
  BY <1>4 DEF ShadowRec
<1>6. \A c \in Codes : /\ P!getAvailable(s.balance, c) \in Int
                       /\ \A f \in Counters : P!getAvailable(s[f], c) \in Int
  BY ShadowPoolTypes, AvailableType
<1> HIDE DEF t
<1>7. \A c \in Codes : /\ P!getAvailable(b, c) = P!getAvailable(s.balance, c)
                                                - Authorized(a)[c].commitmentsMade
                       /\ P!getAvailable(m, c) = P!getAvailable(s.commitmentsMade, c)
                                                + Authorized(a)[c].commitmentsMade
  <2> SUFFICES ASSUME NEW c \in Codes
               PROVE  /\ P!getAvailable(b, c) = P!getAvailable(s.balance, c)
                                                - Authorized(a)[c].commitmentsMade
                      /\ P!getAvailable(m, c) = P!getAvailable(s.commitmentsMade, c)
                                                + Authorized(a)[c].commitmentsMade
    OBVIOUS
  <2>1. P!getAvailable(s.commitmentsMade, c) \in Int
    BY ShadowPoolTypes, AvailableType
  <2>2. CASE c = P!CC_USD
    BY <1>1, <1>2, <1>6, <2>1, <2>2, TheCodes DEF Adds
  <2>3. CASE c # P!CC_USD
    BY <1>1, <1>2, <1>6, <2>1, <2>3 DEF Adds
  <2> QED
    BY <2>2, <2>3
<1>8. \A c \in Codes, f \in Counters :
         P!getAvailable(t[f], c) = P!getAvailable(s[f], c) + Authorized(a)[c][f]
  <2> SUFFICES ASSUME NEW c \in Codes, NEW f \in Counters
               PROVE  P!getAvailable(t[f], c)
                        = P!getAvailable(s[f], c) + Authorized(a)[c][f]
    OBVIOUS
  <2>1. P!getAvailable(s[f], c) \in Int
    BY <1>6
  <2>2. CASE f = "commitmentsMade"
    BY <1>5, <1>7, <2>2
  <2>3. CASE f # "commitmentsMade"
    <3>1. t[f] = s[f] /\ Authorized(a)[c][f] = 0
      BY <1>2, <1>5, <2>3 DEF Counters
    <3> QED
      BY <2>1, <3>1
  <2> QED
    BY <2>2, <2>3
<1>9. \A c \in Codes : P!getAvailable(t.balance, c) = P!getAvailable(s.balance, c)
         + Authorized(a)[c].commitmentsRetired - Authorized(a)[c].commitmentsMade
         - Authorized(a)[c].spent
  <2> SUFFICES ASSUME NEW c \in Codes
               PROVE  P!getAvailable(t.balance, c) = P!getAvailable(s.balance, c)
                 + Authorized(a)[c].commitmentsRetired - Authorized(a)[c].commitmentsMade
                 - Authorized(a)[c].spent
    OBVIOUS
  <2>1. Authorized(a)[c].commitmentsMade \in Int /\ P!getAvailable(s.balance, c) \in Int
    BY <1>2, <1>6
  <2> QED
    BY <1>2, <1>5, <1>7, <2>1
<1>10. Moved(s, t, Authorized(a))
  BY <1>5, <1>8, <1>9 DEF Moved
<1> QED
  BY <1>2, <1>3, <1>10 DEF t, b, m

(* Committing a bid.                                                       *)
LEMMA SettledMoves ==
    ASSUME NEW s \in ShadowRec, NEW a \in Nat, NEW paid \in Nat
    PROVE  /\ Settled(a, paid) \in Counts /\ Rest(Settled(a, paid)) = a - paid
           /\ Moved(s, commitDetachedBid(s, a, paid), Settled(a, paid))
<1> DEFINE b == P!PlusAmount(s.balance, USD(a - paid))
           r1 == P!PlusAmount(s.commitmentsRetired, USD(a))
           p1 == P!PlusAmount(s.spent, USD(paid))
           r2 == P!PlusAmount(r1, P!Amount(P!CC_IMP, 1))
           p2 == P!PlusAmount(p1, P!Amount(P!CC_IMP, 1))
           r == IF paid = 0 THEN r1 ELSE r2
           p == IF paid = 0 THEN p1 ELSE p2
           t == commitDetachedBid(s, a, paid)
           d == Settled(a, paid)
           shown == IF paid = 0 THEN 0 ELSE 1
<1>1. /\ Adds(b, s.balance, P!CC_USD, a - paid)
      /\ Adds(r1, s.commitmentsRetired, P!CC_USD, a)
      /\ Adds(p1, s.spent, P!CC_USD, paid)
  BY ShadowPoolTypes, UsdAmounts
<1> HIDE DEF b, r1, p1
<1>2. Adds(r2, r1, P!CC_IMP, 1) /\ Adds(p2, p1, P!CC_IMP, 1)
  BY <1>1, ImpAmount DEF Adds
<1>3. b \in SortedPools /\ r1 \in SortedPools /\ p1 \in SortedPools
      /\ r2 \in SortedPools /\ p2 \in SortedPools
  BY <1>1, <1>2 DEF Adds
<1>4. t = IF paid = 0
          THEN [ s EXCEPT !.balance = b, !.commitmentsRetired = r1, !.spent = p1 ]
          ELSE [ [ s EXCEPT !.balance = b, !.commitmentsRetired = r1, !.spent = p1 ]
                   EXCEPT !.spent = P!PlusAmount(@, P!Amount(P!CC_IMP, 1)),
                          !.commitmentsRetired = P!PlusAmount(@, P!Amount(P!CC_IMP, 1)) ]
  BY DEF commitDetachedBid, commitEvent, b, r1, p1
<1>5. /\ t \in ShadowRec /\ t.uninitialized = s.uninitialized /\ t.netBudget = s.netBudget
      /\ t.balance = b /\ t.commitmentsMade = s.commitmentsMade
      /\ t.commitmentsRetired = r /\ t.spent = p
  <2> HIDE DEF t
  <2> DEFINE q == [ s EXCEPT !.balance = b, !.commitmentsRetired = r1, !.spent = p1 ]
  <2>1. /\ q \in ShadowRec /\ q.uninitialized = s.uninitialized
        /\ q.netBudget = s.netBudget /\ q.balance = b
        /\ q.commitmentsMade = s.commitmentsMade
        /\ q.commitmentsRetired = r1 /\ q.spent = p1
    BY <1>3 DEF ShadowRec
  <2>2. CASE paid = 0
    BY <1>4, <2>1, <2>2
  <2>3. CASE paid # 0
    <3> HIDE DEF q
    <3>1. t = [ q EXCEPT !.spent = p2, !.commitmentsRetired = r2 ]
      BY <1>4, <2>1, <2>3 DEF q
    <3> HIDE DEF p2, r2
    <3>2. t = [ q EXCEPT !.spent = p, !.commitmentsRetired = r ]
      BY <2>3, <3>1
    <3>3. p \in SortedPools /\ r \in SortedPools
      BY <1>3
    <3> HIDE DEF p, r
    <3> QED
      BY <2>1, <3>2, <3>3 DEF ShadowRec
  <2> QED
    BY <2>2, <2>3
<1>6. /\ d \in Counts /\ shown \in Nat
      /\ \A c \in Codes :
           /\ d[c].commitmentsMade = 0
           /\ d[c].commitmentsRetired = IF c = P!CC_USD THEN a ELSE shown
           /\ d[c].spent = IF c = P!CC_USD THEN paid ELSE shown
  BY TheCodes DEF Settled, Counts, Counters
<1>7. Rest(d) = a - paid
  BY <1>6, TheCodes DEF Rest
<1>8. \A c \in Codes : /\ P!getAvailable(s.balance, c) \in Int
                       /\ P!getAvailable(s.commitmentsRetired, c) \in Int
                       /\ P!getAvailable(s.commitmentsMade, c) \in Int
                       /\ P!getAvailable(s.spent, c) \in Int
  BY ShadowPoolTypes, AvailableType
<1> HIDE DEF t, d, r2, p2
<1>9. \A c \in Codes :
        /\ P!getAvailable(b, c) = P!getAvailable(s.balance, c)
                                  + IF c = P!CC_USD THEN a - paid ELSE 0
        /\ P!getAvailable(r, c) = P!getAvailable(s.commitmentsRetired, c)
                                  + IF c = P!CC_USD THEN a ELSE shown
        /\ P!getAvailable(p, c) = P!getAvailable(s.spent, c)
                                  + IF c = P!CC_USD THEN paid ELSE shown
  <2> SUFFICES ASSUME NEW c \in Codes
               PROVE  /\ P!getAvailable(b, c) = P!getAvailable(s.balance, c)
                                  + IF c = P!CC_USD THEN a - paid ELSE 0
                      /\ P!getAvailable(r, c) = P!getAvailable(s.commitmentsRetired, c)
                                  + IF c = P!CC_USD THEN a ELSE shown
                      /\ P!getAvailable(p, c) = P!getAvailable(s.spent, c)
                                  + IF c = P!CC_USD THEN paid ELSE shown
    OBVIOUS
  <2>1. CASE c = P!CC_USD
    <3>1. /\ P!getAvailable(b, c) = P!getAvailable(s.balance, c) + (a - paid)
          /\ P!getAvailable(r1, c) = P!getAvailable(s.commitmentsRetired, c) + a
          /\ P!getAvailable(p1, c) = P!getAvailable(s.spent, c) + paid
      BY <1>1, <2>1 DEF Adds
    <3>2. P!getAvailable(r2, c) = P!getAvailable(r1, c)
          /\ P!getAvailable(p2, c) = P!getAvailable(p1, c)
      BY <1>2, <2>1, TheCodes DEF Adds
    <3> QED
      BY <2>1, <3>1, <3>2
  <2>2. CASE c = P!CC_IMP
    <3>1. /\ P!getAvailable(b, c) = P!getAvailable(s.balance, c)
          /\ P!getAvailable(r1, c) = P!getAvailable(s.commitmentsRetired, c)
          /\ P!getAvailable(p1, c) = P!getAvailable(s.spent, c)
          /\ c # P!CC_USD
      BY <1>1, <2>2, TheCodes DEF Adds
    <3>2. P!getAvailable(r2, c) = P!getAvailable(r1, c) + 1
          /\ P!getAvailable(p2, c) = P!getAvailable(p1, c) + 1
      BY <1>2, <2>2 DEF Adds
    <3> QED
      BY <1>8, <3>1, <3>2
  <2> QED
    BY <2>1, <2>2, TheCodes
<1> HIDE DEF r, p, shown
<1>10. \A c \in Codes, f \in Counters :
          P!getAvailable(t[f], c) = P!getAvailable(s[f], c) + d[c][f]
  <2> SUFFICES ASSUME NEW c \in Codes, NEW f \in Counters
               PROVE  P!getAvailable(t[f], c) = P!getAvailable(s[f], c) + d[c][f]
    OBVIOUS
  <2>1. CASE f = "commitmentsMade"
    BY <1>5, <1>6, <1>8, <2>1
  <2>2. CASE f = "commitmentsRetired"
    BY <1>5, <1>6, <1>9, <2>2
  <2>3. CASE f = "spent"
    BY <1>5, <1>6, <1>9, <2>3
  <2> QED
    BY <2>1, <2>2, <2>3 DEF Counters
<1>11. \A c \in Codes : P!getAvailable(t.balance, c) = P!getAvailable(s.balance, c)
          + d[c].commitmentsRetired - d[c].commitmentsMade - d[c].spent
  <2> SUFFICES ASSUME NEW c \in Codes
               PROVE  P!getAvailable(t.balance, c) = P!getAvailable(s.balance, c)
                 + d[c].commitmentsRetired - d[c].commitmentsMade - d[c].spent
    OBVIOUS
  <2>1. P!getAvailable(s.balance, c) \in Int /\ shown \in Nat
    BY <1>6, <1>8
  <2> QED
    BY <1>5, <1>6, <1>9, <2>1
<1>12. Moved(s, t, d)
  BY <1>5, <1>10, <1>11 DEF Moved
<1> QED
  BY <1>6, <1>7, <1>12 DEF t, d

(* Counting.                                                               *)
LEMMA CountedMore ==
    ASSUME NEW g \in Counts, NEW d \in Counts, NEW h,
           h = [ c \in Codes |-> [ f \in Counters |-> g[c][f] + d[c][f] ] ]
    PROVE  /\ h \in Counts
           /\ \A c \in Codes, f \in Counters : h[c][f] = g[c][f] + d[c][f]
<1>1. \A c \in Codes, f \in Counters : g[c][f] \in Nat /\ d[c][f] \in Nat
  BY DEF Counts
<1>2. \A c \in Codes, f \in Counters : h[c][f] = g[c][f] + d[c][f]
  OBVIOUS
<1>3. \A c \in Codes, f \in Counters : g[c][f] + d[c][f] \in Nat
  BY <1>1
<1>4. h \in Counts
  BY <1>3 DEF Counts
<1> QED
  BY <1>2, <1>4

(* Every operation on a bid is a BidStep.                                  *)
LEMMA BidSteps ==
    ASSUME StateOK, Bid
    PROVE  \E d \in Counts, x \in Nat : BidStep(d, x)
<1>0. /\ shadow \in ShadowRec /\ done \in Counts /\ excess \in Nat
      /\ commitments \in [ DOMAIN commitments -> Nat ]
      /\ detached \in [ DOMAIN detached -> Nat ]
    BY DEF StateOK, SidesOK
<1>1. ASSUME NEW i \in Items, NEW a \in BidAmounts, authorizeBid(i, a)
      PROVE  \E d \in Counts, x \in Nat : BidStep(d, x)
  <2>1. a \in Nat
    BY ShadowAssumption
  <2>2. /\ Authorized(a) \in Counts /\ Rest(Authorized(a)) = 0 - a
        /\ Moved(shadow, shadow', Authorized(a))
    BY <1>0, <1>1, <2>1, AuthorizedMoves DEF authorizeBid
  <2>3. P!getAvailable(shadow.balance, P!CC_USD) >= a
    BY <1>1 DEF authorizeBid, P!hasAvailable, USD, P!Amount
  <2>4. P!getAvailable(shadow.balance, P!CC_USD) \in Int
    BY <1>0, ShadowPoolTypes, AvailableType
  <2>5. /\ done' \in Counts
        /\ \A c \in Codes, f \in Counters : done'[c][f] = done[c][f] + Authorized(a)[c][f]
    BY <1>0, <1>1, <2>2, CountedMore DEF authorizeBid, Counted
  <2>6. /\ commitments' = With(commitments, i, a) /\ detached' = detached
        /\ excess' = excess + 0
        /\ UNCHANGED << base, created, reports, answers, master >>
    BY <1>0, <1>1 DEF authorizeBid, Op, network
  <2>7. /\ commitments' \in [ DOMAIN commitments' -> Nat ]
        /\ detached' \in [ DOMAIN detached' -> Nat ]
        BY <1>0, <2>1, <2>6 DEF With
  <2>8. BidStep(Authorized(a), 0)
    BY <2>1, <2>2, <2>3, <2>4, <2>5, <2>6, <2>7 DEF BidStep
  <2> QED
    BY <2>2, <2>8
<1>2. ASSUME NEW a \in Nat, NEW paid \in Nat, Commit(a, paid), Op,
             commitments' \in [ DOMAIN commitments' -> Nat ],
             detached' \in [ DOMAIN detached' -> Nat ]
      PROVE  \E d \in Counts, x \in Nat : BidStep(d, x)
  <2>1. /\ Settled(a, paid) \in Counts /\ Rest(Settled(a, paid)) = a - paid
        /\ Moved(shadow, shadow', Settled(a, paid))
    BY <1>0, <1>2, SettledMoves DEF Commit
  <2>2. Excess(paid, a) \in Nat /\ (a - paid) + Excess(paid, a) >= 0
    BY <1>2 DEF Excess
  <2>3. /\ done' \in Counts
        /\ \A c \in Codes, f \in Counters : done'[c][f] = done[c][f] + Settled(a, paid)[c][f]
    BY <1>0, <1>2, <2>1, CountedMore DEF Commit, Counted
  <2>4. /\ excess' = excess + Excess(paid, a)
        /\ UNCHANGED << base, created, reports, answers, master >>
    BY <1>2 DEF Commit, Op, network
  <2>5. BidStep(Settled(a, paid), Excess(paid, a))
    BY <1>2, <2>1, <2>2, <2>3, <2>4 DEF BidStep
  <2> QED
    BY <2>1, <2>2, <2>5
<1>3. ASSUME NEW i \in Items, NEW paid \in Nat, commitBid(i, paid)
      PROVE  \E d \in Counts, x \in Nat : BidStep(d, x)
  <2>1. commitments[i] \in Nat
    BY <1>0, <1>3 DEF commitBid
  <2>2. commitments' = Without(commitments, i) /\ detached' = detached
    BY <1>3 DEF commitBid
  <2>3. /\ commitments' \in [ DOMAIN commitments' -> Nat ]
        /\ detached' \in [ DOMAIN detached' -> Nat ]
        BY <1>0, <2>2 DEF Without
  <2> QED
    BY <1>2, <1>3, <2>1, <2>3 DEF commitBid
<1>4. ASSUME NEW i \in Items, NEW paid \in Nat, commitDetached(i, paid)
      PROVE  \E d \in Counts, x \in Nat : BidStep(d, x)
  <2>1. detached[i] \in Nat
    BY <1>0, <1>4 DEF commitDetached
  <2>2. detached' = Without(detached, i) /\ commitments' = commitments
    BY <1>4 DEF commitDetached
  <2>3. /\ commitments' \in [ DOMAIN commitments' -> Nat ]
        /\ detached' \in [ DOMAIN detached' -> Nat ]
        BY <1>0, <2>2 DEF Without
  <2> QED
    BY <1>2, <1>4, <2>1, <2>3 DEF commitDetached
<1>5. ASSUME NEW paid \in Nat, forceWinBid(paid)
      PROVE  \E d \in Counts, x \in Nat : BidStep(d, x)
  BY <1>0, <1>2, <1>5 DEF forceWinBid
<1>6. ASSUME NEW i \in Items, detachBid(i) \/ attachBid(i)
      PROVE  \E d \in Counts, x \in Nat : BidStep(d, x)
  <2>1. /\ commitments' \in [ DOMAIN commitments' -> Nat ]
        /\ detached' \in [ DOMAIN detached' -> Nat ]
        BY <1>0, <1>6 DEF detachBid, attachBid, Without, With
  <2>2. /\ shadow' = shadow /\ done' = done /\ excess' = excess
        /\ UNCHANGED << base, created, reports, answers, master >>
    BY <1>6 DEF detachBid, attachBid, Op, network
  <2>3. /\ NoCounts \in Counts /\ Rest(NoCounts) = 0
        /\ Moved(shadow, shadow', NoCounts)
        /\ \A c \in Codes, f \in Counters : done'[c][f] = done[c][f] + NoCounts[c][f]
    <3>1. \A c \in Codes, f \in Counters : done[c][f] \in Nat
      BY <1>0 DEF Counts
    <3> QED
      BY <1>0, <2>2, <3>1, NothingMoved DEF NoCounts
  <2>4. BidStep(NoCounts, 0)
    BY <1>0, <2>1, <2>2, <2>3 DEF BidStep
  <2> QED
    BY <2>3, <2>4
<1>7. PaidAmounts \subseteq Nat /\ 0 \in Nat
  BY ShadowAssumption
<1> QED
  BY <1>1, <1>3, <1>4, <1>5, <1>6, <1>7 DEF Bid, cancelBid

----------------------------------------------------------------------------
(* What the master does.                                                   *)

\* The account keeps its counters, or is new and has none.
Same(after) ==
    /\ IsThere(accounts) => IsThere(after)
    /\ IsThere(after) => CountsOf(after) = IF IsThere(accounts) THEN CountsOf(accounts)
                                           ELSE NoCounts
\* A report was accepted.
Took(after, r) ==
    /\ IsThere(after) /\ CountsOf(after) = r
    /\ IsThere(accounts) => Upto(CountsOf(accounts), r)
\* The account is as it was saved.
Reloaded(after) ==
    /\ IsThere(after) <=> Listed(saved)
    /\ IsThere(after) => CountsOf(after) = CountsOf(saved)

Turn(after) ==
    /\ MasterStep(after)
    /\ TreesOK(after)
    /\ Same(after) \/ (\E r \in reports : Took(after, r)) \/ Reloaded(after)
    /\ reports' = reports
    /\ \A v \in created' \ created : IsThere(after) /\ v = View(after)
    /\ \A v \in answers' \ answers : IsThere(after) /\ v = Budgets(after)

(* The currencies have the account together.                               *)
LEMMA Together ==
    ASSUME NEW a, TreesOK(a), NEW c \in Codes
    PROVE  /\ TreeOK(a[c])
           /\ Account1 \in DOMAIN a[c] <=> IsThere(a)
           /\ IsThere(a) => a[c][Account1].status = a[P!CC_USD][Account1].status
  BY TheCodes DEF TreesOK, Alike, IsThere

(* What the master answers.                                                *)
LEMMA AnswerTypes ==
    ASSUME NEW a, TreesOK(a)
    PROVE  /\ NetOf(a) \in Int
           /\ IsThere(a) =>
                /\ CountsOf(a) \in Counts
                /\ Budgets(a) \in [ status : Status, net : Nets ]
                /\ View(a) \in [ net : Nets, counts : Counts ]
                /\ View(a).counts = CountsOf(a)
                /\ View(a).net[P!CC_USD] = NetOf(a) /\ Budgets(a).net[P!CC_USD] = NetOf(a)
<1>1. ASSUME IsThere(a), NEW c \in Codes
      PROVE  /\ a[c][Account1] \in AccountRecord
             /\ \A f \in Counters : a[c][Account1][f] \in Nat
  BY <1>1, Together, TreeAccount
<1>2. ASSUME IsThere(a), NEW c \in Codes
      PROVE  getNetBudget(a[c][Account1]) \in Int
  BY <1>1, <1>2 DEF getNetBudget, AccountRecord
<1>3. NetOf(a) \in Int
  BY <1>2, TheCodes DEF NetOf
<1>4. ASSUME IsThere(a)
      PROVE  CountsOf(a) \in Counts
  BY <1>1, <1>4 DEF CountsOf, Counts
<1>5. ASSUME IsThere(a)
      PROVE  /\ Budgets(a) \in [ status : Status, net : Nets ]
             /\ Budgets(a).net[P!CC_USD] = NetOf(a)
  <2>1. a[P!CC_USD][Account1].status \in Status
    BY <1>1, <1>5, TheCodes DEF AccountRecord
  <2>2. [ c \in Codes |-> getNetBudget(a[c][Account1]) ] \in Nets
    BY <1>2, <1>5 DEF Nets
  <2> QED
    BY <1>5, <2>1, <2>2, TheCodes DEF Budgets, NetOf
<1>6. View(a).counts = CountsOf(a) /\ View(a).net = Budgets(a).net
  BY DEF View, CountsOf
<1>7. IsThere(a) => View(a) \in [ net : Nets, counts : Counts ]
  <2>1. View(a) = [ net |-> Budgets(a).net, counts |-> CountsOf(a) ]
    BY DEF View, CountsOf
  <2> QED
    BY <1>4, <1>5, <2>1
<1> QED
  BY <1>3, <1>4, <1>5, <1>6, <1>7

(* A message is sent, or there is no room for it.                          *)
LEMMA Sends ==
    ASSUME NEW messages, NEW m
    PROVE  messages \subseteq Sending(messages, m)
           /\ \A v \in Sending(messages, m) \ messages : v = m
  BY DEF Sending

(* Accounts that keep their counters in every currency.                    *)
LEMMA KeptCounts ==
    ASSUME NEW a, NEW b, TreesOK(a), TreesOK(b), \A c \in Codes : CountsKept(a[c], b[c]),
           IsThere(a)
    PROVE  IsThere(b) /\ CountsOf(b) = CountsOf(a)
<1>1. \A c \in Codes : /\ Account1 \in DOMAIN b[c]
                       /\ \A f \in Counters : b[c][Account1][f] = a[c][Account1][f]
  BY Together DEF CountsKept
<1> QED
  BY <1>1, TheCodes DEF IsThere, CountsOf

\* Accounts after a request that names the account.
Reactivated == [ c \in Codes |-> reactivatePresentAccounts(accounts[c], Account1) ]

(* Accounts that a request has reactivated in every currency.              *)
LEMMA ReactivatedTrees ==
    ASSUME TreesOK(accounts)
    PROVE  /\ TreesOK(Reactivated)
           /\ \A c \in Codes : /\ Reactivated[c] = reactivatePresentAccounts(accounts[c], Account1)
                               /\ CountsKept(accounts[c], Reactivated[c])
                               /\ DOMAIN Reactivated[c] = DOMAIN accounts[c]
<1>1. \A c \in Codes : Reactivated[c] = reactivatePresentAccounts(accounts[c], Account1)
  BY DEF Reactivated
<1>2. Reactivated = [ c \in Codes |-> Reactivated[c] ]
  BY DEF Reactivated
<1> HIDE DEF Reactivated
<1>3. \A c \in Codes : /\ TreeOK(Reactivated[c])
                       /\ CountsKept(accounts[c], Reactivated[c])
                       /\ DOMAIN Reactivated[c] = DOMAIN accounts[c]
  BY <1>1, ReactivatedTree DEF TreesOK
<1>4. \A c, d \in Codes : Alike(Reactivated[c], Reactivated[d])
  BY <1>1, ReactivatedAlike DEF TreesOK
<1> QED
  BY <1>1, <1>2, <1>3, <1>4 DEF TreesOK

(* Accounts that are made sure of in every currency.                       *)
LEMMA EnsuredTrees ==
    ASSUME NEW a, TreesOK(a), NEW b,
           b = [ c \in Codes |-> ensureAccount(a[c], Account1, "spend") ]
    PROVE  /\ TreesOK(b) /\ IsThere(b)
           /\ CountsOf(b) = IF IsThere(a) THEN CountsOf(a) ELSE NoCounts
           /\ IsThere(a) => b[P!CC_USD][Account1].status = a[P!CC_USD][Account1].status
<1>1. \A c \in Codes : b[c] = ensureAccount(a[c], Account1, "spend")
  OBVIOUS
<1>2. \A c \in Codes :
        /\ TreeOK(b[c]) /\ Account1 \in DOMAIN b[c]
        /\ \A k \in DOMAIN a[c] : b[c][k] = a[c][k]
        /\ Account1 \notin DOMAIN a[c] => \A f \in Counters : b[c][Account1][f] = 0
  BY <1>1, EnsuredTree DEF TreesOK
<1>3. \A c, d \in Codes : Alike(b[c], b[d])
  BY <1>1, EnsuredAlike DEF TreesOK
<1>4. TreesOK(b)
  BY <1>2, <1>3 DEF TreesOK
<1>5. IsThere(b) /\ (IsThere(a) => b[P!CC_USD][Account1] = a[P!CC_USD][Account1])
  BY <1>2, TheCodes DEF IsThere
<1>6. CASE IsThere(a)
  <2>1. \A c \in Codes : b[c][Account1] = a[c][Account1]
    BY <1>2, <1>6, Together
  <2> QED
    BY <1>4, <1>5, <1>6, <2>1 DEF CountsOf
<1>7. CASE ~IsThere(a)
  <2>1. \A c \in Codes, f \in Counters : b[c][Account1][f] = 0
    BY <1>2, <1>7, Together
  <2> QED
    BY <1>4, <1>5, <1>7, <2>1 DEF CountsOf, NoCounts
<1> QED
  BY <1>6, <1>7

(* POST /v1/accounts.                                                      *)
LEMMA CreateTurn ==
    ASSUME StateOK, create_account
    PROVE  \E after : Turn(after)
<1> DEFINE after == [ c \in Codes |-> ensureAccount(Reactivated[c], Account1, "spend") ]
<1>1. TreesOK(accounts)
  BY DEF StateOK
<1>2. /\ TreesOK(Reactivated)
      /\ \A c \in Codes : /\ Reactivated[c] = reactivatePresentAccounts(accounts[c], Account1)
                          /\ CountsKept(accounts[c], Reactivated[c])
                          /\ DOMAIN Reactivated[c] = DOMAIN accounts[c]
  BY <1>1, ReactivatedTrees
<1>3. after = [ c \in Codes |->
                  ensureAccount(reactivatePresentAccounts(accounts[c], Account1),
                                Account1, "spend") ]
  BY <1>2
<1>4. /\ MasterStep(after) /\ created' = Sending(created, View(after))
      /\ reports' = reports /\ answers' = answers
  BY <1>3 DEF create_account
<1>5. IsThere(Reactivated) <=> IsThere(accounts)
  BY <1>2, TheCodes DEF IsThere
<1> DEFINE mid == Reactivated
<1>6. /\ TreesOK(after) /\ IsThere(after)
      /\ CountsOf(after) = IF IsThere(mid) THEN CountsOf(mid) ELSE NoCounts
  BY <1>2, EnsuredTrees
<1>7. IsThere(accounts) => CountsOf(mid) = CountsOf(accounts)
  BY <1>1, <1>2, KeptCounts
<1> HIDE DEF after
<1>8. Same(after)
  BY <1>5, <1>6, <1>7 DEF Same
<1>9. \A v \in created' \ created : v = View(after)
  BY <1>4, Sends
<1>10. Turn(after)
  BY <1>4, <1>6, <1>8, <1>9 DEF Turn
<1> QED
  BY <1>10

(* PUT /v1/accounts/<k>/balance and GET /v1/accounts/<k>/close.            *)
LEMMA RequestTurn ==
    ASSUME StateOK, close \/ \E b \in NewBalances : balance(b)
    PROVE  \E after : Turn(after)
<1>1. TreesOK(accounts) /\ NewBalances \subseteq Int
  BY ShadowAssumption DEF StateOK
<1>2. /\ TreesOK(Reactivated)
      /\ \A c \in Codes : /\ Reactivated[c] = reactivatePresentAccounts(accounts[c], Account1)
                          /\ CountsKept(accounts[c], Reactivated[c])
                          /\ DOMAIN Reactivated[c] = DOMAIN accounts[c]
  BY <1>1, ReactivatedTrees
<1>3. IsThere(accounts) /\ IsThere(Reactivated)
  BY <1>2, TheCodes DEF close, balance, Present, IsThere
<1>4. CountsOf(Reactivated) = CountsOf(accounts)
  BY <1>1, <1>2, <1>3, KeptCounts
<1>5. \A c \in Codes : Account1 \in DOMAIN Reactivated[c] /\ TreeOK(Reactivated[c])
  BY <1>2, <1>3, Together
<1>6. ASSUME NEW after, after = [ c \in Codes |-> after[c] ],
             \A c \in Codes : TreeOK(after[c]) /\ CountsKept(Reactivated[c], after[c]),
             \A c, d \in Codes : Alike(after[c], after[d]),
             MasterStep(after), UNCHANGED network
      PROVE  Turn(after)
  <2>1. TreesOK(after)
    BY <1>6 DEF TreesOK
  <2>2. IsThere(after) /\ CountsOf(after) = CountsOf(accounts)
    BY <1>2, <1>3, <1>4, <1>6, <2>1, KeptCounts
  <2>3. Same(after)
    BY <1>3, <2>2 DEF Same
  <2> QED
    BY <1>6, <2>1, <2>3 DEF Turn, network
<1>7. CASE close
  <2> DEFINE after == [ c \in Codes |-> closeOne(Reactivated[c], Account1) ]
  <2>1. MasterStep(after) /\ UNCHANGED network
    <3>1. after = [ c \in Codes |->
             closeOne(reactivatePresentAccounts(accounts[c], Account1), Account1) ]
      BY <1>2
    <3> QED
      BY <1>7, <3>1 DEF close, ForMaster
  <2>2. \A c \in Codes : after[c] = closeOne(Reactivated[c], Account1)
    OBVIOUS
  <2>3. after = [ c \in Codes |-> after[c] ]
    OBVIOUS
  <2> HIDE DEF after
  <2>4. \A c \in Codes :
          /\ TreeOK(after[c]) /\ CountsKept(Reactivated[c], after[c])
          /\ DOMAIN after[c] = DOMAIN Reactivated[c]
          /\ after[c][Account1].status = "closed"
          /\ \A k \in DOMAIN Reactivated[c] :
                k # Account1 => after[c][k].status = Reactivated[c][k].status
    BY <1>5, <2>2, ClosedTree
  <2>5. \A c, d \in Codes : Alike(after[c], after[d])
    <3> SUFFICES ASSUME NEW c \in Codes, NEW d \in Codes, NEW k \in DOMAIN after[c]
                 PROVE  /\ DOMAIN after[c] = DOMAIN after[d]
                        /\ after[c][k].status = after[d][k].status
      BY <1>2, <2>4 DEF Alike, TreesOK
    <3>1. Alike(Reactivated[c], Reactivated[d])
      BY <1>2 DEF TreesOK
    <3>2. CASE k = Account1
      BY <2>4, <3>1, <3>2 DEF Alike
    <3>3. CASE k # Account1
      BY <2>4, <3>1, <3>3 DEF Alike
    <3> QED
      BY <3>2, <3>3
  <2>6. Turn(after)
    BY <1>6, <2>1, <2>3, <2>4, <2>5
  <2> QED
    BY <2>6
<1>8. ASSUME NEW b \in NewBalances, balance(b)
      PROVE  \E after : Turn(after)
  <2> DEFINE value(c) == IF c = P!CC_USD THEN b ELSE 0
             after == [ c \in Codes |-> setBalance(Reactivated[c], Account1, value(c)) ]
  <2>1. MasterStep(after) /\ UNCHANGED network
    <3>1. after = [ c \in Codes |->
             setBalance(reactivatePresentAccounts(accounts[c], Account1), Account1,
                        IF c = P!CC_USD THEN b ELSE 0) ]
      BY <1>2
    <3> QED
      BY <1>8, <3>1 DEF balance, ForMaster
  <2>2. \A c \in Codes : after[c] = setBalance(Reactivated[c], Account1, value(c))
    OBVIOUS
  <2>3. after = [ c \in Codes |-> after[c] ]
    OBVIOUS
  <2>4. \A c \in Codes : value(c) \in Int
    BY <1>1
  <2> HIDE DEF after, value
  <2>5. \A c \in Codes : /\ TreeOK(after[c]) /\ CountsKept(Reactivated[c], after[c])
                         /\ StatusesKept(Reactivated[c], after[c])
    BY <1>5, <2>2, <2>4, SetBalanceTree
  <2>6. \A c, d \in Codes : Alike(after[c], after[d])
    BY <1>2, <2>5 DEF Alike, TreesOK, StatusesKept
  <2>7. Turn(after)
    BY <1>6, <2>1, <2>3, <2>5, <2>6
  <2> QED
    BY <2>7
<1> QED
  BY <1>7, <1>8

(* PUT /v1/accounts/<k>/shadow.                                            *)
LEMMA ReportTurn ==
    ASSUME StateOK, NEW r \in reports, shadowReport(r)
    PROVE  \E after : Turn(after)
<1> DEFINE ensured == [ c \in Codes |-> ensureAccount(accounts[c], Account1, "spend") ]
           known == IF Present THEN accounts ELSE ensured
           accepts == /\ known[P!CC_USD][Account1].status = "active"
                      /\ \A c \in Codes : ShadowIsNewer(r[c], known[c][Account1])
           synced == [ c \in Codes |-> syncFromShadow(known[c], Account1, r[c]) ]
           after == IF accepts THEN synced ELSE known
<1>1. TreesOK(accounts) /\ r \in Counts
  BY DEF StateOK, NetworkOK
<1>2. /\ MasterStep(after) /\ reports' = reports /\ created' = created
      /\ answers' = IF accepts \/ known[P!CC_USD][Account1].status = "closed"
                    THEN Sending(answers, Budgets(after)) ELSE answers
  BY DEF shadowReport
<1>3. Present <=> IsThere(accounts)
  BY DEF Present, IsThere
<1>4. /\ TreesOK(ensured) /\ IsThere(ensured)
      /\ CountsOf(ensured) = IF IsThere(accounts) THEN CountsOf(accounts) ELSE NoCounts
  BY <1>1, EnsuredTrees
<1> HIDE DEF ensured
<1>5. /\ TreesOK(known) /\ IsThere(known)
      /\ CountsOf(known) = IF IsThere(accounts) THEN CountsOf(accounts) ELSE NoCounts
  BY <1>1, <1>3, <1>4
<1> HIDE DEF known
<1>6. \A v \in answers' \ answers : v = Budgets(after)
  BY <1>2, Sends
<1> HIDE DEF accepts
<1>7. CASE accepts
  <2>1. after = synced
    BY <1>7
  <2> HIDE DEF after
  <2>2. \A c \in Codes : /\ TreeOK(known[c]) /\ Account1 \in DOMAIN known[c]
                         /\ r[c] \in [ Counters -> Nat ]
                         /\ ShadowIsNewer(r[c], known[c][Account1])
    BY <1>1, <1>5, <1>7, Together DEF accepts, Counts
  <2>3. synced = [ c \in Codes |-> synced[c] ]
        /\ \A c \in Codes : synced[c] = syncFromShadow(known[c], Account1, r[c])
    OBVIOUS
  <2> HIDE DEF synced
  <2>4. \A c \in Codes : /\ TreeOK(synced[c]) /\ StatusesKept(known[c], synced[c])
                         /\ \A f \in Counters : synced[c][Account1][f] = r[c][f]
    BY <2>2, <2>3, SyncedTree
  <2>5. \A c, d \in Codes : Alike(synced[c], synced[d])
    BY <1>5, <2>4 DEF Alike, TreesOK, StatusesKept
  <2>6. TreesOK(synced)
    BY <2>3, <2>4, <2>5 DEF TreesOK
  <2>7. IsThere(synced)
    BY <1>5, <2>4, TheCodes DEF IsThere, StatusesKept
  <2>8. CountsOf(synced) = r
    <3>1. r = [ c \in Codes |-> [ f \in Counters |-> r[c][f] ] ]
      BY <1>1 DEF Counts
    <3> QED
      BY <2>4, <3>1 DEF CountsOf
  <2>9. IsThere(accounts) => Upto(CountsOf(accounts), r)
    <3> SUFFICES ASSUME IsThere(accounts), NEW c \in Codes, NEW f \in Counters
                 PROVE  CountsOf(accounts)[c][f] <= r[c][f]
      BY DEF Upto
    <3>1. CountsOf(accounts)[c][f] = known[c][Account1][f]
      <4>1. CountsOf(accounts) = CountsOf(known)
        BY <1>5
      <4> QED
        BY <4>1 DEF CountsOf
    <3>2. /\ r[c].commitmentsMade >= known[c][Account1].commitmentsMade
          /\ r[c].commitmentsRetired >= known[c][Account1].commitmentsRetired
          /\ r[c].spent >= known[c][Account1].spent
      BY <2>2 DEF ShadowIsNewer
    <3>3. r[c][f] \in Nat /\ known[c][Account1][f] \in Nat
      BY <2>2, TreeAccount
    <3>4. r[c][f] >= known[c][Account1][f]
      BY <3>2 DEF Counters
    <3> QED
      BY <3>1, <3>3, <3>4
  <2>10. Took(after, r)
    BY <2>1, <2>7, <2>8, <2>9 DEF Took
  <2>11. Turn(after)
    BY <1>2, <1>6, <2>1, <2>6, <2>7, <2>10 DEF Turn
  <2> QED
    BY <2>11
<1>8. CASE ~accepts
  <2>1. after = known
    BY <1>8
  <2> HIDE DEF after
  <2>2. Same(after)
    BY <1>5, <2>1 DEF Same
  <2>3. Turn(after)
    BY <1>2, <1>5, <1>6, <2>1, <2>2 DEF Turn
  <2> QED
    BY <2>3
<1> QED
  BY <1>7, <1>8

(* The master ends and starts again.                                       *)
LEMMA RestartTurn ==
    ASSUME StateOK, MasterRestart
    PROVE  \E after : Turn(after)
<1> DEFINE after == [ c \in Codes |->
                        RestoredAccounts(Members(saved[c]), Records(saved[c])) ]
<1>1. TreesOK(saved)
  BY DEF StateOK
<1>2. MasterStep(after) /\ UNCHANGED network
  <2>1. after = [ c \in Codes |->
           LET members == { k \in DOMAIN saved[c] : saved[c][k].status = "active" } IN
           RestoredAccounts(members, [ k \in members |-> toJson(saved[c][k]) ]) ]
    BY DEF Members, Records
  <2> QED
    BY <2>1 DEF MasterRestart
<1>3. /\ after = [ c \in Codes |-> after[c] ]
      /\ \A c \in Codes : after[c] = RestoredAccounts(Members(saved[c]), Records(saved[c]))
  OBVIOUS
<1> HIDE DEF after
<1>4. \A c \in Codes :
        /\ TreeOK(after[c])
        /\ DOMAIN after[c] = Members(saved[c])
                               \cup UNION { Ancestors(k) : k \in Members(saved[c]) }
        /\ \A k \in DOMAIN after[c] : after[c][k].status = "active"
        /\ Account1 \in DOMAIN after[c] <=> Account1 \in Members(saved[c])
        /\ Account1 \in DOMAIN after[c] =>
              \A f \in Counters : after[c][Account1][f] = saved[c][Account1][f]
  <2> SUFFICES ASSUME NEW c \in Codes
               PROVE  LET n == after[c]
                          m == saved[c]
                      IN  /\ TreeOK(n)
                          /\ DOMAIN n = Members(m) \cup UNION { Ancestors(k) : k \in Members(m) }
                          /\ \A k \in DOMAIN n : n[k].status = "active"
                          /\ Account1 \in DOMAIN n <=> Account1 \in Members(m)
                          /\ Account1 \in DOMAIN n =>
                                \A f \in Counters : n[Account1][f] = m[Account1][f]
    OBVIOUS
  <2> DEFINE m == saved[c]
             n == RestoredAccounts(Members(m), Records(m))
  <2>1. TreeOK(m) /\ after[c] = n
    BY <1>1, <1>3 DEF TreesOK
  <2>2. /\ TreeOK(n)
        /\ DOMAIN n = Members(m) \cup UNION { Ancestors(k) : k \in Members(m) }
        /\ \A k \in DOMAIN n : n[k].status = "active"
        /\ Account1 \in DOMAIN n <=> Account1 \in Members(m)
        /\ Account1 \in DOMAIN n => \A f \in Counters : n[Account1][f] = m[Account1][f]
    BY <2>1, RestoredTree
  <2> HIDE DEF n
  <2> QED
    BY <2>1, <2>2
<1>5. \A c, d \in Codes : Members(saved[c]) = Members(saved[d])
  BY <1>1 DEF TreesOK, Alike, Members
<1>6. \A c, d \in Codes : Alike(after[c], after[d])
  <2> SUFFICES ASSUME NEW c \in Codes, NEW d \in Codes
               PROVE  Alike(after[c], after[d])
    OBVIOUS
  <2>1. DOMAIN after[c] = DOMAIN after[d]
    BY <1>4, <1>5
  <2> QED
    BY <1>4, <2>1 DEF Alike
<1>7. TreesOK(after)
  BY <1>3, <1>4, <1>6 DEF TreesOK
<1>8. IsThere(after) <=> Listed(saved)
  BY <1>4, TheCodes DEF IsThere, Listed, Members
<1>9. IsThere(after) => CountsOf(after) = CountsOf(saved)
  <2> SUFFICES ASSUME IsThere(after)
               PROVE  CountsOf(after) = CountsOf(saved)
    OBVIOUS
  <2>1. \A c \in Codes, f \in Counters : after[c][Account1][f] = saved[c][Account1][f]
    BY <1>4, <1>7, Together
  <2> QED
    BY <2>1 DEF CountsOf
<1>10. Turn(after)
  BY <1>2, <1>7, <1>8, <1>9 DEF Turn, Reloaded, network
<1> QED
  BY <1>10

\* The steps of the master that are requests or restarts.
MasterTurn == \/ create_account \/ (\E r \in reports : shadowReport(r))
              \/ (\E b \in NewBalances : balance(b)) \/ close \/ MasterRestart

(* Whatever the master does is such a turn.                                *)
LEMMA MasterTurns ==
    ASSUME StateOK, MasterTurn
    PROVE  \E after : Turn(after)
<1>1. CASE create_account
  BY <1>1, CreateTurn
<1>2. CASE \E r \in reports : shadowReport(r)
  BY <1>2, ReportTurn
<1>3. CASE close \/ \E b \in NewBalances : balance(b)
  BY <1>3, RequestTurn
<1>4. CASE MasterRestart
  BY <1>4, RestartTurn
<1> QED
  BY <1>1, <1>2, <1>3, <1>4 DEF MasterTurn

----------------------------------------------------------------------------
(* What the master's answers do to the shadow.                             *)

\* A pool with the master's amounts.
LEMMA CountPool ==
    ASSUME NEW view \in [ net : Nets, counts : Counts ], NEW f \in Counters
    PROVE  /\ Count(view, f) \in SortedPools
           /\ \A c \in Codes : P!getAvailable(Count(view, f), c) = view.counts[c][f]
<1> DEFINE v == [ c \in Codes |-> view.counts[c][f] ]
<1>1. v \in Nets /\ \A c \in Codes : v[c] = view.counts[c][f]
  BY DEF Nets, Counts
<1>2. Count(view, f) = Pool(v)
  BY DEF Count
<1> HIDE DEF v
<1> QED
  BY <1>1, <1>2, PoolOf

(* The balance is what the other pools make it.                            *)
LEMMA BalancePool ==
    ASSUME NEW net \in SortedPools, NEW retired \in SortedPools,
           NEW made \in SortedPools, NEW spent \in SortedPools
    PROVE  LET b == P!MinusPool(P!MinusPool(P!PlusPool(net, retired), made), spent) IN
           /\ b \in SortedPools
           /\ \A c \in Codes : P!getAvailable(b, c) =
                 P!getAvailable(net, c) + P!getAvailable(retired, c)
                 - P!getAvailable(made, c) - P!getAvailable(spent, c)
<1> DEFINE p == P!PlusPool(net, retired)
           q == P!MinusPool(p, made)
           b == P!MinusPool(q, spent)
<1>1. /\ retired \in Seq(Entry) /\ Distinct(retired)
      /\ made \in Seq(Entry) /\ Distinct(made)
      /\ spent \in Seq(Entry) /\ Distinct(spent)
  BY PoolType
<1>2. /\ p \in SortedPools
      /\ \A c \in Codes : P!getAvailable(p, c) =
            P!getAvailable(net, c) + P!getAvailable(retired, c)
  BY <1>1, PlusPoolAdds
<1> HIDE DEF p
<1>3. /\ q \in SortedPools
      /\ \A c \in Codes : P!getAvailable(q, c) =
            P!getAvailable(p, c) - P!getAvailable(made, c)
  BY <1>1, <1>2, MinusPoolSubtracts
<1> HIDE DEF q
<1>4. /\ b \in SortedPools
      /\ \A c \in Codes : P!getAvailable(b, c) =
            P!getAvailable(q, c) - P!getAvailable(spent, c)
  BY <1>1, <1>3, MinusPoolSubtracts
<1> HIDE DEF b
<1>5. \A c \in Codes : P!getAvailable(b, c) =
         P!getAvailable(net, c) + P!getAvailable(retired, c)
         - P!getAvailable(made, c) - P!getAvailable(spent, c)
  <2> SUFFICES ASSUME NEW c \in Codes
               PROVE  P!getAvailable(b, c) =
                        P!getAvailable(net, c) + P!getAvailable(retired, c)
                        - P!getAvailable(made, c) - P!getAvailable(spent, c)
    OBVIOUS
  <2>1. /\ P!getAvailable(b, c) = P!getAvailable(q, c) - P!getAvailable(spent, c)
        /\ P!getAvailable(q, c) = P!getAvailable(p, c) - P!getAvailable(made, c)
        /\ P!getAvailable(p, c) = P!getAvailable(net, c) + P!getAvailable(retired, c)
    BY <1>2, <1>3, <1>4
  <2>2. /\ P!getAvailable(net, c) \in Int /\ P!getAvailable(retired, c) \in Int
        /\ P!getAvailable(made, c) \in Int /\ P!getAvailable(spent, c) \in Int
    BY AvailableType
  <2> QED
    BY <2>1, <2>2
<1> QED
  BY <1>4, <1>5 DEF b, q, p

(* initializeAndMergeState adds the master's counters to the shadow's.     *)
LEMMA MergedShadow ==
    ASSUME NEW s \in ShadowRec, NEW view \in [ net : Nets, counts : Counts ]
    PROVE  LET t == Merged(s, view) IN
           /\ t \in ShadowRec /\ ~t.uninitialized /\ t.status = s.status
           /\ \A c \in Codes :
                 /\ InBooks(t, c)
                 /\ P!getAvailable(t.netBudget, c) = view.net[c]
                 /\ \A f \in Counters : P!getAvailable(t[f], c) =
                       P!getAvailable(s[f], c) + view.counts[c][f]
<1> DEFINE made == P!PlusPool(s.commitmentsMade, Count(view, "commitmentsMade"))
           retired == P!PlusPool(s.commitmentsRetired, Count(view, "commitmentsRetired"))
           spent == P!PlusPool(s.spent, Count(view, "spent"))
           net == Pool(view.net)
           b == P!MinusPool(P!MinusPool(P!PlusPool(net, retired), made), spent)
           t == [ s EXCEPT !.netBudget = net, !.commitmentsMade = made,
                           !.commitmentsRetired = retired, !.spent = spent,
                           !.balance = b, !.uninitialized = FALSE ]
<1>1. Merged(s, view) = t
  BY DEF Merged
<1>2. ASSUME NEW f \in Counters
      PROVE  LET p == P!PlusPool(s[f], Count(view, f)) IN
             /\ p \in SortedPools
             /\ \A c \in Codes : P!getAvailable(p, c) =
                   P!getAvailable(s[f], c) + view.counts[c][f]
  <2>1. /\ Count(view, f) \in SortedPools
        /\ \A c \in Codes : P!getAvailable(Count(view, f), c) = view.counts[c][f]
    BY CountPool
  <2>2. s[f] \in SortedPools
    BY ShadowPoolTypes
  <2>3. Count(view, f) \in Seq(Entry) /\ Distinct(Count(view, f))
    BY <2>1, PoolType
  <2> QED
    BY <2>1, <2>2, <2>3, PlusPoolAdds
<1>3. net \in SortedPools /\ \A c \in Codes : P!getAvailable(net, c) = view.net[c]
  BY PoolOf
<1>4. /\ made \in SortedPools /\ retired \in SortedPools /\ spent \in SortedPools
      /\ \A c \in Codes :
           /\ P!getAvailable(made, c) =
                P!getAvailable(s.commitmentsMade, c) + view.counts[c].commitmentsMade
           /\ P!getAvailable(retired, c) =
                P!getAvailable(s.commitmentsRetired, c) + view.counts[c].commitmentsRetired
           /\ P!getAvailable(spent, c) =
                P!getAvailable(s.spent, c) + view.counts[c].spent
  BY <1>2 DEF Counters
<1> HIDE DEF made, retired, spent, net
<1>5. /\ b \in SortedPools
      /\ \A c \in Codes : P!getAvailable(b, c) =
            P!getAvailable(net, c) + P!getAvailable(retired, c)
            - P!getAvailable(made, c) - P!getAvailable(spent, c)
  BY <1>3, <1>4, BalancePool
<1> HIDE DEF b
<1>6. /\ t \in ShadowRec /\ t.uninitialized = FALSE /\ t.status = s.status
      /\ t.netBudget = net /\ t.commitmentsMade = made
      /\ t.commitmentsRetired = retired /\ t.spent = spent /\ t.balance = b
  BY <1>3, <1>4, <1>5 DEF ShadowRec
<1> HIDE DEF t
<1>7. \A c \in Codes : InBooks(t, c) /\ P!getAvailable(t.netBudget, c) = view.net[c]
  BY <1>3, <1>5, <1>6 DEF InBooks
<1>8. \A c \in Codes, f \in Counters :
         P!getAvailable(t[f], c) = P!getAvailable(s[f], c) + view.counts[c][f]
  BY <1>4, <1>6 DEF Counters
<1> QED
  BY <1>1, <1>6, <1>7, <1>8

(* syncFromMaster changes the net budget and the balance.                  *)
LEMMA SyncedShadow ==
    ASSUME NEW s \in ShadowRec, NEW view \in [ status : Status, net : Nets ]
    PROVE  LET t == Synced(s, view) IN
           /\ t \in ShadowRec /\ t.uninitialized = s.uninitialized
           /\ \A f \in Counters : t[f] = s[f]
           /\ \A c \in Codes : /\ InBooks(t, c)
                               /\ P!getAvailable(t.netBudget, c) = view.net[c]
<1> DEFINE net == Pool(view.net)
           b == P!MinusPool(P!MinusPool(P!PlusPool(net, s.commitmentsRetired),
                                        s.commitmentsMade), s.spent)
           t == [ s EXCEPT !.netBudget = net, !.balance = b, !.status = view.status ]
<1>1. Synced(s, view) = t
  BY DEF Synced
<1>2. net \in SortedPools /\ \A c \in Codes : P!getAvailable(net, c) = view.net[c]
  BY PoolOf
<1> HIDE DEF net
<1>3. /\ b \in SortedPools
      /\ \A c \in Codes : P!getAvailable(b, c) =
            P!getAvailable(net, c) + P!getAvailable(s.commitmentsRetired, c)
            - P!getAvailable(s.commitmentsMade, c) - P!getAvailable(s.spent, c)
  BY <1>2, ShadowPoolTypes, BalancePool
<1> HIDE DEF b
<1>4. /\ t \in ShadowRec /\ t.uninitialized = s.uninitialized
      /\ t.netBudget = net /\ t.commitmentsMade = s.commitmentsMade
      /\ t.commitmentsRetired = s.commitmentsRetired /\ t.spent = s.spent /\ t.balance = b
  BY <1>2, <1>3 DEF ShadowRec
<1> HIDE DEF t
<1>5. \A c \in Codes : InBooks(t, c) /\ P!getAvailable(t.netBudget, c) = view.net[c]
  BY <1>2, <1>3, <1>4 DEF InBooks
<1> QED
  BY <1>1, <1>4, <1>5 DEF Counters

(* A new shadow.                                                           *)
LEMMA EmptyShadow ==
    /\ NoShadow \in ShadowRec /\ NoShadow.uninitialized
    /\ \A c \in Codes : /\ InBooks(NoShadow, c)
                        /\ P!getAvailable(NoShadow.netBudget, c) = 0
                        /\ P!getAvailable(NoShadow.balance, c) = 0
                        /\ \A f \in Counters : P!getAvailable(NoShadow[f], c) = 0
<1> DEFINE none == << >>
<1>1. none \in SortedPools /\ \A c : P!getAvailable(none, c) = 0
  BY EmptyPool
<1>2. NoShadow = [ status |-> "active", netBudget |-> none, commitmentsRetired |-> none,
                   commitmentsMade |-> none, spent |-> none, balance |-> none,
                   uninitialized |-> TRUE, first |-> TRUE ]
  BY DEF NoShadow
<1> HIDE DEF none
<1>3. /\ NoShadow \in ShadowRec /\ NoShadow.uninitialized
      /\ NoShadow.netBudget = none /\ NoShadow.balance = none
      /\ NoShadow.commitmentsRetired = none /\ NoShadow.commitmentsMade = none
      /\ NoShadow.spent = none
  BY <1>1, <1>2 DEF ShadowRec, Status
<1> QED
  BY <1>1, <1>3 DEF InBooks, Counters

(* What a shadow has counted.                                              *)
LEMMA TallyType ==
    ASSUME NEW s \in ShadowRec
    PROVE  /\ \A c \in Codes, f \in Counters : Tally(s)[c][f] = P!getAvailable(s[f], c)
           /\ Rest(Tally(s)) = P!getAvailable(s.commitmentsRetired, P!CC_USD)
                                - P!getAvailable(s.commitmentsMade, P!CC_USD)
                                - P!getAvailable(s.spent, P!CC_USD)
           /\ Rest(Tally(s)) \in Int
<1>1. \A c \in Codes, f \in Counters : Tally(s)[c][f] = P!getAvailable(s[f], c)
  BY DEF Tally
<1>2. /\ P!getAvailable(s.commitmentsRetired, P!CC_USD) \in Int
      /\ P!getAvailable(s.commitmentsMade, P!CC_USD) \in Int
      /\ P!getAvailable(s.spent, P!CC_USD) \in Int
  BY ShadowPoolTypes, AvailableType
<1>3. Rest(Tally(s)) = P!getAvailable(s.commitmentsRetired, P!CC_USD)
                       - P!getAvailable(s.commitmentsMade, P!CC_USD)
                       - P!getAvailable(s.spent, P!CC_USD)
  BY <1>1, TheCodes DEF Rest, Counters
<1> QED
  BY <1>1, <1>2, <1>3

(* The counters are never negative.                                        *)
LEMMA TallyCounts ==
    ASSUME SidesOK
    PROVE  Tally(shadow) \in Counts
<1>1. \A c \in Codes, f \in Counters : P!getAvailable(shadow[f], c) \in Nat
  BY DEF SidesOK, Counts
<1> QED
  BY <1>1 DEF Tally, Counts

(* What is sent is what was counted.                                       *)
LEMMA SentTally ==
    ASSUME SidesOK
    PROVE  [ c \in Codes |-> [ f \in Counters |-> Sent(shadow[f], c) ] ] = Tally(shadow)
<1>1. \A c \in Codes, f \in Counters : Sent(shadow[f], c) = P!getAvailable(shadow[f], c)
  BY ShadowPoolTypes, ThroughJson DEF SidesOK, Sent
<1> QED
  BY <1>1 DEF Tally

(* Counters that a message or the master has.                              *)
LEMMA RestType ==
    ASSUME NEW k \in Counts
    PROVE  Rest(k) \in Int /\ \A c \in Codes, f \in Counters : k[c][f] \in Nat
<1>1. \A c \in Codes, f \in Counters : k[c][f] \in Nat
  BY DEF Counts
<1> QED
  BY <1>1, TheCodes DEF Rest, Counters

----------------------------------------------------------------------------
(* The steps of the system.                                                *)

(* A step in which nothing of the shadow's state changes but its flags.    *)
LEMMA Idle ==
    ASSUME StateOK, Moved(shadow, shadow', NoCounts),
           UNCHANGED << commitments, detached, base, done, excess,
                        created, reports, answers, master >>
    PROVE  BidStep(NoCounts, 0)
<1>1. /\ done \in Counts /\ excess \in Nat
      /\ commitments \in [ DOMAIN commitments -> Nat ]
      /\ detached \in [ DOMAIN detached -> Nat ]
        /\ shadow \in ShadowRec
  BY DEF StateOK, SidesOK
<1>2. \A c \in Codes, f \in Counters : done[c][f] + NoCounts[c][f] = done[c][f]
  BY <1>1, RestType DEF NoCounts
<1>3. Rest(NoCounts) = 0
  BY <1>1, NothingMoved
<1> QED
  BY <1>1, <1>2, <1>3 DEF BidStep

\* Steps that need a proof of their own.
Kinds == \/ \E d \in Counts, x \in Nat : BidStep(d, x)
         \/ \E view \in created : initializeAndMergeState(view)
         \/ SendReport
         \/ \E view \in answers : syncFromMaster(view)
         \/ ShadowCrash
         \/ \E after : Turn(after)
         \/ Save

(* Every step is of one of these kinds.                                    *)
LEMMA StepKinds ==
    ASSUME StateOK, [Next]_vars
    PROVE  Kinds
<1>1. shadow \in ShadowRec /\ NoCounts \in Counts
  BY NothingMoved DEF StateOK, SidesOK
<1>2. ASSUME NEW b \in BOOLEAN, shadow' = [ shadow EXCEPT !.first = b ],
             UNCHANGED << commitments, detached, base, done, excess,
                          created, reports, answers, master >>
      PROVE  Kinds
  <2>1. /\ shadow' \in ShadowRec /\ shadow'.uninitialized = shadow.uninitialized
        /\ shadow'.netBudget = shadow.netBudget /\ shadow'.balance = shadow.balance
        /\ \A f \in Counters : shadow'[f] = shadow[f]
    BY <1>1, <1>2 DEF ShadowRec, Counters
  <2>2. Moved(shadow, shadow, NoCounts)
    BY <1>1, NothingMoved
  <2>3. Moved(shadow, shadow', NoCounts)
    BY <2>1, <2>2 DEF Moved
  <2> QED
    BY <1>1, <1>2, <2>3, Idle DEF Kinds
<1>3. CASE createAccountAtomic
  BY <1>2, <1>3 DEF createAccountAtomic
<1>4. CASE reinitializeStalledAccount
  BY <1>2, <1>4 DEF reinitializeStalledAccount, network
<1>5. CASE Bid
  BY <1>5, BidSteps DEF Kinds
<1>6. CASE MasterTurn
  BY <1>6, MasterTurns DEF Kinds
<1>7. CASE UNCHANGED vars
  <2>1. Moved(shadow, shadow', NoCounts)
    BY <1>1, <1>7, NothingMoved DEF vars, sides
  <2> QED
    BY <1>1, <1>7, <2>1, Idle DEF Kinds, vars, sides, network, bounds
<1> QED
  BY <1>3, <1>4, <1>5, <1>6, <1>7 DEF Next, MasterTurn, Kinds

----------------------------------------------------------------------------
(* The state.                                                              *)

(* At first.                                                               *)
LEMMA StateInit ==
    ASSUME Init
    PROVE  StateOK
<1>1. NoCounts \in Counts /\ \A c \in Codes, f \in Counters : NoCounts[c][f] = 0
  BY EmptyShadow, NothingMoved DEF NoCounts
<1>2. SidesOK
  BY <1>1, EmptyShadow DEF Init, SidesOK, NoBids
<1> QED
  BY <1>2, OpenedTrees DEF Init, StateOK, NetworkOK

(* An operation on a bid.                                                  *)
LEMMA StateBid ==
    ASSUME StateOK, NEW d \in Counts, NEW x \in Nat, BidStep(d, x)
    PROVE  StateOK'
<1>1. SidesOK'
  <2>1. /\ shadow \in ShadowRec /\ shadow' \in ShadowRec
        /\ base \in Counts /\ base' = base /\ done \in Counts /\ done' \in Counts
        /\ shadow'.netBudget = shadow.netBudget
        /\ shadow'.uninitialized = shadow.uninitialized
    BY DEF StateOK, SidesOK, BidStep, Moved
  <2>2. ASSUME NEW c \in Codes, NEW f \in Counters
        PROVE  P!getAvailable(shadow'[f], c) = base'[c][f] + done'[c][f]
    <3>1. /\ P!getAvailable(shadow'[f], c) = P!getAvailable(shadow[f], c) + d[c][f]
          /\ P!getAvailable(shadow[f], c) = base[c][f] + done[c][f]
          /\ done'[c][f] = done[c][f] + d[c][f]
      BY DEF StateOK, SidesOK, BidStep, Moved
    <3>2. base[c][f] \in Nat /\ done[c][f] \in Nat /\ d[c][f] \in Nat
      BY <2>1, RestType
    <3> QED
      BY <2>1, <3>1, <3>2
  <2>3. ASSUME NEW c \in Codes
        PROVE  InBooks(shadow', c)
    <3>1. /\ P!getAvailable(shadow'.balance, c) = P!getAvailable(shadow.balance, c)
               + d[c].commitmentsRetired - d[c].commitmentsMade - d[c].spent
          /\ P!getAvailable(shadow.balance, c) =
               P!getAvailable(shadow.netBudget, c)
               + P!getAvailable(shadow.commitmentsRetired, c)
               - P!getAvailable(shadow.commitmentsMade, c) - P!getAvailable(shadow.spent, c)
      BY DEF StateOK, SidesOK, BidStep, Moved, InBooks
    <3>2. /\ P!getAvailable(shadow'.commitmentsRetired, c) =
               P!getAvailable(shadow.commitmentsRetired, c) + d[c].commitmentsRetired
          /\ P!getAvailable(shadow'.commitmentsMade, c) =
               P!getAvailable(shadow.commitmentsMade, c) + d[c].commitmentsMade
          /\ P!getAvailable(shadow'.spent, c) =
               P!getAvailable(shadow.spent, c) + d[c].spent
      BY DEF BidStep, Moved, Counters
    <3>3. /\ d[c].commitmentsRetired \in Int /\ d[c].commitmentsMade \in Int
          /\ d[c].spent \in Int
      BY RestType DEF Counters
    <3>4. /\ P!getAvailable(shadow.netBudget, c) \in Int
          /\ P!getAvailable(shadow.commitmentsRetired, c) \in Int
          /\ P!getAvailable(shadow.commitmentsMade, c) \in Int
          /\ P!getAvailable(shadow.spent, c) \in Int
          /\ P!getAvailable(shadow.balance, c) \in Int
      BY <2>1, ShadowPoolTypes, AvailableType
    <3> QED
      BY <2>1, <3>1, <3>2, <3>3, <3>4 DEF InBooks
  <2> QED
    BY <2>1, <2>2, <2>3 DEF StateOK, SidesOK, BidStep
<1>2. /\ NetworkOK' /\ TreesOK(accounts') /\ TreesOK(saved')
      /\ excess' \in Nat
  BY DEF StateOK, NetworkOK, BidStep, master
<1> QED
  BY <1>1, <1>2 DEF StateOK

(* The master's answer initializes the shadow.                             *)
LEMMA StateMerge ==
    ASSUME StateOK, NEW view \in created, initializeAndMergeState(view)
    PROVE  StateOK'
<1>1. /\ view \in [ net : Nets, counts : Counts ] /\ shadow \in ShadowRec
      /\ shadow.uninitialized /\ shadow' = Merged(shadow, view) /\ base' = view.counts
      /\ UNCHANGED << commitments, detached, done, network, master, excess >>
  BY DEF StateOK, SidesOK, NetworkOK, initializeAndMergeState
<1>2. /\ shadow' \in ShadowRec /\ ~shadow'.uninitialized
      /\ \A c \in Codes :
            /\ InBooks(shadow', c)
            /\ \A f \in Counters : P!getAvailable(shadow'[f], c) =
                  P!getAvailable(shadow[f], c) + view.counts[c][f]
  BY <1>1, MergedShadow
<1>3. \A c \in Codes, f \in Counters :
         P!getAvailable(shadow'[f], c) = view.counts[c][f] + done[c][f]
  <2> SUFFICES ASSUME NEW c \in Codes, NEW f \in Counters
               PROVE  P!getAvailable(shadow'[f], c) = view.counts[c][f] + done[c][f]
    OBVIOUS
  <2>1. P!getAvailable(shadow[f], c) = base[c][f] + done[c][f] /\ base = NoCounts
    BY <1>1 DEF StateOK, SidesOK
  <2>2. base[c][f] = 0
    BY <2>1 DEF NoCounts
  <2>3. done[c][f] \in Nat /\ view.counts[c][f] \in Nat
    BY <1>1, RestType DEF StateOK, SidesOK
  <2> QED
    BY <1>2, <2>1, <2>2, <2>3
<1>4. SidesOK'
  BY <1>1, <1>2, <1>3 DEF StateOK, SidesOK
<1> QED
  BY <1>1, <1>4 DEF StateOK, NetworkOK, network, master

(* A report is sent.                                                       *)
LEMMA StateReport ==
    ASSUME StateOK, SendReport
    PROVE  StateOK'
<1>1. /\ reports' = Sending(reports, Tally(shadow))
      /\ UNCHANGED << sides, created, answers, master, excess >>
  BY SentTally DEF StateOK, SendReport
<1>2. Tally(shadow) \in Counts
  BY TallyCounts DEF StateOK
<1>3. reports' \subseteq Counts
  BY <1>1, <1>2, Sends DEF StateOK, NetworkOK
<1> QED
  BY <1>1, <1>3 DEF StateOK, SidesOK, NetworkOK, sides, master

(* The answer to a report.                                                 *)
LEMMA StateSync ==
    ASSUME StateOK, NEW view \in answers, syncFromMaster(view)
    PROVE  StateOK'
<1>1. /\ view \in [ status : Status, net : Nets ] /\ shadow \in ShadowRec
      /\ ~shadow.uninitialized /\ shadow' = Synced(shadow, view)
      /\ UNCHANGED << commitments, detached, base, done, network, master, excess >>
  BY DEF StateOK, SidesOK, NetworkOK, syncFromMaster
<1>2. /\ shadow' \in ShadowRec /\ ~shadow'.uninitialized
      /\ \A f \in Counters : shadow'[f] = shadow[f]
      /\ \A c \in Codes : InBooks(shadow', c)
  BY <1>1, SyncedShadow
<1>3. SidesOK'
  BY <1>1, <1>2 DEF StateOK, SidesOK
<1> QED
  BY <1>1, <1>3 DEF StateOK, NetworkOK, network, master

(* The shadow's process ends.                                              *)
LEMMA StateCrash ==
    ASSUME StateOK, ShadowCrash
    PROVE  StateOK'
<1>1. /\ shadow' = NoShadow /\ commitments' = NoBids /\ detached' = NoBids
      /\ base' = NoCounts /\ done' = NoCounts
      /\ UNCHANGED << master, excess >>
  BY DEF ShadowCrash
<1>2. NoCounts \in Counts /\ \A c \in Codes, f \in Counters : NoCounts[c][f] = 0
  BY EmptyShadow, NothingMoved DEF NoCounts
<1>3. SidesOK'
  BY <1>1, <1>2, EmptyShadow DEF SidesOK, NoBids
<1>4. NetworkOK'
  BY DEF StateOK, NetworkOK, ShadowCrash, network
<1> QED
  BY <1>1, <1>3, <1>4 DEF StateOK, master

(* The master handles a request, or starts again.                          *)
LEMMA StateTurn ==
    ASSUME StateOK, NEW after, Turn(after)
    PROVE  StateOK'
<1>1. /\ TreesOK(after) /\ accounts' = after /\ saved' = saved
      /\ UNCHANGED sides /\ reports' = reports
      /\ excess' = excess + TakenBack(accounts[P!CC_USD], accounts'[P!CC_USD])
  BY DEF Turn, MasterStep
<1>2. NetworkOK'
  BY <1>1, AnswerTypes DEF StateOK, NetworkOK, Turn
<1>3. excess' \in Nat
  <2>1. NetOf(accounts) \in Int /\ NetOf(after) \in Int
    BY <1>1, AnswerTypes DEF StateOK
  <2>2. TakenBack(accounts[P!CC_USD], after[P!CC_USD]) = Excess(NetOf(accounts), NetOf(after))
    BY DEF TakenBack, NetOf, IsThere
  <2> QED
    BY <1>1, <2>1, <2>2 DEF StateOK, Excess
<1>4. SidesOK'
  BY <1>1 DEF StateOK, SidesOK, sides
<1> QED
  BY <1>1, <1>2, <1>3, <1>4 DEF StateOK

(* The master saves.                                                       *)
LEMMA StateSave ==
    ASSUME StateOK, Save
    PROVE  StateOK'
  BY DEF StateOK, SidesOK, NetworkOK, Save, sides, network

(* The types and the books are inductive.                                  *)
LEMMA StateStep ==
    ASSUME StateOK, [Next]_vars
    PROVE  StateOK'
  BY StepKinds, StateBid, StateMerge, StateReport, StateSync, StateCrash, StateTurn, StateSave
     DEF Kinds

----------------------------------------------------------------------------
(* The money.                                                              *)

(* The terms of the money are numbers.                                     *)
LEMMA TotalType ==
    ASSUME StateOK
    PROVE  /\ Total \in Int
           /\ P!getAvailable(shadow.balance, P!CC_USD) \in Int
           /\ P!getAvailable(shadow.netBudget, P!CC_USD) \in Int
           /\ shadow.uninitialized \in BOOLEAN
           /\ Tally(shadow) \in Counts
<1>1. shadow.balance \in SortedPools /\ shadow.netBudget \in SortedPools
      /\ shadow.uninitialized \in BOOLEAN
  BY ShadowPoolTypes DEF StateOK, SidesOK
<1>2. NetOf(accounts) \in Int
  BY AnswerTypes DEF StateOK
<1> QED
  BY <1>1, <1>2, AvailableType, TallyCounts DEF StateOK, Total

\* The balance of a shadow, from what it has counted.
LEMMA BalanceOf ==
    ASSUME NEW s \in ShadowRec, InBooks(s, P!CC_USD)
    PROVE  P!getAvailable(s.balance, P!CC_USD) =
             P!getAvailable(s.netBudget, P!CC_USD) + Rest(Tally(s))
<1>1. /\ P!getAvailable(s.netBudget, P!CC_USD) \in Int
      /\ P!getAvailable(s.commitmentsRetired, P!CC_USD) \in Int
      /\ P!getAvailable(s.commitmentsMade, P!CC_USD) \in Int
      /\ P!getAvailable(s.spent, P!CC_USD) \in Int
  BY ShadowPoolTypes, AvailableType
<1> QED
  BY <1>1, TallyType DEF InBooks

(* There is never less in total, whatever the shadow has not counted yet.  *)
LEMMA CoveredMore ==
    ASSUME NEW m \in Int, NEW n \in Int, m <= n, NEW s, NEW k \in Counts,
           P!getAvailable(s.balance, P!CC_USD) \in Int, Covered(m, s, k)
    PROVE  Covered(n, s, k)
<1>1. Rest(k) \in Int
  BY RestType
<1> QED
  BY <1>1 DEF Covered

(* So are the ones in messages, and the counters they carry.               *)
LEMMA MoneyTypes ==
    ASSUME StateOK
    PROVE  /\ \A v \in created : v.counts \in Counts /\ v.net[P!CC_USD] \in Int
           /\ \A v \in answers : v.net[P!CC_USD] \in Int
           /\ reports \subseteq Counts /\ NoCounts \in Counts
           /\ IsThere(accounts) => CountsOf(accounts) \in Counts
           /\ IsThere(saved) => CountsOf(saved) \in Counts
<1>1. \A v \in created : v.counts \in Counts /\ v.net \in Nets
  BY DEF StateOK, NetworkOK
<1>2. \A v \in answers : v.net \in Nets
  BY DEF StateOK, NetworkOK
<1>3. \A n \in Nets : n[P!CC_USD] \in Int
  BY TheCodes DEF Nets
<1> QED
  BY <1>1, <1>2, <1>3, AnswerTypes, EmptyShadow, NothingMoved DEF StateOK, NetworkOK

(* At first the whole net budget is there.                                 *)
LEMMA MoneyInit ==
    ASSUME Init
    PROVE  MoneyOK
<1>1. StateOK
  BY StateInit
<1>2. /\ shadow = NoShadow /\ created = {} /\ answers = {} /\ reports = {}
      /\ accounts = OpenAccounts /\ saved = OpenAccounts /\ excess = 0
  BY DEF Init
<1>3. Total \in Int /\ Total >= 0
  <2>1. NetOf(OpenAccounts) \in Int
    BY OpenedTrees, AnswerTypes
  <2> QED
    BY <1>2, <2>1, OpenedTrees DEF Total
<1>4. Rest(NoCounts) = 0 /\ shadow.uninitialized
      /\ P!getAvailable(shadow.balance, P!CC_USD) = 0
  BY <1>2, EmptyShadow, NothingMoved, TheCodes
<1>5. Covered(Total, shadow, NoCounts)
  BY <1>3, <1>4 DEF Covered
<1> QED
  BY <1>2, <1>4, <1>5, OpenedTrees DEF MoneyOK

(* A bid takes from the balance no more than it has, or counts as excess.  *)
LEMMA MoneyBid ==
    ASSUME StateOK, MoneyOK, NEW d \in Counts, NEW x \in Nat, BidStep(d, x)
    PROVE  MoneyOK'
<1> DEFINE available == P!getAvailable(shadow.balance, P!CC_USD)
           net == P!getAvailable(shadow.netBudget, P!CC_USD)
<1>1. /\ Total \in Int /\ available \in Int /\ net \in Int
      /\ Tally(shadow) \in Counts /\ Rest(Tally(shadow)) \in Int /\ Rest(d) \in Int
      /\ shadow.uninitialized \in BOOLEAN
  BY TotalType, RestType
<1>2. /\ shadow' \in ShadowRec /\ InBooks(shadow', P!CC_USD)
      /\ shadow \in ShadowRec /\ InBooks(shadow, P!CC_USD)
  BY StateBid, TheCodes DEF StateOK, SidesOK
<1>3. Total' = Total + x
  <2>1. NetOf(accounts) \in Int /\ excess \in Nat
    BY AnswerTypes DEF StateOK
  <2>2. accounts' = accounts /\ excess' = excess + x
    BY DEF BidStep, master
  <2> QED
    BY <2>1, <2>2 DEF Total
<1>4. /\ P!getAvailable(shadow'.balance, P!CC_USD) = available + Rest(d)
      /\ Rest(Tally(shadow')) = Rest(Tally(shadow)) + Rest(d)
      /\ shadow'.netBudget = shadow.netBudget
      /\ shadow'.uninitialized = shadow.uninitialized
  <2>1. /\ P!getAvailable(shadow'.balance, P!CC_USD) = available
             + d[P!CC_USD].commitmentsRetired - d[P!CC_USD].commitmentsMade
             - d[P!CC_USD].spent
        /\ shadow'.netBudget = shadow.netBudget
        /\ shadow'.uninitialized = shadow.uninitialized
    BY TheCodes DEF BidStep, Moved
  <2>2. /\ d[P!CC_USD].commitmentsRetired \in Int /\ d[P!CC_USD].commitmentsMade \in Int
        /\ d[P!CC_USD].spent \in Int
    BY TheCodes, RestType DEF Counters
  <2>3. P!getAvailable(shadow'.balance, P!CC_USD) = available + Rest(d)
    BY <1>1, <2>1, <2>2 DEF Rest
  <2>4. P!getAvailable(shadow'.balance, P!CC_USD) =
          P!getAvailable(shadow'.netBudget, P!CC_USD) + Rest(Tally(shadow'))
    BY <1>2, BalanceOf
  <2>5. available = net + Rest(Tally(shadow))
    BY <1>2, BalanceOf
  <2>6. Rest(Tally(shadow')) \in Int
    BY <1>2, TallyType
  <2>7. P!getAvailable(shadow'.netBudget, P!CC_USD) = net
    BY <2>1
  <2> HIDE DEF available, net
  <2>8. Rest(Tally(shadow')) = Rest(Tally(shadow)) + Rest(d)
    <3> DEFINE a == P!getAvailable(shadow'.balance, P!CC_USD)
               r == Rest(Tally(shadow'))
               t == Rest(Tally(shadow))
               y == Rest(d)
    <3>1. /\ available \in Int /\ net \in Int /\ r \in Int /\ t \in Int /\ y \in Int
          /\ a = available + y /\ available = net + t
      BY <1>1, <2>3, <2>5, <2>6
    <3>2. a = net + r
      BY <2>4, <2>7
    <3> HIDE DEF a, r, t, y
    <3>3. r = t + y
      BY <3>1, <3>2
    <3> QED
      BY <3>3 DEF r, t, y
  <2> QED
    BY <2>1, <2>3, <2>8
<1>5. ASSUME NEW k \in Counts, Covered(Total, shadow, k)
      PROVE  Covered(Total', shadow', k)
  <2>1. Rest(k) \in Int
    BY RestType
  <2>2. /\ Total + Rest(k) >= 0
        /\ shadow.uninitialized => Total + Rest(k) + available >= 0
    BY <1>5 DEF Covered
  <2>3. Rest(d) + x >= 0 \/ (x = 0 /\ available + Rest(d) >= 0)
    BY DEF BidStep
  <2> HIDE DEF available, net
  <2>4. /\ (Total + x) + Rest(k) >= 0
        /\ shadow.uninitialized => (Total + x) + Rest(k) + (available + Rest(d)) >= 0
    BY <1>1, <2>1, <2>2, <2>3
  <2> QED
    BY <1>3, <1>4, <2>4 DEF Covered
<1>6. ASSUME ~shadow'.uninitialized
      PROVE  /\ P!getAvailable(shadow'.netBudget, P!CC_USD) <= Total'
             /\ Total' + Rest(Tally(shadow')) >= 0
  <2>1. /\ net <= Total /\ Total + Rest(Tally(shadow)) >= 0
        /\ available = net + Rest(Tally(shadow))
    BY <1>2, <1>4, <1>6, BalanceOf DEF MoneyOK
  <2>2. Rest(d) + x >= 0 \/ (x = 0 /\ available + Rest(d) >= 0)
    BY DEF BidStep
  <2> HIDE DEF available, net
  <2>3. net <= Total + x /\ (Total + x) + (Rest(Tally(shadow)) + Rest(d)) >= 0
    BY <1>1, <2>1, <2>2
  <2> QED
    BY <1>3, <1>4, <2>3 DEF net
<1>7. Total <= Total'
  BY <1>1, <1>3
<1>8. /\ created' = created /\ reports' = reports /\ answers' = answers
      /\ accounts' = accounts /\ saved' = saved
  BY DEF BidStep, master
<1>9. /\ \A v \in created : v.counts \in Counts /\ v.net[P!CC_USD] \in Int
      /\ \A v \in answers : v.net[P!CC_USD] \in Int
      /\ reports \subseteq Counts /\ NoCounts \in Counts
      /\ IsThere(accounts) => CountsOf(accounts) \in Counts
      /\ IsThere(saved) => CountsOf(saved) \in Counts
  BY MoneyTypes
<1>10. /\ \A v \in created : v.net[P!CC_USD] <= Total'
       /\ \A v \in answers : v.net[P!CC_USD] <= Total'
  BY <1>1, <1>3, <1>9 DEF MoneyOK
<1>11. /\ \A v \in created : Covered(Total', shadow', v.counts)
       /\ \A r \in reports : Covered(Total', shadow', r)
       /\ Covered(Total', shadow', NoCounts)
       /\ IsThere(accounts) => Covered(Total', shadow', CountsOf(accounts))
       /\ IsThere(saved) => Covered(Total', shadow', CountsOf(saved))
  BY <1>5, <1>9 DEF MoneyOK
<1> QED
  BY <1>6, <1>8, <1>10, <1>11 DEF MoneyOK

(* What the new counters leave is what the books say is left.              *)
LEMMA MoneyMerge ==
    ASSUME StateOK, MoneyOK, NEW view \in created, initializeAndMergeState(view)
    PROVE  MoneyOK'
<1>1. /\ view \in [ net : Nets, counts : Counts ] /\ shadow \in ShadowRec
      /\ shadow.uninitialized /\ shadow' = Merged(shadow, view)
      /\ UNCHANGED << network, master, excess >>
  BY DEF StateOK, SidesOK, NetworkOK, initializeAndMergeState
<1>2. /\ shadow' \in ShadowRec /\ ~shadow'.uninitialized
      /\ P!getAvailable(shadow'.netBudget, P!CC_USD) = view.net[P!CC_USD]
      /\ \A f \in Counters : P!getAvailable(shadow'[f], P!CC_USD) =
            P!getAvailable(shadow[f], P!CC_USD) + view.counts[P!CC_USD][f]
  BY <1>1, MergedShadow, TheCodes
<1>3. Total' = Total /\ Total \in Int
  BY <1>1, TotalType DEF Total, master
<1>4. \A k : Covered(Total, shadow, k) => Covered(Total', shadow', k)
  BY <1>2, <1>3 DEF Covered
<1>5. Rest(Tally(shadow')) = P!getAvailable(shadow.balance, P!CC_USD) + Rest(view.counts)
  <2>2. /\ P!getAvailable(shadow.commitmentsRetired, P!CC_USD) \in Int
        /\ P!getAvailable(shadow.commitmentsMade, P!CC_USD) \in Int
        /\ P!getAvailable(shadow.spent, P!CC_USD) \in Int
        /\ view.counts[P!CC_USD].commitmentsRetired \in Int
        /\ view.counts[P!CC_USD].commitmentsMade \in Int
        /\ view.counts[P!CC_USD].spent \in Int
    BY <1>1, ShadowPoolTypes, AvailableType, RestType, TheCodes DEF Counters
  <2>3. /\ P!getAvailable(shadow'.commitmentsRetired, P!CC_USD) =
             P!getAvailable(shadow.commitmentsRetired, P!CC_USD)
             + view.counts[P!CC_USD].commitmentsRetired
        /\ P!getAvailable(shadow'.commitmentsMade, P!CC_USD) =
             P!getAvailable(shadow.commitmentsMade, P!CC_USD)
             + view.counts[P!CC_USD].commitmentsMade
        /\ P!getAvailable(shadow'.spent, P!CC_USD) =
             P!getAvailable(shadow.spent, P!CC_USD) + view.counts[P!CC_USD].spent
    BY <1>2 DEF Counters
  <2>4. Rest(Tally(shadow')) = P!getAvailable(shadow'.commitmentsRetired, P!CC_USD)
                               - P!getAvailable(shadow'.commitmentsMade, P!CC_USD)
                               - P!getAvailable(shadow'.spent, P!CC_USD)
    BY <1>2, TallyType
  <2>5. P!getAvailable(shadow.balance, P!CC_USD) =
          P!getAvailable(shadow.commitmentsRetired, P!CC_USD)
          - P!getAvailable(shadow.commitmentsMade, P!CC_USD)
          - P!getAvailable(shadow.spent, P!CC_USD)
    <3>1. P!getAvailable(shadow.netBudget, P!CC_USD) = 0 /\ InBooks(shadow, P!CC_USD)
      BY <1>1, TheCodes DEF StateOK, SidesOK
    <3> QED
      BY <2>2, <3>1 DEF InBooks
  <2> QED
    BY <2>2, <2>3, <2>4, <2>5 DEF Rest
<1>6. /\ view.net[P!CC_USD] <= Total
      /\ Total + Rest(view.counts) + P!getAvailable(shadow.balance, P!CC_USD) >= 0
  BY <1>1 DEF MoneyOK, Covered
<1>7. Total' + Rest(Tally(shadow')) >= 0
  <2>1. Rest(view.counts) \in Int /\ P!getAvailable(shadow.balance, P!CC_USD) \in Int
    BY <1>1, RestType, TotalType
  <2> QED
    BY <1>3, <1>5, <1>6, <2>1
<1> QED
  BY <1>1, <1>2, <1>3, <1>4, <1>6, <1>7 DEF MoneyOK, network, master

(* A report carries counters that are covered.                             *)
LEMMA MoneyReport ==
    ASSUME StateOK, MoneyOK, SendReport
    PROVE  MoneyOK'
<1>1. /\ reports' = Sending(reports, Tally(shadow)) /\ ~shadow.uninitialized
      /\ UNCHANGED << sides, created, answers, master, excess >>
  BY SentTally DEF StateOK, SendReport
<1>2. Covered(Total, shadow, Tally(shadow))
  BY <1>1 DEF MoneyOK, Covered
<1>3. Total' = Total /\ shadow' = shadow
  BY <1>1 DEF Total, master, sides
<1>4. \A r \in reports' : Covered(Total, shadow, r)
  BY <1>1, <1>2, Sends DEF MoneyOK
<1> QED
  BY <1>1, <1>3, <1>4 DEF MoneyOK, master

(* An answer brings a net budget that was not more than the total.         *)
LEMMA MoneySync ==
    ASSUME StateOK, MoneyOK, NEW view \in answers, syncFromMaster(view)
    PROVE  MoneyOK'
<1>1. /\ view \in [ status : Status, net : Nets ] /\ shadow \in ShadowRec
      /\ ~shadow.uninitialized /\ shadow' = Synced(shadow, view)
      /\ UNCHANGED << network, master, excess >>
  BY DEF StateOK, SidesOK, NetworkOK, syncFromMaster
<1>2. /\ shadow' \in ShadowRec /\ ~shadow'.uninitialized
      /\ \A f \in Counters : shadow'[f] = shadow[f]
      /\ P!getAvailable(shadow'.netBudget, P!CC_USD) = view.net[P!CC_USD]
  BY <1>1, SyncedShadow, TheCodes
<1>3. Total' = Total
  BY <1>1 DEF Total, master
<1>4. Tally(shadow') = Tally(shadow)
  BY <1>2 DEF Tally
<1>5. view.net[P!CC_USD] <= Total /\ Total + Rest(Tally(shadow)) >= 0
  BY <1>1 DEF MoneyOK
<1>6. \A k : Covered(Total, shadow, k) => Covered(Total', shadow', k)
  BY <1>2, <1>3 DEF Covered
<1> QED
  BY <1>1, <1>2, <1>3, <1>4, <1>5, <1>6 DEF MoneyOK, network, master

(* A new shadow starts with nothing counted, which was covered.            *)
LEMMA MoneyCrash ==
    ASSUME StateOK, MoneyOK, ShadowCrash
    PROVE  MoneyOK'
<1>1. /\ shadow' = NoShadow /\ UNCHANGED << master, excess >>
      /\ created' \subseteq created /\ reports' \subseteq reports
      /\ answers' \subseteq answers
  BY DEF ShadowCrash, network
<1>2. Total' = Total /\ Total \in Int
  BY <1>1, TotalType DEF Total, master
<1>3. ASSUME NEW k \in Counts, Covered(Total, shadow, k)
      PROVE  Covered(Total', shadow', k)
  <2>1. /\ Rest(k) \in Int /\ shadow'.uninitialized
        /\ P!getAvailable(shadow'.balance, P!CC_USD) = 0
    BY <1>1, RestType, EmptyShadow, TheCodes
  <2> QED
    BY <1>2, <1>3, <2>1 DEF Covered
<1>4. /\ \A v \in created : v.counts \in Counts
      /\ reports \subseteq Counts /\ NoCounts \in Counts
      /\ IsThere(accounts) => CountsOf(accounts) \in Counts
      /\ IsThere(saved) => CountsOf(saved) \in Counts
  BY MoneyTypes
<1>5. shadow'.uninitialized
  BY <1>1, EmptyShadow
<1> QED
  BY <1>1, <1>2, <1>3, <1>4, <1>5 DEF MoneyOK, master

(* What the master takes back is counted as excess.                        *)
LEMMA MoneyTurn ==
    ASSUME StateOK, MoneyOK, NEW after, Turn(after)
    PROVE  MoneyOK'
<1>1. /\ TreesOK(after) /\ accounts' = after /\ saved' = saved
      /\ shadow' = shadow /\ reports' = reports
      /\ excess' = excess + TakenBack(accounts[P!CC_USD], accounts'[P!CC_USD])
  BY DEF Turn, MasterStep, sides
<1>2. /\ Total \in Int /\ Total' \in Int /\ Total <= Total' /\ NetOf(after) <= Total'
      /\ NetOf(after) \in Int
  <2>1. NetOf(accounts) \in Int /\ NetOf(after) \in Int /\ excess \in Nat
    BY <1>1, AnswerTypes DEF StateOK
  <2>2. TakenBack(accounts[P!CC_USD], after[P!CC_USD]) = Excess(NetOf(accounts), NetOf(after))
    BY DEF TakenBack, NetOf, IsThere
  <2>3. /\ Total = NetOf(accounts) + excess
        /\ Total' = NetOf(after) + (excess + Excess(NetOf(accounts), NetOf(after)))
    BY <1>1, <2>2 DEF Total
  <2> QED
    BY <2>1, <2>3 DEF Excess
<1>3. /\ \A v \in created : v.counts \in Counts /\ v.net[P!CC_USD] \in Int
      /\ \A v \in answers : v.net[P!CC_USD] \in Int
      /\ reports \subseteq Counts /\ NoCounts \in Counts
      /\ IsThere(accounts) => CountsOf(accounts) \in Counts
      /\ IsThere(saved) => CountsOf(saved) \in Counts
  BY MoneyTypes
<1>4. ASSUME NEW k \in Counts, Covered(Total, shadow, k)
      PROVE  Covered(Total', shadow', k)
  <2>1. P!getAvailable(shadow.balance, P!CC_USD) \in Int
    BY TotalType
  <2> QED
    BY <1>1, <1>2, <1>4, <2>1, CoveredMore
<1>5. \A r \in reports' : Covered(Total', shadow', r)
  BY <1>1, <1>3, <1>4 DEF MoneyOK
<1>6. /\ Covered(Total', shadow', NoCounts)
      /\ IsThere(saved') => Covered(Total', shadow', CountsOf(saved'))
  BY <1>1, <1>3, <1>4 DEF MoneyOK
<1>7. IsThere(after) => Covered(Total', shadow', CountsOf(after))
  <2>1. CASE Same(after)
    BY <1>3, <1>4, <1>6, <2>1 DEF Same, MoneyOK
  <2>2. CASE \E r \in reports : Took(after, r)
    BY <1>1, <1>5, <2>2 DEF Took
  <2>3. CASE Reloaded(after)
    BY <1>1, <1>6, <2>3 DEF Reloaded, Listed
  <2> QED
    BY <2>1, <2>2, <2>3 DEF Turn
<1>8. \A v \in created' : v.net[P!CC_USD] <= Total' /\ Covered(Total', shadow', v.counts)
  <2> SUFFICES ASSUME NEW v \in created'
               PROVE  v.net[P!CC_USD] <= Total' /\ Covered(Total', shadow', v.counts)
    OBVIOUS
  <2>1. CASE v \in created
    BY <1>2, <1>3, <1>4, <2>1 DEF MoneyOK
  <2>2. CASE v \notin created
    <3>1. IsThere(after) /\ v = View(after)
      BY <2>2 DEF Turn
    <3>2. v.net[P!CC_USD] = NetOf(after) /\ v.counts = CountsOf(after)
      BY <1>1, <3>1, AnswerTypes
    <3> QED
      BY <1>2, <1>7, <3>1, <3>2
  <2> QED
    BY <2>1, <2>2
<1>9. \A v \in answers' : v.net[P!CC_USD] <= Total'
  <2> SUFFICES ASSUME NEW v \in answers'
               PROVE  v.net[P!CC_USD] <= Total'
    OBVIOUS
  <2>1. CASE v \in answers
    BY <1>2, <1>3, <2>1 DEF MoneyOK
  <2>2. CASE v \notin answers
    BY <1>1, <1>2, <2>2, AnswerTypes DEF Turn
  <2> QED
    BY <2>1, <2>2
<1>10. ~shadow'.uninitialized =>
          /\ P!getAvailable(shadow'.netBudget, P!CC_USD) <= Total'
          /\ Total' + Rest(Tally(shadow')) >= 0
  <2>1. /\ P!getAvailable(shadow.netBudget, P!CC_USD) \in Int
        /\ Rest(Tally(shadow)) \in Int
    BY TotalType, RestType
  <2> QED
    BY <1>1, <1>2, <2>1 DEF MoneyOK
<1> QED
  BY <1>1, <1>5, <1>6, <1>7, <1>8, <1>9, <1>10 DEF MoneyOK

(* What is saved was covered.                                              *)
LEMMA MoneySave ==
    ASSUME StateOK, MoneyOK, Save
    PROVE  MoneyOK'
<1>1. /\ saved' = accounts
      /\ UNCHANGED << sides, network, accounts, excess >>
  BY DEF Save
<1>2. Total' = Total
  BY <1>1 DEF Total
<1> QED
  BY <1>1, <1>2 DEF MoneyOK, sides, network

(* So the money is inductive.                                              *)
LEMMA MoneyStep ==
    ASSUME StateOK, MoneyOK, [Next]_vars
    PROVE  MoneyOK'
  BY StepKinds, MoneyBid, MoneyMerge, MoneyReport, MoneySync, MoneyCrash, MoneyTurn, MoneySave
     DEF Kinds

----------------------------------------------------------------------------
(* The counters.                                                           *)

(* An order on counters.                                                   *)
LEMMA UptoTypes ==
    ASSUME NEW k \in Counts, NEW l \in Counts, NEW m \in Counts
    PROVE  /\ Upto(k, k)
           /\ Upto(k, l) /\ Upto(l, m) => Upto(k, m)
           /\ Upto(NoCounts, k)
<1>1. \A c \in Codes, f \in Counters :
         k[c][f] \in Nat /\ l[c][f] \in Nat /\ m[c][f] \in Nat /\ NoCounts[c][f] = 0
  BY RestType DEF NoCounts
<1> QED
  BY <1>1 DEF Upto

(* At first the master has saved what it has.                              *)
LEMMA BehindInit ==
    ASSUME Init
    PROVE  Behind
<1>1. StateOK
  BY StateInit
<1>2. /\ shadow = NoShadow /\ created = {} /\ reports = {}
      /\ accounts = OpenAccounts /\ saved = OpenAccounts
  BY DEF Init
<1>3. Listed(saved) => IsThere(accounts) /\ Upto(CountsOf(saved), CountsOf(accounts))
  BY <1>1, <1>2, MoneyTypes, UptoTypes DEF Listed
<1> QED
  BY <1>2, <1>3, EmptyShadow DEF Behind

(* Operations only add to the counters.                                    *)
LEMMA BehindBid ==
    ASSUME StateOK, Behind, NEW d \in Counts, NEW x \in Nat, BidStep(d, x)
    PROVE  Behind'
<1>1. /\ shadow'.uninitialized = shadow.uninitialized
      /\ created' = created /\ reports' = reports
      /\ accounts' = accounts /\ saved' = saved
  BY DEF BidStep, Moved, master
<1>2. Tally(shadow) \in Counts /\ Tally(shadow') \in Counts
  <2>1. SidesOK /\ SidesOK'
    BY StateBid DEF StateOK
  <2>2. \A c \in Codes, f \in Counters : P!getAvailable(shadow'[f], c) \in Nat
    BY <2>1 DEF SidesOK, Counts
  <2> QED
    BY <2>1, <2>2, TallyCounts DEF Tally, Counts
<1>3. Upto(Tally(shadow), Tally(shadow'))
  <2> SUFFICES ASSUME NEW c \in Codes, NEW f \in Counters
               PROVE  Tally(shadow)[c][f] <= Tally(shadow')[c][f]
    BY DEF Upto
  <2>1. /\ Tally(shadow)[c][f] = P!getAvailable(shadow[f], c)
        /\ Tally(shadow')[c][f] = P!getAvailable(shadow'[f], c)
    BY DEF Tally
  <2>2. P!getAvailable(shadow'[f], c) = P!getAvailable(shadow[f], c) + d[c][f]
    BY DEF BidStep, Moved
  <2>3. Tally(shadow)[c][f] \in Nat /\ d[c][f] \in Nat
    BY <1>2, RestType
  <2> QED
    BY <2>1, <2>2, <2>3
<1>4. /\ reports \subseteq Counts
      /\ IsThere(accounts) => CountsOf(accounts) \in Counts
  BY MoneyTypes
<1>5. ASSUME NEW k \in Counts, Upto(k, Tally(shadow))
      PROVE  Upto(k, Tally(shadow'))
  BY <1>2, <1>3, <1>5, UptoTypes
<1> QED
  BY <1>1, <1>4, <1>5 DEF Behind

(* The shadow starts from counters the master is not ahead of.             *)
LEMMA BehindMerge ==
    ASSUME StateOK, Behind, NEW view \in created, initializeAndMergeState(view)
    PROVE  Behind'
<1>1. /\ view \in [ net : Nets, counts : Counts ] /\ shadow \in ShadowRec
      /\ shadow.uninitialized /\ shadow' = Merged(shadow, view)
      /\ UNCHANGED << network, master >>
  BY DEF StateOK, SidesOK, NetworkOK, initializeAndMergeState
<1>2. /\ shadow' \in ShadowRec /\ ~shadow'.uninitialized
      /\ \A c \in Codes, f \in Counters : P!getAvailable(shadow'[f], c) =
            P!getAvailable(shadow[f], c) + view.counts[c][f]
  BY <1>1, MergedShadow
<1>3. Tally(shadow) \in Counts /\ view.counts \in Counts
  BY <1>1, TallyCounts DEF StateOK
<1>4. \A c \in Codes, f \in Counters : view.counts[c][f] <= Tally(shadow')[c][f]
  <2> SUFFICES ASSUME NEW c \in Codes, NEW f \in Counters
               PROVE  view.counts[c][f] <= Tally(shadow')[c][f]
    OBVIOUS
  <2>1. /\ Tally(shadow)[c][f] = P!getAvailable(shadow[f], c)
        /\ Tally(shadow')[c][f] = P!getAvailable(shadow'[f], c)
    BY DEF Tally
  <2>2. Tally(shadow)[c][f] \in Nat /\ view.counts[c][f] \in Nat
    BY <1>3, RestType
  <2> QED
    BY <1>2, <2>1, <2>2
<1>5. /\ reports' = {} /\ accounts' = accounts /\ saved' = saved
      /\ IsThere(accounts) => Upto(CountsOf(accounts), view.counts)
  BY <1>1 DEF Behind, network, master
<1>6. ASSUME IsThere(accounts)
      PROVE  Upto(CountsOf(accounts), Tally(shadow'))
  <2> SUFFICES ASSUME NEW c \in Codes, NEW f \in Counters
               PROVE  CountsOf(accounts)[c][f] <= Tally(shadow')[c][f]
    BY DEF Upto
  <2>1. /\ CountsOf(accounts)[c][f] <= view.counts[c][f]
        /\ view.counts[c][f] <= Tally(shadow')[c][f]
    BY <1>4, <1>5, <1>6 DEF Upto
  <2>2. CountsOf(accounts)[c][f] \in Nat /\ view.counts[c][f] \in Nat
    BY <1>3, <1>6, MoneyTypes, RestType
  <2>3. Tally(shadow')[c][f] \in Int
    BY <1>2, ShadowPoolTypes, AvailableType DEF Tally
  <2> QED
    BY <2>1, <2>2, <2>3
<1> QED
  BY <1>2, <1>5, <1>6 DEF Behind

(* A report has what the shadow has.                                       *)
LEMMA BehindReport ==
    ASSUME StateOK, Behind, SendReport
    PROVE  Behind'
<1>1. /\ reports' = Sending(reports, Tally(shadow)) /\ ~shadow.uninitialized
      /\ shadow' = shadow /\ created' = created
      /\ accounts' = accounts /\ saved' = saved
  BY SentTally DEF StateOK, SendReport, sides, master
<1>2. Upto(Tally(shadow), Tally(shadow))
  BY TallyCounts, UptoTypes DEF StateOK
<1>3. \A r \in reports' : Upto(r, Tally(shadow))
  BY <1>1, <1>2, Sends DEF Behind
<1> QED
  BY <1>1, <1>3 DEF Behind

(* An answer leaves the counters alone.                                    *)
LEMMA BehindSync ==
    ASSUME StateOK, Behind, NEW view \in answers, syncFromMaster(view)
    PROVE  Behind'
<1>1. /\ view \in [ status : Status, net : Nets ] /\ shadow \in ShadowRec
      /\ ~shadow.uninitialized /\ shadow' = Synced(shadow, view)
      /\ created' = created /\ reports' = reports
      /\ accounts' = accounts /\ saved' = saved
  BY DEF StateOK, SidesOK, NetworkOK, syncFromMaster, network, master
<1>2. ~shadow'.uninitialized /\ Tally(shadow') = Tally(shadow)
  BY <1>1, SyncedShadow DEF Tally
<1> QED
  BY <1>1, <1>2 DEF Behind

(* Nothing of the ended process arrives.                                   *)
LEMMA BehindCrash ==
    ASSUME ~LateMessages, StateOK, Behind, ShadowCrash
    PROVE  Behind'
<1>1. /\ shadow' = NoShadow /\ created' = {} /\ reports' = {}
      /\ accounts' = accounts /\ saved' = saved
  BY DEF ShadowCrash, master
<1> QED
  BY <1>1, EmptyShadow DEF Behind

(* The master takes what was reported, or goes back to what it saved.      *)
LEMMA BehindTurn ==
    ASSUME StateOK, Behind, NEW after, Turn(after)
    PROVE  Behind'
<1>1. /\ TreesOK(after) /\ accounts' = after /\ saved' = saved
      /\ shadow' = shadow /\ reports' = reports
  BY DEF Turn, MasterStep, sides
<1>2. /\ \A v \in created : v.counts \in Counts
      /\ reports \subseteq Counts /\ NoCounts \in Counts
      /\ IsThere(accounts) => CountsOf(accounts) \in Counts
      /\ IsThere(saved) => CountsOf(saved) \in Counts
      /\ IsThere(after) => CountsOf(after) \in Counts
      /\ Tally(shadow) \in Counts
  BY <1>1, MoneyTypes, AnswerTypes, TotalType
\* Either the account has what it had at most, or a living shadow's report.
<1>3. IsThere(after) =>
         \/ CountsOf(after) = NoCounts
         \/ IsThere(accounts) /\ Upto(CountsOf(after), CountsOf(accounts))
         \/ CountsOf(after) \in reports
  <2>1. CASE Same(after)
    BY <1>2, <2>1, UptoTypes DEF Same
  <2>2. CASE \E r \in reports : Took(after, r)
    BY <2>2 DEF Took
  <2>3. CASE Reloaded(after)
    BY <2>3 DEF Reloaded, Behind
  <2> QED
    BY <2>1, <2>2, <2>3 DEF Turn
<1>4. Listed(saved) => IsThere(after) /\ Upto(CountsOf(saved), CountsOf(after))
  <2> SUFFICES ASSUME Listed(saved)
               PROVE  IsThere(after) /\ Upto(CountsOf(saved), CountsOf(after))
    OBVIOUS
  <2>1. /\ IsThere(saved) /\ IsThere(accounts)
        /\ Upto(CountsOf(saved), CountsOf(accounts))
    BY DEF Listed, Behind
  <2>2. CASE Same(after)
    BY <2>1, <2>2 DEF Same
  <2>3. CASE \E r \in reports : Took(after, r)
    BY <1>2, <2>1, <2>3, UptoTypes DEF Took
  <2>4. CASE Reloaded(after)
    BY <1>2, <2>1, <2>4, UptoTypes DEF Reloaded
  <2> QED
    BY <2>2, <2>3, <2>4 DEF Turn
<1>5. ~shadow.uninitialized /\ IsThere(after) => Upto(CountsOf(after), Tally(shadow))
  BY <1>2, <1>3, UptoTypes DEF Behind
<1>6. ASSUME shadow.uninitialized, NEW v \in created', IsThere(after)
      PROVE  Upto(CountsOf(after), v.counts)
  <2>1. CASE v \in created
    BY <1>2, <1>3, <1>6, <2>1, UptoTypes DEF Behind
  <2>2. CASE v \notin created
    <3>1. v.counts = CountsOf(after)
      BY <1>1, <1>6, <2>2, AnswerTypes DEF Turn
    <3> QED
      BY <1>2, <1>6, <3>1, UptoTypes
  <2> QED
    BY <2>1, <2>2
<1> QED
  BY <1>1, <1>4, <1>5, <1>6 DEF Behind

(* It saves what it has.                                                   *)
LEMMA BehindSave ==
    ASSUME StateOK, Behind, Save
    PROVE  Behind'
<1>1. /\ saved' = accounts /\ accounts' = accounts
      /\ shadow' = shadow /\ created' = created /\ reports' = reports
  BY DEF Save, sides, network
<1>2. Listed(accounts) => IsThere(accounts) /\ Upto(CountsOf(accounts), CountsOf(accounts))
  BY MoneyTypes, UptoTypes DEF Listed
<1> QED
  BY <1>1, <1>2 DEF Behind

(* So the order of the counters is inductive.                              *)
LEMMA BehindStep ==
    ASSUME ~LateMessages, StateOK, Behind, [Next]_vars
    PROVE  Behind'
  BY StepKinds, BehindBid, BehindMerge, BehindReport, BehindSync, BehindCrash, BehindTurn,
     BehindSave DEF Kinds

----------------------------------------------------------------------------
(* The properties.                                                         *)

(* The inductive invariant: the types of all the state, with the shadow's  *)
(* books and the forms of the master's trees, and the money, for the       *)
(* messages on their way as well as for the accounts.                      *)
LEMMA MoneyInvariant == Spec => [](StateOK /\ MoneyOK)
<1>1. Init => StateOK /\ MoneyOK
  BY StateInit, MoneyInit
<1>2. StateOK /\ MoneyOK /\ [Next]_vars => (StateOK /\ MoneyOK)'
  BY StateStep, MoneyStep
<1> QED
  BY <1>1, <1>2, PTL DEF Spec

(* The pools of a shadow stay sorted with one amount per currency, bids    *)
(* have amounts, and the master has sound accounts in every currency.      *)
THEOREM ShadowTypes == Spec => []ShadowTypeOK
<1>1. ASSUME StateOK
      PROVE  ShadowTypeOK
  <2>1. SidesOK /\ excess \in Nat
    BY <1>1 DEF StateOK
  <2>2. \A p \in ShadowPools : p \in SortedPools
    BY <2>1, ShadowPoolTypes DEF SidesOK, ShadowPools
  <2>3. \A p \in SortedPools : P!IsPool(p) /\ \A i \in DOMAIN p : p[i].code \in Codes
    BY PoolType DEF SortedPools
  <2>4. \A c \in Codes : IsAccountMap(accounts[c]) /\ IsAccountMap(saved[c])
    BY <1>1 DEF StateOK, TreesOK, TreeOK, GoodMap
  <2> QED
    BY <2>1, <2>2, <2>3, <2>4 DEF ShadowTypeOK, SidesOK
<1> QED
  BY <1>1, MoneyInvariant, PTL

(* The assertions of ShadowAccount::checkInvariants hold at all times: the *)
(* pools that merging and syncing rebuild amount by amount are equal, as   *)
(* operator == compares them, in whatever order and however often views    *)
(* and answers of the master come in.                                      *)
THEOREM ShadowAlwaysInBooks == Spec => []ShadowChecksHold
<1>1. ASSUME StateOK
      PROVE  ShadowChecksHold
  <2> DEFINE have == P!PlusPool(shadow.netBudget, shadow.commitmentsRetired)
             used == P!PlusPool(shadow.commitmentsMade, shadow.spent)
             all == P!PlusPool(used, shadow.balance)
  <2>1. /\ shadow.netBudget \in SortedPools /\ shadow.balance \in SortedPools
        /\ shadow.commitmentsRetired \in SortedPools
        /\ shadow.commitmentsMade \in SortedPools /\ shadow.spent \in SortedPools
    BY <1>1, ShadowPoolTypes DEF StateOK, SidesOK
  <2>2. /\ shadow.commitmentsRetired \in Seq(Entry) /\ Distinct(shadow.commitmentsRetired)
        /\ shadow.spent \in Seq(Entry) /\ Distinct(shadow.spent)
        /\ shadow.balance \in Seq(Entry) /\ Distinct(shadow.balance)
    BY <2>1, PoolType
  <2>3. /\ have \in SortedPools
        /\ \A c \in Codes : P!getAvailable(have, c) =
              P!getAvailable(shadow.netBudget, c)
              + P!getAvailable(shadow.commitmentsRetired, c)
    BY <2>1, <2>2, PlusPoolAdds
  <2>4. /\ used \in SortedPools
        /\ \A c \in Codes : P!getAvailable(used, c) =
              P!getAvailable(shadow.commitmentsMade, c) + P!getAvailable(shadow.spent, c)
    BY <2>1, <2>2, PlusPoolAdds
  <2> HIDE DEF have, used
  <2>5. /\ all \in SortedPools
        /\ \A c \in Codes : P!getAvailable(all, c) =
              P!getAvailable(used, c) + P!getAvailable(shadow.balance, c)
    BY <2>1, <2>2, <2>4, PlusPoolAdds
  <2> HIDE DEF all
  <2>6. ASSUME NEW c \in Codes
        PROVE  P!getAvailable(have, c) = P!getAvailable(all, c)
    <3>1. /\ P!getAvailable(shadow.netBudget, c) \in Int
          /\ P!getAvailable(shadow.balance, c) \in Int
          /\ P!getAvailable(shadow.commitmentsRetired, c) \in Int
          /\ P!getAvailable(shadow.commitmentsMade, c) \in Int
          /\ P!getAvailable(shadow.spent, c) \in Int
      BY <2>1, AvailableType
    <3>2. InBooks(shadow, c)
      BY <1>1 DEF StateOK, SidesOK
    <3> QED
      BY <2>3, <2>4, <2>5, <3>1, <3>2 DEF InBooks
  <2>7. P!SamePool(have, all)
    BY <2>3, <2>5, <2>6, ComparedByAmounts
  <2>8. ASSUME NEW f \in Counters
        PROVE  P!isNonNegative(shadow[f])
    <3>1. \A c \in Codes : P!getAvailable(shadow[f], c) \in Nat
      BY <1>1 DEF StateOK, SidesOK, Counts
    <3>2. shadow[f] \in SortedPools
      BY <2>1, <2>8 DEF Counters
    <3> QED
      BY <3>1, <3>2, ComparedByAmounts
  <2> QED
    BY <2>7, <2>8 DEF ShadowChecksHold, ShadowChecks, Counters, have, used, all
<1> QED
  BY <1>1, MoneyInvariant, PTL

(* Every operation of the process counts once, in each currency and        *)
(* counter, whether it came before or after the master's state was merged  *)
(* in.                                                                     *)
THEOREM EveryOperationCounts == Spec => []OperationsKept
<1>1. StateOK => OperationsKept
  BY DEF StateOK, SidesOK, OperationsKept
<1> QED
  BY <1>1, MoneyInvariant, PTL

(* An account is overdrawn by no more than what was paid without being     *)
(* authorized and what the master took back, also when requests and        *)
(* answers are lost, repeated and late and either process ends: the budget *)
(* a shadow works with is never more than the master's and that excess,    *)
(* and the counters it starts from are covered.                            *)
THEOREM OverdraftStaysBounded == Spec => []OverdraftBounded
<1>1. ASSUME StateOK, MoneyOK
      PROVE  OverdraftBounded
  <2> SUFFICES ASSUME ~shadow.uninitialized, Present
               PROVE  FinalBalance + excess >= 0
    BY DEF OverdraftBounded
  <2>1. Total + Rest(Tally(shadow)) >= 0
    BY <1>1 DEF MoneyOK
  <2>2. /\ NetOf(accounts) = getNetBudget(accounts[P!CC_USD][Account1])
        /\ NetOf(accounts) \in Int /\ excess \in Nat
    BY <1>1, AnswerTypes DEF NetOf, IsThere, Present, StateOK
  <2>3. /\ P!getAvailable(shadow.commitmentsRetired, P!CC_USD) \in Int
        /\ P!getAvailable(shadow.commitmentsMade, P!CC_USD) \in Int
        /\ P!getAvailable(shadow.spent, P!CC_USD) \in Int
        /\ Rest(Tally(shadow)) = P!getAvailable(shadow.commitmentsRetired, P!CC_USD)
                                 - P!getAvailable(shadow.commitmentsMade, P!CC_USD)
                                 - P!getAvailable(shadow.spent, P!CC_USD)
    BY <1>1, ShadowPoolTypes, AvailableType, TallyType DEF StateOK, SidesOK
  <2> QED
    BY <2>1, <2>2, <2>3 DEF FinalBalance, Total
<1> QED
  BY <1>1, MoneyInvariant, PTL

(* Adding, subtracting, limiting, saving and loading the shadow's pools    *)
(* does to each currency what it would do to that currency alone.          *)
THEOREM PoolsAlwaysPointwise == Spec => []PoolsPointwise
<1>1. ASSUME StateOK
      PROVE  PoolsPointwise
  <2>1. shadow.balance \in SortedPools /\ shadow.spent \in SortedPools
    BY <1>1, ShadowPoolTypes DEF StateOK, SidesOK
  <2> QED
    BY <2>1, PoolsActPointwise DEF PoolsPointwise
<1> QED
  BY <1>1, MoneyInvariant, PTL

(* When the messages of a process that ended do not arrive, the master is  *)
(* never ahead of the shadow, and so the assertions of syncToMaster hold   *)
(* for every report of the shadow's state. The hypothesis is needed: a     *)
(* late report of an earlier process puts the master ahead of a shadow     *)
(* that has started from an older view.                                    *)
THEOREM EveryReportAccepted ==
    ASSUME LateMessages = FALSE
    PROVE  Spec => []ReportAccepted
<1>1. StateOK /\ Behind /\ [Next]_vars => Behind'
  BY BehindStep
<1>2. ASSUME StateOK, Behind
      PROVE  ReportAccepted
  <2> SUFFICES ASSUME ~shadow.uninitialized, Present, NEW c \in Codes
               PROVE  ShadowIsNewer([ f \in Counters |-> P!getAvailable(shadow[f], c) ],
                                    accounts[c][Account1])
    BY DEF ReportAccepted
  <2>1. Upto(CountsOf(accounts), Tally(shadow))
    BY <1>2 DEF Behind, Present, IsThere
  <2>2. \A f \in Counters : accounts[c][Account1][f] <= P!getAvailable(shadow[f], c)
    BY <2>1 DEF Upto, CountsOf, Tally
  <2>3. \A f \in Counters : /\ accounts[c][Account1][f] \in Nat
                            /\ P!getAvailable(shadow[f], c) \in Int
    <3>1. Account1 \in DOMAIN accounts[c] /\ TreeOK(accounts[c])
      BY <1>2, Together DEF StateOK, Present, IsThere
    <3> QED
      BY <1>2, <3>1, TreeAccount, ShadowPoolTypes, AvailableType DEF StateOK, SidesOK
  <2> QED
    BY <2>2, <2>3 DEF ShadowIsNewer, Counters
<1> QED
  BY <1>1, <1>2, BehindInit, MoneyInvariant, PTL DEF Spec
=============================================================================
