--------------------------- MODULE SequenceProofs ---------------------------
(***************************************************************************)
(* Induction and recursion without operator parameters, so that they can   *)
(* be applied: what is shown for all numbers is a set, what is done in     *)
(* each turn of a loop is a function.  With them, what the recursive       *)
(* function of SequenceFilter computes.                                    *)
(***************************************************************************)
EXTENDS SequenceFilter, WellFoundedInduction, TLAPS

\* Every set of numbers that is not empty has a smallest one.
LEMMA SmallestElement ==
    ASSUME NEW T, T \subseteq Nat, T # {}
    PROVE  \E x \in T : \A y \in T : ~(y < x)
<1> DEFINE R == OpToRel(<, Nat)
<1>1. IsWellFoundedOn(R, Nat)
  BY NatLessThanWellFounded
<1>2. \A a, b \in Nat : a < b => << a, b >> \in R
  BY DEF OpToRel
<1> HIDE DEF R
<1>3. \E x \in T : \A y \in T : ~ (<<y, x>> \in R)
  BY <1>1, WFMin
<1> QED
  BY <1>2, <1>3

\* A set with 0 and every successor of its elements has all numbers.
LEMMA SetInduction ==
    ASSUME NEW S, 0 \in S, \A n \in Nat : n \in S => n + 1 \in S
    PROVE  \A n \in Nat : n \in S
<1> DEFINE T == Nat \ S
<1> SUFFICES ASSUME T # {} PROVE FALSE
  OBVIOUS
<1>1. PICK x \in T : \A y \in T : ~(y < x)
  BY SmallestElement
<1>2. x - 1 \in Nat /\ x - 1 \notin T
  BY <1>1
<1> QED
  BY <1>1, <1>2

\* The turns of a loop over values of S, and g[i] the value after i of them.
Steps(N, S) == [ 1 .. N -> [ S -> S ] ]
IsRun(g, c, N, step) == g[0] = c /\ \A i \in 1 .. N : g[i] = step[i][g[i - 1]]
Runs(N, S) == [ 0 .. N -> S ]

\* A loop that starts with c and does step[i] in its i-th turn has a result
\* after each turn: the functions that LET defines by recursion exist.
LEMMA Recursion ==
    ASSUME NEW S, NEW c \in S, NEW N \in Nat, NEW step \in Steps(N, S)
    PROVE  \E g \in Runs(N, S) : IsRun(g, c, N, step)
<1> USE DEF Steps, IsRun, Runs
<1> DEFINE Upto(n) == \E g \in [ 0 .. n -> S ] :
              g[0] = c /\ \A i \in 1 .. n : g[i] = step[i][g[i - 1]]
           T == { n \in Nat : n <= N => Upto(n) }
<1>1. 0 \in T
  <2> DEFINE g == [ i \in 0 .. 0 |-> c ]
  <2>1. g \in [ 0 .. 0 -> S ] /\ g[0] = c /\ \A i \in 1 .. 0 : g[i] = step[i][g[i - 1]]
    OBVIOUS
  <2> QED BY <2>1
<1>2. ASSUME NEW n \in Nat, n \in T PROVE n + 1 \in T
  <2> SUFFICES ASSUME n + 1 <= N PROVE Upto(n + 1)
    OBVIOUS
  <2>1. PICK g \in [ 0 .. n -> S ] :
            g[0] = c /\ \A i \in 1 .. n : g[i] = step[i][g[i - 1]]
    BY <1>2
  <2> DEFINE h == [ i \in 0 .. n + 1 |-> IF i = n + 1 THEN step[n + 1][g[n]] ELSE g[i] ]
  <2>2. step[n + 1] \in [ S -> S ] /\ g[n] \in S
    OBVIOUS
  <2>3. h \in [ 0 .. n + 1 -> S ]
    BY <2>2
  <2>4. h[0] = c /\ \A i \in 1 .. n + 1 : h[i] = step[i][h[i - 1]]
    BY <2>1
  <2> QED BY <2>3, <2>4
<1> HIDE DEF T
<1>3. N \in T
  BY <1>1, <1>2, SetInduction
<1> QED BY <1>3 DEF T


\* The same up to a bound.
LEMMA UptoInduction ==
    ASSUME NEW N \in Nat, NEW S, 0 \in S, \A i \in 1 .. N : i - 1 \in S => i \in S
    PROVE  \A i \in 0 .. N : i \in S
<1> DEFINE T == { i \in Nat : i <= N => i \in S }
<1>1. 0 \in T
  OBVIOUS
<1>2. ASSUME NEW n \in Nat, n \in T PROVE n + 1 \in T
  <2> SUFFICES ASSUME n + 1 <= N PROVE n + 1 \in S
    OBVIOUS
  <2>1. n \in S /\ n + 1 \in 1 .. N /\ (n + 1) - 1 = n
    BY <1>2
  <2> QED BY <2>1
<1> HIDE DEF T
<1>3. \A i \in Nat : i \in T
  BY <1>1, <1>2, SetInduction
<1> QED BY <1>3 DEF T

\* r is s followed by t.
Joins(r, s, t) ==
    /\ Len(r) = Len(s) + Len(t)
    /\ DOMAIN r = 1 .. Len(s) + Len(t)
    /\ \A i \in 1 .. Len(s) : r[i] = s[i]
    /\ \A i \in 1 .. Len(t) : r[Len(s) + i] = t[i]
    /\ \A i \in 1 .. Len(r) : \/ i \in 1 .. Len(s)
                              \/ \E j \in 1 .. Len(t) : i = Len(s) + j

\* What concatenation does.
LEMMA Joined ==
    ASSUME NEW A, NEW s \in Seq(A), NEW t \in Seq(A)
    PROVE  s \o t \in Seq(A) /\ Joins(s \o t, s, t)
<1> DEFINE r == s \o t
<1>1. /\ r \in Seq(A) /\ Len(r) = Len(s) + Len(t) /\ Len(s) \in Nat /\ Len(t) \in Nat
      /\ DOMAIN r = 1 .. Len(s) + Len(t)
  OBVIOUS
<1>2. \A i \in 1 .. Len(s) : r[i] = s[i]
  OBVIOUS
<1>3. \A i \in 1 .. Len(t) : r[Len(s) + i] = t[i]
  OBVIOUS
<1>4. ASSUME NEW i \in 1 .. Len(r), i \notin 1 .. Len(s)
      PROVE  \E j \in 1 .. Len(t) : i = Len(s) + j
  <2>1. i - Len(s) \in 1 .. Len(t) /\ i = Len(s) + (i - Len(s))
    BY <1>1, <1>4
  <2> QED BY <2>1
<1> QED BY <1>1, <1>2, <1>3, <1>4 DEF Joins

\* t is the part of s after its first m elements, up to the n-th.
Between(t, s, m, n) ==
    /\ Len(t) = n - m /\ DOMAIN t = 1 .. n - m
    /\ \A i \in 1 .. n - m : t[i] = s[m + i] /\ m + i \in m + 1 .. n
    /\ \A h \in m + 1 .. n : \E i \in 1 .. n - m : t[i] = s[h] /\ h = m + i

\* What SubSeq does.
LEMMA PartOf ==
    ASSUME NEW A, NEW s \in Seq(A), NEW n \in 0 .. Len(s), NEW m \in 0 .. n
    PROVE  SubSeq(s, m + 1, n) \in Seq(A) /\ Between(SubSeq(s, m + 1, n), s, m, n)
<1> DEFINE t == SubSeq(s, m + 1, n)
<1>1. /\ t = [ i \in 1 .. n - m |-> s[m + i] ] /\ Len(s) \in Nat
  OBVIOUS
<1> HIDE DEF t
<1>2. n - m \in Nat /\ \A i \in 1 .. n - m : s[m + i] \in A
  BY <1>1
<1>3. t \in Seq(A) /\ Len(t) = n - m /\ DOMAIN t = 1 .. n - m
  BY <1>1, <1>2
<1>4. \A i \in 1 .. n - m : t[i] = s[m + i] /\ m + i \in m + 1 .. n
  BY <1>1, <1>2
<1>5. ASSUME NEW h \in m + 1 .. n
      PROVE  \E i \in 1 .. n - m : t[i] = s[h] /\ h = m + i
  <2>1. h - m \in 1 .. n - m /\ h = m + (h - m)
    BY <1>1
  <2>2. t[h - m] = s[h]
    BY <1>4, <2>1
  <2> QED BY <2>1, <2>2
<1> QED BY <1>3, <1>4, <1>5 DEF Between, t

\* What the loop of Only has collected after each turn.
Collects(only, s, S) ==
    /\ Only(s, S) = only[Len(s)]
    /\ only[0] = <<>>
    /\ \A i \in 1 .. Len(s) :
          only[i] = IF s[i] \in S THEN Append(only[i - 1], s[i]) ELSE only[i - 1]

\* The recursive function of Only exists, and is what it says.
LEMMA OnlyExists ==
    ASSUME NEW A, NEW s \in Seq(A), NEW S
    PROVE  \E only \in Runs(Len(s), Seq(A)) : Collects(only, s, S)
<1> DEFINE Q == Seq(A)
           none == << >>
           N == Len(s)
           add(q, i) == Append(q, s[i])
           Def(g) == [ i \in 0 .. N |->
                    IF i = 0 THEN none
                    ELSE IF s[i] \in S THEN add(g[i - 1], i) ELSE g[i - 1] ]
           step == [ i \in 1 .. N |-> [ q \in Q |->
                       IF s[i] \in S THEN add(q, i) ELSE q ] ]
           only == CHOOSE g : g = Def(g)
<1>1. N \in Nat /\ none \in Q /\ \A i \in 1 .. N : \A q \in Q : add(q, i) \in Q
  OBVIOUS
<1>2. Only(s, S) = only[N]
  BY DEF Only
<1> HIDE DEF Q, none, N, add
<1>3. step \in Steps(N, Q)
  BY <1>1 DEF Steps
<1>4. \A i \in 1 .. N, q \in Q :
         step[i][q] = IF s[i] \in S THEN add(q, i) ELSE q
  BY <1>1
<1> HIDE DEF step
<1>5. PICK g \in Runs(N, Q) : IsRun(g, none, N, step)
  BY <1>1, <1>3, Recursion, Zenon
<1>6. g = Def(g)
  <2>1. \A i \in 1 .. N : g[i - 1] \in Q
    BY <1>1 DEF Runs
  <2>2. \A i \in 1 .. N : g[i] = IF s[i] \in S THEN add(g[i - 1], i) ELSE g[i - 1]
    BY <1>5, <1>4, <2>1 DEF IsRun
  <2> QED BY <1>1, <1>5, <2>2 DEF IsRun, Runs
<1>7. only = Def(only)
  BY <1>6, Zenon
<1>8. \E f : f = Def(f) /\ Only(s, S) = f[N]
  BY <1>7, <1>2, Zenon
<1> HIDE DEF only
<1>9. PICK f : f = Def(f) /\ Only(s, S) = f[N]
  BY <1>8, Zenon
<1>10. f = [ i \in 0 .. N |->
                    IF i = 0 THEN none
                    ELSE IF s[i] \in S THEN add(f[i - 1], i) ELSE f[i - 1] ]
  BY <1>9
<1> HIDE DEF Def
<1>11. /\ f[0] = none /\ DOMAIN f = 0 .. N
       /\ \A i \in 1 .. N :
             f[i] = IF s[i] \in S THEN add(f[i - 1], i) ELSE f[i - 1]
  BY <1>1, <1>10
<1>12. f \in [ 0 .. N -> Q ]
  <2> DEFINE T == { i \in 0 .. N : f[i] \in Q }
  <2>1. 0 \in T
    BY <1>1, <1>11
  <2>2. \A i \in 1 .. N : i - 1 \in T => i \in T
    BY <1>1, <1>11
  <2>3. \A i \in 0 .. N : i \in T
    <3> HIDE DEF T
    <3> QED BY <1>1, <2>1, <2>2, UptoInduction
  <2> QED BY <2>3, <1>10
<1>13. f \in Runs(Len(s), Seq(A)) /\ Collects(f, s, S)
  BY <1>9, <1>11, <1>12 DEF Q, none, N, add, Runs, Collects
<1> QED BY <1>13

\* w has the elements of s that are in S, and repeats none that s does not.
Filters(w, s, S) ==
    /\ \A j \in 1 .. Len(w) : w[j] \in S /\ \E h \in 1 .. Len(s) : w[j] = s[h]
    /\ \A h \in 1 .. Len(s) : s[h] \in S => \E j \in 1 .. Len(w) : w[j] = s[h]
    /\ (\A a, b \in 1 .. Len(s) : s[a] = s[b] => a = b) =>
          \A j, l \in 1 .. Len(w) : w[j] = w[l] => j = l

\* Only(s, S) has the elements of s in S, and each once if s has.
LEMMA OnlyFilters ==
    ASSUME NEW A, NEW s \in Seq(A), NEW S
    PROVE  Only(s, S) \in Seq(A) /\ Filters(Only(s, S), s, S)
<1>0. PICK only \in Runs(Len(s), Seq(A)) : Collects(only, s, S)
  BY OnlyExists, Zenon
<1>10. only \in [ 0 .. Len(s) -> Seq(A) ]
  BY <1>0 DEF Runs
<1>1. /\ Only(s, S) = only[Len(s)]
      /\ only[0] = <<>>
      /\ \A i \in 1 .. Len(s) :
            only[i] = IF s[i] \in S THEN Append(only[i - 1], s[i]) ELSE only[i - 1]
  BY <1>0 DEF Collects
<1> DEFINE In(i) == \A j \in 1 .. Len(only[i]) :
                       only[i][j] \in S /\ \E h \in 1 .. i : only[i][j] = s[h]
           All(i) == \A h \in 1 .. i : s[h] \in S =>
                        \E j \in 1 .. Len(only[i]) : only[i][j] = s[h]
           Once(i) == (\A a, b \in 1 .. Len(s) : s[a] = s[b] => a = b) =>
                         \A j, l \in 1 .. Len(only[i]) : only[i][j] = only[i][l] => j = l
           T == { i \in 0 .. Len(s) : In(i) /\ All(i) /\ Once(i) }
<1>2. Len(s) \in Nat /\ \A i \in 1 .. Len(s) : s[i] \in A
  OBVIOUS
<1>11. \A i : i \in T <=> (i \in 0 .. Len(s) /\ In(i) /\ All(i) /\ Once(i))
  <2> HIDE DEF In, All, Once
  <2> QED OBVIOUS
<1> HIDE DEF T
<1>3. 0 \in T
  <2>1. Len(only[0]) = 0
    BY <1>1
  <2>2. In(0) /\ All(0) /\ Once(0) /\ 0 \in 0 .. Len(s)
    BY <1>2, <2>1
  <2> HIDE DEF In, All, Once
  <2> QED BY <2>2, <1>11
<1>4. ASSUME NEW i \in 1 .. Len(s), i - 1 \in T PROVE i \in T
  <2>0. In(i - 1) /\ All(i - 1) /\ Once(i - 1)
    <3> HIDE DEF In, All, Once
    <3> QED BY <1>4, <1>11
  <2>1. /\ In(i - 1) /\ All(i - 1) /\ Once(i - 1)
        /\ only[i - 1] \in Seq(A) /\ i - 1 \in Nat /\ i \in 0 .. Len(s)
    <3>1. i - 1 \in 0 .. Len(s) /\ i \in 0 .. Len(s)
      BY <1>2
    <3>2. only[i - 1] \in Seq(A)
      <4> DEFINE Q == Seq(A)
      <4>1. only \in [ 0 .. Len(s) -> Q ]
        BY <1>10
      <4> HIDE DEF Q
      <4>2. only[i - 1] \in Q
        BY <3>1, <4>1
      <4> QED BY <4>2 DEF Q
    <3> HIDE DEF In, All, Once
    <3> QED BY <1>2, <2>0, <3>1, <3>2
  <2>2. CASE s[i] \notin S
    <3>1. only[i] = only[i - 1]
      BY <1>1, <2>2
    <3>2. In(i)
      BY <1>2, <2>1, <3>1
    <3>3. All(i)
      BY <1>2, <2>1, <2>2, <3>1
    <3>4. Once(i)
      BY <2>1, <3>1
    <3> HIDE DEF In, All, Once
    <3> QED BY <1>11, <2>1, <3>2, <3>3, <3>4
  <2>3. CASE s[i] \in S
    <3> DEFINE old == only[i - 1]
    <3>1. only[i] = Append(old, s[i])
      BY <1>1, <2>3
    <3>2. /\ old \in Seq(A) /\ Len(old) \in Nat
          /\ Len(only[i]) = Len(old) + 1
          /\ \A j \in 1 .. Len(old) : only[i][j] = old[j]
          /\ only[i][Len(old) + 1] = s[i]
      BY <1>2, <2>1, <3>1
    <3> HIDE DEF old
    <3>3. In(i)
      <4> SUFFICES ASSUME NEW j \in 1 .. Len(only[i])
                   PROVE  only[i][j] \in S /\ \E h \in 1 .. i : only[i][j] = s[h]
        OBVIOUS
      <4>1. CASE j = Len(old) + 1
        <5>1. i \in 1 .. i /\ only[i][j] = s[i]
          BY <1>2, <3>2, <4>1
        <5> QED BY <2>3, <5>1
      <4>2. CASE j # Len(old) + 1
        <5>1. j \in 1 .. Len(old)
          BY <3>2, <4>2
        <5>2. PICK h \in 1 .. i - 1 : old[j] = s[h] /\ old[j] \in S
          BY <2>1, <5>1 DEF old
        <5>3. h \in 1 .. i /\ only[i][j] = s[h]
          BY <1>2, <3>2, <5>1, <5>2
        <5> QED BY <5>2, <5>3
      <4> QED BY <4>1, <4>2
    <3>4. All(i)
      <4> SUFFICES ASSUME NEW h \in 1 .. i, s[h] \in S
                   PROVE  \E j \in 1 .. Len(only[i]) : only[i][j] = s[h]
        OBVIOUS
      <4>1. CASE h = i
        <5>1. Len(old) + 1 \in 1 .. Len(only[i]) /\ only[i][Len(old) + 1] = s[h]
          BY <3>2, <4>1
        <5> QED BY <5>1
      <4>2. CASE h # i
        <5>1. PICK j \in 1 .. Len(old) : old[j] = s[h]
          BY <1>2, <2>1, <4>2 DEF old
        <5>2. j \in 1 .. Len(only[i]) /\ only[i][j] = s[h]
          BY <3>2, <5>1
        <5> QED BY <5>2
      <4> QED BY <4>1, <4>2
    <3>5. Once(i)
      <4> SUFFICES ASSUME \A a, b \in 1 .. Len(s) : s[a] = s[b] => a = b
                   PROVE  \A j, l \in 1 .. Len(only[i]) : only[i][j] = only[i][l] => j = l
        OBVIOUS
      <4>1. \A j \in 1 .. Len(old) : old[j] # s[i]
        BY <1>2, <2>1 DEF old
      <4>2. \A j, l \in 1 .. Len(old) : old[j] = old[l] => j = l
        BY <2>1 DEF old
      <4>3. \A j \in 1 .. Len(only[i]) : j \in 1 .. Len(old) \/ j = Len(old) + 1
        BY <3>2
      <4> QED BY <3>2, <4>1, <4>2, <4>3
    <3> HIDE DEF In, All, Once
    <3> QED BY <1>11, <2>1, <3>3, <3>4, <3>5
  <2> QED BY <2>2, <2>3
<1>5. \A i \in 0 .. Len(s) : i \in T
  BY <1>2, <1>3, <1>4, UptoInduction
<1>6. In(Len(s)) /\ All(Len(s)) /\ Once(Len(s))
  <2>1. Len(s) \in 0 .. Len(s)
    BY <1>2
  <2> HIDE DEF In, All, Once
  <2> QED BY <1>5, <1>11, <2>1
<1>7. Only(s, S) \in Seq(A)
  BY <1>10, <1>1, <1>2
<1> QED BY <1>1, <1>6, <1>7 DEF Filters
\* Any two elements of w, in the order of w, are two of s in the order of s.
InOrder(w, s) ==
    \A j, l \in 1 .. Len(w) : j < l =>
       \E a, b \in 1 .. Len(s) : a < b /\ w[j] = s[a] /\ w[l] = s[b]

\* Only keeps the order of the elements.
LEMMA OnlyKeepsOrder ==
    ASSUME NEW A, NEW s \in Seq(A), NEW S
    PROVE  InOrder(Only(s, S), s)
<1>0. PICK only \in Runs(Len(s), Seq(A)) : Collects(only, s, S)
  BY OnlyExists, Zenon
<1>1. only \in [ 0 .. Len(s) -> Seq(A) ] /\ Len(s) \in Nat
  BY <1>0 DEF Runs
<1>2. /\ Only(s, S) = only[Len(s)]
      /\ only[0] = <<>>
      /\ \A i \in 1 .. Len(s) :
            only[i] = IF s[i] \in S THEN Append(only[i - 1], s[i]) ELSE only[i - 1]
  BY <1>0 DEF Collects
<1> DEFINE In(i) == \A j \in 1 .. Len(only[i]) : \E h \in 1 .. i : only[i][j] = s[h]
           Pairs(i) == \A j, l \in 1 .. Len(only[i]) : j < l =>
                          \E a, b \in 1 .. i : a < b /\ only[i][j] = s[a] /\ only[i][l] = s[b]
           T == { i \in 0 .. Len(s) : In(i) /\ Pairs(i) }
<1>3. \A i : i \in T <=> (i \in 0 .. Len(s) /\ In(i) /\ Pairs(i))
  <2> HIDE DEF In, Pairs
  <2> QED OBVIOUS
<1> HIDE DEF T
<1>4. 0 \in T
  <2>1. Len(only[0]) = 0
    BY <1>2
  <2>2. In(0) /\ Pairs(0) /\ 0 \in 0 .. Len(s)
    BY <1>1, <2>1
  <2> HIDE DEF In, Pairs
  <2> QED BY <2>2, <1>3
<1>5. ASSUME NEW i \in 1 .. Len(s), i - 1 \in T PROVE i \in T
  <2> DEFINE old == only[i - 1]
  <2>1. In(i - 1) /\ Pairs(i - 1)
    <3> HIDE DEF In, Pairs
    <3> QED BY <1>5, <1>3
  <2>2. i \in Nat /\ i - 1 \in 0 .. Len(s) /\ i \in 0 .. Len(s)
    BY <1>1
  <2>3. \A h \in 1 .. i - 1 : h \in 1 .. i /\ h < i
    BY <2>2
  <2>4. CASE only[i] = old
    <3>1. In(i)
      BY <2>1, <2>3, <2>4
    <3>2. Pairs(i)
      BY <2>1, <2>3, <2>4
    <3> HIDE DEF In, Pairs
    <3> QED BY <1>3, <2>2, <3>1, <3>2
  <2>5. CASE only[i] = Append(old, s[i])
    <3>1. /\ Len(old) \in Nat /\ Len(only[i]) = Len(old) + 1
          /\ \A j \in 1 .. Len(old) : only[i][j] = old[j]
          /\ only[i][Len(old) + 1] = s[i]
      <4> DEFINE Q == Seq(A)
      <4>1. only \in [ 0 .. Len(s) -> Q ]
        BY <1>1
      <4> HIDE DEF Q
      <4>2. old \in Q
        BY <2>2, <4>1
      <4> QED BY <2>5, <4>2 DEF Q
    <3>2. \A j \in 1 .. Len(only[i]) : j \in 1 .. Len(old) \/ j = Len(old) + 1
      BY <3>1
    <3>3. \A j \in 1 .. Len(old) : \E h \in 1 .. i - 1 : old[j] = s[h]
      BY <2>1
    <3>4. In(i)
      <4> SUFFICES ASSUME NEW j \in 1 .. Len(only[i])
                   PROVE  \E h \in 1 .. i : only[i][j] = s[h]
        OBVIOUS
      <4>1. CASE j \in 1 .. Len(old)
        BY <2>3, <3>1, <3>3, <4>1
      <4>2. CASE j = Len(old) + 1
        <5>1. i \in 1 .. i /\ only[i][j] = s[i]
          BY <2>2, <3>1, <4>2
        <5> QED BY <5>1
      <4> QED BY <3>2, <4>1, <4>2
    <3>5. ASSUME NEW j \in 1 .. Len(only[i]), NEW l \in 1 .. Len(only[i]), j < l
          PROVE  \E a, b \in 1 .. i : a < b /\ only[i][j] = s[a] /\ only[i][l] = s[b]
      <4>1. j \in 1 .. Len(old)
        BY <3>1, <3>5
      <4>2. CASE l = Len(old) + 1
        <5>1. PICK h \in 1 .. i - 1 : old[j] = s[h]
          BY <3>3, <4>1
        <5>2. h \in 1 .. i /\ i \in 1 .. i /\ h < i
          BY <2>2, <2>3
        <5>3. only[i][j] = s[h] /\ only[i][l] = s[i]
          BY <3>1, <4>1, <4>2, <5>1
        <5> QED BY <5>2, <5>3
      <4>3. CASE l \in 1 .. Len(old)
        <5>1. PICK a \in 1 .. i - 1, b \in 1 .. i - 1 :
                 a < b /\ old[j] = s[a] /\ old[l] = s[b]
          BY <2>1, <3>5, <4>1, <4>3
        <5> QED BY <2>3, <3>1, <4>1, <4>3, <5>1
      <4> QED BY <3>2, <4>2, <4>3
    <3>6. Pairs(i)
      BY <3>5
    <3> HIDE DEF In, Pairs
    <3> QED BY <1>3, <2>2, <3>4, <3>6
  <2> QED BY <1>2, <2>4, <2>5
<1>6. \A i \in 0 .. Len(s) : i \in T
  BY <1>1, <1>4, <1>5, UptoInduction
<1>7. Pairs(Len(s))
  <2>1. Len(s) \in 0 .. Len(s)
    BY <1>1
  <2> HIDE DEF In, Pairs
  <2> QED BY <1>3, <1>6, <2>1
<1> QED BY <1>2, <1>7 DEF InOrder
=============================================================================
