------------------- MODULE InterAccountConsistencyProofs -------------------
(***************************************************************************)
(* Proofs that the consistency check between an account and the accounts   *)
(* below it finds nothing while the first process lives: of the accounts   *)
(* in memory and of the records in redis.                                  *)
(*                                                                         *)
(* The check is a recursion over the tree with sums over the children of   *)
(* an account, so the sums come first: in any order, with one element      *)
(* changed, with more elements.  The check itself is not inductive, since  *)
(* it looks at the amounts of each tree as a whole.  Conserved is: budgets *)
(* agree at every account, and there are numbers that say what each        *)
(* account exchanged with its parent.  A transfer or a close changes the   *)
(* numbers of one account; the recursive functions of the check compute    *)
(* these numbers, by induction from the leaves.                            *)
(***************************************************************************)
EXTENDS InterAccountConsistency, MasterBankerProofs, SequenceProofs,
        FiniteSetTheorems

----------------------------------------------------------------------------
(* Sums over finite sets.                                                  *)

(* A family of sets that has {}, and a set with one more element when it   *)
(* has the set, has every finite set.                                      *)
LEMMA OneByOne ==
    ASSUME NEW S, IsFiniteSet(S), NEW Z, {} \in Z,
           \A T \in SUBSET S : \A x \in S \ T : T \in Z => T \cup {x} \in Z
    PROVE  S \in Z
<1> DEFINE N == { n \in Nat : \A T \in SUBSET S : Cardinality(T) = n => T \in Z }
<1>1. \A T \in SUBSET S : IsFiniteSet(T) /\ Cardinality(T) \in Nat
  BY FS_Subset, FS_CardinalityType
<1>2. 0 \in N
  BY <1>1, FS_EmptySet
<1>3. ASSUME NEW n \in Nat, n \in N PROVE n + 1 \in N
  <2> SUFFICES ASSUME NEW T \in SUBSET S, Cardinality(T) = n + 1 PROVE T \in Z
    OBVIOUS
  <2>1. T # {}
    BY <1>1, FS_EmptySet
  <2>2. PICK x \in T : TRUE
    BY <2>1
  <2>3. Cardinality(T \ {x}) = n
    <3>1. Cardinality(T \ {x}) = Cardinality(T) - 1
      BY <1>1, <2>2, FS_RemoveElement
    <3> QED BY <3>1
  <2>4. T \ {x} \in Z /\ x \in S \ (T \ {x}) /\ (T \ {x}) \cup {x} = T
    BY <1>3, <2>2, <2>3
  <2> QED BY <2>4
<1> HIDE DEF N
<1>4. \A n \in Nat : n \in N
  BY <1>2, <1>3, SetInduction
<1>5. Cardinality(S) \in N
  BY <1>1, <1>4
<1> QED BY <1>5 DEF N

\* The recursive function by which SumFunction(f) is defined.
AnyOf(s) == CHOOSE x \in s : TRUE
IsSum(f, S, g) == g = [ s \in SUBSET S |-> IF s = {} THEN 0
                                           ELSE f[AnyOf(s)] + g[s \ {AnyOf(s)}] ]

(* SumFunction in terms of that function.                                  *)
LEMMA SumIsRecursive ==
    ASSUME NEW f
    PROVE  SumFunction(f) = (CHOOSE g : IsSum(f, DOMAIN f, g))[DOMAIN f]
  BY DEF SumFunction, SumFunctionOnSet, FoldFunctionOnSet, MapThenFoldSet, IsSum,
         AnyOf

\* g gives the sums of f over the subsets of S.
Adds(f, S, g) == /\ f \in [ S -> Int ] /\ g \in [ SUBSET S -> Int ]
                 /\ IsSum(f, S, g)

(* It exists, and has integer values.                                      *)
LEMMA SumExists ==
    ASSUME NEW S, IsFiniteSet(S), NEW f \in [ S -> Int ]
    PROVE  \E g : Adds(f, S, g)
<1> DEFINE Step(g, s) == IF s = {} THEN 0 ELSE f[AnyOf(s)] + g[s \ {AnyOf(s)}]
           Upto(n) == \E g \in [ SUBSET S -> Int ] :
                        \A s \in SUBSET S : Cardinality(s) <= n => g[s] = Step(g, s)
           N == { n \in Nat : Upto(n) }
<1>1. \A s \in SUBSET S : IsFiniteSet(s) /\ Cardinality(s) \in Nat
  BY FS_Subset, FS_CardinalityType
<1>2. \A s \in SUBSET S : s # {} => /\ AnyOf(s) \in s
                                    /\ s \ {AnyOf(s)} \in SUBSET S
                                    /\ Cardinality(s \ {AnyOf(s)}) = Cardinality(s) - 1
  <2> SUFFICES ASSUME NEW s \in SUBSET S, s # {}
               PROVE  /\ AnyOf(s) \in s
                      /\ Cardinality(s \ {AnyOf(s)}) = Cardinality(s) - 1
    OBVIOUS
  <2>1. AnyOf(s) \in s
    BY DEF AnyOf
  <2> QED BY <1>1, <2>1, FS_RemoveElement
<1>3. \A s \in SUBSET S : Cardinality(s) = 0 => s = {}
  BY <1>1, FS_EmptySet
<1>4. 0 \in N
  <2> DEFINE g == [ s \in SUBSET S |-> 0 ]
  <2>1. g \in [ SUBSET S -> Int ]
    OBVIOUS
  <2>2. \A s \in SUBSET S : Cardinality(s) <= 0 => g[s] = Step(g, s)
    BY <1>1, <1>3
  <2> HIDE DEF g
  <2> QED BY <2>1, <2>2
<1>5. ASSUME NEW n \in Nat, n \in N PROVE n + 1 \in N
  <2>1. PICK g \in [ SUBSET S -> Int ] :
          \A s \in SUBSET S : Cardinality(s) <= n => g[s] = Step(g, s)
    BY <1>5
  <2> DEFINE h == [ s \in SUBSET S |->
                      IF Cardinality(s) = n + 1 THEN Step(g, s) ELSE g[s] ]
  <2>2. \A s \in SUBSET S : Step(g, s) \in Int
    <3> SUFFICES ASSUME NEW s \in SUBSET S, s # {}
                 PROVE  f[AnyOf(s)] + g[s \ {AnyOf(s)}] \in Int
      OBVIOUS
    <3>1. f[AnyOf(s)] \in Int /\ g[s \ {AnyOf(s)}] \in Int
      BY <1>2
    <3> QED BY <3>1
  <2>3. h \in [ SUBSET S -> Int ]
    BY <2>2
  <2>4. ASSUME NEW s \in SUBSET S, Cardinality(s) <= n + 1 PROVE h[s] = Step(h, s)
    <3>1. CASE s = {}
      <4>1. Cardinality(s) = 0
        BY <3>1, FS_EmptySet
      <4>2. h[s] = g[s] /\ g[s] = 0
        BY <2>1, <3>1, <4>1
      <4> QED BY <3>1, <4>2
    <3>2. CASE s # {}
      <4> DEFINE r == s \ {AnyOf(s)}
      <4>1. Cardinality(s) \in Nat /\ Cardinality(r) = Cardinality(s) - 1 /\ r \in SUBSET S
        BY <1>1, <1>2, <3>2
      <4>2. Cardinality(r) # n + 1
        BY <2>4, <4>1
      <4>3. h[r] = g[r]
        BY <4>1, <4>2
      <4>4. h[s] = Step(g, s)
        <5>1. CASE Cardinality(s) = n + 1
          BY <5>1
        <5>2. CASE Cardinality(s) # n + 1
          BY <2>1, <2>4, <4>1, <5>2
        <5> QED BY <5>1, <5>2
      <4> QED BY <3>2, <4>3, <4>4
    <3> QED BY <3>1, <3>2
  <2> HIDE DEF h
  <2> QED BY <2>3, <2>4
<1>6. Cardinality(S) \in N
  <2> HIDE DEF N
  <2>1. \A n \in Nat : n \in N
    BY <1>4, <1>5, SetInduction
  <2> QED BY <1>1, <2>1
<1>7. PICK g \in [ SUBSET S -> Int ] :
        \A s \in SUBSET S : Cardinality(s) <= Cardinality(S) => g[s] = Step(g, s)
  BY <1>6
<1>8. \A s \in SUBSET S : Cardinality(s) <= Cardinality(S)
  BY FS_Subset
<1>9. g = [ s \in SUBSET S |-> g[s] ]
  OBVIOUS
<1>10. g = [ s \in SUBSET S |-> Step(g, s) ]
  BY <1>7, <1>8, <1>9
<1> QED BY <1>10 DEF IsSum, Adds

\* Any element may be taken first.
TakesAny(f, S, g) == \A s \in SUBSET S : \A x \in s : g[s] = f[x] + g[s \ {x}]

(* The order in which the elements are taken does not matter.              *)
LEMMA SumTakesAny ==
    ASSUME NEW S, IsFiniteSet(S), NEW f, NEW g, Adds(f, S, g)
    PROVE  TakesAny(f, S, g)
<1> USE DEF Adds
<1> DEFINE N == { n \in Nat : \A s \in SUBSET S :
                    Cardinality(s) = n => \A x \in s : g[s] = f[x] + g[s \ {x}] }
<1>1. \A s \in SUBSET S : IsFiniteSet(s) /\ Cardinality(s) \in Nat
  BY FS_Subset, FS_CardinalityType
<1>2. \A s \in SUBSET S : \A x \in s : Cardinality(s \ {x}) = Cardinality(s) - 1
  BY <1>1, FS_RemoveElement
<1>3. 0 \in N
  BY <1>1, FS_EmptySet
<1>4. ASSUME NEW n \in Nat, n \in N PROVE n + 1 \in N
  <2> SUFFICES ASSUME NEW s \in SUBSET S, Cardinality(s) = n + 1, NEW x \in s
               PROVE  g[s] = f[x] + g[s \ {x}]
    OBVIOUS
  <2> DEFINE p == AnyOf(s)
  <2>1. p \in s
    BY DEF AnyOf
  <2>2. g[s] = f[p] + g[s \ {p}]
    BY DEF IsSum
  <2> HIDE DEF p
  <2>3. CASE p = x
    BY <2>2, <2>3
  <2>4. CASE p # x
    <3>1. /\ x \in s \ {p} /\ p \in s \ {x} /\ (s \ {p}) \ {x} = (s \ {x}) \ {p}
          /\ s \ {p} \in SUBSET S /\ s \ {x} \in SUBSET S
      BY <2>1, <2>4
    <3>2. Cardinality(s \ {p}) = n /\ Cardinality(s \ {x}) = n
      <4>1. /\ Cardinality(s \ {p}) = Cardinality(s) - 1
            /\ Cardinality(s \ {x}) = Cardinality(s) - 1
        BY <1>2, <2>1
      <4> QED BY <4>1
    <3>3. g[s \ {p}] = f[x] + g[(s \ {p}) \ {x}]
      BY <1>4, <3>1, <3>2
    <3>4. g[s \ {x}] = f[p] + g[(s \ {p}) \ {x}]
      BY <1>4, <3>1, <3>2
    <3> DEFINE a == f[p]
               b == f[x]
               c == g[(s \ {p}) \ {x}]
    <3>5. a \in Int /\ b \in Int /\ c \in Int
      BY <2>1, <3>1
    <3>6. g[s] = a + (b + c) /\ g[s \ {x}] = a + c
      BY <2>2, <3>3, <3>4
    <3> HIDE DEF a, b, c
    <3>7. g[s] = b + g[s \ {x}]
      BY <3>5, <3>6
    <3> QED BY <3>7 DEF b
  <2> QED BY <2>3, <2>4
<1> HIDE DEF N
<1>5. \A n \in Nat : n \in N
  BY <1>3, <1>4, SetInduction
<1> QED BY <1>1, <1>5 DEF N, TakesAny

(* The same function gives the sums over all subsets.                      *)
LEMMA SumOfPart ==
    ASSUME NEW S, IsFiniteSet(S), NEW f, NEW g, Adds(f, S, g), NEW T \in SUBSET S
    PROVE  SumFunction([ x \in T |-> f[x] ]) = g[T]
<1> USE DEF Adds
<1> DEFINE e == [ x \in T |-> f[x] ]
           h == CHOOSE h : IsSum(e, T, h)
<1>1. IsFiniteSet(T) /\ e \in [ T -> Int ] /\ DOMAIN e = T /\ \A x \in T : e[x] = f[x]
  BY FS_Subset
<1> HIDE DEF e
<1>2. \E d : IsSum(e, T, d)
  BY <1>1, SumExists
<1>3. IsSum(e, T, h)
  BY <1>2
<1>4. SumFunction(e) = h[T]
  BY <1>1, SumIsRecursive
<1> HIDE DEF h
<1> DEFINE N == { n \in Nat : \A s \in SUBSET T : Cardinality(s) = n => h[s] = g[s] }
<1>5. \A s \in SUBSET T : IsFiniteSet(s) /\ Cardinality(s) \in Nat
  BY <1>1, FS_Subset, FS_CardinalityType
<1>6. h[{}] = 0 /\ g[{}] = 0
  BY <1>3 DEF IsSum
<1>7. 0 \in N
  BY <1>5, <1>6, FS_EmptySet
<1>8. ASSUME NEW n \in Nat, n \in N PROVE n + 1 \in N
  <2> SUFFICES ASSUME NEW s \in SUBSET T, Cardinality(s) = n + 1 PROVE h[s] = g[s]
    OBVIOUS
  <2>1. s # {}
    BY <1>5, FS_EmptySet
  <2> DEFINE x == AnyOf(s)
             r == s \ {x}
  <2>2. x \in s
    BY <2>1 DEF AnyOf
  <2>3. Cardinality(r) = n
    <3>1. Cardinality(r) = Cardinality(s) - 1
      BY <1>5, <2>2, FS_RemoveElement
    <3> QED BY <3>1
  <2>4. h[s] = e[x] + h[r]
    BY <1>3, <2>1 DEF IsSum
  <2>5. g[s] = f[x] + g[r]
    BY <2>1 DEF IsSum
  <2>6. e[x] = f[x]
    BY <1>1, <2>2
  <2>7. h[r] = g[r]
    BY <1>8, <2>3
  <2> QED BY <2>4, <2>5, <2>6, <2>7
<1> HIDE DEF N
<1>9. \A n \in Nat : n \in N
  BY <1>7, <1>8, SetInduction
<1>10. h[T] = g[T]
  BY <1>5, <1>9 DEF N
<1> QED BY <1>4, <1>10 DEF e

\* Any element of S may be split off.
Splits(f, S) == \A x \in S : SumFunction(f) =
                                f[x] + SumFunction([ y \in S \ {x} |-> f[y] ])

(* What a sum is: nothing without elements, otherwise any element and the  *)
(* sum of the others.                                                      *)
LEMMA SumFacts ==
    ASSUME NEW S, IsFiniteSet(S), NEW f \in [ S -> Int ]
    PROVE  /\ SumFunction(f) \in Int
           /\ S = {} => SumFunction(f) = 0
           /\ Splits(f, S)
<1>1. PICK g : Adds(f, S, g)
  BY SumExists
<1>2. \A T \in SUBSET S : SumFunction([ x \in T |-> f[x] ]) = g[T]
  BY <1>1, SumOfPart
<1>3. f = [ x \in S |-> f[x] ] /\ S \in SUBSET S
  OBVIOUS
<1>4. SumFunction(f) = g[S] /\ g[S] \in Int
  BY <1>1, <1>2, <1>3 DEF Adds
<1>5. S = {} => g[S] = 0
  BY <1>1 DEF IsSum, Adds
<1>6. TakesAny(f, S, g)
  BY <1>1, SumTakesAny
<1>7. \A x \in S : SumFunction([ y \in S \ {x} |-> f[y] ]) = g[S \ {x}]
  BY <1>2
<1> QED BY <1>3, <1>4, <1>5, <1>6, <1>7 DEF TakesAny, Splits

IntMap(f, S) == f \in [ S -> Int ]

\* h is f but for d more at x.
More(S, f, h, x, d) == /\ h \in [ S -> Int ] /\ h[x] = f[x] + d
                       /\ \A y \in S : y # x => h[y] = f[y]

SumIsMore(f, h, d) == SumFunction(h) = SumFunction(f) + d

(* A change of one element changes the sum by as much.                     *)
LEMMA SumChange ==
    ASSUME NEW S, IsFiniteSet(S), NEW f, IntMap(f, S), NEW x \in S, NEW d \in Int,
           NEW h, More(S, f, h, x, d)
    PROVE  SumIsMore(f, h, d)
<1> DEFINE r == [ y \in S \ {x} |-> f[y] ]
<1>1. /\ f \in [ S -> Int ] /\ h \in [ S -> Int ]
      /\ h[x] = f[x] + d /\ f[x] \in Int
  BY DEF More, IntMap
<1>2. [ y \in S \ {x} |-> h[y] ] = r
  BY DEF More
<1>3. IsFiniteSet(S \ {x}) /\ r \in [ S \ {x} -> Int ]
  BY <1>1, FS_Subset
<1> HIDE DEF r
<1>4. SumFunction(r) \in Int
  BY <1>3, SumFacts
<1>5. SumFunction(f) = f[x] + SumFunction(r)
  <2>1. Splits(f, S)
    BY <1>1, SumFacts
  <2> QED BY <2>1 DEF Splits, r
<1>6. SumFunction(h) = h[x] + SumFunction([ y \in S \ {x} |-> h[y] ])
  <2>1. Splits(h, S)
    BY <1>1, SumFacts
  <2> QED BY <2>1 DEF Splits
<1>7. SumFunction(h) = SumFunction(f) + d
  BY <1>1, <1>2, <1>4, <1>5, <1>6
<1> QED BY <1>7 DEF SumIsMore

\* f is e, and 0 for the elements of T that are not in S.
Padded(S, T, e, f) == /\ \A x \in S : f[x] = e[x]
                      /\ \A x \in T \ S : f[x] = 0

(* More elements with the value 0 change nothing.                          *)
LEMMA SumExtends ==
    ASSUME NEW T, IsFiniteSet(T), NEW S \in SUBSET T, NEW f, IntMap(f, T),
           NEW e, IntMap(e, S), Padded(S, T, e, f)
    PROVE  SumFunction(f) = SumFunction(e)
<1> USE DEF IntMap, Padded
<1> DEFINE R == T \ S
           On(U) == SumFunction([ x \in S \cup U |-> f[x] ])
           Z == { U \in SUBSET R : On(U) = On({}) }
<1>1. IsFiniteSet(R)
  BY FS_Subset
<1>2. {} \in Z
  OBVIOUS
<1>3. ASSUME NEW U \in SUBSET R, NEW x \in R \ U, U \in Z
      PROVE  U \cup {x} \in Z
  <2> DEFINE V == S \cup (U \cup {x})
             r == [ y \in V |-> f[y] ]
  <2>1. V \in SUBSET T /\ x \in V /\ V \ {x} = S \cup U /\ r \in [ V -> Int ] /\ r[x] = 0
    OBVIOUS
  <2>2. IsFiniteSet(V) /\ IsFiniteSet(S \cup U)
    BY <2>1, FS_Subset
  <2>3. [ y \in V \ {x} |-> r[y] ] = [ y \in S \cup U |-> f[y] ]
    BY <2>1
  <2>4. On(U \cup {x}) = SumFunction(r)
    OBVIOUS
  <2>5. [ y \in S \cup U |-> f[y] ] \in [ S \cup U -> Int ]
    BY <2>1
  <2> HIDE DEF V, r
  <2>6. On(U) \in Int
    <3> DEFINE b == [ y \in S \cup U |-> f[y] ]
    <3> HIDE DEF b
    <3>1. SumFunction(b) \in Int
      BY <2>2, <2>5, SumFacts DEF b
    <3> QED BY <3>1 DEF b
  <2>7. SumFunction(r) = r[x] + SumFunction([ y \in V \ {x} |-> r[y] ])
    <3>1. Splits(r, V)
      BY <2>1, <2>2, SumFacts
    <3> QED BY <2>1, <3>1 DEF Splits
  <2>8. SumFunction(r) = On(U)
    BY <2>1, <2>3, <2>6, <2>7
  <2> QED BY <1>3, <2>4, <2>8
<1>4. S \cup R = T /\ S \cup {} = S /\ f = [ x \in T |-> f[x] ]
      /\ e = [ x \in S |-> f[x] ]
  OBVIOUS
<1>5. On(R) = SumFunction(f) /\ On({}) = SumFunction(e)
  BY <1>4
<1> HIDE DEF Z
<1>6. R \in Z
  <2> HIDE DEF R
  <2> QED BY <1>1, <1>2, <1>3, OneByOne
<1> HIDE DEF R, On
<1> QED BY <1>5, <1>6 DEF Z

----------------------------------------------------------------------------
(* The tree of accounts.                                                   *)

\* The children of k among the keys K: Children(m, k) with K for DOMAIN m.
Kids(K, k) == { c \in K : Len(c) > 1 /\ Front(c) = k }

(* A child's key is longer than its parent's.                              *)
LEMMA ChildIsLonger ==
    ASSUME NEW c \in Keys, Len(c) > 1
    PROVE  /\ Front(c) \in Keys /\ Front(c) # c
           /\ Len(c) \in Nat /\ Len(Front(c)) \in Nat
           /\ Len(c) > Len(Front(c))
<1>1. c \in Seq(STRING) /\ Front(c) \in Keys
  BY KeysAssumption
<1>2. Len(c) \in Nat /\ Len(Front(c)) = Len(c) - 1
  BY <1>1 DEF Front
<1>3. Len(Front(c)) \in Nat /\ Len(c) > Len(Front(c))
  BY <1>2
<1> QED BY <1>1, <1>2, <1>3, ParentIsAncestor

(* A finite set of keys has a longest one.                                 *)
LEMMA LongestKey ==
    ASSUME NEW K \in SUBSET Keys, IsFiniteSet(K), K # {}
    PROVE  \E k \in K : \A c \in K : Len(c) <= Len(k)
<1> DEFINE Longest(T) == \E k \in T : \A c \in T : Len(c) <= Len(k)
           Z == { T \in SUBSET K : T = {} \/ Longest(T) }
<1>1. \A k \in K : Len(k) \in Nat
  BY KeysAssumption
<1>2. ASSUME NEW T \in SUBSET K, NEW x \in K \ T, T \in Z
      PROVE  T \cup {x} \in Z
  <2>1. CASE T = {}
    BY <1>1, <2>1
  <2>2. CASE T # {}
    <3>1. PICK k \in T : \A c \in T : Len(c) <= Len(k)
      BY <1>2, <2>2
    <3>2. CASE Len(x) <= Len(k)
      BY <3>1, <3>2
    <3>3. CASE ~(Len(x) <= Len(k))
      <4>1. \A c \in T : Len(c) <= Len(x)
        BY <1>1, <3>1, <3>3
      <4>2. Len(x) <= Len(x)
        BY <1>1
      <4> QED BY <4>1, <4>2
    <3> QED BY <3>2, <3>3
  <2> QED BY <2>1, <2>2
<1>3. {} \in Z
  OBVIOUS
<1> HIDE DEF Z
<1>4. K \in Z
  BY <1>2, <1>3, OneByOne
<1> QED BY <1>4 DEF Z

(* What holds of a key when it holds of its children holds of all.         *)
LEMMA FromTheLeaves ==
    ASSUME NEW K \in SUBSET Keys, IsFiniteSet(K), NEW S,
           \A k \in K : Kids(K, k) \subseteq S => k \in S
    PROVE  K \subseteq S
<1> DEFINE B == K \ S
<1> SUFFICES ASSUME B # {} PROVE FALSE
  OBVIOUS
<1>1. IsFiniteSet(B) /\ B \in SUBSET Keys
  BY FS_Subset
<1>2. PICK k \in B : \A c \in B : Len(c) <= Len(k)
  BY <1>1, LongestKey
<1>3. ASSUME NEW c \in Kids(K, k) PROVE c \in S
  <2>1. c \in K /\ Len(c) > 1 /\ Front(c) = k
    BY DEF Kids
  <2>2. Len(c) > Len(k) /\ Len(c) \in Nat /\ Len(k) \in Nat
    BY <2>1, ChildIsLonger
  <2>3. ~(Len(c) <= Len(k))
    BY <2>2
  <2> QED BY <1>2, <2>1, <2>3
<1> QED BY <1>2, <1>3

\* Every x[k] is the sum of y over the children of k.
Level(K, x, y) ==
    \A k \in K : x[k] = SumFunction([ c \in Kids(K, k) |-> y[c] ])

(* Only what the children have matters.                                    *)
LEMMA LevelSame ==
    ASSUME NEW K, NEW x, NEW y, NEW x2, NEW y2, Level(K, x, y),
           \A k \in K : x2[k] = x[k],
           \A k \in K : Len(k) > 1 => y2[k] = y[k]
    PROVE  Level(K, x2, y2)
<1> SUFFICES ASSUME NEW k \in K
             PROVE  x2[k] = SumFunction([ c \in Kids(K, k) |-> y2[c] ])
  BY DEF Level
<1>1. [ c \in Kids(K, k) |-> y2[c] ] = [ c \in Kids(K, k) |-> y[c] ]
  BY DEF Kids
<1> QED BY <1>1 DEF Level

(* As much more in an account as in one of its children.                   *)
LEMMA LevelMove ==
    ASSUME NEW K, IsFiniteSet(K), NEW x \in [ K -> Int ], NEW y \in [ K -> Int ],
           Level(K, x, y), NEW p \in K, NEW k \in Kids(K, p), NEW d \in Int,
           NEW x2, NEW y2, More(K, x, x2, p, d), More(K, y, y2, k, d)
    PROVE  Level(K, x2, y2)
<1> SUFFICES ASSUME NEW j \in K
             PROVE  x2[j] = SumFunction([ c \in Kids(K, j) |-> y2[c] ])
  BY DEF Level
<1> DEFINE f == [ c \in Kids(K, j) |-> y[c] ]
           h == [ c \in Kids(K, j) |-> y2[c] ]
<1>1. x[j] = SumFunction(f)
  BY DEF Level
<1>2. Kids(K, j) \subseteq K /\ IsFiniteSet(Kids(K, j))
  BY FS_Subset DEF Kids
<1>3. f \in [ Kids(K, j) -> Int ]
  BY <1>2
<1>4. CASE j = p
  <2> DEFINE S == Kids(K, j)
  <2>1. More(S, f, h, k, d) /\ k \in S
    BY <1>2, <1>4 DEF More
  <2>2. SumIsMore(f, h, d)
    <3>1. IsFiniteSet(S) /\ IntMap(f, S)
      BY <1>2, <1>3 DEF IntMap
    <3> HIDE DEF S, f, h
    <3> QED BY <2>1, <3>1, SumChange
  <2>3. x2[j] = x[j] + d
    BY <1>4 DEF More
  <2> HIDE DEF f, h
  <2>4. x2[j] = SumFunction(h)
    BY <1>1, <2>2, <2>3 DEF SumIsMore
  <2> QED BY <2>4 DEF h
<1>5. CASE j # p
  <2>1. k \notin Kids(K, j)
    BY <1>5 DEF Kids
  <2>2. h = f
    BY <1>2, <2>1 DEF More
  <2>3. x2[j] = x[j]
    BY <1>5 DEF More
  <2> QED BY <1>1, <2>2, <2>3
<1> QED BY <1>4, <1>5

(* New accounts with nothing in them, none of them above an old one.       *)
LEMMA LevelGrows ==
    ASSUME NEW K, NEW L, IsFiniteSet(L), K \subseteq L,
           \A c \in K : Len(c) > 1 => Front(c) \in K,
           NEW x, NEW y, Level(K, x, y), NEW x2 \in [ L -> Int ], NEW y2 \in [ L -> Int ],
           Padded(K, L, x, x2), Padded(K, L, y, y2)
    PROVE  Level(L, x2, y2)
<1> USE DEF Padded
<1> SUFFICES ASSUME NEW j \in L
             PROVE  x2[j] = SumFunction([ c \in Kids(L, j) |-> y2[c] ])
  BY DEF Level
<1> DEFINE S == Kids(K, j)
           T == Kids(L, j)
           e == [ c \in S |-> y[c] ]
           h == [ c \in T |-> y2[c] ]
<1>1. /\ T \subseteq L /\ IsFiniteSet(T)
      /\ S \subseteq T /\ IsFiniteSet(S)
  <2>1. T \subseteq L /\ S \subseteq L /\ S \subseteq T
    BY DEF Kids
  <2> HIDE DEF S, T
  <2> QED BY <2>1, FS_Subset
<1>2. h \in [ T -> Int ] /\ e \in [ S -> Int ]
  <2>1. \A c \in S : y[c] = y2[c] /\ c \in L
    BY DEF Kids
  <2> QED BY <1>1, <2>1
<1>3. Padded(S, T, e, h)
  BY <1>1 DEF Kids
<1>4. SumFunction(h) = SumFunction(e)
  <2> HIDE DEF S, T, e, h, Padded
  <2> QED BY <1>1, <1>2, <1>3, SumExtends DEF IntMap
<1>5. CASE j \in K
  BY <1>4, <1>5 DEF Level
<1>6. CASE j \notin K
  <2>1. S = {}
    BY <1>6 DEF Kids
  <2> HIDE DEF S, T, e, h
  <2>2. SumFunction(e) = 0
    BY <1>1, <1>2, <2>1, SumFacts
  <2> QED BY <1>4, <1>6, <2>2 DEF h, T
<1> QED BY <1>5, <1>6

----------------------------------------------------------------------------
(* The recursive functions of the consistency check on a tree of accounts. *)

\* in and out are what each account exchanged with its parent, and nothing
\* passes above the top.
Cancels(m, in, out) ==
    /\ in \in [ DOMAIN m -> Int ] /\ out \in [ DOMAIN m -> Int ]
    /\ Level(DOMAIN m, [ k \in DOMAIN m |-> m[k].recycledIn - in[k] ], out)
    /\ Level(DOMAIN m, [ k \in DOMAIN m |-> m[k].recycledOut - out[k] ], in)
    /\ \A k \in DOMAIN m : Len(k) = 1 => in[k] = 0 /\ out[k] = 0

BudgetsAgree(m) == Level(DOMAIN m, [ k \in DOMAIN m |-> m[k].allocatedOut ],
                                   [ k \in DOMAIN m |-> m[k].budgetIncreases ])

\* The inductive form of consistency.
Conserved(m) == /\ IsFiniteSet(DOMAIN m)
                /\ BudgetsAgree(m)
                /\ \E in, out : Cancels(m, in, out)

(* The budgets of such a tree are consistent at every account.             *)
LEMMA ConservedBudgets ==
    ASSUME NEW m, IsAccountMap(m), Conserved(m)
    PROVE  \A k \in DOMAIN m : checkBudgetConsistency(m)[k]
<1> DEFINE K == DOMAIN m
           Agrees(k) == m[k].allocatedOut =
                        SumFunction([ c \in Children(m, k) |-> m[c].budgetIncreases ])
           Recursive(f) == f = [ k \in K |-> /\ Agrees(k)
                                             /\ \A c \in Children(m, k) : f[c] ]
           w == CHOOSE f : Recursive(f)
           S == { k \in K : w[k] }
<1>1. \A k \in K : Agrees(k)
  <2> SUFFICES ASSUME NEW k \in K PROVE Agrees(k)
    OBVIOUS
  <2>1. Children(m, k) = Kids(K, k) /\ Kids(K, k) \subseteq K
    BY DEF Children, Kids
  <2>2. [ c \in Kids(K, k) |-> [ j \in K |-> m[j].budgetIncreases ][c] ]
          = [ c \in Children(m, k) |-> m[c].budgetIncreases ]
    BY <2>1
  <2> QED BY <2>2 DEF Conserved, BudgetsAgree, Level
<1>2. checkBudgetConsistency(m) = w
  BY DEF checkBudgetConsistency
<1>3. \E f : Recursive(f)
  <2> DEFINE t == [ k \in K |-> TRUE ]
  <2>1. \A k \in K : \A c \in Children(m, k) : t[c]
    BY DEF Children
  <2>2. t = [ k \in K |-> Agrees(k) /\ \A c \in Children(m, k) : t[c] ]
    <3> HIDE DEF Agrees
    <3> QED BY <1>1, <2>1
  <2> QED BY <2>2
<1>4. Recursive(w)
  <2> HIDE DEF Recursive
  <2> QED BY <1>3
<1>5. \A k \in K : w[k] = (Agrees(k) /\ \A c \in Children(m, k) : w[c])
  <2> HIDE DEF w, Agrees
  <2> QED BY <1>4
<1> HIDE DEF w, Agrees
<1>6. ASSUME NEW k \in K, Kids(K, k) \subseteq S PROVE k \in S
  <2>1. \A c \in Children(m, k) : w[c]
    BY <1>6 DEF Children, Kids
  <2> QED BY <1>1, <1>5, <2>1
<1>7. K \in SUBSET Keys /\ IsFiniteSet(K)
  BY DEF IsAccountMap, Conserved
<1>8. K \subseteq S
  <2> HIDE DEF K, S
  <2> QED BY <1>6, <1>7, FromTheLeaves
<1> QED BY <1>2, <1>8

(* Its recycled amounts are what Cancels says.                             *)
LEMMA ConservedRecycled ==
    ASSUME NEW m, IsAccountMap(m), IsFiniteSet(DOMAIN m), NEW in, NEW out,
           Cancels(m, in, out)
    PROVE  \A k \in DOMAIN m : getRecycledUp(m)[k] = [ in |-> in[k], out |-> out[k] ]
<1> DEFINE K == DOMAIN m
           Up(f, k) == [ in  |-> m[k].recycledIn
                                 - SumFunction([ c \in Children(m, k) |-> f[c].out ]),
                         out |-> m[k].recycledOut
                                 - SumFunction([ c \in Children(m, k) |-> f[c].in ]) ]
           Recursive(f) == f = [ k \in K |-> Up(f, k) ]
           w == CHOOSE f : Recursive(f)
           u == [ k \in K |-> [ in |-> in[k], out |-> out[k] ] ]
           S == { k \in K : w[k] = u[k] }
<1>1. \A k \in K : Up(u, k) = u[k]
  <2> SUFFICES ASSUME NEW k \in K PROVE Up(u, k) = u[k]
    OBVIOUS
  <2>1. Children(m, k) = Kids(K, k) /\ Kids(K, k) \subseteq K
    BY DEF Children, Kids
  <2>2. /\ [ c \in Children(m, k) |-> u[c].out ] = [ c \in Kids(K, k) |-> out[c] ]
        /\ [ c \in Children(m, k) |-> u[c].in ] = [ c \in Kids(K, k) |-> in[c] ]
    BY <2>1
  <2> DEFINE si == SumFunction([ c \in Kids(K, k) |-> in[c] ])
             so == SumFunction([ c \in Kids(K, k) |-> out[c] ])
  <2>3. /\ m[k].recycledIn - in[k] = so /\ m[k].recycledOut - out[k] = si
    BY DEF Cancels, Level
  <2>4. /\ in[k] \in Int /\ out[k] \in Int
        /\ m[k].recycledIn \in Int /\ m[k].recycledOut \in Int
    BY MapElement DEF Cancels, AccountRecord
  <2>5. Up(u, k) = [ in |-> m[k].recycledIn - so, out |-> m[k].recycledOut - si ]
    BY <2>2
  <2> HIDE DEF si, so, Up
  <2>6. m[k].recycledIn - so = in[k] /\ m[k].recycledOut - si = out[k]
    BY <2>3, <2>4
  <2> QED BY <2>5, <2>6
<1>2. getRecycledUp(m) = w
  BY DEF getRecycledUp
<1>3. u = [ k \in K |-> u[k] ]
  OBVIOUS
<1>4. Recursive(u)
  <2> HIDE DEF u, Up
  <2> QED BY <1>1, <1>3
<1>5. Recursive(w)
  <2> HIDE DEF Recursive
  <2> QED BY <1>4
<1>6. \A k \in K : w[k] = Up(w, k)
  <2> HIDE DEF w, Up
  <2> QED BY <1>5
<1>7. ASSUME NEW k \in K, Kids(K, k) \subseteq S PROVE k \in S
  <2> HIDE DEF w, u
  <2>1. \A c \in Children(m, k) : w[c] = u[c]
    BY <1>7 DEF Children, Kids
  <2>2. /\ [ c \in Children(m, k) |-> w[c].out ] = [ c \in Children(m, k) |-> u[c].out ]
        /\ [ c \in Children(m, k) |-> w[c].in ] = [ c \in Children(m, k) |-> u[c].in ]
    BY <2>1
  <2>3. Up(w, k) = Up(u, k)
    BY <2>2
  <2> HIDE DEF Up
  <2> QED BY <1>1, <1>6, <2>3
<1>8. K \in SUBSET Keys /\ IsFiniteSet(K)
  BY DEF IsAccountMap
<1> HIDE DEF w
<1>9. K \subseteq S
  <2> HIDE DEF K, S
  <2> QED BY <1>7, <1>8, FromTheLeaves
<1> QED BY <1>2, <1>9

(* So the check finds nothing to complain about.                           *)
LEMMA ConservedIsConsistent ==
    ASSUME NEW m, IsAccountMap(m), Conserved(m)
    PROVE  ensureInterAccountConsistency(m)
<1>1. PICK in, out : Cancels(m, in, out)
  BY DEF Conserved
<1>2. \A k \in DOMAIN m : getRecycledUp(m)[k] = [ in |-> in[k], out |-> out[k] ]
  BY <1>1, ConservedRecycled DEF Conserved
<1>3. \A k \in DOMAIN m : Len(k) = 1 => in[k] = 0 /\ out[k] = 0
  BY <1>1 DEF Cancels
<1> QED
  BY <1>2, <1>3, ConservedBudgets DEF ensureInterAccountConsistency

----------------------------------------------------------------------------
(* What keeps a tree of accounts conserved.                                *)

\* n has the accounts of m, and nothing moved between them.
NothingMoved(m, n) ==
    /\ DOMAIN n = DOMAIN m
    /\ \A k \in DOMAIN m : /\ n[k].allocatedOut = m[k].allocatedOut
                           /\ n[k].recycledIn = m[k].recycledIn
                           /\ n[k].recycledOut = m[k].recycledOut
                           /\ Len(k) > 1 =>
                                n[k].budgetIncreases = m[k].budgetIncreases

(* A budget given at the top, a shadow's report, an adjustment or a change *)
(* of status moves nothing between accounts.                               *)
LEMMA ConservedSame ==
    ASSUME NEW m, NEW n, Conserved(m), NothingMoved(m, n)
    PROVE  Conserved(n)
<1> DEFINE K == DOMAIN m
<1>1. BudgetsAgree(n)
  <2> DEFINE x == [ k \in K |-> m[k].allocatedOut ]
             y == [ k \in K |-> m[k].budgetIncreases ]
             x2 == [ k \in K |-> n[k].allocatedOut ]
             y2 == [ k \in K |-> n[k].budgetIncreases ]
  <2>1. \A k \in K : x2[k] = x[k] /\ (Len(k) > 1 => y2[k] = y[k])
    BY DEF NothingMoved
  <2>2. Level(K, x, y)
    BY DEF Conserved, BudgetsAgree
  <2> HIDE DEF x, y, x2, y2
  <2>3. Level(K, x2, y2)
    BY <2>1, <2>2, LevelSame
  <2> QED BY <2>3 DEF BudgetsAgree, NothingMoved, x2, y2
<1>2. PICK in, out : Cancels(m, in, out)
  BY DEF Conserved
<1>3. /\ [ k \in DOMAIN n |-> n[k].recycledIn - in[k] ]
           = [ k \in DOMAIN m |-> m[k].recycledIn - in[k] ]
      /\ [ k \in DOMAIN n |-> n[k].recycledOut - out[k] ]
           = [ k \in DOMAIN m |-> m[k].recycledOut - out[k] ]
      /\ DOMAIN n = DOMAIN m
  BY DEF NothingMoved
<1>4. Cancels(n, in, out)
  BY <1>2, <1>3 DEF Cancels
<1> QED BY <1>1, <1>3, <1>4 DEF Conserved

\* k got fr of what its parent p had recycled and fb of its budget, and gave
\* back tr.
Exchanged(m, n, k, p, fr, fb, tr) ==
    /\ DOMAIN n = DOMAIN m
    /\ \A j \in DOMAIN m \ {k, p} : n[j] = m[j]
    /\ n[k].allocatedOut = m[k].allocatedOut
    /\ n[k].budgetIncreases = m[k].budgetIncreases + fb
    /\ n[k].recycledIn = m[k].recycledIn + fr
    /\ n[k].recycledOut = m[k].recycledOut + tr
    /\ n[p].allocatedOut = m[p].allocatedOut + fb
    /\ n[p].budgetIncreases = m[p].budgetIncreases
    /\ n[p].recycledIn = m[p].recycledIn + tr
    /\ n[p].recycledOut = m[p].recycledOut + fr

(* An account and its parent exchange money: setBalance and recuperateTo.  *)
LEMMA ConservedExchange ==
    ASSUME NEW m, NEW n, IsAccountMap(m), IsAccountMap(n), Conserved(m),
           NEW k \in DOMAIN m, Len(k) > 1, NEW p \in DOMAIN m, p = Front(k),
           NEW fr \in Int, NEW fb \in Int, NEW tr \in Int,
           Exchanged(m, n, k, p, fr, fb, tr)
    PROVE  Conserved(n)
<1> DEFINE K == DOMAIN m
<1>1. k # p /\ k \in Kids(K, p) /\ DOMAIN n = K /\ IsFiniteSet(K)
  BY MapElement, ChildIsLonger DEF Kids, Conserved, Exchanged
<1>2. \A j \in K : /\ m[j].allocatedOut \in Int /\ m[j].budgetIncreases \in Int
                   /\ m[j].recycledIn \in Int /\ m[j].recycledOut \in Int
                   /\ n[j].allocatedOut \in Int /\ n[j].budgetIncreases \in Int
                   /\ n[j].recycledIn \in Int /\ n[j].recycledOut \in Int
  <2>1. \A j \in K : m[j] \in AccountRecord /\ n[j] \in AccountRecord
    BY <1>1, MapElement
  <2> QED BY <2>1 DEF AccountRecord
<1>3. BudgetsAgree(n)
  <2> DEFINE x == [ j \in K |-> m[j].allocatedOut ]
             y == [ j \in K |-> m[j].budgetIncreases ]
             x2 == [ j \in K |-> n[j].allocatedOut ]
             y2 == [ j \in K |-> n[j].budgetIncreases ]
  <2>1. More(K, x, x2, p, fb)
    BY <1>1, <1>2 DEF Exchanged, More
  <2>2. More(K, y, y2, k, fb)
    BY <1>1, <1>2 DEF Exchanged, More
  <2>3. Level(K, x, y) /\ x \in [ K -> Int ] /\ y \in [ K -> Int ]
    BY <1>2 DEF Conserved, BudgetsAgree
  <2> HIDE DEF x, y, x2, y2, K
  <2>4. Level(K, x2, y2)
    BY <1>1, <2>1, <2>2, <2>3, LevelMove DEF K
  <2> QED BY <1>1, <2>4 DEF BudgetsAgree, x2, y2
<1>4. PICK in, out : Cancels(m, in, out)
  BY DEF Conserved
<1> DEFINE in2 == [ in EXCEPT ![k] = in[k] + fr ]
           out2 == [ out EXCEPT ![k] = out[k] + tr ]
<1>5. in \in [ K -> Int ] /\ out \in [ K -> Int ]
  BY <1>4 DEF Cancels
<1>6. /\ More(K, in, in2, k, fr) /\ More(K, out, out2, k, tr)
      /\ in2 \in [ K -> Int ] /\ out2 \in [ K -> Int ]
  BY <1>5 DEF More
<1> HIDE DEF in2, out2
<1>7. Level(K, [ j \in K |-> n[j].recycledIn - in2[j] ], out2)
  <2> DEFINE x == [ j \in K |-> m[j].recycledIn - in[j] ]
             x2 == [ j \in K |-> n[j].recycledIn - in2[j] ]
  <2>1. Level(K, x, out) /\ x \in [ K -> Int ]
    BY <1>2, <1>4, <1>5 DEF Cancels
  <2>2. x2 \in [ K -> Int ]
    BY <1>2, <1>6
  <2>3. x2[p] = x[p] + tr
    <3>1. n[p].recycledIn = m[p].recycledIn + tr /\ in2[p] = in[p]
      BY <1>1, <1>6 DEF Exchanged, More
    <3>2. in[p] \in Int /\ m[p].recycledIn \in Int
      BY <1>2, <1>5
    <3> QED BY <3>1, <3>2
  <2>4. ASSUME NEW j \in K, j # p PROVE x2[j] = x[j]
    <3>1. CASE j = k
      <4>1. n[k].recycledIn = m[k].recycledIn + fr /\ in2[k] = in[k] + fr
        BY <1>6 DEF Exchanged, More
      <4>2. in[k] \in Int /\ m[k].recycledIn \in Int
        BY <1>2, <1>5
      <4> QED BY <3>1, <4>1, <4>2
    <3>2. CASE j # k
      BY <2>4, <3>2, <1>6 DEF Exchanged, More
    <3> QED BY <3>1, <3>2
  <2>5. More(K, x, x2, p, tr)
    <3> HIDE DEF x, x2
    <3> QED BY <2>2, <2>3, <2>4 DEF More
  <2> HIDE DEF x, x2, K
  <2>6. Level(K, x2, out2)
    BY <1>1, <1>5, <1>6, <2>1, <2>5, LevelMove DEF K
  <2> QED BY <2>6 DEF x2
<1>8. Level(K, [ j \in K |-> n[j].recycledOut - out2[j] ], in2)
  <2> DEFINE x == [ j \in K |-> m[j].recycledOut - out[j] ]
             x2 == [ j \in K |-> n[j].recycledOut - out2[j] ]
  <2>1. Level(K, x, in) /\ x \in [ K -> Int ]
    BY <1>2, <1>4, <1>5 DEF Cancels
  <2>2. x2 \in [ K -> Int ]
    BY <1>2, <1>6
  <2>3. x2[p] = x[p] + fr
    <3>1. n[p].recycledOut = m[p].recycledOut + fr /\ out2[p] = out[p]
      BY <1>1, <1>6 DEF Exchanged, More
    <3>2. out[p] \in Int /\ m[p].recycledOut \in Int
      BY <1>2, <1>5
    <3> QED BY <3>1, <3>2
  <2>4. ASSUME NEW j \in K, j # p PROVE x2[j] = x[j]
    <3>1. CASE j = k
      <4>1. n[k].recycledOut = m[k].recycledOut + tr /\ out2[k] = out[k] + tr
        BY <1>6 DEF Exchanged, More
      <4>2. out[k] \in Int /\ m[k].recycledOut \in Int
        BY <1>2, <1>5
      <4> QED BY <3>1, <4>1, <4>2
    <3>2. CASE j # k
      BY <2>4, <3>2, <1>6 DEF Exchanged, More
    <3> QED BY <3>1, <3>2
  <2>5. More(K, x, x2, p, fr)
    <3> HIDE DEF x, x2
    <3> QED BY <2>2, <2>3, <2>4 DEF More
  <2> HIDE DEF x, x2, K
  <2>6. Level(K, x2, in2)
    BY <1>1, <1>5, <1>6, <2>1, <2>5, LevelMove DEF K
  <2> QED BY <2>6 DEF x2
<1>9. \A j \in K : Len(j) = 1 => in2[j] = 0 /\ out2[j] = 0
  <2>1. \A j \in K : Len(j) = 1 => j # k
    <3>1. Len(k) \in Nat /\ Len(k) # 1
      <4>1. k \in Keys
        BY MapElement
      <4>2. Len(k) \in Nat
        BY <4>1, ChildIsLonger
      <4>3. \A i \in Nat : i > 1 => i # 1
        OBVIOUS
      <4> QED BY <4>2, <4>3
    <3> QED BY <3>1
  <2> QED BY <1>4, <1>6, <2>1 DEF Cancels, More
<1>10. Cancels(n, in2, out2)
  BY <1>1, <1>6, <1>7, <1>8, <1>9 DEF Cancels
<1> QED BY <1>1, <1>3, <1>10 DEF Conserved

\* n has the accounts of m and new ones with nothing in them.
OnlyEmptyAdded(m, n) ==
    /\ DOMAIN m \subseteq DOMAIN n /\ IsFiniteSet(DOMAIN n)
    /\ \A k \in DOMAIN m : n[k] = m[k]
    /\ \A k \in DOMAIN n \ DOMAIN m :
          /\ n[k].allocatedOut = 0 /\ n[k].budgetIncreases = 0
          /\ n[k].recycledIn = 0 /\ n[k].recycledOut = 0

(* New accounts appear below accounts that are there.                      *)
LEMMA ConservedGrows ==
    ASSUME NEW m, NEW n, IsAccountMap(m), IsAccountMap(n), Conserved(m),
           \A c \in DOMAIN m : Len(c) > 1 => Front(c) \in DOMAIN m,
           OnlyEmptyAdded(m, n)
    PROVE  Conserved(n)
<1> DEFINE K == DOMAIN m
           L == DOMAIN n
<1>1. /\ IsFiniteSet(L) /\ K \subseteq L
      /\ \A c \in K : Len(c) > 1 => Front(c) \in K
  BY DEF OnlyEmptyAdded
<1>2. /\ \A j \in L : /\ n[j].allocatedOut \in Int /\ n[j].budgetIncreases \in Int
                      /\ n[j].recycledIn \in Int /\ n[j].recycledOut \in Int
      /\ \A j \in K : m[j].recycledIn \in Int /\ m[j].recycledOut \in Int
  <2>1. /\ \A j \in L : n[j] \in AccountRecord
        /\ \A j \in K : m[j] \in AccountRecord
    BY MapElement
  <2> QED BY <2>1 DEF AccountRecord
<1>3. BudgetsAgree(n)
  <2> DEFINE x == [ j \in K |-> m[j].allocatedOut ]
             y == [ j \in K |-> m[j].budgetIncreases ]
             x2 == [ j \in L |-> n[j].allocatedOut ]
             y2 == [ j \in L |-> n[j].budgetIncreases ]
  <2>1. /\ x2 \in [ L -> Int ] /\ y2 \in [ L -> Int ]
    BY <1>2
  <2>2. Padded(K, L, x, x2) /\ Padded(K, L, y, y2)
    BY <1>1 DEF OnlyEmptyAdded, Padded
  <2>3. Level(K, x, y)
    BY DEF Conserved, BudgetsAgree
  <2> HIDE DEF x, y, x2, y2, K, L
  <2>4. Level(L, x2, y2)
    BY <1>1, <2>1, <2>2, <2>3, LevelGrows
  <2> QED BY <2>4 DEF BudgetsAgree, x2, y2, L
<1>4. PICK in, out : Cancels(m, in, out)
  BY DEF Conserved
<1> DEFINE in2 == [ j \in L |-> IF j \in K THEN in[j] ELSE 0 ]
           out2 == [ j \in L |-> IF j \in K THEN out[j] ELSE 0 ]
<1>5. in \in [ K -> Int ] /\ out \in [ K -> Int ]
  BY <1>4 DEF Cancels
<1>6. /\ Padded(K, L, in, in2) /\ Padded(K, L, out, out2)
      /\ in2 \in [ L -> Int ] /\ out2 \in [ L -> Int ]
  BY <1>1, <1>5 DEF Padded
<1> HIDE DEF in2, out2
<1>7. Level(L, [ j \in L |-> n[j].recycledIn - in2[j] ], out2)
  <2> DEFINE x == [ j \in K |-> m[j].recycledIn - in[j] ]
             x2 == [ j \in L |-> n[j].recycledIn - in2[j] ]
  <2>1. Level(K, x, out)
    BY <1>4 DEF Cancels
  <2>2. x2 \in [ L -> Int ]
    BY <1>2, <1>6
  <2>3. Padded(K, L, x, x2)
    BY <1>1, <1>6 DEF OnlyEmptyAdded, Padded
  <2> HIDE DEF x, x2, K, L
  <2>4. Level(L, x2, out2)
    BY <1>1, <1>6, <2>1, <2>2, <2>3, LevelGrows
  <2> QED BY <2>4 DEF x2
<1>8. Level(L, [ j \in L |-> n[j].recycledOut - out2[j] ], in2)
  <2> DEFINE x == [ j \in K |-> m[j].recycledOut - out[j] ]
             x2 == [ j \in L |-> n[j].recycledOut - out2[j] ]
  <2>1. Level(K, x, in)
    BY <1>4 DEF Cancels
  <2>2. x2 \in [ L -> Int ]
    BY <1>2, <1>6
  <2>3. Padded(K, L, x, x2)
    BY <1>1, <1>6 DEF OnlyEmptyAdded, Padded
  <2> HIDE DEF x, x2, K, L
  <2>4. Level(L, x2, in2)
    BY <1>1, <1>6, <2>1, <2>2, <2>3, LevelGrows
  <2> QED BY <2>4 DEF x2
<1>9. \A j \in L : Len(j) = 1 => in2[j] = 0 /\ out2[j] = 0
  BY <1>4, <1>6 DEF Cancels, Padded
<1>10. Cancels(n, in2, out2)
  BY <1>6, <1>7, <1>8, <1>9 DEF Cancels
<1> QED BY <1>1, <1>3, <1>10 DEF Conserved

----------------------------------------------------------------------------
(* The operations on the map of accounts.                                  *)

\* The pools of an account that record exchanges are the same.
SameExchanges(a, b) == /\ b.allocatedOut = a.allocatedOut
                       /\ b.recycledIn = a.recycledIn
                       /\ b.recycledOut = a.recycledOut

(* One account changes in its other pools, or in the budget of the top.    *)
LEMMA UpdateConserves ==
    ASSUME NEW m, IsAccountMap(m), NEW k \in DOMAIN m, NEW b,
           SameExchanges(m[k], b),
           Len(k) > 1 => b.budgetIncreases = m[k].budgetIncreases,
           Conserved(m)
    PROVE  Conserved([ m EXCEPT ![k] = b ])
<1> DEFINE n == [ m EXCEPT ![k] = b ]
<1>1. DOMAIN n = DOMAIN m /\ n[k] = b /\ \A j \in DOMAIN m : j # k => n[j] = m[j]
  BY DEF IsAccountMap
<1> HIDE DEF n
<1>2. NothingMoved(m, n)
  BY <1>1 DEF NothingMoved, SameExchanges
<1>3. Conserved(n)
  BY <1>2, ConservedSame
<1> QED BY <1>3 DEF n

(* An adjustment.                                                          *)
LEMMA AdjustmentConserves ==
    ASSUME NEW m, IsAccountMap(m), NEW k \in DOMAIN m, NEW v, Conserved(m)
    PROVE  Conserved([ m EXCEPT ![k] = addAdjustment(m[k], v) ])
<1> DEFINE b == addAdjustment(m[k], v)
<1>1. SameExchanges(m[k], b) /\ b.budgetIncreases = m[k].budgetIncreases
  BY MapElement DEF addAdjustment, AccountRecord, SameExchanges
<1> HIDE DEF b
<1>2. Conserved([ m EXCEPT ![k] = b ])
  BY <1>1, UpdateConserves
<1> QED BY <1>2 DEF b

(* A budget for an account at the top.                                     *)
LEMMA BudgetConserves ==
    ASSUME NEW m, IsAccountMap(m), NEW k \in DOMAIN m, Len(k) = 1, NEW v, Conserved(m)
    PROVE  Conserved([ m EXCEPT ![k] = setBudget(m[k], v) ])
<1> DEFINE b == setBudget(m[k], v)
<1>1. SameExchanges(m[k], b) /\ ~(Len(k) > 1)
  BY MapElement DEF setBudget, AccountRecord, SameExchanges
<1> HIDE DEF b
<1>2. Conserved([ m EXCEPT ![k] = b ])
  BY <1>1, UpdateConserves
<1> QED BY <1>2 DEF b

(* A shadow's report.                                                      *)
LEMMA SyncConserves ==
    ASSUME NEW m, IsAccountMap(m), NEW k, NEW s, Conserved(m)
    PROVE  Conserved(syncFromShadow(m, k, s))
<1> DEFINE b == syncToMaster(s, m[k])
<1>1. ASSUME k \in DOMAIN m PROVE Conserved([ m EXCEPT ![k] = b ])
  <2>1. SameExchanges(m[k], b) /\ b.budgetIncreases = m[k].budgetIncreases
    BY <1>1, MapElement DEF syncToMaster, AccountRecord, SameExchanges
  <2> HIDE DEF b
  <2> QED BY <1>1, <2>1, UpdateConserves
<1> QED BY <1>1 DEF syncFromShadow

(* A reactivation.                                                         *)
LEMMA ReactivateConserves ==
    ASSUME NEW m, IsAccountMap(m), NEW k, Conserved(m)
    PROVE  Conserved(reactivatePresentAccounts(m, k))
<1> DEFINE n == reactivatePresentAccounts(m, k)
<1>1. /\ DOMAIN n = DOMAIN m
      /\ \A j \in DOMAIN m : n[j] = m[j] \/ n[j] = [ m[j] EXCEPT !.status = "active" ]
  BY DEF reactivatePresentAccounts
<1> HIDE DEF n
<1>2. ASSUME NEW j \in DOMAIN m
      PROVE  SameExchanges(m[j], n[j]) /\ n[j].budgetIncreases = m[j].budgetIncreases
  BY <1>1, MapElement DEF AccountRecord, SameExchanges
<1>3. NothingMoved(m, n)
  BY <1>1, <1>2 DEF NothingMoved, SameExchanges
<1>4. Conserved(n)
  BY <1>3, ConservedSame
<1> QED BY <1>4 DEF n

(* An account has finitely many ancestors.                                 *)
LEMMA AncestorsFinite ==
    ASSUME NEW k \in Keys
    PROVE  IsFiniteSet(Ancestors(k))
<1> DEFINE D == 0 .. Len(k)
           P == { SubSeq(k, 1, i) : i \in D }
<1>1. k \in Seq(STRING) /\ Len(k) \in Nat
  <2>1. k \in Seq(STRING)
    BY KeysAssumption
  <2> QED BY <2>1
<1>2. IsFiniteSet(D)
  BY <1>1, FS_Interval
<1>3. IsFiniteSet(P)
  <2> DEFINE f == [ i \in D |-> SubSeq(k, 1, i) ]
  <2>1. f \in Surjection(D, P)
    BY DEF Surjection
  <2> HIDE DEF f, D, P
  <2> QED BY <1>2, <2>1, FS_Surjection
<1>4. ASSUME NEW p \in Ancestors(k) PROVE p \in P
  <2>1. p \in Seq(STRING) /\ Len(p) <= Len(k) /\ SubSeq(p, 1, Len(p)) = SubSeq(k, 1, Len(p))
    BY KeysAssumption DEF Ancestors, IsStrictPrefix, IsPrefix
  <2>2. Len(p) \in Nat /\ SubSeq(p, 1, Len(p)) = p
    BY <2>1
  <2>3. Len(p) \in D /\ p = SubSeq(k, 1, Len(p))
    BY <1>1, <2>1, <2>2
  <2> QED BY <2>3
<1> HIDE DEF P
<1> QED BY <1>3, <1>4, FS_Subset

(* The creation of accounts.                                               *)
LEMMA EnsureConserves ==
    ASSUME NEW m, GoodMap(m), NEW k \in Keys, NEW t \in AccountType,
           CanEnsure(m, k, t), Conserved(m)
    PROVE  Conserved(ensureAccount(m, k, t))
<1> DEFINE n == ensureAccount(m, k, t)
<1>1. /\ DOMAIN n = DOMAIN m \cup {k} \cup Ancestors(k)
      /\ \A j \in DOMAIN m : n[j] = m[j]
      /\ \A j \in DOMAIN n \ DOMAIN m : \E u : n[j] = NewAccount(u)
  BY DEF ensureAccount
<1>2. IsAccountMap(m) /\ IsAccountMap(n)
  BY EnsureAccountOK DEF GoodMap
<1> HIDE DEF n
<1>3. IsFiniteSet(DOMAIN n)
  <2>1. IsFiniteSet(DOMAIN m \cup {k})
    BY FS_AddElement DEF Conserved
  <2> QED BY <1>1, <2>1, AncestorsFinite, FS_Union
<1>4. \A j \in DOMAIN n \ DOMAIN m :
         /\ n[j].allocatedOut = 0 /\ n[j].budgetIncreases = 0
         /\ n[j].recycledIn = 0 /\ n[j].recycledOut = 0
  <2> SUFFICES ASSUME NEW j \in DOMAIN n \ DOMAIN m
               PROVE  /\ n[j].allocatedOut = 0 /\ n[j].budgetIncreases = 0
                      /\ n[j].recycledIn = 0 /\ n[j].recycledOut = 0
    OBVIOUS
  <2>1. PICK u : n[j] = NewAccount(u)
    BY <1>1
  <2> QED BY <2>1 DEF NewAccount
<1>5. OnlyEmptyAdded(m, n)
  BY <1>1, <1>3, <1>4 DEF OnlyEmptyAdded
<1>6. \A c \in DOMAIN m : Len(c) > 1 => Front(c) \in DOMAIN m
  BY GoodHasParent DEF HasParent
<1>7. Conserved(n)
  BY <1>2, <1>5, <1>6, ConservedGrows
<1> QED BY <1>7 DEF n

(* A transfer.                                                             *)
LEMMA SetBalanceConserves ==
    ASSUME NEW m, IsAccountMap(m), NEW k, NEW v \in Int, Conserved(m)
    PROVE  Conserved(setBalance(m, k, v))
<1> DEFINE p == Front(k)
           t == Transfer(m[k], m[p], v)
           moves == k \in DOMAIN m /\ HasParent(m, k) /\ checkInvariants(m[k])
           n == setBalance(m, k, v)
<1>1. CASE ~moves
  BY <1>1 DEF setBalance
<1>2. CASE moves
  <2>1. /\ p \in DOMAIN m /\ k \in DOMAIN m /\ Len(k) > 1
        /\ m[k] \in AccountRecord /\ m[p] \in AccountRecord
    BY <1>2, MapElement DEF HasParent
  <2>2. k # p
    BY <1>2, <2>1, MapElement, ParentIsAncestor
  <2>3. IsAccountMap(n)
    BY SetBalanceOK DEF Keeps
  <2>4. t.fromRecycled \in Int /\ t.fromBudget \in Int /\ t.toRecycled \in Int
    BY <2>1, TransferOK DEF TransferRecord
  <2>5. n = [ m EXCEPT ![k] = TransferChild(m[k], t), ![p] = TransferParent(m[p], t) ]
    BY <1>2, <2>1, <2>2 DEF setBalance
  <2> HIDE DEF t, p, n
  <2>6. /\ DOMAIN n = DOMAIN m /\ n[k] = TransferChild(m[k], t)
        /\ n[p] = TransferParent(m[p], t)
        /\ \A j \in DOMAIN m \ {k, p} : n[j] = m[j]
    BY <2>1, <2>2, <2>5 DEF IsAccountMap
  <2>7. Exchanged(m, n, k, p, t.fromRecycled, t.fromBudget, t.toRecycled)
    <3>1. /\ n[k].allocatedOut = m[k].allocatedOut
          /\ n[k].budgetIncreases = m[k].budgetIncreases + t.fromBudget
          /\ n[k].recycledIn = m[k].recycledIn + t.fromRecycled
          /\ n[k].recycledOut = m[k].recycledOut + t.toRecycled
      BY <2>1, <2>6 DEF TransferChild, AccountRecord
    <3>2. /\ n[p].allocatedOut = m[p].allocatedOut + t.fromBudget
          /\ n[p].budgetIncreases = m[p].budgetIncreases
          /\ n[p].recycledIn = m[p].recycledIn + t.toRecycled
          /\ n[p].recycledOut = m[p].recycledOut + t.fromRecycled
      BY <2>1, <2>6 DEF TransferParent, AccountRecord
    <3> QED BY <2>6, <3>1, <3>2 DEF Exchanged
  <2>8. Conserved(n)
    BY <2>1, <2>3, <2>4, <2>7, ConservedExchange DEF p
  <2> QED BY <2>8 DEF n
<1> QED BY <1>1, <1>2

(* The end of a close: what is left goes to the parent.                    *)
LEMMA CloseOneConserves ==
    ASSUME NEW m, GoodMap(m), NEW k \in DOMAIN m, Conserved(m)
    PROVE  Conserved(closeOne(m, k)) /\ DOMAIN closeOne(m, k) = DOMAIN m
<1> DEFINE r == Recuperated(m, k)
           e == [ r EXCEPT ![k].status = "closed" ]
<1>1. IsAccountMap(m) /\ m[k] \in AccountRecord /\ k \in Keys
  BY MapElement DEF GoodMap
<1>2. IsAccountMap(r) /\ DOMAIN r = DOMAIN m
  <2>1. Keeps(m, r)
    BY RecuperatedKeeps
  <2> QED BY <2>1 DEF Keeps
<1>3. Conserved(r)
  <2>1. CASE Len(k) = 1
    BY <2>1 DEF Recuperated
  <2>2. CASE Len(k) # 1
    <3> DEFINE p == Front(k)
               d == nonNegative(m[k].balance)
    <3>1. Len(k) > 1
      BY <1>1, <2>2, BelowTop
    <3>2. p \in DOMAIN m /\ m[p] \in AccountRecord /\ k # p
      BY <1>1, <3>1, GoodHasParent, ParentIsAncestor, MapElement DEF HasParent
    <3>3. r = [ m EXCEPT ![k] = RecuperateChild(m[k]),
                         ![p] = RecuperateParent(m[p], m[k]) ]
      BY <2>2, <3>2 DEF Recuperated
    <3>4. d \in Int
      BY <1>1 DEF AccountRecord, nonNegative
    <3> HIDE DEF p, r
    <3>5. /\ r[k] = RecuperateChild(m[k]) /\ r[p] = RecuperateParent(m[p], m[k])
          /\ \A j \in DOMAIN m \ {k, p} : r[j] = m[j]
      BY <1>1, <3>2, <3>3 DEF IsAccountMap
    <3>6. /\ r[k].allocatedOut = m[k].allocatedOut
          /\ r[k].budgetIncreases = m[k].budgetIncreases
          /\ r[k].recycledIn = m[k].recycledIn
          /\ r[k].recycledOut = m[k].recycledOut + d
      BY <1>1, <3>5 DEF RecuperateChild, AccountRecord
    <3>7. /\ r[p].allocatedOut = m[p].allocatedOut
          /\ r[p].budgetIncreases = m[p].budgetIncreases
          /\ r[p].recycledIn = m[p].recycledIn + d
          /\ r[p].recycledOut = m[p].recycledOut
      BY <3>2, <3>5 DEF RecuperateParent, AccountRecord
    <3> HIDE DEF d
    <3>8. \A i \in Int : i = i + 0
      OBVIOUS
    <3>9. /\ m[k].budgetIncreases \in Int /\ m[k].recycledIn \in Int
          /\ m[p].allocatedOut \in Int /\ m[p].recycledOut \in Int
      BY <1>1, <3>2 DEF AccountRecord
    <3>10. Exchanged(m, r, k, p, 0, 0, d)
      BY <1>2, <3>5, <3>6, <3>7, <3>8, <3>9 DEF Exchanged
    <3> QED
      BY <1>1, <1>2, <3>1, <3>2, <3>4, <3>10, ConservedExchange DEF p
  <2> QED BY <2>1, <2>2
<1> HIDE DEF r
<1>4. Conserved(e) /\ DOMAIN e = DOMAIN m
  <2> DEFINE b == [ r[k] EXCEPT !.status = "closed" ]
  <2>1. r[k] \in AccountRecord /\ k \in DOMAIN r
    BY <1>2, MapElement
  <2>2. SameExchanges(r[k], b) /\ b.budgetIncreases = r[k].budgetIncreases
    BY <2>1 DEF SameExchanges, AccountRecord
  <2>3. e = [ r EXCEPT ![k] = b ] /\ DOMAIN e = DOMAIN r
    BY <1>2 DEF IsAccountMap
  <2> HIDE DEF b, e
  <2>4. Conserved([ r EXCEPT ![k] = b ])
    BY <1>2, <1>3, <2>1, <2>2, UpdateConserves
  <2> QED BY <1>2, <2>3, <2>4
<1>5. closeOne(m, k) \in { r, m, e }
  BY DEF closeOne, r, e
<1> HIDE DEF e
<1> QED BY <1>2, <1>3, <1>4, <1>5

----------------------------------------------------------------------------
(* The requests.                                                           *)

(* Every request keeps the accounts conserved, and none disappears.        *)
LEMMA HandlerConserves ==
    ASSUME GoodMap(accounts), Handler, Conserved(accounts)
    PROVE  Conserved(accounts') /\ DOMAIN accounts \subseteq DOMAIN accounts'
<1>1. PICK k \in Keys :
        \/ \E v \in Adjustments : adjustment(k, v)
        \/ \E v \in Balances, t \in AccountType : balance(k, v, t)
        \/ k \in ShadowKeys /\ \E s \in Shadows : shadow(k, s)
        \/ \E v \in Budgets : budget(k, v)
        \/ \E t \in AccountType : create_account(k, t)
        \/ close(k)
  BY DEF Handler
<1> DEFINE active == reactivatePresentAccounts(accounts, k)
<1>2. /\ GoodMap(active) /\ IsAccountMap(active) /\ Conserved(active)
  BY ActiveGrows, ReactivateConserves DEF GoodMap
<1>3. DOMAIN accounts \subseteq DOMAIN accounts'
  BY HandlerGrowsAccounts DEF HandlerGrows, SameTypes
<1>4. CASE \E v \in Adjustments : adjustment(k, v)
  <2>1. PICK v : accounts' = IF k \in DOMAIN active
                             THEN [ active EXCEPT ![k] = addAdjustment(active[k], v) ]
                             ELSE active
    BY <1>4 DEF adjustment
  <2> HIDE DEF active
  <2> QED BY <1>2, <1>3, <2>1, AdjustmentConserves
<1>5. CASE \E v \in Balances, t \in AccountType : balance(k, v, t)
  <2>1. PICK v \in Balances, t \in AccountType : balance(k, v, t)
    BY <1>5
  <2> DEFINE ensured == ensureAccount(active, k, t)
  <2>2. \/ accounts' = active
        \/ accounts' = setBalance(active, k, v)
        \/ CanEnsure(active, k, t) /\ accounts' = setBalance(ensured, k, v)
    BY <2>1 DEF balance
  <2> HIDE DEF active
  <2>3. CanEnsure(active, k, t) => Conserved(ensured) /\ IsAccountMap(ensured)
    BY <1>2, EnsureConserves, EnsuredGrows
  <2> HIDE DEF ensured
  <2>4. v \in Int
    BY InputsAssumption
  <2> QED BY <1>2, <1>3, <2>2, <2>3, <2>4, SetBalanceConserves
<1>6. CASE k \in ShadowKeys /\ \E s \in Shadows : shadow(k, s)
  <2> DEFINE ensured == ensureAccount(accounts, k, "spend")
  <2>1. PICK s : \/ accounts' = accounts
                 \/ accounts' = syncFromShadow(accounts, k, s)
                 \/ /\ CanEnsure(accounts, k, "spend")
                    /\ accounts' = syncFromShadow(ensured, k, s)
    BY <1>6 DEF shadow
  <2>2. CanEnsure(accounts, k, "spend") => Conserved(ensured) /\ IsAccountMap(ensured)
    BY EnsureConserves, EnsuredGrows DEF AccountType
  <2> HIDE DEF ensured
  <2> QED BY <1>3, <2>1, <2>2, SyncConserves DEF GoodMap
<1>7. CASE \E v \in Budgets : budget(k, v)
  <2> DEFINE ensured == ensureAccount(active, k, "budget")
  <2>1. PICK v : \/ accounts' = active
                 \/ /\ CanEnsure(active, k, "budget") /\ Len(k) = 1
                    /\ accounts' = [ ensured EXCEPT ![k] = setBudget(ensured[k], v) ]
    BY <1>7 DEF budget
  <2> HIDE DEF active
  <2>2. CanEnsure(active, k, "budget") =>
          Conserved(ensured) /\ IsAccountMap(ensured) /\ k \in DOMAIN ensured
    BY <1>2, EnsureConserves, EnsuredGrows DEF AccountType
  <2> HIDE DEF ensured
  <2> QED BY <1>2, <1>3, <2>1, <2>2, BudgetConserves
<1>8. CASE \E t \in AccountType : create_account(k, t)
  <2>1. PICK t \in AccountType :
          \/ accounts' = active
          \/ CanEnsure(active, k, t) /\ accounts' = ensureAccount(active, k, t)
    BY <1>8 DEF create_account
  <2> HIDE DEF active
  <2> QED BY <1>2, <1>3, <2>1, EnsureConserves
<1>9. CASE close(k)
  <2>1. accounts' = active
    BY <1>9 DEF close
  <2> HIDE DEF active
  <2> QED BY <1>2, <1>3, <2>1
<1> QED
  BY <1>1, <1>4, <1>5, <1>6, <1>7, <1>8, <1>9

----------------------------------------------------------------------------
(* The inductive invariant.                                                *)

\* While the first process lives: the accounts, the copy that is being saved
\* and the records are conserved; the copy has every account that is stored,
\* and no other than those in memory.
Cuts ==
    FirstProcess =>
      /\ up = "down" => /\ accounts = NoAccounts /\ DOMAIN records = {}
                        /\ save.phase = "idle"
      /\ Conserved(accounts) /\ Conserved(records)
      /\ DOMAIN records \subseteq DOMAIN accounts
      /\ save.phase # "idle" => /\ Conserved(save.toSave)
                                /\ DOMAIN records \subseteq DOMAIN save.toSave
                                /\ DOMAIN save.toSave \subseteq DOMAIN accounts

(* An empty map is conserved.                                              *)
LEMMA EmptyConserved ==
    ASSUME NEW m, DOMAIN m = {}
    PROVE  Conserved(m)
<1>1. IsFiniteSet(DOMAIN m)
  BY FS_EmptySet
<1>2. BudgetsAgree(m)
  BY DEF BudgetsAgree, Level
<1> DEFINE none == [ k \in DOMAIN m |-> 0 ]
<1>3. Cancels(m, none, none)
  BY DEF Cancels, Level
<1> QED BY <1>1, <1>2, <1>3 DEF Conserved

(* Nothing exists at first.                                                *)
LEMMA InitCuts == Init => Cuts
<1>1. DOMAIN NoAccounts = {}
  BY DEF NoAccounts
<1> QED
  BY <1>1, EmptyConserved DEF Init, Cuts, NotPersisting

(* A step that keeps the accounts conserved and only adds some.            *)
LEMMA CutsGrow ==
    ASSUME Cuts, Conserved(accounts) => Conserved(accounts'), up # "down",
           DOMAIN accounts \subseteq DOMAIN accounts',
           UNCHANGED << up, save, redis, restarts >>
    PROVE  Cuts'
  BY DEF Cuts, FirstProcess, redis

(* A save ends without a write.                                            *)
LEMMA CutsIdle ==
    ASSUME Cuts, save' = NotPersisting, UNCHANGED << up, accounts, redis, restarts >>
    PROVE  Cuts'
  BY DEF Cuts, FirstProcess, redis, NotPersisting

(* A save begins.                                                          *)
LEMMA CutsCopied ==
    ASSUME Cuts, up # "down", up' # "down", save' = Persisting(accounts),
           UNCHANGED << accounts, redis, restarts >>
    PROVE  Cuts'
  BY DEF Cuts, FirstProcess, redis, Persisting

(* After EXEC the records are the whole copy, in its stored form.          *)
LEMMA ExecCuts ==
    ASSUME IInv, IInv', Cuts, Exec
    PROVE  Cuts'
<1> SUFFICES ASSUME FirstProcess' PROVE Cuts'
  BY DEF Cuts
<1>1. /\ save.phase # "idle" /\ save' = NotPersisting
      /\ UNCHANGED << up, accounts, restarts >> /\ FirstProcess
  BY DEF Exec, FirstProcess
<1>2. /\ Conserved(accounts) /\ Conserved(save.toSave) /\ up # "down"
      /\ DOMAIN records \subseteq DOMAIN save.toSave
      /\ DOMAIN save.toSave \subseteq DOMAIN accounts
  BY <1>1 DEF Cuts
<1>3. save.cmds.set = (DOMAIN save.toSave \ DOMAIN records)
                      \cup { k \in Stored(save.toSave) : toJson(save.toSave[k]) # records[k] }
  BY DEF IInv, CommandsMatch, Exec, storeCommands
<1>4. DOMAIN records' = DOMAIN save.toSave
  BY <1>2, <1>3 DEF Exec, Stored
<1>5. \A k \in DOMAIN save.toSave : records'[k] = toJson(save.toSave[k])
  BY <1>2, <1>3 DEF Exec, Stored
<1>6. \A k \in DOMAIN save.toSave : SameExchanges(save.toSave[k], records'[k])
        /\ records'[k].budgetIncreases = save.toSave[k].budgetIncreases
  <2> SUFFICES ASSUME NEW k \in DOMAIN save.toSave
               PROVE  /\ SameExchanges(save.toSave[k], records'[k])
                      /\ records'[k].budgetIncreases = save.toSave[k].budgetIncreases
    OBVIOUS
  <2>1. save.toSave[k] \in AccountRecord
    BY MapsTyped, MapElement
  <2> QED BY <1>5, <2>1 DEF toJson, SameExchanges, AccountRecord
<1>7. NothingMoved(save.toSave, records')
  BY <1>4, <1>6 DEF NothingMoved, SameExchanges
<1>8. Conserved(records')
  BY <1>2, <1>7, ConservedSame
<1>9. save'.phase = "idle"
  BY <1>1 DEF NotPersisting
<1> QED
  BY <1>1, <1>2, <1>4, <1>8, <1>9 DEF Cuts

(* Every step keeps Cuts.                                                  *)
LEMMA NextCuts ==
    ASSUME IInv, IInv', Cuts, [Next]_vars
    PROVE  Cuts'
<1>1. CASE Handler
  <2>1. UNCHANGED << save, redis, restarts, up >> /\ up # "down"
    BY <1>1 DEF Handler, Request, adjustment, balance, shadow, budget, create_account, close
  <2>2. /\ Conserved(accounts) => Conserved(accounts')
        /\ DOMAIN accounts \subseteq DOMAIN accounts'
    <3>1. GoodMap(accounts)
      BY MapsTyped
    <3>2. DOMAIN accounts \subseteq DOMAIN accounts'
      BY <1>1, <3>1, HandlerGrowsAccounts DEF HandlerGrows, SameTypes
    <3> QED BY <1>1, <3>1, <3>2, HandlerConserves
  <2> QED BY <2>1, <2>2, CutsGrow
<1>2. CASE CloseChild
  <2>1. UNCHANGED << accounts, save, redis, restarts, up >>
    BY <1>2 DEF CloseChild
  <2> QED BY <2>1 DEF Cuts, FirstProcess, redis
<1>3. CASE CloseSelf
  <2>1. UNCHANGED << save, redis, restarts, up >> /\ closing # <<>>
    BY <1>3 DEF CloseSelf
  <2>2. up # "down"
    BY <2>1 DEF IInv, DownHasNoFrame
  <2>3. closing \in Seq(Frame) /\ FramesPresent
    BY DEF IInv, TypeOK
  <2>4. Last(closing).key \in DOMAIN accounts
    BY <2>1, <2>3, LastFrame
  <2>5. accounts' = closeOne(accounts, Last(closing).key)
    BY <1>3 DEF CloseSelf
  <2>6. DOMAIN accounts' = DOMAIN accounts /\ (Conserved(accounts) => Conserved(accounts'))
    <3>1. GoodMap(accounts)
      BY MapsTyped
    <3>2. DOMAIN accounts' = DOMAIN accounts
      BY <2>4, <2>5, <3>1, CloseOneGrew DEF ClosesOne
    <3> QED BY <2>4, <2>5, <3>1, <3>2, CloseOneConserves
  <2> QED BY <2>1, <2>2, <2>6, CutsGrow
<1>4. CASE persist
  <2>1. /\ UNCHANGED << up, accounts, redis, restarts >> /\ up = "running"
        /\ save' = Persisting(accounts)
    BY <1>4 DEF persist
  <2> QED BY <2>1, CutsCopied
<1>5. CASE onPhase1Result
  <2>1. /\ UNCHANGED << up, accounts, redis, restarts >> /\ save.phase = "fetch"
    BY <1>5 DEF onPhase1Result
  <2>2. CASE save' = NotPersisting
    BY <2>1, <2>2, CutsIdle
  <2>3. CASE save' = [ save EXCEPT !.phase = "exec", !.cmds = storeCommands(save.toSave) ]
    <3>1. save = [ phase |-> save.phase, toSave |-> save.toSave, cmds |-> save.cmds ]
      BY DEF IInv, TypeOK
    <3>2. save'.phase # "idle" /\ save'.toSave = save.toSave
      BY <2>3, <3>1
    <3>3. up # "down" \/ ~FirstProcess
      BY <2>1 DEF Cuts
    <3> QED BY <2>1, <3>2, <3>3 DEF Cuts, FirstProcess, redis
  <2> QED BY <1>5, <2>2, <2>3 DEF onPhase1Result
<1>6. CASE Exec
  BY <1>6, ExecCuts
<1>7. CASE RedisError
  <2>1. save' = NotPersisting /\ UNCHANGED << up, accounts, redis, restarts >>
    BY <1>7 DEF RedisError
  <2> QED BY <2>1, CutsIdle
<1>8. CASE signal_handler
  <2>1. /\ UNCHANGED << accounts, redis, restarts >>
        /\ up # "down" /\ up' = "stopping"
        /\ save' = Persisting(accounts) \/ save' = save
    BY <1>8 DEF signal_handler
  <2>2. CASE save' = Persisting(accounts)
    BY <2>1, <2>2, CutsCopied
  <2>3. CASE save' = save
    BY <2>1, <2>3 DEF Cuts, FirstProcess, redis
  <2> QED BY <2>1, <2>2, <2>3
<1>9. CASE MainReturns \/ Crash
  <2>1. restarts' = restarts + 1 /\ restarts \in Nat
    BY <1>9 DEF MainReturns, Crash, ProcessGone, IInv, TypeOK
  <2>2. ~FirstProcess'
    BY <2>1 DEF FirstProcess
  <2> QED BY <2>2 DEF Cuts
<1>10. CASE Start
  <2>1. UNCHANGED << save, redis, restarts >> /\ up = "down" /\ up' = "running"
    BY <1>10 DEF Start
  <2>2. ASSUME FirstProcess PROVE DOMAIN accounts' = {}
    <3>1. DOMAIN records = {}
      BY <2>1, <2>2 DEF Cuts
    <3>2. members = {}
      BY <3>1 DEF IInv, StoredInOneSet
    <3>3. DOMAIN RestoredAccounts({}, records) = {}
      BY DEF RestoredAccounts
    <3>4. accounts' = RestoredAccounts({}, records)
      BY <1>10, <3>2 DEF Start
    <3> QED BY <3>3, <3>4
  <2>3. FirstProcess => Conserved(accounts')
    BY <2>2, EmptyConserved
  <2> QED BY <2>1, <2>3 DEF Cuts, FirstProcess, redis
<1>11. CASE StartUnloaded
  <2>1. UNCHANGED << save, redis, restarts, accounts >> /\ up = "down" /\ up' = "running"
    BY <1>11 DEF StartUnloaded
  <2> QED BY <2>1 DEF Cuts, FirstProcess, redis
<1>12. CASE UNCHANGED vars
  <2>1. UNCHANGED << up, accounts, save, redis, restarts >>
    BY <1>12 DEF vars, process
  <2> QED BY <2>1 DEF Cuts, FirstProcess, redis
<1> QED
  BY <1>1, <1>2, <1>3, <1>4, <1>5, <1>6, <1>7, <1>8, <1>9, <1>10, <1>11, <1>12 DEF Next

(* Cuts is an invariant.                                                   *)
LEMMA CutsInvariant == Spec => []Cuts
<1>1. IInv /\ IInv' /\ Cuts /\ [Next]_vars => Cuts'
  BY NextCuts
<1> QED
  BY <1>1, InitCuts, Inductive, PTL DEF Spec

(* No transfer, close or creation of an account makes or loses money while *)
(* the first process lives: what every account allocated is what its       *)
(* children received, and the recycled amounts of a whole tree cancel out. *)
(* For every forest of accounts, every sequence of requests with amounts   *)
(* of either sign, overdrawn accounts included, and in the middle of a     *)
(* close too.                                                              *)
THEOREM NoTransferLosesMoney == Spec => []TransfersConsistent
<1>1. IInv /\ Cuts => TransfersConsistent
  <2>1. IInv => IsAccountMap(accounts)
    BY MapsTyped
  <2> QED BY <2>1, ConservedIsConsistent DEF Cuts, TransfersConsistent
<1> QED
  BY <1>1, CutsInvariant, Inductive, PTL

(* The same of what redis holds while the first process lives: however     *)
(* saves, redis errors, requests and signals that come between transfers   *)
(* interleave, no save writes the child's half of a transfer without the   *)
(* parent's.  A signal inside a transfer can (MasterBankerAssignments).    *)
THEOREM NoSaveCutsATransfer == Spec => []StoredTransfersConsistent
<1>1. IInv /\ Cuts => StoredTransfersConsistent
  <2>1. IInv => IsAccountMap(records)
    BY MapsTyped
  <2> QED BY <2>1, ConservedIsConsistent DEF Cuts, StoredTransfersConsistent
<1> QED
  BY <1>1, CutsInvariant, Inductive, PTL

=============================================================================
