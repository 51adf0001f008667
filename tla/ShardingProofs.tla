--------------------------- MODULE ShardingProofs ---------------------------
(***************************************************************************)
(* Proofs about Sharding for every set of names, databases, migrations,    *)
(* methods and paths: the relay's 32-bit hash and the script's unbounded   *)
(* one agree on every name of plain characters, the relay and the banker   *)
(* read the same account from a request, and the script brings every       *)
(* active account to the banker that is asked for it.                      *)
(***************************************************************************)
EXTENDS Sharding, SequenceProofs, SequenceTheorems, FiniteSetTheorems

----------------------------------------------------------------------------
(* The hash.                                                               *)

\* What is carried from limb to limb in a turn.
Limbs(carry, h, c, n) ==
    [ j \in 1 .. n |->
        (63 * h[j] + (IF j = 1 THEN c ELSE h[j - 1]) + carry[j - 1]) % 65536 ]
Carries(carry, h, c, n) ==
    /\ carry[0] = 0
    /\ \A j \in 1 .. n :
          carry[j] = (63 * h[j] + (IF j = 1 THEN c ELSE h[j - 1]) + carry[j - 1]) \div 65536

\* One turn of the hash computes its carries one after the other.
LEMMA CarryExists ==
    ASSUME NEW n \in Nat, NEW h \in [ 1 .. n -> Int ], NEW c \in Int
    PROVE  \E carry \in Runs(n, Int) :
              Carries(carry, h, c, n) /\ Hash!HashStep(h, c, n) = Limbs(carry, h, c, n)
<1> DEFINE low(j) == IF j = 1 THEN c ELSE h[j - 1]
           add(q, j) == (63 * h[j] + low(j) + q) \div 65536
           Def(g) == [ j \in 0 .. n |-> IF j = 0 THEN 0 ELSE add(g[j - 1], j) ]
           step == [ j \in 1 .. n |-> [ q \in Int |-> add(q, j) ] ]
           carry == CHOOSE g : g = Def(g)
<1>1. \A j \in 1 .. n : low(j) \in Int /\ h[j] \in Int
  OBVIOUS
<1>2. Hash!HashStep(h, c, n) = Limbs(carry, h, c, n)
  BY DEF Limbs, Hash!HashStep, Hash!Limb
<1> HIDE DEF low
<1>3. \A j \in 1 .. n : \A q \in Int : add(q, j) \in Int
  BY <1>1
<1> HIDE DEF add
<1>4. step \in Steps(n, Int)
  BY <1>3 DEF Steps
<1>5. \A j \in 1 .. n, q \in Int : step[j][q] = add(q, j)
  OBVIOUS
<1> HIDE DEF step
<1>6. PICK g \in Runs(n, Int) : IsRun(g, 0, n, step)
  <2>1. 0 \in Int
    OBVIOUS
  <2> QED BY <1>4, <2>1, Recursion, Zenon
<1>7. g = Def(g)
  <2>1. \A j \in 1 .. n : g[j - 1] \in Int
    BY DEF Runs
  <2>2. \A j \in 1 .. n : g[j] = add(g[j - 1], j)
    BY <1>5, <1>6, <2>1 DEF IsRun
  <2> QED BY <1>6, <2>2 DEF IsRun, Runs
<1>8. carry = Def(carry)
  BY <1>7, Zenon
<1>9. \E f : f = Def(f) /\ Hash!HashStep(h, c, n) = Limbs(f, h, c, n)
  BY <1>8, <1>2, Zenon
<1> HIDE DEF carry
<1>10. PICK f : f = Def(f) /\ Hash!HashStep(h, c, n) = Limbs(f, h, c, n)
  BY <1>9, Zenon
<1>11. f = [ j \in 0 .. n |-> IF j = 0 THEN 0 ELSE add(f[j - 1], j) ]
  BY <1>10
<1> HIDE DEF Def
<1>12. /\ f[0] = 0 /\ DOMAIN f = 0 .. n
       /\ \A j \in 1 .. n : f[j] = add(f[j - 1], j)
  BY <1>11
<1>13. \A j \in 0 .. n : f[j] \in Int
  <2> DEFINE T == { j \in 0 .. n : f[j] \in Int }
  <2>1. 0 \in T
    BY <1>12
  <2>2. \A j \in 1 .. n : j - 1 \in T => j \in T
    BY <1>3, <1>12
  <2>3. \A j \in 0 .. n : j \in T
    <3> HIDE DEF T
    <3> QED BY <2>1, <2>2, UptoInduction
  <2> QED BY <2>3
<1>14. f \in Runs(n, Int)
  BY <1>11, <1>13 DEF Runs
<1>15. Carries(f, h, c, n)
  BY <1>12 DEF Carries, add, low
<1> QED BY <1>10, <1>14, <1>15

\* The states of a hash of n limbs, and what a turn does to the lower two.
Words(n) == [ 1 .. n -> Nat ]
LowTurn(s, h, c) ==
    /\ s[1] = (63 * h[1] + c) % 65536
    /\ s[2] = (63 * h[2] + h[1] + (63 * h[1] + c) \div 65536) % 65536

\* Of a turn on two limbs or more, the lower two only depend on the lower two.
LEMMA StepLow ==
    ASSUME NEW n \in Nat, n >= 2, NEW h \in Words(n), NEW c \in Int
    PROVE  Hash!HashStep(h, c, n) \in Words(n) /\ LowTurn(Hash!HashStep(h, c, n), h, c)
<1>1. h \in [ 1 .. n -> Int ] /\ \A j \in 1 .. n : h[j] \in Nat
  BY DEF Words
<1>2. PICK carry \in Runs(n, Int) :
         Carries(carry, h, c, n) /\ Hash!HashStep(h, c, n) = Limbs(carry, h, c, n)
  BY <1>1, CarryExists, Zenon
<1>3. /\ \A j \in 0 .. n : carry[j] \in Int
      /\ carry[0] = 0 /\ carry[1] = (63 * h[1] + c) \div 65536
  <2>1. /\ carry[0] = 0 /\ 1 \in 1 .. n /\ h[1] \in Nat
        /\ carry[1] = (63 * h[1] + (IF 1 = 1 THEN c ELSE h[1 - 1]) + carry[1 - 1]) \div 65536
    BY <1>1, <1>2 DEF Carries
  <2>2. carry[1] = (63 * h[1] + c) \div 65536
    BY <2>1
  <2>3. \A j \in 0 .. n : carry[j] \in Int
    BY DEF Runs
  <2> QED BY <2>1, <2>2, <2>3
<1>4. \A j \in 1 .. n : (63 * h[j] + (IF j = 1 THEN c ELSE h[j - 1]) + carry[j - 1]) % 65536 \in Nat
  <2> SUFFICES ASSUME NEW j \in 1 .. n
               PROVE  (63 * h[j] + (IF j = 1 THEN c ELSE h[j - 1]) + carry[j - 1]) % 65536 \in Nat
    OBVIOUS
  <2>1. (IF j = 1 THEN c ELSE h[j - 1]) \in Int
    <3>1. j # 1 => j - 1 \in 1 .. n
      OBVIOUS
    <3> QED BY <1>1, <3>1
  <2>2. carry[j - 1] \in Int /\ h[j] \in Int
    BY <1>1, <1>3
  <2> QED BY <2>1, <2>2
<1> DEFINE s == Hash!HashStep(h, c, n)
<1>5. s = [ j \in 1 .. n |->
        (63 * h[j] + (IF j = 1 THEN c ELSE h[j - 1]) + carry[j - 1]) % 65536 ]
  BY <1>2 DEF Limbs
<1> HIDE DEF s
<1>6. s \in Words(n)
  BY <1>4, <1>5 DEF Words
<1>7. s[1] = (63 * h[1] + c) % 65536
  <2>1. /\ 1 \in 1 .. n /\ h[1] \in Nat
        /\ s[1] = (63 * h[1] + (IF 1 = 1 THEN c ELSE h[1 - 1]) + carry[1 - 1]) % 65536
    BY <1>1, <1>5
  <2> QED BY <1>3, <2>1
<1>8. s[2] = (63 * h[2] + h[1] + (63 * h[1] + c) \div 65536) % 65536
  <2>1. /\ 2 \in 1 .. n /\ h[1] \in Nat /\ h[2] \in Nat
        /\ s[2] = (63 * h[2] + (IF 2 = 1 THEN c ELSE h[2 - 1]) + carry[2 - 1]) % 65536
    BY <1>1, <1>5
  <2> QED BY <1>3, <2>1
<1>9. LowTurn(s, h, c)
  BY <1>7, <1>8 DEF LowTurn
<1> QED BY <1>6, <1>9 DEF s

\* The hash after each character.
Hashes(hash, chars, n) ==
    /\ Hash!HashLoop(chars, n) = hash[Len(chars)]
    /\ hash[0] = [ j \in 1 .. n |-> 0 ]
    /\ \A u \in 1 .. Len(chars) : hash[u] = Hash!HashStep(hash[u - 1], chars[u], n)

\* The loop of the hash is the run of its turns.
LEMMA HashExists ==
    ASSUME NEW n \in Nat, n >= 2, NEW chars \in Seq(Int)
    PROVE  \E hash \in Runs(Len(chars), Words(n)) : Hashes(hash, chars, n)
<1> DEFINE Q == Words(n)
           zero == [ j \in 1 .. n |-> 0 ]
           N == Len(chars)
           add(q, j) == Hash!HashStep(q, chars[j], n)
           Def(g) == [ j \in 0 .. N |-> IF j = 0 THEN zero ELSE add(g[j - 1], j) ]
           step == [ j \in 1 .. N |-> [ q \in Q |-> add(q, j) ] ]
           hash == CHOOSE g : g = Def(g)
<1>1. N \in Nat /\ zero \in Q /\ \A j \in 1 .. N : chars[j] \in Int
  BY DEF Words
<1>2. Hash!HashLoop(chars, n) = hash[N]
  BY DEF Hash!HashLoop
<1>3. \A j \in 1 .. N : \A q \in Q : add(q, j) \in Q
  BY <1>1, StepLow, Zenon
<1> HIDE DEF add, zero, Q, N
<1>4. step \in Steps(N, Q)
  BY <1>3 DEF Steps
<1>5. \A j \in 1 .. N, q \in Q : step[j][q] = add(q, j)
  OBVIOUS
<1> HIDE DEF step
<1>6. PICK g \in Runs(N, Q) : IsRun(g, zero, N, step)
  BY <1>1, <1>4, Recursion, Zenon
<1>7. g = Def(g)
  <2>1. \A j \in 1 .. N : g[j - 1] \in Q
    BY <1>1 DEF Runs
  <2>2. \A j \in 1 .. N : g[j] = add(g[j - 1], j)
    BY <1>5, <1>6, <2>1 DEF IsRun
  <2> QED BY <1>1, <1>6, <2>2 DEF IsRun, Runs
<1>8. hash = Def(hash)
  BY <1>7, Zenon
<1>9. \E f : f = Def(f) /\ Hash!HashLoop(chars, n) = f[N]
  BY <1>8, <1>2, Zenon
<1> HIDE DEF hash
<1>10. PICK f : f = Def(f) /\ Hash!HashLoop(chars, n) = f[N]
  BY <1>9, Zenon
<1>11. f = [ j \in 0 .. N |-> IF j = 0 THEN zero ELSE add(f[j - 1], j) ]
  BY <1>10
<1> HIDE DEF Def
<1>12. /\ f[0] = zero /\ DOMAIN f = 0 .. N
       /\ \A j \in 1 .. N : f[j] = add(f[j - 1], j)
  BY <1>1, <1>11
<1>13. \A j \in 0 .. N : f[j] \in Q
  <2> DEFINE T == { j \in 0 .. N : f[j] \in Q }
  <2>1. 0 \in T
    BY <1>1, <1>12
  <2>2. \A j \in 1 .. N : j - 1 \in T => j \in T
    BY <1>1, <1>3, <1>12
  <2>3. \A j \in 0 .. N : j \in T
    <3> HIDE DEF T
    <3> QED BY <1>1, <2>1, <2>2, UptoInduction
  <2> QED BY <2>3
<1>14. f \in Runs(N, Q)
  BY <1>11, <1>13 DEF Runs
<1>15. Hashes(f, chars, n)
  BY <1>10, <1>12 DEF Hashes, add, zero, N
<1> QED BY <1>14, <1>15 DEF N, Q

\* The lower two limbs do not depend on how many there are.
LEMMA LowerLimbs ==
    ASSUME NEW n \in Nat, n >= 2, NEW chars \in Seq(Int)
    PROVE  /\ Hash!HashLoop(chars, n)[1] = Hash!HashLoop(chars, 2)[1]
           /\ Hash!HashLoop(chars, n)[2] = Hash!HashLoop(chars, 2)[2]
           /\ Hash!HashLoop(chars, n) \in Words(n)
<1>1. PICK f \in Runs(Len(chars), Words(n)) : Hashes(f, chars, n)
  BY HashExists
<1>2. PICK g \in Runs(Len(chars), Words(2)) : Hashes(g, chars, 2)
  BY HashExists
<1>3. Len(chars) \in Nat /\ \A u \in 1 .. Len(chars) : chars[u] \in Int
  OBVIOUS
<1> DEFINE T == { u \in 0 .. Len(chars) : f[u][1] = g[u][1] /\ f[u][2] = g[u][2] }
<1>4. 0 \in T
  BY <1>1, <1>2, <1>3 DEF Hashes
<1>5. ASSUME NEW u \in 1 .. Len(chars), u - 1 \in T PROVE u \in T
  <2>1. /\ f[u - 1] \in Words(n) /\ g[u - 1] \in Words(2) /\ chars[u] \in Int
        /\ f[u - 1][1] = g[u - 1][1] /\ f[u - 1][2] = g[u - 1][2]
        /\ u \in 0 .. Len(chars)
    BY <1>3, <1>5 DEF Runs
  <2>2. /\ f[u] = Hash!HashStep(f[u - 1], chars[u], n)
        /\ g[u] = Hash!HashStep(g[u - 1], chars[u], 2)
    BY <1>1, <1>2 DEF Hashes
  <2>3. LowTurn(f[u], f[u - 1], chars[u])
    BY <2>1, <2>2, StepLow, Zenon
  <2>4. 2 \in Nat /\ 2 >= 2
    OBVIOUS
  <2>5. LowTurn(g[u], g[u - 1], chars[u])
    BY <2>1, <2>2, <2>4, StepLow, Zenon
  <2> QED BY <2>1, <2>3, <2>5 DEF LowTurn
<1>6. \A u \in 0 .. Len(chars) : u \in T
  <2> HIDE DEF T
  <2> QED BY <1>3, <1>4, <1>5, UptoInduction
<1>7. Len(chars) \in T /\ f[Len(chars)] \in Words(n)
  BY <1>3, <1>6 DEF Runs
<1> QED BY <1>1, <1>2, <1>7 DEF Hashes

\* The bytes of a name: those a char holds without a sign.
Plain == 0 .. 127

\* A sequence is the function of its elements.
LEMMA Elements ==
    ASSUME NEW A, NEW s \in Seq(A)
    PROVE  /\ Len(s) \in Nat /\ s = [ u \in 1 .. Len(s) |-> s[u] ]
           /\ \A u \in 1 .. Len(s) : s[u] \in A
OBVIOUS

\* A char of a plain character is its byte, signed or not.
LEMMA PlainNames ==
    ASSUME NEW name \in Seq(Plain)
    PROVE  /\ name \in Seq(Int) /\ Len(name) \in Nat
           /\ name = [ u \in 1 .. Len(name) |-> name[u] ]
           /\ \A u \in 1 .. Len(name) : Hash!Char(name[u]) = name[u]
<1>1. /\ Len(name) \in Nat /\ name = [ u \in 1 .. Len(name) |-> name[u] ]
      /\ \A u \in 1 .. Len(name) : name[u] \in Plain
  BY Elements, Zenon
<1>2. ASSUME NEW x \in Plain PROVE x \in Int /\ Hash!Char(x) = x
  <2>1. x \in Int /\ ~(x > 127)
    BY DEF Plain
  <2> QED BY <2>1, Zenon DEF Hash!Char
<1>3. name \in Seq(Int)
  <2>1. \A u \in 1 .. Len(name) : name[u] \in Int
    BY <1>1, <1>2, Zenon
  <2> HIDE DEF Plain
  <2>2. [ u \in 1 .. Len(name) |-> name[u] ] \in [ 1 .. Len(name) -> Int ]
    BY <2>1
  <2>3. [ 1 .. Len(name) -> Int ] \subseteq Seq(Int)
    BY <1>1
  <2> QED BY <1>1, <2>2, <2>3, Zenon
<1> QED BY <1>1, <1>2, <1>3, Zenon

\* On every name of plain characters the relay's 32-bit hash and the script's
\* exact one agree.
THEOREM HashesAlike ==
    ASSUME NEW name \in Seq(Plain)
    PROVE  /\ Hash!SDBMHash(name) = Hash!SDBMHashPython(name)
           /\ Hash!SDBMHash(name) \in Nat
<1> DEFINE n == 2 * Len(name) + 2
           chars == [ u \in 1 .. Len(name) |-> Hash!Char(name[u]) ]
<1>1. name \in Seq(Int) /\ n \in Nat /\ n >= 2 /\ 2 \in Nat /\ 2 >= 2
  BY PlainNames
<1>2. chars = name
  BY PlainNames
<1> HIDE DEF chars, n
<1>3. /\ Hash!HashLoop(name, n)[1] = Hash!HashLoop(name, 2)[1]
      /\ Hash!HashLoop(name, n)[2] = Hash!HashLoop(name, 2)[2]
      /\ Hash!HashLoop(name, 2) \in Words(2)
  BY <1>1, LowerLimbs, Zenon
<1>4. Hash!SDBMHash(name) = Hash!Masked(Hash!HashLoop(name, 2))
  BY <1>2 DEF Hash!SDBMHash, chars
<1>5. Hash!SDBMHashPython(name) = Hash!Masked(Hash!HashLoop(name, n))
  BY DEF Hash!SDBMHashPython, n
<1>6. Hash!Masked(Hash!HashLoop(name, n)) = Hash!Masked(Hash!HashLoop(name, 2))
  BY <1>3 DEF Hash!Masked
<1>7. Hash!HashLoop(name, 2)[1] \in Nat /\ Hash!HashLoop(name, 2)[2] \in Nat
  BY <1>3 DEF Words
<1>8. Hash!Masked(Hash!HashLoop(name, 2)) \in Nat
  BY <1>7 DEF Hash!Masked, Hash!Limb
<1> QED BY <1>4, <1>5, <1>6, <1>8

----------------------------------------------------------------------------
(* Finding the account of a request.                                       *)

\* The empty text is no word of the table.
LEMMA EmptyText ==
    Path!Empty \notin { "*", "404", "children", "close", "subtree", "summary", "activeaccounts",
                        "accounts", "adjustment", "balance", "shadow", "budget", "create" }
BY Zenon DEF Path!Empty

\* The actions the banker serves of each method.
LEMMA HandlersOf ==
    /\ DOMAIN Path!Actions = { "GET", "POST", "PUT" }
    /\ Path!Actions["GET"] = { "children", "close", "subtree", "summary", Path!Empty, "activeaccounts" }
    /\ Path!Actions["POST"] = { "adjustment", "balance", "shadow", "budget", Path!Empty }
    /\ Path!Actions["PUT"] = { "adjustment", "balance", "shadow", "budget" }
<1>1. DOMAIN Path!Actions = { "GET", "POST", "PUT" }
  BY DEF Path!Actions
<1>2. Path!Actions["GET"] = { "children", "close", "subtree", "summary", Path!Empty, "activeaccounts" }
  BY DEF Path!Actions
<1>3. Path!Actions["POST"] = { "adjustment", "balance", "shadow", "budget", Path!Empty }
  BY DEF Path!Actions
<1>4. Path!Actions["PUT"] = { "adjustment", "balance", "shadow", "budget" }
  BY DEF Path!Actions
<1> QED BY <1>1, <1>2, <1>3, <1>4

\* What the banker serves: a method and an action.
Serves(method, action) ==
    \/ /\ method = "GET"
       /\ action \in { "children", "close", "subtree", "summary", Path!Empty, "activeaccounts" }
    \/ /\ method = "POST"
       /\ action \in { "adjustment", "balance", "shadow", "budget", Path!Empty }
    \/ /\ method = "PUT"
       /\ action \in { "adjustment", "balance", "shadow", "budget" }

\* What is served is of one of the three methods.
LEMMA Handlers ==
    ASSUME NEW method \in DOMAIN Path!Actions, NEW action \in Path!Actions[method]
    PROVE  Serves(method, action)
BY HandlersOf DEF Serves

\* What a request is routed to, given the action and the account of its path.
RouteTaken(h, r, method, accountName) ==
    \/ /\ method = "POST" /\ r.action = Path!Empty
       /\ h.account = accountName /\ accountName \in Names
    \/ /\ method = "GET" /\ r.action = "activeaccounts"
       /\ h.account = "*"
    \/ /\ method = "GET" /\ r.action \in { "children", "close", "subtree", "summary", Path!Empty }
       /\ h.account = r.account
       /\ r.account \in Names \/ (r.account = "*" /\ r.action \in { Path!Empty, "summary" })
    \/ /\ method \in { "POST", "PUT" }
       /\ r.action \in { "adjustment", "balance", "shadow", "budget" }
       /\ h.account = r.account /\ r.account \in Names

\* A record that the table accepts is one of the ways of RouteTaken.
LEMMA RouteChosen ==
    ASSUME NEW h, NEW r, NEW create, NEW all, NEW method, NEW accountName,
           create.account = accountName, create.action = "create", all.account = "*",
           h = IF method = "POST" /\ r.action = Path!Empty THEN create
               ELSE IF r.action = "activeaccounts" THEN all ELSE r,
           \/ h.account = "*" /\ h.action \in {Path!Empty, "summary", "activeaccounts"}
           \/ h.account \in Names,
           Serves(method, r.action)
    PROVE  RouteTaken(h, r, method, accountName)
<1>1. CASE method = "POST" /\ r.action = Path!Empty
  <2>1. h = create
    BY <1>1
  <2>2. h.account = accountName /\ h.action = "create"
    BY <2>1
  <2>3. accountName \in Names
    BY <2>2, EmptyText
  <2> QED BY <1>1, <2>2, <2>3 DEF RouteTaken
<1>2. CASE r.action = "activeaccounts"
  <2>1. h = all /\ method = "GET"
    BY <1>2, EmptyText DEF Serves
  <2> QED BY <1>2, <2>1 DEF RouteTaken
<1>3. CASE ~(method = "POST" /\ r.action = Path!Empty) /\ r.action # "activeaccounts"
  <2>1. h = r
    BY <1>3
  <2>2. \/ r.account \in Names
        \/ r.account = "*" /\ r.action \in { Path!Empty, "summary" }
    BY <1>3, <2>1, EmptyText
  <2> QED BY <1>3, <2>1, <2>2, EmptyText DEF RouteTaken, Serves
<1> QED BY <1>1, <1>2, <1>3

\* The handler the banker runs is one the table has for the action of the path.
LEMMA RouteRuns ==
    ASSUME NEW path, NEW method, NEW accountName,
           Path!route(method, path, accountName) # Path!NotFound
    PROVE  RouteTaken(Path!route(method, path, accountName), Path!RouteOf(path),
                      method, accountName)
<1> DEFINE r == Path!RouteOf(path)
           create == [ action |-> "create", account |-> accountName ]
           all == [ r EXCEPT !.account = "*" ]
           handled == IF method = "POST" /\ r.action = Path!Empty THEN create
                      ELSE IF r.action = "activeaccounts" THEN all ELSE r
           listsAll == /\ handled.account = "*"
                       /\ handled.action \in {Path!Empty, "summary", "activeaccounts"}
<1>1. /\ Path!route(method, path, accountName) = handled
      /\ method \in DOMAIN Path!Actions /\ r.action \in Path!Actions[method]
      /\ listsAll \/ handled.account \in Names
  BY Zenon DEF Path!route
<1>2. create.account = accountName /\ create.action = "create"
  OBVIOUS
<1> HIDE DEF r, create, all
<1>3. Serves(method, r.action)
  BY <1>1, Handlers, Zenon
<1>4. all.account = "*"
  <2>1. "account" \in DOMAIN r
    BY DEF r, Path!RouteOf, Path!NotFound
  <2> QED BY <2>1 DEF all
<1>5. RouteTaken(handled, r, method, accountName)
  BY <1>1, <1>2, <1>3, <1>4, RouteChosen, Zenon
<1> QED BY <1>1, <1>5 DEF r
\* How the parts that boost::split makes relate to the segments of the path.
PartsOf(parts, path) ==
    /\ path[2] \in { "accounts", "accountsx" }
    /\ Len(path) = 2 => Len(parts) # 2 /\ Len(parts) # 3
    /\ (Len(path) = 3 => Len(parts) = 2) /\ (Len(path) = 4 => Len(parts) = 3)
    /\ Len(parts) = 2 => Len(path) = 3 /\ parts[2] = path[3]
    /\ Len(parts) = 3 => Len(path) = 4 /\ parts[2] = path[3] /\ parts[3] = path[4]

\* Splitting keeps the third and the fourth segment of a path.
LEMMA PartsOfPath ==
    ASSUME NEW path \in Seq(STRING), Path!HasBasePath(path)
    PROVE  PartsOf(Path!PathParts(path), path)
<1>1. Len(path) >= 2 /\ path[2] \in { "accounts", "accountsx" }
  BY DEF Path!HasBasePath, Path!BasePathRest
<1> DEFINE rest == SubSeq(path, 3, Len(path))
           first == Path!BasePathRest[path[2]]
           A == STRING \cup { first }
<1>2. Path!PathParts(path) = << first >> \o rest
  BY DEF Path!PathParts
<1> HIDE DEF first
<1>3. Len(path) \in Nat /\ 3 \in Int /\ Len(path) \in Int
  BY <1>1
<1>4. \A k \in 3 .. Len(path) : path[k] \in A
  BY <1>3
<1> HIDE DEF A
<1>5. /\ rest \in Seq(A)
      /\ Len(rest) = IF 3 <= Len(path) THEN Len(path) - 3 + 1 ELSE 0
      /\ \A k \in 1 .. Len(path) - 3 + 1 : rest[k] = path[3 + k - 1]
  BY <1>3, <1>4, SubSeqProperties
<1> HIDE DEF rest
<1>6. /\ Len(rest) = Len(path) - 2
      /\ Len(path) >= 3 => rest[1] = path[3]
      /\ Len(path) >= 4 => rest[2] = path[4]
  <2>1. Len(rest) = Len(path) - 2
    <3>1. CASE Len(path) >= 3
      <4>1. Len(rest) = Len(path) - 3 + 1
        BY <1>3, <1>5, <3>1
      <4> QED BY <1>3, <4>1
    <3>2. CASE Len(path) = 2
      <4>1. Len(rest) = IF 3 <= Len(path) THEN Len(path) - 3 + 1 ELSE 0
        BY <1>5
      <4>2. Len(rest) = IF 3 <= 2 THEN 2 - 3 + 1 ELSE 0
        BY <3>2, <4>1, Zenon
      <4>3. Len(rest) = 0
        BY <4>2
      <4> QED BY <3>2, <4>3
    <3>3. Len(path) >= 3 \/ Len(path) = 2
      <4>1. Len(path) >= 2
        BY <1>1, Zenon
      <4> DEFINE m == Len(path)
      <4>2. m \in Nat /\ m >= 2
        BY <1>3, <4>1, Zenon
      <4> HIDE DEF m
      <4>3. m >= 3 \/ m = 2
        BY <4>2
      <4> QED BY <4>3 DEF m
    <3> QED BY <3>1, <3>2, <3>3
  <2>2. ASSUME Len(path) >= 3 PROVE rest[1] = path[3]
    <3>1. 1 \in 1 .. Len(path) - 3 + 1 /\ 3 + 1 - 1 = 3
      BY <1>3, <2>2
    <3> QED BY <1>5, <3>1
  <2>3. ASSUME Len(path) >= 4 PROVE rest[2] = path[4]
    <3>1. 2 \in 1 .. Len(path) - 3 + 1 /\ 3 + 2 - 1 = 4
      BY <1>3, <2>3
    <3> QED BY <1>5, <3>1
  <2> QED BY <2>1, <2>2, <2>3
<1>7. << first >> \in Seq(A) /\ Len(<< first >>) = 1
  BY DEF A
<1>8. Joins(<< first >> \o rest, << first >>, rest)
  BY <1>5, <1>7, Joined, Zenon
<1> DEFINE parts == Path!PathParts(path)
<1>9. /\ Len(parts) = 1 + Len(rest)
      /\ \A k \in 1 .. Len(rest) : parts[1 + k] = rest[k]
  BY <1>2, <1>7, <1>8 DEF Joins
<1> HIDE DEF parts
<1>10. Len(parts) = Len(path) - 1
  BY <1>3, <1>6, <1>9
<1>11. Len(path) >= 3 => parts[2] = path[3]
  BY <1>3, <1>6, <1>9
<1>12. Len(path) >= 4 => parts[3] = path[4]
  BY <1>3, <1>6, <1>9
<1>13. PartsOf(parts, path)
  BY <1>1, <1>3, <1>10, <1>11, <1>12 DEF PartsOf
<1> QED BY <1>13 DEF parts

\* The action and the account the banker finds in a path.
Routed(r, path) ==
    \/ path = << "v1", "accounts" >> /\ r.action = Path!Empty /\ r.account = "*"
    \/ path = << "v1", "activeaccounts" >> /\ r.action = "activeaccounts"
    \/ path = << "v1", "summary" >> /\ r.action = "summary" /\ r.account = "*"
    \/ /\ Len(path) = 3 /\ path[2] \in { "accounts", "accountsx" }
       /\ r.action = Path!Empty /\ r.account = path[3]
    \/ /\ Len(path) = 4 /\ path[2] \in { "accounts", "accountsx" }
       /\ r.action = path[4] /\ r.account = path[3]

\* The fields of a route.
LEMMA FieldsOf ==
    ASSUME NEW x, NEW y, NEW r, r = [ action |-> x, account |-> y ]
    PROVE  r.action = x /\ r.account = y
OBVIOUS

\* What RouteOf finds in a path is one of Routed.
LEMMA RoutedOf ==
    ASSUME NEW path \in Seq(STRING), Path!RouteOf(path).action # "404"
    PROVE  Routed(Path!RouteOf(path), path)
<1> DEFINE r == Path!RouteOf(path)
<1>1. r # Path!NotFound
  BY FieldsOf DEF Path!NotFound
<1>2. CASE Path!HasBasePath(path)
  <2> DEFINE parts == Path!PathParts(path)
  <2>1. PartsOf(parts, path)
    BY <1>2, PartsOfPath
  <2>2. r = CASE path = << "v1", "accounts" >> -> [ action |-> Path!Empty, account |-> "*" ]
              [] Len(parts) = 3 -> [ action |-> parts[3], account |-> parts[2] ]
              [] Len(parts) = 2 -> [ action |-> Path!Empty, account |-> parts[2] ]
              [] OTHER -> Path!NotFound
    BY <1>2 DEF Path!RouteOf
  <2> HIDE DEF parts, r
  <2>3. \/ path = << "v1", "accounts" >> /\ r = [ action |-> Path!Empty, account |-> "*" ]
        \/ Len(parts) = 3 /\ r = [ action |-> parts[3], account |-> parts[2] ]
        \/ Len(parts) = 2 /\ r = [ action |-> Path!Empty, account |-> parts[2] ]
        \/ r = Path!NotFound
    BY <2>2
  <2>4. \/ path = << "v1", "accounts" >> /\ r.action = Path!Empty /\ r.account = "*"
        \/ Len(parts) = 3 /\ r.action = parts[3] /\ r.account = parts[2]
        \/ Len(parts) = 2 /\ r.action = Path!Empty /\ r.account = parts[2]
    BY <1>1, <2>3
  <2> QED BY <2>1, <2>4, Zenon DEF Routed, PartsOf, r
<1>3. CASE ~Path!HasBasePath(path)
  <2>1. r = CASE path = << "v1", "activeaccounts" >> ->
                      [ action |-> "activeaccounts", account |-> "*" ]
              [] path = << "v1", "summary" >> -> [ action |-> "summary", account |-> "*" ]
              [] OTHER -> Path!NotFound
    BY <1>3 DEF Path!RouteOf
  <2> HIDE DEF r
  <2>2. \/ /\ path = << "v1", "activeaccounts" >>
           /\ r = [ action |-> "activeaccounts", account |-> "*" ]
        \/ /\ path = << "v1", "summary" >>
           /\ r = [ action |-> "summary", account |-> "*" ]
        \/ r = Path!NotFound
    BY <2>1
  <2>3. \/ path = << "v1", "activeaccounts" >> /\ r.action = "activeaccounts"
        \/ path = << "v1", "summary" >> /\ r.action = "summary" /\ r.account = "*"
    BY <1>1, <2>2
  <2> QED BY <2>3, Zenon DEF Routed, r
<1> QED BY <1>2, <1>3

\* The relay's choice, action by action.
RelayTaken(a, action, method, path, accountName) ==
    \/ path \in Path!ForAll /\ method = "GET" /\ a = "*"
    \/ action = "accounts" /\ method = "POST" /\ a = accountName
    \/ action = "accounts" /\ method = "GET" /\ Len(path) = 3 /\ a = Path!Segment3(path)
    \/ /\ action \in { "adjustment", "balance", "shadow", "budget" }
       /\ method \in { "POST", "PUT" } /\ a = Path!Segment3(path)
    \/ /\ action \in { "children", "close", "subtree", "summary" }
       /\ method = "GET" /\ path \notin Path!ForAll /\ a = Path!Segment3(path)
    \/ /\ a = Path!Empty
       /\ ~(path \in Path!ForAll /\ method = "GET")
       /\ ~(action = "accounts" /\ method = "POST")
       /\ ~(action = "accounts" /\ method = "GET" /\ Len(path) = 3)
       /\ ~(/\ action \in { "adjustment", "balance", "shadow", "budget" }
            /\ method \in { "POST", "PUT" })
       /\ ~(/\ action \in { "children", "close", "subtree", "summary" }
            /\ method = "GET" /\ path \notin Path!ForAll)

\* The relay takes the account it hashes in one of the ways of RelayTaken.
LEMMA RelayAccount ==
    ASSUME NEW method, NEW path, NEW accountName
    PROVE  RelayTaken(Path!relay_account(method, path, accountName),
                      Path!relay_action(path), method, path, accountName)
<1> DEFINE p1 == path \in Path!ForAll /\ method = "GET"
           action == Path!relay_action(path)
           p2 == action = "accounts" /\ method = "POST"
           p3 == action = "accounts" /\ method = "GET" /\ Len(path) = 3
           p4 == action \in {"adjustment", "balance", "shadow", "budget"}
                  /\ method \in {"POST", "PUT"}
           p5 == action \in {"children", "close", "subtree", "summary"}
                  /\ method = "GET" /\ path \notin Path!ForAll
           a == Path!relay_account(method, path, accountName)
<1>1. a = CASE p1 -> "*" [] p2 -> accountName [] p3 -> Path!Segment3(path)
            [] p4 -> Path!Segment3(path) [] p5 -> Path!Segment3(path) [] OTHER -> Path!Empty
  BY DEF Path!relay_account
<1>2. path \in Path!ForAll => Len(path) = 2
  BY DEF Path!ForAll
<1>3. /\ p1 => ~p2 /\ ~p3 /\ ~p4 /\ ~p5
      /\ p2 => ~p3 /\ ~p4 /\ ~p5
      /\ p3 => ~p4 /\ ~p5
      /\ p4 => ~p5
  BY <1>2
<1> HIDE DEF a, action
<1>4. CASE p1
  <2>1. a = "*"
    BY <1>1, <1>3, <1>4
  <2> QED BY <1>4, <2>1 DEF RelayTaken, a, action
<1>5. CASE p2
  <2>1. a = accountName
    BY <1>1, <1>3, <1>5
  <2> QED BY <1>5, <2>1 DEF RelayTaken, a, action
<1>6. CASE p3
  <2>1. a = Path!Segment3(path)
    BY <1>1, <1>3, <1>6
  <2> QED BY <1>6, <2>1 DEF RelayTaken, a, action
<1>7. CASE p4
  <2>1. a = Path!Segment3(path)
    BY <1>1, <1>3, <1>7
  <2> QED BY <1>7, <2>1 DEF RelayTaken, a, action
<1>8. CASE p5
  <2>1. a = Path!Segment3(path)
    BY <1>1, <1>3, <1>8
  <2> QED BY <1>8, <2>1 DEF RelayTaken, a, action
<1>9. CASE ~p1 /\ ~p2 /\ ~p3 /\ ~p4 /\ ~p5
  <2>1. a = Path!Empty
    BY <1>1, <1>9
  <2> QED BY <1>9, <2>1 DEF RelayTaken, a, action
<1> QED BY <1>4, <1>5, <1>6, <1>7, <1>8, <1>9

\* When the banker handles a request, the relay took the same account from it, or
\* none at all, or the request is a stray creation.
LEMMA RoutesAlike ==
    ASSUME NEW method, NEW path \in Seq(STRING), NEW accountName,
           Path!route(method, path, accountName) # Path!NotFound
    PROVE  LET h == Path!route(method, path, accountName)
               a == Path!relay_account(method, path, accountName)
           IN  /\ h.account = "*" \/ h.account \in Names
               /\ \/ a = h.account \/ a = Path!Empty
                  \/ StrayPath(method, path)
<1> DEFINE h == Path!route(method, path, accountName)
           a == Path!relay_account(method, path, accountName)
           action == Path!relay_action(path)
           r == Path!RouteOf(path)
           Done == a = h.account \/ a = Path!Empty \/ StrayPath(method, path)
<1>1. RouteTaken(h, r, method, accountName)
  BY RouteRuns, Zenon
<1>2. r.action # "404"
  BY <1>1, EmptyText DEF RouteTaken
<1>3. Routed(r, path)
  BY <1>2, RoutedOf, Zenon
<1>4. RelayTaken(a, action, method, path, accountName)
  BY RelayAccount, Zenon
<1>5. path \in Path!ForAll => Len(path) = 2
  BY DEF Path!ForAll
<1>6. Len(path) \in Nat /\ (Len(path) >= 3 => Path!Segment3(path) = path[3])
  BY DEF Path!Segment3
<1> HIDE DEF h, a, r, Done
<1>7. h.account = "*" \/ h.account \in Names
  BY <1>1 DEF RouteTaken
<1>8. ASSUME path = << "v1", "accounts" >> /\ r.action = Path!Empty /\ r.account = "*"
      PROVE  Done
  <2>1. action = "accounts" /\ Len(path) = 2 /\ path \in Path!ForAll
    BY <1>8 DEF Path!relay_action, Path!ForAll
  <2> HIDE DEF action
  <2>2. r.action = Path!Empty /\ r.account = "*"
    BY <1>8
  <2> QED BY <1>1, <1>4, <2>1, <2>2, EmptyText DEF RouteTaken, RelayTaken, Done
<1>9. ASSUME path = << "v1", "activeaccounts" >> /\ r.action = "activeaccounts"
      PROVE  Done
  <2>1. action = "activeaccounts" /\ Len(path) = 2 /\ path \in Path!ForAll
    BY <1>9 DEF Path!relay_action, Path!ForAll
  <2> HIDE DEF action
  <2>2. r.action = "activeaccounts"
    BY <1>9
  <2> QED BY <1>1, <1>4, <2>1, <2>2, EmptyText DEF RouteTaken, RelayTaken, Done
<1>10. ASSUME path = << "v1", "summary" >> /\ r.action = "summary" /\ r.account = "*"
      PROVE  Done
  <2>1. action = "summary" /\ Len(path) = 2 /\ path \in Path!ForAll
    BY <1>10 DEF Path!relay_action, Path!ForAll
  <2> HIDE DEF action
  <2>2. r.action = "summary" /\ r.account = "*"
    BY <1>10
  <2> QED BY <1>1, <1>4, <2>1, <2>2, EmptyText DEF RouteTaken, RelayTaken, Done
<1>11. ASSUME /\ Len(path) = 3 /\ path[2] \in { "accounts", "accountsx" }
              /\ r.action = Path!Empty /\ r.account = path[3]
      PROVE  Done
  <2>1. /\ path \notin Path!ForAll /\ Path!Segment3(path) = path[3]
        /\ action = IF path[2] = "accounts" THEN "accounts" ELSE path[3]
    BY <1>5, <1>6, <1>11 DEF Path!relay_action
  <2> HIDE DEF action
  <2> QED BY <1>1, <1>4, <1>11, <2>1, EmptyText DEF RouteTaken, RelayTaken, Done, StrayPath
<1>12. ASSUME /\ Len(path) = 4 /\ path[2] \in { "accounts", "accountsx" }
              /\ r.action = path[4] /\ r.account = path[3]
      PROVE  Done
  <2>1. /\ path \notin Path!ForAll /\ Path!Segment3(path) = path[3]
        /\ action = path[4]
    BY <1>5, <1>6, <1>12 DEF Path!relay_action
  <2> HIDE DEF action
  <2> QED BY <1>1, <1>4, <1>12, <2>1, EmptyText DEF RouteTaken, RelayTaken, Done
<1>13. Done
  BY <1>3, <1>8, <1>9, <1>10, <1>11, <1>12, Zenon DEF Routed
<1> QED BY <1>7, <1>13 DEF h, a, Done

\* The route of what the banker serves.
LEMMA RouteGiven ==
    ASSUME NEW path, NEW method, NEW accountName,
           method \in DOMAIN Path!Actions, Path!RouteOf(path).action \in Path!Actions[method]
    PROVE  LET r == Path!RouteOf(path)
               h == Path!route(method, path, accountName)
           IN  /\ method = "POST" /\ r.action = Path!Empty /\ accountName \in Names
                  => h.account = accountName
               /\ /\ ~(method = "POST" /\ r.action = Path!Empty)
                  /\ r.action # "activeaccounts"
                  /\ \/ r.account \in Names
                     \/ r.account = "*" /\ r.action \in { Path!Empty, "summary" }
                  => h = r
               /\ r = [ action |-> "activeaccounts", account |-> "*" ]
                  => h.account = "*"
<1> DEFINE r == Path!RouteOf(path)
           h == Path!route(method, path, accountName)
           create == [ action |-> "create", account |-> accountName ]
           all == [ r EXCEPT !.account = "*" ]
           handled == IF method = "POST" /\ r.action = Path!Empty THEN create
                      ELSE IF r.action = "activeaccounts" THEN all ELSE r
           listsAll == /\ handled.account = "*"
                       /\ handled.action \in {Path!Empty, "summary", "activeaccounts"}
<1>1. (listsAll \/ handled.account \in Names) => h = handled
  BY Zenon DEF Path!route
<1>2. create.account = accountName
  OBVIOUS
<1> HIDE DEF h, r, create
<1>3. ASSUME method = "POST", r.action = Path!Empty, accountName \in Names
      PROVE  h.account = accountName
  <2>1. handled = create
    BY <1>3
  <2> HIDE DEF handled
  <2> QED BY <1>1, <1>2, <1>3, <2>1
<1>4. ASSUME ~(method = "POST" /\ r.action = Path!Empty), r.action # "activeaccounts",
             \/ r.account \in Names
             \/ r.account = "*" /\ r.action \in { Path!Empty, "summary" }
      PROVE  h = r
  <2>1. handled = r
    BY <1>4
  <2> HIDE DEF handled
  <2> QED BY <1>1, <1>4, <2>1
<1>5. ASSUME r = [ action |-> "activeaccounts", account |-> "*" ]
      PROVE  h.account = "*"
  <2>1. r.action = "activeaccounts" /\ all.account = "*" /\ all.action = "activeaccounts"
    BY <1>5
  <2> HIDE DEF all
  <2>2. handled = all
    BY <2>1, EmptyText
  <2> HIDE DEF handled
  <2> QED BY <1>1, <2>1, <2>2
<1> QED BY <1>3, <1>4, <1>5 DEF h, r

\* A path of three or four segments is not the path of the accounts.
LEMMA LongPath ==
    ASSUME NEW path, Len(path) = 3 \/ Len(path) = 4
    PROVE  path # << "v1", "accounts" >>
OBVIOUS

\* Below /v1/accounts the third segment is the account, the fourth the action.
LEMMA NamedPaths ==
    ASSUME NEW path \in Seq(STRING), Len(path) = 3 \/ Len(path) = 4,
           path[1] = "v1", path[2] = "accounts"
    PROVE  LET r == Path!RouteOf(path) IN
           /\ r.account = path[3]
           /\ Len(path) = 3 => r.action = Path!Empty
           /\ Len(path) = 4 => r.action = path[4]
<1> DEFINE r == Path!RouteOf(path)
           parts == Path!PathParts(path)
<1>1. Path!HasBasePath(path)
  BY DEF Path!HasBasePath, Path!BasePathRest
<1>2. PartsOf(parts, path)
  BY <1>1, PartsOfPath
<1>3. r = CASE path = << "v1", "accounts" >> -> [ action |-> Path!Empty, account |-> "*" ]
            [] Len(parts) = 3 -> [ action |-> parts[3], account |-> parts[2] ]
            [] Len(parts) = 2 -> [ action |-> Path!Empty, account |-> parts[2] ]
            [] OTHER -> Path!NotFound
  BY <1>1 DEF Path!RouteOf
<1>4. path # << "v1", "accounts" >>
  BY LongPath, Zenon
<1> HIDE DEF parts, r
<1>5. CASE Len(path) = 3
  <2>1. Len(parts) = 2 /\ parts[2] = path[3]
    BY <1>2, <1>5, Zenon DEF PartsOf
  <2>2. Len(parts) # 3
    BY <2>1
  <2>3. r = [ action |-> Path!Empty, account |-> parts[2] ]
    BY <1>3, <1>4, <2>1, <2>2
  <2>4. r.account = path[3] /\ r.action = Path!Empty
    BY <2>1, <2>3
  <2> QED BY <1>5, <2>4 DEF r
<1>6. CASE Len(path) = 4
  <2>1. Len(parts) = 3 /\ parts[2] = path[3] /\ parts[3] = path[4]
    BY <1>2, <1>6, Zenon DEF PartsOf
  <2>2. Len(parts) # 2
    BY <2>1
  <2>3. r = [ action |-> parts[3], account |-> parts[2] ]
    BY <1>3, <1>4, <2>1, <2>2
  <2>4. r.account = path[3] /\ r.action = path[4]
    BY <2>1, <2>3
  <2> QED BY <1>6, <2>4 DEF r
<1> QED BY <1>5, <1>6

\* The account of a supported endpoint, in the relay and in the banker.
LEMMA SupportedAlike ==
    ASSUME NEW method, NEW path \in Seq(STRING), NEW accountName, NEW n \in Names,
           Supported(method, path, accountName, n)
    PROVE  /\ Path!relay_account(method, path, accountName) = n
           /\ Path!route(method, path, accountName).account = n
<1> DEFINE h == Path!route(method, path, accountName)
           a == Path!relay_account(method, path, accountName)
           action == Path!relay_action(path)
           r == Path!RouteOf(path)
<1>1. RelayTaken(a, action, method, path, accountName)
  BY RelayAccount, Zenon
<1>2. Len(path) >= 3 => Path!Segment3(path) = path[3]
  BY DEF Path!Segment3
<1>3. path \in Path!ForAll => Len(path) = 2
  BY DEF Path!ForAll
<1>4. CASE method = "POST" /\ path = << "v1", "accounts" >> /\ accountName = n
  <2>1. action = "accounts"
    BY <1>4 DEF Path!relay_action
  <2>2. r = [ action |-> Path!Empty, account |-> "*" ]
    <3>1. Path!HasBasePath(path)
      BY <1>4 DEF Path!HasBasePath, Path!BasePathRest
    <3>2. Len(Path!PathParts(path)) # 2 /\ Len(Path!PathParts(path)) # 3
      <4>1. PartsOf(Path!PathParts(path), path)
        BY <3>1, PartsOfPath
      <4>2. Len(path) = 2
        BY <1>4
      <4> QED BY <4>1, <4>2, Zenon DEF PartsOf
    <3> QED BY <1>4, <3>1, <3>2 DEF Path!RouteOf
  <2> HIDE DEF a, h, action, r
  <2>3. a = n
    BY <1>1, <1>4, <2>1 DEF RelayTaken
  <2>4. r.action = Path!Empty
    BY <2>2
  <2>5. method \in DOMAIN Path!Actions /\ r.action \in Path!Actions[method]
    BY <1>4, <2>4, HandlersOf
  <2>6. h.account = n
    BY <1>4, <2>4, <2>5, RouteGiven, Zenon DEF h, r
  <2> QED BY <2>3, <2>6 DEF a, h
<1>5. CASE method = "GET" /\ path = << "v1", "accounts", n >>
  <2>1. Len(path) = 3 /\ path[1] = "v1" /\ path[2] = "accounts" /\ path[3] = n
    BY <1>5
  <2>2. action = "accounts"
    BY <2>1 DEF Path!relay_action
  <2>3. r.account = n /\ r.action = Path!Empty
    BY <2>1, NamedPaths
  <2> HIDE DEF a, h, action, r
  <2>4. path \notin Path!ForAll /\ Path!Segment3(path) = n
    BY <1>2, <1>3, <2>1
  <2>5. a = n
    BY <1>1, <1>5, <2>1, <2>2, <2>4 DEF RelayTaken
  <2>6. method \in DOMAIN Path!Actions /\ r.action \in Path!Actions[method]
    BY <1>5, <2>3, HandlersOf
  <2>7. r.action # "activeaccounts" /\ ~(method = "POST" /\ r.action = Path!Empty)
    BY <1>5, <2>3, EmptyText
  <2>8. h = r
    BY <2>3, <2>6, <2>7, RouteGiven, Zenon DEF h, r
  <2> QED BY <2>3, <2>5, <2>8 DEF a, h
<1>6. ASSUME NEW act \in NamedActions[method], method \in DOMAIN NamedActions,
             path = << "v1", "accounts", n, act >>
      PROVE  a = n /\ h.account = n
  <2>1. Len(path) = 4 /\ path[1] = "v1" /\ path[2] = "accounts" /\ path[3] = n /\ path[4] = act
    BY <1>6
  <2>2. action = act
    BY <2>1 DEF Path!relay_action
  <2>3. r.account = n /\ r.action = act
    BY <2>1, NamedPaths
  <2>4. \/ method = "GET" /\ act \in { "children", "close", "subtree", "summary" }
        \/ method \in { "POST", "PUT" } /\ act \in { "adjustment", "balance", "shadow", "budget" }
    <3>1. NamedActions["GET"] = { "children", "close", "subtree", "summary" }
      BY DEF NamedActions
    <3>2. NamedActions["POST"] = { "adjustment", "balance", "shadow", "budget" }
      BY DEF NamedActions
    <3>3. NamedActions["PUT"] = { "adjustment", "balance", "shadow", "budget" }
      BY DEF NamedActions
    <3>4. method = "GET" \/ method = "POST" \/ method = "PUT"
      BY <1>6 DEF NamedActions
    <3> QED BY <3>1, <3>2, <3>3, <3>4
  <2> HIDE DEF a, h, action, r
  <2>5. path \notin Path!ForAll /\ Path!Segment3(path) = n
    BY <1>2, <1>3, <2>1
  <2>6. a = n
    BY <1>1, <2>2, <2>4, <2>5 DEF RelayTaken
  <2>7. method \in DOMAIN Path!Actions /\ r.action \in Path!Actions[method]
    BY <2>3, <2>4, HandlersOf
  <2>8. r.action # "activeaccounts" /\ ~(method = "POST" /\ r.action = Path!Empty)
    BY <2>3, <2>4, EmptyText
  <2>9. h = r
    BY <2>3, <2>7, <2>8, RouteGiven, Zenon DEF h, r
  <2> QED BY <2>3, <2>6, <2>9
<1> QED BY <1>4, <1>5, <1>6 DEF Supported

\* A GET of a path for all accounts is for all of them, in the relay and in the
\* banker.
LEMMA ForAllAlike ==
    ASSUME NEW path \in Path!ForAll, path \in Seq(STRING), NEW accountName
    PROVE  /\ Path!relay_account("GET", path, accountName) = "*"
           /\ Path!route("GET", path, accountName).account = "*"
<1> DEFINE h == Path!route("GET", path, accountName)
           a == Path!relay_account("GET", path, accountName)
           r == Path!RouteOf(path)
<1>1. a = "*"
  <2> DEFINE action == Path!relay_action(path)
  <2>1. RelayTaken(a, action, "GET", path, accountName)
    BY RelayAccount, Zenon
  <2>2. path \in Path!ForAll /\ "GET" = "GET"
    OBVIOUS
  <2>3. Len(path) = 2
    BY DEF Path!ForAll
  <2>4. "GET" # "POST" /\ "GET" \notin { "POST", "PUT" } /\ Len(path) # 3
    BY <2>3
  <2> HIDE DEF a, action
  <2> QED BY <2>1, <2>2, <2>4, Zenon DEF RelayTaken
<1>2. \/ r = [ action |-> Path!Empty, account |-> "*" ]
      \/ r = [ action |-> "activeaccounts", account |-> "*" ]
      \/ r = [ action |-> "summary", account |-> "*" ]
  <2>1. CASE path = << "v1", "accounts" >>
    <3>1. Path!HasBasePath(path)
      BY <2>1 DEF Path!HasBasePath, Path!BasePathRest
    <3>2. Len(Path!PathParts(path)) # 2 /\ Len(Path!PathParts(path)) # 3
      <4>1. PartsOf(Path!PathParts(path), path)
        BY <3>1, PartsOfPath
      <4>2. Len(path) = 2
        BY <2>1
      <4> QED BY <4>1, <4>2, Zenon DEF PartsOf
    <3> QED BY <2>1, <3>1, <3>2 DEF Path!RouteOf
  <2>2. CASE path = << "v1", "activeaccounts" >> \/ path = << "v1", "summary" >>
    <3>1. ~Path!HasBasePath(path)
      BY <2>2 DEF Path!HasBasePath, Path!BasePathRest
    <3> QED BY <2>2, <3>1 DEF Path!RouteOf
  <2> QED BY <2>1, <2>2 DEF Path!ForAll
<1>3. h.account = "*"
  <2> HIDE DEF h, r
  <2>1. r.account = "*" /\ r.action \in { Path!Empty, "activeaccounts", "summary" }
    BY <1>2
  <2>2. "GET" \in DOMAIN Path!Actions /\ r.action \in Path!Actions["GET"]
    BY <2>1, HandlersOf
  <2>3. CASE r = [ action |-> "activeaccounts", account |-> "*" ]
    BY <2>2, <2>3, RouteGiven, Zenon DEF h, r
  <2>4. CASE r # [ action |-> "activeaccounts", account |-> "*" ]
    <3>1. r.action # "activeaccounts" /\ r.action \in { Path!Empty, "summary" }
      BY <1>2, <2>4, EmptyText
    <3>2. ~("GET" = "POST" /\ r.action = Path!Empty)
      OBVIOUS
    <3>3. h = r
      BY <2>1, <2>2, <3>1, <3>2, RouteGiven, Zenon DEF h, r
    <3> QED BY <2>1, <3>3
  <2> QED BY <2>3, <2>4
<1> QED BY <1>1, <1>3

----------------------------------------------------------------------------
(* The shard of an account.                                                *)

\* The numbers of the new shards.
NewShards == 0 .. Cardinality(DOMAIN migration.to) - 1

\* The script and the relay agree on the shard of an account.
ShardsAgree ==
    /\ \A n \in Names :
         /\ get_shard(n) = relay_shard(Parent[n])
         /\ get_shard(n) \in NewShards
    /\ \A p \in DOMAIN Bytes : relay_shard(p) \in NewShards

\* A remainder is below its divisor.
LEMMA Remainder ==
    ASSUME NEW a \in Nat, NEW b \in Nat \ {0}
    PROVE  a % b \in 0 .. b - 1
OBVIOUS

\* The two tables of hashes agree.
LEMMA Hashed ==
    ASSUME NEW p \in DOMAIN Bytes
    PROVE  HashOf[p] = HashOfPython[p] /\ HashOf[p] \in Nat
<1>1. Bytes[p] \in Seq(Plain)
  BY NamesAssumption DEF Plain
<1> QED BY <1>1, HashesAlike DEF HashOf, HashOfPython

\* The shard the script pushes an account to is the shard the relay asks for it.
LEMMA ShardsOfNames ==
    ASSUME migration \in Migrations
    PROVE  ShardsAgree
<1>1. Cardinality(DOMAIN migration.to) \in Nat \ {0}
  BY MigrationsAssumption, FS_CardinalityType, FS_EmptySet
<1>2. \A p \in DOMAIN Bytes :
         relay_shard(p) \in NewShards /\ relay_shard(p) = HashOfPython[p] % Cardinality(DOMAIN migration.to)
  BY <1>1, Hashed, Remainder, Zenon DEF relay_shard, NewShards
<1>3. \A n \in Names : Parent[n] \in DOMAIN Bytes
  BY NamesAssumption
<1> QED BY <1>2, <1>3, Zenon DEF ShardsAgree, get_shard

----------------------------------------------------------------------------
(* Where a request goes.                                                   *)

\* The names that are no accounts.
Special == { "*", Path!Empty, Path!NoSuchSegment }

\* Special names are no accounts, and are their own parents.
LEMMA SpecialNames ==
    /\ Special \cap Names = {} /\ Special \cap DOMAIN Bytes = {}
    /\ Parent["*"] = "*" /\ Parent[Path!Empty] = Path!Empty
    /\ \A n \in Names : Parent[n] \in DOMAIN Bytes
    /\ Path!Empty # "*" /\ Path!NoSuchSegment # "*" /\ Path!NoSuchSegment # Path!Empty
<1>1. Path!Empty # "*" /\ Path!NoSuchSegment # "*" /\ Path!NoSuchSegment # Path!Empty
  BY Zenon DEF Path!Empty, Path!NoSuchSegment
<1> QED BY <1>1, NamesAssumption DEF Special

\* Forwarded, case by case.
ForwardedTo(parent, shards) ==
    \/ parent = "*" /\ shards = DOMAIN migration.to
    \/ parent = Path!Empty /\ shards = {}
    \/ parent = Path!NoSuchSegment /\ (shards = {} \/ \E s \in NewShards : shards = {s})
    \/ parent \notin Special /\ shards = {relay_shard(parent)}

\* A request is forwarded according to the parent of its account.
LEMMA WhereForwarded ==
    ASSUME NEW parent, NEW shards \in Forwarded(parent)
    PROVE  ForwardedTo(parent, shards)
<1>1. CASE parent = "*"
  <2>1. Forwarded(parent) = {DOMAIN migration.to}
    BY <1>1, SpecialNames DEF Forwarded, Nobody
  <2> QED BY <1>1, <2>1 DEF ForwardedTo
<1>2. CASE parent = Path!Empty
  <2>1. Forwarded(parent) = {{}}
    BY <1>2, SpecialNames DEF Forwarded, Nobody
  <2> QED BY <1>2, <2>1 DEF ForwardedTo
<1>3. CASE parent = Path!NoSuchSegment
  <2>1. Forwarded(parent) = {{}} \cup { {s} : s \in NewShards }
    BY <1>3, SpecialNames DEF Forwarded, Nobody, NewShards
  <2> QED BY <1>3, <2>1 DEF ForwardedTo
<1>4. CASE parent \notin Special
  <2>1. Forwarded(parent) = {{relay_shard(parent)}}
    BY <1>4 DEF Forwarded, Nobody, Special
  <2> QED BY <1>4, <2>1 DEF ForwardedTo
<1> QED BY <1>1, <1>2, <1>3, <1>4 DEF Special

\* A request that was answered.
Answered(request, method, path, accountName) ==
    LET account == Path!relay_account(method, path, accountName) IN
    /\ request.method = method /\ request.path = path /\ request.accountName = accountName
    /\ request.parent = IF account = Path!NoSuchSegment THEN account ELSE Parent[account]
    /\ ForwardedTo(request.parent, request.shards)
    /\ request.handler = IF request.shards = {} \/ ~(request.shards \subseteq DOMAIN migration.to)
                         THEN Path!NotFound
                         ELSE Path!route(method, path, accountName)

\* Serving a request answers it.
LEMMA RequestAnswered ==
    ASSUME NEW method, NEW path, NEW accountName, Request(method, path, accountName)
    PROVE  Answered(served', method, path, accountName)
<1> DEFINE account == Path!relay_account(method, path, accountName)
           parent == IF account = Path!NoSuchSegment THEN account ELSE Parent[account]
<1>1. PICK shards \in Forwarded(parent) :
         served' = [ method |-> method, path |-> path,
                     accountName |-> accountName, parent |-> parent,
                     shards |-> shards,
                     handler |-> IF shards = {} \/ ~(shards \subseteq DOMAIN migration.to)
                                 THEN Path!NotFound
                                 ELSE Path!route(method, path, accountName) ]
  BY Zenon DEF Request
<1>2. ForwardedTo(parent, shards)
  BY WhereForwarded, Zenon
<1> HIDE DEF account, parent
<1>3. /\ served'.method = method /\ served'.path = path /\ served'.accountName = accountName
      /\ served'.parent = parent /\ served'.shards = shards
      /\ served'.handler = IF shards = {} \/ ~(shards \subseteq DOMAIN migration.to)
                           THEN Path!NotFound
                           ELSE Path!route(method, path, accountName)
  BY <1>1
<1> QED BY <1>2, <1>3, Zenon DEF Answered, account, parent

\* What RoutesAgree, BankersOnly, SupportedReached and ShardingTypeOK say of served.
ReadAlike(request) ==
    LET h == request.handler IN
    /\ h # Path!NotFound /\ ~Stray(request) =>
         \/ h.account = "*" /\ request.shards = DOMAIN migration.to
         \/ h.account \in Names /\ request.shards = {relay_shard(Parent[h.account])}
    /\ h # Path!NotFound => request.shards \subseteq DOMAIN migration.to
Reached(request) ==
    /\ \A n \in Names :
         Supported(request.method, request.path, request.accountName, n)
         => \/ request.shards # {} /\ request.handler.account = n
            \/ relay_shard(Parent[n]) \notin DOMAIN migration.to
    /\ (request.method = "GET" /\ request.path \in Path!ForAll)
       => request.handler.account = "*"
Bounded(request) == request.shards \subseteq NewShards \/ request.parent = "*"

\* An answered request was read alike by the relay and the banker.
LEMMA AnswerReadAlike ==
    ASSUME NEW method, NEW path \in Seq(STRING), NEW accountName,
           NEW request, Answered(request, method, path, accountName)
    PROVE  ReadAlike(request)
<1> DEFINE h == request.handler
           a == Path!relay_account(method, path, accountName)
<1> SUFFICES ASSUME h # Path!NotFound
             PROVE  /\ request.shards \subseteq DOMAIN migration.to
                    /\ \/ Stray(request)
                       \/ h.account = "*" /\ request.shards = DOMAIN migration.to
                       \/ /\ h.account \in Names
                          /\ request.shards = {relay_shard(Parent[h.account])}
  BY DEF ReadAlike
<1>1. /\ h = Path!route(method, path, accountName)
      /\ request.shards # {} /\ request.shards \subseteq DOMAIN migration.to
  BY DEF Answered
<1>2. /\ h.account = "*" \/ h.account \in Names
      /\ a = h.account \/ a = Path!Empty \/ StrayPath(method, path)
  BY <1>1, RoutesAlike, Zenon
<1>3. /\ request.method = method /\ request.path = path
      /\ request.parent = IF a = Path!NoSuchSegment THEN a ELSE Parent[a]
      /\ ForwardedTo(request.parent, request.shards)
  BY DEF Answered
<1> HIDE DEF h, a
<1>4. CASE StrayPath(method, path)
  BY <1>1, <1>3, <1>4 DEF Stray
<1>5. CASE a = Path!Empty
  <2>1. request.parent = Path!Empty
    BY <1>3, <1>5, SpecialNames
  <2> QED BY <1>1, <1>3, <2>1, SpecialNames DEF ForwardedTo, Special
<1>6. CASE a = h.account /\ h.account = "*"
  <2>1. request.parent = "*"
    BY <1>3, <1>6, SpecialNames
  <2> QED BY <1>1, <1>3, <1>6, <2>1, SpecialNames DEF ForwardedTo, Special
<1>7. CASE a = h.account /\ h.account \in Names
  <2>1. a # Path!NoSuchSegment /\ Parent[a] \in DOMAIN Bytes
    BY <1>7, SpecialNames DEF Special
  <2>2. request.parent = Parent[a] /\ request.parent \notin Special
    BY <1>3, <2>1, SpecialNames
  <2>3. request.shards = {relay_shard(request.parent)}
    BY <1>3, <2>2 DEF ForwardedTo, Special
  <2> QED BY <1>1, <1>7, <2>2, <2>3
<1> QED BY <1>2, <1>4, <1>5, <1>6, <1>7

\* An answered request of the README's list reached the account it names.
LEMMA AnswerReached ==
    ASSUME migration \in Migrations,
           NEW method, NEW path \in Seq(STRING), NEW accountName,
           NEW request, Answered(request, method, path, accountName)
    PROVE  Reached(request)
<1> DEFINE a == Path!relay_account(method, path, accountName)
<1>1. /\ request.method = method /\ request.path = path /\ request.accountName = accountName
      /\ request.parent = IF a = Path!NoSuchSegment THEN a ELSE Parent[a]
      /\ ForwardedTo(request.parent, request.shards)
      /\ request.handler = IF request.shards = {} \/ ~(request.shards \subseteq DOMAIN migration.to)
                           THEN Path!NotFound
                           ELSE Path!route(method, path, accountName)
  BY DEF Answered
<1>2. ASSUME NEW n \in Names, Supported(method, path, accountName, n),
             relay_shard(Parent[n]) \in DOMAIN migration.to
      PROVE  request.shards # {} /\ request.handler.account = n
  <2>1. a = n /\ Path!route(method, path, accountName).account = n
    BY <1>2, SupportedAlike, Zenon
  <2> HIDE DEF a
  <2>2. n # Path!NoSuchSegment /\ Parent[n] \in DOMAIN Bytes /\ Parent[n] \notin Special
    BY SpecialNames DEF Special
  <2>3. request.parent = Parent[n]
    BY <1>1, <2>1, <2>2
  <2>4. request.shards = {relay_shard(Parent[n])}
    BY <1>1, <2>2, <2>3 DEF ForwardedTo, Special
  <2> QED BY <1>1, <1>2, <2>1, <2>4
<1>3. ASSUME method = "GET", path \in Path!ForAll
      PROVE  request.handler.account = "*"
  <2>1. a = "*" /\ Path!route(method, path, accountName).account = "*"
    BY <1>3, ForAllAlike, Zenon
  <2> HIDE DEF a
  <2>2. request.parent = "*"
    BY <1>1, <2>1, SpecialNames
  <2>3. request.shards = DOMAIN migration.to
    BY <1>1, <2>2, SpecialNames DEF ForwardedTo, Special
  <2>4. DOMAIN migration.to # {}
    BY MigrationsAssumption
  <2> QED BY <1>1, <2>1, <2>3, <2>4
<1> QED BY <1>1, <1>2, <1>3, Zenon DEF Reached

\* An answered request went to shards that exist, or to all of them.
LEMMA AnswerBounded ==
    ASSUME migration \in Migrations, NEW method \in Methods, NEW path \in Paths,
           NEW accountName \in QueryNames,
           NEW request, Answered(request, method, path, accountName)
    PROVE  Bounded(request)
<1> DEFINE a == Path!relay_account(method, path, accountName)
<1>1. /\ request.parent = IF a = Path!NoSuchSegment THEN a ELSE Parent[a]
      /\ ForwardedTo(request.parent, request.shards)
  BY DEF Answered
<1>2. a # Path!NoSuchSegment => Parent[a] \in DOMAIN Bytes \cup { "*", Path!Empty }
  BY RequestsAssumption, Zenon
<1>3. \A p \in DOMAIN Bytes : relay_shard(p) \in NewShards
  BY ShardsOfNames DEF ShardsAgree
<1> HIDE DEF a
<1>4. request.parent \in Special \cup DOMAIN Bytes
  BY <1>1, <1>2 DEF Special
<1>5. request.parent \notin Special => relay_shard(request.parent) \in NewShards
  BY <1>3, <1>4
<1> QED BY <1>1, <1>5 DEF ForwardedTo, Bounded

----------------------------------------------------------------------------
(* The arguments, and the state before the script runs.                    *)

\* The databases the arguments name.
Given ==
    /\ migration.from \in Seq(Databases) /\ Len(migration.from) \in Nat
    /\ \A j \in 1 .. Len(migration.from) :
          migration.from[j] \in Databases /\ migration.from[j] \in From
    /\ From \subseteq Databases
    /\ \A d \in From : \E j \in 1 .. Len(migration.from) : d = migration.from[j]
    /\ \A s \in DOMAIN migration.to : migration.to[s] \in Databases

\* The arguments of a migration name databases.
LEMMA ArgumentsGiven ==
    ASSUME migration \in Migrations
    PROVE  Given
<1>1. migration.from \in Seq(Databases) /\ migration.to \in [ DOMAIN migration.to -> Databases ]
  BY MigrationsAssumption
<1>2. From = { migration.from[j] : j \in 1 .. Len(migration.from) }
  BY <1>1 DEF From, ToSet
<1> HIDE DEF From
<1>3. Len(migration.from) \in Nat /\ \A j \in 1 .. Len(migration.from) : migration.from[j] \in Databases
  BY <1>1
<1> QED BY <1>1, <1>2, <1>3 DEF Given

\* What no step changes.
Kept == /\ UNCHANGED << migration, delete_from, dry_run, before >>
        /\ From' = From /\ Given' = Given /\ NewShards' = NewShards
        /\ \A n : get_shard(n)' = get_shard(n) /\ relay_shard(n)' = relay_shard(n)

\* No step changes the arguments.
LEMMA ArgumentsKept ==
    ASSUME [Next]_vars
    PROVE  Kept
<1>1. UNCHANGED << migration, delete_from, dry_run, before >>
  BY DEF Next, vars, arguments, get_existing_accounts, clean_key, clean_accounts, cleaned, push_set,
         push_sadd, push_fails, pushed, Crash, RunAgain, Request
<1> QED BY <1>1 DEF Kept, From, Given, NewShards, get_shard, relay_shard

\* The invariant holds before the script is run.
LEMMA InitialInv ==
    ASSUME Init
    PROVE  ShardingInv
<1>1. migration \in Migrations /\ delete_from \in BOOLEAN /\ dry_run \in BOOLEAN
  BY DEF Init
<1>2. Given
  BY <1>1, ArgumentsGiven
<1>3. PICK active \in SUBSET Names, archived \in SUBSET Names :
         before = [ d \in Databases |->
           [ records |-> { a \in active \cup archived :
                             migration.old[HashOf[Parent[a]] % Cardinality(DOMAIN migration.old)] = d },
             texts |-> {},
             accounts |-> { a \in active :
                             migration.old[HashOf[Parent[a]] % Cardinality(DOMAIN migration.old)] = d },
             archive |-> { a \in archived :
                             migration.old[HashOf[Parent[a]] % Cardinality(DOMAIN migration.old)] = d } ] ]
  BY DEF Init
<1>4. \A a \in Names : migration.old[HashOf[Parent[a]] % Cardinality(DOMAIN migration.old)] \in From
  <2> SUFFICES ASSUME NEW a \in Names
               PROVE  migration.old[HashOf[Parent[a]] % Cardinality(DOMAIN migration.old)] \in From
    OBVIOUS
  <2> DEFINE c == Cardinality(DOMAIN migration.old)
  <2>1. c \in Nat \ {0} /\ migration.old \in [ 0 .. c - 1 -> From ]
    BY <1>1, MigrationsAssumption DEF From
  <2>2. HashOf[Parent[a]] \in Nat
    BY Hashed, SpecialNames
  <2> HIDE DEF c, From
  <2>3. HashOf[Parent[a]] % c \in 0 .. c - 1
    BY <2>1, <2>2, Remainder
  <2>4. migration.old[HashOf[Parent[a]] % c] \in From
    BY <2>1, <2>3
  <2> QED BY <2>4 DEF c
<1>5. Beginning
  <2>1. before \in [ Databases -> Database ]
    BY <1>3 DEF Database
  <2>2. ASSUME NEW d \in Databases
        PROVE  /\ before[d].texts = {} /\ before[d].accounts \subseteq before[d].records
               /\ before[d].accounts # {} => d \in From
    BY <1>3, <1>4
  <2> QED BY <1>1, <2>1, <2>2 DEF Beginning
<1>6. /\ dbs = before /\ pc = "read" /\ i = 1 /\ accounts = {} /\ setting = Nobody
      /\ interrupted = FALSE /\ served = NoRequest
  BY DEF Init
<1>7. \A d \in Databases : before[d] \in Database
  BY <1>5 DEF Beginning
<1>8. InHand
  <2>1. \A d \in Databases : dbs[d].texts \subseteq dbs[d].records
    BY <1>5, <1>6 DEF Beginning
  <2>2. i \in 1 .. Len(migration.from) + 1
    BY <1>2, <1>6 DEF Given
  <2> QED BY <1>5, <1>6, <2>1, <2>2 DEF InHand, Beginning
<1>9. RecordsThere
  BY <1>5, <1>6 DEF RecordsThere, Beginning
<1>10. Placed
  BY <1>5, <1>6 DEF Placed, Pushed, Beginning
<1>11. Carried
  <2>1. \A n \in Active : Listed(n)
    BY <1>2, <1>5, <1>6 DEF Active, Listed, Beginning, Given
  <2> QED BY <1>6, <2>1 DEF Carried
<1>12. NothingLost
  BY <1>5, <1>6 DEF NothingLost, Beginning
<1>13. served.handler = Path!NotFound
  BY <1>6 DEF NoRequest
<1>14. RoutesAgree /\ BankersOnly
  BY <1>13 DEF RoutesAgree, BankersOnly
<1> QED BY <1>5, <1>8, <1>9, <1>10, <1>11, <1>12, <1>14 DEF ShardingInv

\* What the script takes in hand when it reads the old databases.
ReadFrom(s) ==
    /\ \A x \in s : \E d \in From : \E a \in dbs[d].accounts :
          x = [ name |-> a, parses |-> a \in dbs[d].records \ dbs[d].texts ]
    /\ \A d \in From : \A a \in dbs[d].accounts :
          [ name |-> a, parses |-> a \in dbs[d].records \ dbs[d].texts ] \in s

\* get_existing_accounts takes every account listed in the old databases.
LEMMA AccountsRead ==
    ASSUME get_existing_accounts
    PROVE  ReadFrom(accounts')
<1> DEFINE entry(d, a) == [ name |-> a, parses |-> a \in dbs[d].records \ dbs[d].texts ]
<1>1. accounts' = UNION { { entry(d, a) : a \in dbs[d].accounts } : d \in From }
  BY DEF get_existing_accounts, From
<1> HIDE DEF entry
<1>2. \A x \in accounts' : \E d \in From : \E a \in dbs[d].accounts : x = entry(d, a)
  BY <1>1
<1>3. \A d \in From : \A a \in dbs[d].accounts : entry(d, a) \in accounts'
  BY <1>1
<1> QED BY <1>2, <1>3 DEF ReadFrom, entry

\* Every action keeps what the script has in hand in order.
LEMMA InHandKept ==
    ASSUME ShardingInv, [Next]_vars
    PROVE  InHand'
<1>1. Kept /\ Given
  BY ArgumentsKept, ArgumentsGiven DEF ShardingInv, Beginning
<1>2. InHand /\ Beginning
  BY DEF ShardingInv
<1>3. /\ UNCHANGED << migration, delete_from, dry_run, before >>
      /\ \A n : get_shard(n)' = get_shard(n)
  BY <1>1 DEF Kept
<1>4. /\ dbs \in [ Databases -> Database ]
      /\ \A d \in Databases : dbs[d].texts \subseteq dbs[d].records
      /\ pc \in { "read", "clean", "push", "done", "failed" }
      /\ i \in 1 .. Len(migration.from) + 1
      /\ accounts \in SUBSET [ name : Names, parses : BOOLEAN ]
      /\ interrupted \in BOOLEAN /\ (pc = "failed" => interrupted)
      /\ pc = "clean" => delete_from
      /\ setting # Nobody =>
           /\ setting \in Names /\ pc \in { "push", "failed" } /\ ~dry_run
           /\ get_shard(setting) \in DOMAIN migration.to
  BY <1>2 DEF InHand
<1>5. Len(migration.from) \in Nat
  BY <1>1 DEF Given
<1>6. CASE UNCHANGED << dbs, i, accounts, setting, interrupted, pc >>
  BY <1>3, <1>4, <1>6 DEF InHand
<1>7. CASE get_existing_accounts
  <2>1. /\ pc = "read" /\ pc' = (IF delete_from THEN "clean" ELSE "push") /\ i' = 1
        /\ UNCHANGED << dbs, setting, interrupted >>
    BY <1>7 DEF get_existing_accounts
  <2>2. \A d \in From : dbs[d].accounts \subseteq Names
    BY <1>1, <1>4 DEF Given, Database
  <2>3. accounts' \in SUBSET [ name : Names, parses : BOOLEAN ]
    <3> SUFFICES ASSUME NEW x \in accounts' PROVE x \in [ name : Names, parses : BOOLEAN ]
      OBVIOUS
    <3>0. PICK d \in From : \E a \in dbs[d].accounts :
              x = [ name |-> a, parses |-> a \in dbs[d].records \ dbs[d].texts ]
      BY <1>7, AccountsRead, Zenon DEF ReadFrom
    <3>1. PICK a \in dbs[d].accounts :
              x = [ name |-> a, parses |-> a \in dbs[d].records \ dbs[d].texts ]
      BY <3>0
    <3>2. (a \in dbs[d].records \ dbs[d].texts) \in BOOLEAN
      OBVIOUS
    <3> QED BY <2>2, <3>1, <3>2
  <2>4. setting = Nobody
    BY <1>4, <2>1
  <2>5. i' \in 1 .. Len(migration.from) + 1
    BY <1>5, <2>1
  <2>6. /\ pc' \in { "read", "clean", "push", "done", "failed" }
        /\ pc' = "clean" => delete_from
        /\ pc' # "failed"
    BY <2>1
  <2> QED BY <1>3, <1>4, <2>1, <2>3, <2>4, <2>5, <2>6 DEF InHand
<1>8. ASSUME NEW k \in Names, clean_key(k) PROVE InHand'
  <2> DEFINE d == migration.from[i]
  <2>1. /\ pc = "clean" /\ i <= Len(migration.from)
        /\ dbs' = [ dbs EXCEPT ![d].records = @ \ {k}, ![d].texts = @ \ {k} ]
        /\ UNCHANGED << pc, i, accounts, setting, interrupted >>
    BY <1>8 DEF clean_key
  <2>2. d \in Databases
    BY <1>1, <1>4, <2>1 DEF Given
  <2> HIDE DEF d
  <2>3. dbs' \in [ Databases -> Database ]
    BY <1>4, <2>1, <2>2 DEF Database
  <2>4. \A e \in Databases : dbs'[e].texts \subseteq dbs'[e].records
    BY <1>4, <2>1, <2>2 DEF Database
  <2> QED BY <1>3, <1>4, <2>1, <2>3, <2>4 DEF InHand
<1>9. CASE clean_accounts
  <2> DEFINE d == migration.from[i]
  <2>1. /\ pc = "clean" /\ i <= Len(migration.from) /\ i' = i + 1
        /\ dbs' = IF dry_run THEN dbs ELSE [ dbs EXCEPT ![d].accounts = {} ]
        /\ UNCHANGED << pc, accounts, setting, interrupted >>
    BY <1>9 DEF clean_accounts
  <2>2. d \in Databases
    BY <1>1, <1>4, <2>1 DEF Given
  <2> HIDE DEF d
  <2>3. dbs' \in [ Databases -> Database ]
    BY <1>4, <2>1, <2>2 DEF Database
  <2>4. \A e \in Databases : dbs'[e].texts \subseteq dbs'[e].records
    BY <1>4, <2>1, <2>2 DEF Database
  <2>5. i' \in 1 .. Len(migration.from) + 1
    BY <1>4, <1>5, <2>1
  <2> QED BY <1>3, <1>4, <2>1, <2>3, <2>4, <2>5 DEF InHand
<1>10. CASE cleaned
  BY <1>3, <1>4, <1>10 DEF InHand, cleaned
<1>11. ASSUME NEW a \in accounts, push_set(a) PROVE InHand'
  <2> DEFINE d == migration.to[get_shard(a.name)]
  <2>1. /\ pc = "push" /\ ~dry_run /\ get_shard(a.name) \in DOMAIN migration.to
        /\ dbs' = [ dbs EXCEPT ![d].records = @ \cup {a.name},
                     ![d].texts = IF a.parses THEN @ \ {a.name} ELSE @ \cup {a.name} ]
        /\ setting' = a.name /\ accounts' = accounts \ {a}
        /\ UNCHANGED << pc, i, interrupted >>
    BY <1>11 DEF push_set
  <2>2. d \in Databases /\ a.name \in Names
    BY <1>1, <1>4, <2>1 DEF Given
  <2> HIDE DEF d
  <2> DEFINE texts == IF a.parses THEN dbs[d].texts \ {a.name} ELSE dbs[d].texts \cup {a.name}
             records == dbs[d].records \cup {a.name}
  <2>3. dbs[d] \in Database /\ dbs[d].texts \subseteq dbs[d].records
    BY <1>4, <2>2
  <2>4. texts \in SUBSET Names /\ records \in SUBSET Names /\ texts \subseteq records
    BY <2>2, <2>3 DEF Database
  <2>5. dbs' = [ dbs EXCEPT ![d].records = records, ![d].texts = texts ]
    BY <2>1
  <2> HIDE DEF texts, records
  <2>6. dbs' \in [ Databases -> Database ]
    BY <1>4, <2>2, <2>3, <2>4, <2>5 DEF Database
  <2>7. \A e \in Databases : dbs'[e].texts \subseteq dbs'[e].records
    BY <1>4, <2>2, <2>3, <2>4, <2>5 DEF Database
  <2> QED BY <1>3, <1>4, <2>1, <2>2, <2>6, <2>7 DEF InHand
<1>12. CASE push_sadd
  <2> DEFINE d == migration.to[get_shard(setting)]
  <2>1. /\ pc = "push" /\ setting # Nobody /\ setting' = Nobody
        /\ dbs' = [ dbs EXCEPT ![d].accounts = @ \cup {setting} ]
        /\ UNCHANGED << pc, i, accounts, interrupted >>
    BY <1>12 DEF push_sadd
  <2>2. d \in Databases /\ setting \in Names
    BY <1>1, <1>4, <2>1 DEF Given
  <2> HIDE DEF d
  <2>3. dbs' \in [ Databases -> Database ]
    BY <1>4, <2>1, <2>2 DEF Database
  <2>4. \A e \in Databases : dbs'[e].texts \subseteq dbs'[e].records
    BY <1>4, <2>1, <2>2 DEF Database
  <2> QED BY <1>3, <1>4, <2>1, <2>3, <2>4 DEF InHand, Nobody
<1>13. ASSUME NEW a \in accounts, push_fails(a) PROVE InHand'
  BY <1>3, <1>4, <1>13 DEF InHand, push_fails
<1>14. CASE pushed
  <2>1. setting = Nobody
    BY <1>4, <1>14 DEF pushed
  <2> QED BY <1>3, <1>4, <1>14, <2>1 DEF InHand, pushed
<1>15. CASE Crash
  BY <1>3, <1>4, <1>15 DEF InHand, Crash
<1>16. CASE RunAgain
  <2>1. i' \in 1 .. Len(migration.from) + 1
    BY <1>5, <1>16 DEF RunAgain
  <2> QED BY <1>3, <1>4, <1>16, <2>1 DEF InHand, RunAgain
<1>17. ASSUME NEW method \in Methods, NEW path \in Paths, NEW accountName \in QueryNames,
              Request(method, path, accountName)
       PROVE  InHand'
  BY <1>3, <1>6, <1>17 DEF Request
<1> QED BY <1>6, <1>7, <1>8, <1>9, <1>10, <1>11, <1>12, <1>13, <1>14, <1>15, <1>16, <1>17
        DEF Next, vars

----------------------------------------------------------------------------
(* What the steps on the databases do.                                     *)

\* The databases a step leaves alone.
Others(d) == \A e \in Databases : e # d => dbs'[e] = dbs[e]

\* clean_key takes one record out of one database.
LEMMA KeyCleaned ==
    ASSUME InHand, Given, NEW k, clean_key(k)
    PROVE  LET d == migration.from[i] IN
           /\ d \in Databases /\ Others(d)
           /\ dbs'[d].records = dbs[d].records \ {k} /\ dbs'[d].texts = dbs[d].texts \ {k}
           /\ dbs'[d].accounts = dbs[d].accounts /\ dbs'[d].archive = dbs[d].archive
<1>1. /\ i <= Len(migration.from) /\ i \in 1 .. Len(migration.from) + 1
      /\ dbs \in [ Databases -> Database ]
  BY DEF clean_key, InHand
<1> DEFINE d == migration.from[i]
<1>2. d \in Databases
  BY <1>1 DEF Given
<1>3. dbs' = [ dbs EXCEPT ![d].records = @ \ {k}, ![d].texts = @ \ {k} ]
  BY DEF clean_key
<1> HIDE DEF d
<1> QED BY <1>1, <1>2, <1>3 DEF Others, Database, d

\* clean_accounts empties the list of one database, unless it is a dry run.
LEMMA ListCleaned ==
    ASSUME InHand, Given, clean_accounts
    PROVE  LET d == migration.from[i] IN
           /\ d \in Databases /\ Others(d) /\ dbs'[d].records = dbs[d].records
           /\ dbs'[d].texts = dbs[d].texts /\ dbs'[d].archive = dbs[d].archive
           /\ dbs'[d].accounts = IF dry_run THEN dbs[d].accounts ELSE {}
<1>1. /\ i <= Len(migration.from) /\ i \in 1 .. Len(migration.from) + 1
      /\ dbs \in [ Databases -> Database ]
  BY DEF clean_accounts, InHand
<1> DEFINE d == migration.from[i]
<1>2. d \in Databases
  BY <1>1 DEF Given
<1>3. dbs' = IF dry_run THEN dbs ELSE [ dbs EXCEPT ![d].accounts = {} ]
  BY DEF clean_accounts
<1> HIDE DEF d
<1> QED BY <1>1, <1>2, <1>3 DEF Others, Database, d

\* push_set writes one record into the database of the account's shard.
LEMMA RecordPushed ==
    ASSUME InHand, Given, NEW a \in accounts, push_set(a)
    PROVE  LET d == migration.to[get_shard(a.name)] IN
           /\ d \in Databases /\ a.name \in Names
           /\ Others(d) /\ dbs'[d].records = dbs[d].records \cup {a.name}
           /\ dbs'[d].texts = IF a.parses THEN dbs[d].texts \ {a.name}
                              ELSE dbs[d].texts \cup {a.name}
           /\ dbs'[d].accounts = dbs[d].accounts /\ dbs'[d].archive = dbs[d].archive
<1> DEFINE d == migration.to[get_shard(a.name)]
<1>1. /\ dbs \in [ Databases -> Database ]
      /\ accounts \in SUBSET [ name : Names, parses : BOOLEAN ]
  BY DEF InHand
<1>2. d \in Databases /\ a.name \in Names
  BY <1>1 DEF Given, push_set
<1>3. dbs' = [ dbs EXCEPT ![d].records = @ \cup {a.name},
                 ![d].texts = IF a.parses THEN @ \ {a.name} ELSE @ \cup {a.name} ]
  BY DEF push_set
<1> HIDE DEF d
<1> QED BY <1>1, <1>2, <1>3 DEF Others, Database, d

\* push_sadd lists the account there.
LEMMA ListPushed ==
    ASSUME InHand, Given, push_sadd
    PROVE  LET d == migration.to[get_shard(setting)] IN
           /\ setting \in Names /\ get_shard(setting) \in DOMAIN migration.to
           /\ d \in Databases /\ Others(d) /\ dbs'[d].records = dbs[d].records
           /\ dbs'[d].texts = dbs[d].texts /\ dbs'[d].archive = dbs[d].archive
           /\ dbs'[d].accounts = dbs[d].accounts \cup {setting}
<1> DEFINE d == migration.to[get_shard(setting)]
<1>1. /\ dbs \in [ Databases -> Database ]
      /\ setting \in Names /\ get_shard(setting) \in DOMAIN migration.to
  BY DEF InHand, push_sadd
<1>2. d \in Databases
  BY <1>1 DEF Given
<1>3. dbs' = [ dbs EXCEPT ![d].accounts = @ \cup {setting} ]
  BY DEF push_sadd
<1> HIDE DEF d
<1> QED BY <1>1, <1>2, <1>3 DEF Others, Database, d

\* No step loses what the databases held: without --delete_from a record is only
\* overwritten with what was read from it.
LEMMA NothingLostKept ==
    ASSUME ShardingInv, [Next]_vars
    PROVE  NothingLost'
<1>1. Kept /\ Given
  BY ArgumentsKept, ArgumentsGiven DEF ShardingInv, Beginning
<1>2. InHand /\ Beginning /\ RecordsThere /\ NothingLost
  BY DEF ShardingInv
<1>3. UNCHANGED << migration, delete_from, dry_run, before >>
  BY <1>1 DEF Kept
<1>4. CASE UNCHANGED dbs
  BY <1>2, <1>3, <1>4 DEF NothingLost
<1>5. ASSUME NEW k \in Names, clean_key(k) PROVE NothingLost'
  <2>1. delete_from /\ ~dry_run
    BY <1>2, <1>5 DEF clean_key, InHand
  <2> QED BY <1>2, <1>3, <2>1 DEF NothingLost, Beginning
<1>6. CASE clean_accounts
  <2>1. delete_from
    BY <1>2, <1>6 DEF clean_accounts, InHand
  <2>2. dry_run => dbs' = dbs
    BY <1>6 DEF clean_accounts
  <2> QED BY <1>2, <1>3, <2>1, <2>2 DEF NothingLost, Beginning
<1>7. ASSUME NEW a \in accounts, push_set(a) PROVE NothingLost'
  <2> DEFINE d == migration.to[get_shard(a.name)]
  <2>1. ~dry_run /\ (~delete_from => a.parses)
    BY <1>2, <1>7 DEF push_set, RecordsThere, Beginning
  <2>2. /\ d \in Databases /\ Others(d) /\ dbs'[d].records = dbs[d].records \cup {a.name}
        /\ dbs'[d].texts = IF a.parses THEN dbs[d].texts \ {a.name}
                           ELSE dbs[d].texts \cup {a.name}
        /\ dbs'[d].accounts = dbs[d].accounts /\ dbs'[d].archive = dbs[d].archive
    BY <1>1, <1>2, <1>7, RecordPushed
  <2> HIDE DEF d
  <2>3. ASSUME ~delete_from, NEW e \in Databases
        PROVE  /\ dbs[e].records \ dbs[e].texts \subseteq dbs'[e].records \ dbs'[e].texts
               /\ dbs[e].accounts \subseteq dbs'[e].accounts
               /\ dbs[e].archive \subseteq dbs'[e].archive
    BY <2>1, <2>2, <2>3 DEF Others
  <2> QED BY <1>2, <1>3, <2>1, <2>3 DEF NothingLost
<1>8. CASE push_sadd
  <2> DEFINE d == migration.to[get_shard(setting)]
  <2>1. ~dry_run
    BY <1>2, <1>8 DEF push_sadd, InHand
  <2>2. /\ d \in Databases /\ Others(d) /\ dbs'[d].records = dbs[d].records
        /\ dbs'[d].texts = dbs[d].texts /\ dbs'[d].archive = dbs[d].archive
        /\ dbs'[d].accounts = dbs[d].accounts \cup {setting}
    BY <1>1, <1>2, <1>8, ListPushed
  <2> HIDE DEF d
  <2>3. ASSUME ~delete_from, NEW e \in Databases
        PROVE  /\ dbs[e].records \ dbs[e].texts \subseteq dbs'[e].records \ dbs'[e].texts
               /\ dbs[e].accounts \subseteq dbs'[e].accounts
               /\ dbs[e].archive \subseteq dbs'[e].archive
    BY <2>1, <2>2, <2>3 DEF Others
  <2> QED BY <1>2, <1>3, <2>1, <2>3 DEF NothingLost
<1> QED BY <1>4, <1>5, <1>6, <1>7, <1>8 DEF Next, vars, get_existing_accounts, cleaned,
        push_fails, pushed, Crash, RunAgain, Request

\* Every request served is read alike by the relay and the banker.
LEMMA ServedKept ==
    ASSUME ShardingInv, [Next]_vars
    PROVE  RoutesAgree' /\ BankersOnly'
<1>1. migration' = migration /\ migration \in Migrations
  BY ArgumentsKept DEF Kept, ShardingInv, Beginning
<1>2. \A p : relay_shard(p)' = relay_shard(p)
  BY ArgumentsKept DEF Kept
<1>3. CASE UNCHANGED served
  BY <1>1, <1>2, <1>3 DEF ShardingInv, RoutesAgree, BankersOnly
<1>4. ASSUME NEW method \in Methods, NEW path \in Paths, NEW accountName \in QueryNames,
             Request(method, path, accountName)
      PROVE  RoutesAgree' /\ BankersOnly'
  <2>1. path \in Seq(STRING)
    BY RequestsAssumption
  <2>2. ReadAlike(served')
    BY <1>4, <2>1, RequestAnswered, AnswerReadAlike, Zenon
  <2> QED BY <1>1, <1>2, <2>2 DEF ReadAlike, RoutesAgree, BankersOnly, Stray
<1> QED BY <1>3, <1>4 DEF Next, vars, get_existing_accounts, clean_key, clean_accounts, cleaned,
        push_set, push_sadd, push_fails, pushed, Crash, RunAgain

\* No step leaves a listed account without its record, except the cleaning of the
\* database it works on.
LEMMA RecordsThereKept ==
    ASSUME ShardingInv, [Next]_vars
    PROVE  RecordsThere'
<1>1. Kept /\ Given
  BY ArgumentsKept, ArgumentsGiven DEF ShardingInv, Beginning
<1>2. InHand /\ Beginning /\ RecordsThere /\ NothingLost
  BY DEF ShardingInv
<1>3. /\ UNCHANGED << migration, delete_from, dry_run, before >>
      /\ \A n : get_shard(n)' = get_shard(n)
  BY <1>1 DEF Kept
<1>4. interrupted => interrupted'
  BY DEF Next, vars, get_existing_accounts, clean_key, clean_accounts, cleaned, push_set,
         push_sadd, push_fails, pushed, Crash, RunAgain, Request
<1> SUFFICES ASSUME (delete_from => ~interrupted)'
             PROVE  /\ \A d \in Databases :
                         /\ dbs'[d].texts = {}
                         /\ \/ dbs'[d].accounts \subseteq dbs'[d].records
                            \/ /\ pc' = "clean" /\ i' <= Len(migration.from)
                               /\ d = migration.from[i']
                    /\ \A a \in accounts' : a.parses
                    /\ setting' # Nobody
                       => setting' \in dbs'[migration.to[get_shard(setting')]].records
  BY <1>3 DEF RecordsThere, get_shard
<1>5. /\ \A d \in Databases :
           /\ dbs[d].texts = {}
           /\ \/ dbs[d].accounts \subseteq dbs[d].records
              \/ pc = "clean" /\ i <= Len(migration.from) /\ d = migration.from[i]
      /\ \A a \in accounts : a.parses
      /\ setting # Nobody => setting \in dbs[migration.to[get_shard(setting)]].records
  BY <1>2, <1>3, <1>4 DEF RecordsThere
<1>6. /\ pc = "clean" => delete_from
      /\ setting # Nobody => pc \in { "push", "failed" }
  BY <1>2 DEF InHand
<1>7. CASE UNCHANGED << dbs, i, accounts, setting, pc >>
  BY <1>5, <1>7
<1>8. CASE get_existing_accounts
  <2>1. pc = "read" /\ UNCHANGED << dbs, setting >>
    BY <1>8 DEF get_existing_accounts
  <2>2. \A x \in accounts' : x.parses
    <3> SUFFICES ASSUME NEW x \in accounts' PROVE x.parses
      OBVIOUS
    <3>1. PICK d \in From : \E a \in dbs[d].accounts :
              x = [ name |-> a, parses |-> a \in dbs[d].records \ dbs[d].texts ]
      BY <1>8, AccountsRead, Zenon DEF ReadFrom
    <3>2. PICK a \in dbs[d].accounts :
              x = [ name |-> a, parses |-> a \in dbs[d].records \ dbs[d].texts ]
      BY <3>1
    <3>3. d \in Databases
      BY <1>1 DEF Given
    <3>4. a \in dbs[d].records \ dbs[d].texts
      BY <1>5, <2>1, <3>2, <3>3
    <3> QED BY <3>2, <3>4
  <2> QED BY <1>5, <2>1, <2>2
<1>9. ASSUME NEW k \in Names, clean_key(k)
      PROVE  /\ \A d \in Databases :
                  /\ dbs'[d].texts = {}
                  /\ \/ dbs'[d].accounts \subseteq dbs'[d].records
                     \/ /\ pc' = "clean" /\ i' <= Len(migration.from)
                        /\ d = migration.from[i']
             /\ \A a \in accounts' : a.parses
             /\ setting' = Nobody
  <2> DEFINE d == migration.from[i]
  <2>1. /\ pc = "clean" /\ i <= Len(migration.from)
        /\ UNCHANGED << pc, i, accounts, setting >>
    BY <1>9 DEF clean_key
  <2>2. /\ d \in Databases /\ Others(d) /\ dbs'[d].texts = dbs[d].texts \ {k}
    BY <1>1, <1>2, <1>9, KeyCleaned
  <2> QED BY <1>5, <1>6, <2>1, <2>2 DEF Others
<1>10. CASE clean_accounts
  <2> DEFINE d == migration.from[i]
  <2>1. /\ pc = "clean" /\ i <= Len(migration.from)
        /\ UNCHANGED << accounts, setting >> /\ (dry_run => dbs' = dbs)
    BY <1>10 DEF clean_accounts
  <2>2. /\ d \in Databases /\ Others(d)
        /\ dbs'[d].texts = dbs[d].texts
        /\ dbs'[d].accounts = IF dry_run THEN dbs[d].accounts ELSE {}
    BY <1>1, <1>2, <1>10, ListCleaned
  <2>3. dry_run => dbs'[d].accounts \subseteq dbs'[d].records
    BY <1>2, <2>1, <2>2 DEF NothingLost, Beginning
  <2>4. dbs'[d].accounts \subseteq dbs'[d].records
    BY <2>2, <2>3
  <2> HIDE DEF d
  <2>5. ASSUME NEW e \in Databases, e # d
        PROVE  dbs'[e].texts = {} /\ dbs'[e].accounts \subseteq dbs'[e].records
    BY <1>5, <2>2, <2>5 DEF Others, d
  <2>6. setting = Nobody
    BY <1>6, <2>1
  <2> QED BY <1>5, <2>1, <2>2, <2>4, <2>5, <2>6
<1>11. ASSUME NEW a \in accounts, push_set(a)
       PROVE  /\ \A d \in Databases :
                   dbs'[d].texts = {} /\ dbs'[d].accounts \subseteq dbs'[d].records
              /\ \A b \in accounts' : b.parses
              /\ setting' # Nobody
                 => setting' \in dbs'[migration.to[get_shard(setting')]].records
  <2> DEFINE d == migration.to[get_shard(a.name)]
  <2>1. /\ pc = "push" /\ setting' = a.name /\ accounts' = accounts \ {a}
    BY <1>11 DEF push_set
  <2>2. /\ d \in Databases /\ a.name \in Names
        /\ Others(d) /\ dbs'[d].records = dbs[d].records \cup {a.name}
        /\ dbs'[d].texts = IF a.parses THEN dbs[d].texts \ {a.name}
                           ELSE dbs[d].texts \cup {a.name}
        /\ dbs'[d].accounts = dbs[d].accounts
    BY <1>1, <1>2, <1>11, RecordPushed
  <2>3. setting' \in dbs'[migration.to[get_shard(setting')]].records
    BY <2>1, <2>2
  <2> HIDE DEF d
  <2>4. a.parses
    BY <1>5
  <2> QED BY <1>5, <2>1, <2>2, <2>3, <2>4 DEF Others
<1>12. CASE push_sadd
  <2> DEFINE d == migration.to[get_shard(setting)]
  <2>1. pc = "push" /\ setting # Nobody /\ setting' = Nobody /\ accounts' = accounts
    BY <1>12 DEF push_sadd
  <2>2. /\ d \in Databases /\ Others(d) /\ dbs'[d].records = dbs[d].records
        /\ dbs'[d].texts = dbs[d].texts
        /\ dbs'[d].accounts = dbs[d].accounts \cup {setting}
    BY <1>1, <1>2, <1>12, ListPushed
  <2>3. setting \in dbs[d].records
    BY <1>5, <2>1
  <2> HIDE DEF d
  <2> QED BY <1>5, <2>1, <2>2, <2>3 DEF Others
<1>13. CASE cleaned \/ pushed \/ RunAgain
  <2>1. UNCHANGED dbs /\ accounts' \subseteq accounts /\ (setting' = setting \/ setting' = Nobody)
    BY <1>13 DEF cleaned, pushed, RunAgain
  <2>2. ~(pc = "clean" /\ i <= Len(migration.from))
    BY <1>1, <1>2, <1>13 DEF cleaned, pushed, RunAgain, InHand, Given
  <2> QED BY <1>5, <2>1, <2>2
<1>14. ASSUME Crash \/ \E a \in accounts : push_fails(a)
       PROVE  /\ \A d \in Databases :
                   dbs'[d].texts = {} /\ dbs'[d].accounts \subseteq dbs'[d].records
              /\ \A a \in accounts' : a.parses
              /\ setting' # Nobody
                 => setting' \in dbs'[migration.to[get_shard(setting')]].records
  <2>1. UNCHANGED << dbs, accounts, setting >> /\ interrupted'
    BY <1>14 DEF Crash, push_fails
  <2>2. pc # "clean"
    BY <1>3, <1>6, <2>1
  <2> QED BY <1>5, <2>1, <2>2
<1> QED BY <1>7, <1>8, <1>9, <1>10, <1>11, <1>12, <1>13, <1>14 DEF Next, vars, Request

\* Every step lists accounts in their own shards only.
LEMMA PlacedKept ==
    ASSUME ShardingInv, [Next]_vars
    PROVE  Placed'
<1>1. Kept /\ Given
  BY ArgumentsKept, ArgumentsGiven DEF ShardingInv, Beginning
<1>2. InHand /\ Beginning /\ Placed
  BY DEF ShardingInv
<1>3. /\ UNCHANGED << migration, delete_from, dry_run >> /\ From' = From
      /\ \A n : get_shard(n)' = get_shard(n)
  BY <1>1 DEF Kept
<1>4. i \in 1 .. Len(migration.from) + 1 /\ Len(migration.from) \in Nat
  BY <1>1, <1>2 DEF InHand, Given
<1> DEFINE home(a, d) == get_shard(a) \in DOMAIN migration.to /\ migration.to[get_shard(a)] = d
           here(d) == \/ d \notin From
                      \/ /\ delete_from /\ ~dry_run
                         /\ \/ pc' \in { "push", "done" }
                            \/ pc' = "clean" /\ \E j \in 1 .. i' - 1 : migration.from[j] = d
<1>5. SUFFICES ASSUME NEW d \in Databases, here(d), NEW a \in dbs'[d].accounts
               PROVE  home(a, d)
  BY <1>3 DEF Placed, Pushed, get_shard
<1>6. ASSUME Pushed(d), a \in dbs[d].accounts
      PROVE  home(a, d)
  BY <1>2, <1>6 DEF Placed
<1> HIDE DEF home
<1>7. CASE UNCHANGED << dbs, i, pc >>
  BY <1>5, <1>6, <1>7 DEF Pushed
<1>8. CASE get_existing_accounts \/ Crash \/ RunAgain \/ \E x \in accounts : push_fails(x)
  <2>1. UNCHANGED dbs /\ (pc' \in { "failed", "read" } \/ (pc' = "push" /\ ~delete_from)
                          \/ (pc' = "clean" /\ i' = 1))
    BY <1>8 DEF get_existing_accounts, Crash, RunAgain, push_fails
  <2>2. d \notin From
    BY <1>5, <2>1
  <2> QED BY <1>6, <2>1, <2>2 DEF Pushed
<1>9. ASSUME NEW k \in Names, clean_key(k)
      PROVE  home(a, d)
  <2>1. UNCHANGED << pc, i >>
    BY <1>9 DEF clean_key
  <2>2. dbs'[d].accounts = dbs[d].accounts
    BY <1>1, <1>2, <1>9, KeyCleaned DEF Others
  <2> QED BY <1>5, <1>6, <2>1, <2>2 DEF Pushed
<1>10. CASE clean_accounts
  <2>1. pc = "clean" /\ pc' = pc /\ i' = i + 1
    BY <1>10 DEF clean_accounts
  <2>2. /\ dbs'[d].accounts = dbs[d].accounts \/ dbs'[d].accounts = {}
        /\ ~dry_run /\ d = migration.from[i] => dbs'[d].accounts = {}
    BY <1>1, <1>2, <1>10, ListCleaned DEF Others
  <2>3. d # migration.from[i] \/ dry_run
    BY <1>5, <2>2
  <2>4. Pushed(d)
    BY <1>4, <1>5, <2>1, <2>3 DEF Pushed
  <2> QED BY <1>5, <1>6, <2>2, <2>4
<1>11. CASE cleaned
  <2>1. pc = "clean" /\ i > Len(migration.from) /\ UNCHANGED << dbs, i >>
    BY <1>11 DEF cleaned
  <2>2. d \in From => \E j \in 1 .. i - 1 : migration.from[j] = d
    BY <1>1, <1>4, <2>1 DEF Given
  <2>3. Pushed(d)
    BY <1>5, <2>1, <2>2 DEF Pushed
  <2> QED BY <1>5, <1>6, <2>1, <2>3
<1>12. ASSUME NEW x \in accounts, push_set(x)
       PROVE  home(a, d)
  <2>1. UNCHANGED << pc, i >>
    BY <1>12 DEF push_set
  <2>2. dbs'[d].accounts = dbs[d].accounts
    BY <1>1, <1>2, <1>12, RecordPushed DEF Others
  <2> QED BY <1>5, <1>6, <2>1, <2>2 DEF Pushed
<1>13. CASE push_sadd
  <2> DEFINE e == migration.to[get_shard(setting)]
  <2>1. UNCHANGED << pc, i >>
    BY <1>13 DEF push_sadd
  <2>2. /\ get_shard(setting) \in DOMAIN migration.to /\ Others(e)
        /\ dbs'[e].accounts = dbs[e].accounts \cup {setting}
    BY <1>1, <1>2, <1>13, ListPushed
  <2>3. CASE d = e /\ a = setting
    BY <2>2, <2>3 DEF home
  <2> HIDE DEF e
  <2>4. CASE ~(d = e /\ a = setting)
    <3>1. a \in dbs[d].accounts
      BY <1>5, <2>2, <2>4 DEF Others
    <3> QED BY <1>5, <1>6, <2>1, <3>1 DEF Pushed
  <2> QED BY <2>3, <2>4
<1>14. CASE pushed
  <2>1. pc = "push" /\ pc' = "done" /\ UNCHANGED << dbs, i >>
    BY <1>14 DEF pushed
  <2> QED BY <1>5, <1>6, <2>1 DEF Pushed
<1> QED BY <1>7, <1>8, <1>9, <1>10, <1>11, <1>12, <1>13, <1>14 DEF Next, vars, Request

\* Every step keeps each active account where the script will find it again: an
\* interrupted run is repeated from old databases that nothing was deleted from.
LEMMA CarriedKept ==
    ASSUME ShardingInv, [Next]_vars
    PROVE  Carried'
<1>1. Kept /\ Given
  BY ArgumentsKept, ArgumentsGiven DEF ShardingInv, Beginning
<1>2. InHand /\ Beginning /\ Carried /\ NothingLost
  BY DEF ShardingInv
<1>3. /\ UNCHANGED << migration, delete_from, dry_run, before >> /\ From' = From
      /\ \A n : get_shard(n)' = get_shard(n)
  BY <1>1 DEF Kept
<1>4. interrupted => interrupted'
  BY DEF Next, vars, get_existing_accounts, clean_key, clean_accounts, cleaned, push_set,
         push_sadd, push_fails, pushed, Crash, RunAgain, Request
<1>5. Active' = Active /\ Active \subseteq Names /\ Nobody \notin Names
  BY <1>2, <1>3, SpecialNames DEF Active, Beginning, Database, Special, Nobody
<1> SUFFICES ASSUME ~dry_run, (delete_from => ~interrupted)', NEW n \in Active
             PROVE  /\ pc' = "read" => Listed(n)' \/ AtHome(n)'
                    /\ pc' = "clean" => \/ Taken(n)'
                                        \/ /\ AtHome(n)'
                                           /\ migration.to[get_shard(n)] \notin From
                    /\ pc' = "push" => Taken(n)' \/ setting' = n \/ AtHome(n)'
                    /\ pc' = "done" => AtHome(n)'
  BY <1>3, <1>5 DEF Carried, get_shard
<1>6. /\ pc = "read" => Listed(n) \/ AtHome(n)
      /\ pc = "clean" => Taken(n) \/ (AtHome(n) /\ migration.to[get_shard(n)] \notin From)
      /\ pc = "push" => Taken(n) \/ setting = n \/ AtHome(n)
      /\ pc = "done" => AtHome(n)
  BY <1>2, <1>3, <1>4 DEF Carried
<1>7. ASSUME UNCHANGED dbs PROVE AtHome(n)' = AtHome(n) /\ Listed(n)' = Listed(n)
  BY <1>3, <1>7 DEF AtHome, Listed, get_shard
<1>8. ASSUME UNCHANGED accounts PROVE Taken(n)' = Taken(n)
  BY <1>8 DEF Taken
<1>9. AtHome(n)' = (/\ get_shard(n) \in DOMAIN migration.to
                    /\ n \in dbs'[migration.to[get_shard(n)]].accounts)
  BY <1>3 DEF AtHome, get_shard
<1>10. CASE UNCHANGED << dbs, accounts, setting, pc >>
  BY <1>6, <1>7, <1>8, <1>10
<1>11. CASE get_existing_accounts
  <2>1. pc = "read" /\ UNCHANGED dbs /\ pc' \in { "clean", "push" }
    BY <1>11 DEF get_existing_accounts
  <2>2. Listed(n) => Taken(n)'
    <3> SUFFICES ASSUME NEW d \in From, n \in dbs[d].accounts PROVE Taken(n)'
      BY DEF Listed
    <3> DEFINE x == [ name |-> n, parses |-> n \in dbs[d].records \ dbs[d].texts ]
    <3>1. x \in accounts'
      BY <1>11, AccountsRead, Zenon DEF ReadFrom
    <3>2. x.name = n
      OBVIOUS
    <3> HIDE DEF x
    <3> QED BY <3>1, <3>2 DEF Taken
  <2>3. AtHome(n) /\ migration.to[get_shard(n)] \in From => Listed(n)
    BY DEF AtHome, Listed
  <2> QED BY <1>6, <1>7, <2>1, <2>2, <2>3
<1>12. ASSUME NEW k \in Names, clean_key(k)
       PROVE  /\ pc' = "clean"
              /\ Taken(n)' \/ (AtHome(n)' /\ migration.to[get_shard(n)] \notin From)
  <2>1. pc = "clean" /\ pc' = "clean" /\ UNCHANGED accounts
    BY <1>12 DEF clean_key
  <2>2. \A d \in Databases : dbs'[d].accounts = dbs[d].accounts
    BY <1>1, <1>2, <1>12, KeyCleaned DEF Others
  <2>3. AtHome(n) => AtHome(n)'
    BY <1>1, <1>9, <2>2 DEF AtHome, Given
  <2> QED BY <1>6, <1>8, <2>1, <2>3
<1>13. CASE clean_accounts
  <2>1. pc = "clean" /\ pc' = "clean" /\ UNCHANGED accounts
    BY <1>13 DEF clean_accounts
  <2>2. \A d \in Databases : d \notin From => dbs'[d] = dbs[d]
    BY <1>1, <1>2, <1>13, ListCleaned DEF Others, Given, clean_accounts, InHand
  <2>3. AtHome(n) /\ migration.to[get_shard(n)] \notin From => AtHome(n)'
    BY <1>1, <1>9, <2>2 DEF AtHome, Given
  <2> QED BY <1>6, <1>8, <2>1, <2>3
<1>14. CASE cleaned
  <2>1. pc = "clean" /\ pc' = "push" /\ UNCHANGED << dbs, accounts >>
    BY <1>14 DEF cleaned
  <2> QED BY <1>6, <1>7, <1>8, <2>1
<1>15. ASSUME NEW a \in accounts, push_set(a)
       PROVE  pc' = "push" /\ (Taken(n)' \/ setting' = n \/ AtHome(n)')
  <2>1. /\ pc = "push" /\ pc' = "push" /\ setting = Nobody /\ setting' = a.name
        /\ accounts' = accounts \ {a}
    BY <1>15 DEF push_set
  <2>2. \A d \in Databases : dbs'[d].accounts = dbs[d].accounts
    BY <1>1, <1>2, <1>15, RecordPushed DEF Others
  <2>3. AtHome(n) => AtHome(n)'
    BY <1>1, <1>9, <2>2 DEF AtHome, Given
  <2>4. Taken(n) => Taken(n)' \/ setting' = n
    BY <2>1 DEF Taken
  <2>5. setting # n
    BY <1>5, <2>1
  <2> QED BY <1>6, <2>1, <2>3, <2>4, <2>5
<1>16. CASE push_sadd
  <2> DEFINE e == migration.to[get_shard(setting)]
  <2>1. pc = "push" /\ pc' = "push" /\ UNCHANGED accounts
    BY <1>16 DEF push_sadd
  <2>2. /\ get_shard(setting) \in DOMAIN migration.to /\ e \in Databases /\ Others(e)
        /\ dbs'[e].accounts = dbs[e].accounts \cup {setting}
    BY <1>1, <1>2, <1>16, ListPushed
  <2>3. setting = n => AtHome(n)'
    BY <1>9, <2>2
  <2> HIDE DEF e
  <2>4. AtHome(n) => AtHome(n)'
    BY <1>1, <1>9, <2>2 DEF AtHome, Given, Others
  <2> QED BY <1>6, <1>8, <2>1, <2>3, <2>4
<1>17. CASE pushed
  <2>1. pc = "push" /\ pc' = "done" /\ accounts = {} /\ setting = Nobody /\ UNCHANGED dbs
    BY <1>17 DEF pushed
  <2>2. ~Taken(n) /\ setting # n
    BY <1>5, <2>1 DEF Taken
  <2> QED BY <1>6, <1>7, <2>1, <2>2
<1>18. CASE Crash \/ \E a \in accounts : push_fails(a)
  BY <1>18 DEF Crash, push_fails
<1>19. CASE RunAgain
  <2>1. pc \in { "failed", "done" } /\ pc' = "read" /\ UNCHANGED << dbs, interrupted >>
    BY <1>19 DEF RunAgain
  <2>2. ASSUME pc = "failed" PROVE Listed(n)
    <3>1. ~delete_from
      BY <1>2, <1>3, <2>1, <2>2 DEF InHand
    <3>2. PICK d \in Databases : n \in before[d].accounts
      BY DEF Active
    <3>3. d \in From /\ n \in dbs[d].accounts
      BY <1>2, <3>1, <3>2 DEF Beginning, NothingLost
    <3> QED BY <3>3 DEF Listed
  <2> QED BY <1>6, <1>7, <2>1, <2>2
<1> QED BY <1>10, <1>11, <1>12, <1>13, <1>14, <1>15, <1>16, <1>17, <1>18, <1>19
        DEF Next, vars, Request

\* The invariant holds in every state.
LEMMA ShardingInvariant == Spec => []ShardingInv
<1>1. ASSUME ShardingInv, [Next]_vars PROVE ShardingInv'
  <2>1. Beginning'
    BY <1>1, ArgumentsKept DEF ShardingInv, Beginning, Kept
  <2> QED BY <1>1, <2>1, InHandKept, RecordsThereKept, PlacedKept, CarriedKept, NothingLostKept,
             ServedKept DEF ShardingInv
<1> QED BY <1>1, InitialInv, PTL DEF Spec

----------------------------------------------------------------------------
(* The theorems.                                                           *)

\* Before any request nothing is claimed of one.
LEMMA NoRequestSupported == Reached(NoRequest) /\ Bounded(NoRequest)
<1>1. Path!Empty # "GET" /\ Path!Empty # "POST" /\ Path!Empty # "PUT"
  BY Zenon DEF Path!Empty
<1>2. NoRequest.method = Path!Empty /\ NoRequest.shards = {}
  BY DEF NoRequest
<1>3. Path!Empty \notin DOMAIN NamedActions
  <2>1. DOMAIN NamedActions = { "GET", "POST", "PUT" }
    BY DEF NamedActions
  <2> QED BY <1>1, <2>1
<1>4. \A path, accountName, n : ~Supported(Path!Empty, path, accountName, n)
  BY <1>1, <1>3, Zenon DEF Supported
<1> QED BY <1>1, <1>2, <1>4 DEF Reached, Bounded

\* Every request served is reached and bounded.
LEMMA RequestReached ==
    ASSUME ShardingInv, [Next]_vars, Reached(served), Bounded(served)
    PROVE  (Reached(served) /\ Bounded(served))'
<1>1. migration \in Migrations /\ migration' = migration /\ NewShards' = NewShards
  BY ArgumentsKept DEF Kept, ShardingInv, Beginning
<1>2. \A p : relay_shard(p)' = relay_shard(p)
  BY ArgumentsKept DEF Kept
<1>3. CASE UNCHANGED served
  BY <1>1, <1>2, <1>3 DEF Reached, Bounded
<1>4. ASSUME NEW method \in Methods, NEW path \in Paths, NEW accountName \in QueryNames,
             Request(method, path, accountName)
      PROVE  (Reached(served) /\ Bounded(served))'
  <2>1. path \in Seq(STRING)
    BY RequestsAssumption
  <2>2. Answered(served', method, path, accountName)
    BY <1>4, RequestAnswered, Zenon
  <2>3. Reached(served')
    BY <1>1, <2>1, <2>2, AnswerReached, Zenon
  <2>4. Bounded(served')
    BY <1>1, <2>2, AnswerBounded, Zenon
  <2> QED BY <1>1, <1>2, <2>3, <2>4 DEF Reached, Bounded
<1> QED BY <1>3, <1>4 DEF Next, vars, get_existing_accounts, clean_key, clean_accounts, cleaned,
        push_set, push_sadd, push_fails, pushed, Crash, RunAgain

\* That holds in every state.
LEMMA AlwaysReached == Spec => [](ShardingInv /\ Reached(served) /\ Bounded(served))
<1>1. Init => Reached(served) /\ Bounded(served)
  BY NoRequestSupported DEF Init
<1>2. ShardingInv /\ Reached(served) /\ Bounded(served) /\ [Next]_vars
      => (Reached(served) /\ Bounded(served))'
  BY RequestReached
<1> HIDE DEF Reached, Bounded
<1> QED BY <1>1, <1>2, ShardingInvariant, PTL DEF Spec

\* The script and the databases only ever hold accounts, and a request only goes to
\* shards that exist.
THEOREM ShardingTypeCorrect == Spec => []ShardingTypeOK
<1>1. ShardingInv /\ Bounded(served) => ShardingTypeOK
  BY DEF ShardingInv, InHand, Database, Bounded, NewShards, ShardingTypeOK
<1> QED BY <1>1, AlwaysReached, PTL

\* For every set of accounts, databases and migrations: a dry run changes nothing,
\* and without --delete_from nothing is lost at whatever command the script ends.
THEOREM ShardingLosesNothing == Spec => []NothingLost
<1>1. ShardingInv => NothingLost
  BY DEF ShardingInv
<1> QED BY <1>1, ShardingInvariant, PTL

\* For every request that is not a stray creation, the relay asks the banker that
\* works on the account the request names.
THEOREM ShardingRoutesAgree == Spec => []RoutesAgree
<1>1. ShardingInv => RoutesAgree
  BY DEF ShardingInv
<1> QED BY <1>1, ShardingInvariant, PTL

\* Every endpoint the README lists reaches the account it names, whatever the
\* account is called.
THEOREM ShardingSupportedReached == Spec => []SupportedReached
<1>1. Reached(served) => SupportedReached
  BY DEF Reached, SupportedReached
<1> QED BY <1>1, AlwaysReached, PTL

\* When the script has run to its end, not as a dry run, and the new databases were
\* emptied by --delete_from or none of them is an old one, no account is active in two
\* of them; and unless it was interrupted while it deleted, every banker can load its own.
THEOREM ShardingOneOwner == Spec => []OneOwner
<1>1. ShardingInv => OneOwner
  <2> SUFFICES ASSUME ShardingInv, pc = "done", ~dry_run,
                      delete_from \/ From \cap NewDatabases = {}
               PROVE  /\ \A d, e \in NewDatabases :
                            d # e => dbs[d].accounts \cap dbs[e].accounts = {}
                      /\ (delete_from => ~interrupted) =>
                            \A d \in NewDatabases :
                               dbs[d].accounts \subseteq dbs[d].records \ dbs[d].texts
    BY DEF OneOwner, From
  <2>1. NewDatabases \subseteq Databases
    BY ArgumentsGiven DEF ShardingInv, Beginning, Given, NewDatabases
  <2>2. ASSUME NEW d \in NewDatabases, NEW a \in dbs[d].accounts
        PROVE  migration.to[get_shard(a)] = d
    <3>1. Pushed(d)
      BY DEF Pushed
    <3> QED BY <2>1, <3>1 DEF ShardingInv, Placed
  <2>3. ASSUME delete_from => ~interrupted, NEW d \in NewDatabases
        PROVE  dbs[d].accounts \subseteq dbs[d].records \ dbs[d].texts
    BY <2>1, <2>3 DEF ShardingInv, RecordsThere
  <2>4. \A d, e \in NewDatabases : d # e => dbs[d].accounts \cap dbs[e].accounts = {}
    BY <2>2
  <2> QED BY <2>3, <2>4
<1> QED BY <1>1, ShardingInvariant, PTL

\* After the script every request for an account that was active reaches a banker
\* that has it.
THEOREM ShardingAccountsFound == Spec => []AccountsFound
<1>1. ShardingInv => AccountsFound
  <2> DEFINE h == served.handler
  <2> SUFFICES ASSUME ShardingInv, pc = "done", ~dry_run, delete_from => ~interrupted,
                      h.account \in Active, ~Stray(served), NEW s \in served.shards
               PROVE  /\ s \in DOMAIN migration.to
                      /\ h.account \in dbs[migration.to[s]].records \ dbs[migration.to[s]].texts
                      /\ h.account \in dbs[migration.to[s]].accounts
    BY DEF AccountsFound
  <2>1. Active \subseteq Names
    BY DEF ShardingInv, Beginning, Active, Database
  <2>2. h # Path!NotFound
    <3>1. Path!Empty \notin Names
      BY SpecialNames DEF Special
    <3>2. Path!NotFound.account = Path!Empty
      BY DEF Path!NotFound
    <3> QED BY <2>1, <3>1, <3>2
  <2>3. s \in DOMAIN migration.to
    BY <2>2 DEF ShardingInv, BankersOnly
  <2>4. h.account # "*"
    BY <2>1, SpecialNames DEF Special
  <2>5. served.shards = {relay_shard(Parent[h.account])}
    BY <2>2, <2>4 DEF ShardingInv, RoutesAgree
  <2>6. s = get_shard(h.account)
    BY <2>1, <2>5, ShardsOfNames DEF ShardsAgree, ShardingInv, Beginning
  <2>7. AtHome(h.account)
    BY DEF ShardingInv, Carried
  <2>8. migration.to[s] \in Databases
    BY <2>3, ArgumentsGiven DEF ShardingInv, Beginning, Given
  <2> HIDE DEF h
  <2> QED BY <2>3, <2>6, <2>7, <2>8 DEF AtHome, ShardingInv, RecordsThere
<1> QED BY <1>1, ShardingInvariant, PTL
=============================================================================
