----------------------------- MODULE RelayProofs ----------------------------
(***************************************************************************)
(* Proofs about the relay: no connection is lost, shared or used after it  *)
(* was freed, a client gets one reply at most, the requests for one tree   *)
(* of accounts go to one banker, and the answers of all shards are merged  *)
(* in full, for every number of requests, shards and connections.          *)
(***************************************************************************)
EXTENDS Relay, FiniteSetTheorems, TLAPS

(***************************************************************************)
(* Queues without duplicates.                                              *)
(***************************************************************************)
\* Appending a new element (return_connection).
LEMMA QueueAppend ==
    ASSUME NEW S, NEW q \in Seq(S), NEW elt \in S, IsInjective(q), elt \notin ToSet(q)
    PROVE  /\ Append(q, elt) \in Seq(S)
           /\ ToSet(Append(q, elt)) = ToSet(q) \cup {elt}
           /\ IsInjective(Append(q, elt))
<1> DEFINE a == Append(q, elt)
<1>1. /\ a \in Seq(S) /\ DOMAIN q = 1 .. Len(q) /\ DOMAIN a = 1 .. Len(q) + 1
      /\ Len(q) \in Nat
      /\ \A i \in 1 .. Len(q) : a[i] = q[i]
      /\ a[Len(q) + 1] = elt
  OBVIOUS
<1>2. ASSUME NEW x \in ToSet(a) PROVE x \in ToSet(q) \cup {elt}
  <2>1. PICK i \in 1 .. Len(q) + 1 : x = a[i]
    BY <1>1, <1>2 DEF ToSet
  <2> QED BY <2>1, <1>1 DEF ToSet
<1>3. ASSUME NEW x \in ToSet(q) PROVE x \in ToSet(a)
  BY <1>1 DEF ToSet
<1>4. elt \in ToSet(a)
  BY <1>1 DEF ToSet
<1>5. IsInjective(a)
  <2>1. \A k \in 1 .. Len(q) : q[k] # elt
    BY <1>1 DEF ToSet
  <2>2. ASSUME NEW i \in DOMAIN a, NEW j \in DOMAIN a, a[i] = a[j]
        PROVE  i = j
    BY <1>1, <2>1, <2>2 DEF IsInjective
  <2> QED BY <2>2 DEF IsInjective
<1> QED BY <1>1, <1>2, <1>3, <1>4, <1>5

\* Taking the first element (get_connection).
LEMMA QueueTail ==
    ASSUME NEW S, NEW q \in Seq(S), q # <<>>, IsInjective(q)
    PROVE  /\ Tail(q) \in Seq(S) /\ Head(q) \in S /\ Head(q) \in ToSet(q)
           /\ IsInjective(Tail(q))
           /\ ToSet(Tail(q)) = ToSet(q) \ {Head(q)}
<1> DEFINE a == Tail(q)
<1>1. /\ a \in Seq(S) /\ Len(q) \in Nat \ {0}
      /\ DOMAIN q = 1 .. Len(q) /\ DOMAIN a = 1 .. Len(q) - 1
      /\ \A i \in 1 .. Len(q) - 1 : a[i] = q[i + 1]
      /\ Head(q) = q[1] /\ q[1] \in S
  OBVIOUS
<1>2. Head(q) \in ToSet(q)
  BY <1>1 DEF ToSet
<1>3. IsInjective(a)
  <2> SUFFICES ASSUME NEW i \in DOMAIN a, NEW j \in DOMAIN a, a[i] = a[j]
               PROVE  i = j
    BY DEF IsInjective
  <2>1. i + 1 \in DOMAIN q /\ j + 1 \in DOMAIN q /\ q[i + 1] = q[j + 1]
    BY <1>1
  <2>2. i + 1 = j + 1
    BY <2>1 DEF IsInjective
  <2> QED BY <2>2, <1>1
<1>4. ASSUME NEW x \in ToSet(a) PROVE x \in ToSet(q) \ {Head(q)}
  <2>1. PICK i \in 1 .. Len(q) - 1 : x = q[i + 1]
    BY <1>1, <1>4 DEF ToSet
  <2>2. i + 1 \in DOMAIN q /\ 1 \in DOMAIN q /\ i + 1 # 1
    BY <1>1
  <2>3. q[i + 1] # q[1]
    BY <2>2 DEF IsInjective
  <2> QED BY <2>1, <2>2, <2>3, <1>1 DEF ToSet
<1>5. ASSUME NEW x \in ToSet(q) \ {Head(q)} PROVE x \in ToSet(a)
  <2>1. PICK i \in 1 .. Len(q) : x = q[i]
    BY <1>1, <1>5 DEF ToSet
  <2>2. i - 1 \in 1 .. Len(q) - 1 /\ a[i - 1] = q[i]
    BY <2>1, <1>1, <1>5
  <2> QED BY <2>1, <2>2, <1>1 DEF ToSet
<1> QED BY <1>1, <1>2, <1>3, <1>4, <1>5

----------------------------------------------------------------------------
(***************************************************************************)
(* What each change of the pools and placeholders does to the places of    *)
(* the connections.                                                        *)
(***************************************************************************)
PoolsType(ps) == DOMAIN ps \subseteq Nat /\ ps \in [ DOMAIN ps -> Pool ]

PlaceTypes(ps, allocated, cn, sl, cs) ==
    /\ PoolsType(ps)
    /\ allocated \subseteq Connections
    /\ cn \in [ Requests -> Connections \cup {NULL} ]
    /\ sl \in [ Requests -> Nat ]
    /\ cs \in [ Requests -> SUBSET Connections ]

Places(ps, allocated, cn, sl, cs) ==
    PlaceTypes(ps, allocated, cn, sl, cs) /\ Accounted(ps, allocated, cn, sl, cs)

\* A new pool is empty (get_connection_pool).
LEMMA NewPoolPlaces ==
    ASSUME NEW ps, NEW allocated, NEW cn, NEW sl, NEW cs,
           Places(ps, allocated, cn, sl, cs),
           NEW s \in Nat, NEW endpoint \in Endpoints
    PROVE  /\ Places(WithPool(ps, s, endpoint), allocated, cn, sl, cs)
           /\ s \in DOMAIN WithPool(ps, s, endpoint)
           /\ \A q \in DOMAIN ps : WithPool(ps, s, endpoint)[q] = ps[q]
<1> DEFINE w == WithPool(ps, s, endpoint)
<1>1. /\ DOMAIN w = DOMAIN ps \cup {s}
      /\ \A q \in DOMAIN ps : w[q] = ps[q]
      /\ s \notin DOMAIN ps => w[s] = NewPool(endpoint)
  BY DEF WithPool
<1>2. /\ NewPool(endpoint) \in Pool
      /\ NewPool(endpoint).free_connections = <<>>
      /\ \A c \in Connections : NewPool(endpoint).uses_per_conn[c] = 0
  BY DEF NewPool, Pool
<1>3. ToSet(<<>>) = {} /\ IsInjective(<<>>)
  BY DEF ToSet, IsInjective
<1>4. w \in [ DOMAIN w -> Pool ]
  BY <1>1, <1>2 DEF WithPool, Places, PlaceTypes, PoolsType
<1> HIDE DEF w
<1>5. \A q \in DOMAIN ps : FreeIn(w, q) = FreeIn(ps, q)
  BY <1>1 DEF FreeIn
<1>6. s \notin DOMAIN ps => FreeIn(w, s) = {}
  BY <1>1, <1>2, <1>3 DEF FreeIn
<1>7. PlaceTypes(w, allocated, cn, sl, cs)
  BY <1>1, <1>4 DEF Places, PlaceTypes, PoolsType
<1>8. UsesMatch(w, cn, sl)
  BY <1>1, <1>2, <1>5, <1>6, PoolAssumption
     DEF Places, PlaceTypes, Accounted, UsesMatch, LentOnce
<1>9. FreeOnce(w)
  BY <1>1, <1>2, <1>3, <1>5, <1>6 DEF Places, Accounted, FreeOnce
<1>10. LentOnce(w, cn, sl)
  BY <1>1, <1>5, <1>6 DEF Places, Accounted, LentOnce
<1>11. OwnOnce(w, cn, cs)
  BY <1>1, <1>5, <1>6 DEF Places, Accounted, OwnOnce
<1>12. AllInAPlace(w, allocated, cn, cs)
  BY <1>1, <1>5, <1>6 DEF Places, Accounted, AllInAPlace
<1> QED
  BY <1>1, <1>7, <1>8, <1>9, <1>10, <1>11, <1>12 DEF Places, Accounted, w

\* A new connection is lent to a request (get_connection, single_shoot).
LEMMA CreatePlaces ==
    ASSUME NEW ps, NEW allocated, NEW cn, NEW sl, NEW cs,
           Places(ps, allocated, cn, sl, cs),
           NEW s \in DOMAIN ps, NEW r \in Requests, cn[r] = NULL,
           NEW c \in Connections, c \notin allocated
    PROVE  Places([ ps EXCEPT ![s] = [ ps[s] EXCEPT !.uses_per_conn[c] = 1 ] ],
                  allocated \cup {c},
                  [ cn EXCEPT ![r] = c ], [ sl EXCEPT ![r] = s ], cs)
<1> DEFINE w == [ ps EXCEPT ![s] = [ ps[s] EXCEPT !.uses_per_conn[c] = 1 ] ]
           cn2 == [ cn EXCEPT ![r] = c ]
           sl2 == [ sl EXCEPT ![r] = s ]
<1>1. PlaceTypes(ps, allocated, cn, sl, cs)
  BY DEF Places
<1>2. ps[s] \in Pool
  BY <1>1 DEF PlaceTypes, PoolsType
<1>3. /\ DOMAIN w = DOMAIN ps
      /\ w[s] \in Pool
      /\ \A q \in DOMAIN ps : q # s => w[q] = ps[q]
      /\ w[s].free_connections = ps[s].free_connections
      /\ w[s].uses_per_conn[c] = 1
      /\ \A d \in Connections : d # c => w[s].uses_per_conn[d] = ps[s].uses_per_conn[d]
  BY <1>1, <1>2 DEF Pool, PlaceTypes, PoolsType
<1>4. /\ cn2 \in [ Requests -> Connections \cup {NULL} ] /\ cn2[r] = c
      /\ sl2 \in [ Requests -> Nat ] /\ sl2[r] = s
      /\ \A q \in Requests : q # r => cn2[q] = cn[q] /\ sl2[q] = sl[q]
  BY <1>1 DEF PlaceTypes, PoolsType
<1>5. w \in [ DOMAIN w -> Pool ]
  BY <1>1, <1>3 DEF PlaceTypes, PoolsType
<1> HIDE DEF w, cn2, sl2
<1>6. \A q \in DOMAIN ps : FreeIn(w, q) = FreeIn(ps, q)
  BY <1>3 DEF FreeIn
<1>7. /\ \A q \in DOMAIN ps : c \notin FreeIn(ps, q)
      /\ \A q \in Requests : cn[q] # c /\ c \notin cs[q]
  BY DEF Places, Accounted, AllInAPlace
<1>8. PlaceTypes(w, allocated \cup {c}, cn2, sl2, cs)
  BY <1>1, <1>3, <1>4, <1>5 DEF PlaceTypes, PoolsType
<1>9. UsesMatch(w, cn2, sl2)
  <2> SUFFICES ASSUME NEW q \in DOMAIN w, NEW d \in Connections
               PROVE  w[q].uses_per_conn[d] > 0 <=>
                        \/ d \in FreeIn(w, q)
                        \/ \E x \in Requests : cn2[x] = d /\ sl2[x] = q
    BY DEF UsesMatch
  <2>1. ps[q].uses_per_conn[d] > 0 <=>
           d \in FreeIn(ps, q) \/ \E x \in Requests : cn[x] = d /\ sl[x] = q
    BY <1>3 DEF Places, Accounted, UsesMatch
  <2>2. (d = c /\ q = s) <=> (cn2[r] = d /\ sl2[r] = q)
    BY <1>4
  <2>3. \A x \in Requests : x # r => (cn2[x] = d /\ sl2[x] = q <=> cn[x] = d /\ sl[x] = q)
    BY <1>4
  <2>4. ~(cn[r] = d)
    BY PoolAssumption
  <2>5. d = c /\ q = s => w[q].uses_per_conn[d] > 0
    BY <1>3
  <2>6. ~(d = c /\ q = s) => w[q].uses_per_conn[d] = ps[q].uses_per_conn[d]
    BY <1>3
  <2> QED BY <2>1, <2>2, <2>3, <2>4, <2>5, <2>6, <1>3, <1>6
<1>10. FreeOnce(w)
  BY <1>3, <1>6 DEF Places, Accounted, FreeOnce
<1>11. LentOnce(w, cn2, sl2)
  BY <1>3, <1>4, <1>6, <1>7 DEF Places, Accounted, LentOnce
<1>12. OwnOnce(w, cn2, cs)
  BY <1>1, <1>3, <1>4, <1>6, <1>7 DEF Places, PlaceTypes, Accounted, OwnOnce
<1>13. AllInAPlace(w, allocated \cup {c}, cn2, cs)
  <2> SUFFICES ASSUME NEW d \in Connections
               PROVE  d \in allocated \cup {c} <=>
                        \/ \E q \in DOMAIN w : d \in FreeIn(w, q)
                        \/ \E x \in Requests : cn2[x] = d
                        \/ \E x \in Requests : d \in cs[x]
    BY DEF AllInAPlace
  <2>1. d \in allocated <=> \/ \E q \in DOMAIN ps : d \in FreeIn(ps, q)
                            \/ \E x \in Requests : cn[x] = d
                            \/ \E x \in Requests : d \in cs[x]
    BY DEF Places, Accounted, AllInAPlace
  <2>2. (\E x \in Requests : cn2[x] = d) <=> d = c \/ \E x \in Requests : cn[x] = d
    BY <1>4, PoolAssumption
  <2> QED BY <2>1, <2>2, <1>3, <1>6
<1> QED
  BY <1>8, <1>9, <1>10, <1>11, <1>12, <1>13 DEF Places, Accounted, w, cn2, sl2

\* A failed allocation is counted under NULL (get_connection).
LEMMA NullPlaces ==
    ASSUME NEW ps, NEW allocated, NEW cn, NEW sl, NEW cs,
           Places(ps, allocated, cn, sl, cs), NEW s \in DOMAIN ps
    PROVE  Places([ ps EXCEPT ![s] = [ ps[s] EXCEPT !.uses_per_conn[NULL] = 1 ] ],
                  allocated, cn, sl, cs)
<1> DEFINE w == [ ps EXCEPT ![s] = [ ps[s] EXCEPT !.uses_per_conn[NULL] = 1 ] ]
<1>1. PlaceTypes(ps, allocated, cn, sl, cs)
  BY DEF Places
<1>2. ps[s] \in Pool
  BY <1>1 DEF PlaceTypes, PoolsType
<1>3. /\ DOMAIN w = DOMAIN ps
      /\ w[s] \in Pool
      /\ \A q \in DOMAIN ps : q # s => w[q] = ps[q]
      /\ w[s].free_connections = ps[s].free_connections
      /\ \A d \in Connections : w[s].uses_per_conn[d] = ps[s].uses_per_conn[d]
  BY <1>1, <1>2, PoolAssumption DEF Pool, PlaceTypes, PoolsType
<1>4. w \in [ DOMAIN w -> Pool ]
  BY <1>1, <1>3 DEF PlaceTypes, PoolsType
<1> HIDE DEF w
<1>5. \A q \in DOMAIN ps :
         /\ FreeIn(w, q) = FreeIn(ps, q)
         /\ w[q].free_connections = ps[q].free_connections
         /\ \A d \in Connections : w[q].uses_per_conn[d] = ps[q].uses_per_conn[d]
  BY <1>3 DEF FreeIn
<1>6. PlaceTypes(w, allocated, cn, sl, cs)
  BY <1>1, <1>3, <1>4 DEF PlaceTypes, PoolsType
<1>7. UsesMatch(w, cn, sl)
  BY <1>3, <1>5 DEF Places, Accounted, UsesMatch
<1>8. FreeOnce(w)
  BY <1>3, <1>5 DEF Places, Accounted, FreeOnce
<1>9. LentOnce(w, cn, sl) /\ OwnOnce(w, cn, cs)
  BY <1>3, <1>5 DEF Places, Accounted, LentOnce, OwnOnce
<1>10. AllInAPlace(w, allocated, cn, cs)
  BY <1>3, <1>5 DEF Places, Accounted, AllInAPlace
<1> QED
  BY <1>6, <1>7, <1>8, <1>9, <1>10 DEF Places, Accounted, w

\* The pool after its free connection c was lent (get_connection).
Lend(p, c) == [ p EXCEPT !.uses_per_conn[c] = @ + 1, !.free_connections = Tail(@) ]

\* A free connection is lent to a request (get_connection, single_shoot).
LEMMA ReusePlaces ==
    ASSUME NEW ps, NEW allocated, NEW cn, NEW sl, NEW cs,
           Places(ps, allocated, cn, sl, cs),
           NEW s \in DOMAIN ps, NEW r \in Requests, cn[r] = NULL,
           ps[s].free_connections # <<>>,
           NEW c, c = Head(ps[s].free_connections),
           NEW p, p = Lend(ps[s], c)
    PROVE  /\ c \in Connections /\ c \in allocated /\ c \in FreeIn(ps, s)
           /\ \A q \in Requests : cn[q] # c
           /\ Places([ ps EXCEPT ![s] = p ], allocated,
                     [ cn EXCEPT ![r] = c ], [ sl EXCEPT ![r] = s ], cs)
<1> DEFINE w == [ ps EXCEPT ![s] = p ]
           cn2 == [ cn EXCEPT ![r] = c ]
           sl2 == [ sl EXCEPT ![r] = s ]
<1>1. PlaceTypes(ps, allocated, cn, sl, cs)
  BY DEF Places
<1>2. ps[s] \in Pool
  BY <1>1 DEF PlaceTypes, PoolsType
<1>3. /\ Tail(ps[s].free_connections) \in Seq(Connections)
      /\ c \in Connections /\ c \in FreeIn(ps, s)
      /\ IsInjective(Tail(ps[s].free_connections))
      /\ ToSet(Tail(ps[s].free_connections)) = FreeIn(ps, s) \ {c}
  <2>1. ps[s].free_connections \in Seq(Connections)
    BY <1>2 DEF Pool
  <2>2. IsInjective(ps[s].free_connections)
    BY DEF Places, Accounted, FreeOnce
  <2> QED BY <2>1, <2>2, QueueTail DEF FreeIn
<1>4. /\ c \in allocated
      /\ \A q \in DOMAIN ps : q # s => c \notin FreeIn(ps, q)
      /\ \A q \in Requests : cn[q] # c
      /\ \A q \in Requests : c \notin cs[q]
  <2>1. c \in allocated
    BY <1>3 DEF Places, Accounted, AllInAPlace
  <2>2. \A q \in DOMAIN ps : q # s => c \notin FreeIn(ps, q)
    BY <1>3 DEF Places, Accounted, FreeOnce
  <2>3. \A q \in Requests : cn[q] # c
    BY <1>3, PoolAssumption DEF Places, Accounted, LentOnce
  <2>4. \A q \in Requests : c \notin cs[q]
    BY <1>3 DEF Places, Accounted, OwnOnce
  <2> QED BY <2>1, <2>2, <2>3, <2>4
<1>5. /\ DOMAIN w = DOMAIN ps
      /\ w[s] \in Pool
      /\ \A q \in DOMAIN ps : q # s => w[q] = ps[q]
      /\ w[s].free_connections = Tail(ps[s].free_connections)
      /\ w[s].uses_per_conn[c] > 0
      /\ \A d \in Connections : d # c => w[s].uses_per_conn[d] = ps[s].uses_per_conn[d]
  <2>1. w[s] = p /\ DOMAIN w = DOMAIN ps /\ \A q \in DOMAIN ps : q # s => w[q] = ps[q]
    BY <1>1 DEF PlaceTypes, PoolsType
  <2>2. /\ ps[s].uses_per_conn \in [ Connections \cup {NULL} -> Nat ]
        /\ ps[s].endpoint \in Endpoints
    BY <1>2 DEF Pool
  <2>3. p = [ endpoint |-> ps[s].endpoint,
              uses_per_conn |-> [ ps[s].uses_per_conn EXCEPT ![c] = @ + 1 ],
              free_connections |-> Tail(ps[s].free_connections) ]
    BY <1>2 DEF Pool, Lend
  <2> DEFINE u == [ ps[s].uses_per_conn EXCEPT ![c] = @ + 1 ]
             tl == Tail(ps[s].free_connections)
  <2>4. /\ u \in [ Connections \cup {NULL} -> Nat ] /\ u[c] > 0
        /\ \A d \in Connections : d # c => u[d] = ps[s].uses_per_conn[d]
    BY <1>3, <2>2
  <2>5. p = [ endpoint |-> ps[s].endpoint, uses_per_conn |-> u,
              free_connections |-> tl ]
    BY <2>3, Zenon
  <2>6. tl \in Seq(Connections) /\ tl = Tail(ps[s].free_connections)
    BY <1>3
  <2> DEFINE ep == ps[s].endpoint
  <2>7. p \in Pool
    <3>1. u \in [ Connections \cup {NULL} -> Nat ] /\ ep \in Endpoints
          /\ p = [ endpoint |-> ep, uses_per_conn |-> u, free_connections |-> tl ]
      BY <2>2, <2>4, <2>5
    <3> HIDE DEF u, tl, ep
    <3>2. [ endpoint |-> ep, uses_per_conn |-> u, free_connections |-> tl ] \in Pool
      BY <3>1, <2>6 DEF Pool
    <3> QED BY <3>1, <3>2
  <2> HIDE DEF u, tl
  <2>8. p.uses_per_conn = u /\ p.free_connections = tl
    BY <2>5
  <2> QED BY <2>1, <2>4, <2>6, <2>7, <2>8
<1>6. /\ cn2 \in [ Requests -> Connections \cup {NULL} ] /\ cn2[r] = c
      /\ sl2 \in [ Requests -> Nat ] /\ sl2[r] = s
      /\ \A q \in Requests : q # r => cn2[q] = cn[q] /\ sl2[q] = sl[q]
  BY <1>1, <1>3 DEF PlaceTypes, PoolsType
<1>7. w \in [ DOMAIN w -> Pool ]
  BY <1>1, <1>5 DEF PlaceTypes, PoolsType
<1> HIDE DEF w, cn2, sl2
<1>8. /\ \A q \in DOMAIN ps : q # s => FreeIn(w, q) = FreeIn(ps, q)
      /\ FreeIn(w, s) = FreeIn(ps, s) \ {c}
  BY <1>3, <1>5 DEF FreeIn
<1>9. PlaceTypes(w, allocated, cn2, sl2, cs)
  BY <1>1, <1>5, <1>6, <1>7 DEF PlaceTypes, PoolsType
<1>10. UsesMatch(w, cn2, sl2)
  <2> SUFFICES ASSUME NEW q \in DOMAIN w, NEW d \in Connections
               PROVE  w[q].uses_per_conn[d] > 0 <=>
                        \/ d \in FreeIn(w, q)
                        \/ \E x \in Requests : cn2[x] = d /\ sl2[x] = q
    BY DEF UsesMatch
  <2>1. ps[q].uses_per_conn[d] > 0 <=>
           d \in FreeIn(ps, q) \/ \E x \in Requests : cn[x] = d /\ sl[x] = q
    BY <1>5 DEF Places, Accounted, UsesMatch
  <2>2. (d = c /\ q = s) <=> (cn2[r] = d /\ sl2[r] = q)
    BY <1>6
  <2>3. \A x \in Requests : x # r => (cn2[x] = d /\ sl2[x] = q <=> cn[x] = d /\ sl[x] = q)
    BY <1>6
  <2>4. ~(cn[r] = d)
    BY PoolAssumption
  <2>5. d = c /\ q = s => w[q].uses_per_conn[d] > 0
    BY <1>5
  <2>6. ~(d = c /\ q = s) => w[q].uses_per_conn[d] = ps[q].uses_per_conn[d]
    BY <1>5
  <2>7. ~(d = c /\ q = s) => (d \in FreeIn(w, q) <=> d \in FreeIn(ps, q))
    BY <1>5, <1>8
  <2> QED BY <2>1, <2>2, <2>3, <2>4, <2>5, <2>6, <2>7
<1>11. FreeOnce(w)
  <2>1. \A q \in DOMAIN w : IsInjective(w[q].free_connections)
    BY <1>3, <1>5 DEF Places, Accounted, FreeOnce
  <2>2. \A q \in DOMAIN w : FreeIn(w, q) \subseteq FreeIn(ps, q)
    BY <1>5, <1>8
  <2> QED BY <2>1, <2>2, <1>5 DEF Places, Accounted, FreeOnce
<1>12. LentOnce(w, cn2, sl2)
  BY <1>4, <1>5, <1>6, <1>8 DEF Places, Accounted, LentOnce
<1>13. OwnOnce(w, cn2, cs)
  <2> SUFFICES ASSUME NEW x \in Requests, NEW d \in cs[x]
               PROVE  /\ \A q \in DOMAIN w : d \notin FreeIn(w, q)
                      /\ \A q \in Requests : cn2[q] # d
                      /\ \A q \in Requests : d \in cs[q] => q = x
    BY DEF OwnOnce
  <2>1. /\ \A q \in DOMAIN ps : d \notin FreeIn(ps, q)
        /\ \A q \in Requests : cn[q] # d
        /\ \A q \in Requests : d \in cs[q] => q = x
    BY DEF Places, Accounted, OwnOnce
  <2>2. d # c
    BY <1>4
  <2> QED BY <2>1, <2>2, <1>5, <1>6, <1>8
<1>14. AllInAPlace(w, allocated, cn2, cs)
  <2> SUFFICES ASSUME NEW d \in Connections
               PROVE  d \in allocated <=>
                        \/ \E q \in DOMAIN w : d \in FreeIn(w, q)
                        \/ \E x \in Requests : cn2[x] = d
                        \/ \E x \in Requests : d \in cs[x]
    BY DEF AllInAPlace
  <2>1. d \in allocated <=> \/ \E q \in DOMAIN ps : d \in FreeIn(ps, q)
                            \/ \E x \in Requests : cn[x] = d
                            \/ \E x \in Requests : d \in cs[x]
    BY DEF Places, Accounted, AllInAPlace
  <2>2. (\E x \in Requests : cn2[x] = d) <=> d = c \/ \E x \in Requests : cn[x] = d
    BY <1>6, PoolAssumption
  <2>3. d # c => ((\E q \in DOMAIN w : d \in FreeIn(w, q))
                    <=> (\E q \in DOMAIN ps : d \in FreeIn(ps, q)))
    BY <1>5, <1>8
  <2> QED BY <2>1, <2>2, <2>3, <1>4
<1> QED
  BY <1>3, <1>4, <1>9, <1>10, <1>11, <1>12, <1>13, <1>14
     DEF Places, Accounted, w, cn2, sl2

\* A connection is returned (return_connection, process_relay): it is free
\* again, or it is forgotten and freed.
LEMMA ReturnPlaces ==
    ASSUME NEW ps, NEW allocated, NEW cn, NEW sl, NEW cs,
           Places(ps, allocated, cn, sl, cs),
           NEW r \in Requests, cn[r] # NULL
    PROVE  Places([ ps EXCEPT ![sl[r]] = return_connection(@, cn[r]) ],
                  IF last_use(ps[sl[r]], cn[r]) THEN allocated \ {cn[r]} ELSE allocated,
                  [ cn EXCEPT ![r] = NULL ], sl, cs)
<1> DEFINE s == sl[r]
           c == cn[r]
           last == last_use(ps[s], c)
           w == [ ps EXCEPT ![s] = return_connection(@, c) ]
           cn2 == [ cn EXCEPT ![r] = NULL ]
           al == IF last THEN allocated \ {c} ELSE allocated
<1>1. PlaceTypes(ps, allocated, cn, sl, cs)
  BY DEF Places
<1>2. s \in DOMAIN ps /\ c \in Connections /\ s \in Nat
  BY <1>1 DEF Places, Accounted, LentOnce, PlaceTypes
<1>3. ps[s] \in Pool
  BY <1>1, <1>2 DEF PlaceTypes, PoolsType
<1>4. /\ c \in allocated
      /\ \A q \in DOMAIN ps : c \notin FreeIn(ps, q)
      /\ \A q \in Requests : q # r => cn[q] # c
      /\ \A q \in Requests : c \notin cs[q]
  <2>1. c \in allocated
    BY <1>2 DEF Places, Accounted, AllInAPlace
  <2>2. /\ \A q \in DOMAIN ps : c \notin FreeIn(ps, q)
        /\ \A q \in Requests : q # r => cn[q] # c
    BY DEF Places, Accounted, LentOnce
  <2>3. \A q \in Requests : c \notin cs[q]
    BY DEF Places, Accounted, OwnOnce
  <2> QED BY <2>1, <2>2, <2>3
<1>5. /\ Append(ps[s].free_connections, c) \in Seq(Connections)
      /\ ToSet(Append(ps[s].free_connections, c)) = FreeIn(ps, s) \cup {c}
      /\ IsInjective(Append(ps[s].free_connections, c))
  <2>1. ps[s].free_connections \in Seq(Connections)
    BY <1>3 DEF Pool
  <2>2. IsInjective(ps[s].free_connections) /\ c \notin ToSet(ps[s].free_connections)
    BY <1>2, <1>4 DEF Places, Accounted, FreeOnce, FreeIn
  <2> QED BY <2>1, <2>2, <1>2, QueueAppend DEF FreeIn
<1>6. /\ DOMAIN w = DOMAIN ps
      /\ w[s] \in Pool
      /\ \A q \in DOMAIN ps : q # s => w[q] = ps[q]
      /\ \A d \in Connections : d # c => w[s].uses_per_conn[d] = ps[s].uses_per_conn[d]
      /\ last => /\ w[s].uses_per_conn[c] = 0
                 /\ w[s].free_connections = ps[s].free_connections
      /\ ~last => /\ w[s].uses_per_conn[c] = ps[s].uses_per_conn[c]
                  /\ w[s].free_connections = Append(ps[s].free_connections, c)
  <2>1. w[s] = return_connection(ps[s], c)
    BY <1>1, <1>2 DEF PlaceTypes, PoolsType
  <2>2. DOMAIN w = DOMAIN ps /\ \A q \in DOMAIN ps : q # s => w[q] = ps[q]
    BY <1>1, <1>2 DEF PlaceTypes, PoolsType
  <2> HIDE DEF w
  <2>3. CASE last
    <3>1. w[s] = [ ps[s] EXCEPT !.uses_per_conn[c] = 0 ]
      BY <2>1, <2>3 DEF return_connection
    <3>2. ps[s].uses_per_conn \in [ Connections \cup {NULL} -> Nat ]
      BY <1>3 DEF Pool
    <3>3. /\ w[s].uses_per_conn = [ ps[s].uses_per_conn EXCEPT ![c] = 0 ]
          /\ w[s].free_connections = ps[s].free_connections
      BY <3>1, <1>3 DEF Pool
    <3>4. [ ps[s].uses_per_conn EXCEPT ![c] = 0 ] \in [ Connections \cup {NULL} -> Nat ]
      BY <3>2
    <3>5. w[s] \in Pool
      BY <3>1, <3>4, <1>3 DEF Pool
    <3>6. /\ w[s].uses_per_conn[c] = 0
          /\ \A d \in Connections : d # c => w[s].uses_per_conn[d] = ps[s].uses_per_conn[d]
      BY <3>2, <3>3, <1>2
    <3> QED BY <3>3, <3>5, <3>6, <2>2, <2>3
  <2>4. CASE ~last
    <3>1. w[s] = [ ps[s] EXCEPT !.free_connections = Append(@, c) ]
      BY <2>1, <2>4 DEF return_connection
    <3>2. /\ w[s] \in Pool
          /\ w[s].uses_per_conn = ps[s].uses_per_conn
          /\ w[s].free_connections = Append(ps[s].free_connections, c)
      BY <3>1, <1>3, <1>5 DEF Pool
    <3> QED BY <3>2, <2>2, <2>4
  <2> QED BY <2>3, <2>4
<1>7. /\ cn2 \in [ Requests -> Connections \cup {NULL} ] /\ cn2[r] = NULL
      /\ \A q \in Requests : q # r => cn2[q] = cn[q]
  BY <1>1 DEF PlaceTypes
<1>8. w \in [ DOMAIN w -> Pool ]
  BY <1>1, <1>2, <1>6 DEF PlaceTypes, PoolsType
<1>9. (last => al = allocated \ {c}) /\ (~last => al = allocated)
  OBVIOUS
<1> HIDE DEF w, cn2, last, al
<1>10. /\ \A q \in DOMAIN ps : q # s => FreeIn(w, q) = FreeIn(ps, q)
       /\ last => FreeIn(w, s) = FreeIn(ps, s)
       /\ ~last => FreeIn(w, s) = FreeIn(ps, s) \cup {c}
  BY <1>2, <1>5, <1>6 DEF FreeIn
<1>11. PlaceTypes(w, al, cn2, sl, cs)
  <2>1. al \subseteq Connections
    BY <1>1, <1>9 DEF PlaceTypes
  <2> QED BY <2>1, <1>1, <1>6, <1>7, <1>8 DEF PlaceTypes, PoolsType
<1>12. UsesMatch(w, cn2, sl)
  <2> SUFFICES ASSUME NEW q \in DOMAIN w, NEW d \in Connections
               PROVE  w[q].uses_per_conn[d] > 0 <=>
                        \/ d \in FreeIn(w, q)
                        \/ \E x \in Requests : cn2[x] = d /\ sl[x] = q
    BY DEF UsesMatch
  <2>1. ps[q].uses_per_conn[d] > 0 <=>
           d \in FreeIn(ps, q) \/ \E x \in Requests : cn[x] = d /\ sl[x] = q
    BY <1>6 DEF Places, Accounted, UsesMatch
  <2>2. (\E x \in Requests : cn2[x] = d /\ sl[x] = q)
           <=> d # c /\ \E x \in Requests : cn[x] = d /\ sl[x] = q
    BY <1>4, <1>7, PoolAssumption
  <2>3. CASE d # c
    <3>1. w[q].uses_per_conn[d] = ps[q].uses_per_conn[d]
      BY <1>6, <2>3
    <3>2. d \in FreeIn(w, q) <=> d \in FreeIn(ps, q)
      BY <1>6, <1>10, <2>3
    <3> QED BY <3>1, <3>2, <2>1, <2>2, <2>3
  <2>4. CASE d = c /\ q # s
    <3>1. ~(\E x \in Requests : cn[x] = d /\ sl[x] = q)
      BY <1>4, <2>4
    <3>2. w[q] = ps[q] /\ FreeIn(w, q) = FreeIn(ps, q)
      BY <1>6, <1>10, <2>4
    <3> QED BY <3>1, <3>2, <2>1, <2>2, <2>4
  <2>5. CASE d = c /\ q = s
    <3>1. ps[q].uses_per_conn[d] > 0
      BY <2>1, <2>5
    <3>2. last => ~(w[q].uses_per_conn[d] > 0) /\ d \notin FreeIn(w, q)
      BY <1>2, <1>4, <1>6, <1>10, <2>5
    <3>3. ~last => w[q].uses_per_conn[d] > 0 /\ d \in FreeIn(w, q)
      BY <1>2, <1>6, <1>10, <2>5, <3>1
    <3> QED BY <3>2, <3>3, <2>2, <2>5
  <2> QED BY <2>3, <2>4, <2>5
<1>13. FreeOnce(w)
  <2>1. \A q \in DOMAIN w : IsInjective(w[q].free_connections)
    BY <1>2, <1>5, <1>6 DEF Places, Accounted, FreeOnce
  <2>2. \A q \in DOMAIN w : \A d \in FreeIn(w, q) :
           d \in FreeIn(ps, q) \/ (d = c /\ q = s)
    BY <1>6, <1>10
  <2> QED BY <2>1, <2>2, <1>4, <1>6 DEF Places, Accounted, FreeOnce
<1>14. LentOnce(w, cn2, sl)
  BY <1>4, <1>6, <1>7, <1>10 DEF Places, Accounted, LentOnce
<1>15. OwnOnce(w, cn2, cs)
  <2> SUFFICES ASSUME NEW x \in Requests, NEW d \in cs[x]
               PROVE  /\ \A q \in DOMAIN w : d \notin FreeIn(w, q)
                      /\ \A q \in Requests : cn2[q] # d
                      /\ \A q \in Requests : d \in cs[q] => q = x
    BY DEF OwnOnce
  <2>1. /\ \A q \in DOMAIN ps : d \notin FreeIn(ps, q)
        /\ \A q \in Requests : cn[q] # d
        /\ \A q \in Requests : d \in cs[q] => q = x
    BY DEF Places, Accounted, OwnOnce
  <2>2. d # c /\ d # NULL
    BY <1>1, <1>4, PoolAssumption DEF PlaceTypes
  <2> QED BY <2>1, <2>2, <1>6, <1>7, <1>10
<1>16. AllInAPlace(w, al, cn2, cs)
  <2> SUFFICES ASSUME NEW d \in Connections
               PROVE  d \in al <=>
                        \/ \E q \in DOMAIN w : d \in FreeIn(w, q)
                        \/ \E x \in Requests : cn2[x] = d
                        \/ \E x \in Requests : d \in cs[x]
    BY DEF AllInAPlace
  <2>1. d \in allocated <=> \/ \E q \in DOMAIN ps : d \in FreeIn(ps, q)
                            \/ \E x \in Requests : cn[x] = d
                            \/ \E x \in Requests : d \in cs[x]
    BY DEF Places, Accounted, AllInAPlace
  <2>2. (\E x \in Requests : cn2[x] = d) <=> d # c /\ \E x \in Requests : cn[x] = d
    BY <1>4, <1>7, PoolAssumption
  <2>3. CASE d # c
    <3>1. (\E q \in DOMAIN w : d \in FreeIn(w, q))
            <=> (\E q \in DOMAIN ps : d \in FreeIn(ps, q))
      BY <1>6, <1>10, <2>3
    <3> QED BY <3>1, <2>1, <2>2, <2>3, <1>9
  <2>4. CASE d = c
    <3>1. last => \A q \in DOMAIN w : d \notin FreeIn(w, q)
      BY <1>4, <1>6, <1>10, <2>4
    <3>2. ~last => s \in DOMAIN w /\ d \in FreeIn(w, s)
      BY <1>2, <1>6, <1>10, <2>4
    <3> QED BY <3>1, <3>2, <2>2, <2>4, <1>4, <1>9
  <2> QED BY <2>3, <2>4
<1> QED
  BY <1>11, <1>12, <1>13, <1>14, <1>15, <1>16 DEF Places, Accounted, w, cn2, al, last

\* A request to all shards opens its own connections (multiple_shoot).
LEMMA OwnPlaces ==
    ASSUME NEW ps, NEW allocated, NEW cn, NEW sl, NEW cs,
           Places(ps, allocated, cn, sl, cs),
           NEW r \in Requests, cs[r] = {},
           NEW own \in SUBSET (Connections \ allocated)
    PROVE  Places(ps, allocated \cup own, cn, sl, [ cs EXCEPT ![r] = own ])
<1> DEFINE cs2 == [ cs EXCEPT ![r] = own ]
<1>1. PlaceTypes(ps, allocated, cn, sl, cs)
  BY DEF Places
<1>2. /\ cs2 \in [ Requests -> SUBSET Connections ] /\ cs2[r] = own
      /\ \A q \in Requests : q # r => cs2[q] = cs[q]
  BY <1>1 DEF PlaceTypes
<1> HIDE DEF cs2
<1>3. \A c \in own :
         /\ c \in Connections
         /\ \A s \in DOMAIN ps : c \notin FreeIn(ps, s)
         /\ \A q \in Requests : cn[q] # c /\ c \notin cs[q]
  BY DEF Places, Accounted, AllInAPlace
<1>4. PlaceTypes(ps, allocated \cup own, cn, sl, cs2)
  BY <1>1, <1>2 DEF PlaceTypes
<1>5. OwnOnce(ps, cn, cs2)
  <2> SUFFICES ASSUME NEW x \in Requests, NEW d \in cs2[x]
               PROVE  /\ \A q \in DOMAIN ps : d \notin FreeIn(ps, q)
                      /\ \A q \in Requests : cn[q] # d
                      /\ \A q \in Requests : d \in cs2[q] => q = x
    BY DEF OwnOnce
  <2>1. CASE x = r
    <3>1. d \in own /\ \A q \in Requests : q # r => d \notin cs2[q]
      BY <2>1, <1>2, <1>3
    <3> QED BY <3>1, <2>1, <1>3
  <2>2. CASE x # r
    <3>1. d \in cs[x] /\ d \notin own
      BY <2>2, <1>2, <1>3
    <3>2. /\ \A q \in DOMAIN ps : d \notin FreeIn(ps, q)
          /\ \A q \in Requests : cn[q] # d
          /\ \A q \in Requests : d \in cs[q] => q = x
      BY <3>1 DEF Places, Accounted, OwnOnce
    <3> QED BY <3>1, <3>2, <1>2
  <2> QED BY <2>1, <2>2
<1>6. AllInAPlace(ps, allocated \cup own, cn, cs2)
  <2> SUFFICES ASSUME NEW d \in Connections
               PROVE  d \in allocated \cup own <=>
                        \/ \E q \in DOMAIN ps : d \in FreeIn(ps, q)
                        \/ \E x \in Requests : cn[x] = d
                        \/ \E x \in Requests : d \in cs2[x]
    BY DEF AllInAPlace
  <2>1. d \in allocated <=> \/ \E q \in DOMAIN ps : d \in FreeIn(ps, q)
                            \/ \E x \in Requests : cn[x] = d
                            \/ \E x \in Requests : d \in cs[x]
    BY DEF Places, Accounted, AllInAPlace
  <2>2. (\E x \in Requests : d \in cs2[x])
          <=> d \in own \/ \E x \in Requests : d \in cs[x]
    BY <1>2
  <2> QED BY <2>1, <2>2
<1> QED
  BY <1>4, <1>5, <1>6 DEF Places, Accounted, cs2

\* They are freed together (process_multiple_relay).
LEMMA DisownPlaces ==
    ASSUME NEW ps, NEW allocated, NEW cn, NEW sl, NEW cs,
           Places(ps, allocated, cn, sl, cs),
           NEW r \in Requests
    PROVE  Places(ps, allocated \ cs[r], cn, sl, [ cs EXCEPT ![r] = {} ])
<1> DEFINE cs2 == [ cs EXCEPT ![r] = {} ]
<1>1. PlaceTypes(ps, allocated, cn, sl, cs)
  BY DEF Places
<1>2. /\ cs2 \in [ Requests -> SUBSET Connections ] /\ cs2[r] = {}
      /\ \A q \in Requests : q # r => cs2[q] = cs[q]
  BY <1>1 DEF PlaceTypes
<1> HIDE DEF cs2
<1>3. \A c \in cs[r] :
         /\ \A s \in DOMAIN ps : c \notin FreeIn(ps, s)
         /\ \A q \in Requests : cn[q] # c
         /\ \A q \in Requests : c \in cs[q] => q = r
  BY DEF Places, Accounted, OwnOnce
<1>4. PlaceTypes(ps, allocated \ cs[r], cn, sl, cs2)
  BY <1>1, <1>2 DEF PlaceTypes
<1>5. OwnOnce(ps, cn, cs2)
  <2>1. \A q \in Requests : cs2[q] \subseteq cs[q]
    BY <1>2
  <2> QED BY <2>1 DEF Places, Accounted, OwnOnce
<1>6. AllInAPlace(ps, allocated \ cs[r], cn, cs2)
  <2> SUFFICES ASSUME NEW d \in Connections
               PROVE  d \in allocated \ cs[r] <=>
                        \/ \E q \in DOMAIN ps : d \in FreeIn(ps, q)
                        \/ \E x \in Requests : cn[x] = d
                        \/ \E x \in Requests : d \in cs2[x]
    BY DEF AllInAPlace
  <2>1. d \in allocated <=> \/ \E q \in DOMAIN ps : d \in FreeIn(ps, q)
                            \/ \E x \in Requests : cn[x] = d
                            \/ \E x \in Requests : d \in cs[x]
    BY DEF Places, Accounted, AllInAPlace
  <2>2. (\E x \in Requests : d \in cs2[x])
          <=> d \notin cs[r] /\ \E x \in Requests : d \in cs[x]
    BY <1>2, <1>3
  <2> QED BY <2>1, <2>2, <1>3
<1> QED
  BY <1>4, <1>5, <1>6 DEF Places, Accounted, cs2

----------------------------------------------------------------------------
(***************************************************************************)
(* The actions.                                                            *)
(***************************************************************************)
\* The invariant has the places of the connections.
LEMMA InvPlaces ==
    ASSUME RelayInv
    PROVE  Places(pools, DOMAIN opened, conn, slot, connections)
BY DEF RelayInv, RelayTypeOK, ConnectionsAccountedFor, Places, PlaceTypes, PoolsType

\* A reply is sent to one client.
LEMMA ReplySends ==
    ASSUME RelayTypeOK, NEW r \in Requests, NEW code \in Nat, NEW body \in Seq(Parts),
           Reply(r, code, body)
    PROVE  /\ replies' \in [ Requests -> Seq(Answers) ]
           /\ Len(replies'[r]) = Len(replies[r]) + 1
           /\ replies[r] = <<>> => Len(replies'[r]) = 1
           /\ \A q \in Requests : q # r => replies'[q] = replies[q]
<1> DEFINE answer == [ code |-> code, body |-> body ]
<1>1. answer \in Answers
  BY DEF Answers
<1>2. replies' = [ replies EXCEPT ![r] = Append(replies[r], answer) ]
  BY DEF Reply, RelayTypeOK
<1> HIDE DEF answer
<1>3. replies \in [ Requests -> Seq(Answers) ] /\ replies[r] \in Seq(Answers)
  BY DEF RelayTypeOK
<1>4. /\ Append(replies[r], answer) \in Seq(Answers)
      /\ Len(Append(replies[r], answer)) = Len(replies[r]) + 1
  BY <1>1, <1>3
<1>5. replies[r] = <<>> => Len(replies[r]) = 0
  OBVIOUS
<1> QED BY <1>2, <1>3, <1>4, <1>5

\* What get_banker_uri and get_shard find (get_relay_conn_pool).
LEMMA Lookup ==
    ASSUME RelayTypeOK, PlaceholdersMatch, NEW hash \in Nat,
           NEW sh, sh = get_banker_uri(shards, hash)
    PROVE  /\ DOMAIN sh \subseteq Nat /\ sh \in [ DOMAIN sh -> Endpoints ]
           /\ IsFiniteSet(DOMAIN sh) /\ DOMAIN sh # {}
           /\ get_shard(sh, hash) \in Nat
           /\ sh[hash % Cardinality(DOMAIN shards)] \in Endpoints
<1>1. Cardinality(DOMAIN shards) \in Nat \ {0}
  BY FS_CardinalityType, FS_EmptySet DEF PlaceholdersMatch
<1> DEFINE x == hash % Cardinality(DOMAIN shards)
<1>2. x \in Nat
  BY <1>1
<1>3. sh = [ i \in DOMAIN shards \cup {x} |->
               IF i \in DOMAIN shards THEN shards[i] ELSE NoEndpoint ]
  BY DEF get_banker_uri
<1> HIDE DEF x
<1>4. DOMAIN sh = DOMAIN shards \cup {x}
  BY <1>3
<1>5. sh \in [ DOMAIN sh -> Endpoints ]
  BY <1>3, <1>4 DEF RelayTypeOK, Endpoints
<1>6. IsFiniteSet(DOMAIN sh) /\ DOMAIN sh # {} /\ DOMAIN sh \subseteq Nat
  <2>1. IsFiniteSet(DOMAIN shards \cup {x})
    BY FS_AddElement DEF PlaceholdersMatch
  <2>2. DOMAIN shards \cup {x} # {} /\ DOMAIN shards \cup {x} \subseteq Nat
    BY <1>2 DEF RelayTypeOK
  <2> QED BY <2>1, <2>2, <1>4
<1>7. Cardinality(DOMAIN sh) \in Nat \ {0}
  BY <1>6, FS_CardinalityType, FS_EmptySet
<1>8. get_shard(sh, hash) \in Nat
  BY <1>7 DEF get_shard
<1>9. sh[x] \in Endpoints
  BY <1>4, <1>5
<1> QED BY <1>5, <1>6, <1>8, <1>9 DEF x

\* A connection that no other request has is lent and taken out of the queue
\* of its pool.
LendStep(r, s, endpoint, p, c) ==
    LET ps == WithPool(pools, s, endpoint) IN
    /\ conn[r] = NULL
    /\ s \in Nat /\ endpoint \in Endpoints /\ p \in Pool /\ c \in Connections
    /\ \A q \in Requests : conn[q] # c
    /\ \A d \in Connections : d # c => p.uses_per_conn[d] = ps[s].uses_per_conn[d]
    /\ \A q \in DOMAIN pools : q # s => c \notin FreeIn(pools, q)
    /\ ToSet(p.free_connections) \subseteq FreeIn(ps, s) \ {c}
    /\ pools' = [ ps EXCEPT ![s] = p ]
    /\ conn' = [ conn EXCEPT ![r] = c ]
    /\ slot' = [ slot EXCEPT ![r] = s ]
    /\ DOMAIN opened' = DOMAIN opened \cup {c}
    /\ opened'[c].close <=> last_use(p, c)
    /\ \A d \in DOMAIN opened : d # c => opened'[d] = opened[d]

\* The other connections still match what their bankers were told
\* (set_connection_header).
LEMMA LendKeepsClose ==
    ASSUME RelayInv, NEW r \in Requests, NEW s, NEW endpoint, NEW p, NEW c,
           LendStep(r, s, endpoint, p, c)
    PROVE  CloseMatches' /\ CloseAnnouncedIsKept'
<1> DEFINE ps == WithPool(pools, s, endpoint)
<1> USE DEF RelayInv, LendStep
<1>1. /\ DOMAIN ps = DOMAIN pools \cup {s}
      /\ \A q \in DOMAIN pools : ps[q] = pools[q]
      /\ s \notin DOMAIN pools => FreeIn(ps, s) = {}
  <2>1. /\ DOMAIN ps = DOMAIN pools \cup {s}
        /\ \A q \in DOMAIN pools : ps[q] = pools[q]
        /\ s \notin DOMAIN pools => ps[s].free_connections = <<>>
    BY DEF WithPool, NewPool
  <2>2. ToSet(<<>>) = {}
    BY DEF ToSet
  <2> QED BY <2>1, <2>2 DEF FreeIn
<1>2. /\ DOMAIN pools' = DOMAIN ps /\ pools'[s] = p
      /\ \A q \in DOMAIN pools : q # s => pools'[q] = pools[q]
  BY <1>1 DEF WithPool
<1>3. /\ c \in DOMAIN opened' /\ (opened'[c].close <=> last_use(p, c))
      /\ \A d \in DOMAIN opened : d # c => opened'[d] = opened[d]
      /\ DOMAIN opened' = DOMAIN opened \cup {c}
  OBVIOUS
<1>4. /\ conn'[r] = c /\ slot'[r] = s
      /\ \A q \in Requests : q # r => conn'[q] = conn[q] /\ slot'[q] = slot[q]
  BY DEF RelayTypeOK
<1>5. CloseMatches'
  <2> SUFFICES ASSUME NEW q \in Requests, conn'[q] # NULL
               PROVE  opened'[conn'[q]].close <=> last_use(pools'[slot'[q]], conn'[q])
    BY DEF CloseMatches
  <2>1. CASE q = r
    BY <2>1, <1>2, <1>3, <1>4
  <2>2. CASE q # r
    <3> DEFINE d == conn[q]
    <3>1. /\ d # NULL /\ d # c /\ d \in Connections /\ conn'[q] = d
          /\ slot'[q] = slot[q]
      BY <2>2, <1>4 DEF RelayTypeOK
    <3>2. slot[q] \in DOMAIN pools /\ d \in DOMAIN opened
      BY <3>1 DEF ConnectionsAccountedFor, Accounted, LentOnce, AllInAPlace
    <3>3. opened'[d] = opened[d]
      BY <1>3, <3>1, <3>2
    <3>4. pools'[slot[q]].uses_per_conn[d] = pools[slot[q]].uses_per_conn[d]
      BY <1>1, <1>2, <3>1, <3>2
    <3>5. opened[d].close <=> last_use(pools[slot[q]], d)
      BY <3>1 DEF CloseMatches
    <3> QED BY <3>1, <3>3, <3>4, <3>5 DEF last_use
  <2> QED BY <2>1, <2>2
<1>6. CloseAnnouncedIsKept'
  <2> SUFFICES ASSUME NEW q \in DOMAIN pools', NEW d \in FreeIn(pools', q)
               PROVE  d \in DOMAIN opened' => ~opened'[d].close
    BY DEF CloseAnnouncedIsKept, FreeIn
  <2>1. q \in DOMAIN pools /\ d \in FreeIn(pools, q) /\ d # c
    BY <1>1, <1>2 DEF FreeIn
  <2>2. d \in DOMAIN opened => ~opened[d].close
    BY <2>1 DEF CloseAnnouncedIsKept
  <2> QED BY <2>1, <2>2, <1>3
<1> QED BY <1>5, <1>6

\* A request for one account keeps the invariant (single_shoot).
LEMMA SingleShootInv ==
    ASSUME RelayInv, NEW r \in Requests, NEW t \in Targets, single_shoot(r, t)
    PROVE  RelayInv'
<1> DEFINE hash == SDBMHash[get_parent_account(t)]
           sh == get_banker_uri(shards, hash)
           s == get_shard(sh, hash)
           endpoint == sh[hash % Cardinality(DOMAIN shards)]
           ps == WithPool(pools, s, endpoint)
<1>1. /\ up /\ asked[r] = <<>> /\ asked' = [ asked EXCEPT ![r] = t ]
      /\ shards' = sh
      /\ UNCHANGED << up, connections, bodies, pending >>
  BY DEF single_shoot, Receive
<1>2. PICK g \in get_connection(ps[s], Fresh) :
         /\ pools' = [ ps EXCEPT ![s] = g.pool ]
         /\ \/ /\ g.conn = NULL
               /\ Reply(r, 500, <<>>)
               /\ allocFailures' = allocFailures + 1
               /\ UNCHANGED << opened, conn, slot >>
            \/ /\ g.conn # NULL
               /\ conn' = [ conn EXCEPT ![r] = g.conn ]
               /\ slot' = [ slot EXCEPT ![r] = s ]
               /\ opened' = Sent({g.conn}, [ c \in {g.conn} |-> g.pool.endpoint ],
                                 last_use(g.pool, g.conn))
               /\ UNCHANGED << replies, allocFailures >>
  BY DEF single_shoot
<1>3. hash \in Nat
  BY RelayAssumption DEF single_shoot, get_parent_account
<1>4. t \in Targets \cup {<<>>} /\ t # <<>>
  <2>1. t \in Seq(STRING) /\ Len(t) > 0
    BY RelayAssumption
  <2> QED BY <2>1
<1>5. /\ RelayTypeOK /\ PlaceholdersMatch /\ RepliesMatch
      /\ CloseMatches /\ CloseAnnouncedIsKept
      /\ Places(pools, DOMAIN opened, conn, slot, connections)
  BY InvPlaces DEF RelayInv
<1> HIDE DEF hash
<1>6. /\ DOMAIN sh \subseteq Nat /\ sh \in [ DOMAIN sh -> Endpoints ]
      /\ IsFiniteSet(DOMAIN sh) /\ DOMAIN sh # {}
      /\ s \in Nat /\ endpoint \in Endpoints
  BY <1>3, <1>5, Lookup
<1> HIDE DEF sh, s, endpoint
<1>7. /\ Places(ps, DOMAIN opened, conn, slot, connections)
      /\ s \in DOMAIN ps
      /\ \A q \in DOMAIN pools : ps[q] = pools[q]
  BY <1>5, <1>6, NewPoolPlaces
<1>8. ps \in [ DOMAIN ps -> Pool ] /\ ps[s] \in Pool /\ DOMAIN ps \subseteq Nat
  BY <1>7 DEF Places, PlaceTypes, PoolsType
<1>9. DOMAIN ps = DOMAIN pools \cup {s}
  BY DEF WithPool
<1>10. conn[r] = NULL /\ connections[r] = {} /\ replies[r] = <<>>
  BY <1>1, <1>5 DEF PlaceholdersMatch
<1>11. asked' \in [ Requests -> Targets \cup {<<>>} ]
       /\ asked'[r] # <<>> /\ \A q \in Requests : q # r => asked'[q] = asked[q]
  BY <1>1, <1>4, <1>5 DEF RelayTypeOK
<1>12. CASE g.conn = NULL
  <2>1. /\ Reply(r, 500, <<>>)
        /\ allocFailures' = allocFailures + 1
        /\ UNCHANGED << opened, conn, slot >>
    BY <1>2, <1>12
  <2>2. g.pool = [ ps[s] EXCEPT !.uses_per_conn[NULL] = 1 ]
    <3>1. CASE CreatesConnection(ps[s])
      BY <3>1, <1>12 DEF get_connection
    <3>2. CASE ~CreatesConnection(ps[s])
      <4>1. g.conn = Head(ps[s].free_connections) /\ ps[s].free_connections # <<>>
        BY <3>2 DEF get_connection, CreatesConnection
      <4>2. g.conn \in Connections
        BY <4>1, <1>8 DEF Pool
      <4> QED BY <4>2, <1>12, PoolAssumption
    <3> QED BY <3>1, <3>2
  <2>3. Places(pools', DOMAIN opened, conn, slot, connections)
    <3>1. pools' = [ ps EXCEPT ![s] = [ ps[s] EXCEPT !.uses_per_conn[NULL] = 1 ] ]
      BY <1>2, <2>2
    <3> HIDE DEF ps
    <3> QED BY <3>1, <1>7, NullPlaces
  <2> HIDE DEF ps
  <2>4. /\ replies' \in [ Requests -> Seq(Answers) ] /\ Len(replies'[r]) = 1
        /\ \A q \in Requests : q # r => replies'[q] = replies[q]
    <3>1. <<>> \in Seq(Parts) /\ 500 \in Nat
      OBVIOUS
    <3> QED BY <2>1, <3>1, <1>5, <1>10, ReplySends
  <2>5. RelayTypeOK'
    <3>1. DOMAIN pools' \subseteq Nat /\ pools' \in [ DOMAIN pools' -> Pool ]
      BY <2>3 DEF Places, PlaceTypes, PoolsType
    <3>2. allocFailures' \in Nat
      BY <2>1, <1>5 DEF RelayTypeOK
    <3>3. UNCHANGED << opened, conn, slot >>
      BY <2>1
    <3> QED BY <1>1, <1>5, <1>6, <1>11, <2>4, <3>1, <3>2, <3>3 DEF RelayTypeOK
  <2>6. ConnectionsAccountedFor'
    BY <1>1, <2>1, <2>3 DEF Places, ConnectionsAccountedFor
  <2>7. PlaceholdersMatch'
    BY <1>1, <1>5, <1>6, <1>11, <2>1, <2>4 DEF PlaceholdersMatch, RelayTypeOK
  <2>8. RepliesMatch'
    <3> SUFFICES ASSUME NEW q \in Requests
                 PROVE  /\ Len(replies'[q]) <= 1
                        /\ conn[q] # NULL \/ connections[q] # {} => replies'[q] = <<>>
      BY <1>1, <2>1 DEF RepliesMatch
    <3>1. CASE q = r
      BY <3>1, <1>10, <2>4
    <3>2. CASE q # r
      BY <3>2, <1>5, <2>4 DEF RepliesMatch
    <3> QED BY <3>1, <3>2
  <2>9. /\ DOMAIN pools' = DOMAIN pools \cup {s}
        /\ \A q \in DOMAIN pools :
              /\ FreeIn(pools', q) = FreeIn(pools, q)
              /\ \A d \in Connections :
                    pools'[q].uses_per_conn[d] = pools[q].uses_per_conn[d]
        /\ s \notin DOMAIN pools => FreeIn(pools', s) = {}
    <3>1. /\ DOMAIN pools' = DOMAIN ps /\ pools'[s] = g.pool
          /\ \A q \in DOMAIN ps : q # s => pools'[q] = ps[q]
      BY <1>2, <1>8, <1>7
    <3>2. /\ g.pool.free_connections = ps[s].free_connections
          /\ \A d \in Connections : g.pool.uses_per_conn[d] = ps[s].uses_per_conn[d]
      BY <2>2, <1>8, PoolAssumption DEF Pool
    <3>3. s \notin DOMAIN pools => ps[s].free_connections = <<>>
      BY DEF ps, WithPool, NewPool
    <3>4. ToSet(<<>>) = {}
      BY DEF ToSet
    <3> QED BY <3>1, <3>2, <3>3, <3>4, <1>7, <1>9 DEF FreeIn
  <2>10. CloseMatches'
    <3> SUFFICES ASSUME NEW q \in Requests, conn[q] # NULL
                 PROVE  opened[conn[q]].close <=> last_use(pools'[slot[q]], conn[q])
      BY <2>1 DEF CloseMatches
    <3>1. slot[q] \in DOMAIN pools /\ conn[q] \in Connections
      BY <1>5 DEF Places, PlaceTypes, Accounted, LentOnce
    <3> QED BY <3>1, <2>9, <1>5 DEF CloseMatches, last_use
  <2>11. CloseAnnouncedIsKept'
    BY <1>5, <2>1, <2>9 DEF CloseAnnouncedIsKept
  <2> QED BY <2>5, <2>6, <2>7, <2>8, <2>10, <2>11 DEF RelayInv
<1>13. CASE g.conn # NULL
  <2> DEFINE c == g.conn
             p == g.pool
  <2>1. /\ conn' = [ conn EXCEPT ![r] = c ]
        /\ slot' = [ slot EXCEPT ![r] = s ]
        /\ opened' = Sent({c}, [ d \in {c} |-> p.endpoint ], last_use(p, c))
        /\ UNCHANGED << replies, allocFailures >>
        /\ pools' = [ ps EXCEPT ![s] = p ]
    BY <1>2, <1>13
  <2>2. /\ c \in Connections
        /\ \A q \in Requests : conn[q] # c
        /\ \A q \in DOMAIN pools : q # s => c \notin FreeIn(pools, q)
        /\ p \in Pool
        /\ \A d \in Connections : d # c => p.uses_per_conn[d] = ps[s].uses_per_conn[d]
        /\ ToSet(p.free_connections) \subseteq FreeIn(ps, s) \ {c}
        /\ Places(pools', DOMAIN opened \cup {c}, conn', slot', connections)
    <3>1. CASE CreatesConnection(ps[s])
      <4>1. c \in Connections /\ c \notin DOMAIN opened
        BY <3>1, <1>13 DEF get_connection, Fresh
      <4>2. p = [ ps[s] EXCEPT !.uses_per_conn[c] = 1 ]
        BY <3>1 DEF get_connection
      <4> HIDE DEF c, p, ps
      <4>3. /\ \A q \in Requests : conn[q] # c
            /\ \A q \in DOMAIN ps : c \notin FreeIn(ps, q)
        BY <1>7, <4>1 DEF Places, Accounted, AllInAPlace
      <4>4. /\ p \in Pool /\ p.free_connections = ps[s].free_connections
            /\ \A d \in Connections : d # c => p.uses_per_conn[d] = ps[s].uses_per_conn[d]
        BY <4>1, <4>2, <1>8 DEF Pool
      <4>5. ToSet(p.free_connections) \subseteq FreeIn(ps, s) \ {c}
        BY <4>3, <4>4, <1>7 DEF FreeIn
      <4>6. \A q \in DOMAIN pools : q # s => c \notin FreeIn(pools, q)
        BY <4>3, <1>7, <1>9 DEF FreeIn
      <4>7. Places(pools', DOMAIN opened \cup {c}, conn', slot', connections)
        BY <4>1, <4>2, <2>1, <1>7, <1>10, CreatePlaces
      <4> QED BY <4>1, <4>3, <4>4, <4>5, <4>6, <4>7
    <3>2. CASE ~CreatesConnection(ps[s])
      <4>1. /\ c = Head(ps[s].free_connections) /\ ps[s].free_connections # <<>>
            /\ p = Lend(ps[s], c)
        <5> DEFINE h == Head(ps[s].free_connections)
                   lent == Lend(ps[s], h)
        <5>1. g \in { [ conn |-> h, pool |-> lent ] }
          BY <3>2, Zenon DEF get_connection, Lend
        <5>2. ps[s].free_connections # <<>>
          BY <3>2 DEF CreatesConnection
        <5>3. c = h /\ p = lent
          <6> HIDE DEF h, lent, ps
          <6> QED BY <5>1
        <5> QED BY <5>2, <5>3, Zenon
      <4> HIDE DEF c, p, ps
      <4>2. /\ c \in Connections /\ c \in DOMAIN opened /\ c \in FreeIn(ps, s)
            /\ \A q \in Requests : conn[q] # c
            /\ Places([ ps EXCEPT ![s] = p ], DOMAIN opened,
                      [ conn EXCEPT ![r] = c ], [ slot EXCEPT ![r] = s ], connections)
        BY <4>1, <1>7, <1>10, ReusePlaces
      <4>3. Places(pools', DOMAIN opened \cup {c}, conn', slot', connections)
        <5>1. DOMAIN opened \cup {c} = DOMAIN opened
          BY <4>2
        <5> QED BY <4>2, <5>1, <2>1
      <4>4. \A q \in DOMAIN ps : q # s => c \notin FreeIn(ps, q)
        BY <4>2, <1>7 DEF Places, Accounted, FreeOnce
      <4>5. \A q \in DOMAIN pools : q # s => c \notin FreeIn(pools, q)
        BY <4>4, <1>7, <1>9 DEF FreeIn
      <4>6. p \in Pool
        <5>1. pools'[s] = p /\ s \in DOMAIN pools'
          BY <2>1, <1>7, <1>8
        <5> QED BY <5>1, <4>3 DEF Places, PlaceTypes, PoolsType
      <4>7. /\ p.free_connections = Tail(ps[s].free_connections)
            /\ \A d \in Connections : d # c => p.uses_per_conn[d] = ps[s].uses_per_conn[d]
        BY <4>1, <1>8 DEF Pool, Lend
      <4>8. ToSet(p.free_connections) \subseteq FreeIn(ps, s) \ {c}
        <5>1. ps[s].free_connections \in Seq(Connections)
          BY <1>8 DEF Pool
        <5>2. IsInjective(ps[s].free_connections)
          BY <1>7 DEF Places, Accounted, FreeOnce
        <5> QED BY <5>1, <5>2, <4>1, <4>7, QueueTail DEF FreeIn
      <4> QED BY <4>2, <4>3, <4>5, <4>6, <4>7, <4>8
    <3> QED BY <3>1, <3>2
  <2> HIDE DEF c, p
  <2>3. /\ DOMAIN opened' = DOMAIN opened \cup {c}
        /\ opened'[c].close <=> last_use(p, c)
        /\ \A d \in DOMAIN opened : d # c => opened'[d] = opened[d]
        /\ opened' \in [ DOMAIN opened' -> Opened ]
    <3>1. p.endpoint \in Endpoints /\ last_use(p, c) \in BOOLEAN
      BY <2>2 DEF Pool, last_use
    <3>2. opened' = [ d \in DOMAIN opened \cup {c} |->
                        IF d = c THEN [ endpoint |-> p.endpoint, close |-> last_use(p, c) ]
                        ELSE opened[d] ]
      BY <2>1 DEF Sent
    <3> QED BY <3>1, <3>2, <1>5 DEF RelayTypeOK, Opened
  <2>4. RelayTypeOK'
    BY <1>1, <1>5, <1>6, <1>11, <2>1, <2>2, <2>3
       DEF RelayTypeOK, Places, PlaceTypes, PoolsType
  <2>5. ConnectionsAccountedFor'
    BY <1>1, <2>2, <2>3 DEF Places, ConnectionsAccountedFor
  <2>6. /\ conn'[r] = c
        /\ \A q \in Requests : q # r => conn'[q] = conn[q]
    BY <2>1, <1>5 DEF RelayTypeOK
  <2>7. PlaceholdersMatch'
    BY <1>1, <1>5, <1>6, <1>10, <1>11, <2>1, <2>6 DEF PlaceholdersMatch
  <2>8. RepliesMatch'
    BY <1>1, <1>5, <1>10, <2>1, <2>6 DEF RepliesMatch, RelayTypeOK
  <2>9. CloseMatches' /\ CloseAnnouncedIsKept'
    <3>1. /\ conn' = [ conn EXCEPT ![r] = c ] /\ slot' = [ slot EXCEPT ![r] = s ]
          /\ pools' = [ ps EXCEPT ![s] = p ] /\ ps = WithPool(pools, s, endpoint)
      BY <2>1
    <3> HIDE DEF ps
    <3>2. LendStep(r, s, endpoint, p, c)
      BY <1>6, <1>10, <2>2, <2>3, <3>1 DEF LendStep
    <3> QED BY <3>2, LendKeepsClose
  <2> QED BY <2>4, <2>5, <2>7, <2>8, <2>9 DEF RelayInv
<1> QED BY <1>12, <1>13

----------------------------------------------------------------------------
\* A request is received: its target is known from then on.
LEMMA ReceiveTarget ==
    ASSUME RelayInv, NEW r \in Requests, NEW t \in Targets, Receive(r, t)
    PROVE  /\ up
           /\ asked' \in [ Requests -> Targets \cup {<<>>} ]
           /\ asked'[r] # <<>>
           /\ \A q \in Requests : q # r => asked'[q] = asked[q]
           /\ conn[r] = NULL /\ connections[r] = {} /\ replies[r] = <<>>
<1>1. t \in Seq(STRING) /\ Len(t) > 0
  BY RelayAssumption
<1>2. t # <<>>
  BY <1>1
<1>3. asked \in [ Requests -> Targets \cup {<<>>} ]
  BY DEF RelayInv, RelayTypeOK
<1>4. up /\ asked[r] = <<>> /\ asked' = [ asked EXCEPT ![r] = t ]
  BY DEF Receive
<1>5. conn[r] = NULL /\ connections[r] = {} /\ replies[r] = <<>>
  BY <1>4 DEF RelayInv, PlaceholdersMatch
<1> QED BY <1>2, <1>3, <1>4, <1>5

\* A step that leaves the pools, the connections and who has them alone.
LEMMA PlacesFrame ==
    ASSUME RelayInv, UNCHANGED << pools, opened, conn, slot, connections >>
    PROVE  ConnectionsAccountedFor' /\ CloseMatches' /\ CloseAnnouncedIsKept'
<1>1. ConnectionsAccountedFor'
  BY DEF RelayInv, ConnectionsAccountedFor
<1>2. CloseMatches'
  BY DEF RelayInv, CloseMatches
<1>3. CloseAnnouncedIsKept'
  BY DEF RelayInv, CloseAnnouncedIsKept
<1> QED BY <1>1, <1>2, <1>3

\* The reply of a request that waits for nothing.
LEMMA ReplyOnce ==
    ASSUME RepliesMatch, NEW r \in Requests, replies[r] = <<>>,
           Len(replies'[r]) = 1,
           \A q \in Requests : q # r => replies'[q] = replies[q],
           conn'[r] = NULL, connections'[r] = {},
           \A q \in Requests : q # r => conn'[q] = conn[q] /\ connections'[q] = connections[q]
    PROVE  RepliesMatch'
<1> SUFFICES ASSUME NEW q \in Requests
             PROVE  /\ Len(replies'[q]) <= 1
                    /\ conn'[q] # NULL \/ connections'[q] # {} => replies'[q] = <<>>
  BY DEF RepliesMatch
<1>1. CASE q = r
  <2>0. Len(replies'[q]) = 1
    BY <1>1, Zenon
  <2>1. Len(replies'[q]) <= 1
    BY <2>0
  <2>2. ~(conn'[q] # NULL \/ connections'[q] # {})
    BY <1>1, Zenon
  <2> QED BY <2>1, <2>2, Zenon
<1>2. CASE q # r
  BY <1>2 DEF RepliesMatch
<1> QED BY <1>1, <1>2

\* A request without an account keeps the invariant (process_request).
LEMMA NoAccountInv ==
    ASSUME RelayInv, NEW r \in Requests, NEW t \in Targets, no_account(r, t)
    PROVE  RelayInv'
<1>1. Receive(r, t) /\ Reply(r, 500, <<>>)
  BY DEF no_account
<1>2. UNCHANGED << up, shards, pools, opened, conn, slot, connections, bodies,
                   pending, allocFailures >>
  BY DEF no_account, placeholders
<1>3. /\ asked' \in [ Requests -> Targets \cup {<<>>} ] /\ asked'[r] # <<>>
      /\ \A q \in Requests : q # r => asked'[q] = asked[q]
      /\ conn[r] = NULL /\ connections[r] = {} /\ replies[r] = <<>>
  BY <1>1, ReceiveTarget
<1>4. /\ replies' \in [ Requests -> Seq(Answers) ] /\ Len(replies'[r]) = 1
      /\ \A q \in Requests : q # r => replies'[q] = replies[q]
  <2>1. <<>> \in Seq(Parts) /\ 500 \in Nat
    OBVIOUS
  <2>2. RelayTypeOK
    BY DEF RelayInv
  <2>3. /\ replies' \in [ Requests -> Seq(Answers) ]
        /\ replies[r] = <<>> => Len(replies'[r]) = 1
        /\ \A q \in Requests : q # r => replies'[q] = replies[q]
    BY <1>1, <2>1, <2>2, ReplySends, Zenon
  <2> QED BY <1>3, <2>3, Zenon
<1>5. RelayTypeOK'
  BY <1>2, <1>3, <1>4 DEF RelayInv, RelayTypeOK
<1>6. ConnectionsAccountedFor' /\ CloseMatches' /\ CloseAnnouncedIsKept'
  BY <1>2, PlacesFrame
<1>7. PlaceholdersMatch'
  BY <1>2, <1>3, <1>4 DEF RelayInv, PlaceholdersMatch
<1>8. RepliesMatch'
  BY <1>2, <1>3, <1>4, ReplyOnce DEF RelayInv
<1> QED BY <1>5, <1>6, <1>7, <1>8 DEF RelayInv

\* An abort for want of a connection keeps the invariant (multiple_shoot).
LEMMA NoMemoryInv ==
    ASSUME RelayInv, NEW r \in Requests, NEW t \in Targets, multiple_shoot_no_memory(r, t)
    PROVE  RelayInv'
<1>1. Receive(r, t) /\ up' = FALSE /\ allocFailures' = allocFailures + 1
  BY DEF multiple_shoot_no_memory
<1>2. UNCHANGED << shards, pools, opened, conn, slot, connections, bodies, pending,
                   replies >>
  BY DEF multiple_shoot_no_memory, placeholders
<1>3. /\ asked' \in [ Requests -> Targets \cup {<<>>} ] /\ asked'[r] # <<>>
      /\ \A q \in Requests : q # r => asked'[q] = asked[q]
  BY <1>1, ReceiveTarget
<1>4. allocFailures' \in Nat
  BY <1>1 DEF RelayInv, RelayTypeOK
<1>5. RelayTypeOK'
  BY <1>1, <1>2, <1>3, <1>4 DEF RelayInv, RelayTypeOK
<1>6. ConnectionsAccountedFor' /\ CloseMatches' /\ CloseAnnouncedIsKept'
  BY <1>2, PlacesFrame
<1>7. PlaceholdersMatch'
  BY <1>1, <1>2, <1>3 DEF RelayInv, PlaceholdersMatch
<1>8. RepliesMatch'
  BY <1>2 DEF RelayInv, RepliesMatch
<1> QED BY <1>5, <1>6, <1>7, <1>8 DEF RelayInv

\* A request to all shards keeps the invariant (multiple_shoot).
LEMMA MultipleShootInv ==
    ASSUME RelayInv, NEW r \in Requests, NEW t \in Targets, multiple_shoot(r, t)
    PROVE  RelayInv'
<1>1. Receive(r, t)
  BY DEF multiple_shoot
<1>2. UNCHANGED << up, shards, pools, conn, slot, bodies, replies, allocFailures >>
  BY DEF multiple_shoot
<1>3. PICK cs \in SUBSET (Connections \ DOMAIN opened) :
         \E shardOf \in Bijection(cs, DOMAIN shards) :
           /\ opened' = Sent(cs, [ c \in cs |-> shards[shardOf[c]] ], FALSE)
           /\ connections' = [ connections EXCEPT ![r] = cs ]
           /\ pending' = [ pending EXCEPT ![r] = cs ]
  BY DEF multiple_shoot
<1>4. PICK shardOf \in Bijection(cs, DOMAIN shards) :
           /\ opened' = Sent(cs, [ c \in cs |-> shards[shardOf[c]] ], FALSE)
           /\ connections' = [ connections EXCEPT ![r] = cs ]
           /\ pending' = [ pending EXCEPT ![r] = cs ]
  BY <1>3
<1>5. /\ RelayTypeOK /\ PlaceholdersMatch /\ RepliesMatch
      /\ CloseMatches /\ CloseAnnouncedIsKept
      /\ Places(pools, DOMAIN opened, conn, slot, connections)
  BY InvPlaces DEF RelayInv
<1>6. /\ asked' \in [ Requests -> Targets \cup {<<>>} ] /\ asked'[r] # <<>>
      /\ \A q \in Requests : q # r => asked'[q] = asked[q]
      /\ up /\ conn[r] = NULL /\ connections[r] = {} /\ replies[r] = <<>>
  BY <1>1, ReceiveTarget
<1>7. IsFiniteSet(cs) /\ shardOf \in [ cs -> DOMAIN shards ]
  <2>1. shardOf \in Injection(cs, DOMAIN shards)
    BY DEF Bijection
  <2>2. IsFiniteSet(DOMAIN shards)
    BY <1>5 DEF PlaceholdersMatch
  <2> QED BY <2>1, <2>2, FS_Injection DEF Injection
<1>8. /\ DOMAIN opened' = DOMAIN opened \cup cs
      /\ \A d \in DOMAIN opened : opened'[d] = opened[d]
      /\ opened' \in [ DOMAIN opened' -> Opened ]
  <2>1. opened' = [ d \in DOMAIN opened \cup cs |->
                      IF d \in cs
                      THEN [ endpoint |-> [ c \in cs |-> shards[shardOf[c]] ][d], close |-> FALSE ]
                      ELSE opened[d] ]
    BY <1>4 DEF Sent
  <2>2. DOMAIN opened' = DOMAIN opened \cup cs
    BY <2>1
  <2>3. \A d \in DOMAIN opened : d \notin cs
    BY <1>3
  <2>4. \A d \in DOMAIN opened : opened'[d] = opened[d]
    BY <2>1, <2>3
  <2>5. \A d \in cs : opened'[d] = [ endpoint |-> shards[shardOf[d]], close |-> FALSE ]
    BY <2>1
  <2>6. \A d \in cs : opened'[d] \in Opened
    <3>1. \A d \in cs : shards[shardOf[d]] \in Endpoints
      BY <1>5, <1>7 DEF RelayTypeOK
    <3>2. \A x \in Endpoints : [ endpoint |-> x, close |-> FALSE ] \in Opened
      BY DEF Opened
    <3> QED BY <3>1, <3>2, <2>5
  <2>7. \A d \in DOMAIN opened : opened'[d] \in Opened
    BY <1>5, <2>4 DEF RelayTypeOK
  <2>8. opened' = [ d \in DOMAIN opened \cup cs |-> opened'[d] ]
    BY <2>1
  <2> QED BY <2>2, <2>4, <2>6, <2>7, <2>8
<1>9. Places(pools, DOMAIN opened \cup cs, conn, slot, connections')
  BY <1>3, <1>4, <1>5, <1>6, OwnPlaces
<1>10. /\ pending' \in [ Requests -> SUBSET Connections ] /\ pending'[r] = cs
       /\ \A q \in Requests : q # r => pending'[q] = pending[q]
       /\ connections' \in [ Requests -> SUBSET Connections ] /\ connections'[r] = cs
       /\ \A q \in Requests : q # r => connections'[q] = connections[q]
  BY <1>3, <1>4, <1>5 DEF RelayTypeOK
<1>11. RelayTypeOK'
  <2>1. DOMAIN opened' \subseteq Connections
    BY <1>5, <1>8 DEF RelayTypeOK
  <2> QED BY <1>2, <1>5, <1>6, <1>8, <1>10, <2>1 DEF RelayTypeOK
<1>12. ConnectionsAccountedFor'
  BY <1>2, <1>8, <1>9 DEF ConnectionsAccountedFor, Places
<1>13. Len(bodies[r]) = 0
  <2>1. pending[r] = {}
    BY <1>5, <1>6 DEF PlaceholdersMatch
  <2>2. /\ Cardinality(pending[r]) = 0 /\ Cardinality(connections[r]) = 0
        /\ Len(bodies[r]) \in Nat
    BY <1>5, <1>6, <2>1, FS_EmptySet DEF RelayTypeOK
  <2>3. Len(bodies[r]) + Cardinality(pending[r]) = Cardinality(connections[r])
    BY <1>5, <1>6 DEF PlaceholdersMatch
  <2> QED BY <2>2, <2>3
<1>14. PlaceholdersMatch'
  <2>1. Cardinality(cs) \in Nat
    BY <1>7, FS_CardinalityType
  <2> QED BY <1>2, <1>5, <1>6, <1>7, <1>10, <1>13, <2>1 DEF PlaceholdersMatch
<1>15. RepliesMatch'
  <2> SUFFICES ASSUME NEW q \in Requests
               PROVE  /\ Len(replies[q]) <= 1
                      /\ conn[q] # NULL \/ connections'[q] # {} => replies[q] = <<>>
    BY <1>2 DEF RepliesMatch
  <2> QED BY <1>5, <1>6, <1>10 DEF RepliesMatch
<1>16. CloseMatches'
  <2> SUFFICES ASSUME NEW q \in Requests, conn[q] # NULL
               PROVE  opened'[conn[q]].close <=> last_use(pools[slot[q]], conn[q])
    BY <1>2 DEF CloseMatches
  <2>1. conn[q] \in DOMAIN opened
    BY <1>5 DEF Places, PlaceTypes, Accounted, AllInAPlace
  <2> QED BY <2>1, <1>5, <1>8 DEF CloseMatches
<1>17. CloseAnnouncedIsKept'
  <2> SUFFICES ASSUME NEW s \in DOMAIN pools, NEW c \in FreeIn(pools, s)
               PROVE  c \in DOMAIN opened' => ~opened'[c].close
    BY <1>2 DEF CloseAnnouncedIsKept
  <2>1. c \in Connections
    <3>1. pools[s].free_connections \in Seq(Connections)
      BY <1>5 DEF RelayTypeOK, Pool
    <3> QED BY <3>1 DEF FreeIn, ToSet
  <2>2. c \in DOMAIN opened
    BY <1>5, <2>1 DEF Places, Accounted, AllInAPlace
  <2> QED BY <2>2, <1>5, <1>8 DEF CloseAnnouncedIsKept
<1> QED BY <1>11, <1>12, <1>14, <1>15, <1>16, <1>17 DEF RelayInv

\* The body of a reply that comes on an allocated connection.
LEMMA BodyType ==
    ASSUME RelayTypeOK, NEW c \in DOMAIN opened, NEW o \in Outcomes
    PROVE  Body(o, c) \in Seq(Parts) /\ Code(o) \in Nat
<1>1. opened[c].endpoint \in Endpoints
  BY DEF RelayTypeOK, Opened
<1>2. Part(opened[c].endpoint) \in Parts
  BY <1>1 DEF Part, Parts
<1>3. Body(o, c) \in Seq(Parts)
  BY <1>2 DEF Body
<1>4. o \in {"ok", "error", "refused", "lost"}
  BY RelayAssumption
<1>5. Code(o) \in Nat
  BY <1>4 DEF Code
<1> QED BY <1>3, <1>5

\* The reply to a request for one account keeps the invariant (process_relay).
LEMMA RelayCbInv ==
    ASSUME RelayInv, NEW r \in Requests, NEW o \in Outcomes, relay_cb(r, o)
    PROVE  RelayInv'
<1> DEFINE s == slot[r]
           c == conn[r]
<1>1. /\ up /\ c # NULL
      /\ Reply(r, Code(o), Body(o, c))
      /\ pools' = [ pools EXCEPT ![s] = return_connection(@, c) ]
      /\ opened' = IF last_use(pools[s], c) THEN Freed({c}) ELSE opened
      /\ conn' = [ conn EXCEPT ![r] = NULL ]
      /\ UNCHANGED << up, shards, asked, slot, connections, bodies, pending, allocFailures >>
  BY DEF relay_cb
<1>2. /\ RelayTypeOK /\ PlaceholdersMatch /\ RepliesMatch
      /\ CloseMatches /\ CloseAnnouncedIsKept
      /\ Places(pools, DOMAIN opened, conn, slot, connections)
  BY InvPlaces DEF RelayInv
<1>3. /\ s \in DOMAIN pools /\ c \in Connections /\ c \in DOMAIN opened
      /\ \A q \in Requests : conn[q] = c => q = r
  BY <1>1, <1>2 DEF Places, PlaceTypes, Accounted, LentOnce, AllInAPlace
<1>4. /\ connections[r] = {} /\ replies[r] = <<>> /\ asked[r] # <<>>
  BY <1>1, <1>2 DEF PlaceholdersMatch, RepliesMatch
<1>5. /\ replies' \in [ Requests -> Seq(Answers) ] /\ Len(replies'[r]) = 1
      /\ \A q \in Requests : q # r => replies'[q] = replies[q]
  BY <1>1, <1>2, <1>3, <1>4, BodyType, ReplySends
<1>6. /\ conn' \in [ Requests -> Connections \cup {NULL} ] /\ conn'[r] = NULL
      /\ \A q \in Requests : q # r => conn'[q] = conn[q]
  BY <1>1, <1>2 DEF RelayTypeOK
<1>7. DOMAIN opened' = IF last_use(pools[s], c) THEN DOMAIN opened \ {c} ELSE DOMAIN opened
  BY <1>1 DEF Freed
<1>8. \A d \in DOMAIN opened' : opened'[d] = opened[d] /\ d \in DOMAIN opened
  BY <1>1 DEF Freed
<1>9. Places(pools', DOMAIN opened', conn', slot, connections)
  <2>1. Places([ pools EXCEPT ![s] = return_connection(@, c) ],
               IF last_use(pools[s], c) THEN DOMAIN opened \ {c} ELSE DOMAIN opened,
               [ conn EXCEPT ![r] = NULL ], slot, connections)
    BY <1>1, <1>2, ReturnPlaces
  <2> QED BY <1>1, <1>7, <2>1
<1>10. RelayTypeOK'
  <2>1. opened' \in [ DOMAIN opened' -> Opened ] /\ DOMAIN opened' \subseteq Connections
    <3>1. opened' = [ d \in DOMAIN opened' |-> opened[d] ]
      BY <1>1, <1>2 DEF Freed, RelayTypeOK
    <3> QED BY <3>1, <1>2, <1>8 DEF RelayTypeOK
  <2>2. DOMAIN pools' \subseteq Nat /\ pools' \in [ DOMAIN pools' -> Pool ]
    BY <1>9 DEF Places, PlaceTypes, PoolsType
  <2>3. UNCHANGED << up, shards, asked, slot, connections, bodies, pending, allocFailures >>
    BY <1>1
  <2> QED BY <1>2, <1>5, <1>6, <2>1, <2>2, <2>3 DEF RelayTypeOK
<1>11. ConnectionsAccountedFor'
  BY <1>1, <1>9 DEF ConnectionsAccountedFor, Places
<1>12. PlaceholdersMatch'
  BY <1>1, <1>2, <1>4, <1>5, <1>6 DEF PlaceholdersMatch
<1>13. RepliesMatch'
  BY <1>1, <1>2, <1>4, <1>5, <1>6, ReplyOnce
<1>14. pools[s] \in Pool
  BY <1>2, <1>3 DEF RelayTypeOK
<1>15. /\ DOMAIN pools' = DOMAIN pools /\ pools'[s] = return_connection(pools[s], c)
       /\ \A q \in DOMAIN pools : q # s => pools'[q] = pools[q]
  BY <1>1, <1>2, <1>3 DEF RelayTypeOK
<1>16. /\ \A d \in Connections : d # c => pools'[s].uses_per_conn[d] = pools[s].uses_per_conn[d]
       /\ last_use(pools[s], c) => FreeIn(pools', s) = FreeIn(pools, s)
       /\ ~last_use(pools[s], c) => FreeIn(pools', s) = FreeIn(pools, s) \cup {c}
  <2>1. CASE last_use(pools[s], c)
    <3>1. pools'[s] = [ pools[s] EXCEPT !.uses_per_conn[c] = 0 ]
      BY <1>15, <2>1 DEF return_connection
    <3> QED BY <3>1, <2>1, <1>14 DEF FreeIn, Pool
  <2>2. CASE ~last_use(pools[s], c)
    <3>1. pools'[s] = [ pools[s] EXCEPT !.free_connections = Append(@, c) ]
      BY <1>15, <2>2 DEF return_connection
    <3>2. /\ pools'[s].free_connections = Append(pools[s].free_connections, c)
          /\ pools'[s].uses_per_conn = pools[s].uses_per_conn
      BY <3>1, <1>14 DEF Pool
    <3>3. /\ pools[s].free_connections \in Seq(Connections)
          /\ IsInjective(pools[s].free_connections)
          /\ c \notin ToSet(pools[s].free_connections)
      BY <1>1, <1>2, <1>3, <1>14 DEF Pool, Places, Accounted, FreeOnce, LentOnce, FreeIn
    <3>4. ToSet(Append(pools[s].free_connections, c)) = ToSet(pools[s].free_connections) \cup {c}
      BY <3>3, <1>3, QueueAppend
    <3> QED BY <3>2, <3>4, <2>2 DEF FreeIn
  <2> QED BY <2>1, <2>2
<1>17. CloseMatches'
  <2> SUFFICES ASSUME NEW q \in Requests, conn'[q] # NULL
               PROVE  opened'[conn'[q]].close <=> last_use(pools'[slot[q]], conn'[q])
    BY <1>1 DEF CloseMatches
  <2> DEFINE d == conn[q]
  <2>1. q # r /\ conn'[q] = d /\ d # NULL /\ d # c
    BY <1>3, <1>6
  <2>2. d \in Connections /\ slot[q] \in DOMAIN pools /\ d \in DOMAIN opened
    BY <1>2, <2>1 DEF Places, PlaceTypes, Accounted, LentOnce, AllInAPlace
  <2>3. d \in DOMAIN opened' /\ opened'[d] = opened[d]
    BY <1>7, <1>8, <2>1, <2>2
  <2>4. pools'[slot[q]].uses_per_conn[d] = pools[slot[q]].uses_per_conn[d]
    BY <1>15, <1>16, <2>1, <2>2
  <2>5. opened[d].close <=> last_use(pools[slot[q]], d)
    BY <1>2, <2>1 DEF CloseMatches
  <2> QED BY <2>1, <2>3, <2>4, <2>5 DEF last_use
<1>18. CloseAnnouncedIsKept'
  <2> SUFFICES ASSUME NEW q \in DOMAIN pools', NEW d \in FreeIn(pools', q), d \in DOMAIN opened'
               PROVE  ~opened'[d].close
    BY DEF CloseAnnouncedIsKept, FreeIn
  <2>1. opened'[d] = opened[d] /\ d \in DOMAIN opened
    BY <1>8
  <2>2. CASE d \in FreeIn(pools, q)
    BY <2>1, <2>2, <1>2, <1>15 DEF CloseAnnouncedIsKept
  <2>3. CASE d \notin FreeIn(pools, q)
    <3>1. q = s /\ d = c /\ ~last_use(pools[s], c)
      BY <2>3, <1>15, <1>16 DEF FreeIn
    <3>2. opened[c].close <=> last_use(pools[s], c)
      BY <1>1, <1>2 DEF CloseMatches
    <3> QED BY <2>1, <3>1, <3>2
  <2> QED BY <2>2, <2>3
<1> QED BY <1>10, <1>11, <1>12, <1>13, <1>17, <1>18 DEF RelayInv

\* The merged body is one, when no part of it is missing (add_replies).
LEMMA MergeType ==
    ASSUME NEW bs \in Seq(Seq(Parts)), bs # <<>>, ~MergeAborts(bs), NEW garbled
    PROVE  add_replies(bs, garbled) \in Seq(Parts)
<1>1. CASE bs[1] = <<>>
  BY <1>1 DEF add_replies
<1>2. CASE bs[1] # <<>>
  <2>1. \A i \in DOMAIN bs : bs[i] # <<>> /\ bs[i] \in Seq(Parts)
    BY <1>2 DEF MergeAborts
  <2>2. \A i \in DOMAIN bs : bs[i][1] \in Parts
    <3> SUFFICES ASSUME NEW i \in DOMAIN bs PROVE bs[i][1] \in Parts
      OBVIOUS
    <3>1. bs[i] # <<>> /\ bs[i] \in Seq(Parts)
      BY <2>1
    <3>2. 1 \in DOMAIN bs[i]
      BY <3>1
    <3> QED BY <3>1, <3>2
  <2>3. \A x \in Parts, b \in BOOLEAN : [ x EXCEPT !.intact = b ] \in Parts
    BY DEF Parts
  <2>4. DOMAIN bs = 1 .. Len(bs) /\ Len(bs) \in Nat
    OBVIOUS
  <2> DEFINE body == [ i \in DOMAIN bs |-> [ bs[i][1] EXCEPT !.intact = i \notin garbled ] ]
  <2>5. \A i \in DOMAIN bs : [ bs[i][1] EXCEPT !.intact = i \notin garbled ] \in Parts
    BY <2>2, <2>3
  <2>6. body \in [ 1 .. Len(bs) -> Parts ]
    BY <2>4, <2>5
  <2>7. add_replies(bs, garbled) = body
    BY <1>2 DEF add_replies
  <2> HIDE DEF body
  <2> QED BY <2>4, <2>6, <2>7
<1> QED BY <1>1, <1>2

\* One of the replies to a request to all shards keeps the invariant, whether
\* it aborts the relay, is stored or is the last (process_multiple_relay).
LEMMA MultipleRelayCbInv ==
    ASSUME RelayInv, NEW r \in Requests, NEW c \in Connections, NEW o \in Outcomes,
           multiple_relay_cb(r, c, o)
    PROVE  RelayInv'
<1> DEFINE bs == Append(bodies[r], Body(o, c))
<1>1. /\ up /\ c \in pending[r]
      /\ pending' = [ pending EXCEPT ![r] = @ \ {c} ]
      /\ UNCHANGED << shards, pools, asked, conn, slot, allocFailures >>
  BY DEF multiple_relay_cb
<1>2. /\ RelayTypeOK /\ PlaceholdersMatch /\ RepliesMatch
      /\ CloseMatches /\ CloseAnnouncedIsKept
      /\ Places(pools, DOMAIN opened, conn, slot, connections)
  BY InvPlaces DEF RelayInv
<1>3. /\ pending' \in [ Requests -> SUBSET Connections ] /\ pending'[r] = pending[r] \ {c}
      /\ \A q \in Requests : q # r => pending'[q] = pending[q]
  BY <1>1, <1>2 DEF RelayTypeOK
<1>4. /\ c \in connections[r] /\ pending[r] \subseteq connections[r]
      /\ IsFiniteSet(connections[r]) /\ asked[r] # <<>> /\ conn[r] = NULL
      /\ Len(bodies[r]) + Cardinality(pending[r]) = Cardinality(connections[r])
      /\ replies[r] = <<>>
  BY <1>1, <1>2 DEF PlaceholdersMatch, RepliesMatch
<1>5. /\ IsFiniteSet(pending[r]) /\ Cardinality(pending[r]) \in Nat
      /\ Cardinality(connections[r]) \in Nat
      /\ IsFiniteSet(pending[r] \ {c})
      /\ Cardinality(pending[r] \ {c}) = Cardinality(pending[r]) - 1
  <2>1. IsFiniteSet(pending[r])
    BY <1>4, FS_Subset
  <2>2. /\ IsFiniteSet(pending[r] \ {c})
        /\ Cardinality(pending[r] \ {c}) = Cardinality(pending[r]) - 1
    BY <1>1, <2>1, FS_RemoveElement
  <2> QED BY <1>4, <2>1, <2>2, FS_CardinalityType
<1>6. c \in DOMAIN opened
  BY <1>2, <1>4 DEF Places, Accounted, AllInAPlace
<1>7. Body(o, c) \in Seq(Parts) /\ Code(o) \in Nat
  BY <1>2, <1>6, BodyType
<1>8. /\ bodies[r] \in Seq(Seq(Parts)) /\ bs \in Seq(Seq(Parts))
      /\ Len(bs) = Len(bodies[r]) + 1 /\ Len(bodies[r]) \in Nat /\ bs # <<>>
  <2>1. bodies[r] \in Seq(Seq(Parts))
    BY <1>2 DEF RelayTypeOK
  <2> DEFINE b == Body(o, c)
             P == Seq(Parts)
  <2>2. b \in P /\ bodies[r] \in Seq(P)
    BY <1>7, <2>1
  <2> HIDE DEF b, P
  <2>3. /\ Append(bodies[r], b) \in Seq(P)
        /\ Len(Append(bodies[r], b)) = Len(bodies[r]) + 1 /\ Len(bodies[r]) \in Nat
    BY <2>2
  <2>4. Append(bodies[r], b) # <<>>
    BY <2>3
  <2> QED BY <2>1, <2>3, <2>4 DEF b, P
<1> HIDE DEF bs
<1>9. \/ /\ up' = FALSE
         /\ UNCHANGED << opened, connections, bodies, replies >>
      \/ /\ bodies' = [ bodies EXCEPT ![r] = bs ]
         /\ UNCHANGED << up, opened, connections, replies >>
      \/ /\ Len(bs) = Cardinality(connections[r]) /\ ~MergeAborts(bs)
         /\ \E garbled \in Garbled(bs) : Reply(r, Code(o), add_replies(bs, garbled))
         /\ opened' = Freed(connections[r])
         /\ connections' = [ connections EXCEPT ![r] = {} ]
         /\ bodies' = [ bodies EXCEPT ![r] = <<>> ]
         /\ UNCHANGED up
  BY DEF multiple_relay_cb, AllAnswered, bs
<1>10. CASE /\ up' = FALSE
            /\ UNCHANGED << opened, connections, bodies, replies >>
  <2>1. RelayTypeOK'
    BY <1>1, <1>2, <1>3, <1>10 DEF RelayTypeOK
  <2>2. ConnectionsAccountedFor' /\ CloseMatches' /\ CloseAnnouncedIsKept'
    BY <1>1, <1>10, PlacesFrame
  <2>3. PlaceholdersMatch'
    BY <1>1, <1>2, <1>3, <1>10 DEF PlaceholdersMatch
  <2>4. RepliesMatch'
    BY <1>1, <1>2, <1>10 DEF RepliesMatch
  <2> QED BY <2>1, <2>2, <2>3, <2>4 DEF RelayInv
<1>11. CASE /\ bodies' = [ bodies EXCEPT ![r] = bs ]
            /\ UNCHANGED << up, opened, connections, replies >>
  <2>1. /\ bodies' \in [ Requests -> Seq(Seq(Parts)) ] /\ bodies'[r] = bs
        /\ \A q \in Requests : q # r => bodies'[q] = bodies[q]
    BY <1>2, <1>8, <1>11 DEF RelayTypeOK
  <2>2. RelayTypeOK'
    BY <1>1, <1>2, <1>3, <1>11, <2>1 DEF RelayTypeOK
  <2>3. ConnectionsAccountedFor' /\ CloseMatches' /\ CloseAnnouncedIsKept'
    BY <1>1, <1>11, PlacesFrame
  <2>4. Len(bodies'[r]) + Cardinality(pending'[r]) = Cardinality(connections[r])
    BY <1>3, <1>4, <1>5, <1>8, <2>1
  <2>5. PlaceholdersMatch'
    BY <1>1, <1>2, <1>3, <1>11, <2>1, <2>4 DEF PlaceholdersMatch
  <2>6. RepliesMatch'
    BY <1>1, <1>2, <1>11 DEF RepliesMatch
  <2> QED BY <2>2, <2>3, <2>5, <2>6 DEF RelayInv
<1>12. CASE /\ Len(bs) = Cardinality(connections[r]) /\ ~MergeAborts(bs)
            /\ \E garbled \in Garbled(bs) : Reply(r, Code(o), add_replies(bs, garbled))
            /\ opened' = Freed(connections[r])
            /\ connections' = [ connections EXCEPT ![r] = {} ]
            /\ bodies' = [ bodies EXCEPT ![r] = <<>> ]
            /\ UNCHANGED up
  <2>1. PICK garbled \in Garbled(bs) : Reply(r, Code(o), add_replies(bs, garbled))
    BY <1>12
  <2>2. add_replies(bs, garbled) \in Seq(Parts)
    BY <1>8, <1>12, MergeType
  <2>3. /\ replies' \in [ Requests -> Seq(Answers) ] /\ Len(replies'[r]) = 1
        /\ \A q \in Requests : q # r => replies'[q] = replies[q]
    BY <1>2, <1>4, <1>7, <2>1, <2>2, ReplySends
  <2>4. /\ connections' \in [ Requests -> SUBSET Connections ] /\ connections'[r] = {}
        /\ \A q \in Requests : q # r => connections'[q] = connections[q]
        /\ bodies' \in [ Requests -> Seq(Seq(Parts)) ] /\ bodies'[r] = <<>>
        /\ \A q \in Requests : q # r => bodies'[q] = bodies[q]
    <3>1. <<>> \in Seq(Seq(Parts))
      OBVIOUS
    <3> DEFINE P == Seq(Seq(Parts))
    <3>2. bodies \in [ Requests -> P ] /\ <<>> \in P
      BY <3>1, <1>2 DEF RelayTypeOK
    <3> HIDE DEF P
    <3>3. /\ bodies' \in [ Requests -> P ] /\ bodies'[r] = <<>>
          /\ \A q \in Requests : q # r => bodies'[q] = bodies[q]
      BY <1>12, <3>2
    <3>4. /\ connections' \in [ Requests -> SUBSET Connections ] /\ connections'[r] = {}
          /\ \A q \in Requests : q # r => connections'[q] = connections[q]
      BY <1>12, <1>2 DEF RelayTypeOK
    <3> QED BY <3>3, <3>4 DEF P
  <2>5. /\ DOMAIN opened' = DOMAIN opened \ connections[r]
        /\ \A d \in DOMAIN opened' : opened'[d] = opened[d]
        /\ opened' \in [ DOMAIN opened' -> Opened ]
    BY <1>2, <1>12 DEF Freed, RelayTypeOK
  <2>6. RelayTypeOK'
    <3>1. DOMAIN opened' \subseteq Connections
      BY <1>2, <2>5 DEF RelayTypeOK
    <3>2. UNCHANGED up
      BY <1>12
    <3> QED BY <1>1, <1>2, <1>3, <2>3, <2>4, <2>5, <3>1, <3>2 DEF RelayTypeOK
  <2>7. Places(pools, DOMAIN opened', conn, slot, connections')
    <3>1. Places(pools, DOMAIN opened \ connections[r], conn, slot,
                 [ connections EXCEPT ![r] = {} ])
      BY <1>2, DisownPlaces
    <3> QED BY <1>12, <2>5, <3>1
  <2>8. ConnectionsAccountedFor'
    BY <1>1, <2>7 DEF Places, ConnectionsAccountedFor
  <2>9. pending'[r] = {}
    <3>1. Cardinality(pending[r] \ {c}) = 0
      BY <1>4, <1>5, <1>8, <1>12
    <3> QED BY <1>3, <1>5, <3>1, FS_EmptySet
  <2>10. Len(bodies'[r]) + Cardinality(pending'[r]) = Cardinality(connections'[r])
         /\ IsFiniteSet(connections'[r])
    BY <2>4, <2>9, FS_EmptySet
  <2>11. PlaceholdersMatch'
    BY <1>1, <1>2, <1>3, <1>4, <1>12, <2>3, <2>4, <2>9, <2>10 DEF PlaceholdersMatch
  <2>12. RepliesMatch'
    BY <1>1, <1>2, <1>4, <2>3, <2>4, ReplyOnce
  <2>13. CloseMatches'
    <3> SUFFICES ASSUME NEW q \in Requests, conn[q] # NULL
                 PROVE  opened'[conn[q]].close <=> last_use(pools[slot[q]], conn[q])
      BY <1>1 DEF CloseMatches
    <3>1. conn[q] \in DOMAIN opened /\ conn[q] \notin connections[r]
      BY <1>2 DEF Places, PlaceTypes, Accounted, AllInAPlace, OwnOnce
    <3> QED BY <3>1, <2>5, <1>2 DEF CloseMatches
  <2>14. CloseAnnouncedIsKept'
    <3> SUFFICES ASSUME NEW s \in DOMAIN pools, NEW d \in FreeIn(pools, s), d \in DOMAIN opened'
                 PROVE  ~opened'[d].close
      BY <1>1 DEF CloseAnnouncedIsKept
    <3> QED BY <2>5, <1>2 DEF CloseAnnouncedIsKept
  <2> QED BY <2>6, <2>8, <2>11, <2>12, <2>13, <2>14 DEF RelayInv
<1> QED BY <1>9, <1>10, <1>11, <1>12

\* The relay starts in the invariant (its constructor).
LEMMA InitInv ==
    ASSUME Init
    PROVE  RelayInv
<1>1. RelayTypeOK
  <2>1. Config \in [ DOMAIN Config -> Endpoints ]
    BY RelayAssumption DEF Endpoints
  <2>2. DOMAIN pools = {} /\ pools \in [ DOMAIN pools -> Pool ]
    BY DEF Init, NoPools
  <2>3. DOMAIN opened = {} /\ opened \in [ DOMAIN opened -> Opened ]
    BY DEF Init, NoneOpened
  <2>4. <<>> \in Seq(Answers) /\ <<>> \in Seq(Seq(Parts))
    OBVIOUS
  <2>5. replies \in [ Requests -> Seq(Answers) ] /\ bodies \in [ Requests -> Seq(Seq(Parts)) ]
    BY <2>4 DEF Init
  <2> QED BY <2>1, <2>2, <2>3, <2>5, RelayAssumption DEF Init, RelayTypeOK
<1>2. DOMAIN pools = {} /\ DOMAIN opened = {}
  BY DEF Init, NoPools, NoneOpened
<1>3. ConnectionsAccountedFor
  BY <1>2, PoolAssumption DEF Init, ConnectionsAccountedFor, Accounted, UsesMatch,
     FreeOnce, LentOnce, OwnOnce, AllInAPlace
<1>4. PlaceholdersMatch
  <2>1. /\ IsFiniteSet(DOMAIN shards) /\ DOMAIN shards # {}
    BY RelayAssumption DEF Init
  <2>2. ASSUME NEW r \in Requests
        PROVE  /\ conn[r] = NULL /\ connections[r] = {} /\ replies[r] = <<>>
               /\ pending[r] = {} /\ bodies[r] = <<>>
    BY DEF Init
  <2>3. IsFiniteSet({}) /\ Cardinality({}) = 0 /\ Len(<<>>) = 0
    BY FS_EmptySet
  <2>4. ASSUME NEW r \in Requests
        PROVE  Len(bodies[r]) + Cardinality(pending[r]) = Cardinality(connections[r])
    <3>1. Len(bodies[r]) = 0
      BY <2>2, <2>3
    <3>2. Cardinality(pending[r]) = 0 /\ Cardinality(connections[r]) = 0
      BY <2>2, <2>3
    <3> QED BY <3>1, <3>2
  <2> QED BY <2>1, <2>2, <2>3, <2>4 DEF PlaceholdersMatch
<1>5. RepliesMatch
  BY DEF Init, RepliesMatch
<1>6. CloseMatches /\ CloseAnnouncedIsKept
  BY <1>2 DEF Init, CloseMatches, CloseAnnouncedIsKept
<1> QED BY <1>1, <1>3, <1>4, <1>5, <1>6 DEF RelayInv

\* Every step keeps the invariant.
LEMMA StepInv ==
    ASSUME RelayInv, [Next]_vars
    PROVE  RelayInv'
<1>1. CASE UNCHANGED vars
  <2>1. UNCHANGED << up, shards, pools, opened, asked, conn, slot, connections, bodies,
                     pending, replies, allocFailures >>
    BY <1>1 DEF vars, placeholders
  <2>2. ConnectionsAccountedFor' /\ CloseMatches' /\ CloseAnnouncedIsKept'
    BY <2>1, PlacesFrame
  <2>3. RelayTypeOK'
    BY <2>1 DEF RelayInv, RelayTypeOK
  <2>4. PlaceholdersMatch'
    BY <2>1 DEF RelayInv, PlaceholdersMatch
  <2>5. RepliesMatch'
    BY <2>1 DEF RelayInv, RepliesMatch
  <2> QED BY <2>2, <2>3, <2>4, <2>5 DEF RelayInv
<1>2. CASE Next
  <2>1. PICK r \in Requests :
           \/ \E t \in Targets : \/ no_account(r, t) \/ single_shoot(r, t)
                                \/ multiple_shoot(r, t) \/ multiple_shoot_no_memory(r, t)
           \/ \E o \in Outcomes : relay_cb(r, o)
           \/ \E o \in Outcomes, c \in Connections : multiple_relay_cb(r, c, o)
    BY <1>2 DEF Next
  <2>2. ASSUME NEW t \in Targets, no_account(r, t) PROVE RelayInv'
    BY <2>2, NoAccountInv
  <2>3. ASSUME NEW t \in Targets, single_shoot(r, t) PROVE RelayInv'
    BY <2>3, SingleShootInv
  <2>4. ASSUME NEW t \in Targets, multiple_shoot(r, t) PROVE RelayInv'
    BY <2>4, MultipleShootInv
  <2>5. ASSUME NEW t \in Targets, multiple_shoot_no_memory(r, t) PROVE RelayInv'
    BY <2>5, NoMemoryInv
  <2>6. ASSUME NEW o \in Outcomes, relay_cb(r, o) PROVE RelayInv'
    BY <2>6, RelayCbInv
  <2>7. ASSUME NEW o \in Outcomes, NEW c \in Connections, multiple_relay_cb(r, c, o)
        PROVE  RelayInv'
    BY <2>7, MultipleRelayCbInv
  <2> QED BY <2>1, <2>2, <2>3, <2>4, <2>5, <2>6, <2>7
<1> QED BY <1>1, <1>2

----------------------------------------------------------------------------
(***************************************************************************)
(* The theorems.                                                           *)
(***************************************************************************)
\* The inductive invariant holds in every state of the relay.
THEOREM RelayInvariant == Spec => []RelayInv
<1>1. Init => RelayInv
  BY InitInv
<1>2. RelayInv /\ [Next]_vars => RelayInv'
  BY StepInv
<1> QED BY <1>1, <1>2, PTL DEF Spec

\* The relay's state has its types (single_shoot, multiple_shoot and the
\* callbacks).
THEOREM RelayTypes == Spec => []RelayTypeOK
<1>1. RelayInv => RelayTypeOK
  BY DEF RelayInv
<1> QED BY <1>1, RelayInvariant, PTL

\* No connection is lost, shared, or in use after it was freed, for any
\* number of requests, pools and connections (get_connection,
\* return_connection, process_multiple_relay).
THEOREM NoConnectionLost == Spec => []ConnectionsAccountedFor
<1>1. RelayInv => ConnectionsAccountedFor
  BY DEF RelayInv
<1> QED BY <1>1, RelayInvariant, PTL

\* A banker that was told "Connection: close" gets no other request on the
\* connection (set_connection_header, return_connection).
THEOREM CloseKept == Spec => []CloseAnnouncedIsKept
<1>1. RelayInv => CloseAnnouncedIsKept
  BY DEF RelayInv
<1> QED BY <1>1, RelayInvariant, PTL

\* A client gets at most one reply, after its request left the bankers
\* (process_relay, process_multiple_relay).
THEOREM AtMostOneReply == Spec => []OneReplyEach
<1>1. RelayInv => OneReplyEach
  BY DEF RelayInv, RepliesMatch, PlaceholdersMatch, OneReplyEach
<1> QED BY <1>1, RelayInvariant, PTL

----------------------------------------------------------------------------
(***************************************************************************)
(* Which banker a request goes to, when the shards are numbered from 0     *)
(* without a gap: then the lookup of a shard never adds an entry, and each *)
(* pool is for good the one of its slot's banker.                          *)
(***************************************************************************)
RepliesFromOwner(rs, t) ==
    Head(t) \notin {"*", ""} =>
        \A i \in DOMAIN rs : rs[i].code = 200 => rs[i].body = << Part(OwnerOf(t)) >>

RoutedRequest(r) ==
    /\ connections[r] # {} => Head(asked[r]) = "*"
    /\ conn[r] # NULL =>
         /\ Head(asked[r]) \notin {"*", ""}
         /\ opened[conn[r]].endpoint = OwnerOf(asked[r])
    /\ RepliesFromOwner(replies[r], asked[r])

RoutedPools ==
    /\ shards = Config
    /\ DOMAIN pools \subseteq DOMAIN Config
    /\ \A s \in DOMAIN pools : pools[s].endpoint = Config[s]

Routed == RoutedPools /\ \A r \in Requests : RoutedRequest(r)

\* What was sent is what the client has.
LEMMA OnlyReply ==
    ASSUME RelayTypeOK, NEW r \in Requests, replies[r] = <<>>,
           NEW code, NEW body, Reply(r, code, body)
    PROVE  /\ \A i \in DOMAIN replies'[r] :
                 replies'[r][i].code = code /\ replies'[r][i].body = body
           /\ \A q \in Requests : q # r => replies'[q] = replies[q]
<1> DEFINE answer == [ code |-> code, body |-> body ]
<1>1. answer.code = code /\ answer.body = body
  OBVIOUS
<1>2. replies' = [ replies EXCEPT ![r] = Append(replies[r], answer) ]
  BY DEF Reply, RelayTypeOK
<1> HIDE DEF answer
<1>3. replies'[r] = << answer >> /\ \A q \in Requests : q # r => replies'[q] = replies[q]
  BY <1>2 DEF RelayTypeOK
<1> QED BY <1>1, <1>3

\* A request nothing happened to.
LEMMA RoutedFrame ==
    ASSUME NEW r \in Requests, RoutedRequest(r),
           asked'[r] = asked[r], conn'[r] = conn[r], connections'[r] = connections[r],
           replies'[r] = replies[r],
           conn[r] # NULL => opened'[conn[r]] = opened[conn[r]]
    PROVE  RoutedRequest(r)'
<1>1. OwnerOf(asked[r])' = OwnerOf(asked[r])
  BY DEF OwnerOf
<1>2. (connections[r] # {} => Head(asked[r]) = "*")'
  BY DEF RoutedRequest
<1>3. (conn[r] # NULL => /\ Head(asked[r]) \notin {"*", ""}
                        /\ opened[conn[r]].endpoint = OwnerOf(asked[r]))'
  BY <1>1 DEF RoutedRequest
<1>4. RepliesFromOwner(replies'[r], asked'[r])
  BY DEF RoutedRequest
<1> QED BY <1>2, <1>3, <1>4 DEF RoutedRequest

\* The shard of a hash has an entry, and it is the pool's slot.
LEMMA ContiguousLookup ==
    ASSUME ContiguousShards, NEW hash \in Nat
    PROVE  /\ hash % Cardinality(DOMAIN Config) \in DOMAIN Config
           /\ get_banker_uri(Config, hash) = Config
           /\ get_shard(Config, hash) = hash % Cardinality(DOMAIN Config)
<1> DEFINE N == Cardinality(DOMAIN Config)
           x == hash % N
<1>1. N \in Nat \ {0}
  BY RelayAssumption, FS_CardinalityType, FS_EmptySet
<1> HIDE DEF N
<1>2. x \in 0 .. N - 1
  BY <1>1
<1>3. x \in DOMAIN Config
  BY <1>2 DEF ContiguousShards, N
<1> HIDE DEF x
<1>4. DOMAIN Config \cup {x} = DOMAIN Config
  BY <1>3
<1>5. get_banker_uri(Config, hash) = [ s \in DOMAIN Config |-> Config[s] ]
  BY <1>4 DEF get_banker_uri, x, N
<1>6. Config = [ s \in DOMAIN Config |-> Config[s] ]
  BY RelayAssumption
<1> QED BY <1>3, <1>5, <1>6 DEF get_shard, x, N

\* A request for one account is sent to its owner (get_relay_conn_pool).
LEMMA RoutedSingleShoot ==
    ASSUME ContiguousShards, RelayInv, RelayInv', Routed,
           NEW r \in Requests, NEW t \in Targets, single_shoot(r, t)
    PROVE  Routed'
<1> DEFINE hash == SDBMHash[get_parent_account(t)]
           s == hash % Cardinality(DOMAIN Config)
           ps == WithPool(pools, s, Config[s])
<1>1. Head(t) \notin {"*", ""} /\ Receive(r, t) /\ connections' = connections
  BY DEF single_shoot, get_parent_account
<1>2. hash \in Nat
  BY <1>1, RelayAssumption DEF get_parent_account
<1>3. shards = Config
  BY DEF Routed, RoutedPools
<1>4. /\ s \in DOMAIN Config /\ get_banker_uri(shards, hash) = Config
      /\ get_shard(Config, hash) = s
  BY <1>2, <1>3, ContiguousLookup
<1>5. /\ shards' = Config
      /\ \E g \in get_connection(ps[s], Fresh) :
         /\ pools' = [ ps EXCEPT ![s] = g.pool ]
         /\ \/ /\ g.conn = NULL
               /\ Reply(r, 500, <<>>)
               /\ UNCHANGED << opened, conn >>
            \/ /\ g.conn # NULL
               /\ conn' = [ conn EXCEPT ![r] = g.conn ]
               /\ opened' = Sent({g.conn}, [ c \in {g.conn} |-> g.pool.endpoint ],
                                 last_use(g.pool, g.conn))
               /\ UNCHANGED replies
  <2> USE <1>3, <1>4
  <2> QED BY Zenon DEF single_shoot
<1>6. Config[s] = OwnerOf(t)
  BY DEF OwnerOf, get_parent_account
<1>7. PICK g \in get_connection(ps[s], Fresh) :
         /\ pools' = [ ps EXCEPT ![s] = g.pool ]
         /\ \/ /\ g.conn = NULL
               /\ Reply(r, 500, <<>>)
               /\ UNCHANGED << opened, conn >>
            \/ /\ g.conn # NULL
               /\ conn' = [ conn EXCEPT ![r] = g.conn ]
               /\ opened' = Sent({g.conn}, [ c \in {g.conn} |-> g.pool.endpoint ],
                                 last_use(g.pool, g.conn))
               /\ UNCHANGED replies
  BY <1>5
<1> HIDE DEF s, hash
<1>8. /\ DOMAIN ps = DOMAIN pools \cup {s}
      /\ \A q \in DOMAIN pools : ps[q] = pools[q]
      /\ s \notin DOMAIN pools => ps[s].endpoint = Config[s]
  BY DEF WithPool, NewPool
<1>9. ps[s].endpoint = Config[s]
  BY <1>8 DEF Routed, RoutedPools
<1> HIDE DEF ps
<1>10. g.pool.endpoint = Config[s]
  <2>1. CASE CreatesConnection(ps[s])
    <3>1. PICK c \in Fresh : g = [ conn |-> c, pool |-> [ ps[s] EXCEPT !.uses_per_conn[c] = 1 ] ]
      BY <2>1 DEF get_connection
    <3>2. g.pool = [ ps[s] EXCEPT !.uses_per_conn[c] = 1 ]
      BY <3>1
    <3> QED BY <3>2, <1>9
  <2>2. CASE ~CreatesConnection(ps[s])
    <3> DEFINE h == Head(ps[s].free_connections)
               lent == Lend(ps[s], h)
    <3>1. g \in { [ conn |-> h, pool |-> lent ] }
      BY <2>2, Zenon DEF get_connection, Lend
    <3>2. lent.endpoint = ps[s].endpoint
      BY DEF Lend
    <3> HIDE DEF lent
    <3>3. g.pool = lent
      BY <3>1
    <3> QED BY <3>2, <3>3, <1>9
  <2> QED BY <2>1, <2>2
<1>11. RoutedPools'
  <2>1. /\ DOMAIN pools' = DOMAIN pools \cup {s} /\ pools'[s] = g.pool
        /\ \A q \in DOMAIN pools : q # s => pools'[q] = pools[q]
    BY <1>7, <1>8
  <2> QED BY <2>1, <1>4, <1>5, <1>10 DEF Routed, RoutedPools
<1>12. /\ asked' \in [ Requests -> Targets \cup {<<>>} ]
       /\ \A q \in Requests : q # r => asked'[q] = asked[q]
       /\ conn[r] = NULL /\ connections[r] = {} /\ replies[r] = <<>>
  BY <1>1, ReceiveTarget
<1>13. asked'[r] = t
  BY <1>1 DEF Receive, RelayInv, RelayTypeOK
<1>14. CASE g.conn = NULL
  <2>1. Reply(r, 500, <<>>) /\ UNCHANGED << opened, conn >>
    BY <1>7, <1>14
  <2>2. /\ \A i \in DOMAIN replies'[r] : replies'[r][i].code = 500
        /\ \A q \in Requests : q # r => replies'[q] = replies[q]
    BY <2>1, <1>12, OnlyReply DEF RelayInv
  <2>3. RoutedRequest(r)'
    <3>1. \A i \in DOMAIN replies'[r] : replies'[r][i].code # 200
      BY <2>2
    <3>2. conn'[r] = NULL /\ connections'[r] = {}
      BY <2>1, <1>1, <1>12
    <3> QED BY <3>1, <3>2 DEF RoutedRequest, RepliesFromOwner
  <2>4. ASSUME NEW q \in Requests, q # r PROVE RoutedRequest(q)'
    BY <2>1, <2>2, <2>4, <1>1, <1>12, RoutedFrame DEF Routed
  <2> QED BY <1>11, <2>3, <2>4 DEF Routed
<1>15. CASE g.conn # NULL
  <2> DEFINE c == g.conn
  <2>1. /\ conn' = [ conn EXCEPT ![r] = c ]
        /\ opened' = Sent({c}, [ d \in {c} |-> g.pool.endpoint ], last_use(g.pool, c))
        /\ UNCHANGED replies
    BY <1>7, <1>15
  <2>2. /\ conn'[r] = c /\ \A q \in Requests : q # r => conn'[q] = conn[q]
    BY <2>1 DEF RelayInv, RelayTypeOK
  <2>3. /\ opened'[c].endpoint = g.pool.endpoint
        /\ \A d \in DOMAIN opened : d # c => opened'[d] = opened[d]
    BY <2>1 DEF Sent
  <2> HIDE DEF c
  <2>4. RoutedRequest(r)'
    <3>1. \A i \in DOMAIN replies'[r] : FALSE
      BY <2>1, <1>12
    <3>2. opened'[conn'[r]].endpoint = OwnerOf(t)
      BY <2>2, <2>3, <1>6, <1>10
    <3>3. OwnerOf(asked[r])' = OwnerOf(t)
      BY <1>13 DEF OwnerOf
    <3> QED BY <3>1, <3>2, <3>3, <1>1, <1>12, <1>13 DEF RoutedRequest, RepliesFromOwner
  <2>5. ASSUME NEW q \in Requests, q # r PROVE RoutedRequest(q)'
    <3>1. conn[q] # NULL => conn[q] # c
      <4>1. \A x, y \in Requests : conn'[x] # NULL /\ conn'[y] = conn'[x] => y = x
        BY DEF RelayInv, ConnectionsAccountedFor, Accounted, LentOnce
      <4> QED BY <4>1, <2>2, <2>5
    <3>2. conn[q] # NULL => conn[q] \in DOMAIN opened
      BY DEF RelayInv, RelayTypeOK, ConnectionsAccountedFor, Accounted, AllInAPlace
    <3> QED BY <3>1, <3>2, <2>1, <2>2, <2>3, <2>5, <1>1, <1>12, RoutedFrame DEF Routed
  <2> QED BY <1>11, <2>4, <2>5 DEF Routed
<1> QED BY <1>14, <1>15

\* A reply is its owner's, and a connection stays in its pool (process_relay).
LEMMA RoutedRelayCb ==
    ASSUME RelayInv, Routed, NEW r \in Requests, NEW o \in Outcomes, relay_cb(r, o)
    PROVE  Routed'
<1> DEFINE c == conn[r]
           s == slot[r]
<1>1. /\ c # NULL
      /\ Reply(r, Code(o), Body(o, c))
      /\ pools' = [ pools EXCEPT ![s] = return_connection(@, c) ]
      /\ opened' = IF last_use(pools[s], c) THEN Freed({c}) ELSE opened
      /\ conn' = [ conn EXCEPT ![r] = NULL ]
      /\ UNCHANGED << shards, asked, connections >>
  BY DEF relay_cb
<1>2. /\ conn'[r] = NULL /\ \A q \in Requests : q # r => conn'[q] = conn[q]
  BY <1>1 DEF RelayInv, RelayTypeOK
<1>3. connections[r] = {} /\ replies[r] = <<>>
  BY <1>1 DEF RelayInv, PlaceholdersMatch, RepliesMatch
<1>4. /\ \A i \in DOMAIN replies'[r] :
           replies'[r][i].code = Code(o) /\ replies'[r][i].body = Body(o, c)
      /\ \A q \in Requests : q # r => replies'[q] = replies[q]
  BY <1>1, <1>3, OnlyReply DEF RelayInv
<1>5. opened[c].endpoint = OwnerOf(asked[r])
  BY <1>1 DEF Routed, RoutedRequest
<1>6. RoutedRequest(r)'
  <2>1. Code(o) = 200 => o = "ok"
    <3>1. o \in {"ok", "error", "refused", "lost"}
      BY RelayAssumption
    <3> QED BY <3>1 DEF Code
  <2>2. o = "ok" => Body(o, c) = << Part(OwnerOf(asked[r])) >>
    BY <1>5 DEF Body
  <2>3. RepliesFromOwner(replies'[r], asked[r])
    <3> SUFFICES ASSUME NEW i \in DOMAIN replies'[r], replies'[r][i].code = 200
                 PROVE  replies'[r][i].body = << Part(OwnerOf(asked[r])) >>
      BY Zenon DEF RepliesFromOwner
    <3>1. replies'[r][i].code = Code(o) /\ replies'[r][i].body = Body(o, c)
      BY <1>4, Zenon
    <3>2. Code(o) = 200
      BY <3>1, Zenon
    <3> QED BY <3>1, <3>2, <2>1, <2>2, Zenon
  <2>4. conn'[r] = NULL /\ connections'[r] = {} /\ asked' = asked
    BY <1>1, <1>2, <1>3
  <2> QED BY <2>3, <2>4 DEF RoutedRequest
<1>7. ASSUME NEW q \in Requests, q # r PROVE RoutedRequest(q)'
  <2>1. conn[q] # NULL => conn[q] # c /\ conn[q] \in DOMAIN opened
    BY <1>7 DEF RelayInv, RelayTypeOK, ConnectionsAccountedFor, Accounted, LentOnce, AllInAPlace
  <2>2. \A d \in DOMAIN opened : d # c => opened'[d] = opened[d]
    BY <1>1 DEF Freed
  <2>3. /\ asked'[q] = asked[q] /\ conn'[q] = conn[q] /\ connections'[q] = connections[q]
        /\ replies'[q] = replies[q]
        /\ conn[q] # NULL => opened'[conn[q]] = opened[conn[q]]
    BY <1>1, <1>2, <1>4, <1>7, <2>1, <2>2
  <2> QED BY <2>3, RoutedFrame DEF Routed
<1>8. RoutedPools'
  <2>1. s \in DOMAIN pools
    BY <1>1 DEF RelayInv, ConnectionsAccountedFor, Accounted, LentOnce
  <2>2. pools[s] \in Pool
    BY <2>1 DEF RelayInv, RelayTypeOK
  <2>3. return_connection(pools[s], c).endpoint = pools[s].endpoint
    BY <2>2 DEF return_connection, Pool
  <2>4. /\ DOMAIN pools' = DOMAIN pools
        /\ \A q \in DOMAIN pools : pools'[q].endpoint = pools[q].endpoint
    <3> DEFINE ret == return_connection(pools[s], c)
    <3>1. pools' = [ pools EXCEPT ![s] = ret ]
      BY <1>1
    <3> HIDE DEF ret
    <3> QED BY <3>1, <2>1, <2>3 DEF ret
  <2> QED BY <1>1, <2>4 DEF Routed, RoutedPools
<1> QED BY <1>6, <1>7, <1>8 DEF Routed

\* The replies to a request to all shards leave the others alone
\* (process_multiple_relay).
LEMMA RoutedMultipleRelayCb ==
    ASSUME RelayInv, Routed, NEW r \in Requests, NEW c \in Connections, NEW o \in Outcomes,
           multiple_relay_cb(r, c, o)
    PROVE  Routed'
<1>1. /\ c \in pending[r] /\ UNCHANGED << shards, pools, asked, conn, slot >>
  BY DEF multiple_relay_cb
<1>2. connections[r] # {} /\ conn[r] = NULL
  BY <1>1 DEF RelayInv, PlaceholdersMatch
<1>3. Head(asked[r]) = "*"
  BY <1>2 DEF Routed, RoutedRequest
<1>4. /\ \A q \in Requests : q # r => connections'[q] = connections[q] /\ replies'[q] = replies[q]
      /\ opened' = opened \/ opened' = Freed(connections[r])
  BY DEF multiple_relay_cb, Reply, RelayInv, RelayTypeOK
<1>5. RoutedRequest(r)'
  BY <1>1, <1>2, <1>3 DEF RoutedRequest, RepliesFromOwner
<1>6. ASSUME NEW q \in Requests, q # r PROVE RoutedRequest(q)'
  <2>1. conn[q] # NULL => conn[q] \notin connections[r] /\ conn[q] \in DOMAIN opened
    BY DEF RelayInv, RelayTypeOK, ConnectionsAccountedFor, Accounted, OwnOnce, AllInAPlace
  <2>2. conn[q] # NULL => opened'[conn[q]] = opened[conn[q]]
    BY <2>1, <1>4 DEF Freed
  <2> QED BY <1>1, <1>4, <1>6, <2>2, RoutedFrame DEF Routed
<1>7. RoutedPools'
  BY <1>1 DEF Routed, RoutedPools
<1> QED BY <1>5, <1>6, <1>7 DEF Routed

\* A request to all shards leaves the pools alone (multiple_shoot).
LEMMA RoutedMultipleShoot ==
    ASSUME RelayInv, Routed, NEW r \in Requests, NEW t \in Targets, multiple_shoot(r, t)
    PROVE  Routed'
<1>1. /\ Head(t) = "*" /\ Receive(r, t)
      /\ UNCHANGED << shards, pools, conn, replies >>
  BY DEF multiple_shoot, get_parent_account
<1>2. /\ \A q \in Requests : q # r => asked'[q] = asked[q]
      /\ conn[r] = NULL /\ asked'[r] = t
  BY <1>1, ReceiveTarget DEF Receive, RelayInv, RelayTypeOK
<1>3. PICK cs \in SUBSET (Connections \ DOMAIN opened) :
         /\ connections' = [ connections EXCEPT ![r] = cs ]
         /\ \E e : opened' = Sent(cs, e, FALSE)
  BY DEF multiple_shoot
<1>4. /\ \A q \in Requests : q # r => connections'[q] = connections[q]
      /\ \A d \in DOMAIN opened : opened'[d] = opened[d]
  <2>1. \A q \in Requests : q # r => connections'[q] = connections[q]
    BY <1>3 DEF RelayInv, RelayTypeOK
  <2>2. PICK e : opened' = Sent(cs, e, FALSE)
    BY <1>3
  <2>3. \A d \in DOMAIN opened : d \notin cs
    BY <1>3
  <2>4. \A d \in DOMAIN opened : opened'[d] = opened[d]
    BY <2>2, <2>3 DEF Sent
  <2> QED BY <2>1, <2>4
<1>5. RoutedRequest(r)'
  BY <1>1, <1>2 DEF RoutedRequest, RepliesFromOwner
<1>6. ASSUME NEW q \in Requests, q # r PROVE RoutedRequest(q)'
  <2>1. conn[q] # NULL => conn[q] \in DOMAIN opened
    BY DEF RelayInv, RelayTypeOK, ConnectionsAccountedFor, Accounted, AllInAPlace
  <2> QED BY <1>1, <1>2, <1>4, <1>6, <2>1, RoutedFrame DEF Routed
<1>7. RoutedPools'
  BY <1>1 DEF Routed, RoutedPools
<1> QED BY <1>5, <1>6, <1>7 DEF Routed

\* A request that reaches no banker leaves the pools alone (process_request).
LEMMA RoutedRefused ==
    ASSUME RelayInv, Routed, NEW r \in Requests, NEW t \in Targets,
           no_account(r, t) \/ multiple_shoot_no_memory(r, t)
    PROVE  Routed'
<1>1. /\ Head(t) \in {"*", ""} /\ Receive(r, t)
      /\ UNCHANGED << shards, pools, opened, conn, connections >>
  BY DEF no_account, multiple_shoot_no_memory, get_parent_account, placeholders
<1>2. /\ \A q \in Requests : q # r => asked'[q] = asked[q]
      /\ conn[r] = NULL /\ connections[r] = {} /\ asked'[r] = t
  BY <1>1, ReceiveTarget DEF Receive, RelayInv, RelayTypeOK
<1>3. \A q \in Requests : q # r => replies'[q] = replies[q]
  BY DEF no_account, multiple_shoot_no_memory, Reply, RelayInv, RelayTypeOK
<1>4. RoutedRequest(r)'
  BY <1>1, <1>2 DEF RoutedRequest, RepliesFromOwner
<1>5. ASSUME NEW q \in Requests, q # r PROVE RoutedRequest(q)'
  BY <1>1, <1>2, <1>3, <1>5, RoutedFrame DEF Routed
<1>6. RoutedPools'
  BY <1>1 DEF Routed, RoutedPools
<1> QED BY <1>4, <1>5, <1>6 DEF Routed

\* Every step keeps each pool its banker's and each request its owner's.
LEMMA RoutedStep ==
    ASSUME ContiguousShards, RelayInv, RelayInv', Routed, [Next]_vars
    PROVE  Routed'
<1>1. CASE UNCHANGED vars
  <2>1. UNCHANGED << shards, pools, opened, asked, conn, connections, replies >>
    BY <1>1 DEF vars, placeholders
  <2>2. RoutedPools'
    BY <2>1 DEF Routed, RoutedPools
  <2>3. ASSUME NEW q \in Requests PROVE RoutedRequest(q)'
    BY <2>1, RoutedFrame DEF Routed
  <2> QED BY <2>2, <2>3 DEF Routed
<1>2. CASE Next
  BY <1>2, RoutedSingleShoot, RoutedRelayCb, RoutedMultipleRelayCb, RoutedMultipleShoot,
     RoutedRefused DEF Next
<1> QED BY <1>1, <1>2

\* Nothing was asked at first.
LEMMA InitRouted ==
    ASSUME Init
    PROVE  Routed
<1>1. RoutedPools
  BY DEF Init, RoutedPools, NoPools
<1>2. ASSUME NEW r \in Requests PROVE RoutedRequest(r)
  <2>1. conn[r] = NULL /\ connections[r] = {} /\ replies[r] = <<>>
    BY DEF Init
  <2>2. RepliesFromOwner(replies[r], asked[r])
    <3> SUFFICES \A i \in DOMAIN replies[r] :
                   replies[r][i].code = 200 =>
                       replies[r][i].body = << Part(OwnerOf(asked[r])) >>
      BY DEF RepliesFromOwner
    <3> QED BY <2>1
  <2> QED BY <2>1, <2>2, Zenon DEF RoutedRequest
<1> QED BY <1>1, <1>2 DEF Routed

\* When the shards are numbered from 0 without a gap, every request for an
\* account goes to the one banker that owns its tree, and every successful
\* reply is that banker's, whatever requests were served before and at the
\* same time (get_relay_conn_pool, get_banker_uri, process_relay).
THEOREM RequestsReachTheirBanker ==
    ASSUME ContiguousShards
    PROVE  Spec => []RightBanker
<1>1. Init => Routed
  BY InitRouted
<1>2. RelayInv /\ RelayInv' /\ Routed /\ [Next]_vars => Routed'
  BY RoutedStep
<1>3. RelayInv /\ Routed => RightBanker
  <2> SUFFICES ASSUME RelayInv, Routed, NEW r \in Requests,
                      asked[r] # <<>>, Head(asked[r]) \notin {"*", ""}
               PROVE  /\ conn[r] \in DOMAIN opened =>
                            opened[conn[r]].endpoint = OwnerOf(asked[r])
                      /\ \A i \in DOMAIN replies[r] :
                            replies[r][i].code = 200 =>
                                replies[r][i].body = << Part(OwnerOf(asked[r])) >>
    BY DEF RightBanker
  <2>1. RoutedRequest(r)
    BY DEF Routed
  <2>2. conn[r] \in DOMAIN opened => conn[r] # NULL
    BY PoolAssumption DEF RelayInv, RelayTypeOK
  <2> QED BY <2>1, <2>2 DEF RoutedRequest, RepliesFromOwner
<1> QED BY <1>1, <1>2, <1>3, RelayInvariant, PTL DEF Spec

----------------------------------------------------------------------------
(***************************************************************************)
(* What a request for all accounts gets: a connection to every shard, a    *)
(* body from each connection that answered, and from the bodies of all of  *)
(* them a result with the part of every shard.                             *)
(***************************************************************************)
\* cs is one connection to each shard.
EveryShard(cs, op) ==
    /\ { op[c].endpoint : c \in cs } = Range(Config)
    /\ Cardinality(cs) = Cardinality(DOMAIN Config)

BodyOf(b, c, op) == b = <<>> \/ b = << Part(op[c].endpoint) >>

\* Every body came on one of cs, and unless one is empty all cs are there.
AnsweredBy(bs, cs, op) ==
    /\ \A i \in DOMAIN bs : \E c \in cs : BodyOf(bs[i], c, op)
    /\ \A c \in cs : \E i \in DOMAIN bs : BodyOf(bs[i], c, op)

FullReplies(rs, t) ==
    \A i \in DOMAIN rs :
        Head(t) = "*" /\ rs[i].body # <<>> =>
            /\ Sources(rs[i].body) = Range(Config)
            /\ Len(rs[i].body) = Cardinality(DOMAIN Config)

Merging(r) ==
    /\ connections[r] # {} => EveryShard(connections[r], opened)
    /\ up => AnsweredBy(bodies[r], connections[r] \ pending[r], opened)
    /\ FullReplies(replies[r], asked[r])

\* A request whose replies from the shards did not change.
LEMMA MergingFrame ==
    ASSUME NEW r \in Requests, Merging(r),
           connections'[r] = connections[r], pending'[r] = pending[r],
           bodies'[r] = bodies[r], up' => up,
           \A c \in connections[r] : opened'[c] = opened[c],
           FullReplies(replies'[r], asked'[r])
    PROVE  Merging(r)'
<1>1. connections[r] # {} => EveryShard(connections[r], opened')
  <2> SUFFICES ASSUME connections[r] # {} PROVE EveryShard(connections[r], opened')
    OBVIOUS
  <2>1. { opened'[c].endpoint : c \in connections[r] } = { opened[c].endpoint : c \in connections[r] }
    OBVIOUS
  <2> QED BY <2>1 DEF Merging, EveryShard
<1>2. up' => AnsweredBy(bodies[r], connections[r] \ pending[r], opened')
  <2>1. \A b : \A c \in connections[r] : BodyOf(b, c, opened') <=> BodyOf(b, c, opened)
    BY DEF BodyOf
  <2> QED BY <2>1 DEF Merging, AnsweredBy
<1> QED BY <1>1, <1>2 DEF Merging

\* Replies without a body are no merged replies.
LEMMA NoBodyIsFull ==
    ASSUME NEW rs, NEW t, \A i \in DOMAIN rs : rs[i].body = <<>>
    PROVE  FullReplies(rs, t)
BY DEF FullReplies

\* Nor are the replies to a request for one account.
LEMMA OneAccountIsFull ==
    ASSUME NEW rs, NEW t, Head(t) # "*"
    PROVE  FullReplies(rs, t)
BY Zenon DEF FullReplies

\* The connections of a request to all shards are allocated, and neither lent
\* nor another's.
LEMMA OwnAllocated ==
    ASSUME RelayInv, NEW q \in Requests, NEW c \in connections[q]
    PROVE  /\ c \in Connections /\ c \in DOMAIN opened
           /\ \A r \in Requests : conn[r] # c
           /\ \A r \in Requests : c \in connections[r] => r = q
<1>1. c \in Connections
  BY DEF RelayInv, RelayTypeOK
<1> QED BY <1>1 DEF RelayInv, ConnectionsAccountedFor, Accounted, AllInAPlace, OwnOnce

\* A connection sent on is given anew only to the request (single_shoot).
LEMMA MergingSingleShoot ==
    ASSUME RelayInv, RelayInv', \A q \in Requests : Merging(q),
           NEW r \in Requests, NEW t \in Targets, single_shoot(r, t)
    PROVE  \A q \in Requests : Merging(q)'
<1>1. /\ Receive(r, t) /\ UNCHANGED << up, connections, bodies, pending >>
      /\ \/ Reply(r, 500, <<>>) /\ UNCHANGED opened
         \/ /\ UNCHANGED replies
            /\ \E c : /\ c # NULL /\ conn' = [ conn EXCEPT ![r] = c ]
                      /\ \E e, x : opened' = Sent({c}, e, x)
  BY Zenon DEF single_shoot
<1>2. /\ \A q \in Requests : q # r => asked'[q] = asked[q]
      /\ connections[r] = {} /\ replies[r] = <<>>
  BY <1>1, ReceiveTarget
<1>3. \A q \in Requests : \A c \in connections[q] : opened'[c] = opened[c]
  <2>1. CASE UNCHANGED opened
    BY <2>1
  <2>2. CASE \E c : /\ c # NULL /\ conn' = [ conn EXCEPT ![r] = c ]
                    /\ \E e, x : opened' = Sent({c}, e, x)
    <3>1. PICK c, e, x : conn' = [ conn EXCEPT ![r] = c ] /\ opened' = Sent({c}, e, x)
      BY <2>2
    <3>2. conn'[r] = c
      BY <3>1 DEF RelayInv, RelayTypeOK
    <3>3. \A q \in Requests : \A d \in connections'[q] : \A x1 \in Requests : conn'[x1] # d
      BY DEF RelayInv, ConnectionsAccountedFor, Accounted, OwnOnce
    <3>4. ASSUME NEW q \in Requests, NEW d \in connections[q] PROVE opened'[d] = opened[d]
      <4>1. d # c
        BY <1>1, <3>2, <3>3
      <4>2. d \in DOMAIN opened
        BY OwnAllocated
      <4> QED BY <3>1, <4>1, <4>2 DEF Sent
    <3> QED BY <3>4
  <2> QED BY <1>1, <2>1, <2>2
<1>4. /\ \A q \in Requests : q # r => replies'[q] = replies[q]
      /\ \A i \in DOMAIN replies'[r] : replies'[r][i].body = <<>>
  BY <1>1, <1>2, OnlyReply DEF RelayInv
<1>5. ASSUME NEW q \in Requests PROVE Merging(q)'
  <2>1. FullReplies(replies'[q], asked'[q])
    BY <1>2, <1>4, NoBodyIsFull DEF Merging
  <2> QED BY <1>1, <1>3, <2>1, MergingFrame
<1> QED BY <1>5

\* A request that reaches no banker gets no body (process_request).
LEMMA MergingRefused ==
    ASSUME RelayInv, \A q \in Requests : Merging(q),
           NEW r \in Requests, NEW t \in Targets,
           no_account(r, t) \/ multiple_shoot_no_memory(r, t)
    PROVE  \A q \in Requests : Merging(q)'
<1>1. /\ Receive(r, t) /\ UNCHANGED << opened, connections, bodies, pending >>
      /\ up' => up
      /\ Reply(r, 500, <<>>) \/ UNCHANGED replies
  <2>1. CASE no_account(r, t)
    BY <2>1, Zenon DEF no_account, placeholders
  <2>2. CASE multiple_shoot_no_memory(r, t)
    BY <2>2, Zenon DEF multiple_shoot_no_memory, placeholders
  <2> QED BY <2>1, <2>2
<1>2. /\ \A q \in Requests : q # r => asked'[q] = asked[q]
      /\ replies[r] = <<>>
  BY <1>1, ReceiveTarget
<1>3. /\ \A q \in Requests : q # r => replies'[q] = replies[q]
      /\ \A i \in DOMAIN replies'[r] : replies'[r][i].body = <<>>
  BY <1>1, <1>2, OnlyReply DEF RelayInv
<1>4. ASSUME NEW q \in Requests PROVE Merging(q)'
  <2>1. FullReplies(replies'[q], asked'[q])
    BY <1>2, <1>3, NoBodyIsFull DEF Merging
  <2> QED BY <1>1, <2>1, MergingFrame
<1> QED BY <1>4

\* The reply to a request for one account is no merged reply (process_relay).
LEMMA MergingRelayCb ==
    ASSUME RelayInv, Routed, \A q \in Requests : Merging(q),
           NEW r \in Requests, NEW o \in Outcomes, relay_cb(r, o)
    PROVE  \A q \in Requests : Merging(q)'
<1> DEFINE c == conn[r]
<1>1. /\ c # NULL
      /\ Reply(r, Code(o), Body(o, c))
      /\ opened' = opened \/ opened' = Freed({c})
      /\ UNCHANGED << up, asked, connections, bodies, pending >>
  BY DEF relay_cb
<1>2. Head(asked[r]) # "*"
  <2>1. Head(asked[r]) \notin {"*", ""}
    BY <1>1 DEF Routed, RoutedRequest
  <2> QED BY <2>1, Zenon
<1>3. \A q \in Requests : \A d \in connections[q] : opened'[d] = opened[d]
  BY <1>1, OwnAllocated DEF Freed
<1>4. \A q \in Requests : q # r => replies'[q] = replies[q]
  BY <1>1 DEF Reply, RelayInv, RelayTypeOK
<1>5. ASSUME NEW q \in Requests PROVE Merging(q)'
  <2>1. FullReplies(replies'[q], asked'[q])
    BY <1>1, <1>2, <1>4, OneAccountIsFull DEF Merging
  <2> QED BY <1>1, <1>3, <2>1, MergingFrame
<1> QED BY <1>5

\* A bijection of the connections to the shards is one to each.
LEMMA ShootsEveryShard ==
    ASSUME NEW cs, NEW f \in Bijection(cs, DOMAIN Config), NEW close,
           NEW op, op = Sent(cs, [ c \in cs |-> Config[f[c]] ], close)
    PROVE  EveryShard(cs, op)
<1>1. Cardinality(cs) = Cardinality(DOMAIN Config)
  <2>1. f \in Injection(cs, DOMAIN Config) /\ f \in Surjection(cs, DOMAIN Config)
    BY DEF Bijection
  <2> QED BY <2>1, FS_Injection, RelayAssumption
<1>2. \A c \in cs : op[c].endpoint = Config[f[c]] /\ f[c] \in DOMAIN Config
  <2>1. f \in [ cs -> DOMAIN Config ]
    BY DEF Bijection, Injection
  <2> QED BY <2>1 DEF Sent
<1>3. \A s \in DOMAIN Config : \E c \in cs : f[c] = s
  BY DEF Bijection, Surjection
<1>4. { op[c].endpoint : c \in cs } = Range(Config)
  BY <1>2, <1>3 DEF Range
<1> QED BY <1>1, <1>4 DEF EveryShard

\* A request to all shards starts with no body (multiple_shoot).
LEMMA MergingMultipleShoot ==
    ASSUME RelayInv, Routed, \A q \in Requests : Merging(q),
           NEW r \in Requests, NEW t \in Targets, multiple_shoot(r, t)
    PROVE  \A q \in Requests : Merging(q)'
<1>1. Receive(r, t) /\ UNCHANGED << up, bodies, replies >> /\ shards = Config
  BY DEF multiple_shoot, Routed, RoutedPools
<1>2. PICK cs \in SUBSET (Connections \ DOMAIN opened) :
         /\ \E f \in Bijection(cs, DOMAIN shards) :
               opened' = Sent(cs, [ c \in cs |-> shards[f[c]] ], FALSE)
         /\ connections' = [ connections EXCEPT ![r] = cs ]
         /\ pending' = [ pending EXCEPT ![r] = cs ]
  BY Zenon DEF multiple_shoot
<1>3. /\ \A q \in Requests : q # r => asked'[q] = asked[q]
      /\ connections[r] = {} /\ replies[r] = <<>>
  BY <1>1, ReceiveTarget
<1>4. /\ connections'[r] = cs /\ pending'[r] = cs
      /\ \A q \in Requests : q # r => connections'[q] = connections[q] /\ pending'[q] = pending[q]
  BY <1>2 DEF RelayInv, RelayTypeOK
<1>5. up => bodies[r] = <<>>
  <2>1. pending[r] = {}
    BY <1>3 DEF RelayInv, PlaceholdersMatch
  <2>2. up => Len(bodies[r]) = 0
    <3>1. Len(bodies[r]) \in Nat
      BY DEF RelayInv, RelayTypeOK
    <3>2. Cardinality({}) = 0
      BY FS_EmptySet
    <3>3. up => Len(bodies[r]) + Cardinality({}) = Cardinality({})
      BY <2>1, <1>3 DEF RelayInv, PlaceholdersMatch
    <3> QED BY <3>1, <3>2, <3>3
  <2> QED BY <2>2 DEF RelayInv, RelayTypeOK
<1>6. Merging(r)'
  <2>1. EveryShard(cs, opened')
    <3>1. PICK f \in Bijection(cs, DOMAIN shards) :
             opened' = Sent(cs, [ c \in cs |-> shards[f[c]] ], FALSE)
      BY <1>2
    <3>2. f \in Bijection(cs, DOMAIN Config)
      BY <1>1
    <3>3. [ c \in cs |-> shards[f[c]] ] = [ c \in cs |-> Config[f[c]] ]
      BY <1>1
    <3> QED BY <3>1, <3>2, <3>3, ShootsEveryShard
  <2>2. up => AnsweredBy(<<>>, {}, opened')
    BY DEF AnsweredBy
  <2>3. cs \ cs = {}
    OBVIOUS
  <2>4. FullReplies(replies'[r], asked'[r])
    BY <1>1, <1>3, NoBodyIsFull
  <2>5. up' => AnsweredBy(bodies'[r], connections'[r] \ pending'[r], opened')
    BY <1>1, <1>4, <1>5, <2>2, <2>3
  <2> QED BY <1>4, <2>1, <2>4, <2>5 DEF Merging
<1>7. ASSUME NEW q \in Requests, q # r PROVE Merging(q)'
  <2>1. \A c \in connections[q] : opened'[c] = opened[c]
    <3>1. \A c \in connections[q] : c \in DOMAIN opened /\ c \notin cs
      BY OwnAllocated
    <3> QED BY <3>1, <1>2 DEF Sent
  <2>2. FullReplies(replies'[q], asked'[q])
    BY <1>1, <1>3, <1>7 DEF Merging
  <2> QED BY <1>1, <1>4, <1>7, <2>1, <2>2, MergingFrame
<1> QED BY <1>6, <1>7

\* One more body, and one connection less to wait for.
LEMMA AnsweredAppend ==
    ASSUME NEW S, NEW bs \in Seq(S), NEW b \in S, NEW cs, NEW c, NEW op,
           AnsweredBy(bs, cs, op), BodyOf(b, c, op)
    PROVE  AnsweredBy(Append(bs, b), cs \cup {c}, op)
<1> DEFINE a == Append(bs, b)
<1>1. /\ DOMAIN bs = 1 .. Len(bs) /\ DOMAIN a = 1 .. Len(bs) + 1 /\ Len(bs) \in Nat
      /\ \A i \in 1 .. Len(bs) : a[i] = bs[i]
      /\ a[Len(bs) + 1] = b
  OBVIOUS
<1> HIDE DEF a
<1>2. ASSUME NEW i \in DOMAIN a PROVE \E d \in cs \cup {c} : BodyOf(a[i], d, op)
  <2>1. CASE i \in DOMAIN bs
    BY <1>1, <2>1 DEF AnsweredBy
  <2>2. CASE i = Len(bs) + 1
    BY <1>1, <2>2
  <2> QED BY <1>1, <2>1, <2>2
<1>3. ASSUME NEW d \in cs \cup {c} PROVE \E i \in DOMAIN a : BodyOf(a[i], d, op)
  <2>1. CASE d \in cs
    <3>1. PICK i \in DOMAIN bs : BodyOf(bs[i], d, op)
      BY <2>1 DEF AnsweredBy
    <3> QED BY <1>1, <3>1
  <2>2. CASE d = c
    <3>1. Len(bs) + 1 \in DOMAIN a
      BY <1>1
    <3> QED BY <1>1, <3>1, <2>2
  <2> QED BY <2>1, <2>2
<1>4. AnsweredBy(a, cs \cup {c}, op)
  BY <1>2, <1>3 DEF AnsweredBy
<1> QED BY <1>4 DEF a

\* The bodies of one connection to each shard merge into a full result.
LEMMA MergesInFull ==
    ASSUME NEW bs \in Seq(Seq(Parts)), NEW cs, NEW op, NEW garbled,
           AnsweredBy(bs, cs, op), EveryShard(cs, op),
           Len(bs) = Cardinality(cs), Len(bs) > 0, ~MergeAborts(bs), bs[1] # <<>>
    PROVE  /\ Sources(add_replies(bs, garbled)) = Range(Config)
           /\ Len(add_replies(bs, garbled)) = Cardinality(DOMAIN Config)
<1> DEFINE m == add_replies(bs, garbled)
<1>1. \A i \in DOMAIN bs : bs[i] # <<>>
  BY DEF MergeAborts
<1>2. m = [ i \in DOMAIN bs |-> [ bs[i][1] EXCEPT !.intact = i \notin garbled ] ]
  BY DEF add_replies
<1>3. \A i \in DOMAIN bs : \E c \in cs : bs[i] = << Part(op[c].endpoint) >>
  BY <1>1 DEF AnsweredBy, BodyOf
<1>4. \A c \in cs : \E i \in DOMAIN bs : bs[i] = << Part(op[c].endpoint) >>
  BY <1>1 DEF AnsweredBy, BodyOf
<1>5. \A i \in DOMAIN bs : \A e : bs[i] = << Part(e) >> => m[i].from = e
  BY <1>2 DEF Part
<1>6. DOMAIN m = DOMAIN bs /\ DOMAIN bs = 1 .. Len(bs) /\ Len(bs) \in Nat
  BY <1>2
<1> HIDE DEF m
<1>7. Len(m) = Len(bs)
  BY <1>6
<1>8. \A i \in DOMAIN m : \E c \in cs : m[i].from = op[c].endpoint
  BY <1>3, <1>5, <1>6
<1>9. \A c \in cs : \E i \in DOMAIN m : m[i].from = op[c].endpoint
  BY <1>4, <1>5, <1>6
<1>10. Sources(m) = { op[c].endpoint : c \in cs }
  BY <1>8, <1>9 DEF Sources
<1>11. Sources(m) = Range(Config) /\ Len(m) = Cardinality(DOMAIN Config)
  BY <1>7, <1>10 DEF EveryShard
<1> QED BY <1>11 DEF m

\* The callbacks of a request to all shards (process_multiple_relay).
LEMMA MergingMultipleRelayCb ==
    ASSUME RelayInv, RelayInv', \A q \in Requests : Merging(q),
           NEW r \in Requests, NEW c \in Connections, NEW o \in Outcomes,
           multiple_relay_cb(r, c, o)
    PROVE  \A q \in Requests : Merging(q)'
<1> DEFINE b == Body(o, c)
           bs == Append(bodies[r], b)
<1>1. /\ up /\ c \in pending[r]
      /\ pending' = [ pending EXCEPT ![r] = @ \ {c} ]
      /\ UNCHANGED asked
  BY DEF multiple_relay_cb
<1>2. /\ pending[r] \subseteq connections[r] /\ IsFiniteSet(connections[r])
      /\ Len(bodies[r]) + Cardinality(pending[r]) = Cardinality(connections[r])
      /\ replies[r] = <<>> /\ pending[r] \in SUBSET Connections
  BY <1>1 DEF RelayInv, RelayTypeOK, PlaceholdersMatch, RepliesMatch
<1>3. /\ pending'[r] = pending[r] \ {c}
      /\ \A q \in Requests : q # r => pending'[q] = pending[q]
  BY <1>1 DEF RelayInv, RelayTypeOK
<1>4. c \in DOMAIN opened
  BY <1>1, <1>2, OwnAllocated
<1>5. bodies[r] \in Seq(Seq(Parts)) /\ b \in Seq(Parts)
  BY <1>4, BodyType DEF RelayInv, RelayTypeOK
<1>6. AnsweredBy(bs, connections[r] \ pending'[r], opened)
  <2>1. BodyOf(b, c, opened)
    BY DEF Body, BodyOf
  <2>2. AnsweredBy(bodies[r], connections[r] \ pending[r], opened)
    BY <1>1 DEF Merging
  <2>3. (connections[r] \ pending[r]) \cup {c} = connections[r] \ pending'[r]
    BY <1>1, <1>2, <1>3
  <2> HIDE DEF b
  <2>4. AnsweredBy(Append(bodies[r], b), (connections[r] \ pending[r]) \cup {c}, opened)
    BY <1>5, <2>1, <2>2, AnsweredAppend
  <2> QED BY <2>3, <2>4
<1>7. bs \in Seq(Seq(Parts)) /\ Len(bs) = Len(bodies[r]) + 1 /\ Len(bodies[r]) \in Nat
  BY <1>5
<1> HIDE DEF b, bs
<1>8. CASE /\ up' = FALSE
           /\ UNCHANGED << opened, connections, bodies, replies >>
  <2>1. ASSUME NEW q \in Requests PROVE Merging(q)'
    <3>1. connections'[q] # {} => EveryShard(connections'[q], opened')
      BY <1>8 DEF Merging
    <3>2. FullReplies(replies'[q], asked'[q])
      BY <1>1, <1>8 DEF Merging
    <3> QED BY <1>8, <3>1, <3>2 DEF Merging
  <2> QED BY <2>1
<1>9. CASE /\ bodies' = [ bodies EXCEPT ![r] = bs ]
           /\ UNCHANGED << up, opened, connections, replies >>
  <2>1. bodies'[r] = bs /\ \A q \in Requests : q # r => bodies'[q] = bodies[q]
    BY <1>9 DEF RelayInv, RelayTypeOK
  <2>2. Merging(r)'
    <3>1. connections'[r] # {} => EveryShard(connections'[r], opened')
      BY <1>9 DEF Merging
    <3>2. FullReplies(replies'[r], asked'[r])
      BY <1>1, <1>9 DEF Merging
    <3> QED BY <1>6, <1>9, <2>1, <3>1, <3>2 DEF Merging
  <2>3. ASSUME NEW q \in Requests, q # r PROVE Merging(q)'
    <3>1. FullReplies(replies'[q], asked'[q])
      BY <1>1, <1>9 DEF Merging
    <3> QED BY <1>3, <1>9, <2>1, <2>3, <3>1, MergingFrame
  <2> QED BY <2>2, <2>3
<1>10. CASE /\ AllAnswered(r, bs) /\ ~MergeAborts(bs)
            /\ \E garbled \in Garbled(bs) : Reply(r, Code(o), add_replies(bs, garbled))
            /\ opened' = Freed(connections[r])
            /\ connections' = [ connections EXCEPT ![r] = {} ]
            /\ bodies' = [ bodies EXCEPT ![r] = <<>> ]
            /\ UNCHANGED up
  <2>1. /\ bodies'[r] = <<>> /\ connections'[r] = {}
        /\ \A q \in Requests : q # r => bodies'[q] = bodies[q] /\ connections'[q] = connections[q]
    BY <1>10 DEF RelayInv, RelayTypeOK
  <2>2. PICK garbled \in Garbled(bs) : Reply(r, Code(o), add_replies(bs, garbled))
    BY <1>10
  <2> DEFINE m == add_replies(bs, garbled)
  <2>3. /\ \A i \in DOMAIN replies'[r] : replies'[r][i].body = m
        /\ \A q \in Requests : q # r => replies'[q] = replies[q]
    BY <1>2, <2>2, OnlyReply DEF RelayInv
  <2>4. Len(bs) = Cardinality(connections[r])
    BY <1>10 DEF AllAnswered
  <2>5. pending'[r] = {}
    <3>1. IsFiniteSet(pending[r])
      BY <1>2, FS_Subset
    <3>2. Cardinality(pending[r]) = 1
      BY <1>2, <1>7, <2>4, <3>1, FS_CardinalityType
    <3> QED BY <1>1, <1>3, <3>1, <3>2, FS_Singleton
  <2>6. m # <<>> => /\ Sources(m) = Range(Config)
                    /\ Len(m) = Cardinality(DOMAIN Config)
    <3> SUFFICES ASSUME m # <<>>
                 PROVE  /\ Sources(m) = Range(Config)
                        /\ Len(m) = Cardinality(DOMAIN Config)
      OBVIOUS
    <3>1. bs[1] # <<>>
      BY DEF add_replies
    <3>2. AnsweredBy(bs, connections[r], opened)
      BY <1>6, <2>5
    <3>3. EveryShard(connections[r], opened)
      BY <1>1, <1>2 DEF Merging
    <3>4. Len(bs) > 0
      BY <1>7
    <3> QED BY <1>7, <1>10, <2>4, <3>1, <3>2, <3>3, <3>4, MergesInFull
  <2> HIDE DEF m
  <2>7. FullReplies(replies'[r], asked'[r])
    BY <2>3, <2>6 DEF FullReplies
  <2>8. Merging(r)'
    <3>1. AnsweredBy(<<>>, {}, opened')
      BY DEF AnsweredBy
    <3>2. AnsweredBy(bodies'[r], connections'[r] \ pending'[r], opened')
      BY <2>1, <2>5, <3>1
    <3> QED BY <2>1, <2>7, <3>2 DEF Merging
  <2>9. ASSUME NEW q \in Requests, q # r PROVE Merging(q)'
    <3>1. FullReplies(replies'[q], asked'[q])
      BY <1>1, <2>3, <2>9 DEF Merging
    <3>2. \A d \in connections[q] : opened'[d] = opened[d]
      BY <1>10, <2>9, OwnAllocated DEF Freed
    <3> QED BY <1>3, <1>10, <2>1, <2>9, <3>1, <3>2, MergingFrame
  <2> QED BY <2>8, <2>9
<1> QED BY <1>8, <1>9, <1>10 DEF multiple_relay_cb, bs, b

\* Every step keeps the replies of the shards together.
LEMMA MergingStep ==
    ASSUME RelayInv, RelayInv', Routed, \A q \in Requests : Merging(q), [Next]_vars
    PROVE  \A q \in Requests : Merging(q)'
<1>1. CASE UNCHANGED vars
  <2>1. UNCHANGED << up, opened, asked, connections, bodies, pending, replies >>
    BY <1>1 DEF vars, placeholders
  <2>2. ASSUME NEW q \in Requests PROVE Merging(q)'
    <3>1. FullReplies(replies'[q], asked'[q])
      BY <2>1 DEF Merging
    <3> QED BY <2>1, <3>1, MergingFrame
  <2> QED BY <2>2
<1>2. CASE Next
  BY <1>2, MergingSingleShoot, MergingRelayCb, MergingMultipleRelayCb, MergingMultipleShoot,
     MergingRefused DEF Next
<1> QED BY <1>1, <1>2

\* When the shards are numbered from 0 without a gap, a reply with a body to a
\* request for all accounts has the part of every shard, once, for any number
\* of shards and whatever else the relay serves (process_multiple_relay,
\* add_replies).
THEOREM AllShardsMerged ==
    ASSUME ContiguousShards
    PROVE  Spec => []MergedInFull
<1> DEFINE Inv == Routed /\ \A r \in Requests : Merging(r)
<1>1. Init => Inv
  <2> SUFFICES ASSUME Init PROVE Inv
    OBVIOUS
  <2>1. Routed
    BY InitRouted
  <2>2. ASSUME NEW r \in Requests PROVE Merging(r)
    <3>1. connections[r] = {} /\ bodies[r] = <<>> /\ replies[r] = <<>>
      BY DEF Init
    <3>2. AnsweredBy(<<>>, {}, opened)
      BY DEF AnsweredBy
    <3>3. FullReplies(replies[r], asked[r])
      BY <3>1, NoBodyIsFull
    <3>4. {} \ pending[r] = {}
      OBVIOUS
    <3> QED BY <3>1, <3>2, <3>3, <3>4 DEF Merging
  <2> QED BY <2>1, <2>2
<1>2. RelayInv /\ RelayInv' /\ Inv /\ [Next]_vars => Inv'
  BY RoutedStep, MergingStep
<1>3. Inv => MergedInFull
  BY DEF Merging, FullReplies, MergedInFull
<1> HIDE DEF Inv
<1> QED BY <1>1, <1>2, <1>3, RelayInvariant, PTL DEF Spec

=============================================================================
