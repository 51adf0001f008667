------------------------- MODULE HttpConnectionPool -------------------------
(***************************************************************************)
(* The relay's pool of connections to one master banker (MTX::             *)
(* HttpConnectionPool in src/src/utils).  A pool is a record of the        *)
(* banker's endpoint, how often each connection was handed out             *)
(* (uses_per_conn, 0 for a connection without an entry) and the queue of   *)
(* the connections that were returned.                                     *)
(***************************************************************************)
EXTENDS Integers, FiniteSets, SequencesExt

CONSTANTS
    Connections,     \* addresses libevent's connections are allocated at
    NULL,            \* what an allocation that fails returns
    MinConnections,  \* min_connections
    MaxUses          \* max_request_before_recycling

ASSUME PoolAssumption ==
    /\ NULL \notin Connections
    /\ MinConnections \in Nat /\ MaxUses \in Nat

NewPool(endpoint) ==
    [ endpoint |-> endpoint,
      uses_per_conn |-> [ c \in Connections \cup {NULL} |-> 0 ],
      free_connections |-> <<>> ]

\* The keys of uses_per_conn.
Known(p) == { c \in Connections \cup {NULL} : p.uses_per_conn[c] > 0 }

(***************************************************************************)
(* get_connection creates a connection when none is free or the pool is    *)
(* below its minimum, else takes the first free one.  A result has the     *)
(* connection and the pool after the call; fresh is the set of the         *)
(* addresses a new connection may have.  A failed allocation is counted as *)
(* any other.                                                              *)
(***************************************************************************)
CreatesConnection(p) ==
    p.free_connections = <<>> \/ Cardinality(Known(p)) < MinConnections

\* Mutant: the connection handed out stays in the queue.
get_connectionPeek(p, fresh) ==
    IF CreatesConnection(p)
    THEN { [ conn |-> c, pool |-> [ p EXCEPT !.uses_per_conn[c] = 1 ] ] : c \in fresh }
    ELSE LET c == Head(p.free_connections) IN
         { [ conn |-> c, pool |-> [ p EXCEPT !.uses_per_conn[c] = @ + 1 ] ] }

get_connection(p, fresh) ==
    IF CreatesConnection(p)
    THEN { [ conn |-> c, pool |-> [ p EXCEPT !.uses_per_conn[c] = 1 ] ] : c \in fresh }
    ELSE LET c == Head(p.free_connections) IN
         { [ conn |-> c, pool |-> [ p EXCEPT !.uses_per_conn[c] = @ + 1,
                                             !.free_connections = Tail(@) ] ] }

\* Mutant: connections above the minimum are not kept, although their number
\* changes while a request is with the banker.
last_useSurplus(p, c) ==
    p.uses_per_conn[c] >= MaxUses \/ Cardinality(Known(p)) > MinConnections

\* Whether the pool frees the connection when it is returned; the request
\* sent on it then carries "Connection: close".
last_use(p, c) == p.uses_per_conn[c] >= MaxUses

return_connection(p, c) ==
    IF last_use(p, c)
    THEN [ p EXCEPT !.uses_per_conn[c] = 0 ]
    ELSE [ p EXCEPT !.free_connections = Append(@, c) ]

=============================================================================
