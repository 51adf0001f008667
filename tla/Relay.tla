------------------------------- MODULE Relay --------------------------------
(***************************************************************************)
(* The master banker relay (src/src/relay/relay.cpp and                    *)
(* src/src/master_banker_relay.cpp): one event loop that passes each       *)
(* client's request to the master banker that owns the account it names,   *)
(* or to all of them, and sends the reply back.  Callbacks of different    *)
(* requests interleave; libevent calls back once per request it was given, *)
(* with a reply, with an empty one when the banker refused the connection, *)
(* or with a null pointer when the connection was lost or timed out.       *)
(***************************************************************************)
EXTENDS HttpConnectionPool

CONSTANTS
    Requests,     \* the requests clients send
    Targets,      \* the accounts they name: sequences of components, where
                  \* <<"*">> stands for all accounts and <<"">> for none
    Config,       \* the endpoint of each shard in the relay's configuration
    SDBMHash,     \* the hash of each top-level account name
    NoEndpoint,   \* the pair of an empty host and port 0
    Outcomes,     \* how libevent may answer a request sent to a banker
    FreedReads,   \* what reading memory that was freed may do
    MaxAllocFailures  \* bound: how often a new connection is NULL

ASSUME RelayAssumption ==
    /\ \A t \in Targets : t \in Seq(STRING) /\ Len(t) > 0
    /\ \A t \in Targets : Head(t) \in {"*", ""} \/ SDBMHash[Head(t)] \in Nat
    /\ DOMAIN Config \subseteq Nat /\ DOMAIN Config # {}
    /\ IsFiniteSet(DOMAIN Config)
    /\ Config \in [ DOMAIN Config -> Range(Config) ]
    /\ Outcomes \subseteq {"ok", "error", "refused", "lost"}
    /\ FreedReads \subseteq {"garbled", "crash"}
    /\ MaxAllocFailures \in Nat

VARIABLES
    up,           \* the process has not been aborted
    shards,       \* shard_map
    pools,        \* bankers_conn_by_shards
    opened,       \* the connections allocated: the endpoint, and whether the
                  \* banker was told that the request is the last on it
    asked,        \* the target of each client request, <<>> before it comes
    conn, slot,   \* relay_placeholder: the connection (NULL: there is none)
                  \* and the slot of the pool it came from
    connections,  \* multiple_relay_placeholder: its connections,
    bodies,       \* and the replies' bodies, by order of arrival
    pending,      \* those of its connections that have not answered
    replies,      \* what was sent to each client
    allocFailures

placeholders == << conn, slot, connections, bodies, pending >>
vars == << up, shards, pools, opened, asked, placeholders, replies, allocFailures >>

NoPools == [ s \in {} |-> NewPool(NoEndpoint) ]
NoneOpened == [ c \in {} |-> [ endpoint |-> NoEndpoint, close |-> FALSE ] ]

Init == /\ up = TRUE
        /\ shards = Config
        /\ pools = NoPools
        /\ opened = NoneOpened
        /\ asked = [ r \in Requests |-> <<>> ]
        /\ conn = [ r \in Requests |-> NULL ]
        /\ slot = [ r \in Requests |-> 0 ]
        /\ connections = [ r \in Requests |-> {} ]
        /\ bodies = [ r \in Requests |-> <<>> ]
        /\ pending = [ r \in Requests |-> {} ]
        /\ replies = [ r \in Requests |-> <<>> ]
        /\ allocFailures = 0

----------------------------------------------------------------------------
(* Which banker a request goes to.                                         *)

get_parent_account(t) == Head(t)

\* Mutant: another number of shards than get_banker_uri.
get_shardOneLess(sh, hash) == hash % (Cardinality(DOMAIN sh) - 1)

\* Mutant: a hash taken for a signed number, of which the rest is negative.
get_shardSigned(sh, hash) == -(hash % Cardinality(DOMAIN sh))

get_shard(sh, hash) == hash % Cardinality(DOMAIN sh)

\* shards[shard]: the operator adds an empty endpoint when there is none.
get_banker_uri(sh, hash) ==
    LET shard == hash % Cardinality(DOMAIN sh) IN
    [ s \in DOMAIN sh \cup {shard} |-> IF s \in DOMAIN sh THEN sh[s] ELSE NoEndpoint ]

\* get_connection_pool, with the endpoint get_banker_uri found: a pool is
\* made at the first request for its slot, by the size the map then has.
WithPool(ps, s, endpoint) ==
    [ q \in DOMAIN ps \cup {s} |->
        IF q \in DOMAIN ps THEN ps[q] ELSE NewPool(endpoint) ]

----------------------------------------------------------------------------
\* libevent, external to this repository: a new connection is at any address
\* not in use, or NULL.
Fresh == (Connections \ DOMAIN opened) \cup
         (IF allocFailures < MaxAllocFailures THEN {NULL} ELSE {})

\* A request is sent on each connection of cs, allocated now or before, with
\* or without "Connection: close".
Sent(cs, endpointOf, close) ==
    [ d \in DOMAIN opened \cup cs |->
        IF d \in cs THEN [ endpoint |-> endpointOf[d], close |-> close ]
        ELSE opened[d] ]

\* evhttp_connection_free.
Freed(cs) == [ d \in DOMAIN opened \ cs |-> opened[d] ]

Code(o) == CASE o = "ok" -> 200 [] o = "error" -> 500 [] o = "refused" -> 0 [] o = "lost" -> 500

\* The JSON of a body, as the parts that came from one banker each; none when
\* it is empty or an error's text.
Part(endpoint) == [ from |-> endpoint, intact |-> TRUE ]
Body(o, c) == IF o = "ok" THEN << Part(opened[c].endpoint) >> ELSE <<>>

Reply(r, code, body) ==
    replies' = [ replies EXCEPT ![r] = Append(@, [ code |-> code, body |-> body ]) ]

----------------------------------------------------------------------------
(* process_request: the parent account is not "*" (single_shoot), is "*"   *)
(* (multiple_shoot), or was not found.                                     *)

Receive(r, t) == /\ up /\ asked[r] = <<>>
                 /\ asked' = [ asked EXCEPT ![r] = t ]

no_account(r, t) ==
    /\ get_parent_account(t) = ""
    /\ Receive(r, t)
    /\ Reply(r, 500, <<>>)
    /\ UNCHANGED << up, shards, pools, opened, placeholders, allocFailures >>

single_shoot(r, t) ==
    LET hash == SDBMHash[get_parent_account(t)]
        sh == get_banker_uri(shards, hash)
        s == get_shard(sh, hash)
        ps == WithPool(pools, s, sh[hash % Cardinality(DOMAIN shards)])
    IN
    /\ get_parent_account(t) \notin {"*", ""}
    /\ Receive(r, t)
    /\ shards' = sh
    /\ \E g \in get_connection(ps[s], Fresh) :
         /\ pools' = [ ps EXCEPT ![s] = g.pool ]
         /\ \/ /\ g.conn = NULL
               /\ Reply(r, 500, <<>>)
               /\ allocFailures' = allocFailures + 1
               /\ UNCHANGED << opened, conn, slot >>
            \/ /\ g.conn # NULL
               /\ conn' = [ conn EXCEPT ![r] = g.conn ]
               /\ slot' = [ slot EXCEPT ![r] = s ]
               /\ opened' = Sent({g.conn}, [ c \in {g.conn} |-> g.pool.endpoint ],
                                 last_use(g.pool, g.conn))
               /\ UNCHANGED << replies, allocFailures >>
    /\ UNCHANGED << up, connections, bodies, pending >>

\* A connection of its own to every shard.
multiple_shoot(r, t) ==
    /\ get_parent_account(t) = "*"
    /\ Receive(r, t)
    /\ \E cs \in SUBSET (Connections \ DOMAIN opened) :
         \E shardOf \in Bijection(cs, DOMAIN shards) :
           /\ opened' = Sent(cs, [ c \in cs |-> shards[shardOf[c]] ], FALSE)
           /\ connections' = [ connections EXCEPT ![r] = cs ]
           /\ pending' = [ pending EXCEPT ![r] = cs ]
    /\ UNCHANGED << up, shards, pools, conn, slot, bodies, replies, allocFailures >>

\* The request is made on a NULL connection, which ends the process.
multiple_shoot_no_memory(r, t) ==
    /\ get_parent_account(t) = "*"
    /\ Receive(r, t)
    /\ allocFailures < MaxAllocFailures
    /\ allocFailures' = allocFailures + 1
    /\ up' = FALSE
    /\ UNCHANGED << shards, pools, opened, placeholders, replies >>

----------------------------------------------------------------------------
(* relay_cb: the reply goes to the client, the connection to its pool, the *)
(* placeholder is deleted.                                                 *)
relay_cb(r, o) ==
    LET s == slot[r] IN
    /\ up /\ conn[r] # NULL
    /\ Reply(r, Code(o), Body(o, conn[r]))
    /\ pools' = [ pools EXCEPT ![s] = return_connection(@, conn[r]) ]
    /\ opened' = IF last_use(pools[s], conn[r]) THEN Freed({conn[r]}) ELSE opened
    /\ conn' = [ conn EXCEPT ![r] = NULL ]
    /\ UNCHANGED << up, shards, asked, slot, connections, bodies, pending,
                    allocFailures >>

(***************************************************************************)
(* multiple_relay_cb.  A null reply is dereferenced, which ends the        *)
(* process.  The last reply merges the bodies into the first one's array   *)
(* or object: when that is neither the result is empty, and when a later   *)
(* one is not the same kind an assertion of rapidjson aborts.  The values  *)
(* of the later bodies are moved, not copied, so that the result is        *)
(* written from memory that was freed with their documents.  The client    *)
(* gets the code of the reply that came last.                              *)
(***************************************************************************)
\* Mutants: the first reply is taken for the last; the last never comes.
AllAnsweredFirst(r, bs) == Len(bs) = 1
AllAnsweredNever(r, bs) == Len(bs) > Cardinality(connections[r])

AllAnswered(r, bs) == Len(bs) = Cardinality(connections[r])

MergeAborts(bs) == bs[1] # <<>> /\ \E i \in DOMAIN bs : bs[i] = <<>>

\* Mutant: the merge starts with the second body.
add_repliesTail(bs, garbled) ==
    IF bs[1] = <<>> THEN <<>>
    ELSE [ i \in 1 .. Len(bs) - 1 |-> [ bs[i + 1][1] EXCEPT !.intact = i \notin garbled ] ]

add_replies(bs, garbled) ==
    IF bs[1] = <<>> THEN <<>>
    ELSE [ i \in DOMAIN bs |-> [ bs[i][1] EXCEPT !.intact = i \notin garbled ] ]

Garbled(bs) == IF "garbled" \in FreedReads THEN SUBSET (2 .. Len(bs)) ELSE { {} }

MergeCrashes(bs) == "crash" \in FreedReads /\ bs[1] # <<>> /\ Len(bs) > 1

multiple_relay_cb(r, c, o) ==
    LET bs == Append(bodies[r], Body(o, c)) IN
    /\ up /\ c \in pending[r]
    /\ pending' = [ pending EXCEPT ![r] = @ \ {c} ]
    /\ \/ /\ \/ o = "lost"
             \/ AllAnswered(r, bs) /\ (MergeAborts(bs) \/ MergeCrashes(bs))
          /\ up' = FALSE
          /\ UNCHANGED << opened, connections, bodies, replies >>
       \/ /\ o # "lost" /\ ~AllAnswered(r, bs)
          /\ bodies' = [ bodies EXCEPT ![r] = bs ]
          /\ UNCHANGED << up, opened, connections, replies >>
       \/ /\ o # "lost" /\ AllAnswered(r, bs) /\ ~MergeAborts(bs)
          /\ \E garbled \in Garbled(bs) : Reply(r, Code(o), add_replies(bs, garbled))
          /\ opened' = Freed(connections[r])
          /\ connections' = [ connections EXCEPT ![r] = {} ]
          /\ bodies' = [ bodies EXCEPT ![r] = <<>> ]
          /\ UNCHANGED up
    /\ UNCHANGED << shards, pools, asked, conn, slot, allocFailures >>

----------------------------------------------------------------------------
Next == \E r \in Requests :
           \/ \E t \in Targets : \/ no_account(r, t)
                                \/ single_shoot(r, t)
                                \/ multiple_shoot(r, t)
                                \/ multiple_shoot_no_memory(r, t)
           \/ \E o \in Outcomes : relay_cb(r, o)
           \/ \E o \in Outcomes, c \in Connections : multiple_relay_cb(r, c, o)

Spec == Init /\ [][Next]_vars

(* libevent calls back for every request: with the banker's reply, or when *)
(* the connection fails or its timeout ends.                               *)
FairSpec ==
    /\ Spec
    /\ \A r \in Requests :
         /\ WF_vars(\E o \in Outcomes : relay_cb(r, o))
         /\ \A c \in Connections :
              WF_vars(\E o \in Outcomes : multiple_relay_cb(r, c, o))

----------------------------------------------------------------------------
(* Properties.                                                             *)

Endpoints == Range(Config) \cup {NoEndpoint}
Parts == [ from : Endpoints, intact : BOOLEAN ]
Pool == [ endpoint : Endpoints,
          uses_per_conn : [ Connections \cup {NULL} -> Nat ],
          free_connections : Seq(Connections) ]
Opened == [ endpoint : Endpoints, close : BOOLEAN ]
Answers == [ code : Nat, body : Seq(Parts) ]

\* The types of the relay's state.
RelayTypeOK ==
    /\ up \in BOOLEAN
    /\ DOMAIN shards \subseteq Nat /\ shards \in [ DOMAIN shards -> Endpoints ]
    /\ DOMAIN pools \subseteq Nat /\ pools \in [ DOMAIN pools -> Pool ]
    /\ DOMAIN opened \subseteq Connections
    /\ opened \in [ DOMAIN opened -> Opened ]
    /\ asked \in [ Requests -> Targets \cup {<<>>} ]
    /\ conn \in [ Requests -> Connections \cup {NULL} ]
    /\ slot \in [ Requests -> Nat ]
    /\ connections \in [ Requests -> SUBSET Connections ]
    /\ pending \in [ Requests -> SUBSET Connections ]
    /\ bodies \in [ Requests -> Seq(Seq(Parts)) ]
    /\ replies \in [ Requests -> Seq(Answers) ]
    /\ allocFailures \in Nat

\* The connections free in the pool of a slot.
FreeIn(ps, s) == ToSet(ps[s].free_connections)

\* A connection of a pool is known to it while it is free or lent.
UsesMatch(ps, cn, sl) ==
    \A s \in DOMAIN ps : \A c \in Connections :
        ps[s].uses_per_conn[c] > 0 <=>
            c \in FreeIn(ps, s) \/ \E r \in Requests : cn[r] = c /\ sl[r] = s

FreeOnce(ps) ==
    /\ \A s \in DOMAIN ps : IsInjective(ps[s].free_connections)
    /\ \A s, q \in DOMAIN ps : \A c \in FreeIn(ps, s) : c \in FreeIn(ps, q) => s = q

LentOnce(ps, cn, sl) ==
    \A r \in Requests : cn[r] # NULL =>
        /\ sl[r] \in DOMAIN ps
        /\ \A s \in DOMAIN ps : cn[r] \notin FreeIn(ps, s)
        /\ \A q \in Requests : cn[q] = cn[r] => q = r

OwnOnce(ps, cn, cs) ==
    \A r \in Requests : \A c \in cs[r] :
        /\ \A s \in DOMAIN ps : c \notin FreeIn(ps, s)
        /\ \A q \in Requests : cn[q] # c
        /\ \A q \in Requests : c \in cs[q] => q = r

AllInAPlace(ps, allocated, cn, cs) ==
    \A c \in Connections : c \in allocated <=>
        \/ \E s \in DOMAIN ps : c \in FreeIn(ps, s)
        \/ \E r \in Requests : cn[r] = c
        \/ \E r \in Requests : c \in cs[r]

Accounted(ps, allocated, cn, sl, cs) ==
    /\ UsesMatch(ps, cn, sl)
    /\ FreeOnce(ps)
    /\ LentOnce(ps, cn, sl)
    /\ OwnOnce(ps, cn, cs)
    /\ AllInAPlace(ps, allocated, cn, cs)

\* Every connection allocated is in exactly one place: free in one pool,
\* lent by its pool to one request, or one of a request to all shards.
\* Nothing is in a place after it was freed, and nothing is lost
\* (get_connection, return_connection, process_multiple_relay).
ConnectionsAccountedFor == Accounted(pools, DOMAIN opened, conn, slot, connections)

\* A connection whose banker was told "Connection: close" is not lent again:
\* set_connection_header, when a request is sent, and return_connection, when
\* the reply comes, agree on the last use, whatever happens in between.
CloseAnnouncedIsKept ==
    \A s \in DOMAIN pools : \A c \in FreeIn(pools, s) :
        c \in DOMAIN opened => ~opened[c].close

\* A client gets one reply at most, and none while its request is with a
\* banker (process_relay, process_multiple_relay).
OneReplyEach ==
    \A r \in Requests :
        /\ Len(replies[r]) <= 1
        /\ conn[r] # NULL \/ pending[r] # {} => replies[r] = <<>>

\* The same for a request that has a placeholder, answered or not.
RepliesMatch ==
    \A r \in Requests :
        /\ Len(replies[r]) <= 1
        /\ conn[r] # NULL \/ connections[r] # {} => replies[r] = <<>>

\* A request has a placeholder of one kind at most, and only from its arrival
\* to its reply; the one of a request to all shards waits for as many replies
\* as it has connections that have not answered.
PlaceholdersMatch ==
    /\ IsFiniteSet(DOMAIN shards) /\ DOMAIN shards # {}
    /\ \A r \in Requests :
         /\ asked[r] = <<>> => conn[r] = NULL /\ connections[r] = {} /\ replies[r] = <<>>
         /\ conn[r] # NULL => connections[r] = {}
         /\ pending[r] \subseteq connections[r] /\ IsFiniteSet(connections[r])
         /\ up => Len(bodies[r]) + Cardinality(pending[r]) = Cardinality(connections[r])

\* What the banker was told agrees with the pool as long as the connection is
\* lent.
CloseMatches ==
    \A r \in Requests : conn[r] # NULL =>
        (opened[conn[r]].close <=> last_use(pools[slot[r]], conn[r]))

RelayInv == /\ RelayTypeOK
            /\ ConnectionsAccountedFor
            /\ PlaceholdersMatch
            /\ RepliesMatch
            /\ CloseMatches
            /\ CloseAnnouncedIsKept

\* The shards are numbered from 0 without a gap.
ContiguousShards == DOMAIN Config = 0 .. Cardinality(DOMAIN Config) - 1

OwnerOf(t) == Config[SDBMHash[Head(t)] % Cardinality(DOMAIN Config)]

\* All requests for the accounts of one tree go to one banker, and their
\* replies come from it, whatever pools and connections the requests shared
\* (get_relay_conn_pool, process_relay).
RightBanker ==
    \A r \in Requests :
        asked[r] # <<>> /\ Head(asked[r]) \notin {"*", ""} =>
            /\ conn[r] \in DOMAIN opened =>
                   opened[conn[r]].endpoint = OwnerOf(asked[r])
            /\ \A i \in DOMAIN replies[r] :
                   replies[r][i].code = 200 => replies[r][i].body = << Part(OwnerOf(asked[r])) >>

\* The bankers whose answers are in a body.
Sources(body) == { body[i].from : i \in DOMAIN body }

\* A body that is not empty in the reply to a request for all accounts has
\* the answer of every shard, once (process_multiple_relay, add_replies).
MergedInFull ==
    \A r \in Requests : \A i \in DOMAIN replies[r] :
        Head(asked[r]) = "*" /\ replies[r][i].body # <<>> =>
            /\ Sources(replies[r][i].body) = Range(Config)
            /\ Len(replies[r][i].body) = Cardinality(DOMAIN Config)

\* Every request that came in is answered as long as the relay runs
\* (process_request and the callbacks).
AnsweredWhileUp ==
    \A r \in Requests : asked[r] # <<>> ~> replies[r] # <<>> \/ ~up

\* Every request that came in is answered: a banker that fails costs its own
\* requests an error reply and no more (process_relay).
EveryRequestAnswered ==
    \A r \in Requests : asked[r] # <<>> ~> replies[r] # <<>>

=============================================================================
