------------------------------ MODULE Routing -------------------------------
(***************************************************************************)
(* How a request finds its account, twice: the relay takes the account it  *)
(* picks a banker by from the path and the query                           *)
(* (Relay::get_parent_account of src/src/relay/relay.cpp), and the banker  *)
(* takes the handler and the account it works on from them again           *)
(* (Router::route of src/src/utils/router.cc and the table in              *)
(* src/src/banker/banker.cc).                                              *)
(*                                                                         *)
(* A path is the sequence of its segments: "/v1/accounts/x" has three.     *)
(* Account names are opaque here, Parent gives the first component of one. *)
(***************************************************************************)
EXTENDS Naturals, Sequences

CONSTANTS
    Names,        \* the account names AccountKey accepts
    Parent        \* the first component of each name a request may hold

\* The empty text: no account, or no action.
Empty == ""

\* What indexing path_parts beyond its end may give.
NoSuchSegment == "path_parts[3]"

(* The relay.  path_parts has an empty part before the first segment, so   *)
(* path_parts[3] is the third segment.                                     *)

Segment3(path) == IF Len(path) >= 3 THEN path[3] ELSE NoSuchSegment

\* Mutant: an account's own path has no action of its own.
relay_actionLast(path) == path[Len(path)]

relay_action(path) ==
    IF Len(path) = 3 /\ path[2] = "accounts" THEN "accounts" ELSE path[Len(path)]

ForAll == { << "v1", "accounts" >>, << "v1", "activeaccounts" >>, << "v1", "summary" >> }

\* Mutant: the new account's name is looked for in the path first.
relay_accountFromPath(method, path, accountName) ==
    LET action == relay_action(path) IN
    CASE path \in ForAll /\ method = "GET" -> "*"
      [] action = "accounts" /\ method = "POST" -> IF Len(path) >= 3 THEN path[3] ELSE accountName
      [] action = "accounts" /\ method = "GET" /\ Len(path) = 3 -> Segment3(path)
      [] action \in {"adjustment", "balance", "shadow", "budget"}
         /\ method \in {"POST", "PUT"} -> Segment3(path)
      [] action \in {"children", "close", "subtree", "summary"}
         /\ method = "GET" /\ path \notin ForAll -> Segment3(path)
      [] OTHER -> Empty

\* The account a request names, of which the relay hashes the parent; "*" for
\* all, Empty for none.
relay_account(method, path, accountName) ==
    LET action == relay_action(path) IN
    CASE path \in ForAll /\ method = "GET" -> "*"
      [] action = "accounts" /\ method = "POST" -> accountName
      [] action = "accounts" /\ method = "GET" /\ Len(path) = 3 -> Segment3(path)
      [] action \in {"adjustment", "balance", "shadow", "budget"}
         /\ method \in {"POST", "PUT"} -> Segment3(path)
      [] action \in {"children", "close", "subtree", "summary"}
         /\ method = "GET" /\ path \notin ForAll -> Segment3(path)
      [] OTHER -> Empty

(* The banker.  base_path "/v1/accounts" only has to be a prefix: the rest *)
(* of its last segment becomes the first part, which nothing reads: so one *)
(* longer segment, accountsx, stands for all.                              *)

BasePathRest == [ accounts |-> Empty, accountsx |-> "x" ]
HasBasePath(path) == /\ Len(path) >= 2
                     /\ path[1] = "v1" /\ path[2] \in DOMAIN BasePathRest

\* The parts that boost::split makes of the path without base_path.
PathParts(path) == << BasePathRest[path[2]] >> \o SubSeq(path, 3, Len(path))

NotFound == [ action |-> "404", account |-> Empty ]

RouteOf(path) ==
    IF ~HasBasePath(path)
    THEN CASE path = << "v1", "activeaccounts" >> ->
                  [ action |-> "activeaccounts", account |-> "*" ]
           [] path = << "v1", "summary" >> -> [ action |-> "summary", account |-> "*" ]
           [] OTHER -> NotFound
    ELSE LET parts == PathParts(path) IN
         CASE path = << "v1", "accounts" >> -> [ action |-> Empty, account |-> "*" ]
           [] Len(parts) = 3 -> [ action |-> parts[3], account |-> parts[2] ]
           [] Len(parts) = 2 -> [ action |-> Empty, account |-> parts[2] ]
           [] OTHER -> NotFound

\* addAsyncRoute in MasterBanker::initialize
Actions == [ GET |-> {"children", "close", "subtree", "summary", Empty, "activeaccounts"},
             POST |-> {"adjustment", "balance", "shadow", "budget", Empty},
             PUT |-> {"adjustment", "balance", "shadow", "budget"} ]

\* The handler that runs and the account it works on.  create_account takes it
\* from the query, active_accounts has none, accounts and summary take "*" for
\* all; every other name has to be the name of an account.
route(method, path, accountName) ==
    LET r == RouteOf(path)
        handled == IF method = "POST" /\ r.action = Empty
                   THEN [ action |-> "create", account |-> accountName ]
                   ELSE IF r.action = "activeaccounts" THEN [ r EXCEPT !.account = "*" ]
                   ELSE r
        listsAll == /\ handled.account = "*"
                    /\ handled.action \in {Empty, "summary", "activeaccounts"}
    IN
    IF /\ method \in DOMAIN Actions
       /\ r.action \in Actions[method]
       /\ listsAll \/ handled.account \in Names
    THEN handled
    ELSE NotFound
=============================================================================
