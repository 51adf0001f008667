----------------------------- MODULE MCSharding -----------------------------
(***************************************************************************)
(* The two migrations of the README, and one whose new shards have a gap,  *)
(* over a tree of two accounts and two more top-level accounts, one of     *)
(* them with the name of an action.                                        *)
(***************************************************************************)
EXTENDS Sharding, TLC

CONSTANTS db0, db1, db2

AccountNames == {"hello", "hello:agent", "bla", "close"}

OwnParent == {"hello", "bla", "close", "summary", "accounts", "accountsx", "v1",
              "children", "budget", "activeaccounts", "*", ""}
FirstComponent == "hello:agent" :> "hello" @@ [ n \in OwnParent |-> n ]

NameBytes == "hello" :> << 104, 101, 108, 108, 111 >> @@ "bla" :> << 98, 108, 97 >>
             @@ "close" :> << 99, 108, 111, 115, 101 >>
             @@ "budget" :> << 98, 117, 100, 103, 101, 116 >>
             @@ "summary" :> << 115, 117, 109, 109, 97, 114, 121 >>

\* The 32-bit hash of the relay and the exact one of the script agree on every
\* name of one, two or three bytes that AccountKey accepts, of which the third
\* makes the hash exceed 32 bits; a byte above 127 would be signed in the relay.
ASSUME HashesAgree ==
    \A n \in 1 .. 3 : \A name \in [ 1 .. n -> IF n < 3 THEN Hash!SlugBytes
                                             ELSE {46, 57, 65, 90, 95, 97, 122} ] :
        Hash!SDBMHash(name) = Hash!SDBMHashPython(name)

\* MB on DB 0 becomes MB1 on DB 1 and MB2 on DB 2.
FromOne == [ old |-> 0 :> db0, from |-> << db0 >>, to |-> 0 :> db1 @@ 1 :> db2 ]
\* MB3 on DB 2 is added to MB1 on DB 0 and MB2 on DB 1.
AddOne == [ old |-> 0 :> db0 @@ 1 :> db1, from |-> << db0, db1 >>,
            to |-> 0 :> db0 @@ 1 :> db1 @@ 2 :> db2 ]
\* Shard 2 is given where shard 1 is meant.
WithGap == [ old |-> 0 :> db0, from |-> << db0 >>, to |-> 0 :> db1 @@ 2 :> db2 ]

MCMigrations == { FromOne, AddOne, WithGap }

Segments == {"hello", "hello:agent", "bla", "close", "summary", "*", ""}
MCPaths ==
    { << "v1", "accounts" >>, << "v1", "activeaccounts" >>, << "v1", "summary" >>,
      << "v1", "close" >>, << "v1", "budget" >>, << "v1", "bla", "summary" >>,
      << "v1", "accountsx", "budget" >>, << "v1", "accountsx", "close" >>,
      << "v1", "accountsx", "bla", "close" >>,
      << "v1", "accounts", "bla", "accounts" >>,
      << "v1", "accounts", "bla", "activeaccounts" >>,
      << "v1", "accounts", "bla", "children", "close" >> }
    \cup { << "v1", "accounts", n >> : n \in Segments }
    \cup { << "v1", "accounts", n, act >> :
              n \in Segments, act \in {"close", "summary", "budget", "shadow", ""} }
=============================================================================
