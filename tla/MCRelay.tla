------------------------------ MODULE MCRelay -------------------------------
(***************************************************************************)
(* Small instances of the relay for TLC: two account trees that hash to    *)
(* different shards, and an account below the top of one of them.          *)
(***************************************************************************)
EXTENDS Relay

CONSTANTS r1, r2, r3, c1, c2, c3, c4, mb1, mb2

TwoShards == 0 :> mb1 @@ 1 :> mb2
Hash == "hello" :> 6 @@ "bla" :> 3

HelloTop == << "hello" >>
HelloAgent == << "hello", "agent" >>
BlaTop == << "bla" >>
All == << "*" >>
None == << "" >>

AllTargets == { HelloAgent, BlaTop, All, None }
OneTree == { HelloTop, All }

=============================================================================
