---------------------------- MODULE CommandQueue ----------------------------
(***************************************************************************)
(* What a connection to redis promises its callers                         *)
(* (src/src/soa/service/redis.h): commands take effect in the order they   *)
(* were queued, each at most once, and each queued command is answered at  *)
(* most once.  A reply is only given to a command that redis has executed; *)
(* a timeout or an error says nothing about that, for the command may have *)
(* been executed before or be executed later.                              *)
(***************************************************************************)
EXTENDS Naturals, SequencesExt

CONSTANT Commands

VARIABLES
    issued,    \* the commands accepted, in order
    executed,  \* how many of them redis has executed
    outcome    \* what the callback of each command was given

vars == << issued, executed, outcome >>

Answers == {"reply", "timeout", "error"}

Init == /\ issued = <<>>
        /\ executed = 0
        /\ outcome = [ k \in Commands |-> "none" ]

\* One command or several at once, none of them answered or queued before.
\* Others of the same call may be too late to be queued.
Issue == /\ issued' \in Seq(Commands)
         /\ IsStrictPrefix(issued, issued') /\ IsInjective(issued')
         /\ \A i \in DOMAIN issued' :
                i > Len(issued) => outcome[issued'[i]] = "none"
         /\ \E late \in SUBSET Commands :
                /\ \A k \in late : outcome[k] = "none"
                /\ late \cap { issued'[i] : i \in DOMAIN issued' } = {}
                /\ outcome' = [ k \in Commands |-> IF k \in late THEN "timeout"
                                                  ELSE outcome[k] ]
         /\ UNCHANGED executed

Execute == /\ executed < Len(issued)
           /\ executed' = executed + 1
           /\ UNCHANGED << issued, outcome >>

\* Several commands may be answered at once, as when their timeouts expire.
Answer == \E S \in SUBSET Commands : \E a \in Answers :
    /\ \A k \in S : outcome[k] = "none"
    /\ a = "reply" => \A k \in S : \E i \in 1 .. executed : issued[i] = k
    /\ outcome' = [ k \in Commands |-> IF k \in S THEN a ELSE outcome[k] ]
    /\ UNCHANGED << issued, executed >>

Next == Issue \/ Execute \/ Answer

Spec == Init /\ [][Next]_vars
=============================================================================
