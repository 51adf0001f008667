--------------------------- MODULE SequenceFilter ---------------------------
(***************************************************************************)
(* The elements of a sequence that a loop keeps.  The standard SelectSeq   *)
(* takes an operator, of which nothing can be proved; this one takes a     *)
(* set, and is a recursive function.                                       *)
(***************************************************************************)
EXTENDS Integers, Sequences

\* The elements of s that are in S, in the order of s.
Only(s, S) ==
    LET only[i \in 0 .. Len(s)] ==
            IF i = 0 THEN <<>>
            ELSE IF s[i] \in S THEN Append(only[i - 1], s[i]) ELSE only[i - 1]
    IN  only[Len(s)]
=============================================================================
