------------------------------- MODULE Ledger -------------------------------
(***************************************************************************)
(* What the master banker promises of the money given to it.  A client's   *)
(* request, or one step of a close, funds one account, uses the money of   *)
(* one, or moves money between an account and its parent; nothing else     *)
(* appears or disappears.  What is stored is an image that memory once     *)
(* had, as a whole, laid over what was stored before.  A new process has   *)
(* every account stored as active, with the money stored, and of the       *)
(* others what is stored or nothing.                                       *)
(*                                                                         *)
(* How a save finds out what to write, in two answers of redis, and how    *)
(* sets of redis name the accounts to load, is below this description.     *)
(***************************************************************************)
EXTENDS Integers, SequencesExt

VARIABLES
    serving,    \* whether a process runs
    books,      \* its accounts: what each holds, its funds, its use, its status
    copy,       \* the image a save works on, without accounts when there is none
    stored      \* what the database says of each account

vars == << serving, books, copy, stored >>

NewEntry == [ held |-> 0, funded |-> 0, used |-> 0, status |-> "active" ]
NoBooks == [ k \in {} |-> NewEntry ]

Init == /\ serving = FALSE
        /\ books = NoBooks /\ copy = NoBooks /\ stored = NoBooks

----------------------------------------------------------------------------
\* An account that the step creates was empty before it.
Before(k) == IF k \in DOMAIN books THEN books[k] ELSE NewEntry

Change(k, f) == books'[k][f] - Before(k)[f]

Fund(k) == Change(k, "held") = Change(k, "funded") /\ Change(k, "used") = 0
Use(k)  == Change(k, "held") = -Change(k, "used") /\ Change(k, "funded") = 0
Pass(k) == Change(k, "funded") = 0 /\ Change(k, "used") = 0
Keep(k) == Pass(k) /\ Change(k, "held") = 0

\* Whatever else happens to an account, its money stays.
Others(S) == \A j \in DOMAIN books' \ S : Keep(j)

\* One account is funded or used, or one pays another, or no money moves.
Transaction ==
    \/ Others({})
    \/ \E k \in DOMAIN books' : (Fund(k) \/ Use(k)) /\ Others({k})
    \/ \E k, p \in DOMAIN books' :
         /\ Len(k) > 1 /\ p = Front(k)
         /\ Pass(k) /\ Pass(p) /\ Change(p, "held") = -Change(k, "held")
         /\ Others({k, p})

\* An account below the top is closed with its money gone to its parent.
ClosedEmpty == \A k \in DOMAIN books' :
    Before(k).status = "active" /\ books'[k].status # "active" =>
        (Len(k) > 1 => books'[k].held <= 0)

Serve == /\ serving
         /\ DOMAIN books \subseteq DOMAIN books'
         /\ Transaction /\ ClosedEmpty
         /\ UNCHANGED << serving, copy, stored >>

Begin == /\ serving
         /\ copy' = books
         /\ UNCHANGED << serving, books, stored >>

Commit == /\ stored' = [ k \in DOMAIN copy \cup DOMAIN stored |->
                           IF k \in DOMAIN copy THEN copy[k] ELSE stored[k] ]
          /\ copy' = NoBooks
          /\ UNCHANGED << serving, books >>

Abandon == /\ copy' = NoBooks
           /\ UNCHANGED << serving, books, stored >>

End == /\ serving /\ ~serving'
       /\ books' = NoBooks /\ copy' = NoBooks
       /\ UNCHANGED stored

Reload ==
    /\ ~serving /\ serving'
    /\ \A k \in DOMAIN stored : stored[k].status = "active" => k \in DOMAIN books'
    /\ \A k \in DOMAIN books' :
         IF k \in DOMAIN stored /\ (stored[k].status = "active" \/ books'[k] # NewEntry)
         THEN books'[k] = [ stored[k] EXCEPT !.status = "active" ]
         ELSE books'[k] = NewEntry
    /\ UNCHANGED << copy, stored >>

\* The database did not answer.
ReloadFails == /\ ~serving /\ serving'
               /\ books' = NoBooks
               /\ UNCHANGED << copy, stored >>

Next == Serve \/ Begin \/ Commit \/ Abandon \/ End \/ Reload \/ ReloadFails

Spec == Init /\ [][Next]_vars
=============================================================================
