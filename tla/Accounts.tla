----------------------------- MODULE Accounts ------------------------------
(***************************************************************************)
(* The map of accounts the banker keeps (struct Accounts of                *)
(* src/src/banker/account.h): a function from the account keys present to  *)
(* their records.  An AccountKey is the sequence of the components of a    *)
(* name such as "top:campaign:agent"; accounts form a forest in which an   *)
(* account's parent has the key without the last component.  The set       *)
(* AccountInfo::children is derived: ensureAccount, the one function that  *)
(* adds an account, adds the key to the parent's children at that moment.  *)
(***************************************************************************)
EXTENDS Account, SequencesExt

CONSTANT Keys            \* the account keys requests may name

\* Keys are not empty, and the parent of a key is a key.
ASSUME KeysAssumption ==
    /\ \A k \in Keys : k \in Seq(STRING) /\ Len(k) > 0
    /\ \A k \in Keys : Len(k) > 1 => Front(k) \in Keys

IsAccountMap(m) == DOMAIN m \subseteq Keys /\ m \in [ DOMAIN m -> AccountRecord ]

NoAccounts == [ k \in {} |-> NewAccount("none") ]

Children(accts, k) == { c \in DOMAIN accts : Len(c) > 1 /\ Front(c) = k }

\* The keys of an account's ancestors, the ones reached by pop_back().
Ancestors(k) == { p \in Keys : IsStrictPrefix(p, k) }

\* The account and everything below it.
Subtree(accts, k) == { c \in DOMAIN accts : IsPrefix(k, c) }

----------------------------------------------------------------------------
(***************************************************************************)
(* ensureAccount walks up from k to the first account present, which must  *)
(* have the type the walk asks for ("budget" for every ancestor), and then *)
(* creates what is missing.  A walk that reaches the top wants a budget    *)
(* account there.  When it throws, nothing was created yet.                *)
(***************************************************************************)
\* Mutant: the type of the first account present is not checked.
CanEnsureAnyParent(accts, k, t) ==
    IF k \in DOMAIN accts THEN accts[k].type = t ELSE Len(k) = 1 => t = "budget"

CanEnsure(accts, k, t) ==
    IF k \in DOMAIN accts
    THEN accts[k].type = t
    ELSE /\ Len(k) = 1 => t = "budget"
         /\ \A p \in Ancestors(k) \cap DOMAIN accts :
               \/ accts[p].type = "budget"
               \/ \E q \in Ancestors(k) \cap DOMAIN accts : IsStrictPrefix(p, q)

\* Mutant: the walk does not stop at the top-level account.
ensureAccountAboveTop(accts, k, t) ==
    [ j \in DOMAIN accts \cup {k, <<>>} \cup Ancestors(k) |->
        IF j \in DOMAIN accts THEN accts[j]
        ELSE NewAccount(IF j = k THEN t ELSE "budget") ]

ensureAccount(accts, k, t) ==
    [ j \in DOMAIN accts \cup {k} \cup Ancestors(k) |->
        IF j \in DOMAIN accts THEN accts[j]
        ELSE NewAccount(IF j = k THEN t ELSE "budget") ]

(***************************************************************************)
(* reactivatePresentAccounts: a closed account, its ancestors and its      *)
(* whole subtree become active; an absent or active one is left alone      *)
(* (MasterBanker::restoreAccount does nothing for an absent account).      *)
(***************************************************************************)
reactivatePresentAccounts(accts, k) ==
    IF k \in DOMAIN accts /\ accts[k].status = "closed"
    THEN [ j \in DOMAIN accts |->
             IF j \in Ancestors(k) \cup Subtree(accts, k)
             THEN [ accts[j] EXCEPT !.status = "active" ]
             ELSE accts[j] ]
    ELSE accts

\* getParentAccount returns an account, and no exception.
HasParent(accts, k) == /\ Len(k) > 1
                       /\ Front(k) \in DOMAIN accts
                       /\ accts[Front(k)].type = "budget"

----------------------------------------------------------------------------
(* Accounts::setBalance once the account is there: the account checks its  *)
(* invariants and then the money moves.                                    *)
setBalance(accts, k, newBalance) ==
    IF k \in DOMAIN accts /\ HasParent(accts, k) /\ checkInvariants(accts[k])
    THEN LET p == Front(k)
             t == Transfer(accts[k], accts[p], newBalance)
         IN  [ accts EXCEPT ![k] = TransferChild(@, t),
                            ![p] = TransferParent(@, t) ]
    ELSE accts

(* Accounts::syncFromShadow once the account is there.                     *)
syncFromShadow(accts, k, shadow) ==
    IF k \in DOMAIN accts /\ checkInvariants(accts[k])
                          /\ ShadowIsNewer(shadow, accts[k])
    THEN [ accts EXCEPT ![k] = syncToMaster(shadow, @) ]
    ELSE accts

(***************************************************************************)
(* The end of closeAccountImpl for one account, its children being done:   *)
(* the money goes to the parent and the status changes.  recuperateTo      *)
(* checks the account's invariants after it moved the money; when they     *)
(* fail the exception skips the change of status.                          *)
(***************************************************************************)
Recuperated(accts, k) ==
    IF Len(k) = 1 THEN accts
    ELSE [ accts EXCEPT ![k] = RecuperateChild(@),
                        ![Front(k)] = RecuperateParent(@, accts[k]) ]

CloseThrows(accts, k) ==
    Len(k) > 1 /\ (~HasParent(accts, k)
                   \/ ~checkInvariants(RecuperateChild(accts[k])))

closeOne(accts, k) ==
    IF CloseThrows(accts, k)
    THEN IF HasParent(accts, k) THEN Recuperated(accts, k) ELSE accts
    ELSE [ Recuperated(accts, k) EXCEPT ![k].status = "closed" ]

----------------------------------------------------------------------------
(***************************************************************************)
(* Accounts::restoreAccount for every record of a set of stored accounts,  *)
(* in any order: all become active, and the ancestors they lack appear as  *)
(* empty budget accounts.  Parsing a record checks its invariants, and an  *)
(* account below must find a budget account: otherwise it throws.          *)
(***************************************************************************)
CanRestore(members, records) ==
    \A k \in members :
        /\ AmountsNonNegative(records[k])
        /\ Len(k) = 1 => records[k].type = "budget"
        /\ (\E c \in members : k \in Ancestors(c)) => records[k].type = "budget"

\* Mutant: the records are put in the map without ensureAccount.
RestoredAccountsAlone(members, records) ==
    [ j \in members |-> [ fromJson(records[j]) EXCEPT !.status = "active" ] ]

RestoredAccounts(members, records) ==
    [ j \in members \cup UNION { Ancestors(k) : k \in members } |->
        IF j \in members
        THEN [ fromJson(records[j]) EXCEPT !.status = "active" ]
        ELSE NewAccount("budget") ]

============================================================================
