---------------------------- MODULE CurrencyPool ----------------------------
(***************************************************************************)
(* Amounts in several currencies (CurrencyPool of                          *)
(* src/src/banker/currency.h and currency.cc) as pure operators.  A pool   *)
(* is a vector of amounts, sorted by currency, with at most one amount per *)
(* currency.  An amount of zero is never added, but an amount that became  *)
(* zero stays, and limit() and isSameOrPastVersion() tell the two apart.   *)
(***************************************************************************)
EXTENDS Integers, SequencesExt, SequenceFilter

\* The order of the currency codes: 'I' is before 'U'.
CC_IMP == 1
CC_USD == 2

Amount(code, value) == [ code |-> code, value |-> value ]

HasEntry(pool, code) == \E i \in DOMAIN pool : pool[i].code = code

\* The amount in the given currency, 0 when there is none.
getAvailable(pool, code) ==
    IF HasEntry(pool, code)
    THEN pool[CHOOSE i \in DOMAIN pool :
                pool[i].code = code /\ \A j \in 1 .. i - 1 : pool[j].code # code].value
    ELSE 0

hasAvailable(pool, am) == getAvailable(pool, am.code) >= am.value

\* Mutant: the amount is added at the end, whether there is one or not.
PlusAmountAppended(pool, am) == IF am.value = 0 THEN pool ELSE Append(pool, am)

\* operator += of a pool and an amount.
PlusAmount(pool, am) ==
    IF am.value = 0 THEN pool
    ELSE IF HasEntry(pool, am.code)
    THEN [ i \in DOMAIN pool |->
             IF pool[i].code = am.code THEN [ pool[i] EXCEPT !.value = @ + am.value ]
             ELSE pool[i] ]
    ELSE Only(pool, { e \in ToSet(pool) : e.code < am.code }) \o << am >>
         \o Only(pool, { e \in ToSet(pool) : e.code > am.code })

MinusAmount(pool, am) == PlusAmount(pool, Amount(am.code, -am.value))

PlusPool(pool, other) ==
    LET sum[i \in 0 .. Len(other)] ==
            IF i = 0 THEN pool ELSE PlusAmount(sum[i - 1], other[i])
    IN  sum[Len(other)]

MinusPool(pool, other) ==
    LET rest[i \in 0 .. Len(other)] ==
            IF i = 0 THEN pool ELSE MinusAmount(rest[i - 1], other[i])
    IN  rest[Len(other)]

isNonNegative(pool) == \A i \in DOMAIN pool : pool[i].value >= 0

\* Mutant: the amounts of this pool are kept, not the smaller ones.
limitTaken(pool, other) == Only(pool, { e \in ToSet(pool) : HasEntry(other, e.code) })

\* At most what this pool has of each amount of the other.
limit(pool, other) ==
    LET Smaller(e) == IF getAvailable(pool, e.code) < e.value
                      THEN Amount(e.code, getAvailable(pool, e.code)) ELSE e
        cut == [ i \in DOMAIN other |-> Smaller(other[i]) ]
    IN  Only(cut, { e \in ToSet(cut) : e.value # 0 })

nonNegative(pool) == Only(pool, { e \in ToSet(pool) : e.value >= 0 })

\* operator ==: an amount of zero and none at all are the same.
SamePool(p, q) ==
    /\ \A i \in DOMAIN p : getAvailable(q, p[i].code) = p[i].value
    /\ \A i \in DOMAIN q : getAvailable(p, q[i].code) = q[i].value

isSameOrPastVersion(pool, other) ==
    \A i \in DOMAIN pool : pool[i].value >= getAvailable(other, pool[i].code)

\* The members of a JSON object, one per amount, in any order; parsing adds
\* them up again, and so loses the amounts of zero.
toJson(pool) == { pool[i] : i \in DOMAIN pool }
fromJson(json) == PlusPool(<<>>, SetToSeq(json))

----------------------------------------------------------------------------
(* Sorted, one amount per currency. *)
IsPool(pool) == \A i, j \in DOMAIN pool : i < j => pool[i].code < pool[j].code

\* What the operators do to pools p and q, they do to each currency alone:
\* that is what makes an integer per currency (module Account) stand for a
\* pool.  The flag given to Account's limit is HasEntry.
ActsPointwise(p, q, codes) ==
    \A c \in codes :
        LET a == getAvailable(p, c)
            b == getAvailable(q, c)
        IN  /\ getAvailable(PlusPool(p, q), c) = a + b
            /\ getAvailable(MinusPool(p, q), c) = a - b
            /\ getAvailable(nonNegative(p), c) = IF a >= 0 THEN a ELSE 0
            /\ getAvailable(limit(p, q), c) =
                   IF HasEntry(q, c) THEN IF a < b THEN a ELSE b ELSE 0
            /\ getAvailable(fromJson(toJson(p)), c) = a
            /\ isSameOrPastVersion(p, q) => ~HasEntry(p, c) \/ a >= b
            /\ SamePool(p, q) => a = b
=============================================================================
