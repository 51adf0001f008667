----------------------------- MODULE ShardHash ------------------------------
(***************************************************************************)
(* The hash that assigns the accounts of a tree to a shard, in the relay's *)
(* C++ (SDBMHash of src/src/relay/relay.cpp, 32-bit unsigned, characters   *)
(* that may be signed) and in the Python of the migration script           *)
(* (src/scripts/shard.py, integers of any size).  A name is a sequence of  *)
(* byte values.                                                            *)
(*                                                                         *)
(* Each turn of the loop computes c + (h << 6) + (h << 16) - h, which is   *)
(* c + 63 h + 2^16 h.  A hash is a sequence of 16-bit limbs, the lowest    *)
(* first, so that no number here is larger than 2^31.                      *)
(***************************************************************************)
EXTENDS Integers, Sequences

CONSTANT CharSigned   \* whether char is a signed type, as it is on x86

Limb == 65536

\* One turn on n limbs; what does not fit is dropped.
HashStep(h, c, n) ==
    LET sum(j, carried) == 63 * h[j] + (IF j = 1 THEN c ELSE h[j - 1]) + carried
        carry[j \in 0 .. n] == IF j = 0 THEN 0 ELSE sum(j, carry[j - 1]) \div Limb
    IN  [ j \in 1 .. n |-> sum(j, carry[j - 1]) % Limb ]

\* The loop over a name, with chars[i] the value of its i-th character.
HashLoop(chars, n) ==
    LET hash[i \in 0 .. Len(chars)] ==
            IF i = 0 THEN [ j \in 1 .. n |-> 0 ]
            ELSE HashStep(hash[i - 1], chars[i], n)
    IN  hash[Len(chars)]

\* hash & 0x7FFFFFFF
Masked(h) == h[1] + Limb * (h[2] % (Limb \div 2))

\* A char of the byte b.
Char(b) == IF CharSigned /\ b > 127 THEN b - 256 ELSE b

\* unsigned int has two limbs.
SDBMHash(name) == Masked(HashLoop([ i \in 1 .. Len(name) |-> Char(name[i]) ], 2))

\* Two more limbs for every character are enough for an exact result.
SDBMHashPython(name) == Masked(HashLoop(name, 2 * Len(name) + 2))

\* The bytes validateSlug lets through: '.', digits, letters and '_'.
SlugBytes == {46, 95} \cup (48 .. 57) \cup (65 .. 90) \cup (97 .. 122)
=============================================================================
