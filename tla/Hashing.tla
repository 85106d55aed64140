------------------------------- MODULE Hashing -------------------------------
(***************************************************************************)
(* What the Bloom filters of the repository share: keys, hash functions of *)
(* which only that they are functions matters, and the generators of       *)
(* salts.  All generators season a table of constants in place: an element *)
(* is multiplied by the one three places further on, which has been        *)
(* seasoned already if the index has wrapped, and a seed is added, in      *)
(* WordRange (2^32 in the code).                                           *)
(***************************************************************************)
EXTENDS Integers

CONSTANTS
    Key,             \* keys, natural numbers
    WordRange,       \* values of bloom_type and of uint32_t
    HashAp(_, _),    \* hash_ap(bytes, salt)
    MurmurHash3(_),  \* MurmurHash3_x64_128: a function from 0 .. 3 to words
    PredefCount,     \* number of constant salts
    Predef,          \* predef_salt, and the initial value of the global salt_
    Draw(_, _)       \* Draw(seed, i): the product of two rand() that becomes salt i

Word == 0 .. WordRange - 1

ASSUME HashingAssumption ==
    /\ Key \subseteq Nat
    /\ WordRange \in Nat \ {0}
    /\ PredefCount \in Nat
    /\ Predef \in [0 .. PredefCount - 1 -> Word]

\* One round of the loop of generate_unique_salt: element i of the first n.
Seasoned(s, i, n, seed) == [s EXCEPT ![i] = (s[i] * s[(i + 3) % n] + seed) % WordRange]

\* The loop: round r seasons element r - 1.
Season(old, n, seed) ==
    LET s[r \in 0 .. n] == IF r = 0 THEN old ELSE Seasoned(s[r - 1], r - 1, n, seed)
    IN  s[n]

\* Class bloom_filter: up to predef_salt_count salts are seasoned constants, of
\* more the first ones are the constants as they are and the rest are drawn.
UniqueSalts(n, seed) ==
    IF n <= PredefCount
    THEN Season([i \in 0 .. n - 1 |-> Predef[i]], n, seed)
    ELSE [i \in 0 .. n - 1 |->
            IF i < PredefCount THEN Predef[i] ELSE Draw(seed, i)]

\* The sum that makes the i-th hash of four checksums; it wraps with the type of i.
Mixture(i, checksum) ==
    checksum[0] + i * checksum[1] + i * i * checksum[2] + i * i * i * checksum[3]

\* Mutant: the uint32_t of the other side is narrower.
ContainHashNarrow(i, checksum) == Mixture(i, checksum) % (WordRange - 1)

\* i is an int where keys are inserted, and the sum a uint32_t; where they are
\* looked for, i is a size_t and the sum of 64 bits is cut down to a uint32_t.
InsertHash(i, checksum) == Mixture(i, checksum) % WordRange
ContainHash(i, checksum) == (Mixture(i, checksum) % (WordRange * WordRange)) % WordRange
=============================================================================
