----------------------------- MODULE SaltedBloom -----------------------------
(***************************************************************************)
(* The filters of BloomFilterTest/bloom.cpp: buffers of Bloom_table_size   *)
(* bytes into which keys are hashed with the global salts.  initBloom      *)
(* changes the salts in place, and with them the bits of every key.        *)
(*                                                                         *)
(* The plain scheme hashes the checksums of a key again and again, with    *)
(* one salt after the other; the range scheme hashes the prefixes of the   *)
(* key (key >> i).  & with Bloom_table_size * 8 - 1 is % for the sizes the *)
(* program uses, which are powers of two.                                  *)
(***************************************************************************)
EXTENDS Hashing, FiniteSets

CONSTANTS
    Buffer,           \* arrays of the caller
    HashCounts,       \* values of Bloom_number_of_hashes
    TableSizes,       \* values of Bloom_table_size, in bytes
    Seeds,            \* values of rand()
    BitsPerChar,      \* bits_per_char
    MaxSaltedCalls    \* bound: operations in a behaviour

\* The plain scheme reads salt_[Bloom_number_of_hashes].
ASSUME SaltedBloomAssumption ==
    /\ HashCounts \subseteq 1 .. PredefCount - 1
    /\ TableSizes \subseteq Nat \ {0}
    /\ Seeds \subseteq Nat
    /\ BitsPerChar \in Nat \ {0}
    /\ MaxSaltedCalls \in Nat

VARIABLES
    salt,         \* salt_
    hashCount,    \* Bloom_number_of_hashes
    tableSize,    \* Bloom_table_size
    bloom,        \* buffers: the scheme they are used with and their '1' bits
    inserted,     \* history: keys inserted with the present salts
    fresh,        \* history: buffers cleared since initBloom
    saltedCalls   \* operations done

saltedVars == <<salt, hashCount, tableSize, bloom, inserted, fresh, saltedCalls>>

Scheme == {"plain", "range"}

-----------------------------------------------------------------------------
(* The bits of a key *)

\* checksum[j] after the i-th salt of the plain scheme
Chain(key) ==
    LET c[i \in 0 .. hashCount] ==
            IF i = 0 THEN MurmurHash3(key)
            ELSE [j \in 0 .. 3 |-> HashAp(c[i - 1][j], salt[i])]
    IN  c

\* Mutant: the key is not shifted.
PrefixNot(key, i) == key

Prefix(key, i) == key \div (2 ^ i)

Checksums(scheme, key, i) ==
    IF scheme = "plain"
    THEN Chain(key)[i]
    ELSE [j \in 0 .. 3 |-> HashAp(MurmurHash3(Prefix(key, i))[j], salt[i])]

Rounds(scheme) == IF scheme = "plain" THEN 1 .. hashCount ELSE 0 .. hashCount - 1

\* compute_indices
TableIndex(hash) == hash % (tableSize * BitsPerChar)

\* The plain scheme takes the character from the index and the bit from the hash.
CharAndBit(hash) == (TableIndex(hash) - (TableIndex(hash) % BitsPerChar)) + (hash % BitsPerChar)

InsertBit(scheme, hash) == IF scheme = "plain" THEN CharAndBit(hash) ELSE TableIndex(hash)

InsertBits(scheme, key) ==
    {InsertBit(scheme, InsertHash(i, Checksums(scheme, key, i))) : i \in Rounds(scheme)}

ContainBits(scheme, key) ==
    {TableIndex(ContainHash(i, Checksums(scheme, key, i))) : i \in Rounds(scheme)}

ASSUME SaltedHashAssumption ==
    /\ \A x, s \in Word : HashAp(x, s) \in Word
    /\ \A key \in Key : MurmurHash3(key) \in [0 .. 3 -> Word]
    /\ \A key \in Key, i \in 0 .. PredefCount - 1 :
            MurmurHash3(Prefix(key, i)) \in [0 .. 3 -> Word]

KeyInBuffer(b, key) == ContainBits(bloom[b].scheme, key) \subseteq bloom[b].bits

-----------------------------------------------------------------------------
(* The operations *)

SaltedInit ==
    /\ salt = Predef
    /\ hashCount \in HashCounts
    /\ tableSize \in TableSizes
    /\ bloom = [b \in Buffer |-> [scheme |-> "none", bits |-> {}]]
    /\ inserted = [b \in Buffer |-> {}]
    /\ fresh = [b \in Buffer |-> FALSE]
    /\ saltedCalls = 0

SaltedCall == saltedCalls < MaxSaltedCalls /\ saltedCalls' = saltedCalls + 1

\* The first hashCount salts are seasoned once more.  Keys that were inserted before
\* are no longer looked for at the same bits.
initBloom(seed) ==
    /\ SaltedCall
    /\ salt' = Season(salt, hashCount, seed)
    /\ inserted' = [b \in Buffer |-> {}]
    /\ fresh' = [b \in Buffer |-> FALSE]
    /\ UNCHANGED <<hashCount, tableSize, bloom>>

\* A test begins: the number of hashes and the size change, and the arrays of
\* the test before are gone.
SetParameters(k, size) ==
    /\ SaltedCall
    /\ hashCount' = k
    /\ tableSize' = size
    /\ bloom' = [b \in Buffer |-> [scheme |-> "none", bits |-> {}]]
    /\ inserted' = [b \in Buffer |-> {}]
    /\ fresh' = [b \in Buffer |-> FALSE]
    /\ UNCHANGED salt

\* An array is declared and set to zero, for keys of one scheme.
NewBuffer(b, scheme) ==
    /\ SaltedCall
    /\ bloom' = [bloom EXCEPT ![b] = [scheme |-> scheme, bits |-> {}]]
    /\ inserted' = [inserted EXCEPT ![b] = {}]
    /\ fresh' = [fresh EXCEPT ![b] = TRUE]
    /\ UNCHANGED <<salt, hashCount, tableSize>>

\* BloomInsertKey and RangeBloomInsertKey
InsertKey(b, key) ==
    /\ SaltedCall
    /\ bloom[b].scheme \in Scheme
    /\ bloom' = [bloom EXCEPT ![b].bits = @ \union InsertBits(bloom[b].scheme, key)]
    /\ inserted' = [inserted EXCEPT ![b] = @ \union {key}]
    /\ UNCHANGED <<salt, hashCount, tableSize, fresh>>

SaltedNext ==
    \/ \E seed \in Seeds : initBloom(seed)
    \/ \E k \in HashCounts, size \in TableSizes : SetParameters(k, size)
    \/ \E b \in Buffer, scheme \in Scheme : NewBuffer(b, scheme)
    \/ \E b \in Buffer, key \in Key : InsertKey(b, key)

SaltedSpec == SaltedInit /\ [][SaltedNext]_saltedVars

-----------------------------------------------------------------------------
(* Properties *)

\* Types, as the proofs need them.
SaltedTypeOK ==
    /\ salt \in [0 .. PredefCount - 1 -> Word]
    /\ hashCount \in HashCounts
    /\ tableSize \in TableSizes
    /\ bloom \in [Buffer -> [scheme : Scheme \union {"none"}, bits : SUBSET Nat]]
    /\ inserted \in [Buffer -> SUBSET Key]
    /\ fresh \in [Buffer -> BOOLEAN]

\* A key is found as long as no initBloom follows its insertion, although the
\* two sides mix the checksums in different integer types and take the bit from
\* the hash and from the index.
FoundSinceInitBloom ==
    \A b \in Buffer : \A key \in inserted[b] : KeyInBuffer(b, key)

\* What the formula for the range scheme in getTargetFalseRate counts on: keys
\* share the bits of the prefixes they share, so that a new array has at most one
\* bit for each prefix of its keys, and no others whatever the salts were before.
PrefixesShareBits ==
    \A b \in Buffer :
        fresh[b] /\ bloom[b].scheme = "range" =>
            Cardinality(bloom[b].bits) <=
                Cardinality(UNION {{<<i, key \div (2 ^ i)>> : key \in inserted[b]}
                                    : i \in 0 .. hashCount - 1})
=============================================================================
