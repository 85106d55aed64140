----------------------------- MODULE PrefixBloom -----------------------------
(***************************************************************************)
(* The filters of Tool/bloom.c, of which signatures and queries are made:  *)
(* Bloom_table_size bytes into which a key is hashed Bloom_number_of_hashes *)
(* times, as its prefixes (Range_Bloom) or as it is.  A filter is the set  *)
(* of its '1' bits <<character, bit>>.                                     *)
(***************************************************************************)
EXTENDS Hashing

CONSTANTS
    NumberOfHashes,   \* Bloom_number_of_hashes
    TableBytes,       \* Bloom_table_size, a power of two
    CharWidth,        \* bits_per_char, a power of two
    RangeBloom,       \* Range_Bloom is defined
    MaxValue,         \* maxValue: keys are drawn below it
    RangeWidth        \* rangeWidth

Prefix(key, i) == IF RangeBloom THEN key \div (2 ^ i) ELSE key

ASSUME PrefixBloomAssumption ==
    /\ {NumberOfHashes, TableBytes, CharWidth, MaxValue, RangeWidth} \subseteq Nat \ {0}
    /\ RangeBloom \in BOOLEAN
    /\ 0 .. MaxValue + RangeWidth - 2 \subseteq Key
    /\ \A key \in Key, i \in 0 .. NumberOfHashes - 1 :
            MurmurHash3(Prefix(key, i)) \in [0 .. 3 -> Word]

Rounds == 0 .. NumberOfHashes - 1

\* & with Bloom_table_size * 8 - 1 and with 7 is % for powers of two.
Position(hash) == <<(hash % (TableBytes * CharWidth)) \div CharWidth, hash % CharWidth>>

InsertPositions(key) ==
    {Position(InsertHash(i, MurmurHash3(Prefix(key, i)))) : i \in Rounds}

ContainPositions(key) ==
    {Position(ContainHash(i, MurmurHash3(Prefix(key, i)))) : i \in Rounds}

BloomInsertKey(key, dest) == dest \union InsertPositions(key)
BloomContainKey(key, bloom) == ContainPositions(key) \subseteq bloom

-----------------------------------------------------------------------------
(* Signatures at random *)

\* DataRegionType; BloomGenerate inserts nothing for Same.
Region == {"Random", "RandomFind", "Zipf", "ZipfFind"}

\* zipf: the base 0 and its successor are the most frequent values, and the
\* last one is the number of items.
Zipf(items) == 0 .. items

\* The first keys that a call can draw.
Firsts(region, items) ==
    IF region \in {"Zipf", "ZipfFind"} THEN Zipf(items) ELSE 0 .. MaxValue - 1

\* The numbers of keys it can insert (TEST_RANGE).
Widths(region) ==
    CASE region = "Random" -> {1, RangeWidth}
      [] region = "Zipf" -> {RangeWidth}
      [] OTHER -> {1}

\* A call that draws the keys r .. r + diff - 1.
BloomGenerate(bloom, r, diff) == bloom \union UNION {InsertPositions(key) : key \in r .. r + diff - 1}

\* What a call can make of an empty filter, with the keys it stands for.
Generated(region, items) ==
    {[keys |-> r .. r + diff - 1, data |-> BloomGenerate({}, r, diff)]
        : r \in Firsts(region, items), diff \in Widths(region)}
=============================================================================
