----------------------------- MODULE BloomFilter -----------------------------
(***************************************************************************)
(* The classes bloom_parameters, bloom_filter and                          *)
(* compressible_bloom_filter of BloomFilterTest/bloom_filter.hpp: objects  *)
(* that are constructed, filled, copied, compressed and merged.  Used by   *)
(* one thread; an operation is a step.                                     *)
(*                                                                         *)
(* bit_table_ is the set of its '1' bits and the number of bits it has     *)
(* room for.  compute_indices of a compressed filter reduces a hash by     *)
(* every element of size_list; as that list only grows at its end, at      *)
(* holds the result for each hash and is reduced with it.  A subscript     *)
(* outside a vector sets undefined, and nothing happens after that.        *)
(***************************************************************************)
EXTENDS Hashing, FiniteSets

CONSTANTS
    Object,         \* variables of the program
    Hash,           \* values of hash_ap
    Parameters,     \* the bloom_parameters that occur
    CharBits,       \* bits_per_char
    SeedFactor,     \* 0xA5A5A5A5
    SeedRange,      \* values of random_seed_, 2^64
    MaxCalls        \* bound: operations in a behaviour

\* What the loop of compute_optimal_parameters finds are m bits and k hash
\* functions; usable: the tests on the number of elements and on the probability.
ParameterType ==
    [m : Nat, k : Nat, minSize : Nat, maxSize : Nat, minHashes : Nat,
     maxHashes : Nat, usable : BOOLEAN, seed : 0 .. SeedRange - 1]

ASSUME BloomFilterAssumption ==
    /\ Hash \subseteq Nat
    /\ Parameters \subseteq ParameterType
    /\ CharBits \in Nat \ {0}
    /\ SeedFactor \in Nat
    /\ SeedRange \in Nat \ {0}
    /\ MaxCalls \in Nat

VARIABLES
    filter,      \* the objects
    held,        \* history: keys that an object has to contain
    exact,       \* history: objects that have the bits of those keys only
    undefined,   \* a vector was accessed outside its bounds
    calls        \* operations done

vars == <<filter, held, exact, undefined, calls>>

-----------------------------------------------------------------------------
(* bloom_parameters *)

\* operator!
Invalid(p) ==
    \/ p.minSize > p.maxSize
    \/ p.minHashes > p.maxHashes
    \/ p.minHashes < 1
    \/ p.maxHashes = 0
    \/ ~p.usable
    \/ p.seed \in {0, SeedRange - 1}

Clamp(x, low, high) == IF x < low THEN low ELSE IF x > high THEN high ELSE x

RoundUp(m) == m + (IF m % CharBits # 0 THEN CharBits - (m % CharBits) ELSE 0)

\* compute_optimal_parameters; it leaves the zeros of optimal_parameters_t where
\* it returns false.
Hashes(p) == IF Invalid(p) THEN 0 ELSE Clamp(p.k, p.minHashes, p.maxHashes)
TableSize(p) ==
    IF Invalid(p) THEN 0 ELSE Clamp(RoundUp(p.m), p.minSize, p.maxSize)

ObjectSeed(p) == (p.seed * SeedFactor + 1) % SeedRange

ASSUME HashAssumption ==
    \A p \in Parameters : \A key \in Key, i \in 0 .. Hashes(p) - 1 :
        HashAp(key, UniqueSalts(Hashes(p), ObjectSeed(p))[i]) \in Hash

-----------------------------------------------------------------------------
(* Objects *)

Kind == {"none", "plain", "compressible"}

\* size is size(): table_size_, or the last element of size_list.
NoFilter ==
    [kind |-> "none", hashes |-> 0, salt |-> << >>, seed |-> 0, tableSize |-> 0,
     size |-> 0, room |-> 0, at |-> [h \in Hash |-> 0], bits |-> {}, inserted |-> 0]

\* The default constructor: no salts, so that insert sets nothing and contains
\* finds nothing missing.
DefaultFilter == [NoFilter EXCEPT !.kind = "plain"]

\* The constructors from bloom_parameters.  A table of size % CharBits # 0 loses
\* the last bits to the division.
NewFilter(p, kind) ==
    LET size == TableSize(p)
    IN  [kind |-> kind, hashes |-> Hashes(p),
         salt |-> UniqueSalts(Hashes(p), ObjectSeed(p)), seed |-> ObjectSeed(p),
         tableSize |-> size, size |-> size, room |-> size - (size % CharBits),
         at |-> [h \in Hash |-> IF size = 0 THEN 0 ELSE h % size],
         bits |-> {}, inserted |-> 0]

\* bloom_filter's copy of an object: of a compressed one it keeps the small
\* table and forgets size_list.
Sliced(f) ==
    [f EXCEPT !.kind = "plain", !.size = f.tableSize,
              !.at = [h \in Hash |-> IF f.tableSize = 0 THEN 0 ELSE h % f.tableSize]]

InTable(f, bit) == bit < f.room

Index(f, key, i) == f.at[HashAp(key, f.salt[i])]

\* The bits of a key.
Touched(f, key) == {Index(f, key, i) : i \in 0 .. f.hashes - 1}

Contains(f, key) == Touched(f, key) \subseteq f.bits

\* contains_all returns end, or the first key that is missing.
ContainsAll(f, keys) == \A key \in keys : Contains(f, key)

\* contains gets as far as a subscript outside the table.
ReadsOutside(f, key) ==
    \E i \in 0 .. f.hashes - 1 :
        /\ ~InTable(f, Index(f, key, i))
        /\ \A j \in 0 .. i - 1 : Index(f, key, j) \in f.bits

\* One table index means the same bit in both.
Alike(f, g) == f.at = g.at /\ f.room = g.room

Init ==
    /\ filter = [o \in Object |-> NoFilter]
    /\ held = [o \in Object |-> {}]
    /\ exact = [o \in Object |-> TRUE]
    /\ undefined = FALSE
    /\ calls = 0

Call == ~undefined /\ calls < MaxCalls /\ calls' = calls + 1

Defined(o) == filter[o].kind # "none"

Becomes(o, f, keys, isExact) ==
    /\ filter' = [filter EXCEPT ![o] = f]
    /\ held' = [held EXCEPT ![o] = keys]
    /\ exact' = [exact EXCEPT ![o] = isExact]
    /\ undefined' = FALSE

Crash ==
    /\ undefined' = TRUE
    /\ UNCHANGED <<filter, held, exact>>

Construct(o) ==
    /\ Call
    /\ ~Defined(o)
    /\ \/ Becomes(o, DefaultFilter, {}, TRUE)
       \/ \E p \in Parameters, kind \in {"plain", "compressible"} :
            Becomes(o, NewFilter(p, kind), {}, TRUE)

\* The copy constructors and operator=.  A compressible object can only be made
\* from another one.
Assign(o, source) ==
    /\ Call
    /\ o # source
    /\ Defined(source)
    /\ \/ /\ filter[o].kind \in {"none", filter[source].kind}
          /\ Becomes(o, filter[source], held[source], exact[source])
       \/ /\ filter[o].kind \in {"none", "plain"}
          /\ filter[source].kind = "compressible"
          /\ LET alike == Alike(Sliced(filter[source]), filter[source])
             IN  Becomes(o, Sliced(filter[source]),
                         IF alike THEN held[source] ELSE {}, alike /\ exact[source])

clear(o) ==
    /\ Call
    /\ Defined(o)
    /\ Becomes(o, [filter[o] EXCEPT !.bits = {}, !.inserted = 0], {}, TRUE)

insert(o, key) ==
    LET f == filter[o]
    IN  /\ Call
        /\ Defined(o)
        /\ IF \A bit \in Touched(f, key) : InTable(f, bit)
           THEN Becomes(o, [f EXCEPT !.bits = @ \union Touched(f, key),
                                     !.inserted = @ + 1],
                        held[o] \union {key}, exact[o])
           ELSE Crash

\* contains changes nothing, unless it reads outside the table.
contains(o, key) ==
    /\ Call
    /\ Defined(o)
    /\ ReadsOutside(filter[o], key)
    /\ Crash

-----------------------------------------------------------------------------
(* Merging *)

\* Mutant: the seed is not compared.
MergeableAnySeed(f, g) ==
    /\ f.hashes = g.hashes
    /\ f.tableSize = g.tableSize

\* The guard of &=, |= and ^=.  It compares what the objects were constructed
\* with, which compress does not change.
Mergeable(f, g) ==
    /\ f.hashes = g.hashes
    /\ f.tableSize = g.tableSize
    /\ f.seed = g.seed

\* The loops run over f's table.
Union(f, g) == f.bits \union {bit \in g.bits : InTable(f, bit)}
Intersection(f, g) == f.bits \intersect g.bits
Difference(f, g) == (f.bits \ g.bits) \union {bit \in g.bits \ f.bits : InTable(f, bit)}

Operation == {"|", "&", "^"}

MergedBits(op, f, g) ==
    CASE op = "|" -> Union(f, g)
      [] op = "&" -> Intersection(f, g)
      [] op = "^" -> Difference(f, g)

\* What a merge of filters that agree on their bits has to keep of the keys.
\* The difference of two filters need not have all bits of any key.
MergedKeys(op, keys, others) ==
    CASE op = "|" -> keys \union others
      [] op = "&" -> keys \intersect others
      [] op = "^" -> {}

KeptKeys(op, keys) == IF op = "|" THEN keys ELSE {}

\* o becomes f op= g, where keys and isExact are the history of f and source is g.
MergeInto(op, o, f, keys, isExact, source) ==
    LET g == filter[source]
    IN  IF ~Mergeable(f, g)
        THEN Becomes(o, f, keys, isExact)
        ELSE IF g.room < f.room
        THEN Crash
        ELSE LET merged == [f EXCEPT !.bits = MergedBits(op, f, g)]
             IN  IF Alike(f, g)
                 THEN Becomes(o, merged, MergedKeys(op, keys, held[source]),
                              isExact /\ exact[source] /\ op = "|")
                 ELSE Becomes(o, merged, KeptKeys(op, keys), FALSE)

\* operator &=, |=, ^=
Merge(op, o, source) ==
    /\ Call
    /\ Defined(o)
    /\ Defined(source)
    /\ MergeInto(op, o, filter[o], held[o], exact[o], source)

\* operator &, |, ^: the result starts as a bloom_filter's copy of a.
MergeNew(op, o, a, b) ==
    LET f == IF filter[a].kind = "compressible" THEN Sliced(filter[a]) ELSE filter[a]
        alike == Alike(f, filter[a])
    IN  /\ Call
        /\ filter[o].kind \in {"none", "plain"}
        /\ o \notin {a, b}
        /\ Defined(a)
        /\ Defined(b)
        /\ MergeInto(op, o, f, IF alike THEN held[a] ELSE {}, alike /\ exact[a], b)

-----------------------------------------------------------------------------
(* Compressing *)

\* The sizes that some percentage leads to.
NewSizes(f) == {n \in CharBits .. f.size - 1 : n % CharBits = 0}

\* Mutant: the table keeps its old bits.
FoldedNone(bits, size) == bits

\* Mutant: the rest is dropped.
FoldedNot(bits, size) == {bit \in bits : bit < size}

\* What lies behind the new size is laid over the beginning.
Folded(bits, size) == {bit \in bits : bit < size} \union {bit - size : bit \in {b \in bits : b >= size}}

\* Mutant: size_list is not extended.
ReducedNot(at, size) == at

\* compute_indices with one more element in size_list
Reduced(at, size) == [h \in Hash |-> at[h] % size]

\* The rest is written past tmp if it is longer than the new table.
compress(o) ==
    LET f == filter[o]
    IN  /\ Call
        /\ f.kind = "compressible"
        /\ \E size \in NewSizes(f) :
            IF f.room - size > size
            THEN Crash
            ELSE Becomes(o, [f EXCEPT !.bits = Folded(f.bits, size),
                                      !.at = Reduced(f.at, size),
                                      !.size = size, !.room = size],
                         held[o], exact[o])

Next ==
    \/ \E o \in Object :
        \/ Construct(o)
        \/ clear(o)
        \/ compress(o)
        \/ \E key \in Key : insert(o, key) \/ contains(o, key)
        \/ \E source \in Object : Assign(o, source)
        \/ \E op \in Operation, source \in Object : Merge(op, o, source)
        \/ \E op \in Operation, a, b \in Object : MergeNew(op, o, a, b)

Spec == Init /\ [][Next]_vars

-----------------------------------------------------------------------------
(* Properties *)

FilterType ==
    [kind : Kind, hashes : Nat, salt : {UniqueSalts(Hashes(p), ObjectSeed(p)) : p \in Parameters} \union {<< >>},
     seed : 0 .. SeedRange - 1, tableSize : Nat, size : Nat, room : Nat,
     at : [Hash -> Nat], bits : SUBSET Nat, inserted : Nat]

\* Types: a set bit is always inside the table, and an index inside size().
TypeOK ==
    /\ filter \in [Object -> FilterType]
    /\ held \in [Object -> SUBSET Key]
    /\ exact \in [Object -> BOOLEAN]
    /\ undefined \in BOOLEAN
    /\ calls \in 0 .. MaxCalls
    /\ \A o \in Object :
        /\ \A bit \in filter[o].bits : InTable(filter[o], bit)
        /\ filter[o].size # 0 => \A h \in Hash : filter[o].at[h] < filter[o].size

\* A Bloom filter has no false negatives: whatever copies, compressions and merges
\* come after the insertion of a key, contains_all finds the key, and does so
\* without leaving the table.  Keys are given up only by clear, by ^=, by & with
\* a filter that lacks them, and by merges and slices of unlike filters.
NoFalseNegatives ==
    ~undefined => \A o \in Object :
        /\ ContainsAll(filter[o], held[o])
        /\ \A key \in held[o] : ~ReadsOutside(filter[o], key)

\* Nothing but the inserted keys sets bits: after copies, unions of like filters
\* and compressions a filter is the one that would result if each of its keys
\* were inserted afresh, so that its rate of false positives is as computed.
ExactBits ==
    \A o \in Object :
        exact[o] => filter[o].bits = UNION {Touched(filter[o], key) : key \in held[o]}

\* A filter whose size was rounded to whole characters is never accessed outside
\* its table, however often it is compressed, unless it is a slice.
IndexInTable ==
    \A o \in Object :
        LET f == filter[o]
        IN  /\ f.tableSize # 0
            /\ f.tableSize % CharBits = 0
            /\ f.kind = "plain" => f.room = f.tableSize
            => \A h \in Hash : InTable(f, f.at[h])
=============================================================================
