------------------------------ MODULE UnitProofs ------------------------------
(***************************************************************************)
(* Proofs about the parts that share no memory with an index, each for all *)
(* values of its constants.                                                *)
(*                                                                         *)
(* The filters of BloomFilterTest: BloomFilter, the class of               *)
(* bloom_filter.hpp, for all parameters, objects, keys and hash functions. *)
(* FilterInv says of each object what the constructors, copies, merges and *)
(* compressions keep of it (Good), that it has the bits of the keys it has *)
(* to contain (HasKeys), and no others as long as it is exact.  SaltedBloom, *)
(* the prefix hashing of bloom.cpp: a key is found until the next          *)
(* initBloom, and an array has no more bits than its keys have prefixes.   *)
(*                                                                         *)
(* The tools: LockOfOneRole for any number of threads up to the bits of    *)
(* the word; ListIsSequence for all capacities, elements and sequences of  *)
(* operations, as long as size_t counts twice as many places as there are  *)
(* operations; EveryByteOnce for keys of every length.                     *)
(***************************************************************************)
EXTENDS BloomFilter, SaltedBloom, RwLock, ArraylistUse, KeyHash, SharedLemmas

-----------------------------------------------------------------------------
(* BloomFilter: the class of bloom_filter.hpp *)

\* The salts follow from the parameters, and so from the number and the seed.
Salted(f) ==
    f.hashes # 0 => \E p \in Parameters : /\ f.hashes = Hashes(p)
                                        /\ f.seed = ObjectSeed(p)
                                        /\ f.salt = UniqueSalts(Hashes(p), ObjectSeed(p))

\* A plain filter reduces a hash by table_size_ alone; a compressed one has bits
\* up to size() if it had bits up to table_size_.
Reduces(f) ==
    /\ f.kind # "compressible" =>
            f.at = [h \in Hash |-> IF f.tableSize = 0 THEN 0 ELSE h % f.tableSize]
    /\ f.kind = "compressible" /\ f.tableSize # 0 /\ f.tableSize % CharBits = 0 =>
            f.size # 0 /\ f.room = f.size
    /\ f.size # 0 => \A h \in Hash : f.at[h] < f.size
    /\ f.kind = "none" => f.tableSize = 0

Good(f) ==
    /\ f \in FilterType
    /\ \A bit \in f.bits : InTable(f, bit)
    /\ Salted(f)
    /\ Reduces(f)

HasKeys(f, keys) == \A key \in keys : Touched(f, key) \subseteq f.bits

Exactly(f, keys) == f.bits = UNION {Touched(f, key) : key \in keys}

FilterInv ==
    /\ filter \in [Object -> FilterType]
    /\ \A o \in Object : Good(filter[o])
    /\ \A o \in Object : HasKeys(filter[o], held[o])
    /\ \A o \in Object : exact[o] => Exactly(filter[o], held[o])
    /\ held \in [Object -> SUBSET Key]
    /\ exact \in [Object -> BOOLEAN]
    /\ undefined \in BOOLEAN
    /\ calls \in 0 .. MaxCalls

-----------------------------------------------------------------------------
(* Objects *)

(* The index of a key is a natural number that follows from at. *)
LEMMA IndexType ==
  ASSUME NEW f, Good(f), NEW key \in Key, NEW i \in 0 .. f.hashes - 1
  PROVE  HashAp(key, f.salt[i]) \in Hash /\ Index(f, key, i) \in Nat
<1>1. f.hashes # 0 BY DEF Good, FilterType
<1>2. PICK p \in Parameters : f.hashes = Hashes(p) /\ f.salt = UniqueSalts(Hashes(p), ObjectSeed(p))
  BY <1>1 DEF Good, Salted
<1>3. HashAp(key, f.salt[i]) \in Hash BY <1>2, HashAssumption
<1> QED BY <1>3 DEF Index, Good, FilterType

(* Objects with the same salts and the same at have the same bits for a key. *)
LEMMA TouchedSame ==
  ASSUME NEW f, NEW g, f.hashes = g.hashes, f.hashes # 0 => f.salt = g.salt, f.at = g.at,
         f.hashes \in Nat, NEW key
  PROVE  Touched(f, key) = Touched(g, key)
<1>1. CASE f.hashes = 0 BY <1>1 DEF Touched
<1>2. CASE f.hashes # 0 BY <1>2 DEF Touched, Index
<1> QED BY <1>1, <1>2

(* Constructed objects are good. *)
LEMMA ParameterFacts ==
  ASSUME NEW p \in Parameters
  PROVE  Hashes(p) \in Nat /\ TableSize(p) \in Nat /\ ObjectSeed(p) \in 0 .. SeedRange - 1
<1>1. p \in ParameterType /\ CharBits \in Nat \ {0} /\ SeedFactor \in Nat /\ SeedRange \in Nat \ {0}
  BY BloomFilterAssumption
<1>2. p.seed \in Nat /\ p.seed * SeedFactor + 1 \in Nat
  <2>1. p.seed \in Nat BY <1>1 DEF ParameterType
  <2>2. p.seed * SeedFactor \in Nat BY <1>1, <2>1
  <2> QED BY <2>1, <2>2
<1>3. RoundUp(p.m) \in Nat
  <2>1. p.m \in Nat /\ p.m % CharBits \in 0 .. CharBits - 1 BY <1>1 DEF ParameterType
  <2> QED BY <1>1, <2>1 DEF RoundUp
<1>4. TableSize(p) \in Nat BY <1>1, <1>3 DEF TableSize, Clamp, ParameterType
<1>5. Hashes(p) \in Nat BY <1>1 DEF Hashes, Clamp, ParameterType
<1>6. ObjectSeed(p) \in 0 .. SeedRange - 1 BY <1>1, <1>2 DEF ObjectSeed
<1> QED BY <1>4, <1>5, <1>6

LEMMA GoodNew ==
  ASSUME NEW p \in Parameters, NEW kind \in {"plain", "compressible"}
  PROVE  Good(NewFilter(p, kind)) /\ NewFilter(p, kind).bits = {}
<1> DEFINE f == NewFilter(p, kind)
           size == TableSize(p)
           places == [h \in Hash |-> IF size = 0 THEN 0 ELSE h % size]
           salts == UniqueSalts(Hashes(p), ObjectSeed(p))
<1>1. CharBits \in Nat \ {0} /\ Hash \subseteq Nat BY BloomFilterAssumption
<1>2. size \in Nat /\ Hashes(p) \in Nat /\ ObjectSeed(p) \in 0 .. SeedRange - 1 BY ParameterFacts
<1>3. f = [kind |-> kind, hashes |-> Hashes(p), salt |-> salts, seed |-> ObjectSeed(p),
           tableSize |-> size, size |-> size, room |-> size - (size % CharBits),
           at |-> places, bits |-> {}, inserted |-> 0]
  BY DEF NewFilter
<1>4. size - (size % CharBits) \in Nat BY <1>1, <1>2
<1>5. places \in [Hash -> Nat] BY <1>1, <1>2
<1>6. \A h \in Hash : size # 0 => places[h] < size BY <1>1, <1>2
<1>7. salts \in {UniqueSalts(Hashes(q), ObjectSeed(q)) : q \in Parameters} OBVIOUS
<1>8. places = [h \in Hash |-> IF size = 0 THEN 0 ELSE h % size] OBVIOUS
<1> HIDE DEF f, size, places, salts
<1>9. f \in FilterType BY <1>2, <1>3, <1>4, <1>5, <1>7 DEF FilterType, Kind
<1>10. Salted(f) BY <1>3 DEF Salted, salts
<1>11. Reduces(f) BY <1>2, <1>3, <1>6, <1>8 DEF Reduces
<1> QED BY <1>3, <1>9, <1>10, <1>11 DEF Good, f

LEMMA GoodEmpty ==
  /\ Good(NoFilter) /\ NoFilter.bits = {}
  /\ Good(DefaultFilter) /\ DefaultFilter.bits = {}
<1>1. SeedRange \in Nat \ {0} /\ Hash \subseteq Nat /\ CharBits \in Nat \ {0} BY BloomFilterAssumption
<1>2. 0 \in 0 .. SeedRange - 1 BY <1>1
<1>3. NoFilter \in FilterType BY <1>2 DEF NoFilter, FilterType, Kind
<1>4. Good(NoFilter) BY <1>3 DEF Good, Salted, Reduces, NoFilter
<1>5. DefaultFilter \in FilterType BY <1>2 DEF DefaultFilter, NoFilter, FilterType, Kind
<1>6. Good(DefaultFilter) BY <1>5 DEF Good, Salted, Reduces, DefaultFilter, NoFilter
<1> QED BY <1>4, <1>6 DEF NoFilter, DefaultFilter

(* A slice is good, whatever it has lost. *)
LEMMA GoodSliced ==
  ASSUME NEW f, Good(f)
  PROVE  Good(Sliced(f)) /\ Sliced(f).bits = f.bits /\ Sliced(f).hashes = f.hashes
         /\ Sliced(f).salt = f.salt
<1> DEFINE size == f.tableSize
           places == [h \in Hash |-> IF size = 0 THEN 0 ELSE h % size]
           g == Sliced(f)
<1>1. Hash \subseteq Nat /\ size \in Nat BY BloomFilterAssumption DEF Good, FilterType
<1>2. places \in [Hash -> Nat] /\ \A h \in Hash : size # 0 => places[h] < size BY <1>1
<1>3. g = [f EXCEPT !.kind = "plain", !.size = size, !.at = places] BY DEF Sliced
<1>4. f \in FilterType BY DEF Good
<1>5. places = [h \in Hash |-> IF size = 0 THEN 0 ELSE h % size] OBVIOUS
<1> HIDE DEF places, g
<1>6. g \in FilterType BY <1>1, <1>2, <1>3, <1>4 DEF FilterType, Kind
<1>7. /\ g.kind = "plain" /\ g.size = size /\ g.at = places /\ g.tableSize = size
      /\ g.bits = f.bits /\ g.hashes = f.hashes /\ g.salt = f.salt
      /\ g.seed = f.seed /\ g.room = f.room
  BY <1>3, <1>4 DEF FilterType
<1>8. Reduces(g) BY <1>2, <1>5, <1>7 DEF Reduces
<1>9. Salted(g) BY <1>7 DEF Salted, Good
<1> QED BY <1>6, <1>7, <1>8, <1>9 DEF Good, InTable, g

(* Keys are held as long as the salts and at stay and no bit is lost. *)
LEMMA HoldsSame ==
  ASSUME NEW f, NEW g, f.hashes = g.hashes, f.hashes # 0 => f.salt = g.salt, f.at = g.at,
         f.hashes \in Nat, f.bits \subseteq g.bits, NEW keys, HasKeys(f, keys)
  PROVE  HasKeys(g, keys)
<1>1. \A key : Touched(f, key) = Touched(g, key) BY TouchedSame
<1> QED BY <1>1 DEF HasKeys

LEMMA ExactlySame ==
  ASSUME NEW f, NEW g, f.hashes = g.hashes, f.hashes # 0 => f.salt = g.salt, f.at = g.at,
         f.hashes \in Nat, f.bits = g.bits, NEW keys, Exactly(f, keys)
  PROVE  Exactly(g, keys)
<1>1. \A key : Touched(f, key) = Touched(g, key) BY TouchedSame
<1>2. {Touched(f, key) : key \in keys} = {Touched(g, key) : key \in keys} BY <1>1
<1> QED BY <1>2 DEF Exactly

-----------------------------------------------------------------------------
(* Operations on one object and on two *)

Edited(f, bits, n) == [f EXCEPT !.bits = bits, !.inserted = n]
Fits(f, bits) == bits \subseteq Nat /\ \A bit \in bits : InTable(f, bit)

(* A new set of bits inside the table leaves an object good. *)
LEMMA GoodBits ==
  ASSUME NEW f, Good(f), NEW bits, NEW n \in Nat, Fits(f, bits),
         NEW g, g = Edited(f, bits, n)
  PROVE  /\ Good(g) /\ g.bits = bits /\ g.hashes = f.hashes /\ g.salt = f.salt
         /\ g.at = f.at
<1>1. f \in FilterType BY DEF Good
<1>2. g = [f EXCEPT !.bits = bits, !.inserted = n] BY DEF Edited
<1>3. g \in FilterType BY <1>1, <1>2 DEF FilterType, Fits
<1>4. /\ g.kind = f.kind /\ g.size = f.size /\ g.at = f.at /\ g.tableSize = f.tableSize
      /\ g.bits = bits /\ g.hashes = f.hashes /\ g.salt = f.salt
      /\ g.seed = f.seed /\ g.room = f.room
  BY <1>1, <1>2 DEF FilterType
<1>5. Reduces(g) BY <1>4 DEF Reduces, Good
<1>6. Salted(g) BY <1>4 DEF Salted, Good
<1> QED BY <1>3, <1>4, <1>5, <1>6 DEF Good, InTable, Fits

LEMMA MergedIsEdited ==
  ASSUME NEW f, Good(f), NEW bits
  PROVE  [f EXCEPT !.bits = bits] = Edited(f, bits, f.inserted) /\ f.inserted \in Nat
<1>1. f \in FilterType BY DEF Good
<1> QED BY <1>1 DEF FilterType, Edited

(* The same number of hashes and the same seed mean the same salts. *)
LEMMA MergeableSalts ==
  ASSUME NEW f, NEW g, Good(f), Good(g), Mergeable(f, g), f.hashes # 0
  PROVE  f.salt = g.salt
<1>1. f.hashes = g.hashes /\ f.seed = g.seed BY DEF Mergeable
<1>2. PICK p \in Parameters : f.hashes = Hashes(p) /\ f.seed = ObjectSeed(p)
                             /\ f.salt = UniqueSalts(Hashes(p), ObjectSeed(p))
  BY DEF Good, Salted
<1>3. PICK q \in Parameters : g.hashes = Hashes(q) /\ g.seed = ObjectSeed(q)
                             /\ g.salt = UniqueSalts(Hashes(q), ObjectSeed(q))
  BY <1>1 DEF Good, Salted
<1> QED BY <1>1, <1>2, <1>3

(* A merge of like objects holds the keys of both, or those held by both. *)
LEMMA MergedKeepsKeys ==
  ASSUME NEW f, NEW g, Good(f), Good(g), Mergeable(f, g), NEW op \in Operation,
         NEW keys, NEW others, HasKeys(f, keys), HasKeys(g, others)
  PROVE  LET m == [f EXCEPT !.bits = MergedBits(op, f, g)]
         IN  /\ Good(m)
             /\ Alike(f, g) => HasKeys(m, MergedKeys(op, keys, others))
             /\ HasKeys(m, KeptKeys(op, keys))
             /\ Alike(f, g) /\ op = "|" /\ Exactly(f, keys) /\ Exactly(g, others) =>
                    Exactly(m, MergedKeys(op, keys, others))
<1> DEFINE m == [f EXCEPT !.bits = MergedBits(op, f, g)]
           bits == MergedBits(op, f, g)
<1>1. f.bits \subseteq Nat /\ g.bits \subseteq Nat /\ f.hashes \in Nat /\ f.room \in Nat /\ g.room \in Nat
  BY DEF Good, FilterType
<1>2. (\A bit \in f.bits : InTable(f, bit)) /\ \A bit \in g.bits : InTable(g, bit) BY DEF Good
<1>3. Fits(f, bits)
  BY <1>1, <1>2 DEF Fits, MergedBits, Operation, Union, Intersection, Difference
<1>4. m = Edited(f, bits, f.inserted) /\ f.inserted \in Nat
  BY MergedIsEdited
<1> HIDE DEF m, bits
<1>5. Good(m) /\ m.bits = bits /\ m.hashes = f.hashes /\ m.salt = f.salt /\ m.at = f.at
  BY <1>3, <1>4, GoodBits
<1>6. g.hashes = f.hashes /\ (f.hashes # 0 => f.salt = g.salt)
  BY MergeableSalts DEF Mergeable
<1>7. op = "|" => f.bits \subseteq bits BY DEF bits, MergedBits, Union
<1>8. HasKeys(m, KeptKeys(op, keys))
  <2>1. CASE op = "|" BY <1>1, <1>5, <1>7, <2>1, HoldsSame DEF KeptKeys
  <2>2. CASE op # "|" BY <2>2 DEF KeptKeys, HasKeys
  <2> QED BY <2>1, <2>2
<1>9. ASSUME Alike(f, g)
      PROVE  /\ \A key : Touched(f, key) = Touched(m, key) /\ Touched(g, key) = Touched(m, key)
             /\ op = "|" => bits = f.bits \union g.bits
  <2>1. f.at = g.at /\ f.room = g.room BY <1>9 DEF Alike
  <2>2. \A key : Touched(f, key) = Touched(m, key) BY <1>1, <1>5, TouchedSame
  <2>3. \A key : Touched(f, key) = Touched(g, key) BY <1>1, <1>6, <2>1, TouchedSame
  <2>4. op = "|" => bits = f.bits \union g.bits
    BY <1>2, <2>1 DEF bits, MergedBits, Union, InTable
  <2> QED BY <2>2, <2>3, <2>4
<1>10. ASSUME Alike(f, g) PROVE HasKeys(m, MergedKeys(op, keys, others))
  <2>1. CASE op = "|" BY <1>5, <1>9, <1>10, <2>1 DEF MergedKeys, HasKeys
  <2>2. CASE op = "&"
    <3>1. bits = f.bits \intersect g.bits BY <2>2 DEF bits, MergedBits, Intersection
    <3> QED BY <1>5, <1>9, <1>10, <2>2, <3>1 DEF MergedKeys, HasKeys
  <2>3. CASE op = "^" BY <2>3 DEF MergedKeys, HasKeys
  <2> QED BY <2>1, <2>2, <2>3 DEF Operation
<1>11. ASSUME Alike(f, g), op = "|", Exactly(f, keys), Exactly(g, others)
       PROVE  Exactly(m, MergedKeys(op, keys, others))
  <2>1. MergedKeys(op, keys, others) = keys \union others BY <1>11 DEF MergedKeys
  <2>2. f.bits = UNION {Touched(m, key) : key \in keys} BY <1>9, <1>11, Zenon DEF Exactly
  <2>3. g.bits = UNION {Touched(m, key) : key \in others} BY <1>9, <1>11, Zenon DEF Exactly
  <2>4. m.bits = f.bits \union g.bits BY <1>5, <1>9, <1>11
  <2>5. UNION {Touched(m, key) : key \in keys \union others} =
            (UNION {Touched(m, key) : key \in keys}) \union UNION {Touched(m, key) : key \in others}
    OBVIOUS
  <2> QED BY <2>1, <2>2, <2>3, <2>4, <2>5 DEF Exactly
<1> QED BY <1>5, <1>8, <1>10, <1>11 DEF m

-----------------------------------------------------------------------------
(* Compression *)

(* The remainder of a number less than twice the divisor. *)
LEMMA RemainderTwice ==
  ASSUME NEW b \in Nat, NEW size \in Nat \ {0}, b < size + size
  PROVE  b % size = IF b < size THEN b ELSE b - size
<1> DEFINE q == b \div size
           t == b % size
<1>1. q \in Int /\ t \in 0 .. size - 1 /\ b = q * size + t OBVIOUS
<1> HIDE DEF q, t
<1>2. CASE b < size
  <2>1. b = 0 * size + b /\ b \in 0 .. size - 1 BY <1>2
  <2> QED BY <1>1, <1>2, <2>1, RemainderUnique DEF t
<1>3. CASE ~(b < size)
  <2>1. b = 1 * size + (b - size) /\ b - size \in 0 .. size - 1 BY <1>3
  <2> QED BY <1>1, <1>3, <2>1, RemainderUnique DEF t
<1> QED BY <1>2, <1>3

(* Folding a table is taking the remainder of its bits. *)
LEMMA FoldedIsRemainder ==
  ASSUME NEW bits \in SUBSET Nat, NEW size \in Nat \ {0},
         \A bit \in bits : bit < size + size
  PROVE  Folded(bits, size) = {bit % size : bit \in bits}
<1>1. \A bit \in bits : bit % size = IF bit < size THEN bit ELSE bit - size
  BY RemainderTwice
<1>2. \A bit \in bits : bit >= size <=> ~(bit < size) OBVIOUS
<1>3. Folded(bits, size) \subseteq {bit % size : bit \in bits}
  BY <1>1, <1>2 DEF Folded
<1>4. ASSUME NEW bit \in bits PROVE bit % size \in Folded(bits, size)
  <2>1. CASE bit < size BY <1>1, <2>1 DEF Folded
  <2>2. CASE ~(bit < size) BY <1>1, <1>2, <2>2 DEF Folded
  <2> QED BY <2>1, <2>2
<1> QED BY <1>3, <1>4

Compressed(f, size) ==
    [f EXCEPT !.bits = Folded(f.bits, size), !.at = Reduced(f.at, size),
              !.size = size, !.room = size]

(* Compression keeps the keys and adds no bits of others. *)
LEMMA CompressedKeepsKeys ==
  ASSUME NEW f, Good(f), f.kind = "compressible", NEW size \in NewSizes(f),
         ~(f.room - size > size), NEW keys \in SUBSET Key, HasKeys(f, keys),
         NEW g, g = Compressed(f, size)
  PROVE  /\ Good(g)
         /\ HasKeys(g, keys)
         /\ Exactly(f, keys) => Exactly(g, keys)
<1>1. /\ f \in FilterType /\ f.bits \in SUBSET Nat /\ f.room \in Nat /\ f.hashes \in Nat
      /\ f.at \in [Hash -> Nat] /\ f.size \in Nat
  BY DEF Good, FilterType
<1>2. size \in Nat \ {0} /\ size < f.size
  BY <1>1, BloomFilterAssumption DEF NewSizes
<1>3. f.room <= size + size BY <1>1, <1>2
<1>4. Folded(f.bits, size) = {bit % size : bit \in f.bits}
  <2>1. \A bit \in f.bits : bit < size + size BY <1>1, <1>2, <1>3 DEF Good, InTable
  <2> QED BY <1>1, <1>2, <2>1, FoldedIsRemainder
<1> DEFINE bits == Folded(f.bits, size)
           places == Reduced(f.at, size)
<1>5. bits \subseteq Nat /\ \A bit \in bits : bit < size BY <1>1, <1>2, <1>4
<1>6. places \in [Hash -> Nat] /\ \A h \in Hash : places[h] < size /\ places[h] = f.at[h] % size
  BY <1>1, <1>2 DEF Reduced
<1> HIDE DEF bits, places
<1>7. g = [f EXCEPT !.bits = bits, !.at = places, !.size = size, !.room = size]
  BY DEF bits, places, Compressed
<1>8. g \in FilterType BY <1>1, <1>2, <1>5, <1>6, <1>7 DEF FilterType
<1>9. /\ g.kind = f.kind /\ g.size = size /\ g.at = places /\ g.tableSize = f.tableSize
      /\ g.bits = bits /\ g.hashes = f.hashes /\ g.salt = f.salt
      /\ g.seed = f.seed /\ g.room = size
  BY <1>1, <1>7 DEF FilterType
<1>10. Reduces(g) BY <1>2, <1>6, <1>9 DEF Reduces
<1>11. Salted(g) BY <1>9 DEF Salted, Good
<1>12. Good(g) BY <1>5, <1>8, <1>9, <1>10, <1>11 DEF Good, InTable
<1>13. \A key \in Key : Touched(g, key) = {bit % size : bit \in Touched(f, key)}
  <2> SUFFICES ASSUME NEW key \in Key
               PROVE  Touched(g, key) = {bit % size : bit \in Touched(f, key)}
    OBVIOUS
  <2>1. \A i \in 0 .. f.hashes - 1 : Index(g, key, i) = Index(f, key, i) % size
    BY <1>6, <1>9, IndexType DEF Index
  <2> QED BY <1>9, <2>1 DEF Touched
<1>14. HasKeys(g, keys)
  <2> SUFFICES ASSUME NEW key \in keys PROVE Touched(g, key) \subseteq bits
    BY <1>9 DEF HasKeys
  <2>1. Touched(f, key) \subseteq f.bits BY DEF HasKeys
  <2>2. Touched(g, key) = {bit % size : bit \in Touched(f, key)} BY <1>13
  <2>3. bits = {bit % size : bit \in f.bits} BY <1>4 DEF bits
  <2> QED BY <2>1, <2>2, <2>3
<1>15. ASSUME Exactly(f, keys) PROVE Exactly(g, keys)
  <2>1. f.bits = UNION {Touched(f, key) : key \in keys} BY <1>15 DEF Exactly
  <2>2. ASSUME NEW b \in bits PROVE b \in UNION {Touched(g, key) : key \in keys}
    <3>1. PICK c \in f.bits : b = c % size BY <1>4 DEF bits
    <3>2. PICK key \in keys : c \in Touched(f, key) BY <2>1
    <3>3. b \in Touched(g, key) BY <1>13, <3>1, <3>2
    <3> QED BY <3>3
  <2>3. UNION {Touched(g, key) : key \in keys} \subseteq bits BY <1>9, <1>14 DEF HasKeys
  <2> QED BY <1>9, <2>2, <2>3 DEF Exactly
<1> QED BY <1>12, <1>14, <1>15

-----------------------------------------------------------------------------
(* Steps *)

(* A step that leaves one object with what it has to contain. *)
LEMMA BecomesInv ==
  ASSUME FilterInv, calls' \in 0 .. MaxCalls, NEW o \in Object, NEW f, NEW keys \in SUBSET Key,
         NEW e \in BOOLEAN, Becomes(o, f, keys, e), Good(f), HasKeys(f, keys), e => Exactly(f, keys)
  PROVE  FilterInv'
<1>1. filter' = [filter EXCEPT ![o] = f] /\ held' = [held EXCEPT ![o] = keys]
      /\ exact' = [exact EXCEPT ![o] = e] /\ undefined' = FALSE
  BY DEF Becomes
<1>2. \A p \in Object : /\ filter'[p] = IF p = o THEN f ELSE filter[p]
                        /\ held'[p] = IF p = o THEN keys ELSE held[p]
                        /\ exact'[p] = IF p = o THEN e ELSE exact[p]
  BY <1>1 DEF FilterInv
<1>3. filter' \in [Object -> FilterType] BY <1>1 DEF FilterInv, Good
<1>4. \A p \in Object : Good(filter'[p]) BY <1>2 DEF FilterInv
<1>5. \A p \in Object : HasKeys(filter'[p], held'[p]) BY <1>2 DEF FilterInv
<1>6. \A p \in Object : exact'[p] => Exactly(filter'[p], held'[p]) BY <1>2 DEF FilterInv
<1>7. held' \in [Object -> SUBSET Key] /\ exact' \in [Object -> BOOLEAN] /\ undefined' \in BOOLEAN
  BY <1>1 DEF FilterInv
<1> QED BY <1>3, <1>4, <1>5, <1>6, <1>7 DEF FilterInv

LEMMA CrashInv ==
  ASSUME FilterInv, calls' \in 0 .. MaxCalls, Crash
  PROVE  FilterInv'
BY DEF FilterInv, Crash

LEMMA CallType == ASSUME FilterInv, Call PROVE calls' \in 0 .. MaxCalls
BY BloomFilterAssumption DEF FilterInv, Call

(* Nothing is held without keys, and everything is exact that has no bits. *)
LEMMA HoldsNothing ==
  ASSUME NEW f, f.bits = {}
  PROVE  HasKeys(f, {}) /\ Exactly(f, {})
BY DEF HasKeys, Exactly

(* What a merge makes of an object that holds its keys. *)
LEMMA MergeIntoInv ==
  ASSUME FilterInv, calls' \in 0 .. MaxCalls, NEW op \in Operation, NEW o \in Object,
         NEW source \in Object, NEW f, Good(f), NEW keys \in SUBSET Key, HasKeys(f, keys),
         NEW e \in BOOLEAN, e => Exactly(f, keys), MergeInto(op, o, f, keys, e, source)
  PROVE  FilterInv'
<1> DEFINE g == filter[source]
           m == [f EXCEPT !.bits = MergedBits(op, f, g)]
           others == held[source]
<1>1. Good(g) /\ HasKeys(g, others) /\ (exact[source] => Exactly(g, others))
      /\ others \in SUBSET Key /\ exact[source] \in BOOLEAN
  BY DEF FilterInv
<1>2. CASE ~Mergeable(f, g) BY <1>2, BecomesInv DEF MergeInto
<1>3. CASE Mergeable(f, g) /\ g.room < f.room BY <1>3, CrashInv DEF MergeInto
<1>4. CASE Mergeable(f, g) /\ ~(g.room < f.room)
  <2> DEFINE merged == MergedKeys(op, keys, others)
             still == exact[source] /\ e /\ op = "|"
  <2>1. /\ Good(m)
        /\ Alike(f, g) => HasKeys(m, merged)
        /\ HasKeys(m, KeptKeys(op, keys))
        /\ Alike(f, g) /\ op = "|" /\ Exactly(f, keys) /\ Exactly(g, others) => Exactly(m, merged)
    <3> HIDE DEF g
    <3> QED BY <1>1, <1>4, MergedKeepsKeys
  <2>2. merged \in SUBSET Key /\ KeptKeys(op, keys) \in SUBSET Key
    BY <1>1 DEF MergedKeys, KeptKeys, Operation
  <2>3. CASE Alike(f, g)
    <3>1. Becomes(o, m, merged, e /\ exact[source] /\ op = "|")
      BY <1>4, <2>3 DEF MergeInto
    <3> DEFINE x == e /\ exact[source] /\ op = "|"
    <3>2. x \in BOOLEAN /\ (x => Exactly(m, merged)) BY <1>1, <2>1, <2>3
    <3> HIDE DEF x, m, merged
    <3> QED BY <2>1, <2>2, <2>3, <3>1, <3>2, BecomesInv DEF x
  <2>4. CASE ~Alike(f, g)
    <3>1. Becomes(o, m, KeptKeys(op, keys), FALSE) BY <1>4, <2>4 DEF MergeInto
    <3> HIDE DEF m
    <3> QED BY <2>1, <2>2, <3>1, BecomesInv
  <2> QED BY <2>3, <2>4
<1> QED BY <1>2, <1>3, <1>4

LEMMA FilterInitInv == ASSUME Init PROVE FilterInv
<1>1. Good(NoFilter) /\ NoFilter.bits = {} BY GoodEmpty
<1>2. \A o \in Object : filter[o] = NoFilter /\ held[o] = {} /\ exact[o] = TRUE BY DEF Init
<1>3. HasKeys(NoFilter, {}) /\ Exactly(NoFilter, {}) BY <1>1, HoldsNothing
<1>4. calls \in 0 .. MaxCalls BY BloomFilterAssumption DEF Init
<1>5. filter \in [Object -> FilterType] BY <1>1 DEF Init, Good
<1> QED BY <1>1, <1>2, <1>3, <1>4, <1>5 DEF Init, FilterInv

LEMMA ConstructInv == ASSUME FilterInv, NEW o \in Object, Construct(o) PROVE FilterInv'
<1>1. calls' \in 0 .. MaxCalls BY CallType DEF Construct
<1>2. CASE Becomes(o, DefaultFilter, {}, TRUE)
  <2>1. Good(DefaultFilter) /\ DefaultFilter.bits = {} BY GoodEmpty
  <2> QED BY <1>1, <1>2, <2>1, HoldsNothing, BecomesInv
<1>3. CASE \E p \in Parameters, kind \in {"plain", "compressible"} :
              Becomes(o, NewFilter(p, kind), {}, TRUE)
  <2>1. PICK p \in Parameters, kind \in {"plain", "compressible"} :
              Becomes(o, NewFilter(p, kind), {}, TRUE)
    BY <1>3
  <2>2. Good(NewFilter(p, kind)) /\ NewFilter(p, kind).bits = {} BY GoodNew
  <2> QED BY <1>1, <2>1, <2>2, HoldsNothing, BecomesInv
<1> QED BY <1>2, <1>3 DEF Construct

(* A slice that has kept at has kept the keys. *)
LEMMA SlicedKeepsKeys ==
  ASSUME NEW f, Good(f), NEW keys, NEW e, HasKeys(f, keys), e => Exactly(f, keys),
         NEW alike, alike = Alike(Sliced(f), f)
  PROVE  LET kept == IF alike THEN keys ELSE {}
         IN  HasKeys(Sliced(f), kept) /\ (alike /\ e => Exactly(Sliced(f), kept))
<1> DEFINE g == Sliced(f)
<1>1. Good(g) /\ g.bits = f.bits /\ g.hashes = f.hashes /\ g.salt = f.salt BY GoodSliced
<1>2. f.hashes \in Nat BY DEF Good, FilterType
<1>3. CASE alike
  <2>1. g.at = f.at BY <1>3 DEF Alike
  <2> HIDE DEF g
  <2>2. HasKeys(g, keys) BY <1>1, <1>2, <2>1, HoldsSame
  <2>3. e => Exactly(g, keys) BY <1>1, <1>2, <2>1, ExactlySame
  <2> QED BY <1>3, <2>2, <2>3 DEF g
<1>4. CASE ~alike BY <1>4 DEF HasKeys
<1> QED BY <1>3, <1>4

LEMMA AssignInv ==
  ASSUME FilterInv, NEW o \in Object, NEW source \in Object, Assign(o, source)
  PROVE  FilterInv'
<1>1. calls' \in 0 .. MaxCalls BY CallType DEF Assign
<1> DEFINE f == filter[source]
           alike == Alike(Sliced(f), f)
           kept == IF alike THEN held[source] ELSE {}
           still == alike /\ exact[source]
<1>2. Good(f) /\ HasKeys(f, held[source]) /\ (exact[source] => Exactly(f, held[source]))
      /\ held[source] \in SUBSET Key /\ exact[source] \in BOOLEAN
  BY DEF FilterInv
<1>3. CASE Becomes(o, f, held[source], exact[source])
  <2> HIDE DEF f
  <2> QED BY <1>1, <1>2, <1>3, BecomesInv
<1>4. CASE Becomes(o, Sliced(f), kept, still)
  <2> HIDE DEF f
  <2>1. Good(Sliced(f)) BY <1>2, GoodSliced
  <2>2. alike \in BOOLEAN BY DEF Alike
  <2>3. HasKeys(Sliced(f), kept) /\ (still => Exactly(Sliced(f), kept))
    <3> HIDE DEF alike
    <3> QED BY <1>2, SlicedKeepsKeys DEF alike
  <2>4. kept \in SUBSET Key /\ still \in BOOLEAN BY <1>2, <2>2
  <2> HIDE DEF kept, still
  <2> QED BY <1>1, <1>4, <2>1, <2>3, <2>4, BecomesInv
<1> QED BY <1>3, <1>4 DEF Assign

LEMMA ClearInv == ASSUME FilterInv, NEW o \in Object, clear(o) PROVE FilterInv'
<1>1. calls' \in 0 .. MaxCalls BY CallType DEF clear
<1> DEFINE f == filter[o]
           g == [f EXCEPT !.bits = {}, !.inserted = 0]
<1>2. g = Edited(f, {}, 0) BY DEF Edited
<1>3. Good(f) BY DEF FilterInv
<1>4. Becomes(o, g, {}, TRUE) BY DEF clear
<1> HIDE DEF f, g
<1>5. Fits(f, {}) BY DEF Fits
<1>6. Good(g) /\ g.bits = {} BY <1>2, <1>3, <1>5, GoodBits
<1> QED BY <1>1, <1>4, <1>6, HoldsNothing, BecomesInv

LEMMA GoodInserted ==
  ASSUME NEW f, Good(f), NEW key \in Key, \A bit \in Touched(f, key) : InTable(f, bit)
  PROVE  LET g == [f EXCEPT !.bits = @ \union Touched(f, key), !.inserted = @ + 1]
         IN  /\ Good(g) /\ g.bits = f.bits \union Touched(f, key) /\ g.hashes = f.hashes
             /\ g.salt = f.salt /\ g.at = f.at
<1> DEFINE bits == f.bits \union Touched(f, key)
           n == f.inserted + 1
           g == [f EXCEPT !.bits = @ \union Touched(f, key), !.inserted = @ + 1]
<1>1. f \in FilterType BY DEF Good
<1>2. g = Edited(f, bits, n) /\ n \in Nat BY <1>1 DEF Edited, FilterType
<1>3. Touched(f, key) \subseteq Nat BY IndexType DEF Touched
<1>4. Fits(f, bits) BY <1>1, <1>3 DEF Good, FilterType, Fits
<1> HIDE DEF g, bits, n
<1>5. Good(g) /\ g.bits = bits /\ g.hashes = f.hashes /\ g.salt = f.salt /\ g.at = f.at
  BY <1>2, <1>4, GoodBits
<1> QED BY <1>5 DEF g, bits

LEMMA InsertInv ==
  ASSUME FilterInv, NEW o \in Object, NEW key \in Key, insert(o, key)
  PROVE  FilterInv'
<1>1. calls' \in 0 .. MaxCalls BY CallType DEF insert
<1> DEFINE f == filter[o]
           bits == f.bits \union Touched(f, key)
           g == [f EXCEPT !.bits = @ \union Touched(f, key), !.inserted = @ + 1]
<1>2. Good(f) /\ HasKeys(f, held[o]) /\ (exact[o] => Exactly(f, held[o]))
      /\ held[o] \in SUBSET Key /\ exact[o] \in BOOLEAN
  BY DEF FilterInv
<1>3. CASE \A bit \in Touched(f, key) : InTable(f, bit)
  <2>1. Becomes(o, g, held[o] \union {key}, exact[o]) BY <1>3 DEF insert
  <2> HIDE DEF f
  <2>2. f \in FilterType /\ f.hashes \in Nat BY <1>2 DEF Good, FilterType
  <2>5. f.bits \subseteq bits /\ Touched(f, key) \subseteq bits /\ bits = f.bits \union Touched(f, key)
    OBVIOUS
  <2> HIDE DEF g, bits
  <2>6. Good(g) /\ g.bits = bits /\ g.hashes = f.hashes /\ g.salt = f.salt /\ g.at = f.at
    BY <1>2, <1>3, GoodInserted DEF g, bits
  <2>7. \A k : Touched(f, k) = Touched(g, k) BY <2>2, <2>6, TouchedSame
  <2>8. HasKeys(g, held[o] \union {key}) BY <1>2, <2>5, <2>6, <2>7 DEF HasKeys
  <2>9. ASSUME exact[o] PROVE Exactly(g, held[o] \union {key})
    <3>1. f.bits = UNION {Touched(g, k) : k \in held[o]} BY <1>2, <2>7, <2>9, Zenon DEF Exactly
    <3>2. UNION {Touched(g, k) : k \in held[o] \union {key}}
              = (UNION {Touched(g, k) : k \in held[o]}) \union Touched(g, key)
      OBVIOUS
    <3> QED BY <2>5, <2>6, <2>7, <3>1, <3>2 DEF Exactly
  <2>10. held[o] \union {key} \in SUBSET Key BY <1>2
  <2> QED BY <1>1, <1>2, <2>1, <2>6, <2>8, <2>9, <2>10, BecomesInv
<1>4. CASE ~ \A bit \in Touched(f, key) : InTable(f, bit)
  BY <1>1, <1>4, CrashInv DEF insert
<1> QED BY <1>3, <1>4

LEMMA MergeInv ==
  ASSUME FilterInv, NEW op \in Operation, NEW o \in Object, NEW source \in Object,
         Merge(op, o, source)
  PROVE  FilterInv'
<1>1. calls' \in 0 .. MaxCalls BY CallType DEF Merge
<1>2. Good(filter[o]) /\ HasKeys(filter[o], held[o]) /\ (exact[o] => Exactly(filter[o], held[o]))
      /\ held[o] \in SUBSET Key /\ exact[o] \in BOOLEAN
  BY DEF FilterInv
<1>3. MergeInto(op, o, filter[o], held[o], exact[o], source) BY DEF Merge
<1> QED BY <1>1, <1>2, <1>3, MergeIntoInv

LEMMA MergeNewInv ==
  ASSUME FilterInv, NEW op \in Operation, NEW o \in Object, NEW a \in Object, NEW b \in Object,
         MergeNew(op, o, a, b)
  PROVE  FilterInv'
<1>1. calls' \in 0 .. MaxCalls BY CallType DEF MergeNew
<1> DEFINE fa == filter[a]
           f == IF fa.kind = "compressible" THEN Sliced(fa) ELSE fa
           alike == Alike(f, fa)
           keys == IF alike THEN held[a] ELSE {}
           e == alike /\ exact[a]
<1>2. Good(fa) /\ HasKeys(fa, held[a]) /\ (exact[a] => Exactly(fa, held[a]))
      /\ held[a] \in SUBSET Key /\ exact[a] \in BOOLEAN
  BY DEF FilterInv
<1>3. MergeInto(op, o, f, keys, e, b) BY DEF MergeNew
<1>4. alike \in BOOLEAN BY DEF Alike
<1>5. Good(f) /\ HasKeys(f, keys) /\ (e => Exactly(f, keys))
  <2> HIDE DEF fa
  <2>1. CASE fa.kind = "compressible"
    <3>1. f = Sliced(fa) /\ alike = Alike(Sliced(fa), fa) BY <2>1
    <3>2. Good(Sliced(fa)) BY <1>2, GoodSliced
    <3>3. HasKeys(Sliced(fa), keys) /\ (e => Exactly(Sliced(fa), keys))
      <4> HIDE DEF alike
      <4> QED BY <1>2, <3>1, SlicedKeepsKeys
    <3> QED BY <3>1, <3>2, <3>3
  <2>2. CASE fa.kind # "compressible"
    <3>1. f = fa /\ alike = TRUE BY <2>2 DEF Alike
    <3> QED BY <1>2, <3>1
  <2> QED BY <2>1, <2>2
<1>6. keys \in SUBSET Key /\ e \in BOOLEAN BY <1>2, <1>4
<1> HIDE DEF f, keys, e
<1> QED BY <1>1, <1>3, <1>5, <1>6, MergeIntoInv

LEMMA CompressInv == ASSUME FilterInv, NEW o \in Object, compress(o) PROVE FilterInv'
<1>1. calls' \in 0 .. MaxCalls BY CallType DEF compress
<1> DEFINE f == filter[o]
<1>2. Good(f) /\ HasKeys(f, held[o]) /\ (exact[o] => Exactly(f, held[o]))
      /\ held[o] \in SUBSET Key /\ exact[o] \in BOOLEAN
  BY DEF FilterInv
<1>3. PICK size \in NewSizes(f) : IF f.room - size > size THEN Crash
                                 ELSE Becomes(o, Compressed(f, size), held[o], exact[o])
  BY DEF compress, Compressed
<1>4. f.kind = "compressible" BY DEF compress
<1>5. CASE f.room - size > size BY <1>1, <1>3, <1>5, CrashInv
<1>6. CASE ~(f.room - size > size)
  <2>1. Becomes(o, Compressed(f, size), held[o], exact[o]) BY <1>3, <1>6
  <2> HIDE DEF f
  <2>2. Good(Compressed(f, size)) /\ HasKeys(Compressed(f, size), held[o])
        /\ (Exactly(f, held[o]) => Exactly(Compressed(f, size), held[o]))
    BY <1>2, <1>4, <1>6, CompressedKeepsKeys
  <2> QED BY <1>1, <1>2, <2>1, <2>2, BecomesInv
<1> QED BY <1>5, <1>6

(* Every step keeps the invariant. *)
LEMMA FilterNextInv == ASSUME FilterInv, [Next]_vars PROVE FilterInv'
<1>1. CASE UNCHANGED vars BY <1>1 DEF vars, FilterInv
<1>2. ASSUME NEW o \in Object, NEW key \in Key, contains(o, key) PROVE FilterInv'
  BY <1>2, CallType, CrashInv DEF contains
<1> QED BY <1>1, <1>2, ConstructInv, ClearInv, CompressInv, InsertInv, AssignInv, MergeInv,
           MergeNewInv DEF Next

LEMMA FilterInvHolds == Spec => []FilterInv
BY FilterInitInv, FilterNextInv, PTL DEF Spec

-----------------------------------------------------------------------------
(* Theorems *)

(* The type invariant, for all parameters. *)
THEOREM TypeCorrect == Spec => []TypeOK
<1>1. ASSUME FilterInv PROVE TypeOK
  <2>1. \A o \in Object : Good(filter[o]) BY <1>1 DEF FilterInv
  <2> QED BY <1>1, <2>1 DEF FilterInv, TypeOK, Good, Reduces
<1> QED BY <1>1, FilterInvHolds, PTL

(* No sequence of copies, merges and compressions loses a key: contains never   *)
(* answers no for a key that the object has to contain, and never reads outside. *)
THEOREM NoFalseNegativesHolds == Spec => []NoFalseNegatives
<1>1. ASSUME FilterInv PROVE NoFalseNegatives
  <2> SUFFICES ASSUME NEW o \in Object, NEW key \in held[o]
               PROVE  Contains(filter[o], key) /\ ~ReadsOutside(filter[o], key)
    BY DEF NoFalseNegatives, ContainsAll
  <2>1. Good(filter[o]) /\ Touched(filter[o], key) \subseteq filter[o].bits
    BY <1>1 DEF FilterInv, HasKeys
  <2>2. \A i \in 0 .. filter[o].hashes - 1 : InTable(filter[o], Index(filter[o], key, i))
    BY <2>1 DEF Good, Touched
  <2> QED BY <2>1, <2>2 DEF Contains, ReadsOutside
<1> QED BY <1>1, FilterInvHolds, PTL

(* An object that is exact has the bits of its keys and no others. *)
THEOREM ExactBitsHolds == Spec => []ExactBits
<1>1. FilterInv => ExactBits BY DEF FilterInv, Exactly, ExactBits
<1> QED BY <1>1, FilterInvHolds, PTL

(* Where the size was rounded to whole characters, no index leaves the table. *)
THEOREM IndexInTableHolds == Spec => []IndexInTable
<1>1. ASSUME FilterInv PROVE IndexInTable
  <2> SUFFICES ASSUME NEW o \in Object, NEW h \in Hash,
                      filter[o].tableSize # 0, filter[o].tableSize % CharBits = 0,
                      filter[o].kind = "plain" => filter[o].room = filter[o].tableSize
               PROVE  InTable(filter[o], filter[o].at[h])
    BY DEF IndexInTable
  <2> DEFINE f == filter[o]
  <2>1. Reduces(f) /\ f.tableSize \in Nat BY <1>1 DEF FilterInv, Good, FilterType
  <2> HIDE DEF f
  <2>2. CASE f.kind # "compressible"
    <3>1. f.kind = "plain" /\ f.at[h] = h % f.tableSize
      BY <1>1, <2>1, <2>2 DEF Reduces, f, FilterInv, FilterType, Kind
    <3>2. h % f.tableSize < f.tableSize BY <2>1, BloomFilterAssumption DEF f
    <3> QED BY <3>1, <3>2 DEF InTable, f
  <2>3. CASE f.kind = "compressible" BY <2>1, <2>3 DEF Reduces, InTable, f
  <2> QED BY <2>2, <2>3
<1> QED BY <1>1, FilterInvHolds, PTL

-----------------------------------------------------------------------------
(* SaltedBloom: the filter of BloomFilterTest/bloom.cpp *)

(* The checksums of the plain scheme are words in every round. *)
LEMMA ChainType ==
  ASSUME SaltedTypeOK, NEW key \in Key
  PROVE  \A i \in 0 .. hashCount : Chain(key)[i] \in [0 .. 3 -> Word]
<1> DEFINE FourSalts == [0 .. 3 -> Word]
           Step(i, v) == [j \in 0 .. 3 |-> HashAp(v[j], salt[i])]
           step == [i \in 1 .. hashCount |-> [v \in FourSalts |-> Step(i, v)]]
           a == MurmurHash3(key)
           n == hashCount
           Body(f) == [i \in 0 .. n |-> IF i = 0 THEN a ELSE Step(i, f[i - 1])]
<1>1. n \in 1 .. PredefCount - 1 /\ PredefCount \in Nat
  BY SaltedBloomAssumption, HashingAssumption DEF SaltedTypeOK
<1>2. a \in FourSalts BY SaltedHashAssumption
<1>3. ASSUME NEW i \in 1 .. n, NEW v \in FourSalts PROVE Step(i, v) \in FourSalts
  <2>1. salt[i] \in Word BY <1>1 DEF SaltedTypeOK
  <2>2. \A j \in 0 .. 3 : HashAp(v[j], salt[i]) \in Word BY <2>1, SaltedHashAssumption
  <2> QED BY <2>2
<1>4. step \in [1 .. n -> [FourSalts -> FourSalts]] BY <1>3
<1>5. Chain(key) = CHOOSE f : f = Body(f) BY DEF Chain
<1> HIDE DEF FourSalts, a
<1>6. PICK f \in [0 .. n -> FourSalts] : f[0] = a /\ \A i \in 1 .. n : f[i] = step[i][f[i - 1]]
  <2>1. n \in Nat BY <1>1
  <2>2. step \in Steps(n, FourSalts) BY <1>4 DEF Steps
  <2> HIDE DEF step, n
  <2>3. Chains(n, FourSalts, a, step) # {} BY <2>1, <2>2, <1>2, RecursionExists
  <2> QED BY <2>3 DEF Chains
<1>7. f = Body(f)
  <2>1. \A i \in 0 .. n : i # 0 => i \in 1 .. n /\ i - 1 \in 0 .. n BY <1>1
  <2>2. \A i \in 1 .. n : step[i][f[i - 1]] = Step(i, f[i - 1]) BY <2>1
  <2> HIDE DEF step, Step
  <2> QED BY <1>6, <2>1, <2>2
<1> DEFINE c == Chain(key)
<1>8. c = Body(c) BY <1>5, <1>7
<1> HIDE DEF c
<1> DEFINE T == {i \in 0 .. n : c[i] \in FourSalts}
<1>9. 0 \in T BY <1>1, <1>2, <1>8
<1>10. ASSUME NEW i \in 1 .. n, i - 1 \in T PROVE i \in T
  <2>1. c[i] = Step(i, c[i - 1])
    <3>1. i \in 0 .. n /\ i # 0 BY <1>1
    <3> HIDE DEF Step, n
    <3> QED BY <1>8, <3>1
  <2> QED BY <1>1, <1>3, <1>10, <2>1
<1>11. \A i \in 0 .. n : i \in T
  <2> HIDE DEF T, n
  <2> QED BY <1>1, <1>9, <1>10, SetInduction
<1> QED BY <1>11 DEF c, FourSalts

(* The checksums of a round are words in both schemes. *)
LEMMA ChecksumsType ==
  ASSUME SaltedTypeOK, NEW scheme \in Scheme, NEW key \in Key, NEW i \in Rounds(scheme)
  PROVE  i \in Nat /\ Checksums(scheme, key, i) \in [0 .. 3 -> Word]
<1>1. hashCount \in 1 .. PredefCount - 1 /\ PredefCount \in Nat
  BY SaltedBloomAssumption, HashingAssumption DEF SaltedTypeOK
<1>2. CASE scheme = "plain"
  <2>1. i \in 1 .. hashCount BY <1>2 DEF Rounds
  <2>2. Chain(key)[i] \in [0 .. 3 -> Word] BY <1>1, <2>1, ChainType
  <2> QED BY <1>1, <1>2, <2>1, <2>2 DEF Checksums
<1>3. CASE scheme = "range"
  <2>1. i \in 0 .. hashCount - 1 BY <1>3 DEF Rounds
  <2>2. i \in 0 .. PredefCount - 1 BY <1>1, <2>1
  <2>3. MurmurHash3(Prefix(key, i)) \in [0 .. 3 -> Word] /\ salt[i] \in Word
    BY <2>2, SaltedHashAssumption DEF SaltedTypeOK
  <2>4. \A j \in 0 .. 3 : HashAp(MurmurHash3(Prefix(key, i))[j], salt[i]) \in Word
    BY <2>3, SaltedHashAssumption
  <2> QED BY <1>1, <1>3, <2>1, <2>4 DEF Checksums
<1> QED BY <1>2, <1>3 DEF Scheme

(* Taking the bit from the hash or from the index gives the same bit. *)
LEMMA SameBit ==
  ASSUME SaltedTypeOK, NEW hash \in Nat
  PROVE  CharAndBit(hash) = TableIndex(hash) /\ TableIndex(hash) \in Nat
<1>1. tableSize \in Nat \ {0} /\ BitsPerChar \in Nat \ {0}
  BY SaltedBloomAssumption DEF SaltedTypeOK
<1> QED BY <1>1, CharacterAndBit DEF CharAndBit, TableIndex

(* A hash mixed in 64 bits and cut down is the hash mixed in 32 bits. *)
LEMMA SameHash ==
  ASSUME NEW c \in [0 .. 3 -> Word], NEW i \in Nat
  PROVE  InsertHash(i, c) \in Nat /\ ContainHash(i, c) = InsertHash(i, c)
<1>1. WordRange \in Nat \ {0} BY HashingAssumption
<1>2. \A j \in 0 .. 3 : c[j] \in Nat BY <1>1 DEF Word
<1>3. i * i \in Nat /\ i * i * i \in Nat OBVIOUS
<1>4. \A x, y \in Nat : x * y \in Nat OBVIOUS
<1>5. Mixture(i, c) \in Nat
  <2>1. c[0] \in Nat /\ c[1] \in Nat /\ c[2] \in Nat /\ c[3] \in Nat BY <1>2
  <2>2. i * c[1] \in Nat /\ i * i * c[2] \in Nat /\ i * i * i * c[3] \in Nat
    BY <1>3, <1>4, <2>1
  <2> QED BY <2>1, <2>2 DEF Mixture
<1>6. (Mixture(i, c) % (WordRange * WordRange)) % WordRange = Mixture(i, c) % WordRange
  BY <1>1, <1>5, ModMod
<1> QED BY <1>1, <1>5, <1>6 DEF InsertHash, ContainHash

(* Both sides of a scheme use the same bits. *)
LEMMA SameBits ==
  ASSUME SaltedTypeOK, NEW scheme \in Scheme, NEW key \in Key
  PROVE  InsertBits(scheme, key) = ContainBits(scheme, key)
         /\ InsertBits(scheme, key) \subseteq Nat
<1> SUFFICES ASSUME NEW i \in Rounds(scheme)
             PROVE  LET c == Checksums(scheme, key, i)
                    IN  InsertBit(scheme, InsertHash(i, c)) = TableIndex(ContainHash(i, c))
                        /\ TableIndex(ContainHash(i, c)) \in Nat
  BY DEF InsertBits, ContainBits
<1> DEFINE c == Checksums(scheme, key, i)
<1>1. i \in Nat /\ c \in [0 .. 3 -> Word] BY ChecksumsType
<1> HIDE DEF c
<1>2. InsertHash(i, c) \in Nat /\ ContainHash(i, c) = InsertHash(i, c) BY <1>1, SameHash
<1>3. InsertBit(scheme, InsertHash(i, c)) = TableIndex(ContainHash(i, c))
  BY <1>2, SameBit DEF InsertBit
<1> QED BY <1>2, <1>3, SameBit DEF c

-----------------------------------------------------------------------------
(* The invariant *)

\* Keys are only inserted where a scheme was chosen.
SaltedInv ==
    /\ SaltedTypeOK
    /\ FoundSinceInitBloom
    /\ \A b \in Buffer : inserted[b] # {} => bloom[b].scheme \in Scheme

(* The bits of a key depend on the salts, their number and the size only. *)
LEMMA BitsUnchanged ==
  ASSUME UNCHANGED <<salt, hashCount, tableSize>>, NEW scheme, NEW key
  PROVE  ContainBits(scheme, key)' = ContainBits(scheme, key)
BY DEF ContainBits, TableIndex, ContainHash, Checksums, Chain, Rounds

(* generate_unique_salt leaves words. *)
LEMMA SeasonType ==
  ASSUME SaltedTypeOK, NEW seed \in Seeds
  PROVE  Season(salt, hashCount, seed) \in [0 .. PredefCount - 1 -> Word]
<1> DEFINE Table == [0 .. PredefCount - 1 -> Word]
           n == hashCount
           step == [r \in 1 .. n |-> [s \in Table |-> Seasoned(s, r - 1, n, seed)]]
           Body(f) == [r \in 0 .. n |-> IF r = 0 THEN salt ELSE Seasoned(f[r - 1], r - 1, n, seed)]
<1>1. n \in 1 .. PredefCount - 1 /\ PredefCount \in Nat /\ WordRange \in Nat \ {0}
      /\ seed \in Nat /\ salt \in Table
  BY SaltedBloomAssumption, HashingAssumption DEF SaltedTypeOK
<1>2. ASSUME NEW r \in 1 .. n, NEW s \in Table PROVE Seasoned(s, r - 1, n, seed) \in Table
  <2>1. (r - 1 + 3) % n \in 0 .. n - 1 BY <1>1
  <2>2. s[r - 1] \in Nat /\ s[(r - 1 + 3) % n] \in Nat BY <1>1, <2>1 DEF Word
  <2>3. s[r - 1] * s[(r - 1 + 3) % n] \in Nat BY <2>2
  <2>4. (s[r - 1] * s[(r - 1 + 3) % n] + seed) % WordRange \in Word
    <3> DEFINE p == s[r - 1] * s[(r - 1 + 3) % n] + seed
    <3>1. p \in Nat
      BY <1>1, <2>3
    <3> HIDE DEF p
    <3>2. p % WordRange \in 0 .. WordRange - 1
      BY <1>1, <3>1
    <3> QED BY <3>2 DEF Word, p
  <2> QED BY <1>1, <2>4 DEF Seasoned
<1>3. step \in Steps(n, Table) BY <1>2 DEF Steps
<1>4. Season(salt, n, seed) = (CHOOSE f : f = Body(f))[n] BY DEF Season
<1> HIDE DEF Table
<1>5. PICK f \in [0 .. n -> Table] : f[0] = salt /\ \A r \in 1 .. n : f[r] = step[r][f[r - 1]]
  <2>1. n \in Nat BY <1>1
  <2> HIDE DEF step, n
  <2>2. Chains(n, Table, salt, step) # {} BY <1>1, <1>3, <2>1, RecursionExists
  <2> QED BY <2>2 DEF Chains
<1>6. f = Body(f)
  <2>1. \A r \in 0 .. n : r # 0 => r \in 1 .. n /\ r - 1 \in 0 .. n BY <1>1
  <2>2. \A r \in 1 .. n : step[r][f[r - 1]] = Seasoned(f[r - 1], r - 1, n, seed) BY <2>1
  <2> HIDE DEF step
  <2> QED BY <1>5, <2>1, <2>2
<1> DEFINE c == CHOOSE g : g = Body(g)
<1>7. c = Body(c) BY <1>6
<1> HIDE DEF c
<1> DEFINE T == {r \in 0 .. n : c[r] \in Table}
<1>8. 0 \in T BY <1>1, <1>7
<1>9. ASSUME NEW r \in 1 .. n, r - 1 \in T PROVE r \in T
  <2>1. c[r] = Seasoned(c[r - 1], r - 1, n, seed)
    <3>1. r \in 0 .. n /\ r # 0 BY <1>1
    <3> HIDE DEF n
    <3> QED BY <1>7, <3>1
  <2> QED BY <1>1, <1>2, <1>9, <2>1
<1>10. n \in T
  <2>1. n \in Nat /\ n \in 0 .. n BY <1>1
  <2> HIDE DEF T, n
  <2> QED BY <1>8, <1>9, <2>1, SetInduction
<1> QED BY <1>4, <1>10 DEF c, Table

LEMMA SaltedInitInv == ASSUME SaltedInit PROVE SaltedInv
<1>1. SaltedTypeOK BY HashingAssumption DEF SaltedInit, SaltedTypeOK
<1> QED BY <1>1 DEF SaltedInit, SaltedInv, FoundSinceInitBloom

(* Every operation keeps the invariant. *)
LEMMA SaltedNextInv ==
  ASSUME SaltedInv, [SaltedNext]_saltedVars
  PROVE  SaltedInv'
<1> USE DEF SaltedInv
<1>1. CASE \E seed \in Seeds : initBloom(seed)
  <2>1. PICK seed \in Seeds : initBloom(seed) BY <1>1
  <2>2. salt' \in [0 .. PredefCount - 1 -> Word] BY <2>1, SeasonType DEF initBloom
  <2>3. SaltedTypeOK' BY <2>1, <2>2 DEF initBloom, SaltedTypeOK
  <2>4. \A b \in Buffer : inserted'[b] = {} BY <2>1 DEF initBloom
  <2> QED BY <2>3, <2>4 DEF FoundSinceInitBloom
<1>2. CASE \E k \in HashCounts, size \in TableSizes : SetParameters(k, size)
  <2>1. SaltedTypeOK' BY <1>2 DEF SetParameters, SaltedTypeOK
  <2>2. \A b \in Buffer : inserted'[b] = {} BY <1>2 DEF SetParameters
  <2> QED BY <2>1, <2>2 DEF FoundSinceInitBloom
<1>3. CASE \E b \in Buffer, scheme \in Scheme : NewBuffer(b, scheme)
  <2>1. PICK b \in Buffer, scheme \in Scheme : NewBuffer(b, scheme) BY <1>3
  <2>2. SaltedTypeOK' BY <2>1 DEF NewBuffer, SaltedTypeOK
  <2>3. \A c \in Buffer : c # b => inserted'[c] = inserted[c] /\ bloom'[c] = bloom[c]
    BY <2>1 DEF NewBuffer, SaltedTypeOK
  <2>4. inserted'[b] = {} BY <2>1 DEF NewBuffer, SaltedTypeOK
  <2>5. \A s, key : ContainBits(s, key)' = ContainBits(s, key)
    BY <2>1, BitsUnchanged DEF NewBuffer
  <2>6. FoundSinceInitBloom'
    BY <2>3, <2>4, <2>5 DEF FoundSinceInitBloom, KeyInBuffer
  <2> QED BY <2>2, <2>3, <2>4, <2>6
<1>4. CASE \E b \in Buffer, key \in Key : InsertKey(b, key)
  <2>1. PICK b \in Buffer, key \in Key : InsertKey(b, key) BY <1>4
  <2> DEFINE bits == InsertBits(bloom[b].scheme, key)
  <2>2. bits = ContainBits(bloom[b].scheme, key) /\ bits \subseteq Nat
    BY <2>1, SameBits DEF InsertKey
  <2>3. bloom' = [bloom EXCEPT ![b].bits = @ \union bits]
        /\ inserted' = [inserted EXCEPT ![b] = @ \union {key}]
        /\ UNCHANGED <<salt, hashCount, tableSize, fresh>>
        /\ bloom[b].scheme \in Scheme
    BY <2>1 DEF InsertKey
  <2> HIDE DEF bits
  <2>4. SaltedTypeOK' BY <2>2, <2>3 DEF SaltedTypeOK
  <2>5. \A s, k : ContainBits(s, k)' = ContainBits(s, k) BY <2>3, BitsUnchanged
  <2>6. \A c \in Buffer : /\ bloom'[c].scheme = bloom[c].scheme
                         /\ bloom[c].bits \subseteq bloom'[c].bits
                         /\ inserted'[c] \subseteq inserted[c] \union (IF c = b THEN {key} ELSE {})
    BY <2>3 DEF SaltedTypeOK
  <2>7. bits \subseteq bloom'[b].bits BY <2>3 DEF SaltedTypeOK
  <2>8. FoundSinceInitBloom'
    BY <2>2, <2>5, <2>6, <2>7 DEF FoundSinceInitBloom, KeyInBuffer
  <2>9. \A c \in Buffer : inserted'[c] # {} => bloom'[c].scheme \in Scheme
    BY <2>3, <2>6
  <2> QED BY <2>4, <2>8, <2>9
<1>5. CASE UNCHANGED saltedVars
  <2>1. \A s, key : ContainBits(s, key)' = ContainBits(s, key)
    BY <1>5, BitsUnchanged DEF saltedVars
  <2> QED BY <1>5, <2>1 DEF saltedVars, SaltedTypeOK, FoundSinceInitBloom, KeyInBuffer
<1> QED BY <1>1, <1>2, <1>3, <1>4, <1>5 DEF SaltedNext

(* BloomContainKey and RangeBloomContainKey find every key that was inserted    *)
(* since the last initBloom, whatever the hash functions, the salts and the size. *)
THEOREM FoundSinceInitBloomHolds == SaltedSpec => []FoundSinceInitBloom
<1>1. SaltedInit => SaltedInv BY SaltedInitInv
<1>2. SaltedInv /\ [SaltedNext]_saltedVars => SaltedInv' BY SaltedNextInv
<1>3. SaltedInv => FoundSinceInitBloom BY DEF SaltedInv
<1> QED BY <1>1, <1>2, <1>3, PTL DEF SaltedSpec

-----------------------------------------------------------------------------
(* The bits of the range scheme *)

\* A new array has no bits but those of its keys, with the present salts.
FreshInv ==
    /\ \A b \in Buffer : IsFiniteSet(inserted[b])
    /\ \A b \in Buffer : fresh[b] /\ bloom[b].scheme = "range" =>
          bloom[b].bits \subseteq UNION {InsertBits("range", key) : key \in inserted[b]}

LEMMA InsertBitsUnchanged ==
  ASSUME UNCHANGED <<salt, hashCount, tableSize>>, NEW scheme, NEW key
  PROVE  InsertBits(scheme, key)' = InsertBits(scheme, key)
BY DEF InsertBits, InsertBit, CharAndBit, TableIndex, InsertHash, Checksums, Chain, Rounds

LEMMA FreshInitInv == SaltedInit => FreshInv
BY FS_EmptySet DEF SaltedInit, FreshInv

(* Only insertions add bits, and the salts change only where nothing is new any more. *)
LEMMA FreshNextInv == SaltedInv /\ FreshInv /\ [SaltedNext]_saltedVars => FreshInv'
<1> SUFFICES ASSUME SaltedInv, FreshInv, [SaltedNext]_saltedVars PROVE FreshInv'
  OBVIOUS
<1>1. ASSUME inserted' = [b \in Buffer |-> {}], fresh' = [b \in Buffer |-> FALSE]
      PROVE  FreshInv'
  BY <1>1, FS_EmptySet DEF FreshInv
<1>2. ASSUME NEW b \in Buffer, NEW scheme \in Scheme, NewBuffer(b, scheme)
      PROVE  FreshInv'
  <2>1. \A c \in Buffer : c # b => inserted'[c] = inserted[c] /\ bloom'[c] = bloom[c] /\ fresh'[c] = fresh[c]
    BY <1>2 DEF NewBuffer, SaltedInv, SaltedTypeOK
  <2>2. inserted'[b] = {} /\ bloom'[b].bits = {}
    BY <1>2 DEF NewBuffer, SaltedInv, SaltedTypeOK
  <2>3. \A s, key : InsertBits(s, key)' = InsertBits(s, key)
    BY <1>2, InsertBitsUnchanged DEF NewBuffer
  <2>4. ASSUME NEW c \in Buffer
        PROVE  /\ IsFiniteSet(inserted'[c])
               /\ fresh'[c] /\ bloom'[c].scheme = "range" =>
                    bloom'[c].bits \subseteq UNION {InsertBits("range", k)' : k \in inserted'[c]}
    <3>1. CASE c = b BY <2>2, <3>1, FS_EmptySet
    <3>2. CASE c # b
      <4>1. inserted'[c] = inserted[c] /\ bloom'[c] = bloom[c] /\ fresh'[c] = fresh[c] BY <2>1, <3>2
      <4>2. /\ IsFiniteSet(inserted[c])
            /\ fresh[c] /\ bloom[c].scheme = "range" =>
                 bloom[c].bits \subseteq UNION {InsertBits("range", k) : k \in inserted[c]}
        BY DEF FreshInv
      <4>3. UNION {InsertBits("range", k)' : k \in inserted[c]} = UNION {InsertBits("range", k) : k \in inserted[c]}
        BY <2>3
      <4> QED BY <4>1, <4>2, <4>3
    <3> QED BY <3>1, <3>2
  <2> QED BY <2>4 DEF FreshInv
<1>3. ASSUME NEW b \in Buffer, NEW key \in Key, InsertKey(b, key)
      PROVE  FreshInv'
  <2>1. UNCHANGED <<salt, hashCount, tableSize, fresh>>
    BY <1>3 DEF InsertKey
  <2>2. \A c \in Buffer : c # b => inserted'[c] = inserted[c] /\ bloom'[c] = bloom[c]
    BY <1>3 DEF InsertKey, SaltedInv, SaltedTypeOK
  <2>3. /\ inserted'[b] = inserted[b] \union {key}
        /\ bloom'[b].scheme = bloom[b].scheme
        /\ bloom'[b].bits = bloom[b].bits \union InsertBits(bloom[b].scheme, key)
    BY <1>3 DEF InsertKey, SaltedInv, SaltedTypeOK
  <2>4. \A s, k : InsertBits(s, k)' = InsertBits(s, k)
    BY <2>1, InsertBitsUnchanged
  <2>5. IsFiniteSet(inserted'[b])
    <3>1. IsFiniteSet(inserted[b]) BY DEF FreshInv
    <3>2. IsFiniteSet(inserted[b] \union {key}) BY <3>1, FS_AddElement
    <3> QED BY <2>3, <3>2
  <2>6. fresh[b] /\ bloom[b].scheme = "range" =>
          bloom'[b].bits \subseteq UNION {InsertBits("range", k) : k \in inserted'[b]}
    BY <2>3 DEF FreshInv
  <2>7. ASSUME NEW c \in Buffer
        PROVE  /\ IsFiniteSet(inserted'[c])
               /\ fresh'[c] /\ bloom'[c].scheme = "range" =>
                    bloom'[c].bits \subseteq UNION {InsertBits("range", k)' : k \in inserted'[c]}
    <3>1. fresh'[c] = fresh[c] BY <2>1
    <3>2. \A S : UNION {InsertBits("range", k)' : k \in S} = UNION {InsertBits("range", k) : k \in S}
      BY <2>4
    <3>3. CASE c = b BY <2>3, <2>5, <2>6, <3>1, <3>2, <3>3
    <3>4. CASE c # b
      <4>1. inserted'[c] = inserted[c] /\ bloom'[c] = bloom[c] BY <2>2, <3>4
      <4>2. /\ IsFiniteSet(inserted[c])
            /\ fresh[c] /\ bloom[c].scheme = "range" =>
                 bloom[c].bits \subseteq UNION {InsertBits("range", k) : k \in inserted[c]}
        BY DEF FreshInv
      <4> QED BY <3>1, <3>2, <4>1, <4>2
    <3> QED BY <3>3, <3>4
  <2> QED BY <2>7 DEF FreshInv
<1>4. CASE UNCHANGED saltedVars
  <2>1. \A s, key : InsertBits(s, key)' = InsertBits(s, key)
    BY <1>4, InsertBitsUnchanged DEF saltedVars
  <2> QED BY <1>4, <2>1 DEF saltedVars, FreshInv
<1> QED BY <1>1, <1>2, <1>3, <1>4 DEF SaltedNext, initBloom, SetParameters

(* The values of a function are not more than its arguments. *)
LEMMA ImageCardinality ==
  ASSUME NEW S, IsFiniteSet(S), NEW f, f = [x \in S |-> f[x]]
  PROVE  LET T == {f[x] : x \in S}
         IN  IsFiniteSet(T) /\ Cardinality(T) <= Cardinality(S)
<1> DEFINE T == {f[x] : x \in S}
<1>1. f \in Surjection(S, T)
  BY DEF Surjection
<1> HIDE DEF T
<1>2. IsFiniteSet(T) /\ Cardinality(T) <= Cardinality(S)
  BY <1>1, FS_Surjection
<1> QED BY <1>2 DEF T

Prefixes(keys) == UNION {{<<i, key \div (2 ^ i)>> : key \in keys} : i \in 0 .. hashCount - 1}

LEMMA PrefixesFinite ==
  ASSUME SaltedTypeOK, NEW keys, IsFiniteSet(keys)
  PROVE  IsFiniteSet(Prefixes(keys))
<1> DEFINE Of(i) == {<<i, key \div (2 ^ i)>> : key \in keys}
           I == 0 .. hashCount - 1
           rows == [i \in I |-> Of(i)]
<1>1. ASSUME NEW i \in I PROVE IsFiniteSet(Of(i))
  <2> DEFINE f == [key \in keys |-> <<i, key \div (2 ^ i)>>]
  <2>1. f = [key \in keys |-> f[key]]
    OBVIOUS
  <2>2. Of(i) = {f[key] : key \in keys}
    OBVIOUS
  <2> HIDE DEF f
  <2> QED BY <2>1, <2>2, ImageCardinality
<1>2. IsFiniteSet(I)
  <2>1. hashCount \in Int
    BY SaltedBloomAssumption, HashingAssumption DEF SaltedTypeOK
  <2> QED BY <2>1, FS_Interval
<1>3. rows = [i \in I |-> rows[i]] /\ {rows[i] : i \in I} = {Of(i) : i \in I}
  OBVIOUS
<1> HIDE DEF I, rows, Of
<1>4. IsFiniteSet({Of(i) : i \in I})
  <2>1. IsFiniteSet({rows[i] : i \in I})
    BY <1>2, <1>3, ImageCardinality
  <2> QED BY <1>3, <2>1
<1>5. IsFiniteSet(UNION {Of(i) : i \in I})
  <2> DEFINE S == {Of(i) : i \in I}
  <2>1. \A T \in S : IsFiniteSet(T)
    BY <1>1
  <2> HIDE DEF S
  <2>2. IsFiniteSet(UNION S)
    BY <1>4, <2>1, FS_UNION DEF S
  <2> QED BY <2>2 DEF S
<1> QED BY <1>5 DEF Of, I, Prefixes

\* RangeBloomInsertKey sets, for any hash functions, sizes, salts and numbers of
\* hashes, at most one bit for each prefix of the keys of an array, which is what
\* getTargetFalseRate counts on.
THEOREM PrefixesShareBitsHolds == SaltedSpec => []PrefixesShareBits
<1>1. ASSUME SaltedInv, FreshInv PROVE PrefixesShareBits
  <2> SUFFICES ASSUME NEW b \in Buffer, fresh[b], bloom[b].scheme = "range"
               PROVE  Cardinality(bloom[b].bits) <= Cardinality(Prefixes(inserted[b]))
    BY DEF PrefixesShareBits, Prefixes
  <2> DEFINE S == Prefixes(inserted[b])
             Bit(i, p) == InsertBit("range",
                             InsertHash(i, [j \in 0 .. 3 |-> HashAp(MurmurHash3(p)[j], salt[i])]))
             f == [x \in S |-> Bit(x[1], x[2])]
             T == {f[x] : x \in S}
  <2>1. IsFiniteSet(S)
    BY <1>1, PrefixesFinite DEF FreshInv, SaltedInv
  <2>2. f = [x \in S |-> f[x]]
    OBVIOUS
  <2>3. ASSUME NEW key \in inserted[b] PROVE InsertBits("range", key) \subseteq T
    <3> SUFFICES ASSUME NEW i \in 0 .. hashCount - 1
                 PROVE  InsertBit("range", InsertHash(i, Checksums("range", key, i))) \in T
      BY DEF InsertBits, Rounds
    <3>1. <<i, Prefix(key, i)>> \in S
      BY DEF Prefixes, Prefix
    <3>2. Bit(i, Prefix(key, i)) = InsertBit("range", InsertHash(i, Checksums("range", key, i)))
      BY DEF Checksums
    <3> HIDE DEF S, Bit
    <3>3. f[<<i, Prefix(key, i)>>] = Bit(i, Prefix(key, i))
      BY <3>1
    <3> QED BY <3>1, <3>2, <3>3
  <2> HIDE DEF f, S
  <2>4. IsFiniteSet(T) /\ Cardinality(T) <= Cardinality(S)
    BY <2>1, <2>2, ImageCardinality
  <2>5. bloom[b].bits \subseteq T
    BY <1>1, <2>3 DEF FreshInv
  <2> HIDE DEF T
  <2>6. Cardinality(bloom[b].bits) <= Cardinality(T) /\ Cardinality(bloom[b].bits) \in Nat
        /\ Cardinality(T) \in Nat
    BY <2>4, <2>5, FS_Subset, FS_CardinalityType
  <2>7. Cardinality(S) \in Nat
    BY <2>1, FS_CardinalityType
  <2> QED BY <2>4, <2>6, <2>7 DEF S
<1> QED BY <1>1, SaltedInitInv, SaltedNextInv, FreshInitInv, FreshNextInv, PTL DEF SaltedSpec

-----------------------------------------------------------------------------
(* my_rwlock *)

AllWriters == \A t \in RwThread : role[t] = "writer"
AllReaders == \A t \in RwThread : role[t] = "reader" /\ t # 0

\* A waiting writer sees the bit of the holder, or takes an empty word.
WritersInv ==
    AllWriters =>
        /\ word \in {{}, {0}}
        /\ \A t \in RwThread :
            /\ pc[t] \in {"idle", "wr_or", "held", "un_zero"}
            /\ Holds(t) => word = {0} /\ \A u \in RwThread : Holds(u) => u = t

\* No reader sets bit 0, so that no reader takes the branch of the writer.
ReadersInv ==
    AllReaders =>
        /\ 0 \notin word
        /\ \A t \in RwThread :
            /\ pc[t] \in {"idle", "rd_read", "rd_or", "held", "un_read", "un_and"}
            /\ Holds(t) => t \in word

RwInv ==
    /\ DOMAIN pc = RwThread
    /\ WritersInv
    /\ ReadersInv

\* The inductive invariant holds of a free lock.
LEMMA RwInvInit == RwInit => RwInv
  BY DEF RwInit, RwInv, WritersInv, ReadersInv, AllWriters, AllReaders, Holds

\* If all are writers, a step keeps the only holder's bit.
LEMMA WritersInvNext ==
    ASSUME RwInv, RwNext
    PROVE  WritersInv'
  <1>1. role' = role
    BY DEF RwNext, RdWait, RdRead, RdOr, WrWait, WrOr, TryWait, TryAnd, UnlockTest,
           UnlockZero, UnlockRead, UnlockAnd
  <1>2. SUFFICES ASSUME AllWriters
                 PROVE  (/\ word \in {{}, {0}}
                         /\ \A u \in RwThread :
                             /\ pc[u] \in {"idle", "wr_or", "held", "un_zero"}
                             /\ Holds(u) => word = {0} /\ \A v \in RwThread : Holds(v) => v = u)'
    BY <1>1 DEF AllWriters, WritersInv
  <1>3. PICK t \in RwThread :
          \/ WrWait(t) \/ WrOr(t) \/ UnlockTest(t) \/ UnlockZero(t)
    BY <1>2 DEF AllWriters, RwNext, RwInv, WritersInv, RdWait, RdRead, RdOr, TryWait,
                TryAnd, UnlockRead, UnlockAnd
  <1>4. CASE WrWait(t)
    BY <1>2, <1>4 DEF WrWait, Goto, RwInv, WritersInv, Holds
  <1>5. CASE WrOr(t)
    <2>1. CASE word = {}
      BY <1>2, <1>5, <2>1 DEF WrOr, Goto, RwInv, WritersInv, Holds
    <2>2. CASE word = {0}
      BY <1>2, <1>5, <2>2 DEF WrOr, Goto, RwInv, WritersInv, Holds
    <2> QED BY <1>2, <2>1, <2>2 DEF RwInv, WritersInv
  <1>6. CASE UnlockTest(t)
    BY <1>2, <1>6 DEF UnlockTest, Goto, RwInv, WritersInv, Holds
  <1>7. CASE UnlockZero(t)
    BY <1>2, <1>7 DEF UnlockZero, Goto, RwInv, WritersInv, Holds
  <1> QED BY <1>3, <1>4, <1>5, <1>6, <1>7

\* If all are readers other than thread 0, a step keeps the bits of the others.
LEMMA ReadersInvNext ==
    ASSUME RwInv, RwNext
    PROVE  ReadersInv'
  <1>1. role' = role
    BY DEF RwNext, RdWait, RdRead, RdOr, WrWait, WrOr, TryWait, TryAnd, UnlockTest,
           UnlockZero, UnlockRead, UnlockAnd
  <1>2. SUFFICES ASSUME AllReaders
                 PROVE  (/\ 0 \notin word
                         /\ \A u \in RwThread :
                             /\ pc[u] \in {"idle", "rd_read", "rd_or", "held", "un_read", "un_and"}
                             /\ Holds(u) => u \in word)'
    BY <1>1 DEF AllReaders, ReadersInv
  <1>3. PICK t \in RwThread :
          \/ RdWait(t) \/ RdRead(t) \/ RdOr(t) \/ UnlockTest(t) \/ UnlockRead(t) \/ UnlockAnd(t)
    BY <1>2 DEF AllReaders, RwNext, RwInv, ReadersInv, WrWait, WrOr, TryWait, TryAnd, UnlockZero
  <1>4. t # 0
    BY <1>2 DEF AllReaders
  <1>5. CASE RdWait(t) \/ RdRead(t) \/ UnlockRead(t)
    BY <1>2, <1>5 DEF RdWait, RdRead, UnlockRead, Goto, RwInv, ReadersInv, Holds
  <1>6. CASE RdOr(t)
    BY <1>2, <1>4, <1>6 DEF RdOr, Goto, RwInv, ReadersInv, Holds, longlong_mask
  <1>7. CASE UnlockTest(t)
    BY <1>2, <1>7 DEF UnlockTest, Goto, RwInv, ReadersInv, Holds
  <1>8. CASE UnlockAnd(t)
    BY <1>2, <1>8 DEF UnlockAnd, Goto, RwInv, ReadersInv, Holds, longlong_mask
  <1> QED BY <1>3, <1>5, <1>6, <1>7, <1>8

\* Every step keeps the inductive invariant.
LEMMA RwInvNext == RwInv /\ [RwNext]_rwVars => RwInv'
  <1>1. ASSUME RwInv, UNCHANGED rwVars
        PROVE  RwInv'
    BY <1>1 DEF rwVars, RwInv, WritersInv, ReadersInv, AllWriters, AllReaders, Holds
  <1>2. ASSUME RwInv, RwNext
        PROVE  RwInv'
    <2>1. (DOMAIN pc = RwThread)'
      BY <1>2 DEF RwInv, Goto, RwNext, RdWait, RdRead, RdOr, WrWait, WrOr, TryWait, TryAnd,
                  UnlockTest, UnlockZero, UnlockRead, UnlockAnd
    <2> QED BY <1>2, <2>1, WritersInvNext, ReadersInvNext DEF RwInv
  <1> QED BY <1>1, <1>2

\* my_rwlock keeps its promises among waiting writers and among readers, whatever
\* their number: mutual exclusion of writers, and a bit for every reader inside.
THEOREM LockOfOneRoleHolds == RwSpec => []LockOfOneRole
  <1>1. RwInv => LockOfOneRole
    BY DEF RwInv, WritersInv, ReadersInv, AllWriters, AllReaders, LockOfOneRole, longlong_mask
  <1> QED BY <1>1, RwInvInit, RwInvNext, PTL DEF RwSpec

-----------------------------------------------------------------------------
(* Arraylist *)

\* l stands for the sequence s: the property, and the bound on the capacity that
\* keeps capacity - 1 and the doubling from wrapping.
Represents(l, s) ==
    /\ ~l.fault
    /\ l.capacity \in 1 .. SizeRange
    /\ l.size = Len(s)
    /\ l.size < l.capacity
    /\ DOMAIN l.data = Places(l.capacity)
    /\ \A i \in Places(l.size) : l.data[i] = s[i + 1]

ArraylistInv ==
    /\ contents \in Seq(Elem)
    /\ listCalls \in 0 .. MaxListCalls
    /\ regular \in BOOLEAN
    /\ Len(contents) <= listCalls
    /\ regular => Represents(list, contents)

-----------------------------------------------------------------------------
(* The operations *)

LEMMA ListFields ==
    ASSUME NEW capacity, NEW size, NEW data, NEW fault
    PROVE  /\ List(capacity, size, data, fault).capacity = capacity
           /\ List(capacity, size, data, fault).size = size
           /\ List(capacity, size, data, fault).data = data
           /\ List(capacity, size, data, fault).fault = fault
  BY DEF List

\* What is left of Represents for a list that is made of parts.
LEMMA PartsRepresent ==
    ASSUME NEW capacity \in 1 .. SizeRange, NEW data, NEW fault \in BOOLEAN, ~fault,
           NEW s, Len(s) < capacity,
           DOMAIN data = Places(capacity),
           \A i \in Places(Len(s)) : data[i] = s[i + 1]
    PROVE  Represents(List(capacity, Len(s), data, fault), s)
  BY ListFields DEF Represents

\* The test of line 23 means what it says as long as nothing wraps.
LEMMA RoomIsRoom ==
    ASSUME NEW l, NEW s, Represents(l, s), Len(s) \in Nat
    PROVE  HasRoom(l) <=> l.size + 1 < l.capacity
  <1>1. l.capacity - 1 \in 0 .. SizeRange - 1
    BY SizeRangeAssumption DEF Represents
  <1>2. (l.capacity - 1) % SizeRange = l.capacity - 1
    BY <1>1, SizeRangeAssumption
  <1> QED BY <1>1, <1>2 DEF HasRoom, Represents

\* ArraylistAdd appends, whether the array grows or not.
LEMMA AddAppends ==
    ASSUME NEW l, NEW s \in Seq(Elem), NEW elem \in Elem, Represents(l, s),
           2 * (Len(s) + 1) <= SizeRange
    PROVE  Represents(ArraylistAdd(l, elem), Append(s, elem))
  <1> DEFINE data == IF ~HasRoom(l) THEN Grown(l) ELSE l.data
             capacity == IF ~HasRoom(l) THEN 2 * l.capacity ELSE l.capacity
             new == ArraylistAdd(l, elem)
  <1>1. Len(s) \in Nat /\ SizeRange \in Nat
    BY SizeRangeAssumption
  <1>2. new = List(capacity, (l.size + 1) % SizeRange, Write(data, l.size, elem),
                   l.fault \/ l.size \notin DOMAIN data)
    BY DEF ArraylistAdd
  <1>3. /\ capacity \in 1 .. SizeRange
        /\ l.size + 1 < capacity
    <2>1. /\ l.size = Len(s)
          /\ l.size + 1 <= l.capacity
          /\ l.capacity \in 1 .. SizeRange
      BY <1>1 DEF Represents
    <2>2. CASE HasRoom(l)
      BY <1>1, <2>1, <2>2, RoomIsRoom
    <2>3. CASE ~HasRoom(l)
      <3>1. l.capacity = Len(s) + 1
        BY <1>1, <2>1, <2>3, RoomIsRoom
      <3> QED BY <1>1, <2>1, <2>3, <3>1
    <2> QED BY <2>2, <2>3
  <1>4. (l.size + 1) % SizeRange = l.size + 1
    <2>1. l.size + 1 \in 0 .. SizeRange - 1
      BY <1>1, <1>3 DEF Represents
    <2> QED BY <2>1, <1>1
  <1>5. /\ DOMAIN data = Places(capacity)
        /\ \A i \in Places(l.size) : data[i] = s[i + 1]
    <2>1. CASE HasRoom(l)
      BY <2>1 DEF Represents
    <2>2. CASE ~HasRoom(l)
      <3>1. /\ DOMAIN Grown(l) = Places(capacity)
            /\ \A i \in Places(capacity) :
                 i \in Places(l.size) \intersect DOMAIN l.data => Grown(l)[i] = l.data[i]
        BY <2>2 DEF Grown
      <3>2. Places(l.size) \subseteq Places(capacity) /\ Places(l.size) \subseteq DOMAIN l.data
        BY <1>1, <1>3 DEF Represents, Places
      <3> QED BY <2>2, <3>1, <3>2 DEF Represents
    <2> QED BY <2>1, <2>2
  <1>6. l.size \in DOMAIN data
    BY <1>1, <1>3, <1>5 DEF Represents, Places
  <1> HIDE DEF data, capacity
  <1>7. /\ Write(data, l.size, elem)[l.size] = elem
        /\ DOMAIN Write(data, l.size, elem) = Places(capacity)
        /\ \A i \in Places(l.size) : Write(data, l.size, elem)[i] = data[i]
    BY <1>1, <1>3, <1>5, <1>6 DEF Write, Represents, Places
  <1>8. /\ Len(Append(s, elem)) = l.size + 1
        /\ Append(s, elem)[l.size + 1] = elem
        /\ \A i \in Places(l.size) : Append(s, elem)[i + 1] = s[i + 1]
    BY <1>1 DEF Represents, Places
  <1> DEFINE fault == l.fault \/ l.size \notin DOMAIN data
  <1>9. /\ fault \in BOOLEAN /\ ~fault
        /\ new = List(capacity, l.size + 1, Write(data, l.size, elem), fault)
    BY <1>2, <1>4, <1>6 DEF Represents
  <1>10. ASSUME NEW i \in Places(l.size + 1)
         PROVE  Write(data, l.size, elem)[i] = Append(s, elem)[i + 1]
    <2>1. i \in Places(l.size) \/ i = l.size
      BY <1>1 DEF Places, Represents
    <2> QED BY <2>1, <1>5, <1>7, <1>8
  <1> HIDE DEF new, fault
  <1>11. Represents(new, Append(s, elem))
    <2> DEFINE longer == Append(s, elem)
               stored == Write(data, l.size, elem)
    <2>1. /\ Len(longer) = l.size + 1
          /\ DOMAIN stored = Places(capacity)
          /\ \A i \in Places(Len(longer)) : stored[i] = longer[i + 1]
          /\ new = List(capacity, Len(longer), stored, fault)
      BY <1>7, <1>8, <1>9, <1>10
    <2> HIDE DEF longer, stored
    <2>2. Represents(List(capacity, Len(longer), stored, fault), longer)
      BY <1>3, <1>9, <2>1, PartsRepresent
    <2> QED BY <2>1, <2>2 DEF longer
  <1> QED BY <1>11 DEF new

\* ArraylistRemove takes out the element at index, if there is one.
LEMMA RemoveRemoves ==
    ASSUME NEW l, NEW s \in Seq(Elem), NEW index \in Int, Represents(l, s),
           Len(s) # 0, index \in -1 .. SizeRange - 1
    PROVE  Represents(ArraylistRemove(l, index), Without(s, index))
  <1>1. /\ Len(s) \in Nat \ {0}
        /\ SizeRange \in Nat \ {0}
        /\ l.size = Len(s)
        /\ l.size < l.capacity
        /\ l.capacity \in 1 .. SizeRange
    BY SizeRangeAssumption DEF Represents
  <1>2. (l.size - 1) % SizeRange = l.size - 1
    <2>1. l.size - 1 \in 0 .. SizeRange - 1
      BY <1>1
    <2> QED BY <2>1, <1>1
  <1>3. index % SizeRange = IF index = -1 THEN SizeRange - 1 ELSE index
    <2>1. CASE index = -1
      <3>1. (-1) % SizeRange = SizeRange - 1
        BY <1>1
      <3> QED BY <2>1, <3>1
    <2>2. CASE index # -1
      BY <2>2, <1>1
    <2> QED BY <2>1, <2>2
  <1>4. CASE index \notin Places(l.size)
    <2>1. index % SizeRange > (l.size - 1) % SizeRange
      BY <1>1, <1>2, <1>3, <1>4 DEF Places
    <2>2. ArraylistRemove(l, index) = l
      BY <2>1 DEF ArraylistRemove
    <2>3. Without(s, index) = s
      BY <1>1, <1>4 DEF Without
    <2> QED BY <2>2, <2>3
  <1>5. CASE index \in Places(l.size)
    <2>1. ~(index % SizeRange > (l.size - 1) % SizeRange)
      BY <1>1, <1>2, <1>3, <1>5 DEF Places
    <2> DEFINE remaining == SubSeq(s, 1, index) \o SubSeq(s, index + 2, Len(s))
    <2>2. Without(s, index) = remaining
      BY <1>1, <1>5 DEF Without
    <2>3. /\ index \in Nat
          /\ index + 1 <= Len(s)
      BY <1>1, <1>5 DEF Places
    <2>4. /\ Len(SubSeq(s, 1, index)) = index
          /\ Len(SubSeq(s, index + 2, Len(s))) = Len(s) - index - 1
          /\ SubSeq(s, 1, index) \in Seq(Elem)
          /\ SubSeq(s, index + 2, Len(s)) \in Seq(Elem)
          /\ \A i \in 1 .. index : SubSeq(s, 1, index)[i] = s[i]
          /\ \A i \in 1 .. Len(s) - index - 1 :
                SubSeq(s, index + 2, Len(s))[i] = s[index + 1 + i]
      BY <1>1, <2>3
    <2>5. /\ Len(remaining) = Len(s) - 1
          /\ \A i \in 1 .. Len(s) - 1 : remaining[i] = IF i <= index THEN s[i] ELSE s[i + 1]
      <3> DEFINE front == SubSeq(s, 1, index)
                 back == SubSeq(s, index + 2, Len(s))
      <3>1. /\ front \in Seq(Elem) /\ Len(front) = index
            /\ back \in Seq(Elem) /\ Len(back) = Len(s) - index - 1
            /\ \A i \in 1 .. index : front[i] = s[i]
            /\ \A i \in 1 .. Len(s) - index - 1 : back[i] = s[index + 1 + i]
        BY <2>4
      <3>2. remaining = front \o back
        OBVIOUS
      <3> HIDE DEF front, back, remaining
      <3>3. /\ Len(remaining) = Len(front) + Len(back)
            /\ \A i \in 1 .. Len(front) + Len(back) :
                 remaining[i] = IF i <= Len(front) THEN front[i] ELSE back[i - Len(front)]
        <4>1. \A u, v \in Seq(Elem) :
                  /\ Len(u \o v) = Len(u) + Len(v)
                  /\ \A i \in 1 .. Len(u) + Len(v) :
                       (u \o v)[i] = IF i <= Len(u) THEN u[i] ELSE v[i - Len(u)]
          OBVIOUS
        <4> QED BY ONLY <3>1, <3>2, <4>1
      <3>4. Len(remaining) = Len(s) - 1
        BY <1>1, <2>3, <3>1, <3>3
      <3>5. ASSUME NEW i \in 1 .. Len(s) - 1
            PROVE  remaining[i] = IF i <= index THEN s[i] ELSE s[i + 1]
        <4>1. CASE i <= index
          BY <1>1, <2>3, <3>1, <3>3, <4>1
        <4>2. CASE ~(i <= index)
          <5>1. /\ i - index \in 1 .. Len(s) - index - 1
                /\ index + 1 + (i - index) = i + 1
            BY <1>1, <2>3, <4>2
          <5>2. remaining[i] = back[i - index]
            BY <1>1, <2>3, <3>1, <3>3, <4>2
          <5>3. back[i - index] = s[index + 1 + (i - index)]
            BY <3>1, <5>1
          <5> QED BY <4>2, <5>1, <5>2, <5>3
        <4> QED BY <4>1, <4>2
      <3> QED BY <3>4, <3>5
    <2> HIDE DEF remaining
    <2>6. CASE l.size = 1
      <3>1. ArraylistRemove(l, index) = ArraylistClear(l)
        BY <2>1, <2>6 DEF ArraylistRemove
      <3>2. Represents(ArraylistClear(l), remaining)
        <4>1. ArraylistClear(l) = List(l.capacity, 0, [i \in Places(l.capacity) |-> NULL],
                                       l.fault \/ DOMAIN l.data # Places(l.capacity))
          BY DEF ArraylistClear
        <4>2. Len(remaining) = 0
          BY <1>1, <2>5, <2>6
        <4>3. Represents(List(l.capacity, Len(remaining), [i \in Places(l.capacity) |-> NULL],
                              l.fault \/ DOMAIN l.data # Places(l.capacity)), remaining)
          <5>1. Places(0) = {}
            BY DEF Places
          <5> DEFINE fault == l.fault \/ DOMAIN l.data # Places(l.capacity)
          <5>2. fault \in BOOLEAN /\ ~fault
            BY DEF Represents
          <5> HIDE DEF fault
          <5>3. Represents(List(l.capacity, Len(remaining), [i \in Places(l.capacity) |-> NULL], fault), remaining)
            <6> DEFINE data == [i \in Places(l.capacity) |-> NULL]
            <6>1. l.capacity \in 1 .. SizeRange /\ Len(remaining) < l.capacity
              BY <1>1, <4>2
            <6>2. DOMAIN data = Places(l.capacity) /\ \A i \in Places(Len(remaining)) : data[i] = remaining[i + 1]
              BY <4>2, <5>1
            <6> HIDE DEF data
            <6>3. Represents(List(l.capacity, Len(remaining), data, fault), remaining)
              BY ONLY <5>2, <6>1, <6>2, PartsRepresent
            <6> QED BY <6>3 DEF data
          <5> QED BY <5>3 DEF fault
        <4> QED BY <4>1, <4>2, <4>3
      <3> QED BY <2>2, <3>1, <3>2
    <2>7. CASE l.size # 1
      <3> DEFINE moved == [i \in DOMAIN l.data |->
                            IF i \notin index .. l.size - 1 THEN l.data[i]
                            ELSE IF i = l.size - 1 \/ i + 1 \notin DOMAIN l.data THEN NULL
                            ELSE l.data[i + 1]]
                 new == ArraylistRemove(l, index)
      <3>1. new = List(l.capacity, (l.size - 1) % SizeRange, moved,
                       l.fault \/ ~(index .. l.size - 1 \subseteq DOMAIN l.data))
        BY <2>1, <2>7 DEF ArraylistRemove
      <3>2. index .. l.size - 1 \subseteq DOMAIN l.data
        BY <1>1, <2>3 DEF Represents, Places
      <3>3. DOMAIN moved = Places(l.capacity)
        BY DEF Represents
      <3>4. ASSUME NEW i \in Places(l.size - 1)
            PROVE  moved[i] = remaining[i + 1]
        <4>1. /\ i \in DOMAIN l.data
              /\ i + 1 \in DOMAIN l.data
              /\ i \in Places(l.size)
              /\ i + 1 \in Places(l.size)
          BY <1>1 DEF Represents, Places
        <4>2. l.data[i] = s[i + 1] /\ l.data[i + 1] = s[i + 2]
          <5>1. l.data[i + 1] = s[(i + 1) + 1]
            BY <4>1 DEF Represents
          <5>2. (i + 1) + 1 = i + 2
            BY DEF Places
          <5> QED BY <4>1, <5>1, <5>2 DEF Represents
        <4>3. moved[i] = IF i < index THEN l.data[i] ELSE l.data[i + 1]
          BY <1>1, <2>3, <4>1 DEF Places
        <4>4. remaining[i + 1] = IF i + 1 <= index THEN s[i + 1] ELSE s[(i + 1) + 1]
          BY <1>1, <2>5 DEF Places
        <4>5. i \in Nat /\ (i + 1) + 1 = i + 2 /\ (i < index <=> i + 1 <= index)
          BY <2>3 DEF Places
        <4> QED BY <4>2, <4>3, <4>4, <4>5
      <3> HIDE DEF moved
      <3> DEFINE fault == l.fault \/ ~(index .. l.size - 1 \subseteq DOMAIN l.data)
      <3>5. /\ fault \in BOOLEAN /\ ~fault
            /\ new = List(l.capacity, l.size - 1, moved, fault)
        BY <1>2, <3>1, <3>2 DEF Represents
      <3> HIDE DEF new, fault
      <3>6. Represents(new, remaining)
        BY <1>1, <2>5, <3>3, <3>4, <3>5, PartsRepresent
      <3> QED BY <2>2, <3>6 DEF new
    <2> QED BY <2>6, <2>7
  <1> QED BY <1>4, <1>5

\* ArraylistClear leaves an empty list with the array it had.
LEMMA ClearClears ==
    ASSUME NEW l, NEW s \in Seq(Elem), Represents(l, s)
    PROVE  Represents(ArraylistClear(l), << >>)
  <1> DEFINE data == [i \in Places(l.capacity) |-> NULL]
             fault == l.fault \/ DOMAIN l.data # Places(l.capacity)
  <1>1. /\ ArraylistClear(l) = List(l.capacity, Len(<< >>), data, fault)
        /\ Places(Len(<< >>)) = {}
        /\ Len(<< >>) < l.capacity
        /\ l.capacity \in 1 .. SizeRange
        /\ DOMAIN data = Places(l.capacity)
    BY SizeRangeAssumption DEF ArraylistClear, Represents, Places
  <1>2. fault \in BOOLEAN /\ ~fault
    BY DEF Represents
  <1> HIDE DEF data, fault
  <1> QED BY <1>1, <1>2, PartsRepresent

\* ArraylistCreate makes an empty list, if there is a place for data[0].
LEMMA CreateCreates ==
    ASSUME NEW c \in 1 .. SizeRange
    PROVE  Represents(ArraylistCreate(c), << >>)
  <1> DEFINE data == [i \in Places(c) |-> IF i = 0 THEN NULL ELSE Junk]
             fault == c = 0
  <1>1. /\ ArraylistCreate(c) = List(c, Len(<< >>), data, fault)
        /\ Places(Len(<< >>)) = {}
        /\ Len(<< >>) < c
        /\ DOMAIN data = Places(c)
        /\ fault \in BOOLEAN /\ ~fault
    BY SizeRangeAssumption DEF ArraylistCreate, Places
  <1> HIDE DEF data, fault
  <1> QED BY <1>1, PartsRepresent

-----------------------------------------------------------------------------
(* The invariant *)

LEMMA ArraylistInvInit == ListInit => ArraylistInv
  <1> SUFFICES ASSUME ListInit
               PROVE  ArraylistInv
    OBVIOUS
  <1>1. PICK c \in Capacities : list = ArraylistCreate(c) /\ regular = (c # 0)
    BY DEF ListInit
  <1>2. /\ contents = << >> /\ listCalls = 0
        /\ << >> \in Seq(Elem) /\ Len(<< >>) = 0
    BY DEF ListInit
  <1>3. regular \in BOOLEAN
    BY <1>1
  <1>4. ASSUME regular
        PROVE  Represents(list, contents)
    <2>0. c # 0
      BY <1>1, <1>4, Zenon
    <2>1. c \in 1 .. SizeRange
      BY <2>0, ArraylistAssumption, SizeRangeAssumption
    <2> QED BY <1>1, <1>2, <2>1, CreateCreates
  <1> QED BY <1>2, <1>3, <1>4, ArraylistAssumption DEF ArraylistInv

LEMMA ArraylistInvNext == ArraylistInv /\ [ListNext]_listVars => ArraylistInv'
  <1>1. ASSUME ArraylistInv, UNCHANGED listVars
        PROVE  ArraylistInv'
    BY <1>1 DEF ArraylistInv, listVars
  <1>2. ASSUME ArraylistInv, NEW elem \in Elem, Put(elem)
        PROVE  ArraylistInv'
    <2>1. /\ contents' = Append(contents, elem)
          /\ contents' \in Seq(Elem)
          /\ Len(contents') = Len(contents) + 1
          /\ Len(contents) \in Nat
      BY <1>2 DEF Put, ArraylistInv
    <2>2. /\ listCalls' = listCalls + 1
          /\ listCalls' \in 0 .. MaxListCalls
          /\ Len(contents') <= listCalls'
      BY <1>2, <2>1, ArraylistAssumption DEF Put, ListCall, ArraylistInv
    <2>3. 2 * (Len(contents) + 1) <= SizeRange
      BY <2>1, <2>2, ArraylistAssumption, SizeRangeAssumption
    <2>4. regular' => Represents(list', contents')
      BY <1>2, <2>1, <2>3, AddAppends DEF Put, ArraylistInv
    <2> QED BY <1>2, <2>1, <2>2, <2>4 DEF Put, ArraylistInv
  <1>3. ASSUME ArraylistInv, NEW index \in -1 .. MaxListCalls, Delete(index)
        PROVE  ArraylistInv'
    <2>1. /\ contents' = Without(contents, index)
          /\ Len(contents) \in Nat
          /\ contents \in Seq(Elem)
          /\ index \in Int
      BY <1>3, ArraylistAssumption DEF Delete, ArraylistInv
    <2>2. contents' \in Seq(Elem) /\ Len(contents') <= Len(contents)
      <3>1. CASE index \in Places(Len(contents))
        <4> DEFINE front == SubSeq(contents, 1, index)
                   back == SubSeq(contents, index + 2, Len(contents))
        <4>1. index \in Nat /\ index + 1 <= Len(contents)
          BY <2>1, <3>1 DEF Places
        <4>2. /\ front \in Seq(Elem) /\ Len(front) = index
              /\ back \in Seq(Elem) /\ Len(back) = Len(contents) - index - 1
          BY <2>1, <4>1
        <4>3. contents' = front \o back
          BY <2>1, <3>1 DEF Without
        <4> HIDE DEF front, back
        <4> QED BY <2>1, <4>1, <4>2, <4>3
      <3>2. CASE index \notin Places(Len(contents))
        BY <2>1, <3>2 DEF Without
      <3> QED BY <3>1, <3>2
    <2>3. /\ listCalls' = listCalls + 1
          /\ listCalls' \in 0 .. MaxListCalls
          /\ Len(contents') <= listCalls'
          /\ regular' \in BOOLEAN
      BY <1>3, <2>1, <2>2, ArraylistAssumption DEF Delete, ListCall, ArraylistInv
    <2>4. ASSUME regular'
          PROVE  Represents(list', contents')
      <3>1. Represents(list, contents) /\ list.size # 0 /\ list' = ArraylistRemove(list, index)
        BY <1>3, <2>4 DEF Delete, ArraylistInv
      <3>2. Len(contents) # 0
        BY <3>1 DEF Represents
      <3>3. index \in -1 .. SizeRange - 1
        BY <2>1, <2>3, ArraylistAssumption, SizeRangeAssumption, <1>3 DEF ArraylistInv
      <3> QED BY <2>1, <3>1, <3>2, <3>3, RemoveRemoves
    <2> QED BY <2>2, <2>3, <2>4 DEF ArraylistInv
  <1>4. ASSUME ArraylistInv, Clear
        PROVE  ArraylistInv'
    <2>1. /\ contents' = << >>
          /\ listCalls' \in 0 .. MaxListCalls
      BY <1>4, ArraylistAssumption DEF Clear, ListCall, ArraylistInv
    <2>2. regular' => Represents(list', contents')
      BY <1>4, <2>1, ClearClears DEF Clear, ArraylistInv
    <2> QED BY <1>4, <2>1, <2>2 DEF Clear, ArraylistInv
  <1>5. ASSUME ArraylistInv, Destroy
        PROVE  ArraylistInv'
    <2>1. /\ contents' = << >>
          /\ listCalls' \in 0 .. MaxListCalls
          /\ regular' = FALSE
      BY <1>5, ArraylistAssumption DEF Destroy, ListCall, ArraylistInv
    <2>3. regular' \in BOOLEAN /\ ~regular'
      BY <2>1, Zenon
    <2>2. << >> \in Seq(Elem) /\ Len(<< >>) = 0
      OBVIOUS
    <2> QED BY <2>1, <2>2, <2>3, ArraylistAssumption DEF ArraylistInv
  <1> QED BY <1>1, <1>2, <1>3, <1>4, <1>5 DEF ListNext

\* Whatever is added, removed and cleared, a list that was created with at least
\* one place is the sequence it stands for, and no place outside it is touched.
THEOREM ListIsSequenceHolds == ListSpec => []ListIsSequence
  <1>1. ArraylistInv => ListIsSequence
    BY DEF ArraylistInv, Represents, ListIsSequence, ArraylistGet
  <1> QED BY <1>1, ArraylistInvInit, ArraylistInvNext, PTL DEF ListSpec

-----------------------------------------------------------------------------
(* MurmurHash3 and hash_ap *)

\* Of n bytes those that went into the hash, each of them once.
Once(u, n, bytes) == u = [b \in Bytes(0, n) |-> IF b \in bytes THEN 1 ELSE 0]

NonePending == [k1 |-> {}, k2 |-> {}]

\* What waits in front of case c in a tail from i to n: the bytes of the cases
\* passed, in the register that case 9 or case 1 has not mixed yet.
Waiting(n, i, c) ==
    [k1 |-> {b \in i + c .. n - 1 : 1 <= c /\ c <= 8 /\ b < i + 8},
     k2 |-> {b \in i + c .. n - 1 : c >= 9}]

\* What has been mixed then.
Mixed(n, i, c) == {b \in Bytes(0, n) : b < i \/ (c <= 8 /\ b >= i + 8) \/ c = 0}

\* Between two blocks.
InBody ==
    /\ at = "body"
    /\ itr \in 0 .. nblocks * 16
    /\ itr % 16 = 0
    /\ Once(used, len, Bytes(0, itr))
    /\ pending = NonePending
    /\ touched = Bytes(0, itr)

\* In front of case rest.
InTail ==
    /\ at = "tail"
    /\ itr = nblocks * 16
    /\ rest \in 0 .. len - itr
    /\ len - itr <= 15
    /\ touched = Bytes(0, itr) \union (itr + rest .. len - 1)
    /\ pending = Waiting(len, itr, rest)
    /\ Once(used, len, Mixed(len, itr, rest))

\* Between two pieces: what is in front of itr is in the hash.
InPieces ==
    /\ at \in {"eight", "two", "one"}
    /\ itr \in 0 .. len
    /\ rest = len - itr
    /\ at = "two" => rest < 4
    /\ at = "one" => rest < 2
    /\ Once(used, len, Bytes(0, itr))
    /\ Bytes(0, itr) \subseteq touched
    /\ touched \subseteq Bytes(0, IF at = "one" /\ routine = "hash_ap_c" THEN len + 2 ELSE itr)

AtEnd ==
    /\ at = "end"
    /\ Once(used, len, Bytes(0, len))
    /\ Bytes(0, len) \subseteq touched
    /\ touched \subseteq Bytes(0, IF routine = "hash_ap_c" THEN len + 2 ELSE len)

HashInv ==
    /\ routine \in Routine
    /\ len \in Nat
    /\ \/ routine = "murmur" /\ (InBody \/ InTail)
       \/ routine # "murmur" /\ InPieces
       \/ AtEnd

-----------------------------------------------------------------------------

LEMMA BytesUnion ==
    ASSUME NEW i \in Nat, NEW n \in Nat
    PROVE  Bytes(0, i) \union Bytes(i, n) = Bytes(0, i + n)
  BY DEF Bytes

\* Blocks of sixteen leave less than sixteen bytes.
LEMMA Blocks ==
    ASSUME len \in Nat
    PROVE  /\ nblocks \in Nat
           /\ nblocks * 16 <= len
           /\ len % 16 = len - nblocks * 16
           /\ len - nblocks * 16 \in 0 .. 15
  BY DEF nblocks

\* Bytes that were not in the hash yet are in it once.
LEMMA UseOnce ==
    ASSUME NEW u, NEW v, NEW n, NEW old, NEW bytes, Once(u, n, old),
           v = [b \in DOMAIN u |-> u[b] + (IF b \in bytes THEN 1 ELSE 0)],
           \A b \in Bytes(0, n) : b \in bytes => b \notin old
    PROVE  Once(v, n, old \union bytes)
  <1>1. u = [b \in Bytes(0, n) |-> IF b \in old THEN 1 ELSE 0]
    BY DEF Once
  <1>2. ASSUME NEW b \in Bytes(0, n)
        PROVE  u[b] + (IF b \in bytes THEN 1 ELSE 0) = IF b \in old \union bytes THEN 1 ELSE 0
    <2>1. u[b] = IF b \in old THEN 1 ELSE 0
      BY <1>1
    <2> QED BY <2>1
  <1>3. DOMAIN u = Bytes(0, n)
    BY <1>1
  <1> QED BY <1>2, <1>3 DEF Once

\* What Once says depends on the bytes of the key only.
LEMMA OnceSame ==
    ASSUME NEW u, NEW n, NEW bytes, NEW others, Once(u, n, bytes),
           \A b \in Bytes(0, n) : b \in bytes <=> b \in others
    PROVE  Once(u, n, others)
  BY DEF Once

LEMMA HashInvInit == HashInit => HashInv
  <1> SUFFICES ASSUME HashInit
               PROVE  HashInv
    OBVIOUS
  <1>1. /\ routine \in Routine
        /\ len \in Nat
        /\ at = IF routine = "murmur" THEN "body" ELSE "eight"
        /\ itr = 0 /\ rest = len /\ touched = {}
        /\ pending = NonePending
    BY KeyHashAssumption DEF HashInit, NonePending
  <1>2. Bytes(0, 0) = {}
    BY DEF Bytes
  <1>3. Once(used, len, Bytes(0, itr))
    BY <1>1, <1>2 DEF HashInit, Once
  <1>4. CASE routine = "murmur"
    <2>1. InBody
      BY <1>1, <1>2, <1>3, <1>4, Blocks DEF InBody
    <2> QED BY <1>1, <1>4, <2>1 DEF HashInv
  <1>5. CASE routine # "murmur"
    <2>1. InPieces
      BY <1>1, <1>2, <1>3, <1>5 DEF InPieces, Bytes
    <2> QED BY <1>1, <1>5, <2>1 DEF HashInv
  <1> QED BY <1>4, <1>5

-----------------------------------------------------------------------------
(* MurmurHash3_x64_128 *)

LEMMA BlockStep ==
    ASSUME HashInv, Block
    PROVE  HashInv'
  <1>1. /\ routine = "murmur" /\ InBody
        /\ len \in Nat
    BY DEF HashInv, Block, InTail, InPieces, AtEnd
  <1>2. /\ itr \in Nat /\ itr % 16 = 0 /\ itr < nblocks * 16
        /\ nblocks \in Nat /\ nblocks * 16 <= len
    BY <1>1, Blocks DEF InBody, Block
  <1>3. itr + 16 <= nblocks * 16 /\ (itr + 16) % 16 = 0
    BY <1>2
  <1>4. len' = len /\ nblocks' = nblocks /\ itr' = itr + 16
    BY DEF Block, nblocks
  <1>5. Bytes(0, itr + 16) = Bytes(0, itr) \union Bytes(itr, 16)
    BY <1>2 DEF Bytes
  <1>6. Once(used', len, Bytes(0, itr + 16))
    <2>1. \A b \in Bytes(0, len) : b \in Bytes(itr, 16) => b \notin Bytes(0, itr)
      BY <1>2 DEF Bytes
    <2>2. /\ Once(used, len, Bytes(0, itr))
          /\ used' = [b \in DOMAIN used |-> used[b] + (IF b \in Bytes(itr, 16) THEN 1 ELSE 0)]
      BY <1>1 DEF InBody, Block, Use
    <2>3. Once(used', len, Bytes(0, itr) \union Bytes(itr, 16))
      BY <2>1, <2>2, UseOnce
    <2> QED BY <1>5, <2>3
  <1>7. itr + 16 \in 0 .. nblocks * 16
    BY <1>2, <1>3
  <1>8. InBody'
    BY <1>1, <1>3, <1>4, <1>5, <1>6, <1>7 DEF InBody, Block, Read
  <1> QED BY <1>1, <1>8 DEF HashInv, Block

LEMMA SwitchStep ==
    ASSUME HashInv, Switch
    PROVE  HashInv'
  <1>1. /\ routine = "murmur" /\ InBody
        /\ len \in Nat
    BY DEF HashInv, Switch, InTail, InPieces, AtEnd
  <1>2. /\ itr = nblocks * 16
        /\ rest' = len - itr
        /\ len - itr \in 0 .. 15
        /\ itr \in Nat
    BY <1>1, Blocks DEF Switch
  <1>3. /\ len' = len /\ nblocks' = nblocks /\ itr' = itr /\ at' = "tail"
        /\ used' = used /\ pending' = pending /\ touched' = touched /\ routine' = routine
    BY DEF Switch, nblocks
  <1>4. /\ itr + (len - itr) .. len - 1 = {}
        /\ itr + (len - itr) = len
    BY <1>1, <1>2
  <1>5. Once(used, len, Mixed(len, itr, len - itr))
    <2>1. Once(used, len, Bytes(0, itr))
      BY <1>1 DEF InBody
    <2>2. \A b \in Bytes(0, len) : b \in Bytes(0, itr) <=> b \in Mixed(len, itr, len - itr)
      BY <1>1, <1>2 DEF Bytes, Mixed
    <2> QED BY <2>1, <2>2, OnceSame
  <1>6. Waiting(len, itr, len - itr) = NonePending
    BY <1>4 DEF Waiting, NonePending
  <1>7. InTail'
    <2>1. pending = NonePending /\ touched = Bytes(0, itr)
      BY <1>1 DEF InBody
    <2>2. len - itr \in 0 .. len - itr /\ len - itr <= 15
      BY <1>2
    <2> QED BY <1>2, <1>3, <1>4, <1>5, <1>6, <2>1, <2>2 DEF InTail
  <1> QED BY <1>1, <1>3, <1>7 DEF HashInv

\* A byte joins a register, and a register is mixed.
Joined(p, k, byte) == [p EXCEPT ![k] = @ \union {byte}]
Emptied(p, k) == [p EXCEPT ![k] = {}]

LEMMA JoinedFields ==
    ASSUME NEW first, NEW second, NEW byte
    PROVE  Joined([k1 |-> first, k2 |-> second], "k1", byte) =
             [k1 |-> first \union {byte}, k2 |-> second]
  BY DEF Joined

\* How a case changes the bytes that wait: it adds its own, or mixes a register.
LEMMA WaitingStep ==
    ASSUME NEW n \in Nat, NEW i \in Nat, NEW c \in 1 .. 15, c <= n - i, n - i <= 15
    PROVE  /\ c > 9 => Waiting(n, i, c - 1) = Joined(Waiting(n, i, c), "k2", i + c - 1)
           /\ c \in 2 .. 8 => Waiting(n, i, c - 1) = Joined(Waiting(n, i, c), "k1", i + c - 1)
           /\ c = 9 => Waiting(n, i, c - 1) = Emptied(Waiting(n, i, c), "k2")
           /\ c = 1 => Waiting(n, i, c - 1) = Emptied(Waiting(n, i, c), "k1")
  <1> DEFINE W1(m) == {b \in i + m .. n - 1 : 1 <= m /\ m <= 8 /\ b < i + 8}
             W2(m) == {b \in i + m .. n - 1 : m >= 9}
  <1>1. /\ Waiting(n, i, c) = [k1 |-> W1(c), k2 |-> W2(c)]
        /\ Waiting(n, i, c - 1) = [k1 |-> W1(c - 1), k2 |-> W2(c - 1)]
    BY DEF Waiting
  <1>2. c > 9 => W1(c - 1) = W1(c)
    OBVIOUS
  <1>3. c > 9 => W2(c - 1) = W2(c) \union {i + c - 1}
    OBVIOUS
  <1>4. c \in 2 .. 8 => W1(c - 1) = W1(c) \union {i + c - 1}
    OBVIOUS
  <1>5. c \in 2 .. 8 => W2(c - 1) = W2(c)
    OBVIOUS
  <1>6. c = 9 => W2(c - 1) = {}
    OBVIOUS
  <1>7. c = 9 => W1(c - 1) = W1(c)
    OBVIOUS
  <1>8. c = 1 => W1(c - 1) = {}
    OBVIOUS
  <1>9. c = 1 => W2(c - 1) = W2(c)
    OBVIOUS
  <1> HIDE DEF W1, W2
  <1>10. c > 9 => Waiting(n, i, c - 1) = Joined(Waiting(n, i, c), "k2", i + c - 1)
    BY <1>1, <1>2, <1>3 DEF Joined
  <1>11. c \in 2 .. 8 => Waiting(n, i, c - 1) = Joined(Waiting(n, i, c), "k1", i + c - 1)
    <2>1. SUFFICES ASSUME c \in 2 .. 8
                   PROVE  Waiting(n, i, c - 1) = Joined(Waiting(n, i, c), "k1", i + c - 1)
      OBVIOUS
    <2>2. W1(c - 1) = W1(c) \union {i + c - 1} /\ W2(c - 1) = W2(c)
      BY <1>4, <1>5, <2>1
    <2>3. Joined(Waiting(n, i, c), "k1", i + c - 1) =
            [k1 |-> W1(c) \union {i + c - 1}, k2 |-> W2(c)]
      BY <1>1, JoinedFields
    <2> QED BY <1>1, <2>2, <2>3
  <1>12. c = 9 => Waiting(n, i, c - 1) = Emptied(Waiting(n, i, c), "k2")
    BY <1>1, <1>6, <1>7 DEF Emptied
  <1>13. c = 1 => Waiting(n, i, c - 1) = Emptied(Waiting(n, i, c), "k1")
    BY <1>1, <1>8, <1>9 DEF Emptied
  <1> QED BY <1>10, <1>11, <1>12, <1>13

LEMMA CaseStep ==
    ASSUME HashInv, Case
    PROVE  HashInv'
  <1> DEFINE byte == itr + rest - 1
  <1>1. /\ routine = "murmur" /\ InTail
        /\ len \in Nat
    BY DEF HashInv, Case, InBody, InPieces, AtEnd
  <1>2. /\ itr \in Nat /\ rest \in 1 .. 15
        /\ rest <= len - itr
        /\ itr = nblocks * 16
        /\ len - itr <= 15
        /\ rest - 1 \in 0 .. len - itr
    BY <1>1, Blocks DEF InTail, Case
  <1>3. /\ len' = len /\ nblocks' = nblocks /\ itr' = itr /\ at' = "tail"
        /\ routine' = routine /\ rest' = rest - 1
    BY <1>1 DEF Case, nblocks, InTail
  <1>4. itr + (rest - 1) .. len - 1 = {byte} \union (itr + rest .. len - 1)
    BY <1>1, <1>2
  <1>5. touched' = Bytes(0, itr) \union (itr + (rest - 1) .. len - 1)
    BY <1>1, <1>4 DEF InTail, Case, Read
  <1>6. /\ pending = Waiting(len, itr, rest)
        /\ Once(used, len, Mixed(len, itr, rest))
    BY <1>1 DEF InTail
  <1>7. /\ pending' = Waiting(len, itr, rest - 1)
        /\ Once(used', len, Mixed(len, itr, rest - 1))
    <2>1. CASE rest > 9
      <3>1. pending' = Joined(pending, "k2", byte) /\ used' = used
        BY <1>2, <2>1 DEF Case, Register, Joined
      <3>2. Waiting(len, itr, rest - 1) = Joined(Waiting(len, itr, rest), "k2", byte)
        BY <1>1, <1>2, <2>1, WaitingStep
      <3>3. \A b \in Bytes(0, len) : b \in Mixed(len, itr, rest) <=> b \in Mixed(len, itr, rest - 1)
        BY <1>2, <2>1 DEF Mixed, Bytes
      <3> QED BY <1>6, <3>1, <3>2, <3>3, OnceSame
    <2>2. CASE rest \in 2 .. 8
      <3>1. pending' = Joined(pending, "k1", byte) /\ used' = used
        BY <1>2, <2>2 DEF Case, Register, Joined
      <3>2. Waiting(len, itr, rest - 1) = Joined(Waiting(len, itr, rest), "k1", byte)
        BY <1>1, <1>2, <2>2, WaitingStep
      <3>3. \A b \in Bytes(0, len) : b \in Mixed(len, itr, rest) <=> b \in Mixed(len, itr, rest - 1)
        BY <1>2, <2>2 DEF Mixed, Bytes
      <3> QED BY <1>6, <3>1, <3>2, <3>3, OnceSame
    <2>3. CASE rest \in {9, 1}
      <3> DEFINE k == Register(rest)
                 into == pending[k] \union {byte}
      <3>1. /\ pending' = Emptied(pending, k)
            /\ used' = [b \in DOMAIN used |-> used[b] + (IF b \in into THEN 1 ELSE 0)]
        BY <1>2, <2>3 DEF Case, Use, Emptied
      <3>2. /\ Waiting(len, itr, rest - 1) = Emptied(Waiting(len, itr, rest), k)
            /\ \A b \in Bytes(0, len) : b \in into => b \notin Mixed(len, itr, rest)
            /\ \A b \in Bytes(0, len) :
                 b \in Mixed(len, itr, rest) \union into <=> b \in Mixed(len, itr, rest - 1)
        <4>1. CASE rest = 9
          <5>1. k = "k2" /\ into = Waiting(len, itr, rest)["k2"] \union {byte}
            BY <1>6, <4>1 DEF Register
          <5>2. Waiting(len, itr, rest - 1) = Emptied(Waiting(len, itr, rest), k)
            BY <1>1, <1>2, <4>1, <5>1, WaitingStep
          <5>3. into = {b \in itr + rest .. len - 1 : TRUE} \union {byte}
            BY <1>1, <1>2, <4>1, <5>1 DEF Waiting
          <5>4. /\ \A b \in Bytes(0, len) : b \in into => b \notin Mixed(len, itr, rest)
                /\ \A b \in Bytes(0, len) :
                     b \in Mixed(len, itr, rest) \union into <=> b \in Mixed(len, itr, rest - 1)
            BY <1>1, <1>2, <4>1, <5>3 DEF Mixed, Bytes
          <5> QED BY <5>2, <5>4
        <4>2. CASE rest = 1
          <5>1. k = "k1" /\ into = Waiting(len, itr, rest)["k1"] \union {byte}
            BY <1>6, <4>2 DEF Register
          <5>2. Waiting(len, itr, rest - 1) = Emptied(Waiting(len, itr, rest), k)
            BY <1>1, <1>2, <4>2, <5>1, WaitingStep
          <5>3. into = {b \in itr + rest .. len - 1 : b < itr + 8} \union {byte}
            BY <1>1, <1>2, <4>2, <5>1 DEF Waiting
          <5>4. /\ \A b \in Bytes(0, len) : b \in into => b \notin Mixed(len, itr, rest)
                /\ \A b \in Bytes(0, len) :
                     b \in Mixed(len, itr, rest) \union into <=> b \in Mixed(len, itr, rest - 1)
            BY <1>1, <1>2, <4>2, <5>3 DEF Mixed, Bytes
          <5> QED BY <5>2, <5>4
        <4> QED BY <2>3, <4>1, <4>2
      <3> HIDE DEF into
      <3>3. Once(used', len, Mixed(len, itr, rest) \union into)
        BY <1>6, <3>1, <3>2, UseOnce
      <3> QED BY <1>6, <3>1, <3>2, <3>3, OnceSame
    <2> QED BY <1>2, <2>1, <2>2, <2>3
  <1>8. InTail'
    BY <1>2, <1>3, <1>5, <1>7 DEF InTail
  <1> QED BY <1>1, <1>3, <1>8 DEF HashInv

LEMMA FinalizeStep ==
    ASSUME HashInv, Finalize
    PROVE  HashInv'
  <1>1. /\ routine = "murmur" /\ InTail
        /\ len \in Nat /\ rest = 0
        /\ itr \in 0 .. len
    BY Blocks DEF HashInv, Finalize, InBody, InPieces, AtEnd, InTail
  <1>2. \A b \in Bytes(0, len) : b \in Mixed(len, itr, rest) <=> b \in Bytes(0, len)
    BY <1>1 DEF Mixed
  <1>3. Once(used, len, Bytes(0, len))
    BY <1>1, <1>2, OnceSame DEF InTail
  <1>4. touched = Bytes(0, len)
    BY <1>1 DEF InTail, Bytes
  <1> QED BY <1>1, <1>3, <1>4 DEF HashInv, AtEnd, Finalize

-----------------------------------------------------------------------------
(* hash_ap *)

\* A piece of n bytes at itr, of which size >= n bytes are read.
LEMMA Piece ==
    ASSUME HashInv, InPieces, NEW n \in Nat, n <= rest,
           Use(Bytes(itr, n))
    PROVE  Once(used', len, Bytes(0, itr + n))
  <1>1. len \in Nat /\ itr \in 0 .. len /\ Once(used, len, Bytes(0, itr))
    BY DEF HashInv, InPieces
  <1>2. Bytes(0, itr) \union Bytes(itr, n) = Bytes(0, itr + n)
    BY <1>1 DEF Bytes
  <1>3. \A b \in Bytes(0, len) : b \in Bytes(itr, n) => b \notin Bytes(0, itr)
    BY <1>1 DEF Bytes
  <1>4. used' = [b \in DOMAIN used |-> used[b] + (IF b \in Bytes(itr, n) THEN 1 ELSE 0)]
    BY DEF Use
  <1>5. Once(used', len, Bytes(0, itr) \union Bytes(itr, n))
    BY <1>1, <1>3, <1>4, UseOnce
  <1> QED BY <1>2, <1>5

LEMMA EightStep ==
    ASSUME HashInv, Eight
    PROVE  HashInv'
  <1>1. /\ routine # "murmur" /\ InPieces /\ len \in Nat
        /\ itr \in 0 .. len /\ rest = len - itr /\ rest >= 8
    BY DEF HashInv, Eight, InBody, InTail, InPieces, AtEnd
  <1>2. Once(used', len, Bytes(0, itr + 8))
    BY <1>1, Piece DEF Eight
  <1>3. touched = Bytes(0, itr) /\ touched' = Bytes(0, itr + 8)
    <2>1. touched = Bytes(0, itr)
      BY <1>1 DEF InPieces, Eight
    <2>2. touched' = touched \union Bytes(itr, 8)
      BY DEF Eight, Read
    <2>3. itr \in Nat
      BY <1>1
    <2> QED BY <2>1, <2>2, <2>3, BytesUnion
  <1>4. InPieces'
    BY <1>1, <1>2, <1>3 DEF InPieces, Eight
  <1> QED BY <1>1, <1>4 DEF HashInv, Eight

LEMMA FourStep ==
    ASSUME HashInv, Four
    PROVE  HashInv'
  <1>1. /\ routine # "murmur" /\ InPieces /\ len \in Nat
        /\ itr \in 0 .. len /\ rest = len - itr /\ rest < 8
        /\ touched = Bytes(0, itr)
    BY DEF HashInv, Four, InBody, InTail, InPieces, AtEnd
  <1>2. CASE rest >= 4
    <2>1. Once(used', len, Bytes(0, itr + 4))
      BY <1>1, <1>2, Piece DEF Four
    <2>2. touched' = Bytes(0, itr + 4)
      <3>1. touched' = Bytes(0, itr) \union Bytes(itr, 4)
        BY <1>1, <1>2 DEF Four, Read
      <3>2. itr \in Nat
        BY <1>1
      <3> QED BY <3>1, <3>2, BytesUnion
    <2>3. InPieces'
      BY <1>1, <1>2, <2>1, <2>2 DEF InPieces, Four
    <2> QED BY <1>1, <2>3 DEF HashInv, Four
  <1>3. CASE ~(rest >= 4)
    BY <1>1, <1>3 DEF HashInv, InPieces, Four
  <1> QED BY <1>2, <1>3

LEMMA TwoStep ==
    ASSUME HashInv, Two
    PROVE  HashInv'
  <1>1. /\ routine # "murmur" /\ InPieces /\ len \in Nat
        /\ itr \in 0 .. len /\ rest = len - itr /\ rest < 4
        /\ touched = Bytes(0, itr)
    BY DEF HashInv, Two, InBody, InTail, InPieces, AtEnd
  <1>2. CASE rest >= 2
    <2>1. Once(used', len, Bytes(0, itr + 2))
      BY <1>1, <1>2, Piece DEF Two
    <2>2. /\ Bytes(0, itr + 2) \subseteq touched'
          /\ touched' \subseteq Bytes(0, IF routine = "hash_ap_c" THEN len + 2 ELSE itr + 2)
      BY <1>1, <1>2 DEF Two, Read, Bytes, ShortSize
    <2>3. InPieces'
      BY <1>1, <1>2, <2>1, <2>2 DEF InPieces, Two
    <2> QED BY <1>1, <2>3 DEF HashInv, Two
  <1>3. CASE ~(rest >= 2)
    <2>1. touched \subseteq Bytes(0, IF routine = "hash_ap_c" THEN len + 2 ELSE itr)
      BY <1>1 DEF Bytes
    <2>2. InPieces'
      BY <1>1, <1>3, <2>1 DEF InPieces, Two
    <2> QED BY <1>1, <2>2 DEF HashInv, Two
  <1> QED BY <1>2, <1>3

LEMMA OneStep ==
    ASSUME HashInv, One
    PROVE  HashInv'
  <1>1. /\ routine # "murmur" /\ InPieces /\ len \in Nat
        /\ itr \in 0 .. len /\ rest = len - itr /\ rest < 2
        /\ Bytes(0, itr) \subseteq touched
        /\ touched \subseteq Bytes(0, IF routine = "hash_ap_c" THEN len + 2 ELSE itr)
    BY DEF HashInv, One, InBody, InTail, InPieces, AtEnd
  <1>2. CASE rest > 0
    <2>1. rest = 1 /\ itr + 1 = len /\ {itr} = Bytes(itr, 1)
      BY <1>1, <1>2 DEF Bytes
    <2>2. Once(used', len, Bytes(0, len))
      BY <1>1, <1>2, <2>1, Piece DEF One
    <2>3. /\ Bytes(0, len) \subseteq touched'
          /\ touched' \subseteq Bytes(0, IF routine = "hash_ap_c" THEN len + 2 ELSE len)
      <3>1. touched' = touched \union Bytes(itr, 1)
        BY <1>2, <2>1 DEF One, Read
      <3>2. Bytes(0, itr) \union Bytes(itr, 1) = Bytes(0, len)
        <4>1. itr \in Nat
          BY <1>1
        <4> QED BY <2>1, <4>1, BytesUnion
      <3>3. /\ Bytes(itr, 1) \subseteq Bytes(0, IF routine = "hash_ap_c" THEN len + 2 ELSE len)
            /\ Bytes(0, itr) \subseteq Bytes(0, len)
        BY <1>1, <2>1 DEF Bytes
      <3> QED BY <1>1, <3>1, <3>2, <3>3
    <2> QED BY <1>1, <2>2, <2>3 DEF HashInv, AtEnd, One
  <1>3. CASE ~(rest > 0)
    <2>1. itr = len
      BY <1>1, <1>3
    <2> QED BY <1>1, <1>3, <2>1 DEF HashInv, InPieces, AtEnd, One
  <1> QED BY <1>2, <1>3

-----------------------------------------------------------------------------

\* Every step keeps the invariant.
LEMMA HashInvNext == HashInv /\ [HashNext]_hashVars => HashInv'
  <1>1. ASSUME HashInv, UNCHANGED hashVars
        PROVE  HashInv'
    BY <1>1 DEF hashVars, HashInv, InBody, InTail, InPieces, AtEnd, nblocks
  <1> QED BY <1>1, BlockStep, SwitchStep, CaseStep, FinalizeStep, EightStep, FourStep,
             TwoStep, OneStep DEF HashNext

\* For keys of any length both hash functions take every byte in exactly once, and
\* what they read is the key, but for at most two bytes behind it where a short is
\* read as an int.
THEOREM EveryByteOnceHolds == HashSpec => []EveryByteOnce
  <1>1. HashInv => EveryByteOnce
    BY DEF HashInv, InBody, InTail, InPieces, AtEnd, EveryByteOnce, Once
  <1> QED BY <1>1, HashInvInit, HashInvNext, PTL DEF HashSpec
=============================================================================
