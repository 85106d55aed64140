# BF-Trie in TLA+

BF-Trie is an in-memory index of Bloom filters for cache invalidation. This directory
holds TLA+ models of its trees, of the filters they store and of the program that drives
them, TLC configurations that check the models on small instances, and TLAPS proofs. Line
numbers refer to the files under `src/src/`, or to `src/BloomFilterTest/` for the files
there.

## 1. The system

A *signature* (`QueryMetaTrieTree`, `Tool/bloom.h:48-54`) is a Bloom filter with a
`queryId`, a `timestamp` and the word `sym` of three flags. An *index* stores signatures
and answers searches. Two methods of invalidation are chosen at compile time:

- **D-method** (default). Signatures stand for cached queries; a search brings the filter of
  an updated tuple and takes out every signature that *includes* it.
- **V-method** (`-Dinverse=ON`). Signatures stand for updates and carry a time; a search
  brings the filter and time of a cached entry and asks whether a later update's filter is
  *included in* it. Nothing is taken out.

| Component | State | Operations | Interacts by |
|---|---|---|---|
| BF-Trie (`trie_tree/test_bf_trie.h`) | nodes with `MAX_FOUT` slots, each a list, a list of free positions, a child and a spinlock byte; one more byte per node | `Insert2`, `Search`, `GetTotalSize` | shared by all threads; `sym` of the signatures is shared with the client |
| C API (`trie_tree/bftree.cpp`) | none of its own | `CreateIndex`, `IndexInsert`, `IndexSearch`, `GetIndexSize` | calls of the BF-Trie |
| Byte trie (`trie_tree/test_trie_tree_map.h`) | nodes with a map from a byte to a child, lists at the leaves, a `pthread_rwlock_t` each | `Insert2`, `Search` | an alternative index for comparison |
| A-Tree (`trie_tree/test_a_tree.h`) | nodes for sets of positions, linked to nodes of larger sets, a list and a `pthread_rwlock_t` each | `Insert2` with `Adjust`, `Search` | an alternative index for comparison |
| List index (`trie_tree/test_list.h`) | one vector, one `pthread_rwlock_t` | `Insert2`, `Search` | an alternative index for comparison |
| Result list (`Tool/Arraylist.c`) | an array, size and capacity | `Create`, `Add`, `Get`, `Remove`, `Clear`, `Destroy` | result list of each search, owned by one thread |
| Filters (`Tool/bloom.c`) | the salts, which nothing reads | `BloomInsertKey`, `BloomContainKey`, `BloomGenerate` | makes the filters of the clients |
| Hash functions (`Tool/bloom.c`, `bloom.cpp`, `bloom_filter.hpp`) | none | `MurmurHash3_x64_128`, `hash_ap`, seasoning of salts | called by all filters |
| `my_rwlock` (`Tool/bloom.c:495-538`) | one word | `rdlock`, `wrlock`, `trywrlock`, `unlock` | nothing takes it |
| Tools (`Tool/Tools.c`) | none | `FindMid`, `InsertSort`, `zipf` | selection of a median; keys of the benchmark |
| Benchmark (`trie_tree/test_trie_tree.cpp`) | arrays of signatures, `workDone`, `doneThread`, the clock | `test`, `init_func`, `testInsert`, `testMix`, the timer | its threads are the clients of an index |
| Filter objects (`bloom_filter.hpp`) | table, salts, sizes of each object | construction, `=`, `insert`, `contains`, `&=`, `\|=`, `^=`, `compress`, `==` | used by one thread |
| Salted filters (`bloom.cpp`, `test.cpp`) | global salts and sizes, arrays of the caller | `initBloom`, insertion and lookup in two schemes | used by one thread |

What is hard in the indexes is concurrency. The BF-Trie reads list lengths, list elements,
child pointers and `sym` without a lock and acts later on what it read; positions of lists are
recycled while searches walk them; and recursion carries positions of a filter down a tree
whose shape depends on what came before. What is hard in the rest are long sequences of legal
calls (copies, compressions and merges of filters; lists that are filled and emptied) and
arithmetic at boundaries (`size_t` that wraps, widths that differ between two sides, tails of
keys). The properties that make the components correct:

- every index: a search reports what it must (everything that matches and was there when it
  began), only what it may (matches that were there while it ran), and each signature once;
- BF-Trie: a live signature stands at one position on its own path; a free position is
  never one of a live signature, and always inside its list; subscripts stay in range; locks
  are always given back; calls return; the size is exact;
- V-method: a "no" is right and a "yes" has a reason;
- byte trie: one way leads to each node; A-Tree: a list holds signatures of one set of zeros
  only, and the parent links have no cycle;
- filters: no false negatives, and no bits but those of the keys; the filter of a range
  includes the filter of each of its keys;
- result list: it is the sequence its calls describe, and stays inside its array;
- benchmark: each signature is generated and inserted once, a search leaves no valid signature
  whose range its key hits, what is invalidated is reported, and the program ends.

`PROJECT.json` lists the hazards with the lines where they bite and the properties that
watch them.

## 2. The modules

| Module | Models | Correspondence |
|---|---|---|
| `SignatureIndex` | what `Readme.md:55-60` promises in the D-method | abstract specification: what is stored, who is searching for what, what a search owes and what it may hand over |
| `TrieGeometry` | `getPosition`, the slot and child arithmetic | a filter is the set of its '1' bits; the walk along `position[]` is the set of positions not consumed yet |
| `BFTrie` | D-method BF-Trie, C API | below |
| `BFTrieV` | V-method BF-Trie, the clock of the benchmark | like `BFTrie`, with `end_node`, timestamps and an answer instead of free positions and a result list |
| `TrieTree` | byte trie, D-method | one step per section of a node's lock |
| `ATree` | A-Tree, D-method | one step per section of a node's lock; `Adjust` is a step per child |
| `ListIndex` | list index, D-method | one step per access to shared memory; the lock is two sets of holders |
| `Arraylist` | `Tool/Arraylist.c` | the operations as functions of a list with capacity, size and data; `fault` is an access outside the array |
| `ArraylistUse` | one list in the hands of a thread | beside it the sequence it stands for |
| `Hashing` | salts, sums of checksums, position of a bit | hash functions are constants; the sum is taken in 32 and in 64 bits as the two sides do |
| `PrefixBloom` | `Tool/bloom.c` filters, `BloomGenerate` | operators; a filter is a set of pairs of a character and a bit |
| `Benchmark` | `test_trie_tree.cpp` on the list index | `EXTENDS ListIndex, PrefixBloom`: stages of `main`, program counter of each worker |
| `BloomFilter` | the classes of `bloom_filter.hpp` | one action per operation; `size_list` is held as what it makes of each hash |
| `SaltedBloom` | `bloom.cpp` with the parameters `test.cpp` sets | one action per call; the salts are state |
| `KeyHash` | `MurmurHash3_x64_128` and both `hash_ap` | one step per round of a loop, case of the switch or piece of the key; the arithmetic is left out, where each byte goes is not |
| `RwLock` | `my_rwlock` | one step per read of the word and per `__sync` operation |
| `Selection` | `FindMid`, `InsertSort` | one step per group of five and per call |
| `*Proofs` | | proofs about the module of that name; those about `BloomFilter`, `SaltedBloom`, `RwLock`, `ArraylistUse` and `KeyHash` are in `UnitProofs`, as `MCUnits` runs them beside each other |
| `SharedLemmas` | | lemmas of several proofs: what stands for induction, sums of sizes, remainders, lists appended to lists |
| `MC*` | | instances for TLC; `MCUnits` puts the parts that share no state with an index beside each other, one of them running in each behaviour |

**`BFTrie`** has one control variable per thread (`ipc`, `spc`) and one action per access
to something other threads write: an unlocked read (`ProbeFree`, `ProbeRoom`, `ProbeChild`,
`Elem`, `Descend`), the acquisition of a spinlock (`ILockList`, `LockNode`, `SLockList`), and
a locked section with its release (`Reuse`, `ReuseLost`, `Push`, `NewNode`, `Count`,
`AddRemoveAtomic`). A locked section may be one step because what other threads read inside
it without the lock is one word. `stack` holds the activations of the recursive
`BFTrieNode::Search`. `Mark` is the read-modify-write of the plain `int` `sym`; since the
`int` is read and written by several threads, the step may keep or drop the bits another
thread set after this one saw 0. `ClientDelete` is external: `SearchPtrList` tests for
`DEL_FLAG`, which only the owner of a cached entry can have set. The configuration in the
model is that of the default definitions: `INVERSE_ZERO`, `REMOVED_LIST` and `MINI_LOCK`
(`test_bf_trie.h:61-63`), filters of 64 bits.

**`BFTrieV`**: `INVERSE_ZERO` is in force in this build too, so `SearchPtrList` is that of
lines 229-308 and the descent that of lines 623-659. `ScanSlot` reads a copied `end_node` and
the first `count` elements of a list, neither of which changes; only timestamps do.

**`TrieTree`** and **`ATree`**: no thread holds two of the `pthread_rwlock_t`, and a section
of one is a step. What a thread keeps between sections (a node, a vector of children, the
candidates of a merge) is a variable. In `TrieTree` all accesses to a node are inside
sections of its lock. In `ATree` two places are not so guarded, and each can set
`undefined`, after which nothing is claimed:

- `Adjust` pushes to the vector it iterates over when a parent of a child lies below the
  new node (line 71).
- A new node is inserted into the map of its first child twice: under that child's lock
  (`LinkNew`, lines 280-282) and under the lock of the second child (`LinkAgain`, lines
  283-285). The second insert finds its key and changes nothing, but walks through the map.
  From `LinkNew` to `LinkAgain` the thread may be in the map (`Walked`); if another thread
  adds a parent to that child meanwhile, the step may be taken as an overlap. Readers of the
  map are not disturbed by a walk.

`overlapped` is a history variable: an insertion has begun while another was running.

**`Benchmark`**: a worker is one thread in all three phases; `id` is `thread_id`, in phase one
the order of arrival and then the number `main` gives it. A turn of the loop reads `workDone`
and decides what to call; a call is the steps of `ListIndex` up to the release of the lock.
Each signature is generated by a choice among what the random numbers can make of it. `main`
waits a bounded number of ticks (`workTime * 10` in the code) and looks at `doneThread` in
each. `workDone` is a plain `bool`; it is read afresh in every turn because a turn contains a
call the compiler cannot see through. Of a thread that left the loop nothing remains but its
result list. `BenchmarkAssumption` asks for at least as many signatures as threads.

**`BloomFilter`**: an object is its table (`bits`, `tableSize`, and `room`, the places the
vector really has), its salts and `at`, which says what `size_list` makes of each hash;
history variables say which keys an object has to contain (`held`) and whether it has been
treated so that no others can be found (`exact`). A subscript outside a vector sets
`undefined`, and nothing is claimed of what follows.

`SignatureIndex` is implemented by three modules (`KeepsPromise`, a refinement mapping with
`INSTANCE ... WITH` in each): a signature counts as stored from the end of its insertion
until its `sym` is set (BF-Trie) or it is moved to a result list (the other trees). The list
index does not implement it: two searches that read the mark before either sets it both report
a signature (`test_list.h:69`); what it does keep is in `Benchmark`.

## 3. The runs

Every bound is a constant: `MaxNode`, `MaxInserts`, `MaxSearches`, `MaxTime`, `WorkTicks`,
`MaxCalls`, `MaxSaltedCalls`, `MaxListCalls`, `MaxLen`. A step that would need another node or
call is disabled; the bounds of nodes are large enough for the insertions of each run, as TLC
would report a deadlock in the middle of a call otherwise.

| Run | Instance | Shows |
|---|---|---|
| `trie_1i1s` | 1 inserter, 1 searcher, 4 bits, fan-out 2, lists of 1; 4 insertions, 2 searches, one filter deleted by its client | all interleavings of two threads: types, free list, size, place of every signature, completeness, and refinement of `SignatureIndex` |
| `trie_calls` | one call at a time, any 3 filters of 4 bits, one of which may be deleted, and any query | slots, tail children and far positions are walked alike by insertion and search |
| `trie_races` | 2 inserters, 1 searcher, lists of 2, weak fairness | what races cannot break: locks, full slots above children, free positions in bounds, and every call returns, with retries |
| `trie_two_searchers` | 1 inserter, 2 searchers, 1 bit | violation: a position is given back twice, a fresh signature overwritten |
| `trie_insert_race` | 2 inserters, 1 searcher | violation: a subtree is lost |
| `trie_saturated` | a filter of ones only | violation: accepted, stored nowhere |
| `trie_v` | 1 inserter, 1 searcher, clock of 3 values, 5 bits, two signatures of each of three filters | which V-method answers can be relied on |
| `trie_v_included` | the same | violation: a match is missed |
| `trie_tree` | 2 inserters, 2 searchers, 2 bytes of one bit | one way to each node, refinement of `SignatureIndex` |
| `atree` | 2 inserters, 1 searcher, 3 bits, four overlapping signatures, two of which are inserted | until a map or vector is changed in use: exact nodes, refinement of `SignatureIndex`, every call ends; and that this happens only after insertions have overlapped |
| `units` | one unit in each behaviour: 3 filter objects in 5 calls; salted filters in 2 arrays and 4 calls; keys of up to 40 bytes; 3 threads on `my_rwlock`; lists of capacity 0 to 3 in 6 calls; arrays of up to 13 elements | no false negatives and exact bits through copies, merges and compressions; keys found until the next `initBloom`, at most one bit per prefix; each byte hashed once; what `my_rwlock` excludes; lists are sequences; `FindMid` only moves elements and returns no small one |
| `clients` | 2 threads, 3 signatures each for insertion, phase two and search, filters over 3 hashes of 4 bits; the time may be over at once | the benchmark on the list index from the generation of signatures to its end |

Why the bounds are enough: a fan-out of 2 has a near slot and a tail; four bits make a
path of three nodes with a tail child entered without consuming a position; lists of one
signature split at the second insertion; four insertions after a search that took something
out reach reuse, retry, split and descent. In `trie_races` all signatures have the same two zeros, which make a
path of two nodes, so that all threads race on the same cells. What does not happen there is that two
inserters want the byte of one node at a time, or that an index wraps; `LocksGivenBack` and `ReuseInBounds`
are proved for any number of threads and any width. Two bytes of the byte trie have an
inner node and a leaf. Three bits are the least for which an A-Tree node covers another one
that covers a third. Two insertions of `atree` can have one add to the map that the other walks through
(line 284); to change the vector of line 71 takes a third (with the zeros {0, 1}, {1, 2} and {0, 1, 2}),
which is too much with a search beside them. `SafeUnlessOverlappedHolds` is for any number. In `units`, five calls are enough to construct two objects, fill one, compress it
and merge or assign it; words of four bits and tables whose size is no multiple of a character make sums
wrap and remainders differ; 40 bytes are two blocks and a half of MurmurHash3 with all 15 tails; six
calls double a list of capacity 1 twice; 13 elements are two full groups, a rest and a second level. In
`clients`, three signatures for two threads leave a rest to the last, and keys, ranges and hashes
collide.

**Atomicity and memory.** Steps are sequentially consistent; the spinlock is an `xchg` with a
compiler barrier, the rest is as ordered as x86 leaves it. A list that `push_back` reallocates
while a search reads it without the lock is freed memory in the code; the models keep its
elements where they are. Symmetry is used where threads, signatures of one filter, or objects are
interchangeable and no liveness is checked.

**Fairness.** Calls have to go on once begun (weak fairness of each thread's steps, calls
themselves excluded): threads of the operating system are scheduled again and again, and
nothing else is assumed. A spinlock that is passed around could starve a thread under weak
fairness alone, but calls are finite in number in the run, so each lock is free for good in the end; in a
run without such a bound `CallsReturn` would need strong fairness of the acquisitions, which
a test-and-set lock does not give. In `ATree` the fairness is part of `Spec`, for its
steps as long as the behaviour is defined, and `CallsEnd` says that each call ends or the behaviour gets
to where it is not. In `Benchmark` it is weak fairness of `main` and of each
worker; there the number of calls is bounded by the program itself.

Deadlock is not checked in `units` and `clients`: a sequence of calls and a program end.

## 4. Disagreements of code and documentation

The four violation runs each refute a sentence of `Readme.md`:

1. `trie_insert_race`: a child that another insertion has just stored is replaced
   (`test_bf_trie.h:488-491` tests before the lock and not under it). Needs two inserting
   threads. The byte trie does the test under the lock and passes `OneWayToNode`.
2. `trie_two_searchers`: `~(sym & REMOVED_FLAG)` (line 221) is never 0, so two searches that find one
   signature both give its position back, and both report it. Needs two searching threads.
3. `trie_saturated`: a filter without zeros has no position to be stored at (line 520).
4. `trie_v_included`: `INVERSE_ZERO` (line 61) is right for the D-method, which looks for
   supersets, and wrong for the V-method, which looks for subsets.

Met on the way, and visible in the models without a run of their own:

- `uint16_t` free positions (`test_bf_trie.h:160`) of lists that grow without limit at a last
  position (line 482): an index wraps above 65535 and a live signature can be overwritten. The
  constant `IndexRange` of `BFTrie` is that width; `FreeIndexInBounds` is proved for any.
- `Adjust` (`test_a_tree.h:59-75`) may push to the vector it iterates over, and line 284 inserts into the map
  of one child under the lock of the other (`undefined` in `ATree`; both need insertions that overlap).
- Two searches of the list index may report one signature (`test_list.h:69`).
- `ArraylistRemove` passes its guard on an empty list, and a list created with capacity 0 never grows
  (`Arraylist.c:51`, `:23`): `regular` in `ArraylistUse` excludes both.
- `my_rwlock` keeps nobody out when readers and writers are mixed; `LockOfOneRole` is what is left.
- The seasoning of salts works in place: after a second `initBloom` keys inserted before it are not
  found (`bloom.cpp:112`). Equality of filter objects does not compare `size_list`
  (`bloom_filter.hpp:189`).

## 5. What is proved

For every value of the constants, from the named assumptions in the modules alone.

**`BFTrieProofs`**, for every filter size and fan-out (`GeometryAssumption`: both at least 1),
every set of signatures, threads and queries, every list length and index width
(`TrieAssumption`), and every bound:

- `TypeCorrect`: `Spec => []TypeOK`;
- `DescentsAhead`: `Spec => []PositionsAhead`, so that the subscripts of lines 314-316, 448 and
  524 are in range for every thread;
- `ReuseInBounds`: `Spec => []FreeIndexInBounds`, so that line 453 never writes past a list,
  even when 16-bit indexes wrap and two inserters lose subtrees;
- `ShapeInvariant`: `Spec => []Shape`, the inductive invariant behind the three;
- `LocksGivenBack`: `Spec => []LockDiscipline`;
- `SlotsFullAboveChildren`: `Spec => []ChildImpliesFull`.

None of these properties is inductive. A child pointer may be followed only because the child's
position is the one its slot says (`TreeShape`), and the positions left are then behind it
because an inserter descends only with more than one position left and with a child in
its slot (`DescendShape`), while a searcher keeps the positions of every waiting activation behind
that activation's node (`SearcherShape`). A free index is in bounds because a search pushes
only positions below a `count` it read while the list was no longer than now: lists never
shrink. That needs `count <= Len(ptrList)` for each searcher in mid-scan, and that the cell it
scans is the one of its current slot. `Shape` is the conjunction of these; the proof has a lemma
for `Init`, one per action, and a last step with `PTL`. For the locks, `LockInv` says of each thread
which byte it holds (`Held`), that the byte is set, and that nobody else holds it; a step that takes or
gives back a lock is one of two lemmas about a set byte, whatever the thread does beside it. For the slots,
`FullInv` adds to the property that an insertion on its way to line 490 stands at a full
slot; it is inductive because lists never shrink (`ListsGrow`).

**`BFTrieProofs`, second part** (`FreeListsSound`, `StoredSafely`, `SearchesComplete`, `TrieKeepsPromise`:
`Spec => KeepsPromise`, `TotalSizeIsExact`, `ListsFit`), for every filter size, fan-out, list length, set of signatures and
queries. Each hypothesis is one the code needs, and a run shows a violation without it:

| Hypothesis | Meaning | Used by | Without it |
|---|---|---|---|
| `OneSearcher` | one searching thread at most | all five | `trie_two_searchers` |
| `OneInserter` | one inserting thread at most | all but `FreeListsSound` | `trie_insert_race` |
| `HaveZeros` | each filter has a '0' bit | all but `FreeListsSound` | `trie_saturated` |
| `[]Fit` | no list is longer than `uint16_t` counts | all five | the wrapped index of section 4 |

`[]Fit` is a formula about behaviours, not about constants; `ListsFit` shows that it holds if there are no
more insertions than the index type has values. The argument is a chain of invariants, each
inductive with those before it:

1. `ListInv`, for any number of threads: a signature belongs to one insertion, stands at one position of
   one list, and only once its insertion has stored it.
2. `OfferInv`, for one searcher: what a free list offers is a position, once, of a signature that was reported
   or deleted; what a search is about to give back has not been given back (`ReportInv`). So `Reuse` overwrites
   nothing that is live.
3. `PathInv`: a *walk* is a node with the positions still to be spent; a signature is stored at a cell its
   own walk goes through (`Stored`), an insertion stands on the walk of its signature (`OnPath`), and a node
   has one parent (`ParentInv`). Walks are kept when a child is added, because with one inserter
   the slot was empty.
4. `OwedInv`: every live signature a search still owes lies ahead of it (`Owes`): in the rest of the
   slot it scans, or behind a slot, child or waiting activation it has not come to (`Due`, `Comes`). What is
   pushed behind the search is not owed. A search that takes `count` before a push
   misses only what was not there when it began.
5. `SeenInv`: what a search holds as a match, or has reported, was stored while it ran, and stands in no other
   search's list.
6. `CountInv`: every node but the root is the child of one made before it (`ReachedInv`), nothing stands at a node
   that was not made, what was given back and still stands is on offer (`FreedInv`), and what was
   inserted and not given back stands somewhere (`KeptInv`). The size is then a sum over slots and nodes of the
   sizes of disjoint sets (`CellCounted`, `NodeCounted`, `TotalCounted`), because a free list names each of its
   positions once.

With these, each step of the trie is one step of `SignatureIndex` or a stutter: `Push` and `Reuse` are its
insertion, the `Mark` that sets `sym` its report.

**`BFTrieVProofs`**, for every filter size, fan-out, list length, set of signatures and times:

- `TypeCorrect`, `DescentsAhead` and `ShapeInvariant`, for any number of threads: `Shape` is that of the
  D-method without what free lists need.
- `YesHasReasonHolds`, for any number of threads. Lists and copies of them hold signatures that were given to
  the index (`TakenInv`); a signature gets its time when it is given, and after that only a later one
  (`StampsGrow`), so that what was a reason for a yes stays one while times are written under a search.
- `EqualFoundHolds`, for one inserting thread and any number of searching ones, under three hypotheses:

| Hypothesis | Meaning | Without it |
|---|---|---|
| `OneInserter` | one inserting thread at most | the race of `trie_insert_race` loses a subtree in this build, too |
| `HaveZeros` | each filter has a '0' bit | a signature is stored nowhere, as in `trie_saturated` |
| `IdsTell` | a signature that `Insert2` takes for another one (lines 468-469) has its filter | the update of one filter becomes a new time of another one |

`IdsTell` speaks of `queryId`, which the client chooses. The argument has two invariants. `PathInv`: for each
signature whose insertion has ended, one with its filter and no earlier time is kept on the walk of that filter
(`Stored`). That one may be another signature, and it may become yet another one when `end_node` is searched
again. `OwedInv`: as long as a search has not found an update of exactly its filter, a signature it would accept
(`Due`) is in what it copied, or on a walk from one of its activations (`Comes`). Unlike in the D-method nothing
is taken out, so other searches cannot take away what a search still has to find, and their number does not
matter.

**`TrieTreeProofs`** (`TypeCorrect`, `OneWayToNodeHolds`, `StoredAtOwnLeafHolds` and
`ByteTrieKeepsPromise`: `Spec => KeepsPromise`), for any number of inserting and searching threads, levels,
bytes and signatures. A *way* is what the bytes of a filter lead to from the root (`Way`, the `NodesOn` of the
model). Ways never lose a node, as maps only grow, and end in one node at most, as a byte has one child
(`WaySingle`). `TrieInv` says that children are nodes that were made (`TreeInv`); that an
insertion stands on the way of its signature, which nobody else inserts (`InsertInv`); that what a
leaf stores ends its way there and stands there once (`LeafInv`); that what was reported is stored no more
(`ReportInv`); and that a search has, for each stored signature it owes, a node still to be visited on that
signature's way (`SearchInv`). The last is the argument for completeness: visiting a node replaces it by
the children that may lead to a match, the way goes through one of them, and an activation that
returns with no node left can be the one ahead of nothing. With `TrieInv`, each step of the trie is one step of
`SignatureIndex` or changes nothing it sees. The promise contains no fairness; that calls of the byte trie
return is not claimed.

**`UnitProofs`**, about `BloomFilter` (`TypeCorrect`, `NoFalseNegativesHolds`, `ExactBitsHolds`,
`IndexInTableHolds`), for all parameters, hash functions, objects and sequences of calls. `FilterInv` says of each object that its salts follow from its parameters, that its
table is large enough for what a hash becomes (`Good`), that it has the bits of the keys it must
contain (`HasKeys`), and, if it is exact, no others (`Exactly`). The step that matters is compression: a bit
folded over the new table stands where the hash goes with one remainder more, which needs that the
part folded is no longer than the part kept.

In the same module, `FoundSinceInitBloomHolds` about `SaltedBloom`: both schemes find a key until the
next `initBloom`, for any width of a word and any size: a sum cut down to a word in every step is the sum
cut down once at its end (`SameHash`). `PrefixesShareBitsHolds`: a new array of the range
scheme has at most one bit for each prefix of its keys, because its bits are those of its keys under the
salts of now (`FreshInv`: `initBloom` alone changes them, and it empties the array), and two keys with a
prefix in common go through the same checksum for it.

About the tools, in that module too:

- `EveryByteOnceHolds`: keys of any length; the invariant says for each place of the
loops and of the switch which bytes are done, which wait in `k1` and `k2`, and which are ahead.
- `LockOfOneRoleHolds`: any number of threads of one role.
- `ListIsSequenceHolds`: any capacity from 1, any calls, as long as `size_t` counts
twice as many places as there are calls (`ArraylistAssumption`).

**`BenchmarkProofs`**, for any number of threads, any arrays and hash functions:

- `GeneratedContainsKeys`, `RangesOfKeyInvalidatedHolds`. `BenchInv` says who holds the lock (`LockInv`), that
a call in progress is one its thread is in (`CallInv`), that phase-two shares are those of the threads'
numbers (`ShareInv`), and that a reading search has left no match unmarked behind its position (`ScanInv`);
the last holds because insertions wait for readers and marks are never taken back. That a match of bits
covers a hit of ranges is `KeyInRange`: a key in a range is one that `BloomGenerate` inserted.
- `OncePerSignatureHolds`. The numbers that `init_func` gives out are those below the count of threads that
have one, no number twice (`NumberInv`), so that all are given out when phase two begins; the shares made of
them lie side by side and fill the arrays (`OwnerExists`, `OwnerUnique`), also when the threads do not divide
`TOTAL`. What is written and listed is then, thread by thread, the part of its own share that a thread has
been through (`WrittenInv`, `ListedInv`).
- `InvalidatedAreReportedHolds`, under `4 * TOTAL <= SizeRange`: `TOTAL` is an `int` and `size_t`, which counts the
places of a result list, has 64 bits. A thread's list holds marked signatures, once each (`Sound`), because
what a search has found was unmarked and so in no list (`FoundInv`); a mark is in a list or in the hands of
the thread that is about to report it (`Accounted`).

**`ATreeProofs`** (`TypeCorrect`, `StoredAtExactNodeHolds`, `ATreeKeepsPromise`: `Spec => KeepsPromise`, and
`SafeUnlessOverlappedHolds`), for any number of inserting and searching threads, bits, nodes and signatures.
The first three say what holds until a map or vector is changed while it is in use (`undefined`), as the model
stops there; the last one says that none is before insertions have overlapped. So all of it holds of every
program whose insertions do not overlap, such as one with a single inserting thread. `ATreeInv` has four parts:

1. `TreeInv`: a parent has all positions of its child, and a node that matters can be reached. `Reachable(n)`
   says so without paths, which would need induction: every set of nodes that contains the root and is closed
   under the parents that fit contains `n`, for every filter that `n` fits. Parents are only added, so a set
   that is closed later was closed before, and what was reachable stays so (`AheadKept`).
2. `InsertInv`: the children and candidates of an insertion can be reached and cover its signature
   (`Covers`); replacing a child by a parent that fits, dropping those a candidate covers (`MergedCovers`) and
   joining two under a new node all keep that. So one child left stands for exactly the zeros. The
   new node of two children is reachable by the link to one of them; that line 284 does not link it to the
   second child hides nothing from a search: who comes to the new node fits both children.
3. `ListInv`: a signature is stored once, at a node for exactly its zeros, and not in a result list.
4. `SearchInv`: what a search owes stands at the node whose list it is about to take, or `Ahead` of the nodes it
   has still to visit. When none is left, nothing is ahead (the empty set is closed), so the search owes
   nothing. That a search visits only nodes that fit is what makes taking a list unseen sound.

With `ATreeInv` a `Push` is an insertion of `SignatureIndex`, a `TakeAll` of a list with signatures is a
report, and every other step of an insertion is a stutter.

For `SafeUnlessOverlappedHolds` the invariant is `overlapped \/ AloneInv`. `AloneInv` says that at most one
insertion is running; that every parent stands for some position (`ParentsStand`), so that line 231 takes any
parent that fits (`BestExists`); and, for the children the scan has passed without replacing one, that none of
their parents is within the filter (`ScannedInv`). Then there is no candidate, the children that are joined are
two of these (`MergedNone`), the new node stands for some of the filter's positions, and a parent below it
would be within the filter. Searches change no parents. Of the second insert it is enough that no other
insertion is running.

**`SelectionProofs`** (`MovedAndNotSmallHolds`), for arrays of every length and any first and last place. That elements
only move is a permutation each group adds to (`MovedBy`): `InsertSort` is one that orders its range
(`InsertSortSorts`). That the result is not small needs a count of what is known. `Standing` gives each place of
the array a set of elements of the first array that are not larger than what stands there (`Piles`), the
sets of two places disjoint. In a pass every place but the last counts for the same number `f` of parts and
the last for `w`, with `w <= 2 * f`, and `f * r + w` is the number of all elements. The median of five takes over the
sets of three (`GroupStands`), worth `6 * f` half parts where `5 * f` are due; the last group, of one to six elements
and with the odd one anywhere in it, is just enough (`HalfIsEnough`). So nothing is lost but a factor of two in each
pass, the history variable `share`. More cannot be said in general: three tenths, as one expects of a median of
medians, hold in arrays small enough for two passes, and not with 65 elements.

Where an argument is by induction over data (the rounds of a hash, the seasoned salts, the compressed
sizes, the levels of a way in the byte trie, a list without some of its elements, the merging of candidates, a sort by insertion), the induction is done by hand
with a least counterexample (`NatMin`, `SetInduction`), and
recursive functions are shown to exist by `RecursionExists`, all in `SharedLemmas`.

Only model-checked: liveness (`CallsReturn`, `CallsEnd`, `TestEnds`), which is outside the prover's
reach. Every invariant and every other property that a passing run checks is a theorem.

## 6. Not modelled

- Filters longer than 64 bits in the BF-Trie (lines 254-265, 340-367): every word of the query is
  compared with the signature's first word there, and positions are never reused.
- The result list of a V-method search, the V-method of the byte trie, the A-Tree and the list
  index, and phase two of the benchmark in the V-method.
- `TrieTree::Delete`, which visits nothing and has no caller; `ATree::Delete`, `BFPRT` and `Partion`, which are
  declared without a body.
- Timestamps in `ListIndex`: the D-method's programs never set them.
- The benchmark on the other indexes: a worker's calls are those the models of these indexes begin.
- The arithmetic inside the hash functions; random numbers; the floating-point searches of `calcPara` and
  `compute_optimal_parameters`, of which only the result counts; percentiles, times and printing; the rates of
  false positives `test.cpp` measures; the archives of surveyed projects; the build files.

## 7. Plan

Done: all modules of section 2 and the proofs of section 5. What could follow:

1. The build for filters longer than 64 bits, whose lists only grow.
2. The V-method of the other trees and phase two of the benchmark with it, with two clocks that drift.
