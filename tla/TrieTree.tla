------------------------------ MODULE TrieTree ------------------------------
(***************************************************************************)
(* The trie on bytes of src/trie_tree/test_trie_tree_map.h (the program    *)
(* uses it with -Duse_trie=ON), D-method, as it is built: no TRIE_MASK_OPT *)
(* and no TRIE_INSERT_OPT, so that the masks are not there and the calls   *)
(* of resetMask do nothing.                                                *)
(*                                                                         *)
(* Every access to a node happens inside one section of its                *)
(* pthread_rwlock_t, and no thread holds two of these locks: a section is  *)
(* one step here.  Between two sections a thread keeps a node pointer, or  *)
(* a vector of them, and anything may happen to the nodes.                 *)
(***************************************************************************)
EXTENDS Integers, Sequences, FiniteSets

CONSTANTS
    Levels,       \* Bloom_table_size: the bytes of a filter
    ByteBits,     \* the bits of a byte
    Meta,         \* signatures; each is inserted at most once by its client
    NoMeta,       \* a register that holds none
    Data,         \* Data[m]: the '1' bits of m's filter, as <<byte, bit>>
    Queries,      \* the filters that are searched for
    MaxNode,      \* bound: nodes that can be allocated
    MaxInserts,   \* bound: insertions in a behaviour
    MaxSearches,  \* bound: searches of each searcher
    Inserters,    \* threads in Insert2
    Searchers     \* threads in Search

Filter == SUBSET ((1 .. Levels) \X ByteBits)

ASSUME TrieTreeAssumption ==
    /\ Levels \in Nat \ {0}
    /\ NoMeta \notin Meta
    /\ Data \in [Meta -> Filter]
    /\ Queries \subseteq Filter
    /\ MaxNode \in Nat \ {0}
    /\ MaxInserts \in Nat
    /\ MaxSearches \in Nat

Node == 1 .. MaxNode
Root == 1

\* data[l - 1]: the byte that leads from depth l - 1 to depth l.
Byte == SUBSET ByteBits
ByteAt(filter, l) == {b \in ByteBits : <<l, b>> \in filter}

VARIABLES
    nodeNum,      \* nodes constructed so far
    maps,         \* maps_ of each node: pairs <<byte, child>>
    ptrList,      \* ptr_list_ of each node
    imeta,        \* Insert2's meta, or NoMeta between calls
    inode,        \* Insert2's node
    ilevel,       \* i in Insert2
    squery,       \* Search's meta
    stack,        \* for each activation of Search the nodes it has still to
                  \* visit, the outermost first
    removedQuery, \* the caller's result list
    asked,        \* searches begun by each searcher (for MaxSearches)
    taken,        \* signatures Insert2 was called with
    inserted,     \* signatures whose Insert2 has stored them
    owed,         \* what each searcher's search has to find
    seen          \* what was findable at some time since the search began

treeVars == <<nodeNum, maps, ptrList>>
insVars == <<imeta, inode, ilevel, taken, inserted>>
searchVars == <<squery, stack, removedQuery, asked, owed>>
vars == <<treeVars, insVars, searchVars, seen>>

TypeOK ==
    /\ nodeNum \in Node
    /\ maps \in [Node -> SUBSET (Byte \X Node)]
    /\ ptrList \in [Node -> Seq(Meta)]
    /\ imeta \in [Inserters -> Meta \cup {NoMeta}]
    /\ inode \in [Inserters -> Node]
    /\ ilevel \in [Inserters -> 0 .. Levels]
    /\ squery \in [Searchers -> Filter]
    /\ stack \in [Searchers -> Seq(SUBSET Node)]
    /\ removedQuery \in [Searchers -> Seq(Meta)]
    /\ asked \in [Searchers -> Nat]
    /\ taken \subseteq Meta
    /\ inserted \subseteq taken
    /\ owed \in [Searchers -> SUBSET Meta]
    /\ seen \in [Searchers -> SUBSET Meta]

\* TrieTree::TrieTree
Init ==
    /\ nodeNum = Root
    /\ maps = [n \in Node |-> {}]
    /\ ptrList = [n \in Node |-> <<>>]
    /\ imeta = [i \in Inserters |-> NoMeta]
    /\ inode = [i \in Inserters |-> Root]
    /\ ilevel = [i \in Inserters |-> 0]
    /\ squery = [s \in Searchers |-> {}]
    /\ stack = [s \in Searchers |-> <<>>]
    /\ removedQuery = [s \in Searchers |-> <<>>]
    /\ asked = [s \in Searchers |-> 0]
    /\ taken = {}
    /\ inserted = {}
    /\ owed = [s \in Searchers |-> {}]
    /\ seen = [s \in Searchers |-> {}]

-----------------------------------------------------------------------------
(* Insert2 *)

Insert2(i, m) ==
    /\ imeta[i] = NoMeta
    /\ m \in Meta \ taken
    /\ Cardinality(taken) < MaxInserts
    /\ taken' = taken \cup {m}
    /\ imeta' = [imeta EXCEPT ![i] = m]
    /\ inode' = [inode EXCEPT ![i] = Root]
    /\ ilevel' = [ilevel EXCEPT ![i] = 0]
    /\ UNCHANGED <<treeVars, inserted, searchVars, seen>>

\* Mutants: any child whose byte includes the one that is looked for; a child
\* is made without looking for one.
FoundLarger(n, ch) == {e[2] : e \in {x \in maps[n] : ch \subseteq x[1]}}
FoundNone(n, ch) == {}

\* maps_.find(ch): the child, if there is one.
FoundChild(n, ch) == {e[2] : e \in {x \in maps[n] : x[1] = ch}}

\* Mutant: one byte too many.
MoreBytesOne(i) == ilevel[i] <= Levels

\* i < Bloom_table_size
MoreBytes(i) == ilevel[i] < Levels

\* One turn of the loop over the bytes, under the write lock of the node: go to
\* the child, which is created if there is none.
StepDown(i) ==
    LET n == inode[i]
        ch == ByteAt(Data[imeta[i]], ilevel[i] + 1)
    IN  /\ imeta[i] # NoMeta
        /\ MoreBytes(i)
        /\ ilevel' = [ilevel EXCEPT ![i] = @ + 1]
        /\ \/ /\ \E child \in FoundChild(n, ch) : inode' = [inode EXCEPT ![i] = child]
              /\ UNCHANGED <<nodeNum, maps>>
           \/ /\ FoundChild(n, ch) = {}
              /\ nodeNum < MaxNode
              /\ nodeNum' = nodeNum + 1
              /\ maps' = [maps EXCEPT ![n] = @ \cup {<<ch, nodeNum + 1>>}]
              /\ inode' = [inode EXCEPT ![i] = nodeNum + 1]
        /\ UNCHANGED <<ptrList, imeta, taken, inserted, searchVars, seen>>

\* push_back at the last node, under its write lock; Insert2 returns.
PushLeaf(i) ==
    /\ imeta[i] # NoMeta
    /\ ~MoreBytes(i)
    /\ ptrList' = [ptrList EXCEPT ![inode[i]] = Append(@, imeta[i])]
    /\ inserted' = inserted \cup {imeta[i]}
    /\ seen' = [s \in Searchers |-> IF stack[s] = <<>> THEN {} ELSE seen[s] \cup {imeta[i]}]
    /\ imeta' = [imeta EXCEPT ![i] = NoMeta]
    /\ inode' = [inode EXCEPT ![i] = Root]
    /\ ilevel' = [ilevel EXCEPT ![i] = 0]
    /\ UNCHANGED <<nodeNum, maps, taken, searchVars>>

InserterStep(i) == StepDown(i) \/ PushLeaf(i)

-----------------------------------------------------------------------------
(* Search, TrieNode::Search and RecursiveGetData *)

\* What a search can still find.
Stored == {m \in Meta : \E n \in Node : \E k \in 1 .. Len(ptrList[n]) : ptrList[n][k] = m}

\* Search of the root.
Search(s, q) ==
    /\ stack[s] = <<>>
    /\ asked[s] < MaxSearches
    /\ asked' = [asked EXCEPT ![s] = @ + 1]
    /\ squery' = [squery EXCEPT ![s] = q]
    /\ stack' = [stack EXCEPT ![s] = <<{Root}>>]
    /\ owed' = [owed EXCEPT ![s] = {m \in Stored : q \subseteq Data[m]}]
    /\ seen' = [seen EXCEPT ![s] = Stored]
    /\ UNCHANGED <<treeVars, insVars, removedQuery>>

\* Mutants: the comparison of the V-method; a byte 0 matches itself only.
FollowsIncluded(ch, key) == key \subseteq ch
FollowsZero(ch, key) == IF ch = {} THEN key = {} ELSE ch \subseteq key

\* (ch & da.first) == ch; a byte 0 is followed by every child.
Follows(ch, key) == ch \subseteq key

\* Depth of the nodes the innermost activation visits (idx).
Depth(s) == Len(stack[s]) - 1
Pending(s) == stack[s][Len(stack[s])]
Visited(s, n) == [stack[s] EXCEPT ![Len(stack[s])] = @ \ {n}]

\* Search on a node, entered from the loop of its parent; the order of
\* the unordered_map is any.  The children are collected under the read lock.
VisitNode(s) ==
    /\ stack[s] # <<>> /\ Depth(s) < Levels
    /\ \E n \in Pending(s) :
          LET ch == ByteAt(squery[s], Depth(s) + 1)
              matching == {e[2] : e \in {x \in maps[n] : Follows(ch, x[1])}}
          IN  stack' = [stack EXCEPT ![s] = Append(Visited(s, n), matching)]
    /\ UNCHANGED <<treeVars, insVars, squery, removedQuery, asked, owed, seen>>

\* The elements of a list that are in a set, in their order.
Restricted(list, S) ==
    LET part[k \in 0 .. Len(list)] ==
           IF k = 0 THEN <<>>
           ELSE IF list[k] \in S THEN Append(part[k - 1], list[k]) ELSE part[k - 1]
    IN  part[Len(list)]

\* RecursiveGetData on a leaf, under its write lock: what includes the query is
\* moved to the result list.
RecursiveGetData(s) ==
    /\ stack[s] # <<>> /\ Depth(s) = Levels
    /\ \E n \in Pending(s) :
          LET found == {m \in Meta : squery[s] \subseteq Data[m]}
          IN  /\ removedQuery' = [removedQuery EXCEPT ![s] = @ \o Restricted(ptrList[n], found)]
              /\ ptrList' = [ptrList EXCEPT ![n] = Restricted(@, Meta \ found)]
              /\ stack' = [stack EXCEPT ![s] = Visited(s, n)]
    /\ UNCHANGED <<nodeNum, maps, insVars, squery, asked, owed, seen>>

\* An activation has visited all its nodes.  The write lock that Search tries to
\* take for resetMask changes nothing.
NodeReturn(s) ==
    LET done == Len(stack[s]) = 1
    IN  /\ stack[s] # <<>> /\ Pending(s) = {}
        /\ stack' = [stack EXCEPT ![s] = SubSeq(@, 1, Len(@) - 1)]
        /\ squery' = [squery EXCEPT ![s] = IF done THEN {} ELSE @]
        /\ owed' = [owed EXCEPT ![s] = IF done THEN {} ELSE @]
        /\ seen' = [seen EXCEPT ![s] = IF done THEN {} ELSE @]
        /\ UNCHANGED <<treeVars, insVars, removedQuery, asked>>

SearcherStep(s) == VisitNode(s) \/ RecursiveGetData(s) \/ NodeReturn(s)

-----------------------------------------------------------------------------

Idle ==
    /\ \A i \in Inserters : imeta[i] = NoMeta
    /\ \A s \in Searchers : stack[s] = <<>>

\* No call is running: the system may stay so.
Rest == Idle /\ UNCHANGED vars

Next ==
    \/ \E i \in Inserters : InserterStep(i) \/ \E m \in Meta : Insert2(i, m)
    \/ \E s \in Searchers : SearcherStep(s) \/ \E q \in Queries : Search(s, q)
    \/ Rest

Spec == Init /\ [][Next]_vars

-----------------------------------------------------------------------------
(* Properties *)

\* The bytes on the way from the root to each node spell one word: racing
\* insertions never make two children for one byte, and no node has two parents
\* (lines 301-311).
OneWayToNode ==
    /\ \A n \in Node : \A x, y \in maps[n] : x[1] = y[1] => x = y
    /\ \A n, p \in Node : \A x \in maps[n], y \in maps[p] : x[2] = y[2] => n = p /\ x = y

\* The node that the first l bytes of a filter lead to, as a set.
NodesOn(filter, l) ==
    LET at[k \in 0 .. l] ==
           IF k = 0 THEN {Root}
           ELSE {e[2] : e \in {x \in UNION {maps[n] : n \in at[k - 1]} :
                                  x[1] = ByteAt(filter, k)}}
    IN  at[l]

\* An insertion stays on the way its own bytes spell, and what it stores stands
\* once, at the end of that way, until a search takes it: the test of lines
\* 194-199 never fails there.
StoredAtOwnLeaf ==
    /\ \A i \in Inserters : imeta[i] # NoMeta =>
          inode[i] \in NodesOn(Data[imeta[i]], ilevel[i])
    /\ \A n \in Node : \A k \in 1 .. Len(ptrList[n]) :
          /\ n \in NodesOn(Data[ptrList[n][k]], Levels)
          /\ \A l \in 1 .. k - 1 : ptrList[n][l] # ptrList[n][k]

Promise == INSTANCE SignatureIndex WITH
    stored <- Stored,
    used <- inserted,
    asking <- squery,
    searching <- {s \in Searchers : stack[s] # <<>>}

\* With any number of threads the byte trie keeps the promise of the index: it
\* hands every signature to one search, and overlooks none that was there when
\* the search began (Readme.md:60).
KeepsPromise == Promise!Spec
=============================================================================
