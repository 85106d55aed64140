------------------------------- MODULE BFTrie -------------------------------
(***************************************************************************)
(* The BF-Trie of src/trie_tree/test_bf_trie.h as it is built by default:  *)
(* D-method (INVERSE_INDEX off), with INVERSE_ZERO, REMOVED_LIST and       *)
(* MINI_LOCK, which lines 61-63 define, and 64-bit filters.                *)
(*                                                                         *)
(* Any number of threads insert (Insert2/Insert) and search (Search/       *)
(* SearchPtrList/AddRemoveAtomic) at once.  Every access to a variable     *)
(* other threads write is a step of its own: a read outside a lock, the    *)
(* acquisition of a spinlock, and the locked section with its release,     *)
(* which nobody else can observe halfway unless he reads without the lock. *)
(* A slot of a node is a cell <<node, slot>>.                              *)
(***************************************************************************)
EXTENDS TrieGeometry, Sequences

CONSTANTS
    Meta,         \* signatures; each is inserted at most once by its client
    NoMeta,       \* a pointer register that holds none
    Data,         \* Data[m]: the '1' bits of m's filter
    Queries,      \* the filters that are searched for
    Deletable,    \* signatures whose client may delete them
    PerNodeNum,   \* PER_NODE_NUM: the list length that makes a slot full
    IndexRange,   \* values of the uint16_t in removed_ptr_index
    MaxNode,      \* bound: nodes that can be allocated
    MaxInserts,   \* bound: insertions in a behaviour
    MaxSearches,  \* bound: searches of each searcher
    Inserters,    \* threads in IndexInsert
    Searchers     \* threads in IndexSearch

ASSUME TrieAssumption ==
    /\ NoMeta \notin Meta
    /\ Data \in [Meta -> SUBSET Bits]
    /\ Queries \subseteq SUBSET Bits
    /\ PerNodeNum \in Nat
    /\ IndexRange \in Nat \ {0}
    /\ MaxNode \in Nat \ {0}
    /\ MaxInserts \in Nat
    /\ MaxSearches \in Nat
    /\ Inserters \cap Searchers = {}

\* Nodes are numbered by their constructor, as BFTrieNodeId counts them.
Node == 1 .. MaxNode
Root == 1
NoNode == 0     \* a null child pointer
Cell == Node \X Slot

\* The bits of sym.
Flag == {"DEL", "INVALID", "REMOVED"}

VARIABLES
    nodeNum,      \* nodes constructed so far
    nodePos,      \* pos of each node
    children,     \* children[<<n, i>>]: node or NoNode
    nodeLock,     \* lock_ of each node
    ptrList,      \* ptr_list_ of each cell
    removedIdx,   \* removed_ptr_index of each cell: positions free for reuse
    removedLock,  \* removed_lock_ of each cell
    sym,          \* sym of each signature
    ipc,          \* the instruction an inserter is about to do
    imeta,        \* Insert2's meta
    inode,        \* Insert2's node
    irem,         \* position[pos_i ..] in Insert2
    spc,          \* the instruction a searcher is about to do
    squery,       \* Search's meta
    stack,        \* activations of BFTrieNode::Search, the running one first
    scan,         \* slots SearchPtrList has still to scan, the current included
    at,           \* j in SearchPtrList, counted from 1
    count,        \* count in SearchPtrList
    cur,          \* query in SearchPtrList
    hit,          \* cur goes to the result list
    removedQuery, \* the caller's result list
    asked,        \* searches begun by each searcher (for MaxSearches)
    taken,        \* signatures IndexInsert was called with
    inserted,     \* signatures whose IndexInsert has returned
    owed,         \* what each searcher's running or last search had to find
    seen          \* what was findable at some time since the search began

treeVars == <<nodeNum, nodePos, children, nodeLock>>
listVars == <<ptrList, removedIdx, removedLock>>
insVars == <<ipc, imeta, inode, irem, taken, inserted, seen>>
scanVars == <<stack, scan, at, count, cur, hit>>
callVars == <<squery, removedQuery, asked, owed>>
searchVars == <<spc, scanVars, callVars>>
vars == <<treeVars, listVars, sym, insVars, searchVars>>

Frame == [node : Node, rem : SUBSET Bits]

TypeOK ==
    /\ nodeNum \in Node
    /\ nodePos \in [Node -> {PosNan} \cup Bits]
    /\ children \in [Cell -> Node \cup {NoNode}]
    /\ nodeLock \in [Node -> {0, 1}]
    /\ ptrList \in [Cell -> Seq(Meta)]
    /\ removedIdx \in [Cell -> Seq(Nat \ {0})]
    /\ removedLock \in [Cell -> {0, 1}]
    /\ sym \in [Meta -> SUBSET Flag]
    /\ ipc \in [Inserters -> {"idle", "free", "reuseLock", "reuse", "room",
                              "pushLock", "push", "child", "nodeLock",
                              "newNode", "descend"}]
    /\ imeta \in [Inserters -> Meta \cup {NoMeta}]
    /\ inode \in [Inserters -> Node]
    /\ irem \in [Inserters -> SUBSET Bits]
    /\ spc \in [Searchers -> {"idle", "countLock", "count", "elem", "mark",
                              "addLock", "add", "kids"}]
    /\ squery \in [Searchers -> SUBSET Bits]
    /\ stack \in [Searchers -> Seq(Frame)]
    /\ scan \in [Searchers -> SUBSET Slot]
    /\ at \in [Searchers -> Nat]
    /\ count \in [Searchers -> Nat]
    /\ cur \in [Searchers -> Meta \cup {NoMeta}]
    /\ hit \in [Searchers -> BOOLEAN]
    /\ removedQuery \in [Searchers -> Seq(Meta)]
    /\ asked \in [Searchers -> Nat]
    /\ taken \subseteq Meta
    /\ inserted \subseteq Meta
    /\ owed \in [Searchers -> SUBSET Meta]
    /\ seen \in [Searchers -> SUBSET Meta]

\* BFTrie::BFTrie: a root before every bit, with empty slots.
Init ==
    /\ nodeNum = Root
    /\ nodePos = [n \in Node |-> PosNan]
    /\ children = [c \in Cell |-> NoNode]
    /\ nodeLock = [n \in Node |-> 0]
    /\ ptrList = [c \in Cell |-> <<>>]
    /\ removedIdx = [c \in Cell |-> <<>>]
    /\ removedLock = [c \in Cell |-> 0]
    /\ sym = [m \in Meta |-> {}]
    /\ ipc = [i \in Inserters |-> "idle"]
    /\ imeta = [i \in Inserters |-> NoMeta]
    /\ inode = [i \in Inserters |-> Root]
    /\ irem = [i \in Inserters |-> {}]
    /\ spc = [s \in Searchers |-> "idle"]
    /\ squery = [s \in Searchers |-> {}]
    /\ stack = [s \in Searchers |-> <<>>]
    /\ scan = [s \in Searchers |-> {}]
    /\ at = [s \in Searchers |-> 0]
    /\ count = [s \in Searchers |-> 0]
    /\ cur = [s \in Searchers |-> NoMeta]
    /\ hit = [s \in Searchers |-> FALSE]
    /\ removedQuery = [s \in Searchers |-> <<>>]
    /\ asked = [s \in Searchers |-> 0]
    /\ taken = {}
    /\ inserted = {}
    /\ owed = [s \in Searchers |-> {}]
    /\ seen = [s \in Searchers |-> {}]

-----------------------------------------------------------------------------
(* Insert2 and BFTrieNode::Insert *)

\* The slot (idx) an inserter works on, and whether pos_idx == pos_num - 1.
ICell(i) == <<inode[i], SlotOf(nodePos[inode[i]], Lowest(irem[i]))>>
IsLast(i) == irem[i] = {Lowest(irem[i])}

IGoto(i, from, to) ==
    /\ ipc[i] = from
    /\ ipc' = [ipc EXCEPT ![i] = to]

\* m is in the index; the searches that run may find it.
Inserted(m) ==
    /\ inserted' = inserted \cup {m}
    /\ seen' = [s \in Searchers |-> IF spc[s] = "idle" THEN {} ELSE seen[s] \cup {m}]

\* The registers of a call that returns are dead.
IReturn(i, from) ==
    /\ IGoto(i, from, "idle")
    /\ Inserted(imeta[i])
    /\ imeta' = [imeta EXCEPT ![i] = NoMeta]
    /\ inode' = [inode EXCEPT ![i] = Root]
    /\ irem' = [irem EXCEPT ![i] = {}]
    /\ UNCHANGED taken

IUnchanged == UNCHANGED <<imeta, inode, irem, taken, inserted, seen>>

\* A filter without zeros takes the loop of Insert2 zero times.
Insert2(i, m) ==
    /\ m \in Meta \ taken
    /\ Cardinality(taken) < MaxInserts
    /\ taken' = taken \cup {m}
    /\ IF Zeros(Data[m]) = {}
       THEN /\ ipc[i] = "idle"
            /\ Inserted(m)
            /\ UNCHANGED <<ipc, imeta, inode, irem>>
       ELSE /\ IGoto(i, "idle", "free")
            /\ imeta' = [imeta EXCEPT ![i] = m]
            /\ inode' = [inode EXCEPT ![i] = Root]
            /\ irem' = [irem EXCEPT ![i] = Zeros(Data[m])]
            /\ UNCHANGED <<inserted, seen>>
    /\ UNCHANGED <<treeVars, listVars, sym, searchVars>>

\* removed_ptr_index[idx].size() > 0, read without the lock.
ProbeFree(i) ==
    /\ IGoto(i, "free", IF removedIdx[ICell(i)] # <<>> THEN "reuseLock" ELSE "room")
    /\ IUnchanged
    /\ UNCHANGED <<treeVars, listVars, sym, searchVars>>

\* A tas that finds the byte 0; one that finds 1 changes nothing.
ILockList(i, from, to) ==
    /\ IGoto(i, from, to)
    /\ removedLock[ICell(i)] = 0
    /\ removedLock' = [removedLock EXCEPT ![ICell(i)] = 1]
    /\ IUnchanged
    /\ UNCHANGED <<treeVars, ptrList, removedIdx, sym, searchVars>>

\* Mutant: the position is used and stays on offer.
PositionKept(free) == free

\* pop_back
PositionTaken(free) == SubSeq(free, 1, Len(free) - 1)

\* The size is read again under the lock: the last free position is taken ...
Reuse(i) ==
    LET c == ICell(i)
        free == removedIdx[c]
    IN  /\ IReturn(i, "reuse")
        /\ free # <<>>
        /\ ptrList' = [ptrList EXCEPT ![c][free[Len(free)]] = imeta[i]]
        /\ removedIdx' = [removedIdx EXCEPT ![c] = PositionTaken(free)]
        /\ removedLock' = [removedLock EXCEPT ![c] = 0]
        /\ UNCHANGED <<treeVars, sym, searchVars>>

\* Mutant: the retry keeps the lock.
ReuseLostLocked(i) ==
    /\ IGoto(i, "reuse", "free")
    /\ removedIdx[ICell(i)] = <<>>
    /\ IUnchanged
    /\ UNCHANGED <<treeVars, listVars, sym, searchVars>>

\* ... or another thread took it before, and Insert calls itself.
ReuseLost(i) ==
    /\ IGoto(i, "reuse", "free")
    /\ removedIdx[ICell(i)] = <<>>
    /\ removedLock' = [removedLock EXCEPT ![ICell(i)] = 0]
    /\ IUnchanged
    /\ UNCHANGED <<treeVars, ptrList, removedIdx, sym, searchVars>>

\* Mutant: a slot counts as full one signature early.
HasRoomButOne(i) == Len(ptrList[ICell(i)]) < PerNodeNum - 1 \/ IsLast(i)

\* ptr_list_[idx].size() < PER_NODE_NUM || pos_idx == pos_num - 1
HasRoom(i) == Len(ptrList[ICell(i)]) < PerNodeNum \/ IsLast(i)

\* The size is read without the lock.
ProbeRoom(i) ==
    /\ IGoto(i, "room", IF HasRoom(i) THEN "pushLock" ELSE "child")
    /\ IUnchanged
    /\ UNCHANGED <<treeVars, listVars, sym, searchVars>>

\* push_back under the lock, which does not look at the size again.
Push(i) ==
    /\ IReturn(i, "push")
    /\ ptrList' = [ptrList EXCEPT ![ICell(i)] = Append(@, imeta[i])]
    /\ removedLock' = [removedLock EXCEPT ![ICell(i)] = 0]
    /\ UNCHANGED <<treeVars, removedIdx, sym, searchVars>>

\* Mutant: every insertion that gets this far makes a child.
NoChildEver(i) == TRUE

\* !children[idx]
NoChild(i) == children[ICell(i)] = NoNode

\* The child pointer is read without the lock.
ProbeChild(i) ==
    /\ IGoto(i, "child", IF NoChild(i) THEN "nodeLock" ELSE "descend")
    /\ IUnchanged
    /\ UNCHANGED <<treeVars, listVars, sym, searchVars>>

LockNode(i) ==
    /\ IGoto(i, "nodeLock", "newNode")
    /\ nodeLock[inode[i]] = 0
    /\ nodeLock' = [nodeLock EXCEPT ![inode[i]] = 1]
    /\ IUnchanged
    /\ UNCHANGED <<nodeNum, nodePos, children, listVars, sym, searchVars>>

\* The locked section stores a new child without looking for one again.
NewNode(i) ==
    LET c == ICell(i)
        n == nodeNum + 1
    IN  /\ IGoto(i, "newNode", "descend")
        /\ n \in Node
        /\ nodeNum' = n
        /\ nodePos' = [nodePos EXCEPT ![n] = ChildPos(nodePos[c[1]], c[2])]
        /\ children' = [children EXCEPT ![c] = n]
        /\ nodeLock' = [nodeLock EXCEPT ![c[1]] = 0]
        /\ IUnchanged
        /\ UNCHANGED <<listVars, sym, searchVars>>

\* Insert returned false: Insert2 reads the child again and spends a position.
Descend(i) ==
    /\ IGoto(i, "descend", "free")
    /\ inode' = [inode EXCEPT ![i] = children[ICell(i)]]
    /\ irem' = [irem EXCEPT ![i] = @ \ {Lowest(@)}]
    /\ UNCHANGED <<imeta, taken, inserted, seen>>
    /\ UNCHANGED <<treeVars, listVars, sym, searchVars>>

InserterStep(i) ==
    \/ ProbeFree(i)
    \/ ILockList(i, "reuseLock", "reuse")
    \/ Reuse(i)
    \/ ReuseLost(i)
    \/ ProbeRoom(i)
    \/ ILockList(i, "pushLock", "push")
    \/ Push(i)
    \/ ProbeChild(i)
    \/ LockNode(i)
    \/ NewNode(i)
    \/ Descend(i)

-----------------------------------------------------------------------------
(* BFTrie::Search, BFTrieNode::Search, SearchPtrList and AddRemoveAtomic *)

SGoto(s, from, to) ==
    /\ spc[s] = from
    /\ spc' = [spc EXCEPT ![s] = to]

\* The slot a searcher scans; the code goes through the slots in this order.
SCell(s) == <<Head(stack[s]).node, Lowest(scan[s])>>

\* Call Search on node n for the positions rem, not empty, with the
\* activations below waiting for it.
Call(s, n, rem, below) ==
    /\ stack' = [stack EXCEPT ![s] = <<[node |-> n, rem |-> rem]>> \o below]
    /\ scan' = [scan EXCEPT ![s] = SlotsOf(nodePos[n], rem)]
    /\ UNCHANGED <<at, count, cur, hit>>

\* A query without zeros returns at once (idx >= pos_num), whatever is stored.
Search(s, q) ==
    /\ asked[s] < MaxSearches
    /\ asked' = [asked EXCEPT ![s] = @ + 1]
    /\ owed' = [owed EXCEPT ![s] =
                  {m \in inserted : sym[m] = {} /\ Includes(Data[m], q)}]
    /\ IF Zeros(q) = {}
       THEN /\ SGoto(s, "idle", "idle")
            /\ UNCHANGED <<squery, seen, scanVars>>
       ELSE /\ SGoto(s, "idle", "countLock")
            /\ squery' = [squery EXCEPT ![s] = q]
            /\ seen' = [seen EXCEPT ![s] = {m \in inserted : sym[m] = {}}]
            /\ Call(s, Root, Zeros(q), <<>>)
    /\ UNCHANGED <<treeVars, listVars, sym, ipc, imeta, inode, irem, taken, inserted,
                   removedQuery>>

SLockList(s, from, to) ==
    /\ SGoto(s, from, to)
    /\ removedLock[SCell(s)] = 0
    /\ removedLock' = [removedLock EXCEPT ![SCell(s)] = 1]
    /\ UNCHANGED <<treeVars, ptrList, removedIdx, sym, insVars, scanVars, callVars>>

\* The length is read under the lock, the elements are not.
Count(s) ==
    /\ SGoto(s, "count", "elem")
    /\ count' = [count EXCEPT ![s] = Len(ptrList[SCell(s)])]
    /\ at' = [at EXCEPT ![s] = 1]
    /\ removedLock' = [removedLock EXCEPT ![SCell(s)] = 0]
    /\ UNCHANGED <<treeVars, ptrList, removedIdx, sym, insVars,
                   stack, scan, cur, hit, callVars>>

\* Mutants: a signature is matched whatever its sym; the operands of the
\* comparison are swapped.
FoundAnySym(s, m) == Includes(Data[m], squery[s])
FoundIncluded(s, m) == sym[m] = {} /\ Includes(squery[s], Data[m])

\* (meta & query) == meta && query->sym == 0
Found(s, m) == sym[m] = {} /\ Includes(Data[m], squery[s])

\* list[j], its filter and its sym, read without a lock.  A push_back that moves
\* the vector frees the memory this reads; here the elements stay where they are.
Elem(s) ==
    LET m == ptrList[SCell(s)][at[s]]
        found == Found(s, m)
        deleted == sym[m] = {"DEL"}
    IN  /\ spc[s] = "elem" /\ at[s] <= count[s]
        /\ spc' = [spc EXCEPT ![s] = IF found THEN "mark"
                                    ELSE IF deleted THEN "addLock" ELSE "elem"]
        /\ IF found \/ deleted
           THEN /\ cur' = [cur EXCEPT ![s] = m]
                /\ UNCHANGED at
           ELSE /\ at' = [at EXCEPT ![s] = @ + 1]
                /\ UNCHANGED cur
        /\ UNCHANGED <<treeVars, listVars, sym, insVars, stack, scan, count, hit, callVars>>

\* query->sym |= INVALID_FLAG on an int that other threads write: a compiler
\* that knows sym to be 0 here stores the constant, which drops their bits.
Mark(s) ==
    /\ SGoto(s, "mark", "addLock")
    /\ \E old \in {sym[cur[s]], {}} :
          sym' = [sym EXCEPT ![cur[s]] = old \cup {"INVALID"}]
    /\ hit' = [hit EXCEPT ![s] = TRUE]
    /\ UNCHANGED <<treeVars, listVars, insVars, stack, scan, at, count, cur, callVars>>

\* Mutants: the index of the next element, and an index counted from 0.
Uint16Next(j) == (j % IndexRange) + 1
Uint16Zero(j) == (j - 1) % IndexRange

\* The conversion of an index to uint16_t.
Uint16(j) == ((j - 1) % IndexRange) + 1

\* The locked section of AddRemoveAtomic; ~(sym & REMOVED_FLAG) complements the
\* bits of an int and is never 0.  Then ArraylistAdd for a match, and j ++.
AddRemoveAtomic(s) ==
    LET c == SCell(s)
        m == cur[s]
    IN  /\ SGoto(s, "add", "elem")
        /\ IF sym[m] \cap {"DEL", "INVALID"} # {}
           THEN /\ removedIdx' = [removedIdx EXCEPT ![c] = Append(@, Uint16(at[s]))]
                /\ sym' = [sym EXCEPT ![m] = @ \cup {"REMOVED"}]
           ELSE UNCHANGED <<removedIdx, sym>>
        /\ removedLock' = [removedLock EXCEPT ![c] = 0]
        /\ removedQuery' = IF hit[s] THEN [removedQuery EXCEPT ![s] = Append(@, m)]
                                     ELSE removedQuery
        /\ hit' = [hit EXCEPT ![s] = FALSE]
        /\ cur' = [cur EXCEPT ![s] = NoMeta]
        /\ at' = [at EXCEPT ![s] = @ + 1]
        /\ UNCHANGED <<treeVars, ptrList, insVars, stack, scan, count, squery, asked, owed>>

\* The next slot, or the children when the last one was scanned.
NextSlot(s) ==
    LET left == scan[s] \ {Lowest(scan[s])}
    IN  /\ spc[s] = "elem" /\ at[s] > count[s]
        /\ spc' = [spc EXCEPT ![s] = IF left = {} THEN "kids" ELSE "countLock"]
        /\ scan' = [scan EXCEPT ![s] = left]
        /\ at' = [at EXCEPT ![s] = 0]
        /\ count' = [count EXCEPT ![s] = 0]
        /\ UNCHANGED <<treeVars, listVars, sym, insVars, stack, cur, hit, callVars>>

\* The loop of BFTrieNode::Search over the near positions: search the child of
\* the first one, if there is one, for the positions behind it.  The recursive
\* call returns at once when there are none.
NearChild(s) ==
    LET f == Head(stack[s])
        p == Lowest(f.rem)
        rest == f.rem \ {p}
        n == children[<<f.node, SlotOf(nodePos[f.node], p)>>]
        below == <<[f EXCEPT !.rem = rest]>> \o Tail(stack[s])
    IN  /\ spc[s] = "kids"
        /\ f.rem # {} /\ IsNear(nodePos[f.node], p)
        /\ IF n # NoNode /\ rest # {}
           THEN /\ spc' = [spc EXCEPT ![s] = "countLock"]
                /\ Call(s, n, rest, below)
           ELSE /\ stack' = [stack EXCEPT ![s] = below]
                /\ UNCHANGED <<spc, scan, at, count, cur, hit>>
        /\ UNCHANGED <<treeVars, listVars, sym, insVars, callVars>>

\* The far positions, none of them consumed, go to the tail child; what that
\* call returns is returned.
TailChild(s) ==
    LET f == Head(stack[s])
        n == children[<<f.node, TailSlot>>]
    IN  /\ spc[s] = "kids"
        /\ f.rem # {} /\ ~IsNear(nodePos[f.node], Lowest(f.rem))
        /\ n # NoNode
        /\ spc' = [spc EXCEPT ![s] = "countLock"]
        /\ Call(s, n, f.rem, Tail(stack[s]))
        /\ UNCHANGED <<treeVars, listVars, sym, insVars, callVars>>

\* The activation ends; the one below goes on, or the client has its answer.
NodeReturn(s) ==
    LET f == Head(stack[s])
    IN  /\ SGoto(s, "kids", IF Len(stack[s]) = 1 THEN "idle" ELSE "kids")
        /\ f.rem # {} => /\ ~IsNear(nodePos[f.node], Lowest(f.rem))
                         /\ children[<<f.node, TailSlot>>] = NoNode
        /\ stack' = [stack EXCEPT ![s] = Tail(@)]
        /\ squery' = [squery EXCEPT ![s] = IF Len(stack[s]) = 1 THEN {} ELSE @]
        /\ seen' = [seen EXCEPT ![s] = IF Len(stack[s]) = 1 THEN {} ELSE @]
        /\ UNCHANGED <<treeVars, listVars, sym, ipc, imeta, inode, irem, taken, inserted,
                       scan, at, count, cur, hit, removedQuery, asked, owed>>

SearcherStep(s) ==
    \/ SLockList(s, "countLock", "count")
    \/ Count(s)
    \/ Elem(s)
    \/ Mark(s)
    \/ SLockList(s, "addLock", "add")
    \/ AddRemoveAtomic(s)
    \/ NextSlot(s)
    \/ NearChild(s)
    \/ TailChild(s)
    \/ NodeReturn(s)

-----------------------------------------------------------------------------
(* The clients, and the whole system *)

\* External: the owner of a cached entry marks it deleted, which the search
\* expects of it (sym == DEL_FLAG); src/ holds no code that does it.
ClientDelete(m) ==
    /\ m \in Deletable \cap inserted
    /\ sym[m] = {}
    /\ sym' = [sym EXCEPT ![m] = {"DEL"}]
    /\ UNCHANGED <<treeVars, listVars, insVars, searchVars>>

Idle ==
    /\ \A i \in Inserters : ipc[i] = "idle"
    /\ \A s \in Searchers : spc[s] = "idle"

\* No call is running: the system may stay so.  A thread that cannot go on in
\* the middle of a call is a deadlock.
Rest == Idle /\ UNCHANGED vars

Next ==
    \/ \E i \in Inserters : InserterStep(i) \/ \E m \in Meta : Insert2(i, m)
    \/ \E s \in Searchers : SearcherStep(s) \/ \E q \in Queries : Search(s, q)
    \/ \E m \in Meta : ClientDelete(m)
    \/ Rest

Spec == Init /\ [][Next]_vars

\* A thread that is inside a call is scheduled again and again; nobody has to
\* make a call.
FairSpec ==
    /\ Spec
    /\ \A i \in Inserters : WF_vars(InserterStep(i))
    /\ \A s \in Searchers : WF_vars(SearcherStep(s))

-----------------------------------------------------------------------------
(* Properties *)

\* The threads in a section that the byte at c, or at n, guards.
RemovedHolders(c) ==
    {i \in Inserters : ipc[i] \in {"reuse", "push"} /\ ICell(i) = c}
      \cup {s \in Searchers : spc[s] \in {"count", "add"} /\ SCell(s) = c}

NodeHolders(n) == {i \in Inserters : ipc[i] = "newNode" /\ inode[i] = n}

Guards(byte, holders) ==
    IF byte = 0 THEN holders = {} ELSE \E t \in holders : holders = {t}

\* A spinlock byte is 1 exactly while one thread is in the section it guards:
\* no path of Insert, with its early return and its retry, or of the search
\* leaves a section with the byte set, and none clears a byte it does not hold
\* (test_bf_trie.h:212-216, 219-225, 318-320, 451-461, 483-485, 489-492).
LockDiscipline ==
    /\ \A c \in Cell : Guards(removedLock[c], RemovedHolders(c))
    /\ \A n \in Node : Guards(nodeLock[n], NodeHolders(n))

\* Every position a thread still has lies behind the node it has reached, in
\* the descent of an insertion, in every activation of a search, and although
\* the tail child is entered with no position consumed.  So the subscripts of
\* lines 233-235, 314-316, 448 and 524 stay in 0 .. MAX_FOUT-1 (the assert),
\* and the test position[idx] == pos of line 640 never holds.
PositionsAhead ==
    /\ \A i \in Inserters : \A p \in irem[i] : p > nodePos[inode[i]]
    /\ \A s \in Searchers : \A k \in 1 .. Len(stack[s]) :
          \A p \in stack[s][k].rem : p > nodePos[stack[s][k].node]

\* Height compression (Readme.md:11-13): a node has a child in a slot only if
\* the list of that slot is full, however many threads insert.
ChildImpliesFull ==
    \A c \in Cell : children[c] # NoNode => Len(ptrList[c]) >= PerNodeNum

\* A free position is inside its list: line 453 never writes past the end.
FreeIndexInBounds ==
    \A c \in Cell : \A k \in 1 .. Len(removedIdx[c]) :
       removedIdx[c][k] \in 1 .. Len(ptrList[c])

\* What the registers of the threads and the pointers of the tree rely on:
\* the inductive core of TypeOK, PositionsAhead and FreeIndexInBounds.
InserterShape ==
    \A i \in Inserters :
       /\ ipc[i] = "idle" => irem[i] = {}
       /\ ipc[i] # "idle" => imeta[i] \in Meta /\ inode[i] \in 1 .. nodeNum /\ irem[i] # {}

RootShape == nodePos[Root] = PosNan

TreeShape ==
    \A n \in Node, i \in Slot :
       children[<<n, i>>] # NoNode =>
          /\ n \in 1 .. nodeNum
          /\ children[<<n, i>>] \in 1 .. nodeNum
          /\ nodePos[children[<<n, i>>]] = ChildPos(nodePos[n], i)

DescendShape ==
    \A i \in Inserters :
       /\ ipc[i] \in {"child", "nodeLock", "newNode", "descend"} => ~IsLast(i)
       /\ ipc[i] = "descend" => children[ICell(i)] # NoNode

SearcherFits(s) ==
    /\ spc[s] = "idle" <=> stack[s] = <<>>
    /\ \A k \in 1 .. Len(stack[s]) : stack[s][k].node \in 1 .. nodeNum
    /\ spc[s] \notin {"idle", "kids"} => scan[s] # {}
    /\ spc[s] \in {"elem", "mark", "addLock", "add"} =>
          at[s] >= 1 /\ count[s] <= Len(ptrList[SCell(s)])
    /\ spc[s] \in {"mark", "addLock", "add"} => at[s] <= count[s] /\ cur[s] \in Meta

SearcherShape == \A s \in Searchers : SearcherFits(s)

Shape ==
    /\ TypeOK
    /\ PositionsAhead
    /\ FreeIndexInBounds
    /\ InserterShape
    /\ RootShape
    /\ TreeShape
    /\ DescendShape
    /\ SearcherShape

\* A position is offered for reuse once, and only while it holds a signature
\* that was reported or deleted: a reuse overwrites nothing a search still has
\* to find (lines 220-223 and 450-456).
FreeListSound ==
    \A c \in Cell :
       LET free == removedIdx[c]
       IN  \A k \in 1 .. Len(free) :
              /\ \A l \in 1 .. k - 1 : free[l] # free[k]
              /\ "REMOVED" \in sym[ptrList[c][free[k]]]

\* The nodes that GetTotalSize and the searches can reach from the root.
ReachableNodes ==
    LET reach[n \in Node] ==
           n = Root \/ \E p \in 1 .. n - 1 : reach[p] /\ \E i \in Slot : children[<<p, i>>] = n
    IN  {n \in Node : reach[n]}

\* The lengths of the lists of a node less those of its free positions.
NodeSize(n) ==
    LET size[k \in 0 .. MaxFout] ==
           IF k = 0 THEN 0
           ELSE size[k - 1] + Len(ptrList[<<n, k - 1>>]) - Len(removedIdx[<<n, k - 1>>])
    IN  size[MaxFout]

\* GetTotalSize (int GetIndexSize).
GetTotalSize ==
    LET reached == ReachableNodes
        size[n \in 0 .. MaxNode] ==
           IF n = 0 THEN 0
           ELSE size[n - 1] + IF n \in reached THEN NodeSize(n) ELSE 0
    IN  size[MaxNode]

\* GetIndexSize counts every signature of the index once: at any moment it is
\* the number of insertions that have returned, less those whose position was
\* given back, whatever the two threads are in the middle of.
TotalSizeExact ==
    GetTotalSize = Cardinality({m \in inserted : "REMOVED" \notin sym[m]})

\* The node where each zero p of m is spent on the way down from the root, or
\* NoNode; the cells that this makes m's own.
PathCells(m) ==
    LET zeros == Zeros(Data[m])
        Before(p) == {q \in zeros : q < p}
        CellAt(n, p) == <<n, SlotOf(nodePos[n], p)>>
        node[p \in zeros] ==
           IF Before(p) = {} THEN Root
           ELSE LET q == CHOOSE x \in Before(p) : \A y \in Before(p) : y <= x
                IN  IF node[q] = NoNode THEN NoNode ELSE children[CellAt(node[q], q)]
    IN  {CellAt(node[p], p) : p \in {z \in zeros : node[z] # NoNode}}

\* A signature that nobody has reported or deleted stands at exactly one
\* position of exactly one cell of its own path: splitting lists into children
\* and reusing positions never misplaces, overwrites or doubles it.
StoredOnPath ==
    \A m \in inserted :
       sym[m] = {} =>
         \E c \in PathCells(m) :
            /\ \E j \in 1 .. Len(ptrList[c]) : ptrList[c][j] = m
            /\ \A d \in Cell, j, k \in 1 .. MaxInserts :
                  /\ k <= Len(ptrList[c]) /\ ptrList[c][k] = m
                  /\ j <= Len(ptrList[d]) /\ ptrList[d][j] = m
                  => d = c /\ j = k

\* IndexSearch stores the found matched cases in the list (Readme.md:60): when
\* a search has ended, every signature that was in the index when it began and
\* includes the query has been reported, to it or to a search beside it, or
\* was deleted, although insertions moved into slots, positions and children
\* behind and before the search.
SearchComplete ==
    \A s \in Searchers : spc[s] = "idle" => \A m \in owed[s] : sym[m] # {}

\* A match counts as handed over from the moment its sym is set.
Handed(s) == removedQuery[s] \o IF hit[s] THEN <<cur[s]>> ELSE <<>>

Promise == INSTANCE SignatureIndex WITH
    stored <- {m \in inserted : sym[m] = {}},
    used <- inserted,
    asking <- squery,
    searching <- {s \in Searchers : spc[s] # "idle"},
    owed <- [s \in Searchers |-> IF spc[s] = "idle" THEN {} ELSE owed[s]],
    removedQuery <- [s \in Searchers |-> Handed(s)]

\* The trie, with all its steps, implements the index its clients were promised.
KeepsPromise == Promise!Spec

\* Every call returns: no spinning on a lock nobody gives back, no retry or
\* descent without end.
CallsReturn ==
    /\ \A i \in Inserters : ipc[i] # "idle" ~> ipc[i] = "idle"
    /\ \A s \in Searchers : spc[s] # "idle" ~> spc[s] = "idle"

=============================================================================
