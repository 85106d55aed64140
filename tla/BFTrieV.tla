------------------------------ MODULE BFTrieV ------------------------------
(***************************************************************************)
(* The BF-Trie of src/trie_tree/test_bf_trie.h built for the V-method      *)
(* (-Dinverse=ON, INVERSE_INDEX) with 64-bit filters.  Signatures stand    *)
(* for updated tuples and carry the time of the update; a search brings    *)
(* the filter and the time of a cached entry and asks whether some later   *)
(* update touches it.  Nothing is ever taken out.                          *)
(*                                                                         *)
(* INVERSE_ZERO is defined in this build too (line 61): the trie branches  *)
(* on zeros here as well.  No search gives positions back, so              *)
(* removed_ptr_index stays empty and lines 450-461 do nothing.  The caller *)
(* of the search passes a null result list, as Readme.md:60 allows; it     *)
(* only looks at the answer.                                               *)
(***************************************************************************)
EXTENDS TrieGeometry, Sequences, SequencesExt

CONSTANTS
    Meta,         \* signatures; each is inserted at most once by its client
    NoMeta,       \* a pointer register that holds none
    Data,         \* Data[m]: the '1' bits of m's filter
    QueryId,      \* QueryId[m]: queryId, as the set of its '1' bits
    Queries,      \* the filters that are searched for
    MaxTime,      \* bound: the clock of the clients (local_timestamp)
    PerNodeNum,   \* PER_NODE_NUM: the list length that makes a slot full
    MaxNode,      \* bound: nodes that can be allocated
    MaxInserts,   \* bound: insertions in a behaviour
    MaxSearches,  \* bound: searches of each searcher
    Inserters,    \* threads in Insert2
    Searchers     \* threads in Search

ASSUME TrieVAssumption ==
    /\ NoMeta \notin Meta
    /\ Data \in [Meta -> SUBSET Bits]
    /\ QueryId \in [Meta -> SUBSET Bits]
    /\ Queries \subseteq SUBSET Bits
    /\ MaxTime \in Nat
    /\ PerNodeNum \in Nat
    /\ MaxNode \in Nat \ {0}
    /\ MaxInserts \in Nat
    /\ MaxSearches \in Nat

Node == 1 .. MaxNode
Root == 1
NoNode == 0     \* a null child pointer
Cell == Node \X Slot
Time == 0 .. MaxTime

VARIABLES
    now,          \* local_timestamp
    nodeNum,      \* nodes constructed so far
    nodePos,      \* pos of each node
    children,     \* children[<<n, i>>]: node or NoNode
    nodeLock,     \* lock_ of each node
    ptrList,      \* ptr_list_ of each cell
    endNode,      \* end_node of each cell
    removedLock,  \* removed_lock_ of each cell
    stamp,        \* timestamp of each signature
    ipc,          \* the instruction an inserter is about to do
    imeta,        \* Insert2's meta
    inode,        \* Insert2's node
    irem,         \* position[pos_i ..] in Insert2
    spc,          \* the instruction a searcher is about to do
    squery,       \* data of Search's meta
    sstamp,       \* timestamp of Search's meta
    stack,        \* activations of BFTrieNode::Search, the running one first
    scan,         \* slots SearchPtrList has still to scan, the current included
    endList,      \* end_list in SearchPtrList
    count,        \* count in SearchPtrList
    answer,       \* res, true once it is true in some activation
    asked,        \* searches begun by each searcher (for MaxSearches)
    taken,        \* signatures Insert2 was called with
    inserted,     \* signatures whose Insert2 has returned
    later         \* the inserted ones with a later stamp, when the search began

treeVars == <<nodeNum, nodePos, children, nodeLock>>
listVars == <<ptrList, endNode, removedLock, stamp>>
insVars == <<ipc, imeta, inode, irem, taken, inserted>>
scanVars == <<stack, scan, endList, count, answer>>
callVars == <<squery, sstamp, asked, later>>
searchVars == <<spc, scanVars, callVars>>
vars == <<now, treeVars, listVars, insVars, searchVars>>

Frame == [node : Node, rem : SUBSET Bits]

TypeOK ==
    /\ now \in Time
    /\ nodeNum \in Node
    /\ nodePos \in [Node -> {PosNan} \cup Bits]
    /\ children \in [Cell -> Node \cup {NoNode}]
    /\ nodeLock \in [Node -> {0, 1}]
    /\ ptrList \in [Cell -> Seq(Meta)]
    /\ endNode \in [Cell -> Seq(Meta)]
    /\ removedLock \in [Cell -> {0, 1}]
    /\ stamp \in [Meta -> Time]
    /\ ipc \in [Inserters -> {"idle", "endLock", "end", "room", "pushLock", "push",
                              "child", "nodeLock", "newNode", "descend"}]
    /\ imeta \in [Inserters -> Meta \cup {NoMeta}]
    /\ inode \in [Inserters -> Node]
    /\ irem \in [Inserters -> SUBSET Bits]
    /\ spc \in [Searchers -> {"idle", "countLock", "count", "scan", "kids"}]
    /\ squery \in [Searchers -> SUBSET Bits]
    /\ sstamp \in [Searchers -> Time]
    /\ stack \in [Searchers -> Seq(Frame)]
    /\ scan \in [Searchers -> SUBSET Slot]
    /\ endList \in [Searchers -> Seq(Meta)]
    /\ count \in [Searchers -> Nat]
    /\ answer \in [Searchers -> BOOLEAN]
    /\ asked \in [Searchers -> Nat]
    /\ taken \subseteq Meta
    /\ inserted \subseteq Meta
    /\ later \in [Searchers -> SUBSET Meta]

\* BFTrie::BFTrie: a root before every bit, with empty slots.
Init ==
    /\ now = 0
    /\ nodeNum = Root
    /\ nodePos = [n \in Node |-> PosNan]
    /\ children = [c \in Cell |-> NoNode]
    /\ nodeLock = [n \in Node |-> 0]
    /\ ptrList = [c \in Cell |-> <<>>]
    /\ endNode = [c \in Cell |-> <<>>]
    /\ removedLock = [c \in Cell |-> 0]
    /\ stamp = [m \in Meta |-> 0]
    /\ ipc = [i \in Inserters |-> "idle"]
    /\ imeta = [i \in Inserters |-> NoMeta]
    /\ inode = [i \in Inserters |-> Root]
    /\ irem = [i \in Inserters |-> {}]
    /\ spc = [s \in Searchers |-> "idle"]
    /\ squery = [s \in Searchers |-> {}]
    /\ sstamp = [s \in Searchers |-> 0]
    /\ stack = [s \in Searchers |-> <<>>]
    /\ scan = [s \in Searchers |-> {}]
    /\ endList = [s \in Searchers |-> <<>>]
    /\ count = [s \in Searchers |-> 0]
    /\ answer = [s \in Searchers |-> FALSE]
    /\ asked = [s \in Searchers |-> 0]
    /\ taken = {}
    /\ inserted = {}
    /\ later = [s \in Searchers |-> {}]

\* The timer thread of test_trie_tree.cpp.
Tick ==
    /\ now < MaxTime
    /\ now' = now + 1
    /\ UNCHANGED <<treeVars, listVars, insVars, searchVars>>

-----------------------------------------------------------------------------
(* Insert2 and BFTrieNode::Insert *)

ICell(i) == <<inode[i], SlotOf(nodePos[inode[i]], Lowest(irem[i]))>>

IGoto(i, from, to) ==
    /\ ipc[i] = from
    /\ ipc' = [ipc EXCEPT ![i] = to]

IUnchanged == UNCHANGED <<imeta, inode, irem, taken, inserted>>

\* pos_idx == pos_num - 1: the last position puts the signature into end_node.
Enter(rem) == IF rem = {Lowest(rem)} THEN "endLock" ELSE "room"

IReturn(i, from) ==
    /\ IGoto(i, from, "idle")
    /\ inserted' = inserted \cup {imeta[i]}
    /\ imeta' = [imeta EXCEPT ![i] = NoMeta]
    /\ inode' = [inode EXCEPT ![i] = Root]
    /\ irem' = [irem EXCEPT ![i] = {}]
    /\ UNCHANGED taken

\* The caller sets the timestamp before.  A filter without zeros takes the loop
\* zero times.
Insert2(i, m) ==
    /\ m \in Meta \ taken
    /\ Cardinality(taken) < MaxInserts
    /\ taken' = taken \cup {m}
    /\ stamp' = [stamp EXCEPT ![m] = now]
    /\ IF Zeros(Data[m]) = {}
       THEN /\ ipc[i] = "idle"
            /\ inserted' = inserted \cup {m}
            /\ UNCHANGED <<ipc, imeta, inode, irem>>
       ELSE /\ IGoto(i, "idle", Enter(Zeros(Data[m])))
            /\ imeta' = [imeta EXCEPT ![i] = m]
            /\ inode' = [inode EXCEPT ![i] = Root]
            /\ irem' = [irem EXCEPT ![i] = Zeros(Data[m])]
            /\ UNCHANGED inserted
    /\ UNCHANGED <<now, treeVars, ptrList, endNode, removedLock, searchVars>>

ILockList(i, from, to) ==
    /\ IGoto(i, from, to)
    /\ removedLock[ICell(i)] = 0
    /\ removedLock' = [removedLock EXCEPT ![ICell(i)] = 1]
    /\ IUnchanged
    /\ UNCHANGED <<now, treeVars, ptrList, endNode, stamp, searchVars>>

\* What the loop over end_node takes for a signature inserted before.  cur_meta
\* is read from the struct, whose first word is queryId, and not from its data.
Known(m, query) ==
    /\ Data[query] = QueryId[m]
    /\ QueryId[query] = QueryId[m]

\* Mutant: the comparison is the wrong way round.
LatestNot(new, old) == IF new > old THEN old ELSE new

\* The timestamp of a known signature when it is inserted again.
Latest(new, old) == IF new > old THEN new ELSE old

\* The locked section at the last position: a known signature gets the later of
\* the two times, another one is added.
EndNode(i) ==
    LET c == ICell(i)
        m == imeta[i]
        same == {k \in 1 .. Len(endNode[c]) : Known(m, endNode[c][k])}
        first == endNode[c][Lowest(same)]
    IN  /\ IReturn(i, "end")
        /\ IF same # {}
           THEN /\ stamp' = [stamp EXCEPT ![first] = Latest(stamp[m], @)]
                /\ UNCHANGED endNode
           ELSE /\ endNode' = [endNode EXCEPT ![c] = Append(@, m)]
                /\ UNCHANGED stamp
        /\ removedLock' = [removedLock EXCEPT ![c] = 0]
        /\ UNCHANGED <<now, treeVars, ptrList, searchVars>>

\* The size is read without the lock.
ProbeRoom(i) ==
    /\ IGoto(i, "room", IF Len(ptrList[ICell(i)]) < PerNodeNum THEN "pushLock" ELSE "child")
    /\ IUnchanged
    /\ UNCHANGED <<now, treeVars, listVars, searchVars>>

Push(i) ==
    /\ IReturn(i, "push")
    /\ ptrList' = [ptrList EXCEPT ![ICell(i)] = Append(@, imeta[i])]
    /\ removedLock' = [removedLock EXCEPT ![ICell(i)] = 0]
    /\ UNCHANGED <<now, treeVars, endNode, stamp, searchVars>>

\* Mutant: the null pointer is not looked for.
NoChildNever(i) == FALSE

\* !children[idx]
NoChild(i) == children[ICell(i)] = NoNode

\* The child pointer is read without the lock.
ProbeChild(i) ==
    /\ IGoto(i, "child", IF NoChild(i) THEN "nodeLock" ELSE "descend")
    /\ IUnchanged
    /\ UNCHANGED <<now, treeVars, listVars, searchVars>>

LockNode(i) ==
    /\ IGoto(i, "nodeLock", "newNode")
    /\ nodeLock[inode[i]] = 0
    /\ nodeLock' = [nodeLock EXCEPT ![inode[i]] = 1]
    /\ IUnchanged
    /\ UNCHANGED <<now, nodeNum, nodePos, children, listVars, searchVars>>

NewNode(i) ==
    LET c == ICell(i)
        n == nodeNum + 1
    IN  /\ IGoto(i, "newNode", "descend")
        /\ n \in Node
        /\ nodeNum' = n
        /\ nodePos' = [nodePos EXCEPT ![n] = ChildPos(nodePos[c[1]], c[2])]
        /\ children' = [children EXCEPT ![c] = n]
        /\ nodeLock' = [nodeLock EXCEPT ![c[1]] = 0]
        /\ IUnchanged
        /\ UNCHANGED <<now, listVars, searchVars>>

Descend(i) ==
    LET rest == irem[i] \ {Lowest(irem[i])}
    IN  /\ IGoto(i, "descend", Enter(rest))
        /\ inode' = [inode EXCEPT ![i] = children[ICell(i)]]
        /\ irem' = [irem EXCEPT ![i] = rest]
        /\ UNCHANGED <<imeta, taken, inserted>>
        /\ UNCHANGED <<now, treeVars, listVars, searchVars>>

InserterStep(i) ==
    \/ ILockList(i, "endLock", "end")
    \/ EndNode(i)
    \/ ProbeRoom(i)
    \/ ILockList(i, "pushLock", "push")
    \/ Push(i)
    \/ ProbeChild(i)
    \/ LockNode(i)
    \/ NewNode(i)
    \/ Descend(i)

-----------------------------------------------------------------------------
(* BFTrie::Search, BFTrieNode::Search and SearchPtrList *)

SGoto(s, from, to) ==
    /\ spc[s] = from
    /\ spc' = [spc EXCEPT ![s] = to]

SCell(s) == <<Head(stack[s]).node, Lowest(scan[s])>>

\* Search on node n for the positions rem, not empty.
Call(s, n, rem, below) ==
    /\ stack' = [stack EXCEPT ![s] = <<[node |-> n, rem |-> rem]>> \o below]
    /\ scan' = [scan EXCEPT ![s] = SlotsOf(nodePos[n], rem)]
    /\ UNCHANGED <<endList, count>>

\* The caller's entry was cached at some time t; q has zeros or the answer is no.
Search(s, q, t) ==
    /\ asked[s] < MaxSearches
    /\ t <= now
    /\ asked' = [asked EXCEPT ![s] = @ + 1]
    /\ squery' = [squery EXCEPT ![s] = q]
    /\ sstamp' = [sstamp EXCEPT ![s] = t]
    /\ later' = [later EXCEPT ![s] = {m \in inserted : stamp[m] > t}]
    /\ answer' = [answer EXCEPT ![s] = FALSE]
    /\ IF Zeros(q) = {}
       THEN /\ SGoto(s, "idle", "idle")
            /\ UNCHANGED <<stack, scan, endList, count>>
       ELSE /\ SGoto(s, "idle", "countLock")
            /\ Call(s, Root, Zeros(q), <<>>)
    /\ UNCHANGED <<now, treeVars, listVars, insVars>>

SLockList(s) ==
    /\ SGoto(s, "countLock", "count")
    /\ removedLock[SCell(s)] = 0
    /\ removedLock' = [removedLock EXCEPT ![SCell(s)] = 1]
    /\ UNCHANGED <<now, treeVars, ptrList, endNode, stamp, insVars, scanVars, callVars>>

\* The length is read and end_node copied under the lock.
Count(s) ==
    /\ SGoto(s, "count", "scan")
    /\ count' = [count EXCEPT ![s] = Len(ptrList[SCell(s)])]
    /\ endList' = [endList EXCEPT ![s] = endNode[SCell(s)]]
    /\ removedLock' = [removedLock EXCEPT ![SCell(s)] = 0]
    /\ UNCHANGED <<now, treeVars, ptrList, endNode, stamp, insVars, stack, scan, answer,
                   callVars>>

\* Mutant: the comparison of the D-method.
MatchesMeta(s, query) == Includes(Data[query], squery[s])

\* (meta & query) == query
Matches(s, query) == Includes(squery[s], Data[query])

\* Times are compared with <= in the copy and with < in the list.
FoundIn(s) ==
    \/ \E query \in ToSet(endList[s]) : Matches(s, query) /\ sstamp[s] <= stamp[query]
    \/ \E query \in ToSet(SubSeq(ptrList[SCell(s)], 1, count[s])) :
          Matches(s, query) /\ sstamp[s] < stamp[query]

\* The copy and the first count elements of the list, which change no more; the
\* time of a signature in the copy may.  A match ends SearchPtrList.
ScanSlot(s) ==
    LET left == IF FoundIn(s) THEN {} ELSE scan[s] \ {Lowest(scan[s])}
    IN  /\ SGoto(s, "scan", IF left = {} THEN "kids" ELSE "countLock")
        /\ answer' = [answer EXCEPT ![s] = @ \/ FoundIn(s)]
        /\ scan' = [scan EXCEPT ![s] = left]
        /\ endList' = [endList EXCEPT ![s] = <<>>]
        /\ count' = [count EXCEPT ![s] = 0]
        /\ UNCHANGED <<now, treeVars, listVars, insVars, stack, callVars>>

\* The children of the near positions, each for the positions behind its own.
\* With INVERSE_ZERO an answer does not end the search.
NearChild(s) ==
    LET f == Head(stack[s])
        p == Lowest(f.rem)
        rest == f.rem \ {p}
        n == children[<<f.node, SlotOf(nodePos[f.node], p)>>]
        below == <<[f EXCEPT !.rem = rest]>> \o Tail(stack[s])
    IN  /\ spc[s] = "kids"
        /\ f.rem # {} /\ IsNear(nodePos[f.node], p)
        /\ IF n # NoNode /\ rest # {}
           THEN /\ spc' = [spc EXCEPT ![s] = "countLock"]
                /\ Call(s, n, rest, below)
           ELSE /\ stack' = [stack EXCEPT ![s] = below]
                /\ UNCHANGED <<spc, scan, endList, count>>
        /\ UNCHANGED <<now, treeVars, listVars, insVars, answer, callVars>>

\* None of the far positions is consumed on the way to the tail child.
TailChild(s) ==
    LET f == Head(stack[s])
        n == children[<<f.node, TailSlot>>]
    IN  /\ spc[s] = "kids"
        /\ f.rem # {} /\ ~IsNear(nodePos[f.node], Lowest(f.rem))
        /\ n # NoNode
        /\ spc' = [spc EXCEPT ![s] = "countLock"]
        /\ Call(s, n, f.rem, Tail(stack[s]))
        /\ UNCHANGED <<now, treeVars, listVars, insVars, answer, callVars>>

NodeReturn(s) ==
    LET f == Head(stack[s])
    IN  /\ SGoto(s, "kids", IF Len(stack[s]) = 1 THEN "idle" ELSE "kids")
        /\ f.rem # {} => /\ ~IsNear(nodePos[f.node], Lowest(f.rem))
                         /\ children[<<f.node, TailSlot>>] = NoNode
        /\ stack' = [stack EXCEPT ![s] = Tail(@)]
        /\ UNCHANGED <<now, treeVars, listVars, insVars, scan, endList, count, answer,
                       callVars>>

SearcherStep(s) ==
    \/ SLockList(s)
    \/ Count(s)
    \/ ScanSlot(s)
    \/ NearChild(s)
    \/ TailChild(s)
    \/ NodeReturn(s)

-----------------------------------------------------------------------------

Idle ==
    /\ \A i \in Inserters : ipc[i] = "idle"
    /\ \A s \in Searchers : spc[s] = "idle"

\* No call is running: the system may stay so.
Rest == Idle /\ UNCHANGED vars

Next ==
    \/ Tick
    \/ \E i \in Inserters : InserterStep(i) \/ \E m \in Meta : Insert2(i, m)
    \/ \E s \in Searchers : SearcherStep(s) \/ \E q \in Queries, t \in Time : Search(s, q, t)
    \/ Rest

Spec == Init /\ [][Next]_vars

-----------------------------------------------------------------------------
(* Properties *)

\* A search that has ended was not told a no when an update of exactly its
\* filter, with a later time, was in the index before it began: the search
\* walks every node on the way of such a signature, whatever the inserting
\* thread splits or adds beside it.
EqualFound ==
    \A s \in Searchers :
       spc[s] = "idle" /\ (\E m \in later[s] : Data[m] = squery[s]) => answer[s]

\* IndexSearch "returns true if any matched case is found, i.e., the checked
\* cached entry should be invalidated" (Readme.md:60), and lines 243 and 274
\* say what a match is: a signature whose filter is included in the query.
MatchFound ==
    \A s \in Searchers :
       spc[s] = "idle" /\ (\E m \in later[s] : Includes(squery[s], Data[m])) => answer[s]

\* A yes has a reason: an update that the entry's filter includes, given to the
\* index with no earlier time than the entry's, even if the time was written to
\* a signature that had been there before (lines 466-476).
YesHasReason ==
    \A s \in Searchers :
       answer[s] => \E m \in taken : Includes(squery[s], Data[m]) /\ stamp[m] >= sstamp[s]

\* The subscripts stay in range and a position is walked once, as in the
\* D-method: what a thread has still to do lies behind its node.
PositionsAhead ==
    /\ \A i \in Inserters : \A p \in irem[i] : p > nodePos[inode[i]]
    /\ \A s \in Searchers : \A k \in 1 .. Len(stack[s]) :
          \A p \in stack[s][k].rem : p > nodePos[stack[s][k].node]
=============================================================================
