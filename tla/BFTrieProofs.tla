---------------------------- MODULE BFTrieProofs ----------------------------
(***************************************************************************)
(* Proofs about BFTrie for every number of threads, signatures, bits,      *)
(* slots and nodes.  Shape is the inductive core: from it follow TypeOK,   *)
(* PositionsAhead and FreeIndexInBounds.  On top of it stand LockInv, with *)
(* LockDiscipline, and FullInv, with ChildImpliesFull.                     *)
(*                                                                         *)
(* The second part proves that BFTrie stores, offers and finds what it     *)
(* should, and that it implements SignatureIndex:                          *)
(*                                                                         *)
(*   ListInv    where the signatures stand: for any number of threads;     *)
(*   OfferInv   what the free lists offer: for one searching thread;       *)
(*   PathInv    a signature stands on its own path: for one thread of      *)
(*              each kind;                                                 *)
(*   OwedInv    what a search still has to find lies ahead of it;          *)
(*   SeenInv    what a search may report;                                  *)
(*   CountInv   what GetTotalSize counts: for one thread of each kind.     *)
(***************************************************************************)
EXTENDS BFTrie, SharedLemmas

-----------------------------------------------------------------------------
(* The geometry *)

\* A set of bits that is not empty has a lowest one.
LEMMA LowestIsLeast ==
    ASSUME NEW S \in SUBSET Nat, S # {}
    PROVE  Lowest(S) \in S /\ \A y \in S : Lowest(S) <= y
<1>1. PICK x \in S : \A y \in S : <<y, x>> \notin OpToRel(<, Nat)
  BY NatLessThanWellFounded, WFMin
<1>2. OpToRel(<, Nat) = {ss \in Nat \X Nat : ss[1] < ss[2]}
  BY Zenon DEF OpToRel
<1>3. \A y \in S : x <= y
  <2> TAKE y \in S
  <2>1. <<y, x>> \notin {ss \in Nat \X Nat : ss[1] < ss[2]}
    BY <1>1, <1>2, Zenon
  <2> QED BY <2>1
<1> QED BY <1>3 DEF Lowest

\* A position of a node.
Pos == {PosNan} \cup Bits

\* The slot of a position ahead of the node is a subscript, and the child there
\* stands for a bit between the node and the position.
LEMMA SlotAhead ==
    ASSUME NEW pos \in Pos, NEW p \in Bits, p > pos
    PROVE  /\ SlotOf(pos, p) \in Slot
           /\ ChildPos(pos, SlotOf(pos, p)) \in Bits
           /\ ChildPos(pos, SlotOf(pos, p)) <= p
  BY GeometryAssumption DEF Pos, PosNan, Bits, SlotOf, Slot, ChildPos, TailSlot

\* The positions behind the one that is spent are ahead of the child.
LEMMA RestAhead ==
    ASSUME NEW pos \in Pos, NEW rem \in SUBSET Bits, rem # {}, \A p \in rem : p > pos
    PROVE  /\ Lowest(rem) \in rem
           /\ SlotOf(pos, Lowest(rem)) \in Slot
           /\ ChildPos(pos, SlotOf(pos, Lowest(rem))) \in Bits
           /\ \A p \in rem \ {Lowest(rem)} : p > ChildPos(pos, SlotOf(pos, Lowest(rem)))
<1>1. rem \in SUBSET Nat
  BY GeometryAssumption DEF Bits
<1>2. Lowest(rem) \in rem /\ \A y \in rem : Lowest(rem) <= y
  BY <1>1, LowestIsLeast
<1>3. /\ SlotOf(pos, Lowest(rem)) \in Slot
      /\ ChildPos(pos, SlotOf(pos, Lowest(rem))) \in Bits
      /\ ChildPos(pos, SlotOf(pos, Lowest(rem))) <= Lowest(rem)
  BY <1>2, SlotAhead
<1>4. ASSUME NEW p \in rem \ {Lowest(rem)}
      PROVE  p > ChildPos(pos, SlotOf(pos, Lowest(rem)))
  <2>1. p \in Nat /\ Lowest(rem) \in Nat /\ p # Lowest(rem) /\ Lowest(rem) <= p
    BY <1>1, <1>2
  <2>2. ChildPos(pos, SlotOf(pos, Lowest(rem))) \in Nat
    BY <1>3, GeometryAssumption DEF Bits
  <2> QED BY <2>1, <2>2, <1>3
<1> QED BY <1>2, <1>3, <1>4

\* Far positions are ahead of the tail child although none is spent.
LEMMA FarAhead ==
    ASSUME NEW pos \in Pos, NEW rem \in SUBSET Bits, rem # {}, \A p \in rem : p > pos,
           ~IsNear(pos, Lowest(rem))
    PROVE  \A p \in rem : p > ChildPos(pos, TailSlot)
<1>1. rem \in SUBSET Nat
  BY GeometryAssumption DEF Bits
<1>2. Lowest(rem) \in rem /\ \A y \in rem : Lowest(rem) <= y
  BY <1>1, LowestIsLeast
<1>3. pos \in Int /\ MaxFout \in Nat
  BY GeometryAssumption DEF Pos, PosNan, Bits
<1>4. ChildPos(pos, TailSlot) < Lowest(rem) /\ ChildPos(pos, TailSlot) \in Int
  <2>1. Lowest(rem) \in Nat
    BY <1>1, <1>2
  <2> QED BY <1>3, <2>1 DEF IsNear, ChildPos, TailSlot
<1>5. ASSUME NEW p \in rem
      PROVE  p > ChildPos(pos, TailSlot)
  <2>1. p \in Nat /\ Lowest(rem) \in Nat /\ Lowest(rem) <= p
    BY <1>1, <1>2
  <2> QED BY <2>1, <1>4
<1> QED BY <1>5

\* The slots a search scans in a node are subscripts, and there is one.
LEMMA SlotsAhead ==
    ASSUME NEW pos \in Pos, NEW rem \in SUBSET Bits, rem # {}, \A p \in rem : p > pos
    PROVE  SlotsOf(pos, rem) \in SUBSET Slot /\ SlotsOf(pos, rem) # {}
  BY SlotAhead DEF SlotsOf

\* The lowest of some slots is one of them.
LEMMA LowestSlot ==
    ASSUME NEW S \in SUBSET Slot, S # {}
    PROVE  Lowest(S) \in S /\ Lowest(S) \in Slot
<1>1. S \in SUBSET Nat
  BY GeometryAssumption DEF Slot
<1> QED BY <1>1, LowestIsLeast

\* The uint16_t that stands for an index is not greater than the index.
LEMMA Uint16Bound ==
    ASSUME NEW j \in Nat \ {0}
    PROVE  Uint16(j) \in 1 .. j
<1>1. (j - 1) % IndexRange \in Nat /\ (j - 1) % IndexRange <= j - 1
  BY TrieAssumption
<1> QED BY <1>1 DEF Uint16

-----------------------------------------------------------------------------
(* What Shape says of a thread inside a call *)

LEMMA InserterFacts ==
    ASSUME Shape, NEW i \in Inserters, ipc[i] # "idle"
    PROVE  /\ imeta[i] \in Meta
           /\ inode[i] \in Node /\ inode[i] \in 1 .. nodeNum
           /\ nodePos[inode[i]] \in Pos
           /\ irem[i] \in SUBSET Bits /\ irem[i] # {}
           /\ \A p \in irem[i] : p > nodePos[inode[i]]
           /\ SlotOf(nodePos[inode[i]], Lowest(irem[i])) \in Slot
           /\ ICell(i) \in Cell
<1>1. /\ imeta[i] \in Meta /\ inode[i] \in Node /\ inode[i] \in 1 .. nodeNum
      /\ nodePos[inode[i]] \in Pos /\ irem[i] \in SUBSET Bits /\ irem[i] # {}
  BY DEF Shape, TypeOK, InserterShape, Pos
<1>2. \A p \in irem[i] : p > nodePos[inode[i]]
  BY DEF Shape, PositionsAhead
<1>3. SlotOf(nodePos[inode[i]], Lowest(irem[i])) \in Slot
  BY <1>1, <1>2, RestAhead
<1> QED BY <1>1, <1>2, <1>3 DEF ICell, Cell

LEMMA SearcherFacts ==
    ASSUME Shape, NEW s \in Searchers, spc[s] # "idle"
    PROVE  /\ stack[s] \in Seq(Frame) /\ stack[s] # <<>> /\ Head(stack[s]) \in Frame
           /\ Head(stack[s]).node \in 1 .. nodeNum
           /\ nodePos[Head(stack[s]).node] \in Pos
           /\ \A p \in Head(stack[s]).rem : p > nodePos[Head(stack[s]).node]
           /\ spc[s] # "kids" => scan[s] # {} /\ Lowest(scan[s]) \in scan[s] /\ SCell(s) \in Cell
<1>1. stack[s] \in Seq(Frame) /\ stack[s] # <<>>
  BY DEF Shape, TypeOK, SearcherShape, SearcherFits
<1>2. Head(stack[s]) \in Frame /\ Head(stack[s]) = stack[s][1] /\ 1 \in 1 .. Len(stack[s])
  BY <1>1
<1>3. Head(stack[s]).node \in 1 .. nodeNum
  BY <1>2 DEF Shape, SearcherShape, SearcherFits
<1>4. nodePos[Head(stack[s]).node] \in Pos
  BY <1>2 DEF Shape, TypeOK, Pos, Frame
<1>5. \A p \in Head(stack[s]).rem : p > nodePos[Head(stack[s]).node]
  BY <1>2 DEF Shape, PositionsAhead
<1>6. ASSUME spc[s] # "kids"
      PROVE  scan[s] # {} /\ Lowest(scan[s]) \in scan[s] /\ SCell(s) \in Cell
  <2>1. scan[s] \in SUBSET Slot /\ scan[s] # {}
    BY <1>6 DEF Shape, TypeOK, SearcherShape, SearcherFits
  <2>2. Lowest(scan[s]) \in scan[s] /\ Lowest(scan[s]) \in Slot
    BY <2>1, LowestSlot
  <2> QED BY <1>2, <2>1, <2>2 DEF SCell, Cell, Frame
<1> QED BY <1>1, <1>2, <1>3, <1>4, <1>5, <1>6

\* Lists that only grow and nodes that are only added leave the searchers alone.
LEMMA SearchersKept ==
    ASSUME Shape, UNCHANGED <<spc, stack, scan, at, count, cur>>,
           nodeNum' \in Nat, nodeNum <= nodeNum',
           ptrList' \in [Cell -> Seq(Meta)],
           \A c \in Cell : Len(ptrList[c]) <= Len(ptrList'[c])
    PROVE  SearcherShape'
<1> SUFFICES ASSUME NEW s \in Searchers
             PROVE  /\ spc[s] = "idle" <=> stack[s] = <<>>
                    /\ \A k \in 1 .. Len(stack[s]) : stack[s][k].node \in 1 .. nodeNum'
                    /\ spc[s] \notin {"idle", "kids"} => scan[s] # {}
                    /\ spc[s] \in {"elem", "mark", "addLock", "add"} =>
                          at[s] >= 1 /\ count[s] <= Len(ptrList'[SCell(s)])
                    /\ spc[s] \in {"mark", "addLock", "add"} =>
                          at[s] <= count[s] /\ cur[s] \in Meta
  BY DEF SearcherShape, SearcherFits, SCell
<1>1. nodeNum \in Nat /\ count[s] \in Nat /\ ptrList \in [Cell -> Seq(Meta)]
  BY DEF Shape, TypeOK, Node
<1>2. /\ spc[s] = "idle" <=> stack[s] = <<>>
      /\ spc[s] \notin {"idle", "kids"} => scan[s] # {}
      /\ spc[s] \in {"elem", "mark", "addLock", "add"} =>
            at[s] >= 1 /\ count[s] <= Len(ptrList[SCell(s)])
      /\ spc[s] \in {"mark", "addLock", "add"} => at[s] <= count[s] /\ cur[s] \in Meta
  BY DEF Shape, SearcherShape, SearcherFits
<1>3. \A k \in 1 .. Len(stack[s]) : stack[s][k].node \in 1 .. nodeNum'
  BY <1>1 DEF Shape, SearcherShape, SearcherFits
<1>4. ASSUME spc[s] \in {"elem", "mark", "addLock", "add"}
      PROVE  count[s] <= Len(ptrList'[SCell(s)])
  <2>1. SCell(s) \in Cell
    BY <1>4, SearcherFacts
  <2>2. Len(ptrList[SCell(s)]) \in Nat /\ Len(ptrList'[SCell(s)]) \in Nat
    BY <1>1, <2>1
  <2> QED BY <1>1, <1>2, <1>4, <2>1, <2>2
<1> QED BY <1>2, <1>3, <1>4

\* Steps of searchers leave the tree and the inserters alone.
LEMMA InsertersKept ==
    ASSUME Shape, UNCHANGED <<treeVars, ipc, imeta, inode, irem>>
    PROVE  InserterShape' /\ RootShape' /\ TreeShape' /\ DescendShape'
  BY DEF Shape, InserterShape, RootShape, TreeShape, DescendShape, IsLast, ICell, treeVars

LEMMA RootIsNode == Root \in Node
  BY TrieAssumption DEF Root, Node

-----------------------------------------------------------------------------
(* The steps of an inserter *)

LEMMA Insert2Shape ==
    ASSUME Shape, NEW i \in Inserters, NEW m \in Meta, Insert2(i, m)
    PROVE  Shape'
<1> USE DEF Insert2, Inserted, IGoto, treeVars, listVars, searchVars, scanVars, callVars
<1>a. Zeros(Data[m]) \in SUBSET Bits /\ \A p \in Bits : p > PosNan
  BY GeometryAssumption DEF Zeros, Bits, PosNan
<1>b. /\ inserted' \in SUBSET Meta /\ taken' \in SUBSET Meta
      /\ seen' \in [Searchers -> SUBSET Meta]
  <2>1. taken' = taken \cup {m} /\ taken \in SUBSET Meta /\ inserted \in SUBSET Meta
        /\ seen \in [Searchers -> SUBSET Meta]
    BY DEF Shape, TypeOK
  <2>2. CASE Zeros(Data[m]) = {}
    <3>1. /\ inserted' = inserted \cup {m}
          /\ seen' = [s \in Searchers |-> IF spc[s] = "idle" THEN {} ELSE seen[s] \cup {m}]
      BY <2>2
    <3> QED BY <2>1, <3>1
  <2>3. CASE Zeros(Data[m]) # {}
    BY <2>1, <2>3
  <2> QED BY <2>2, <2>3
<1>1. TypeOK'
  <2>1. CASE Zeros(Data[m]) = {}
    BY <1>b, <2>1 DEF Shape, TypeOK
  <2>2. CASE Zeros(Data[m]) # {}
    BY <1>a, <1>b, <2>2, RootIsNode DEF Shape, TypeOK
  <2> QED BY <2>1, <2>2
<1>2. PositionsAhead'
  <2>1. CASE Zeros(Data[m]) = {}
    BY <2>1 DEF Shape, PositionsAhead
  <2>2. CASE Zeros(Data[m]) # {}
    <3>1. nodePos[Root] = PosNan
      BY DEF Shape, RootShape
    <3>2. ASSUME NEW j \in Inserters, NEW p \in irem'[j] PROVE p > nodePos'[inode'[j]]
      <4>1. /\ irem' = [irem EXCEPT ![i] = Zeros(Data[m])] /\ irem \in [Inserters -> SUBSET Bits]
            /\ inode' = [inode EXCEPT ![i] = Root] /\ inode \in [Inserters -> Node]
            /\ nodePos' = nodePos
        BY <2>2 DEF Shape, TypeOK
      <4>2. CASE j = i
        <5>1. inode'[j] = Root /\ p \in Bits BY <1>a, <3>2, <4>1, <4>2
        <5> QED BY <1>a, <3>1, <4>1, <5>1
      <4>3. CASE j # i
        <5>1. inode'[j] = inode[j] /\ p \in irem[j] BY <3>2, <4>1, <4>3
        <5> QED BY <4>1, <5>1 DEF Shape, PositionsAhead
      <4> QED BY <4>2, <4>3
    <3>3. UNCHANGED <<stack, nodePos>> OBVIOUS
    <3> QED BY <3>2, <3>3 DEF Shape, PositionsAhead
  <2> QED BY <2>1, <2>2
<1>3. FreeIndexInBounds'
  BY DEF Shape, FreeIndexInBounds
<1>4. InserterShape'
  <2>1. CASE Zeros(Data[m]) = {}
    BY <2>1 DEF Shape, InserterShape
  <2>2. CASE Zeros(Data[m]) # {}
    <3>1. Root \in 1 .. nodeNum
      BY DEF Shape, TypeOK, Root, Node
    <3>2. /\ imeta' = [imeta EXCEPT ![i] = m]
          /\ inode' = [inode EXCEPT ![i] = Root]
          /\ irem' = [irem EXCEPT ![i] = Zeros(Data[m])]
          /\ ipc' = [ipc EXCEPT ![i] = "free"]
          /\ nodeNum' = nodeNum
      BY <2>2
    <3> QED BY <2>2, <3>1, <3>2 DEF Shape, InserterShape, TypeOK
  <2> QED BY <2>1, <2>2
<1>5. TreeShape'
  BY DEF Shape, TreeShape
<1>6. DescendShape'
  BY DEF Shape, DescendShape, TypeOK, IsLast, ICell
<1>7. SearcherShape'
  BY DEF Shape, SearcherShape, SearcherFits, SCell
<1>8. RootShape'
  BY DEF Shape, RootShape
<1> QED BY <1>1, <1>2, <1>3, <1>4, <1>5, <1>6, <1>7, <1>8 DEF Shape

LEMMA ProbeFreeShape ==
    ASSUME Shape, NEW i \in Inserters, ProbeFree(i)
    PROVE  Shape'
<1> USE DEF ProbeFree, IUnchanged, IGoto, treeVars, listVars, searchVars, scanVars, callVars
<1>1. TypeOK'
  BY DEF Shape, TypeOK
<1>2. PositionsAhead'
  BY DEF Shape, PositionsAhead
<1>3. FreeIndexInBounds'
  BY DEF Shape, FreeIndexInBounds
<1>4. InserterShape'
  BY DEF Shape, InserterShape, TypeOK
<1>5. TreeShape'
  BY DEF Shape, TreeShape
<1>6. DescendShape'
  BY DEF Shape, DescendShape, TypeOK, IsLast, ICell
<1>7. SearcherShape'
  BY DEF Shape, SearcherShape, SearcherFits, SCell
<1>8. RootShape'
  BY DEF Shape, RootShape
<1> QED BY <1>1, <1>2, <1>3, <1>4, <1>5, <1>6, <1>7, <1>8 DEF Shape

LEMMA ILockListShape ==
    ASSUME Shape, NEW i \in Inserters, NEW from, NEW to, ILockList(i, from, to),
           <<from, to>> \in {<<"reuseLock", "reuse">>, <<"pushLock", "push">>}
    PROVE  Shape'
<1> USE DEF ILockList, IUnchanged, IGoto, treeVars, listVars, searchVars, scanVars, callVars
<1>1. TypeOK'
  BY DEF Shape, TypeOK
<1>2. PositionsAhead'
  BY DEF Shape, PositionsAhead
<1>3. FreeIndexInBounds'
  BY DEF Shape, FreeIndexInBounds
<1>4. InserterShape'
  BY DEF Shape, InserterShape, TypeOK
<1>5. TreeShape'
  BY DEF Shape, TreeShape
<1>6. DescendShape'
  BY DEF Shape, DescendShape, TypeOK, IsLast, ICell
<1>7. SearcherShape'
  BY DEF Shape, SearcherShape, SearcherFits, SCell
<1>8. RootShape'
  BY DEF Shape, RootShape
<1> QED BY <1>1, <1>2, <1>3, <1>4, <1>5, <1>6, <1>7, <1>8 DEF Shape

LEMMA ReuseShape ==
    ASSUME Shape, NEW i \in Inserters, Reuse(i)
    PROVE  Shape'
<1> USE DEF Reuse, IReturn, Inserted, IGoto, treeVars, listVars, searchVars, scanVars, callVars
<1> DEFINE c == ICell(i)
           free == removedIdx[c]
           k == free[Len(free)]
<1>a. ipc[i] # "idle"
  OBVIOUS
<1>b. c \in Cell /\ imeta[i] \in Meta
  BY <1>a, InserterFacts
<1>c. ptrList \in [Cell -> Seq(Meta)] /\ removedIdx \in [Cell -> Seq(Nat \ {0})]
  BY DEF Shape, TypeOK
<1>d. free \in Seq(Nat \ {0}) /\ Len(free) \in Nat /\ Len(free) >= 1 /\ k \in 1 .. Len(ptrList[c])
  BY <1>b, <1>c DEF Shape, FreeIndexInBounds
<1>e. /\ [ptrList[c] EXCEPT ![k] = imeta[i]] \in Seq(Meta)
      /\ Len([ptrList[c] EXCEPT ![k] = imeta[i]]) = Len(ptrList[c])
  BY <1>b, <1>c, <1>d, ExceptSeq
<1>f. /\ PositionTaken(free) \in Seq(Nat \ {0})
      /\ Len(PositionTaken(free)) = Len(free) - 1
      /\ \A l \in 1 .. Len(free) - 1 : PositionTaken(free)[l] = free[l]
  BY <1>d DEF PositionTaken
<1>g. /\ ptrList' = [ptrList EXCEPT ![c] = [ptrList[c] EXCEPT ![k] = imeta[i]]]
      /\ removedIdx' = [removedIdx EXCEPT ![c] = PositionTaken(free)]
  BY <1>b, <1>c
<1>h. /\ ptrList' \in [Cell -> Seq(Meta)]
      /\ removedIdx' \in [Cell -> Seq(Nat \ {0})]
      /\ \A d \in Cell : Len(ptrList'[d]) = Len(ptrList[d])
  BY <1>b, <1>c, <1>e, <1>f, <1>g
<1> HIDE DEF c, free, k
<1>1. TypeOK'
  BY <1>b, <1>h, RootIsNode DEF Shape, TypeOK, c
<1>2. PositionsAhead'
  BY DEF Shape, PositionsAhead, TypeOK
<1>3. FreeIndexInBounds'
  <2> SUFFICES ASSUME NEW d \in Cell, NEW l \in 1 .. Len(removedIdx'[d])
               PROVE  removedIdx'[d][l] \in 1 .. Len(ptrList'[d])
    BY DEF FreeIndexInBounds
  <2>1. CASE d = c
    <3>1. removedIdx'[d] = PositionTaken(free)
      BY <1>b, <1>c, <1>g, <2>1
    <3>2. l \in 1 .. Len(free) - 1
      BY <1>f, <3>1
    <3>3. l \in 1 .. Len(free) /\ removedIdx'[d][l] = free[l]
      BY <1>d, <1>f, <3>1, <3>2
    <3> QED BY <1>b, <1>h, <2>1, <3>3 DEF Shape, FreeIndexInBounds, free
  <2>2. CASE d # c
    <3>1. removedIdx'[d] = removedIdx[d]
      BY <1>b, <1>c, <1>g, <2>2
    <3> QED BY <1>h, <3>1 DEF Shape, FreeIndexInBounds
  <2> QED BY <2>1, <2>2
<1>4. InserterShape'
  BY DEF Shape, InserterShape, TypeOK
<1>5. TreeShape'
  BY DEF Shape, TreeShape
<1>6. DescendShape'
  BY DEF Shape, DescendShape, TypeOK, IsLast, ICell
<1>7. SearcherShape'
  <2>1. \A d \in Cell : Len(ptrList[d]) <= Len(ptrList'[d])
    BY <1>c, <1>h
  <2>2. UNCHANGED <<spc, stack, scan, at, count, cur>> /\ nodeNum' = nodeNum OBVIOUS
  <2>3. nodeNum \in Nat BY DEF Shape, TypeOK, Node
  <2> QED BY <1>h, <2>1, <2>2, <2>3, SearchersKept
<1>8. RootShape'
  BY DEF Shape, RootShape
<1> QED BY <1>1, <1>2, <1>3, <1>4, <1>5, <1>6, <1>7, <1>8 DEF Shape

LEMMA ReuseLostShape ==
    ASSUME Shape, NEW i \in Inserters, ReuseLost(i)
    PROVE  Shape'
<1> USE DEF ReuseLost, IUnchanged, IGoto, treeVars, listVars, searchVars, scanVars, callVars
<1>1. TypeOK'
  BY DEF Shape, TypeOK
<1>2. PositionsAhead'
  BY DEF Shape, PositionsAhead
<1>3. FreeIndexInBounds'
  BY DEF Shape, FreeIndexInBounds
<1>4. InserterShape'
  BY DEF Shape, InserterShape, TypeOK
<1>5. TreeShape'
  BY DEF Shape, TreeShape
<1>6. DescendShape'
  BY DEF Shape, DescendShape, TypeOK, IsLast, ICell
<1>7. SearcherShape'
  BY DEF Shape, SearcherShape, SearcherFits, SCell
<1>8. RootShape'
  BY DEF Shape, RootShape
<1> QED BY <1>1, <1>2, <1>3, <1>4, <1>5, <1>6, <1>7, <1>8 DEF Shape

LEMMA ProbeRoomShape ==
    ASSUME Shape, NEW i \in Inserters, ProbeRoom(i)
    PROVE  Shape'
<1> USE DEF ProbeRoom, HasRoom, IUnchanged, IGoto, treeVars, listVars, searchVars, scanVars, callVars
<1>1. TypeOK'
  BY DEF Shape, TypeOK
<1>2. PositionsAhead'
  BY DEF Shape, PositionsAhead
<1>3. FreeIndexInBounds'
  BY DEF Shape, FreeIndexInBounds
<1>4. InserterShape'
  BY DEF Shape, InserterShape, TypeOK
<1>5. TreeShape'
  BY DEF Shape, TreeShape
<1>6. DescendShape'
  BY DEF Shape, DescendShape, TypeOK, IsLast, ICell
<1>7. SearcherShape'
  BY DEF Shape, SearcherShape, SearcherFits, SCell
<1>8. RootShape'
  BY DEF Shape, RootShape
<1> QED BY <1>1, <1>2, <1>3, <1>4, <1>5, <1>6, <1>7, <1>8 DEF Shape

LEMMA ProbeChildShape ==
    ASSUME Shape, NEW i \in Inserters, ProbeChild(i)
    PROVE  Shape'
<1> USE DEF ProbeChild, NoChild, IUnchanged, IGoto, treeVars, listVars, searchVars, scanVars, callVars
<1>1. TypeOK'
  BY DEF Shape, TypeOK
<1>2. PositionsAhead'
  BY DEF Shape, PositionsAhead
<1>3. FreeIndexInBounds'
  BY DEF Shape, FreeIndexInBounds
<1>4. InserterShape'
  BY DEF Shape, InserterShape, TypeOK
<1>5. TreeShape'
  BY DEF Shape, TreeShape
<1>6. DescendShape'
  BY DEF Shape, DescendShape, TypeOK, IsLast, ICell
<1>7. SearcherShape'
  BY DEF Shape, SearcherShape, SearcherFits, SCell
<1>8. RootShape'
  BY DEF Shape, RootShape
<1> QED BY <1>1, <1>2, <1>3, <1>4, <1>5, <1>6, <1>7, <1>8 DEF Shape

LEMMA LockNodeShape ==
    ASSUME Shape, NEW i \in Inserters, LockNode(i)
    PROVE  Shape'
<1> USE DEF LockNode, IUnchanged, IGoto, treeVars, listVars, searchVars, scanVars, callVars
<1>1. TypeOK'
  BY DEF Shape, TypeOK
<1>2. PositionsAhead'
  BY DEF Shape, PositionsAhead
<1>3. FreeIndexInBounds'
  BY DEF Shape, FreeIndexInBounds
<1>4. InserterShape'
  BY DEF Shape, InserterShape, TypeOK
<1>5. TreeShape'
  BY DEF Shape, TreeShape
<1>6. DescendShape'
  BY DEF Shape, DescendShape, TypeOK, IsLast, ICell
<1>7. SearcherShape'
  BY DEF Shape, SearcherShape, SearcherFits, SCell
<1>8. RootShape'
  BY DEF Shape, RootShape
<1> QED BY <1>1, <1>2, <1>3, <1>4, <1>5, <1>6, <1>7, <1>8 DEF Shape

LEMMA NewNodeShape ==
    ASSUME Shape, NEW i \in Inserters, NewNode(i)
    PROVE  Shape'
<1> USE DEF NewNode, IGoto, IUnchanged, listVars, searchVars, scanVars, callVars
<1> DEFINE par == inode[i]
           slot == SlotOf(nodePos[par], Lowest(irem[i]))
           n == nodeNum + 1
           pos == ChildPos(nodePos[par], slot)
<1>a. ipc[i] # "idle"
  OBVIOUS
<1>b. /\ par \in Node /\ par \in 1 .. nodeNum /\ slot \in Slot /\ ICell(i) = <<par, slot>>
      /\ ICell(i) \in Cell
  BY <1>a, InserterFacts DEF ICell
<1>c. pos \in Bits
  BY <1>a, InserterFacts, RestAhead
<1>d. nodeNum \in Nat /\ nodePos \in [Node -> Pos] /\ n \in Node
  BY DEF Shape, TypeOK, Node, Pos
<1>e. /\ nodeNum' = n
      /\ nodePos' = [nodePos EXCEPT ![n] = pos]
      /\ children' = [children EXCEPT ![<<par, slot>>] = n]
      /\ nodeLock' = [nodeLock EXCEPT ![par] = 0]
  BY <1>b
<1>f. nodePos' \in [Node -> Pos] /\ \A q \in 1 .. nodeNum : q \in Node /\ nodePos'[q] = nodePos[q]
  BY <1>c, <1>d, <1>e, TrieAssumption DEF Node, Pos
<1> HIDE DEF par, slot, n, pos
<1>1. TypeOK'
  BY <1>b, <1>d, <1>e, <1>f DEF Shape, TypeOK, Pos
<1>2. PositionsAhead'
  <2>1. ASSUME NEW j \in Inserters, NEW p \in irem[j]
        PROVE  p > nodePos'[inode[j]]
    <3>1. CASE ipc[j] = "idle"
      BY <3>1 DEF Shape, InserterShape
    <3>2. CASE ipc[j] # "idle"
      BY <1>f, <3>2, InserterFacts
    <3> QED BY <3>1, <3>2
  <2>2. ASSUME NEW s \in Searchers, NEW k \in 1 .. Len(stack[s]), NEW p \in stack[s][k].rem
        PROVE  p > nodePos'[stack[s][k].node]
    BY <1>f DEF Shape, SearcherShape, SearcherFits, PositionsAhead
  <2> QED BY <2>1, <2>2 DEF PositionsAhead
<1>3. FreeIndexInBounds'
  BY DEF Shape, FreeIndexInBounds
<1>4. InserterShape'
  BY <1>d, <1>e DEF Shape, InserterShape, TypeOK, n
<1>5. TreeShape'
  <2> SUFFICES ASSUME NEW q \in Node, NEW j \in Slot, children'[<<q, j>>] # NoNode
               PROVE  /\ q \in 1 .. nodeNum'
                      /\ children'[<<q, j>>] \in 1 .. nodeNum'
                      /\ nodePos'[children'[<<q, j>>]] = ChildPos(nodePos'[q], j)
    BY DEF TreeShape
  <2>0. children \in [Cell -> Node \cup {NoNode}] /\ <<q, j>> \in Cell
    BY DEF Shape, TypeOK, Cell
  <2>1. CASE q = par /\ j = slot
    <3>1. children'[<<q, j>>] = n
      BY <1>e, <2>0, <2>1
    <3>2. nodePos'[n] = pos /\ nodePos'[q] = nodePos[par]
      BY <1>b, <1>d, <1>e, <1>f, <2>1
    <3> QED BY <1>b, <1>d, <1>e, <2>1, <3>1, <3>2 DEF n, pos
  <2>2. CASE ~(q = par /\ j = slot)
    <3>1. children'[<<q, j>>] = children[<<q, j>>]
      BY <1>e, <2>0, <2>2
    <3>2. /\ q \in 1 .. nodeNum /\ children[<<q, j>>] \in 1 .. nodeNum
          /\ nodePos[children[<<q, j>>]] = ChildPos(nodePos[q], j)
      BY <3>1 DEF Shape, TreeShape
    <3> QED BY <1>d, <1>e, <1>f, <3>1, <3>2 DEF n
  <2> QED BY <2>1, <2>2
<1>6. DescendShape'
  <2> SUFFICES ASSUME NEW j \in Inserters
               PROVE  /\ ipc'[j] \in {"child", "nodeLock", "newNode", "descend"} => ~IsLast(j)
                      /\ ipc'[j] = "descend" => children'[ICell(j)'] # NoNode
    BY DEF DescendShape, IsLast
  <2>0. ipc'[j] = (IF j = i THEN "descend" ELSE ipc[j]) /\ children \in [Cell -> Node \cup {NoNode}]
    BY DEF Shape, TypeOK
  <2>1. ipc'[j] \in {"child", "nodeLock", "newNode", "descend"} => ~IsLast(j)
    BY <2>0 DEF Shape, DescendShape
  <2>2. ASSUME ipc'[j] = "descend"
        PROVE  children'[ICell(j)'] # NoNode
    <3>1. ipc[j] # "idle"
      BY <2>0, <2>2
    <3>2. inode[j] \in 1 .. nodeNum /\ ICell(j) \in Cell
      BY <3>1, InserterFacts
    <3>3. ICell(j)' = ICell(j)
      BY <1>f, <3>2 DEF ICell
    <3>4. n # NoNode
      BY <1>d DEF Node, NoNode
    <3>5. CASE j = i
      BY <1>b, <1>e, <2>0, <3>3, <3>4, <3>5
    <3>6. CASE j # i
      <4>1. ipc[j] = "descend"
        BY <2>0, <2>2, <3>6
      <4>2. children[ICell(j)] # NoNode
        BY <4>1 DEF Shape, DescendShape
      <4> QED BY <1>e, <2>0, <3>2, <3>3, <3>4, <4>2
    <3> QED BY <3>5, <3>6
  <2> QED BY <2>1, <2>2
<1>7. SearcherShape'
  <2>1. \A d \in Cell : Len(ptrList[d]) <= Len(ptrList'[d]) /\ ptrList' \in [Cell -> Seq(Meta)]
    BY DEF Shape, TypeOK
  <2> QED BY <1>d, <1>e, <2>1, SearchersKept DEF Shape, TypeOK, n
<1>8. RootShape'
  BY <1>d, <1>e, RootIsNode DEF Shape, RootShape, TypeOK, Root, Node, n
<1> QED BY <1>1, <1>2, <1>3, <1>4, <1>5, <1>6, <1>7, <1>8 DEF Shape

LEMMA DescendShapeKept ==
    ASSUME Shape, NEW i \in Inserters, Descend(i)
    PROVE  Shape'
<1> USE DEF Descend, IGoto, treeVars, listVars, searchVars, scanVars, callVars
<1> DEFINE par == inode[i]
           slot == SlotOf(nodePos[par], Lowest(irem[i]))
           child == children[<<par, slot>>]
           rest == irem[i] \ {Lowest(irem[i])}
<1>a. ipc[i] # "idle" /\ ipc[i] = "descend"
  OBVIOUS
<1>b. par \in Node /\ slot \in Slot /\ ICell(i) = <<par, slot>> /\ irem[i] \in SUBSET Bits
  BY <1>a, InserterFacts DEF ICell
<1>c. child # NoNode /\ child \in 1 .. nodeNum /\ nodePos[child] = ChildPos(nodePos[par], slot)
  BY <1>a, <1>b DEF Shape, DescendShape, TreeShape
<1>d. rest \in SUBSET Bits /\ rest # {}
  BY <1>a, <1>b, InserterFacts DEF Shape, DescendShape, IsLast
<1>e. \A p \in rest : p > nodePos[child]
  BY <1>a, <1>c, InserterFacts, RestAhead
<1>f. inode' = [inode EXCEPT ![i] = child] /\ irem' = [irem EXCEPT ![i] = rest]
  BY <1>b DEF Shape, TypeOK
<1>g. child \in Node
  BY <1>c, TrieAssumption DEF Shape, TypeOK, Node
<1> HIDE DEF par, slot, child, rest
<1>1. TypeOK'
  BY <1>d, <1>f, <1>g DEF Shape, TypeOK
<1>2. PositionsAhead'
  BY <1>e, <1>f DEF Shape, PositionsAhead, TypeOK
<1>3. FreeIndexInBounds'
  BY DEF Shape, FreeIndexInBounds
<1>4. InserterShape'
  BY <1>a, <1>c, <1>d, <1>f DEF Shape, InserterShape, TypeOK
<1>5. TreeShape'
  BY DEF Shape, TreeShape
<1>6. DescendShape'
  BY <1>f DEF Shape, DescendShape, TypeOK, IsLast, ICell
<1>7. SearcherShape'
  BY DEF Shape, SearcherShape, SearcherFits, SCell
<1>8. RootShape'
  BY DEF Shape, RootShape
<1> QED BY <1>1, <1>2, <1>3, <1>4, <1>5, <1>6, <1>7, <1>8 DEF Shape

LEMMA PushShape ==
    ASSUME Shape, NEW i \in Inserters, Push(i)
    PROVE  Shape'
<1> USE DEF Push, IReturn, Inserted, IGoto, treeVars, listVars, searchVars, scanVars, callVars
<1>0. ipc[i] # "idle" OBVIOUS
<1>a. ICell(i) \in Cell /\ imeta[i] \in Meta
  BY <1>0, InserterFacts
<1>b. ptrList \in [Cell -> Seq(Meta)]
  BY DEF Shape, TypeOK
<1>c. /\ ptrList' \in [Cell -> Seq(Meta)]
      /\ \A c \in Cell : Len(ptrList[c]) <= Len(ptrList'[c])
  BY <1>a, <1>b
<1>1. TypeOK'
  BY <1>a, <1>c, RootIsNode DEF Shape, TypeOK
<1>2. PositionsAhead'
  BY DEF Shape, PositionsAhead, TypeOK
<1>3. FreeIndexInBounds'
  BY <1>a DEF Shape, FreeIndexInBounds, TypeOK
<1>4. InserterShape'
  BY DEF Shape, InserterShape, TypeOK
<1>5. TreeShape'
  BY DEF Shape, TreeShape
<1>6. DescendShape'
  BY DEF Shape, DescendShape, TypeOK, IsLast, ICell
<1>7. SearcherShape'
  BY <1>c, SearchersKept DEF Shape, TypeOK, Node
<1>8. RootShape'
  BY DEF Shape, RootShape
<1> QED BY <1>1, <1>2, <1>3, <1>4, <1>5, <1>6, <1>7, <1>8 DEF Shape

-----------------------------------------------------------------------------
(* The steps of a searcher *)

LEMMA SLockListShape ==
    ASSUME Shape, NEW s \in Searchers, NEW from, NEW to, SLockList(s, from, to),
           <<from, to>> \in {<<"countLock", "count">>, <<"addLock", "add">>}
    PROVE  Shape'
<1> USE DEF SLockList, SGoto, treeVars, listVars, insVars, scanVars, callVars
<1>1. TypeOK'
  BY DEF Shape, TypeOK
<1>2. PositionsAhead'
  BY DEF Shape, PositionsAhead
<1>3. FreeIndexInBounds'
  BY DEF Shape, FreeIndexInBounds
<1>4. InserterShape' /\ RootShape' /\ TreeShape' /\ DescendShape'
  BY InsertersKept
<1>5. SearcherShape'
  BY DEF Shape, SearcherShape, SearcherFits, TypeOK, SCell
<1> QED BY <1>1, <1>2, <1>3, <1>4, <1>5 DEF Shape

LEMMA CountShape ==
    ASSUME Shape, NEW s \in Searchers, Count(s)
    PROVE  Shape'
<1> USE DEF Count, SGoto, treeVars, listVars, insVars, scanVars, callVars
<1>a. spc[s] # "idle" /\ spc[s] # "kids"
  OBVIOUS
<1>b. SCell(s) \in Cell /\ scan[s] # {} /\ Lowest(scan[s]) \in scan[s]
  BY <1>a, SearcherFacts
<1>1. TypeOK'
  BY <1>b DEF Shape, TypeOK
<1>2. PositionsAhead'
  BY DEF Shape, PositionsAhead
<1>3. FreeIndexInBounds'
  BY DEF Shape, FreeIndexInBounds
<1>4. InserterShape' /\ RootShape' /\ TreeShape' /\ DescendShape'
  BY InsertersKept
<1>5. SearcherShape'
  <2> SUFFICES ASSUME NEW t \in Searchers
               PROVE  SearcherFits(t)'
    BY DEF SearcherShape
  <2>1. CASE t # s
    BY <2>1 DEF Shape, SearcherShape, SearcherFits, TypeOK, SCell
  <2>2. CASE t = s
    <3>1. SCell(s)' = SCell(s) /\ count'[s] = Len(ptrList[SCell(s)]) /\ at'[s] = 1
      BY DEF Shape, TypeOK, SCell
    <3>2. spc'[s] = "elem"
      BY DEF Shape, TypeOK
    <3>3. ptrList \in [Cell -> Seq(Meta)]
      BY DEF Shape, TypeOK
    <3>4. count'[s] <= Len(ptrList[SCell(s)])
      BY <1>b, <3>1, <3>3
    <3> QED BY <1>b, <2>2, <3>1, <3>2, <3>4 DEF Shape, SearcherShape, SearcherFits
  <2> QED BY <2>1, <2>2
<1> QED BY <1>1, <1>2, <1>3, <1>4, <1>5 DEF Shape

LEMMA ElemShape ==
    ASSUME Shape, NEW s \in Searchers, Elem(s)
    PROVE  Shape'
<1> USE DEF treeVars, listVars, insVars, scanVars, callVars
<1>a. spc[s] # "idle" /\ spc[s] # "kids"
  BY DEF Elem
<1>b. SCell(s) \in Cell /\ scan[s] # {} /\ Lowest(scan[s]) \in scan[s]
  BY <1>a, SearcherFacts
<1>c. /\ at[s] \in 1 .. Len(ptrList[SCell(s)])
      /\ ptrList[SCell(s)][at[s]] \in Meta
  BY <1>a, <1>b DEF Elem, Shape, TypeOK, SearcherShape, SearcherFits
<1> DEFINE m == ptrList[SCell(s)][at[s]]
           rest == UNCHANGED <<treeVars, listVars, sym, insVars, stack, scan, count, hit,
                               callVars>>
<1>d. \/ /\ spc' = [spc EXCEPT ![s] = "mark"] \/ spc' = [spc EXCEPT ![s] = "addLock"]
         /\ cur' = [cur EXCEPT ![s] = m] /\ at' = at
      \/ /\ spc' = [spc EXCEPT ![s] = "elem"]
         /\ cur' = cur /\ at' = [at EXCEPT ![s] = @ + 1]
  BY DEF Elem
<1>e. rest /\ m \in Meta /\ at[s] <= count[s] /\ spc[s] = "elem"
  BY <1>c DEF Elem
<1> HIDE DEF m
<1>f. cur' \in [Searchers -> Meta \cup {NoMeta}] /\ at' \in [Searchers -> Nat]
  <2>1. m \in Meta
    BY <1>e
  <2>2. cur \in [Searchers -> Meta \cup {NoMeta}] /\ at \in [Searchers -> Nat]
    BY DEF Shape, TypeOK
  <2>3. cur' = [cur EXCEPT ![s] = m] \/ cur' = cur
    BY <1>d
  <2>4. at' = [at EXCEPT ![s] = @ + 1] \/ at' = at
    BY <1>d
  <2>5. cur' \in [Searchers -> Meta \cup {NoMeta}]
    BY <2>1, <2>2, <2>3
  <2>6. at' \in [Searchers -> Nat]
    BY <2>2, <2>4
  <2> QED BY <2>5, <2>6
<1>g. spc' \in [Searchers -> {"idle", "countLock", "count", "elem", "mark",
                              "addLock", "add", "kids"}]
  BY <1>d, <1>e DEF Shape, TypeOK
<1>1. TypeOK'
  BY <1>e, <1>f, <1>g DEF Shape, TypeOK
<1>2. PositionsAhead'
  BY <1>e DEF Shape, PositionsAhead
<1>3. FreeIndexInBounds'
  BY <1>e DEF Shape, FreeIndexInBounds
<1>4. InserterShape' /\ RootShape' /\ TreeShape' /\ DescendShape'
  BY <1>e, InsertersKept
<1>5. SearcherShape'
  <2> SUFFICES ASSUME NEW t \in Searchers
               PROVE  SearcherFits(t)'
    BY DEF SearcherShape
  <2>1. CASE t # s
    BY <1>d, <1>e, <2>1 DEF Shape, SearcherShape, SearcherFits, TypeOK, SCell
  <2>2. CASE t = s
    BY <1>c, <1>d, <1>e, <2>2 DEF Shape, SearcherShape, SearcherFits, TypeOK, SCell
  <2> QED BY <2>1, <2>2
<1> QED BY <1>1, <1>2, <1>3, <1>4, <1>5 DEF Shape

LEMMA MarkShape ==
    ASSUME Shape, NEW s \in Searchers, Mark(s)
    PROVE  Shape'
<1> USE DEF Mark, SGoto, treeVars, listVars, insVars, scanVars, callVars
<1>1. TypeOK'
  BY DEF Shape, TypeOK, SearcherShape, SearcherFits, Flag
<1>2. PositionsAhead'
  BY DEF Shape, PositionsAhead
<1>3. FreeIndexInBounds'
  BY DEF Shape, FreeIndexInBounds
<1>4. InserterShape' /\ RootShape' /\ TreeShape' /\ DescendShape'
  BY InsertersKept
<1>5. SearcherShape'
  BY DEF Shape, SearcherShape, SearcherFits, TypeOK, SCell
<1> QED BY <1>1, <1>2, <1>3, <1>4, <1>5 DEF Shape

LEMMA AddRemoveAtomicShape ==
    ASSUME Shape, NEW s \in Searchers, AddRemoveAtomic(s)
    PROVE  Shape'
<1> USE DEF treeVars, listVars, insVars, scanVars, callVars
<1>a. spc[s] # "idle" /\ spc[s] # "kids"
  BY DEF AddRemoveAtomic, SGoto
<1>b. SCell(s) \in Cell /\ scan[s] # {} /\ Lowest(scan[s]) \in scan[s]
  BY <1>a, SearcherFacts
<1>c. at[s] \in 1 .. Len(ptrList[SCell(s)]) /\ cur[s] \in Meta
  BY <1>a, <1>b DEF AddRemoveAtomic, SGoto, Shape, TypeOK, SearcherShape, SearcherFits
<1>d. Uint16(at[s]) \in Nat \ {0} /\ Uint16(at[s]) \in 1 .. Len(ptrList[SCell(s)])
  BY <1>b, <1>c, Uint16Bound DEF Shape, TypeOK
<1>e. /\ spc' = [spc EXCEPT ![s] = "elem"]
      /\ removedLock' = [removedLock EXCEPT ![SCell(s)] = 0]
      /\ hit' = [hit EXCEPT ![s] = FALSE]
      /\ cur' = [cur EXCEPT ![s] = NoMeta]
      /\ at' = [at EXCEPT ![s] = @ + 1]
      /\ UNCHANGED <<treeVars, ptrList, insVars, stack, scan, count, squery, asked, owed>>
  BY DEF AddRemoveAtomic, SGoto
<1>f. \/ /\ removedIdx' = [removedIdx EXCEPT ![SCell(s)] = Append(@, Uint16(at[s]))]
         /\ sym' = [sym EXCEPT ![cur[s]] = @ \cup {"REMOVED"}]
      \/ removedIdx' = removedIdx /\ sym' = sym
  BY DEF AddRemoveAtomic
<1>g. \/ removedQuery' = [removedQuery EXCEPT ![s] = Append(@, cur[s])]
      \/ removedQuery' = removedQuery
  BY DEF AddRemoveAtomic
<1>h. removedIdx' \in [Cell -> Seq(Nat \ {0})]
  <2>1. removedIdx[SCell(s)] \in Seq(Nat \ {0})
    BY <1>b DEF Shape, TypeOK
  <2>2. Append(removedIdx[SCell(s)], Uint16(at[s])) \in Seq(Nat \ {0})
    BY <1>d, <2>1
  <2> QED BY <1>f, <2>2 DEF Shape, TypeOK
<1>i. sym' \in [Meta -> SUBSET Flag]
  <2>1. sym \in [Meta -> SUBSET Flag] /\ sym[cur[s]] \cup {"REMOVED"} \in SUBSET Flag
    BY <1>c DEF Shape, TypeOK, Flag
  <2> QED BY <1>f, <2>1
<1>j. removedQuery' \in [Searchers -> Seq(Meta)]
  <2>1. Append(removedQuery[s], cur[s]) \in Seq(Meta)
    BY <1>c DEF Shape, TypeOK
  <2> QED BY <1>g, <2>1 DEF Shape, TypeOK
<1>k. /\ cur' \in [Searchers -> Meta \cup {NoMeta}] /\ at' \in [Searchers -> Nat]
      /\ hit' \in [Searchers -> BOOLEAN]
      /\ removedLock' \in [Cell -> {0, 1}]
  BY <1>b, <1>e DEF Shape, TypeOK
<1>l. spc' \in [Searchers -> {"idle", "countLock", "count", "elem", "mark",
                              "addLock", "add", "kids"}]
  BY <1>e DEF Shape, TypeOK
<1>1. TypeOK'
  BY <1>e, <1>h, <1>i, <1>j, <1>k, <1>l DEF Shape, TypeOK
<1>2. PositionsAhead'
  BY <1>e DEF Shape, PositionsAhead
<1>3. FreeIndexInBounds'
  <2>1. CASE removedIdx' = removedIdx
    BY <1>e, <2>1 DEF Shape, FreeIndexInBounds
  <2>2. CASE removedIdx' = [removedIdx EXCEPT ![SCell(s)] = Append(@, Uint16(at[s]))]
    <3> SUFFICES ASSUME NEW c \in Cell, NEW k \in 1 .. Len(removedIdx'[c])
                 PROVE  removedIdx'[c][k] \in 1 .. Len(ptrList[c])
      BY <1>e DEF FreeIndexInBounds
    <3>1. CASE c # SCell(s)
      BY <1>e, <2>2, <3>1 DEF Shape, FreeIndexInBounds, TypeOK
    <3>2. CASE c = SCell(s)
      <4>1. removedIdx[c] \in Seq(Nat \ {0}) /\ removedIdx'[c] = Append(removedIdx[c], Uint16(at[s]))
        BY <1>b, <2>2, <3>2 DEF Shape, TypeOK
      <4>2. \A l \in 1 .. Len(removedIdx[c]) : removedIdx[c][l] \in 1 .. Len(ptrList[c])
        BY DEF Shape, FreeIndexInBounds
      <4> QED BY <1>d, <3>2, <4>1, <4>2
    <3> QED BY <3>1, <3>2
  <2> QED BY <1>f, <2>1, <2>2
<1>4. InserterShape' /\ RootShape' /\ TreeShape' /\ DescendShape'
  BY <1>e, InsertersKept
<1>5. SearcherShape'
  <2> SUFFICES ASSUME NEW t \in Searchers
               PROVE  SearcherFits(t)'
    BY DEF SearcherShape
  <2>1. CASE t # s
    BY <1>e, <2>1 DEF Shape, SearcherShape, SearcherFits, TypeOK, SCell
  <2>2. CASE t = s
    <3>1. SCell(s)' = SCell(s) /\ at'[s] = at[s] + 1 /\ spc'[s] = "elem"
      BY <1>e DEF Shape, TypeOK, SCell
    <3>2. at[s] >= 1 /\ count[s] <= Len(ptrList[SCell(s)]) /\ at[s] \in Nat
      BY DEF Shape, TypeOK, SearcherShape, SearcherFits, AddRemoveAtomic, SGoto
    <3> QED BY <1>a, <1>b, <1>e, <2>2, <3>1, <3>2 DEF Shape, SearcherShape, SearcherFits
  <2> QED BY <2>1, <2>2
<1> QED BY <1>1, <1>2, <1>3, <1>4, <1>5 DEF Shape

LEMMA NextSlotShape ==
    ASSUME Shape, NEW s \in Searchers, NextSlot(s)
    PROVE  Shape'
<1> USE DEF NextSlot, SGoto, treeVars, listVars, insVars, scanVars, callVars
<1>a. spc[s] # "idle" /\ spc[s] # "kids"
  OBVIOUS
<1>b. SCell(s) \in Cell /\ scan[s] # {} /\ Lowest(scan[s]) \in scan[s]
  BY <1>a, SearcherFacts
<1>1. TypeOK'
  BY DEF Shape, TypeOK
<1>2. PositionsAhead'
  BY DEF Shape, PositionsAhead
<1>3. FreeIndexInBounds'
  BY DEF Shape, FreeIndexInBounds
<1>4. InserterShape' /\ RootShape' /\ TreeShape' /\ DescendShape'
  BY InsertersKept
<1>5. SearcherShape'
  BY DEF Shape, SearcherShape, SearcherFits, TypeOK, SCell
<1> QED BY <1>1, <1>2, <1>3, <1>4, <1>5 DEF Shape

LEMMA NodeReturnShape ==
    ASSUME Shape, NEW s \in Searchers, NodeReturn(s)
    PROVE  Shape'
<1> USE DEF NodeReturn, SGoto, treeVars, listVars, insVars, scanVars, callVars
<1> DEFINE f == Head(stack[s])
           below == Tail(stack[s])
<1>a. spc[s] # "idle"
  OBVIOUS
<1>b. /\ stack[s] \in Seq(Frame) /\ stack[s] # <<>> /\ f \in Frame
      /\ f.node \in 1 .. nodeNum /\ nodePos[f.node] \in Pos
      /\ \A p \in f.rem : p > nodePos[f.node]
  BY <1>a, SearcherFacts
<1>c. /\ below \in Seq(Frame) /\ Len(below) = Len(stack[s]) - 1
      /\ \A k \in 1 .. Len(below) : below[k] = stack[s][k + 1]
  BY <1>b
<1>d. stack' = [stack EXCEPT ![s] = below]
  OBVIOUS
<1> HIDE DEF below
<1>1. TypeOK'
  <2>1. stack' \in [Searchers -> Seq(Frame)]
    <3>1. stack \in [Searchers -> Seq(Frame)] BY DEF Shape, TypeOK
    <3> QED BY <1>c, <1>d, <3>1
  <2>2. /\ spc' \in [Searchers -> {"idle", "countLock", "count", "elem", "mark", "addLock", "add", "kids"}]
        /\ squery' \in [Searchers -> SUBSET Bits] /\ seen' \in [Searchers -> SUBSET Meta]
    BY DEF Shape, TypeOK
  <2> QED BY <2>1, <2>2 DEF Shape, TypeOK
<1>2. PositionsAhead'
  <2> SUFFICES ASSUME NEW t \in Searchers, NEW k \in 1 .. Len(stack'[t]),
                      NEW p \in stack'[t][k].rem
               PROVE  p > nodePos[stack'[t][k].node]
    BY DEF Shape, PositionsAhead
  <2>1. CASE t # s
    BY <1>d, <2>1 DEF Shape, TypeOK, PositionsAhead
  <2>2. CASE t = s
    <3>1. stack'[s] = below
      BY <1>d DEF Shape, TypeOK
    <3>2. k + 1 \in 1 .. Len(stack[s]) /\ below[k] = stack[s][k + 1]
      BY <1>b, <1>c, <2>2, <3>1
    <3> QED BY <2>2, <3>1, <3>2 DEF Shape, PositionsAhead
  <2> QED BY <2>1, <2>2
<1>3. FreeIndexInBounds'
  BY DEF Shape, FreeIndexInBounds
<1>4. InserterShape' /\ RootShape' /\ TreeShape' /\ DescendShape'
  BY InsertersKept
<1>5. SearcherShape'
  <2> SUFFICES ASSUME NEW t \in Searchers
               PROVE  SearcherFits(t)'
    BY DEF SearcherShape
  <2>1. CASE t # s
    BY <2>1 DEF Shape, SearcherShape, SearcherFits, TypeOK, SCell
  <2>2. CASE t = s
    <3>1. stack'[s] = below /\ spc'[s] = IF Len(stack[s]) = 1 THEN "idle" ELSE "kids"
      BY <1>d DEF Shape, TypeOK
    <3>2. below = <<>> <=> Len(stack[s]) = 1
      <4>1. Len(below) = 0 <=> Len(stack[s]) = 1
        BY <1>b, <1>c
      <4> QED BY <1>c, <4>1, EmptySeq
    <3>3. ASSUME NEW k \in 1 .. Len(below)
          PROVE  below[k].node \in 1 .. nodeNum
      <4>1. k + 1 \in 1 .. Len(stack[s]) /\ below[k] = stack[s][k + 1]
        BY <1>b, <1>c
      <4> QED BY <4>1 DEF Shape, SearcherShape, SearcherFits
    <3>4. nodeNum' = nodeNum
      OBVIOUS
    <3>5. spc'[s] \in {"idle", "kids"} /\ (spc'[s] = "idle" <=> stack'[s] = <<>>)
      BY <3>1, <3>2
    <3> QED BY <2>2, <3>1, <3>3, <3>4, <3>5 DEF SearcherFits
  <2> QED BY <2>1, <2>2
<1> QED BY <1>1, <1>2, <1>3, <1>4, <1>5 DEF Shape

\* A step that calls Search on a node keeps Shape: the frames it leaves on the
\* stack are ahead of their nodes.
LEMMA CallShape ==
    ASSUME Shape, NEW s \in Searchers, NEW n \in 1 .. nodeNum,
           NEW rem \in SUBSET Bits, rem # {}, \A p \in rem : p > nodePos[n],
           NEW below \in Seq(Frame),
           \A k \in 1 .. Len(below) :
              /\ below[k].node \in 1 .. nodeNum
              /\ \A p \in below[k].rem : p > nodePos[below[k].node],
           Call(s, n, rem, below),
           spc' = [spc EXCEPT ![s] = "countLock"],
           UNCHANGED <<treeVars, listVars, sym, ipc, imeta, inode, irem, taken,
                       inserted, removedQuery>>,
           squery' \in [Searchers -> SUBSET Bits],
           seen' \in [Searchers -> SUBSET Meta],
           owed' \in [Searchers -> SUBSET Meta],
           asked' \in [Searchers -> Nat]
    PROVE  Shape'
<1> USE DEF treeVars, listVars, insVars, scanVars, callVars
<1>a. n \in Node /\ nodePos[n] \in Pos /\ nodeNum' = nodeNum /\ nodePos' = nodePos
  BY TrieAssumption DEF Shape, TypeOK, Node, Pos
<1>b. SlotsOf(nodePos[n], rem) \in SUBSET Slot /\ SlotsOf(nodePos[n], rem) # {}
  BY <1>a, SlotsAhead
<1> DEFINE top == [node |-> n, rem |-> rem]
           pushed == <<top>> \o below
<1>c. /\ pushed \in Seq(Frame) /\ Len(pushed) = Len(below) + 1
      /\ pushed[1] = top
      /\ \A k \in 2 .. Len(pushed) : k - 1 \in 1 .. Len(below) /\ pushed[k] = below[k - 1]
  <2>1. top \in Frame
    BY <1>a DEF Frame
  <2> QED BY <2>1
<1>d. /\ stack' = [stack EXCEPT ![s] = pushed]
      /\ scan' = [scan EXCEPT ![s] = SlotsOf(nodePos[n], rem)]
      /\ UNCHANGED <<at, count, cur, hit>>
  BY DEF Call
<1>e. \A k \in 1 .. Len(pushed) :
         /\ pushed[k].node \in 1 .. nodeNum
         /\ \A p \in pushed[k].rem : p > nodePos[pushed[k].node]
  <2> TAKE k \in 1 .. Len(pushed)
  <2>1. CASE k = 1
    BY <1>c, <2>1
  <2>2. CASE k # 1
    <3>1. k \in 2 .. Len(pushed)
      BY <2>2, <1>c
    <3> QED BY <1>c, <3>1
  <2> QED BY <2>1, <2>2
<1> HIDE DEF pushed, top
<1>1. TypeOK'
  BY <1>b, <1>c, <1>d DEF Shape, TypeOK
<1>2. PositionsAhead'
  <2>1. \A i \in Inserters : \A p \in irem'[i] : p > nodePos'[inode'[i]]
    BY DEF Shape, PositionsAhead
  <2>2. ASSUME NEW t \in Searchers, NEW k \in 1 .. Len(stack'[t]), NEW p \in stack'[t][k].rem
        PROVE  p > nodePos'[stack'[t][k].node]
    <3>1. CASE t # s
      BY <1>d, <3>1 DEF Shape, TypeOK, PositionsAhead
    <3>2. CASE t = s
      <4>1. stack'[s] = pushed
        BY <1>d DEF Shape, TypeOK
      <4> QED BY <1>e, <3>2, <4>1
    <3> QED BY <3>1, <3>2
  <2> QED BY <2>1, <2>2 DEF PositionsAhead
<1>3. FreeIndexInBounds'
  BY DEF Shape, FreeIndexInBounds
<1>4. InserterShape' /\ RootShape' /\ TreeShape' /\ DescendShape'
  BY InsertersKept
<1>5. SearcherShape'
  <2> SUFFICES ASSUME NEW t \in Searchers
               PROVE  SearcherFits(t)'
    BY DEF SearcherShape
  <2>1. CASE t # s
    BY <1>d, <2>1 DEF Shape, SearcherShape, SearcherFits, TypeOK, SCell
  <2>2. CASE t = s
    <3>1. stack'[s] = pushed /\ spc'[s] = "countLock" /\ scan'[s] # {}
      BY <1>b, <1>d DEF Shape, TypeOK
    <3>2. pushed # <<>>
      BY <1>c
    <3> QED BY <1>a, <1>e, <2>2, <3>1, <3>2 DEF SearcherFits
  <2> QED BY <2>1, <2>2
<1> QED BY <1>1, <1>2, <1>3, <1>4, <1>5 DEF Shape

LEMMA SearchShape ==
    ASSUME Shape, NEW s \in Searchers, NEW q \in Queries, Search(s, q)
    PROVE  Shape'
<1> USE DEF treeVars, listVars, insVars, scanVars, callVars
<1>a. q \in SUBSET Bits /\ Zeros(q) \in SUBSET Bits /\ \A p \in Bits : p > PosNan
  BY TrieAssumption, GeometryAssumption DEF Zeros, Bits, PosNan
<1>b. Root \in 1 .. nodeNum /\ nodePos[Root] = PosNan /\ <<>> \in Seq(Frame)
  BY DEF Shape, RootShape, TypeOK, Node, Root
<1>c. asked' \in [Searchers -> Nat] /\ owed' \in [Searchers -> SUBSET Meta]
  <2>1. {m \in inserted : sym[m] = {} /\ Includes(Data[m], q)} \in SUBSET Meta
    BY DEF Shape, TypeOK
  <2> QED BY <2>1 DEF Search, Shape, TypeOK
<1>d. UNCHANGED <<treeVars, listVars, sym, ipc, imeta, inode, irem, taken, inserted,
                  removedQuery>>
  BY DEF Search
<1>1. CASE Zeros(q) = {}
  <2>1. UNCHANGED <<spc, squery, seen, scanVars>>
    <3>1. spc[s] = "idle" /\ spc' = [spc EXCEPT ![s] = "idle"]
          /\ UNCHANGED <<squery, seen, scanVars>>
      BY <1>1 DEF Search, SGoto
    <3> QED BY <3>1 DEF Shape, TypeOK
  <2>2. TypeOK'
    BY <1>c, <1>d, <2>1 DEF Shape, TypeOK
  <2>3. PositionsAhead' /\ FreeIndexInBounds'
    BY <1>d, <2>1 DEF Shape, PositionsAhead, FreeIndexInBounds
  <2>4. InserterShape' /\ RootShape' /\ TreeShape' /\ DescendShape'
    BY <1>d, InsertersKept
  <2>5. SearcherShape'
    BY <1>d, <2>1 DEF Shape, SearcherShape, SearcherFits, SCell
  <2> QED BY <2>2, <2>3, <2>4, <2>5 DEF Shape
<1>2. CASE Zeros(q) # {}
  <2>1. /\ spc' = [spc EXCEPT ![s] = "countLock"]
        /\ squery' = [squery EXCEPT ![s] = q]
        /\ seen' = [seen EXCEPT ![s] = {m \in inserted : sym[m] = {}}]
        /\ Call(s, Root, Zeros(q), <<>>)
    BY <1>2 DEF Search, SGoto
  <2>2. squery' \in [Searchers -> SUBSET Bits]
    BY <1>a, <2>1 DEF Shape, TypeOK
  <2>3. seen' \in [Searchers -> SUBSET Meta]
    <3>1. {m \in inserted : sym[m] = {}} \in SUBSET Meta
      BY DEF Shape, TypeOK
    <3> QED BY <2>1, <3>1 DEF Shape, TypeOK
  <2>4. \A p \in Zeros(q) : p > nodePos[Root]
    BY <1>a, <1>b
  <2>5. \A k \in 1 .. Len(<<>>) :
           /\ <<>>[k].node \in 1 .. nodeNum
           /\ \A p \in <<>>[k].rem : p > nodePos[<<>>[k].node]
    OBVIOUS
  <2> QED BY <1>2, <1>a, <1>b, <1>c, <1>d, <2>1, <2>2, <2>3, <2>4, <2>5, CallShape
<1> QED BY <1>1, <1>2

\* The activations below the running one fit the tree.
LEMMA BelowFits ==
    ASSUME Shape, NEW s \in Searchers, spc[s] # "idle"
    PROVE  /\ Tail(stack[s]) \in Seq(Frame) /\ Len(Tail(stack[s])) = Len(stack[s]) - 1
           /\ \A k \in 1 .. Len(Tail(stack[s])) :
                 /\ Tail(stack[s])[k].node \in 1 .. nodeNum
                 /\ \A p \in Tail(stack[s])[k].rem : p > nodePos[Tail(stack[s])[k].node]
<1>1. stack[s] \in Seq(Frame) /\ stack[s] # <<>>
  BY SearcherFacts
<1>2. Tail(stack[s]) \in Seq(Frame) /\ Len(Tail(stack[s])) = Len(stack[s]) - 1
  BY <1>1
<1>3. ASSUME NEW k \in 1 .. Len(Tail(stack[s]))
      PROVE  /\ Tail(stack[s])[k].node \in 1 .. nodeNum
             /\ \A p \in Tail(stack[s])[k].rem : p > nodePos[Tail(stack[s])[k].node]
  <2>1. k + 1 \in 1 .. Len(stack[s]) /\ Tail(stack[s])[k] = stack[s][k + 1]
    BY <1>1, <1>2
  <2> QED BY <2>1 DEF Shape, SearcherShape, SearcherFits, PositionsAhead
<1> QED BY <1>2, <1>3

LEMMA NearChildShape ==
    ASSUME Shape, NEW s \in Searchers, NearChild(s)
    PROVE  Shape'
<1> USE DEF treeVars, listVars, insVars, scanVars, callVars
<1> DEFINE f == Head(stack[s])
           p == Lowest(f.rem)
           rest == f.rem \ {p}
           slot == SlotOf(nodePos[f.node], p)
           n == children[<<f.node, slot>>]
           next == [f EXCEPT !.rem = rest]
           below == <<next>> \o Tail(stack[s])
<1>a. spc[s] = "kids" /\ f.rem # {}
  BY DEF NearChild
<1>b. /\ f \in Frame /\ f.node \in 1 .. nodeNum /\ nodePos[f.node] \in Pos
      /\ \A x \in f.rem : x > nodePos[f.node]
  BY <1>a, SearcherFacts
<1>c. f.node \in Node /\ f.rem \in SUBSET Bits /\ rest \in SUBSET Bits
  BY <1>b DEF Frame
<1>d. slot \in Slot /\ \A x \in rest : x > ChildPos(nodePos[f.node], slot)
  BY <1>a, <1>b, <1>c, RestAhead
<1>e. next \in Frame /\ next.node = f.node /\ next.rem = rest
  BY <1>b, <1>c DEF Frame
<1>f. /\ Tail(stack[s]) \in Seq(Frame) /\ Len(Tail(stack[s])) = Len(stack[s]) - 1
      /\ \A k \in 1 .. Len(Tail(stack[s])) :
            /\ Tail(stack[s])[k].node \in 1 .. nodeNum
            /\ \A x \in Tail(stack[s])[k].rem : x > nodePos[Tail(stack[s])[k].node]
  BY <1>a, BelowFits
<1>g. /\ below \in Seq(Frame) /\ Len(below) = Len(Tail(stack[s])) + 1 /\ below[1] = next
      /\ \A k \in 2 .. Len(below) :
            k - 1 \in 1 .. Len(Tail(stack[s])) /\ below[k] = Tail(stack[s])[k - 1]
  <2> HIDE DEF next
  <2> QED BY <1>e, <1>f
<1>h. /\ UNCHANGED <<treeVars, listVars, sym, insVars, callVars>>
      /\ \/ /\ n # NoNode /\ rest # {}
            /\ spc' = [spc EXCEPT ![s] = "countLock"]
            /\ Call(s, n, rest, below)
         \/ /\ stack' = [stack EXCEPT ![s] = below]
            /\ UNCHANGED <<spc, scan, at, count, cur, hit>>
  BY DEF NearChild
<1> HIDE DEF below, next, n, rest, slot, p
<1>i. ASSUME NEW k \in 1 .. Len(below)
      PROVE  /\ below[k].node \in 1 .. nodeNum
             /\ \A x \in below[k].rem : x > nodePos[below[k].node]
  <2>1. CASE k = 1
    BY <1>b, <1>e, <1>g, <2>1 DEF rest
  <2>2. CASE k # 1
    <3>1. k \in 2 .. Len(below)
      BY <1>f, <1>g, <2>2
    <3> QED BY <1>f, <1>g, <3>1
  <2> QED BY <2>1, <2>2
<1>1. CASE /\ n # NoNode /\ rest # {}
           /\ spc' = [spc EXCEPT ![s] = "countLock"]
           /\ Call(s, n, rest, below)
  <2>1. n \in 1 .. nodeNum /\ nodePos[n] = ChildPos(nodePos[f.node], slot)
    BY <1>1, <1>c, <1>d DEF Shape, TreeShape, n
  <2>2. \A x \in rest : x > nodePos[n]
    BY <1>d, <2>1
  <2>3. /\ squery' \in [Searchers -> SUBSET Bits] /\ seen' \in [Searchers -> SUBSET Meta]
        /\ owed' \in [Searchers -> SUBSET Meta] /\ asked' \in [Searchers -> Nat]
    BY <1>h DEF Shape, TypeOK
  <2>4. UNCHANGED <<treeVars, listVars, sym, ipc, imeta, inode, irem, taken,
                    inserted, removedQuery>>
    BY <1>h
  <2>5. rest \in SUBSET Bits
    BY <1>c
  <2> QED BY <1>1, <1>g, <1>i, <2>1, <2>2, <2>3, <2>4, <2>5, CallShape
<1>2. CASE /\ stack' = [stack EXCEPT ![s] = below]
           /\ UNCHANGED <<spc, scan, at, count, cur, hit>>
  <2>1. TypeOK'
    BY <1>2, <1>g, <1>h DEF Shape, TypeOK
  <2>2. stack'[s] = below /\ \A t \in Searchers : t # s => stack'[t] = stack[t]
    BY <1>2 DEF Shape, TypeOK
  <2>3. PositionsAhead'
    <3>1. \A i \in Inserters : \A x \in irem'[i] : x > nodePos'[inode'[i]]
      BY <1>h DEF Shape, PositionsAhead
    <3>2. ASSUME NEW t \in Searchers, NEW k \in 1 .. Len(stack'[t]),
                 NEW x \in stack'[t][k].rem
          PROVE  x > nodePos'[stack'[t][k].node]
      <4>1. CASE t # s
        BY <1>h, <2>2, <4>1 DEF Shape, PositionsAhead
      <4>2. CASE t = s
        BY <1>h, <1>i, <2>2, <4>2
      <4> QED BY <4>1, <4>2
    <3> QED BY <3>1, <3>2 DEF PositionsAhead
  <2>4. FreeIndexInBounds'
    BY <1>h DEF Shape, FreeIndexInBounds
  <2>5. InserterShape' /\ RootShape' /\ TreeShape' /\ DescendShape'
    BY <1>h, InsertersKept
  <2>6. SearcherShape'
    <3> SUFFICES ASSUME NEW t \in Searchers
                 PROVE  SearcherFits(t)'
      BY DEF SearcherShape
    <3>1. CASE t # s
      BY <1>2, <1>h, <2>2, <3>1 DEF Shape, SearcherShape, SearcherFits, SCell
    <3>2. CASE t = s
      <4>1. spc'[s] = "kids" /\ stack'[s] # <<>>
        <5>1. Len(below) # 0
          BY <1>f, <1>g
        <5> QED BY <1>2, <1>a, <2>2, <5>1
      <4>2. \A k \in 1 .. Len(stack'[s]) : stack'[s][k].node \in 1 .. nodeNum'
        BY <1>h, <1>i, <2>2
      <4> QED BY <3>2, <4>1, <4>2 DEF SearcherFits
    <3> QED BY <3>1, <3>2
  <2> QED BY <2>1, <2>3, <2>4, <2>5, <2>6 DEF Shape
<1> QED BY <1>1, <1>2, <1>h

LEMMA TailChildShape ==
    ASSUME Shape, NEW s \in Searchers, TailChild(s)
    PROVE  Shape'
<1> USE DEF treeVars, listVars, insVars, scanVars, callVars
<1> DEFINE f == Head(stack[s])
           n == children[<<f.node, TailSlot>>]
<1>a. /\ spc[s] = "kids" /\ f.rem # {} /\ ~IsNear(nodePos[f.node], Lowest(f.rem))
      /\ n # NoNode
      /\ spc' = [spc EXCEPT ![s] = "countLock"]
      /\ Call(s, n, f.rem, Tail(stack[s]))
      /\ UNCHANGED <<treeVars, listVars, sym, insVars, callVars>>
  BY DEF TailChild
<1>b. /\ f \in Frame /\ f.node \in 1 .. nodeNum /\ nodePos[f.node] \in Pos
      /\ \A x \in f.rem : x > nodePos[f.node]
  BY <1>a, SearcherFacts
<1>c. f.node \in Node /\ f.rem \in SUBSET Bits /\ TailSlot \in Slot
  BY <1>b, GeometryAssumption DEF Frame, Slot, TailSlot
<1>d. \A x \in f.rem : x > ChildPos(nodePos[f.node], TailSlot)
  BY <1>a, <1>b, <1>c, FarAhead
<1>e. n \in 1 .. nodeNum /\ nodePos[n] = ChildPos(nodePos[f.node], TailSlot)
  BY <1>a, <1>c DEF Shape, TreeShape
<1>f. \A x \in f.rem : x > nodePos[n]
  BY <1>d, <1>e
<1>g. /\ squery' \in [Searchers -> SUBSET Bits] /\ seen' \in [Searchers -> SUBSET Meta]
      /\ owed' \in [Searchers -> SUBSET Meta] /\ asked' \in [Searchers -> Nat]
  BY <1>a DEF Shape, TypeOK
<1>h. /\ Tail(stack[s]) \in Seq(Frame)
      /\ \A k \in 1 .. Len(Tail(stack[s])) :
            /\ Tail(stack[s])[k].node \in 1 .. nodeNum
            /\ \A x \in Tail(stack[s])[k].rem : x > nodePos[Tail(stack[s])[k].node]
  BY <1>a, BelowFits
<1>i. UNCHANGED <<treeVars, listVars, sym, ipc, imeta, inode, irem, taken,
                  inserted, removedQuery>>
  BY <1>a
<1> HIDE DEF f, n
<1> QED BY <1>a, <1>c, <1>e, <1>f, <1>g, <1>h, <1>i, CallShape

-----------------------------------------------------------------------------
(* The clients, the initial state and the theorems *)

LEMMA ClientDeleteShape ==
    ASSUME Shape, NEW m \in Meta, ClientDelete(m)
    PROVE  Shape'
<1> USE DEF ClientDelete, treeVars, listVars, insVars, searchVars, scanVars, callVars
<1>1. TypeOK'
  BY DEF Shape, TypeOK, Flag
<1>2. PositionsAhead' /\ FreeIndexInBounds'
  BY DEF Shape, PositionsAhead, FreeIndexInBounds
<1>3. InserterShape' /\ RootShape' /\ TreeShape' /\ DescendShape'
  BY InsertersKept
<1>4. SearcherShape'
  BY DEF Shape, SearcherShape, SearcherFits, SCell
<1> QED BY <1>1, <1>2, <1>3, <1>4 DEF Shape

LEMMA StutterShape ==
    ASSUME Shape, UNCHANGED vars
    PROVE  Shape'
<1> USE DEF vars, treeVars, listVars, insVars, searchVars, scanVars, callVars
<1>1. TypeOK'
  BY DEF Shape, TypeOK
<1>2. PositionsAhead' /\ FreeIndexInBounds'
  BY DEF Shape, PositionsAhead, FreeIndexInBounds
<1>3. InserterShape' /\ RootShape' /\ TreeShape' /\ DescendShape'
  BY InsertersKept
<1>4. SearcherShape'
  BY DEF Shape, SearcherShape, SearcherFits, SCell
<1> QED BY <1>1, <1>2, <1>3, <1>4 DEF Shape

LEMMA InitShape == Init => Shape
<1> SUFFICES ASSUME Init
             PROVE  Shape
  OBVIOUS
<1> USE DEF Init
<1>1. TypeOK
  BY RootIsNode DEF TypeOK, Root, PosNan, NoNode, Flag
<1>2. PositionsAhead /\ FreeIndexInBounds
  BY DEF PositionsAhead, FreeIndexInBounds
<1>3. InserterShape /\ RootShape /\ DescendShape
  BY RootIsNode DEF InserterShape, RootShape, DescendShape
<1>4. TreeShape
  BY DEF TreeShape, Cell
<1>5. SearcherShape
  BY DEF SearcherShape, SearcherFits
<1> QED BY <1>1, <1>2, <1>3, <1>4, <1>5 DEF Shape

LEMMA NextShape == Shape /\ [Next]_vars => Shape'
<1> SUFFICES ASSUME Shape, [Next]_vars
             PROVE  Shape'
  OBVIOUS
<1>1. CASE \E i \in Inserters : InserterStep(i)
  BY <1>1, ProbeFreeShape, ILockListShape, ReuseShape, ReuseLostShape, ProbeRoomShape,
     PushShape, ProbeChildShape, LockNodeShape, NewNodeShape, DescendShapeKept
     DEF InserterStep
<1>2. CASE \E i \in Inserters, m \in Meta : Insert2(i, m)
  BY <1>2, Insert2Shape
<1>3. CASE \E s \in Searchers : SearcherStep(s)
  BY <1>3, SLockListShape, CountShape, ElemShape, MarkShape, AddRemoveAtomicShape,
     NextSlotShape, NearChildShape, TailChildShape, NodeReturnShape
     DEF SearcherStep
<1>4. CASE \E s \in Searchers, q \in Queries : Search(s, q)
  BY <1>4, SearchShape
<1>5. CASE \E m \in Meta : ClientDelete(m)
  BY <1>5, ClientDeleteShape
<1>6. CASE Rest \/ UNCHANGED vars
  BY <1>6, StutterShape DEF Rest
<1> QED BY <1>1, <1>2, <1>3, <1>4, <1>5, <1>6 DEF Next

\* Shape holds in every state, with any number of threads, signatures, bits,
\* slots and nodes.
THEOREM ShapeInvariant == Spec => []Shape
<1>1. Init => Shape
  BY InitShape
<1>2. Shape /\ [Next]_vars => Shape'
  BY NextShape
<1> QED BY <1>1, <1>2, PTL DEF Spec

\* The variables keep their types: no subscript, child pointer or position
\* leaves its range (Insert2, Search and what they call).
THEOREM TypeCorrect == Spec => []TypeOK
<1>1. Shape => TypeOK
  BY DEF Shape
<1> QED BY <1>1, ShapeInvariant, PTL

\* Every descent, of an insertion or of a search, has only positions behind the
\* node it has reached (lines 314-316, 448, 524, 640, 653).
THEOREM DescentsAhead == Spec => []PositionsAhead
<1>1. Shape => PositionsAhead
  BY DEF Shape
<1> QED BY <1>1, ShapeInvariant, PTL

\* Whatever searches offer for reuse, an insertion that takes it writes inside
\* the list (line 453), even when uint16_t cannot hold the index.
THEOREM ReuseInBounds == Spec => []FreeIndexInBounds
<1>1. Shape => FreeIndexInBounds
  BY DEF Shape
<1> QED BY <1>1, ShapeInvariant, PTL

-----------------------------------------------------------------------------
(* The spinlocks: which cells and nodes a thread is inside of *)

\* The removed_lock_ that t has set, if any.
Held(t) ==
    IF t \in Inserters
    THEN IF ipc[t] \in {"reuse", "push"} THEN {ICell(t)} ELSE {}
    ELSE IF spc[t] \in {"count", "add"} THEN {SCell(t)} ELSE {}

\* The lock_ that i has set, if any.
NodeHeld(i) == IF ipc[i] = "newNode" THEN {inode[i]} ELSE {}

HeldLists == [t \in Inserters \cup Searchers |-> Held(t)]
HeldNodes == [i \in Inserters |-> NodeHeld(i)]

\* Every byte is 1 exactly while one thread holds it.
Disciplined(bytes, held) ==
    \A c \in DOMAIN bytes : Guards(bytes[c], {t \in DOMAIN held : c \in held[t]})

\* A thread that sets a byte it found 0 is its only holder.
LEMMA Taken ==
    ASSUME NEW bytes, NEW held, NEW c \in DOMAIN bytes, NEW t \in DOMAIN held,
           Disciplined(bytes, held), bytes[c] = 0, held[t] = {}
    PROVE  Disciplined([bytes EXCEPT ![c] = 1], [held EXCEPT ![t] = {c}])
<1> DEFINE now == [bytes EXCEPT ![c] = 1]
           holds == [held EXCEPT ![t] = {c}]
<1>1. ASSUME NEW d \in DOMAIN bytes, d # c
      PROVE  now[d] = bytes[d] /\ {u \in DOMAIN holds : d \in holds[u]}
                                  = {u \in DOMAIN held : d \in held[u]}
  BY <1>1
<1>2. {u \in DOMAIN held : c \in held[u]} = {}
  BY DEF Disciplined, Guards
<1>3. now[c] = 1 /\ {u \in DOMAIN holds : c \in holds[u]} = {t}
  BY <1>2
<1>4. DOMAIN now = DOMAIN bytes
  OBVIOUS
<1> HIDE DEF now, holds
<1>5. ASSUME NEW d \in DOMAIN bytes
      PROVE  Guards(now[d], {u \in DOMAIN holds : d \in holds[u]})
  BY <1>1, <1>3 DEF Disciplined, Guards
<1>6. Disciplined(now, holds)
  BY <1>4, <1>5 DEF Disciplined
<1> QED BY <1>6 DEF now, holds

\* A thread that clears the byte it holds leaves nobody inside.
LEMMA Given ==
    ASSUME NEW bytes, NEW held, NEW c \in DOMAIN bytes, NEW t \in DOMAIN held,
           Disciplined(bytes, held), held[t] = {c}
    PROVE  Disciplined([bytes EXCEPT ![c] = 0], [held EXCEPT ![t] = {}])
<1> DEFINE now == [bytes EXCEPT ![c] = 0]
           holds == [held EXCEPT ![t] = {}]
<1>1. ASSUME NEW d \in DOMAIN bytes, d # c
      PROVE  now[d] = bytes[d] /\ {u \in DOMAIN holds : d \in holds[u]}
                                  = {u \in DOMAIN held : d \in held[u]}
  BY <1>1
<1>2. t \in {u \in DOMAIN held : c \in held[u]}
  OBVIOUS
<1>3. {u \in DOMAIN held : c \in held[u]} = {t}
  BY <1>2 DEF Disciplined, Guards
<1>4. now[c] = 0 /\ {u \in DOMAIN holds : c \in holds[u]} = {}
  BY <1>3
<1>5. DOMAIN now = DOMAIN bytes
  OBVIOUS
<1> HIDE DEF now, holds
<1>6. ASSUME NEW d \in DOMAIN bytes
      PROVE  Guards(now[d], {u \in DOMAIN holds : d \in holds[u]})
  BY <1>1, <1>4 DEF Disciplined, Guards
<1>7. Disciplined(now, holds)
  BY <1>5, <1>6 DEF Disciplined
<1> QED BY <1>7 DEF now, holds

LockInv == Disciplined(removedLock, HeldLists) /\ Disciplined(nodeLock, HeldNodes)

\* The two ways of saying it are one.
LEMMA LockInvDiscipline == ASSUME Shape, LockInv PROVE LockDiscipline
<1>1. DOMAIN removedLock = Cell /\ DOMAIN nodeLock = Node
  BY DEF Shape, TypeOK
<1>2. Inserters \cap Searchers = {}
  BY TrieAssumption
<1>3. ASSUME NEW c \in Cell
      PROVE  {t \in DOMAIN HeldLists : c \in HeldLists[t]} = RemovedHolders(c)
  BY <1>2 DEF HeldLists, Held, RemovedHolders
<1>4. ASSUME NEW n \in Node
      PROVE  {i \in DOMAIN HeldNodes : n \in HeldNodes[i]} = NodeHolders(n)
  BY DEF HeldNodes, NodeHeld, NodeHolders
<1> QED BY <1>1, <1>3, <1>4 DEF LockInv, Disciplined, LockDiscipline

\* A step of an inserter moves nobody else into or out of a section, and no node
\* that a thread has reached.
LEMMA OtherInserters ==
    ASSUME Shape, NEW i \in Inserters,
           InserterStep(i) \/ \E m \in Meta : Insert2(i, m)
    PROVE  /\ \A t \in (Inserters \cup Searchers) \ {i} : Held(t)' = Held(t)
           /\ \A j \in Inserters \ {i} :
                 /\ NodeHeld(j)' = NodeHeld(j)
                 /\ ipc'[j] = ipc[j]
                 /\ ipc[j] # "idle" => ICell(j)' = ICell(j)
<1> USE DEF InserterStep, Insert2, ProbeFree, ILockList, Reuse, ReuseLost, ProbeRoom, Push,
            ProbeChild, LockNode, NewNode, Descend, IGoto, IReturn, IUnchanged,
            treeVars, listVars, searchVars, scanVars, callVars
<1>1. UNCHANGED <<spc, stack, scan>>
  OBVIOUS
<1>2. \A j \in Inserters \ {i} : ipc'[j] = ipc[j] /\ inode'[j] = inode[j] /\ irem'[j] = irem[j]
  BY DEF Shape, TypeOK
<1>3. \A n \in 1 .. nodeNum : nodePos'[n] = nodePos[n]
  <2>1. nodeNum \in Nat
    BY DEF Shape, TypeOK, Node
  <2>2. nodePos' = nodePos \/ NewNode(i)
    OBVIOUS
  <2>3. ASSUME NewNode(i)
        PROVE  \A n \in 1 .. nodeNum : nodePos'[n] = nodePos[n]
    BY <2>1, <2>3
  <2> QED BY <2>2, <2>3
<1> QED
  <2>1. ASSUME NEW j \in Inserters \ {i}
        PROVE  /\ Held(j)' = Held(j) /\ NodeHeld(j)' = NodeHeld(j)
               /\ ipc'[j] = ipc[j] /\ (ipc[j] # "idle" => ICell(j)' = ICell(j))
    <3>1. ipc[j] # "idle" => inode[j] \in 1 .. nodeNum
      BY DEF Shape, InserterShape
    <3>2. ipc[j] # "idle" => ICell(j)' = ICell(j)
      BY <1>2, <1>3, <3>1 DEF ICell
    <3> QED BY <1>2, <3>2 DEF Held, NodeHeld
  <2>2. ASSUME NEW s \in Searchers
        PROVE  Held(s)' = Held(s)
    <3>1. s \notin Inserters
      BY TrieAssumption
    <3> QED BY <1>1, <3>1 DEF Held, SCell
  <2> QED BY <2>1, <2>2

\* A step of a searcher moves nobody else into or out of a section.
LEMMA OtherSearchers ==
    ASSUME Shape, NEW s \in Searchers,
           SearcherStep(s) \/ \E q \in Queries : Search(s, q)
    PROVE  /\ \A t \in (Inserters \cup Searchers) \ {s} : Held(t)' = Held(t)
           /\ HeldNodes' = HeldNodes
           /\ nodeLock' = nodeLock
<1> USE DEF SearcherStep, Search, SLockList, Count, Elem, Mark, AddRemoveAtomic, NextSlot,
            NearChild, TailChild, NodeReturn, Call, SGoto,
            treeVars, listVars, insVars, scanVars, callVars
<1>1. UNCHANGED <<ipc, inode, irem, nodePos, nodeLock>>
  OBVIOUS
<1>2. ASSUME NEW t \in Searchers \ {s}
      PROVE  spc'[t] = spc[t] /\ stack'[t] = stack[t] /\ scan'[t] = scan[t]
  <2>1. t \in DOMAIN spc /\ t \in DOMAIN stack /\ t \in DOMAIN scan /\ t # s
    BY DEF Shape, TypeOK
  <2>2. CASE NearChild(s)
    BY <2>1, <2>2
  <2>3. CASE TailChild(s) \/ NodeReturn(s) \/ NextSlot(s)
    BY <2>1, <2>3
  <2>4. CASE \E q \in Queries : Search(s, q)
    BY <2>1, <2>4
  <2>5. CASE SLockList(s, "countLock", "count") \/ SLockList(s, "addLock", "add") \/ Count(s)
             \/ Elem(s) \/ Mark(s) \/ AddRemoveAtomic(s)
    BY <2>1, <2>5
  <2> QED BY <2>2, <2>3, <2>4, <2>5
<1>3. HeldNodes' = HeldNodes
  BY <1>1 DEF HeldNodes, NodeHeld
<1>4. ASSUME NEW t \in (Inserters \cup Searchers) \ {s}
      PROVE  Held(t)' = Held(t)
  BY <1>1, <1>2 DEF Held, SCell, ICell
<1> QED BY <1>1, <1>3, <1>4

\* The thread that moves, of all that are inside of sections.
LEMMA HeldExcept ==
    ASSUME NEW t \in Inserters \cup Searchers, NEW h,
           \A u \in (Inserters \cup Searchers) \ {t} : Held(u)' = Held(u),
           Held(t)' = h
    PROVE  HeldLists' = [HeldLists EXCEPT ![t] = h]
  BY DEF HeldLists

LEMMA NodeHeldExcept ==
    ASSUME NEW i \in Inserters, NEW h,
           \A j \in Inserters \ {i} : NodeHeld(j)' = NodeHeld(j),
           NodeHeld(i)' = h
    PROVE  HeldNodes' = [HeldNodes EXCEPT ![i] = h]
  BY DEF HeldNodes

\* The lock_ of a node is set and cleared by LockNode and NewNode.
LEMMA NodeLockKept ==
    ASSUME Shape, LockInv, NEW i \in Inserters,
           InserterStep(i) \/ \E m \in Meta : Insert2(i, m)
    PROVE  Disciplined(nodeLock, HeldNodes)'
<1> USE DEF IGoto, treeVars
<1>1. HeldNodes' = [HeldNodes EXCEPT ![i] = NodeHeld(i)']
  BY OtherInserters, NodeHeldExcept
<1>2. i \in DOMAIN HeldNodes /\ HeldNodes[i] = NodeHeld(i) /\ HeldNodes = [HeldNodes EXCEPT ![i] = NodeHeld(i)]
      /\ i \in DOMAIN ipc
  BY DEF HeldNodes, Shape, TypeOK
<1>3. CASE LockNode(i)
  <2>1. inode[i] \in DOMAIN nodeLock /\ nodeLock[inode[i]] = 0
        /\ nodeLock' = [nodeLock EXCEPT ![inode[i]] = 1]
    BY <1>3 DEF LockNode, Shape, TypeOK
  <2>2. NodeHeld(i) = {} /\ NodeHeld(i)' = {inode[i]}
    BY <1>2, <1>3 DEF LockNode, IUnchanged, NodeHeld
  <2>3. Disciplined([nodeLock EXCEPT ![inode[i]] = 1], [HeldNodes EXCEPT ![i] = {inode[i]}])
    BY <1>2, <2>1, <2>2, Taken DEF LockInv
  <2> QED BY <1>1, <2>1, <2>2, <2>3
<1>4. CASE NewNode(i)
  <2>1. inode[i] \in DOMAIN nodeLock /\ nodeLock' = [nodeLock EXCEPT ![inode[i]] = 0]
    BY <1>4 DEF NewNode, ICell, Shape, TypeOK
  <2>2. NodeHeld(i) = {inode[i]} /\ NodeHeld(i)' = {}
    BY <1>2, <1>4 DEF NewNode, NodeHeld
  <2>3. Disciplined([nodeLock EXCEPT ![inode[i]] = 0], [HeldNodes EXCEPT ![i] = {}])
    BY <1>2, <2>1, <2>2, Given DEF LockInv
  <2> QED BY <1>1, <2>1, <2>2, <2>3
<1>5. CASE ~LockNode(i) /\ ~NewNode(i)
  <2>1. nodeLock' = nodeLock /\ NodeHeld(i)' = NodeHeld(i)
    BY <1>2, <1>5
       DEF InserterStep, Insert2, ProbeFree, ILockList, Reuse, ReuseLost, ProbeRoom, Push,
           ProbeChild, Descend, IReturn, NodeHeld
  <2>2. HeldNodes' = HeldNodes
    BY <1>1, <1>2, <2>1
  <2> QED BY <2>1, <2>2 DEF LockInv, Disciplined
<1> QED BY <1>3, <1>4, <1>5

\* The removed_lock_ of a cell, and the sections of Insert.
LEMMA InserterLockKept ==
    ASSUME Shape, LockInv, NEW i \in Inserters,
           InserterStep(i) \/ \E m \in Meta : Insert2(i, m)
    PROVE  Disciplined(removedLock, HeldLists)'
<1> USE DEF IGoto, listVars
<1>1. HeldLists' = [HeldLists EXCEPT ![i] = Held(i)']
  BY OtherInserters, HeldExcept
<1>2. i \in DOMAIN HeldLists /\ HeldLists[i] = Held(i) /\ HeldLists = [HeldLists EXCEPT ![i] = Held(i)]
      /\ i \in DOMAIN ipc
  BY DEF HeldLists, Shape, TypeOK
<1>3. ipc[i] # "idle" => ICell(i) \in DOMAIN removedLock
  BY InserterFacts DEF Shape, TypeOK
<1>4. CASE ILockList(i, "reuseLock", "reuse") \/ ILockList(i, "pushLock", "push")
  <2>1. ICell(i) \in DOMAIN removedLock /\ removedLock[ICell(i)] = 0
        /\ removedLock' = [removedLock EXCEPT ![ICell(i)] = 1]
    BY <1>3, <1>4 DEF ILockList
  <2>2. Held(i) = {} /\ Held(i)' = {ICell(i)}
    BY <1>2, <1>4 DEF ILockList, IUnchanged, treeVars, Held, ICell
  <2>3. Disciplined([removedLock EXCEPT ![ICell(i)] = 1], [HeldLists EXCEPT ![i] = {ICell(i)}])
    BY <1>2, <2>1, <2>2, Taken DEF LockInv
  <2> QED BY <1>1, <2>1, <2>2, <2>3
<1>5. CASE Reuse(i) \/ ReuseLost(i) \/ Push(i)
  <2>1. ICell(i) \in DOMAIN removedLock /\ removedLock' = [removedLock EXCEPT ![ICell(i)] = 0]
    BY <1>3, <1>5 DEF Reuse, ReuseLost, Push, IReturn
  <2>2. Held(i) = {ICell(i)} /\ Held(i)' = {}
    BY <1>2, <1>5 DEF Reuse, ReuseLost, Push, IReturn, Held
  <2>3. Disciplined([removedLock EXCEPT ![ICell(i)] = 0], [HeldLists EXCEPT ![i] = {}])
    BY <1>2, <2>1, <2>2, Given DEF LockInv
  <2> QED BY <1>1, <2>1, <2>2, <2>3
<1>6. CASE ProbeFree(i) \/ ProbeRoom(i) \/ ProbeChild(i) \/ LockNode(i) \/ NewNode(i) \/ Descend(i)
           \/ \E m \in Meta : Insert2(i, m)
  <2>1. removedLock' = removedLock /\ Held(i) = {} /\ Held(i)' = {}
    BY <1>2, <1>6 DEF ProbeFree, ProbeRoom, ProbeChild, LockNode, NewNode, Descend, Insert2, Held
  <2>2. HeldLists' = HeldLists
    BY <1>1, <1>2, <2>1
  <2> QED BY <2>1, <2>2 DEF LockInv, Disciplined
<1> QED BY <1>4, <1>5, <1>6 DEF InserterStep

\* The removed_lock_ of a cell, and the sections of SearchPtrList.
LEMMA SearcherLockKept ==
    ASSUME Shape, LockInv, NEW s \in Searchers,
           SearcherStep(s) \/ \E q \in Queries : Search(s, q)
    PROVE  Disciplined(removedLock, HeldLists)'
<1> USE DEF SGoto, listVars
<1>1. HeldLists' = [HeldLists EXCEPT ![s] = Held(s)']
  BY OtherSearchers, HeldExcept
<1>2. s \in DOMAIN HeldLists /\ HeldLists[s] = Held(s) /\ HeldLists = [HeldLists EXCEPT ![s] = Held(s)]
      /\ s \in DOMAIN spc /\ s \notin Inserters
  BY TrieAssumption DEF HeldLists, Shape, TypeOK
<1>3. spc[s] \notin {"idle", "kids"} => SCell(s) \in DOMAIN removedLock
  BY SearcherFacts DEF Shape, TypeOK
<1>4. CASE SLockList(s, "countLock", "count") \/ SLockList(s, "addLock", "add")
  <2>1. SCell(s) \in DOMAIN removedLock /\ removedLock[SCell(s)] = 0
        /\ removedLock' = [removedLock EXCEPT ![SCell(s)] = 1]
    BY <1>3, <1>4 DEF SLockList
  <2>2. Held(s) = {} /\ Held(s)' = {SCell(s)}
    BY <1>2, <1>4 DEF SLockList, scanVars, Held, SCell
  <2>3. Disciplined([removedLock EXCEPT ![SCell(s)] = 1], [HeldLists EXCEPT ![s] = {SCell(s)}])
    BY <1>2, <2>1, <2>2, Taken DEF LockInv
  <2> QED BY <1>1, <2>1, <2>2, <2>3
<1>5. CASE Count(s) \/ AddRemoveAtomic(s)
  <2>1. SCell(s) \in DOMAIN removedLock /\ removedLock' = [removedLock EXCEPT ![SCell(s)] = 0]
    BY <1>3, <1>5 DEF Count, AddRemoveAtomic
  <2>2. Held(s) = {SCell(s)} /\ Held(s)' = {}
    BY <1>2, <1>5 DEF Count, AddRemoveAtomic, Held
  <2>3. Disciplined([removedLock EXCEPT ![SCell(s)] = 0], [HeldLists EXCEPT ![s] = {}])
    BY <1>2, <2>1, <2>2, Given DEF LockInv
  <2> QED BY <1>1, <2>1, <2>2, <2>3
<1>6. CASE Elem(s) \/ Mark(s) \/ NextSlot(s) \/ NearChild(s) \/ TailChild(s) \/ NodeReturn(s)
           \/ \E q \in Queries : Search(s, q)
  <2>1. removedLock' = removedLock /\ Held(s) = {} /\ Held(s)' = {}
    BY <1>2, <1>6 DEF Elem, Mark, NextSlot, NearChild, TailChild, NodeReturn, Search, Held
  <2>2. HeldLists' = HeldLists
    BY <1>1, <1>2, <2>1
  <2> QED BY <2>1, <2>2 DEF LockInv, Disciplined
<1> QED BY <1>4, <1>5, <1>6 DEF SearcherStep

LEMMA LockInvInit == Init => LockInv
<1> SUFFICES ASSUME Init
             PROVE  LockInv
  OBVIOUS
<1>1. \A t \in Inserters \cup Searchers : Held(t) = {}
  BY DEF Init, Held
<1>2. \A i \in Inserters : NodeHeld(i) = {}
  BY DEF Init, NodeHeld
<1>3. /\ \A c \in DOMAIN removedLock : removedLock[c] = 0
      /\ \A n \in DOMAIN nodeLock : nodeLock[n] = 0
  BY DEF Init
<1> QED BY <1>1, <1>2, <1>3 DEF LockInv, Disciplined, Guards, HeldLists, HeldNodes

LEMMA LockInvNext == Shape /\ LockInv /\ [Next]_vars => LockInv'
<1> SUFFICES ASSUME Shape, LockInv, [Next]_vars
             PROVE  LockInv'
  OBVIOUS
<1>1. CASE \E i \in Inserters : InserterStep(i) \/ \E m \in Meta : Insert2(i, m)
  BY <1>1, NodeLockKept, InserterLockKept DEF LockInv
<1>2. CASE \E s \in Searchers : SearcherStep(s) \/ \E q \in Queries : Search(s, q)
  BY <1>2, SearcherLockKept, OtherSearchers DEF LockInv, Disciplined
<1>3. CASE (\E m \in Meta : ClientDelete(m)) \/ Rest \/ UNCHANGED vars
  <2>1. UNCHANGED <<removedLock, nodeLock, ipc, spc, inode, irem, nodePos, stack, scan>>
    BY <1>3 DEF ClientDelete, Rest, vars, treeVars, listVars, insVars, searchVars, scanVars
  <2>2. HeldLists' = HeldLists /\ HeldNodes' = HeldNodes
    BY <2>1 DEF HeldLists, HeldNodes, Held, NodeHeld, ICell, SCell
  <2> QED BY <2>1, <2>2 DEF LockInv, Disciplined
<1> QED BY <1>1, <1>2, <1>3 DEF Next

\* However many threads insert and search, the early return of Insert, its retry
\* and the paths of SearchPtrList give every spinlock back once, and to nobody
\* else's cost (lines 212-216, 219-225, 318-320, 451-461, 483-485, 489-492).
THEOREM LocksGivenBack == Spec => []LockDiscipline
<1>1. Shape /\ LockInv => LockDiscipline
  BY LockInvDiscipline
<1> QED BY <1>1, LockInvInit, LockInvNext, ShapeInvariant, PTL DEF Spec

-----------------------------------------------------------------------------
(* Full slots *)

\* An inserter that has seen a full slot is about to look for its child.
PendingFull ==
    \A i \in Inserters :
        ipc[i] \in {"child", "nodeLock", "newNode"} => Len(ptrList[ICell(i)]) >= PerNodeNum

\* No list gets shorter.
LEMMA ListsGrow ==
    ASSUME Shape, [Next]_vars
    PROVE  \A c \in Cell : Len(ptrList[c]) \in Nat /\ Len(ptrList'[c]) \in Nat
                           /\ Len(ptrList'[c]) >= Len(ptrList[c])
<1> SUFFICES ASSUME NEW c \in Cell
             PROVE  Len(ptrList'[c]) >= Len(ptrList[c])
  BY NextShape DEF Shape, TypeOK
<1>1. ptrList[c] \in Seq(Meta) /\ ptrList'[c] \in Seq(Meta) /\ ptrList \in [Cell -> Seq(Meta)]
  BY NextShape DEF Shape, TypeOK
<1>2. ASSUME NEW i \in Inserters, Push(i)
      PROVE  Len(ptrList'[c]) >= Len(ptrList[c])
  <2>1. imeta[i] \in Meta
    BY <1>2, InserterFacts DEF Push, IReturn, IGoto
  <2>2. ptrList' = [ptrList EXCEPT ![ICell(i)] = Append(@, imeta[i])]
    BY <1>2 DEF Push
  <2> QED BY <1>1, <2>1, <2>2
<1>3. ASSUME NEW i \in Inserters, Reuse(i)
      PROVE  Len(ptrList'[c]) >= Len(ptrList[c])
  <2> DEFINE d == ICell(i)
             k == removedIdx[d][Len(removedIdx[d])]
             written == [ptrList[d] EXCEPT ![k] = imeta[i]]
  <2>1. d \in Cell
    BY <1>3, InserterFacts DEF Reuse, IReturn, IGoto
  <2>2. ptrList' = [ptrList EXCEPT ![d] = written]
    BY <1>3, <2>1 DEF Reuse
  <2>3. ptrList'[d] = written /\ ptrList[d] \in Seq(Meta) /\ written \in Seq(Meta)
    BY <1>3, <2>1, <2>2, ReuseShape DEF Shape, TypeOK
  <2>4. DOMAIN written = DOMAIN ptrList[d]
    OBVIOUS
  <2> HIDE DEF written
  <2>5. Len(written) = Len(ptrList[d])
    BY <2>3, <2>4
  <2> QED BY <1>1, <2>2, <2>3, <2>5
<1>4. CASE UNCHANGED ptrList
  BY <1>1, <1>4
<1>5. \/ UNCHANGED ptrList
      \/ \E i \in Inserters : Push(i) \/ Reuse(i)
  BY DEF Next, Rest, vars, treeVars, listVars, InserterStep, Insert2, ProbeFree, ILockList,
         ReuseLost, ProbeRoom, ProbeChild, LockNode, NewNode, Descend, SearcherStep, Search,
         SLockList, Count, Elem, Mark, AddRemoveAtomic, NextSlot, NearChild, TailChild,
         NodeReturn, ClientDelete
<1> QED BY <1>2, <1>3, <1>4, <1>5

FullInv == ChildImpliesFull /\ PendingFull

LEMMA FullInvInit == Init => FullInv
  BY DEF Init, FullInv, ChildImpliesFull, PendingFull, NoNode

\* Steps of an inserter: a slot it finds full stays full until it has a child.
LEMMA FullInvInserter ==
    ASSUME Shape, FullInv, NEW i \in Inserters,
           InserterStep(i) \/ \E m \in Meta : Insert2(i, m)
    PROVE  FullInv'
<1>0. \A c \in Cell : Len(ptrList[c]) \in Nat /\ Len(ptrList'[c]) \in Nat
                      /\ Len(ptrList'[c]) >= Len(ptrList[c])
  BY ListsGrow DEF Next
<1>1. PerNodeNum \in Nat
  BY TrieAssumption
<1>2. \A j \in Inserters : ipc[j] # "idle" => ICell(j) \in Cell
  BY InserterFacts
<1>3. ASSUME NEW j \in Inserters, j # i, ipc'[j] \in {"child", "nodeLock", "newNode"}
      PROVE  Len(ptrList'[ICell(j)']) >= PerNodeNum
  <2>1. ipc'[j] = ipc[j] /\ (ipc[j] # "idle" => ICell(j)' = ICell(j))
    BY <1>3, OtherInserters
  <2> QED BY <1>0, <1>1, <1>2, <1>3, <2>1 DEF FullInv, PendingFull
<1>4. ASSUME ipc'[i] \in {"child", "nodeLock", "newNode"}
      PROVE  Len(ptrList'[ICell(i)']) >= PerNodeNum
  <2>1. i \in DOMAIN ipc
    BY DEF Shape, TypeOK
  <2>2. ProbeRoom(i) \/ ProbeChild(i) \/ LockNode(i)
    BY <1>4, <2>1 DEF InserterStep, Insert2, ProbeFree, ILockList, Reuse, ReuseLost, Push, NewNode,
                      Descend, IReturn, IGoto
  <2>3. ICell(i)' = ICell(i) /\ ptrList' = ptrList
    BY <2>2 DEF ProbeRoom, ProbeChild, LockNode, IUnchanged, treeVars, listVars, ICell
  <2>4. CASE ProbeRoom(i)
    <3>1. ~HasRoom(i) /\ ipc[i] # "idle"
      BY <1>4, <2>1, <2>4 DEF ProbeRoom, IGoto
    <3> QED BY <1>0, <1>1, <1>2, <2>3, <3>1 DEF HasRoom
  <2>5. CASE ProbeChild(i) \/ LockNode(i)
    BY <2>3, <2>5 DEF ProbeChild, LockNode, IGoto, FullInv, PendingFull
  <2> QED BY <2>2, <2>4, <2>5
<1>5. PendingFull'
  BY <1>3, <1>4 DEF PendingFull
<1>6. ASSUME NEW c \in Cell, children'[c] # NoNode
      PROVE  Len(ptrList'[c]) >= PerNodeNum
  <2>1. CASE children[c] # NoNode
    BY <1>0, <1>1, <2>1 DEF FullInv, ChildImpliesFull
  <2>2. CASE children[c] = NoNode
    <3>0. children' # children
      BY <1>6, <2>2
    <3>1. NewNode(i)
      BY <3>0 DEF InserterStep, Insert2, ProbeFree, ILockList, Reuse, ReuseLost, ProbeRoom,
                  Push, ProbeChild, LockNode, Descend, treeVars
    <3>2. c = ICell(i)
      <4>1. children' = [children EXCEPT ![ICell(i)] = nodeNum + 1]
        BY <3>1 DEF NewNode
      <4> QED BY <1>6, <2>2, <4>1 DEF Shape, TypeOK
    <3> QED BY <1>0, <1>1, <1>2, <3>1, <3>2 DEF NewNode, IGoto, FullInv, PendingFull
  <2> QED BY <2>1, <2>2
<1> QED BY <1>5, <1>6 DEF FullInv, ChildImpliesFull

LEMMA FullInvNext == Shape /\ FullInv /\ [Next]_vars => FullInv'
<1> SUFFICES ASSUME Shape, FullInv, [Next]_vars
             PROVE  FullInv'
  OBVIOUS
<1>1. CASE \E i \in Inserters : InserterStep(i) \/ \E m \in Meta : Insert2(i, m)
  BY <1>1, FullInvInserter
<1>2. CASE ~ \E i \in Inserters : InserterStep(i) \/ \E m \in Meta : Insert2(i, m)
  <2>1. UNCHANGED <<ptrList, children, nodePos, ipc, inode, irem>>
    BY <1>2 DEF Next, Rest, vars, treeVars, listVars, insVars, SearcherStep, Search,
           SLockList, Count, Elem, Mark, AddRemoveAtomic, NextSlot, NearChild, TailChild,
           NodeReturn, ClientDelete
  <2> QED BY <2>1 DEF FullInv, ChildImpliesFull, PendingFull, ICell
<1> QED BY <1>1, <1>2

\* Height compression with any number of inserting threads: whoever stores a
\* child has seen its slot full, and no slot is ever emptied below that, although
\* the length is read without the lock and positions are given back meanwhile.
THEOREM SlotsFullAboveChildren == Spec => []ChildImpliesFull
<1>1. FullInv => ChildImpliesFull
  BY DEF FullInv
<1> QED BY <1>1, FullInvInit, FullInvNext, ShapeInvariant, PTL DEF Spec

\* What the later invariants need of the number of threads: runs show that two
\* searches give one position back twice, and that two insertions lose a child.
OneSearcher == \A s, t \in Searchers : s = t
OneInserter == \A i, j \in Inserters : i = j

\* Every index of a list is a value of uint16_t.
Fit == \A c \in Cell : Len(ptrList[c]) <= IndexRange

-----------------------------------------------------------------------------
(* The lists *)

\* A signature on its way belongs to one call.
TakenInv ==
    /\ inserted \subseteq taken
    /\ \A i \in Inserters : ipc[i] # "idle" => imeta[i] \in taken \ inserted
    /\ \A i, j \in Inserters :
          ipc[i] # "idle" /\ ipc[j] # "idle" /\ imeta[i] = imeta[j] => i = j

\* m is the j-th element of the list of c.
StandsIn(lists, c, j, m) == j \in 1 .. Len(lists[c]) /\ lists[c][j] = m
StandsAt(c, j, m) == StandsIn(ptrList, c, j, m)

\* Nothing stands anywhere twice, and nothing before its insertion returns.
ListedInv ==
    /\ \A c \in Cell, j \in Nat, m \in Meta : StandsAt(c, j, m) => m \in inserted
    /\ \A c, d \in Cell, j, k \in Nat, m \in Meta :
          StandsAt(c, j, m) /\ StandsAt(d, k, m) => c = d /\ j = k

ListInv == TakenInv /\ ListedInv

\* An insertion puts m at position k of c and leaves the others where they are.
Put(c, k, m) ==
    /\ c \in Cell /\ k \in Nat /\ m \in Meta
    /\ StandsIn(ptrList', c, k, m)
    /\ \A d \in Cell, j \in Nat, x \in Meta :
          ~(d = c /\ j = k) => (StandsIn(ptrList', d, j, x) <=> StandsAt(d, j, x))

LEMMA PushPuts ==
    ASSUME Shape, NEW i \in Inserters, Push(i)
    PROVE  Put(ICell(i), Len(ptrList[ICell(i)]) + 1, imeta[i])
<1> DEFINE c == ICell(i)
           m == imeta[i]
           k == Len(ptrList[c]) + 1
<1>1. c \in Cell /\ m \in Meta
  BY InserterFacts DEF Push, IReturn, IGoto
<1>2. ptrList \in [Cell -> Seq(Meta)] /\ ptrList' = [ptrList EXCEPT ![c] = Append(@, m)]
  BY DEF Push, Shape, TypeOK
<1>3. k \in Nat /\ Len(ptrList[c]) \in Nat
  BY <1>1, <1>2
<1> HIDE DEF c, m
<1>4. Len(ptrList'[c]) = k /\ ptrList'[c][k] = m
      /\ \A j \in 1 .. Len(ptrList[c]) : ptrList'[c][j] = ptrList[c][j]
  BY <1>1, <1>2
<1>5. \A d \in Cell : d # c => ptrList'[d] = ptrList[d]
  BY <1>1, <1>2
<1>6. StandsIn(ptrList', c, k, m)
  BY <1>3, <1>4 DEF StandsAt, StandsIn
<1>7. ASSUME NEW d \in Cell, NEW j \in Nat, NEW x \in Meta, ~(d = c /\ j = k)
      PROVE  StandsIn(ptrList', d, j, x) <=> StandsAt(d, j, x)
  <2>1. CASE d # c
    BY <1>5, <2>1 DEF StandsAt, StandsIn
  <2>2. CASE d = c /\ j # k
    <3>1. j \in 1 .. Len(ptrList'[c]) <=> j \in 1 .. Len(ptrList[c])
      BY <1>3, <1>4, <2>2
    <3> QED BY <1>4, <2>2, <3>1 DEF StandsAt, StandsIn
  <2> QED BY <1>7, <2>1, <2>2
<1>8. Put(c, k, m)
  BY <1>1, <1>3, <1>6, <1>7 DEF Put
<1> QED BY <1>8 DEF c, m

LEMMA ReusePuts ==
    ASSUME Shape, NEW i \in Inserters, Reuse(i)
    PROVE  Put(ICell(i), removedIdx[ICell(i)][Len(removedIdx[ICell(i)])], imeta[i])
<1> DEFINE c == ICell(i)
           m == imeta[i]
           free == removedIdx[c]
           k == free[Len(free)]
<1>1. c \in Cell /\ m \in Meta
  BY InserterFacts DEF Reuse, IReturn, IGoto
<1>2. /\ ptrList \in [Cell -> Seq(Meta)] /\ ptrList' = [ptrList EXCEPT ![c][k] = m]
      /\ free \in Seq(Nat \ {0}) /\ free # <<>>
  BY <1>1 DEF Reuse, Shape, TypeOK
<1>3. k \in 1 .. Len(ptrList[c]) /\ ptrList[c] \in Seq(Meta)
  BY <1>1, <1>2 DEF Shape, FreeIndexInBounds
<1> HIDE DEF c, m, k
<1>4. ptrList'[c] = [ptrList[c] EXCEPT ![k] = m]
  BY <1>1, <1>2
<1>5. \A d \in Cell : d # c => ptrList'[d] = ptrList[d]
  BY <1>1, <1>2
<1>6. /\ Len(ptrList'[c]) = Len(ptrList[c]) /\ ptrList'[c][k] = m
      /\ \A j \in 1 .. Len(ptrList[c]) : j # k => ptrList'[c][j] = ptrList[c][j]
  BY <1>1, <1>3, <1>4, ExceptSeq
<1>7. StandsIn(ptrList', c, k, m) /\ k \in Nat
  BY <1>3, <1>6 DEF StandsAt, StandsIn
<1>8. ASSUME NEW d \in Cell, NEW j \in Nat, NEW x \in Meta, ~(d = c /\ j = k)
      PROVE  StandsIn(ptrList', d, j, x) <=> StandsAt(d, j, x)
  <2>1. CASE d # c
    BY <1>5, <2>1 DEF StandsAt, StandsIn
  <2>2. CASE d = c /\ j # k
    BY <1>6, <2>2 DEF StandsAt, StandsIn
  <2> QED BY <1>8, <2>1, <2>2
<1>9. Put(c, k, m)
  BY <1>1, <1>7, <1>8 DEF Put
<1> QED BY <1>9 DEF c, m, k

\* The rest of an insertion that returns.
LEMMA ReturnFacts ==
    ASSUME Shape, NEW i \in Inserters, Push(i) \/ Reuse(i)
    PROVE  /\ ipc[i] # "idle" /\ ipc' = [ipc EXCEPT ![i] = "idle"]
           /\ imeta' = [imeta EXCEPT ![i] = NoMeta]
           /\ inserted' = inserted \cup {imeta[i]} /\ imeta[i] \in Meta
           /\ seen' = [s \in Searchers |->
                         IF spc[s] = "idle" THEN {} ELSE seen[s] \cup {imeta[i]}]
           /\ UNCHANGED <<treeVars, sym, taken, searchVars>>
<1>1. ipc[i] # "idle"
  BY DEF Push, Reuse, IReturn, IGoto
<1>2. imeta[i] \in Meta
  BY <1>1, InserterFacts
<1> QED BY <1>1, <1>2 DEF Push, Reuse, IReturn, IGoto, Inserted

\* The steps of an insertion that neither begin nor end it.
Walks(i) ==
    \/ ProbeFree(i)
    \/ ILockList(i, "reuseLock", "reuse")
    \/ ReuseLost(i)
    \/ ProbeRoom(i)
    \/ ILockList(i, "pushLock", "push")
    \/ ProbeChild(i)
    \/ LockNode(i)
    \/ NewNode(i)
    \/ Descend(i)

LEMMA WalkFacts ==
    ASSUME Shape, NEW i \in Inserters, Walks(i)
    PROVE  /\ UNCHANGED <<ptrList, removedIdx, sym, imeta, taken, inserted, seen, searchVars>>
           /\ ipc[i] # "idle" /\ ipc'[i] # "idle"
           /\ \A j \in Inserters : j # i => ipc'[j] = ipc[j]
  BY DEF Walks, ProbeFree, ILockList, ReuseLost, ProbeRoom, ProbeChild, LockNode, NewNode,
         Descend, IGoto, IUnchanged, listVars, Shape, TypeOK

\* Steps of others leave insertions and lists alone.
LEMMA OtherFacts ==
    ASSUME [Next]_vars,
           ~ \E i \in Inserters : InserterStep(i) \/ \E m \in Meta : Insert2(i, m)
    PROVE  UNCHANGED <<treeVars, ptrList, ipc, imeta, inode, irem, taken, inserted>>
  BY DEF Next, Rest, vars, treeVars, listVars, insVars, SearcherStep, Search, SLockList, Count,
         Elem, Mark, AddRemoveAtomic, NextSlot, NearChild, TailChild, NodeReturn, ClientDelete

LEMMA InserterCases ==
    ASSUME NEW i \in Inserters, InserterStep(i) \/ \E m \in Meta : Insert2(i, m)
    PROVE  Walks(i) \/ Push(i) \/ Reuse(i) \/ \E m \in Meta : Insert2(i, m)
  BY DEF InserterStep, Walks

LEMMA ListInvInit == Init => ListInv
  BY DEF Init, ListInv, TakenInv, ListedInv, StandsAt, StandsIn

LEMMA ListInvNext == Shape /\ ListInv /\ [Next]_vars => ListInv'
<1> SUFFICES ASSUME Shape, ListInv, [Next]_vars
             PROVE  ListInv'
  OBVIOUS
<1>0. ipc \in [Inserters -> {"idle", "free", "reuseLock", "reuse", "room", "pushLock", "push",
                             "child", "nodeLock", "newNode", "descend"}]
      /\ imeta \in [Inserters -> Meta \cup {NoMeta}]
  BY DEF Shape, TypeOK
<1>1. ASSUME NEW i \in Inserters, Push(i) \/ Reuse(i)
      PROVE  ListInv'
  <2> DEFINE m == imeta[i]
  <2>1. /\ ipc[i] # "idle" /\ ipc' = [ipc EXCEPT ![i] = "idle"]
        /\ imeta' = [imeta EXCEPT ![i] = NoMeta] /\ taken' = taken
        /\ inserted' = inserted \cup {m} /\ m \in Meta
    BY <1>1, ReturnFacts
  <2>2. m \in taken \ inserted
    BY <2>1 DEF ListInv, TakenInv
  <2>3. PICK c, k : Put(c, k, m)
    BY <1>1, PushPuts, ReusePuts
  <2> HIDE DEF m
  <2>4. TakenInv'
    BY <1>0, <2>1, <2>2 DEF ListInv, TakenInv, m
  <2>5. ASSUME NEW d \in Cell, NEW j \in Nat, NEW x \in Meta, StandsAt(d, j, x)'
        PROVE  x \in inserted' /\ (x = m => d = c /\ j = k) /\ (x # m => StandsAt(d, j, x))
    <3>1. CASE d = c /\ j = k
      BY <2>1, <2>3, <2>5, <3>1 DEF Put, StandsAt, StandsIn
    <3>2. CASE ~(d = c /\ j = k)
      BY <2>1, <2>2, <2>3, <2>5, <3>2 DEF Put, ListInv, ListedInv, StandsAt
    <3> QED BY <3>1, <3>2
  <2>6. ListedInv'
    <3>1. ASSUME NEW d \in Cell, NEW e \in Cell, NEW j \in Nat, NEW l \in Nat, NEW x \in Meta,
                 StandsAt(d, j, x)', StandsAt(e, l, x)'
          PROVE  d = e /\ j = l
      BY <2>5, <3>1 DEF ListInv, ListedInv
    <3> QED BY <2>5, <3>1 DEF ListedInv
  <2> QED BY <2>4, <2>6 DEF ListInv
<1>2. ASSUME NEW i \in Inserters, Walks(i)
      PROVE  ListInv'
  BY <1>2, WalkFacts DEF ListInv, TakenInv, ListedInv, StandsAt, StandsIn
<1>3. ASSUME NEW i \in Inserters, NEW m \in Meta, Insert2(i, m)
      PROVE  ListInv'
  <2>1. ptrList' = ptrList /\ m \notin taken /\ taken' = taken \cup {m}
    BY <1>3 DEF Insert2, listVars
  <2>2. CASE Zeros(Data[m]) = {}
    <3>1. inserted' = inserted \cup {m} /\ UNCHANGED <<ipc, imeta>>
      BY <1>3, <2>2 DEF Insert2, Inserted
    <3> QED BY <2>1, <3>1 DEF ListInv, TakenInv, ListedInv, StandsAt, StandsIn
  <2>3. CASE Zeros(Data[m]) # {}
    <3>1. /\ ipc' = [ipc EXCEPT ![i] = "free"] /\ imeta' = [imeta EXCEPT ![i] = m]
          /\ inserted' = inserted
      BY <1>3, <2>3 DEF Insert2, IGoto
    <3>2. TakenInv'
      BY <1>0, <2>1, <3>1 DEF ListInv, TakenInv
    <3>3. ListedInv'
      BY <2>1, <3>1 DEF ListInv, ListedInv, StandsAt, StandsIn
    <3> QED BY <3>2, <3>3 DEF ListInv
  <2> QED BY <2>2, <2>3
<1>4. CASE ~ \E i \in Inserters : InserterStep(i) \/ \E m \in Meta : Insert2(i, m)
  BY <1>4, OtherFacts DEF ListInv, TakenInv, ListedInv, StandsAt, StandsIn
<1> QED BY <1>1, <1>2, <1>3, <1>4, InserterCases

\* The calls that have begun are counted.
TakenCounted == IsFiniteSet(taken) /\ Cardinality(taken) <= MaxInserts

LEMMA TakenCountedNext == Shape /\ TakenCounted /\ [Next]_vars => TakenCounted'
<1> SUFFICES ASSUME Shape, TakenCounted, [Next]_vars
             PROVE  TakenCounted'
  OBVIOUS
<1>1. ASSUME NEW i \in Inserters, NEW m \in Meta, Insert2(i, m)
      PROVE  TakenCounted'
  <2>1. taken' = taken \cup {m} /\ m \notin taken /\ Cardinality(taken) < MaxInserts
    BY <1>1 DEF Insert2
  <2>2. IsFiniteSet(taken') /\ Cardinality(taken') = Cardinality(taken) + 1
    BY <2>1, FS_AddElement DEF TakenCounted
  <2>3. Cardinality(taken) \in Nat
    BY FS_CardinalityType DEF TakenCounted
  <2> QED BY <2>1, <2>2, <2>3, TrieAssumption DEF TakenCounted
<1>2. CASE ~ \E i \in Inserters, m \in Meta : Insert2(i, m)
  <2>1. taken' = taken
    BY <1>2, OtherFacts, InserterCases, WalkFacts, ReturnFacts
  <2> QED BY <2>1 DEF TakenCounted
<1> QED BY <1>1, <1>2

LEMMA ListsCounted ==
    ASSUME Shape, ListInv, TakenCounted, MaxInserts <= IndexRange
    PROVE  Fit
<1> SUFFICES ASSUME NEW c \in Cell, ~(Len(ptrList[c]) <= IndexRange)
             PROVE  FALSE
  BY DEF Fit
<1> DEFINE l == ptrList[c]
<1>1. l \in Seq(Meta) /\ Len(l) \in Nat /\ DOMAIN l = 1 .. Len(l) /\ l \in [1 .. Len(l) -> Meta]
  BY DEF Shape, TypeOK
<1>2. Cardinality(taken) \in Nat /\ Cardinality(taken) < Len(l) /\ IsFiniteSet(taken)
  <2>1. Cardinality(taken) \in Nat
    BY FS_CardinalityType DEF TakenCounted
  <2> QED BY <1>1, <2>1, TrieAssumption DEF TakenCounted
<1> HIDE DEF l
<1>3. IsFiniteSet(1 .. Len(l)) /\ Cardinality(1 .. Len(l)) = Len(l)
  <2>1. 1 \in Int /\ Len(l) \in Int
    BY <1>1
  <2>2. IsFiniteSet(1 .. Len(l)) /\ Cardinality(1 .. Len(l)) = IF 1 > Len(l) THEN 0 ELSE Len(l) - 1 + 1
    BY <2>1, FS_Interval
  <2>3. \A n \in Nat : n = IF 1 > n THEN 0 ELSE n - 1 + 1
    OBVIOUS
  <2> QED BY <1>1, <2>2, <2>3, Zenon
<1>4. \A j \in 1 .. Len(l) : j \in Nat /\ l[j] \in Meta /\ StandsAt(c, j, l[j])
  BY <1>1 DEF StandsAt, StandsIn, l
<1>5. l \in [1 .. Len(l) -> taken]
  BY <1>1, <1>4 DEF ListInv, ListedInv, TakenInv
<1>6. PICK j \in 1 .. Len(l), k \in 1 .. Len(l) : j # k /\ l[j] = l[k]
  BY <1>2, <1>3, <1>5, FS_PigeonHole
<1> QED BY <1>4, <1>6 DEF ListInv, ListedInv

\* A signature stands at one place however many threads insert and search, so
\* that a list is no longer than the number of insertions: its indices are values
\* of uint16_t as long as there are no more insertions than those (lines 222 and 485).
THEOREM ListsFit == ASSUME MaxInserts <= IndexRange PROVE Spec => []Fit
<1>1. Init => ListInv /\ TakenCounted
  BY ListInvInit, FS_EmptySet, TrieAssumption DEF Init, TakenCounted
<1>2. Shape /\ ListInv /\ TakenCounted /\ [Next]_vars => (ListInv /\ TakenCounted)'
  BY ListInvNext, TakenCountedNext
<1>3. Shape /\ ListInv /\ TakenCounted => Fit
  BY ListsCounted
<1> QED BY <1>1, <1>2, <1>3, ShapeInvariant, PTL DEF Spec

-----------------------------------------------------------------------------
(* The free lists *)

\* Nobody has reported or deleted what is not in the index.
NewInv == \A m \in Meta \ inserted : sym[m] = {}

\* FreeListSound, said of the places of signatures.
Offers ==
    \A c \in Cell : \A k \in 1 .. Len(removedIdx[c]) :
        /\ \A l \in 1 .. k - 1 : removedIdx[c][l] # removedIdx[c][k]
        /\ \E m \in Meta : StandsAt(c, removedIdx[c][k], m) /\ "REMOVED" \in sym[m]

\* What a search is about to give back has not been given back.
ReportInv ==
    \A s \in Searchers :
        /\ spc[s] \in {"mark", "addLock", "add"} =>
              StandsAt(SCell(s), at[s], cur[s]) /\ "REMOVED" \notin sym[cur[s]]
        /\ spc[s] \in {"addLock", "add"} => sym[cur[s]] \cap {"DEL", "INVALID"} # {}

OfferInv == NewInv /\ Offers /\ ReportInv

LEMMA OffersSound == ASSUME Offers PROVE FreeListSound
  BY DEF Offers, StandsAt, StandsIn, FreeListSound

LEMMA OfferInvInit == Init => OfferInv
  BY DEF Init, OfferInv, NewInv, Offers, ReportInv

\* What stands somewhere else than the insertion puts its signature still does.
LEMMA PutKeeps ==
    ASSUME NEW c, NEW k, NEW m, Put(c, k, m),
           NEW d \in Cell, NEW j \in Nat, NEW x \in Meta, StandsAt(d, j, x), ~(d = c /\ j = k)
    PROVE  StandsAt(d, j, x)'
  BY DEF Put, StandsAt

LEMMA PushOffers ==
    ASSUME Shape, ListInv, OfferInv, NEW i \in Inserters, Push(i)
    PROVE  OfferInv'
<1>1. /\ inserted' = inserted \cup {imeta[i]}
      /\ UNCHANGED <<sym, spc, stack, scan, at, count, cur>>
  BY ReturnFacts DEF searchVars, scanVars
<1>2. removedIdx' = removedIdx
  BY DEF Push
<1>3. PICK c, k, m : Put(c, k, m) /\ k = Len(ptrList[c]) + 1
  BY PushPuts
<1>4. ASSUME NEW d \in Cell, NEW j \in Nat, NEW x \in Meta, StandsAt(d, j, x)
      PROVE  StandsAt(d, j, x)'
  <2>1. ~(d = c /\ j = k)
    <3>1. Len(ptrList[d]) \in Nat
      BY DEF Shape, TypeOK
    <3> QED BY <1>3, <1>4, <3>1 DEF StandsAt, StandsIn
  <2> QED BY <1>3, <1>4, <2>1, PutKeeps
<1>5. \A d \in Cell : \A l \in 1 .. Len(removedIdx[d]) : removedIdx[d][l] \in Nat
  BY DEF Shape, TypeOK
<1>6. Offers'
  BY <1>1, <1>2, <1>4, <1>5 DEF OfferInv, Offers
<1>7. ReportInv'
  <2> SUFFICES ASSUME NEW s \in Searchers, spc[s] \in {"mark", "addLock", "add"}
               PROVE  StandsAt(SCell(s), at[s], cur[s])'
    BY <1>1 DEF OfferInv, ReportInv
  <2>1. SCell(s) \in Cell /\ at[s] \in Nat /\ cur[s] \in Meta
    BY SearcherFacts DEF Shape, TypeOK, SearcherShape, SearcherFits
  <2>2. StandsIn(ptrList', SCell(s), at[s], cur[s])
    BY <1>4, <2>1 DEF OfferInv, ReportInv, StandsAt
  <2> QED BY <1>1, <2>2 DEF StandsAt, SCell
<1> QED BY <1>1, <1>6, <1>7 DEF OfferInv, NewInv

LEMMA TakenFacts ==
    ASSUME NEW free \in Seq(Nat \ {0}), free # <<>>
    PROVE  /\ PositionTaken(free) \in Seq(Nat \ {0}) /\ Len(PositionTaken(free)) = Len(free) - 1
           /\ \A l \in 1 .. Len(free) - 1 : PositionTaken(free)[l] = free[l]
           /\ Len(free) \in Nat /\ Len(free) >= 1
<1>1. Len(free) \in Nat /\ Len(free) >= 1
  OBVIOUS
<1>2. /\ PositionTaken(free) \in Seq(Nat \ {0})
      /\ \A l \in 1 .. Len(free) - 1 : PositionTaken(free)[l] = free[l]
  BY <1>1 DEF PositionTaken
<1>3. Len(PositionTaken(free)) = Len(free) - 1
  <2>1. /\ 1 \in Int /\ Len(free) - 1 \in Int
        /\ \A l \in 1 .. Len(free) - 1 : free[l] \in Nat \ {0}
    BY <1>1
  <2>2. Len(SubSeq(free, 1, Len(free) - 1))
          = IF 1 <= Len(free) - 1 THEN (Len(free) - 1) - 1 + 1 ELSE 0
    BY <2>1, SubSeqProperties
  <2>3. PositionTaken(free) = SubSeq(free, 1, Len(free) - 1)
    BY DEF PositionTaken
  <2>4. \A n \in Nat : n >= 1 => n - 1 = IF 1 <= n - 1 THEN (n - 1) - 1 + 1 ELSE 0
    OBVIOUS
  <2> QED BY <1>1, <2>2, <2>3, <2>4, Zenon
<1> QED BY <1>1, <1>2, <1>3

LEMMA ReuseOffers ==
    ASSUME Shape, ListInv, OfferInv, NEW i \in Inserters, Reuse(i)
    PROVE  OfferInv'
<1> DEFINE c == ICell(i)
           free == removedIdx[c]
           k == free[Len(free)]
<1>1. /\ inserted' = inserted \cup {imeta[i]}
      /\ UNCHANGED <<sym, spc, stack, scan, at, count, cur>>
  BY ReturnFacts DEF searchVars, scanVars
<1>2. /\ c \in Cell /\ free # <<>> /\ removedIdx' = [removedIdx EXCEPT ![c] = PositionTaken(free)]
      /\ removedIdx \in [Cell -> Seq(Nat \ {0})] /\ free \in Seq(Nat \ {0})
  BY InserterFacts DEF Reuse, IReturn, IGoto, Shape, TypeOK
<1>3. Put(c, k, imeta[i])
  BY ReusePuts
<1>4. PICK gone \in Meta : StandsAt(c, k, gone) /\ "REMOVED" \in sym[gone]
  <2>1. Len(free) \in 1 .. Len(free)
    BY <1>2
  <2> QED BY <1>2, <2>1 DEF OfferInv, Offers
<1>5. /\ PositionTaken(free) \in Seq(Nat \ {0}) /\ Len(PositionTaken(free)) = Len(free) - 1
      /\ \A l \in 1 .. Len(free) - 1 : PositionTaken(free)[l] = free[l]
      /\ Len(free) \in Nat
  BY <1>2, TakenFacts
<1>6. \A l \in 1 .. Len(free) - 1 : free[l] # k
  <2>1. Len(free) \in 1 .. Len(free)
    BY <1>2
  <2> QED BY <1>2, <2>1 DEF OfferInv, Offers
<1> HIDE DEF c, free, k
<1>7. ASSUME NEW d \in Cell, NEW j \in Nat, NEW x \in Meta, StandsAt(d, j, x), ~(d = c /\ j = k)
      PROVE  StandsAt(d, j, x)'
  BY <1>3, <1>7, PutKeeps
<1>8. ASSUME NEW d \in Cell, NEW l \in 1 .. Len(removedIdx'[d])
      PROVE  /\ \A n \in 1 .. l - 1 : removedIdx'[d][n] # removedIdx'[d][l]
             /\ \E m \in Meta : StandsIn(ptrList', d, removedIdx'[d][l], m) /\ "REMOVED" \in sym'[m]
  <2>1. l \in 1 .. Len(removedIdx[d]) /\ removedIdx[d][l] \in Nat
        /\ \A n \in 1 .. l : removedIdx'[d][n] = removedIdx[d][n]
    <3>1. CASE d = c
      <4>1. removedIdx'[d] = PositionTaken(free) /\ removedIdx[d] = free
        BY <1>2, <3>1 DEF free
      <4>2. l \in 1 .. Len(free) - 1
        BY <1>5, <4>1
      <4>3. l \in 1 .. Len(free) /\ \A n \in 1 .. l : n \in 1 .. Len(free) - 1
        BY <1>5, <4>2
      <4>4. free[l] \in Nat
        BY <1>2, <4>3
      <4> QED BY <1>5, <4>1, <4>3, <4>4, Zenon
    <3>2. CASE d # c
      <4>1. removedIdx'[d] = removedIdx[d]
        BY <1>2, <3>2
      <4> QED BY <1>2, <4>1
    <3> QED BY <3>1, <3>2
  <2>2. ~(d = c /\ removedIdx[d][l] = k)
    <3>1. d = c => l \in 1 .. Len(free) - 1
      BY <1>2, <1>5
    <3> QED BY <1>6, <3>1 DEF free
  <2>3. PICK m \in Meta : StandsAt(d, removedIdx[d][l], m) /\ "REMOVED" \in sym[m]
    BY <2>1 DEF OfferInv, Offers
  <2>4. StandsIn(ptrList', d, removedIdx[d][l], m)
    BY <1>7, <2>1, <2>2, <2>3 DEF StandsAt
  <2>5. removedIdx'[d][l] = removedIdx[d][l]
    BY <2>1
  <2>6. StandsIn(ptrList', d, removedIdx'[d][l], m) /\ "REMOVED" \in sym'[m]
    BY <1>1, <2>3, <2>4, <2>5
  <2>7. \A n \in 1 .. l - 1 : removedIdx'[d][n] # removedIdx'[d][l]
    BY <2>1 DEF OfferInv, Offers
  <2> QED BY <2>6, <2>7
<1>9. Offers'
  BY <1>8 DEF Offers, StandsAt
<1>10. ReportInv'
  <2> SUFFICES ASSUME NEW s \in Searchers, spc[s] \in {"mark", "addLock", "add"}
               PROVE  StandsAt(SCell(s), at[s], cur[s])'
    BY <1>1 DEF OfferInv, ReportInv
  <2>1. SCell(s) \in Cell /\ at[s] \in Nat /\ cur[s] \in Meta
    BY SearcherFacts DEF Shape, TypeOK, SearcherShape, SearcherFits
  <2>2. StandsAt(SCell(s), at[s], cur[s]) /\ "REMOVED" \notin sym[cur[s]]
    BY DEF OfferInv, ReportInv
  <2>3. ~(SCell(s) = c /\ at[s] = k)
    BY <1>4, <2>2 DEF StandsAt, StandsIn
  <2>4. StandsIn(ptrList', SCell(s), at[s], cur[s])
    BY <1>7, <2>1, <2>2, <2>3 DEF StandsAt
  <2> QED BY <1>1, <2>4 DEF StandsAt, SCell
<1> QED BY <1>1, <1>9, <1>10 DEF OfferInv, NewInv

\* Steps that write neither lists, free lists, sym nor what is inserted, and make
\* no thread report anything.
LEMMA QuietOffers ==
    ASSUME OfferInv, UNCHANGED <<ptrList, removedIdx, sym, inserted>>,
           \A s \in Searchers :
              spc'[s] \in {"mark", "addLock", "add"} =>
                 /\ spc[s] = spc'[s] \/ (spc[s] = "addLock" /\ spc'[s] = "add")
                 /\ SCell(s)' = SCell(s) /\ at'[s] = at[s] /\ cur'[s] = cur[s]
    PROVE  OfferInv'
<1>1. NewInv' /\ Offers'
  BY DEF OfferInv, NewInv, Offers, StandsAt, StandsIn
<1>2. ReportInv'
  BY DEF OfferInv, ReportInv, StandsAt, StandsIn
<1> QED BY <1>1, <1>2 DEF OfferInv

LEMMA ElemOffers ==
    ASSUME Shape, ListInv, OfferInv, NEW s \in Searchers, Elem(s)
    PROVE  OfferInv'
<1> DEFINE m == ptrList[SCell(s)][at[s]]
<1>1. /\ UNCHANGED <<ptrList, removedIdx, sym, inserted, stack, scan>>
      /\ spc[s] = "elem"
      /\ \/ sym[m] = {} /\ spc' = [spc EXCEPT ![s] = "mark"]
         \/ sym[m] = {"DEL"} /\ spc' = [spc EXCEPT ![s] = "addLock"]
         \/ spc' = [spc EXCEPT ![s] = "elem"]
      /\ \/ cur' = [cur EXCEPT ![s] = m] /\ at' = at
         \/ cur' = cur /\ at' = [at EXCEPT ![s] = @ + 1] /\ spc' = [spc EXCEPT ![s] = "elem"]
  BY DEF Elem, Found, listVars, insVars
<1>2. /\ cur \in [Searchers -> Meta \cup {NoMeta}] /\ at \in [Searchers -> Nat]
      /\ spc \in [Searchers -> {"idle", "countLock", "count", "elem", "mark",
                                "addLock", "add", "kids"}]
  BY DEF Shape, TypeOK
<1>3. at[s] \in 1 .. Len(ptrList[SCell(s)])
  <2>1. SCell(s) \in Cell
    BY <1>1, SearcherFacts
  <2> QED BY <1>1, <2>1 DEF Elem, Shape, TypeOK, SearcherShape, SearcherFits
<1> HIDE DEF m
<1>4. ASSUME spc'[s] \in {"mark", "addLock"}
      PROVE  /\ StandsIn(ptrList, SCell(s), at'[s], cur'[s])
             /\ "REMOVED" \notin sym[cur'[s]]
             /\ spc'[s] = "addLock" => sym[cur'[s]] \cap {"DEL", "INVALID"} # {}
  <2>1. cur'[s] = m /\ at'[s] = at[s] /\ sym[m] \in {{}, {"DEL"}}
        /\ (spc'[s] = "addLock" => sym[m] = {"DEL"})
    BY <1>1, <1>2, <1>4
  <2> QED BY <1>3, <2>1 DEF StandsIn, m
<1>5. NewInv' /\ Offers'
  BY <1>1 DEF OfferInv, NewInv, Offers, StandsAt, StandsIn
<1>6. \A t \in Searchers : SCell(t)' = SCell(t)
  BY <1>1 DEF SCell
<1>7. ReportInv'
  <2> SUFFICES ASSUME NEW t \in Searchers, spc'[t] \in {"mark", "addLock", "add"}
               PROVE  /\ StandsIn(ptrList, SCell(t), at'[t], cur'[t])
                      /\ "REMOVED" \notin sym[cur'[t]]
                      /\ spc'[t] \in {"addLock", "add"}
                            => sym[cur'[t]] \cap {"DEL", "INVALID"} # {}
    BY <1>1, <1>6 DEF ReportInv, StandsAt
  <2>1. CASE t = s
    <3>1. spc'[s] \in {"mark", "addLock"}
      BY <1>1, <1>2, <2>1
    <3> QED BY <1>4, <2>1, <3>1
  <2>2. CASE t # s
    <3>1. spc'[t] = spc[t] /\ at'[t] = at[t] /\ cur'[t] = cur[t]
      BY <1>1, <1>2, <2>2
    <3> QED BY <3>1 DEF OfferInv, ReportInv, StandsAt
  <2> QED BY <2>1, <2>2
<1> QED BY <1>5, <1>7 DEF OfferInv

\* The sym of a signature that was neither reported nor deleted by a search.
LEMMA MarkOffers ==
    ASSUME Shape, ListInv, OfferInv, OneSearcher, NEW s \in Searchers, Mark(s)
    PROVE  OfferInv'
<1>1. /\ UNCHANGED <<ptrList, removedIdx, inserted, stack, scan, at, cur>>
      /\ spc[s] = "mark" /\ spc' = [spc EXCEPT ![s] = "addLock"]
  BY DEF Mark, SGoto, listVars, insVars
<1>2. PICK old \in {sym[cur[s]], {}} : sym' = [sym EXCEPT ![cur[s]] = old \cup {"INVALID"}]
  BY DEF Mark
<1>3. StandsAt(SCell(s), at[s], cur[s]) /\ "REMOVED" \notin sym[cur[s]]
  BY <1>1 DEF OfferInv, ReportInv
<1>4. SCell(s) \in Cell /\ at[s] \in Nat /\ cur[s] \in Meta
  BY <1>1, SearcherFacts DEF Shape, TypeOK, SearcherShape, SearcherFits
<1>5. cur[s] \in inserted
  BY <1>3, <1>4 DEF ListInv, ListedInv
<1>6. /\ \A m \in Meta : m # cur[s] => sym'[m] = sym[m]
      /\ "REMOVED" \notin sym'[cur[s]] /\ "INVALID" \in sym'[cur[s]]
  BY <1>2, <1>3, <1>4 DEF Shape, TypeOK
<1>7. NewInv'
  BY <1>1, <1>5, <1>6 DEF OfferInv, NewInv
<1>8. Offers'
  BY <1>1, <1>3, <1>6 DEF OfferInv, Offers, StandsAt, StandsIn
<1>9. ReportInv'
  <2> SUFFICES ASSUME NEW t \in Searchers
               PROVE  /\ StandsAt(SCell(t), at[t], cur[t])
                      /\ "REMOVED" \notin sym'[cur[t]]
                      /\ sym'[cur[t]] \cap {"DEL", "INVALID"} # {}
    BY <1>1 DEF ReportInv, StandsAt, StandsIn, SCell
  <2>1. t = s
    BY DEF OneSearcher
  <2> QED BY <1>3, <1>6, <2>1
<1> QED BY <1>7, <1>8, <1>9 DEF OfferInv

LEMMA AddRemoveAtomicOffers ==
    ASSUME Shape, ListInv, OfferInv, OneSearcher, Fit,
           NEW s \in Searchers, AddRemoveAtomic(s)
    PROVE  OfferInv'
<1> DEFINE c == SCell(s)
           m == cur[s]
           j == at[s]
<1>1. /\ UNCHANGED <<ptrList, inserted>>
      /\ spc[s] = "add" /\ spc' = [spc EXCEPT ![s] = "elem"]
  BY DEF AddRemoveAtomic, SGoto, insVars
<1>2. StandsAt(c, j, m) /\ "REMOVED" \notin sym[m] /\ sym[m] \cap {"DEL", "INVALID"} # {}
  BY <1>1 DEF OfferInv, ReportInv
<1>3. c \in Cell /\ j \in Nat /\ m \in Meta
  BY <1>1, SearcherFacts DEF Shape, TypeOK, SearcherShape, SearcherFits
<1>4. /\ removedIdx' = [removedIdx EXCEPT ![c] = Append(@, Uint16(j))]
      /\ sym' = [sym EXCEPT ![m] = @ \cup {"REMOVED"}]
  BY <1>2 DEF AddRemoveAtomic
<1> HIDE DEF c, m, j
<1>5. Uint16(j) = j
  <2>1. j \in 1 .. IndexRange
    <3>1. j \in 1 .. Len(ptrList[c]) /\ Len(ptrList[c]) \in Nat
      BY <1>2, <1>3 DEF StandsAt, StandsIn, Shape, TypeOK
    <3> QED BY <1>3, <3>1, TrieAssumption DEF Fit
  <2> QED BY <2>1, TrieAssumption DEF Uint16
<1>6. m \in inserted
  BY <1>2, <1>3 DEF ListInv, ListedInv
<1>7. /\ \A x \in Meta : x # m => sym'[x] = sym[x]
      /\ \A x \in Meta : "REMOVED" \in sym[x] => "REMOVED" \in sym'[x]
      /\ "REMOVED" \in sym'[m]
  BY <1>3, <1>4 DEF Shape, TypeOK
<1>8. NewInv'
  BY <1>1, <1>6, <1>7 DEF OfferInv, NewInv
<1>9. ASSUME NEW d \in Cell, NEW k \in 1 .. Len(removedIdx'[d])
      PROVE  /\ \A l \in 1 .. k - 1 : removedIdx'[d][l] # removedIdx'[d][k]
             /\ \E x \in Meta : StandsAt(d, removedIdx'[d][k], x) /\ "REMOVED" \in sym'[x]
  <2>0. removedIdx[d] \in Seq(Nat \ {0}) /\ removedIdx \in [Cell -> Seq(Nat \ {0})]
    BY DEF Shape, TypeOK
  <2>1. CASE k \in 1 .. Len(removedIdx[d])
    <3>1. \A l \in 1 .. k : removedIdx'[d][l] = removedIdx[d][l]
      <4>1. removedIdx'[d] = removedIdx[d] \/ removedIdx'[d] = Append(removedIdx[d], j)
        BY <1>3, <1>4, <1>5, <2>0
      <4>2. \A l \in 1 .. Len(removedIdx[d]) : Append(removedIdx[d], j)[l] = removedIdx[d][l]
        BY <2>0
      <4>3. \A l \in 1 .. k : l \in 1 .. Len(removedIdx[d])
        BY <2>0, <2>1
      <4> QED BY <4>1, <4>2, <4>3
    <3>2. PICK x \in Meta : StandsAt(d, removedIdx[d][k], x) /\ "REMOVED" \in sym[x]
      BY <2>1 DEF OfferInv, Offers
    <3>3. \A l \in 1 .. k - 1 : removedIdx[d][l] # removedIdx[d][k]
      BY <2>1 DEF OfferInv, Offers
    <3>4. k \in 1 .. k /\ \A l \in 1 .. k - 1 : l \in 1 .. k
      BY <2>1
    <3>5. removedIdx'[d][k] = removedIdx[d][k]
      BY <3>1, <3>4
    <3>6. \A l \in 1 .. k - 1 : removedIdx'[d][l] # removedIdx'[d][k]
      BY <3>1, <3>3, <3>4
    <3> QED BY <1>7, <3>2, <3>5, <3>6
  <2>2. CASE k \notin 1 .. Len(removedIdx[d])
    <3>1. d = c /\ removedIdx'[d] = Append(removedIdx[d], j)
      BY <1>3, <1>4, <1>5, <2>0, <2>2
    <3>2. k = Len(removedIdx[d]) + 1 /\ removedIdx'[d][k] = j
          /\ \A l \in 1 .. k - 1 : l \in 1 .. Len(removedIdx[d]) /\ removedIdx'[d][l] = removedIdx[d][l]
      BY <1>3, <2>0, <2>2, <3>1
    <3>3. \A l \in 1 .. Len(removedIdx[d]) : removedIdx[d][l] # j
      BY <1>2, <3>1 DEF OfferInv, Offers, StandsAt, StandsIn
    <3> QED BY <1>2, <1>3, <1>7, <3>1, <3>2, <3>3
  <2> QED BY <2>1, <2>2
<1>10. Offers'
  BY <1>1, <1>9 DEF Offers, StandsAt, StandsIn
<1>11. ReportInv'
  BY <1>1 DEF ReportInv, OneSearcher, Shape, TypeOK
<1> QED BY <1>8, <1>10, <1>11 DEF OfferInv

LEMMA ClientDeleteOffers ==
    ASSUME Shape, OfferInv, NEW m \in Meta, ClientDelete(m)
    PROVE  OfferInv'
<1>1. /\ UNCHANGED <<ptrList, removedIdx, inserted, spc, stack, scan, at, cur>>
      /\ m \in inserted /\ sym[m] = {} /\ sym' = [sym EXCEPT ![m] = {"DEL"}]
  BY DEF ClientDelete, listVars, insVars, searchVars, scanVars
<1>2. \A x \in Meta : x # m => sym'[x] = sym[x]
  BY <1>1 DEF Shape, TypeOK
<1>3. sym'[m] = {"DEL"}
  BY <1>1 DEF Shape, TypeOK
<1>4. NewInv' /\ Offers'
  BY <1>1, <1>2 DEF OfferInv, NewInv, Offers, StandsAt, StandsIn
<1>5. ReportInv'
  <2>1. \A s \in Searchers : SCell(s)' = SCell(s)
    BY <1>1 DEF SCell
  <2>2. \A s \in Searchers : spc[s] \in {"mark", "addLock", "add"} => cur[s] \in Meta
    BY DEF Shape, SearcherShape, SearcherFits
  <2> QED BY <1>1, <1>2, <1>3, <2>1, <2>2 DEF OfferInv, ReportInv, StandsAt, StandsIn
<1> QED BY <1>4, <1>5 DEF OfferInv

\* The steps of a search between its beginning and its end that report nothing.
Wanders(s) ==
    \/ SLockList(s, "countLock", "count")
    \/ SLockList(s, "addLock", "add")
    \/ Count(s)
    \/ NextSlot(s)
    \/ NearChild(s)
    \/ TailChild(s)

LEMMA SearcherCases ==
    ASSUME NEW s \in Searchers, SearcherStep(s) \/ \E q \in Queries : Search(s, q)
    PROVE  \/ Wanders(s) \/ Elem(s) \/ Mark(s) \/ AddRemoveAtomic(s) \/ NodeReturn(s)
           \/ \E q \in Queries : Search(s, q)
  BY DEF SearcherStep, Wanders

LEMMA WanderFacts ==
    ASSUME Shape, NEW s \in Searchers, Wanders(s)
    PROVE  /\ UNCHANGED <<treeVars, ptrList, removedIdx, sym, insVars, callVars, cur, hit>>
           /\ spc[s] # "idle" /\ spc'[s] # "idle"
           /\ spc'[s] \in {"mark", "addLock", "add"} =>
                 spc[s] = "addLock" /\ spc'[s] = "add" /\ UNCHANGED <<stack, scan, at>>
           /\ \A t \in Searchers : t # s => /\ spc'[t] = spc[t] /\ stack'[t] = stack[t]
                                            /\ scan'[t] = scan[t] /\ at'[t] = at[t]
<1> USE DEF listVars, scanVars, SGoto, Call
<1>1. /\ spc \in [Searchers -> {"idle", "countLock", "count", "elem", "mark",
                                "addLock", "add", "kids"}]
      /\ stack \in [Searchers -> Seq(Frame)] /\ scan \in [Searchers -> SUBSET Slot]
      /\ at \in [Searchers -> Nat]
  BY DEF Shape, TypeOK
<1>2. CASE SLockList(s, "countLock", "count") \/ SLockList(s, "addLock", "add") \/ Count(s)
  BY <1>1, <1>2 DEF SLockList, Count
<1>3. CASE NextSlot(s)
  BY <1>1, <1>3 DEF NextSlot
<1>4. CASE NearChild(s)
  BY <1>1, <1>4 DEF NearChild
<1>5. CASE TailChild(s)
  BY <1>1, <1>5 DEF TailChild
<1> QED BY <1>2, <1>3, <1>4, <1>5 DEF Wanders

LEMMA OfferInvNext ==
    Shape /\ ListInv /\ OfferInv /\ OneSearcher /\ Fit /\ [Next]_vars => OfferInv'
<1> SUFFICES ASSUME Shape, ListInv, OfferInv, OneSearcher, Fit, [Next]_vars
             PROVE  OfferInv'
  OBVIOUS
<1>1. ASSUME NEW i \in Inserters, Walks(i)
      PROVE  OfferInv'
  BY <1>1, WalkFacts, QuietOffers DEF searchVars, scanVars, SCell
<1>2. ASSUME NEW i \in Inserters, NEW m \in Meta, Insert2(i, m)
      PROVE  OfferInv'
  <2>1. UNCHANGED <<ptrList, removedIdx, sym, spc, stack, scan, at, cur>>
        /\ inserted \subseteq inserted'
    BY <1>2 DEF Insert2, Inserted, listVars, searchVars, scanVars
  <2> QED BY <2>1 DEF OfferInv, NewInv, Offers, ReportInv, StandsAt, StandsIn, SCell
<1>3. ASSUME NEW s \in Searchers, Wanders(s)
      PROVE  OfferInv'
  BY <1>3, WanderFacts, QuietOffers DEF insVars, SCell
<1>4. ASSUME NEW s \in Searchers, NodeReturn(s) \/ \E q \in Queries : Search(s, q)
      PROVE  OfferInv'
  <2>1. UNCHANGED <<ptrList, removedIdx, sym, inserted>>
    BY <1>4 DEF NodeReturn, Search, listVars
  <2>2. \A t \in Searchers : spc'[t] \notin {"mark", "addLock", "add"}
    BY <1>4 DEF NodeReturn, Search, SGoto, OneSearcher, Shape, TypeOK
  <2> QED BY <2>1, <2>2, QuietOffers
<1>5. CASE Rest \/ UNCHANGED vars
  <2>1. UNCHANGED <<ptrList, removedIdx, sym, inserted, spc, stack, scan, at, cur>>
    BY <1>5 DEF Rest, vars, listVars, insVars, searchVars, scanVars
  <2> QED BY <2>1, QuietOffers DEF SCell
<1>6. CASE \E i \in Inserters : InserterStep(i) \/ \E m \in Meta : Insert2(i, m)
  BY <1>1, <1>2, <1>6, PushOffers, ReuseOffers, InserterCases
<1>7. CASE \E s \in Searchers : SearcherStep(s) \/ \E q \in Queries : Search(s, q)
  BY <1>3, <1>4, <1>7, ElemOffers, MarkOffers, AddRemoveAtomicOffers, SearcherCases
<1> QED BY <1>5, <1>6, <1>7, ClientDeleteOffers DEF Next

\* What is offered was reported or deleted, and is offered once: with any number
\* of inserting threads and one that searches, as long as no list outgrows the
\* uint16_t that stands for its indices (lines 220-223 and 450-456).
THEOREM FreeListsSound == ASSUME OneSearcher PROVE Spec /\ []Fit => []FreeListSound
<1>1. Init => ListInv /\ OfferInv
  BY ListInvInit, OfferInvInit
<1>2. Shape /\ ListInv /\ OfferInv /\ Fit /\ [Next]_vars => (ListInv /\ OfferInv)'
  BY ListInvNext, OfferInvNext
<1>3. OfferInv => FreeListSound
  BY OffersSound DEF OfferInv
<1> QED BY <1>1, <1>2, <1>3, ShapeInvariant, PTL DEF Spec

-----------------------------------------------------------------------------
(* Walks down the trie: a state is a node and the positions still to be spent *)

Live ==
    {x \in Node \X SUBSET Bits :
        x[1] \in 1 .. nodeNum /\ \A p \in x[2] : p > nodePos[x[1]]}

CellOf(x) == <<x[1], SlotOf(nodePos[x[1]], Lowest(x[2]))>>
Goes(x) == x[2] # {} /\ children[CellOf(x)] # NoNode
Down(x) == <<children[CellOf(x)], x[2] \ {Lowest(x[2])}>>

\* The states a walk from x goes through.
Closed(S) == \A x \in S : Goes(x) => Down(x) \in S
Walk(x) == {y \in Live : \A S \in SUBSET Live : x \in S /\ Closed(S) => y \in S}

LEMMA LiveFacts ==
    ASSUME Shape, NEW x \in Live
    PROVE  /\ x = <<x[1], x[2]>> /\ x[1] \in Node /\ x[2] \in SUBSET Bits
           /\ x[2] # {} => /\ CellOf(x) \in Cell
                           /\ Lowest(x[2]) \in x[2]
                           /\ SlotOf(nodePos[x[1]], Lowest(x[2])) \in Slot
           /\ Goes(x) => Down(x) \in Live
<1>1. /\ x = <<x[1], x[2]>> /\ x[1] \in Node /\ x[2] \in SUBSET Bits
      /\ x[1] \in 1 .. nodeNum /\ \A p \in x[2] : p > nodePos[x[1]]
      /\ nodePos[x[1]] \in Pos
  BY DEF Live, Shape, TypeOK, Pos
<1>2. ASSUME x[2] # {}
      PROVE  /\ CellOf(x) \in Cell
             /\ Lowest(x[2]) \in x[2]
             /\ SlotOf(nodePos[x[1]], Lowest(x[2])) \in Slot
             /\ \A p \in x[2] \ {Lowest(x[2])} :
                   p > ChildPos(nodePos[x[1]], SlotOf(nodePos[x[1]], Lowest(x[2])))
  BY <1>1, <1>2, RestAhead DEF CellOf, Cell
<1>3. ASSUME Goes(x)
      PROVE  Down(x) \in Live
  <2>1. /\ children[CellOf(x)] \in 1 .. nodeNum
        /\ nodePos[children[CellOf(x)]]
             = ChildPos(nodePos[x[1]], SlotOf(nodePos[x[1]], Lowest(x[2])))
    BY <1>1, <1>2, <1>3 DEF Goes, CellOf, Shape, TreeShape
  <2>2. children[CellOf(x)] \in Node
    BY <2>1, TrieAssumption DEF Shape, TypeOK, Node
  <2> QED BY <1>1, <1>2, <1>3, <2>1, <2>2 DEF Goes, Down, Live
<1> QED BY <1>1, <1>2, <1>3

LEMMA WalkSelf ==
    ASSUME NEW x \in Live
    PROVE  x \in Walk(x)
  BY DEF Walk

LEMMA WalkDown ==
    ASSUME Shape, NEW x \in Live, NEW y \in Walk(x), Goes(y)
    PROVE  Down(y) \in Walk(x)
<1>1. Down(y) \in Live
  BY LiveFacts DEF Walk
<1> QED BY <1>1 DEF Walk, Closed

\* A walk that ends elsewhere than it began begins with one step down.
LEMMA WalkStep ==
    ASSUME Shape, NEW x \in Live, NEW y \in Walk(x), y # x
    PROVE  Goes(x) /\ Down(x) \in Live /\ y \in Walk(Down(x))
<1> DEFINE S == {x} \cup {z \in Live : Goes(x) /\ z \in Walk(Down(x))}
<1>1. S \in SUBSET Live /\ x \in S
  OBVIOUS
<1>2. ASSUME NEW z \in S, Goes(z)
      PROVE  Down(z) \in S
  <2>1. CASE z = x
    BY <1>2, <2>1, LiveFacts, WalkSelf
  <2>2. CASE z # x
    <3>1. Goes(x) /\ z \in Walk(Down(x)) /\ Down(x) \in Live
      BY <2>2, LiveFacts
    <3>2. Down(z) \in Walk(Down(x))
      BY <1>2, <3>1, WalkDown
    <3>3. Down(z) \in Live
      BY <3>2 DEF Walk
    <3> QED BY <3>1, <3>2, <3>3
  <2> QED BY <2>1, <2>2
<1>3. y \in S
  <2> HIDE DEF S
  <2> QED BY <1>1, <1>2 DEF Walk, Closed
<1> QED BY <1>3, LiveFacts

\* Nodes are only added, and none takes the place of another.
TreeGrows ==
    /\ nodeNum \in Nat /\ nodeNum' \in Nat /\ nodeNum <= nodeNum'
    /\ \A n \in 1 .. nodeNum : nodePos'[n] = nodePos[n]
    /\ \A c \in Cell : children[c] # NoNode => children'[c] = children[c]

\* Then a walk stays one.
LEMMA WalkGrows ==
    ASSUME Shape, TreeGrows, NEW x \in Live
    PROVE  x \in Live' /\ CellOf(x)' = CellOf(x) /\ Walk(x) \subseteq Walk(x)'
<1>1. ASSUME NEW z \in Live
      PROVE  /\ z \in Live' /\ CellOf(z)' = CellOf(z)
             /\ Goes(z) => Goes(z)' /\ Down(z)' = Down(z) /\ Down(z) \in Live
  <2>1. z[1] \in 1 .. nodeNum /\ nodePos'[z[1]] = nodePos[z[1]]
    BY DEF Live, TreeGrows
  <2>2. z \in Live' /\ CellOf(z)' = CellOf(z)
    BY <2>1 DEF Live, CellOf, TreeGrows
  <2>3. ASSUME Goes(z)
        PROVE  Goes(z)' /\ Down(z)' = Down(z)
    BY <2>2, <2>3, LiveFacts DEF Goes, Down, TreeGrows
  <2> QED BY <2>2, <2>3, LiveFacts
<1>2. ASSUME NEW y \in Walk(x), NEW S \in SUBSET (Live'), x \in S, Closed(S)'
      PROVE  y \in S
  <2> DEFINE T == {z \in Live : z \in S}
  <2>1. \A z \in T : Goes(z) => Down(z) \in T
    BY <1>1, <1>2 DEF Closed
  <2>2. T \in SUBSET Live /\ x \in T
    BY <1>2
  <2>3. y \in T
    <3> HIDE DEF T
    <3> QED BY <2>1, <2>2 DEF Walk, Closed
  <2> QED BY <2>3
<1>3. ASSUME NEW y \in Walk(x)
      PROVE  y \in Walk(x)'
  <2>1. y \in Live'
    BY <1>1 DEF Walk
  <2> QED BY <1>2, <2>1 DEF Walk
<1> QED BY <1>1, <1>3

LEMMA WalkSame ==
    ASSUME UNCHANGED treeVars
    PROVE  \A x : CellOf(x)' = CellOf(x) /\ Walk(x)' = Walk(x)
  BY DEF treeVars, CellOf, Walk, Live, Closed, Goes, Down

-----------------------------------------------------------------------------
(* The path of a signature *)

\* Every signature has a zero to be stored at.
HaveZeros == \A m \in Meta : Zeros(Data[m]) # {}

Start(m) == <<Root, Zeros(Data[m])>>

\* An inserter that is about to make a child still finds none.
ParentInv ==
    \A i \in Inserters : ipc[i] \in {"nodeLock", "newNode"} => children[ICell(i)] = NoNode

OnPath ==
    \A i \in Inserters, m \in Meta :
        ipc[i] # "idle" /\ imeta[i] = m => <<inode[i], irem[i]>> \in Walk(Start(m))

\* m stands on a walk from its start.
Stored(m) ==
    \E x \in Walk(Start(m)), j \in Nat : x[2] # {} /\ StandsAt(CellOf(x), j, m)

PathInv == ParentInv /\ OnPath /\ \A m \in inserted : sym[m] = {} => Stored(m)

LEMMA StartLive == ASSUME Shape, NEW m \in Meta PROVE Start(m) \in Live
<1>1. Root \in Node /\ Root \in 1 .. nodeNum /\ nodePos[Root] = PosNan
  BY RootIsNode DEF Shape, RootShape, TypeOK, Node, Root
<1>2. Zeros(Data[m]) \in SUBSET Bits /\ \A p \in Bits : p > PosNan
  BY GeometryAssumption DEF Zeros, Bits, PosNan
<1> QED BY <1>1, <1>2 DEF Start, Live

LEMMA TreeGrowsNext == ASSUME Shape, ParentInv, [Next]_vars PROVE TreeGrows
<1>0. nodeNum \in Nat /\ children \in [Cell -> Node \cup {NoNode}]
      /\ nodePos \in [Node -> {PosNan} \cup Bits]
  BY DEF Shape, TypeOK, Node
<1>1. ASSUME NEW i \in Inserters, NewNode(i)
      PROVE  TreeGrows
  <2>1. nodeNum' = nodeNum + 1 /\ children' = [children EXCEPT ![ICell(i)] = nodeNum + 1]
        /\ \E pos : nodePos' = [nodePos EXCEPT ![nodeNum + 1] = pos]
    BY <1>1 DEF NewNode
  <2>2. children[ICell(i)] = NoNode
    BY <1>1 DEF NewNode, IGoto, ParentInv
  <2> QED BY <1>0, <2>1, <2>2 DEF TreeGrows
<1>2. CASE UNCHANGED treeVars
  BY <1>0, <1>2 DEF TreeGrows, treeVars
<1>3. CASE UNCHANGED <<nodeNum, nodePos, children>>
  BY <1>0, <1>3 DEF TreeGrows
<1>4. UNCHANGED <<nodeNum, nodePos, children>> \/ \E i \in Inserters : NewNode(i)
  <2>1. ASSUME NEW i \in Inserters, InserterStep(i) \/ \E m \in Meta : Insert2(i, m), ~NewNode(i)
        PROVE  UNCHANGED <<nodeNum, nodePos, children>>
    BY <2>1 DEF InserterStep, Insert2, ProbeFree, ILockList, Reuse, ReuseLost, ProbeRoom, Push,
                ProbeChild, LockNode, Descend, treeVars
  <2> QED BY <2>1, OtherFacts DEF treeVars
<1> QED BY <1>1, <1>3, <1>4

\* No step empties the sym of a signature.
LEMMA SymGrows ==
    ASSUME Shape, [Next]_vars, NEW m \in Meta, sym'[m] = {}
    PROVE  sym[m] = {}
<1>0. sym \in [Meta -> SUBSET Flag]
  BY DEF Shape, TypeOK
<1>1. ASSUME NEW s \in Searchers, Mark(s)
      PROVE  sym[m] = {}
  <2>1. PICK old : sym' = [sym EXCEPT ![cur[s]] = old \cup {"INVALID"}]
    BY <1>1 DEF Mark
  <2> QED BY <1>0, <2>1
<1>2. ASSUME NEW s \in Searchers, AddRemoveAtomic(s)
      PROVE  sym[m] = {}
  <2>1. sym' = [sym EXCEPT ![cur[s]] = @ \cup {"REMOVED"}] \/ sym' = sym
    BY <1>2 DEF AddRemoveAtomic
  <2> QED BY <1>0, <2>1
<1>3. ASSUME NEW n \in Meta, ClientDelete(n)
      PROVE  sym[m] = {}
  BY <1>0, <1>3 DEF ClientDelete
<1>4. ASSUME NEW s \in Searchers,
             Wanders(s) \/ Elem(s) \/ NodeReturn(s) \/ \E q \in Queries : Search(s, q)
      PROVE  sym' = sym
  BY <1>4, WanderFacts DEF Elem, NodeReturn, Search
<1>5. ASSUME NEW i \in Inserters, InserterStep(i) \/ \E n \in Meta : Insert2(i, n)
      PROVE  sym' = sym
  BY <1>5, InserterCases, WalkFacts, ReturnFacts DEF Insert2
<1>6. CASE Rest \/ UNCHANGED vars
  BY <1>6 DEF Rest, vars
<1> QED BY <1>1, <1>2, <1>3, <1>4, <1>5, <1>6, SearcherCases DEF Next

\* A signature that was neither reported nor deleted stays where it is.
LEMMA StandsKept ==
    ASSUME Shape, OfferInv, [Next]_vars,
           NEW d \in Cell, NEW j \in Nat, NEW m \in Meta, StandsAt(d, j, m), sym[m] = {}
    PROVE  StandsAt(d, j, m)'
<1>1. ASSUME NEW i \in Inserters, Push(i)
      PROVE  StandsAt(d, j, m)'
  <2>1. PICK c, k, n : Put(c, k, n) /\ k = Len(ptrList[c]) + 1
    BY <1>1, PushPuts
  <2>2. ~(d = c /\ j = k)
    <3>1. Len(ptrList[d]) \in Nat
      BY DEF Shape, TypeOK
    <3> QED BY <2>1, <3>1 DEF StandsAt, StandsIn
  <2>3. Put(c, k, n)
    BY <2>1
  <2> QED BY <2>2, <2>3, PutKeeps
<1>2. ASSUME NEW i \in Inserters, Reuse(i)
      PROVE  StandsAt(d, j, m)'
  <2> DEFINE c == ICell(i)
             k == removedIdx[c][Len(removedIdx[c])]
  <2>1. Put(c, k, imeta[i])
    BY <1>2, ReusePuts
  <2>2. c \in Cell /\ removedIdx[c] # <<>> /\ removedIdx[c] \in Seq(Nat \ {0})
    BY <1>2, InserterFacts DEF Reuse, IReturn, IGoto, Shape, TypeOK
  <2>3. Len(removedIdx[c]) \in 1 .. Len(removedIdx[c])
    BY <2>2
  <2>4. PICK gone \in Meta : StandsAt(c, k, gone) /\ "REMOVED" \in sym[gone]
    BY <2>2, <2>3 DEF OfferInv, Offers
  <2> HIDE DEF c, k
  <2>5. ~(d = c /\ j = k)
    BY <2>4 DEF StandsAt, StandsIn
  <2> QED BY <2>1, <2>5, PutKeeps
<1>3. CASE UNCHANGED ptrList
  BY <1>3 DEF StandsAt, StandsIn
<1>4. ASSUME NEW i \in Inserters, Walks(i) \/ \E n \in Meta : Insert2(i, n)
      PROVE  UNCHANGED ptrList
  BY <1>4, WalkFacts DEF Insert2, listVars
<1> QED BY <1>1, <1>2, <1>3, <1>4, OtherFacts, InserterCases

\* Where m stands, it stands after a step that adds to the tree.
LEMMA StoredKept ==
    ASSUME Shape, OfferInv, ParentInv, [Next]_vars, NEW m \in Meta, Stored(m), sym[m] = {}
    PROVE  Stored(m)'
<1>1. PICK x \in Walk(Start(m)), j \in Nat : x[2] # {} /\ StandsAt(CellOf(x), j, m)
  BY DEF Stored
<1>2. TreeGrows /\ Start(m) \in Live /\ x \in Live
  BY TreeGrowsNext, StartLive DEF Walk
<1>3. x \in Walk(Start(m))' /\ CellOf(x)' = CellOf(x)
  <2>1. Walk(Start(m)) \subseteq Walk(Start(m))'
    BY <1>2, WalkGrows DEF Start
  <2> QED BY <1>2, <2>1, WalkGrows
<1>4. CellOf(x) \in Cell
  BY <1>1, <1>2, LiveFacts
<1>5. StandsIn(ptrList', CellOf(x), j, m)
  BY <1>1, <1>4, StandsKept DEF StandsAt
<1> QED BY <1>1, <1>3, <1>5 DEF Stored, StandsAt

LEMMA WalkKept ==
    ASSUME Shape, TreeGrows, NEW m \in Meta, NEW y \in Walk(Start(m))
    PROVE  y \in Walk(Start(m))'
<1>1. Start(m) \in Live
  BY StartLive
<1> QED BY <1>1, WalkGrows DEF Start

LEMMA ParentKept ==
    ASSUME Shape, ParentInv, OneInserter, [Next]_vars
    PROVE  ParentInv'
<1>0. ipc \in [Inserters -> {"idle", "free", "reuseLock", "reuse", "room", "pushLock", "push",
                             "child", "nodeLock", "newNode", "descend"}]
  BY DEF Shape, TypeOK
<1>1. ASSUME NEW i \in Inserters, ProbeChild(i) \/ LockNode(i)
      PROVE  ParentInv'
  <2>1. UNCHANGED <<children, nodePos, inode, irem>>
    BY <1>1 DEF ProbeChild, LockNode, IUnchanged, treeVars
  <2>2. ipc'[i] \in {"nodeLock", "newNode"} => children[ICell(i)] = NoNode
    BY <1>0, <1>1 DEF ProbeChild, LockNode, IGoto, NoChild, ParentInv
  <2> QED BY <2>1, <2>2 DEF ParentInv, OneInserter, ICell
<1>2. ASSUME NEW i \in Inserters, InserterStep(i) \/ \E m \in Meta : Insert2(i, m),
             ~ProbeChild(i), ~LockNode(i)
      PROVE  ParentInv'
  <2>1. CASE ipc' = ipc
    <3>1. \E m \in Meta : Insert2(i, m)
      BY <1>0, <1>2, <2>1 DEF InserterStep, ProbeFree, ILockList, Reuse, ReuseLost, ProbeRoom,
                  Push, NewNode, Descend, IGoto, IReturn
    <3>2. UNCHANGED <<children, nodePos>> /\ ipc[i] = "idle"
      BY <3>1 DEF Insert2, IGoto, treeVars
    <3> QED BY <2>1, <3>2 DEF ParentInv, OneInserter
  <2>2. CASE ipc' # ipc
    <3>1. ipc'[i] \notin {"nodeLock", "newNode"}
      BY <1>0, <1>2, <2>2 DEF InserterStep, Insert2, ProbeFree, ILockList, Reuse, ReuseLost, ProbeRoom,
                  Push, NewNode, Descend, IGoto, IReturn
    <3> QED BY <3>1 DEF ParentInv, OneInserter
  <2> QED BY <2>1, <2>2
<1>3. CASE ~ \E i \in Inserters : InserterStep(i) \/ \E m \in Meta : Insert2(i, m)
  BY <1>3, OtherFacts DEF ParentInv, ICell, treeVars
<1> QED BY <1>1, <1>2, <1>3

LEMMA OnPathKept ==
    ASSUME Shape, PathInv, OneInserter, HaveZeros, [Next]_vars
    PROVE  OnPath'
<1> SUFFICES ASSUME NEW i \in Inserters, NEW m \in Meta, ipc'[i] # "idle", imeta'[i] = m
             PROVE  <<inode'[i], irem'[i]>> \in Walk(Start(m))'
  BY DEF OnPath
<1>0. /\ ipc \in [Inserters -> {"idle", "free", "reuseLock", "reuse", "room", "pushLock", "push",
                                "child", "nodeLock", "newNode", "descend"}]
      /\ inode \in [Inserters -> Node] /\ irem \in [Inserters -> SUBSET Bits]
      /\ imeta \in [Inserters -> Meta \cup {NoMeta}]
  BY DEF Shape, TypeOK
<1>1. TreeGrows
  BY TreeGrowsNext DEF PathInv
<1>2. ASSUME ipc[i] # "idle", imeta[i] = m, UNCHANGED <<inode, irem>>
      PROVE  <<inode'[i], irem'[i]>> \in Walk(Start(m))'
  BY <1>1, <1>2, WalkKept DEF PathInv, OnPath
<1>3. CASE Descend(i)
  <2> DEFINE x == <<inode[i], irem[i]>>
  <2>1. ipc[i] = "descend" /\ imeta[i] = m /\ UNCHANGED treeVars
    BY <1>3 DEF Descend, IGoto
  <2>2. x \in Walk(Start(m)) /\ Start(m) \in Live
    BY <2>1, StartLive DEF PathInv, OnPath
  <2>3. CellOf(x) = ICell(i) /\ Goes(x)
    BY <2>1, InserterFacts DEF CellOf, ICell, Goes, Shape, DescendShape
  <2>4. Down(x) \in Walk(Start(m))
    <3> HIDE DEF x
    <3> QED BY <2>2, <2>3, WalkDown
  <2>5. inode'[i] = children[ICell(i)] /\ irem'[i] = irem[i] \ {Lowest(irem[i])}
    BY <1>0, <1>3 DEF Descend
  <2>6. <<inode'[i], irem'[i]>> = Down(x)
    BY <2>3, <2>5 DEF Down
  <2> QED BY <1>1, <2>4, <2>6, WalkKept
<1>4. ASSUME Walks(i), ~Descend(i)
      PROVE  <<inode'[i], irem'[i]>> \in Walk(Start(m))'
  <2>1. UNCHANGED <<inode, irem>>
    BY <1>4 DEF Walks, ProbeFree, ILockList, ReuseLost, ProbeRoom, ProbeChild, LockNode,
                NewNode, IUnchanged
  <2>2. ipc[i] # "idle" /\ imeta[i] = m
    BY <1>4, WalkFacts
  <2> QED BY <1>2, <2>1, <2>2
<1>5. CASE \E n \in Meta : Insert2(i, n)
  <2>1. PICK n \in Meta : Insert2(i, n)
    BY <1>5
  <2>2. /\ imeta' = [imeta EXCEPT ![i] = n] /\ inode' = [inode EXCEPT ![i] = Root]
        /\ irem' = [irem EXCEPT ![i] = Zeros(Data[n])]
    BY <2>1 DEF Insert2, HaveZeros
  <2>3. n = m /\ <<inode'[i], irem'[i]>> = Start(m)
    BY <1>0, <2>2 DEF Start
  <2>4. Start(m) \in Walk(Start(m))
    BY StartLive, WalkSelf
  <2> QED BY <1>1, <2>3, <2>4, WalkKept
<1>6. CASE Push(i) \/ Reuse(i)
  BY <1>0, <1>6, ReturnFacts
<1>7. CASE \E j \in Inserters : InserterStep(j) \/ \E n \in Meta : Insert2(j, n)
  <2>1. InserterStep(i) \/ \E n \in Meta : Insert2(i, n)
    BY <1>7 DEF OneInserter
  <2> QED BY <1>3, <1>4, <1>5, <1>6, <2>1, InserterCases
<1>8. CASE ~ \E j \in Inserters : InserterStep(j) \/ \E n \in Meta : Insert2(j, n)
  BY <1>2, <1>8, OtherFacts
<1> QED BY <1>7, <1>8

LEMMA PathInvNext ==
    ASSUME Shape, OfferInv, PathInv, OneInserter, HaveZeros, [Next]_vars
    PROVE  PathInv'
<1> SUFFICES ASSUME NEW m \in Meta, m \in inserted', sym'[m] = {}
             PROVE  Stored(m)'
  <2>1. inserted' \subseteq Meta
    BY NextShape DEF Shape, TypeOK
  <2> QED BY <2>1, ParentKept, OnPathKept DEF PathInv
<1>1. sym[m] = {}
  BY SymGrows
<1>2. CASE m \in inserted
  BY <1>1, <1>2, StoredKept DEF PathInv
<1>3. ASSUME NEW i \in Inserters, Push(i) \/ Reuse(i), m \notin inserted
      PROVE  Stored(m)'
  <2> DEFINE x == <<inode[i], irem[i]>>
  <2>1. m = imeta[i] /\ ipc[i] # "idle" /\ UNCHANGED treeVars
    BY <1>3, ReturnFacts
  <2>2. x \in Walk(Start(m)) /\ x[2] # {} /\ CellOf(x) = ICell(i)
    BY <2>1, InserterFacts DEF PathInv, OnPath, CellOf, ICell
  <2>3. PICK k \in Nat : StandsIn(ptrList', ICell(i), k, m)
    BY <1>3, <2>1, PushPuts, ReusePuts DEF Put
  <2>4. PICK y : y = x
    OBVIOUS
  <2>5. y \in Walk(Start(m))' /\ CellOf(y)' = ICell(i) /\ y[2] # {}
    BY <2>1, <2>2, <2>4, WalkSame DEF Start
  <2> HIDE DEF x
  <2> QED BY <2>3, <2>5 DEF Stored, StandsAt
<1>4. ASSUME m \notin inserted
      PROVE  \E i \in Inserters : Push(i) \/ Reuse(i)
  <2>1. inserted' # inserted
    BY <1>4
  <2>2. PICK i \in Inserters : InserterStep(i) \/ \E n \in Meta : Insert2(i, n)
    BY <2>1, OtherFacts
  <2> QED BY <2>1, <2>2, InserterCases, WalkFacts DEF Insert2, HaveZeros
<1> QED BY <1>2, <1>3, <1>4

LEMMA PathInvInit == Init => PathInv
  BY DEF Init, PathInv, ParentInv, OnPath

-----------------------------------------------------------------------------
(* PathCells: the same path, as the recursive function that TLC evaluates *)

Earlier(m, p) == {q \in Zeros(Data[m]) : q < p}
Last(m, p) == CHOOSE x \in Earlier(m, p) : \A y \in Earlier(m, p) : y <= x

\* The node where p is spent, given where the zeros before it are.
Spent(m, f, p) ==
    IF Earlier(m, p) = {} THEN Root
    ELSE IF f[Last(m, p)] = NoNode THEN NoNode
         ELSE children[<<f[Last(m, p)], SlotOf(nodePos[f[Last(m, p)]], Last(m, p))>>]

Solves(m, f) == f = [p \in Zeros(Data[m]) |-> Spent(m, f, p)]
SpentAt(m) == CHOOSE f : Solves(m, f)

LEMMA PathCellsAre ==
    ASSUME NEW m
    PROVE  PathCells(m) =
             {<<SpentAt(m)[p], SlotOf(nodePos[SpentAt(m)[p]], p)>> :
                 p \in {z \in Zeros(Data[m]) : SpentAt(m)[z] # NoNode}}
  BY DEF PathCells, SpentAt, Solves, Spent, Earlier, Last

\* The zero before p is the last of those before it.
LEMMA LastIsLast ==
    ASSUME NEW m \in Meta, NEW p \in Bits, Earlier(m, p) # {}
    PROVE  /\ Last(m, p) \in Earlier(m, p) /\ Last(m, p) \in Bits /\ Last(m, p) < p
           /\ \A y \in Earlier(m, p) : y <= Last(m, p)
<1>1. Bits = 0 .. BloomSize - 1 /\ BloomSize \in Nat
  BY GeometryAssumption DEF Bits
<1>2. Earlier(m, p) \subseteq Bits /\ \A x \in Earlier(m, p) : x < p
  BY DEF Earlier, Zeros
<1> DEFINE D == {BloomSize - x : x \in Earlier(m, p)}
<1>3. D \subseteq Nat /\ D # {}
  BY <1>1, <1>2
<1>4. PICK d \in D : \A e \in D : d <= e
  <2> HIDE DEF D
  <2> QED BY <1>3, NatMin
<1>5. PICK x \in Earlier(m, p) : d = BloomSize - x
  BY <1>4
<1>6. ASSUME NEW y \in Earlier(m, p)
      PROVE  y <= x
  <2>1. d <= BloomSize - y
    BY <1>4
  <2>2. x \in Int /\ y \in Int
    BY <1>1, <1>2
  <2> QED BY <1>1, <1>5, <2>1, <2>2
<1>7. Last(m, p) \in Earlier(m, p) /\ \A y \in Earlier(m, p) : y <= Last(m, p)
  BY <1>6 DEF Last
<1> QED BY <1>2, <1>7

\* There is a function that the recursion of PathCells defines.
LEMMA SpentExists ==
    ASSUME Shape, NEW m \in Meta
    PROVE  \E f : Solves(m, f)
<1> DEFINE V == Node \cup {NoNode}
           S == {g \in [Bits -> V] :
                    \A q \in Bits : g[q] # NoNode => g[q] \in 1 .. nodeNum /\ q > nodePos[g[q]]}
           a == [p \in Bits |-> NoNode]
           n == BloomSize
           step == [i \in 1 .. n |-> [g \in S |-> [g EXCEPT ![i - 1] = Spent(m, g, i - 1)]]]
<1>1. Bits = 0 .. n - 1 /\ n \in Nat
  BY GeometryAssumption DEF Bits
<1>2. a \in S
  OBVIOUS
<1>3. ASSUME NEW i \in 1 .. n, NEW g \in S
      PROVE  [g EXCEPT ![i - 1] = Spent(m, g, i - 1)] \in S
  <2> DEFINE p == i - 1
             q == Last(m, p)
             c == Spent(m, g, p)
  <2>1. p \in Bits /\ p \in Nat
    BY <1>1
  <2>2. c \in V /\ (c # NoNode => c \in 1 .. nodeNum /\ p > nodePos[c])
    <3>1. CASE Earlier(m, p) = {}
      <4>1. c = Root /\ Root \in Node /\ Root \in 1 .. nodeNum /\ nodePos[Root] = PosNan
        BY <3>1, RootIsNode DEF Spent, Shape, RootShape, TypeOK, Node, Root
      <4> QED BY <2>1, <4>1 DEF PosNan
    <3>2. CASE Earlier(m, p) # {} /\ g[q] = NoNode
      BY <3>2 DEF Spent
    <3>3. CASE Earlier(m, p) # {} /\ g[q] # NoNode
      <4>1. q \in Bits /\ q < p
        BY <2>1, <3>3, LastIsLast
      <4>2. g[q] \in 1 .. nodeNum /\ g[q] \in Node /\ q > nodePos[g[q]]
        BY <3>3, <4>1
      <4>3. nodePos[g[q]] \in Pos
        BY <4>2 DEF Shape, TypeOK, Pos
      <4> DEFINE slot == SlotOf(nodePos[g[q]], q)
      <4>4. slot \in Slot /\ ChildPos(nodePos[g[q]], slot) \in Bits /\ ChildPos(nodePos[g[q]], slot) <= q
        BY <4>1, <4>2, <4>3, SlotAhead
      <4>5. c = children[<<g[q], slot>>]
        BY <3>3 DEF Spent
      <4> HIDE DEF c, slot, q, p
      <4>6. c \in V
        BY <4>2, <4>4, <4>5 DEF Shape, TypeOK, Cell
      <4>7. c # NoNode => c \in 1 .. nodeNum /\ nodePos[c] = ChildPos(nodePos[g[q]], slot)
        BY <4>2, <4>4, <4>5 DEF Shape, TreeShape
      <4>8. ChildPos(nodePos[g[q]], slot) < p
        <5>1. p \in Int /\ q \in Int /\ ChildPos(nodePos[g[q]], slot) \in Int
          BY <1>1, <2>1, <4>1, <4>4
        <5> QED BY <4>1, <4>4, <5>1
      <4> QED BY <4>6, <4>7, <4>8, <1>1, <2>1, <4>4
    <3> QED BY <3>1, <3>2, <3>3
  <2> HIDE DEF c
  <2>3. [g EXCEPT ![p] = c] \in S
    BY <2>1, <2>2
  <2> QED BY <2>3 DEF c
<1>4. step \in Steps(n, S)
  <2> HIDE DEF S
  <2> QED BY <1>3 DEF Steps
<1>5. PICK f \in [0 .. n -> S] : f[0] = a /\ \A i \in 1 .. n : f[i] = step[i][f[i - 1]]
  <2> HIDE DEF S, a, step, n
  <2> QED BY <1>1, <1>2, <1>4, RecursionExists DEF Chains
<1>6. ASSUME NEW i \in 1 .. n
      PROVE  /\ f[i - 1] \in [Bits -> V] /\ f[i] \in [Bits -> V]
             /\ f[i] = [f[i - 1] EXCEPT ![i - 1] = Spent(m, f[i - 1], i - 1)]
  <2>1. i - 1 \in 0 .. n /\ i \in 0 .. n
    BY <1>1
  <2>2. f[i - 1] \in S /\ f[i] \in S
    BY <2>1
  <2>3. f[i] = step[i][f[i - 1]]
    BY <1>5
  <2> QED BY <2>2, <2>3
<1> HIDE DEF S, V, a, step, n
<1> DEFINE T == {j \in 0 .. n : \A i \in 0 .. j : \A q \in Bits : q < i => f[j][q] = f[i][q]}
<1>7. \A j \in 0 .. n : j \in T
  <2>1. 0 \in T
    BY <1>1
  <2>2. ASSUME NEW j \in 1 .. n, j - 1 \in T
        PROVE  j \in T
    <3> SUFFICES ASSUME NEW i \in 0 .. j, NEW q \in Bits, q < i
                 PROVE  f[j][q] = f[i][q]
      OBVIOUS
    <3>1. CASE i = j
      BY <3>1
    <3>2. CASE i # j
      <4>1. i \in 0 .. j - 1 /\ q # j - 1
        BY <1>1, <3>2
      <4>2. f[j - 1][q] = f[i][q]
        BY <2>2, <4>1
      <4>3. f[j][q] = f[j - 1][q]
        BY <1>6, <4>1
      <4> QED BY <4>2, <4>3
    <3> QED BY <3>1, <3>2
  <2> HIDE DEF T
  <2> QED BY <1>1, <2>1, <2>2, SetInduction
<1> DEFINE g == [p \in Zeros(Data[m]) |-> f[n][p]]
<1>8. ASSUME NEW p \in Zeros(Data[m])
      PROVE  g[p] = Spent(m, g, p)
  <2>1. p \in Bits /\ p \in Nat /\ p + 1 \in 1 .. n /\ p \in 0 .. n /\ n \in 0 .. n
        /\ p + 1 \in 0 .. n
    BY <1>1 DEF Zeros
  <2>2. f[p + 1][p] = Spent(m, f[p], p)
    <3>1. f[p + 1] = [f[p] EXCEPT ![p] = Spent(m, f[p], p)] /\ f[p] \in [Bits -> V]
      <4>1. p + 1 - 1 = p
        BY <2>1
      <4> QED BY <1>6, <2>1, <4>1
    <3> QED BY <2>1, <3>1
  <2>3. f[n][p] = f[p + 1][p]
    BY <1>7, <2>1
  <2>4. CASE Earlier(m, p) = {}
    BY <2>2, <2>3, <2>4 DEF Spent
  <2>5. CASE Earlier(m, p) # {}
    <3>1. Last(m, p) \in Zeros(Data[m]) /\ Last(m, p) \in Bits /\ Last(m, p) < p
      BY <2>1, <2>5, LastIsLast DEF Earlier
    <3>2. f[n][Last(m, p)] = f[p][Last(m, p)]
      BY <1>7, <2>1, <3>1
    <3>3. g[Last(m, p)] = f[p][Last(m, p)]
      BY <3>1, <3>2
    <3>4. Spent(m, g, p) = Spent(m, f[p], p)
      <4> HIDE DEF g
      <4> QED BY <3>3 DEF Spent
    <3> QED BY <2>2, <2>3, <3>4
  <2> QED BY <2>4, <2>5
<1>9. Solves(m, g)
  BY <1>8, Zenon DEF Solves
<1> QED BY <1>9

LEMMA LowestBit ==
    ASSUME NEW S \in SUBSET Bits, S # {}
    PROVE  Lowest(S) \in S /\ Lowest(S) \in Nat /\ \A y \in S : y \in Nat /\ Lowest(S) <= y
<1>1. S \in SUBSET Nat
  BY GeometryAssumption DEF Bits
<1> QED BY <1>1, LowestIsLeast

\* The node of a state on the walk of m is where PathCells has its lowest position.
LEMMA WalkIsSpent ==
    ASSUME Shape, NEW m \in Meta, NEW y \in Walk(Start(m)), y[2] # {}
    PROVE  SpentAt(m)[Lowest(y[2])] = y[1] /\ Lowest(y[2]) \in Zeros(Data[m])
<1> DEFINE f == SpentAt(m)
           Z == Zeros(Data[m])
           S == {z \in Live : z[2] # {} => /\ z[2] = {q \in Z : q >= Lowest(z[2])}
                                           /\ f[Lowest(z[2])] = z[1]}
<1>1. \A p \in Z : f[p] = Spent(m, f, p)
  <2>1. Solves(m, SpentAt(m))
    BY SpentExists DEF SpentAt
  <2> QED BY <2>1, Zenon DEF Solves
<1>2. Z \in SUBSET Bits /\ Z \in SUBSET Nat
  BY GeometryAssumption DEF Zeros, Bits
<1> HIDE DEF f, Z
<1>3. Start(m) \in S
  <2>1. Start(m) \in Live /\ Start(m)[1] = Root /\ Start(m)[2] = Z
    BY StartLive DEF Start, Z
  <2>2. ASSUME Z # {}
        PROVE  Z = {q \in Z : q >= Lowest(Z)} /\ f[Lowest(Z)] = Root
    <3>1. Lowest(Z) \in Z /\ Lowest(Z) \in Nat /\ \A q \in Z : q \in Nat /\ Lowest(Z) <= q
      BY <1>2, <2>2, LowestBit
    <3>2. Earlier(m, Lowest(Z)) = {}
      BY <3>1 DEF Earlier, Z
    <3>3. f[Lowest(Z)] = Root
      BY <1>1, <3>1, <3>2 DEF Spent
    <3> QED BY <3>1, <3>3
  <2> QED BY <2>1, <2>2
<1>4. ASSUME NEW z \in S, Goes(z)
      PROVE  Down(z) \in S
  <2> DEFINE p == Lowest(z[2])
             rest == z[2] \ {p}
             n == Lowest(rest)
  <2>1. Down(z) \in Live /\ z[2] # {} /\ z[2] \in SUBSET Bits /\ z[1] \in Node
    BY <1>4, LiveFacts DEF Goes
  <2>2. Down(z)[1] = children[CellOf(z)] /\ Down(z)[2] = rest
    BY DEF Down
  <2>3. z[2] = {q \in Z : q >= p} /\ f[p] = z[1]
    BY <2>1
  <2>4. p \in z[2] /\ p \in Nat /\ \A q \in z[2] : q \in Nat /\ p <= q
    BY <2>1, LowestBit
  <2>5. ASSUME rest # {}
        PROVE  rest = {q \in Z : q >= n} /\ f[n] = children[CellOf(z)]
    <3>1. n \in rest /\ n \in Nat /\ \A q \in rest : q \in Nat /\ n <= q
      BY <2>1, <2>5, LowestBit
    <3> HIDE DEF n
    <3>2. n > p /\ n \in Z /\ p \in Z /\ n \in Bits
      BY <1>2, <2>3, <2>4, <3>1
    <3>3. rest = {q \in Z : q >= n}
      <4>1. ASSUME NEW q \in rest
            PROVE  q \in Z /\ q >= n
        BY <2>3, <3>1
      <4>2. ASSUME NEW q \in Z, q >= n
            PROVE  q \in rest
        <5>1. q \in Nat /\ q >= p /\ q # p
          BY <1>2, <2>4, <3>1, <3>2, <4>2
        <5>2. q \in z[2]
          BY <2>3, <5>1
        <5> QED BY <5>1, <5>2
      <4> QED BY <4>1, <4>2
    <3>4. p \in Earlier(m, n) /\ \A q \in Earlier(m, n) : q \in Nat /\ q <= p
      <4>1. p \in Earlier(m, n)
        BY <3>2 DEF Earlier, Z
      <4>2. ASSUME NEW q \in Earlier(m, n)
            PROVE  q \in Nat /\ q <= p
        <5>1. q \in Z /\ q < n /\ q \in Nat
          BY <1>2 DEF Earlier, Z
        <5> QED BY <2>4, <3>1, <3>3, <5>1, <2>3
      <4> QED BY <4>1, <4>2
    <3>5. Last(m, n) = p
      <4>1. Last(m, n) \in Earlier(m, n) /\ \A q \in Earlier(m, n) : q <= Last(m, n)
        BY <3>2, <3>4, LastIsLast
      <4> QED BY <2>4, <3>4, <4>1
    <3>6. f[n] = Spent(m, f, n)
      BY <1>1, <3>2
    <3>7. f[Last(m, n)] = z[1] /\ z[1] # NoNode /\ CellOf(z) = <<z[1], SlotOf(nodePos[z[1]], Last(m, n))>>
      BY <2>1, <2>3, <3>5 DEF CellOf, Node, NoNode
    <3>8. Spent(m, f, n) = children[CellOf(z)]
      BY <3>4, <3>7 DEF Spent
    <3> QED BY <3>3, <3>6, <3>8
  <2> HIDE DEF p, rest, n
  <2> QED BY <2>1, <2>2, <2>5 DEF n
<1>5. y \in S
  <2>1. S \in SUBSET Live
    OBVIOUS
  <2> HIDE DEF S
  <2> QED BY <1>3, <1>4, <2>1 DEF Walk, Closed
<1>6. y \in Live /\ y[2] = {q \in Z : q >= Lowest(y[2])} /\ f[Lowest(y[2])] = y[1]
  BY <1>5
<1>7. Lowest(y[2]) \in y[2]
  BY <1>6, LiveFacts
<1> QED BY <1>6, <1>7 DEF f, Z

LEMMA StoredSound ==
    ASSUME Shape, ListInv, PathInv
    PROVE  StoredOnPath
<1> SUFFICES ASSUME NEW m \in inserted, sym[m] = {}
             PROVE  \E c \in PathCells(m) :
                       /\ \E j \in 1 .. Len(ptrList[c]) : ptrList[c][j] = m
                       /\ \A d \in Cell, j, k \in 1 .. MaxInserts :
                             /\ k <= Len(ptrList[c]) /\ ptrList[c][k] = m
                             /\ j <= Len(ptrList[d]) /\ ptrList[d][j] = m
                             => d = c /\ j = k
  BY DEF StoredOnPath
<1>1. m \in Meta
  BY DEF Shape, TypeOK
<1>2. PICK x \in Walk(Start(m)), i \in Nat : x[2] # {} /\ StandsAt(CellOf(x), i, m)
  BY <1>1 DEF PathInv, Stored
<1>3. x \in Live /\ CellOf(x) \in Cell /\ x[1] \in Node
  BY <1>2, LiveFacts DEF Walk
<1>4. CellOf(x) \in PathCells(m)
  <2> DEFINE p == Lowest(x[2])
  <2>1. SpentAt(m)[p] = x[1] /\ p \in Zeros(Data[m])
    BY <1>1, <1>2, WalkIsSpent
  <2>2. CellOf(x) = <<SpentAt(m)[p], SlotOf(nodePos[SpentAt(m)[p]], p)>>
    BY <2>1 DEF CellOf
  <2>3. SpentAt(m)[p] # NoNode
    BY <1>3, <2>1 DEF Node, NoNode
  <2> HIDE DEF p
  <2> QED BY <2>1, <2>2, <2>3, PathCellsAre
<1>5. ASSUME NEW d \in Cell, NEW j \in 1 .. MaxInserts, NEW k \in 1 .. MaxInserts,
             k <= Len(ptrList[CellOf(x)]), ptrList[CellOf(x)][k] = m,
             j <= Len(ptrList[d]), ptrList[d][j] = m
      PROVE  d = CellOf(x) /\ j = k
  <2>1. j \in Nat /\ k \in Nat /\ j >= 1 /\ k >= 1
    BY TrieAssumption
  <2>2. Len(ptrList[d]) \in Nat /\ Len(ptrList[CellOf(x)]) \in Nat
    BY <1>3 DEF Shape, TypeOK
  <2>3. StandsAt(CellOf(x), k, m) /\ StandsAt(d, j, m)
    BY <1>5, <2>1, <2>2 DEF StandsAt, StandsIn
  <2> QED BY <1>1, <1>3, <2>1, <2>3 DEF ListInv, ListedInv
<1>6. \E j \in 1 .. Len(ptrList[CellOf(x)]) : ptrList[CellOf(x)][j] = m
  BY <1>2 DEF StandsAt, StandsIn
<1> QED BY <1>4, <1>5, <1>6

\* Splitting lists and reusing places never misplaces, overwrites or doubles a
\* signature that nobody has reported or deleted, when one thread inserts and one
\* searches (Insert2, lines 212-236 and 445-494).
THEOREM StoredSafely ==
    ASSUME OneInserter, OneSearcher, HaveZeros
    PROVE  Spec /\ []Fit => []StoredOnPath
<1>1. Init => ListInv /\ OfferInv /\ PathInv
  BY ListInvInit, OfferInvInit, PathInvInit
<1>2. Shape /\ ListInv /\ OfferInv /\ PathInv /\ Fit /\ [Next]_vars
        => (ListInv /\ OfferInv /\ PathInv)'
  BY ListInvNext, OfferInvNext, PathInvNext
<1>3. Shape /\ ListInv /\ PathInv => StoredOnPath
  BY StoredSound
<1> QED BY <1>1, <1>2, <1>3, ShapeInvariant, PTL DEF Spec

-----------------------------------------------------------------------------
(* Searches: what a search still has to find *)

\* m stands at place j of c, where a walk that has come to y arrives.
Due(m, y, c, j) ==
    /\ y \in Live /\ y[2] # {}
    /\ c \in Cell /\ c = CellOf(y) /\ j \in Nat
    /\ StandsAt(c, j, m)

\* s has not yet scanned place j of a slot of the node it is in.
Scans(s, slot, j) ==
    /\ spc[s] # "kids" /\ slot \in scan[s]
    /\ slot = Lowest(scan[s]) =>
          spc[s] \in {"countLock", "count"} \/ (at[s] <= j /\ j <= count[s])

\* From the k-th activation of s, which is in node n and has, among others, the
\* positions r left, a walk comes to y; or it is there and will scan the place.
Comes(s, y, c, j, k, n, r) ==
    /\ k \in 1 .. Len(stack[s]) /\ n = stack[s][k].node /\ r \subseteq stack[s][k].rem
    /\ y \in Walk(<<n, r>>)
    /\ y = <<n, r>> => k = 1 /\ Scans(s, c[2], j)

Ahead(s, m) == \E y, c, j, k, n, r : Due(m, y, c, j) /\ Comes(s, y, c, j, k, n, r)

Owes(s) == \A m \in owed[s] : sym[m] = {} => squery[s] \subseteq Data[m] /\ Ahead(s, m)
OwedInv == \A s \in Searchers : Owes(s)

LEMMA OwedSound == ASSUME Shape, OwedInv PROVE SearchComplete
<1> SUFFICES ASSUME NEW s \in Searchers, spc[s] = "idle", NEW m \in owed[s], sym[m] = {}
             PROVE  FALSE
  BY DEF SearchComplete
<1>1. stack[s] = <<>>
  BY DEF Shape, SearcherShape, SearcherFits
<1>2. Ahead(s, m)
  BY DEF OwedInv, Owes
<1>3. PICK k : k \in 1 .. Len(stack[s])
  BY <1>2 DEF Ahead, Comes
<1> QED BY <1>1, <1>3

LEMMA OwedInvInit == Init => OwedInv
  BY DEF Init, OwedInv, Owes

\* A state on a frame's walk.
LEMMA FrameLive ==
    ASSUME Shape, NEW s \in Searchers, NEW k \in 1 .. Len(stack[s]),
           NEW n, NEW r, n = stack[s][k].node, r \subseteq stack[s][k].rem
    PROVE  /\ <<n, r>> \in Live /\ n \in Node /\ r \in SUBSET Bits
           /\ stack[s][k].rem \in SUBSET Bits /\ nodePos[n] \in Pos /\ n \in 1 .. nodeNum
<1>1. stack[s][k] \in Frame /\ n \in 1 .. nodeNum /\ n \in Node
  <2>1. stack[s] \in Seq(Frame)
    BY DEF Shape, TypeOK
  <2>2. stack[s][k] \in Frame
    BY <2>1
  <2>3. n \in 1 .. nodeNum
    BY DEF Shape, SearcherShape, SearcherFits
  <2> QED BY <2>2, <2>3 DEF Frame
<1>2. \A p \in stack[s][k].rem : p > nodePos[n]
  BY DEF Shape, PositionsAhead
<1>3. nodePos[n] \in Pos
  BY <1>1 DEF Shape, TypeOK, Pos
<1> QED BY <1>1, <1>2, <1>3 DEF Live, Frame

\* Steps of others leave what a search will find where it is.
LEMMA OwesKept ==
    ASSUME Shape, OfferInv, ParentInv, [Next]_vars, NEW s \in Searchers, Owes(s),
           UNCHANGED <<spc, squery, stack, scan, at, count, owed>>
    PROVE  Owes(s)'
<1> SUFFICES ASSUME NEW m \in owed[s], sym'[m] = {}
             PROVE  squery[s] \subseteq Data[m] /\ Ahead(s, m)'
  BY DEF Owes
<1>1. m \in Meta
  BY DEF Shape, TypeOK
<1>2. sym[m] = {}
  BY <1>1, SymGrows
<1>3. squery[s] \subseteq Data[m] /\ Ahead(s, m)
  BY <1>2 DEF Owes
<1>4. PICK y, c, j, k, n, r : Due(m, y, c, j) /\ Comes(s, y, c, j, k, n, r)
  BY <1>3 DEF Ahead
<1>5. TreeGrows /\ y \in Live
  BY <1>4, TreeGrowsNext DEF Due
<1>6. Due(m, y, c, j)'
  <2>1. y \in Live' /\ CellOf(y)' = CellOf(y)
    BY <1>5, WalkGrows
  <2>2. StandsAt(c, j, m)'
    BY <1>1, <1>2, <1>4, StandsKept DEF Due
  <2> QED BY <1>4, <2>1, <2>2 DEF Due
<1>7. Comes(s, y, c, j, k, n, r)'
  <2>1. <<n, r>> \in Live
    BY <1>4, FrameLive DEF Comes
  <2>2. y \in Walk(<<n, r>>)'
    BY <1>4, <1>5, <2>1, WalkGrows DEF Comes
  <2>3. Scans(s, c[2], j) => Scans(s, c[2], j)'
    BY DEF Scans
  <2> QED BY <1>4, <2>2, <2>3 DEF Comes
<1> QED BY <1>3, <1>6, <1>7 DEF Ahead

\* The step of a search that leaves the tree and the lists as they are.
LEMMA OwesStep ==
    ASSUME Shape, NEW s \in Searchers, Owes(s), [Next]_vars,
           UNCHANGED <<treeVars, ptrList>>, owed'[s] = owed[s], squery'[s] \subseteq squery[s],
           \A m \in Meta : \A y, c, j, k, n, r :
              /\ sym[m] = {} /\ sym'[m] = {} /\ squery[s] \subseteq Data[m]
              /\ Due(m, y, c, j) /\ Comes(s, y, c, j, k, n, r)
              => \E l, o, q : Comes(s, y, c, j, l, o, q)'
    PROVE  Owes(s)'
<1> SUFFICES ASSUME NEW m \in owed[s], sym'[m] = {}
             PROVE  squery'[s] \subseteq Data[m] /\ Ahead(s, m)'
  BY DEF Owes
<1>1. m \in Meta
  BY DEF Shape, TypeOK
<1>2. sym[m] = {}
  BY <1>1, SymGrows
<1>3. squery[s] \subseteq Data[m] /\ Ahead(s, m)
  BY <1>2 DEF Owes
<1>4. PICK y, c, j, k, n, r : Due(m, y, c, j) /\ Comes(s, y, c, j, k, n, r)
  BY <1>3 DEF Ahead
<1>5. Due(m, y, c, j)'
  BY <1>4 DEF Due, StandsAt, StandsIn, Live, CellOf, treeVars
<1>6. PICK l, o, q : Comes(s, y, c, j, l, o, q)'
  BY <1>1, <1>2, <1>3, <1>4
<1> QED BY <1>3, <1>5, <1>6 DEF Ahead

LEMMA StackCons ==
    ASSUME NEW f \in Frame, NEW below \in Seq(Frame)
    PROVE  /\ Len(<<f>> \o below) = Len(below) + 1 /\ Len(below) \in Nat
           /\ (<<f>> \o below)[1] = f
           /\ \A k \in 1 .. Len(below) : (<<f>> \o below)[k + 1] = below[k]
  OBVIOUS

LEMMA StackTail ==
    ASSUME NEW below \in Seq(Frame), below # <<>>
    PROVE  /\ Len(Tail(below)) = Len(below) - 1 /\ Len(below) \in Nat \ {0}
           /\ Head(below) = below[1]
           /\ \A k \in 1 .. Len(below) - 1 : Tail(below)[k] = below[k + 1]
  OBVIOUS

\* A walk goes on from <<n, r>> to y by the child d in slot, with left to spend.
Continues(y, n, r, d, slot, left) ==
    /\ slot \in Slot /\ slot = SlotOf(nodePos[n], Lowest(r))
    /\ d \in Node /\ d = children[<<n, slot>>] /\ d # NoNode
    /\ left \in SUBSET Bits /\ left = r \ {Lowest(r)} /\ left # {}
    /\ <<d, left>> \in Live /\ y \in Walk(<<d, left>>)

\* What the walk does next: down from where it is, by its lowest position.
LEMMA NextOnWalk ==
    ASSUME Shape, NEW n, NEW r, NEW y, <<n, r>> \in Live, y \in Walk(<<n, r>>), y # <<n, r>>,
           y[2] # {}
    PROVE  /\ r # {} /\ Lowest(r) \in r /\ \A p \in r : Lowest(r) <= p
           /\ n \in Node /\ r \in SUBSET Bits /\ nodePos[n] \in Pos
           /\ \E d, slot, left : Continues(y, n, r, d, slot, left)
<1> DEFINE x == <<n, r>>
           d == children[CellOf(x)]
           rest == r \ {Lowest(r)}
<1>1. x[1] = n /\ x[2] = r
  OBVIOUS
<1>2. Goes(x) /\ Down(x) \in Live /\ y \in Walk(Down(x)) /\ Down(x) = <<d, rest>>
  <2>1. Goes(x) /\ Down(x) \in Live /\ y \in Walk(Down(x))
    <3> HIDE DEF x
    <3> QED BY WalkStep DEF x
  <2> QED BY <1>1, <2>1 DEF Down
<1>3. /\ r # {} /\ n \in Node /\ r \in SUBSET Bits /\ CellOf(x) = <<n, SlotOf(nodePos[n], Lowest(r))>>
      /\ SlotOf(nodePos[n], Lowest(r)) \in Slot /\ d # NoNode
  BY <1>1, <1>2, LiveFacts DEF Goes, CellOf
<1>4. Lowest(r) \in r /\ \A p \in r : Lowest(r) <= p
  BY <1>3, LowestBit
<1>5. nodePos[n] \in Pos
  BY <1>3 DEF Shape, TypeOK, Pos
<1> HIDE DEF d, rest
<1>6. d \in Node /\ rest \in SUBSET Bits
  <2>1. <<d, rest>>[1] = d /\ <<d, rest>>[2] = rest
    OBVIOUS
  <2> QED BY <1>2, <2>1, LiveFacts
<1>7. rest # {}
  <2> SUFFICES ASSUME rest = {}
               PROVE  FALSE
    OBVIOUS
  <2>1. y # <<d, rest>>
    OBVIOUS
  <2>2. Goes(<<d, rest>>)
    BY <1>2, <2>1, WalkStep
  <2> QED BY <2>2 DEF Goes
<1>8. Continues(y, n, r, d, SlotOf(nodePos[n], Lowest(r)), rest)
  BY <1>2, <1>3, <1>6, <1>7 DEF d, rest, Continues
<1> QED BY <1>3, <1>4, <1>5, <1>8

\* A search that enters a node scans the slot of the walk's lowest position.
LEMMA EnterScans ==
    ASSUME Shape, NEW y \in Live, NEW c, y[2] # {}, c = CellOf(y), NEW rem, y[2] \subseteq rem
    PROVE  c[2] \in SlotsOf(nodePos[y[1]], rem)
<1>1. Lowest(y[2]) \in y[2] /\ c[2] = SlotOf(nodePos[y[1]], Lowest(y[2]))
  BY LiveFacts DEF CellOf
<1> QED BY <1>1 DEF SlotsOf

LEMMA QuietComes ==
    ASSUME Shape, NEW s \in Searchers,
           Count(s) \/ (\E to \in {"count", "add"} :
                          \E from \in {"countLock", "addLock"} :
                             /\ <<from, to>> \in {<<"countLock", "count">>, <<"addLock", "add">>}
                             /\ SLockList(s, from, to)),
           NEW m, NEW y, NEW c, NEW j, NEW k, NEW n, NEW r,
           Due(m, y, c, j), Comes(s, y, c, j, k, n, r)
    PROVE  Comes(s, y, c, j, k, n, r)'
<1>0. /\ spc \in [Searchers -> {"idle", "countLock", "count", "elem", "mark",
                                "addLock", "add", "kids"}]
      /\ at \in [Searchers -> Nat] /\ count \in [Searchers -> Nat]
  BY DEF Shape, TypeOK
<1>1. UNCHANGED <<treeVars, ptrList, stack, scan>> /\ Walk(<<n, r>>)' = Walk(<<n, r>>)
  BY WalkSame DEF Count, SLockList, scanVars
<1>2. ASSUME Scans(s, c[2], j), k = 1, y = <<n, r>>
      PROVE  Scans(s, c[2], j)'
  <2>1. CASE Count(s)
    <3>1. spc[s] = "count" /\ spc'[s] = "elem" /\ count'[s] = Len(ptrList[SCell(s)]) /\ at'[s] = 1
      BY <1>0, <2>1 DEF Count, SGoto
    <3>2. ASSUME c[2] = Lowest(scan[s])
          PROVE  1 <= j /\ j <= Len(ptrList[SCell(s)])
      <4>1. stack[s] # <<>> /\ Head(stack[s]) = stack[s][1]
        BY <3>1, SearcherFacts, StackTail
      <4>2. c[1] = n
        BY <1>2 DEF Due, CellOf
      <4>3. c = <<c[1], c[2]>>
        BY DEF Due, Cell
      <4>4. c = SCell(s)
        BY <1>2, <3>2, <4>1, <4>2, <4>3 DEF Comes, SCell
      <4>5. j \in 1 .. Len(ptrList[c]) /\ Len(ptrList[c]) \in Nat
        BY DEF Due, StandsAt, StandsIn, Shape, TypeOK
      <4> QED BY <4>4, <4>5
    <3> QED BY <1>1, <1>2, <3>1, <3>2 DEF Scans
  <2>2. CASE ~Count(s)
    <3>1. \/ spc[s] = "countLock" /\ spc'[s] = "count"
          \/ spc[s] = "addLock" /\ spc'[s] = "add"
      BY <1>0, <2>2 DEF SLockList, SGoto
    <3>2. UNCHANGED <<at, count>>
      BY <2>2 DEF SLockList, scanVars
    <3> QED BY <1>1, <1>2, <3>1, <3>2 DEF Scans
  <2> QED BY <2>1, <2>2
<1> QED BY <1>1, <1>2 DEF Comes

\* The element that was due is not passed without being reported.
LEMMA ElemComes ==
    ASSUME Shape, NEW s \in Searchers, Elem(s),
           NEW m \in Meta, sym[m] = {}, squery[s] \subseteq Data[m],
           NEW y, NEW c, NEW j, NEW k, NEW n, NEW r,
           Due(m, y, c, j), Comes(s, y, c, j, k, n, r)
    PROVE  Comes(s, y, c, j, k, n, r)'
<1>0. /\ spc \in [Searchers -> {"idle", "countLock", "count", "elem", "mark",
                                "addLock", "add", "kids"}]
      /\ at \in [Searchers -> Nat] /\ count \in [Searchers -> Nat]
  BY DEF Shape, TypeOK
<1>1. /\ UNCHANGED <<treeVars, ptrList, stack, scan, count>>
      /\ Walk(<<n, r>>)' = Walk(<<n, r>>)
      /\ spc[s] = "elem" /\ spc'[s] \in {"mark", "addLock", "elem"}
  BY <1>0, WalkSame DEF Elem, listVars
<1>2. ASSUME Scans(s, c[2], j), k = 1, y = <<n, r>>
      PROVE  Scans(s, c[2], j)'
  <2>1. ASSUME c[2] = Lowest(scan[s])
        PROVE  at'[s] <= j /\ j <= count[s]
    <3>1. at[s] <= j /\ j <= count[s] /\ j \in Nat /\ at[s] \in Nat
      BY <1>0, <1>1, <1>2, <2>1 DEF Scans, Due
    <3>2. CASE at[s] = j
      <4>1. stack[s] # <<>> /\ Head(stack[s]) = stack[s][1]
        BY <1>1, SearcherFacts, StackTail
      <4>2. c = SCell(s)
        BY <1>2, <2>1, <4>1 DEF Comes, SCell, Due, CellOf, Cell
      <4>3. ptrList[SCell(s)][at[s]] = m
        BY <3>2, <4>2 DEF Due, StandsAt, StandsIn
      <4>4. Found(s, m)
        BY DEF Found, Includes
      <4>5. at' = at
        BY <4>3, <4>4 DEF Elem
      <4> QED BY <3>1, <4>5
    <3>3. CASE at[s] # j
      <4>1. at'[s] \in {at[s], at[s] + 1}
        BY <1>0 DEF Elem
      <4> QED BY <3>1, <3>3, <4>1
    <3> QED BY <3>2, <3>3
  <2> QED BY <1>1, <1>2, <2>1 DEF Scans
<1> QED BY <1>1, <1>2 DEF Comes

LEMMA ReportComes ==
    ASSUME Shape, OfferInv, NEW s \in Searchers, Mark(s) \/ AddRemoveAtomic(s),
           NEW m \in Meta, sym[m] = {},
           NEW y, NEW c, NEW j, NEW k, NEW n, NEW r,
           Due(m, y, c, j), Comes(s, y, c, j, k, n, r)
    PROVE  Comes(s, y, c, j, k, n, r)'
<1>0. /\ spc \in [Searchers -> {"idle", "countLock", "count", "elem", "mark",
                                "addLock", "add", "kids"}]
      /\ at \in [Searchers -> Nat] /\ count \in [Searchers -> Nat]
  BY DEF Shape, TypeOK
<1>1. /\ UNCHANGED <<treeVars, ptrList, stack, scan, count>>
      /\ Walk(<<n, r>>)' = Walk(<<n, r>>)
  BY WalkSame DEF Mark, AddRemoveAtomic, listVars
<1>2. \/ spc[s] = "mark" /\ spc'[s] = "addLock" /\ at' = at
      \/ spc[s] = "add" /\ spc'[s] = "elem" /\ at'[s] = at[s] + 1
  BY <1>0 DEF Mark, AddRemoveAtomic, SGoto
<1>3. ASSUME Scans(s, c[2], j), k = 1, y = <<n, r>>
      PROVE  Scans(s, c[2], j)'
  <2>1. ASSUME c[2] = Lowest(scan[s])
        PROVE  at'[s] <= j /\ j <= count[s]
    <3>1. at[s] <= j /\ j <= count[s] /\ j \in Nat /\ at[s] \in Nat
      BY <1>0, <1>2, <1>3, <2>1 DEF Scans, Due
    <3>2. ASSUME at[s] = j, spc[s] = "add"
          PROVE  FALSE
      <4>1. stack[s] # <<>> /\ Head(stack[s]) = stack[s][1]
        BY <3>2, SearcherFacts, StackTail
      <4>2. c = SCell(s)
        BY <1>3, <2>1, <4>1 DEF Comes, SCell, Due, CellOf, Cell
      <4>3. cur[s] = m
        BY <3>2, <4>2 DEF Due, StandsAt, StandsIn, OfferInv, ReportInv
      <4> QED BY <3>2, <4>3 DEF OfferInv, ReportInv
    <3> QED BY <1>2, <3>1, <3>2
  <2> QED BY <1>1, <1>2, <1>3, <2>1 DEF Scans
<1> QED BY <1>1, <1>3 DEF Comes

LEMMA NextSlotComes ==
    ASSUME Shape, NEW s \in Searchers, NextSlot(s),
           NEW m, NEW y, NEW c, NEW j, NEW k, NEW n, NEW r,
           Due(m, y, c, j), Comes(s, y, c, j, k, n, r)
    PROVE  Comes(s, y, c, j, k, n, r)'
<1>0. /\ spc \in [Searchers -> {"idle", "countLock", "count", "elem", "mark",
                                "addLock", "add", "kids"}]
      /\ at \in [Searchers -> Nat] /\ count \in [Searchers -> Nat]
      /\ scan \in [Searchers -> SUBSET Slot]
  BY DEF Shape, TypeOK
<1> DEFINE left == scan[s] \ {Lowest(scan[s])}
<1>1. /\ UNCHANGED <<treeVars, stack>> /\ Walk(<<n, r>>)' = Walk(<<n, r>>)
      /\ spc[s] = "elem" /\ at[s] > count[s] /\ scan'[s] = left
      /\ spc'[s] = IF left = {} THEN "kids" ELSE "countLock"
  BY <1>0, WalkSame DEF NextSlot
<1>2. ASSUME Scans(s, c[2], j), k = 1, y = <<n, r>>
      PROVE  Scans(s, c[2], j)'
  <2>1. c[2] # Lowest(scan[s])
    BY <1>0, <1>1, <1>2 DEF Scans, Due
  <2>2. c[2] \in left
    BY <1>2, <2>1 DEF Scans
  <2>3. spc'[s] = "countLock" /\ c[2] \in scan'[s]
    BY <1>1, <2>2
  <2> QED BY <2>3 DEF Scans
<1> QED BY <1>1, <1>2 DEF Comes

LEMMA NearChildComes ==
    ASSUME Shape, NEW s \in Searchers, NearChild(s),
           NEW m, NEW y, NEW c, NEW j, NEW k, NEW n, NEW r,
           Due(m, y, c, j), Comes(s, y, c, j, k, n, r)
    PROVE  \E l, o, q : Comes(s, y, c, j, l, o, q)'
<1> DEFINE f == Head(stack[s])
           p == Lowest(f.rem)
           rest == f.rem \ {p}
           child == children[<<f.node, SlotOf(nodePos[f.node], p)>>]
           back == [f EXCEPT !.rem = rest]
           below == <<back>> \o Tail(stack[s])
           calls == child # NoNode /\ rest # {}
<1>0. /\ stack \in [Searchers -> Seq(Frame)] /\ spc[s] = "kids" /\ f.rem # {}
      /\ scan \in [Searchers -> SUBSET Slot]
      /\ spc \in [Searchers -> {"idle", "countLock", "count", "elem", "mark",
                                "addLock", "add", "kids"}]
  BY DEF Shape, TypeOK, NearChild
<1>1. /\ UNCHANGED treeVars /\ \A x : Walk(x)' = Walk(x)
      /\ ~calls => stack' = [stack EXCEPT ![s] = below] /\ UNCHANGED <<spc, scan>>
      /\ calls => /\ spc'[s] = "countLock"
                  /\ stack' = [stack EXCEPT ![s] = <<[node |-> child, rem |-> rest]>> \o below]
                  /\ scan' = [scan EXCEPT ![s] = SlotsOf(nodePos[child], rest)]
  BY <1>0, WalkSame DEF NearChild, Call
<1>2. /\ stack[s] \in Seq(Frame) /\ stack[s] # <<>> /\ f \in Frame /\ f = stack[s][1]
      /\ Len(Tail(stack[s])) = Len(stack[s]) - 1 /\ Len(stack[s]) \in Nat \ {0}
      /\ \A i \in 1 .. Len(stack[s]) - 1 : Tail(stack[s])[i] = stack[s][i + 1]
      /\ Tail(stack[s]) \in Seq(Frame)
  BY <1>0, SearcherFacts, StackTail
<1>3. <<n, r>> \in Live /\ n \in Node /\ r \in SUBSET Bits /\ stack[s][k].rem \in SUBSET Bits
  BY FrameLive DEF Comes
<1>4. /\ back \in Frame /\ back.node = f.node /\ back.rem = rest /\ rest \in SUBSET Bits
      /\ f.rem \in SUBSET Bits /\ f.node \in Node
      /\ child \in Node \cup {NoNode}
  <2>1. /\ back \in Frame /\ back.node = f.node /\ back.rem = rest /\ rest \in SUBSET Bits
        /\ f.rem \in SUBSET Bits /\ f.node \in Node
    BY <1>2 DEF Frame
  <2>2. nodePos[f.node] \in Pos /\ \A x \in f.rem : x > nodePos[f.node]
    BY <1>0, SearcherFacts
  <2> HIDE DEF f
  <2>3. SlotOf(nodePos[f.node], p) \in Slot
    BY <1>0, <2>1, <2>2, RestAhead
  <2>4. child \in Node \cup {NoNode}
    BY <2>1, <2>3 DEF Shape, TypeOK, Cell
  <2> QED BY <2>1, <2>4
<1> HIDE DEF f, p, rest, child, back
<1>5. /\ below \in Seq(Frame) /\ Len(below) = Len(stack[s]) /\ below[1] = back
      /\ \A i \in 1 .. Len(stack[s]) : i # 1 => below[i] = stack[s][i]
  <2>1. /\ below \in Seq(Frame) /\ Len(below) = Len(stack[s]) /\ below[1] = back
        /\ \A i \in 1 .. Len(Tail(stack[s])) : below[i + 1] = Tail(stack[s])[i]
    BY <1>2, <1>4, StackCons
  <2>2. ASSUME NEW i \in 1 .. Len(stack[s]), i # 1
        PROVE  below[i] = stack[s][i]
    <3>1. i - 1 \in 1 .. Len(stack[s]) - 1 /\ i - 1 + 1 = i
      BY <1>2, <2>2
    <3> QED BY <1>2, <2>1, <3>1
  <2> QED BY <2>1, <2>2
<1> HIDE DEF below
<1>6. y # <<n, r>> /\ k \in 1 .. Len(stack[s]) /\ n = stack[s][k].node /\ r \subseteq stack[s][k].rem
      /\ y \in Walk(<<n, r>>)
  BY <1>0 DEF Comes, Scans
\* A frame of below is one of the new stack.
<1>7. ASSUME NEW l \in 1 .. Len(below), NEW o, NEW q, o = below[l].node, q \subseteq below[l].rem,
             y \in Walk(<<o, q>>), y # <<o, q>>
      PROVE  \E i : Comes(s, y, c, j, i, o, q)'
  <2>1. CASE ~calls
    <3>1. stack'[s] = below
      BY <1>0, <1>1, <2>1
    <3>2. Comes(s, y, c, j, l, o, q)'
      BY <1>1, <1>7, <3>1 DEF Comes
    <3> QED BY <3>2
  <2>2. CASE calls
    <3> DEFINE g == [node |-> child, rem |-> rest]
    <3>1. stack'[s] = <<g>> \o below
      BY <1>0, <1>1, <2>2
    <3>2. g \in Frame
      <4> QED BY <1>4, <2>2 DEF Frame
    <3> HIDE DEF g
    <3>3. Len(<<g>> \o below) = Len(below) + 1 /\ (<<g>> \o below)[l + 1] = below[l]
          /\ l + 1 \in 1 .. Len(below) + 1
      <4>1. Len(below) \in Nat
        BY <1>2, <1>5
      <4>2. l + 1 \in 1 .. Len(below) + 1
        BY <4>1
      <4> QED BY <1>5, <3>2, <4>2, StackCons
    <3>4. Comes(s, y, c, j, l + 1, o, q)'
      BY <1>1, <1>7, <3>1, <3>3 DEF Comes
    <3> QED BY <3>4
  <2> QED BY <2>1, <2>2
<1>8. CASE k # 1
  <2>1. below[k] = stack[s][k] /\ k \in 1 .. Len(below)
    BY <1>5, <1>6, <1>8
  <2> QED BY <1>6, <1>7, <2>1
<1>9. CASE k = 1 /\ p \notin r
  <2>1. r \subseteq rest /\ n = f.node /\ 1 \in 1 .. Len(below)
    BY <1>2, <1>5, <1>6, <1>9 DEF rest
  <2> QED BY <1>4, <1>5, <1>6, <1>7, <2>1
<1>10. CASE k = 1 /\ p \in r
  <2>0. y[2] # {}
    BY DEF Due
  <2>1. /\ Lowest(r) \in r /\ \A x \in r : Lowest(r) <= x
        /\ \E d, slot, left : Continues(y, n, r, d, slot, left)
    BY <1>3, <1>6, <2>0, NextOnWalk
  <2>2. Lowest(r) = p
    <3>1. p \in f.rem /\ \A x \in f.rem : x \in Nat /\ p <= x
      BY <1>0, <1>4, LowestBit DEF p
    <3>2. r \subseteq f.rem
      BY <1>2, <1>6, <1>10
    <3>3. Lowest(r) <= p /\ p <= Lowest(r) /\ Lowest(r) \in Nat /\ p \in Nat
      BY <1>10, <2>1, <3>1, <3>2
    <3> QED BY <3>3
  <2>3. PICK d, slot, left : Continues(y, n, r, d, slot, left)
    BY <2>1
  <2>4. d = child /\ left \subseteq rest /\ calls
    <3>1. n = f.node /\ r \subseteq f.rem
      BY <1>2, <1>6, <1>10
    <3> QED BY <2>2, <2>3, <3>1 DEF child, rest, Continues
  <2> DEFINE g == [node |-> child, rem |-> rest]
  <2>5. stack'[s] = <<g>> \o below /\ scan'[s] = SlotsOf(nodePos[child], rest) /\ spc'[s] = "countLock"
    BY <1>0, <1>1, <2>4
  <2>6. g \in Frame /\ g.node = child /\ g.rem = rest
    BY <1>4, <2>3, <2>4 DEF Frame, Continues
  <2> HIDE DEF g
  <2>7. (<<g>> \o below)[1] = g /\ 1 \in 1 .. Len(<<g>> \o below)
    BY <1>5, <2>6, StackCons
  <2>8. ASSUME y = <<d, left>>
        PROVE  c[2] \in SlotsOf(nodePos[child], rest)
    <3>1. y[1] = d /\ y[2] = left
      BY <2>8
    <3>2. y \in Live /\ y[2] # {} /\ c = CellOf(y)
      BY DEF Due
    <3> QED BY <2>4, <3>1, <3>2, EnterScans
  <2>9. Comes(s, y, c, j, 1, d, left)'
    BY <1>1, <2>3, <2>4, <2>5, <2>6, <2>7, <2>8 DEF Comes, Scans, Continues
  <2> QED BY <2>9
<1> QED BY <1>8, <1>9, <1>10

\* The far positions all have the tail slot.
LEMMA FarTail ==
    ASSUME NEW pos \in Pos, NEW rem \in SUBSET Bits, rem # {}, ~IsNear(pos, Lowest(rem)),
           NEW p \in rem
    PROVE  SlotOf(pos, p) = TailSlot
<1>1. Lowest(rem) \in Nat /\ p \in Nat /\ Lowest(rem) <= p /\ pos \in Int /\ MaxFout \in Nat
  BY LowestBit, GeometryAssumption DEF Pos, PosNan, Bits
<1> QED BY <1>1 DEF IsNear, SlotOf

LEMMA TailChildComes ==
    ASSUME Shape, NEW s \in Searchers, TailChild(s),
           NEW m, NEW y, NEW c, NEW j, NEW k, NEW n, NEW r,
           Due(m, y, c, j), Comes(s, y, c, j, k, n, r)
    PROVE  \E l, o, q : Comes(s, y, c, j, l, o, q)'
<1> DEFINE f == Head(stack[s])
           child == children[<<f.node, TailSlot>>]
           g == [node |-> child, rem |-> f.rem]
           below == Tail(stack[s])
<1>0. /\ stack \in [Searchers -> Seq(Frame)] /\ spc[s] = "kids" /\ f.rem # {}
      /\ ~IsNear(nodePos[f.node], Lowest(f.rem)) /\ child # NoNode
      /\ scan \in [Searchers -> SUBSET Slot]
      /\ spc \in [Searchers -> {"idle", "countLock", "count", "elem", "mark",
                                "addLock", "add", "kids"}]
  BY DEF Shape, TypeOK, TailChild
<1>1. /\ UNCHANGED treeVars /\ \A x : Walk(x)' = Walk(x)
      /\ spc'[s] = "countLock"
      /\ stack'[s] = <<g>> \o below
      /\ scan'[s] = SlotsOf(nodePos[child], f.rem)
  BY <1>0, WalkSame DEF TailChild, Call
<1>2. /\ stack[s] \in Seq(Frame) /\ stack[s] # <<>> /\ f \in Frame /\ f = stack[s][1]
      /\ Len(below) = Len(stack[s]) - 1 /\ Len(stack[s]) \in Nat \ {0}
      /\ \A i \in 1 .. Len(stack[s]) - 1 : below[i] = stack[s][i + 1]
      /\ below \in Seq(Frame)
  BY <1>0, SearcherFacts, StackTail
<1>3. <<n, r>> \in Live /\ n \in Node /\ r \in SUBSET Bits
  BY FrameLive DEF Comes
<1>4. f.rem \in SUBSET Bits /\ f.node \in Node /\ nodePos[f.node] \in Pos /\ child \in Node
      /\ g \in Frame /\ g.node = child /\ g.rem = f.rem
  <2>1. f.rem \in SUBSET Bits /\ f.node \in Node
    BY <1>2 DEF Frame
  <2>2. nodePos[f.node] \in Pos
    BY <1>0, SearcherFacts
  <2>3. TailSlot \in Slot
    BY GeometryAssumption DEF TailSlot, Slot
  <2>4. child \in Node
    BY <1>0, <2>1, <2>3 DEF Shape, TypeOK, Cell
  <2> QED BY <2>1, <2>2, <2>4 DEF Frame
<1> HIDE DEF f, child, g, below
<1>5. /\ Len(<<g>> \o below) = Len(stack[s]) /\ (<<g>> \o below)[1] = g
      /\ \A i \in 1 .. Len(stack[s]) : i # 1 => (<<g>> \o below)[i] = stack[s][i]
  <2>1. /\ Len(<<g>> \o below) = Len(stack[s]) /\ (<<g>> \o below)[1] = g
        /\ \A i \in 1 .. Len(below) : (<<g>> \o below)[i + 1] = below[i]
    BY <1>2, <1>4, StackCons
  <2>2. ASSUME NEW i \in 1 .. Len(stack[s]), i # 1
        PROVE  (<<g>> \o below)[i] = stack[s][i]
    <3>1. i - 1 \in 1 .. Len(stack[s]) - 1 /\ i - 1 + 1 = i
      BY <1>2, <2>2
    <3> QED BY <1>2, <2>1, <3>1
  <2> QED BY <2>1, <2>2
<1>6. y # <<n, r>> /\ k \in 1 .. Len(stack[s]) /\ n = stack[s][k].node /\ r \subseteq stack[s][k].rem
      /\ y \in Walk(<<n, r>>)
  BY <1>0 DEF Comes, Scans
<1>7. CASE k # 1
  <2>1. Comes(s, y, c, j, k, n, r)'
    BY <1>1, <1>5, <1>6, <1>7 DEF Comes
  <2> QED BY <2>1
<1>8. CASE k = 1
  <2>0. y[2] # {}
    BY DEF Due
  <2>1. /\ Lowest(r) \in r /\ nodePos[n] \in Pos
        /\ \E d, slot, left : Continues(y, n, r, d, slot, left)
    BY <1>3, <1>6, <2>0, NextOnWalk
  <2>2. PICK d, slot, left : Continues(y, n, r, d, slot, left)
    BY <2>1
  <2>3. n = f.node /\ r \subseteq f.rem
    BY <1>2, <1>6, <1>8
  <2>4. d = child /\ left \subseteq f.rem
    <3>1. slot = TailSlot
      BY <1>0, <1>4, <2>1, <2>2, <2>3, FarTail DEF Continues
    <3> QED BY <2>2, <2>3, <3>1 DEF child, Continues
  <2>5. ASSUME y = <<d, left>>
        PROVE  c[2] \in SlotsOf(nodePos[child], f.rem)
    <3>1. y[1] = d /\ y[2] = left
      BY <2>5
    <3>2. y \in Live /\ y[2] # {} /\ c = CellOf(y)
      BY DEF Due
    <3> QED BY <2>4, <3>1, <3>2, EnterScans
  <2>6. 1 \in 1 .. Len(<<g>> \o below)
    BY <1>2, <1>5
  <2>7. Comes(s, y, c, j, 1, d, left)'
    BY <1>1, <1>4, <1>5, <2>2, <2>4, <2>5, <2>6 DEF Comes, Scans, Continues
  <2> QED BY <2>7
<1> QED BY <1>7, <1>8

\* What is due is due to an activation below the one that ends.
LEMMA NodeReturnComes ==
    ASSUME Shape, NEW s \in Searchers, NodeReturn(s),
           NEW m, NEW y, NEW c, NEW j, NEW k, NEW n, NEW r,
           Due(m, y, c, j), Comes(s, y, c, j, k, n, r)
    PROVE  k # 1 /\ Comes(s, y, c, j, k - 1, n, r)'
<1> DEFINE f == Head(stack[s])
<1>0. /\ stack \in [Searchers -> Seq(Frame)] /\ spc[s] = "kids"
      /\ f.rem # {} => /\ ~IsNear(nodePos[f.node], Lowest(f.rem))
                       /\ children[<<f.node, TailSlot>>] = NoNode
      /\ UNCHANGED treeVars /\ Walk(<<n, r>>)' = Walk(<<n, r>>)
      /\ stack'[s] = Tail(stack[s])
  BY WalkSame DEF Shape, TypeOK, NodeReturn, SGoto
<1>1. /\ stack[s] \in Seq(Frame) /\ stack[s] # <<>> /\ f \in Frame /\ f = stack[s][1]
      /\ Len(Tail(stack[s])) = Len(stack[s]) - 1 /\ Len(stack[s]) \in Nat \ {0}
      /\ \A i \in 1 .. Len(stack[s]) - 1 : Tail(stack[s])[i] = stack[s][i + 1]
  BY <1>0, SearcherFacts, StackTail
<1>2. y # <<n, r>> /\ k \in 1 .. Len(stack[s]) /\ n = stack[s][k].node /\ r \subseteq stack[s][k].rem
      /\ y \in Walk(<<n, r>>)
  BY <1>0 DEF Comes, Scans
<1>3. <<n, r>> \in Live /\ n \in Node /\ r \in SUBSET Bits
  BY FrameLive DEF Comes
<1>4. ASSUME k = 1
      PROVE  FALSE
  <2>0. y[2] # {}
    BY DEF Due
  <2>1. /\ Lowest(r) \in r /\ nodePos[n] \in Pos
        /\ \E d, slot, left : Continues(y, n, r, d, slot, left)
    BY <1>2, <1>3, <2>0, NextOnWalk
  <2>2. n = f.node /\ r \subseteq f.rem /\ f.rem \in SUBSET Bits
    BY <1>1, <1>2, <1>4 DEF Frame
  <2> HIDE DEF f
  <2>3. SlotOf(nodePos[n], Lowest(r)) = TailSlot
    BY <1>0, <2>1, <2>2, FarTail
  <2> QED BY <1>0, <2>1, <2>2, <2>3 DEF Continues
<1>5. k - 1 \in 1 .. Len(stack[s]) - 1 /\ k - 1 + 1 = k
  BY <1>1, <1>2, <1>4
<1>6. Tail(stack[s])[k - 1] = stack[s][k] /\ k - 1 \in 1 .. Len(Tail(stack[s]))
  BY <1>1, <1>5
<1> QED BY <1>0, <1>2, <1>4, <1>6 DEF Comes

\* A new search owes what is stored, and that lies ahead of it.
LEMMA SearchOwes ==
    ASSUME Shape, PathInv, HaveZeros, NEW s \in Searchers, NEW q \in Queries, Search(s, q)
    PROVE  Owes(s)'
<1>0. /\ stack \in [Searchers -> Seq(Frame)] /\ scan \in [Searchers -> SUBSET Slot]
      /\ spc \in [Searchers -> {"idle", "countLock", "count", "elem", "mark",
                                "addLock", "add", "kids"}]
      /\ squery \in [Searchers -> SUBSET Bits]
      /\ owed \in [Searchers -> SUBSET Meta] /\ inserted \in SUBSET Meta
      /\ q \in SUBSET Bits
  BY TrieAssumption DEF Shape, TypeOK
<1>1. /\ owed'[s] = {m \in inserted : sym[m] = {} /\ Includes(Data[m], q)}
      /\ UNCHANGED <<treeVars, ptrList, sym>>
  BY <1>0 DEF Search, listVars
<1> SUFFICES ASSUME NEW m \in owed'[s], sym'[m] = {}
             PROVE  squery'[s] \subseteq Data[m] /\ Ahead(s, m)'
  BY DEF Owes
<1>2. m \in Meta /\ m \in inserted /\ sym[m] = {} /\ q \subseteq Data[m]
  BY <1>0, <1>1 DEF Includes
<1>3. Zeros(Data[m]) \subseteq Zeros(q) /\ Zeros(Data[m]) # {} /\ Zeros(Data[m]) \in SUBSET Bits
  BY <1>2 DEF Zeros, HaveZeros
<1> DEFINE f == [node |-> Root, rem |-> Zeros(q)]
<1>4. /\ spc'[s] = "countLock" /\ squery'[s] = q
      /\ stack'[s] = <<f>> \o <<>>
      /\ scan'[s] = SlotsOf(nodePos[Root], Zeros(q))
  <2>1. Zeros(q) # {}
    BY <1>3
  <2> QED BY <1>0, <2>1 DEF Search, SGoto, Call
<1>5. f \in Frame /\ f.node = Root /\ f.rem = Zeros(q)
  BY RootIsNode DEF Frame, Zeros
<1> HIDE DEF f
<1>6. stack'[s][1] = f /\ 1 \in 1 .. Len(stack'[s])
  BY <1>4, <1>5
<1>7. PICK y \in Walk(Start(m)), j \in Nat : y[2] # {} /\ StandsAt(CellOf(y), j, m)
  BY <1>2 DEF PathInv, Stored
<1>8. PICK c : c = CellOf(y)
  OBVIOUS
<1>9. y \in Live /\ c \in Cell /\ StandsAt(c, j, m)
  BY <1>7, <1>8, LiveFacts DEF Walk
<1>10. Due(m, y, c, j)'
  BY <1>1, <1>7, <1>8, <1>9 DEF Due, StandsAt, StandsIn, Live, CellOf, treeVars
<1>11. PICK r : r = Zeros(Data[m])
  OBVIOUS
<1>12. PICK n : n = Root
  OBVIOUS
<1>13. y \in Walk(<<n, r>>)'
  <2>1. y \in Walk(<<n, r>>)
    BY <1>7, <1>11, <1>12 DEF Start
  <2> QED BY <1>1, <2>1, WalkSame
<1>14. ASSUME y = <<n, r>>
       PROVE  Scans(s, c[2], j)'
  <2>1. y[1] = Root /\ y[2] = r
    BY <1>12, <1>14
  <2>2. c[2] \in SlotsOf(nodePos[Root], Zeros(q))
    BY <1>3, <1>7, <1>8, <1>9, <1>11, <2>1, EnterScans
  <2> QED BY <1>4, <2>2 DEF Scans
<1>15. Comes(s, y, c, j, 1, n, r)'
  BY <1>3, <1>5, <1>6, <1>11, <1>12, <1>13, <1>14 DEF Comes
<1> QED BY <1>2, <1>4, <1>10, <1>15 DEF Ahead

\* A step of a running search.
LEMMA SearcherOwes ==
    ASSUME Shape, OfferInv, [Next]_vars, NEW s \in Searchers, Owes(s), SearcherStep(s)
    PROVE  Owes(s)'
<1>1. /\ UNCHANGED <<treeVars, ptrList, owed>>
      /\ ~NodeReturn(s) => squery' = squery
  BY DEF SearcherStep, SLockList, Count, Elem, Mark, AddRemoveAtomic, NextSlot, NearChild,
         TailChild, NodeReturn, listVars, callVars
<1>2. ASSUME NEW m \in Meta, NEW y, NEW c, NEW j, NEW k, NEW n, NEW r,
             sym[m] = {}, sym'[m] = {}, squery[s] \subseteq Data[m],
             Due(m, y, c, j), Comes(s, y, c, j, k, n, r)
      PROVE  \E l, o, q : Comes(s, y, c, j, l, o, q)'
  <2>1. CASE SLockList(s, "countLock", "count") \/ SLockList(s, "addLock", "add") \/ Count(s)
    <3>1. Comes(s, y, c, j, k, n, r)'
      BY <1>2, <2>1, QuietComes
    <3> QED BY <3>1
  <2>2. CASE Elem(s)
    <3>1. Comes(s, y, c, j, k, n, r)'
      BY <1>2, <2>2, ElemComes
    <3> QED BY <3>1
  <2>3. CASE Mark(s) \/ AddRemoveAtomic(s)
    <3>1. Comes(s, y, c, j, k, n, r)'
      BY <1>2, <2>3, ReportComes
    <3> QED BY <3>1
  <2>4. CASE NextSlot(s)
    <3>1. Comes(s, y, c, j, k, n, r)'
      BY <1>2, <2>4, NextSlotComes
    <3> QED BY <3>1
  <2>5. CASE NearChild(s)
    BY <1>2, <2>5, NearChildComes
  <2>6. CASE TailChild(s)
    BY <1>2, <2>6, TailChildComes
  <2>7. CASE NodeReturn(s)
    <3>1. Comes(s, y, c, j, k - 1, n, r)'
      BY <1>2, <2>7, NodeReturnComes
    <3> QED BY <3>1
  <2> QED BY <2>1, <2>2, <2>3, <2>4, <2>5, <2>6, <2>7 DEF SearcherStep
<1>3. squery'[s] \subseteq squery[s]
  <2>1. squery \in [Searchers -> SUBSET Bits]
    BY DEF Shape, TypeOK
  <2>2. CASE NodeReturn(s)
    BY <2>1, <2>2 DEF NodeReturn
  <2> QED BY <1>1, <2>2
<1> QED BY <1>1, <1>2, <1>3, OwesStep

LEMMA OwedInvNext ==
    ASSUME Shape, OfferInv, PathInv, OwedInv, OneSearcher, HaveZeros, [Next]_vars
    PROVE  OwedInv'
<1> SUFFICES ASSUME NEW s \in Searchers
             PROVE  Owes(s)'
  BY DEF OwedInv
<1>1. Owes(s) /\ ParentInv
  BY DEF OwedInv, PathInv
<1>2. ASSUME NEW i \in Inserters, InserterStep(i) \/ \E m \in Meta : Insert2(i, m)
      PROVE  UNCHANGED <<spc, squery, stack, scan, at, count, owed>>
  BY <1>2, InserterCases, WalkFacts, ReturnFacts DEF Insert2, searchVars, scanVars, callVars
<1>3. ASSUME (\E m \in Meta : ClientDelete(m)) \/ Rest \/ UNCHANGED vars
      PROVE  UNCHANGED <<spc, squery, stack, scan, at, count, owed>>
  BY <1>3 DEF ClientDelete, Rest, vars, searchVars, scanVars, callVars
<1>4. ASSUME NEW t \in Searchers, SearcherStep(t) \/ \E q \in Queries : Search(t, q)
      PROVE  Owes(s)'
  <2>1. t = s
    BY DEF OneSearcher
  <2> QED BY <1>1, <1>4, <2>1, SearcherOwes, SearchOwes
<1> QED BY <1>1, <1>2, <1>3, <1>4, OwesKept DEF Next

\* A search that has ended has left nothing behind that was in the index when it
\* began and includes the query, although an insertion went on beside it: with one
\* thread of each kind (Search, SearchPtrList, Insert2, AddRemoveAtomic).
THEOREM SearchesComplete ==
    ASSUME OneInserter, OneSearcher, HaveZeros
    PROVE  Spec /\ []Fit => []SearchComplete
<1>1. Init => ListInv /\ OfferInv /\ PathInv /\ OwedInv
  BY ListInvInit, OfferInvInit, PathInvInit, OwedInvInit
<1>2. Shape /\ ListInv /\ OfferInv /\ PathInv /\ OwedInv /\ Fit /\ [Next]_vars
        => (ListInv /\ OfferInv /\ PathInv /\ OwedInv)'
  BY ListInvNext, OfferInvNext, PathInvNext, OwedInvNext
<1>3. Shape /\ OwedInv => SearchComplete
  BY OwedSound
<1> QED BY <1>1, <1>2, <1>3, ShapeInvariant, PTL DEF Spec

-----------------------------------------------------------------------------
(* The refinement of SignatureIndex *)

Findable == {m \in inserted : sym[m] = {}}
Running == {s \in Searchers : spc[s] # "idle"}
Owing == [s \in Searchers |-> IF spc[s] = "idle" THEN {} ELSE owed[s]]
Lists == [s \in Searchers |-> Handed(s)]

\* What a search reports was in the index while it ran, includes the query and
\* was in nobody's list.
Reports(s) ==
    /\ spc[s] # "idle" => Findable \subseteq seen[s]
    /\ hit[s] => spc[s] \in {"addLock", "add"}
    /\ spc[s] = "mark" => cur[s] \in seen[s] /\ squery[s] \subseteq Data[cur[s]]
    /\ \A k \in 1 .. Len(removedQuery[s]) : "REMOVED" \in sym[removedQuery[s][k]]

SeenInv == \A s \in Searchers : Reports(s)

LEMMA SeenInvInit == Init => SeenInv
<1> SUFFICES ASSUME Init, NEW s \in Searchers
             PROVE  Reports(s)
  BY DEF SeenInv
<1>1. spc[s] = "idle" /\ hit[s] = FALSE /\ removedQuery[s] = <<>>
  BY DEF Init
<1> QED BY <1>1 DEF Reports

\* Steps that report nothing and make nothing findable but what is seen.
LEMMA QuietReports ==
    ASSUME NEW s \in Searchers, Reports(s), UNCHANGED <<hit, cur, squery, removedQuery>>,
           spc'[s] # "idle" => Findable' \subseteq seen'[s],
           hit[s] => spc'[s] \in {"addLock", "add"},
           spc'[s] = "mark" => spc[s] = "mark" /\ seen[s] \subseteq seen'[s],
           \A m : "REMOVED" \in sym[m] => "REMOVED" \in sym'[m]
    PROVE  Reports(s)'
  BY DEF Reports

LEMMA ReturnReports ==
    ASSUME Shape, NEW i \in Inserters, Push(i) \/ Reuse(i), NEW s \in Searchers, Reports(s)
    PROVE  Reports(s)'
<1>1. /\ inserted' = inserted \cup {imeta[i]}
      /\ seen' = [t \in Searchers |-> IF spc[t] = "idle" THEN {} ELSE seen[t] \cup {imeta[i]}]
      /\ UNCHANGED <<sym, spc, hit, cur, squery, removedQuery>>
  BY ReturnFacts DEF searchVars, scanVars, callVars
<1>2. spc[s] # "idle" => Findable' \subseteq seen'[s] /\ seen[s] \subseteq seen'[s]
  BY <1>1 DEF Reports, Findable
<1> QED BY <1>1, <1>2, QuietReports DEF Reports

LEMMA ElemReports ==
    ASSUME Shape, ListInv, NEW s \in Searchers, Elem(s), Reports(s)
    PROVE  Reports(s)'
<1> DEFINE m == ptrList[SCell(s)][at[s]]
<1>0. /\ spc \in [Searchers -> {"idle", "countLock", "count", "elem", "mark",
                                "addLock", "add", "kids"}]
      /\ cur \in [Searchers -> Meta \cup {NoMeta}]
  BY DEF Shape, TypeOK
<1>1. /\ UNCHANGED <<ptrList, sym, inserted, seen, squery, hit, removedQuery>>
      /\ spc[s] = "elem"
      /\ \/ Found(s, m) /\ spc'[s] = "mark" /\ cur'[s] = m
         \/ spc'[s] \in {"addLock", "elem"}
  BY <1>0 DEF Elem, listVars, insVars, callVars
<1>2. ASSUME Found(s, m), cur'[s] = m
      PROVE  cur'[s] \in seen[s] /\ squery[s] \subseteq Data[cur'[s]]
  <2>1. SCell(s) \in Cell /\ at[s] \in 1 .. Len(ptrList[SCell(s)])
    <3>1. SCell(s) \in Cell
      BY <1>1, SearcherFacts
    <3> QED BY <1>1, <3>1 DEF Elem, Shape, TypeOK, SearcherShape, SearcherFits
  <2>2. m \in Meta /\ StandsAt(SCell(s), at[s], m)
    <3>1. ptrList[SCell(s)] \in Seq(Meta)
      BY <2>1 DEF Shape, TypeOK
    <3>2. m \in Meta
      BY <2>1, <3>1
    <3> HIDE DEF m
    <3>3. StandsAt(SCell(s), at[s], m)
      BY <2>1 DEF StandsAt, StandsIn, m
    <3> QED BY <3>2, <3>3
  <2> HIDE DEF m
  <2>3. m \in inserted
    <3>1. at[s] \in Nat
      BY DEF Shape, TypeOK
    <3> QED BY <2>1, <2>2, <3>1 DEF ListInv, ListedInv
  <2>4. m \in Findable
    BY <1>2, <2>3 DEF Findable, Found
  <2> QED BY <1>1, <1>2, <2>4 DEF Reports, Found, Includes
<1> HIDE DEF m
<1>3. Findable' = Findable
  BY <1>1 DEF Findable
<1> QED BY <1>1, <1>2, <1>3 DEF Reports

LEMMA MarkReports ==
    ASSUME Shape, ListInv, OfferInv, NEW s \in Searchers, Mark(s), Reports(s)
    PROVE  /\ Reports(s)'
           /\ Findable' = Findable \ {cur[s]} /\ cur[s] \in Meta /\ cur[s] \in seen[s]
           /\ squery[s] \subseteq Data[cur[s]]
           /\ \A k \in 1 .. Len(removedQuery[s]) : removedQuery[s][k] # cur[s]
<1>0. /\ spc \in [Searchers -> {"idle", "countLock", "count", "elem", "mark",
                                "addLock", "add", "kids"}]
      /\ sym \in [Meta -> SUBSET Flag] /\ inserted \in SUBSET Meta
      /\ removedQuery \in [Searchers -> Seq(Meta)]
  BY DEF Shape, TypeOK
<1>1. /\ UNCHANGED <<inserted, seen, cur, squery, removedQuery>>
      /\ spc[s] = "mark" /\ spc'[s] = "addLock"
  BY <1>0 DEF Mark, SGoto, insVars, callVars
<1>2. PICK old \in {sym[cur[s]], {}} : sym' = [sym EXCEPT ![cur[s]] = old \cup {"INVALID"}]
  BY DEF Mark
<1>3. cur[s] \in Meta /\ "REMOVED" \notin sym[cur[s]]
  BY <1>1 DEF Shape, SearcherShape, SearcherFits, OfferInv, ReportInv
<1>4. sym'[cur[s]] # {} /\ \A m \in Meta : m # cur[s] => sym'[m] = sym[m]
  BY <1>0, <1>2, <1>3
<1>5. Findable' = Findable \ {cur[s]}
  BY <1>0, <1>1, <1>4 DEF Findable
<1>6. \A k \in 1 .. Len(removedQuery[s]) :
         removedQuery[s][k] # cur[s] /\ "REMOVED" \in sym'[removedQuery[s][k]]
  <2> SUFFICES ASSUME NEW k \in 1 .. Len(removedQuery[s])
               PROVE  removedQuery[s][k] # cur[s] /\ "REMOVED" \in sym'[removedQuery[s][k]]
    OBVIOUS
  <2>1. removedQuery[s][k] \in Meta
    <3>1. removedQuery[s] \in Seq(Meta)
      BY <1>0
    <3> QED BY <3>1
  <2>2. "REMOVED" \in sym[removedQuery[s][k]]
    BY DEF Reports
  <2> QED BY <1>3, <1>4, <2>1, <2>2
<1>7. Reports(s)'
  BY <1>1, <1>5, <1>6 DEF Reports
<1> QED BY <1>1, <1>3, <1>5, <1>6, <1>7 DEF Reports

LEMMA AddRemoveAtomicReports ==
    ASSUME Shape, OfferInv, NEW s \in Searchers, AddRemoveAtomic(s), Reports(s)
    PROVE  Reports(s)' /\ Findable' = Findable /\ Handed(s)' = Handed(s)
<1>0. /\ spc \in [Searchers -> {"idle", "countLock", "count", "elem", "mark",
                                "addLock", "add", "kids"}]
      /\ sym \in [Meta -> SUBSET Flag] /\ inserted \in SUBSET Meta
      /\ removedQuery \in [Searchers -> Seq(Meta)] /\ hit \in [Searchers -> BOOLEAN]
      /\ removedQuery[s] \in Seq(Meta)
  BY DEF Shape, TypeOK
<1> DEFINE m == cur[s]
<1>1. /\ UNCHANGED <<inserted, seen, squery>>
      /\ spc[s] = "add" /\ spc'[s] = "elem" /\ hit'[s] = FALSE
      /\ removedQuery'[s] = IF hit[s] THEN Append(removedQuery[s], m) ELSE removedQuery[s]
  BY <1>0 DEF AddRemoveAtomic, SGoto, insVars
<1>2. m \in Meta /\ sym[m] \cap {"DEL", "INVALID"} # {}
  BY <1>1 DEF Shape, SearcherShape, SearcherFits, OfferInv, ReportInv
<1>3. sym' = [sym EXCEPT ![m] = @ \cup {"REMOVED"}]
  BY <1>2 DEF AddRemoveAtomic
<1>4. /\ "REMOVED" \in sym'[m] /\ sym'[m] # {} /\ sym[m] # {}
      /\ \A x \in Meta : x # m => sym'[x] = sym[x]
  BY <1>0, <1>2, <1>3
<1> HIDE DEF m
<1>5. Findable' = Findable
  BY <1>0, <1>1, <1>4 DEF Findable
<1>6. ASSUME NEW k \in 1 .. Len(removedQuery'[s])
      PROVE  "REMOVED" \in sym'[removedQuery'[s][k]]
  <2>1. CASE k \in 1 .. Len(removedQuery[s])
    <3>1. removedQuery'[s][k] = removedQuery[s][k] /\ removedQuery[s][k] \in Meta
      BY <1>0, <1>1, <1>2, <2>1
    <3>2. "REMOVED" \in sym[removedQuery[s][k]]
      BY <2>1 DEF Reports
    <3> QED BY <1>4, <3>1, <3>2
  <2>2. CASE k \notin 1 .. Len(removedQuery[s])
    <3>1. removedQuery'[s][k] = m
      BY <1>0, <1>1, <1>2, <2>2
    <3> QED BY <1>4, <3>1
  <2> QED BY <2>1, <2>2
<1>7. Reports(s)'
  BY <1>1, <1>5, <1>6 DEF Reports
<1>8. Handed(s)' = Handed(s)
  <2>1. Handed(s)' = removedQuery'[s] \o <<>>
    BY <1>1 DEF Handed
  <2>2. CASE hit[s]
    <3>1. Append(removedQuery[s], m) \o <<>> = removedQuery[s] \o <<m>>
      BY <1>0, <1>2
    <3> QED BY <1>1, <2>1, <2>2, <3>1 DEF Handed, m
  <2>3. CASE ~hit[s]
    BY <1>1, <2>1, <2>3 DEF Handed
  <2> QED BY <2>2, <2>3
<1> QED BY <1>5, <1>7, <1>8

LEMMA SeenInvNext ==
    ASSUME Shape, ListInv, OfferInv, SeenInv, OneSearcher, HaveZeros, [Next]_vars
    PROVE  SeenInv'
<1> SUFFICES ASSUME NEW s \in Searchers
             PROVE  Reports(s)'
  BY DEF SeenInv
<1>0. Reports(s) /\ spc \in [Searchers -> {"idle", "countLock", "count", "elem", "mark",
                                           "addLock", "add", "kids"}]
  BY DEF SeenInv, Shape, TypeOK
<1>1. ASSUME NEW i \in Inserters, Walks(i) \/ \E m \in Meta : Insert2(i, m)
      PROVE  Reports(s)'
  <2>1. UNCHANGED <<sym, inserted, seen, spc, hit, cur, squery, removedQuery>>
    BY <1>1, WalkFacts DEF Insert2, HaveZeros, searchVars, scanVars, callVars
  <2> QED BY <1>0, <2>1, QuietReports DEF Reports, Findable
<1>2. ASSUME Wanders(s)
      PROVE  Reports(s)'
  <2>1. UNCHANGED <<sym, inserted, seen, hit, cur, squery, removedQuery>>
    BY <1>2, WanderFacts DEF insVars, callVars
  <2>2. /\ spc[s] # "idle" /\ spc'[s] # "mark"
        /\ hit[s] => spc'[s] \in {"addLock", "add"}
    <3>1. spc[s] # "idle" /\ spc'[s] # "mark"
      BY <1>2, WanderFacts
    <3>2. ASSUME hit[s]
          PROVE  spc'[s] \in {"addLock", "add"}
      <4>1. spc[s] \in {"addLock", "add"}
        BY <1>0, <3>2 DEF Reports
      <4> QED BY <1>0, <1>2, <4>1 DEF Wanders, SLockList, Count, NextSlot, NearChild,
                                      TailChild, SGoto
    <3> QED BY <3>1, <3>2
  <2> QED BY <1>0, <2>1, <2>2, QuietReports DEF Reports, Findable
<1>3. ASSUME NodeReturn(s)
      PROVE  Reports(s)'
  <2>1. /\ UNCHANGED <<sym, inserted, hit, removedQuery>>
        /\ spc[s] = "kids" /\ spc'[s] \in {"idle", "kids"}
        /\ spc'[s] # "idle" => Len(stack[s]) # 1 /\ seen' = [seen EXCEPT ![s] = @]
    BY <1>0, <1>3 DEF NodeReturn, SGoto
  <2>2. spc'[s] # "idle" => seen'[s] = seen[s]
    BY <2>1 DEF Shape, TypeOK
  <2>3. ~hit[s]
    BY <1>0, <2>1 DEF Reports
  <2> QED BY <1>0, <2>1, <2>2, <2>3 DEF Reports, Findable
<1>4. ASSUME NEW q \in Queries, Search(s, q)
      PROVE  Reports(s)'
  <2>1. /\ UNCHANGED <<sym, inserted, hit, removedQuery>> /\ spc[s] = "idle"
        /\ spc'[s] \in {"idle", "countLock"}
        /\ spc'[s] # "idle" => seen'[s] = Findable
    <3>1. seen \in [Searchers -> SUBSET Meta]
      BY DEF Shape, TypeOK
    <3> QED BY <1>0, <1>4, <3>1 DEF Search, SGoto, Call, scanVars, Findable
  <2>2. ~hit[s]
    BY <1>0, <2>1 DEF Reports
  <2> QED BY <1>0, <2>1, <2>2 DEF Reports, Findable
<1>5. ASSUME NEW m \in Meta, ClientDelete(m)
      PROVE  Reports(s)'
  <2>1. /\ UNCHANGED <<inserted, seen, spc, hit, cur, squery, removedQuery>>
        /\ sym[m] = {} /\ sym' = [sym EXCEPT ![m] = {"DEL"}]
    BY <1>5 DEF ClientDelete, insVars, searchVars, scanVars, callVars
  <2>2. sym \in [Meta -> SUBSET Flag] /\ inserted \in SUBSET Meta
    BY DEF Shape, TypeOK
  <2>3. Findable' \subseteq Findable
    BY <2>1, <2>2 DEF Findable
  <2>4. removedQuery[s] \in Seq(Meta)
    BY DEF Shape, TypeOK
  <2>5. \A k \in 1 .. Len(removedQuery[s]) : "REMOVED" \in sym'[removedQuery[s][k]]
    <3> SUFFICES ASSUME NEW k \in 1 .. Len(removedQuery[s])
                 PROVE  "REMOVED" \in sym'[removedQuery[s][k]]
      OBVIOUS
    <3>1. removedQuery[s][k] \in Meta
      BY <2>4
    <3>2. "REMOVED" \in sym[removedQuery[s][k]]
      BY <1>0 DEF Reports
    <3> QED BY <2>1, <2>2, <3>1, <3>2
  <2> QED BY <1>0, <2>1, <2>3, <2>5 DEF Reports
<1>6. ASSUME Rest \/ UNCHANGED vars
      PROVE  Reports(s)'
  <2>1. UNCHANGED <<sym, inserted, seen, spc, hit, cur, squery, removedQuery>>
    BY <1>6 DEF Rest, vars, insVars, searchVars, scanVars, callVars
  <2> QED BY <1>0, <2>1, QuietReports DEF Reports, Findable
<1>7. CASE \E i \in Inserters : InserterStep(i) \/ \E m \in Meta : Insert2(i, m)
  BY <1>0, <1>1, <1>7, ReturnReports, InserterCases
<1>8. CASE \E t \in Searchers : SearcherStep(t) \/ \E q \in Queries : Search(t, q)
  <2>1. SearcherStep(s) \/ \E q \in Queries : Search(s, q)
    BY <1>8 DEF OneSearcher
  <2> QED BY <1>0, <1>2, <1>3, <1>4, <2>1, ElemReports, MarkReports, AddRemoveAtomicReports,
             SearcherCases
<1> QED BY <1>5, <1>6, <1>7, <1>8 DEF Next

\* Steps that the client of an index does not see.
LEMMA Unseen ==
    ASSUME UNCHANGED <<Findable, inserted, squery, Running, Owing, seen, Lists>>
    PROVE  UNCHANGED Promise!vars
  BY DEF Promise!vars, Findable, Running, Owing, Lists

LEMMA QuietUnseen ==
    ASSUME UNCHANGED <<inserted, sym, squery, owed, seen, removedQuery, hit>>,
           \A s \in Searchers : /\ spc'[s] = "idle" <=> spc[s] = "idle"
                                /\ hit[s] => cur'[s] = cur[s]
    PROVE  UNCHANGED Promise!vars
<1>1. \A s \in Searchers : Handed(s)' = Handed(s)
  BY DEF Handed
<1>2. Lists' = Lists
  BY <1>1 DEF Lists
<1>3. Findable' = Findable /\ Running' = Running /\ Owing' = Owing
  BY DEF Findable, Running, Owing
<1> QED BY <1>2, <1>3, Unseen

LEMMA PromiseInit == Init => Promise!Init
<1> SUFFICES ASSUME Init
             PROVE  Promise!Init
  OBVIOUS
<1>1. \A s \in Searchers : Handed(s) = <<>>
  BY DEF Init, Handed
<1>2. /\ {m \in inserted : sym[m] = {}} = {}
      /\ {s \in Searchers : spc[s] # "idle"} = {}
      /\ [s \in Searchers |-> IF spc[s] = "idle" THEN {} ELSE owed[s]] = [s \in Searchers |-> {}]
      /\ [s \in Searchers |-> Handed(s)] = [s \in Searchers |-> <<>>]
  BY <1>1 DEF Init
<1> QED BY <1>2 DEF Init, Promise!Init

LEMMA ReturnPromise ==
    ASSUME Shape, ListInv, OfferInv, NEW i \in Inserters, Push(i) \/ Reuse(i)
    PROVE  \E m \in Meta : Promise!Insert(m)
<1>0. PICK m \in Meta : m = imeta[i]
  BY ReturnFacts
<1>1. /\ inserted' = inserted \cup {m} /\ ipc[i] # "idle"
      /\ seen' = [s \in Searchers |-> IF spc[s] = "idle" THEN {} ELSE seen[s] \cup {m}]
      /\ UNCHANGED <<sym, spc, hit, cur, squery, removedQuery, owed>>
  BY <1>0, ReturnFacts DEF searchVars, scanVars, callVars
<1>2. m \notin inserted /\ sym[m] = {}
  BY <1>0, <1>1 DEF ListInv, TakenInv, OfferInv, NewInv
<1>3. {x \in inserted : sym[x] = {}}' = {x \in inserted : sym[x] = {}} \cup {m}
  BY <1>1, <1>2
<1>4. seen' = [s \in Searchers |-> IF s \in {t \in Searchers : spc[t] # "idle"}
                                   THEN seen[s] \cup {m} ELSE {}]
  BY <1>1
<1>5. /\ {s \in Searchers : spc[s] # "idle"}' = {s \in Searchers : spc[s] # "idle"}
      /\ [s \in Searchers |-> IF spc[s] = "idle" THEN {} ELSE owed[s]]'
            = [s \in Searchers |-> IF spc[s] = "idle" THEN {} ELSE owed[s]]
      /\ [s \in Searchers |-> Handed(s)]' = [s \in Searchers |-> Handed(s)]
  BY <1>1 DEF Handed
<1> QED BY <1>1, <1>2, <1>3, <1>4, <1>5 DEF Promise!Insert

LEMMA ClientDeletePromise ==
    ASSUME Shape, NEW m \in Meta, ClientDelete(m)
    PROVE  Promise!Delete(m)
<1>1. /\ UNCHANGED <<inserted, seen, spc, hit, cur, squery, removedQuery, owed>>
      /\ m \in inserted /\ sym[m] = {} /\ sym' = [sym EXCEPT ![m] = {"DEL"}]
  BY DEF ClientDelete, insVars, searchVars, scanVars, callVars
<1>2. sym \in [Meta -> SUBSET Flag] /\ inserted \in SUBSET Meta
  BY DEF Shape, TypeOK
<1>3. {x \in inserted : sym[x] = {}}' = {x \in inserted : sym[x] = {}} \ {m}
  BY <1>1, <1>2
<1>4. /\ {s \in Searchers : spc[s] # "idle"}' = {s \in Searchers : spc[s] # "idle"}
      /\ [s \in Searchers |-> IF spc[s] = "idle" THEN {} ELSE owed[s]]'
            = [s \in Searchers |-> IF spc[s] = "idle" THEN {} ELSE owed[s]]
      /\ [s \in Searchers |-> Handed(s)]' = [s \in Searchers |-> Handed(s)]
  BY <1>1 DEF Handed
<1> QED BY <1>1, <1>3, <1>4 DEF Promise!Delete

LEMMA SearchPromise ==
    ASSUME Shape, SeenInv, NEW s \in Searchers, NEW q \in Queries, Search(s, q)
    PROVE  Promise!Begin(s, q) \/ UNCHANGED Promise!vars
<1>0. /\ spc \in [Searchers -> {"idle", "countLock", "count", "elem", "mark",
                                "addLock", "add", "kids"}]
      /\ owed \in [Searchers -> SUBSET Meta]
  BY DEF Shape, TypeOK
<1>1. /\ UNCHANGED <<inserted, sym, removedQuery, hit, cur>> /\ spc[s] = "idle"
      /\ owed' = [owed EXCEPT ![s] = {m \in inserted : sym[m] = {} /\ Includes(Data[m], q)}]
  BY DEF Search, SGoto, Call, scanVars
<1>2. \A t \in Searchers : Handed(t)' = Handed(t)
  BY <1>1 DEF Handed
<1>3. CASE Zeros(q) = {}
  <2>1. spc' = spc /\ UNCHANGED <<squery, seen>>
    BY <1>0, <1>3 DEF Search, SGoto
  <2>2. Owing' = Owing
    <3>1. \A t \in Searchers : spc[t] # "idle" => owed'[t] = owed[t]
      BY <1>0, <1>1
    <3> QED BY <2>1, <3>1 DEF Owing
  <2>3. Lists' = Lists /\ Findable' = Findable /\ Running' = Running
    BY <1>1, <1>2, <2>1 DEF Lists, Findable, Running
  <2> QED BY <1>1, <2>1, <2>2, <2>3, Unseen
<1>4. CASE Zeros(q) # {}
  <2>1. /\ spc' = [spc EXCEPT ![s] = "countLock"] /\ squery' = [squery EXCEPT ![s] = q]
        /\ seen' = [seen EXCEPT ![s] = {m \in inserted : sym[m] = {}}]
    BY <1>4 DEF Search, SGoto
  <2>2. \A t \in Searchers : (t # s => spc'[t] = spc[t] /\ owed'[t] = owed[t])
                             /\ spc'[s] # "idle"
                             /\ owed'[s] = {m \in {x \in inserted : sym[x] = {}} : q \subseteq Data[m]}
    BY <1>0, <1>1, <2>1 DEF Includes
  <2>3. Running' = Running \cup {s} /\ s \notin Running
    BY <1>1, <2>2 DEF Running
  <2>4. Owing' = [Owing EXCEPT ![s] = {m \in {x \in inserted : sym[x] = {}} : q \subseteq Data[m]}]
    BY <1>1, <2>2 DEF Owing
  <2>5. Lists' = Lists /\ Findable' = Findable
    BY <1>1, <1>2 DEF Lists, Findable
  <2> QED BY <1>1, <2>1, <2>3, <2>4, <2>5 DEF Promise!Begin, Running, Owing, Lists, Findable
<1> QED BY <1>3, <1>4

LEMMA ConcatOne ==
    ASSUME NEW u \in Seq(Meta), NEW m \in Meta
    PROVE  /\ u \o <<>> = u
           /\ SubSeq(u \o <<m>>, Len(u) + 1, Len(u \o <<m>>)) = <<m>>
<1>1. u \o <<>> = u
  OBVIOUS
<1>2. u \o <<m>> \in Seq(Meta) /\ Len(u \o <<m>>) = Len(u) + 1 /\ (u \o <<m>>)[Len(u) + 1] = m
      /\ Len(u) \in Nat
  OBVIOUS
<1> DEFINE v == u \o <<m>>
           n == Len(u) + 1
<1>3. v \in Seq(Meta) /\ n \in Nat \ {0} /\ v[n] = m /\ Len(v) = n
  BY <1>2
<1> HIDE DEF v, n
<1>4. SubSeq(v, n, n) = <<m>>
  <2>1. n \in Int /\ \A k \in n .. n : v[k] \in Meta /\ v[k] = m
    BY <1>3
  <2>2. /\ SubSeq(v, n, n) \in Seq(Meta)
        /\ Len(SubSeq(v, n, n)) = IF n <= n THEN n - n + 1 ELSE 0
        /\ \A k \in 1 .. n - n + 1 : SubSeq(v, n, n)[k] = v[n + k - 1]
    BY <2>1, SubSeqProperties
  <2>3. n - n + 1 = 1 /\ n + 1 - 1 = n /\ (IF n <= n THEN n - n + 1 ELSE 0) = 1
    BY <2>1
  <2>4. Len(SubSeq(v, n, n)) = 1
    BY <2>2, <2>3, Zenon
  <2>5. SubSeq(v, n, n)[1] = v[n + 1 - 1]
    <3>1. 1 \in 1 .. n - n + 1
      BY <2>3
    <3> QED BY <2>2, <3>1, Zenon
  <2>6. SubSeq(v, n, n)[1] = m
    BY <1>3, <2>3, <2>5, Zenon
  <2> HIDE DEF v, n
  <2>7. \A w \in Seq(Meta) : Len(w) = 1 /\ w[1] = m => w = <<m>>
    OBVIOUS
  <2> QED BY <2>2, <2>4, <2>6, <2>7
<1> QED BY <1>1, <1>3, <1>4 DEF v, n

LEMMA MarkPromise ==
    ASSUME Shape, ListInv, OfferInv, SeenInv, OneSearcher, NEW s \in Searchers, Mark(s)
    PROVE  Promise!Report(s)
<1> DEFINE m == cur[s]
           u == removedQuery[s]
<1>0. /\ spc \in [Searchers -> {"idle", "countLock", "count", "elem", "mark",
                                "addLock", "add", "kids"}]
      /\ hit \in [Searchers -> BOOLEAN] /\ u \in Seq(Meta)
  BY DEF Shape, TypeOK
<1>1. /\ UNCHANGED <<inserted, seen, cur, squery, removedQuery, owed>>
      /\ spc[s] = "mark" /\ spc'[s] = "addLock" /\ hit'[s] = TRUE
  BY <1>0 DEF Mark, SGoto, insVars, callVars
<1>2. /\ Findable' = Findable \ {m} /\ m \in Meta /\ m \in seen[s]
      /\ squery[s] \subseteq Data[m]
      /\ \A k \in 1 .. Len(u) : u[k] # m
  BY MarkReports DEF SeenInv
<1>3. hit[s] = FALSE
  BY <1>0, <1>1 DEF SeenInv, Reports
<1> HIDE DEF m, u
<1>4. u \o <<>> = u /\ SubSeq(u \o <<m>>, Len(u) + 1, Len(u \o <<m>>)) = <<m>>
  BY <1>0, <1>2, ConcatOne
<1>5. Handed(s) = u /\ Handed(s)' = u \o <<m>>
  BY <1>1, <1>3, <1>4 DEF Handed, u, m
<1>6. Lists[s] = u /\ Lists'[s] = u \o <<m>> /\ Lists' = [Lists EXCEPT ![s] = u \o <<m>>]
  BY <1>5 DEF Lists, OneSearcher
<1>7. Promise!Added(s) = <<m>>
  <2>1. SubSeq(Lists'[s], Len(Lists[s]) + 1, Len(Lists'[s])) = <<m>>
    BY <1>4, <1>6
  <2> QED BY <2>1 DEF Promise!Added, Lists
<1>8. Promise!ToSet(<<m>>) = {m} /\ Promise!IsInjective(<<m>>) /\ <<m>> # <<>>
  BY DEF Promise!ToSet, Promise!IsInjective
<1>9. \A t \in Searchers : m \notin Promise!ToSet(Lists[t])
  <2>1. m \notin Promise!ToSet(u)
    BY <1>0, <1>2 DEF Promise!ToSet
  <2> QED BY <1>6, <2>1 DEF OneSearcher
<1>10. Running' = Running /\ Owing' = Owing
  BY <1>1 DEF Running, Owing, OneSearcher
<1>11. s \in Running
  BY <1>1 DEF Running
<1> QED BY <1>1, <1>2, <1>6, <1>7, <1>8, <1>9, <1>10, <1>11
        DEF Promise!Report, Running, Owing, Lists, Findable

LEMMA NodeReturnPromise ==
    ASSUME Shape, OwedInv, SeenInv, NEW s \in Searchers, NodeReturn(s)
    PROVE  Promise!End(s) \/ UNCHANGED Promise!vars
<1>0. /\ spc \in [Searchers -> {"idle", "countLock", "count", "elem", "mark",
                                "addLock", "add", "kids"}]
      /\ squery \in [Searchers -> SUBSET Bits] /\ seen \in [Searchers -> SUBSET Meta]
  BY DEF Shape, TypeOK
<1>1. /\ UNCHANGED <<inserted, sym, removedQuery, hit, cur, owed>> /\ spc[s] = "kids"
      /\ spc' = [spc EXCEPT ![s] = IF Len(stack[s]) = 1 THEN "idle" ELSE "kids"]
      /\ squery' = [squery EXCEPT ![s] = IF Len(stack[s]) = 1 THEN {} ELSE @]
      /\ seen' = [seen EXCEPT ![s] = IF Len(stack[s]) = 1 THEN {} ELSE @]
  BY DEF NodeReturn, SGoto
<1>2. CASE Len(stack[s]) # 1
  <2>1. UNCHANGED <<squery, seen, spc>>
    BY <1>0, <1>1, <1>2
  <2> QED BY <1>1, <2>1, QuietUnseen
<1>3. CASE Len(stack[s]) = 1
  <2>1. ASSUME NEW m \in owed[s], sym[m] = {}
        PROVE  FALSE
    <3>1. Ahead(s, m)
      BY <2>1 DEF OwedInv, Owes
    <3>2. PICK y, c, j, k, n, r : Due(m, y, c, j) /\ Comes(s, y, c, j, k, n, r)
      BY <3>1 DEF Ahead
    <3>3. k # 1
      BY <3>2, NodeReturnComes
    <3>4. k = 1
      BY <1>3, <3>2 DEF Comes
    <3> QED BY <3>3, <3>4
  <2>2. \A t \in Searchers : Handed(t)' = Handed(t)
    BY <1>1 DEF Handed
  <2>3. Lists' = Lists /\ Findable' = Findable
    BY <1>1, <2>2 DEF Lists, Findable
  <2>4. /\ squery' = [squery EXCEPT ![s] = {}] /\ seen' = [seen EXCEPT ![s] = {}]
        /\ spc'[s] = "idle" /\ \A t \in Searchers : t # s => spc'[t] = spc[t]
    BY <1>0, <1>1, <1>3
  <2>5. Running' = Running \ {s} /\ s \in Running
    BY <1>1, <2>4 DEF Running
  <2>6. Owing' = [Owing EXCEPT ![s] = {}] /\ Owing[s] \cap Findable = {}
    BY <1>1, <2>1, <2>4 DEF Owing, Findable
  <2> QED BY <1>1, <2>3, <2>4, <2>5, <2>6 DEF Promise!End, Running, Owing, Lists, Findable
<1> QED BY <1>2, <1>3

LEMMA PromiseNext ==
    ASSUME Shape, ListInv, OfferInv, OwedInv, SeenInv, OneSearcher, HaveZeros, [Next]_vars
    PROVE  [Promise!Next]_(Promise!vars)
<1>0. spc \in [Searchers -> {"idle", "countLock", "count", "elem", "mark",
                             "addLock", "add", "kids"}]
  BY DEF Shape, TypeOK
<1>1. ASSUME NEW i \in Inserters, Push(i) \/ Reuse(i)
      PROVE  Promise!Next
  <2>1. \E m \in Meta : Promise!Insert(m)
    BY <1>1, ReturnPromise
  <2> QED BY <2>1 DEF Promise!Next
<1>2. ASSUME NEW i \in Inserters, Walks(i) \/ \E m \in Meta : Insert2(i, m)
      PROVE  UNCHANGED Promise!vars
  <2>1. UNCHANGED <<inserted, sym, squery, owed, seen, removedQuery, hit, spc, cur>>
    BY <1>2, WalkFacts DEF Insert2, HaveZeros, searchVars, scanVars, callVars
  <2> QED BY <2>1, QuietUnseen
<1>3. ASSUME NEW m \in Meta, ClientDelete(m)
      PROVE  Promise!Next
  BY <1>3, ClientDeletePromise DEF Promise!Next
<1>4. ASSUME NEW s \in Searchers, NEW q \in Queries, Search(s, q)
      PROVE  [Promise!Next]_(Promise!vars)
  <2>1. Promise!Begin(s, q) => Promise!Next
    BY DEF Promise!Next
  <2> QED BY <1>4, <2>1, SearchPromise
<1>5. ASSUME NEW s \in Searchers, Mark(s)
      PROVE  Promise!Next
  BY <1>5, MarkPromise DEF Promise!Next
<1>6. ASSUME NEW s \in Searchers, NodeReturn(s)
      PROVE  [Promise!Next]_(Promise!vars)
  <2>1. Promise!End(s) => Promise!Next
    BY DEF Promise!Next
  <2> QED BY <1>6, <2>1, NodeReturnPromise
<1>7. ASSUME NEW s \in Searchers, Wanders(s)
      PROVE  UNCHANGED Promise!vars
  <2>1. UNCHANGED <<inserted, sym, squery, owed, seen, removedQuery, hit, cur>>
    BY <1>7, WanderFacts DEF insVars, callVars
  <2>2. \A t \in Searchers : spc'[t] = "idle" <=> spc[t] = "idle"
    BY <1>7, WanderFacts
  <2> QED BY <2>1, <2>2, QuietUnseen
<1>8. ASSUME NEW s \in Searchers, Elem(s)
      PROVE  UNCHANGED Promise!vars
  <2>1. /\ UNCHANGED <<inserted, sym, squery, owed, seen, removedQuery, hit>>
        /\ spc[s] = "elem" /\ spc'[s] # "idle"
    BY <1>0, <1>8 DEF Elem, listVars, insVars, callVars
  <2>2. ~hit[s]
    BY <2>1 DEF SeenInv, Reports
  <2>3. \A t \in Searchers : (spc'[t] = "idle" <=> spc[t] = "idle") /\ (hit[t] => cur'[t] = cur[t])
    BY <2>1, <2>2 DEF OneSearcher
  <2> QED BY <2>1, <2>3, QuietUnseen
<1>9. ASSUME NEW s \in Searchers, AddRemoveAtomic(s)
      PROVE  UNCHANGED Promise!vars
  <2>1. UNCHANGED <<inserted, squery, owed, seen>> /\ spc[s] = "add" /\ spc'[s] = "elem"
    BY <1>0, <1>9 DEF AddRemoveAtomic, SGoto, insVars
  <2>2. Findable' = Findable /\ Handed(s)' = Handed(s)
    BY <1>9, AddRemoveAtomicReports DEF SeenInv
  <2>3. Lists' = Lists
    BY <2>2 DEF Lists, OneSearcher
  <2>4. Running' = Running /\ Owing' = Owing
    BY <2>1 DEF Running, Owing, OneSearcher
  <2> QED BY <2>1, <2>2, <2>3, <2>4, Unseen
<1>10. ASSUME Rest \/ UNCHANGED vars
       PROVE  UNCHANGED Promise!vars
  <2>1. UNCHANGED <<inserted, sym, squery, owed, seen, removedQuery, hit, spc, cur>>
    BY <1>10 DEF Rest, vars, insVars, searchVars, scanVars, callVars
  <2> QED BY <2>1, QuietUnseen
<1>11. CASE \E i \in Inserters : InserterStep(i) \/ \E m \in Meta : Insert2(i, m)
  BY <1>1, <1>2, <1>11, InserterCases
<1>12. CASE \E s \in Searchers : SearcherStep(s) \/ \E q \in Queries : Search(s, q)
  BY <1>4, <1>5, <1>6, <1>7, <1>8, <1>9, <1>12, SearcherCases
<1> QED BY <1>3, <1>10, <1>11, <1>12 DEF Next

\* The trie, with its slots, nodes, free lists and locks, implements the index its
\* clients were promised, when one thread inserts and one searches at the same time:
\* a search reports what was in the index when it began, nothing but matches and
\* nothing twice.
THEOREM TrieKeepsPromise ==
    ASSUME OneInserter, OneSearcher, HaveZeros
    PROVE  Spec /\ []Fit => KeepsPromise
<1>1. Init => ListInv /\ OfferInv /\ PathInv /\ OwedInv /\ SeenInv
  BY ListInvInit, OfferInvInit, PathInvInit, OwedInvInit, SeenInvInit
<1>2. Shape /\ ListInv /\ OfferInv /\ PathInv /\ OwedInv /\ SeenInv /\ Fit /\ [Next]_vars
        => (ListInv /\ OfferInv /\ PathInv /\ OwedInv /\ SeenInv)'
  BY ListInvNext, OfferInvNext, PathInvNext, OwedInvNext, SeenInvNext
<1>3. Init => Promise!Init
  BY PromiseInit
<1>4. Shape /\ ListInv /\ OfferInv /\ OwedInv /\ SeenInv /\ [Next]_vars
        => [Promise!Next]_(Promise!vars)
  BY PromiseNext
<1> QED BY <1>1, <1>2, <1>3, <1>4, ShapeInvariant, PTL DEF Spec, KeepsPromise, Promise!Spec

-----------------------------------------------------------------------------
(* The number of signatures *)

\* What GetTotalSize shall count.
Counted == {m \in inserted : "REMOVED" \notin sym[m]}

\* Every node but the root is the child of one made before it.
ReachedInv == \A n \in 2 .. nodeNum : \E p \in 1 .. n - 1, i \in Slot : children[<<p, i>>] = n

\* Nothing stands at a node that was not made.
BlankInv == \A c \in Cell : c[1] \notin 1 .. nodeNum => ptrList[c] = <<>>

\* What has been given back, and stands still, is on offer.
FreedInv ==
    \A c \in Cell, j \in Nat, m \in Meta :
        StandsAt(c, j, m) /\ "REMOVED" \in sym[m] =>
            \E k \in 1 .. Len(removedIdx[c]) : removedIdx[c][k] = j

\* What has not been given back stands somewhere.
KeptInv == \A m \in Counted : \E c \in Cell, j \in Nat : StandsAt(c, j, m)

CountInv == TakenCounted /\ ReachedInv /\ BlankInv /\ FreedInv /\ KeptInv

\* As many elements as numbers.
LEMMA Numbered ==
    ASSUME NEW n \in Nat, NEW f, NEW T, f \in [1 .. n -> T],
           \A j, k \in 1 .. n : f[j] = f[k] => j = k,
           \A t \in T : \E j \in 1 .. n : f[j] = t
    PROVE  IsFiniteSet(T) /\ Cardinality(T) = n
<1>1. f \in Bijection(1 .. n, T)
  BY DEF Bijection, Injection, IsInjective, Surjection
<1>2. ExistsBijection(1 .. n, T)
  BY <1>1 DEF ExistsBijection
<1>3. IsFiniteSet(1 .. n) /\ Cardinality(1 .. n) = n
  <2>1. 1 \in Int /\ n \in Int
    OBVIOUS
  <2>2. IsFiniteSet(1 .. n) /\ Cardinality(1 .. n) = IF 1 > n THEN 0 ELSE n - 1 + 1
    BY <2>1, FS_Interval
  <2>3. \A k \in Nat : k = IF 1 > k THEN 0 ELSE k - 1 + 1
    OBVIOUS
  <2> QED BY <2>2, <2>3, Zenon
<1> QED BY <1>2, <1>3, FS_Bijection

\* The signatures that a list holds for GetTotalSize.
CountedIn(c) == {m \in Counted : \E j \in Nat : StandsAt(c, j, m)}

LEMMA CellCounted ==
    ASSUME Shape, ListInv, OfferInv, CountInv, NEW c \in Cell
    PROVE  /\ IsFiniteSet(CountedIn(c))
           /\ Cardinality(CountedIn(c)) = Len(ptrList[c]) - Len(removedIdx[c])
<1> DEFINE l == ptrList[c]
           r == removedIdx[c]
           E == {m \in Meta : \E j \in Nat : StandsAt(c, j, m)}
           R == {m \in E : "REMOVED" \in sym[m]}
<1>1. /\ l \in Seq(Meta) /\ Len(l) \in Nat /\ l \in [1 .. Len(l) -> Meta]
      /\ r \in Seq(Nat \ {0}) /\ Len(r) \in Nat /\ r \in [1 .. Len(r) -> Nat \ {0}]
  BY DEF Shape, TypeOK
<1> HIDE DEF l, r
<1>2. IsFiniteSet(E) /\ Cardinality(E) = Len(l)
  <2>1. \A j \in 1 .. Len(l) : j \in Nat /\ l[j] \in Meta /\ StandsAt(c, j, l[j])
    BY <1>1 DEF StandsAt, StandsIn, l
  <2>2. l \in [1 .. Len(l) -> E]
    BY <1>1, <2>1
  <2>3. \A j, k \in 1 .. Len(l) : l[j] = l[k] => j = k
    BY <2>1 DEF ListInv, ListedInv
  <2>4. \A m \in E : \E j \in 1 .. Len(l) : l[j] = m
    BY DEF StandsAt, StandsIn, l
  <2> HIDE DEF E
  <2> QED BY <1>1, <2>2, <2>3, <2>4, Numbered
<1>3. \A k \in 1 .. Len(r) : r[k] \in 1 .. Len(l) /\ r[k] \in Nat /\ l[r[k]] \in R
  <2> SUFFICES ASSUME NEW k \in 1 .. Len(r)
               PROVE  r[k] \in 1 .. Len(l) /\ r[k] \in Nat /\ l[r[k]] \in R
    OBVIOUS
  <2>1. PICK m \in Meta : StandsAt(c, r[k], m) /\ "REMOVED" \in sym[m]
    BY DEF OfferInv, Offers, r
  <2> QED BY <1>1, <2>1 DEF StandsAt, StandsIn, l
<1>4. \A k, i \in 1 .. Len(r) : r[k] = r[i] => k = i
  <2> SUFFICES ASSUME NEW k \in 1 .. Len(r), NEW i \in 1 .. Len(r), i # k
               PROVE  r[i] # r[k]
    OBVIOUS
  <2>1. CASE i < k
    <3>1. i \in 1 .. k - 1
      BY <1>1, <2>1
    <3> QED BY <3>1 DEF OfferInv, Offers, r
  <2>2. CASE k < i
    <3>1. k \in 1 .. i - 1
      BY <1>1, <2>2
    <3> QED BY <3>1 DEF OfferInv, Offers, r
  <2> QED BY <1>1, <2>1, <2>2
<1>5. IsFiniteSet(R) /\ Cardinality(R) = Len(r)
  <2> DEFINE f == [k \in 1 .. Len(r) |-> l[r[k]]]
  <2>1. f \in [1 .. Len(r) -> R]
    BY <1>3
  <2>2. \A k, i \in 1 .. Len(r) : f[k] = f[i] => k = i
    <3> SUFFICES ASSUME NEW k \in 1 .. Len(r), NEW i \in 1 .. Len(r), l[r[k]] = l[r[i]]
                 PROVE  k = i
      OBVIOUS
    <3>1. StandsAt(c, r[k], l[r[k]]) /\ StandsAt(c, r[i], l[r[k]])
      BY <1>3 DEF StandsAt, StandsIn, l
    <3>2. r[k] = r[i]
      BY <1>3, <3>1 DEF ListInv, ListedInv
    <3> QED BY <1>4, <3>2
  <2>3. ASSUME NEW m \in R
        PROVE  \E k \in 1 .. Len(r) : f[k] = m
    <3>1. PICK j \in Nat : StandsAt(c, j, m)
      OBVIOUS
    <3>2. PICK k \in 1 .. Len(r) : r[k] = j
      BY <3>1 DEF CountInv, FreedInv, r
    <3> QED BY <3>1, <3>2 DEF StandsAt, StandsIn, l
  <2> HIDE DEF f, R
  <2> QED BY <1>1, <2>1, <2>2, <2>3, Numbered
<1>6. CountedIn(c) = E \ R /\ R \subseteq E
  BY DEF CountedIn, Counted, ListInv, ListedInv, Shape, TypeOK
<1>7. E \cap R = R
  OBVIOUS
<1> HIDE DEF E, R
<1>8. IsFiniteSet(E \ R) /\ Cardinality(E \ R) = Cardinality(E) - Cardinality(R)
  <2>1. IsFiniteSet(E) BY <1>2
  <2>2. /\ IsFiniteSet(E \ R)
        /\ Cardinality(E \ R) = Cardinality(E) - Cardinality(E \cap R)
    BY ONLY <2>1, FS_Difference
  <2> QED BY ONLY <1>7, <2>2
<1> QED BY <1>2, <1>5, <1>6, <1>8 DEF l, r

\* The signatures that a node holds.
CountedAt(n) == {m \in Counted : \E i \in Slot, j \in Nat : StandsAt(<<n, i>>, j, m)}

Sums(f, n, w) == f[0] = 0 /\ \A k \in 1 .. n : f[k] = f[k - 1] + w[k]

\* What the LET of NodeSize defines.
SlotSums(f, n) ==
    f = [k \in 0 .. MaxFout |->
           IF k = 0 THEN 0
           ELSE f[k - 1] + Len(ptrList[<<n, k - 1>>]) - Len(removedIdx[<<n, k - 1>>])]

LEMMA NodeCounted ==
    ASSUME Shape, ListInv, OfferInv, CountInv, NEW n \in Node
    PROVE  IsFiniteSet(CountedAt(n)) /\ NodeSize(n) = Cardinality(CountedAt(n))
<1> DEFINE S == [k \in 1 .. MaxFout |-> CountedIn(<<n, k - 1>>)]
           w == [k \in 1 .. MaxFout |-> Cardinality(CountedIn(<<n, k - 1>>))]
<1>1. MaxFout \in Nat /\ Slot = 0 .. MaxFout - 1
  BY GeometryAssumption DEF Slot
<1>2. ASSUME NEW k \in 1 .. MaxFout
      PROVE  /\ <<n, k - 1>> \in Cell
             /\ IsFiniteSet(CountedIn(<<n, k - 1>>))
             /\ w[k] = Len(ptrList[<<n, k - 1>>]) - Len(removedIdx[<<n, k - 1>>])
             /\ Len(ptrList[<<n, k - 1>>]) \in Nat /\ Len(removedIdx[<<n, k - 1>>]) \in Nat
  <2>1. <<n, k - 1>> \in Cell
    BY <1>1 DEF Cell
  <2>2. Len(ptrList[<<n, k - 1>>]) \in Nat /\ Len(removedIdx[<<n, k - 1>>]) \in Nat
    BY <2>1 DEF Shape, TypeOK
  <2> QED BY <2>1, <2>2, CellCounted
<1>3. ASSUME NEW k \in 1 .. MaxFout, NEW l \in 1 .. MaxFout, k # l
      PROVE  S[k] \cap S[l] = {}
  <2> SUFFICES ASSUME NEW m \in CountedIn(<<n, k - 1>>), m \in CountedIn(<<n, l - 1>>)
               PROVE  FALSE
    OBVIOUS
  <2>1. PICK i \in Nat : StandsAt(<<n, k - 1>>, i, m)
    BY DEF CountedIn
  <2>2. PICK j \in Nat : StandsAt(<<n, l - 1>>, j, m)
    BY DEF CountedIn
  <2>3. m \in Meta
    BY DEF CountedIn, Counted, Shape, TypeOK
  <2>4. <<n, k - 1>> = <<n, l - 1>>
    BY <1>2, <2>1, <2>2, <2>3 DEF ListInv, ListedInv
  <2> QED BY <1>3, <2>4
<1>4. \A k \in 1 .. MaxFout : IsFiniteSet(S[k])
  BY <1>2
<1>5. UNION {S[k] : k \in 1 .. MaxFout} = CountedAt(n)
  <2>1. ASSUME NEW m \in CountedAt(n)
        PROVE  m \in UNION {S[k] : k \in 1 .. MaxFout}
    <3>1. PICK i \in Slot, j \in Nat : StandsAt(<<n, i>>, j, m)
      BY DEF CountedAt
    <3>2. i + 1 \in 1 .. MaxFout /\ (i + 1) - 1 = i
      BY <1>1
    <3>3. m \in S[i + 1]
      BY <3>1, <3>2 DEF CountedAt, CountedIn
    <3> QED BY <3>2, <3>3
  <2>2. ASSUME NEW k \in 1 .. MaxFout, NEW m \in S[k]
        PROVE  m \in CountedAt(n)
    <3>1. k - 1 \in Slot
      BY <1>1
    <3> QED BY <3>1 DEF CountedAt, CountedIn
  <2> QED BY <2>1, <2>2
<1>6. PICK f \in [0 .. MaxFout -> Nat] :
          /\ f[0] = 0 /\ \A k \in 1 .. MaxFout : f[k] = f[k - 1] + Cardinality(S[k])
          /\ f[MaxFout] = Cardinality(CountedAt(n)) /\ IsFiniteSet(CountedAt(n))
  <2> HIDE DEF S
  <2>1. \A k, l \in 1 .. MaxFout : k # l => S[k] \cap S[l] = {}
    BY <1>3
  <2>2. PICK Q : Q = S
    OBVIOUS
  <2>3. \A k \in 1 .. MaxFout : IsFiniteSet(Q[k])
    BY <1>4, <2>2
  <2>4. \A k, l \in 1 .. MaxFout : k # l => Q[k] \cap Q[l] = {}
    BY <2>1, <2>2
  <2>5. \E f \in [0 .. MaxFout -> Nat] :
           /\ f[0] = 0
           /\ \A k \in 1 .. MaxFout : f[k] = f[k - 1] + Cardinality(Q[k])
           /\ f[MaxFout] = Cardinality(UnionTo(Q, MaxFout))
           /\ IsFiniteSet(UnionTo(Q, MaxFout))
    BY <1>1, <2>3, <2>4, DisjointSum
  <2>6. UnionTo(Q, MaxFout) = CountedAt(n) BY <1>5, <2>2 DEF UnionTo
  <2> QED BY ONLY <2>2, <2>5, <2>6
<1>7. Sums(f, MaxFout, w)
  BY <1>6 DEF Sums
<1> HIDE DEF S, w
<1>8. SlotSums(f, n)
  <2>1. ASSUME NEW k \in 0 .. MaxFout
        PROVE  f[k] = IF k = 0 THEN 0
                      ELSE f[k - 1] + Len(ptrList[<<n, k - 1>>]) - Len(removedIdx[<<n, k - 1>>])
    <3>1. CASE k = 0
      BY <1>6, <3>1
    <3>2. CASE k # 0
      <4>1. k \in 1 .. MaxFout /\ k - 1 \in 0 .. MaxFout
        BY <1>1, <3>2
      <4>2. f[k] = f[k - 1] + w[k] /\ f[k - 1] \in Nat
        BY <1>6, <1>7, <4>1 DEF Sums
      <4> QED BY <1>2, <3>2, <4>1, <4>2
    <3> QED BY <3>1, <3>2
  <2> QED BY <2>1 DEF SlotSums
<1>9. NodeSize(n) = (CHOOSE g : SlotSums(g, n))[MaxFout]
  BY DEF NodeSize, SlotSums
<1>10. PICK g : SlotSums(g, n) /\ NodeSize(n) = g[MaxFout]
  BY <1>8, <1>9
<1>11. g[0] = 0 /\ \A k \in 1 .. MaxFout :
          g[k] = g[k - 1] + Len(ptrList[<<n, k - 1>>]) - Len(removedIdx[<<n, k - 1>>])
  <2>1. \A k \in 1 .. MaxFout : k \in 0 .. MaxFout /\ k # 0
    BY <1>1
  <2>2. 0 \in 0 .. MaxFout
    BY <1>1
  <2> QED BY <1>10, <2>1, <2>2, Zenon DEF SlotSums
<1> DEFINE T == {k \in 0 .. MaxFout : g[k] = f[k]}
<1>12. 0 \in T
  BY <1>1, <1>6, <1>11
<1>13. ASSUME NEW k \in 1 .. MaxFout, k - 1 \in T
       PROVE  k \in T
  <2>1. k \in 0 .. MaxFout /\ k - 1 \in 0 .. MaxFout
    BY <1>1
  <2>2. f[k] = f[k - 1] + w[k] /\ f[k - 1] \in Nat
    BY <1>6, <1>7, <2>1 DEF Sums
  <2>3. g[k - 1] = f[k - 1]
    BY <1>13
  <2> QED BY <1>2, <1>11, <2>1, <2>2, <2>3
<1> HIDE DEF T
<1>14. MaxFout \in T
  <2>1. \A k \in 0 .. MaxFout : k \in T
    BY <1>1, <1>12, <1>13, SetInduction
  <2> QED BY <1>1, <2>1
<1> QED BY <1>6, <1>10, <1>14 DEF T

Reaches(f) ==
    f = [n \in Node |->
           n = Root \/ \E p \in 1 .. n - 1 : f[p] /\ \E i \in Slot : children[<<p, i>>] = n]

\* Every node that was made can be reached from the root.
LEMMA AllReached ==
    ASSUME Shape, CountInv
    PROVE  ReachableNodes = 1 .. nodeNum
<1>1. nodeNum \in Nat /\ 1 .. nodeNum \subseteq Node /\ Root \in 1 .. nodeNum /\ Root = 1
      /\ Node \subseteq Nat
  BY TrieAssumption DEF Shape, TypeOK, Node, Root
<1> DEFINE E(n) == \E p \in 1 .. n - 1 : p \in 1 .. nodeNum /\ \E i \in Slot : children[<<p, i>>] = n
<1>2. ASSUME NEW n \in Node
      PROVE  n \in 1 .. nodeNum <=> n = Root \/ E(n)
  <2>1. ASSUME n \in 1 .. nodeNum, n # Root
        PROVE  E(n)
    <3>1. n \in 2 .. nodeNum
      BY <1>1, <2>1
    <3>2. PICK p \in 1 .. n - 1, i \in Slot : children[<<p, i>>] = n
      BY <3>1 DEF CountInv, ReachedInv
    <3>3. p \in 1 .. nodeNum
      BY <1>1, <2>1
    <3> QED BY <3>2, <3>3
  <2>2. ASSUME E(n)
        PROVE  n \in 1 .. nodeNum
    <3>1. PICK p \in 1 .. nodeNum, i \in Slot : children[<<p, i>>] = n
      BY <2>2
    <3>2. p \in Node /\ n # NoNode
      BY <1>1 DEF Node, NoNode
    <3> QED BY <3>1, <3>2 DEF Shape, TreeShape
  <2> QED BY <1>1, <2>1, <2>2
<1> DEFINE f == [n \in Node |-> n \in 1 .. nodeNum]
<1>3. Reaches(f)
  <2>1. \A p \in Node : f[p] <=> p \in 1 .. nodeNum
    OBVIOUS
  <2>2. \A n \in Node : \A p \in 1 .. n - 1 : p \in Node
    BY TrieAssumption DEF Node
  <2>3. ASSUME NEW n \in Node
        PROVE  (n \in 1 .. nodeNum)
                  <=> (n = Root \/ \E p \in 1 .. n - 1 : f[p] /\ \E i \in Slot : children[<<p, i>>] = n)
    <3> HIDE DEF f
    <3> QED BY <1>2, <2>1, <2>2
  <2>4. ASSUME NEW n \in Node
        PROVE  (n \in 1 .. nodeNum)
                  = (n = Root \/ \E p \in 1 .. n - 1 : f[p] /\ \E i \in Slot : children[<<p, i>>] = n)
    <3> HIDE DEF f
    <3> DEFINE A == n \in 1 .. nodeNum
               B == n = Root \/ \E p \in 1 .. n - 1 : f[p] /\ \E i \in Slot : children[<<p, i>>] = n
    <3>1. A <=> B
      BY <2>3
    <3>2. A \in BOOLEAN /\ B \in BOOLEAN
      OBVIOUS
    <3> HIDE DEF A, B
    <3>3. A = B
      BY <3>1, <3>2
    <3> QED BY <3>3 DEF A, B
  <2> QED BY <2>4, Zenon DEF Reaches
<1>4. ReachableNodes = {n \in Node : (CHOOSE g : Reaches(g))[n]}
  BY DEF ReachableNodes, Reaches
<1>5. PICK g : Reaches(g) /\ ReachableNodes = {n \in Node : g[n]}
  BY <1>3, <1>4
<1>6. ASSUME NEW n \in Node
      PROVE  g[n] <=> n = Root \/ \E p \in 1 .. n - 1 : g[p] /\ \E i \in Slot : children[<<p, i>>] = n
  BY <1>5, Zenon DEF Reaches
<1> DEFINE C == {n \in Node : ~(g[n] <=> n \in 1 .. nodeNum)}
<1>7. C = {}
  <2> SUFFICES ASSUME C # {} PROVE FALSE
    OBVIOUS
  <2>1. C \subseteq Nat
    BY <1>1
  <2>2. PICK n \in C : \A m \in C : n <= m
    <3> HIDE DEF C
    <3> QED BY <2>1, NatMin
  <2>3. ASSUME NEW p \in 1 .. n - 1
        PROVE  g[p] <=> p \in 1 .. nodeNum
    <3>1. n \in Node /\ n \in Nat
      BY <1>1
    <3>2. p \in Node /\ ~(n <= p)
      BY <3>1, TrieAssumption DEF Node
    <3> QED BY <2>2, <3>2
  <2>4. g[n] <=> n = Root \/ E(n)
    BY <1>6, <2>3
  <2> QED BY <1>2, <2>4
<1>8. \A n \in Node : g[n] <=> n \in 1 .. nodeNum
  BY <1>7
<1> QED BY <1>1, <1>5, <1>8

TotalSums(f) ==
    f = [n \in 0 .. MaxNode |->
           IF n = 0 THEN 0 ELSE f[n - 1] + IF n \in ReachableNodes THEN NodeSize(n) ELSE 0]

LEMMA TotalCounted ==
    ASSUME Shape, ListInv, OfferInv, CountInv
    PROVE  GetTotalSize = Cardinality(Counted)
<1> DEFINE S == [n \in 1 .. MaxNode |-> CountedAt(n)]
<1>1. MaxNode \in Nat /\ Node = 1 .. MaxNode
  BY TrieAssumption DEF Node
<1>2. ASSUME NEW n \in 1 .. MaxNode
      PROVE  /\ IsFiniteSet(S[n])
             /\ Cardinality(S[n]) = IF n \in ReachableNodes THEN NodeSize(n) ELSE 0
  <2>1. IsFiniteSet(S[n]) /\ NodeSize(n) = Cardinality(S[n])
    BY <1>1, NodeCounted
  <2>2. CASE n \notin ReachableNodes
    <3>1. n \notin 1 .. nodeNum
      BY <2>2, AllReached
    <3>2. ASSUME NEW i \in Slot
          PROVE  ptrList[<<n, i>>] = <<>>
      BY <1>1, <3>1 DEF CountInv, BlankInv, Cell
    <3>3. \A i \in Slot, j \in Nat : \A m : ~StandsAt(<<n, i>>, j, m)
      BY <3>2 DEF StandsAt, StandsIn
    <3>4. CountedAt(n) = {}
      BY <3>3 DEF CountedAt
    <3> QED BY <2>1, <2>2, <3>4, FS_EmptySet
  <2> QED BY <2>1, <2>2
<1>3. ASSUME NEW n \in 1 .. MaxNode, NEW o \in 1 .. MaxNode, n # o
      PROVE  S[n] \cap S[o] = {}
  <2> SUFFICES ASSUME NEW m \in CountedAt(n), m \in CountedAt(o)
               PROVE  FALSE
    OBVIOUS
  <2>1. PICK i \in Slot, j \in Nat : StandsAt(<<n, i>>, j, m)
    BY DEF CountedAt
  <2>2. PICK k \in Slot, l \in Nat : StandsAt(<<o, k>>, l, m)
    BY DEF CountedAt
  <2>3. m \in Meta
    BY DEF CountedAt, Counted, Shape, TypeOK
  <2>4. <<n, i>> \in Cell /\ <<o, k>> \in Cell
    BY <1>1 DEF Cell
  <2>5. <<n, i>> = <<o, k>>
    BY <2>1, <2>2, <2>3, <2>4 DEF ListInv, ListedInv
  <2> QED BY <1>3, <2>5
<1>4. UnionTo(S, MaxNode) = Counted
  <2>1. ASSUME NEW m \in Counted
        PROVE  \E n \in 1 .. MaxNode : m \in S[n]
    <3>1. PICK c \in Cell, j \in Nat : StandsAt(c, j, m)
      BY DEF CountInv, KeptInv
    <3>2. c[1] \in 1 .. MaxNode /\ c[2] \in Slot /\ c = <<c[1], c[2]>>
      BY <1>1 DEF Cell
    <3>3. StandsAt(<<c[1], c[2]>>, j, m)
      BY <3>1, <3>2
    <3>4. m \in CountedAt(c[1])
      BY <3>2, <3>3 DEF CountedAt
    <3> QED BY <3>2, <3>4
  <2>2. \A n \in 1 .. MaxNode : S[n] \subseteq Counted
    BY DEF CountedAt
  <2> QED BY <2>1, <2>2 DEF UnionTo
<1>5. PICK f \in [0 .. MaxNode -> Nat] :
          /\ f[0] = 0 /\ \A n \in 1 .. MaxNode : f[n] = f[n - 1] + Cardinality(S[n])
          /\ f[MaxNode] = Cardinality(Counted)
  <2> HIDE DEF S
  <2>1. PICK Q : Q = S
    OBVIOUS
  <2>2. \A k \in 1 .. MaxNode : IsFiniteSet(Q[k])
    BY <1>2, <2>1
  <2>4. \A k, l \in 1 .. MaxNode : k # l => Q[k] \cap Q[l] = {}
    BY <1>3, <2>1
  <2>3. \E f \in [0 .. MaxNode -> Nat] :
           /\ f[0] = 0
           /\ \A k \in 1 .. MaxNode : f[k] = f[k - 1] + Cardinality(Q[k])
           /\ f[MaxNode] = Cardinality(UnionTo(Q, MaxNode))
           /\ IsFiniteSet(UnionTo(Q, MaxNode))
    BY <1>1, <2>2, <2>4, DisjointSum
  <2> QED BY <1>4, <2>1, <2>3
<1> HIDE DEF S
<1>6. ASSUME NEW n \in 1 .. MaxNode
      PROVE  f[n] = f[n - 1] + IF n \in ReachableNodes THEN NodeSize(n) ELSE 0
  BY <1>2, <1>5
<1>7. TotalSums(f)
  <2>1. \A n \in 0 .. MaxNode : n # 0 => n \in 1 .. MaxNode
    BY <1>1
  <2>2. \A n \in 0 .. MaxNode :
           f[n] = IF n = 0 THEN 0 ELSE f[n - 1] + IF n \in ReachableNodes THEN NodeSize(n) ELSE 0
    BY <1>5, <1>6, <2>1, Zenon
  <2> QED BY <2>2 DEF TotalSums
<1>8. GetTotalSize = (CHOOSE g : TotalSums(g))[MaxNode]
  BY DEF GetTotalSize, TotalSums
<1>9. PICK g : TotalSums(g) /\ GetTotalSize = g[MaxNode]
  BY <1>7, <1>8
<1>10. g[0] = 0 /\ \A n \in 1 .. MaxNode :
          g[n] = g[n - 1] + IF n \in ReachableNodes THEN NodeSize(n) ELSE 0
  <2>1. \A n \in 1 .. MaxNode : n \in 0 .. MaxNode /\ n # 0
    BY <1>1
  <2>2. 0 \in 0 .. MaxNode
    BY <1>1
  <2> QED BY <1>9, <2>1, <2>2, Zenon DEF TotalSums
<1> DEFINE T == {n \in 0 .. MaxNode : g[n] = f[n]}
<1>11. 0 \in T /\ \A n \in 1 .. MaxNode : n - 1 \in T => n \in T
  <2>1. 0 \in T
    BY <1>1, <1>5, <1>10
  <2>2. ASSUME NEW n \in 1 .. MaxNode, n - 1 \in T
        PROVE  n \in T
    <3>1. n \in 0 .. MaxNode /\ g[n - 1] = f[n - 1]
      BY <1>1, <2>2
    <3> QED BY <1>6, <1>10, <3>1
  <2> QED BY <2>1, <2>2
<1> HIDE DEF T
<1>12. MaxNode \in T
  <2>1. \A n \in 0 .. MaxNode : n \in T
    BY <1>1, <1>11, SetInduction
  <2> QED BY <1>1, <2>1
<1> QED BY <1>5, <1>9, <1>12 DEF T

LEMMA CountInvInit == Init => CountInv
  BY FS_EmptySet, TrieAssumption
     DEF Init, CountInv, TakenCounted, ReachedInv, BlankInv, FreedInv, KeptInv, Counted, Root,
         StandsAt, StandsIn

LEMMA ReachedKept ==
    ASSUME Shape, ParentInv, ReachedInv, [Next]_vars
    PROVE  ReachedInv'
<1>0. nodeNum \in Nat /\ children \in [Cell -> Node \cup {NoNode}]
  BY DEF Shape, TypeOK, Node
<1>1. ASSUME NEW i \in Inserters, NewNode(i)
      PROVE  ReachedInv'
  <2>1. nodeNum' = nodeNum + 1 /\ children' = [children EXCEPT ![ICell(i)] = nodeNum + 1]
    BY <1>1 DEF NewNode
  <2>2. ICell(i) \in Cell /\ ICell(i)[1] \in 1 .. nodeNum
        /\ ICell(i)[2] \in Slot /\ ICell(i) = <<ICell(i)[1], ICell(i)[2]>>
    BY <1>1, InserterFacts DEF NewNode, IGoto, Cell, ICell
  <2>3. TreeGrows
    BY TreeGrowsNext
  <2> SUFFICES ASSUME NEW n \in 2 .. nodeNum + 1
               PROVE  \E p \in 1 .. n - 1, k \in Slot : children'[<<p, k>>] = n
    BY <2>1 DEF ReachedInv
  <2>4. CASE n \in 2 .. nodeNum
    <3>1. PICK p \in 1 .. n - 1, k \in Slot : children[<<p, k>>] = n
      BY <2>4 DEF ReachedInv
    <3>2. <<p, k>> \in Cell
      <4>1. p \in 1 .. nodeNum
        BY <1>0, <2>4
      <4>2. 1 .. nodeNum \subseteq Node
        <5>1. nodeNum \in 1 .. MaxNode /\ MaxNode \in Nat
          BY TrieAssumption DEF Shape, TypeOK, Node
        <5> QED BY <5>1 DEF Node
      <4> QED BY <4>1, <4>2 DEF Cell
    <3>3. n # NoNode
      BY <2>4 DEF NoNode
    <3>4. children'[<<p, k>>] = n
      BY <2>3, <3>1, <3>2, <3>3 DEF TreeGrows
    <3> QED BY <3>4
  <2>5. CASE n = nodeNum + 1
    <3>1. children'[ICell(i)] = n
      BY <1>0, <2>1, <2>2, <2>5
    <3>2. ICell(i)[1] \in 1 .. n - 1
      BY <1>0, <2>2, <2>5
    <3> QED BY <2>2, <3>1, <3>2
  <2> QED BY <1>0, <2>4, <2>5
<1>2. UNCHANGED <<nodeNum, children>> \/ \E i \in Inserters : NewNode(i)
  <2>1. ASSUME NEW i \in Inserters, InserterStep(i) \/ \E m \in Meta : Insert2(i, m), ~NewNode(i)
        PROVE  UNCHANGED <<nodeNum, children>>
    BY <2>1 DEF InserterStep, Insert2, ProbeFree, ILockList, Reuse, ReuseLost, ProbeRoom, Push,
                ProbeChild, LockNode, Descend, treeVars
  <2> QED BY <2>1, OtherFacts DEF treeVars
<1> QED BY <1>1, <1>2 DEF ReachedInv

LEMMA BlankKept ==
    ASSUME Shape, ParentInv, BlankInv, [Next]_vars
    PROVE  BlankInv'
<1>1. TreeGrows
  BY TreeGrowsNext
<1>2. ASSUME NEW c \in Cell, c[1] \notin 1 .. nodeNum'
      PROVE  c[1] \notin 1 .. nodeNum
  <2>1. c[1] \in Nat
    BY TrieAssumption DEF Cell, Node
  <2> QED BY <1>1, <1>2, <2>1 DEF TreeGrows
<1>3. CASE UNCHANGED ptrList
  BY <1>2, <1>3 DEF BlankInv
<1>4. ASSUME NEW i \in Inserters, Push(i) \/ Reuse(i)
      PROVE  BlankInv'
  <2>1. ICell(i)[1] \in 1 .. nodeNum
    BY <1>4, InserterFacts DEF Push, Reuse, IReturn, IGoto, ICell
  <2>2. \A c \in Cell : c # ICell(i) => ptrList'[c] = ptrList[c]
    BY <1>4 DEF Push, Reuse, Shape, TypeOK
  <2> QED BY <1>2, <2>1, <2>2 DEF BlankInv
<1>5. ASSUME NEW i \in Inserters, Walks(i) \/ \E n \in Meta : Insert2(i, n)
      PROVE  UNCHANGED ptrList
  BY <1>5, WalkFacts DEF Insert2, listVars
<1> QED BY <1>3, <1>4, <1>5, OtherFacts, InserterCases

\* Steps that neither move a signature nor give one back.
LEMMA QuietCounts ==
    ASSUME FreedInv, KeptInv, UNCHANGED <<ptrList, removedIdx, inserted>>, inserted \subseteq Meta,
           \A m \in Meta : "REMOVED" \in sym'[m] <=> "REMOVED" \in sym[m]
    PROVE  FreedInv' /\ KeptInv'
<1>1. FreedInv'
  BY DEF FreedInv, StandsAt, StandsIn
<1>2. KeptInv'
  BY DEF KeptInv, Counted, StandsAt, StandsIn
<1> QED BY <1>1, <1>2

LEMMA PushCounts ==
    ASSUME Shape, ListInv, OfferInv, FreedInv, KeptInv, NEW i \in Inserters, Push(i)
    PROVE  FreedInv' /\ KeptInv'
<1> DEFINE m == imeta[i]
<1>1. inserted' = inserted \cup {m} /\ sym' = sym /\ m \in Meta /\ ipc[i] # "idle"
  BY ReturnFacts
<1>2. removedIdx' = removedIdx
  BY DEF Push
<1>3. PICK c, k : Put(c, k, m) /\ k = Len(ptrList[c]) + 1
  BY PushPuts
<1>4. sym[m] = {}
  BY <1>1 DEF ListInv, TakenInv, OfferInv, NewInv
<1> HIDE DEF m
<1>5. ASSUME NEW d \in Cell, NEW j \in Nat, NEW x \in Meta, StandsAt(d, j, x)
      PROVE  StandsAt(d, j, x)'
  <2>1. ~(d = c /\ j = k)
    <3>1. Len(ptrList[d]) \in Nat
      BY DEF Shape, TypeOK
    <3> QED BY <1>3, <1>5, <3>1 DEF StandsAt, StandsIn
  <2> QED BY <1>3, <1>5, <2>1, PutKeeps
<1>6. FreedInv'
  <2> SUFFICES ASSUME NEW d \in Cell, NEW j \in Nat, NEW x \in Meta,
                      StandsIn(ptrList', d, j, x), "REMOVED" \in sym[x]
               PROVE  \E n \in 1 .. Len(removedIdx[d]) : removedIdx[d][n] = j
    BY <1>1, <1>2 DEF FreedInv, StandsAt
  <2>1. ~(d = c /\ j = k)
    BY <1>3, <1>4 DEF Put, StandsIn
  <2>2. StandsAt(d, j, x)
    BY <1>3, <2>1 DEF Put
  <2> QED BY <2>2 DEF FreedInv
<1>7. KeptInv'
  <2> SUFFICES ASSUME NEW x \in inserted \cup {m}, "REMOVED" \notin sym[x]
               PROVE  \E d \in Cell, j \in Nat : StandsIn(ptrList', d, j, x)
    BY <1>1 DEF KeptInv, Counted, StandsAt
  <2>1. CASE x = m
    BY <1>3, <2>1 DEF Put
  <2>2. CASE x \in inserted
    <3>1. PICK d \in Cell, j \in Nat : StandsAt(d, j, x)
      BY <2>2 DEF KeptInv, Counted
    <3>2. x \in Meta
      BY <2>2 DEF Shape, TypeOK
    <3>3. StandsIn(ptrList', d, j, x)
      BY <1>5, <3>1, <3>2 DEF StandsAt
    <3> QED BY <3>3
  <2> QED BY <2>1, <2>2
<1> QED BY <1>6, <1>7

LEMMA ReuseCounts ==
    ASSUME Shape, ListInv, OfferInv, FreedInv, KeptInv, NEW i \in Inserters, Reuse(i)
    PROVE  FreedInv' /\ KeptInv'
<1> DEFINE m == imeta[i]
           c == ICell(i)
           free == removedIdx[c]
           k == free[Len(free)]
<1>1. inserted' = inserted \cup {m} /\ sym' = sym /\ m \in Meta /\ ipc[i] # "idle"
  BY ReturnFacts
<1>2. /\ c \in Cell /\ free # <<>> /\ removedIdx' = [removedIdx EXCEPT ![c] = PositionTaken(free)]
      /\ removedIdx \in [Cell -> Seq(Nat \ {0})] /\ free \in Seq(Nat \ {0})
  BY InserterFacts DEF Reuse, IReturn, IGoto, Shape, TypeOK
<1>3. Put(c, k, m)
  BY ReusePuts
<1>4. sym[m] = {}
  BY <1>1 DEF ListInv, TakenInv, OfferInv, NewInv
<1>5. PICK gone \in Meta : StandsAt(c, k, gone) /\ "REMOVED" \in sym[gone]
  <2>1. Len(free) \in 1 .. Len(free)
    BY <1>2
  <2> QED BY <1>2, <2>1 DEF OfferInv, Offers
<1>6. /\ Len(PositionTaken(free)) = Len(free) - 1 /\ Len(free) \in Nat
      /\ \A l \in 1 .. Len(free) - 1 : PositionTaken(free)[l] = free[l]
  BY <1>2, TakenFacts
<1>7. removedIdx'[c] = PositionTaken(free) /\ \A d \in Cell : d # c => removedIdx'[d] = removedIdx[d]
  BY <1>2
<1>8. \A n \in 1 .. Len(free) : free[n] # k => n \in 1 .. Len(free) - 1
  BY <1>6
<1>9. \A d \in Cell : d = c => removedIdx[d] = free
  OBVIOUS
<1> HIDE DEF m, c, free, k
<1>10. FreedInv'
  <2> SUFFICES ASSUME NEW d \in Cell, NEW j \in Nat, NEW x \in Meta,
                      StandsIn(ptrList', d, j, x), "REMOVED" \in sym[x]
               PROVE  \E n \in 1 .. Len(removedIdx'[d]) : removedIdx'[d][n] = j
    BY <1>1 DEF FreedInv, StandsAt
  <2>1. ~(d = c /\ j = k)
    BY <1>3, <1>4 DEF Put, StandsIn
  <2>2. StandsAt(d, j, x)
    BY <1>3, <2>1 DEF Put
  <2>3. PICK n \in 1 .. Len(removedIdx[d]) : removedIdx[d][n] = j
    BY <2>2 DEF FreedInv
  <2>4. CASE d # c
    BY <1>7, <2>3, <2>4
  <2>5. CASE d = c
    <3>1. n \in 1 .. Len(free) /\ free[n] = j /\ j # k
      BY <1>9, <2>1, <2>3, <2>5
    <3>2. n \in 1 .. Len(free) - 1
      BY <1>8, <3>1
    <3>3. n \in 1 .. Len(removedIdx'[d]) /\ removedIdx'[d][n] = j
      BY <1>6, <1>7, <2>5, <3>1, <3>2
    <3> QED BY <3>3
  <2> QED BY <2>4, <2>5
<1>11. KeptInv'
  <2> SUFFICES ASSUME NEW x \in inserted \cup {m}, "REMOVED" \notin sym[x]
               PROVE  \E d \in Cell, j \in Nat : StandsIn(ptrList', d, j, x)
    BY <1>1 DEF KeptInv, Counted, StandsAt
  <2>1. CASE x = m
    BY <1>3, <2>1 DEF Put
  <2>2. CASE x \in inserted
    <3>1. PICK d \in Cell, j \in Nat : StandsAt(d, j, x)
      BY <2>2 DEF KeptInv, Counted
    <3>2. x \in Meta
      BY <2>2 DEF Shape, TypeOK
    <3>3. ~(d = c /\ j = k)
      BY <1>5, <3>1 DEF StandsAt, StandsIn
    <3>4. StandsIn(ptrList', d, j, x)
      BY <1>3, <3>1, <3>2, <3>3, PutKeeps DEF StandsAt
    <3> QED BY <3>4
  <2> QED BY <2>1, <2>2
<1> QED BY <1>10, <1>11

LEMMA AddRemoveAtomicCounts ==
    ASSUME Shape, ListInv, OfferInv, FreedInv, KeptInv, Fit,
           NEW s \in Searchers, AddRemoveAtomic(s)
    PROVE  FreedInv' /\ KeptInv'
<1> DEFINE c == SCell(s)
           m == cur[s]
           j == at[s]
<1>1. UNCHANGED <<ptrList, inserted>> /\ spc[s] = "add"
  BY DEF AddRemoveAtomic, SGoto, insVars
<1>2. StandsAt(c, j, m) /\ sym[m] \cap {"DEL", "INVALID"} # {}
  BY <1>1 DEF OfferInv, ReportInv
<1>3. c \in Cell /\ j \in Nat /\ m \in Meta
  BY <1>1, SearcherFacts DEF Shape, TypeOK, SearcherShape, SearcherFits
<1>4. /\ removedIdx' = [removedIdx EXCEPT ![c] = Append(@, Uint16(j))]
      /\ sym' = [sym EXCEPT ![m] = @ \cup {"REMOVED"}]
  BY <1>2 DEF AddRemoveAtomic
<1> HIDE DEF c, m, j
<1>5. Uint16(j) = j
  <2>1. j \in 1 .. IndexRange
    <3>1. j \in 1 .. Len(ptrList[c]) /\ Len(ptrList[c]) \in Nat
      BY <1>2, <1>3 DEF StandsAt, StandsIn, Shape, TypeOK
    <3> QED BY <1>3, <3>1, TrieAssumption DEF Fit
  <2> QED BY <2>1, TrieAssumption DEF Uint16
<1>6. /\ \A x \in Meta : x # m => sym'[x] = sym[x]
      /\ \A x \in Meta : "REMOVED" \in sym[x] => "REMOVED" \in sym'[x]
      /\ "REMOVED" \in sym'[m]
  BY <1>3, <1>4 DEF Shape, TypeOK
<1>7. ASSUME NEW d \in Cell, NEW n \in 1 .. Len(removedIdx[d])
      PROVE  n \in 1 .. Len(removedIdx'[d]) /\ removedIdx'[d][n] = removedIdx[d][n]
  <2>1. removedIdx[d] \in Seq(Nat \ {0}) /\ removedIdx \in [Cell -> Seq(Nat \ {0})]
    BY DEF Shape, TypeOK
  <2>2. removedIdx'[d] = removedIdx[d] \/ removedIdx'[d] = Append(removedIdx[d], j)
    BY <1>3, <1>4, <1>5, <2>1
  <2>3. Len(Append(removedIdx[d], j)) = Len(removedIdx[d]) + 1 /\ Len(removedIdx[d]) \in Nat
        /\ Append(removedIdx[d], j)[n] = removedIdx[d][n]
    BY <2>1
  <2> QED BY <2>2, <2>3
<1>8. \E n \in 1 .. Len(removedIdx'[c]) : removedIdx'[c][n] = j
  <2>1. removedIdx[c] \in Seq(Nat \ {0}) /\ removedIdx \in [Cell -> Seq(Nat \ {0})]
    BY <1>3 DEF Shape, TypeOK
  <2>2. removedIdx'[c] = Append(removedIdx[c], j)
    BY <1>3, <1>4, <1>5, <2>1
  <2>3. /\ Len(removedIdx'[c]) = Len(removedIdx[c]) + 1 /\ Len(removedIdx[c]) \in Nat
        /\ removedIdx'[c][Len(removedIdx[c]) + 1] = j
    BY <2>1, <2>2
  <2> QED BY <2>3
<1>9. FreedInv'
  <2> SUFFICES ASSUME NEW d \in Cell, NEW l \in Nat, NEW x \in Meta,
                      StandsAt(d, l, x), "REMOVED" \in sym'[x]
               PROVE  \E n \in 1 .. Len(removedIdx'[d]) : removedIdx'[d][n] = l
    BY <1>1 DEF FreedInv, StandsAt, StandsIn
  <2>1. CASE x = m
    <3>1. d = c /\ l = j
      BY <1>2, <1>3, <2>1 DEF ListInv, ListedInv
    <3> QED BY <1>8, <3>1
  <2>2. CASE x # m
    <3>1. PICK n \in 1 .. Len(removedIdx[d]) : removedIdx[d][n] = l
      BY <1>6, <2>2 DEF FreedInv
    <3> QED BY <1>7, <3>1
  <2> QED BY <2>1, <2>2
<1>10. KeptInv'
  <2>1. \A x \in inserted : x \in Meta
    BY DEF Shape, TypeOK
  <2> QED BY <1>1, <1>6, <2>1 DEF KeptInv, Counted, StandsAt, StandsIn
<1> QED BY <1>9, <1>10

LEMMA CountInvNext ==
    ASSUME Shape, ListInv, OfferInv, ParentInv, CountInv, OneSearcher, HaveZeros, Fit, [Next]_vars
    PROVE  CountInv'
<1>0. /\ FreedInv /\ KeptInv /\ inserted \subseteq Meta
      /\ sym \in [Meta -> SUBSET Flag]
  BY DEF CountInv, Shape, TypeOK
<1>1. TakenCounted' /\ ReachedInv' /\ BlankInv'
  BY TakenCountedNext, ReachedKept, BlankKept DEF CountInv
<1>2. ASSUME NEW i \in Inserters, Walks(i) \/ \E m \in Meta : Insert2(i, m)
      PROVE  FreedInv' /\ KeptInv'
  <2>1. UNCHANGED <<ptrList, removedIdx, inserted, sym>>
    BY <1>2, WalkFacts DEF Insert2, listVars, HaveZeros
  <2> QED BY <1>0, <2>1, QuietCounts
<1>3. ASSUME NEW s \in Searchers,
             Wanders(s) \/ Elem(s) \/ NodeReturn(s) \/ \E q \in Queries : Search(s, q)
      PROVE  FreedInv' /\ KeptInv'
  <2>1. UNCHANGED <<ptrList, removedIdx, inserted, sym>>
    BY <1>3, WanderFacts DEF Elem, NodeReturn, Search, listVars, insVars
  <2> QED BY <1>0, <2>1, QuietCounts
<1>4. ASSUME NEW s \in Searchers, Mark(s)
      PROVE  FreedInv' /\ KeptInv'
  <2>1. PICK old \in {sym[cur[s]], {}} : sym' = [sym EXCEPT ![cur[s]] = old \cup {"INVALID"}]
    BY <1>4 DEF Mark
  <2>2. "REMOVED" \notin sym[cur[s]] /\ UNCHANGED <<ptrList, removedIdx, inserted>>
    BY <1>4 DEF Mark, SGoto, OfferInv, ReportInv, listVars, insVars
  <2>3. \A m \in Meta : "REMOVED" \in sym'[m] <=> "REMOVED" \in sym[m]
    BY <1>0, <2>1, <2>2
  <2> QED BY <1>0, <2>2, <2>3, QuietCounts
<1>5. ASSUME NEW m \in Meta, ClientDelete(m)
      PROVE  FreedInv' /\ KeptInv'
  <2>1. /\ UNCHANGED <<ptrList, removedIdx, inserted>>
        /\ sym[m] = {} /\ sym' = [sym EXCEPT ![m] = {"DEL"}]
    BY <1>5 DEF ClientDelete, listVars, insVars
  <2>2. \A x \in Meta : "REMOVED" \in sym'[x] <=> "REMOVED" \in sym[x]
    BY <1>0, <2>1
  <2> QED BY <1>0, <2>1, <2>2, QuietCounts
<1>6. CASE Rest \/ UNCHANGED vars
  <2>1. UNCHANGED <<ptrList, removedIdx, inserted, sym>>
    BY <1>6 DEF Rest, vars, listVars, insVars
  <2>2. \A m \in Meta : "REMOVED" \in sym'[m] <=> "REMOVED" \in sym[m]
    BY <2>1
  <2>3. FreedInv' /\ KeptInv'
    BY <1>0, <2>1, <2>2, QuietCounts
  <2> QED BY <1>1, <2>3 DEF CountInv
<1>7. CASE \E i \in Inserters : InserterStep(i) \/ \E m \in Meta : Insert2(i, m)
  BY <1>0, <1>1, <1>2, <1>7, PushCounts, ReuseCounts, InserterCases DEF CountInv
<1>8. CASE \E s \in Searchers : SearcherStep(s) \/ \E q \in Queries : Search(s, q)
  BY <1>0, <1>1, <1>3, <1>4, <1>8, AddRemoveAtomicCounts, SearcherCases DEF CountInv
<1> QED BY <1>1, <1>5, <1>6, <1>7, <1>8 DEF CountInv, Next

\* Between any two steps of one inserting and one searching thread, GetIndexSize is
\* the number of signatures that were inserted and have not been given back: no node
\* is lost to it, and lists and free lists balance (GetTotalSize, lines 538-567).
THEOREM TotalSizeIsExact ==
    ASSUME OneInserter, OneSearcher, HaveZeros
    PROVE  Spec /\ []Fit => []TotalSizeExact
<1>1. Init => ListInv /\ OfferInv /\ ParentInv /\ CountInv
  BY ListInvInit, OfferInvInit, PathInvInit, CountInvInit DEF PathInv
<1>2. Shape /\ ListInv /\ OfferInv /\ ParentInv /\ CountInv /\ Fit /\ [Next]_vars
        => (ListInv /\ OfferInv /\ ParentInv /\ CountInv)'
  BY ListInvNext, OfferInvNext, ParentKept, CountInvNext
<1>3. Shape /\ ListInv /\ OfferInv /\ CountInv => TotalSizeExact
  BY TotalCounted DEF TotalSizeExact, Counted
<1> QED BY <1>1, <1>2, <1>3, ShapeInvariant, PTL DEF Spec

=============================================================================
