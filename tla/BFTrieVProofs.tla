---------------------------- MODULE BFTrieVProofs ----------------------------
(***************************************************************************)
(* Proofs about BFTrieV for every number of signatures, filters, bits,     *)
(* slots and nodes.  Shape is the inductive core: from it follow TypeOK    *)
(* and PositionsAhead, for any number of threads.  TakenInv adds what the  *)
(* lists hold and gives YesHasReason.  EqualFound needs the path of every  *)
(* signature, PathInv, and what each search still has in front of it,      *)
(* OwedInv; they hold for one inserting thread and any number of searches. *)
(***************************************************************************)
EXTENDS BFTrieV, SharedLemmas

-----------------------------------------------------------------------------
(* The geometry *)

\* A position of a node.
Pos == {PosNan} \cup Bits

\* A set of bits, or of slots, that is not empty has a lowest one.
LEMMA LowestIsLeast ==
    ASSUME NEW S \in SUBSET Nat, S # {}
    PROVE  Lowest(S) \in S /\ \A y \in S : Lowest(S) <= y
<1>1. \E n \in S : \A m \in S : n <= m
  BY NatMin
<1> QED BY <1>1 DEF Lowest

LEMMA LowestBit ==
    ASSUME NEW S \in SUBSET Bits, S # {}
    PROVE  Lowest(S) \in S /\ \A y \in S : y \in Nat /\ Lowest(S) <= y
<1>1. S \in SUBSET Nat
  BY GeometryAssumption DEF Bits
<1> QED BY <1>1, LowestIsLeast

LEMMA LowestSlot ==
    ASSUME NEW S \in SUBSET Slot, S # {}
    PROVE  Lowest(S) \in S /\ Lowest(S) \in Slot
<1>1. S \in SUBSET Nat
  BY GeometryAssumption DEF Slot
<1> QED BY <1>1, LowestIsLeast

\* The slot of a position ahead of the node is a subscript, and the child there
\* stands for a bit between the node and the position.
LEMMA SlotAhead ==
    ASSUME NEW pos \in Pos, NEW p \in Bits, p > pos
    PROVE  /\ SlotOf(pos, p) \in Slot
           /\ ChildPos(pos, SlotOf(pos, p)) \in Bits
           /\ ChildPos(pos, SlotOf(pos, p)) <= p
  BY GeometryAssumption DEF Pos, PosNan, Bits, SlotOf, Slot, ChildPos, TailSlot

\* The positions behind the one that is spent are ahead of the child.
LEMMA RestAhead ==
    ASSUME NEW pos \in Pos, NEW rem \in SUBSET Bits, rem # {}, \A p \in rem : p > pos
    PROVE  /\ Lowest(rem) \in rem
           /\ SlotOf(pos, Lowest(rem)) \in Slot
           /\ ChildPos(pos, SlotOf(pos, Lowest(rem))) \in Bits
           /\ \A p \in rem \ {Lowest(rem)} : p > ChildPos(pos, SlotOf(pos, Lowest(rem)))
<1>1. Lowest(rem) \in rem /\ \A y \in rem : y \in Nat /\ Lowest(rem) <= y
  BY LowestBit
<1>2. /\ SlotOf(pos, Lowest(rem)) \in Slot
      /\ ChildPos(pos, SlotOf(pos, Lowest(rem))) \in Bits
      /\ ChildPos(pos, SlotOf(pos, Lowest(rem))) <= Lowest(rem)
  BY <1>1, SlotAhead
<1>3. ASSUME NEW p \in rem \ {Lowest(rem)}
      PROVE  p > ChildPos(pos, SlotOf(pos, Lowest(rem)))
  <2>1. p \in Nat /\ Lowest(rem) \in Nat /\ p # Lowest(rem) /\ Lowest(rem) <= p
    BY <1>1
  <2>2. ChildPos(pos, SlotOf(pos, Lowest(rem))) \in Nat
    BY <1>2, GeometryAssumption DEF Bits
  <2> QED BY <2>1, <2>2, <1>2
<1> QED BY <1>1, <1>2, <1>3

\* Far positions are ahead of the tail child although none is spent.
LEMMA FarAhead ==
    ASSUME NEW pos \in Pos, NEW rem \in SUBSET Bits, rem # {}, ~IsNear(pos, Lowest(rem)),
           NEW p \in rem
    PROVE  SlotOf(pos, p) = TailSlot /\ p > ChildPos(pos, TailSlot)
<1>1. Lowest(rem) \in Nat /\ p \in Nat /\ Lowest(rem) <= p
  BY LowestBit
<1>2. pos \in Int /\ MaxFout \in Nat
  BY GeometryAssumption DEF Pos, PosNan, Bits
<1> QED BY <1>1, <1>2 DEF IsNear, SlotOf, ChildPos, TailSlot

\* The slots a search scans in a node are subscripts, and there is one.
LEMMA SlotsAhead ==
    ASSUME NEW pos \in Pos, NEW rem \in SUBSET Bits, rem # {}, \A p \in rem : p > pos
    PROVE  SlotsOf(pos, rem) \in SUBSET Slot /\ SlotsOf(pos, rem) # {}
  BY SlotAhead DEF SlotsOf

LEMMA RootIsNode == Root \in Node
  BY TrieVAssumption DEF Root, Node

-----------------------------------------------------------------------------
(* Shape *)

\* The registers of the inserters fit the tree; the last position, and only it,
\* leads to the list of its end.
InserterFits(i) ==
    /\ ipc[i] = "idle" => irem[i] = {}
    /\ ipc[i] # "idle" =>
          /\ imeta[i] \in Meta /\ inode[i] \in 1 .. nodeNum /\ irem[i] # {}
          /\ ipc[i] \in {"endLock", "end"} <=> irem[i] = {Lowest(irem[i])}
    /\ ipc[i] = "descend" => children[ICell(i)] # NoNode

RootShape == nodePos[Root] = PosNan

TreeShape ==
    \A n \in Node, j \in Slot :
       children[<<n, j>>] # NoNode =>
          /\ n \in 1 .. nodeNum
          /\ children[<<n, j>>] \in 1 .. nodeNum
          /\ nodePos[children[<<n, j>>]] = ChildPos(nodePos[n], j)

SearcherFits(s) ==
    /\ spc[s] = "idle" <=> stack[s] = <<>>
    /\ \A k \in 1 .. Len(stack[s]) : stack[s][k].node \in 1 .. nodeNum
    /\ spc[s] \notin {"idle", "kids"} => scan[s] # {}
    /\ spc[s] = "scan" => count[s] <= Len(ptrList[SCell(s)])

InserterShape == \A i \in Inserters : InserterFits(i)
SearcherShape == \A s \in Searchers : SearcherFits(s)

Shape ==
    /\ TypeOK
    /\ PositionsAhead
    /\ RootShape
    /\ TreeShape
    /\ InserterShape
    /\ SearcherShape

LEMMA InserterFacts ==
    ASSUME Shape, NEW i \in Inserters, ipc[i] # "idle"
    PROVE  /\ imeta[i] \in Meta
           /\ inode[i] \in Node /\ inode[i] \in 1 .. nodeNum
           /\ nodePos[inode[i]] \in Pos
           /\ irem[i] \in SUBSET Bits /\ irem[i] # {}
           /\ \A p \in irem[i] : p > nodePos[inode[i]]
           /\ SlotOf(nodePos[inode[i]], Lowest(irem[i])) \in Slot
           /\ ICell(i) \in Cell
<1>1. /\ imeta[i] \in Meta /\ inode[i] \in Node /\ inode[i] \in 1 .. nodeNum
      /\ nodePos[inode[i]] \in Pos /\ irem[i] \in SUBSET Bits /\ irem[i] # {}
  BY DEF Shape, TypeOK, InserterShape, InserterFits, Pos
<1>2. \A p \in irem[i] : p > nodePos[inode[i]]
  BY DEF Shape, PositionsAhead
<1>3. SlotOf(nodePos[inode[i]], Lowest(irem[i])) \in Slot
  BY <1>1, <1>2, RestAhead
<1> QED BY <1>1, <1>2, <1>3 DEF ICell, Cell

LEMMA SearcherFacts ==
    ASSUME Shape, NEW s \in Searchers, spc[s] # "idle"
    PROVE  /\ stack[s] \in Seq(Frame) /\ stack[s] # <<>>
           /\ Head(stack[s]) \in Frame /\ Head(stack[s]) = stack[s][1]
           /\ Head(stack[s]).node \in 1 .. nodeNum
           /\ nodePos[Head(stack[s]).node] \in Pos
           /\ \A p \in Head(stack[s]).rem : p > nodePos[Head(stack[s]).node]
           /\ spc[s] # "kids" => scan[s] # {} /\ Lowest(scan[s]) \in scan[s] /\ SCell(s) \in Cell
<1>1. stack[s] \in Seq(Frame) /\ stack[s] # <<>>
  BY DEF Shape, TypeOK, SearcherShape, SearcherFits
<1>2. Head(stack[s]) \in Frame /\ Head(stack[s]) = stack[s][1] /\ 1 \in 1 .. Len(stack[s])
  BY <1>1
<1>3. Head(stack[s]).node \in 1 .. nodeNum
  BY <1>2 DEF Shape, SearcherShape, SearcherFits
<1>4. nodePos[Head(stack[s]).node] \in Pos
  BY <1>2 DEF Shape, TypeOK, Pos, Frame
<1>5. \A p \in Head(stack[s]).rem : p > nodePos[Head(stack[s]).node]
  BY <1>2 DEF Shape, PositionsAhead
<1>6. ASSUME spc[s] # "kids"
      PROVE  scan[s] # {} /\ Lowest(scan[s]) \in scan[s] /\ SCell(s) \in Cell
  <2>1. scan[s] \in SUBSET Slot /\ scan[s] # {}
    BY <1>6 DEF Shape, TypeOK, SearcherShape, SearcherFits
  <2>2. Lowest(scan[s]) \in scan[s] /\ Lowest(scan[s]) \in Slot
    BY <2>1, LowestSlot
  <2> QED BY <1>2, <2>1, <2>2 DEF SCell, Cell, Frame
<1> QED BY <1>1, <1>2, <1>3, <1>4, <1>5, <1>6

\* Lists that only grow and nodes that are only added leave the searchers alone.
LEMMA SearchersKept ==
    ASSUME Shape, UNCHANGED <<spc, stack, scan, count>>,
           nodeNum' \in Nat, nodeNum <= nodeNum',
           ptrList' \in [Cell -> Seq(Meta)],
           \A c \in Cell : Len(ptrList[c]) <= Len(ptrList'[c])
    PROVE  SearcherShape'
<1> SUFFICES ASSUME NEW s \in Searchers
             PROVE  /\ spc[s] = "idle" <=> stack[s] = <<>>
                    /\ \A k \in 1 .. Len(stack[s]) : stack[s][k].node \in 1 .. nodeNum'
                    /\ spc[s] \notin {"idle", "kids"} => scan[s] # {}
                    /\ spc[s] = "scan" => count[s] <= Len(ptrList'[SCell(s)])
  BY DEF SearcherShape, SearcherFits, SCell
<1>1. nodeNum \in Nat /\ count[s] \in Nat /\ ptrList \in [Cell -> Seq(Meta)]
  BY DEF Shape, TypeOK, Node
<1>2. /\ spc[s] = "idle" <=> stack[s] = <<>>
      /\ spc[s] \notin {"idle", "kids"} => scan[s] # {}
      /\ spc[s] = "scan" => count[s] <= Len(ptrList[SCell(s)])
  BY DEF Shape, SearcherShape, SearcherFits
<1>3. \A k \in 1 .. Len(stack[s]) : stack[s][k].node \in 1 .. nodeNum'
  BY <1>1 DEF Shape, SearcherShape, SearcherFits
<1>4. ASSUME spc[s] = "scan"
      PROVE  count[s] <= Len(ptrList'[SCell(s)])
  <2>1. SCell(s) \in Cell
    BY <1>4, SearcherFacts
  <2>2. Len(ptrList[SCell(s)]) \in Nat /\ Len(ptrList'[SCell(s)]) \in Nat
    BY <1>1, <2>1
  <2> QED BY <1>1, <1>2, <1>4, <2>1, <2>2
<1> QED BY <1>2, <1>3, <1>4

\* Steps of searchers leave the tree and the inserters alone.
LEMMA InsertersKept ==
    ASSUME Shape, UNCHANGED <<treeVars, ipc, imeta, inode, irem>>
    PROVE  InserterShape' /\ RootShape' /\ TreeShape'
  BY DEF Shape, InserterShape, InserterFits, RootShape, TreeShape, ICell, treeVars

-----------------------------------------------------------------------------
(* Shape: the steps of an inserter *)

\* A step of i that adds nothing to the tree: what is left to show of its registers.
LEMMA RegistersShape ==
    ASSUME Shape, NEW i \in Inserters, TypeOK', InserterFits(i)',
           \A p \in irem'[i] : p > nodePos[inode'[i]],
           \A j \in Inserters : j # i =>
              /\ ipc'[j] = ipc[j] /\ imeta'[j] = imeta[j]
              /\ inode'[j] = inode[j] /\ irem'[j] = irem[j],
           UNCHANGED <<nodeNum, nodePos, children, stack, spc, scan, count>>,
           \A c \in Cell : Len(ptrList[c]) <= Len(ptrList'[c])
    PROVE  Shape'
<1>1. PositionsAhead'
  BY DEF Shape, PositionsAhead
<1>2. RootShape' /\ TreeShape'
  BY DEF Shape, RootShape, TreeShape
<1>3. InserterShape'
  BY DEF Shape, InserterShape, InserterFits, ICell
<1>4. SearcherShape'
  <2>1. nodeNum' \in Nat /\ nodeNum <= nodeNum' /\ ptrList' \in [Cell -> Seq(Meta)]
    BY DEF Shape, TypeOK, Node
  <2> QED BY <2>1, SearchersKept
<1> QED BY <1>1, <1>2, <1>3, <1>4 DEF Shape

LEMMA Insert2Shape ==
    ASSUME Shape, NEW i \in Inserters, NEW m \in Meta, Insert2(i, m)
    PROVE  Shape'
<1> USE DEF treeVars, listVars, searchVars, scanVars, callVars
<1>0. /\ Zeros(Data[m]) \in SUBSET Bits /\ \A p \in Bits : p > PosNan
      /\ nodePos[Root] = PosNan /\ Root \in 1 .. nodeNum
      /\ now \in Time
  BY GeometryAssumption DEF Zeros, Bits, PosNan, Shape, RootShape, TypeOK, Root, Node
<1>1. /\ taken' = taken \cup {m} /\ stamp' = [stamp EXCEPT ![m] = now]
      /\ UNCHANGED <<now, treeVars, ptrList, endNode, removedLock, searchVars>>
  BY DEF Insert2
<1>2. \A c \in Cell : Len(ptrList[c]) <= Len(ptrList'[c])
  BY <1>1 DEF Shape, TypeOK
<1>3. CASE Zeros(Data[m]) = {}
  <2>1. inserted' = inserted \cup {m} /\ UNCHANGED <<ipc, imeta, inode, irem>>
    BY <1>3 DEF Insert2
  <2>2. TypeOK'
    BY <1>0, <1>1, <2>1 DEF Shape, TypeOK
  <2>3. InserterFits(i)' /\ \A p \in irem'[i] : p > nodePos[inode'[i]]
    BY <1>1, <2>1 DEF Shape, InserterShape, InserterFits, ICell, PositionsAhead
  <2> QED BY <1>1, <1>2, <2>1, <2>2, <2>3, RegistersShape
<1>4. CASE Zeros(Data[m]) # {}
  <2>1. /\ ipc' = [ipc EXCEPT ![i] = Enter(Zeros(Data[m]))]
        /\ imeta' = [imeta EXCEPT ![i] = m]
        /\ inode' = [inode EXCEPT ![i] = Root]
        /\ irem' = [irem EXCEPT ![i] = Zeros(Data[m])]
        /\ inserted' = inserted
    BY <1>4 DEF Insert2, IGoto
  <2>2. Enter(Zeros(Data[m])) = IF Zeros(Data[m]) = {Lowest(Zeros(Data[m]))} THEN "endLock" ELSE "room"
    BY DEF Enter
  <2>3. TypeOK'
    BY <1>0, <1>1, <2>1, <2>2, RootIsNode DEF Shape, TypeOK
  <2>4. InserterFits(i)'
    BY <1>0, <1>1, <1>4, <2>1, <2>2 DEF Shape, TypeOK, InserterFits
  <2>5. \A p \in irem'[i] : p > nodePos[inode'[i]]
    BY <1>0, <2>1 DEF Shape, TypeOK
  <2>6. \A j \in Inserters : j # i =>
           /\ ipc'[j] = ipc[j] /\ imeta'[j] = imeta[j]
           /\ inode'[j] = inode[j] /\ irem'[j] = irem[j]
    BY <2>1 DEF Shape, TypeOK
  <2> QED BY <1>1, <1>2, <2>3, <2>4, <2>5, <2>6, RegistersShape
<1> QED BY <1>3, <1>4

\* The steps that change ipc and perhaps a lock.
LEMMA ProbeShape ==
    ASSUME Shape, NEW i \in Inserters,
           ILockList(i, "endLock", "end") \/ ILockList(i, "pushLock", "push")
           \/ ProbeRoom(i) \/ ProbeChild(i) \/ LockNode(i)
    PROVE  Shape'
<1> USE DEF treeVars, listVars, searchVars, scanVars, callVars
<1>1. /\ UNCHANGED <<now, nodeNum, nodePos, children, ptrList, endNode, stamp,
                     imeta, inode, irem, taken, inserted, searchVars>>
      /\ \E from, to : /\ IGoto(i, from, to)
                       /\ \/ from = "endLock" /\ to = "end"
                          \/ from = "pushLock" /\ to = "push"
                          \/ from = "room" /\ to \in {"pushLock", "child"}
                          \/ from = "child" /\ to \in {"nodeLock", "descend"}
                          \/ from = "nodeLock" /\ to = "newNode"
                       /\ to = "descend" => ~NoChild(i)
  BY DEF ILockList, ProbeRoom, ProbeChild, LockNode, IUnchanged
<1>2. nodeLock' \in [Node -> {0, 1}] /\ removedLock' \in [Cell -> {0, 1}]
  BY DEF ILockList, ProbeRoom, ProbeChild, LockNode, Shape, TypeOK
<1>3. PICK from, to : /\ IGoto(i, from, to)
                      /\ \/ from = "endLock" /\ to = "end"
                         \/ from = "pushLock" /\ to = "push"
                         \/ from = "room" /\ to \in {"pushLock", "child"}
                         \/ from = "child" /\ to \in {"nodeLock", "descend"}
                         \/ from = "nodeLock" /\ to = "newNode"
                      /\ to = "descend" => ~NoChild(i)
  BY <1>1
<1>4. ipc[i] = from /\ ipc' = [ipc EXCEPT ![i] = to] /\ ipc'[i] = to
  BY <1>3 DEF IGoto, Shape, TypeOK
<1>5. TypeOK'
  BY <1>1, <1>2, <1>3, <1>4 DEF Shape, TypeOK
<1>6. InserterFits(i)'
  BY <1>1, <1>3, <1>4 DEF Shape, InserterShape, InserterFits, NoChild, ICell
<1>7. \A p \in irem'[i] : p > nodePos[inode'[i]]
  BY <1>1 DEF Shape, PositionsAhead
<1>8. \A c \in Cell : Len(ptrList[c]) <= Len(ptrList'[c])
  BY <1>1 DEF Shape, TypeOK
<1>9. \A j \in Inserters : j # i =>
         /\ ipc'[j] = ipc[j] /\ imeta'[j] = imeta[j]
         /\ inode'[j] = inode[j] /\ irem'[j] = irem[j]
  BY <1>1, <1>4 DEF Shape, TypeOK
<1> QED BY <1>1, <1>5, <1>6, <1>7, <1>8, <1>9, RegistersShape

\* What the two ends of an insertion do to the registers and to the lists.
LEMMA ReturnFacts ==
    ASSUME Shape, NEW i \in Inserters, EndNode(i) \/ Push(i)
    PROVE  /\ ipc[i] # "idle" /\ imeta[i] \in Meta /\ ICell(i) \in Cell
           /\ ipc' = [ipc EXCEPT ![i] = "idle"]
           /\ imeta' = [imeta EXCEPT ![i] = NoMeta]
           /\ inode' = [inode EXCEPT ![i] = Root]
           /\ irem' = [irem EXCEPT ![i] = {}]
           /\ inserted' = inserted \cup {imeta[i]}
           /\ UNCHANGED <<now, treeVars, taken, searchVars>>
           /\ removedLock' = [removedLock EXCEPT ![ICell(i)] = 0]
<1>1. ipc[i] # "idle"
  BY DEF EndNode, Push, IReturn, IGoto
<1>2. imeta[i] \in Meta /\ ICell(i) \in Cell
  BY <1>1, InserterFacts
<1> QED BY <1>1, <1>2 DEF EndNode, Push, IReturn, IGoto

LEMMA PushFacts ==
    ASSUME Shape, NEW i \in Inserters, Push(i)
    PROVE  /\ ipc[i] = "push" /\ UNCHANGED <<endNode, stamp>>
           /\ ptrList' \in [Cell -> Seq(Meta)]
           /\ ptrList'[ICell(i)] = Append(ptrList[ICell(i)], imeta[i])
           /\ \A c \in Cell : c # ICell(i) => ptrList'[c] = ptrList[c]
<1>1. ICell(i) \in Cell /\ imeta[i] \in Meta
  BY ReturnFacts
<1>2. ptrList \in [Cell -> Seq(Meta)] /\ ptrList[ICell(i)] \in Seq(Meta)
  BY <1>1 DEF Shape, TypeOK
<1>3. /\ ptrList' = [ptrList EXCEPT ![ICell(i)] = Append(@, imeta[i])]
      /\ ipc[i] = "push" /\ UNCHANGED <<endNode, stamp>>
  BY DEF Push, IReturn, IGoto
<1> QED BY <1>1, <1>2, <1>3

\* The signature that is added, or known already.
Same(i) == {k \in 1 .. Len(endNode[ICell(i)]) : Known(imeta[i], endNode[ICell(i)][k])}

LEMMA EndNodeFacts ==
    ASSUME Shape, NEW i \in Inserters, EndNode(i)
    PROVE  /\ ipc[i] = "end" /\ UNCHANGED ptrList
           /\ endNode' \in [Cell -> Seq(Meta)] /\ stamp' \in [Meta -> Time]
           /\ \A x \in Meta : stamp[x] <= stamp'[x]
           /\ \/ /\ UNCHANGED endNode
                 /\ \E k \in 1 .. Len(endNode[ICell(i)]) :
                       /\ Known(imeta[i], endNode[ICell(i)][k])
                       /\ endNode[ICell(i)][k] \in Meta
                       /\ stamp' = [stamp EXCEPT ![endNode[ICell(i)][k]] = Latest(stamp[imeta[i]], @)]
                       /\ stamp[imeta[i]] <= stamp'[endNode[ICell(i)][k]]
              \/ /\ UNCHANGED stamp
                 /\ endNode'[ICell(i)] = Append(endNode[ICell(i)], imeta[i])
                 /\ \A c \in Cell : c # ICell(i) => endNode'[c] = endNode[c]
<1> DEFINE c == ICell(i)
           m == imeta[i]
<1>0. c \in Cell /\ m \in Meta
  BY ReturnFacts
<1>1. /\ endNode \in [Cell -> Seq(Meta)] /\ endNode[c] \in Seq(Meta)
      /\ stamp \in [Meta -> Time] /\ stamp[m] \in Time
  BY <1>0 DEF Shape, TypeOK
<1>2. Time \subseteq Nat
  BY TrieVAssumption DEF Time
<1>3. /\ ipc[i] = "end" /\ UNCHANGED ptrList
      /\ Same(i) # {} => /\ stamp' = [stamp EXCEPT ![endNode[c][Lowest(Same(i))]] = Latest(stamp[m], @)]
                         /\ UNCHANGED endNode
      /\ Same(i) = {} => endNode' = [endNode EXCEPT ![c] = Append(@, m)] /\ UNCHANGED stamp
  BY DEF EndNode, IReturn, IGoto, Same
<1>4. CASE Same(i) # {}
  <2>1. Same(i) \in SUBSET Nat
    BY DEF Same
  <2>2. Lowest(Same(i)) \in Same(i)
    BY <1>4, <2>1, LowestIsLeast
  <2>3. PICK k : k = Lowest(Same(i))
    OBVIOUS
  <2>4. k \in 1 .. Len(endNode[c]) /\ Known(m, endNode[c][k])
    BY <2>2, <2>3 DEF Same
  <2>5. PICK x : x = endNode[c][k]
    OBVIOUS
  <2>6. x \in Meta
    BY <1>1, <2>4, <2>5
  <2>7. stamp[x] \in Time /\ stamp' = [stamp EXCEPT ![x] = Latest(stamp[m], @)]
    BY <1>1, <1>3, <1>4, <2>3, <2>5, <2>6
  <2>8. Latest(stamp[m], stamp[x]) \in Time /\ stamp[x] <= Latest(stamp[m], stamp[x])
        /\ stamp[m] <= Latest(stamp[m], stamp[x])
    <3>1. PICK new : new = stamp[m]
      OBVIOUS
    <3>2. PICK old : old = stamp[x]
      OBVIOUS
    <3>3. new \in Time /\ old \in Time
      BY <1>1, <2>7, <3>1, <3>2
    <3>4. new \in Nat /\ old \in Nat
      BY <1>2, <3>3
    <3>5. Latest(new, old) \in Time /\ old <= Latest(new, old) /\ new <= Latest(new, old)
      BY <3>3, <3>4 DEF Latest
    <3> QED BY <3>1, <3>2, <3>5
  <2>9. /\ stamp' \in [Meta -> Time] /\ stamp'[x] = Latest(stamp[m], stamp[x])
        /\ \A z \in Meta : z # x => stamp'[z] = stamp[z]
    BY <1>1, <2>6, <2>7, <2>8
  <2>10. \A z \in Meta : stamp[z] <= stamp'[z]
    <3> TAKE z \in Meta
    <3>1. stamp[z] \in Nat
      BY <1>1, <1>2
    <3> QED BY <2>8, <2>9, <3>1
  <2>11. UNCHANGED endNode /\ endNode' \in [Cell -> Seq(Meta)]
    BY <1>1, <1>3, <1>4
  <2> HIDE DEF c, m
  <2>12. \E l \in 1 .. Len(endNode[c]) :
            /\ Known(m, endNode[c][l])
            /\ endNode[c][l] \in Meta
            /\ stamp' = [stamp EXCEPT ![endNode[c][l]] = Latest(stamp[m], @)]
            /\ stamp[m] <= stamp'[endNode[c][l]]
    BY <2>4, <2>5, <2>6, <2>7, <2>8, <2>9
  <2> QED BY <1>3, <2>9, <2>10, <2>11, <2>12 DEF c, m
<1>5. CASE Same(i) = {}
  <2>1. endNode' = [endNode EXCEPT ![c] = Append(@, m)] /\ UNCHANGED stamp
    BY <1>3, <1>5
  <2>2. \A x \in Meta : stamp[x] <= stamp'[x]
    <3> TAKE x \in Meta
    <3>1. stamp[x] \in Nat
      BY <1>1, <1>2
    <3> QED BY <2>1, <3>1
  <2>3. /\ endNode' \in [Cell -> Seq(Meta)]
        /\ endNode'[c] = Append(endNode[c], m)
        /\ \A d \in Cell : d # c => endNode'[d] = endNode[d]
    BY <1>0, <1>1, <2>1
  <2> QED BY <1>1, <1>3, <2>1, <2>2, <2>3
<1> QED BY <1>4, <1>5

LEMMA ReturnShape ==
    ASSUME Shape, NEW i \in Inserters, EndNode(i) \/ Push(i)
    PROVE  Shape'
<1> USE DEF treeVars, listVars, searchVars, scanVars, callVars
<1>1. /\ imeta[i] \in Meta /\ ICell(i) \in Cell
      /\ ipc' = [ipc EXCEPT ![i] = "idle"]
      /\ imeta' = [imeta EXCEPT ![i] = NoMeta]
      /\ inode' = [inode EXCEPT ![i] = Root]
      /\ irem' = [irem EXCEPT ![i] = {}]
      /\ inserted' = inserted \cup {imeta[i]}
      /\ UNCHANGED <<now, treeVars, taken, searchVars>>
      /\ removedLock' = [removedLock EXCEPT ![ICell(i)] = 0]
  BY ReturnFacts
<1>2. ptrList \in [Cell -> Seq(Meta)] /\ endNode \in [Cell -> Seq(Meta)] /\ stamp \in [Meta -> Time]
  BY DEF Shape, TypeOK
<1>3. /\ ptrList' \in [Cell -> Seq(Meta)] /\ endNode' \in [Cell -> Seq(Meta)]
      /\ stamp' \in [Meta -> Time]
      /\ \A c \in Cell : ptrList'[c] = ptrList[c] \/ ptrList'[c] = Append(ptrList[c], imeta[i])
  <2>1. CASE Push(i)
    BY <1>2, <2>1, PushFacts
  <2>2. CASE EndNode(i)
    BY <1>2, <2>2, EndNodeFacts
  <2> QED BY <2>1, <2>2
<1>4. TypeOK'
  BY <1>1, <1>3, RootIsNode DEF Shape, TypeOK
<1>5. ipc'[i] = "idle" /\ irem'[i] = {}
  BY <1>1 DEF Shape, TypeOK
<1>6. InserterFits(i)' /\ \A p \in irem'[i] : p > nodePos[inode'[i]]
  BY <1>5 DEF InserterFits
<1>7. \A c \in Cell : Len(ptrList[c]) <= Len(ptrList'[c])
  <2> TAKE c \in Cell
  <2>1. ptrList[c] \in Seq(Meta)
    BY <1>2
  <2> QED BY <1>1, <1>3, <2>1
<1>8. \A j \in Inserters : j # i =>
         /\ ipc'[j] = ipc[j] /\ imeta'[j] = imeta[j]
         /\ inode'[j] = inode[j] /\ irem'[j] = irem[j]
  BY <1>1 DEF Shape, TypeOK
<1> QED BY <1>1, <1>4, <1>6, <1>7, <1>8, RegistersShape

LEMMA DescendShape ==
    ASSUME Shape, NEW i \in Inserters, Descend(i)
    PROVE  Shape'
<1> USE DEF treeVars, listVars, searchVars, scanVars, callVars
<1> DEFINE par == inode[i]
           slot == SlotOf(nodePos[par], Lowest(irem[i]))
           child == children[<<par, slot>>]
           rest == irem[i] \ {Lowest(irem[i])}
<1>0. /\ ipc[i] = "descend" /\ ipc' = [ipc EXCEPT ![i] = Enter(rest)]
      /\ inode' = [inode EXCEPT ![i] = child] /\ irem' = [irem EXCEPT ![i] = rest]
      /\ UNCHANGED <<imeta, taken, inserted, now, treeVars, listVars, searchVars>>
  BY DEF Descend, IGoto, ICell
<1>1. par \in Node /\ slot \in Slot /\ ICell(i) = <<par, slot>> /\ irem[i] \in SUBSET Bits
      /\ imeta[i] \in Meta /\ irem[i] # {}
  BY <1>0, InserterFacts DEF ICell
<1>2. child # NoNode /\ child \in 1 .. nodeNum /\ nodePos[child] = ChildPos(nodePos[par], slot)
  BY <1>0, <1>1 DEF Shape, InserterShape, InserterFits, TreeShape
<1>3. rest \in SUBSET Bits /\ rest # {}
  BY <1>0, <1>1 DEF Shape, InserterShape, InserterFits
<1>4. \A p \in rest : p > nodePos[child]
  BY <1>0, <1>2, InserterFacts, RestAhead
<1>5. child \in Node
  BY <1>2, TrieVAssumption DEF Shape, TypeOK, Node
<1>6. Enter(rest) = IF rest = {Lowest(rest)} THEN "endLock" ELSE "room"
  BY DEF Enter
<1> HIDE DEF par, slot, child, rest
<1>7. TypeOK'
  BY <1>0, <1>3, <1>5, <1>6 DEF Shape, TypeOK
<1>8. InserterFits(i)' /\ \A p \in irem'[i] : p > nodePos[inode'[i]]
  BY <1>0, <1>1, <1>2, <1>3, <1>4, <1>6 DEF Shape, TypeOK, InserterFits
<1>9. \A c \in Cell : Len(ptrList[c]) <= Len(ptrList'[c])
  BY <1>0 DEF Shape, TypeOK
<1>10. \A j \in Inserters : j # i =>
         /\ ipc'[j] = ipc[j] /\ imeta'[j] = imeta[j]
         /\ inode'[j] = inode[j] /\ irem'[j] = irem[j]
  BY <1>0 DEF Shape, TypeOK
<1> QED BY <1>0, <1>7, <1>8, <1>9, <1>10, RegistersShape

LEMMA NewNodeShape ==
    ASSUME Shape, NEW i \in Inserters, NewNode(i)
    PROVE  Shape'
<1> USE DEF listVars, searchVars, scanVars, callVars
<1> DEFINE par == inode[i]
           slot == SlotOf(nodePos[par], Lowest(irem[i]))
           n == nodeNum + 1
           pos == ChildPos(nodePos[par], slot)
<1>0. /\ ipc[i] = "newNode" /\ ipc' = [ipc EXCEPT ![i] = "descend"] /\ n \in Node
      /\ nodeNum' = n
      /\ nodePos' = [nodePos EXCEPT ![n] = pos]
      /\ children' = [children EXCEPT ![<<par, slot>>] = n]
      /\ nodeLock' = [nodeLock EXCEPT ![par] = 0]
      /\ UNCHANGED <<imeta, inode, irem, taken, inserted, now, listVars, searchVars>>
  BY DEF NewNode, IGoto, IUnchanged, ICell
<1>1. /\ par \in Node /\ par \in 1 .. nodeNum /\ slot \in Slot /\ ICell(i) = <<par, slot>>
      /\ ICell(i) \in Cell
  BY <1>0, InserterFacts DEF ICell
<1>2. pos \in Bits
  BY <1>0, InserterFacts, RestAhead
<1>3. /\ nodeNum \in Nat /\ nodePos \in [Node -> Pos]
      /\ children \in [Cell -> Node \cup {NoNode}]
  BY DEF Shape, TypeOK, Node, Pos
<1>4. nodePos' \in [Node -> Pos] /\ \A q \in 1 .. nodeNum : q \in Node /\ nodePos'[q] = nodePos[q]
  BY <1>0, <1>2, <1>3, TrieVAssumption DEF Node, Pos
<1> HIDE DEF par, slot, n, pos
<1>5. TypeOK'
  BY <1>0, <1>1, <1>3, <1>4 DEF Shape, TypeOK, Pos
<1>6. PositionsAhead'
  <2>1. ASSUME NEW j \in Inserters, NEW p \in irem[j]
        PROVE  p > nodePos'[inode[j]]
    <3>1. ipc[j] # "idle"
      BY DEF Shape, InserterShape, InserterFits
    <3> QED BY <1>4, <3>1, InserterFacts
  <2>2. ASSUME NEW s \in Searchers, NEW k \in 1 .. Len(stack[s]), NEW p \in stack[s][k].rem
        PROVE  p > nodePos'[stack[s][k].node]
    BY <1>4 DEF Shape, SearcherShape, SearcherFits, PositionsAhead
  <2> QED BY <1>0, <2>1, <2>2 DEF PositionsAhead
<1>7. TreeShape'
  <2> SUFFICES ASSUME NEW q \in Node, NEW j \in Slot, children'[<<q, j>>] # NoNode
               PROVE  /\ q \in 1 .. nodeNum'
                      /\ children'[<<q, j>>] \in 1 .. nodeNum'
                      /\ nodePos'[children'[<<q, j>>]] = ChildPos(nodePos'[q], j)
    BY DEF TreeShape
  <2>0. <<q, j>> \in Cell
    BY DEF Cell
  <2>1. CASE q = par /\ j = slot
    <3>1. children'[<<q, j>>] = n
      BY <1>0, <1>3, <2>0, <2>1
    <3>2. nodePos'[n] = pos /\ nodePos'[q] = nodePos[par]
      BY <1>0, <1>1, <1>3, <1>4, <2>1
    <3> QED BY <1>0, <1>1, <1>3, <2>1, <3>1, <3>2 DEF n, pos
  <2>2. CASE ~(q = par /\ j = slot)
    <3>1. children'[<<q, j>>] = children[<<q, j>>]
      BY <1>0, <1>3, <2>0, <2>2
    <3>2. /\ q \in 1 .. nodeNum /\ children[<<q, j>>] \in 1 .. nodeNum
          /\ nodePos[children[<<q, j>>]] = ChildPos(nodePos[q], j)
      BY <3>1 DEF Shape, TreeShape
    <3> QED BY <1>0, <1>3, <1>4, <3>1, <3>2 DEF n
  <2> QED BY <2>1, <2>2
<1>8. InserterShape'
  <2> SUFFICES ASSUME NEW j \in Inserters
               PROVE  InserterFits(j)'
    BY DEF InserterShape
  <2>1. ipc'[j] = (IF j = i THEN "descend" ELSE ipc[j])
    BY <1>0 DEF Shape, TypeOK
  <2>2. InserterFits(j) /\ InserterFits(i)
    BY DEF Shape, InserterShape
  <2>3. /\ ipc'[j] = "idle" => irem'[j] = {}
        /\ ipc'[j] # "idle" =>
              /\ imeta'[j] \in Meta /\ inode'[j] \in 1 .. nodeNum' /\ irem'[j] # {}
              /\ ipc'[j] \in {"endLock", "end"} <=> irem'[j] = {Lowest(irem'[j])}
    BY <1>0, <1>3, <2>1, <2>2 DEF InserterFits, n
  <2>4. ASSUME ipc'[j] = "descend"
        PROVE  children'[ICell(j)'] # NoNode
    <3>1. ipc[j] # "idle"
      BY <1>0, <2>1, <2>4
    <3>2. inode[j] \in 1 .. nodeNum /\ ICell(j) \in Cell
      BY <3>1, InserterFacts
    <3>3. ICell(j)' = ICell(j)
      BY <1>0, <1>4, <3>2 DEF ICell
    <3>4. n # NoNode
      BY <1>3 DEF n, NoNode
    <3>5. CASE j = i
      BY <1>0, <1>1, <1>3, <3>3, <3>4, <3>5
    <3>6. CASE j # i
      <4>1. children[ICell(j)] # NoNode
        BY <2>1, <2>2, <2>4, <3>6 DEF InserterFits
      <4> QED BY <1>0, <1>3, <3>2, <3>3, <3>4, <4>1
    <3> QED BY <3>5, <3>6
  <2> QED BY <2>3, <2>4 DEF InserterFits
<1>9. SearcherShape'
  <2>1. nodeNum' \in Nat /\ nodeNum <= nodeNum' /\ UNCHANGED <<spc, stack, scan, count>>
    BY <1>0, <1>3 DEF n
  <2>2. /\ \A d \in Cell : Len(ptrList[d]) <= Len(ptrList'[d])
        /\ ptrList' \in [Cell -> Seq(Meta)]
    <3>1. ptrList' = ptrList /\ ptrList \in [Cell -> Seq(Meta)]
      BY <1>0 DEF Shape, TypeOK
    <3>2. \A d \in Cell : Len(ptrList[d]) \in Nat
      BY <3>1
    <3> QED BY <3>1, <3>2
  <2> QED BY <2>1, <2>2, SearchersKept DEF Shape, TypeOK
<1>10. RootShape'
  <2>1. Root \in 1 .. nodeNum
    BY <1>3 DEF Shape, TypeOK, Root, Node
  <2> QED BY <1>4, <2>1 DEF Shape, RootShape
<1> QED BY <1>5, <1>6, <1>7, <1>8, <1>9, <1>10 DEF Shape

-----------------------------------------------------------------------------
(* Shape: the steps of a searcher *)

\* A step that leaves the tree, the inserters and the activations alone.
LEMMA ScanShape ==
    ASSUME Shape, NEW s \in Searchers, TypeOK', SearcherFits(s)',
           UNCHANGED <<treeVars, ipc, imeta, inode, irem, stack, ptrList>>,
           \A t \in Searchers : t # s =>
              spc'[t] = spc[t] /\ scan'[t] = scan[t] /\ count'[t] = count[t]
    PROVE  Shape'
<1>1. PositionsAhead'
  BY DEF Shape, PositionsAhead, treeVars
<1>2. InserterShape' /\ RootShape' /\ TreeShape'
  BY InsertersKept
<1>3. SearcherShape'
  BY DEF Shape, SearcherShape, SearcherFits, SCell, treeVars
<1> QED BY <1>1, <1>2, <1>3 DEF Shape

LEMMA SLockListShape ==
    ASSUME Shape, NEW s \in Searchers, SLockList(s)
    PROVE  Shape'
<1> USE DEF treeVars, listVars, insVars, scanVars, callVars
<1>0. /\ spc[s] = "countLock" /\ spc' = [spc EXCEPT ![s] = "count"]
      /\ removedLock' = [removedLock EXCEPT ![SCell(s)] = 1]
      /\ UNCHANGED <<now, treeVars, ptrList, endNode, stamp, insVars, scanVars, callVars>>
  BY DEF SLockList, SGoto
<1>1. TypeOK'
  BY <1>0, SearcherFacts DEF Shape, TypeOK
<1>2. SearcherFits(s)'
  BY <1>0 DEF Shape, TypeOK, SearcherShape, SearcherFits
<1>3. \A t \in Searchers : t # s =>
         spc'[t] = spc[t] /\ scan'[t] = scan[t] /\ count'[t] = count[t]
  BY <1>0 DEF Shape, TypeOK
<1> QED BY <1>0, <1>1, <1>2, <1>3, ScanShape

LEMMA CountFacts ==
    ASSUME Shape, NEW s \in Searchers, Count(s)
    PROVE  /\ SCell(s) \in Cell /\ spc[s] = "count" /\ spc' = [spc EXCEPT ![s] = "scan"]
           /\ count' = [count EXCEPT ![s] = Len(ptrList[SCell(s)])]
           /\ endList' = [endList EXCEPT ![s] = endNode[SCell(s)]]
           /\ ptrList[SCell(s)] \in Seq(Meta) /\ endNode[SCell(s)] \in Seq(Meta)
           /\ Len(ptrList[SCell(s)]) \in Nat
           /\ removedLock' = [removedLock EXCEPT ![SCell(s)] = 0]
           /\ UNCHANGED <<now, treeVars, ptrList, endNode, stamp, insVars, stack, scan, answer,
                          callVars>>
<1>1. /\ spc[s] = "count" /\ spc' = [spc EXCEPT ![s] = "scan"]
      /\ count' = [count EXCEPT ![s] = Len(ptrList[SCell(s)])]
      /\ endList' = [endList EXCEPT ![s] = endNode[SCell(s)]]
      /\ removedLock' = [removedLock EXCEPT ![SCell(s)] = 0]
      /\ UNCHANGED <<now, treeVars, ptrList, endNode, stamp, insVars, stack, scan, answer,
                     callVars>>
  BY DEF Count, SGoto
<1>2. SCell(s) \in Cell
  BY <1>1, SearcherFacts
<1>3. ptrList[SCell(s)] \in Seq(Meta) /\ endNode[SCell(s)] \in Seq(Meta)
  BY <1>2 DEF Shape, TypeOK
<1> QED BY <1>1, <1>2, <1>3

LEMMA CountShape ==
    ASSUME Shape, NEW s \in Searchers, Count(s)
    PROVE  Shape'
<1> USE DEF treeVars, insVars, callVars
<1> DEFINE c == SCell(s)
<1>0. /\ c \in Cell /\ spc[s] = "count" /\ spc' = [spc EXCEPT ![s] = "scan"]
      /\ count' = [count EXCEPT ![s] = Len(ptrList[c])]
      /\ endList' = [endList EXCEPT ![s] = endNode[c]]
      /\ ptrList[c] \in Seq(Meta) /\ endNode[c] \in Seq(Meta) /\ Len(ptrList[c]) \in Nat
      /\ removedLock' = [removedLock EXCEPT ![c] = 0]
      /\ UNCHANGED <<now, treeVars, ptrList, endNode, stamp, insVars, stack, scan, answer,
                     callVars>>
  BY CountFacts
<1>1. SCell(s)' = c
  BY <1>0 DEF SCell
<1> HIDE DEF c
<1>2. TypeOK'
  BY <1>0 DEF Shape, TypeOK
<1>3. SearcherFits(s)'
  <2>1. SearcherFits(s) /\ spc'[s] = "scan" /\ count'[s] = Len(ptrList[c])
    BY <1>0 DEF Shape, TypeOK, SearcherShape
  <2>2. count'[s] <= Len(ptrList'[SCell(s)'])
    BY <1>0, <1>1, <2>1
  <2> QED BY <1>0, <2>1, <2>2 DEF SearcherFits
<1>4. \A t \in Searchers : t # s =>
         spc'[t] = spc[t] /\ scan'[t] = scan[t] /\ count'[t] = count[t]
  BY <1>0 DEF Shape, TypeOK
<1> QED BY <1>0, <1>2, <1>3, <1>4, ScanShape

LEMMA ScanSlotFacts ==
    ASSUME Shape, NEW s \in Searchers, ScanSlot(s)
    PROVE  \E left : /\ left = IF FoundIn(s) THEN {} ELSE scan[s] \ {Lowest(scan[s])}
                     /\ left \in SUBSET Slot
                     /\ spc[s] = "scan"
                     /\ spc' = [spc EXCEPT ![s] = IF left = {} THEN "kids" ELSE "countLock"]
                     /\ answer' \in [Searchers -> BOOLEAN]
                     /\ answer'[s] <=> answer[s] \/ FoundIn(s)
                     /\ \A t \in Searchers : t # s => answer'[t] = answer[t]
                     /\ scan' = [scan EXCEPT ![s] = left]
                     /\ endList' = [endList EXCEPT ![s] = <<>>]
                     /\ count' = [count EXCEPT ![s] = 0]
                     /\ UNCHANGED <<now, treeVars, listVars, insVars, stack, callVars>>
<1> DEFINE left == IF FoundIn(s) THEN {} ELSE scan[s] \ {Lowest(scan[s])}
<1>1. left \in SUBSET Slot
  <2>1. scan[s] \in SUBSET Slot
    BY DEF Shape, TypeOK
  <2> QED BY <2>1
<1>2. /\ spc[s] = "scan"
      /\ spc' = [spc EXCEPT ![s] = IF left = {} THEN "kids" ELSE "countLock"]
      /\ answer' = [answer EXCEPT ![s] = @ \/ FoundIn(s)]
      /\ scan' = [scan EXCEPT ![s] = left]
      /\ endList' = [endList EXCEPT ![s] = <<>>]
      /\ count' = [count EXCEPT ![s] = 0]
      /\ UNCHANGED <<now, treeVars, listVars, insVars, stack, callVars>>
  BY DEF ScanSlot, SGoto
<1>3. answer \in [Searchers -> BOOLEAN]
  BY DEF Shape, TypeOK
<1> HIDE DEF left
<1>4. PICK b \in BOOLEAN : b <=> answer[s] \/ FoundIn(s)
  OBVIOUS
<1>5. answer' = [answer EXCEPT ![s] = b]
  <2>1. (answer[s] \/ FoundIn(s)) = b
    BY <1>3, <1>4
  <2> QED BY <1>2, <2>1
<1>6. /\ answer' \in [Searchers -> BOOLEAN] /\ answer'[s] = b
      /\ \A t \in Searchers : t # s => answer'[t] = answer[t]
  BY <1>3, <1>5
<1> QED BY <1>1, <1>2, <1>4, <1>6 DEF left

LEMMA ScanSlotShape ==
    ASSUME Shape, NEW s \in Searchers, ScanSlot(s)
    PROVE  Shape'
<1> USE DEF treeVars, listVars, insVars, callVars
<1>0. PICK left : /\ left \in SUBSET Slot
                  /\ spc[s] = "scan"
                  /\ spc' = [spc EXCEPT ![s] = IF left = {} THEN "kids" ELSE "countLock"]
                  /\ answer' \in [Searchers -> BOOLEAN]
                  /\ scan' = [scan EXCEPT ![s] = left]
                  /\ endList' = [endList EXCEPT ![s] = <<>>]
                  /\ count' = [count EXCEPT ![s] = 0]
                  /\ UNCHANGED <<now, treeVars, listVars, insVars, stack, callVars>>
  BY ScanSlotFacts
<1>1. TypeOK'
  BY <1>0 DEF Shape, TypeOK
<1>2. SearcherFits(s)'
  BY <1>0 DEF Shape, TypeOK, SearcherShape, SearcherFits
<1>3. \A t \in Searchers : t # s =>
         spc'[t] = spc[t] /\ scan'[t] = scan[t] /\ count'[t] = count[t]
  BY <1>0 DEF Shape, TypeOK
<1> QED BY <1>0, <1>1, <1>2, <1>3, ScanShape

\* Frames that fit the tree: their nodes exist and lie before their positions.
Fits(frames) ==
    /\ frames \in Seq(Frame)
    /\ \A k \in 1 .. Len(frames) :
          /\ frames[k].node \in 1 .. nodeNum
          /\ \A p \in frames[k].rem : p > nodePos[frames[k].node]

\* The activations below the running one fit the tree, and those with another
\* one on top.
LEMMA TailFits ==
    ASSUME Shape, NEW s \in Searchers, spc[s] # "idle"
    PROVE  /\ Fits(Tail(stack[s])) /\ Len(stack[s]) \in Nat \ {0}
           /\ Len(Tail(stack[s])) = Len(stack[s]) - 1
           /\ \A k \in 1 .. Len(stack[s]) - 1 : Tail(stack[s])[k] = stack[s][k + 1]
<1>1. stack[s] \in Seq(Frame) /\ stack[s] # <<>>
  BY SearcherFacts
<1>2. /\ Tail(stack[s]) \in Seq(Frame) /\ Len(Tail(stack[s])) = Len(stack[s]) - 1
      /\ Len(stack[s]) \in Nat \ {0}
      /\ \A k \in 1 .. Len(stack[s]) - 1 : Tail(stack[s])[k] = stack[s][k + 1]
  BY <1>1
<1>3. ASSUME NEW k \in 1 .. Len(Tail(stack[s]))
      PROVE  /\ Tail(stack[s])[k].node \in 1 .. nodeNum
             /\ \A p \in Tail(stack[s])[k].rem : p > nodePos[Tail(stack[s])[k].node]
  <2>1. k + 1 \in 1 .. Len(stack[s]) /\ Tail(stack[s])[k] = stack[s][k + 1]
    BY <1>1, <1>2
  <2> QED BY <2>1 DEF Shape, SearcherShape, SearcherFits, PositionsAhead
<1> QED BY <1>2, <1>3 DEF Fits

LEMMA PushedFits ==
    ASSUME NEW top \in Frame, NEW below, Fits(below), top.node \in 1 .. nodeNum,
           \A p \in top.rem : p > nodePos[top.node]
    PROVE  /\ Fits(<<top>> \o below) /\ <<top>> \o below # <<>>
           /\ Len(<<top>> \o below) = Len(below) + 1 /\ Len(below) \in Nat
           /\ (<<top>> \o below)[1] = top
           /\ \A k \in 1 .. Len(below) : (<<top>> \o below)[k + 1] = below[k]
<1> DEFINE pushed == <<top>> \o below
<1>1. below \in Seq(Frame)
  BY DEF Fits
<1>2. /\ pushed \in Seq(Frame) /\ Len(pushed) = Len(below) + 1 /\ Len(below) \in Nat
      /\ pushed[1] = top /\ pushed # <<>>
      /\ \A k \in 1 .. Len(below) : pushed[k + 1] = below[k]
      /\ \A k \in 2 .. Len(pushed) : k - 1 \in 1 .. Len(below) /\ pushed[k] = below[k - 1]
  BY <1>1
<1> HIDE DEF pushed
<1>3. ASSUME NEW k \in 1 .. Len(pushed)
      PROVE  /\ pushed[k].node \in 1 .. nodeNum
             /\ \A p \in pushed[k].rem : p > nodePos[pushed[k].node]
  <2>1. CASE k = 1
    BY <1>2, <2>1
  <2>2. CASE k # 1
    <3>1. k \in 2 .. Len(pushed)
      BY <1>2, <2>2
    <3> QED BY <1>2, <3>1 DEF Fits
  <2> QED BY <2>1, <2>2
<1>4. Fits(pushed)
  BY <1>2, <1>3 DEF Fits
<1> QED BY <1>2, <1>4 DEF pushed

\* A step of s that changes its activations keeps Shape if they fit.
LEMMA StackShape ==
    ASSUME Shape, NEW s \in Searchers, TypeOK',
           NEW frames, Fits(frames), stack' = [stack EXCEPT ![s] = frames],
           spc'[s] = "idle" <=> frames = <<>>,
           spc'[s] \notin {"idle", "kids"} => scan'[s] # {},
           spc'[s] # "scan",
           UNCHANGED <<treeVars, ipc, imeta, inode, irem, ptrList>>,
           \A t \in Searchers : t # s =>
              spc'[t] = spc[t] /\ scan'[t] = scan[t] /\ count'[t] = count[t]
    PROVE  Shape'
<1>0. stack'[s] = frames /\ \A t \in Searchers : t # s => stack'[t] = stack[t]
  BY DEF Shape, TypeOK
<1>1. PositionsAhead'
  <2>1. \A i \in Inserters : \A p \in irem'[i] : p > nodePos'[inode'[i]]
    BY DEF Shape, PositionsAhead, treeVars
  <2>2. ASSUME NEW t \in Searchers, NEW k \in 1 .. Len(stack'[t]), NEW p \in stack'[t][k].rem
        PROVE  p > nodePos'[stack'[t][k].node]
    <3>1. CASE t # s
      BY <1>0, <3>1 DEF Shape, PositionsAhead, treeVars
    <3>2. CASE t = s
      BY <1>0, <3>2 DEF Fits, treeVars
    <3> QED BY <3>1, <3>2
  <2> QED BY <2>1, <2>2 DEF PositionsAhead
<1>2. InserterShape' /\ RootShape' /\ TreeShape'
  BY InsertersKept
<1>3. SearcherShape'
  <2> SUFFICES ASSUME NEW t \in Searchers
               PROVE  SearcherFits(t)'
    BY DEF SearcherShape
  <2>1. CASE t # s
    BY <1>0, <2>1 DEF Shape, SearcherShape, SearcherFits, SCell, treeVars
  <2>2. CASE t = s
    BY <1>0, <2>2 DEF SearcherFits, Fits, treeVars
  <2> QED BY <2>1, <2>2
<1> QED BY <1>1, <1>2, <1>3 DEF Shape

LEMMA NodeReturnShape ==
    ASSUME Shape, NEW s \in Searchers, NodeReturn(s)
    PROVE  Shape'
<1> USE DEF treeVars, listVars, insVars, callVars
<1>0. /\ spc[s] = "kids" /\ spc' = [spc EXCEPT ![s] = IF Len(stack[s]) = 1 THEN "idle" ELSE "kids"]
      /\ stack' = [stack EXCEPT ![s] = Tail(stack[s])]
      /\ UNCHANGED <<now, treeVars, listVars, insVars, scan, endList, count, answer, callVars>>
  BY DEF NodeReturn, SGoto
<1>1. /\ Fits(Tail(stack[s])) /\ Len(stack[s]) \in Nat \ {0}
      /\ Len(Tail(stack[s])) = Len(stack[s]) - 1
  BY <1>0, TailFits
<1>2. TypeOK'
  BY <1>0, <1>1 DEF Shape, TypeOK, Fits
<1>3. spc'[s] \in {"idle", "kids"} /\ (spc'[s] = "idle" <=> Tail(stack[s]) = <<>>)
  <2>1. Tail(stack[s]) = <<>> <=> Len(Tail(stack[s])) = 0
    BY <1>1, EmptySeq DEF Fits
  <2>2. Len(stack[s]) = 1 <=> Len(Tail(stack[s])) = 0
    BY <1>1
  <2>3. spc'[s] = IF Len(stack[s]) = 1 THEN "idle" ELSE "kids"
    BY <1>0 DEF Shape, TypeOK
  <2> QED BY <2>1, <2>2, <2>3
<1>4. \A t \in Searchers : t # s =>
         spc'[t] = spc[t] /\ scan'[t] = scan[t] /\ count'[t] = count[t]
  BY <1>0 DEF Shape, TypeOK
<1>5. PICK frames : frames = Tail(stack[s])
  OBVIOUS
<1>6. spc'[s] # "scan" /\ (spc'[s] \notin {"idle", "kids"} => scan'[s] # {})
      /\ (spc'[s] = "idle" <=> frames = <<>>) /\ Fits(frames)
      /\ stack' = [stack EXCEPT ![s] = frames]
      /\ UNCHANGED <<treeVars, ipc, imeta, inode, irem, ptrList>>
  BY <1>0, <1>1, <1>3, <1>5
<1> QED BY <1>2, <1>4, <1>6, StackShape

\* A call of Search on node n keeps Shape if what it leaves on the stack fits.
LEMMA CallShape ==
    ASSUME Shape, NEW s \in Searchers, NEW n \in 1 .. nodeNum,
           NEW rem \in SUBSET Bits, rem # {}, \A p \in rem : p > nodePos[n],
           NEW below, Fits(below), Call(s, n, rem, below),
           spc' = [spc EXCEPT ![s] = "countLock"],
           UNCHANGED <<now, treeVars, listVars, insVars>>,
           answer' \in [Searchers -> BOOLEAN],
           squery' \in [Searchers -> SUBSET Bits], sstamp' \in [Searchers -> Time],
           asked' \in [Searchers -> Nat], later' \in [Searchers -> SUBSET Meta]
    PROVE  Shape'
<1> USE DEF treeVars, listVars, insVars
<1>1. n \in Node /\ nodePos[n] \in Pos
  BY TrieVAssumption DEF Shape, TypeOK, Node, Pos
<1>2. SlotsOf(nodePos[n], rem) \in SUBSET Slot /\ SlotsOf(nodePos[n], rem) # {}
  BY <1>1, SlotsAhead
<1> DEFINE top == [node |-> n, rem |-> rem]
<1>3. top \in Frame /\ top.node = n /\ top.rem = rem
  BY <1>1 DEF Frame
<1>4. /\ stack' = [stack EXCEPT ![s] = <<top>> \o below]
      /\ scan' = [scan EXCEPT ![s] = SlotsOf(nodePos[n], rem)]
      /\ UNCHANGED <<endList, count>>
  BY DEF Call
<1> HIDE DEF top
<1>5. Fits(<<top>> \o below) /\ <<top>> \o below # <<>>
  BY <1>3, PushedFits
<1>6. PICK frames : frames = <<top>> \o below
  OBVIOUS
<1>7. frames \in Seq(Frame) /\ Fits(frames) /\ frames # <<>> /\ stack' = [stack EXCEPT ![s] = frames]
  BY <1>4, <1>5, <1>6 DEF Fits
<1>8. TypeOK'
  <2>1. TypeOK
    BY DEF Shape
  <2>2. /\ stack \in [Searchers -> Seq(Frame)] /\ scan \in [Searchers -> SUBSET Slot]
        /\ spc \in [Searchers -> {"idle", "countLock", "count", "scan", "kids"}]
    BY <2>1 DEF TypeOK
  <2>3. PICK slots \in SUBSET Slot : scan' = [scan EXCEPT ![s] = slots]
    BY <1>2, <1>4
  <2>4. stack' \in [Searchers -> Seq(Frame)]
    BY <1>7, <2>2
  <2>5. scan' \in [Searchers -> SUBSET Slot]
    BY <2>2, <2>3
  <2>6. spc' \in [Searchers -> {"idle", "countLock", "count", "scan", "kids"}]
    BY <2>2
  <2> QED BY <1>4, <2>1, <2>4, <2>5, <2>6 DEF TypeOK
<1>9. spc'[s] = "countLock" /\ scan'[s] # {}
  BY <1>2, <1>4 DEF Shape, TypeOK
<1>10. \A t \in Searchers : t # s =>
         spc'[t] = spc[t] /\ scan'[t] = scan[t] /\ count'[t] = count[t]
  BY <1>4 DEF Shape, TypeOK
<1>11. /\ spc'[s] # "scan" /\ (spc'[s] \notin {"idle", "kids"} => scan'[s] # {})
       /\ (spc'[s] = "idle" <=> frames = <<>>)
       /\ UNCHANGED <<treeVars, ipc, imeta, inode, irem, ptrList>>
  BY <1>7, <1>9
<1> QED BY <1>7, <1>8, <1>10, <1>11, StackShape

LEMMA SearchFacts ==
    ASSUME Shape, NEW s \in Searchers, NEW q \in Queries, NEW t \in Time, Search(s, q, t)
    PROVE  /\ spc[s] = "idle" /\ q \in SUBSET Bits
           /\ spc' = [spc EXCEPT ![s] = IF Zeros(q) = {} THEN "idle" ELSE "countLock"]
           /\ asked' \in [Searchers -> Nat]
           /\ squery' = [squery EXCEPT ![s] = q] /\ sstamp' = [sstamp EXCEPT ![s] = t]
           /\ later' = [later EXCEPT ![s] = {m \in inserted : stamp[m] > t}]
           /\ {m \in inserted : stamp[m] > t} \in SUBSET Meta
           /\ answer' = [answer EXCEPT ![s] = FALSE]
           /\ Zeros(q) = {} => UNCHANGED <<stack, scan, endList, count>>
           /\ Zeros(q) # {} => Call(s, Root, Zeros(q), <<>>)
           /\ UNCHANGED <<now, treeVars, listVars, insVars>>
<1>1. q \in SUBSET Bits
  BY TrieVAssumption
<1>2. asked' \in [Searchers -> Nat]
  BY DEF Search, Shape, TypeOK
<1>3. {m \in inserted : stamp[m] > t} \in SUBSET Meta
  BY DEF Shape, TypeOK
<1> QED BY <1>1, <1>2, <1>3 DEF Search, SGoto

LEMMA SearchShape ==
    ASSUME Shape, NEW s \in Searchers, NEW q \in Queries, NEW t \in Time, Search(s, q, t)
    PROVE  Shape'
<1> USE DEF treeVars, listVars, insVars
<1>0. /\ spc[s] = "idle" /\ q \in SUBSET Bits
      /\ spc' = [spc EXCEPT ![s] = IF Zeros(q) = {} THEN "idle" ELSE "countLock"]
      /\ asked' \in [Searchers -> Nat]
      /\ squery' = [squery EXCEPT ![s] = q] /\ sstamp' = [sstamp EXCEPT ![s] = t]
      /\ later' = [later EXCEPT ![s] = {m \in inserted : stamp[m] > t}]
      /\ {m \in inserted : stamp[m] > t} \in SUBSET Meta
      /\ answer' = [answer EXCEPT ![s] = FALSE]
      /\ Zeros(q) = {} => UNCHANGED <<stack, scan, endList, count>>
      /\ Zeros(q) # {} => Call(s, Root, Zeros(q), <<>>)
      /\ UNCHANGED <<now, treeVars, listVars, insVars>>
  BY SearchFacts
<1>1. /\ squery' \in [Searchers -> SUBSET Bits] /\ sstamp' \in [Searchers -> Time]
      /\ later' \in [Searchers -> SUBSET Meta] /\ answer' \in [Searchers -> BOOLEAN]
  BY <1>0 DEF Shape, TypeOK
<1>2. Zeros(q) \in SUBSET Bits /\ \A p \in Bits : p > PosNan
  BY <1>0, GeometryAssumption DEF Zeros, Bits, PosNan
<1>3. Root \in 1 .. nodeNum /\ nodePos[Root] = PosNan
  BY DEF Shape, RootShape, TypeOK, Node, Root
<1>4. CASE Zeros(q) = {}
  <2>1. spc' = spc /\ UNCHANGED <<stack, scan, endList, count>>
    BY <1>0, <1>4 DEF Shape, TypeOK
  <2>2. TypeOK'
    BY <1>0, <1>1, <2>1 DEF Shape, TypeOK
  <2>3. SearcherFits(s)'
    BY <1>0, <2>1 DEF Shape, SearcherShape, SearcherFits, SCell
  <2> QED BY <1>0, <2>1, <2>2, <2>3, ScanShape
<1>5. CASE Zeros(q) # {}
  <2>1. \A p \in Zeros(q) : p > nodePos[Root]
    BY <1>2, <1>3
  <2>2. Fits(<<>>)
    BY DEF Fits
  <2>3. spc' = [spc EXCEPT ![s] = "countLock"] /\ Call(s, Root, Zeros(q), <<>>)
    BY <1>0, <1>5
  <2> QED BY <1>0, <1>1, <1>2, <1>3, <1>5, <2>1, <2>2, <2>3, CallShape
<1> QED BY <1>4, <1>5

LEMMA NearChildShape ==
    ASSUME Shape, NEW s \in Searchers, NearChild(s)
    PROVE  Shape'
<1> USE DEF treeVars, listVars, insVars, callVars
<1> DEFINE f == Head(stack[s])
           p == Lowest(f.rem)
           rest == f.rem \ {p}
           slot == SlotOf(nodePos[f.node], p)
           n == children[<<f.node, slot>>]
           next == [f EXCEPT !.rem = rest]
           below == <<next>> \o Tail(stack[s])
<1>a. spc[s] = "kids" /\ f.rem # {}
  BY DEF NearChild
<1>b. /\ f \in Frame /\ f.node \in 1 .. nodeNum /\ nodePos[f.node] \in Pos
      /\ \A x \in f.rem : x > nodePos[f.node]
  BY <1>a, SearcherFacts
<1>c. f.node \in Node /\ f.rem \in SUBSET Bits /\ rest \in SUBSET Bits
  BY <1>b DEF Frame
<1>d. slot \in Slot /\ \A x \in rest : x > ChildPos(nodePos[f.node], slot)
  BY <1>a, <1>b, <1>c, RestAhead
<1>e. next \in Frame /\ next.node = f.node /\ next.rem = rest
  BY <1>b, <1>c DEF Frame
<1>f. Fits(Tail(stack[s]))
  BY <1>a, TailFits
<1>h. /\ UNCHANGED <<now, treeVars, listVars, insVars, answer, callVars>>
      /\ \/ /\ n # NoNode /\ rest # {}
            /\ spc' = [spc EXCEPT ![s] = "countLock"]
            /\ Call(s, n, rest, below)
         \/ /\ stack' = [stack EXCEPT ![s] = below]
            /\ UNCHANGED <<spc, scan, endList, count>>
  BY DEF NearChild
<1>g. Fits(below) /\ below # <<>>
  <2> HIDE DEF next, rest, f
  <2>1. \A x \in rest : x > nodePos[f.node]
    BY <1>b DEF rest
  <2> QED BY <1>b, <1>e, <1>f, <2>1, PushedFits
<1> HIDE DEF below, next, n, rest, slot, p
<1>1. CASE /\ n # NoNode /\ rest # {}
           /\ spc' = [spc EXCEPT ![s] = "countLock"]
           /\ Call(s, n, rest, below)
  <2>1. n \in 1 .. nodeNum /\ nodePos[n] = ChildPos(nodePos[f.node], slot)
    BY <1>1, <1>c, <1>d DEF Shape, TreeShape, n
  <2>2. \A x \in rest : x > nodePos[n]
    BY <1>d, <2>1
  <2>3. /\ squery' \in [Searchers -> SUBSET Bits] /\ sstamp' \in [Searchers -> Time]
        /\ later' \in [Searchers -> SUBSET Meta] /\ asked' \in [Searchers -> Nat]
        /\ answer' \in [Searchers -> BOOLEAN]
    BY <1>h DEF Shape, TypeOK
  <2>4. rest \in SUBSET Bits
    BY <1>c
  <2> QED BY <1>1, <1>g, <1>h, <2>1, <2>2, <2>3, <2>4, CallShape
<1>2. CASE /\ stack' = [stack EXCEPT ![s] = below]
           /\ UNCHANGED <<spc, scan, endList, count>>
  <2>1. TypeOK'
    BY <1>2, <1>g, <1>h DEF Shape, TypeOK, Fits
  <2>2. spc'[s] = "kids"
    BY <1>2, <1>a
  <2>3. /\ spc'[s] # "scan" /\ (spc'[s] \notin {"idle", "kids"} => scan'[s] # {})
        /\ (spc'[s] = "idle" <=> below = <<>>)
        /\ UNCHANGED <<treeVars, ipc, imeta, inode, irem, ptrList>>
    BY <1>g, <1>h, <2>2
  <2>4. \A t \in Searchers : t # s =>
           spc'[t] = spc[t] /\ scan'[t] = scan[t] /\ count'[t] = count[t]
    BY <1>2
  <2> QED BY <1>2, <1>g, <2>1, <2>3, <2>4, StackShape
<1> QED BY <1>1, <1>2, <1>h

LEMMA TailChildShape ==
    ASSUME Shape, NEW s \in Searchers, TailChild(s)
    PROVE  Shape'
<1> USE DEF treeVars, listVars, insVars, callVars
<1> DEFINE f == Head(stack[s])
           n == children[<<f.node, TailSlot>>]
<1>a. /\ spc[s] = "kids" /\ f.rem # {} /\ ~IsNear(nodePos[f.node], Lowest(f.rem))
      /\ n # NoNode
      /\ spc' = [spc EXCEPT ![s] = "countLock"]
      /\ Call(s, n, f.rem, Tail(stack[s]))
      /\ UNCHANGED <<now, treeVars, listVars, insVars, answer, callVars>>
  BY DEF TailChild
<1>b. /\ f \in Frame /\ f.node \in 1 .. nodeNum /\ nodePos[f.node] \in Pos
      /\ \A x \in f.rem : x > nodePos[f.node]
  BY <1>a, SearcherFacts
<1>c. f.node \in Node /\ f.rem \in SUBSET Bits /\ TailSlot \in Slot
  BY <1>b, GeometryAssumption DEF Frame, Slot, TailSlot
<1>d. \A x \in f.rem : x > ChildPos(nodePos[f.node], TailSlot)
  BY <1>a, <1>b, <1>c, FarAhead
<1>e. n \in 1 .. nodeNum /\ nodePos[n] = ChildPos(nodePos[f.node], TailSlot)
  BY <1>a, <1>c DEF Shape, TreeShape
<1>f. \A x \in f.rem : x > nodePos[n]
  BY <1>d, <1>e
<1>g. /\ squery' \in [Searchers -> SUBSET Bits] /\ sstamp' \in [Searchers -> Time]
      /\ later' \in [Searchers -> SUBSET Meta] /\ asked' \in [Searchers -> Nat]
      /\ answer' \in [Searchers -> BOOLEAN]
  BY <1>a DEF Shape, TypeOK
<1>h. Fits(Tail(stack[s]))
  BY <1>a, TailFits
<1> HIDE DEF f, n
<1> QED BY <1>a, <1>c, <1>e, <1>f, <1>g, <1>h, CallShape

LEMMA QuietShape ==
    ASSUME Shape, Tick \/ UNCHANGED vars
    PROVE  Shape'
<1> USE DEF vars, treeVars, listVars, insVars, searchVars, scanVars, callVars
<1>1. now' \in Time
  BY TrieVAssumption DEF Tick, Shape, TypeOK, Time
<1>2. UNCHANGED <<treeVars, listVars, insVars, searchVars>>
  BY DEF Tick
<1>3. TypeOK'
  BY <1>1, <1>2 DEF Shape, TypeOK
<1>4. PositionsAhead' /\ InserterShape' /\ RootShape' /\ TreeShape'
  BY <1>2, InsertersKept DEF Shape, PositionsAhead
<1>5. SearcherShape'
  BY <1>2 DEF Shape, SearcherShape, SearcherFits, SCell
<1> QED BY <1>3, <1>4, <1>5 DEF Shape

LEMMA InitShape == Init => Shape
<1> SUFFICES ASSUME Init
             PROVE  Shape
  OBVIOUS
<1> USE DEF Init
<1>1. TypeOK
  BY RootIsNode, TrieVAssumption DEF TypeOK, Root, PosNan, NoNode, Time
<1>2. PositionsAhead
  BY DEF PositionsAhead
<1>3. InserterShape /\ RootShape
  BY RootIsNode DEF InserterShape, InserterFits, RootShape
<1>4. TreeShape
  BY DEF TreeShape, Cell
<1>5. SearcherShape
  BY DEF SearcherShape, SearcherFits
<1> QED BY <1>1, <1>2, <1>3, <1>4, <1>5 DEF Shape

LEMMA NextShape == Shape /\ [Next]_vars => Shape'
<1> SUFFICES ASSUME Shape, [Next]_vars
             PROVE  Shape'
  OBVIOUS
<1>1. CASE \E i \in Inserters : InserterStep(i)
  BY <1>1, ProbeShape, ReturnShape, NewNodeShape, DescendShape DEF InserterStep
<1>2. CASE \E i \in Inserters, m \in Meta : Insert2(i, m)
  BY <1>2, Insert2Shape
<1>3. CASE \E s \in Searchers : SearcherStep(s)
  BY <1>3, SLockListShape, CountShape, ScanSlotShape, NearChildShape, TailChildShape,
     NodeReturnShape DEF SearcherStep
<1>4. CASE \E s \in Searchers, q \in Queries, t \in Time : Search(s, q, t)
  BY <1>4, SearchShape
<1>5. CASE Tick \/ Rest \/ UNCHANGED vars
  BY <1>5, QuietShape DEF Rest
<1> QED BY <1>1, <1>2, <1>3, <1>4, <1>5 DEF Next

\* Shape holds in every state, with any number of threads.
THEOREM ShapeInvariant == Spec => []Shape
<1>1. Init => Shape
  BY InitShape
<1>2. Shape /\ [Next]_vars => Shape'
  BY NextShape
<1> QED BY <1>1, <1>2, PTL DEF Spec

\* The variables of the V-method's trie keep their types (Insert2, Search and
\* what they call in the INVERSE_INDEX build).
THEOREM TypeCorrect == Spec => []TypeOK
<1>1. Shape => TypeOK
  BY DEF Shape
<1> QED BY <1>1, ShapeInvariant, PTL

\* Every descent of the V-method, of an insertion or of a search, has only
\* positions behind the node it has reached, although the way to the tail child
\* spends none (lines 314-316, 448, 524, 640, 653).
THEOREM DescentsAhead == Spec => []PositionsAhead
<1>1. Shape => PositionsAhead
  BY DEF Shape
<1> QED BY <1>1, ShapeInvariant, PTL

-----------------------------------------------------------------------------
(* What the lists hold: signatures the index was given *)

HoldsOnly(list, S) == \A k \in 1 .. Len(list) : list[k] \in S

TakenInv ==
    /\ inserted \subseteq taken
    /\ \A i \in Inserters : ipc[i] # "idle" => imeta[i] \in taken
    /\ \A c \in Cell : HoldsOnly(ptrList[c], taken) /\ HoldsOnly(endNode[c], taken)
    /\ \A s \in Searchers : HoldsOnly(endList[s], taken)

\* A time is written to a signature when it is given to the index, and afterwards
\* only a later one.
StampsGrow == taken \subseteq taken' /\ \A m \in taken : stamp[m] <= stamp'[m]

LEMMA SearcherLeaves ==
    ASSUME NEW s \in Searchers, SearcherStep(s)
    PROVE  UNCHANGED <<now, treeVars, ptrList, endNode, stamp, insVars, callVars>>
  BY DEF SearcherStep, SLockList, Count, ScanSlot, NearChild, TailChild, NodeReturn,
         listVars

LEMMA StampsGrowNext == ASSUME Shape, [Next]_vars PROVE StampsGrow
<1>0. stamp \in [Meta -> Time] /\ Time \subseteq Nat /\ taken \in SUBSET Meta
  BY TrieVAssumption DEF Shape, TypeOK, Time
<1>1. \A m \in taken : stamp[m] <= stamp[m]
  <2> TAKE m \in taken
  <2>1. stamp[m] \in Nat
    BY <1>0
  <2> QED BY <2>1
<1>2. CASE UNCHANGED <<stamp, taken>>
  BY <1>1, <1>2 DEF StampsGrow
<1>3. ASSUME NEW i \in Inserters, NEW m \in Meta, Insert2(i, m)
      PROVE  StampsGrow
  <2>1. m \notin taken /\ taken' = taken \cup {m} /\ stamp' = [stamp EXCEPT ![m] = now]
    BY <1>3 DEF Insert2
  <2> QED BY <1>0, <1>1, <2>1 DEF StampsGrow
<1>4. ASSUME NEW i \in Inserters, EndNode(i)
      PROVE  StampsGrow
  <2>1. taken' = taken /\ \A x \in Meta : stamp[x] <= stamp'[x]
    BY <1>4, EndNodeFacts, ReturnFacts
  <2> QED BY <1>0, <2>1 DEF StampsGrow
<1>5. ASSUME NEW i \in Inserters, InserterStep(i), ~EndNode(i)
      PROVE  UNCHANGED <<stamp, taken>>
  BY <1>5 DEF InserterStep, ILockList, ProbeRoom, Push, ProbeChild, LockNode, NewNode, Descend,
              IReturn, IUnchanged, listVars
<1>6. ASSUME NEW s \in Searchers,
             SearcherStep(s) \/ \E q \in Queries, t \in Time : Search(s, q, t)
      PROVE  UNCHANGED <<stamp, taken>>
  BY <1>6, SearcherLeaves DEF Search, listVars, insVars
<1>7. CASE Tick \/ Rest \/ UNCHANGED vars
  BY <1>2, <1>7 DEF Tick, Rest, vars, listVars, insVars
<1> QED BY <1>2, <1>3, <1>4, <1>5, <1>6, <1>7 DEF Next

LEMMA TakenInvNext ==
    ASSUME Shape, TakenInv, [Next]_vars
    PROVE  TakenInv'
<1>0. /\ ipc' \in [Inserters -> {"idle", "endLock", "end", "room", "pushLock", "push",
                                 "child", "nodeLock", "newNode", "descend"}]
      /\ ptrList \in [Cell -> Seq(Meta)] /\ endNode \in [Cell -> Seq(Meta)]
      /\ endList \in [Searchers -> Seq(Meta)]
      /\ ipc \in [Inserters -> {"idle", "endLock", "end", "room", "pushLock", "push",
                                "child", "nodeLock", "newNode", "descend"}]
      /\ imeta \in [Inserters -> Meta \cup {NoMeta}]
  BY NextShape DEF Shape, TypeOK
<1>1. taken \subseteq taken'
  BY StampsGrowNext DEF StampsGrow
<1>2. CASE UNCHANGED <<ipc, imeta, inserted, ptrList, endNode, endList>>
  BY <1>1, <1>2 DEF TakenInv, HoldsOnly
<1>3. ASSUME NEW i \in Inserters, NEW m \in Meta, Insert2(i, m)
      PROVE  TakenInv'
  <2>1. /\ taken' = taken \cup {m} /\ UNCHANGED <<ptrList, endNode, endList>>
        /\ inserted' \in {inserted, inserted \cup {m}}
    BY <1>3 DEF Insert2, searchVars, scanVars
  <2>2. ASSUME NEW j \in Inserters, ipc'[j] # "idle"
        PROVE  imeta'[j] \in taken'
    <3>1. \/ ipc' = ipc /\ imeta' = imeta
          \/ imeta' = [imeta EXCEPT ![i] = m] /\ \E to : ipc' = [ipc EXCEPT ![i] = to]
      BY <1>3 DEF Insert2, IGoto
    <3> QED BY <1>0, <1>1, <2>1, <2>2, <3>1 DEF TakenInv
  <2> QED BY <1>1, <2>1, <2>2 DEF TakenInv, HoldsOnly
<1>4. ASSUME NEW i \in Inserters, EndNode(i) \/ Push(i)
      PROVE  TakenInv'
  <2>1. /\ ipc[i] # "idle" /\ ICell(i) \in Cell
        /\ ipc' = [ipc EXCEPT ![i] = "idle"]
        /\ imeta' = [imeta EXCEPT ![i] = NoMeta]
        /\ inserted' = inserted \cup {imeta[i]} /\ taken' = taken /\ endList' = endList
    BY <1>4, ReturnFacts DEF searchVars, scanVars
  <2>2. imeta[i] \in taken /\ imeta[i] \in Meta
    BY <1>4, <2>1, ReturnFacts DEF TakenInv
  <2>3. ASSUME NEW list \in Seq(Meta), HoldsOnly(list, taken)
        PROVE  HoldsOnly(Append(list, imeta[i]), taken)
    <3>1. Len(Append(list, imeta[i])) = Len(list) + 1 /\ Len(list) \in Nat
      BY <2>2, <2>3
    <3>2. ASSUME NEW k \in 1 .. Len(list) + 1
          PROVE  Append(list, imeta[i])[k] \in taken
      BY <2>2, <2>3, <3>2 DEF HoldsOnly
    <3> QED BY <3>1, <3>2 DEF HoldsOnly
  <2>4. ASSUME NEW c \in Cell
        PROVE  /\ ptrList'[c] \in {ptrList[c], Append(ptrList[c], imeta[i])}
               /\ endNode'[c] \in {endNode[c], Append(endNode[c], imeta[i])}
    <3>1. CASE Push(i)
      BY <3>1, PushFacts
    <3>2. CASE EndNode(i)
      BY <3>2, EndNodeFacts
    <3> QED BY <1>4, <3>1, <3>2
  <2>5. ASSUME NEW c \in Cell
        PROVE  HoldsOnly(ptrList'[c], taken) /\ HoldsOnly(endNode'[c], taken)
    <3>1. ptrList[c] \in Seq(Meta) /\ endNode[c] \in Seq(Meta)
      BY <1>0
    <3>2. HoldsOnly(ptrList[c], taken) /\ HoldsOnly(endNode[c], taken)
      BY DEF TakenInv
    <3> QED BY <2>3, <2>4, <3>1, <3>2
  <2>6. \A j \in Inserters : ipc'[j] # "idle" => imeta'[j] \in taken
    BY <1>0, <2>1 DEF TakenInv
  <2> QED BY <2>1, <2>2, <2>5, <2>6 DEF TakenInv
<1>5. ASSUME NEW i \in Inserters, InserterStep(i), ~EndNode(i), ~Push(i)
      PROVE  TakenInv'
  <2>1. /\ UNCHANGED <<imeta, inserted, taken, ptrList, endNode, endList>>
        /\ \E from, to : ipc[i] = from /\ from # "idle" /\ ipc' = [ipc EXCEPT ![i] = to]
    BY <1>5 DEF InserterStep, ILockList, ProbeRoom, ProbeChild, LockNode, NewNode, Descend,
                IUnchanged, IGoto, listVars, searchVars, scanVars
  <2>2. \A j \in Inserters : ipc'[j] # "idle" => ipc[j] # "idle"
    BY <1>0, <2>1
  <2> QED BY <2>1, <2>2 DEF TakenInv
<1>6. ASSUME NEW s \in Searchers, SearcherStep(s)
      PROVE  TakenInv'
  <2>1. UNCHANGED <<ipc, imeta, inserted, taken, ptrList, endNode>>
    BY <1>6, SearcherLeaves DEF insVars
  <2>2. \/ endList' = endList \/ endList' = [endList EXCEPT ![s] = <<>>]
        \/ Count(s)
    BY <1>6 DEF SearcherStep, SLockList, ScanSlot, NearChild, TailChild, NodeReturn, Call, scanVars
  <2>3. ASSUME Count(s)
        PROVE  SCell(s) \in Cell /\ endList' = [endList EXCEPT ![s] = endNode[SCell(s)]]
    BY <2>3, CountFacts
  <2>4. ASSUME NEW t \in Searchers
        PROVE  HoldsOnly(endList'[t], taken)
    <3>1. HoldsOnly(endList[t], taken) /\ HoldsOnly(<<>>, taken)
      BY DEF TakenInv, HoldsOnly
    <3>2. \A c \in Cell : HoldsOnly(endNode[c], taken)
      BY DEF TakenInv
    <3>3. endList'[t] \in {endList[t], <<>>} \/ \E c \in Cell : endList'[t] = endNode[c]
      BY <1>0, <2>2, <2>3
    <3> QED BY <3>1, <3>2, <3>3
  <2> QED BY <2>1, <2>4 DEF TakenInv
<1>7. ASSUME NEW s \in Searchers, NEW q \in Queries, NEW t \in Time, Search(s, q, t)
      PROVE  UNCHANGED <<ipc, imeta, inserted, ptrList, endNode, endList>>
  BY <1>7 DEF Search, Call, insVars, listVars
<1>8. CASE Tick \/ Rest \/ UNCHANGED vars
  BY <1>2, <1>8 DEF Tick, Rest, vars, listVars, insVars, searchVars, scanVars
<1> QED BY <1>2, <1>3, <1>4, <1>5, <1>6, <1>7, <1>8 DEF Next

LEMMA TakenInvInit == Init => TakenInv
  BY DEF Init, TakenInv, HoldsOnly

Reason(s) == \E m \in taken : Includes(squery[s], Data[m]) /\ stamp[m] >= sstamp[s]

\* What a scan finds is a reason for its yes.
LEMMA FoundHasReason ==
    ASSUME Shape, TakenInv, NEW s \in Searchers, spc[s] = "scan", FoundIn(s)
    PROVE  Reason(s)
<1> DEFINE c == SCell(s)
           list == ptrList[c]
           n == count[s]
<1>1. /\ c \in Cell /\ list \in Seq(Meta) /\ n \in Nat /\ n <= Len(list)
      /\ HoldsOnly(list, taken) /\ HoldsOnly(endList[s], taken) /\ endList[s] \in Seq(Meta)
      /\ taken \in SUBSET Meta /\ stamp \in [Meta -> Time] /\ Time \subseteq Nat
      /\ sstamp[s] \in Nat
  BY SearcherFacts, TrieVAssumption DEF Shape, TypeOK, SearcherShape, SearcherFits, TakenInv, Time
<1>2. \E x \in ToSet(endList[s]) \cup ToSet(SubSeq(list, 1, n)) :
         Matches(s, x) /\ (sstamp[s] <= stamp[x] \/ sstamp[s] < stamp[x])
  BY DEF FoundIn
<1> HIDE DEF c, list, n
<1>3. PICK x \in ToSet(endList[s]) \cup ToSet(SubSeq(list, 1, n)) :
         Matches(s, x) /\ (sstamp[s] <= stamp[x] \/ sstamp[s] < stamp[x])
  BY <1>2
<1>4. x \in taken
  <2>1. CASE x \in ToSet(endList[s])
    BY <1>1, <2>1 DEF ToSet, HoldsOnly
  <2>2. CASE x \in ToSet(SubSeq(list, 1, n))
    <3>1. /\ SubSeq(list, 1, n) \in Seq(Meta) /\ Len(SubSeq(list, 1, n)) = n
          /\ \A k \in 1 .. n : SubSeq(list, 1, n)[k] = list[k]
      BY <1>1
    <3>2. PICK k \in 1 .. n : x = SubSeq(list, 1, n)[k]
      BY <2>2, <3>1 DEF ToSet
    <3> QED BY <1>1, <3>1, <3>2 DEF HoldsOnly
  <2> QED BY <1>3, <2>1, <2>2
<1>5. stamp[x] >= sstamp[s]
  <2>1. stamp[x] \in Nat
    BY <1>1, <1>4
  <2> QED BY <1>1, <1>3, <2>1
<1> QED BY <1>3, <1>4, <1>5 DEF Reason, Matches

\* A reason stays one.
LEMMA ReasonKept ==
    ASSUME Shape, Shape', StampsGrow, NEW s \in Searchers, Reason(s),
           squery'[s] = squery[s], sstamp'[s] = sstamp[s]
    PROVE  Reason(s)'
<1>1. PICK m \in taken : Includes(squery[s], Data[m]) /\ stamp[m] >= sstamp[s]
  BY DEF Reason
<1>2. stamp[m] <= stamp'[m] /\ m \in taken' /\ stamp[m] \in Nat /\ stamp'[m] \in Nat /\ sstamp[s] \in Nat
  BY TrieVAssumption DEF StampsGrow, Shape, TypeOK, Time
<1> QED BY <1>1, <1>2 DEF Reason

LEMMA YesHasReasonNext ==
    ASSUME Shape, TakenInv, YesHasReason, [Next]_vars
    PROVE  YesHasReason'
<1> SUFFICES ASSUME NEW s \in Searchers, answer'[s]
             PROVE  Reason(s)'
  BY DEF YesHasReason, Reason
<1>0. Shape' /\ StampsGrow
  BY NextShape, StampsGrowNext
<1>1. answer \in [Searchers -> BOOLEAN] /\ squery \in [Searchers -> SUBSET Bits] /\ sstamp \in [Searchers -> Time]
  BY DEF Shape, TypeOK
<1>2. ASSUME squery'[s] = squery[s], sstamp'[s] = sstamp[s], answer[s]
      PROVE  Reason(s)'
  BY <1>0, <1>2, ReasonKept DEF YesHasReason, Reason
<1>3. ASSUME NEW t \in Searchers, ScanSlot(t)
      PROVE  Reason(s)'
  <2>1. /\ UNCHANGED <<squery, sstamp>> /\ spc[t] = "scan"
        /\ answer'[t] <=> answer[t] \/ FoundIn(t)
        /\ \A z \in Searchers : z # t => answer'[z] = answer[z]
    BY <1>3, ScanSlotFacts DEF callVars
  <2>2. CASE answer[s]
    BY <1>2, <2>1, <2>2
  <2>3. CASE ~answer[s]
    <3>1. s = t /\ FoundIn(s) /\ spc[s] = "scan"
      BY <2>1, <2>3
    <3>2. Reason(s)
      BY <3>1, FoundHasReason
    <3> QED BY <1>0, <2>1, <3>2, ReasonKept
  <2> QED BY <2>2, <2>3
<1>4. ASSUME NEW t \in Searchers, NEW q \in Queries, NEW u \in Time, Search(t, q, u)
      PROVE  Reason(s)'
  <2>1. /\ answer' = [answer EXCEPT ![t] = FALSE]
        /\ squery' = [squery EXCEPT ![t] = q] /\ sstamp' = [sstamp EXCEPT ![t] = u]
    BY <1>4, SearchFacts
  <2> QED BY <1>1, <1>2, <2>1
<1>5. ASSUME NEW t \in Searchers, SearcherStep(t), ~ScanSlot(t)
      PROVE  UNCHANGED <<squery, sstamp, answer>>
  BY <1>5 DEF SearcherStep, SLockList, Count, NearChild, TailChild, NodeReturn, scanVars, callVars
<1>6. ASSUME NEW i \in Inserters, InserterStep(i) \/ \E m \in Meta : Insert2(i, m)
      PROVE  UNCHANGED <<squery, sstamp, answer>>
  BY <1>6, ReturnFacts DEF InserterStep, Insert2, ILockList, ProbeRoom, ProbeChild, LockNode, NewNode,
          Descend, searchVars, scanVars, callVars
<1>7. CASE Tick \/ Rest \/ UNCHANGED vars
  BY <1>2, <1>7 DEF Tick, Rest, vars, searchVars, scanVars, callVars
<1> QED BY <1>2, <1>3, <1>4, <1>5, <1>6, <1>7 DEF Next

\* A yes of the V-method always has a reason, with any number of inserting and
\* searching threads: an update given to the index that the filter of the entry
\* includes, with no earlier time (SearchPtrList, and the time that Insert2 writes
\* to a signature it finds, lines 466-476).
THEOREM YesHasReasonHolds == Spec => []YesHasReason
<1>1. Init => TakenInv /\ YesHasReason
  BY TakenInvInit DEF Init, YesHasReason
<1>2. Shape /\ TakenInv /\ YesHasReason /\ [Next]_vars => (TakenInv /\ YesHasReason)'
  BY TakenInvNext, YesHasReasonNext
<1> QED BY <1>1, <1>2, ShapeInvariant, PTL DEF Spec

-----------------------------------------------------------------------------
(* Walks down the trie: a state is a node and the positions still to be spent *)

Live ==
    {x \in Node \X SUBSET Bits :
        x[1] \in 1 .. nodeNum /\ \A p \in x[2] : p > nodePos[x[1]]}

CellOf(x) == <<x[1], SlotOf(nodePos[x[1]], Lowest(x[2]))>>
Goes(x) == x[2] # {} /\ children[CellOf(x)] # NoNode
Down(x) == <<children[CellOf(x)], x[2] \ {Lowest(x[2])}>>

\* The states a walk from x goes through.
Closed(S) == \A x \in S : Goes(x) => Down(x) \in S
Walk(x) == {y \in Live : \A S \in SUBSET Live : x \in S /\ Closed(S) => y \in S}

LEMMA LiveFacts ==
    ASSUME Shape, NEW x \in Live
    PROVE  /\ x = <<x[1], x[2]>> /\ x[1] \in Node /\ x[2] \in SUBSET Bits
           /\ x[2] # {} => /\ CellOf(x) \in Cell
                           /\ Lowest(x[2]) \in x[2]
                           /\ SlotOf(nodePos[x[1]], Lowest(x[2])) \in Slot
           /\ Goes(x) => Down(x) \in Live
<1>1. /\ x = <<x[1], x[2]>> /\ x[1] \in Node /\ x[2] \in SUBSET Bits
      /\ x[1] \in 1 .. nodeNum /\ \A p \in x[2] : p > nodePos[x[1]]
      /\ nodePos[x[1]] \in Pos
  BY DEF Live, Shape, TypeOK, Pos
<1>2. ASSUME x[2] # {}
      PROVE  /\ CellOf(x) \in Cell
             /\ Lowest(x[2]) \in x[2]
             /\ SlotOf(nodePos[x[1]], Lowest(x[2])) \in Slot
             /\ \A p \in x[2] \ {Lowest(x[2])} :
                   p > ChildPos(nodePos[x[1]], SlotOf(nodePos[x[1]], Lowest(x[2])))
  BY <1>1, <1>2, RestAhead DEF CellOf, Cell
<1>3. ASSUME Goes(x)
      PROVE  Down(x) \in Live
  <2>1. /\ children[CellOf(x)] \in 1 .. nodeNum
        /\ nodePos[children[CellOf(x)]]
             = ChildPos(nodePos[x[1]], SlotOf(nodePos[x[1]], Lowest(x[2])))
    BY <1>1, <1>2, <1>3 DEF Goes, CellOf, Shape, TreeShape
  <2>2. children[CellOf(x)] \in Node
    BY <2>1, TrieVAssumption DEF Shape, TypeOK, Node
  <2> QED BY <1>1, <1>2, <1>3, <2>1, <2>2 DEF Goes, Down, Live
<1> QED BY <1>1, <1>2, <1>3

LEMMA WalkSelf ==
    ASSUME NEW x \in Live
    PROVE  x \in Walk(x)
  BY DEF Walk

LEMMA WalkDown ==
    ASSUME Shape, NEW x \in Live, NEW y \in Walk(x), Goes(y)
    PROVE  Down(y) \in Walk(x)
<1>1. Down(y) \in Live
  BY LiveFacts DEF Walk
<1> QED BY <1>1 DEF Walk, Closed

\* A walk that ends elsewhere than it began begins with one step down.
LEMMA WalkStep ==
    ASSUME Shape, NEW x \in Live, NEW y \in Walk(x), y # x
    PROVE  Goes(x) /\ Down(x) \in Live /\ y \in Walk(Down(x))
<1> DEFINE S == {x} \cup {z \in Live : Goes(x) /\ z \in Walk(Down(x))}
<1>1. S \in SUBSET Live /\ x \in S
  OBVIOUS
<1>2. ASSUME NEW z \in S, Goes(z)
      PROVE  Down(z) \in S
  <2>1. CASE z = x
    BY <1>2, <2>1, LiveFacts, WalkSelf
  <2>2. CASE z # x
    <3>1. Goes(x) /\ z \in Walk(Down(x)) /\ Down(x) \in Live
      BY <2>2, LiveFacts
    <3>2. Down(z) \in Walk(Down(x))
      BY <1>2, <3>1, WalkDown
    <3>3. Down(z) \in Live
      BY <3>2 DEF Walk
    <3> QED BY <3>1, <3>2, <3>3
  <2> QED BY <2>1, <2>2
<1>3. y \in S
  <2> HIDE DEF S
  <2> QED BY <1>1, <1>2 DEF Walk, Closed
<1> QED BY <1>3, LiveFacts

\* Nodes are only added, and none takes the place of another.
TreeGrows ==
    /\ nodeNum \in Nat /\ nodeNum' \in Nat /\ nodeNum <= nodeNum'
    /\ \A n \in 1 .. nodeNum : nodePos'[n] = nodePos[n]
    /\ \A c \in Cell : children[c] # NoNode => children'[c] = children[c]

\* Then a walk stays one.
LEMMA WalkGrows ==
    ASSUME Shape, TreeGrows, NEW x \in Live
    PROVE  x \in Live' /\ CellOf(x)' = CellOf(x) /\ Walk(x) \subseteq Walk(x)'
<1>1. ASSUME NEW z \in Live
      PROVE  /\ z \in Live' /\ CellOf(z)' = CellOf(z)
             /\ Goes(z) => Goes(z)' /\ Down(z)' = Down(z) /\ Down(z) \in Live
  <2>1. z[1] \in 1 .. nodeNum /\ nodePos'[z[1]] = nodePos[z[1]]
    BY DEF Live, TreeGrows
  <2>2. z \in Live' /\ CellOf(z)' = CellOf(z)
    BY <2>1 DEF Live, CellOf, TreeGrows
  <2>3. ASSUME Goes(z)
        PROVE  Goes(z)' /\ Down(z)' = Down(z)
    BY <2>2, <2>3, LiveFacts DEF Goes, Down, TreeGrows
  <2> QED BY <2>2, <2>3, LiveFacts
<1>2. ASSUME NEW y \in Walk(x), NEW S \in SUBSET (Live'), x \in S, Closed(S)'
      PROVE  y \in S
  <2> DEFINE T == {z \in Live : z \in S}
  <2>1. \A z \in T : Goes(z) => Down(z) \in T
    BY <1>1, <1>2 DEF Closed
  <2>2. T \in SUBSET Live /\ x \in T
    BY <1>2
  <2>3. y \in T
    <3> HIDE DEF T
    <3> QED BY <2>1, <2>2 DEF Walk, Closed
  <2> QED BY <2>3
<1>3. ASSUME NEW y \in Walk(x)
      PROVE  y \in Walk(x)'
  <2>1. y \in Live'
    BY <1>1 DEF Walk
  <2> QED BY <1>2, <2>1 DEF Walk
<1> QED BY <1>1, <1>3

LEMMA WalkSame ==
    ASSUME UNCHANGED treeVars
    PROVE  \A x : CellOf(x)' = CellOf(x) /\ Walk(x)' = Walk(x)
  BY DEF treeVars, CellOf, Walk, Live, Closed, Goes, Down

-----------------------------------------------------------------------------
(* The path of a signature *)

OneInserter == \A i, j \in Inserters : i = j

\* Every signature has a zero to be stored at.
HaveZeros == \A m \in Meta : Zeros(Data[m]) # {}

\* A signature that is taken for another one has its filter: a queryId is not used
\* for two filters.
IdsTell == \A m, x \in Meta : Known(m, x) => Data[x] = Data[m]

Start(m) == <<Root, Zeros(Data[m])>>

\* An inserter that is about to make a child still finds none.
ParentInv ==
    \A i \in Inserters : ipc[i] \in {"nodeLock", "newNode"} => children[ICell(i)] = NoNode

OnPath ==
    \A i \in Inserters, m \in Meta :
        ipc[i] # "idle" /\ imeta[i] = m => <<inode[i], irem[i]>> \in Walk(Start(m))

Occurs(x, list) == \E k \in 1 .. Len(list) : list[k] = x

\* x is in one of the lists of c.
Kept(x, c) == Occurs(x, ptrList[c]) \/ Occurs(x, endNode[c])

\* A signature with the filter of m and no earlier time is kept on the walk of m.
Stored(m) ==
    \E x \in Meta : /\ Data[x] = Data[m] /\ stamp[x] >= stamp[m]
                    /\ \E y \in Walk(Start(m)) : y[2] # {} /\ Kept(x, CellOf(y))

PathInv == ParentInv /\ OnPath /\ \A m \in inserted : Stored(m)

LEMMA StartLive == ASSUME Shape, NEW m \in Meta PROVE Start(m) \in Live
<1>1. Root \in Node /\ Root \in 1 .. nodeNum /\ nodePos[Root] = PosNan
  BY RootIsNode DEF Shape, RootShape, TypeOK, Node, Root
<1>2. Zeros(Data[m]) \in SUBSET Bits /\ \A p \in Bits : p > PosNan
  BY GeometryAssumption DEF Zeros, Bits, PosNan
<1> QED BY <1>1, <1>2 DEF Start, Live

Inserts(i) == InserterStep(i) \/ \E m \in Meta : Insert2(i, m)

\* Steps of the clock and of searchers.
LEMMA OtherFacts ==
    ASSUME [Next]_vars, ~ \E i \in Inserters : Inserts(i)
    PROVE  UNCHANGED <<treeVars, ptrList, endNode, stamp, insVars>>
<1>1. CASE \E s \in Searchers : SearcherStep(s)
  BY <1>1, SearcherLeaves
<1>2. CASE \E s \in Searchers, q \in Queries, t \in Time : Search(s, q, t)
  BY <1>2 DEF Search, listVars
<1>3. CASE Tick \/ Rest \/ UNCHANGED vars
  BY <1>3 DEF Tick, Rest, vars, listVars
<1> QED BY <1>1, <1>2, <1>3 DEF Next, Inserts

\* A step that keeps an insertion going.
Walks(i) ==
    \/ ILockList(i, "endLock", "end")
    \/ ProbeRoom(i)
    \/ ILockList(i, "pushLock", "push")
    \/ ProbeChild(i)
    \/ LockNode(i)
    \/ NewNode(i)
    \/ Descend(i)

LEMMA WalkFacts ==
    ASSUME Shape, NEW i \in Inserters, Walks(i)
    PROVE  /\ ipc[i] # "idle" /\ UNCHANGED <<imeta, taken, inserted, ptrList, endNode, stamp, searchVars>>
           /\ \E to : ipc' = [ipc EXCEPT ![i] = to]
           /\ ~NewNode(i) => UNCHANGED <<nodeNum, nodePos, children>>
           /\ ~Descend(i) => UNCHANGED <<inode, irem>>
  BY DEF Walks, ILockList, ProbeRoom, ProbeChild, LockNode, NewNode, Descend, IGoto, IUnchanged,
         listVars, treeVars

LEMMA InserterCases ==
    ASSUME NEW i \in Inserters, InserterStep(i)
    PROVE  Walks(i) \/ EndNode(i) \/ Push(i)
  BY DEF InserterStep, Walks

LEMMA TreeGrowsNext == ASSUME Shape, ParentInv, [Next]_vars PROVE TreeGrows
<1>0. nodeNum \in Nat /\ children \in [Cell -> Node \cup {NoNode}]
      /\ nodePos \in [Node -> {PosNan} \cup Bits]
  BY DEF Shape, TypeOK, Node
<1>1. ASSUME NEW i \in Inserters, NewNode(i)
      PROVE  TreeGrows
  <2>1. nodeNum' = nodeNum + 1 /\ children' = [children EXCEPT ![ICell(i)] = nodeNum + 1]
        /\ \E pos : nodePos' = [nodePos EXCEPT ![nodeNum + 1] = pos]
    BY <1>1 DEF NewNode
  <2>2. children[ICell(i)] = NoNode
    BY <1>1 DEF NewNode, IGoto, ParentInv
  <2> QED BY <1>0, <2>1, <2>2 DEF TreeGrows
<1>2. CASE UNCHANGED <<nodeNum, nodePos, children>>
  BY <1>0, <1>2 DEF TreeGrows
<1>3. UNCHANGED <<nodeNum, nodePos, children>> \/ \E i \in Inserters : NewNode(i)
  <2>1. ASSUME NEW i \in Inserters, Inserts(i), ~NewNode(i)
        PROVE  UNCHANGED <<nodeNum, nodePos, children>>
    BY <2>1, InserterCases, WalkFacts, ReturnFacts DEF Inserts, Insert2, treeVars
  <2> QED BY <2>1, OtherFacts DEF treeVars
<1> QED BY <1>1, <1>2, <1>3

\* A list is only added to.
Grows(list, longer) ==
    Len(list) <= Len(longer) /\ \A k \in 1 .. Len(list) : longer[k] = list[k]

LEMMA AppendGrows ==
    ASSUME NEW list \in Seq(Meta), NEW m \in Meta
    PROVE  /\ Grows(list, list) /\ Grows(list, Append(list, m))
           /\ Occurs(m, Append(list, m))
<1>1. Len(list) \in Nat /\ Len(Append(list, m)) = Len(list) + 1
      /\ Append(list, m)[Len(list) + 1] = m
      /\ \A k \in 1 .. Len(list) : Append(list, m)[k] = list[k]
  OBVIOUS
<1>2. Len(list) + 1 \in 1 .. Len(Append(list, m))
  BY <1>1
<1> QED BY <1>1, <1>2 DEF Grows, Occurs

LEMMA ListsGrow ==
    ASSUME Shape, [Next]_vars, NEW c \in Cell
    PROVE  Grows(ptrList[c], ptrList'[c]) /\ Grows(endNode[c], endNode'[c])
<1>0. ptrList[c] \in Seq(Meta) /\ endNode[c] \in Seq(Meta)
  BY DEF Shape, TypeOK
<1>1. CASE UNCHANGED <<ptrList, endNode>>
  <2>1. Len(ptrList[c]) \in Nat /\ Len(endNode[c]) \in Nat
    BY <1>0
  <2> QED BY <1>1, <2>1 DEF Grows
<1>2. ASSUME NEW i \in Inserters, EndNode(i) \/ Push(i)
      PROVE  Grows(ptrList[c], ptrList'[c]) /\ Grows(endNode[c], endNode'[c])
  <2>1. imeta[i] \in Meta
    BY <1>2, ReturnFacts
  <2>2. /\ ptrList'[c] \in {ptrList[c], Append(ptrList[c], imeta[i])}
        /\ endNode'[c] \in {endNode[c], Append(endNode[c], imeta[i])}
    <3>1. CASE Push(i)
      BY <3>1, PushFacts
    <3>2. CASE EndNode(i)
      BY <3>2, EndNodeFacts
    <3> QED BY <1>2, <3>1, <3>2
  <2> QED BY <1>0, <2>1, <2>2, AppendGrows
<1>3. ASSUME NEW i \in Inserters, Walks(i) \/ \E m \in Meta : Insert2(i, m)
      PROVE  UNCHANGED <<ptrList, endNode>>
  BY <1>3, WalkFacts DEF Insert2
<1> QED BY <1>1, <1>2, <1>3, OtherFacts, InserterCases DEF Inserts

LEMMA OccursKept ==
    ASSUME NEW list \in Seq(Meta), NEW longer \in Seq(Meta), Grows(list, longer), NEW x, Occurs(x, list)
    PROVE  Occurs(x, longer)
<1>1. PICK k \in 1 .. Len(list) : list[k] = x
  BY DEF Occurs
<1>2. Len(list) \in Nat /\ Len(longer) \in Nat /\ Len(list) <= Len(longer)
  BY DEF Grows
<1>3. k \in 1 .. Len(longer) /\ longer[k] = x
  BY <1>1, <1>2 DEF Grows
<1> QED BY <1>3 DEF Occurs

LEMMA KeptStays ==
    ASSUME Shape, [Next]_vars, NEW c \in Cell, NEW x, Kept(x, c)
    PROVE  Occurs(x, ptrList'[c]) \/ Occurs(x, endNode'[c])
<1>1. /\ ptrList[c] \in Seq(Meta) /\ endNode[c] \in Seq(Meta)
      /\ ptrList'[c] \in Seq(Meta) /\ endNode'[c] \in Seq(Meta)
  BY NextShape DEF Shape, TypeOK
<1> QED BY <1>1, ListsGrow, OccursKept DEF Kept

LEMMA WalkKept ==
    ASSUME Shape, TreeGrows, NEW m \in Meta, NEW y \in Walk(Start(m))
    PROVE  y \in Walk(Start(m))' /\ y \in Live /\ CellOf(y)' = CellOf(y)
<1>1. Start(m) \in Live /\ y \in Live
  BY StartLive DEF Walk
<1> QED BY <1>1, WalkGrows DEF Start

\* A signature kept on the walk of m still is.
LEMMA StoredBy ==
    ASSUME Shape, ParentInv, [Next]_vars, NEW m \in Meta, NEW x \in Meta,
           Data[x] = Data[m], stamp'[x] >= stamp'[m],
           NEW y \in Walk(Start(m)), y[2] # {},
           Occurs(x, ptrList'[CellOf(y)]) \/ Occurs(x, endNode'[CellOf(y)])
    PROVE  Stored(m)'
<1>1. TreeGrows
  BY TreeGrowsNext
<1>2. y \in Walk(Start(m))' /\ CellOf(y)' = CellOf(y)
  BY <1>1, WalkKept
<1>3. PICK c : c = CellOf(y)
  OBVIOUS
<1>4. Kept(x, c)'
  BY <1>3 DEF Kept
<1>5. Kept(x, CellOf(y))'
  BY <1>2, <1>3, <1>4 DEF Kept
<1> QED BY <1>2, <1>5 DEF Stored

LEMMA StoredKept ==
    ASSUME Shape, TakenInv, PathInv, IdsTell, [Next]_vars, NEW m \in Meta, m \in taken, Stored(m)
    PROVE  Stored(m)'
<1>0. /\ stamp \in [Meta -> Time] /\ stamp' \in [Meta -> Time] /\ Time \subseteq Nat
      /\ ParentInv
  BY NextShape, TrieVAssumption DEF Shape, TypeOK, Time, PathInv
<1>1. CASE stamp'[m] = stamp[m]
  <2>1. PICK x \in Meta : /\ Data[x] = Data[m] /\ stamp[x] >= stamp[m]
                          /\ \E y \in Walk(Start(m)) : y[2] # {} /\ Kept(x, CellOf(y))
    BY DEF Stored
  <2>2. PICK y \in Walk(Start(m)) : y[2] # {} /\ Kept(x, CellOf(y))
    BY <2>1
  <2>3. CellOf(y) \in Cell
    BY <2>2, LiveFacts DEF Walk
  <2>4. Occurs(x, ptrList'[CellOf(y)]) \/ Occurs(x, endNode'[CellOf(y)])
    BY <2>2, <2>3, KeptStays
  <2>5. x \in taken
    BY <2>2, <2>3 DEF TakenInv, Kept, Occurs, HoldsOnly
  <2>6. stamp[x] <= stamp'[x]
    BY <2>5, StampsGrowNext DEF StampsGrow
  <2>7. stamp'[x] >= stamp'[m]
    <3>1. stamp[x] \in Nat /\ stamp'[x] \in Nat /\ stamp[m] \in Nat
      BY <1>0
    <3> QED BY <1>1, <2>1, <2>6, <3>1
  <2> QED BY <1>0, <2>1, <2>2, <2>4, <2>7, StoredBy
\* The time of m goes up: m itself is at the end of the walk.
<1>2. ASSUME NEW i \in Inserters, EndNode(i), stamp'[m] # stamp[m]
      PROVE  Stored(m)'
  <2> DEFINE z == <<inode[i], irem[i]>>
  <2>1. PICK k \in 1 .. Len(endNode[ICell(i)]) :
           /\ Known(imeta[i], endNode[ICell(i)][k])
           /\ endNode[ICell(i)][k] \in Meta
           /\ stamp' = [stamp EXCEPT ![endNode[ICell(i)][k]] = Latest(stamp[imeta[i]], @)]
    BY <1>2, EndNodeFacts
  <2>2. endNode[ICell(i)][k] = m
    BY <1>0, <1>2, <2>1
  <2>3. ipc[i] # "idle" /\ imeta[i] \in Meta /\ ICell(i) \in Cell /\ irem[i] # {}
    BY <1>2, ReturnFacts, InserterFacts
  <2>4. Data[m] = Data[imeta[i]]
    BY <2>1, <2>2, <2>3 DEF IdsTell
  <2>5. z \in Walk(Start(imeta[i])) /\ Start(imeta[i]) = Start(m)
    BY <2>3, <2>4 DEF PathInv, OnPath, Start
  <2>6. z[2] # {} /\ CellOf(z) = ICell(i)
    BY <2>3 DEF CellOf, ICell
  <2>7. PICK w : w = z
    OBVIOUS
  <2> HIDE DEF z
  <2>8. Kept(m, ICell(i))
    BY <2>2 DEF Kept, Occurs
  <2>9. Occurs(m, ptrList'[CellOf(w)]) \/ Occurs(m, endNode'[CellOf(w)])
    BY <2>3, <2>6, <2>7, <2>8, KeptStays
  <2>10. w \in Walk(Start(m)) /\ w[2] # {}
    BY <2>5, <2>6, <2>7
  <2>11. stamp'[m] >= stamp'[m]
    <3>1. stamp'[m] \in Nat
      BY <1>0
    <3> QED BY <3>1
  <2> QED BY <1>0, <2>9, <2>10, <2>11, StoredBy
<1>3. ASSUME stamp'[m] # stamp[m]
      PROVE  \E i \in Inserters : EndNode(i)
  <2>1. ASSUME NEW i \in Inserters, NEW n \in Meta, Insert2(i, n)
        PROVE  stamp'[m] = stamp[m]
    <3>1. n \notin taken /\ stamp' = [stamp EXCEPT ![n] = now]
      BY <2>1 DEF Insert2
    <3> QED BY <1>0, <3>1
  <2>2. ASSUME NEW i \in Inserters, Walks(i) \/ Push(i)
        PROVE  stamp' = stamp
    BY <2>2, WalkFacts, PushFacts
  <2> QED BY <1>3, <2>1, <2>2, OtherFacts, InserterCases DEF Inserts
<1> QED BY <1>1, <1>2, <1>3

LEMMA ParentKept ==
    ASSUME Shape, ParentInv, OneInserter, [Next]_vars
    PROVE  ParentInv'
<1>0. ipc \in [Inserters -> {"idle", "endLock", "end", "room", "pushLock", "push",
                             "child", "nodeLock", "newNode", "descend"}]
  BY DEF Shape, TypeOK
<1>1. ASSUME NEW i \in Inserters, ProbeChild(i) \/ LockNode(i)
      PROVE  ParentInv'
  <2>1. UNCHANGED <<children, nodePos, inode, irem>>
    BY <1>1 DEF ProbeChild, LockNode, IUnchanged, treeVars
  <2>2. ipc'[i] \in {"nodeLock", "newNode"} => children[ICell(i)] = NoNode
    BY <1>0, <1>1 DEF ProbeChild, LockNode, IGoto, NoChild, ParentInv
  <2> QED BY <2>1, <2>2 DEF ParentInv, OneInserter, ICell
<1>2. ASSUME NEW i \in Inserters, InserterStep(i), ~ProbeChild(i), ~LockNode(i)
      PROVE  ParentInv'
  <2>1. ipc'[i] \notin {"nodeLock", "newNode"}
    BY <1>0, <1>2 DEF InserterStep, ILockList, EndNode, ProbeRoom, Push, NewNode, Descend,
                      IGoto, IReturn, Enter
  <2> QED BY <2>1 DEF ParentInv, OneInserter
<1>3. ASSUME NEW i \in Inserters, NEW m \in Meta, Insert2(i, m)
      PROVE  ParentInv'
  <2>1. ipc[i] = "idle" /\ ipc'[i] \in {"idle", "endLock", "room"}
    BY <1>0, <1>3 DEF Insert2, IGoto, Enter
  <2> QED BY <2>1 DEF ParentInv, OneInserter
<1>4. CASE ~ \E i \in Inserters : Inserts(i)
  BY <1>4, OtherFacts DEF ParentInv, ICell, treeVars, insVars
<1> QED BY <1>1, <1>2, <1>3, <1>4 DEF Inserts

LEMMA OnPathKept ==
    ASSUME Shape, PathInv, OneInserter, HaveZeros, [Next]_vars
    PROVE  OnPath'
<1> SUFFICES ASSUME NEW i \in Inserters, NEW m \in Meta, ipc'[i] # "idle", imeta'[i] = m
             PROVE  <<inode'[i], irem'[i]>> \in Walk(Start(m))'
  BY DEF OnPath
<1>0. /\ ipc \in [Inserters -> {"idle", "endLock", "end", "room", "pushLock", "push",
                                "child", "nodeLock", "newNode", "descend"}]
      /\ inode \in [Inserters -> Node] /\ irem \in [Inserters -> SUBSET Bits]
      /\ imeta \in [Inserters -> Meta \cup {NoMeta}]
  BY DEF Shape, TypeOK
<1>1. TreeGrows
  BY TreeGrowsNext DEF PathInv
<1>2. ASSUME ipc[i] # "idle", imeta[i] = m, UNCHANGED <<inode, irem>>
      PROVE  <<inode'[i], irem'[i]>> \in Walk(Start(m))'
  BY <1>1, <1>2, WalkKept DEF PathInv, OnPath
<1>3. CASE Descend(i)
  <2> DEFINE x == <<inode[i], irem[i]>>
  <2>1. ipc[i] = "descend" /\ imeta[i] = m /\ UNCHANGED treeVars
    BY <1>3 DEF Descend, IGoto
  <2>2. x \in Walk(Start(m)) /\ Start(m) \in Live
    BY <2>1, StartLive DEF PathInv, OnPath
  <2>3. CellOf(x) = ICell(i) /\ Goes(x)
    BY <2>1, InserterFacts DEF CellOf, ICell, Goes, Shape, InserterShape, InserterFits
  <2>4. Down(x) \in Walk(Start(m))
    <3> HIDE DEF x
    <3> QED BY <2>2, <2>3, WalkDown
  <2>5. inode'[i] = children[ICell(i)] /\ irem'[i] = irem[i] \ {Lowest(irem[i])}
    BY <1>0, <1>3 DEF Descend
  <2>6. <<inode'[i], irem'[i]>> = Down(x)
    BY <2>3, <2>5 DEF Down
  <2> QED BY <1>1, <2>4, <2>6, WalkKept
<1>4. ASSUME Walks(i), ~Descend(i)
      PROVE  <<inode'[i], irem'[i]>> \in Walk(Start(m))'
  BY <1>2, <1>4, WalkFacts
<1>5. CASE \E n \in Meta : Insert2(i, n)
  <2>1. PICK n \in Meta : Insert2(i, n)
    BY <1>5
  <2>2. /\ imeta' = [imeta EXCEPT ![i] = n] /\ inode' = [inode EXCEPT ![i] = Root]
        /\ irem' = [irem EXCEPT ![i] = Zeros(Data[n])]
    BY <2>1 DEF Insert2, HaveZeros
  <2>3. n = m /\ <<inode'[i], irem'[i]>> = Start(m)
    BY <1>0, <2>2 DEF Start
  <2>4. Start(m) \in Walk(Start(m))
    BY StartLive, WalkSelf
  <2> QED BY <1>1, <2>3, <2>4, WalkKept
<1>6. CASE Push(i) \/ EndNode(i)
  BY <1>0, <1>6, ReturnFacts
<1>7. CASE \E j \in Inserters : Inserts(j)
  <2>1. InserterStep(i) \/ \E n \in Meta : Insert2(i, n)
    BY <1>7 DEF OneInserter, Inserts
  <2> QED BY <1>3, <1>4, <1>5, <1>6, <2>1, InserterCases
<1>8. CASE ~ \E j \in Inserters : Inserts(j)
  BY <1>2, <1>8, OtherFacts DEF insVars
<1> QED BY <1>7, <1>8

LEMMA PathInvNext ==
    ASSUME Shape, TakenInv, PathInv, OneInserter, HaveZeros, IdsTell, [Next]_vars
    PROVE  PathInv'
<1> SUFFICES ASSUME NEW m \in inserted'
             PROVE  Stored(m)'
  BY ParentKept, OnPathKept DEF PathInv
<1>0. m \in Meta /\ ParentInv /\ stamp' \in [Meta -> Time] /\ Time \subseteq Nat
  BY NextShape, TrieVAssumption DEF Shape, TypeOK, PathInv, Time
<1>1. CASE m \in inserted
  BY <1>0, <1>1, StoredKept DEF PathInv, TakenInv
<1>2. ASSUME NEW i \in Inserters, Push(i) \/ EndNode(i), m \notin inserted
      PROVE  Stored(m)'
  <2> DEFINE z == <<inode[i], irem[i]>>
             c == ICell(i)
  <2>1. m = imeta[i] /\ ipc[i] # "idle" /\ c \in Cell
    BY <1>2, ReturnFacts
  <2>2. z \in Walk(Start(m)) /\ z[2] # {} /\ CellOf(z) = c
    BY <2>1, InserterFacts DEF PathInv, OnPath, CellOf, ICell
  <2>3. PICK w : w = z
    OBVIOUS
  <2>4. ptrList[c] \in Seq(Meta) /\ endNode[c] \in Seq(Meta)
    BY <2>1 DEF Shape, TypeOK
  <2> HIDE DEF z, c
  <2>5. ASSUME Occurs(m, ptrList'[c]) \/ Occurs(m, endNode'[c])
        PROVE  Stored(m)'
    <3>1. Occurs(m, ptrList'[CellOf(w)]) \/ Occurs(m, endNode'[CellOf(w)])
      BY <2>2, <2>3, <2>5
    <3>2. w \in Walk(Start(m)) /\ w[2] # {}
      BY <2>2, <2>3
    <3>3. stamp'[m] >= stamp'[m]
      <4>1. stamp'[m] \in Nat
        BY <1>0
      <4> QED BY <4>1
    <3> QED BY <1>0, <3>1, <3>2, <3>3, StoredBy
  <2>6. CASE Push(i)
    <3>1. ptrList'[c] = Append(ptrList[c], m)
      BY <2>1, <2>6, PushFacts DEF c
    <3> QED BY <1>0, <2>4, <2>5, <3>1, AppendGrows
  <2>7. CASE EndNode(i) /\ endNode'[c] = Append(endNode[c], m)
    BY <1>0, <2>4, <2>5, <2>7, AppendGrows
  \* Another signature with this filter was there and has the time of m now.
  <2>8. ASSUME EndNode(i), NEW k \in 1 .. Len(endNode[c]), Known(m, endNode[c][k]),
               endNode[c][k] \in Meta, UNCHANGED <<endNode, ptrList>>,
               stamp' = [stamp EXCEPT ![endNode[c][k]] = Latest(stamp[m], @)],
               stamp[m] <= stamp'[endNode[c][k]]
        PROVE  Stored(m)'
    <3>1. PICK x : x = endNode[c][k]
      OBVIOUS
    <3>2. x \in Meta /\ Data[x] = Data[m] /\ Occurs(x, endNode'[c])
      BY <1>0, <2>8, <3>1 DEF IdsTell, Occurs
    <3>3. stamp'[x] >= stamp'[m]
      <4>1. stamp \in [Meta -> Time]
        BY DEF Shape, TypeOK
      <4>2. CASE x = m
        <5>1. stamp'[x] \in Nat
          BY <1>0, <3>2
        <5> QED BY <4>2, <5>1
      <4>3. CASE x # m
        <5>1. stamp'[m] = stamp[m] /\ stamp[m] <= stamp'[x]
          BY <1>0, <2>8, <3>1, <4>1, <4>3
        <5>2. stamp'[x] \in Nat /\ stamp[m] \in Nat
          BY <1>0, <3>2, <4>1
        <5> QED BY <5>1, <5>2
      <4> QED BY <4>2, <4>3
    <3>4. w \in Walk(Start(m)) /\ w[2] # {} /\ CellOf(w) = c
      BY <2>2, <2>3
    <3>5. Occurs(x, ptrList'[CellOf(w)]) \/ Occurs(x, endNode'[CellOf(w)])
      BY <3>2, <3>4
    <3> QED BY <1>0, <3>2, <3>3, <3>4, <3>5, StoredBy
  <2>9. CASE EndNode(i)
    <3>1. \/ /\ UNCHANGED <<endNode, ptrList>>
             /\ \E k \in 1 .. Len(endNode[c]) :
                   /\ Known(m, endNode[c][k])
                   /\ endNode[c][k] \in Meta
                   /\ stamp' = [stamp EXCEPT ![endNode[c][k]] = Latest(stamp[m], @)]
                   /\ stamp[m] <= stamp'[endNode[c][k]]
          \/ endNode'[c] = Append(endNode[c], m)
      BY <2>1, <2>9, EndNodeFacts DEF c
    <3> QED BY <2>7, <2>8, <2>9, <3>1
  <2> QED BY <1>2, <2>6, <2>9
<1>3. ASSUME m \notin inserted
      PROVE  \E i \in Inserters : Push(i) \/ EndNode(i)
  <2>1. inserted' # inserted
    BY <1>3
  <2>2. PICK i \in Inserters : Inserts(i)
    BY <2>1, OtherFacts DEF insVars
  <2> QED BY <2>1, <2>2, InserterCases, WalkFacts DEF Insert2, HaveZeros, Inserts
<1> QED BY <1>1, <1>2, <1>3

LEMMA PathInvInit == Init => PathInv
  BY DEF Init, PathInv, ParentInv, OnPath

-----------------------------------------------------------------------------
(* Searches: what a search still has to find *)

\* s has x in what it took under the lock.
Copied(s, x) ==
    \/ Occurs(x, endList[s])
    \/ \E k \in 1 .. count[s] : ptrList[SCell(s)][k] = x

\* s has not yet scanned the slot of the node it is in, for x at least.
Scans(s, slot, x) ==
    /\ spc[s] # "kids" /\ slot \in scan[s]
    /\ slot = Lowest(scan[s]) /\ spc[s] = "scan" => Copied(s, x)

\* x is what s looks for, in a list where a walk that has come to y arrives.
Due(s, x, y, c) ==
    /\ x \in Meta /\ Data[x] = squery[s] /\ stamp[x] > sstamp[s]
    /\ y \in Live /\ y[2] # {}
    /\ c \in Cell /\ c = CellOf(y)
    /\ Kept(x, c)

\* From the k-th activation of s, which is in node n and has, among others, the
\* positions r left, a walk comes to y; or it is there and will scan the list.
Comes(s, x, y, c, k, n, r) ==
    /\ k \in 1 .. Len(stack[s]) /\ n = stack[s][k].node /\ r \subseteq stack[s][k].rem
    /\ y \in Walk(<<n, r>>)
    /\ y = <<n, r>> => k = 1 /\ Scans(s, c[2], x)

Ahead(s) == \E x, y, c, k, n, r : Due(s, x, y, c) /\ Comes(s, x, y, c, k, n, r)

\* s has still to find, or has found, an update of exactly its filter.
Owes(s) == (\E m \in later[s] : Data[m] = squery[s]) => answer[s] \/ Ahead(s)
OwedInv == \A s \in Searchers : Owes(s)

LEMMA OwedSound == ASSUME Shape, OwedInv PROVE EqualFound
<1> SUFFICES ASSUME NEW s \in Searchers, spc[s] = "idle", \E m \in later[s] : Data[m] = squery[s],
                    ~answer[s]
             PROVE  FALSE
  BY DEF EqualFound
<1>1. stack[s] = <<>>
  BY DEF Shape, SearcherShape, SearcherFits
<1>2. Ahead(s)
  BY DEF OwedInv, Owes
<1>3. PICK k : k \in 1 .. Len(stack[s])
  BY <1>2 DEF Ahead, Comes
<1> QED BY <1>1, <1>3

LEMMA OwedInvInit == Init => OwedInv
  BY DEF Init, OwedInv, Owes

\* A state on a frame's walk.
LEMMA FrameLive ==
    ASSUME Shape, NEW s \in Searchers, NEW k \in 1 .. Len(stack[s]),
           NEW n, NEW r, n = stack[s][k].node, r \subseteq stack[s][k].rem
    PROVE  /\ <<n, r>> \in Live /\ n \in Node /\ r \in SUBSET Bits
           /\ stack[s][k].rem \in SUBSET Bits /\ nodePos[n] \in Pos /\ n \in 1 .. nodeNum
<1>1. stack[s][k] \in Frame
  <2>1. stack[s] \in Seq(Frame)
    BY DEF Shape, TypeOK
  <2> QED BY <2>1
<1>2. n \in 1 .. nodeNum /\ n \in Node
  BY <1>1 DEF Shape, SearcherShape, SearcherFits, Frame
<1>3. \A p \in stack[s][k].rem : p > nodePos[n]
  BY DEF Shape, PositionsAhead
<1>4. nodePos[n] \in Pos
  BY <1>2 DEF Shape, TypeOK, Pos
<1> QED BY <1>1, <1>2, <1>3, <1>4 DEF Live, Frame

\* What s copied it keeps while it scans: lists only grow behind its count.
LEMMA CopiedKept ==
    ASSUME Shape, [Next]_vars, NEW s \in Searchers, spc[s] = "scan", NEW x, Copied(s, x),
           stack'[s] = stack[s], scan'[s] = scan[s], endList'[s] = endList[s],
           count'[s] = count[s]
    PROVE  Copied(s, x)'
<1>1. SCell(s) \in Cell /\ SCell(s)' = SCell(s)
  BY SearcherFacts DEF SCell
<1>2. PICK c : c = SCell(s)
  OBVIOUS
<1>3. c \in Cell /\ SCell(s)' = c
  BY <1>1, <1>2
<1>4. Grows(ptrList[c], ptrList'[c])
  BY <1>3, ListsGrow
<1>5. count[s] \in Nat /\ count[s] <= Len(ptrList[c]) /\ Len(ptrList[c]) \in Nat
  BY <1>2, <1>3 DEF Shape, TypeOK, SearcherShape, SearcherFits
<1>6. ASSUME NEW k \in 1 .. count[s]
      PROVE  ptrList'[c][k] = ptrList[c][k]
  <2>1. k \in 1 .. Len(ptrList[c])
    BY <1>5
  <2> QED BY <1>4, <2>1 DEF Grows
<1> QED BY <1>2, <1>3, <1>6 DEF Copied, Occurs

\* What is due stays due.
LEMMA DueKept ==
    ASSUME Shape, TakenInv, ParentInv, [Next]_vars, NEW s \in Searchers,
           squery'[s] = squery[s], sstamp'[s] = sstamp[s],
           NEW x, NEW y, NEW c, Due(s, x, y, c)
    PROVE  Due(s, x, y, c)'
<1>1. TreeGrows /\ y \in Live
  BY TreeGrowsNext DEF Due
<1>2. y \in Live' /\ CellOf(y)' = CellOf(y)
  BY <1>1, WalkGrows
<1>3. Kept(x, c)'
  BY KeptStays DEF Due, Kept
<1>4. x \in taken
  BY DEF Due, TakenInv, Kept, Occurs, HoldsOnly
<1>5. stamp[x] <= stamp'[x]
  BY <1>4, StampsGrowNext DEF StampsGrow
<1>6. stamp'[x] > sstamp[s]
  <2>1. stamp[x] \in Nat /\ stamp'[x] \in Nat /\ sstamp[s] \in Nat
    BY NextShape, TrieVAssumption DEF Shape, TypeOK, Time, Due
  <2> QED BY <1>5, <2>1 DEF Due
<1> QED BY <1>2, <1>3, <1>6 DEF Due

\* Steps of others leave what a search will find where it is.
LEMMA OwesKept ==
    ASSUME Shape, TakenInv, ParentInv, [Next]_vars, NEW s \in Searchers, Owes(s),
           spc'[s] = spc[s], squery'[s] = squery[s], sstamp'[s] = sstamp[s],
           stack'[s] = stack[s], scan'[s] = scan[s], endList'[s] = endList[s],
           count'[s] = count[s], answer'[s] = answer[s], later'[s] = later[s]
    PROVE  Owes(s)'
<1> SUFFICES ASSUME Ahead(s)
             PROVE  Ahead(s)'
  BY DEF Owes
<1>1. PICK x, y, c, k, n, r : Due(s, x, y, c) /\ Comes(s, x, y, c, k, n, r)
  BY DEF Ahead
<1>2. TreeGrows
  BY TreeGrowsNext
<1>3. Due(s, x, y, c)'
  BY <1>1, DueKept
<1>4. Comes(s, x, y, c, k, n, r)'
  <2>1. <<n, r>> \in Live
    BY <1>1, FrameLive DEF Comes
  <2>2. y \in Walk(<<n, r>>)'
    BY <1>1, <1>2, <2>1, WalkGrows DEF Comes
  <2>3. Scans(s, c[2], x) => Scans(s, c[2], x)'
    BY CopiedKept DEF Scans
  <2> QED BY <1>1, <2>2, <2>3 DEF Comes
<1> QED BY <1>3, <1>4 DEF Ahead

\* The step of a search that finds something, or leaves ahead what was ahead.
LEMMA OwesStep ==
    ASSUME Shape, TakenInv, ParentInv, [Next]_vars, NEW s \in Searchers, Owes(s),
           UNCHANGED callVars, answer[s] => answer'[s],
           \A x, y, c, k, n, r :
              Due(s, x, y, c) /\ Comes(s, x, y, c, k, n, r)
              => answer'[s] \/ \E l, o, q : Comes(s, x, y, c, l, o, q)'
    PROVE  Owes(s)'
<1>0. squery' = squery /\ sstamp' = sstamp /\ later' = later
  BY DEF callVars
<1> SUFFICES ASSUME Ahead(s), ~answer'[s]
             PROVE  Ahead(s)'
  BY <1>0 DEF Owes
<1>1. PICK x, y, c, k, n, r : Due(s, x, y, c) /\ Comes(s, x, y, c, k, n, r)
  BY DEF Ahead
<1>2. Due(s, x, y, c)'
  BY <1>0, <1>1, DueKept
<1>3. PICK l, o, q : Comes(s, x, y, c, l, o, q)'
  BY <1>1
<1> QED BY <1>2, <1>3 DEF Ahead

\* A walk goes on from <<n, r>> to y by the child d in slot, with left to spend.
Continues(y, n, r, d, slot, left) ==
    /\ slot \in Slot /\ slot = SlotOf(nodePos[n], Lowest(r))
    /\ d \in Node /\ d = children[<<n, slot>>] /\ d # NoNode
    /\ left \in SUBSET Bits /\ left = r \ {Lowest(r)} /\ left # {}
    /\ <<d, left>> \in Live /\ y \in Walk(<<d, left>>)

\* What the walk does next: down from where it is, by its lowest position.
LEMMA NextOnWalk ==
    ASSUME Shape, NEW n, NEW r, NEW y, <<n, r>> \in Live, y \in Walk(<<n, r>>), y # <<n, r>>,
           y[2] # {}
    PROVE  /\ r # {} /\ Lowest(r) \in r /\ \A p \in r : Lowest(r) <= p
           /\ n \in Node /\ r \in SUBSET Bits /\ nodePos[n] \in Pos
           /\ \E d, slot, left : Continues(y, n, r, d, slot, left)
<1> DEFINE x == <<n, r>>
           d == children[CellOf(x)]
           rest == r \ {Lowest(r)}
<1>1. x[1] = n /\ x[2] = r
  OBVIOUS
<1>2. Goes(x) /\ Down(x) \in Live /\ y \in Walk(Down(x)) /\ Down(x) = <<d, rest>>
  <2>1. Goes(x) /\ Down(x) \in Live /\ y \in Walk(Down(x))
    <3> HIDE DEF x
    <3> QED BY WalkStep DEF x
  <2> QED BY <1>1, <2>1 DEF Down
<1>3. /\ r # {} /\ n \in Node /\ r \in SUBSET Bits /\ CellOf(x) = <<n, SlotOf(nodePos[n], Lowest(r))>>
      /\ SlotOf(nodePos[n], Lowest(r)) \in Slot /\ d # NoNode
  BY <1>1, <1>2, LiveFacts DEF Goes, CellOf
<1>4. Lowest(r) \in r /\ \A p \in r : Lowest(r) <= p
  BY <1>3, LowestBit
<1>5. nodePos[n] \in Pos
  BY <1>3 DEF Shape, TypeOK, Pos
<1> HIDE DEF d, rest
<1>6. d \in Node /\ rest \in SUBSET Bits
  <2>1. <<d, rest>>[1] = d /\ <<d, rest>>[2] = rest
    OBVIOUS
  <2> QED BY <1>2, <2>1, LiveFacts
<1>7. rest # {}
  <2> SUFFICES ASSUME rest = {}
               PROVE  FALSE
    OBVIOUS
  <2>1. y # <<d, rest>>
    OBVIOUS
  <2>2. Goes(<<d, rest>>)
    BY <1>2, <2>1, WalkStep
  <2> QED BY <2>2 DEF Goes
<1>8. Continues(y, n, r, d, SlotOf(nodePos[n], Lowest(r)), rest)
  BY <1>2, <1>3, <1>6, <1>7 DEF d, rest, Continues
<1> QED BY <1>3, <1>4, <1>5, <1>8

\* A search that enters a node scans the slot of the walk's lowest position.
LEMMA EnterScans ==
    ASSUME Shape, NEW y \in Live, NEW c, y[2] # {}, c = CellOf(y), NEW rem, y[2] \subseteq rem
    PROVE  c[2] \in SlotsOf(nodePos[y[1]], rem)
<1>1. Lowest(y[2]) \in y[2] /\ c[2] = SlotOf(nodePos[y[1]], Lowest(y[2]))
  BY LiveFacts DEF CellOf
<1> QED BY <1>1 DEF SlotsOf

LEMMA StackTop ==
    ASSUME Shape, NEW s \in Searchers, spc[s] # "idle", NEW n, n = stack[s][1].node,
           NEW c \in Cell, c[1] = n, c[2] = Lowest(scan[s])
    PROVE  c = SCell(s)
<1>1. Head(stack[s]) = stack[s][1] /\ c = <<c[1], c[2]>>
  BY SearcherFacts DEF Cell
<1> QED BY <1>1 DEF SCell

LEMMA CountComes ==
    ASSUME Shape, NEW s \in Searchers, SLockList(s) \/ Count(s),
           NEW x, NEW y, NEW c, NEW k, NEW n, NEW r,
           Due(s, x, y, c), Comes(s, x, y, c, k, n, r)
    PROVE  Comes(s, x, y, c, k, n, r)'
<1>0. /\ spc \in [Searchers -> {"idle", "countLock", "count", "scan", "kids"}]
      /\ count \in [Searchers -> Nat] /\ endList \in [Searchers -> Seq(Meta)]
  BY DEF Shape, TypeOK
<1>1. UNCHANGED <<treeVars, ptrList, endNode, stack, scan>> /\ Walk(<<n, r>>)' = Walk(<<n, r>>)
  BY WalkSame DEF Count, SLockList, scanVars
<1>2. ASSUME Scans(s, c[2], x), k = 1, y = <<n, r>>
      PROVE  Scans(s, c[2], x)'
  <2>1. CASE SLockList(s)
    <3>1. spc[s] = "countLock" /\ spc'[s] = "count"
      BY <1>0, <2>1 DEF SLockList, SGoto
    <3> QED BY <1>1, <1>2, <3>1 DEF Scans
  <2>2. CASE Count(s)
    <3>1. spc[s] = "count" /\ spc'[s] = "scan" /\ SCell(s) \in Cell
          /\ count'[s] = Len(ptrList[SCell(s)]) /\ endList'[s] = endNode[SCell(s)]
      BY <1>0, <2>2, CountFacts
    <3>2. SCell(s)' = SCell(s)
      BY <1>1 DEF SCell
    <3>3. ASSUME c[2] = Lowest(scan[s])
          PROVE  Copied(s, x)'
      <4>1. c[1] = n /\ c \in Cell /\ Kept(x, c)
        BY <1>2 DEF Due, CellOf
      <4>2. n = stack[s][1].node
        BY <1>2 DEF Comes
      <4>3. c = SCell(s)
        BY <3>1, <3>3, <4>1, <4>2, StackTop
      <4>4. count'[s] = Len(ptrList[c]) /\ endList'[s] = endNode[c] /\ SCell(s)' = c
        BY <3>1, <3>2, <4>3
      <4> QED BY <1>1, <4>1, <4>4 DEF Copied, Kept, Occurs
    <3> QED BY <1>1, <1>2, <3>1, <3>3 DEF Scans
  <2> QED BY <2>1, <2>2
<1> QED BY <1>1, <1>2 DEF Comes

\* The copy and the counted part of the list are scanned as a whole.
LEMMA CopiedFound ==
    ASSUME Shape, NEW s \in Searchers, spc[s] = "scan", NEW x \in Meta,
           Data[x] = squery[s], stamp[x] > sstamp[s], Copied(s, x)
    PROVE  FoundIn(s)
<1> DEFINE list == ptrList[SCell(s)]
<1>1. /\ list \in Seq(Meta) /\ count[s] \in Nat /\ count[s] <= Len(list)
      /\ stamp[x] \in Nat /\ sstamp[s] \in Nat /\ endList[s] \in Seq(Meta)
  BY SearcherFacts, TrieVAssumption DEF Shape, TypeOK, SearcherShape, SearcherFits, Time
<1>2. Matches(s, x) /\ sstamp[s] <= stamp[x] /\ sstamp[s] < stamp[x]
  BY <1>1 DEF Matches, Includes
<1>3. CASE Occurs(x, endList[s])
  <2>1. x \in ToSet(endList[s])
    BY <1>3 DEF Occurs, ToSet
  <2> QED BY <1>2, <2>1 DEF FoundIn
<1>4. CASE \E k \in 1 .. count[s] : list[k] = x
  <2> HIDE DEF list
  <2>1. /\ DOMAIN SubSeq(list, 1, count[s]) = 1 .. count[s]
        /\ \A k \in 1 .. count[s] : SubSeq(list, 1, count[s])[k] = list[k]
    BY <1>1
  <2>2. x \in ToSet(SubSeq(list, 1, count[s]))
    BY <1>4, <2>1, Zenon DEF ToSet
  <2> QED BY <1>2, <2>2 DEF FoundIn, list
<1> QED BY <1>3, <1>4 DEF Copied

LEMMA ScanSlotComes ==
    ASSUME Shape, NEW s \in Searchers, ScanSlot(s), ~answer'[s],
           NEW x, NEW y, NEW c, NEW k, NEW n, NEW r,
           Due(s, x, y, c), Comes(s, x, y, c, k, n, r)
    PROVE  Comes(s, x, y, c, k, n, r)'
<1>0. /\ spc \in [Searchers -> {"idle", "countLock", "count", "scan", "kids"}]
      /\ scan \in [Searchers -> SUBSET Slot]
  BY DEF Shape, TypeOK
<1> DEFINE left == scan[s] \ {Lowest(scan[s])}
<1>1. /\ UNCHANGED <<treeVars, stack>> /\ Walk(<<n, r>>)' = Walk(<<n, r>>)
      /\ spc[s] = "scan" /\ scan'[s] = left /\ ~FoundIn(s)
      /\ spc'[s] = IF left = {} THEN "kids" ELSE "countLock"
  BY <1>0, ScanSlotFacts, WalkSame
<1>2. ASSUME Scans(s, c[2], x), k = 1, y = <<n, r>>
      PROVE  Scans(s, c[2], x)'
  <2>1. c[2] # Lowest(scan[s])
    BY <1>1, <1>2, CopiedFound DEF Scans, Due
  <2>2. c[2] \in left
    BY <1>2, <2>1 DEF Scans
  <2>3. spc'[s] = "countLock" /\ c[2] \in scan'[s]
    BY <1>1, <2>2
  <2> QED BY <2>3 DEF Scans
<1> QED BY <1>1, <1>2 DEF Comes

LEMMA StackCons ==
    ASSUME NEW f \in Frame, NEW below \in Seq(Frame)
    PROVE  /\ Len(<<f>> \o below) = Len(below) + 1 /\ Len(below) \in Nat
           /\ (<<f>> \o below)[1] = f
           /\ \A k \in 1 .. Len(below) : (<<f>> \o below)[k + 1] = below[k]
  OBVIOUS

LEMMA StackTail ==
    ASSUME NEW below \in Seq(Frame), below # <<>>
    PROVE  /\ Len(Tail(below)) = Len(below) - 1 /\ Len(below) \in Nat \ {0}
           /\ Head(below) = below[1]
           /\ \A k \in 1 .. Len(below) - 1 : Tail(below)[k] = below[k + 1]
  OBVIOUS

LEMMA NearChildComes ==
    ASSUME Shape, NEW s \in Searchers, NearChild(s),
           NEW x, NEW y, NEW c, NEW k, NEW n, NEW r,
           Due(s, x, y, c), Comes(s, x, y, c, k, n, r)
    PROVE  \E l, o, q : Comes(s, x, y, c, l, o, q)'
<1> DEFINE f == Head(stack[s])
           p == Lowest(f.rem)
           rest == f.rem \ {p}
           child == children[<<f.node, SlotOf(nodePos[f.node], p)>>]
           back == [f EXCEPT !.rem = rest]
           below == <<back>> \o Tail(stack[s])
           calls == child # NoNode /\ rest # {}
<1>0. /\ stack \in [Searchers -> Seq(Frame)] /\ spc[s] = "kids" /\ f.rem # {}
      /\ scan \in [Searchers -> SUBSET Slot]
      /\ spc \in [Searchers -> {"idle", "countLock", "count", "scan", "kids"}]
  BY DEF Shape, TypeOK, NearChild
<1>1. /\ UNCHANGED treeVars /\ \A z : Walk(z)' = Walk(z)
      /\ ~calls => stack' = [stack EXCEPT ![s] = below] /\ UNCHANGED <<spc, scan>>
      /\ calls => /\ spc'[s] = "countLock"
                  /\ stack' = [stack EXCEPT ![s] = <<[node |-> child, rem |-> rest]>> \o below]
                  /\ scan' = [scan EXCEPT ![s] = SlotsOf(nodePos[child], rest)]
  BY <1>0, WalkSame DEF NearChild, Call
<1>2. /\ stack[s] \in Seq(Frame) /\ stack[s] # <<>> /\ f \in Frame /\ f = stack[s][1]
      /\ Len(Tail(stack[s])) = Len(stack[s]) - 1 /\ Len(stack[s]) \in Nat \ {0}
      /\ \A i \in 1 .. Len(stack[s]) - 1 : Tail(stack[s])[i] = stack[s][i + 1]
      /\ Tail(stack[s]) \in Seq(Frame)
  BY <1>0, SearcherFacts, StackTail
<1>3. <<n, r>> \in Live /\ n \in Node /\ r \in SUBSET Bits /\ stack[s][k].rem \in SUBSET Bits
  BY FrameLive DEF Comes
<1>4. /\ back \in Frame /\ back.node = f.node /\ back.rem = rest /\ rest \in SUBSET Bits
      /\ f.rem \in SUBSET Bits /\ f.node \in Node
      /\ child \in Node \cup {NoNode}
  <2>1. /\ back \in Frame /\ back.node = f.node /\ back.rem = rest /\ rest \in SUBSET Bits
        /\ f.rem \in SUBSET Bits /\ f.node \in Node
    BY <1>2 DEF Frame
  <2>2. nodePos[f.node] \in Pos /\ \A z \in f.rem : z > nodePos[f.node]
    BY <1>0, SearcherFacts
  <2> HIDE DEF f
  <2>3. SlotOf(nodePos[f.node], p) \in Slot
    BY <1>0, <2>1, <2>2, RestAhead
  <2>4. child \in Node \cup {NoNode}
    BY <2>1, <2>3 DEF Shape, TypeOK, Cell
  <2> QED BY <2>1, <2>4
<1> HIDE DEF f, p, rest, child, back
<1>5. /\ below \in Seq(Frame) /\ Len(below) = Len(stack[s]) /\ below[1] = back
      /\ \A i \in 1 .. Len(stack[s]) : i # 1 => below[i] = stack[s][i]
  <2>1. /\ below \in Seq(Frame) /\ Len(below) = Len(stack[s]) /\ below[1] = back
        /\ \A i \in 1 .. Len(Tail(stack[s])) : below[i + 1] = Tail(stack[s])[i]
    BY <1>2, <1>4, StackCons
  <2>2. ASSUME NEW i \in 1 .. Len(stack[s]), i # 1
        PROVE  below[i] = stack[s][i]
    <3>1. i - 1 \in 1 .. Len(stack[s]) - 1 /\ i - 1 + 1 = i
      BY <1>2, <2>2
    <3> QED BY <1>2, <2>1, <3>1
  <2> QED BY <2>1, <2>2
<1> HIDE DEF below
<1>6. y # <<n, r>> /\ k \in 1 .. Len(stack[s]) /\ n = stack[s][k].node /\ r \subseteq stack[s][k].rem
      /\ y \in Walk(<<n, r>>)
  BY <1>0 DEF Comes, Scans
\* A frame of below is one of the new stack.
<1>7. ASSUME NEW l \in 1 .. Len(below), NEW o, NEW q, o = below[l].node, q \subseteq below[l].rem,
             y \in Walk(<<o, q>>), y # <<o, q>>
      PROVE  \E i : Comes(s, x, y, c, i, o, q)'
  <2>1. CASE ~calls
    <3>1. stack'[s] = below
      BY <1>0, <1>1, <2>1
    <3>2. Comes(s, x, y, c, l, o, q)'
      BY <1>1, <1>7, <3>1 DEF Comes
    <3> QED BY <3>2
  <2>2. CASE calls
    <3> DEFINE g == [node |-> child, rem |-> rest]
    <3>1. stack'[s] = <<g>> \o below
      BY <1>0, <1>1, <2>2
    <3>2. g \in Frame
      <4> QED BY <1>4, <2>2 DEF Frame
    <3> HIDE DEF g
    <3>3. Len(<<g>> \o below) = Len(below) + 1 /\ (<<g>> \o below)[l + 1] = below[l]
          /\ l + 1 \in 1 .. Len(below) + 1
      <4>1. Len(below) \in Nat
        BY <1>2, <1>5
      <4>2. l + 1 \in 1 .. Len(below) + 1
        BY <4>1
      <4> QED BY <1>5, <3>2, <4>2, StackCons
    <3>4. Comes(s, x, y, c, l + 1, o, q)'
      BY <1>1, <1>7, <3>1, <3>3 DEF Comes
    <3> QED BY <3>4
  <2> QED BY <2>1, <2>2
<1>8. CASE k # 1
  <2>1. below[k] = stack[s][k] /\ k \in 1 .. Len(below)
    BY <1>5, <1>6, <1>8
  <2> QED BY <1>6, <1>7, <2>1
<1>9. CASE k = 1 /\ p \notin r
  <2>1. r \subseteq rest /\ n = f.node /\ 1 \in 1 .. Len(below)
    BY <1>2, <1>5, <1>6, <1>9 DEF rest
  <2> QED BY <1>4, <1>5, <1>6, <1>7, <2>1
<1>10. CASE k = 1 /\ p \in r
  <2>0. y[2] # {}
    BY DEF Due
  <2>1. /\ Lowest(r) \in r /\ \A z \in r : Lowest(r) <= z
        /\ \E d, slot, left : Continues(y, n, r, d, slot, left)
    BY <1>3, <1>6, <2>0, NextOnWalk
  <2>2. Lowest(r) = p
    <3>1. p \in f.rem /\ \A z \in f.rem : z \in Nat /\ p <= z
      BY <1>0, <1>4, LowestBit DEF p
    <3>2. r \subseteq f.rem
      BY <1>2, <1>6, <1>10
    <3>3. Lowest(r) <= p /\ p <= Lowest(r) /\ Lowest(r) \in Nat /\ p \in Nat
      BY <1>10, <2>1, <3>1, <3>2
    <3> QED BY <3>3
  <2>3. PICK d, slot, left : Continues(y, n, r, d, slot, left)
    BY <2>1
  <2>4. d = child /\ left \subseteq rest /\ calls
    <3>1. n = f.node /\ r \subseteq f.rem
      BY <1>2, <1>6, <1>10
    <3> QED BY <2>2, <2>3, <3>1 DEF child, rest, Continues
  <2> DEFINE g == [node |-> child, rem |-> rest]
  <2>5. stack'[s] = <<g>> \o below /\ scan'[s] = SlotsOf(nodePos[child], rest) /\ spc'[s] = "countLock"
    BY <1>0, <1>1, <2>4
  <2>6. g \in Frame /\ g.node = child /\ g.rem = rest
    BY <1>4, <2>3, <2>4 DEF Frame, Continues
  <2> HIDE DEF g
  <2>7. (<<g>> \o below)[1] = g /\ 1 \in 1 .. Len(<<g>> \o below)
    BY <1>5, <2>6, StackCons
  <2>8. ASSUME y = <<d, left>>
        PROVE  c[2] \in SlotsOf(nodePos[child], rest)
    <3>1. y[1] = d /\ y[2] = left
      BY <2>8
    <3>2. y \in Live /\ y[2] # {} /\ c = CellOf(y)
      BY DEF Due
    <3> QED BY <2>4, <3>1, <3>2, EnterScans
  <2>9. Comes(s, x, y, c, 1, d, left)'
    BY <1>1, <2>3, <2>4, <2>5, <2>6, <2>7, <2>8 DEF Comes, Scans, Continues
  <2> QED BY <2>9
<1> QED BY <1>8, <1>9, <1>10

LEMMA TailChildComes ==
    ASSUME Shape, NEW s \in Searchers, TailChild(s),
           NEW x, NEW y, NEW c, NEW k, NEW n, NEW r,
           Due(s, x, y, c), Comes(s, x, y, c, k, n, r)
    PROVE  \E l, o, q : Comes(s, x, y, c, l, o, q)'
<1> DEFINE f == Head(stack[s])
           child == children[<<f.node, TailSlot>>]
           g == [node |-> child, rem |-> f.rem]
           below == Tail(stack[s])
<1>0. /\ stack \in [Searchers -> Seq(Frame)] /\ spc[s] = "kids" /\ f.rem # {}
      /\ ~IsNear(nodePos[f.node], Lowest(f.rem)) /\ child # NoNode
      /\ scan \in [Searchers -> SUBSET Slot]
      /\ spc \in [Searchers -> {"idle", "countLock", "count", "scan", "kids"}]
  BY DEF Shape, TypeOK, TailChild
<1>1. /\ UNCHANGED treeVars /\ \A z : Walk(z)' = Walk(z)
      /\ spc'[s] = "countLock"
      /\ stack'[s] = <<g>> \o below
      /\ scan'[s] = SlotsOf(nodePos[child], f.rem)
  BY <1>0, WalkSame DEF TailChild, Call
<1>2. /\ stack[s] \in Seq(Frame) /\ stack[s] # <<>> /\ f \in Frame /\ f = stack[s][1]
      /\ Len(below) = Len(stack[s]) - 1 /\ Len(stack[s]) \in Nat \ {0}
      /\ \A i \in 1 .. Len(stack[s]) - 1 : below[i] = stack[s][i + 1]
      /\ below \in Seq(Frame)
  BY <1>0, SearcherFacts, StackTail
<1>3. <<n, r>> \in Live /\ n \in Node /\ r \in SUBSET Bits
  BY FrameLive DEF Comes
<1>4. f.rem \in SUBSET Bits /\ f.node \in Node /\ nodePos[f.node] \in Pos /\ child \in Node
      /\ g \in Frame /\ g.node = child /\ g.rem = f.rem
  <2>1. f.rem \in SUBSET Bits /\ f.node \in Node
    BY <1>2 DEF Frame
  <2>2. nodePos[f.node] \in Pos
    BY <1>0, SearcherFacts
  <2>3. TailSlot \in Slot
    BY GeometryAssumption DEF TailSlot, Slot
  <2>4. child \in Node
    BY <1>0, <2>1, <2>3 DEF Shape, TypeOK, Cell
  <2> QED BY <2>1, <2>2, <2>4 DEF Frame
<1> HIDE DEF f, child, g, below
<1>5. /\ Len(<<g>> \o below) = Len(stack[s]) /\ (<<g>> \o below)[1] = g
      /\ \A i \in 1 .. Len(stack[s]) : i # 1 => (<<g>> \o below)[i] = stack[s][i]
  <2>1. /\ Len(<<g>> \o below) = Len(stack[s]) /\ (<<g>> \o below)[1] = g
        /\ \A i \in 1 .. Len(below) : (<<g>> \o below)[i + 1] = below[i]
    BY <1>2, <1>4, StackCons
  <2>2. ASSUME NEW i \in 1 .. Len(stack[s]), i # 1
        PROVE  (<<g>> \o below)[i] = stack[s][i]
    <3>1. i - 1 \in 1 .. Len(stack[s]) - 1 /\ i - 1 + 1 = i
      BY <1>2, <2>2
    <3> QED BY <1>2, <2>1, <3>1
  <2> QED BY <2>1, <2>2
<1>6. y # <<n, r>> /\ k \in 1 .. Len(stack[s]) /\ n = stack[s][k].node /\ r \subseteq stack[s][k].rem
      /\ y \in Walk(<<n, r>>)
  BY <1>0 DEF Comes, Scans
<1>7. CASE k # 1
  <2>1. Comes(s, x, y, c, k, n, r)'
    BY <1>1, <1>5, <1>6, <1>7 DEF Comes
  <2> QED BY <2>1
<1>8. CASE k = 1
  <2>0. y[2] # {}
    BY DEF Due
  <2>1. /\ Lowest(r) \in r /\ nodePos[n] \in Pos
        /\ \E d, slot, left : Continues(y, n, r, d, slot, left)
    BY <1>3, <1>6, <2>0, NextOnWalk
  <2>2. PICK d, slot, left : Continues(y, n, r, d, slot, left)
    BY <2>1
  <2>3. n = f.node /\ r \subseteq f.rem
    BY <1>2, <1>6, <1>8
  <2>4. d = child /\ left \subseteq f.rem
    <3>1. slot = TailSlot
      BY <1>0, <1>4, <2>1, <2>2, <2>3, FarAhead DEF Continues
    <3> QED BY <2>2, <2>3, <3>1 DEF child, Continues
  <2>5. ASSUME y = <<d, left>>
        PROVE  c[2] \in SlotsOf(nodePos[child], f.rem)
    <3>1. y[1] = d /\ y[2] = left
      BY <2>5
    <3>2. y \in Live /\ y[2] # {} /\ c = CellOf(y)
      BY DEF Due
    <3> QED BY <2>4, <3>1, <3>2, EnterScans
  <2>6. 1 \in 1 .. Len(<<g>> \o below)
    BY <1>2, <1>5
  <2>7. Comes(s, x, y, c, 1, d, left)'
    BY <1>1, <1>4, <1>5, <2>2, <2>4, <2>5, <2>6 DEF Comes, Scans, Continues
  <2> QED BY <2>7
<1> QED BY <1>7, <1>8

\* What is due is due to an activation below the one that ends.
LEMMA NodeReturnComes ==
    ASSUME Shape, NEW s \in Searchers, NodeReturn(s),
           NEW x, NEW y, NEW c, NEW k, NEW n, NEW r,
           Due(s, x, y, c), Comes(s, x, y, c, k, n, r)
    PROVE  k # 1 /\ Comes(s, x, y, c, k - 1, n, r)'
<1> DEFINE f == Head(stack[s])
<1>0. /\ stack \in [Searchers -> Seq(Frame)] /\ spc[s] = "kids"
      /\ f.rem # {} => /\ ~IsNear(nodePos[f.node], Lowest(f.rem))
                       /\ children[<<f.node, TailSlot>>] = NoNode
      /\ UNCHANGED treeVars /\ Walk(<<n, r>>)' = Walk(<<n, r>>)
      /\ stack'[s] = Tail(stack[s])
  BY WalkSame DEF Shape, TypeOK, NodeReturn, SGoto
<1>1. /\ stack[s] \in Seq(Frame) /\ stack[s] # <<>> /\ f \in Frame /\ f = stack[s][1]
      /\ Len(Tail(stack[s])) = Len(stack[s]) - 1 /\ Len(stack[s]) \in Nat \ {0}
      /\ \A i \in 1 .. Len(stack[s]) - 1 : Tail(stack[s])[i] = stack[s][i + 1]
  BY <1>0, SearcherFacts, StackTail
<1>2. y # <<n, r>> /\ k \in 1 .. Len(stack[s]) /\ n = stack[s][k].node /\ r \subseteq stack[s][k].rem
      /\ y \in Walk(<<n, r>>)
  BY <1>0 DEF Comes, Scans
<1>3. <<n, r>> \in Live /\ n \in Node /\ r \in SUBSET Bits
  BY FrameLive DEF Comes
<1>4. ASSUME k = 1
      PROVE  FALSE
  <2>0. y[2] # {}
    BY DEF Due
  <2>1. /\ Lowest(r) \in r /\ nodePos[n] \in Pos
        /\ \E d, slot, left : Continues(y, n, r, d, slot, left)
    BY <1>2, <1>3, <2>0, NextOnWalk
  <2>2. n = f.node /\ r \subseteq f.rem /\ f.rem \in SUBSET Bits
    BY <1>1, <1>2, <1>4 DEF Frame
  <2> HIDE DEF f
  <2>3. SlotOf(nodePos[n], Lowest(r)) = TailSlot
    BY <1>0, <2>1, <2>2, FarAhead
  <2> QED BY <1>0, <2>1, <2>2, <2>3 DEF Continues
<1>5. k - 1 \in 1 .. Len(stack[s]) - 1 /\ k - 1 + 1 = k
  BY <1>1, <1>2, <1>4
<1>6. Tail(stack[s])[k - 1] = stack[s][k] /\ k - 1 \in 1 .. Len(Tail(stack[s]))
  BY <1>1, <1>5
<1> QED BY <1>0, <1>2, <1>4, <1>6 DEF Comes

\* A new search owes what is kept with a later time, and that lies ahead of it.
LEMMA SearchOwes ==
    ASSUME Shape, PathInv, HaveZeros, NEW s \in Searchers, NEW q \in Queries, NEW t \in Time,
           Search(s, q, t)
    PROVE  Owes(s)'
<1>0. /\ stack \in [Searchers -> Seq(Frame)] /\ scan \in [Searchers -> SUBSET Slot]
      /\ spc \in [Searchers -> {"idle", "countLock", "count", "scan", "kids"}]
      /\ squery \in [Searchers -> SUBSET Bits] /\ sstamp \in [Searchers -> Time]
      /\ later \in [Searchers -> SUBSET Meta] /\ inserted \in SUBSET Meta
      /\ stamp \in [Meta -> Time] /\ Time \subseteq Nat
  BY TrieVAssumption DEF Shape, TypeOK, Time
<1>1. /\ later'[s] = {m \in inserted : stamp[m] > t} /\ squery'[s] = q /\ sstamp'[s] = t
      /\ UNCHANGED <<treeVars, ptrList, endNode, stamp>>
      /\ q \in SUBSET Bits
  BY <1>0, SearchFacts DEF listVars
<1> SUFFICES ASSUME NEW m \in later'[s], Data[m] = squery'[s]
             PROVE  Ahead(s)'
  BY DEF Owes
<1>2. m \in Meta /\ m \in inserted /\ stamp[m] > t /\ Data[m] = q
  BY <1>0, <1>1
<1>3. Zeros(q) # {} /\ Zeros(q) \in SUBSET Bits
  BY <1>2 DEF Zeros, HaveZeros
<1> DEFINE f == [node |-> Root, rem |-> Zeros(q)]
<1>4. /\ spc'[s] = "countLock"
      /\ stack'[s] = <<f>> \o <<>>
      /\ scan'[s] = SlotsOf(nodePos[Root], Zeros(q))
  BY <1>0, <1>3, SearchFacts DEF Call
<1>5. f \in Frame /\ f.node = Root /\ f.rem = Zeros(q)
  BY <1>3, RootIsNode DEF Frame
<1> HIDE DEF f
<1>6. stack'[s][1] = f /\ 1 \in 1 .. Len(stack'[s])
  BY <1>4, <1>5
<1>7. PICK x \in Meta : /\ Data[x] = Data[m] /\ stamp[x] >= stamp[m]
                        /\ \E y \in Walk(Start(m)) : y[2] # {} /\ Kept(x, CellOf(y))
  BY <1>2 DEF PathInv, Stored
<1>8. PICK y \in Walk(Start(m)) : y[2] # {} /\ Kept(x, CellOf(y))
  BY <1>7
<1>9. PICK c : c = CellOf(y)
  OBVIOUS
<1>10. y \in Live /\ c \in Cell /\ Kept(x, c)
  BY <1>8, <1>9, LiveFacts DEF Walk
<1>11. stamp[x] > t
  <2>1. stamp[x] \in Nat /\ stamp[m] \in Nat /\ t \in Nat
    BY <1>0, <1>2
  <2> QED BY <1>2, <1>7, <2>1
<1>12. Due(s, x, y, c)'
  BY <1>1, <1>2, <1>7, <1>8, <1>9, <1>10, <1>11 DEF Due, Kept, Live, CellOf, treeVars
<1>13. PICK r : r = Zeros(q)
  OBVIOUS
<1>14. PICK n : n = Root
  OBVIOUS
<1>15. y \in Walk(<<n, r>>)'
  <2>1. y \in Walk(<<n, r>>)
    BY <1>2, <1>8, <1>13, <1>14 DEF Start
  <2> QED BY <1>1, <2>1, WalkSame
<1>16. ASSUME y = <<n, r>>
       PROVE  Scans(s, c[2], x)'
  <2>1. y[1] = Root /\ y[2] = r
    BY <1>14, <1>16
  <2>2. c[2] \in SlotsOf(nodePos[Root], Zeros(q))
    BY <1>8, <1>9, <1>10, <1>13, <2>1, EnterScans
  <2> QED BY <1>4, <2>2 DEF Scans
<1>17. Comes(s, x, y, c, 1, n, r)'
  BY <1>5, <1>6, <1>13, <1>14, <1>15, <1>16 DEF Comes
<1> QED BY <1>12, <1>17 DEF Ahead

\* A step of a running search.
LEMMA SearcherOwes ==
    ASSUME Shape, TakenInv, ParentInv, [Next]_vars, NEW s \in Searchers, Owes(s), SearcherStep(s)
    PROVE  Owes(s)'
<1>1. UNCHANGED callVars /\ (answer[s] => answer'[s])
  <2>1. UNCHANGED callVars /\ (~ScanSlot(s) => answer' = answer)
    BY DEF SearcherStep, SLockList, Count, ScanSlot, NearChild, TailChild, NodeReturn, scanVars
  <2> QED BY <2>1, ScanSlotFacts
<1>2. ASSUME NEW x, NEW y, NEW c, NEW k, NEW n, NEW r,
             Due(s, x, y, c), Comes(s, x, y, c, k, n, r), ~answer'[s]
      PROVE  \E l, o, q : Comes(s, x, y, c, l, o, q)'
  <2>1. CASE SLockList(s) \/ Count(s)
    <3>1. Comes(s, x, y, c, k, n, r)'
      BY <1>2, <2>1, CountComes
    <3> QED BY <3>1
  <2>2. CASE ScanSlot(s)
    <3>1. Comes(s, x, y, c, k, n, r)'
      BY <1>2, <2>2, ScanSlotComes
    <3> QED BY <3>1
  <2>3. CASE NearChild(s)
    BY <1>2, <2>3, NearChildComes
  <2>4. CASE TailChild(s)
    BY <1>2, <2>4, TailChildComes
  <2>5. CASE NodeReturn(s)
    <3>1. Comes(s, x, y, c, k - 1, n, r)'
      BY <1>2, <2>5, NodeReturnComes
    <3> QED BY <3>1
  <2> QED BY <2>1, <2>2, <2>3, <2>4, <2>5 DEF SearcherStep
<1> QED BY <1>1, <1>2, OwesStep

\* A searcher's step is its own.
LEMMA OthersKept ==
    ASSUME Shape, NEW t \in Searchers,
           SearcherStep(t) \/ \E q \in Queries, u \in Time : Search(t, q, u),
           NEW s \in Searchers, s # t
    PROVE  /\ spc'[s] = spc[s] /\ squery'[s] = squery[s] /\ sstamp'[s] = sstamp[s]
           /\ stack'[s] = stack[s] /\ scan'[s] = scan[s] /\ endList'[s] = endList[s]
           /\ count'[s] = count[s] /\ answer'[s] = answer[s] /\ later'[s] = later[s]
<1>0. /\ spc \in [Searchers -> {"idle", "countLock", "count", "scan", "kids"}]
      /\ squery \in [Searchers -> SUBSET Bits] /\ sstamp \in [Searchers -> Time]
      /\ stack \in [Searchers -> Seq(Frame)] /\ scan \in [Searchers -> SUBSET Slot]
      /\ endList \in [Searchers -> Seq(Meta)] /\ count \in [Searchers -> Nat]
      /\ answer \in [Searchers -> BOOLEAN] /\ later \in [Searchers -> SUBSET Meta]
  BY DEF Shape, TypeOK
<1> USE DEF scanVars, callVars, SGoto
<1>1. CASE \E q \in Queries, u \in Time : Search(t, q, u)
  BY <1>0, <1>1 DEF Search, Call
<1>2. CASE SLockList(t) \/ Count(t)
  BY <1>0, <1>2 DEF SLockList, Count
<1>3. CASE ScanSlot(t)
  BY <1>0, <1>3, ScanSlotFacts
<1>4. CASE NearChild(t)
  BY <1>0, <1>4 DEF NearChild, Call
<1>5. CASE TailChild(t)
  BY <1>0, <1>5 DEF TailChild, Call
<1>6. CASE NodeReturn(t)
  BY <1>0, <1>6 DEF NodeReturn
<1> QED BY <1>1, <1>2, <1>3, <1>4, <1>5, <1>6 DEF SearcherStep

LEMMA OwedInvNext ==
    ASSUME Shape, TakenInv, PathInv, OwedInv, HaveZeros, [Next]_vars
    PROVE  OwedInv'
<1> SUFFICES ASSUME NEW s \in Searchers
             PROVE  Owes(s)'
  BY DEF OwedInv
<1>1. Owes(s) /\ ParentInv
  BY DEF OwedInv, PathInv
<1>2. ASSUME NEW i \in Inserters, Inserts(i)
      PROVE  UNCHANGED searchVars
  BY <1>2, InserterCases, WalkFacts, ReturnFacts DEF Insert2, Inserts
<1>3. CASE UNCHANGED searchVars
  BY <1>1, <1>3, OwesKept DEF searchVars, scanVars, callVars
<1>4. CASE Tick \/ Rest \/ UNCHANGED vars
  BY <1>3, <1>4 DEF Tick, Rest, vars
<1>5. ASSUME NEW t \in Searchers,
             SearcherStep(t) \/ \E q \in Queries, u \in Time : Search(t, q, u)
      PROVE  Owes(s)'
  <2>1. CASE t = s
    BY <1>1, <1>5, <2>1, SearcherOwes, SearchOwes
  <2>2. CASE t # s
    BY <1>1, <1>5, <2>2, OthersKept, OwesKept
  <2> QED BY <2>1, <2>2
<1> QED BY <1>2, <1>3, <1>4, <1>5 DEF Next, Inserts

\* A search that has ended was not told a no when an update of exactly its filter,
\* with a later time, was in the index before it began: whatever the one inserting
\* thread splits, adds or stamps beside any number of searches (Insert2,
\* BFTrieNode::Search, SearchPtrList).
THEOREM EqualFoundHolds ==
    ASSUME OneInserter, HaveZeros, IdsTell
    PROVE  Spec => []EqualFound
<1>1. Init => TakenInv /\ PathInv /\ OwedInv
  BY TakenInvInit, PathInvInit, OwedInvInit
<1>2. Shape /\ TakenInv /\ PathInv /\ OwedInv /\ [Next]_vars
        => (TakenInv /\ PathInv /\ OwedInv)'
  BY TakenInvNext, PathInvNext, OwedInvNext
<1>3. Shape /\ OwedInv => EqualFound
  BY OwedSound
<1> QED BY <1>1, <1>2, <1>3, ShapeInvariant, PTL DEF Spec

=============================================================================
