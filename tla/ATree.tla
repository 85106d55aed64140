------------------------------- MODULE ATree -------------------------------
(***************************************************************************)
(* The A-Tree of src/trie_tree/test_a_tree.h (the program uses it with     *)
(* -Duse_atree=ON), D-method.  A node stands for a set of positions; its   *)
(* parents stand for larger sets, the root for the empty one.  A signature *)
(* is stored at a node that stands for its zeros.                          *)
(*                                                                         *)
(* A section of a node's pthread_rwlock_t is one step; no thread holds two *)
(* of these locks.  Positions never change once a node is linked, and the  *)
(* children of a node are read by the thread that makes it only.  One      *)
(* access to a node's parents is made under the lock of another node: the  *)
(* second insert of the merging loop.  It lasts from LinkNew to LinkAgain; *)
(* if another thread adds a parent meanwhile, both may be in the std::map  *)
(* at a time, and no more is said of the program (undefined).              *)
(***************************************************************************)
EXTENDS Integers, Sequences, FiniteSets, SequencesExt

CONSTANTS
    BloomSize,    \* bits of a filter
    Meta,         \* signatures; each is inserted at most once by its client
    NoMeta,       \* a register that holds none
    Data,         \* Data[m]: the '1' bits of m's filter
    Queries,      \* the filters that are searched for
    MaxNode,      \* bound: nodes that can be allocated
    MaxInserts,   \* bound: insertions in a behaviour
    MaxSearches,  \* bound: searches of each searcher
    Inserters,    \* threads in Insert2
    Searchers     \* threads in Search

Bits == 0 .. BloomSize - 1

ASSUME ATreeAssumption ==
    /\ BloomSize \in Nat \ {0}
    /\ NoMeta \notin Meta
    /\ Data \in [Meta -> SUBSET Bits]
    /\ Queries \subseteq SUBSET Bits
    /\ MaxNode \in Nat \ {0}
    /\ MaxInserts \in Nat
    /\ MaxSearches \in Nat

\* Mutant: one position too many.
ZerosOne(filter) == (0 .. BloomSize) \ filter

\* getPosition of the D-method
Zeros(filter) == Bits \ filter

\* Nodes are numbered by their id, counted from 1.
Node == 1 .. MaxNode
Root == 1
NoNode == 0

VARIABLES
    nodeNum,      \* nodes constructed so far
    positions,    \* positions of each node
    parents,      \* parents of each node
    ptrList,      \* ptr_list_ of each node
    undefined,    \* a vector or a map was changed while it was in use
    ipc,          \* the instruction an inserter is about to do
    imeta,        \* Insert2's meta
    ichildren,    \* Insert2's children
    ik,           \* the iterator into it, counted from 1
    candidates,   \* Insert2's candidates
    removed,      \* remove_children
    inew,         \* new_ptr, or NoNode
    adjusting,    \* the children of new_ptr that Adjust has still to look at
    searching,    \* searchers inside Search
    squery,       \* Search's meta
    level,        \* continue_node, what has not been visited
    nextLevel,    \* tmp_continue_node
    visiting,     \* the node whose list Search is about to take, or NoNode
    removedQuery, \* the caller's result list
    asked,        \* searches begun by each searcher (for MaxSearches)
    taken,        \* signatures Insert2 was called with
    overlapped,   \* an insertion has begun while another was going on
    inserted,     \* signatures whose Insert2 has stored them
    owed,         \* what each searcher's search has to find
    seen          \* what was findable at some time since the search began

treeVars == <<nodeNum, positions, parents, undefined>>
loopVars == <<ichildren, ik, candidates, removed, inew, adjusting>>
insVars == <<ipc, imeta, loopVars, taken, overlapped, inserted>>
searchVars == <<searching, squery, level, nextLevel, visiting, removedQuery, asked, owed>>
vars == <<treeVars, ptrList, insVars, searchVars, seen>>

TypeOK ==
    /\ nodeNum \in Node
    /\ positions \in [Node -> SUBSET Bits]
    /\ parents \in [Node -> SUBSET Node]
    /\ ptrList \in [Node -> Seq(Meta)]
    /\ undefined \in BOOLEAN
    /\ ipc \in [Inserters -> {"idle", "scan", "adjust", "link", "relink", "push"}]
    /\ imeta \in [Inserters -> Meta \cup {NoMeta}]
    /\ ichildren \in [Inserters -> Seq(Node)]
    /\ ik \in [Inserters -> Nat]
    /\ candidates \in [Inserters -> SUBSET Node]
    /\ removed \in [Inserters -> BOOLEAN]
    /\ inew \in [Inserters -> Node \cup {NoNode}]
    /\ adjusting \in [Inserters -> Seq(Node)]
    /\ searching \subseteq Searchers
    /\ squery \in [Searchers -> SUBSET Bits]
    /\ level \in [Searchers -> SUBSET Node]
    /\ nextLevel \in [Searchers -> SUBSET Node]
    /\ visiting \in [Searchers -> Node \cup {NoNode}]
    /\ removedQuery \in [Searchers -> Seq(Meta)]
    /\ asked \in [Searchers -> Nat]
    /\ taken \subseteq Meta
    /\ overlapped \in BOOLEAN
    /\ inserted \subseteq taken
    /\ owed \in [Searchers -> SUBSET Meta]
    /\ seen \in [Searchers -> SUBSET Meta]

\* ATree::ATree
Init ==
    /\ nodeNum = Root
    /\ positions = [n \in Node |-> {}]
    /\ parents = [n \in Node |-> {}]
    /\ ptrList = [n \in Node |-> <<>>]
    /\ undefined = FALSE
    /\ ipc = [i \in Inserters |-> "idle"]
    /\ imeta = [i \in Inserters |-> NoMeta]
    /\ ichildren = [i \in Inserters |-> <<>>]
    /\ ik = [i \in Inserters |-> 1]
    /\ candidates = [i \in Inserters |-> {}]
    /\ removed = [i \in Inserters |-> FALSE]
    /\ inew = [i \in Inserters |-> NoNode]
    /\ adjusting = [i \in Inserters |-> <<>>]
    /\ searching = {}
    /\ squery = [s \in Searchers |-> {}]
    /\ level = [s \in Searchers |-> {}]
    /\ nextLevel = [s \in Searchers |-> {}]
    /\ visiting = [s \in Searchers |-> NoNode]
    /\ removedQuery = [s \in Searchers |-> <<>>]
    /\ asked = [s \in Searchers |-> 0]
    /\ taken = {}
    /\ overlapped = FALSE
    /\ inserted = {}
    /\ owed = [s \in Searchers |-> {}]
    /\ seen = [s \in Searchers |-> {}]

-----------------------------------------------------------------------------
(* Insert2 and Adjust *)

\* Mutant: one common position is enough.
SatisfiesOne(n, filter) == positions[n] \cap filter # {}

\* Satisfy: every position of the node is in the set.
Satisfies(n, filter) == positions[n] \subseteq filter

Mine(i) == Zeros(Data[imeta[i]])

\* Mutant: the loop goes on with one child.
RoundAny(children) == IF Len(children) > 0 THEN "scan" ELSE "push"

\* while (children.size() > 1)
Round(children) == IF Len(children) > 1 THEN "scan" ELSE "push"

\* The place of p among the elements of S in ascending order; its inverse.
Rank(S, p) == Cardinality({q \in S : q <= p})
Nth(S, k) == CHOOSE p \in S : Rank(S, p) = k

\* The section of the root: a node for each position, made if there is none.
Insert2(i, m) ==
    LET mine == Zeros(Data[m])
        single(p) == {n \in parents[Root] : positions[n] = {p}}
        missing == {p \in mine : single(p) = {}}
        made(p) == nodeNum + Rank(missing, p)
        child(p) == IF p \in missing THEN made(p) ELSE CHOOSE n \in single(p) : TRUE
        start == [k \in 1 .. Cardinality(mine) |-> child(Nth(mine, k))]
    IN  /\ ipc[i] = "idle"
        /\ m \in Meta \ taken
        /\ Cardinality(taken) < MaxInserts
        /\ nodeNum + Cardinality(missing) <= MaxNode
        /\ nodeNum' = nodeNum + Cardinality(missing)
        /\ positions' = [n \in Node |-> IF \E p \in missing : made(p) = n
                                        THEN {p \in missing : made(p) = n}
                                        ELSE positions[n]]
        /\ parents' = [parents EXCEPT ![Root] = @ \cup {made(p) : p \in missing}]
        /\ taken' = taken \cup {m}
        /\ overlapped' = (overlapped \/ \E j \in Inserters : ipc[j] # "idle")
        /\ imeta' = [imeta EXCEPT ![i] = m]
        /\ ichildren' = [ichildren EXCEPT ![i] = start]
        /\ ipc' = [ipc EXCEPT ![i] = Round(start)]
        /\ UNCHANGED <<undefined, ptrList, ik, candidates, removed, inew, adjusting, inserted,
                       searchVars, seen>>

\* Mutant: maxMatch begins with two.
BestParentLarge(n, filter) ==
    LET fitting == {p \in parents[n] : Cardinality(positions[p]) > 2 /\ Satisfies(p, filter)}
        larger(p, q) == Cardinality(positions[p]) > Cardinality(positions[q])
    IN  {p \in fitting : \A q \in fitting \ {p} : 
              larger(p, q) \/ (~larger(q, p) /\ p < q)}

\* The parent of n with the most positions that are all in the filter, the
\* first of them in the order of the ids: none, or one.
BestParent(n, filter) ==
    LET fitting == {p \in parents[n] : positions[p] # {} /\ Satisfies(p, filter)}
        larger(p, q) == Cardinality(positions[p]) > Cardinality(positions[q])
    IN  {p \in fitting : \A q \in fitting \ {p} : 
              larger(p, q) \/ (~larger(q, p) /\ p < q)}

\* One turn of the first loop, under the read lock of the child: a parent that
\* fits takes its place.
ScanChild(i) ==
    LET best == BestParent(ichildren[i][ik[i]], Mine(i))
    IN  /\ ipc[i] = "scan" /\ ik[i] <= Len(ichildren[i])
        /\ candidates' = [candidates EXCEPT ![i] = @ \cup best]
        /\ removed' = [removed EXCEPT ![i] = @ \/ best # {}]
        /\ IF best # {}
           THEN /\ ichildren' = [ichildren EXCEPT ![i] = RemoveAt(@, ik[i])]
                /\ UNCHANGED ik
           ELSE /\ ik' = [ik EXCEPT ![i] = @ + 1]
                /\ UNCHANGED ichildren
        /\ UNCHANGED <<treeVars, ptrList, ipc, imeta, inew, adjusting, taken, overlapped,
                       inserted, searchVars, seen>>

\* The children that a candidate does not cover.
Uncovered(children, n) ==
    LET left[k \in 0 .. Len(children)] ==
            IF k = 0 THEN <<>>
            ELSE IF Satisfies(children[k], positions[n]) THEN left[k - 1]
            ELSE Append(left[k - 1], children[k])
    IN  left[Len(children)]

\* The second loop for one candidate: the children it covers go, and it is
\* taken unless a child covers it.
Merge1(children, n) ==
    LET left == Uncovered(children, n)
    IN  IF \E k \in 1 .. Len(left) : Satisfies(n, positions[left[k]])
        THEN left
        ELSE Append(left, n)

Merged(children, order) ==
    LET after[k \in 0 .. Len(order)] ==
            IF k = 0 THEN children ELSE Merge1(after[k - 1], order[k])
    IN  after[Len(order)]

\* The second loop; candidates are in the order of their addresses, which is
\* any.  When no child was replaced, and so there is no candidate, the last two
\* get a common parent.
Merge(i) ==
    /\ ipc[i] = "scan" /\ ik[i] > Len(ichildren[i])
    /\ \E order \in SetToSeqs(candidates[i]) :
          LET children == Merged(ichildren[i], order)
              len == Len(children)
          IN  IF ~removed[i] /\ len > 1
              THEN /\ nodeNum < MaxNode
                   /\ nodeNum' = nodeNum + 1
                   /\ inew' = [inew EXCEPT ![i] = nodeNum + 1]
                   /\ positions' = [positions EXCEPT ![nodeNum + 1] =
                                      positions[children[len]] \cup positions[children[len - 1]]]
                   /\ adjusting' = [adjusting EXCEPT ![i] = <<children[len], children[len - 1]>>]
                   /\ ichildren' = [ichildren EXCEPT ![i] = children]
                   /\ ipc' = [ipc EXCEPT ![i] = "adjust"]
              ELSE /\ ichildren' = [ichildren EXCEPT ![i] = children]
                   /\ ipc' = [ipc EXCEPT ![i] = Round(children)]
                   /\ UNCHANGED <<nodeNum, positions, inew, adjusting>>
    /\ ik' = [ik EXCEPT ![i] = 1]
    /\ candidates' = [candidates EXCEPT ![i] = {}]
    /\ removed' = [removed EXCEPT ![i] = FALSE]
    /\ UNCHANGED <<parents, undefined, ptrList, imeta, taken, overlapped, inserted,
                   searchVars, seen>>

\* Adjust for one child, whose parents are read under its lock: those that cover
\* the new node become its parents.  One that it covers would be pushed to the
\* vector the loop runs over: undefined behaviour.
Adjust(i) ==
    LET new == inew[i]
        c == Head(adjusting[i])
        above == {p \in parents[c] : Satisfies(new, positions[p])}
        below == {p \in parents[c] \ above : Satisfies(p, positions[new])}
    IN  /\ ipc[i] = "adjust"
        /\ adjusting' = [adjusting EXCEPT ![i] = Tail(@)]
        /\ parents' = [n \in Node |-> IF n = new THEN parents[n] \cup above
                                      ELSE IF n \in below THEN parents[n] \cup {new}
                                      ELSE parents[n]]
        /\ undefined' = (undefined \/ below # {})
        /\ ipc' = [ipc EXCEPT ![i] = IF Len(adjusting[i]) = 1 THEN "link" ELSE "adjust"]
        /\ UNCHANGED <<nodeNum, positions, ptrList, imeta, ichildren, ik, candidates, removed,
                       inew, taken, overlapped, inserted, searchVars, seen>>

\* Mutant: the new node is not linked.
LinkNone(child0, new) == parents

\* child0->parents.insert
Link(child0, new) == [parents EXCEPT ![child0] = @ \cup {new}]

\* children.back()
Child0(i) == ichildren[i][Len(ichildren[i])]

\* Another thread is at its second insert into the map of this child0, under the
\* lock of its child1.  Its key is there, so that it only walks through the map:
\* it disturbs no reader, but the element that is added now disturbs it.  The
\* other additions are at the root, which is no child0, and in Adjust at the new
\* node, which no other thread knows, or where the vector is changed anyway.
Walked(i) == \E j \in Inserters \ {i} : ipc[j] = "relink" /\ Child0(j) = Child0(i)

\* The section of child0's lock: the new node is linked.
LinkNew(i) ==
    /\ ipc[i] = "link"
    /\ parents' = Link(Child0(i), inew[i])
    /\ \/ UNCHANGED undefined
       \/ Walked(i) /\ undefined' = TRUE
    /\ ipc' = [ipc EXCEPT ![i] = "relink"]
    /\ UNCHANGED <<nodeNum, positions, ptrList, imeta, loopVars, taken, overlapped, inserted,
                   searchVars, seen>>

\* The section of child1's lock ends; child1 itself never learns of the new
\* node, which now stands for the two children.
LinkAgain(i) ==
    LET children == Append(SubSeq(ichildren[i], 1, Len(ichildren[i]) - 2), inew[i])
    IN  /\ ipc[i] = "relink"
        /\ parents' = Link(Child0(i), inew[i])
        /\ ichildren' = [ichildren EXCEPT ![i] = children]
        /\ inew' = [inew EXCEPT ![i] = NoNode]
        /\ ipc' = [ipc EXCEPT ![i] = Round(children)]
        /\ UNCHANGED <<nodeNum, positions, undefined, ptrList, imeta, ik, candidates, removed,
                       adjusting, taken, overlapped, inserted, searchVars, seen>>

\* push_back at the node that is left, or at the root.
Push(i) ==
    LET n == IF ichildren[i] = <<>> THEN Root ELSE ichildren[i][1]
    IN  /\ ipc[i] = "push"
        /\ ptrList' = [ptrList EXCEPT ![n] = Append(@, imeta[i])]
        /\ inserted' = inserted \cup {imeta[i]}
        /\ seen' = [s \in Searchers |-> IF s \in searching THEN seen[s] \cup {imeta[i]} ELSE {}]
        /\ ipc' = [ipc EXCEPT ![i] = "idle"]
        /\ imeta' = [imeta EXCEPT ![i] = NoMeta]
        /\ ichildren' = [ichildren EXCEPT ![i] = <<>>]
        /\ UNCHANGED <<treeVars, ik, candidates, removed, inew, adjusting, taken, overlapped,
                       searchVars>>

InserterStep(i) ==
    \/ ScanChild(i)
    \/ Merge(i)
    \/ Adjust(i)
    \/ LinkNew(i)
    \/ LinkAgain(i)
    \/ Push(i)

-----------------------------------------------------------------------------
(* Search *)

\* What a search can still find.
Stored == UNION {ToSet(ptrList[n]) : n \in Node}

Search(s, q) ==
    /\ s \notin searching
    /\ asked[s] < MaxSearches
    /\ asked' = [asked EXCEPT ![s] = @ + 1]
    /\ searching' = searching \cup {s}
    /\ squery' = [squery EXCEPT ![s] = q]
    /\ level' = [level EXCEPT ![s] = {Root}]
    /\ owed' = [owed EXCEPT ![s] = {m \in Stored : q \subseteq Data[m]}]
    /\ seen' = [seen EXCEPT ![s] = Stored]
    /\ UNCHANGED <<treeVars, ptrList, insVars, nextLevel, visiting, removedQuery>>

\* The parents of the next node that fit the query, under its read lock.
Collect(s) ==
    /\ visiting[s] = NoNode
    /\ \E n \in level[s] :
          LET fitting == {p \in parents[n] : Satisfies(p, Zeros(squery[s]))}
          IN  /\ level' = [level EXCEPT ![s] = @ \ {n}]
              /\ nextLevel' = [nextLevel EXCEPT ![s] = @ \cup fitting]
              /\ visiting' = [visiting EXCEPT ![s] = n]
    /\ UNCHANGED <<treeVars, ptrList, insVars, searching, squery, removedQuery, asked, owed, seen>>

\* Its whole list is taken, under its write lock.  After the last node of a level
\* comes the next level.
TakeAll(s) ==
    LET n == visiting[s]
        over == level[s] = {}
    IN  /\ n # NoNode
        /\ removedQuery' = [removedQuery EXCEPT ![s] = @ \o ptrList[n]]
        /\ ptrList' = [ptrList EXCEPT ![n] = <<>>]
        /\ visiting' = [visiting EXCEPT ![s] = NoNode]
        /\ level' = [level EXCEPT ![s] = IF over THEN nextLevel[s] ELSE @]
        /\ nextLevel' = [nextLevel EXCEPT ![s] = IF over THEN {} ELSE @]
        /\ UNCHANGED <<treeVars, insVars, searching, squery, asked, owed, seen>>

SearchReturn(s) ==
    /\ s \in searching /\ visiting[s] = NoNode /\ level[s] = {}
    /\ searching' = searching \ {s}
    /\ squery' = [squery EXCEPT ![s] = {}]
    /\ owed' = [owed EXCEPT ![s] = {}]
    /\ seen' = [seen EXCEPT ![s] = {}]
    /\ UNCHANGED <<treeVars, ptrList, insVars, level, nextLevel, visiting, removedQuery, asked>>

SearcherStep(s) == Collect(s) \/ TakeAll(s) \/ SearchReturn(s)

-----------------------------------------------------------------------------

\* No call is running, or no more can be said of what the program does.
Rest ==
    /\ undefined \/ (searching = {} /\ \A i \in Inserters : ipc[i] = "idle")
    /\ UNCHANGED vars

Next ==
    \/ /\ ~undefined
       /\ \/ \E i \in Inserters : InserterStep(i) \/ \E m \in Meta : Insert2(i, m)
          \/ \E s \in Searchers : SearcherStep(s) \/ \E q \in Queries : Search(s, q)
    \/ Rest

\* A thread inside a call goes on: each step needs one lock that is only ever
\* held for a bounded loop.
Fairness ==
    /\ \A i \in Inserters : WF_vars(~undefined /\ InserterStep(i))
    /\ \A s \in Searchers : WF_vars(~undefined /\ SearcherStep(s))

Spec == Init /\ [][Next]_vars /\ Fairness

-----------------------------------------------------------------------------
(* Properties *)

Covered(children) == UNION {positions[children[k]] : k \in 1 .. Len(children)}

\* However the insertions interleave, the children that Insert2 works on stand
\* together for the zeros of its signature, no more and no less; so what is
\* stored stands at a node for exactly its zeros, and Search may take the list of
\* a node without a look at the signatures in it (lines 336-339).  As everything
\* here, this is said until a map or vector is changed in use (undefined).
StoredAtExactNode ==
    /\ \A i \in Inserters : ipc[i] # "idle" =>
          Covered(ichildren[i]) \cup UNION {positions[c] : c \in candidates[i]} = Mine(i)
    /\ \A n \in Node : \A m \in ToSet(ptrList[n]) : positions[n] = Zeros(Data[m])

Promise == INSTANCE SignatureIndex WITH
    stored <- Stored,
    used <- inserted,
    asking <- squery

\* The A-Tree hands every signature to one search, and overlooks none that was
\* there when the search began, although the second child of a new node is never
\* told of it (line 284; Readme.md:60), for any number of threads until a map or
\* vector is changed in use.
KeepsPromise == Promise!Spec

\* Nothing is changed while it is in use as long as no insertion begins before
\* the one before it has ended, however many searches go on beside them: the
\* loop of lines 228-249 finds every node between a child and the filter that
\* earlier insertions have linked, and so Adjust none below the new one, which it
\* would push to the vector that it runs over (line 71); and line 284 has the map
\* for itself.  Overlapping insertions can do both.
SafeUnlessOverlapped == undefined => overlapped

\* Every call ends, unless a map or vector is changed in use.  The loop of lines
\* 224-288 comes down to one child whatever others do to the nodes it looks at, and
\* although insertions that race make two nodes for the same positions and link
\* them, the parents never lead back to a node, or the loop of lines 314-345
\* would not end.
CallsEnd ==
    /\ \A i \in Inserters : ipc[i] # "idle" ~> (ipc[i] = "idle" \/ undefined)
    /\ \A s \in Searchers : s \in searching ~> (s \notin searching \/ undefined)
=============================================================================
