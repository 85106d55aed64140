----------------------------- MODULE ATreeProofs -----------------------------
(***************************************************************************)
(* Proofs about ATree, for any number of threads, bits, nodes and          *)
(* signatures, until a map or vector is changed in use (undefined):        *)
(*                                                                         *)
(*   TreeInv    parents stand for more positions than their child, and     *)
(*              what stores signatures can be reached from the root;       *)
(*   InsertInv  what an insertion works on covers its signature;           *)
(*   ListInv    a signature is stored once, at a node for its zeros;       *)
(*   SearchInv  what a search owes lies at a node that it will come to.    *)
(*                                                                         *)
(* With them every step of the A-Tree is a step of SignatureIndex or none. *)
(* Last, that this does not happen before two insertions have overlapped:  *)
(*                                                                         *)
(*   AloneInv   the scan leaves children none of whose parents is within   *)
(*              the filter, so that Adjust finds none below the new node.  *)
(***************************************************************************)
EXTENDS ATree, SharedLemmas

Known == 1 .. nodeNum

\* Whoever is in S stays in S when it goes on to the parents that fit.
Closed(S, fitting) == \A n \in S : \A p \in parents[n] : positions[p] \subseteq fitting => p \in S

\* A search for at least the positions of n that begins with the nodes of some
\* set comes to n.
Ahead(from, n, fitting) ==
    \A S \in SUBSET Node : from \subseteq S /\ Closed(S, fitting) => n \in S

Reachable(n) == \A fitting \in SUBSET Bits : positions[n] \subseteq fitting => Ahead({Root}, n, fitting)

Sound(n) == n \in Known /\ Reachable(n)

TreeInv ==
    /\ positions[Root] = {}
    /\ \A n \in Node : \A p \in parents[n] :
          n \in Known /\ Sound(p) /\ positions[n] \subseteq positions[p]
    /\ \A n \in Node : ptrList[n] # <<>> => Sound(n)

\* The element m stands at place j of the list of n.
StandsAt(n, j, m) == j \in 1 .. Len(ptrList[n]) /\ ptrList[n][j] = m

TakenInv ==
    /\ \A i \in Inserters : ipc[i] # "idle" => imeta[i] \in taken \ inserted
    /\ \A i, j \in Inserters : 
          ipc[i] # "idle" /\ ipc[j] # "idle" /\ imeta[i] = imeta[j] => i = j

\* The nodes of a set stand together for the positions of a filter.
Covers(nodes, filter) == \A x \in Bits : x \in filter <=> \E n \in nodes : x \in positions[n]

InserterInv(i) ==
    /\ \A n \in ToSet(ichildren[i]) \cup candidates[i] \cup ToSet(adjusting[i]) : Sound(n)
    /\ ik[i] >= 1
    /\ ipc[i] = "idle" => ichildren[i] = <<>>
    /\ ipc[i] # "idle" => Covers(ToSet(ichildren[i]) \cup candidates[i], Mine(i))
    /\ ipc[i] # "scan" => candidates[i] = {}
    /\ ipc[i] \in {"adjust", "link", "relink"} =>
          LET len == Len(ichildren[i])
          IN  /\ len > 1 /\ inew[i] \in Known
              /\ positions[inew[i]] =
                    positions[ichildren[i][len]] \cup positions[ichildren[i][len - 1]]
    /\ ipc[i] = "adjust" => adjusting[i] # <<>>
    /\ ipc[i] = "push" => Len(ichildren[i]) <= 1

InsertInv == TakenInv /\ \A i \in Inserters : InserterInv(i)

ListInv ==
    /\ \A n \in Node, j \in Nat, m \in Meta : StandsAt(n, j, m) =>
          positions[n] = Zeros(Data[m]) /\ m \in inserted
    /\ \A n, o \in Node, j, k \in Nat, m \in Meta :
          StandsAt(n, j, m) /\ StandsAt(o, k, m) => n = o /\ j = k
    /\ \A s \in Searchers : \A m \in ToSet(removedQuery[s]) :
          m \in inserted /\ \A n \in Node, j \in Nat : ~StandsAt(n, j, m)

Frontier(s) == level[s] \cup nextLevel[s]

SearcherInv(s) ==
    /\ Frontier(s) \subseteq Known
    /\ \A n \in Frontier(s) \cup {visiting[s]} : n # NoNode => positions[n] \subseteq Zeros(squery[s])
    /\ visiting[s] = NoNode /\ level[s] = {} => nextLevel[s] = {}
    /\ s \notin searching => Frontier(s) = {} /\ visiting[s] = NoNode
    /\ s \in searching => Stored \subseteq seen[s]
    /\ visiting[s] # NoNode => visiting[s] \in Known
    /\ owed[s] \subseteq inserted
    /\ \A m \in owed[s] : Zeros(Data[m]) \subseteq Zeros(squery[s])
    /\ \A m \in owed[s], n \in Node, j \in Nat : StandsAt(n, j, m) =>
          n = visiting[s] \/ Ahead(Frontier(s), n, Zeros(squery[s]))

SearchInv == \A s \in Searchers : SearcherInv(s)

ATreeInv == TypeOK /\ TreeInv /\ InsertInv /\ ListInv /\ SearchInv

-----------------------------------------------------------------------------
(* Sequences and ranks *)

LEMMA Elements ==
    ASSUME NEW S, NEW s \in Seq(S)
    PROVE  /\ \A x : x \in ToSet(s) <=> \E k \in 1 .. Len(s) : s[k] = x
           /\ ToSet(s) \subseteq S
  BY DEF ToSet

LEMMA AppendElements ==
    ASSUME NEW S, NEW s \in Seq(S), NEW x \in S
    PROVE  Append(s, x) \in Seq(S) /\ ToSet(Append(s, x)) = ToSet(s) \cup {x}
<1> DEFINE t == Append(s, x)
<1>1. /\ t \in Seq(S) /\ Len(t) = Len(s) + 1 /\ Len(s) \in Nat
      /\ t[Len(s) + 1] = x
      /\ \A k \in 1 .. Len(s) : t[k] = s[k]
  OBVIOUS
<1> HIDE DEF t
<1>2. \A k : k \in 1 .. Len(t) <=> k \in 1 .. Len(s) \/ k = Len(s) + 1
  BY <1>1
<1>3. \A y : y \in ToSet(t) <=> y \in ToSet(s) \cup {x}
  BY <1>1, <1>2, Elements
<1> QED BY <1>1, <1>3 DEF t

\* All but one element are left.
LEMMA RemoveAtElements ==
    ASSUME NEW S, NEW s \in Seq(S), NEW k \in 1 .. Len(s)
    PROVE  /\ RemoveAt(s, k) \in Seq(S)
           /\ ToSet(RemoveAt(s, k)) \subseteq ToSet(s)
           /\ ToSet(s) \subseteq ToSet(RemoveAt(s, k)) \cup {s[k]}
<1> DEFINE u == SubSeq(s, 1, k - 1)
           v == SubSeq(s, k + 1, Len(s))
<1>1. Len(s) \in Nat /\ \A j \in 1 .. Len(s) : s[j] \in S
  BY LenProperties, ElementOfSeq
<1>2. u \in Seq(S) /\ Len(u) = k - 1 /\ \A j \in 1 .. k - 1 : u[j] = s[j]
  <2>1. \A j \in 1 .. k - 1 : s[j] \in S
    BY <1>1
  <2>2. 1 \in Int /\ k - 1 \in Int /\ k >= 1
    OBVIOUS
  <2> HIDE DEF u
  <2>3. u \in Seq(S) /\ Len(u) = (IF 1 <= k - 1 THEN k - 1 - 1 + 1 ELSE 0)
        /\ \A j \in 1 .. k - 1 - 1 + 1 : u[j] = s[1 + j - 1]
    BY <2>1, <2>2, SubSeqProperties DEF u
  <2> QED BY <2>2, <2>3
<1>3. v \in Seq(S) /\ Len(v) = Len(s) - k /\ \A j \in 1 .. Len(s) - k : v[j] = s[k + j]
  <2>1. \A j \in k + 1 .. Len(s) : s[j] \in S
    BY <1>1
  <2>2. k + 1 \in Int /\ Len(s) \in Int /\ k <= Len(s) /\ k \in Int
    BY <1>1
  <2> HIDE DEF v
  <2>3. v \in Seq(S) /\ Len(v) = (IF k + 1 <= Len(s) THEN Len(s) - (k + 1) + 1 ELSE 0)
        /\ \A j \in 1 .. Len(s) - (k + 1) + 1 : v[j] = s[k + 1 + j - 1]
    BY <2>1, <2>2, SubSeqProperties DEF v
  <2> QED BY <2>2, <2>3
<1> HIDE DEF u, v
<1> DEFINE w == u \o v
<1>4. /\ w \in Seq(S) /\ Len(w) = Len(s) - 1
      /\ \A j \in 1 .. Len(s) - 1 : w[j] = IF j <= k - 1 THEN u[j] ELSE v[j - (k - 1)]
  <2>1. /\ w \in Seq(S) /\ Len(w) = Len(u) + Len(v)
        /\ \A j \in 1 .. Len(u) + Len(v) : w[j] = IF j <= Len(u) THEN u[j] ELSE v[j - Len(u)]
    BY <1>2, <1>3, ConcatProperties
  <2>2. Len(u) = k - 1 /\ Len(u) + Len(v) = Len(s) - 1
    BY <1>1, <1>2, <1>3
  <2> HIDE DEF w
  <2> QED BY <2>1, <2>2
<1>5. RemoveAt(s, k) = w
  BY DEF RemoveAt, u, v
<1> HIDE DEF w
<1>6. \A j \in 1 .. Len(s) - 1 : w[j] = IF j <= k - 1 THEN s[j] ELSE s[j + 1]
  <2> TAKE j \in 1 .. Len(s) - 1
  <2>1. CASE j <= k - 1
    BY <1>2, <1>4, <2>1
  <2>2. CASE ~(j <= k - 1)
    <3>1. j - (k - 1) \in 1 .. Len(s) - k /\ k + (j - (k - 1)) = j + 1
      BY <1>1, <2>2
    <3> QED BY <1>3, <1>4, <2>2, <3>1
  <2> QED BY <2>1, <2>2
<1>7. ASSUME NEW x \in ToSet(w)
      PROVE  x \in ToSet(s)
  <2>1. PICK j \in 1 .. Len(s) - 1 : w[j] = x
    BY <1>4, Elements
  <2>2. j \in 1 .. Len(s) /\ j + 1 \in 1 .. Len(s)
    BY <1>1
  <2> QED BY <1>6, <2>1, <2>2, Elements
<1>8. ASSUME NEW x \in ToSet(s)
      PROVE  x \in ToSet(w) \cup {s[k]}
  <2>1. PICK j \in 1 .. Len(s) : s[j] = x
    BY Elements
  <2>2. CASE j < k
    <3>1. j \in 1 .. Len(s) - 1 /\ w[j] = x
      BY <1>1, <1>6, <2>1, <2>2
    <3> QED BY <1>4, <3>1, Elements
  <2>3. CASE j > k
    <3>1. j - 1 \in 1 .. Len(s) - 1 /\ w[j - 1] = x
      BY <1>1, <1>6, <2>1, <2>3
    <3> QED BY <1>4, <3>1, Elements
  <2> QED BY <2>1, <2>2, <2>3
<1> QED BY <1>4, <1>5, <1>7, <1>8

\* Ranks number the elements of a set of numbers.
LEMMA Ranked ==
    ASSUME NEW S, S \subseteq Nat, IsFiniteSet(S)
    PROVE  /\ \A p \in S : Rank(S, p) \in 1 .. Cardinality(S)
           /\ \A p, q \in S : Rank(S, p) = Rank(S, q) => p = q
           /\ \A k \in 1 .. Cardinality(S) : Nth(S, k) \in S /\ Rank(S, Nth(S, k)) = k
<1> DEFINE below(p) == {q \in S : q <= p}
           f == [p \in S |-> Rank(S, p)]
           n == Cardinality(S)
<1>1. \A p \in S : IsFiniteSet(below(p)) /\ Cardinality(below(p)) \in 1 .. n
  <2> TAKE p \in S
  <2> HIDE DEF below
  <2>1. below(p) \in SUBSET S /\ p \in below(p)
    BY DEF below
  <2>2. IsFiniteSet(below(p)) /\ Cardinality(below(p)) <= n
    BY <2>1, FS_Subset
  <2>3. n \in Nat /\ Cardinality(below(p)) \in Nat /\ Cardinality(below(p)) # 0
    BY <2>1, <2>2, FS_CardinalityType, FS_EmptySet
  <2> QED BY <2>2, <2>3
<1>2. ASSUME NEW p \in S, NEW q \in S, p < q
      PROVE  Cardinality(below(p)) # Cardinality(below(q))
  <2>1. below(p) \in SUBSET below(q) /\ below(p) # below(q)
    <3>1. p \in Nat /\ q \in Nat
      OBVIOUS
    <3>2. \A x \in Nat : x <= p => x <= q
      BY <1>2, <3>1
    <3>3. \A x \in below(p) : x \in below(q)
      BY <3>2
    <3>4. q \in below(q) /\ q \notin below(p)
      BY <1>2, <3>1
    <3> HIDE DEF below
    <3> QED BY <3>3, <3>4
  <2> HIDE DEF below
  <2> QED BY <1>1, <2>1, FS_Subset
<1>3. \A p \in S : Rank(S, p) = Cardinality(below(p))
  BY DEF Rank
<1> HIDE DEF below
<1>4. \A p, q \in S : Rank(S, p) = Rank(S, q) => p = q
  <2> TAKE p, q \in S
  <2>1. p < q \/ q < p \/ p = q
    OBVIOUS
  <2> QED BY <1>2, <1>3, <2>1
<1>5. f \in Injection(S, 1 .. n)
  BY <1>1, <1>3, <1>4 DEF Injection, IsInjective
<1>6. f \in Surjection(S, 1 .. n)
  <2>1. n \in Nat
    BY FS_CardinalityType
  <2>2. IsFiniteSet(1 .. n) /\ Cardinality(1 .. n) = n
    BY <2>1, FS_Interval
  <2> HIDE DEF f
  <2> QED BY <1>5, <2>2, FS_Injection
<1>7. \A k \in 1 .. n : \E p \in S : Rank(S, p) = k
  BY <1>6 DEF Surjection
<1>8. \A k \in 1 .. n : Nth(S, k) \in S /\ Rank(S, Nth(S, k)) = k
  BY <1>7 DEF Nth
<1> QED BY <1>1, <1>3, <1>4, <1>8

-----------------------------------------------------------------------------
(* The second loop of Insert2 *)

\* Uncovered keeps the children that do not stand for less than the candidate.
LEMMA UncoveredElements ==
    ASSUME NEW children \in Seq(Node), NEW n
    PROVE  /\ Uncovered(children, n) \in Seq(Node)
           /\ ToSet(Uncovered(children, n)) =
                {c \in ToSet(children) : ~(positions[c] \subseteq positions[n])}
<1> DEFINE len == Len(children)
           Q == Seq(Node)
           covered(c) == Satisfies(c, positions[n])
           Grown(k, v) == IF covered(children[k]) THEN v ELSE Append(v, children[k])
           step == [k \in 1 .. len |-> [v \in Q |-> Grown(k, v)]]
           Body(f) == [k \in 0 .. len |-> IF k = 0 THEN <<>> ELSE Grown(k, f[k - 1])]
<1>1. len \in Nat /\ <<>> \in Q /\ \A k \in 1 .. len : children[k] \in Node
  OBVIOUS
<1>2. \A k \in 1 .. len : \A v \in Q : Grown(k, v) \in Q
  BY <1>1
<1>3. Uncovered(children, n) = (CHOOSE f : f = Body(f))[len]
  BY DEF Uncovered
<1> HIDE DEF len, Grown, covered
<1>4. PICK f \in [0 .. len -> Q] : f[0] = <<>> /\ \A k \in 1 .. len : f[k] = step[k][f[k - 1]]
  <2>1. PICK sp : sp = step
    OBVIOUS
  <2>2. sp \in Steps(len, Q)
    BY <1>2, <2>1 DEF Steps
  <2> HIDE DEF step, Q
  <2>3. Chains(len, Q, <<>>, sp) # {}
    BY <1>1, <2>2, RecursionExists
  <2> QED BY <2>1, <2>3 DEF Chains
<1> HIDE DEF Q
<1>5. \A k \in 1 .. len : f[k] = Grown(k, f[k - 1])
  <2> SUFFICES ASSUME NEW k \in 1 .. len PROVE f[k] = Grown(k, f[k - 1])
    OBVIOUS
  <2>1. f[k - 1] \in Q
    BY <1>1
  <2> QED BY <1>4, <2>1
<1>6. f = Body(f)
  <2>1. \A k \in 0 .. len : k # 0 => k \in 1 .. len
    BY <1>1
  <2> QED BY <1>4, <1>5, <2>1
<1> DEFINE c == CHOOSE g : g = Body(g)
<1>7. c = Body(c)
  BY <1>6
<1> HIDE DEF c
<1>8. c[0] = <<>> /\ \A k \in 1 .. len : c[k] = Grown(k, c[k - 1])
  <2>1. 0 \in 0 .. len /\ \A k \in 1 .. len : k \in 0 .. len /\ k # 0
    BY <1>1
  <2> QED BY <1>7, <2>1
<1> DEFINE Kept(k) == {x \in Node : \E j \in 1 .. k : children[j] = x /\ ~covered(x)}
           T == {k \in 0 .. len : c[k] \in Q /\ ToSet(c[k]) = Kept(k)}
<1>9. 0 \in T
  <2>1. ToSet(<<>>) = {} /\ Kept(0) = {}
    BY DEF ToSet
  <2> QED BY <1>1, <1>8, <2>1
<1>10. ASSUME NEW k \in 1 .. len, k - 1 \in T
       PROVE  k \in T
  <2>1. c[k] = Grown(k, c[k - 1]) /\ children[k] \in Node
    BY <1>1, <1>8
  <2>2. \A j : j \in 1 .. k <=> j \in 1 .. k - 1 \/ j = k
    BY <1>1
  <2>3. c[k - 1] \in Q /\ ToSet(c[k - 1]) = Kept(k - 1)
    BY <1>10
  <2>4. CASE covered(children[k])
    <3>1. Kept(k) = Kept(k - 1)
      BY <2>2, <2>4
    <3> HIDE DEF Kept
    <3> QED BY <2>1, <2>3, <2>4, <3>1 DEF Grown
  <2>5. CASE ~covered(children[k])
    <3>1. Kept(k) = Kept(k - 1) \cup {children[k]}
      BY <2>1, <2>2, <2>5
    <3> HIDE DEF Kept
    <3>2. c[k] = Append(c[k - 1], children[k])
      BY <2>1, <2>5 DEF Grown
    <3>3. c[k - 1] \in Seq(Node)
      BY <2>3 DEF Q
    <3>4. c[k] \in Seq(Node) /\ ToSet(c[k]) = ToSet(c[k - 1]) \cup {children[k]}
      BY <2>1, <3>2, <3>3, AppendElements
    <3>5. c[k] \in Q /\ ToSet(c[k]) = Kept(k)
      BY <2>3, <3>1, <3>4 DEF Q
    <3> QED BY <1>1, <3>5
  <2> QED BY <2>4, <2>5
<1>11. len \in T
  <2> HIDE DEF T
  <2>1. PICK U : U = T
    OBVIOUS
  <2>2. 0 \in U /\ \A k \in 1 .. len : k - 1 \in U => k \in U
    BY <1>9, <1>10, <2>1
  <2>3. \A k \in 0 .. len : k \in U
    BY <1>1, <2>2, SetInduction
  <2> QED BY <1>1, <2>1, <2>3
<1>12. Uncovered(children, n) = c[len]
  BY <1>3 DEF c
<1>13. \A x : x \in ToSet(children) <=> \E j \in 1 .. len : children[j] = x
  BY Elements DEF len
<1>14. Kept(len) = {x \in ToSet(children) : ~covered(x)}
  BY <1>1, <1>13
<1> QED BY <1>11, <1>12, <1>14 DEF Q, covered, Satisfies

\* The positions of nodes.
Filters == positions \in [Node -> SUBSET Bits]

\* One candidate is added to what the children cover.
LEMMA Merge1Covers ==
    ASSUME Filters, NEW children \in Seq(Node), NEW n \in Node
    PROVE  /\ Merge1(children, n) \in Seq(Node)
           /\ ToSet(Merge1(children, n)) \subseteq ToSet(children) \cup {n}
           /\ \A x \in Bits : (\E c \in ToSet(Merge1(children, n)) : x \in positions[c])
                                <=> (\E c \in ToSet(children) \cup {n} : x \in positions[c])
<1> DEFINE left == Uncovered(children, n)
<1>1. left \in Seq(Node)
      /\ ToSet(left) = {c \in ToSet(children) : ~(positions[c] \subseteq positions[n])}
  BY UncoveredElements
<1> HIDE DEF left
<1>2. \A x \in Bits : (\E c \in ToSet(left) \cup {n} : x \in positions[c])
                        <=> (\E c \in ToSet(children) \cup {n} : x \in positions[c])
  BY <1>1
<1>3. CASE \E k \in 1 .. Len(left) : Satisfies(n, positions[left[k]])
  <2>1. PICK k \in 1 .. Len(left) : positions[n] \subseteq positions[left[k]]
    BY <1>3 DEF Satisfies
  <2>2. left[k] \in ToSet(left)
    BY <1>1, Elements
  <2>3. Merge1(children, n) = left
    BY <1>3 DEF Merge1, left
  <2>4. \A x \in Bits : (\E c \in ToSet(left) : x \in positions[c])
                          <=> (\E c \in ToSet(left) \cup {n} : x \in positions[c])
    BY <2>1, <2>2
  <2> QED BY <1>1, <1>2, <2>3, <2>4
<1>4. CASE ~\E k \in 1 .. Len(left) : Satisfies(n, positions[left[k]])
  <2>1. Merge1(children, n) = Append(left, n)
    BY <1>4 DEF Merge1, left
  <2>2. Append(left, n) \in Seq(Node) /\ ToSet(Append(left, n)) = ToSet(left) \cup {n}
    BY <1>1, AppendElements
  <2> QED BY <1>1, <1>2, <2>1, <2>2
<1> QED BY <1>3, <1>4

\* After the second loop the children cover what children and candidates did.
LEMMA MergedCovers ==
    ASSUME Filters, NEW children \in Seq(Node), NEW others \in SUBSET Node,
           NEW order \in SetToSeqs(others), NEW filter, Covers(ToSet(children) \cup others, filter)
    PROVE  /\ Merged(children, order) \in Seq(Node)
           /\ ToSet(Merged(children, order)) \subseteq ToSet(children) \cup others
           /\ Covers(ToSet(Merged(children, order)), filter)
<1> DEFINE len == Len(order)
           Q == Seq(Node)
           step == [k \in 1 .. len |-> [v \in Q |-> Merge1(v, order[k])]]
           Body(f) == [k \in 0 .. len |-> IF k = 0 THEN children ELSE Merge1(f[k - 1], order[k])]
<1>1. /\ len \in Nat /\ order \in [1 .. len -> others]
      /\ \A x \in others : \E k \in 1 .. len : order[k] = x
  <2> DEFINE n == Cardinality(others)
  <2>1. IsFiniteSet(others) /\ n \in Nat
    <3>1. IsFiniteSet(Node)
      BY ATreeAssumption, FS_Interval DEF Node
    <3> QED BY <3>1, FS_Subset, FS_CardinalityType
  <2>2. order \in [1 .. n -> others] /\ \A i, j \in 1 .. n : i # j => order[i] # order[j]
    BY DEF SetToSeqs
  <2>3. order \in Injection(1 .. n, others)
    BY <2>2 DEF Injection, IsInjective
  <2>4. Cardinality(1 .. n) = n /\ IsFiniteSet(1 .. n)
    BY <2>1, FS_Interval
  <2>5. order \in Surjection(1 .. n, others)
    <3> HIDE DEF n
    <3>1. Cardinality(1 .. n) = Cardinality(others)
      BY <2>4 DEF n
    <3> QED BY <2>1, <2>3, <3>1, FS_Injection
  <2>6. len = n
    BY <2>1, <2>2
  <2> HIDE DEF len, n
  <2> QED BY <2>1, <2>2, <2>5, <2>6 DEF Surjection
<1>2. \A k \in 1 .. len : order[k] \in Node
  BY <1>1
<1>3. Merged(children, order) = (CHOOSE f : f = Body(f))[len]
  BY DEF Merged
<1> HIDE DEF len
<1>4. \A k \in 1 .. len : \A v \in Q : Merge1(v, order[k]) \in Q
  BY <1>2, Merge1Covers
<1>5. PICK f \in [0 .. len -> Q] : f[0] = children /\ \A k \in 1 .. len : f[k] = step[k][f[k - 1]]
  <2>1. PICK sp : sp = step
    OBVIOUS
  <2>2. sp \in Steps(len, Q)
    BY <1>4, <2>1 DEF Steps
  <2> HIDE DEF step
  <2>3. children \in Q
    OBVIOUS
  <2> HIDE DEF Q
  <2>4. Chains(len, Q, children, sp) # {}
    BY <1>1, <2>2, <2>3, RecursionExists
  <2> QED BY <2>1, <2>4 DEF Chains
<1> HIDE DEF Q
<1>6. \A k \in 1 .. len : f[k] = Merge1(f[k - 1], order[k])
  <2> SUFFICES ASSUME NEW k \in 1 .. len PROVE f[k] = Merge1(f[k - 1], order[k])
    OBVIOUS
  <2>1. f[k - 1] \in Q
    BY <1>1
  <2> QED BY <1>5, <2>1
<1>7. f = Body(f)
  <2>1. \A k \in 0 .. len : k # 0 => k \in 1 .. len
    BY <1>1
  <2> QED BY <1>5, <1>6, <2>1
<1> DEFINE c == CHOOSE g : g = Body(g)
<1>8. c = Body(c)
  BY <1>7
<1> HIDE DEF c
<1>9. c[0] = children /\ \A k \in 1 .. len : c[k] = Merge1(c[k - 1], order[k])
  <2>1. 0 \in 0 .. len /\ \A k \in 1 .. len : k \in 0 .. len /\ k # 0
    BY <1>1
  <2> QED BY <1>8, <2>1
<1> DEFINE Before(k) == {order[j] : j \in 1 .. k}
           In(x, nodes) == \E d \in nodes : x \in positions[d]
           Right(k) == /\ c[k] \in Seq(Node) /\ ToSet(c[k]) \subseteq ToSet(children) \cup others
                       /\ \A x \in Bits : In(x, ToSet(c[k])) <=> In(x, ToSet(children) \cup Before(k))
           T == {k \in 0 .. len : Right(k)}
<1>10. 0 \in T
  <2>1. Before(0) = {}
    OBVIOUS
  <2> HIDE DEF Before
  <2> QED BY <1>1, <1>9, <2>1
<1>11. ASSUME NEW k \in 1 .. len, k - 1 \in T
       PROVE  k \in T
  <2>1. PICK v : v = c[k - 1]
    OBVIOUS
  <2>2. v \in Seq(Node) /\ ToSet(v) \subseteq ToSet(children) \cup others
        /\ \A x \in Bits : In(x, ToSet(v)) <=> In(x, ToSet(children) \cup Before(k - 1))
    BY <1>11, <2>1
  <2>3. Before(k) = Before(k - 1) \cup {order[k]}
    <3>1. \A j : j \in 1 .. k <=> j \in 1 .. k - 1 \/ j = k
      BY <1>1
    <3> QED BY <3>1
  <2>4. c[k] = Merge1(v, order[k]) /\ order[k] \in Node /\ order[k] \in others
    BY <1>1, <1>2, <1>9, <2>1
  <2> HIDE DEF Before
  <2>5. /\ c[k] \in Seq(Node) /\ ToSet(c[k]) \subseteq ToSet(v) \cup {order[k]}
        /\ \A x \in Bits : In(x, ToSet(c[k])) <=> In(x, ToSet(v) \cup {order[k]})
    <3>1. PICK o : o = order[k]
      OBVIOUS
    <3>2. o \in Node /\ c[k] = Merge1(v, o)
      BY <2>4, <3>1
    <3>3. /\ Merge1(v, o) \in Seq(Node) /\ ToSet(Merge1(v, o)) \subseteq ToSet(v) \cup {o}
          /\ \A x \in Bits : (\E d \in ToSet(Merge1(v, o)) : x \in positions[d])
                                <=> (\E d \in ToSet(v) \cup {o} : x \in positions[d])
      BY <2>2, <3>2, Merge1Covers
    <3> QED BY <3>1, <3>2, <3>3
  <2>6. \A x \in Bits : In(x, ToSet(v) \cup {order[k]})
                          <=> In(x, ToSet(children) \cup Before(k - 1)) \/ x \in positions[order[k]]
    BY <2>2
  <2>7. \A x : In(x, ToSet(children) \cup Before(k))
                 <=> In(x, ToSet(children) \cup Before(k - 1)) \/ x \in positions[order[k]]
    BY <2>3
  <2>8. ToSet(c[k]) \subseteq ToSet(children) \cup others
    BY <2>2, <2>4, <2>5
  <2> HIDE DEF In
  <2>9. \A x \in Bits : In(x, ToSet(c[k])) <=> In(x, ToSet(children) \cup Before(k))
    BY <2>5, <2>6, <2>7
  <2>10. Right(k)
    BY <2>5, <2>8, <2>9 DEF In
  <2> HIDE DEF Right
  <2> QED BY <1>1, <2>10
<1>12. Right(len)
  <2> HIDE DEF Right
  <2>1. PICK U : U = T
    OBVIOUS
  <2>2. 0 \in U /\ \A k \in 1 .. len : k - 1 \in U => k \in U
    BY <1>10, <1>11, <2>1
  <2>3. \A k \in 0 .. len : k \in U
    <3> HIDE DEF T
    <3> QED BY <1>1, <2>2, SetInduction
  <2> QED BY <1>1, <2>1, <2>3
<1>13. Merged(children, order) = c[len] /\ Before(len) = others
  <2>1. \A x : x \in Before(len) <=> x \in others
    BY <1>1
  <2> QED BY <1>3, <2>1 DEF c
<1> HIDE DEF Before
<1> QED BY <1>12, <1>13 DEF Covers

-----------------------------------------------------------------------------
(* The tree grows *)

\* Nodes keep their positions and their parents.
Grows ==
    /\ nodeNum' \in Node /\ nodeNum <= nodeNum'
    /\ \A n \in Known : positions'[n] = positions[n]
    /\ \A n \in Node : parents[n] \subseteq parents'[n]

LEMMA KnownNodes ==
    ASSUME TypeOK
    PROVE  /\ Known \subseteq Node /\ Root \in Known /\ Filters
           /\ nodeNum \in Nat /\ MaxNode \in Nat /\ nodeNum <= MaxNode /\ NoNode \notin Node
  BY ATreeAssumption DEF TypeOK, Node, Known, Root, Filters, NoNode

LEMMA KnownGrows ==
    ASSUME TypeOK, Grows
    PROVE  Known \subseteq Known'
<1>1. nodeNum \in Nat /\ nodeNum' \in Nat /\ nodeNum <= nodeNum'
  BY ATreeAssumption DEF TypeOK, Grows, Node
<1> QED BY <1>1 DEF Known

\* What is closed when there are more parents was closed before.
LEMMA ClosedBefore ==
    ASSUME TypeOK, TreeInv, Grows, NEW S \in SUBSET Node, NEW fitting, Closed(S, fitting)'
    PROVE  Closed(S, fitting)
<1> SUFFICES ASSUME NEW n \in S, NEW p \in parents[n], positions[p] \subseteq fitting
             PROVE  p \in S
  BY DEF Closed
<1>1. p \in parents'[n]
  BY DEF Grows
<1>2. positions'[p] = positions[p]
  BY DEF TreeInv, Sound, Grows
<1> QED BY <1>1, <1>2 DEF Closed

LEMMA AheadKept ==
    ASSUME TypeOK, TreeInv, Grows, NEW from, NEW n, NEW fitting, Ahead(from, n, fitting)
    PROVE  Ahead(from, n, fitting)'
  BY ClosedBefore DEF Ahead

LEMMA SoundKept ==
    ASSUME TypeOK, TreeInv, Grows, NEW n, Sound(n)
    PROVE  Sound(n)' /\ positions'[n] = positions[n]
<1>1. n \in Known' /\ positions'[n] = positions[n]
  BY KnownGrows DEF Sound, Grows
<1>2. ASSUME NEW fitting \in SUBSET Bits, positions'[n] \subseteq fitting
      PROVE  Ahead({Root}, n, fitting)'
  <2>1. Ahead({Root}, n, fitting)
    BY <1>1, <1>2 DEF Sound, Reachable
  <2>2. PICK from : from = {Root}
    OBVIOUS
  <2>3. Ahead(from, n, fitting)
    BY <2>1, <2>2
  <2>4. Ahead(from, n, fitting)'
    BY <2>3, AheadKept
  <2> QED BY <2>2, <2>4
<1> QED BY <1>1, <1>2 DEF Sound, Reachable

LEMMA RootSound == ASSUME TypeOK PROVE Sound(Root)
  BY KnownNodes DEF Sound, Reachable, Ahead

\* The tree is sound when what is new in it is.
LEMMA TreeKept ==
    ASSUME TypeOK, TreeInv, Grows,
           \A n \in Node : \A p \in parents'[n] :
              p \in parents[n] \/ (n \in Known' /\ Sound(p)' /\ positions'[n] \subseteq positions'[p]),
           \A n \in Node : ptrList'[n] # <<>> => ptrList[n] # <<>> \/ Sound(n)'
    PROVE  TreeInv'
<1>1. positions'[Root] = {}
  BY KnownNodes DEF TreeInv, Grows
<1>2. ASSUME NEW n \in Node, NEW p \in parents[n]
      PROVE  n \in Known' /\ Sound(p)' /\ positions'[n] \subseteq positions'[p]
  <2>1. n \in Known /\ Sound(p) /\ positions[n] \subseteq positions[p]
    BY DEF TreeInv
  <2>2. n \in Known' /\ positions'[n] = positions[n]
    BY <2>1, KnownGrows DEF Grows
  <2> QED BY <2>1, <2>2, SoundKept
<1>3. ASSUME NEW n \in Node, ptrList[n] # <<>>
      PROVE  Sound(n)'
  BY <1>3, SoundKept DEF TreeInv
<1> QED BY <1>1, <1>2, <1>3 DEF TreeInv

\* Nothing is new where the tree does not change.
LEMMA QuietTree ==
    ASSUME TypeOK, TreeInv, UNCHANGED <<nodeNum, positions, parents, ptrList>>
    PROVE  Grows /\ TreeInv'
<1>1. Grows
  BY DEF TypeOK, Grows, Node
<1> QED BY <1>1, TreeKept

-----------------------------------------------------------------------------
(* What the steps of an insertion make *)

LEMMA ZerosFinite ==
    ASSUME NEW S, S \subseteq Bits
    PROVE  IsFiniteSet(S) /\ S \subseteq Nat
<1>1. BloomSize \in Nat
  BY ATreeAssumption
<1>2. IsFiniteSet(Bits) /\ Bits \subseteq Nat
  BY <1>1, FS_Interval DEF Bits
<1> QED BY <1>2, FS_Subset

LEMMA ZerosType ==
    ASSUME NEW m \in Meta
    PROVE  Data[m] \subseteq Bits /\ Zeros(Data[m]) \subseteq Bits
  BY ATreeAssumption DEF Zeros

\* Each position of the filter has a node of its own under the root.
LEMMA Insert2Makes ==
    ASSUME TypeOK, TreeInv, NEW i \in Inserters, NEW m \in Meta, Insert2(i, m)
    PROVE  /\ nodeNum' \in Node /\ nodeNum <= nodeNum'
           /\ positions' \in [Node -> SUBSET Bits] /\ parents' \in [Node -> SUBSET Node]
           /\ \A n \in Known : positions'[n] = positions[n]
           /\ \A n \in Node : parents[n] \subseteq parents'[n]
           /\ \A n \in Node : \A p \in parents'[n] :
                 p \in parents[n] \/ (n = Root /\ p \in Known' /\ positions'[p] # {})
           /\ ichildren'[i] \in Seq(Node)
           /\ \A n \in ToSet(ichildren'[i]) : positions'[n] # {}
           /\ ToSet(ichildren'[i]) \subseteq parents'[Root]
           /\ \A x \in Bits : x \in Zeros(Data[m])
                                <=> \E n \in ToSet(ichildren'[i]) : x \in positions'[n]
<1> DEFINE mine == Zeros(Data[m])
           single(p) == {n \in parents[Root] : positions[n] = {p}}
           missing == {p \in mine : single(p) = {}}
           made(p) == nodeNum + Rank(missing, p)
           child(p) == IF p \in missing THEN made(p) ELSE CHOOSE n \in single(p) : TRUE
           len == Cardinality(mine)
           start == [k \in 1 .. len |-> child(Nth(mine, k))]
           new == Cardinality(missing)
<1>1. /\ nodeNum + new <= MaxNode /\ nodeNum' = nodeNum + new
      /\ positions' = [n \in Node |-> IF \E p \in missing : made(p) = n
                                      THEN {p \in missing : made(p) = n}
                                      ELSE positions[n]]
      /\ parents' = [parents EXCEPT ![Root] = @ \cup {made(p) : p \in missing}]
      /\ ichildren' = [ichildren EXCEPT ![i] = start]
  BY DEF Insert2
<1>2. mine \subseteq Bits /\ missing \subseteq mine
  BY ZerosType
<1>3. /\ IsFiniteSet(mine) /\ IsFiniteSet(missing) /\ mine \subseteq Nat /\ missing \subseteq Nat
      /\ len \in Nat /\ new \in Nat
  <2> HIDE DEF mine, missing
  <2>1. missing \subseteq Bits
    BY <1>2
  <2> QED BY <1>2, <2>1, ZerosFinite, FS_CardinalityType
<1>4. /\ \A p \in missing : Rank(missing, p) \in 1 .. new
      /\ \A p, q \in missing : Rank(missing, p) = Rank(missing, q) => p = q
  <2> HIDE DEF missing
  <2> QED BY <1>3, Ranked
<1>5. /\ \A p \in mine : Rank(mine, p) \in 1 .. len
      /\ \A p, q \in mine : Rank(mine, p) = Rank(mine, q) => p = q
      /\ \A k \in 1 .. len : Nth(mine, k) \in mine /\ Rank(mine, Nth(mine, k)) = k
  <2> HIDE DEF mine
  <2> QED BY <1>3, Ranked
<1>6. /\ nodeNum \in Nat /\ MaxNode \in Nat /\ nodeNum >= 1 /\ Filters
      /\ parents \in [Node -> SUBSET Node] /\ Root \in Node /\ Known \subseteq Node
  BY ATreeAssumption DEF TypeOK, Node, Root, Known, Filters
<1>7. nodeNum' \in Node /\ nodeNum <= nodeNum'
  BY <1>1, <1>3, <1>6 DEF Node
<1>8. \A p \in missing : made(p) \in Node /\ made(p) \in Known' /\ made(p) \notin Known
  <2> TAKE p \in missing
  <2>1. PICK r \in 1 .. new : r = Rank(missing, p)
    BY <1>4
  <2>2. made(p) = nodeNum + r
    BY <2>1
  <2> HIDE DEF made, new, missing
  <2> QED BY <1>1, <1>3, <1>6, <2>2 DEF Node, Known
<1>9. \A p, q \in missing : made(p) = made(q) => p = q
  <2> TAKE p, q \in missing
  <2>1. PICK r \in 1 .. new : r = Rank(missing, p)
    BY <1>4
  <2>2. PICK u \in 1 .. new : u = Rank(missing, q)
    BY <1>4
  <2>3. made(p) = nodeNum + r /\ made(q) = nodeNum + u
    BY <2>1, <2>2
  <2>4. made(p) = made(q) => r = u
    <3> HIDE DEF made, new, missing
    <3> QED BY <1>3, <1>6, <2>3
  <2> QED BY <1>4, <2>1, <2>2, <2>4
<1>10. \A p \in missing : positions'[made(p)] = {p}
  <2> SUFFICES ASSUME NEW p \in missing PROVE positions'[made(p)] = {p}
    OBVIOUS
  <2>1. {q \in missing : made(q) = made(p)} = {p}
    BY <1>9
  <2> HIDE DEF made, missing
  <2> QED BY <1>1, <1>8, <2>1
<1>11. \A n \in Known : positions'[n] = positions[n]
  <2> HIDE DEF made, missing
  <2> QED BY <1>1, <1>6, <1>8
<1>12. positions' \in [Node -> SUBSET Bits]
  <2> HIDE DEF made, mine, single
  <2> QED BY <1>1, <1>2, <1>6 DEF Filters
<1>13. /\ parents' \in [Node -> SUBSET Node]
       /\ parents'[Root] = parents[Root] \cup {made(p) : p \in missing}
       /\ \A n \in Node \ {Root} : parents'[n] = parents[n]
  <2> HIDE DEF made, missing
  <2> QED BY <1>1, <1>6, <1>8
<1>14. \A n \in Node : parents[n] \subseteq parents'[n]
  BY <1>13
<1>15. \A n \in Node : \A p \in parents'[n] :
          p \in parents[n] \/ (n = Root /\ p \in Known' /\ positions'[p] # {})
  <2> HIDE DEF made, missing
  <2>1. \A p \in missing : positions'[made(p)] # {}
    BY <1>10
  <2> QED BY <1>8, <1>13, <2>1
<1>16. \A p \in mine : child(p) \in parents'[Root] /\ positions'[child(p)] = {p}
  <2> SUFFICES ASSUME NEW p \in mine
               PROVE  child(p) \in parents'[Root] /\ positions'[child(p)] = {p}
    OBVIOUS
  <2>1. CASE p \in missing
    <3>1. child(p) = made(p)
      BY <2>1
    <3> HIDE DEF child, made, missing
    <3> QED BY <1>10, <1>13, <2>1, <3>1
  <2>2. CASE p \notin missing
    <3>1. child(p) = CHOOSE n \in single(p) : TRUE
      BY <2>2
    <3>2. single(p) # {}
      BY <2>2
    <3> HIDE DEF single
    <3>3. child(p) \in single(p)
      BY <3>1, <3>2
    <3> HIDE DEF child
    <3>4. child(p) \in parents[Root] /\ positions[child(p)] = {p}
      BY <3>3 DEF single
    <3>5. child(p) \in Known
      BY <1>6, <3>4 DEF TreeInv, Sound
    <3> QED BY <1>11, <1>13, <3>4, <3>5
  <2> QED BY <2>1, <2>2
<1>17. start \in Seq(Node) /\ Len(start) = len /\ ichildren'[i] = start
       /\ \A k \in 1 .. len : start[k] = child(Nth(mine, k))
  <2> HIDE DEF child, mine, missing
  <2>1. \A k \in 1 .. len : child(Nth(mine, k)) \in Node
    BY <1>5, <1>6, <1>13, <1>16
  <2>2. start \in [1 .. len -> Node]
    BY <2>1
  <2>3. \A k \in 1 .. len : start[k] = child(Nth(mine, k))
    OBVIOUS
  <2> HIDE DEF start
  <2>4. start \in Seq(Node) /\ Len(start) = len
    <3> HIDE DEF len
    <3> QED BY <1>3, <2>2
  <2>5. ichildren'[i] = start
    BY <1>1 DEF TypeOK
  <2> QED BY <2>3, <2>4, <2>5
<1> HIDE DEF start
<1>18. \A n : n \in ToSet(ichildren'[i]) <=> \E p \in mine : n = child(p)
  <2> HIDE DEF child, mine
  <2>1. \A p \in mine : Nth(mine, Rank(mine, p)) = p /\ Rank(mine, p) \in 1 .. len
    BY <1>5
  <2>2. \A n : n \in ToSet(start) <=> \E k \in 1 .. len : start[k] = n
    BY <1>17, Elements
  <2> QED BY <1>5, <1>17, <2>1, <2>2
<1>19. ToSet(ichildren'[i]) \subseteq parents'[Root]
  <2> HIDE DEF child, mine
  <2> QED BY <1>16, <1>18
<1>20. \A x \in Bits : x \in mine <=> \E n \in ToSet(ichildren'[i]) : x \in positions'[n]
  <2> HIDE DEF child, mine
  <2> QED BY <1>16, <1>18
<1>21. ichildren'[i] \in Seq(Node) /\ \A n \in ToSet(ichildren'[i]) : positions'[n] # {}
  <2> HIDE DEF child, mine
  <2> QED BY <1>16, <1>17, <1>18
<1> HIDE DEF child, made, missing, single
<1> QED BY <1>7, <1>11, <1>12, <1>13, <1>14, <1>15, <1>19, <1>20, <1>21

-----------------------------------------------------------------------------
(* Insertions *)

\* A new parent of a node that can be reached can be reached.
LEMMA NewParentSound ==
    ASSUME TypeOK, TreeInv, Grows, NEW n, NEW p, Sound(n), p \in parents'[n], p \in Known',
           positions[n] \subseteq positions'[p]
    PROVE  Sound(p)'
<1> SUFFICES ASSUME NEW fitting \in SUBSET Bits, positions'[p] \subseteq fitting,
                    NEW S \in SUBSET Node, {Root} \subseteq S, Closed(S, fitting)'
             PROVE  p \in S
  BY DEF Sound, Reachable, Ahead
<1>1. Closed(S, fitting) /\ positions[n] \subseteq fitting
  BY ClosedBefore
<1>2. Ahead({Root}, n, fitting)
  BY <1>1 DEF Sound, Reachable
<1>3. n \in S
  BY <1>1, <1>2 DEF Ahead
<1> QED BY <1>3 DEF Closed

\* The registers of an inserting thread do not change.
Rests(i) ==
    /\ ipc'[i] = ipc[i] /\ imeta'[i] = imeta[i] /\ ichildren'[i] = ichildren[i] /\ ik'[i] = ik[i]
    /\ candidates'[i] = candidates[i] /\ inew'[i] = inew[i] /\ adjusting'[i] = adjusting[i]

\* What nodes cover does not change as the tree grows.
LEMMA CoversKept ==
    ASSUME TypeOK, TreeInv, Grows, NEW nodes, \A n \in nodes : Sound(n), NEW filter
    PROVE  Covers(nodes, filter) <=> Covers(nodes, filter)'
<1>1. \A n \in nodes : positions'[n] = positions[n]
  BY SoundKept
<1> QED BY <1>1 DEF Covers

LEMMA InserterTypes ==
    ASSUME TypeOK, NEW i \in Inserters
    PROVE  /\ ichildren[i] \in Seq(Node) /\ Len(ichildren[i]) \in Nat
           /\ ToSet(ichildren[i]) \subseteq Node
           /\ adjusting[i] \in Seq(Node) /\ ToSet(adjusting[i]) \subseteq Node
           /\ candidates[i] \subseteq Node /\ ik[i] \in Nat /\ inew[i] \in Node \cup {NoNode}
           /\ imeta[i] \in Meta \cup {NoMeta}
<1>1. ichildren[i] \in Seq(Node) /\ adjusting[i] \in Seq(Node)
  BY DEF TypeOK
<1>2. Len(ichildren[i]) \in Nat /\ ToSet(ichildren[i]) \subseteq Node /\ ToSet(adjusting[i]) \subseteq Node
  BY <1>1, Elements
<1> QED BY <1>1, <1>2 DEF TypeOK

LEMMA InserterRests ==
    ASSUME TypeOK, TreeInv, Grows, NEW i \in Inserters, InserterInv(i), Rests(i)
    PROVE  InserterInv(i)'
<1>1. PICK children, others, adj, len :
         children = ichildren[i] /\ others = candidates[i] /\ adj = adjusting[i]
         /\ len = Len(ichildren[i])
  OBVIOUS
<1>2. children = ichildren'[i] /\ others = candidates'[i] /\ adj = adjusting'[i]
      /\ len = Len(ichildren'[i])
  BY <1>1 DEF Rests
<1>3. \A n \in ToSet(children) \cup others \cup ToSet(adj) :
         Sound(n) /\ Sound(n)' /\ positions'[n] = positions[n]
  BY <1>1, SoundKept DEF InserterInv
<1>4. Mine(i)' = Mine(i)
  BY DEF Mine, Rests
<1>5. PICK filter : filter = Mine(i)
  OBVIOUS
<1>6. ipc[i] # "idle" => Covers(ToSet(children) \cup others, filter)'
  <2>1. PICK nodes : nodes = ToSet(children) \cup others
    OBVIOUS
  <2>2. ipc[i] # "idle" => Covers(nodes, filter)
    BY <1>1, <1>5, <2>1 DEF InserterInv
  <2>3. Covers(nodes, filter) <=> Covers(nodes, filter)'
    BY <1>3, <2>1, CoversKept
  <2> QED BY <2>1, <2>2, <2>3
<1>7. ipc[i] \in {"adjust", "link", "relink"} =>
          /\ len > 1 /\ inew'[i] \in Known'
          /\ positions'[inew'[i]] = positions'[children[len]] \cup positions'[children[len - 1]]
  <2> SUFFICES ASSUME ipc[i] \in {"adjust", "link", "relink"}
               PROVE  /\ len > 1 /\ inew'[i] \in Known'
                      /\ positions'[inew'[i]] =
                            positions'[children[len]] \cup positions'[children[len - 1]]
    OBVIOUS
  <2>1. /\ len > 1 /\ inew[i] \in Known
        /\ positions[inew[i]] = positions[children[len]] \cup positions[children[len - 1]]
    BY <1>1 DEF InserterInv
  <2>2. children[len] \in ToSet(children) /\ children[len - 1] \in ToSet(children)
    <3>1. len \in 1 .. Len(children) /\ len - 1 \in 1 .. Len(children) /\ children \in Seq(Node)
      BY <1>1, <2>1, InserterTypes
    <3> QED BY <3>1, Elements
  <2>3. inew[i] \in Known' /\ positions'[inew[i]] = positions[inew[i]]
    BY <2>1, KnownGrows DEF Grows
  <2> QED BY <1>3, <2>1, <2>2, <2>3 DEF Rests
<1> QED BY <1>1, <1>2, <1>3, <1>4, <1>5, <1>6, <1>7 DEF InserterInv, Rests

LEMMA Insert2Kept ==
    ASSUME TypeOK, TreeInv, NEW i \in Inserters, InserterInv(i), NEW m \in Meta, Insert2(i, m)
    PROVE  TypeOK' /\ Grows /\ TreeInv' /\ InserterInv(i)'
<1>1. /\ nodeNum' \in Node /\ nodeNum <= nodeNum'
      /\ positions' \in [Node -> SUBSET Bits] /\ parents' \in [Node -> SUBSET Node]
      /\ \A n \in Known : positions'[n] = positions[n]
      /\ \A n \in Node : parents[n] \subseteq parents'[n]
      /\ \A n \in Node : \A p \in parents'[n] :
                 p \in parents[n] \/ (n = Root /\ p \in Known')
      /\ ichildren'[i] \in Seq(Node)
      /\ ToSet(ichildren'[i]) \subseteq parents'[Root]
      /\ \A x \in Bits : x \in Zeros(Data[m])
                            <=> \E n \in ToSet(ichildren'[i]) : x \in positions'[n]
  BY Insert2Makes
<1>2. PICK start :
         /\ ichildren' = [ichildren EXCEPT ![i] = start]
         /\ ipc' = [ipc EXCEPT ![i] = Round(start)]
  BY DEF Insert2
<1>3. /\ ipc[i] = "idle" /\ taken' = taken \cup {m} /\ imeta' = [imeta EXCEPT ![i] = m]
      /\ overlapped' = (overlapped \/ \E j \in Inserters : ipc[j] # "idle")
      /\ UNCHANGED <<undefined, ptrList, ik, candidates, removed, inew, adjusting, inserted,
                     searchVars, seen>>
  BY DEF Insert2
<1>4. start = ichildren'[i] /\ ipc'[i] = Round(start) /\ imeta'[i] = m
  BY <1>2, <1>3 DEF TypeOK
<1>5. Round(start) \in {"scan", "push"}
  BY DEF Round
<1>6. TypeOK'
  <2>1. ichildren' \in [Inserters -> Seq(Node)]
    BY <1>1, <1>2, <1>4 DEF TypeOK
  <2>2. ipc' \in [Inserters -> {"idle", "scan", "adjust", "link", "relink", "push"}]
    BY <1>2, <1>5 DEF TypeOK
  <2>3. imeta' \in [Inserters -> Meta \cup {NoMeta}] /\ taken' \subseteq Meta /\ inserted' \subseteq taken'
    BY <1>3 DEF TypeOK
  <2> QED BY <1>1, <1>3, <2>1, <2>2, <2>3 DEF TypeOK, searchVars
<1>7. Grows
  BY <1>1 DEF Grows
<1>8. Root \in Node /\ Root \in Known /\ Root \in Known' /\ positions'[Root] = {} /\ Sound(Root)
  BY <1>1, <1>7, KnownNodes, KnownGrows, RootSound DEF TreeInv
<1>9. \A p \in parents'[Root] : p \in Known' => Sound(p)'
  BY <1>7, <1>8, NewParentSound DEF TreeInv
<1>10. TreeInv'
  <2>1. \A n \in Node : \A p \in parents'[n] :
          p \in parents[n] \/ (n \in Known' /\ Sound(p)' /\ positions'[n] \subseteq positions'[p])
    BY <1>1, <1>8, <1>9
  <2>2. \A n \in Node : ptrList'[n] # <<>> => ptrList[n] # <<>> \/ Sound(n)'
    BY <1>3
  <2> QED BY <1>7, <2>1, <2>2, TreeKept
<1>11. InserterInv(i)'
  <2>1. \A n \in ToSet(ichildren'[i]) : Sound(n)'
    BY <1>1, <1>8, <1>10 DEF TreeInv
  <2>2. candidates'[i] = {} /\ adjusting'[i] = adjusting[i] /\ ik'[i] = ik[i] /\ ik[i] >= 1
    BY <1>3 DEF InserterInv
  <2>3. \A n \in ToSet(adjusting[i]) : Sound(n)'
    BY <1>7, SoundKept DEF InserterInv
  <2>4. PICK filter : filter = Zeros(Data[m]) /\ filter = Mine(i)'
    BY <1>4 DEF Mine
  <2>5. Covers(ToSet(start), filter)'
    BY <1>1, <1>4, <2>4 DEF Covers
  <2>6. ipc'[i] = "push" => Len(ichildren'[i]) <= 1
    <3>1. Len(start) \in Nat
      BY <1>1, <1>4
    <3> QED BY <1>4, <3>1 DEF Round
  <2>7. ipc'[i] \in {"scan", "push"}
    BY <1>4, <1>5
  <2>8. ToSet(ichildren'[i]) \cup candidates'[i] = ToSet(start)
    BY <1>4, <2>2
  <2>9. Covers(ToSet(ichildren[i]) \cup candidates[i], Mine(i))'
    BY <2>4, <2>5, <2>8
  <2> QED BY <2>1, <2>2, <2>3, <2>6, <2>7, <2>9 DEF InserterInv
<1> QED BY <1>6, <1>7, <1>10, <1>11

LEMMA ScanChildKept ==
    ASSUME TypeOK, TreeInv, NEW i \in Inserters, InserterInv(i), ScanChild(i)
    PROVE  TypeOK' /\ Grows /\ TreeInv' /\ InserterInv(i)'
<1>1. PICK children, k, others, filter :
         /\ children = ichildren[i] /\ k = ik[i] /\ others = candidates[i] /\ filter = Mine(i)
  OBVIOUS
<1>2. PICK best : best = BestParent(children[k], filter)
  OBVIOUS
<1>3. /\ ipc[i] = "scan" /\ k \in 1 .. Len(children) /\ children \in Seq(Node) /\ others \subseteq Node
      /\ children[k] \in ToSet(children)
  <2>1. ipc[i] = "scan" /\ k >= 1 /\ k <= Len(children) /\ k \in Nat
    BY <1>1, InserterTypes DEF ScanChild, InserterInv
  <2>2. children \in Seq(Node) /\ Len(children) \in Nat /\ others \subseteq Node
    BY <1>1, InserterTypes
  <2>3. k \in 1 .. Len(children)
    BY <2>1, <2>2
  <2> QED BY <2>1, <2>2, <2>3, Elements
<1>4. /\ candidates' = [candidates EXCEPT ![i] = others \cup best]
      /\ removed' = [removed EXCEPT ![i] = @ \/ best # {}]
      /\ IF best # {}
         THEN /\ ichildren' = [ichildren EXCEPT ![i] = RemoveAt(children, k)]
              /\ UNCHANGED ik
         ELSE /\ ik' = [ik EXCEPT ![i] = k + 1]
              /\ UNCHANGED ichildren
      /\ UNCHANGED <<treeVars, ptrList, ipc, imeta, inew, adjusting, taken, overlapped,
                     inserted, searchVars, seen>>
  BY <1>1, <1>2 DEF ScanChild, TypeOK
<1>5. Sound(children[k]) /\ \A n \in ToSet(children) \cup others \cup ToSet(adjusting[i]) : Sound(n)
  BY <1>1, <1>3 DEF InserterInv
<1>6. \A p \in best : /\ p \in parents[children[k]] /\ positions[p] \subseteq filter
                      /\ p \in Node /\ Sound(p) /\ positions[children[k]] \subseteq positions[p]
  <2>1. \A p \in best : p \in parents[children[k]] /\ positions[p] \subseteq filter
    BY <1>2 DEF BestParent, Satisfies
  <2>2. children[k] \in Node
    BY <1>3
  <2> QED BY <2>1, <2>2 DEF TreeInv, TypeOK
<1>7. PICK left : left = ichildren'[i]
  OBVIOUS
<1>8. /\ left \in Seq(Node) /\ ToSet(left) \subseteq ToSet(children)
      /\ ToSet(children) \subseteq ToSet(left) \cup {children[k]}
      /\ best = {} => ToSet(left) = ToSet(children)
  <2>1. CASE best = {}
    BY <1>1, <1>3, <1>4, <1>7, <2>1
  <2>2. CASE best # {}
    <3>1. left = RemoveAt(children, k)
      BY <1>4, <1>7, <2>2 DEF TypeOK
    <3> QED BY <1>3, <2>2, <3>1, RemoveAtElements
  <2> QED BY <2>1, <2>2
<1>9. /\ ik'[i] >= 1 /\ ik' \in [Inserters -> Nat]
      /\ candidates' \in [Inserters -> SUBSET Node] /\ candidates'[i] = others \cup best
      /\ removed' \in [Inserters -> BOOLEAN] /\ ichildren' \in [Inserters -> Seq(Node)]
  <2>1. ik'[i] >= 1 /\ ik' \in [Inserters -> Nat]
    <3>1. k \in Nat /\ k >= 1 /\ k + 1 \in Nat /\ k + 1 >= 1
      BY <1>3
    <3>2. CASE best = {}
      BY <1>4, <3>1, <3>2 DEF TypeOK
    <3>3. CASE best # {}
      BY <1>1, <1>4, <3>1, <3>3 DEF TypeOK
    <3> QED BY <3>2, <3>3
  <2>2. candidates' \in [Inserters -> SUBSET Node] /\ candidates'[i] = others \cup best
    BY <1>3, <1>4, <1>6 DEF TypeOK
  <2>3. removed' \in [Inserters -> BOOLEAN]
    <3> DEFINE b == removed[i] \/ best # {}
    <3>1. b \in BOOLEAN
      OBVIOUS
    <3>2. removed' = [removed EXCEPT ![i] = b]
      BY <1>4
    <3> HIDE DEF b
    <3> QED BY <3>1, <3>2 DEF TypeOK
  <2>4. ichildren' \in [Inserters -> Seq(Node)]
    <3>1. ichildren' = [ichildren EXCEPT ![i] = left]
      BY <1>4, <1>7 DEF TypeOK
    <3> QED BY <1>8, <3>1 DEF TypeOK
  <2> QED BY <2>1, <2>2, <2>3, <2>4
<1>10. TypeOK'
  BY <1>4, <1>9 DEF TypeOK, treeVars, searchVars
<1>11. Grows /\ TreeInv'
  BY <1>4, QuietTree DEF treeVars
<1>12. InserterInv(i)'
  <2>1. \A n \in ToSet(left) \cup (others \cup best) \cup ToSet(adjusting[i]) : Sound(n)'
    BY <1>5, <1>6, <1>8, <1>11, SoundKept
  <2>2. Covers(ToSet(left) \cup (others \cup best), filter)
    <3>1. Covers(ToSet(children) \cup others, filter)
      BY <1>1, <1>3 DEF InserterInv
    <3>2. filter \subseteq Bits
      BY <1>1 DEF Mine, Zeros
    <3> SUFFICES ASSUME NEW x \in Bits
                 PROVE  x \in filter <=> \E n \in ToSet(left) \cup (others \cup best) : x \in positions[n]
      BY DEF Covers
    <3>3. ASSUME x \in filter
          PROVE  \E n \in ToSet(left) \cup (others \cup best) : x \in positions[n]
      <4>1. PICK n \in ToSet(children) \cup others : x \in positions[n]
        BY <3>1, <3>3 DEF Covers
      <4> QED BY <1>6, <1>8, <4>1
    <3>4. ASSUME NEW n \in ToSet(left) \cup (others \cup best), x \in positions[n]
          PROVE  x \in filter
      BY <1>6, <1>8, <3>1, <3>4 DEF Covers
    <3> QED BY <3>3, <3>4
  <2>3. positions' = positions /\ adjusting' = adjusting /\ ipc' = ipc /\ Mine(i)' = filter
    BY <1>1, <1>4 DEF treeVars, Mine
  <2>4. Covers(ToSet(left) \cup (others \cup best), filter)'
    BY <2>2, <2>3 DEF Covers
  <2> QED BY <1>3, <1>7, <1>9, <2>1, <2>3, <2>4 DEF InserterInv
<1> QED BY <1>10, <1>11, <1>12

LEMMA MergeKept ==
    ASSUME TypeOK, TreeInv, NEW i \in Inserters, InserterInv(i), Merge(i)
    PROVE  TypeOK' /\ Grows /\ TreeInv' /\ InserterInv(i)'
<1>1. PICK others, filter : others = candidates[i] /\ filter = Mine(i)
  OBVIOUS
<1>2. /\ ipc[i] = "scan"
      /\ ik' = [ik EXCEPT ![i] = 1]
      /\ candidates' = [candidates EXCEPT ![i] = {}]
      /\ removed' = [removed EXCEPT ![i] = FALSE]
      /\ UNCHANGED <<parents, undefined, ptrList, imeta, taken, overlapped, inserted,
                     searchVars, seen>>
  BY DEF Merge
<1>3. PICK order \in SetToSeqs(others) :
          LET children == Merged(ichildren[i], order)
              len == Len(children)
          IN  IF ~removed[i] /\ len > 1
              THEN /\ nodeNum < MaxNode
                   /\ nodeNum' = nodeNum + 1
                   /\ inew' = [inew EXCEPT ![i] = nodeNum + 1]
                   /\ positions' = [positions EXCEPT ![nodeNum + 1] =
                                      positions[children[len]] \cup positions[children[len - 1]]]
                   /\ adjusting' = [adjusting EXCEPT ![i] = <<children[len], children[len - 1]>>]
                   /\ ichildren' = [ichildren EXCEPT ![i] = children]
                   /\ ipc' = [ipc EXCEPT ![i] = "adjust"]
              ELSE /\ ichildren' = [ichildren EXCEPT ![i] = children]
                   /\ ipc' = [ipc EXCEPT ![i] = Round(children)]
                   /\ UNCHANGED <<nodeNum, positions, inew, adjusting>>
  BY <1>1 DEF Merge
<1>4. PICK children : children = Merged(ichildren[i], order)
  OBVIOUS
<1>5. PICK len : len = Len(children)
  OBVIOUS
<1>6. PICK old : old = ToSet(ichildren[i])
  OBVIOUS
<1>7. /\ children \in Seq(Node) /\ ToSet(children) \subseteq old \cup others
      /\ Covers(ToSet(children), filter)
  <2>1. Covers(old \cup others, filter)
    BY <1>1, <1>2, <1>6 DEF InserterInv
  <2>2. others \in SUBSET Node /\ Filters /\ ichildren[i] \in Seq(Node)
    BY <1>1, KnownNodes, InserterTypes
  <2> QED BY <1>4, <1>6, <2>1, <2>2, MergedCovers
<1>8. \A n \in old \cup others \cup ToSet(adjusting[i]) : Sound(n) /\ n \in Node
  <2>1. \A n \in old \cup others \cup ToSet(adjusting[i]) : Sound(n)
    BY <1>1, <1>6 DEF InserterInv
  <2> QED BY <2>1, KnownNodes DEF Sound
<1>9. Round(children) \in {"scan", "push"} /\ (Round(children) = "push" => len <= 1) /\ len \in Nat
  <2>1. len \in Nat
    BY <1>5, <1>7
  <2> QED BY <1>5, <2>1 DEF Round
<1>10. /\ ik'[i] = 1 /\ candidates'[i] = {} /\ ik' \in [Inserters -> Nat]
       /\ candidates' \in [Inserters -> SUBSET Node] /\ removed' \in [Inserters -> BOOLEAN]
  BY <1>2 DEF TypeOK
<1>11. CASE ~removed[i] /\ len > 1
  <2>1. PICK a, b, new : a = children[len] /\ b = children[len - 1] /\ new = nodeNum + 1
    OBVIOUS
  <2>2. /\ nodeNum < MaxNode /\ nodeNum' = new
        /\ inew' = [inew EXCEPT ![i] = new]
        /\ positions' = [positions EXCEPT ![new] = positions[a] \cup positions[b]]
        /\ adjusting' = [adjusting EXCEPT ![i] = <<a, b>>]
        /\ ichildren' = [ichildren EXCEPT ![i] = children]
        /\ ipc' = [ipc EXCEPT ![i] = "adjust"]
    BY <1>3, <1>4, <1>5, <1>11, <2>1
  <2>3. a \in ToSet(children) /\ b \in ToSet(children)
    <3>1. len \in 1 .. Len(children) /\ len - 1 \in 1 .. Len(children)
      BY <1>5, <1>9, <1>11
    <3> QED BY <1>7, <2>1, <3>1, Elements
  <2>4. a \in Node /\ b \in Node /\ Sound(a) /\ Sound(b)
    BY <1>7, <1>8, <2>3
  <2>5. new \in Node /\ new \notin Known /\ nodeNum <= new /\ new \in 1 .. new
    BY <2>1, <2>2, KnownNodes DEF Node, Known
  <2>6. Grows
    BY <1>2, <2>2, <2>5, KnownNodes DEF Grows, Filters
  <2>7. positions' \in [Node -> SUBSET Bits] /\ positions'[new] = positions[a] \cup positions[b]
    BY <2>2, <2>4, <2>5, KnownNodes DEF Filters
  <2>8. TreeInv'
    BY <1>2, <2>6, TreeKept
  <2>9. TypeOK'
    <3>1. inew' \in [Inserters -> Node \cup {NoNode}] /\ ichildren' \in [Inserters -> Seq(Node)]
          /\ ipc' \in [Inserters -> {"idle", "scan", "adjust", "link", "relink", "push"}]
      BY <1>7, <2>2, <2>5 DEF TypeOK
    <3>2. adjusting' \in [Inserters -> Seq(Node)]
      <4>1. <<a, b>> \in Seq(Node)
        BY <2>4
      <4> QED BY <2>2, <4>1 DEF TypeOK
    <3> QED BY <1>2, <1>10, <2>2, <2>5, <2>7, <3>1, <3>2 DEF TypeOK, searchVars
  <2>10. InserterInv(i)'
    <3>1. ToSet(<<a, b>>) = {a, b} /\ <<a, b>> # <<>>
      BY DEF ToSet
    <3>2. adjusting'[i] = <<a, b>> /\ ichildren'[i] = children /\ ipc'[i] = "adjust" /\ inew'[i] = new
      BY <2>2 DEF TypeOK
    <3>3. \A n \in ToSet(children) \cup {a, b} : Sound(n)'
      BY <1>7, <1>8, <2>3, <2>6, SoundKept
    <3>4. Covers(ToSet(children), filter)'
      <4>1. PICK nodes : nodes = ToSet(children)
        OBVIOUS
      <4>2. Covers(nodes, filter) /\ \A n \in nodes : Sound(n)
        BY <1>7, <1>8, <4>1
      <4>3. Covers(nodes, filter)'
        BY <2>6, <4>2, CoversKept
      <4> QED BY <4>1, <4>3
    <3>5. Mine(i)' = filter
      BY <1>1, <1>2 DEF Mine
    <3>6. positions'[new] = positions'[children[len]] \cup positions'[children[len - 1]] /\ new \in Known'
      <4>1. positions'[a] = positions[a] /\ positions'[b] = positions[b]
        BY <2>4, <2>6, SoundKept
      <4> QED BY <2>1, <2>2, <2>5, <2>7, <4>1 DEF Known
    <3>7. ToSet(children) \cup candidates'[i] = ToSet(children)
      BY <1>10
    <3>8. Covers(ToSet(ichildren[i]) \cup candidates[i], Mine(i))'
      BY <3>2, <3>4, <3>5, <3>7
    <3>9. \A n \in ToSet(ichildren'[i]) \cup candidates'[i] \cup ToSet(adjusting'[i]) : Sound(n)'
      BY <1>10, <3>1, <3>2, <3>3
    <3>10. (LET last == Len(ichildren[i])
            IN  /\ last > 1 /\ inew[i] \in Known
                /\ positions[inew[i]] =
                      positions[ichildren[i][last]] \cup positions[ichildren[i][last - 1]])'
      BY <1>5, <1>11, <3>2, <3>6
    <3>11. /\ ik'[i] >= 1 /\ candidates'[i] = {} /\ ipc'[i] = "adjust"
           /\ adjusting'[i] # <<>>
      BY <1>10, <3>1, <3>2
    <3>12. ("adjust" = "idle") = FALSE /\ ("adjust" = "push") = FALSE
      OBVIOUS
    <3> QED BY <3>8, <3>9, <3>10, <3>11, <3>12 DEF InserterInv
  <2> QED BY <2>6, <2>8, <2>9, <2>10
<1>12. CASE ~(~removed[i] /\ len > 1)
  <2>1. /\ ichildren' = [ichildren EXCEPT ![i] = children]
        /\ ipc' = [ipc EXCEPT ![i] = Round(children)]
        /\ UNCHANGED <<nodeNum, positions, inew, adjusting>>
    BY <1>3, <1>4, <1>5, <1>12
  <2>2. Grows /\ TreeInv'
    BY <1>2, <2>1, QuietTree
  <2>3. TypeOK'
    <3>1. ichildren' \in [Inserters -> Seq(Node)]
          /\ ipc' \in [Inserters -> {"idle", "scan", "adjust", "link", "relink", "push"}]
      BY <1>7, <1>9, <2>1 DEF TypeOK
    <3> QED BY <1>2, <1>10, <2>1, <3>1 DEF TypeOK, searchVars
  <2>4. InserterInv(i)'
    <3>1. ichildren'[i] = children /\ ipc'[i] = Round(children) /\ adjusting'[i] = adjusting[i]
      BY <2>1 DEF TypeOK
    <3>2. \A n \in ToSet(children) \cup ToSet(adjusting[i]) : Sound(n)'
      BY <1>7, <1>8, <2>2, SoundKept
    <3>3. Covers(ToSet(children), filter)'
      BY <1>7, <2>1 DEF Covers
    <3>4. Mine(i)' = filter
      BY <1>1, <1>2 DEF Mine
    <3>5. ToSet(children) \cup candidates'[i] = ToSet(children)
      BY <1>10
    <3>6. Covers(ToSet(ichildren[i]) \cup candidates[i], Mine(i))'
      BY <3>1, <3>3, <3>4, <3>5
    <3> QED BY <1>5, <1>9, <1>10, <3>1, <3>2, <3>6 DEF InserterInv
  <2> QED BY <2>2, <2>3, <2>4
<1> QED BY <1>11, <1>12

LEMMA AdjustKept ==
    ASSUME TypeOK, TreeInv, NEW i \in Inserters, InserterInv(i), Adjust(i)
    PROVE  TypeOK' /\ Grows /\ TreeInv' /\ InserterInv(i)'
<1>1. PICK new, left : new = inew[i] /\ left = adjusting[i]
  OBVIOUS
<1>2. PICK c : c = Head(left)
  OBVIOUS
<1>3. PICK above : above = {p \in parents[c] : Satisfies(new, positions[p])}
  OBVIOUS
<1>4. PICK below : below = {p \in parents[c] \ above : Satisfies(p, positions[new])}
  OBVIOUS
<1>5. /\ ipc[i] = "adjust"
      /\ adjusting' = [adjusting EXCEPT ![i] = Tail(left)]
      /\ parents' = [n \in Node |-> IF n = new THEN parents[n] \cup above
                                      ELSE IF n \in below THEN parents[n] \cup {new}
                                      ELSE parents[n]]
      /\ undefined' = (undefined \/ below # {})
      /\ ipc' = [ipc EXCEPT ![i] = IF Len(left) = 1 THEN "link" ELSE "adjust"]
      /\ UNCHANGED <<nodeNum, positions, ptrList, imeta, ichildren, ik, candidates, removed,
                       inew, taken, overlapped, inserted, searchVars, seen>>
  BY <1>1, <1>2, <1>3, <1>4 DEF Adjust, TypeOK
<1>6. /\ left \in Seq(Node) /\ left # <<>> /\ new \in Known /\ new \in Node
      /\ \A n \in ToSet(left) : Sound(n)
  BY <1>1, <1>5, InserterTypes, KnownNodes DEF InserterInv
<1>7. /\ c \in Node /\ c \in ToSet(left) /\ Tail(left) \in Seq(Node)
      /\ Len(Tail(left)) = Len(left) - 1 /\ Len(left) \in Nat \ {0}
      /\ ToSet(Tail(left)) \subseteq ToSet(left)
  <2>1. /\ c \in Node /\ Tail(left) \in Seq(Node) /\ Len(left) \in Nat \ {0}
        /\ Len(Tail(left)) = Len(left) - 1 /\ c = left[1]
        /\ \A k \in 1 .. Len(Tail(left)) : Tail(left)[k] = left[k + 1]
    BY <1>2, <1>6, HeadTailProperties, EmptySeq
  <2>2. c \in ToSet(left)
    <3>1. 1 \in 1 .. Len(left)
      BY <2>1
    <3> QED BY <1>6, <2>1, <3>1, Elements
  <2>3. ASSUME NEW x \in ToSet(Tail(left))
        PROVE  x \in ToSet(left)
    <3>1. PICK k \in 1 .. Len(Tail(left)) : Tail(left)[k] = x
      BY <2>1, Elements
    <3>2. k + 1 \in 1 .. Len(left) /\ left[k + 1] = x
      BY <2>1, <3>1
    <3> QED BY <1>6, <3>2, Elements
  <2> QED BY <2>1, <2>2, <2>3
<1>8. /\ Sound(c) /\ parents \in [Node -> SUBSET Node]
      /\ \A p \in parents[c] : p \in Node /\ Sound(p)
  BY <1>6, <1>7 DEF TreeInv, TypeOK
<1>9. parents' \in [Node -> SUBSET Node]
  BY <1>3, <1>5, <1>6, <1>7, <1>8
<1>10. Grows
  BY <1>5, <1>8 DEF Grows, TypeOK, Node
<1>11. ASSUME NEW n \in Node, NEW p \in parents'[n], p \notin parents[n]
       PROVE  n \in Known' /\ Sound(p)' /\ positions'[n] \subseteq positions'[p]
  <2>1. CASE n = new
    <3>1. p \in above
      BY <1>5, <1>11, <2>1
    <3>2. p \in parents[c] /\ positions[n] \subseteq positions[p]
      BY <1>3, <2>1, <3>1 DEF Satisfies
    <3> QED BY <1>5, <1>6, <1>8, <1>10, <2>1, <3>2, SoundKept DEF Known
  <2>2. CASE n # new
    <3>1. n \in below /\ p = new
      BY <1>5, <1>11, <2>2
    <3>2. Sound(n) /\ positions[n] \subseteq positions[new]
      BY <1>4, <1>8, <3>1 DEF Satisfies
    <3>3. Sound(p)'
      BY <1>5, <1>6, <1>10, <3>1, <3>2, NewParentSound DEF Known
    <3> QED BY <1>5, <3>1, <3>2, <3>3 DEF Known, Sound
  <2> QED BY <2>1, <2>2
<1>12. TreeInv'
  BY <1>5, <1>10, <1>11, TreeKept
<1>13. ipc'[i] = (IF Len(left) = 1 THEN "link" ELSE "adjust") /\ adjusting'[i] = Tail(left)
  BY <1>5 DEF TypeOK
<1>14. TypeOK'
  <2>1. adjusting' \in [Inserters -> Seq(Node)]
        /\ ipc' \in [Inserters -> {"idle", "scan", "adjust", "link", "relink", "push"}]
    BY <1>5, <1>7 DEF TypeOK
  <2>2. undefined' \in BOOLEAN
    <3> DEFINE u == undefined \/ below # {}
    <3>1. u \in BOOLEAN
      OBVIOUS
    <3> QED BY <1>5, <3>1
  <2> QED BY <1>5, <1>9, <2>1, <2>2 DEF TypeOK, searchVars
<1>15. InserterInv(i)'
  <2>1. PICK nodes, filter : nodes = ToSet(ichildren[i]) \cup candidates[i] /\ filter = Mine(i)
    OBVIOUS
  <2>2. \A n \in nodes : Sound(n)'
    BY <1>10, <2>1, SoundKept DEF InserterInv
  <2>3. \A n \in ToSet(Tail(left)) : Sound(n)'
    BY <1>6, <1>7, <1>10, SoundKept
  <2>4. Covers(nodes, filter)'
    BY <1>5, <2>1 DEF InserterInv, Covers
  <2>5. Mine(i)' = filter
    BY <1>5, <2>1 DEF Mine
  <2>6. Covers(ToSet(ichildren[i]) \cup candidates[i], Mine(i))'
    BY <1>5, <2>1, <2>4, <2>5
  <2>7. ipc'[i] = "adjust" => adjusting'[i] # <<>>
    <3>1. ipc'[i] = "adjust" => Len(left) # 1
      BY <1>13
    <3>2. Len(left) # 1 => Len(Tail(left)) # 0
      BY <1>7
    <3>3. Len(<<>>) = 0
      OBVIOUS
    <3> QED BY <1>13, <3>1, <3>2, <3>3
  <2>8. ipc'[i] \in {"adjust", "link"}
    BY <1>13
  <2>9. LET len == Len(ichildren[i])
        IN  /\ len > 1 /\ inew[i] \in Known
            /\ positions[inew[i]] = positions[ichildren[i][len]] \cup positions[ichildren[i][len - 1]]
    BY <1>5 DEF InserterInv
  <2>10. (LET len == Len(ichildren[i])
          IN  /\ len > 1 /\ inew[i] \in Known
              /\ positions[inew[i]] = positions[ichildren[i][len]] \cup positions[ichildren[i][len - 1]])'
    BY <1>5, <2>9 DEF Known
  <2>11. ik'[i] >= 1 /\ candidates'[i] = {}
    BY <1>5 DEF InserterInv
  <2>12. \A n \in ToSet(ichildren'[i]) \cup candidates'[i] \cup ToSet(adjusting'[i]) : Sound(n)'
    BY <1>5, <1>13, <2>1, <2>2, <2>3
  <2> QED BY <2>6, <2>7, <2>8, <2>10, <2>11, <2>12 DEF InserterInv
<1> QED BY <1>10, <1>12, <1>14, <1>15

\* Both sections that link the new node.
LEMMA LinkMakes ==
    ASSUME TypeOK, TreeInv, NEW i \in Inserters, InserterInv(i), ipc[i] \in {"link", "relink"},
           parents' = Link(Child0(i), inew[i]), UNCHANGED <<nodeNum, positions, ptrList>>
    PROVE  /\ parents' \in [Node -> SUBSET Node] /\ Grows /\ TreeInv'
           /\ \A n : n = inew[i] => n \in Node /\ Sound(n)'
<1>1. PICK children, new : children = ichildren[i] /\ new = inew[i]
  OBVIOUS
<1>2. PICK len, a : len = Len(children) /\ a = children[len]
  OBVIOUS
<1>3. parents' = [parents EXCEPT ![a] = @ \cup {new}]
  BY <1>1, <1>2 DEF Link, Child0
<1>4. /\ children \in Seq(Node) /\ len \in Nat /\ len > 1 /\ new \in Known /\ new \in Node
      /\ positions[a] \subseteq positions[new]
      /\ \A n \in ToSet(children) : Sound(n)
  BY <1>1, <1>2, InserterTypes, KnownNodes DEF InserterInv
<1>5. a \in Node /\ Sound(a)
  <2>1. len \in 1 .. len
    BY <1>4
  <2>2. a \in ToSet(children)
    BY <1>2, <1>4, <2>1, Elements
  <2> QED BY <1>4, <2>2, KnownNodes DEF Sound
<1>6. parents' \in [Node -> SUBSET Node]
  BY <1>3, <1>4, <1>5 DEF TypeOK
<1>7. Grows
  BY <1>3, <1>5 DEF Grows, TypeOK, Node
<1>8. new \in parents'[a] /\ \A n \in Node : \A p \in parents'[n] :
          p \in parents[n] \/ (n = a /\ p = new)
  BY <1>3, <1>5 DEF TypeOK
<1>9. /\ a \in Known' /\ new \in Known' /\ positions[a] \subseteq positions'[new]
      /\ positions'[a] \subseteq positions'[new]
  BY <1>4, <1>5 DEF Sound, Known
<1>10. Sound(new)'
  BY <1>5, <1>7, <1>8, <1>9, NewParentSound
<1>11. TreeInv'
  BY <1>7, <1>8, <1>9, <1>10, TreeKept
<1> QED BY <1>1, <1>4, <1>6, <1>7, <1>10, <1>11

LEMMA LinkNewKept ==
    ASSUME TypeOK, TreeInv, NEW i \in Inserters, InserterInv(i), LinkNew(i)
    PROVE  TypeOK' /\ Grows /\ TreeInv' /\ InserterInv(i)'
<1>1. /\ ipc[i] = "link" /\ ipc' = [ipc EXCEPT ![i] = "relink"]
      /\ undefined' = undefined \/ undefined' = TRUE
      /\ UNCHANGED <<nodeNum, positions, ptrList, imeta, ichildren, ik, candidates, removed, inew,
                     adjusting, taken, overlapped, inserted, searchVars, seen>>
  BY DEF LinkNew, loopVars
<1>2. parents' \in [Node -> SUBSET Node] /\ Grows /\ TreeInv'
  BY <1>1, LinkMakes DEF LinkNew
<1>3. TypeOK'
  <2>1. ipc' \in [Inserters -> {"idle", "scan", "adjust", "link", "relink", "push"}]
    BY <1>1 DEF TypeOK
  <2>2. undefined' \in BOOLEAN
    BY <1>1 DEF TypeOK
  <2> QED BY <1>1, <1>2, <2>1, <2>2 DEF TypeOK, searchVars
<1>4. InserterInv(i)'
  <2>1. PICK nodes, filter : nodes = ToSet(ichildren[i]) \cup candidates[i] /\ filter = Mine(i)
    OBVIOUS
  <2>2. ipc'[i] = "relink" /\ ik'[i] >= 1 /\ candidates'[i] = {}
    BY <1>1 DEF TypeOK, InserterInv
  <2>3. \A n \in ToSet(ichildren'[i]) \cup candidates'[i] \cup ToSet(adjusting'[i]) : Sound(n)'
    BY <1>1, <1>2, SoundKept DEF InserterInv
  <2>4. Covers(nodes, filter)'
    BY <1>1, <2>1 DEF InserterInv, Covers
  <2>5. Mine(i)' = filter
    BY <1>1, <2>1 DEF Mine
  <2>6. Covers(ToSet(ichildren[i]) \cup candidates[i], Mine(i))'
    BY <1>1, <2>1, <2>4, <2>5
  <2>7. LET len == Len(ichildren[i])
        IN  /\ len > 1 /\ inew[i] \in Known
            /\ positions[inew[i]] = positions[ichildren[i][len]] \cup positions[ichildren[i][len - 1]]
    BY <1>1 DEF InserterInv
  <2>8. (LET len == Len(ichildren[i])
         IN  /\ len > 1 /\ inew[i] \in Known
             /\ positions[inew[i]] = positions[ichildren[i][len]] \cup positions[ichildren[i][len - 1]])'
    BY <1>1, <2>7 DEF Known
  <2> QED BY <2>2, <2>3, <2>6, <2>8 DEF InserterInv
<1> QED BY <1>2, <1>3, <1>4

LEMMA LinkAgainKept ==
    ASSUME TypeOK, TreeInv, NEW i \in Inserters, InserterInv(i), LinkAgain(i)
    PROVE  TypeOK' /\ Grows /\ TreeInv' /\ InserterInv(i)'
<1>1. PICK children, new, filter : children = ichildren[i] /\ new = inew[i] /\ filter = Mine(i)
  OBVIOUS
<1>2. PICK len, first : len = Len(children) /\ first = SubSeq(children, 1, len - 2)
  OBVIOUS
<1>3. PICK left : left = Append(first, new)
  OBVIOUS
<1>4. /\ ipc[i] = "relink"
      /\ ichildren' = [ichildren EXCEPT ![i] = left]
      /\ inew' = [inew EXCEPT ![i] = NoNode]
      /\ ipc' = [ipc EXCEPT ![i] = Round(left)]
      /\ UNCHANGED <<nodeNum, positions, undefined, ptrList, imeta, ik, candidates, removed,
                       adjusting, taken, overlapped, inserted, searchVars, seen>>
  BY <1>1, <1>2, <1>3 DEF LinkAgain
<1>5. /\ parents' \in [Node -> SUBSET Node] /\ Grows /\ TreeInv' /\ new \in Node /\ Sound(new)'
  BY <1>1, <1>4, LinkMakes DEF LinkAgain
<1>6. /\ children \in Seq(Node) /\ len \in Nat /\ len > 1
      /\ positions[new] = positions[children[len]] \cup positions[children[len - 1]]
      /\ candidates[i] = {} /\ Covers(ToSet(children), filter)
      /\ \A n \in ToSet(children) \cup ToSet(adjusting[i]) : Sound(n)
  <2>1. /\ children \in Seq(Node) /\ len \in Nat /\ len > 1
        /\ positions[new] = positions[children[len]] \cup positions[children[len - 1]]
        /\ candidates[i] = {}
        /\ \A n \in ToSet(children) \cup ToSet(adjusting[i]) : Sound(n)
    BY <1>1, <1>2, <1>4, InserterTypes DEF InserterInv
  <2>2. ToSet(children) \cup candidates[i] = ToSet(children)
    BY <2>1
  <2>3. Covers(ToSet(ichildren[i]) \cup candidates[i], Mine(i))
    BY <1>4 DEF InserterInv
  <2> QED BY <1>1, <2>1, <2>2, <2>3
<1>7. \A x : x \in ToSet(children) <=> \E k \in 1 .. len : children[k] = x
  BY <1>2, <1>6, Elements
<1>8. /\ first \in Seq(Node)
      /\ \A x : x \in ToSet(first) <=> \E k \in 1 .. len - 2 : children[k] = x
  <2>1. \A k \in 1 .. len - 2 : children[k] \in Node
    BY <1>2, <1>6
  <2>2. 1 \in Int /\ len - 2 \in Int
    BY <1>6
  <2>3. /\ first \in Seq(Node) /\ Len(first) = (IF 1 <= len - 2 THEN len - 2 - 1 + 1 ELSE 0)
        /\ \A k \in 1 .. len - 2 - 1 + 1 : first[k] = children[1 + k - 1]
    BY <1>2, <2>1, <2>2, SubSeqProperties
  <2>4. Len(first) = len - 2 /\ \A k \in 1 .. len - 2 : first[k] = children[k]
    BY <1>6, <2>3
  <2> QED BY <2>3, <2>4, Elements
<1>9. left \in Seq(Node) /\ ToSet(left) = ToSet(first) \cup {new}
  BY <1>3, <1>5, <1>8, AppendElements
<1>10. PICK a, b : a = children[len] /\ b = children[len - 1]
  OBVIOUS
<1>11. \A x : x \in ToSet(children) <=> x \in ToSet(first) \cup {a, b}
  <2>1. \A k : k \in 1 .. len <=> k \in 1 .. len - 2 \/ k = len \/ k = len - 1
    BY <1>6
  <2> QED BY <1>7, <1>8, <1>10, <2>1
<1>12. Round(left) \in {"scan", "push"} /\ (Round(left) = "push" => Len(left) <= 1)
  <2>1. Len(left) \in Nat
    BY <1>9
  <2> QED BY <2>1 DEF Round
<1>13. TypeOK'
  <2>1. ichildren' \in [Inserters -> Seq(Node)] /\ inew' \in [Inserters -> Node \cup {NoNode}]
    BY <1>4, <1>9 DEF TypeOK
  <2>2. ipc' \in [Inserters -> {"idle", "scan", "adjust", "link", "relink", "push"}]
    BY <1>4, <1>12 DEF TypeOK
  <2> QED BY <1>4, <1>5, <2>1, <2>2 DEF TypeOK, searchVars
<1>14. InserterInv(i)'
  <2>1. ichildren'[i] = left /\ ipc'[i] = Round(left) /\ candidates'[i] = {} /\ Mine(i)' = filter
        /\ adjusting'[i] = adjusting[i] /\ ik'[i] >= 1
    BY <1>1, <1>4, <1>6 DEF TypeOK, Mine, InserterInv
  <2>2. \A n \in ToSet(left) \cup ToSet(adjusting[i]) : Sound(n)'
    BY <1>5, <1>6, <1>9, <1>11, SoundKept
  <2>3. Covers(ToSet(left), filter)
    BY <1>6, <1>9, <1>10, <1>11 DEF Covers
  <2>4. Covers(ToSet(left), filter)'
    BY <1>4, <2>3 DEF Covers
  <2>5. ToSet(left) \cup candidates'[i] = ToSet(left)
    BY <2>1
  <2>6. Covers(ToSet(ichildren[i]) \cup candidates[i], Mine(i))'
    BY <2>1, <2>4, <2>5
  <2> QED BY <1>12, <2>1, <2>2, <2>6 DEF InserterInv
<1> QED BY <1>5, <1>13, <1>14

\* The node a signature is stored at.
Target(i) == IF ichildren[i] = <<>> THEN Root ELSE ichildren[i][1]

LEMMA PushKept ==
    ASSUME TypeOK, TreeInv, NEW i \in Inserters, InserterInv(i), imeta[i] \in taken, Push(i)
    PROVE  /\ TypeOK' /\ Grows /\ TreeInv' /\ InserterInv(i)'
           /\ Target(i) \in Node /\ positions[Target(i)] = Mine(i)
<1>1. PICK n, m, children : n = Target(i) /\ m = imeta[i] /\ children = ichildren[i]
  OBVIOUS
<1>2. /\ ipc[i] = "push"
      /\ ptrList' = [ptrList EXCEPT ![n] = Append(@, m)]
      /\ inserted' = inserted \cup {m}
      /\ seen' = [s \in Searchers |-> IF s \in searching THEN seen[s] \cup {m} ELSE {}]
      /\ ipc' = [ipc EXCEPT ![i] = "idle"]
      /\ imeta' = [imeta EXCEPT ![i] = NoMeta]
      /\ ichildren' = [ichildren EXCEPT ![i] = <<>>]
      /\ UNCHANGED <<treeVars, ik, candidates, removed, inew, adjusting, taken, overlapped,
                     searchVars>>
  BY <1>1 DEF Push, Target
<1>3. m \in Meta /\ m \in taken
  BY <1>1 DEF TypeOK
<1>4. /\ Covers(ToSet(children), Mine(i)) /\ candidates[i] = {} /\ children \in Seq(Node)
      /\ Len(children) \in Nat /\ Len(children) <= 1
  <2>1. candidates[i] = {} /\ children \in Seq(Node) /\ Len(children) \in Nat /\ Len(children) <= 1
    BY <1>1, <1>2, InserterTypes DEF InserterInv
  <2>2. Covers(ToSet(ichildren[i]) \cup candidates[i], Mine(i))
    BY <1>2 DEF InserterInv
  <2>3. ToSet(ichildren[i]) \cup candidates[i] = ToSet(children)
    BY <1>1, <2>1
  <2> QED BY <2>1, <2>2, <2>3
<1>5. Mine(i) \subseteq Bits
  BY DEF Mine, Zeros
<1>6. n \in Node /\ Sound(n) /\ positions[n] = Mine(i)
  <2>1. CASE children = <<>>
    <3>1. n = Root /\ ToSet(children) = {}
      BY <1>1, <2>1 DEF Target, ToSet
    <3>2. positions[n] = {} /\ n \in Node /\ Sound(n)
      BY <3>1, KnownNodes, RootSound DEF TreeInv
    <3> QED BY <1>4, <1>5, <3>1, <3>2 DEF Covers
  <2>2. CASE children # <<>>
    <3>1. n = children[1] /\ Len(children) = 1
      <4>1. Len(children) # 0
        BY <1>4, <2>2, EmptySeq
      <4>2. n = ichildren[i][1]
        BY <1>1, <2>2 DEF Target
      <4>3. Len(children) = 1
        <5>1. PICK l \in Nat : l = Len(children)
          BY <1>4
        <5>2. l <= 1 /\ l # 0
          BY <1>4, <4>1, <5>1
        <5> QED BY <5>1, <5>2
      <4> QED BY <1>1, <4>2, <4>3
    <3>2. \A x : x \in ToSet(children) <=> x = n
      <4>1. \A k : k \in 1 .. Len(children) <=> k = 1
        BY <3>1
      <4> QED BY <1>4, <3>1, <4>1, Elements
    <3>3. n \in Node /\ Sound(n)
      BY <1>1, <1>4, <3>1, <3>2, InserterTypes DEF InserterInv
    <3>4. positions[n] \subseteq Bits
      BY <3>3 DEF TypeOK
    <3>5. \A x \in Bits : x \in Mine(i) <=> x \in positions[n]
      BY <1>4, <3>2 DEF Covers
    <3> QED BY <1>5, <3>3, <3>4, <3>5
  <2> QED BY <2>1, <2>2
<1>7. Grows
  BY <1>2 DEF Grows, TypeOK, Node, treeVars
<1>8. TreeInv'
  <2>1. \A o \in Node : ptrList'[o] # <<>> => ptrList[o] # <<>> \/ Sound(o)'
    BY <1>2, <1>6, <1>7, SoundKept DEF TypeOK
  <2> QED BY <1>2, <1>7, <2>1, TreeKept DEF treeVars
<1>9. TypeOK'
  <2>1. ptrList' \in [Node -> Seq(Meta)]
    BY <1>2, <1>3, <1>6 DEF TypeOK
  <2>2. /\ ipc' \in [Inserters -> {"idle", "scan", "adjust", "link", "relink", "push"}]
        /\ imeta' \in [Inserters -> Meta \cup {NoMeta}] /\ ichildren' \in [Inserters -> Seq(Node)]
    BY <1>2 DEF TypeOK
  <2>3. seen' \in [Searchers -> SUBSET Meta] /\ inserted' \subseteq taken'
    BY <1>2, <1>3 DEF TypeOK
  <2> QED BY <1>2, <2>1, <2>2, <2>3 DEF TypeOK, treeVars, searchVars
<1>10. InserterInv(i)'
  <2>1. ipc'[i] = "idle" /\ ichildren'[i] = <<>> /\ candidates'[i] = {} /\ ik'[i] >= 1
        /\ adjusting'[i] = adjusting[i]
    BY <1>2, <1>4 DEF TypeOK, InserterInv
  <2>2. \A o \in ToSet(adjusting[i]) : Sound(o)'
    BY <1>7, SoundKept DEF InserterInv
  <2>3. ToSet(<<>>) = {}
    BY DEF ToSet
  <2> QED BY <2>1, <2>2, <2>3 DEF InserterInv
<1> QED BY <1>1, <1>6, <1>7, <1>8, <1>9, <1>10

-----------------------------------------------------------------------------
(* The lists *)

LEMMA StoredStands ==
    ASSUME NEW lists \in [Node -> Seq(Meta)], NEW m
    PROVE  m \in UNION {ToSet(lists[n]) : n \in Node}
             <=> \E n \in Node, j \in Nat : j \in 1 .. Len(lists[n]) /\ lists[n][j] = m
<1>1. m \in UNION {ToSet(lists[n]) : n \in Node} <=> \E n \in Node : m \in ToSet(lists[n])
  OBVIOUS
<1>2. \A n \in Node : m \in ToSet(lists[n]) <=> \E j \in 1 .. Len(lists[n]) : lists[n][j] = m
  BY Elements
<1>3. \A n \in Node : 1 .. Len(lists[n]) \subseteq Nat
  OBVIOUS
<1> QED BY <1>1, <1>2, <1>3

LEMMA StoredIs ==
    ASSUME TypeOK
    PROVE  \A m : m \in Stored <=> \E n \in Node, j \in Nat : StandsAt(n, j, m)
  BY StoredStands DEF TypeOK, Stored, StandsAt

LEMMA StoredAfter ==
    ASSUME TypeOK'
    PROVE  \A m : m \in Stored' <=> \E n \in Node, j \in Nat : StandsAt(n, j, m)'
<1>1. PICK lists \in [Node -> Seq(Meta)] : lists = ptrList'
  BY DEF TypeOK
<1>2. \A m : m \in UNION {ToSet(lists[n]) : n \in Node}
             <=> \E n \in Node, j \in Nat : j \in 1 .. Len(lists[n]) /\ lists[n][j] = m
  BY StoredStands
<1> QED BY <1>1, <1>2 DEF Stored, StandsAt

LEMMA StandsSound ==
    ASSUME TypeOK, TreeInv, NEW n \in Node, NEW j \in Nat, NEW m, StandsAt(n, j, m)
    PROVE  Sound(n) /\ m \in Meta
<1>1. ptrList[n] \in Seq(Meta) /\ j \in 1 .. Len(ptrList[n])
  BY DEF TypeOK, StandsAt
<1>2. ptrList[n] # <<>>
  BY <1>1
<1> QED BY <1>1, <1>2 DEF StandsAt, TreeInv

LEMMA QuietLists ==
    ASSUME TypeOK, TreeInv, Grows, ListInv, UNCHANGED <<ptrList, inserted, removedQuery>>
    PROVE  ListInv'
<1>1. \A n, j, m : StandsAt(n, j, m)' <=> StandsAt(n, j, m)
  BY DEF StandsAt
<1>2. \A n \in Node, j \in Nat : \A m : StandsAt(n, j, m) => positions'[n] = positions[n]
  BY StandsSound, SoundKept
<1> QED BY <1>1, <1>2 DEF ListInv

\* The push_back of an insertion.
LEMMA PushStands ==
    ASSUME TypeOK, NEW i \in Inserters, Target(i) \in Node, imeta[i] \in Meta, Push(i)
    PROVE  \A n \in Node, j \in Nat : \A m :
              StandsAt(n, j, m)' <=>
                 \/ StandsAt(n, j, m)
                 \/ n = Target(i) /\ j = Len(ptrList[n]) + 1 /\ m = imeta[i]
<1> SUFFICES ASSUME NEW n \in Node, NEW j \in Nat, NEW m
             PROVE  StandsAt(n, j, m)' <=>
                       \/ StandsAt(n, j, m)
                       \/ n = Target(i) /\ j = Len(ptrList[n]) + 1 /\ m = imeta[i]
  OBVIOUS
<1>1. PICK t \in Node, x \in Meta, list \in Seq(Meta) : t = Target(i) /\ x = imeta[i] /\ list = ptrList[n]
  BY DEF TypeOK
<1>2. ptrList' = [ptrList EXCEPT ![t] = Append(@, x)]
  BY <1>1 DEF Push, Target
<1>3. CASE n = t
  <2>1. ptrList'[n] = Append(list, x)
    BY <1>1, <1>2, <1>3 DEF TypeOK
  <2>2. /\ Len(Append(list, x)) = Len(list) + 1 /\ Append(list, x)[Len(list) + 1] = x
        /\ \A k \in 1 .. Len(list) : Append(list, x)[k] = list[k]
        /\ Len(list) \in Nat
    OBVIOUS
  <2>3. j \in 1 .. Len(list) + 1 <=> j \in 1 .. Len(list) \/ j = Len(list) + 1
    BY <2>2
  <2> QED BY <1>1, <1>3, <2>1, <2>2, <2>3 DEF StandsAt
<1>4. CASE n # t
  <2>1. ptrList'[n] = list
    BY <1>1, <1>2, <1>4 DEF TypeOK
  <2> QED BY <1>1, <1>4, <2>1 DEF StandsAt
<1> QED BY <1>3, <1>4

LEMMA PushLists ==
    ASSUME TypeOK, TreeInv, TakenInv, ListInv, NEW i \in Inserters, InserterInv(i), Push(i)
    PROVE  ListInv'
<1>1. /\ ipc[i] # "idle" /\ inserted' = inserted \cup {imeta[i]} /\ UNCHANGED <<removedQuery, positions>>
  BY DEF Push, searchVars, treeVars
<1>2. imeta[i] \in taken \ inserted /\ imeta[i] \in Meta
  BY <1>1 DEF TakenInv, TypeOK
<1>3. Target(i) \in Node /\ positions[Target(i)] = Zeros(Data[imeta[i]])
  BY <1>2, PushKept DEF Mine
<1>4. PICK t, x : t = Target(i) /\ x = imeta[i]
  OBVIOUS
<1>5. \A n \in Node, j \in Nat : \A m :
         StandsAt(n, j, m)' <=> StandsAt(n, j, m) \/ (n = t /\ j = Len(ptrList[n]) + 1 /\ m = x)
  BY <1>2, <1>3, <1>4, PushStands
<1>6. \A n \in Node, j \in Nat : ~StandsAt(n, j, x)
  BY <1>2, <1>4 DEF ListInv
<1>7. \A n \in Node, j \in Nat, m \in Meta : StandsAt(n, j, m)' =>
          positions'[n] = Zeros(Data[m]) /\ m \in inserted'
  BY <1>1, <1>3, <1>4, <1>5 DEF ListInv
<1>8. \A n, o \in Node, j, k \in Nat, m \in Meta :
          StandsAt(n, j, m)' /\ StandsAt(o, k, m)' => n = o /\ j = k
  BY <1>5, <1>6 DEF ListInv
<1>9. \A s \in Searchers : \A m \in ToSet(removedQuery'[s]) :
          m \in inserted' /\ \A n \in Node, j \in Nat : ~StandsAt(n, j, m)'
  BY <1>1, <1>2, <1>4, <1>5 DEF ListInv
<1> QED BY <1>7, <1>8, <1>9 DEF ListInv

\* What a search takes.
LEMMA TakeStands ==
    ASSUME TypeOK, NEW s \in Searchers, TakeAll(s)
    PROVE  /\ visiting[s] \in Node
           /\ \A n \in Node : \A j, m :
                 StandsAt(n, j, m)' <=> StandsAt(n, j, m) /\ n # visiting[s]
           /\ removedQuery'[s] \in Seq(Meta)
           /\ ToSet(removedQuery'[s]) = ToSet(removedQuery[s]) \cup ToSet(ptrList[visiting[s]])
           /\ \A r \in Searchers \ {s} : removedQuery'[r] = removedQuery[r]
<1>1. PICK n, list, old : n = visiting[s] /\ list = ptrList[n] /\ old = removedQuery[s]
  OBVIOUS
<1>2. n \in Node /\ list \in Seq(Meta) /\ old \in Seq(Meta)
  BY <1>1 DEF TakeAll, TypeOK
<1>3. /\ ptrList' = [ptrList EXCEPT ![n] = <<>>]
      /\ removedQuery' = [removedQuery EXCEPT ![s] = old \o list]
  BY <1>1 DEF TakeAll, TypeOK
<1>4. \A o \in Node : \A j, m : StandsAt(o, j, m)' <=> StandsAt(o, j, m) /\ o # n
  <2> TAKE o \in Node
  <2> TAKE j, m
  <2>1. CASE o = n
    <3>1. ptrList'[o] = <<>>
      BY <1>2, <1>3, <2>1 DEF TypeOK
    <3> QED BY <2>1, <3>1 DEF StandsAt
  <2>2. CASE o # n
    <3>1. ptrList'[o] = ptrList[o]
      BY <1>3, <2>2 DEF TypeOK
    <3> QED BY <2>2, <3>1 DEF StandsAt
  <2> QED BY <2>1, <2>2
<1>5. /\ old \o list \in Seq(Meta) /\ Len(old \o list) = Len(old) + Len(list)
      /\ \A k \in 1 .. Len(old) + Len(list) : (old \o list)[k] =
            IF k <= Len(old) THEN old[k] ELSE list[k - Len(old)]
  BY <1>2, ConcatProperties
<1>6. ToSet(old \o list) = ToSet(old) \cup ToSet(list)
  <2> DEFINE all == old \o list
  <2>1. Len(old) \in Nat /\ Len(list) \in Nat
    BY <1>2
  <2> HIDE DEF all
  <2>2. ASSUME NEW m \in ToSet(all)
        PROVE  m \in ToSet(old) \cup ToSet(list)
    <3>1. PICK k \in 1 .. Len(old) + Len(list) : all[k] = m
      BY <1>5, Elements DEF all
    <3>2. CASE k <= Len(old)
      BY <1>2, <1>5, <2>1, <3>1, <3>2, Elements DEF all
    <3>3. CASE ~(k <= Len(old))
      <4>1. k - Len(old) \in 1 .. Len(list) /\ list[k - Len(old)] = m
        BY <1>5, <2>1, <3>1, <3>3 DEF all
      <4> QED BY <1>2, <4>1, Elements
    <3> QED BY <3>2, <3>3
  <2>3. ASSUME NEW m \in ToSet(old)
        PROVE  m \in ToSet(all)
    <3>1. PICK k \in 1 .. Len(old) : old[k] = m
      BY <1>2, Elements
    <3>2. k \in 1 .. Len(all) /\ all[k] = m
      BY <1>5, <2>1, <3>1 DEF all
    <3> QED BY <1>5, <3>2, Elements DEF all
  <2>4. ASSUME NEW m \in ToSet(list)
        PROVE  m \in ToSet(all)
    <3>1. PICK k \in 1 .. Len(list) : list[k] = m
      BY <1>2, Elements
    <3>2. k + Len(old) \in 1 .. Len(all) /\ all[k + Len(old)] = m
      BY <1>5, <2>1, <3>1 DEF all
    <3> QED BY <1>5, <3>2, Elements DEF all
  <2> QED BY <2>2, <2>3, <2>4 DEF all
<1>7. removedQuery'[s] = old \o list /\ \A r \in Searchers \ {s} : removedQuery'[r] = removedQuery[r]
  BY <1>3 DEF TypeOK
<1> QED BY <1>1, <1>2, <1>4, <1>5, <1>6, <1>7

-----------------------------------------------------------------------------
(* Searches *)

LEMMA SearcherTypes ==
    ASSUME TypeOK, NEW s \in Searchers
    PROVE  /\ level[s] \subseteq Node /\ nextLevel[s] \subseteq Node /\ squery[s] \subseteq Bits
           /\ visiting[s] \in Node \cup {NoNode} /\ owed[s] \subseteq Meta /\ seen[s] \subseteq Meta
  BY DEF TypeOK

\* A search to which nothing happens is disturbed neither by a tree that grows,
\* nor by lists that lose signatures or get some that it does not owe.
LEMMA SearcherRests ==
    ASSUME TypeOK, TreeInv, Grows, NEW s \in Searchers, SearcherInv(s),
           s \in searching' <=> s \in searching,
           level'[s] = level[s], nextLevel'[s] = nextLevel[s], visiting'[s] = visiting[s],
           squery'[s] = squery[s], owed'[s] = owed[s], inserted \subseteq inserted',
           \A n \in Node, j \in Nat : \A m \in owed[s] : StandsAt(n, j, m)' => StandsAt(n, j, m),
           s \in searching => Stored' \subseteq seen'[s]
    PROVE  SearcherInv(s)'
<1>1. PICK front, fitting : front = Frontier(s) /\ fitting = Zeros(squery[s])
  OBVIOUS
<1>2. front = Frontier(s)' /\ fitting = Zeros(squery[s])'
  BY <1>1 DEF Frontier
<1>3. front \subseteq Known' /\ (visiting'[s] # NoNode => visiting'[s] \in Known')
  BY <1>1, KnownGrows DEF SearcherInv
<1>4. \A n \in front \cup {visiting'[s]} : n # NoNode => positions'[n] \subseteq fitting
  BY <1>1 DEF SearcherInv, Grows
<1>5. /\ visiting'[s] = NoNode /\ level'[s] = {} => nextLevel'[s] = {}
      /\ s \notin searching' => front = {} /\ visiting'[s] = NoNode
      /\ owed'[s] \subseteq inserted'
      /\ \A m \in owed'[s] : Zeros(Data[m]) \subseteq fitting
  BY <1>1 DEF SearcherInv
<1>6. \A m \in owed'[s], n \in Node, j \in Nat : StandsAt(n, j, m)' =>
          n = visiting'[s] \/ Ahead(front, n, fitting)'
  <2> SUFFICES ASSUME NEW m \in owed[s], NEW n \in Node, NEW j \in Nat, StandsAt(n, j, m)',
                      n # visiting[s]
               PROVE  Ahead(front, n, fitting)'
    OBVIOUS
  <2>1. Ahead(front, n, fitting)
    BY <1>1 DEF SearcherInv
  <2> QED BY <2>1, AheadKept
<1>7. Frontier(s)' \subseteq Known'
  BY <1>2, <1>3
<1>8. \A n \in Frontier(s)' \cup {visiting'[s]} : n # NoNode => positions'[n] \subseteq Zeros(squery[s])'
  BY <1>2, <1>4
<1>9. \A m \in owed'[s] : Zeros(Data[m]) \subseteq Zeros(squery[s])'
  BY <1>2, <1>5
<1>10. \A m \in owed'[s], n \in Node, j \in Nat : StandsAt(n, j, m)' =>
          n = visiting'[s] \/ Ahead(Frontier(s), n, Zeros(squery[s]))'
  BY <1>2, <1>6
<1> QED BY <1>2, <1>3, <1>5, <1>7, <1>8, <1>9, <1>10 DEF SearcherInv

\* What a search needs of the signatures that are stored when it begins.
LEMMA BeginsAhead ==
    ASSUME TypeOK, TreeInv, ListInv, NEW n \in Node, NEW j \in Nat, NEW m \in Meta, StandsAt(n, j, m),
           NEW q \in SUBSET Bits, q \subseteq Data[m]
    PROVE  Zeros(Data[m]) \subseteq Zeros(q) /\ Ahead({Root}, n, Zeros(q))
<1>1. Zeros(Data[m]) \subseteq Zeros(q) /\ Zeros(q) \in SUBSET Bits
  BY DEF Zeros
<1>2. positions[n] \subseteq Zeros(q)
  BY <1>1 DEF ListInv
<1>3. Reachable(n)
  BY StandsSound DEF Sound
<1> QED BY <1>1, <1>2, <1>3 DEF Reachable

LEMMA SearchKept ==
    ASSUME TypeOK, TreeInv, ListInv, SearchInv, NEW s \in Searchers, NEW q \in Queries, Search(s, q)
    PROVE  TypeOK' /\ SearcherInv(s)'
<1>1. /\ s \notin searching /\ searching' = searching \cup {s}
      /\ asked' = [asked EXCEPT ![s] = @ + 1]
      /\ squery' = [squery EXCEPT ![s] = q]
      /\ level' = [level EXCEPT ![s] = {Root}]
      /\ owed' = [owed EXCEPT ![s] = {m \in Stored : q \subseteq Data[m]}]
      /\ seen' = [seen EXCEPT ![s] = Stored]
      /\ UNCHANGED <<treeVars, ptrList, insVars, nextLevel, visiting, removedQuery>>
  BY DEF Search
<1>2. q \subseteq Bits /\ Root \in Node /\ Root \in Known
  BY ATreeAssumption, KnownNodes
<1>3. Stored \subseteq Meta /\ Stored \subseteq inserted
  <2>1. \A n \in Node, j \in Nat : \A m : StandsAt(n, j, m) => m \in Meta /\ m \in inserted
    BY StandsSound DEF ListInv
  <2> QED BY <2>1, StoredIs
<1>4. TypeOK'
  <2>1. /\ squery' \in [Searchers -> SUBSET Bits] /\ level' \in [Searchers -> SUBSET Node]
        /\ asked' \in [Searchers -> Nat] /\ searching' \subseteq Searchers
    BY <1>1, <1>2 DEF TypeOK
  <2>2. owed' \in [Searchers -> SUBSET Meta] /\ seen' \in [Searchers -> SUBSET Meta]
    BY <1>1, <1>3 DEF TypeOK
  <2> QED BY <1>1, <2>1, <2>2 DEF TypeOK, treeVars, insVars, loopVars
<1>5. /\ level'[s] = {Root} /\ nextLevel'[s] = {} /\ visiting'[s] = NoNode /\ squery'[s] = q
      /\ owed'[s] = {m \in Stored : q \subseteq Data[m]} /\ seen'[s] = Stored
  BY <1>1 DEF TypeOK, SearchInv, SearcherInv, Frontier
<1>6. Stored' = Stored /\ Known' = Known /\ positions' = positions /\ parents' = parents
      /\ inserted' = inserted /\ ptrList' = ptrList
  BY <1>1 DEF Stored, Known, treeVars, insVars
<1>7. PICK fitting : fitting = Zeros(q)
  OBVIOUS
<1>8. \A m \in owed'[s] : Zeros(Data[m]) \subseteq fitting
  <2> SUFFICES ASSUME NEW m \in Stored, q \subseteq Data[m] PROVE Zeros(Data[m]) \subseteq fitting
    BY <1>5
  <2> QED BY <1>7 DEF Zeros
<1>9. \A m \in owed'[s], n \in Node, j \in Nat : StandsAt(n, j, m)' => Ahead({Root}, n, fitting)'
  <2> SUFFICES ASSUME NEW m \in Stored, q \subseteq Data[m], NEW n \in Node, NEW j \in Nat,
                      StandsAt(n, j, m)
               PROVE  Ahead({Root}, n, fitting)'
    BY <1>5, <1>6 DEF StandsAt
  <2>1. Ahead({Root}, n, fitting)
    BY <1>2, <1>3, <1>7, BeginsAhead
  <2> QED BY <1>6, <2>1 DEF Ahead, Closed
<1>10. Frontier(s)' = {Root} /\ Zeros(squery[s])' = fitting
  BY <1>5, <1>7 DEF Frontier
<1>11. positions'[Root] \subseteq fitting /\ {Root} \subseteq Known'
  BY <1>2, <1>6 DEF TreeInv
<1>12. /\ Frontier(s)' \subseteq Known'
       /\ \A n \in Frontier(s)' \cup {visiting'[s]} :
             n # NoNode => positions'[n] \subseteq Zeros(squery[s])'
  BY <1>5, <1>10, <1>11
<1>13. \A m \in owed'[s], n \in Node, j \in Nat : StandsAt(n, j, m)' =>
          n = visiting'[s] \/ Ahead(Frontier(s), n, Zeros(squery[s]))'
  BY <1>9, <1>10
<1>14. \A m \in owed'[s] : Zeros(Data[m]) \subseteq Zeros(squery[s])'
  BY <1>8, <1>10
<1>15. SearcherInv(s)'
  BY <1>1, <1>3, <1>5, <1>6, <1>12, <1>13, <1>14 DEF SearcherInv
<1> QED BY <1>4, <1>15

\* Collect puts the parents that fit into the place of a node.
LEMMA CollectKept ==
    ASSUME TypeOK, TreeInv, NEW s \in Searchers, SearcherInv(s), Collect(s)
    PROVE  TypeOK' /\ SearcherInv(s)'
<1>1. PICK fitting : fitting = Zeros(squery[s])
  OBVIOUS
<1>2. /\ visiting[s] = NoNode
      /\ UNCHANGED <<treeVars, ptrList, insVars, searching, squery, removedQuery, asked, owed, seen>>
  BY DEF Collect
<1>3. PICK n \in level[s] :
         /\ level' = [level EXCEPT ![s] = @ \ {n}]
         /\ nextLevel' = [nextLevel EXCEPT ![s] = @ \cup {p \in parents[n] : Satisfies(p, fitting)}]
         /\ visiting' = [visiting EXCEPT ![s] = n]
  BY <1>1 DEF Collect
<1>4. PICK next : next = {p \in parents[n] : positions[p] \subseteq fitting}
  OBVIOUS
<1>5. PICK front, after : front = Frontier(s) /\ after = (level[s] \ {n}) \cup nextLevel[s] \cup next
  OBVIOUS
<1>6. n \in Node /\ n \in Known /\ n # NoNode /\ n \in front /\ next \subseteq Node
      /\ positions[n] \subseteq fitting
  <2>1. n \in Node /\ n \in front /\ front \subseteq Known
    BY <1>5, SearcherTypes DEF SearcherInv, Frontier
  <2>2. n # NoNode
    BY <2>1, KnownNodes
  <2> QED BY <1>1, <1>4, <1>5, <2>1, <2>2 DEF TypeOK, SearcherInv
<1>7. /\ level'[s] = level[s] \ {n} /\ nextLevel'[s] = nextLevel[s] \cup next /\ visiting'[s] = n
  BY <1>3, <1>4 DEF TypeOK, Satisfies
<1>8. TypeOK'
  <2>1. /\ level' \in [Searchers -> SUBSET Node] /\ visiting' \in [Searchers -> Node \cup {NoNode}]
    BY <1>3, <1>6 DEF TypeOK
  <2>2. nextLevel' \in [Searchers -> SUBSET Node]
    BY <1>3, <1>4, <1>6 DEF TypeOK, Satisfies
  <2> QED BY <1>2, <2>1, <2>2 DEF TypeOK, treeVars, insVars, loopVars
<1>9. Frontier(s)' = after /\ Zeros(squery[s])' = fitting
  BY <1>1, <1>2, <1>5, <1>7 DEF Frontier
<1>10. Stored' = Stored /\ Known' = Known /\ positions' = positions /\ parents' = parents
       /\ \A o, j, m : StandsAt(o, j, m)' <=> StandsAt(o, j, m)
  BY <1>2 DEF Stored, Known, treeVars, insVars, StandsAt
<1>11. s \in searching
  BY <1>5, <1>6 DEF SearcherInv
<1>12. next \subseteq Known
  BY <1>4, <1>6 DEF TreeInv, Sound
<1>13. front \subseteq Known /\ \A o \in front : positions[o] \subseteq fitting
  BY <1>1, <1>5, KnownNodes DEF SearcherInv
<1>14. after \subseteq Known /\ \A o \in after : positions[o] \subseteq fitting
  BY <1>4, <1>5, <1>12, <1>13 DEF Frontier
<1>15. ASSUME NEW o \in Node, Ahead(front, o, fitting), o # n
       PROVE  Ahead(after, o, fitting)
  <2> SUFFICES ASSUME NEW S \in SUBSET Node, after \subseteq S, Closed(S, fitting)
               PROVE  o \in S
    BY DEF Ahead
  <2>1. PICK S2 : S2 = S \cup {n}
    OBVIOUS
  <2>2. front \subseteq S2 /\ S2 \in SUBSET Node
    BY <1>5, <1>6, <2>1 DEF Frontier
  <2>3. Closed(S2, fitting)
    BY <1>4, <1>5, <2>1 DEF Closed
  <2> QED BY <1>15, <2>1, <2>2, <2>3 DEF Ahead
<1>16. \A m \in owed'[s], o \in Node, j \in Nat : StandsAt(o, j, m)' =>
          o = n \/ Ahead(after, o, fitting)'
  <2> SUFFICES ASSUME NEW m \in owed[s], NEW o \in Node, NEW j \in Nat, StandsAt(o, j, m), o # n
               PROVE  Ahead(after, o, fitting)'
    BY <1>2, <1>10
  <2>1. o # visiting[s]
    BY <1>2, KnownNodes
  <2>2. Ahead(front, o, fitting)
    BY <1>1, <1>5, <2>1 DEF SearcherInv
  <2>3. Ahead(after, o, fitting)
    BY <1>15, <2>2
  <2> QED BY <1>10, <2>3 DEF Ahead, Closed
<1>17. /\ Frontier(s)' \subseteq Known'
       /\ \A o \in Frontier(s)' \cup {visiting'[s]} :
             o # NoNode => positions'[o] \subseteq Zeros(squery[s])'
  BY <1>6, <1>7, <1>9, <1>10, <1>14
<1>18. \A m \in owed'[s], o \in Node, j \in Nat : StandsAt(o, j, m)' =>
          o = visiting'[s] \/ Ahead(Frontier(s), o, Zeros(squery[s]))'
  BY <1>7, <1>9, <1>16
<1>19. \A m \in owed'[s] : Zeros(Data[m]) \subseteq Zeros(squery[s])'
  BY <1>1, <1>2, <1>9 DEF SearcherInv
<1>20. SearcherInv(s)'
  BY <1>2, <1>6, <1>7, <1>10, <1>11, <1>17, <1>18, <1>19 DEF SearcherInv, insVars
<1> QED BY <1>8, <1>20

LEMMA TakeAllKept ==
    ASSUME TypeOK, TreeInv, ListInv, NEW s \in Searchers, SearcherInv(s), TakeAll(s)
    PROVE  TypeOK' /\ Grows /\ TreeInv' /\ ListInv' /\ SearcherInv(s)'
<1>1. PICK n, fitting, front : n = visiting[s] /\ fitting = Zeros(squery[s]) /\ front = Frontier(s)
  OBVIOUS
<1>2. PICK over : over = (level[s] = {})
  OBVIOUS
<1>3. /\ n # NoNode
      /\ ptrList' = [ptrList EXCEPT ![n] = <<>>]
      /\ visiting' = [visiting EXCEPT ![s] = NoNode]
      /\ level' = [level EXCEPT ![s] = IF level[s] = {} THEN nextLevel[s] ELSE level[s]]
      /\ nextLevel' = [nextLevel EXCEPT ![s] = IF level[s] = {} THEN {} ELSE nextLevel[s]]
      /\ UNCHANGED <<treeVars, insVars, searching, squery, asked, owed, seen>>
  BY <1>1 DEF TakeAll, TypeOK
<1>4. /\ n \in Node
      /\ \A o \in Node : \A j, m : StandsAt(o, j, m)' <=> StandsAt(o, j, m) /\ o # n
      /\ removedQuery'[s] \in Seq(Meta)
      /\ ToSet(removedQuery'[s]) = ToSet(removedQuery[s]) \cup ToSet(ptrList[n])
      /\ \A r \in Searchers \ {s} : removedQuery'[r] = removedQuery[r]
  BY <1>1, TakeStands
<1>5. /\ visiting'[s] = NoNode
      /\ level'[s] = IF level[s] = {} THEN nextLevel[s] ELSE level[s]
      /\ nextLevel'[s] = IF level[s] = {} THEN {} ELSE nextLevel[s]
  BY <1>3 DEF TypeOK
<1>6. Frontier(s)' = front
  BY <1>1, <1>5 DEF Frontier
<1>7. TypeOK'
  <2>1. /\ ptrList' \in [Node -> Seq(Meta)] /\ visiting' \in [Searchers -> Node \cup {NoNode}]
    <3>1. <<>> \in Seq(Meta)
      OBVIOUS
    <3>2. ptrList' \in [Node -> Seq(Meta)]
      BY <1>3, <3>1 DEF TypeOK
    <3>3. visiting' \in [Searchers -> Node \cup {NoNode}]
      BY <1>3 DEF TypeOK
    <3> QED BY <3>2, <3>3
  <2>2. level' \in [Searchers -> SUBSET Node] /\ nextLevel' \in [Searchers -> SUBSET Node]
    BY <1>3 DEF TypeOK
  <2>3. removedQuery' \in [Searchers -> Seq(Meta)]
    <3>1. removedQuery' = [removedQuery EXCEPT ![s] = removedQuery[s] \o ptrList[n]]
      BY <1>1 DEF TakeAll, TypeOK
    <3>2. removedQuery[s] \o ptrList[n] \in Seq(Meta)
      BY <1>4 DEF TypeOK
    <3> QED BY <3>1, <3>2 DEF TypeOK
  <2> QED BY <1>3, <2>1, <2>2, <2>3 DEF TypeOK, treeVars, insVars, loopVars
<1>8. Grows
  BY <1>3 DEF Grows, TypeOK, Node, treeVars
<1>9. TreeInv'
  <2>1. \A o \in Node : ptrList'[o] # <<>> => ptrList[o] # <<>> \/ Sound(o)'
    BY <1>3, <1>4 DEF TypeOK
  <2> QED BY <1>3, <1>8, <2>1, TreeKept DEF treeVars
<1>10. positions' = positions /\ inserted' = inserted /\ parents' = parents /\ Known' = Known
  BY <1>3 DEF treeVars, insVars, Known
<1>11. \A m : m \in ToSet(ptrList[n]) <=> \E j \in Nat : StandsAt(n, j, m)
  <2>1. ptrList[n] \in Seq(Meta)
    BY <1>4 DEF TypeOK
  <2>2. \A m : m \in ToSet(ptrList[n]) <=> \E j \in 1 .. Len(ptrList[n]) : ptrList[n][j] = m
    BY <2>1, Elements
  <2>3. 1 .. Len(ptrList[n]) \subseteq Nat
    BY <2>1
  <2> QED BY <2>2, <2>3 DEF StandsAt
<1>12. ListInv'
  <2>1. \A o \in Node, j \in Nat, m \in Meta : StandsAt(o, j, m)' =>
          positions'[o] = Zeros(Data[m]) /\ m \in inserted'
    BY <1>4, <1>10 DEF ListInv
  <2>2. \A o, p \in Node, j, k \in Nat, m \in Meta :
          StandsAt(o, j, m)' /\ StandsAt(p, k, m)' => o = p /\ j = k
    BY <1>4 DEF ListInv
  <2>3. ASSUME NEW r \in Searchers, NEW m \in ToSet(removedQuery'[r])
        PROVE  m \in inserted' /\ \A o \in Node, j \in Nat : ~StandsAt(o, j, m)'
    <3>1. CASE m \in ToSet(removedQuery[r])
      BY <1>4, <1>10, <3>1 DEF ListInv
    <3>2. CASE m \notin ToSet(removedQuery[r])
      <4>1. m \in ToSet(ptrList[n])
        BY <1>4, <2>3, <3>2
      <4>2. PICK j \in Nat : StandsAt(n, j, m)
        BY <1>11, <4>1
      <4>3. m \in Meta
        BY <1>4, <4>2, StandsSound
      <4> QED BY <1>4, <1>10, <4>2, <4>3 DEF ListInv
    <3> QED BY <3>1, <3>2
  <2> QED BY <2>1, <2>2, <2>3 DEF ListInv
<1>13. s \in searching
  BY <1>1, <1>3 DEF SearcherInv
<1>14. Stored' \subseteq Stored
  <2>1. \A m : m \in Stored => \E o \in Node, j \in Nat : StandsAt(o, j, m)
    BY StoredIs
  <2> QED BY <1>4, <1>7, StoredIs, StoredAfter
<1>15. \A m \in owed'[s], o \in Node, j \in Nat : StandsAt(o, j, m)' =>
          o = visiting'[s] \/ Ahead(Frontier(s), o, Zeros(squery[s]))'
  <2> SUFFICES ASSUME NEW m \in owed[s], NEW o \in Node, NEW j \in Nat, StandsAt(o, j, m), o # n
               PROVE  Ahead(Frontier(s), o, Zeros(squery[s]))'
    BY <1>3, <1>4
  <2>1. Ahead(front, o, fitting)
    BY <1>1 DEF SearcherInv
  <2>2. Ahead(front, o, fitting)'
    BY <1>10, <2>1 DEF Ahead, Closed
  <2>3. Zeros(squery[s])' = fitting
    BY <1>1, <1>3
  <2> QED BY <1>6, <2>2, <2>3
<1>16. /\ Frontier(s)' \subseteq Known'
       /\ \A o \in Frontier(s)' \cup {visiting'[s]} :
             o # NoNode => positions'[o] \subseteq Zeros(squery[s])'
  <2>1. Zeros(squery[s])' = fitting
    BY <1>1, <1>3
  <2> QED BY <1>1, <1>5, <1>6, <1>10, <2>1 DEF SearcherInv
<1>17. \A m \in owed'[s] : Zeros(Data[m]) \subseteq Zeros(squery[s])'
  <2>1. Zeros(squery[s])' = fitting
    BY <1>1, <1>3
  <2> QED BY <1>1, <1>3, <2>1 DEF SearcherInv
<1>18. owed'[s] \subseteq inserted' /\ Stored' \subseteq seen'[s]
  BY <1>3, <1>10, <1>13, <1>14 DEF SearcherInv
<1>19. visiting'[s] = NoNode /\ level'[s] = {} => nextLevel'[s] = {}
  BY <1>5
<1>20. SearcherInv(s)'
  BY <1>3, <1>5, <1>13, <1>15, <1>16, <1>17, <1>18, <1>19 DEF SearcherInv
<1> QED BY <1>7, <1>8, <1>9, <1>12, <1>20

LEMMA SearchReturnKept ==
    ASSUME TypeOK, NEW s \in Searchers, SearcherInv(s), SearchReturn(s)
    PROVE  TypeOK' /\ SearcherInv(s)'
<1>1. /\ visiting[s] = NoNode /\ level[s] = {}
      /\ searching' = searching \ {s}
      /\ squery' = [squery EXCEPT ![s] = {}]
      /\ owed' = [owed EXCEPT ![s] = {}]
      /\ seen' = [seen EXCEPT ![s] = {}]
      /\ UNCHANGED <<treeVars, ptrList, insVars, level, nextLevel, visiting, removedQuery, asked>>
  BY DEF SearchReturn
<1>2. TypeOK'
  <2>1. /\ squery' \in [Searchers -> SUBSET Bits] /\ owed' \in [Searchers -> SUBSET Meta]
        /\ seen' \in [Searchers -> SUBSET Meta] /\ searching' \subseteq Searchers
    BY <1>1 DEF TypeOK
  <2> QED BY <1>1, <2>1 DEF TypeOK, treeVars, insVars, loopVars
<1>3. /\ Frontier(s)' = {} /\ visiting'[s] = NoNode /\ nextLevel'[s] = {} /\ owed'[s] = {}
      /\ s \notin searching'
  BY <1>1 DEF SearcherInv, Frontier, TypeOK
<1> QED BY <1>2, <1>3 DEF SearcherInv

-----------------------------------------------------------------------------
(* The invariant *)

LEMMA ATreeInit == Init => ATreeInv
<1> SUFFICES ASSUME Init PROVE ATreeInv
  OBVIOUS
<1>1. Root \in Node /\ MaxNode \in Nat /\ nodeNum = Root
  BY ATreeAssumption DEF Root, Node, Init
<1>2. TypeOK
  <2>1. <<>> \in Seq(Meta) /\ <<>> \in Seq(Node) /\ 0 \in Nat /\ 1 \in Nat
    OBVIOUS
  <2>2. /\ nodeNum \in Node /\ positions \in [Node -> SUBSET Bits] /\ parents \in [Node -> SUBSET Node]
        /\ ptrList \in [Node -> Seq(Meta)] /\ undefined \in BOOLEAN
    BY <1>1, <2>1 DEF Init
  <2>3. /\ ipc \in [Inserters -> {"idle", "scan", "adjust", "link", "relink", "push"}]
        /\ imeta \in [Inserters -> Meta \cup {NoMeta}]
        /\ ichildren \in [Inserters -> Seq(Node)] /\ ik \in [Inserters -> Nat]
        /\ candidates \in [Inserters -> SUBSET Node] /\ removed \in [Inserters -> BOOLEAN]
        /\ inew \in [Inserters -> Node \cup {NoNode}] /\ adjusting \in [Inserters -> Seq(Node)]
    BY <2>1 DEF Init
  <2>4. /\ searching \subseteq Searchers /\ squery \in [Searchers -> SUBSET Bits]
        /\ level \in [Searchers -> SUBSET Node] /\ nextLevel \in [Searchers -> SUBSET Node]
        /\ visiting \in [Searchers -> Node \cup {NoNode}]
        /\ removedQuery \in [Searchers -> Seq(Meta)] /\ asked \in [Searchers -> Nat]
    BY <2>1 DEF Init
  <2>5. /\ taken \subseteq Meta /\ overlapped \in BOOLEAN /\ inserted \subseteq taken
        /\ owed \in [Searchers -> SUBSET Meta] /\ seen \in [Searchers -> SUBSET Meta]
    BY DEF Init
  <2> QED BY <2>2, <2>3, <2>4, <2>5 DEF TypeOK
<1>3. TreeInv
  BY <1>1 DEF Init, TreeInv
<1>4. InsertInv
  <2>1. ToSet(<<>>) = {}
    BY DEF ToSet
  <2> QED BY <2>1 DEF Init, InsertInv, TakenInv, InserterInv
<1>5. ListInv
  <2>1. \A n \in Node : \A j, m : ~StandsAt(n, j, m)
    BY DEF Init, StandsAt
  <2>2. \A s \in Searchers : ToSet(removedQuery[s]) = {}
    BY DEF Init, ToSet
  <2> QED BY <2>1, <2>2 DEF ListInv
<1>6. SearchInv
  BY DEF Init, SearchInv, SearcherInv, Frontier
<1> QED BY <1>2, <1>3, <1>4, <1>5, <1>6 DEF ATreeInv

\* No call takes the signature of another one.
LEMMA TakenNext ==
    ASSUME TypeOK, TakenInv, [Next]_vars
    PROVE  TakenInv'
<1>1. ASSUME NEW i \in Inserters, NEW m \in Meta, Insert2(i, m)
      PROVE  TakenInv'
  <2>1. /\ m \notin taken /\ taken' = taken \cup {m} /\ imeta' = [imeta EXCEPT ![i] = m]
        /\ inserted' = inserted /\ \A j \in Inserters \ {i} : ipc'[j] = ipc[j]
    BY <1>1 DEF Insert2, TypeOK
  <2>2. imeta'[i] = m /\ \A j \in Inserters \ {i} : imeta'[j] = imeta[j]
    BY <2>1 DEF TypeOK
  <2>3. inserted \subseteq taken
    BY DEF TypeOK
  <2> QED BY <2>1, <2>2, <2>3 DEF TakenInv
<1>2. ASSUME NEW i \in Inserters,
             ScanChild(i) \/ Merge(i) \/ Adjust(i) \/ LinkNew(i) \/ LinkAgain(i)
      PROVE  TakenInv'
  <2>1. ipc[i] # "idle" /\ UNCHANGED <<imeta, taken, inserted>>
        /\ \A j \in Inserters \ {i} : ipc'[j] = ipc[j]
    BY <1>2 DEF ScanChild, Merge, Adjust, LinkNew, LinkAgain, TypeOK
  <2> QED BY <2>1 DEF TakenInv
<1>3. ASSUME NEW i \in Inserters, Push(i)
      PROVE  TakenInv'
  <2>1. /\ ipc[i] # "idle" /\ ipc'[i] = "idle" /\ taken' = taken /\ inserted' = inserted \cup {imeta[i]}
        /\ \A j \in Inserters \ {i} : ipc'[j] = ipc[j] /\ imeta'[j] = imeta[j]
    BY <1>3 DEF Push, TypeOK
  <2> QED BY <2>1 DEF TakenInv
<1>4. CASE UNCHANGED insVars
  BY <1>4 DEF TakenInv, insVars
<1>5. ASSUME NEW s \in Searchers, SearcherStep(s) \/ \E q \in Queries : Search(s, q)
      PROVE  UNCHANGED insVars
  BY <1>5 DEF SearcherStep, Search, Collect, TakeAll, SearchReturn
<1>6. Rest \/ UNCHANGED vars => UNCHANGED insVars
  BY DEF Rest, vars
<1> QED BY <1>1, <1>2, <1>3, <1>4, <1>5, <1>6 DEF Next, InserterStep

\* A step of an insertion other than its last is seen by nobody else.
LEMMA QuietInsertion ==
    ASSUME ATreeInv, NEW i \in Inserters, TypeOK', Grows, TreeInv', InserterInv(i)', TakenInv',
           \A j \in Inserters \ {i} : Rests(j),
           UNCHANGED <<ptrList, inserted, searchVars, seen>>
    PROVE  ATreeInv'
<1>1. InsertInv'
  BY InserterRests DEF ATreeInv, InsertInv
<1>2. ListInv'
  BY QuietLists DEF ATreeInv, searchVars
<1>3. \A s \in Searchers : SearcherInv(s)'
  <2> TAKE s \in Searchers
  <2>1. \A n, j, m : StandsAt(n, j, m)' <=> StandsAt(n, j, m)
    BY DEF StandsAt
  <2>2. Stored' = Stored /\ (s \in searching => Stored \subseteq seen[s])
    BY DEF Stored, ATreeInv, SearchInv, SearcherInv
  <2> QED BY <2>1, <2>2, SearcherRests DEF ATreeInv, SearchInv, searchVars
<1> QED BY <1>1, <1>2, <1>3 DEF ATreeInv, SearchInv

\* A step of a search is seen by no insertion.
LEMMA QuietSearch ==
    ASSUME ATreeInv, NEW s \in Searchers, TypeOK', Grows, TreeInv', ListInv', SearcherInv(s)',
           UNCHANGED insVars,
           \A n \in Node : \A j, m : StandsAt(n, j, m)' => StandsAt(n, j, m),
           \A r \in Searchers \ {s} :
              /\ r \in searching' <=> r \in searching
              /\ level'[r] = level[r] /\ nextLevel'[r] = nextLevel[r] /\ visiting'[r] = visiting[r]
              /\ squery'[r] = squery[r] /\ owed'[r] = owed[r] /\ seen'[r] = seen[r]
    PROVE  ATreeInv'
<1>1. InsertInv'
  <2>1. \A i \in Inserters : Rests(i)
    BY DEF Rests, insVars, loopVars
  <2>2. TakenInv'
    BY DEF ATreeInv, InsertInv, TakenInv, insVars
  <2> QED BY <2>1, <2>2, InserterRests DEF ATreeInv, InsertInv
<1>2. Stored' \subseteq Stored
  BY StoredIs, StoredAfter DEF ATreeInv
<1>3. \A r \in Searchers \ {s} : SearcherInv(r)'
  <2> TAKE r \in Searchers \ {s}
  <2>1. r \in searching => Stored \subseteq seen[r]
    BY DEF ATreeInv, SearchInv, SearcherInv
  <2>2. inserted \subseteq inserted'
    BY DEF insVars
  <2> QED BY <1>2, <2>1, <2>2, SearcherRests DEF ATreeInv, SearchInv
<1> QED BY <1>1, <1>3 DEF ATreeInv, SearchInv

\* The last step of an insertion: the others see one more signature.
LEMMA PushSearchers ==
    ASSUME ATreeInv, NEW i \in Inserters, Push(i), TypeOK', Grows,
           Target(i) \in Node, imeta[i] \in Meta \ inserted
    PROVE  /\ \A s \in Searchers : SearcherInv(s)'
           /\ Stored' = Stored \cup {imeta[i]}
<1>1. PICK m : m = imeta[i]
  OBVIOUS
<1>2. /\ inserted' = inserted \cup {m} /\ UNCHANGED searchVars
      /\ seen' = [s \in Searchers |-> IF s \in searching THEN seen[s] \cup {m} ELSE {}]
  BY <1>1 DEF Push
<1>3. \A n \in Node, j \in Nat : \A x :
        StandsAt(n, j, x)' <=>
           \/ StandsAt(n, j, x)
           \/ n = Target(i) /\ j = Len(ptrList[n]) + 1 /\ x = m
  BY <1>1, PushStands DEF ATreeInv
<1>4. Stored' = Stored \cup {m}
  <2>1. \A x : x \in Stored <=> \E n \in Node, j \in Nat : StandsAt(n, j, x)
    BY StoredIs DEF ATreeInv
  <2>2. \A x : x \in Stored' <=> \E n \in Node, j \in Nat : StandsAt(n, j, x)'
    BY StoredAfter
  <2>3. PICK t : t = Target(i) /\ t \in Node
    OBVIOUS
  <2>4. Len(ptrList[t]) + 1 \in Nat
    BY <2>3 DEF ATreeInv, TypeOK
  <2>5. \A x : x \in Stored' <=> x \in Stored \/ x = m
    BY <1>3, <2>1, <2>2, <2>3, <2>4
  <2> QED BY <2>5
<1>5. \A s \in Searchers : SearcherInv(s)'
  <2> TAKE s \in Searchers
  <2>1. SearcherInv(s)
    BY DEF ATreeInv, SearchInv
  <2>2. m \notin owed[s]
    BY <1>1, <2>1 DEF SearcherInv
  <2>3. \A n \in Node, j \in Nat : \A x \in owed[s] : StandsAt(n, j, x)' => StandsAt(n, j, x)
    BY <1>3, <2>2
  <2>4. s \in searching => Stored' \subseteq seen'[s]
    BY <1>2, <1>4, <2>1 DEF SearcherInv
  <2> QED BY <1>2, <2>1, <2>3, <2>4, SearcherRests DEF ATreeInv, searchVars
<1> QED BY <1>1, <1>4, <1>5

LEMMA PushInv ==
    ASSUME ATreeInv, Next, NEW i \in Inserters, Push(i)
    PROVE  ATreeInv' /\ Stored' = Stored \cup {imeta[i]} /\ imeta[i] \in Meta \ inserted
<1>1. InserterInv(i) /\ ipc[i] # "idle"
  BY DEF ATreeInv, InsertInv, Push
<1>2. imeta[i] \in taken \ inserted /\ taken \subseteq Meta
  BY <1>1 DEF ATreeInv, InsertInv, TakenInv, TypeOK
<1>3. TypeOK' /\ Grows /\ TreeInv' /\ InserterInv(i)' /\ Target(i) \in Node
  BY <1>1, <1>2, PushKept DEF ATreeInv
<1>4. ListInv'
  BY <1>1, PushLists DEF ATreeInv, InsertInv
<1>5. TakenInv'
  BY TakenNext DEF ATreeInv, InsertInv
<1>6. \A j \in Inserters \ {i} : InserterInv(j)'
  <2> TAKE j \in Inserters \ {i}
  <2>1. Rests(j)
    BY DEF Rests, Push, ATreeInv, TypeOK
  <2> QED BY <1>3, <2>1, InserterRests DEF ATreeInv, InsertInv
<1>7. (\A s \in Searchers : SearcherInv(s)') /\ Stored' = Stored \cup {imeta[i]}
  BY <1>2, <1>3, PushSearchers
<1> QED BY <1>2, <1>3, <1>4, <1>5, <1>6, <1>7 DEF ATreeInv, InsertInv, SearchInv

\* A turn of a loop of an insertion, or its first section.
LEMMA InsertionNext ==
    ASSUME ATreeInv, Next, NEW i \in Inserters,
           \/ \E m \in Meta : Insert2(i, m)
           \/ ScanChild(i) \/ Merge(i) \/ Adjust(i) \/ LinkNew(i) \/ LinkAgain(i)
    PROVE  ATreeInv' /\ UNCHANGED <<ptrList, inserted, searchVars, seen>>
<1>1. TypeOK /\ TreeInv /\ InserterInv(i) /\ TakenInv
  BY DEF ATreeInv, InsertInv
<1>2. TypeOK' /\ Grows /\ TreeInv' /\ InserterInv(i)'
  BY <1>1, Insert2Kept, ScanChildKept, MergeKept, AdjustKept, LinkNewKept,
     LinkAgainKept
<1>3. TakenInv'
  BY <1>1, TakenNext
<1>4. UNCHANGED <<ptrList, inserted, searchVars, seen>>
  BY DEF Insert2, ScanChild, Merge, Adjust, LinkNew, LinkAgain
<1>5. \A j \in Inserters \ {i} : Rests(j)
  <2> TAKE j \in Inserters \ {i}
  <2>1. CASE \E m \in Meta : Insert2(i, m)
    BY <1>1, <2>1 DEF Insert2, Rests, TypeOK
  <2>2. CASE ScanChild(i)
    BY <1>1, <2>2 DEF ScanChild, Rests, TypeOK
  <2>3. CASE Merge(i)
    BY <1>1, <2>3 DEF Merge, Rests, TypeOK
  <2>4. CASE Adjust(i)
    BY <1>1, <2>4 DEF Adjust, Rests, TypeOK
  <2>5. CASE LinkNew(i)
    BY <1>1, <2>5 DEF LinkNew, loopVars, Rests, TypeOK
  <2>6. CASE LinkAgain(i)
    BY <1>1, <2>6 DEF LinkAgain, Rests, TypeOK
  <2> QED BY <2>1, <2>2, <2>3, <2>4, <2>5, <2>6
<1> QED BY <1>2, <1>3, <1>4, <1>5, QuietInsertion

\* A step of a search.
LEMMA SearchNext ==
    ASSUME ATreeInv, NEW s \in Searchers, SearcherStep(s) \/ \E q \in Queries : Search(s, q)
    PROVE  ATreeInv'
<1>1. TypeOK /\ TreeInv /\ ListInv /\ SearchInv /\ SearcherInv(s)
  BY DEF ATreeInv, SearchInv
<1>2. TypeOK' /\ Grows /\ TreeInv' /\ ListInv' /\ SearcherInv(s)'
  <2>1. CASE TakeAll(s)
    BY <1>1, <2>1, TakeAllKept
  <2>2. CASE Collect(s) \/ SearchReturn(s) \/ \E q \in Queries : Search(s, q)
    <3>1. TypeOK' /\ SearcherInv(s)'
      BY <1>1, <2>2, CollectKept, SearchReturnKept, SearchKept
    <3>2. UNCHANGED <<treeVars, ptrList, insVars, removedQuery>>
      BY <2>2 DEF Collect, SearchReturn, Search
    <3>3. Grows /\ TreeInv'
      BY <1>1, <3>2, QuietTree DEF treeVars
    <3>4. ListInv'
      BY <1>1, <3>2, <3>3, QuietLists DEF insVars
    <3> QED BY <3>1, <3>3, <3>4
  <2> QED BY <2>1, <2>2 DEF SearcherStep
<1>3. UNCHANGED insVars
  BY DEF SearcherStep, Search, Collect, TakeAll, SearchReturn
<1>4. \A n \in Node : \A j, m : StandsAt(n, j, m)' => StandsAt(n, j, m)
  <2>1. CASE TakeAll(s)
    BY <1>1, <2>1, TakeStands
  <2>2. CASE UNCHANGED ptrList
    BY <2>2 DEF StandsAt
  <2> QED BY <2>1, <2>2 DEF SearcherStep, Search, Collect, SearchReturn
<1>5. \A r \in Searchers \ {s} :
         /\ r \in searching' <=> r \in searching
         /\ level'[r] = level[r] /\ nextLevel'[r] = nextLevel[r] /\ visiting'[r] = visiting[r]
         /\ squery'[r] = squery[r] /\ owed'[r] = owed[r] /\ seen'[r] = seen[r]
  <2> TAKE r \in Searchers \ {s}
  <2>1. CASE \E q \in Queries : Search(s, q)
    BY <1>1, <2>1 DEF Search, TypeOK
  <2>2. CASE Collect(s)
    BY <1>1, <2>2 DEF Collect, TypeOK
  <2>3. CASE TakeAll(s)
    BY <1>1, <2>3 DEF TakeAll, TypeOK
  <2>4. CASE SearchReturn(s)
    BY <1>1, <2>4 DEF SearchReturn, TypeOK
  <2> QED BY <2>1, <2>2, <2>3, <2>4 DEF SearcherStep
<1> QED BY <1>2, <1>3, <1>4, <1>5, QuietSearch

LEMMA IdleNext ==
    ASSUME ATreeInv, UNCHANGED vars
    PROVE  ATreeInv'
<1>1. UNCHANGED <<treeVars, ptrList, insVars, searchVars, seen>>
  BY DEF vars
<1>2. TypeOK'
  BY <1>1 DEF ATreeInv, TypeOK, treeVars, insVars, loopVars, searchVars
<1>3. TypeOK /\ TreeInv /\ ListInv /\ InsertInv /\ SearchInv
  BY DEF ATreeInv
<1>4. Grows /\ TreeInv'
  BY <1>1, <1>3, QuietTree DEF treeVars
<1>5. ListInv'
  BY <1>1, <1>3, <1>4, QuietLists DEF insVars, searchVars
<1>6. InsertInv'
  <2>1. TakenInv'
    BY <1>1, <1>3 DEF InsertInv, TakenInv, insVars
  <2>2. \A i \in Inserters : Rests(i)
    BY <1>1 DEF Rests, insVars, loopVars
  <2> QED BY <1>3, <1>4, <2>1, <2>2, InserterRests DEF InsertInv
<1>7. SearchInv'
  <2>1. Stored' = Stored
    BY <1>1 DEF Stored
  <2>2. \A n, j, m : StandsAt(n, j, m)' <=> StandsAt(n, j, m)
    BY <1>1 DEF StandsAt
  <2>3. ASSUME NEW s \in Searchers PROVE SearcherInv(s)'
    <3>1. SearcherInv(s)
      BY <1>3 DEF SearchInv
    <3>2. s \in searching => Stored' \subseteq seen'[s]
      BY <1>1, <2>1, <3>1 DEF SearcherInv
    <3> QED BY <1>1, <1>3, <1>4, <2>2, <3>1, <3>2, SearcherRests DEF searchVars, insVars
  <2> QED BY <2>3 DEF SearchInv
<1> QED BY <1>2, <1>4, <1>5, <1>6, <1>7 DEF ATreeInv

LEMMA ATreeNext == ATreeInv /\ [Next]_vars => ATreeInv'
<1> SUFFICES ASSUME ATreeInv, [Next]_vars PROVE ATreeInv'
  OBVIOUS
<1>1. ASSUME Next, NEW i \in Inserters, InserterStep(i) \/ \E m \in Meta : Insert2(i, m)
      PROVE  ATreeInv'
  BY <1>1, InsertionNext, PushInv DEF InserterStep
<1>2. ASSUME NEW s \in Searchers, SearcherStep(s) \/ \E q \in Queries : Search(s, q)
      PROVE  ATreeInv'
  BY <1>2, SearchNext
<1>3. Rest \/ UNCHANGED vars => ATreeInv'
  BY IdleNext DEF Rest
<1> QED BY <1>1, <1>2, <1>3 DEF Next

\* No step of any thread breaks the invariant, as long as no map or vector is changed
\* in use (undefined): the steps are the sections of one lock each, and of
\* those only the second insert of a new node changes what another lock guards.
THEOREM ATreeInvariant == Spec => []ATreeInv
<1> QED BY ATreeInit, ATreeNext, PTL DEF Spec

\* Every variable keeps its type: Insert2, Adjust and Search hold nothing but nodes
\* that were made, whatever other threads have linked in between.
THEOREM TypeCorrect == Spec => []TypeOK
<1>1. ATreeInv => TypeOK
  BY DEF ATreeInv
<1> QED BY <1>1, ATreeInvariant, PTL

\* Whatever nodes racing insertions link or make twice, until a map or vector is
\* changed in use (undefined; SafeUnlessOverlappedHolds says when it is not): the
\* children that an insertion works on stand together for the zeros of its
\* signature, and what is stored stands at a node for exactly its zeros.
THEOREM StoredAtExactNodeHolds == Spec => []StoredAtExactNode
<1>1. ASSUME ATreeInv PROVE StoredAtExactNode
  <2>1. TypeOK /\ TreeInv /\ InsertInv /\ ListInv
    BY <1>1 DEF ATreeInv
  <2>2. ASSUME NEW i \in Inserters, ipc[i] # "idle"
        PROVE  Covered(ichildren[i]) \cup UNION {positions[c] : c \in candidates[i]} = Mine(i)
    <3>1. /\ ichildren[i] \in Seq(Node) /\ ToSet(ichildren[i]) \subseteq Node
          /\ candidates[i] \subseteq Node
      BY <2>1, InserterTypes
    <3>2. Covers(ToSet(ichildren[i]) \cup candidates[i], Mine(i))
      BY <2>1, <2>2 DEF InsertInv, InserterInv
    <3>3. \A c \in ToSet(ichildren[i]) \cup candidates[i] : positions[c] \subseteq Bits
      BY <2>1, <3>1 DEF TypeOK
    <3>4. \A x : x \in Covered(ichildren[i]) <=> \E c \in ToSet(ichildren[i]) : x \in positions[c]
      BY <3>1, Elements DEF Covered
    <3>5. Mine(i) \subseteq Bits
      BY DEF Mine, Zeros
    <3> QED BY <3>2, <3>3, <3>4, <3>5 DEF Covers
  <2>3. ASSUME NEW n \in Node, NEW m \in ToSet(ptrList[n])
        PROVE  positions[n] = Zeros(Data[m])
    <3>1. ptrList[n] \in Seq(Meta)
      BY <2>1 DEF TypeOK
    <3>2. PICK j \in 1 .. Len(ptrList[n]) : ptrList[n][j] = m
      BY <3>1, Elements
    <3>3. j \in Nat /\ m \in Meta
      BY <3>1, <3>2
    <3>4. StandsAt(n, j, m)
      BY <3>2 DEF StandsAt
    <3> QED BY <2>1, <3>3, <3>4 DEF ListInv
  <2> QED BY <2>2, <2>3 DEF StoredAtExactNode
<1> QED BY <1>1, ATreeInvariant, PTL

-----------------------------------------------------------------------------
(* The refinement *)

LEMMA PromiseInit == ASSUME ATreeInv, Init PROVE Promise!Init
<1>1. \A n \in Node : ToSet(ptrList[n]) = {}
  BY DEF Init, ToSet
<1>2. Stored = {}
  BY <1>1 DEF Stored
<1> QED BY <1>2 DEF Init, Promise!Init

LEMMA PushPromise ==
    ASSUME ATreeInv, Next, NEW i \in Inserters, Push(i)
    PROVE  Promise!Next
<1>1. imeta[i] \in Meta \ inserted /\ Stored' = Stored \cup {imeta[i]}
  BY PushInv
<1>2. Promise!Insert(imeta[i])
  BY <1>1 DEF Push, searchVars, Promise!Insert
<1> QED BY <1>1, <1>2 DEF Promise!Next

LEMMA SearchPromise ==
    ASSUME ATreeInv, NEW s \in Searchers, NEW q \in Queries, Search(s, q)
    PROVE  Promise!Next
<1>1. Stored' = Stored
  BY DEF Search, Stored
<1>2. Promise!Begin(s, q)
  BY <1>1 DEF Search, insVars, Promise!Begin
<1> QED BY <1>2 DEF Promise!Next

\* A search that comes to its end has met everything that it owes.
LEMMA SearchReturnPromise ==
    ASSUME ATreeInv, NEW s \in Searchers, SearchReturn(s)
    PROVE  Promise!Next
<1>1. /\ s \in searching /\ visiting[s] = NoNode /\ level[s] = {}
      /\ UNCHANGED <<ptrList, inserted, removedQuery>>
  BY DEF SearchReturn, insVars
<1>2. SearcherInv(s) /\ TypeOK /\ NoNode \notin Node
  BY KnownNodes DEF ATreeInv, SearchInv
<1>3. Frontier(s) = {}
  BY <1>1, <1>2 DEF SearcherInv, Frontier
<1>4. \A n \in Node : ~Ahead(Frontier(s), n, Zeros(squery[s]))
  <2>1. Closed({}, Zeros(squery[s]))
    BY DEF Closed
  <2> QED BY <1>3, <2>1 DEF Ahead
<1>5. \A m \in owed[s], n \in Node, j \in Nat : ~StandsAt(n, j, m)
  BY <1>1, <1>2, <1>4 DEF SearcherInv
<1>6. owed[s] \cap Stored = {}
  BY <1>2, <1>5, StoredIs
<1>7. Stored' = Stored
  BY <1>1 DEF Stored
<1>8. Promise!End(s)
  BY <1>1, <1>6, <1>7 DEF SearchReturn, Promise!End
<1> QED BY <1>8 DEF Promise!Next

\* What a search takes from a node goes to it for the first and only time.
LEMMA TakeAllPromise ==
    ASSUME ATreeInv, NEW s \in Searchers, TakeAll(s)
    PROVE  [Promise!Next]_(Promise!vars)
<1>1. PICK n, batch : n = visiting[s] /\ batch = ptrList[n]
  OBVIOUS
<1>2. /\ removedQuery' = [removedQuery EXCEPT ![s] = removedQuery[s] \o batch]
      /\ UNCHANGED <<inserted, searching, squery, owed, seen>>
  BY <1>1 DEF TakeAll, insVars
<1>3. TypeOK /\ TreeInv /\ ListInv /\ SearchInv /\ SearcherInv(s)
  BY DEF ATreeInv, SearchInv
<1>4. /\ n \in Node /\ n # NoNode
      /\ \A o \in Node : \A j, m : StandsAt(o, j, m)' <=> StandsAt(o, j, m) /\ o # n
  BY <1>1, <1>3, TakeStands DEF TakeAll
<1>5. batch \in Seq(Meta) /\ removedQuery \in [Searchers -> Seq(Meta)]
  BY <1>1, <1>3, <1>4 DEF TypeOK
<1>6. \A j, m : StandsAt(n, j, m) <=> j \in 1 .. Len(batch) /\ batch[j] = m
  BY <1>1 DEF StandsAt
<1>7. TypeOK'
  BY <1>3, TakeAllKept
<1>8. \A m : m \in ToSet(batch) <=> m \in Meta /\ \E j \in Nat : StandsAt(n, j, m)
  <2>1. \A j \in 1 .. Len(batch) : batch[j] \in Meta /\ j \in Nat
    BY <1>5
  <2> QED BY <1>5, <1>6, <2>1, Elements
<1>9. Stored' = Stored \ ToSet(batch)
  <2>1. \A m : m \in Stored <=> \E o \in Node, j \in Nat : StandsAt(o, j, m)
    BY <1>3, StoredIs
  <2>2. \A m : m \in Stored' <=> \E o \in Node, j \in Nat : StandsAt(o, j, m) /\ o # n
    BY <1>4, <1>7, StoredAfter
  <2>3. \A m : m \in Stored => m \in Meta
    BY <1>3, <2>1, StandsSound
  <2>4. \A o \in Node, j, k \in Nat, m \in Meta : StandsAt(o, j, m) /\ StandsAt(n, k, m) => o = n
    BY <1>3, <1>4 DEF ListInv
  <2>5. \A m : m \in Stored' <=> m \in Stored /\ m \notin ToSet(batch)
    BY <1>4, <1>8, <2>1, <2>2, <2>3, <2>4
  <2> QED BY <2>5
<1>10. CASE batch = <<>>
  <2>1. removedQuery' = removedQuery
    <3>1. removedQuery[s] \o <<>> = removedQuery[s]
      BY <1>5, ConcatEmptySeq
    <3> QED BY <1>2, <1>5, <1>10, <3>1
  <2>2. Stored' = Stored
    <3>1. ToSet(batch) = {}
      BY <1>10 DEF ToSet
    <3> QED BY <1>9, <3>1
  <2> QED BY <1>2, <2>1, <2>2 DEF Promise!vars
<1>11. CASE batch # <<>>
  <2>1. Promise!Added(s) = batch
    <3>1. removedQuery'[s] = removedQuery[s] \o batch
      BY <1>2, <1>5
    <3>2. SubSeq(removedQuery[s] \o batch, Len(removedQuery[s]) + 1, Len(removedQuery[s] \o batch)) = batch
      BY <1>5, ConcatSuffix
    <3> QED BY <3>1, <3>2 DEF Promise!Added
  <2>2. \A u \in Seq(Meta) : Promise!ToSet(u) = ToSet(u)
    BY DEF Promise!ToSet, ToSet
  <2>3. Promise!IsInjective(batch)
    <3>1. ASSUME NEW j \in 1 .. Len(batch), NEW k \in 1 .. Len(batch), batch[j] = batch[k]
          PROVE  j = k
      <4>1. j \in Nat /\ k \in Nat /\ batch[j] \in Meta
        BY <1>5
      <4>2. StandsAt(n, j, batch[j]) /\ StandsAt(n, k, batch[j])
        BY <1>6, <3>1
      <4> QED BY <1>3, <1>4, <4>1, <4>2 DEF ListInv
    <3>2. DOMAIN batch = 1 .. Len(batch)
      BY <1>5
    <3> QED BY <3>1, <3>2 DEF Promise!IsInjective
  <2>4. ASSUME NEW m \in ToSet(batch)
        PROVE  /\ m \in seen[s] /\ squery[s] \subseteq Data[m]
               /\ \A t \in Searchers : m \notin ToSet(removedQuery[t])
    <3>1. m \in Meta /\ \E j \in Nat : StandsAt(n, j, m)
      BY <1>8
    <3>2. m \in Stored
      BY <1>3, <1>4, <3>1, StoredIs
    <3>3. s \in searching
      BY <1>1, <1>3, <1>4 DEF SearcherInv
    <3>4. positions[n] \subseteq Zeros(squery[s]) /\ positions[n] = Zeros(Data[m])
      BY <1>1, <1>3, <1>4, <3>1 DEF SearcherInv, ListInv
    <3>5. squery[s] \subseteq Data[m]
      BY <1>3, <3>4 DEF Zeros, TypeOK
    <3> QED BY <1>3, <1>4, <3>1, <3>2, <3>3, <3>5 DEF SearcherInv, ListInv
  <2>5. s \in searching
    BY <1>1, <1>3, <1>4 DEF SearcherInv
  <2>6. Promise!Report(s)
    BY <1>2, <1>5, <1>9, <1>11, <2>1, <2>2, <2>3, <2>4, <2>5 DEF Promise!Report
  <2> QED BY <2>6 DEF Promise!Next
<1> QED BY <1>10, <1>11

LEMMA PromiseNext == ASSUME ATreeInv, [Next]_vars PROVE [Promise!Next]_(Promise!vars)
<1>1. ASSUME Next, NEW i \in Inserters, InserterStep(i) \/ \E m \in Meta : Insert2(i, m)
      PROVE  [Promise!Next]_(Promise!vars)
  <2>1. CASE Push(i)
    BY <1>1, <2>1, PushPromise
  <2>2. CASE ~Push(i)
    <3>1. UNCHANGED <<ptrList, inserted, searchVars, seen>>
      BY <1>1, <2>2, InsertionNext DEF InserterStep
    <3>2. Stored' = Stored
      BY <3>1 DEF Stored
    <3> QED BY <3>1, <3>2 DEF searchVars, Promise!vars
  <2> QED BY <2>1, <2>2
<1>2. ASSUME NEW s \in Searchers, SearcherStep(s) \/ \E q \in Queries : Search(s, q)
      PROVE  [Promise!Next]_(Promise!vars)
  <2>1. CASE Collect(s)
    <3>1. UNCHANGED <<ptrList, inserted, searching, squery, removedQuery, owed, seen>>
      BY <2>1 DEF Collect, insVars
    <3>2. Stored' = Stored
      BY <3>1 DEF Stored
    <3> QED BY <3>1, <3>2 DEF Promise!vars
  <2> QED BY <1>2, <2>1, SearchPromise, TakeAllPromise, SearchReturnPromise DEF SearcherStep
<1>3. ASSUME UNCHANGED vars
      PROVE  UNCHANGED Promise!vars
  <2>1. UNCHANGED <<ptrList, inserted, searching, squery, removedQuery, owed, seen>>
    BY <1>3 DEF vars, insVars, searchVars
  <2>2. Stored' = Stored
    BY <2>1 DEF Stored
  <2> QED BY <2>1, <2>2 DEF Promise!vars
<1> QED BY <1>1, <1>2, <1>3 DEF Next, Rest

\* Until a map or vector is changed in use (undefined), any number of inserting
\* and searching threads implement SignatureIndex with the A-Tree, and as long as
\* no two insertions overlap, always (with SafeUnlessOverlappedHolds).  The
\* second child of a new node is never told of it (line 284), but its first child
\* is, a node is never unlinked, and one chain of parents is enough for a search to
\* come to it.
THEOREM ATreeKeepsPromise == Spec => KeepsPromise
<1>1. ATreeInv /\ Init => Promise!Init
  BY PromiseInit
<1>2. ATreeInv /\ [Next]_vars => [Promise!Next]_(Promise!vars)
  BY PromiseNext
<1> QED BY <1>1, <1>2, ATreeInit, ATreeInvariant, PTL DEF Spec, KeepsPromise, Promise!Spec

-----------------------------------------------------------------------------
(* Insertions one after the other *)

\* No parent of the node is within the filter.
NoFit(n, filter) == \A p \in parents[n] : ~(positions[p] \subseteq filter)

\* What the scan has established of the children behind it, when no child was
\* replaced, and what Adjust relies on.
ScannedInv(i) ==
    /\ \A n \in ToSet(ichildren[i]) \cup candidates[i] : positions[n] # {}
    /\ ipc[i] # "scan" => ik[i] = 1
    /\ ipc[i] = "scan" /\ ~removed[i] =>
          /\ candidates[i] = {}
          /\ \A k \in 1 .. Len(ichildren[i]) : k < ik[i] => NoFit(ichildren[i][k], Mine(i))
    /\ ipc[i] = "adjust" =>
          /\ inew[i] \notin ToSet(adjusting[i])
          /\ \A c \in ToSet(adjusting[i]) : NoFit(c, Mine(i))

ParentsStand == \A n \in Node : \A p \in parents[n] : positions[p] # {}

AloneInv ==
    /\ ~undefined
    /\ ParentsStand
    /\ \A i \in Inserters : ScannedInv(i)
    /\ \A i, j \in Inserters : ipc[i] # "idle" /\ ipc[j] # "idle" => i = j

\* If any parent fits there is a best one.
LEMMA BestExists ==
    ASSUME TypeOK, NEW n \in Node, NEW filter, NEW q \in parents[n],
           positions[q] # {}, positions[q] \subseteq filter
    PROVE  BestParent(n, filter) # {}
<1> DEFINE fitting == {p \in parents[n] : positions[p] # {} /\ Satisfies(p, filter)}
           size(p) == Cardinality(positions[p])
<1>1. q \in fitting /\ fitting \subseteq Node /\ Node \subseteq Nat
  <2>1. Node \subseteq Nat
    BY ATreeAssumption DEF Node
  <2>2. parents[n] \subseteq Node
    BY DEF TypeOK
  <2>3. q \in fitting
    BY DEF Satisfies
  <2> QED BY <2>1, <2>2, <2>3
<1> HIDE DEF fitting
<1>2. BloomSize \in Nat /\ \A p \in fitting : size(p) \in Nat /\ size(p) <= BloomSize
  <2>1. BloomSize \in Nat /\ IsFiniteSet(Bits) /\ Cardinality(Bits) = BloomSize
    <3>1. BloomSize \in Nat /\ 0 \in Int /\ BloomSize - 1 \in Int
      BY ATreeAssumption
    <3>2. IsFiniteSet(0 .. BloomSize - 1)
          /\ Cardinality(0 .. BloomSize - 1) = IF 0 > BloomSize - 1 THEN 0 ELSE BloomSize - 1 - 0 + 1
      BY <3>1, FS_Interval
    <3> QED BY <3>1, <3>2 DEF Bits
  <2>2. ASSUME NEW p \in fitting
        PROVE  size(p) \in Nat /\ size(p) <= BloomSize
    <3>1. positions[p] \in SUBSET Bits
      BY <1>1 DEF TypeOK
    <3>2. IsFiniteSet(positions[p]) /\ Cardinality(positions[p]) <= Cardinality(Bits)
      BY <2>1, <3>1, FS_Subset
    <3> QED BY <2>1, <3>2, FS_CardinalityType
  <2> QED BY <2>1, <2>2
<1> HIDE DEF size
<1>3. PICK big \in fitting : \A p \in fitting : size(p) <= size(big)
  <2> DEFINE gaps == {BloomSize - size(p) : p \in fitting}
  <2>1. gaps \subseteq Nat /\ gaps # {}
    BY <1>1, <1>2
  <2>2. PICK g \in gaps : \A h \in gaps : g <= h
    <3> HIDE DEF gaps
    <3> QED BY <2>1, NatMin
  <2>3. PICK p \in fitting : g = BloomSize - size(p)
    BY <2>2
  <2>4. \A o \in fitting : BloomSize - size(p) <= BloomSize - size(o)
    BY <2>2, <2>3
  <2> QED BY <1>2, <2>3, <2>4
<1>4. PICK best \in fitting :
         size(best) = size(big) /\ \A p \in fitting : size(p) = size(big) => best <= p
  <2> DEFINE T == {p \in fitting : size(p) = size(big)}
  <2>1. T \subseteq Nat /\ T # {}
    BY <1>1
  <2>2. PICK b \in T : \A p \in T : b <= p
    <3> HIDE DEF T
    <3> QED BY <2>1, NatMin
  <2> QED BY <2>2
<1>5. \A p \in fitting \ {best} :
         size(best) > size(p) \/ (~(size(p) > size(best)) /\ best < p)
  <2> TAKE p \in fitting \ {best}
  <2>1. size(p) \in Nat /\ size(big) \in Nat /\ p \in Nat /\ best \in Nat /\ size(p) <= size(big)
    BY <1>1, <1>2, <1>3
  <2>2. size(p) = size(big) => best <= p
    BY <1>4
  <2> QED BY <1>4, <2>1, <2>2
<1>6. best \in BestParent(n, filter)
  BY <1>4, <1>5 DEF BestParent, fitting, size
<1> QED BY <1>6

\* Without candidates the second loop leaves the children alone.
LEMMA MergedNone ==
    ASSUME NEW children \in Seq(Node), NEW order \in SetToSeqs({})
    PROVE  Merged(children, order) = children
<1> DEFINE Body(f) == [k \in 0 .. 0 |-> IF k = 0 THEN children ELSE Merge1(f[k - 1], order[k])]
           c == CHOOSE f : f = Body(f)
<1>1. Len(order) = 0
  <2>1. Cardinality({}) = 0
    BY FS_EmptySet
  <2>2. order \in [1 .. 0 -> {}]
    BY <2>1 DEF SetToSeqs
  <2> QED BY <2>2
<1>2. Merged(children, order) = c[0]
  BY <1>1 DEF Merged
<1>3. [k \in 0 .. 0 |-> children] = Body([k \in 0 .. 0 |-> children])
  OBVIOUS
<1>4. c = Body(c)
  <2> HIDE DEF Body
  <2> QED BY <1>3
<1> HIDE DEF c
<1>5. c[0] = children
  BY <1>4
<1> QED BY <1>2, <1>5

LEMMA AloneInit == ASSUME Init PROVE AloneInv
<1>1. ToSet(<<>>) = {}
  BY DEF ToSet
<1> QED BY <1>1 DEF Init, AloneInv, ParentsStand, ScannedInv

\* No insertion has overlapped with another, and i is the one to step.
Alone(i) == ATreeInv /\ AloneInv /\ \A j \in Inserters \ {i} : ipc[j] = "idle"

\* What a step of i must leave.
Left(i) == ~undefined /\ ParentsStand /\ ScannedInv(i)

LEMMA AloneFacts ==
    ASSUME NEW i \in Inserters, Alone(i)
    PROVE  TypeOK /\ TreeInv /\ InserterInv(i) /\ ScannedInv(i) /\ ParentsStand /\ undefined = FALSE
  BY DEF Alone, ATreeInv, InsertInv, AloneInv, TypeOK

\* What a node stands for, and what its parents do, stays while none is added.
LEMMA StandKept ==
    ASSUME TypeOK, TreeInv, ParentsStand, Grows,
           \A n \in Node : \A p \in parents'[n] : p \in parents[n] \/ positions'[p] # {}
    PROVE  ParentsStand'
<1> SUFFICES ASSUME NEW n \in Node, NEW p \in parents'[n], p \in parents[n]
             PROVE  positions'[p] # {}
  BY DEF ParentsStand
<1>1. Sound(p) /\ positions[p] # {}
  BY DEF TreeInv, ParentsStand
<1> QED BY <1>1 DEF Sound, Grows

LEMMA AloneInsert2 ==
    ASSUME NEW i \in Inserters, Alone(i), NEW m \in Meta, Insert2(i, m)
    PROVE  Left(i)'
<1>1. TypeOK /\ TreeInv /\ InserterInv(i) /\ ScannedInv(i) /\ ParentsStand /\ undefined = FALSE
  BY AloneFacts
<1>2. /\ ipc[i] = "idle" /\ UNCHANGED <<undefined, ik, candidates, inew, adjusting>>
      /\ \E v : ipc' = [ipc EXCEPT ![i] = v] /\ v \in {"scan", "push"}
  <2>1. PICK children : ipc' = [ipc EXCEPT ![i] = Round(children)]
    BY DEF Insert2
  <2>2. Round(children) \in {"scan", "push"}
    BY DEF Round
  <2> QED BY <2>1, <2>2 DEF Insert2
<1>3. ik[i] = 1 /\ candidates[i] = {}
  BY <1>1, <1>2 DEF ScannedInv, InserterInv
<1>4. ipc'[i] \in {"scan", "push"}
  BY <1>1, <1>2 DEF TypeOK
<1>5. Grows /\ ParentsStand'
  <2>1. Grows
    BY <1>1, Insert2Makes DEF Grows
  <2>2. \A n \in Node : \A p \in parents'[n] : p \in parents[n] \/ positions'[p] # {}
    BY <1>1, Insert2Makes
  <2> QED BY <1>1, <2>1, <2>2, StandKept
<1>6. \A n \in ToSet(ichildren'[i]) : positions'[n] # {}
  BY <1>1, Insert2Makes
<1>7. \A k \in 1 .. Len(ichildren'[i]) : ~(k < ik'[i])
  BY <1>2, <1>3
<1>8. ScannedInv(i)'
  BY <1>2, <1>3, <1>4, <1>6, <1>7 DEF ScannedInv
<1> QED BY <1>1, <1>2, <1>5, <1>8 DEF Left

LEMMA AloneScan ==
    ASSUME NEW i \in Inserters, Alone(i), ScanChild(i)
    PROVE  Left(i)'
<1>1. TypeOK /\ TreeInv /\ InserterInv(i) /\ ScannedInv(i) /\ ParentsStand /\ undefined = FALSE
  BY AloneFacts
<1>2. PICK children, k, filter, others :
         children = ichildren[i] /\ k = ik[i] /\ filter = Mine(i) /\ others = candidates[i]
  OBVIOUS
<1>3. PICK best : best = BestParent(children[k], filter)
  OBVIOUS
<1>4. /\ ipc[i] = "scan" /\ k <= Len(children) /\ k \in Nat /\ k >= 1
      /\ candidates' = [candidates EXCEPT ![i] = others \cup best]
      /\ removed' = [removed EXCEPT ![i] = removed[i] \/ best # {}]
      /\ best # {} => ichildren' = [ichildren EXCEPT ![i] = RemoveAt(children, k)]
      /\ best = {} => ik' = [ik EXCEPT ![i] = k + 1] /\ ichildren' = ichildren
      /\ UNCHANGED <<nodeNum, positions, parents, undefined, ipc, imeta, adjusting>>
  BY <1>1, <1>2, <1>3 DEF ScanChild, TypeOK, treeVars, InserterInv
<1>5. children \in Seq(Node) /\ k \in 1 .. Len(children) /\ children[k] \in Node
  BY <1>1, <1>2, <1>4, InserterTypes
<1>6. ParentsStand' /\ undefined' = FALSE
  BY <1>1, <1>4 DEF ParentsStand
<1>7. ipc'[i] = "scan" /\ candidates'[i] = others \cup best /\ Mine(i)' = filter
      /\ (removed'[i] <=> removed[i] \/ best # {})
  BY <1>1, <1>2, <1>4 DEF TypeOK, Mine
<1>8. ToSet(ichildren'[i]) \subseteq ToSet(children)
  <2>1. CASE best = {}
    BY <1>2, <1>4, <2>1
  <2>2. CASE best # {}
    <3>1. ichildren'[i] = RemoveAt(children, k)
      BY <1>1, <1>4, <2>2 DEF TypeOK
    <3> QED BY <1>5, <3>1, RemoveAtElements
  <2> QED BY <2>1, <2>2
<1>9. \A n \in ToSet(ichildren'[i]) \cup candidates'[i] : positions'[n] # {}
  <2>1. \A n \in ToSet(children) \cup others : positions[n] # {}
    BY <1>1, <1>2 DEF ScannedInv
  <2>2. \A n \in best : positions[n] # {}
    BY <1>3 DEF BestParent
  <2> QED BY <1>4, <1>7, <1>8, <2>1, <2>2
<1>10. ASSUME ~removed'[i]
       PROVE  /\ candidates'[i] = {}
              /\ \A l \in 1 .. Len(children) : l < ik'[i] => NoFit(children[l], filter)'
              /\ ichildren'[i] = children
  <2>1. best = {} /\ ~removed[i] /\ ik'[i] = k + 1 /\ ichildren'[i] = children
    BY <1>1, <1>2, <1>4, <1>7, <1>10 DEF TypeOK
  <2>2. others = {} /\ \A l \in 1 .. Len(children) : l < k => NoFit(children[l], filter)
    BY <1>1, <1>2, <1>4, <2>1 DEF ScannedInv
  <2>3. NoFit(children[k], filter)
    <3>1. \A p \in parents[children[k]] : positions[p] # {}
      BY <1>1, <1>5 DEF ParentsStand
    <3> QED BY <1>1, <1>3, <1>5, <2>1, <3>1, BestExists DEF NoFit
  <2>4. \A l \in 1 .. Len(children) : l < k + 1 => l < k \/ l = k
    BY <1>4
  <2>5. \A l \in 1 .. Len(children) : l < k + 1 => NoFit(children[l], filter)
    BY <2>2, <2>3, <2>4
  <2> QED BY <1>4, <1>7, <2>1, <2>2, <2>5 DEF NoFit
<1>11. ScannedInv(i)'
  <2>1. ~removed'[i] =>
           (\A l \in 1 .. Len(ichildren[i]) : l < ik[i] => NoFit(ichildren[i][l], Mine(i)))'
    BY <1>7, <1>10
  <2> QED BY <1>7, <1>9, <1>10, <2>1 DEF ScannedInv
<1> QED BY <1>6, <1>11 DEF Left

LEMMA AloneMerge ==
    ASSUME NEW i \in Inserters, Alone(i), ATreeInv', Merge(i)
    PROVE  Left(i)'
<1>1. TypeOK /\ TreeInv /\ InserterInv(i) /\ ScannedInv(i) /\ ParentsStand /\ undefined = FALSE
  BY AloneFacts
<1>2. PICK old, filter, others : old = ichildren[i] /\ filter = Mine(i) /\ others = candidates[i]
  OBVIOUS
<1>3. /\ ipc[i] = "scan" /\ ik[i] > Len(old)
      /\ ik' = [ik EXCEPT ![i] = 1] /\ candidates' = [candidates EXCEPT ![i] = {}]
      /\ UNCHANGED <<parents, undefined, imeta>>
  BY <1>2 DEF Merge
<1>4. PICK order \in SetToSeqs(others) :
          LET children == Merged(old, order)
              len == Len(children)
          IN  IF ~removed[i] /\ len > 1
              THEN /\ nodeNum < MaxNode
                   /\ nodeNum' = nodeNum + 1
                   /\ inew' = [inew EXCEPT ![i] = nodeNum + 1]
                   /\ positions' = [positions EXCEPT ![nodeNum + 1] =
                                      positions[children[len]] \cup positions[children[len - 1]]]
                   /\ adjusting' = [adjusting EXCEPT ![i] = <<children[len], children[len - 1]>>]
                   /\ ichildren' = [ichildren EXCEPT ![i] = children]
                   /\ ipc' = [ipc EXCEPT ![i] = "adjust"]
              ELSE /\ ichildren' = [ichildren EXCEPT ![i] = children]
                   /\ ipc' = [ipc EXCEPT ![i] = Round(children)]
                   /\ UNCHANGED <<nodeNum, positions, inew, adjusting>>
  BY <1>2 DEF Merge
<1>5. PICK children, len : children = Merged(old, order) /\ len = Len(children)
  OBVIOUS
<1>6. /\ children \in Seq(Node) /\ len \in Nat /\ ToSet(children) \subseteq ToSet(old) \cup others
      /\ \A n \in ToSet(old) \cup others : Sound(n) /\ n \in Known /\ positions[n] # {}
  <2>1. Covers(ToSet(old) \cup others, filter)
    BY <1>1, <1>2, <1>3 DEF InserterInv
  <2>2. others \in SUBSET Node /\ Filters /\ old \in Seq(Node)
    BY <1>1, <1>2, KnownNodes, InserterTypes
  <2>3. children \in Seq(Node) /\ ToSet(children) \subseteq ToSet(old) \cup others
    BY <1>5, <2>1, <2>2, MergedCovers
  <2>4. len \in Nat
    BY <1>5, <2>3
  <2> QED BY <1>1, <1>2, <2>3, <2>4 DEF InserterInv, ScannedInv, Sound
<1>7. ipc'[i] \in {"scan", "push", "adjust"} /\ ik'[i] = 1 /\ candidates'[i] = {}
      /\ ichildren'[i] = children
  <2>1. Round(children) \in {"scan", "push"}
    BY DEF Round
  <2>2. ipc'[i] \in {"scan", "push", "adjust"} /\ ichildren'[i] = children
    <3>1. CASE ~removed[i] /\ len > 1
      BY <1>1, <1>4, <1>5, <3>1 DEF TypeOK
    <3>2. CASE ~(~removed[i] /\ len > 1)
      BY <1>1, <1>4, <1>5, <2>1, <3>2 DEF TypeOK
    <3> QED BY <3>1, <3>2
  <2> QED BY <1>1, <1>3, <2>2 DEF TypeOK
<1>8. \A n \in Known : positions'[n] = positions[n]
  <2>1. CASE ~removed[i] /\ len > 1
    <3>1. \A n \in Known : n \in Node /\ n # nodeNum + 1
      BY <1>1, KnownNodes DEF Known
    <3> QED BY <1>1, <1>4, <1>5, <2>1, <3>1 DEF TypeOK
  <2>2. CASE ~(~removed[i] /\ len > 1)
    BY <1>4, <1>5, <2>2
  <2> QED BY <2>1, <2>2
<1>9. ParentsStand'
  <2> SUFFICES ASSUME NEW n \in Node, NEW p \in parents[n]
               PROVE  positions'[p] # {}
    BY <1>3 DEF ParentsStand
  <2> QED BY <1>1, <1>8 DEF ParentsStand, TreeInv, Sound
<1>10. \A n \in ToSet(children) : positions'[n] # {}
  BY <1>6, <1>8
<1>11. ASSUME ipc'[i] = "adjust"
       PROVE  /\ inew'[i] \notin ToSet(adjusting'[i])
              /\ (\A c \in ToSet(adjusting[i]) : NoFit(c, Mine(i)))'
  <2>1. ~removed[i] /\ len > 1
    <3>1. Round(children) # "adjust"
      BY DEF Round
    <3> QED BY <1>1, <1>4, <1>5, <1>11, <3>1 DEF TypeOK
  <2>2. PICK a, b : a = children[len] /\ b = children[len - 1]
    OBVIOUS
  <2>3. inew'[i] = nodeNum + 1 /\ adjusting'[i] = <<a, b>>
    BY <1>1, <1>4, <1>5, <2>1, <2>2 DEF TypeOK
  <2>4. ToSet(<<a, b>>) = {a, b}
    BY DEF ToSet
  <2>5. others = {} /\ \A k \in 1 .. Len(old) : NoFit(old[k], filter)
    <3>1. others = {} /\ \A k \in 1 .. Len(old) : k < ik[i] => NoFit(old[k], filter)
      BY <1>1, <1>2, <1>3, <2>1 DEF ScannedInv
    <3>2. ik[i] \in Nat /\ Len(old) \in Nat
      BY <1>1, <1>2, InserterTypes
    <3>3. \A k \in 1 .. Len(old) : k < ik[i]
      BY <1>3, <3>2
    <3> QED BY <3>1, <3>3
  <2>6. children = old
    <3>1. old \in Seq(Node) /\ order \in SetToSeqs({})
      BY <1>1, <1>2, <2>5, InserterTypes
    <3> QED BY <1>5, <3>1, MergedNone
  <2>7. len \in 1 .. Len(children) /\ len - 1 \in 1 .. Len(children)
    BY <1>5, <1>6, <2>1
  <2>8. \A c \in {a, b} : c \in Known /\ NoFit(c, filter)
    <3>1. a \in ToSet(children) /\ b \in ToSet(children)
      BY <1>6, <2>2, <2>7, Elements
    <3> QED BY <1>6, <2>2, <2>5, <2>6, <2>7, <3>1
  <2>9. \A c \in {a, b} : c # nodeNum + 1
    BY <1>1, <2>8, KnownNodes DEF Known
  <2>10. ASSUME NEW c \in {a, b}, NEW p \in parents[c]
         PROVE  ~(positions'[p] \subseteq filter)
    <3>1. c \in Node /\ p \in Known
      BY <1>1, <2>8, KnownNodes DEF TreeInv, Sound
    <3> QED BY <1>8, <2>8, <3>1 DEF NoFit
  <2>11. Mine(i)' = filter
    BY <1>2, <1>3 DEF Mine
  <2> QED BY <1>3, <2>3, <2>4, <2>9, <2>10, <2>11 DEF NoFit
<1>12. ScannedInv(i)'
  <2>1. (\A k \in 1 .. Len(ichildren[i]) : k < ik[i] => NoFit(ichildren[i][k], Mine(i)))'
    BY <1>7
  <2>2. (\A n \in ToSet(ichildren[i]) \cup candidates[i] : positions[n] # {})'
    BY <1>7, <1>10
  <2> QED BY <1>7, <1>11, <2>1, <2>2 DEF ScannedInv
<1> QED BY <1>1, <1>3, <1>9, <1>12 DEF Left

LEMMA AloneAdjust ==
    ASSUME NEW i \in Inserters, Alone(i), Adjust(i)
    PROVE  Left(i)'
<1>1. TypeOK /\ TreeInv /\ InserterInv(i) /\ ScannedInv(i) /\ ParentsStand /\ undefined = FALSE
  BY AloneFacts
<1>2. PICK new, left, filter : new = inew[i] /\ left = adjusting[i] /\ filter = Mine(i)
  OBVIOUS
<1>3. PICK c, above : c = Head(left) /\ above = {p \in parents[c] : Satisfies(new, positions[p])}
  OBVIOUS
<1>4. PICK below : below = {p \in parents[c] \ above : Satisfies(p, positions[new])}
  OBVIOUS
<1>5. /\ ipc[i] = "adjust"
      /\ adjusting' = [adjusting EXCEPT ![i] = Tail(left)]
      /\ parents' = [n \in Node |-> IF n = new THEN parents[n] \cup above
                                      ELSE IF n \in below THEN parents[n] \cup {new}
                                      ELSE parents[n]]
      /\ undefined' = (undefined \/ below # {})
      /\ ipc' = [ipc EXCEPT ![i] = IF Len(left) = 1 THEN "link" ELSE "adjust"]
      /\ UNCHANGED <<positions, imeta, ichildren, ik, candidates, inew>>
  BY <1>1, <1>2, <1>3, <1>4 DEF Adjust, TypeOK
<1>6. left \in Seq(Node) /\ left # <<>> /\ new \notin ToSet(left)
      /\ \A n \in ToSet(left) : NoFit(n, filter)
  BY <1>1, <1>2, <1>5, InserterTypes DEF InserterInv, ScannedInv
<1>7. c \in ToSet(left) /\ ToSet(Tail(left)) \subseteq ToSet(left) /\ c \in Node
  <2>1. /\ c = left[1] /\ Tail(left) \in Seq(Node) /\ Len(left) \in Nat \ {0} /\ c \in Node
        /\ Len(Tail(left)) = Len(left) - 1
        /\ \A k \in 1 .. Len(Tail(left)) : Tail(left)[k] = left[k + 1]
    BY <1>3, <1>6, HeadTailProperties, EmptySeq
  <2>2. c \in ToSet(left)
    <3>1. 1 \in 1 .. Len(left)
      BY <2>1
    <3> QED BY <1>6, <2>1, <3>1, Elements
  <2>3. ASSUME NEW x \in ToSet(Tail(left))
        PROVE  x \in ToSet(left)
    <3>1. PICK k \in 1 .. Len(Tail(left)) : Tail(left)[k] = x
      BY <2>1, Elements
    <3>2. k + 1 \in 1 .. Len(left) /\ left[k + 1] = x
      BY <2>1, <3>1
    <3> QED BY <1>6, <3>2, Elements
  <2> QED BY <2>1, <2>2, <2>3
<1>8. positions[new] \subseteq filter
  <2>1. PICK len, children : len = Len(ichildren[i]) /\ children = ichildren[i]
    OBVIOUS
  <2>2. /\ len > 1 /\ positions[new] = positions[children[len]] \cup positions[children[len - 1]]
        /\ Covers(ToSet(children) \cup candidates[i], filter) /\ new \in Known
    BY <1>1, <1>2, <1>5, <2>1 DEF InserterInv
  <2>3. children[len] \in ToSet(children) /\ children[len - 1] \in ToSet(children)
    <3>1. len \in 1 .. len /\ len - 1 \in 1 .. len /\ children \in Seq(Node)
      BY <1>1, <2>1, <2>2, InserterTypes
    <3> QED BY <2>1, <3>1, Elements
  <2>4. positions[new] \subseteq Bits
    BY <1>1, <2>2, KnownNodes DEF TypeOK
  <2>5. ASSUME NEW x \in positions[new]
        PROVE  x \in filter
    BY <2>2, <2>3, <2>4 DEF Covers
  <2> QED BY <2>5
<1>9. below = {}
  <2>1. ASSUME NEW p \in below
        PROVE  FALSE
    <3>1. p \in parents[c] /\ positions[p] \subseteq positions[new]
      BY <1>4 DEF Satisfies
    <3> QED BY <1>6, <1>7, <1>8, <3>1 DEF NoFit
  <2> QED BY <2>1
<1>10. undefined' = FALSE
  BY <1>1, <1>5, <1>9
<1>11. ParentsStand'
  <2> SUFFICES ASSUME NEW n \in Node, NEW p \in parents'[n]
               PROVE  positions[p] # {}
    BY <1>5 DEF ParentsStand
  <2>1. p \in parents[n] \/ p \in parents[c]
    BY <1>3, <1>5, <1>9
  <2> QED BY <1>1, <1>7, <2>1 DEF ParentsStand
<1>12. ScannedInv(i)'
  <2>1. ipc'[i] \in {"link", "adjust"} /\ adjusting'[i] = Tail(left) /\ Mine(i)' = filter
    BY <1>1, <1>2, <1>5 DEF TypeOK, Mine
  <2>2. \A n \in ToSet(Tail(left)) : n # new /\ n \in Node /\ NoFit(n, filter)
    BY <1>6, <1>7, Elements
  <2>3. \A n \in ToSet(Tail(left)) : parents'[n] = parents[n]
    BY <1>5, <1>9, <2>2
  <2>4. (inew[i] \notin ToSet(adjusting[i]) /\ \A n \in ToSet(adjusting[i]) : NoFit(n, Mine(i)))'
    BY <1>2, <1>5, <2>1, <2>2, <2>3 DEF NoFit
  <2>5. (\A n \in ToSet(ichildren[i]) \cup candidates[i] : positions[n] # {})' /\ ik'[i] = 1
    BY <1>1, <1>5 DEF ScannedInv
  <2> QED BY <2>1, <2>4, <2>5 DEF ScannedInv
<1> QED BY <1>10, <1>11, <1>12 DEF Left

\* Both sections that link the new node; nobody walks through the map.
LEMMA AloneLinks ==
    ASSUME NEW i \in Inserters, Alone(i), LinkNew(i) \/ LinkAgain(i)
    PROVE  Left(i)'
<1>1. TypeOK /\ TreeInv /\ InserterInv(i) /\ ScannedInv(i) /\ ParentsStand /\ undefined = FALSE
  BY AloneFacts
<1>2. PICK children, new : children = ichildren[i] /\ new = inew[i]
  OBVIOUS
<1>3. /\ ipc[i] \in {"link", "relink"}
      /\ parents' = Link(Child0(i), new)
      /\ UNCHANGED <<nodeNum, positions, ptrList, imeta, ik, candidates, adjusting>>
  BY <1>2 DEF LinkNew, LinkAgain, loopVars
<1>4. ~Walked(i)
  BY DEF Alone, Walked
<1>5. undefined' = FALSE
  BY <1>1, <1>4 DEF LinkNew, LinkAgain
<1>6. /\ children \in Seq(Node) /\ Len(children) \in Nat /\ Len(children) > 1 /\ new \in Node
      /\ positions[new] = positions[children[Len(children)]] \cup positions[children[Len(children) - 1]]
      /\ \A n \in ToSet(children) : positions[n] # {}
  BY <1>1, <1>2, <1>3, InserterTypes, KnownNodes DEF InserterInv, ScannedInv
<1>7. positions[new] # {}
  <2>1. Len(children) \in 1 .. Len(children)
    BY <1>6
  <2>2. children[Len(children)] \in ToSet(children)
    BY <1>6, <2>1, Elements
  <2> QED BY <1>6, <2>2
<1>8. ParentsStand'
  <2>1. Child0(i) \in Node => \A n \in Node : \A p \in parents'[n] : p \in parents[n] \/ p = new
    BY <1>1, <1>3 DEF Link, TypeOK
  <2>2. Child0(i) \in Node
    <3>1. Len(children) \in 1 .. Len(children)
      BY <1>6
    <3> QED BY <1>2, <1>6, <3>1 DEF Child0
  <2> QED BY <1>1, <1>3, <1>7, <2>1, <2>2 DEF ParentsStand
<1>9. \A n \in ToSet(ichildren'[i]) : n \in ToSet(children) \/ n = new
  <2>1. CASE LinkNew(i)
    BY <1>2, <2>1 DEF LinkNew, loopVars
  <2>2. CASE LinkAgain(i)
    <3>1. PICK first : first = SubSeq(children, 1, Len(children) - 2)
      OBVIOUS
    <3>2. ichildren'[i] = Append(first, new)
      BY <1>1, <1>2, <2>2, <3>1 DEF LinkAgain, TypeOK
    <3>3. first \in Seq(Node) /\ \A n \in ToSet(first) : n \in ToSet(children)
      <4>1. \A k \in 1 .. Len(children) - 2 : children[k] \in Node
        BY <1>6
      <4>2. 1 \in Int /\ Len(children) - 2 \in Int
        BY <1>6
      <4>3. /\ first \in Seq(Node)
            /\ Len(first) = (IF 1 <= Len(children) - 2 THEN Len(children) - 2 - 1 + 1 ELSE 0)
            /\ \A k \in 1 .. Len(children) - 2 - 1 + 1 : first[k] = children[1 + k - 1]
        BY <3>1, <4>1, <4>2, SubSeqProperties
      <4>4. \A k \in 1 .. Len(first) : first[k] = children[k] /\ k \in 1 .. Len(children)
        BY <1>6, <4>3
      <4>5. ASSUME NEW n \in ToSet(first)
            PROVE  n \in ToSet(children)
        <5>1. PICK k \in 1 .. Len(first) : first[k] = n
          BY <4>3, Elements
        <5>2. children[k] = n /\ k \in 1 .. Len(children)
          BY <4>4, <5>1
        <5> QED BY <1>6, <5>2, Elements
      <4> QED BY <4>3, <4>5
    <3>4. ToSet(Append(first, new)) = ToSet(first) \cup {new}
      BY <1>6, <3>3, AppendElements
    <3> QED BY <3>2, <3>3, <3>4
  <2> QED BY <2>1, <2>2
<1>10. ipc'[i] \in {"relink", "scan", "push"}
  <2>1. \A s : Round(s) \in {"scan", "push"}
    BY DEF Round
  <2> QED BY <1>1, <2>1 DEF LinkNew, LinkAgain, TypeOK
<1>11. ScannedInv(i)'
  <2>1. ik'[i] = 1 /\ candidates'[i] = {}
    BY <1>1, <1>3 DEF ScannedInv, InserterInv
  <2>2. (\A n \in ToSet(ichildren[i]) \cup candidates[i] : positions[n] # {})'
    BY <1>3, <1>6, <1>7, <1>9, <2>1
  <2>3. \A k \in 1 .. Len(ichildren'[i]) : ~(k < ik'[i])
    BY <2>1
  <2> QED BY <1>10, <2>1, <2>2, <2>3 DEF ScannedInv
<1> QED BY <1>5, <1>8, <1>11 DEF Left

LEMMA AlonePush ==
    ASSUME NEW i \in Inserters, Alone(i), Push(i)
    PROVE  Left(i)'
<1>1. TypeOK /\ TreeInv /\ InserterInv(i) /\ ScannedInv(i) /\ ParentsStand /\ undefined = FALSE
  BY AloneFacts
<1>2. /\ ipc[i] = "push" /\ ipc'[i] = "idle" /\ ichildren'[i] = <<>>
      /\ UNCHANGED <<positions, parents, undefined, ik, candidates>>
  BY <1>1 DEF Push, treeVars, TypeOK
<1>3. ToSet(<<>>) = {} /\ candidates[i] = {} /\ ik[i] = 1
  BY <1>1, <1>2 DEF ToSet, InserterInv, ScannedInv
<1>4. ScannedInv(i)'
  BY <1>2, <1>3 DEF ScannedInv
<1> QED BY <1>1, <1>2, <1>4 DEF Left, ParentsStand

\* An insertion that is not running has nothing that could change.
LEMMA OthersScanned ==
    ASSUME NEW i \in Inserters, Alone(i), NEW j \in Inserters \ {i},
           ipc'[j] = ipc[j], ichildren'[j] = ichildren[j], ik'[j] = ik[j],
           candidates'[j] = candidates[j]
    PROVE  ScannedInv(j)' /\ ipc'[j] = "idle"
<1>1. ipc[j] = "idle" /\ InserterInv(j) /\ ScannedInv(j)
  BY DEF Alone, ATreeInv, InsertInv, AloneInv
<1>2. ichildren'[j] = <<>> /\ candidates'[j] = {} /\ ik'[j] = 1 /\ ipc'[j] = "idle"
  BY <1>1 DEF InserterInv, ScannedInv
<1>3. ToSet(<<>>) = {}
  BY DEF ToSet
<1> QED BY <1>2, <1>3 DEF ScannedInv

LEMMA AloneNext ==
    ASSUME ATreeInv, ATreeInv', overlapped \/ AloneInv, [Next]_vars
    PROVE  (overlapped \/ AloneInv)'
<1>1. ASSUME NEW i \in Inserters, InserterStep(i) \/ \E m \in Meta : Insert2(i, m)
      PROVE  (overlapped \/ AloneInv)'
  <2>1. CASE overlapped \/ \E m \in Meta : Insert2(i, m) /\ \E j \in Inserters : ipc[j] # "idle"
    <3>1. InserterStep(i) => overlapped' = overlapped
      BY DEF InserterStep, ScanChild, Merge, Adjust, LinkNew, LinkAgain, Push
    <3>2. ASSUME NEW m \in Meta, Insert2(i, m)
          PROVE  overlapped' = (overlapped \/ \E j \in Inserters : ipc[j] # "idle")
      BY <3>2 DEF Insert2
    <3> QED BY <1>1, <2>1, <3>1, <3>2
  <2>2. CASE ~(overlapped \/ \E m \in Meta : Insert2(i, m) /\ \E j \in Inserters : ipc[j] # "idle")
    <3>1. Alone(i)
      <4>1. InserterStep(i) => ipc[i] # "idle"
        BY DEF InserterStep, ScanChild, Merge, Adjust, LinkNew, LinkAgain, Push
      <4> QED BY <1>1, <2>2, <4>1 DEF Alone, AloneInv
    <3>2. Left(i)'
      BY <1>1, <3>1, AloneInsert2, AloneScan, AloneMerge, AloneAdjust, AloneLinks, AlonePush
         DEF InserterStep
    <3>3. ASSUME NEW j \in Inserters \ {i}
          PROVE  /\ ipc'[j] = ipc[j] /\ ichildren'[j] = ichildren[j] /\ ik'[j] = ik[j]
                 /\ candidates'[j] = candidates[j]
      <4>1. TypeOK
        BY <3>1 DEF Alone, ATreeInv
      <4>2. ASSUME NEW m \in Meta, Insert2(i, m)
            PROVE  /\ ipc'[j] = ipc[j] /\ ichildren'[j] = ichildren[j]
                   /\ ik' = ik /\ candidates' = candidates
        <5>1. \E v : ipc' = [ipc EXCEPT ![i] = v]
          BY <4>2 DEF Insert2
        <5>2. \E v : ichildren' = [ichildren EXCEPT ![i] = v]
          BY <4>2 DEF Insert2
        <5> QED BY <4>1, <4>2, <5>1, <5>2 DEF TypeOK, Insert2
      <4>3. CASE ScanChild(i)
        BY <4>1, <4>3 DEF TypeOK, ScanChild
      <4>4. CASE Merge(i)
        <5>1. \E v : ipc' = [ipc EXCEPT ![i] = v]
          BY <4>4 DEF Merge
        <5>2. \E v : ichildren' = [ichildren EXCEPT ![i] = v]
          BY <4>4 DEF Merge
        <5>3. ik' = [ik EXCEPT ![i] = 1] /\ candidates' = [candidates EXCEPT ![i] = {}]
          BY <4>4 DEF Merge
        <5> QED BY <4>1, <5>1, <5>2, <5>3 DEF TypeOK
      <4>5. CASE Adjust(i) \/ LinkNew(i) \/ LinkAgain(i) \/ Push(i)
        BY <4>1, <4>5 DEF TypeOK, Adjust, LinkNew, LinkAgain, Push, loopVars
      <4> QED BY <1>1, <4>2, <4>3, <4>4, <4>5 DEF InserterStep
    <3>4. \A j \in Inserters \ {i} : ScannedInv(j)' /\ ipc'[j] = "idle"
      BY <3>1, <3>3, OthersScanned
    <3> QED BY <3>2, <3>4 DEF Left, AloneInv
  <2> QED BY <2>1, <2>2
<1>2. CASE UNCHANGED <<treeVars, insVars>>
  BY <1>2 DEF AloneInv, ParentsStand, ScannedInv, NoFit, Mine, treeVars, insVars, loopVars
<1>3. ASSUME NEW s \in Searchers, SearcherStep(s) \/ \E q \in Queries : Search(s, q)
      PROVE  UNCHANGED <<treeVars, insVars>>
  BY <1>3 DEF SearcherStep, Search, Collect, TakeAll, SearchReturn
<1>4. Rest \/ UNCHANGED vars => UNCHANGED <<treeVars, insVars>>
  BY DEF Rest, vars
<1> QED BY <1>1, <1>2, <1>3, <1>4 DEF Next

\* As long as no insertion begins before the one before it has ended, Adjust
\* never changes the vector that it iterates over (line 71), and no map is changed
\* while the insert of line 284 walks through it, with any number of searches
\* beside: the scan has seen every node that has been linked, so that no parent of
\* a child can lie below the new node.  In such a program, as one with a single
\* inserting thread is, the claims about the A-Tree hold without the reservation.
THEOREM SafeUnlessOverlappedHolds == Spec => []SafeUnlessOverlapped
<1> DEFINE SafeInv == overlapped \/ AloneInv
<1>1. Init => SafeInv
  BY AloneInit
<1>2. ATreeInv /\ ATreeInv' /\ SafeInv /\ [Next]_vars => SafeInv'
  BY AloneNext
<1>3. SafeInv => SafeUnlessOverlapped
  BY DEF AloneInv, SafeUnlessOverlapped
<1> HIDE DEF SafeInv
<1> QED BY <1>1, <1>2, <1>3, ATreeInvariant, PTL DEF Spec

=============================================================================
