--------------------------- MODULE TrieTreeProofs ---------------------------
(***************************************************************************)
(* Proofs about TrieTree, for any number of threads, levels, bytes and     *)
(* signatures: TrieInv is inductive, and with it every step of the byte    *)
(* trie is a step of SignatureIndex or none.                               *)
(***************************************************************************)
EXTENDS TrieTree, SharedLemmas

Maps == [Node -> SUBSET (Byte \X Node)]

-----------------------------------------------------------------------------
(* Ways: the nodes that the bytes of a filter lead to *)

\* What byte l of a filter leads to from the nodes of a set.
Below(mp, filter, l, nodes) ==
    {e[2] : e \in {x \in UNION {mp[n] : n \in nodes} : x[1] = ByteAt(filter, l)}}

\* NodesOn in any maps.
Way(mp, filter, l) ==
    LET at[k \in 0 .. l] ==
           IF k = 0 THEN {Root}
           ELSE {e[2] : e \in {x \in UNION {mp[n] : n \in at[k - 1]} :
                                  x[1] = ByteAt(filter, k)}}
    IN  at[l]

LEMMA NodesOnIsWay ==
  \A filter, l : NodesOn(filter, l) = Way(maps, filter, l)
  BY DEF NodesOn, Way

LEMMA BelowType ==
  ASSUME NEW mp \in Maps, NEW filter, NEW l, NEW nodes \in SUBSET Node
  PROVE  /\ Below(mp, filter, l, nodes) \in SUBSET Node
         /\ \A c : c \in Below(mp, filter, l, nodes) <=>
                \E n \in nodes : \E x \in mp[n] : x[1] = ByteAt(filter, l) /\ x[2] = c
<1>1. \A n \in nodes : mp[n] \subseteq Byte \X Node BY DEF Maps
<1>2. \A c : c \in Below(mp, filter, l, nodes) <=>
                \E n \in nodes : \E x \in mp[n] : x[1] = ByteAt(filter, l) /\ x[2] = c
  BY DEF Below
<1>3. \A n \in nodes : \A x \in mp[n] : x[2] \in Node BY <1>1
<1> QED BY <1>2, <1>3

\* The sets of nodes at the depths of a way.
Walks(mp, filter, l) ==
    {w \in [0 .. l -> SUBSET Node] :
        w[0] = {Root} /\ \A i \in 1 .. l : w[i] = Below(mp, filter, i, w[i - 1])}

\* A way is a sequence of steps from the root.
LEMMA WaySteps ==
  ASSUME NEW mp \in Maps, NEW filter, NEW l \in Nat
  PROVE  \E w \in Walks(mp, filter, l) : Way(mp, filter, l) = w[l]
<1> DEFINE S == SUBSET Node
           a == {Root}
           step == [i \in 1 .. l |-> [v \in S |-> Below(mp, filter, i, v)]]
           Body(f) == [k \in 0 .. l |-> IF k = 0 THEN a ELSE Below(mp, filter, k, f[k - 1])]
<1>1. a \in S BY TrieTreeAssumption DEF Root, Node
<1>2. step \in [1 .. l -> [S -> S]] BY BelowType
<1>3. Way(mp, filter, l) = (CHOOSE f : f = Body(f))[l] BY DEF Way, Below
<1> HIDE DEF S, a
<1>4. PICK f \in [0 .. l -> S] : f[0] = a /\ \A i \in 1 .. l : f[i] = step[i][f[i - 1]]
  <2>1. step \in Steps(l, S) BY <1>2 DEF Steps
  <2> HIDE DEF step
  <2>2. Chains(l, S, a, step) # {} BY <2>1, <1>1, RecursionExists
  <2> QED BY <2>2 DEF Chains
<1>5. \A i \in 1 .. l : f[i] = Below(mp, filter, i, f[i - 1])
  <2> SUFFICES ASSUME NEW i \in 1 .. l PROVE f[i] = Below(mp, filter, i, f[i - 1]) OBVIOUS
  <2>1. f[i - 1] \in S OBVIOUS
  <2> QED BY <1>4, <2>1
<1>6. f = Body(f)
  <2>1. \A k \in 0 .. l : k # 0 => k \in 1 .. l OBVIOUS
  <2> QED BY <1>4, <1>5, <2>1
<1> DEFINE c == CHOOSE g : g = Body(g)
<1>7. c = Body(c) BY <1>6
<1> HIDE DEF c
<1>8. c[0] = a BY <1>7
<1>9. \A i \in 1 .. l : c[i] = Below(mp, filter, i, c[i - 1])
  <2>1. \A i \in 1 .. l : i \in 0 .. l /\ i # 0 OBVIOUS
  <2> QED BY <1>7, <2>1
<1> DEFINE T == {i \in 0 .. l : c[i] \in S}
<1>10. 0 \in T BY <1>1, <1>8
<1>11. ASSUME NEW i \in 1 .. l, i - 1 \in T PROVE i \in T
  <2>1. c[i - 1] \in SUBSET Node BY <1>11 DEF S
  <2>2. Below(mp, filter, i, c[i - 1]) \in SUBSET Node BY <2>1, BelowType
  <2> QED BY <2>2, <1>9 DEF S
<1>12. \A i \in 0 .. l : i \in T
  <2> HIDE DEF T
  <2> QED BY <1>10, <1>11, SetInduction
<1>13. c = [k \in 0 .. l |-> c[k]] BY <1>7
<1>14. c \in [0 .. l -> S] BY <1>12, <1>13
<1>15. Way(mp, filter, l) = c[l] BY <1>3 DEF c
<1>16. c \in Walks(mp, filter, l) BY <1>8, <1>9, <1>14 DEF a, S, Walks
<1> QED BY <1>15, <1>16

\* The way to a depth is the way to the depth before, and one byte more.
LEMMA WayStep ==
  ASSUME NEW mp \in Maps, NEW filter
  PROVE  /\ Way(mp, filter, 0) = {Root}
         /\ \A l \in Nat : /\ Way(mp, filter, l) \in SUBSET Node
                           /\ Way(mp, filter, l + 1) = Below(mp, filter, l + 1, Way(mp, filter, l))
<1>1. Way(mp, filter, 0) = {Root}
  <2>1. PICK w \in Walks(mp, filter, 0) : Way(mp, filter, 0) = w[0] BY WaySteps
  <2> QED BY <2>1 DEF Walks
<1>2. \A l \in Nat : Way(mp, filter, l) \in SUBSET Node
  <2> TAKE l \in Nat
  <2>1. PICK w \in Walks(mp, filter, l) : Way(mp, filter, l) = w[l] BY WaySteps
  <2> QED BY <2>1 DEF Walks
<1>3. ASSUME NEW l \in Nat
      PROVE  Way(mp, filter, l + 1) = Below(mp, filter, l + 1, Way(mp, filter, l))
  <2>1. PICK w \in Walks(mp, filter, l) : Way(mp, filter, l) = w[l] BY WaySteps
  <2>2. PICK v \in Walks(mp, filter, l + 1) : Way(mp, filter, l + 1) = v[l + 1]
    <3>1. l + 1 \in Nat OBVIOUS
    <3> QED BY <3>1, WaySteps
  <2>3. /\ w[0] = {Root} /\ v[0] = {Root}
        /\ \A i \in 1 .. l : w[i] = Below(mp, filter, i, w[i - 1])
        /\ \A i \in 1 .. l + 1 : v[i] = Below(mp, filter, i, v[i - 1])
    BY DEF Walks
  <2> DEFINE T == {i \in 0 .. l : v[i] = w[i]}
  <2>4. 0 \in T
    <3>1. 0 \in 0 .. l OBVIOUS
    <3> QED BY <2>3, <3>1
  <2>5. ASSUME NEW i \in 1 .. l, i - 1 \in T PROVE i \in T
    <3>1. i \in 1 .. l + 1 /\ i \in 0 .. l OBVIOUS
    <3>2. v[i - 1] = w[i - 1] BY <2>5
    <3> QED BY <2>3, <3>1, <3>2
  <2>6. \A i \in 0 .. l : i \in T
    <3> HIDE DEF T
    <3> QED BY <2>4, <2>5, SetInduction
  <2>7. v[l] = w[l] BY <2>6
  <2>8. v[l + 1] = Below(mp, filter, l + 1, v[l])
    <3>1. l + 1 \in 1 .. l + 1 /\ (l + 1) - 1 = l OBVIOUS
    <3>2. v[l + 1] = Below(mp, filter, l + 1, v[(l + 1) - 1]) BY <2>3, <3>1
    <3> QED BY <3>1, <3>2
  <2> QED BY <2>1, <2>2, <2>7, <2>8, Zenon
<1> QED BY <1>1, <1>2, <1>3

\* No node has two children for one byte.
OneChild(mp) == \A n \in Node : \A x, y \in mp[n] : x[1] = y[1] => x = y

\* Then the bytes of a filter lead to one node at most.
LEMMA WaySingle ==
  ASSUME NEW mp \in Maps, NEW filter, NEW l \in Nat, OneChild(mp)
  PROVE  \A a, b \in Way(mp, filter, l) : a = b
<1> DEFINE T == {i \in 0 .. l : \A a, b \in Way(mp, filter, i) : a = b}
<1>1. 0 \in T BY WayStep
<1>2. ASSUME NEW i \in 1 .. l, i - 1 \in T PROVE i \in T
  <2> DEFINE W == Way(mp, filter, i - 1)
  <2>1. i - 1 \in Nat /\ (i - 1) + 1 = i OBVIOUS
  <2>2. W \in SUBSET Node /\ Way(mp, filter, i) = Below(mp, filter, i, W) BY <2>1, WayStep
  <2>3. \A a, b \in W : a = b BY <1>2
  <2> HIDE DEF W
  <2>4. \A c : c \in Below(mp, filter, i, W) <=>
                \E n \in W : \E x \in mp[n] : x[1] = ByteAt(filter, i) /\ x[2] = c
    BY <2>2, BelowType
  <2>5. \A a, b \in Below(mp, filter, i, W) : a = b BY <2>2, <2>3, <2>4 DEF OneChild
  <2> QED BY <2>2, <2>5
<1>3. \A i \in 0 .. l : i \in T
  <2> HIDE DEF T
  <2> QED BY <1>1, <1>2, SetInduction
<1> QED BY <1>3

\* New children make no node unreachable.
LEMMA WayGrows ==
  ASSUME NEW mp \in Maps, NEW mq \in Maps, NEW filter, NEW l \in Nat,
         \A n \in Node : mp[n] \subseteq mq[n]
  PROVE  Way(mp, filter, l) \subseteq Way(mq, filter, l)
<1> DEFINE T == {i \in 0 .. l : Way(mp, filter, i) \subseteq Way(mq, filter, i)}
<1>1. 0 \in T BY WayStep
<1>2. ASSUME NEW i \in 1 .. l, i - 1 \in T PROVE i \in T
  <2> DEFINE W == Way(mp, filter, i - 1)
             V == Way(mq, filter, i - 1)
  <2>1. i - 1 \in Nat /\ (i - 1) + 1 = i OBVIOUS
  <2>2. W \in SUBSET Node /\ Way(mp, filter, i) = Below(mp, filter, i, W) BY <2>1, WayStep
  <2>3. V \in SUBSET Node /\ Way(mq, filter, i) = Below(mq, filter, i, V) BY <2>1, WayStep
  <2>4. W \subseteq V BY <1>2
  <2> HIDE DEF W, V
  <2>5. \A c : c \in Below(mp, filter, i, W) <=>
                \E n \in W : \E x \in mp[n] : x[1] = ByteAt(filter, i) /\ x[2] = c
    BY <2>2, BelowType
  <2>6. \A c : c \in Below(mq, filter, i, V) <=>
                \E n \in V : \E x \in mq[n] : x[1] = ByteAt(filter, i) /\ x[2] = c
    BY <2>3, BelowType
  <2>7. Below(mp, filter, i, W) \subseteq Below(mq, filter, i, V)
    BY <2>2, <2>4, <2>5, <2>6
  <2> QED BY <2>2, <2>3, <2>7
<1>3. \A i \in 0 .. l : i \in T
  <2> HIDE DEF T
  <2> QED BY <1>1, <1>2, SetInduction
<1> QED BY <1>3

\* A way that leads to a node has a node at every depth before.
LEMMA WayPrefix ==
  ASSUME NEW mp \in Maps, NEW filter, NEW l \in Nat, Way(mp, filter, l) # {}
  PROVE  \A k \in 0 .. l : Way(mp, filter, k) # {}
<1> SUFFICES ASSUME NEW k \in 0 .. l, Way(mp, filter, k) = {} PROVE FALSE OBVIOUS
<1> DEFINE m == l - k
           T == {i \in 0 .. m : Way(mp, filter, k + i) = {}}
<1>1. m \in Nat /\ k + m = l OBVIOUS
<1>2. 0 \in T OBVIOUS
<1>3. ASSUME NEW i \in 1 .. m, i - 1 \in T PROVE i \in T
  <2>1. k + (i - 1) \in Nat /\ (k + (i - 1)) + 1 = k + i OBVIOUS
  <2>2. Way(mp, filter, k + (i - 1)) = {} BY <1>3
  <2>3. Way(mp, filter, k + i) = Below(mp, filter, k + i, {}) BY <2>1, <2>2, WayStep
  <2>4. Way(mp, filter, k + i) = {} BY <2>3, BelowType
  <2> QED BY <2>4, <1>1
<1>4. \A i \in 0 .. m : i \in T
  <2> HIDE DEF T, m
  <2> QED BY <1>1, <1>2, <1>3, SetInduction
<1> QED BY <1>1, <1>4

-----------------------------------------------------------------------------
(* Lists *)

Elems(list) == {list[k] : k \in 1 .. Len(list)}
Unrepeated(list) == \A k, l \in 1 .. Len(list) : list[k] = list[l] => k = l

LEMMA AppendIs ==
  ASSUME NEW S, NEW list \in Seq(S), NEW m \in S
  PROVE  /\ Append(list, m) \in Seq(S)
         /\ Elems(Append(list, m)) = Elems(list) \cup {m}
         /\ Unrepeated(list) /\ m \notin Elems(list) => Unrepeated(Append(list, m))
<1> DEFINE longer == Append(list, m)
           n == Len(list)
<1>1. n \in Nat /\ Len(longer) = n + 1 /\ longer \in Seq(S) OBVIOUS
<1>2. longer[n + 1] = m /\ \A k \in 1 .. n : longer[k] = list[k] OBVIOUS
<1> HIDE DEF longer, n
<1>3. \A k : k \in 1 .. n + 1 <=> k \in 1 .. n \/ k = n + 1 BY <1>1
<1>4. Elems(longer) = Elems(list) \cup {m} BY <1>1, <1>2, <1>3 DEF Elems, n
<1>5. ASSUME Unrepeated(list), m \notin Elems(list) PROVE Unrepeated(longer)
  <2>1. \A k \in 1 .. n : list[k] # m BY <1>5 DEF Elems, n
  <2>2. \A k, l \in 1 .. n : list[k] = list[l] => k = l BY <1>5 DEF Unrepeated, n
  <2>3. \A k, l \in 1 .. n + 1 : longer[k] = longer[l] => k = l BY <2>1, <2>2, <1>2, <1>3
  <2> QED BY <2>3, <1>1 DEF Unrepeated
<1> QED BY <1>1, <1>4, <1>5 DEF longer

\* What Restricted keeps of a list.
LEMMA RestrictedIs ==
  ASSUME NEW list \in Seq(Meta), NEW S
  PROVE  /\ Restricted(list, S) \in Seq(Meta)
         /\ Elems(Restricted(list, S)) = Elems(list) \cap S
         /\ Unrepeated(list) => Unrepeated(Restricted(list, S))
<1> DEFINE n == Len(list)
           Q == Seq(Meta)
           Grown(i, v) == IF list[i] \in S THEN Append(v, list[i]) ELSE v
           step == [i \in 1 .. n |-> [v \in Q |-> Grown(i, v)]]
           Body(f) == [k \in 0 .. n |-> IF k = 0 THEN <<>> ELSE Grown(k, f[k - 1])]
<1>1. n \in Nat /\ <<>> \in Q OBVIOUS
<1>2. \A i \in 1 .. n : list[i] \in Meta OBVIOUS
<1>3. \A i \in 1 .. n : \A v \in Q : Grown(i, v) \in Q BY <1>2
<1>4. Restricted(list, S) = (CHOOSE f : f = Body(f))[n] BY DEF Restricted
<1> HIDE DEF n, Grown
<1>5. PICK f \in [0 .. n -> Q] : f[0] = <<>> /\ \A i \in 1 .. n : f[i] = step[i][f[i - 1]]
  <2>1. step \in Steps(n, Q) BY <1>3 DEF Steps
  <2> HIDE DEF step, Q
  <2>2. Chains(n, Q, <<>>, step) # {} BY <2>1, <1>1, RecursionExists
  <2> QED BY <2>2 DEF Chains
<1> HIDE DEF Q
<1>6. \A i \in 1 .. n : f[i] = Grown(i, f[i - 1])
  <2> SUFFICES ASSUME NEW i \in 1 .. n PROVE f[i] = Grown(i, f[i - 1]) OBVIOUS
  <2>1. f[i - 1] \in Q BY <1>1
  <2> QED BY <1>5, <2>1
<1>7. f = Body(f)
  <2>1. \A k \in 0 .. n : k # 0 => k \in 1 .. n BY <1>1
  <2> QED BY <1>5, <1>6, <2>1
<1> DEFINE c == CHOOSE g : g = Body(g)
<1>8. c = Body(c) BY <1>7
<1> HIDE DEF c
<1>9. c[0] = <<>> BY <1>1, <1>8
<1>10. \A i \in 1 .. n : c[i] = Grown(i, c[i - 1])
  <2>1. \A i \in 1 .. n : i \in 0 .. n /\ i # 0 BY <1>1
  <2> QED BY <1>8, <2>1
<1> DEFINE First(i) == {list[k] : k \in 1 .. i}
           Right(i) == /\ c[i] \in Seq(Meta)
                       /\ Elems(c[i]) = First(i) \cap S
                       /\ Unrepeated(list) => Unrepeated(c[i])
           T == {i \in 0 .. n : Right(i)}
<1>11. 0 \in T
  <2>1. Elems(<<>>) = {} /\ Unrepeated(<<>>) /\ <<>> \in Seq(Meta) BY DEF Elems, Unrepeated
  <2>2. First(0) = {} OBVIOUS
  <2> HIDE DEF First
  <2> QED BY <1>1, <1>9, <2>1, <2>2
<1>12. ASSUME NEW i \in 1 .. n, i - 1 \in T PROVE i \in T
  <2> DEFINE v == c[i - 1]
             m == list[i]
  <2>1. /\ v \in Seq(Meta) /\ Elems(v) = First(i - 1) \cap S
        /\ Unrepeated(list) => Unrepeated(v)
    BY <1>12
  <2>2. First(i) = First(i - 1) \cup {m}
    <3>1. \A k : k \in 1 .. i <=> k \in 1 .. i - 1 \/ k = i BY <1>1
    <3> QED BY <3>1
  <2>3. m \in Meta BY <1>2
  <2>4. c[i] = IF m \in S THEN Append(v, m) ELSE v BY <1>10 DEF Grown
  <2>5. Unrepeated(list) => m \notin First(i - 1)
    <3> SUFFICES ASSUME Unrepeated(list), NEW k \in 1 .. i - 1, list[k] = m PROVE FALSE OBVIOUS
    <3>1. k \in 1 .. n /\ k # i BY <1>1
    <3> QED BY <3>1 DEF Unrepeated, n
  <2> HIDE DEF v, m, First
  <2>6. CASE m \in S
    <3>1. c[i] = Append(v, m) BY <2>4, <2>6
    <3>2. /\ Append(v, m) \in Seq(Meta)
          /\ Elems(Append(v, m)) = Elems(v) \cup {m}
          /\ Unrepeated(v) /\ m \notin Elems(v) => Unrepeated(Append(v, m))
      BY <2>1, <2>3, AppendIs
    <3>3. Unrepeated(list) => m \notin Elems(v) BY <2>1, <2>5
    <3>4. Right(i) BY <2>1, <2>2, <2>6, <3>1, <3>2, <3>3
    <3>5. i \in 0 .. n BY <1>1
    <3> QED BY <3>4, <3>5
  <2>7. CASE m \notin S
    <3>1. c[i] = v BY <2>4, <2>7
    <3>2. Right(i) BY <2>1, <2>2, <2>7, <3>1
    <3>3. i \in 0 .. n BY <1>1
    <3> QED BY <3>2, <3>3
  <2> QED BY <2>6, <2>7
<1>13. \A i \in 0 .. n : i \in T
  <2> HIDE DEF T
  <2> QED BY <1>1, <1>11, <1>12, SetInduction
<1>14. Right(n)
  <2>1. n \in 0 .. n BY <1>1
  <2> HIDE DEF Right
  <2> QED BY <2>1, <1>13
<1>15. Restricted(list, S) = c[n] BY <1>4 DEF c
<1>16. First(n) = Elems(list) BY DEF Elems, n
<1> HIDE DEF First
<1> QED BY <1>14, <1>15, <1>16

\* A list that is longer by another.
LEMMA ConcatIs ==
  ASSUME NEW u \in Seq(Meta), NEW v \in Seq(Meta)
  PROVE  /\ u \o v \in Seq(Meta)
         /\ Elems(u \o v) = Elems(u) \cup Elems(v)
         /\ SubSeq(u \o v, Len(u) + 1, Len(u \o v)) = v
<1> DEFINE w == u \o v
<1>1. w \in Seq(Meta) /\ Len(w) = Len(u) + Len(v) /\ Len(u) \in Nat /\ Len(v) \in Nat OBVIOUS
<1>2. \A k \in 1 .. Len(w) : w[k] = IF k <= Len(u) THEN u[k] ELSE v[k - Len(u)] OBVIOUS
<1>3. \A k \in 1 .. Len(v) : w[k + Len(u)] = v[k]
  <2> TAKE k \in 1 .. Len(v)
  <2>1. k + Len(u) \in 1 .. Len(w) /\ ~(k + Len(u) <= Len(u)) /\ (k + Len(u)) - Len(u) = k BY <1>1
  <2> QED BY <1>2, <2>1
<1>4. \A k \in 1 .. Len(u) : w[k] = u[k] /\ k \in 1 .. Len(w) BY <1>1, <1>2
<1> HIDE DEF w
<1>5. Elems(w) = Elems(u) \cup Elems(v)
  <2>1. ASSUME NEW k \in 1 .. Len(w) PROVE w[k] \in Elems(u) \cup Elems(v)
    <3>1. k <= Len(u) => k \in 1 .. Len(u) BY <1>1
    <3>2. ~(k <= Len(u)) => k - Len(u) \in 1 .. Len(v) BY <1>1
    <3> QED BY <1>2, <3>1, <3>2 DEF Elems
  <2>2. ASSUME NEW k \in 1 .. Len(u) PROVE u[k] \in Elems(w) BY <1>4 DEF Elems
  <2>3. ASSUME NEW k \in 1 .. Len(v) PROVE v[k] \in Elems(w)
    <3>1. k + Len(u) \in 1 .. Len(w) BY <1>1
    <3> QED BY <1>3, <3>1 DEF Elems
  <2> QED BY <2>1, <2>2, <2>3 DEF Elems
<1>6. SubSeq(w, Len(u) + 1, Len(w)) = v BY ConcatSuffix DEF w
<1> QED BY <1>1, <1>5, <1>6 DEF w

-----------------------------------------------------------------------------
(* The invariant *)

\* Children are nodes that were made, each by one parent, at one byte.
TreeInv ==
    /\ OneWayToNode
    /\ \A n \in Node : \A x \in maps[n] : x[2] \in 2 .. nodeNum

\* A signature on its way down is nobody else's, and nowhere stored.
InsertInv ==
    /\ \A i \in Inserters : imeta[i] # NoMeta =>
            /\ imeta[i] \in taken \ inserted
            /\ inode[i] \in Way(maps, Data[imeta[i]], ilevel[i])
    /\ \A i, j \in Inserters : imeta[i] # NoMeta /\ imeta[i] = imeta[j] => i = j

\* What stands at a node belongs there, and stands there once.
LeafInv ==
    \A n \in Node :
        /\ Unrepeated(ptrList[n])
        /\ \A m \in Elems(ptrList[n]) :
              m \in inserted /\ n \in Way(maps, Data[m], Levels)

\* What was reported is not there any more.
ReportInv ==
    \A s \in Searchers : \A m \in Elems(removedQuery[s]) :
        m \in inserted /\ m \notin Stored

\* A search has in some activation a node on the way to everything it owes.
Ahead(s, m) ==
    \E k \in 1 .. Len(stack[s]) : stack[s][k] \cap Way(maps, Data[m], k - 1) # {}

SearchInv ==
    \A s \in Searchers :
        /\ Len(stack[s]) <= Levels + 1
        /\ stack[s] # <<>> => Stored \subseteq seen[s]
        /\ \A m \in owed[s] : m \in inserted /\ squery[s] \subseteq Data[m]
        /\ \A m \in owed[s] \cap Stored : Ahead(s, m)

TrieInv == TypeOK /\ TreeInv /\ InsertInv /\ LeafInv /\ ReportInv /\ SearchInv

LEMMA StoredIs ==
  /\ TypeOK => \A m : m \in Stored <=> \E n \in Node : m \in Elems(ptrList[n])
  /\ TypeOK' => \A m : m \in Stored' <=> \E n \in Node : m \in Elems(ptrList'[n])
<1>1. ASSUME TypeOK PROVE \A m : m \in Stored <=> \E n \in Node : m \in Elems(ptrList[n])
  <2>1. \A n \in Node : \A k \in 1 .. Len(ptrList[n]) : ptrList[n][k] \in Meta
    BY <1>1 DEF TypeOK
  <2> QED BY <2>1 DEF Stored, Elems
<1>2. ASSUME TypeOK' PROVE \A m : m \in Stored' <=> \E n \in Node : m \in Elems(ptrList'[n])
  <2>1. \A n \in Node : \A k \in 1 .. Len(ptrList'[n]) : ptrList'[n][k] \in Meta
    BY <1>2 DEF TypeOK
  <2> QED BY <2>1 DEF Stored, Elems
<1> QED BY <1>1, <1>2

\* The properties follow.
LEMMA TrieInvProperties ==
  ASSUME TrieInv
  PROVE  TypeOK /\ OneWayToNode /\ StoredAtOwnLeaf
<1>1. TypeOK /\ OneWayToNode BY DEF TrieInv, TreeInv
<1>2. ASSUME NEW i \in Inserters, imeta[i] # NoMeta
      PROVE  inode[i] \in NodesOn(Data[imeta[i]], ilevel[i])
  BY <1>2, NodesOnIsWay DEF TrieInv, InsertInv
<1>3. ASSUME NEW n \in Node, NEW k \in 1 .. Len(ptrList[n])
      PROVE  n \in NodesOn(Data[ptrList[n][k]], Levels)
  <2>1. ptrList[n][k] \in Elems(ptrList[n]) BY DEF Elems
  <2> QED BY <2>1, NodesOnIsWay DEF TrieInv, LeafInv
<1>4. ASSUME NEW n \in Node, NEW k \in 1 .. Len(ptrList[n]), NEW l \in 1 .. k - 1
      PROVE  ptrList[n][l] # ptrList[n][k]
  <2>1. l \in 1 .. Len(ptrList[n]) /\ l # k BY <1>1 DEF TypeOK
  <2> QED BY <2>1 DEF TrieInv, LeafInv, Unrepeated
<1> QED BY <1>1, <1>2, <1>3, <1>4 DEF StoredAtOwnLeaf

LEMMA TrieInit == Init => TrieInv
<1> SUFFICES ASSUME Init PROVE TrieInv OBVIOUS
<1>1. Root \in Node /\ Levels \in Nat BY TrieTreeAssumption DEF Root, Node
<1>2. TypeOK BY <1>1 DEF Init, TypeOK, Filter
<1>3. TreeInv BY DEF Init, TreeInv, OneWayToNode
<1>4. InsertInv BY DEF Init, InsertInv
<1>5. Elems(<<>>) = {} /\ Unrepeated(<<>>) BY DEF Elems, Unrepeated
<1>6. LeafInv BY <1>5 DEF Init, LeafInv
<1>7. ReportInv BY <1>5 DEF Init, ReportInv
<1>8. SearchInv
  <2>1. Len(<<>>) = 0 OBVIOUS
  <2> QED BY <1>1, <2>1 DEF Init, SearchInv
<1> QED BY <1>2, <1>3, <1>4, <1>6, <1>7, <1>8 DEF TrieInv

-----------------------------------------------------------------------------
(* Insertions *)

LEMMA Insert2Inv ==
  ASSUME TrieInv, NEW i \in Inserters, NEW m \in Meta, Insert2(i, m)
  PROVE  TrieInv'
<1> USE DEF TrieInv
<1>1. /\ imeta[i] = NoMeta /\ m \in Meta \ taken /\ taken' = taken \cup {m}
      /\ imeta' = [imeta EXCEPT ![i] = m] /\ inode' = [inode EXCEPT ![i] = Root]
      /\ ilevel' = [ilevel EXCEPT ![i] = 0]
      /\ UNCHANGED <<nodeNum, maps, ptrList, inserted, squery, stack, removedQuery, asked, owed, seen>>
  BY DEF Insert2, treeVars, searchVars
<1>2. Root \in Node /\ Levels \in Nat /\ NoMeta \notin Meta BY TrieTreeAssumption DEF Root, Node
<1>3. TypeOK' BY <1>1, <1>2 DEF TypeOK
<1>4. TreeInv' BY <1>1 DEF TreeInv, OneWayToNode
<1>5. InsertInv'
  <2>1. m \notin inserted /\ \A j \in Inserters : imeta[j] # m \/ imeta[j] = NoMeta
    BY <1>1 DEF InsertInv, TypeOK
  <2>2. Root \in Way(maps, Data[m], 0)
    <3>1. maps \in Maps BY DEF TypeOK, Maps
    <3>2. Way(maps, Data[m], 0) = {Root} BY <3>1, WayStep
    <3> QED BY <3>2
  <2>3. ASSUME NEW j \in Inserters, imeta'[j] # NoMeta
        PROVE  imeta'[j] \in taken' \ inserted' /\ inode'[j] \in Way(maps', Data[imeta'[j]], ilevel'[j])
    <3>1. CASE j = i
      <4>1. imeta'[j] = m /\ inode'[j] = Root /\ ilevel'[j] = 0 BY <1>1, <3>1 DEF TypeOK
      <4> QED BY <4>1, <1>1, <2>1, <2>2
    <3>2. CASE j # i
      <4>1. imeta'[j] = imeta[j] /\ inode'[j] = inode[j] /\ ilevel'[j] = ilevel[j]
        BY <1>1, <3>2 DEF TypeOK
      <4> QED BY <4>1, <1>1, <2>3 DEF InsertInv
    <3> QED BY <3>1, <3>2
  <2>4. ASSUME NEW j \in Inserters, NEW k \in Inserters, imeta'[j] # NoMeta, imeta'[j] = imeta'[k]
        PROVE  j = k
    BY <1>1, <1>2, <2>1, <2>4 DEF InsertInv, TypeOK
  <2> QED BY <2>3, <2>4 DEF InsertInv
<1>6. LeafInv' BY <1>1 DEF LeafInv
<1>7. ReportInv' BY <1>1 DEF ReportInv, Stored
<1>8. SearchInv' BY <1>1 DEF SearchInv, Stored, Ahead
<1> QED BY <1>3, <1>4, <1>5, <1>6, <1>7, <1>8

\* The step of an insertion goes one byte further on the way of its signature.
LEMMA StepDownWay ==
  ASSUME TrieInv, NEW i \in Inserters, StepDown(i)
  PROVE  /\ nodeNum' \in nodeNum .. MaxNode
         /\ maps' \in Maps /\ (\A n \in Node : maps[n] \subseteq maps'[n])
         /\ inode' \in [Inserters -> Node] /\ ilevel' \in [Inserters -> 0 .. Levels]
         /\ inode'[i] \in Way(maps', Data[imeta[i]], ilevel'[i])
         /\ \A j \in Inserters \ {i} : inode'[j] = inode[j] /\ ilevel'[j] = ilevel[j]
         /\ TreeInv'
<1> DEFINE n == inode[i]
           m == imeta[i]
           l == ilevel[i]
           ch == ByteAt(Data[m], l + 1)
<1> USE DEF TrieInv
<1>1. n \in Node /\ m \in Meta /\ l \in 0 .. Levels - 1 /\ Levels \in Nat
  BY TrieTreeAssumption DEF StepDown, MoreBytes, TypeOK
<1>2. maps \in Maps /\ nodeNum \in Node BY DEF TypeOK, Maps
<1>3. n \in Way(maps, Data[m], l) BY DEF InsertInv, StepDown
<1>4. ch \in Byte BY DEF ByteAt, Byte
<1>5. ilevel' \in [Inserters -> 0 .. Levels] /\ ilevel'[i] = l + 1
  BY <1>1 DEF StepDown, TypeOK
<1>6. \A j \in Inserters \ {i} : inode'[j] = inode[j] /\ ilevel'[j] = ilevel[j]
  BY DEF StepDown, TypeOK
<1>7. ASSUME NEW mp \in Maps, NEW c, \E x \in mp[n] : x[1] = ch /\ x[2] = c,
             n \in Way(mp, Data[m], l)
      PROVE  c \in Way(mp, Data[m], l + 1)
  <2>1. /\ Way(mp, Data[m], l) \in SUBSET Node
        /\ Way(mp, Data[m], l + 1) = Below(mp, Data[m], l + 1, Way(mp, Data[m], l))
    <3>1. l \in Nat BY <1>1
    <3> HIDE DEF l, m
    <3> QED BY <3>1, WayStep
  <2>2. c \in Below(mp, Data[m], l + 1, Way(mp, Data[m], l)) BY <1>7, <2>1, BelowType
  <2> QED BY <2>1, <2>2
<1>8. CASE \E child \in FoundChild(n, ch) : inode' = [inode EXCEPT ![i] = child]
                                            /\ UNCHANGED <<nodeNum, maps>>
  <2>1. PICK child \in FoundChild(n, ch) : inode' = [inode EXCEPT ![i] = child]
    BY <1>8
  <2>2. \E x \in maps[n] : x[1] = ch /\ x[2] = child BY DEF FoundChild
  <2>3. child \in Node BY <2>2, <1>1, <1>2 DEF Maps
  <2>4. inode' \in [Inserters -> Node] /\ inode'[i] = child BY <2>1, <2>3 DEF TypeOK
  <2>5. child \in Way(maps, Data[m], l + 1) BY <1>2, <1>3, <1>7, <2>2
  <2>6. TreeInv' BY <1>8 DEF TreeInv, OneWayToNode
  <2>7. nodeNum' \in nodeNum .. MaxNode /\ maps' = maps BY <1>2, <1>8, TrieTreeAssumption DEF Node
  <2> QED BY <1>2, <1>5, <1>6, <2>4, <2>5, <2>6, <2>7
<1>9. CASE /\ FoundChild(n, ch) = {} /\ nodeNum < MaxNode /\ nodeNum' = nodeNum + 1
           /\ maps' = [maps EXCEPT ![n] = @ \cup {<<ch, nodeNum + 1>>}]
           /\ inode' = [inode EXCEPT ![i] = nodeNum + 1]
  <2> DEFINE new == nodeNum + 1
             edge == <<ch, new>>
  <2>1. new \in Node /\ new \in 2 .. new /\ nodeNum' \in nodeNum .. MaxNode /\ nodeNum \in Nat
    BY <1>2, <1>9, TrieTreeAssumption DEF Node
  <2>2. edge \in Byte \X Node /\ edge[1] = ch /\ edge[2] = new BY <1>4, <2>1
  <2>3. \A p \in Node : maps'[p] = IF p = n THEN maps[p] \cup {edge} ELSE maps[p]
    BY <1>2, <1>9 DEF Maps
  <2>4. maps' \in Maps
    <3> HIDE DEF edge
    <3>1. maps[n] \cup {edge} \in SUBSET (Byte \X Node) BY <1>1, <1>2, <2>2 DEF Maps
    <3>2. maps' = [maps EXCEPT ![n] = maps[n] \cup {edge}] BY <1>9 DEF edge
    <3> QED BY <1>2, <3>1, <3>2 DEF Maps
  <2>5. \A x \in maps[n] : x[1] # ch BY <1>9 DEF FoundChild
  <2>6. \A p \in Node : \A x \in maps[p] : x[2] \in 2 .. nodeNum BY DEF TreeInv
  <2> HIDE DEF edge, ch
  <2>7. \A p \in Node : maps[p] \subseteq maps'[p] BY <2>3
  <2>8. TreeInv'
    <3>1. \A p \in Node : \A x \in maps[p] : x[2] # new BY <2>1, <2>6
    <3>2. \A p \in Node : \A x, y \in maps'[p] : x[1] = y[1] => x = y
      <4> SUFFICES ASSUME NEW p \in Node, NEW x \in maps'[p], NEW y \in maps'[p], x[1] = y[1]
                   PROVE  x = y
        OBVIOUS
      <4>1. x \in maps[p] \/ (p = n /\ x = edge) BY <2>3
      <4>2. y \in maps[p] \/ (p = n /\ y = edge) BY <2>3
      <4> QED BY <2>2, <2>5, <4>1, <4>2 DEF TreeInv, OneWayToNode
    <3>3. \A p, q \in Node : \A x \in maps'[p], y \in maps'[q] : x[2] = y[2] => p = q /\ x = y
      <4> SUFFICES ASSUME NEW p \in Node, NEW q \in Node, NEW x \in maps'[p], NEW y \in maps'[q],
                          x[2] = y[2]
                   PROVE  p = q /\ x = y
        OBVIOUS
      <4>1. x \in maps[p] \/ (p = n /\ x = edge) BY <2>3
      <4>2. y \in maps[q] \/ (q = n /\ y = edge) BY <2>3
      <4> QED BY <2>2, <3>1, <4>1, <4>2 DEF TreeInv, OneWayToNode
    <3>4. \A p \in Node : \A x \in maps'[p] : x[2] \in 2 .. nodeNum'
      <4> SUFFICES ASSUME NEW p \in Node, NEW x \in maps'[p] PROVE x[2] \in 2 .. nodeNum' OBVIOUS
      <4>1. x \in maps[p] \/ x = edge BY <2>3
      <4> QED BY <1>9, <2>1, <2>2, <2>6, <4>1
    <3> QED BY <3>2, <3>3, <3>4 DEF TreeInv, OneWayToNode
  <2>9. n \in Way(maps', Data[m], l)
    <3>1. l \in Nat BY <1>1
    <3>2. Way(maps, Data[m], l) \subseteq Way(maps', Data[m], l) BY <1>2, <2>4, <2>7, <3>1, WayGrows
    <3> QED BY <1>3, <3>2
  <2>10. new \in Way(maps', Data[m], l + 1)
    <3>1. \E x \in maps'[n] : x[1] = ch /\ x[2] = new BY <1>1, <2>2, <2>3
    <3> QED BY <1>7, <2>4, <2>9, <3>1
  <2>11. inode' \in [Inserters -> Node] /\ inode'[i] = new BY <1>9, <2>1 DEF TypeOK
  <2> QED BY <1>5, <1>6, <2>1, <2>4, <2>7, <2>8, <2>10, <2>11
<1> QED BY <1>8, <1>9 DEF StepDown

LEMMA StepDownInv ==
  ASSUME TrieInv, NEW i \in Inserters, StepDown(i)
  PROVE  TrieInv'
<1> USE DEF TrieInv
<1>1. UNCHANGED <<ptrList, imeta, taken, inserted, squery, stack, removedQuery, asked, owed, seen>>
  BY DEF StepDown, searchVars
<1>2. /\ nodeNum' \in nodeNum .. MaxNode
      /\ maps' \in Maps /\ (\A n \in Node : maps[n] \subseteq maps'[n])
      /\ inode' \in [Inserters -> Node] /\ ilevel' \in [Inserters -> 0 .. Levels]
      /\ inode'[i] \in Way(maps', Data[imeta[i]], ilevel'[i])
      /\ \A j \in Inserters \ {i} : inode'[j] = inode[j] /\ ilevel'[j] = ilevel[j]
      /\ TreeInv'
  BY StepDownWay
<1>3. maps \in Maps /\ Levels \in Nat /\ imeta[i] # NoMeta
  BY TrieTreeAssumption DEF TypeOK, Maps, StepDown
<1>4. TypeOK' BY <1>1, <1>2 DEF TypeOK, Maps, Node
<1>5. \A filter : \A l \in Nat : Way(maps, filter, l) \subseteq Way(maps', filter, l)
  BY <1>2, <1>3, WayGrows
<1>6. InsertInv'
  <2>1. ASSUME NEW j \in Inserters, imeta[j] # NoMeta
        PROVE  inode'[j] \in Way(maps', Data[imeta[j]], ilevel'[j])
    <3>1. CASE j = i BY <1>2, <3>1
    <3>2. CASE j # i
      <4>1. inode[j] \in Way(maps, Data[imeta[j]], ilevel[j]) /\ ilevel[j] \in Nat
        BY <2>1, <1>3 DEF InsertInv, TypeOK
      <4> QED BY <1>2, <1>5, <3>2, <4>1
    <3> QED BY <3>1, <3>2
  <2> QED BY <1>1, <2>1 DEF InsertInv
<1>7. LeafInv' BY <1>1, <1>3, <1>5 DEF LeafInv
<1>8. ReportInv' BY <1>1 DEF ReportInv, Stored
<1>9. SearchInv'
  <2>1. ASSUME NEW s \in Searchers, NEW m, Ahead(s, m) PROVE Ahead(s, m)'
    <3>1. PICK k \in 1 .. Len(stack[s]) : stack[s][k] \cap Way(maps, Data[m], k - 1) # {}
      BY <2>1 DEF Ahead
    <3>2. k - 1 \in Nat BY DEF TypeOK
    <3> QED BY <1>1, <1>5, <3>1, <3>2 DEF Ahead
  <2> QED BY <1>1, <2>1 DEF SearchInv, Stored
<1> QED BY <1>2, <1>4, <1>6, <1>7, <1>8, <1>9

\* A signature is stored where its way ends.
LEMMA PushLeafInv ==
  ASSUME TrieInv, NEW i \in Inserters, PushLeaf(i)
  PROVE  TrieInv' /\ imeta[i] \in Meta \ inserted /\ Stored' = Stored \cup {imeta[i]}
<1> DEFINE m == imeta[i]
           n == inode[i]
<1> USE DEF TrieInv
<1>1. /\ m # NoMeta /\ ~MoreBytes(i)
      /\ ptrList' = [ptrList EXCEPT ![n] = Append(@, m)] /\ inserted' = inserted \cup {m}
      /\ seen' = [s \in Searchers |-> IF stack[s] = <<>> THEN {} ELSE seen[s] \cup {m}]
      /\ imeta' = [imeta EXCEPT ![i] = NoMeta] /\ inode' = [inode EXCEPT ![i] = Root]
      /\ ilevel' = [ilevel EXCEPT ![i] = 0]
      /\ UNCHANGED <<nodeNum, maps, taken, squery, stack, removedQuery, asked, owed>>
  BY DEF PushLeaf, searchVars
<1>2. /\ m \in Meta /\ n \in Node /\ Root \in Node /\ Levels \in Nat
      /\ m \in taken /\ m \notin inserted
  BY <1>1, TrieTreeAssumption DEF TypeOK, InsertInv, Root, Node
<1>3. n \in Way(maps, Data[m], Levels)
  <2>1. ilevel[i] = Levels BY <1>1, <1>2 DEF MoreBytes, TypeOK
  <2> QED BY <1>1, <2>1 DEF InsertInv
<1>4. \A p \in Node : m \notin Elems(ptrList[p]) BY <1>2 DEF LeafInv
<1>5. /\ Append(ptrList[n], m) \in Seq(Meta)
      /\ Elems(Append(ptrList[n], m)) = Elems(ptrList[n]) \cup {m}
      /\ Unrepeated(Append(ptrList[n], m))
  <2>1. ptrList[n] \in Seq(Meta) BY <1>2 DEF TypeOK
  <2>2. Unrepeated(ptrList[n]) /\ m \notin Elems(ptrList[n]) BY <1>2, <1>4 DEF LeafInv
  <2> HIDE DEF m, n
  <2> QED BY <2>1, <2>2, <1>2, AppendIs
<1>6. /\ ptrList' \in [Node -> Seq(Meta)]
      /\ ptrList'[n] = Append(ptrList[n], m)
      /\ \A p \in Node \ {n} : ptrList'[p] = ptrList[p]
  BY <1>1, <1>2, <1>5 DEF TypeOK
<1> HIDE DEF m, n
<1>7. TypeOK'
  <2>1. seen' \in [Searchers -> SUBSET Meta] BY <1>1, <1>2 DEF TypeOK
  <2>2. imeta' \in [Inserters -> Meta \cup {NoMeta}] BY <1>1 DEF TypeOK
  <2>3. inode' \in [Inserters -> Node] /\ ilevel' \in [Inserters -> 0 .. Levels]
    BY <1>1, <1>2 DEF TypeOK
  <2> QED BY <1>1, <1>2, <1>6, <2>1, <2>2, <2>3 DEF TypeOK
<1>8. Stored' = Stored \cup {m}
  <2>1. \A x : x \in Stored <=> \E p \in Node : x \in Elems(ptrList[p]) BY StoredIs
  <2>2. \A x : x \in Stored' <=> \E p \in Node : x \in Elems(ptrList'[p]) BY <1>7, StoredIs
  <2>3. \A p \in Node : Elems(ptrList'[p]) = IF p = n THEN Elems(ptrList[p]) \cup {m}
                                             ELSE Elems(ptrList[p])
    BY <1>5, <1>6
  <2> QED BY <1>2, <2>1, <2>2, <2>3
<1>9. TreeInv' BY <1>1 DEF TreeInv, OneWayToNode
<1>10. InsertInv'
  <2>1. \A j \in Inserters : imeta'[j] = (IF j = i THEN NoMeta ELSE imeta[j])
    BY <1>1 DEF TypeOK
  <2>2. \A j \in Inserters \ {i} : inode'[j] = inode[j] /\ ilevel'[j] = ilevel[j]
    BY <1>1 DEF TypeOK
  <2>3. \A j \in Inserters \ {i} : imeta[j] # NoMeta => imeta[j] # m
    BY <1>1 DEF InsertInv, m
  <2> QED BY <1>1, <2>1, <2>2, <2>3 DEF InsertInv
<1>11. LeafInv'
  <2> SUFFICES ASSUME NEW p \in Node
               PROVE  /\ Unrepeated(ptrList'[p])
                      /\ \A x \in Elems(ptrList'[p]) :
                            x \in inserted' /\ p \in Way(maps', Data[x], Levels)
    BY DEF LeafInv
  <2>1. CASE p = n BY <1>1, <1>3, <1>5, <1>6, <2>1 DEF LeafInv
  <2>2. CASE p # n BY <1>1, <1>6, <2>2 DEF LeafInv
  <2> QED BY <2>1, <2>2
<1>12. ReportInv' BY <1>1, <1>2, <1>8 DEF ReportInv
<1>13. SearchInv'
  <2>1. \A s \in Searchers : \A x : Ahead(s, x)' <=> Ahead(s, x) BY <1>1 DEF Ahead
  <2>2. \A s \in Searchers : m \notin owed[s] BY <1>2 DEF SearchInv
  <2>3. \A s \in Searchers : stack[s] # <<>> => seen'[s] = seen[s] \cup {m} BY <1>1
  <2> QED BY <1>1, <1>8, <2>1, <2>2, <2>3 DEF SearchInv
<1> QED BY <1>2, <1>7, <1>8, <1>9, <1>10, <1>11, <1>12, <1>13 DEF m

-----------------------------------------------------------------------------
(* Searches *)

\* A search changes nothing of the tree, of insertions or of other searches.
LEMMA SearcherFrame ==
  ASSUME TrieInv, UNCHANGED <<maps, nodeNum, insVars>>
  PROVE  TreeInv' /\ InsertInv'
  BY DEF TrieInv, TreeInv, OneWayToNode, InsertInv, insVars

LEMMA SearchBegins ==
  ASSUME TrieInv, NEW s \in Searchers, NEW q \in Queries, Search(s, q)
  PROVE  TrieInv'
<1> USE DEF TrieInv
<1>1. /\ asked' = [asked EXCEPT ![s] = @ + 1] /\ squery' = [squery EXCEPT ![s] = q]
      /\ stack' = [stack EXCEPT ![s] = <<{Root}>>]
      /\ owed' = [owed EXCEPT ![s] = {m \in Stored : q \subseteq Data[m]}]
      /\ seen' = [seen EXCEPT ![s] = Stored]
      /\ UNCHANGED <<nodeNum, maps, ptrList, insVars, removedQuery>>
  BY DEF Search, treeVars
<1>2. Root \in Node /\ q \in Filter /\ Levels \in Nat BY TrieTreeAssumption DEF Root, Node
<1>3. Stored \subseteq Meta /\ Stored' = Stored BY <1>1 DEF Stored
<1>4. TypeOK'
  <2>1. <<{Root}>> \in Seq(SUBSET Node) BY <1>2
  <2>2. stack' \in [Searchers -> Seq(SUBSET Node)] BY <1>1, <2>1 DEF TypeOK
  <2>3. asked' \in [Searchers -> Nat] /\ squery' \in [Searchers -> Filter]
    BY <1>1, <1>2 DEF TypeOK
  <2>4. owed' \in [Searchers -> SUBSET Meta] /\ seen' \in [Searchers -> SUBSET Meta]
    BY <1>1, <1>3 DEF TypeOK
  <2> QED BY <1>1, <2>2, <2>3, <2>4 DEF TypeOK, insVars
<1>5. TreeInv' /\ InsertInv' BY <1>1, SearcherFrame
<1>6. LeafInv' BY <1>1 DEF LeafInv, insVars
<1>7. ReportInv' BY <1>1, <1>3 DEF ReportInv, insVars
<1>8. SearchInv'
  <2>1. \A m \in Stored : m \in inserted BY StoredIs DEF LeafInv
  <2>2. ASSUME NEW t \in Searchers, t # s
        PROVE  /\ stack'[t] = stack[t] /\ owed'[t] = owed[t] /\ seen'[t] = seen[t]
               /\ squery'[t] = squery[t]
    BY <1>1, <2>2 DEF TypeOK
  <2>3. /\ stack'[s] = <<{Root}>> /\ squery'[s] = q /\ seen'[s] = Stored
        /\ owed'[s] = {m \in Stored : q \subseteq Data[m]}
    BY <1>1 DEF TypeOK
  <2>4. \A m : Ahead(s, m)'
    <3>1. maps \in Maps BY DEF TypeOK, Maps
    <3>2. \A m : Way(maps, Data[m], 0) = {Root} BY <3>1, WayStep
    <3>3. Len(<<{Root}>>) = 1 /\ <<{Root}>>[1] = {Root} OBVIOUS
    <3>4. 1 \in 1 .. 1 /\ 1 - 1 = 0 OBVIOUS
    <3> QED BY <1>1, <2>3, <3>2, <3>3, <3>4 DEF Ahead
  <2>5. Len(stack'[s]) <= Levels + 1 BY <1>2, <2>3
  <2>6. ASSUME NEW t \in Searchers, t # s
        PROVE  \A m : Ahead(t, m) => Ahead(t, m)'
    BY <1>1, <2>2, <2>6 DEF Ahead
  <2>7. inserted' = inserted BY <1>1 DEF insVars
  <2> SUFFICES ASSUME NEW t \in Searchers
               PROVE  /\ Len(stack'[t]) <= Levels + 1
                      /\ stack'[t] # <<>> => Stored' \subseteq seen'[t]
                      /\ \A m \in owed'[t] : m \in inserted' /\ squery'[t] \subseteq Data[m]
                      /\ \A m \in owed'[t] \cap Stored' : Ahead(t, m)'
    BY DEF SearchInv
  <2>8. CASE t = s BY <1>3, <2>1, <2>3, <2>4, <2>5, <2>7, <2>8
  <2>9. CASE t # s BY <1>3, <2>2, <2>6, <2>7, <2>9 DEF SearchInv
  <2> QED BY <2>8, <2>9
<1> QED BY <1>4, <1>5, <1>6, <1>7, <1>8

\* A step inside the search of s keeps what the others have.
LEMMA OthersSearch ==
  ASSUME TrieInv, TypeOK', NEW s \in Searchers,
         UNCHANGED <<maps, inserted>>, Stored' \subseteq Stored,
         \A t \in Searchers \ {s} : /\ stack'[t] = stack[t] /\ owed'[t] = owed[t]
                                    /\ seen'[t] = seen[t] /\ squery'[t] = squery[t],
         /\ Len(stack'[s]) <= Levels + 1
         /\ stack'[s] # <<>> => stack[s] # <<>> /\ seen'[s] = seen[s]
         /\ owed'[s] \subseteq owed[s]
         /\ owed'[s] # {} => squery'[s] = squery[s]
         /\ \A m \in owed'[s] \cap Stored' : Ahead(s, m)'
  PROVE  SearchInv'
<1>1. ASSUME NEW t \in Searchers \ {s} PROVE \A m : Ahead(t, m) => Ahead(t, m)'
  BY DEF Ahead
<1> SUFFICES ASSUME NEW t \in Searchers
             PROVE  /\ Len(stack'[t]) <= Levels + 1
                    /\ stack'[t] # <<>> => Stored' \subseteq seen'[t]
                    /\ \A m \in owed'[t] : m \in inserted' /\ squery'[t] \subseteq Data[m]
                    /\ \A m \in owed'[t] \cap Stored' : Ahead(t, m)'
  BY DEF SearchInv
<1>2. CASE t = s BY <1>2 DEF TrieInv, SearchInv
<1>3. CASE t # s BY <1>1, <1>3 DEF TrieInv, SearchInv
<1> QED BY <1>2, <1>3

LEMMA StackTop ==
  ASSUME TrieInv, NEW s \in Searchers, stack[s] # <<>>
  PROVE  /\ Len(stack[s]) \in Nat \ {0} /\ stack[s] \in Seq(SUBSET Node)
         /\ Depth(s) = Len(stack[s]) - 1
         /\ Pending(s) = stack[s][Len(stack[s])] /\ Pending(s) \subseteq Node
         /\ \A n : /\ Visited(s, n) \in Seq(SUBSET Node)
                   /\ Len(Visited(s, n)) = Len(stack[s])
                   /\ Visited(s, n)[Len(stack[s])] = Pending(s) \ {n}
                   /\ \A k \in 1 .. Len(stack[s]) - 1 : Visited(s, n)[k] = stack[s][k]
<1>1. stack[s] \in Seq(SUBSET Node) BY DEF TrieInv, TypeOK
<1>2. Len(stack[s]) \in Nat \ {0} BY <1>1
<1> DEFINE L == Len(stack[s])
<1>3. Pending(s) = stack[s][L] /\ Pending(s) \in SUBSET Node BY <1>1, <1>2 DEF Pending
<1>4. ASSUME NEW n
      PROVE  /\ Visited(s, n) \in Seq(SUBSET Node) /\ Len(Visited(s, n)) = L
             /\ Visited(s, n)[L] = Pending(s) \ {n}
             /\ \A k \in 1 .. L - 1 : Visited(s, n)[k] = stack[s][k]
  <2>1. Visited(s, n) = [stack[s] EXCEPT ![L] = Pending(s) \ {n}] BY <1>3 DEF Visited
  <2>2. Pending(s) \ {n} \in SUBSET Node /\ L \in 1 .. L BY <1>2, <1>3
  <2> HIDE DEF L
  <2>3. stack[s] \in [1 .. L -> SUBSET Node] BY <1>1 DEF L
  <2> QED BY <1>1, <1>2, <2>1, <2>2, <2>3 DEF L
<1> QED BY <1>1, <1>2, <1>3, <1>4 DEF Depth

\* What is stored has a way that goes on at every depth.
LEMMA StoredHasWay ==
  ASSUME TrieInv, NEW m \in Stored
  PROVE  /\ \A k \in 0 .. Levels : Way(maps, Data[m], k) # {}
         /\ \A k \in Nat : \A a, b \in Way(maps, Data[m], k) : a = b
<1>1. PICK n \in Node : m \in Elems(ptrList[n]) BY StoredIs DEF TrieInv
<1>2. n \in Way(maps, Data[m], Levels) BY <1>1 DEF TrieInv, LeafInv
<1>3. maps \in Maps /\ Levels \in Nat BY TrieTreeAssumption DEF TrieInv, TypeOK, Maps
<1>4. \A k \in 0 .. Levels : Way(maps, Data[m], k) # {} BY <1>2, <1>3, WayPrefix
<1>5. OneChild(maps) BY DEF TrieInv, TreeInv, OneWayToNode, OneChild
<1>6. \A k \in Nat : \A a, b \in Way(maps, Data[m], k) : a = b BY <1>3, <1>5, WaySingle
<1> QED BY <1>4, <1>6

\* The children that Search collects continue the way of all it owes.
LEMMA VisitNodeInv ==
  ASSUME TrieInv, NEW s \in Searchers, VisitNode(s)
  PROVE  TrieInv'
<1> DEFINE L == Len(stack[s])
           ch == ByteAt(squery[s], L)
           matching(n) == {e[2] : e \in {x \in maps[n] : Follows(ch, x[1])}}
<1>1. /\ stack[s] # <<>> /\ Depth(s) < Levels
      /\ UNCHANGED <<nodeNum, maps, ptrList, insVars, squery, removedQuery, asked, owed, seen>>
  BY DEF VisitNode, treeVars
<1>2. /\ L \in Nat \ {0} /\ Depth(s) = L - 1
      /\ Pending(s) = stack[s][L] /\ Pending(s) \subseteq Node
      /\ \A n : /\ Visited(s, n) \in Seq(SUBSET Node) /\ Len(Visited(s, n)) = L
                /\ Visited(s, n)[L] = Pending(s) \ {n}
                /\ \A k \in 1 .. L - 1 : Visited(s, n)[k] = stack[s][k]
  BY <1>1, StackTop
<1>3. L < Levels + 1 /\ Levels \in Nat /\ L = Depth(s) + 1 BY <1>1, <1>2, TrieTreeAssumption
<1>4. PICK n \in Pending(s) : stack' = [stack EXCEPT ![s] = Append(Visited(s, n), matching(n))]
  BY <1>3 DEF VisitNode
<1>5. n \in Node /\ maps \in Maps BY <1>2 DEF TrieInv, TypeOK, Maps
<1>6. /\ matching(n) \in SUBSET Node
      /\ \A x \in maps[n] : Follows(ch, x[1]) => x[2] \in matching(n)
  BY <1>5 DEF Maps
<1> DEFINE longer == Append(Visited(s, n), matching(n))
<1>7. /\ longer \in Seq(SUBSET Node) /\ Len(longer) = L + 1 /\ longer[L + 1] = matching(n)
      /\ longer[L] = Pending(s) \ {n}
      /\ \A k \in 1 .. L - 1 : longer[k] = stack[s][k]
  <2> DEFINE v == Visited(s, n)
             c == matching(n)
  <2>1. /\ v \in Seq(SUBSET Node) /\ Len(v) = L /\ c \in SUBSET Node
        /\ v[L] = Pending(s) \ {n} /\ (\A k \in 1 .. L - 1 : v[k] = stack[s][k])
    BY <1>2, <1>6
  <2> HIDE DEF v, c, L
  <2>2. Append(v, c) \in Seq(SUBSET Node) /\ Len(Append(v, c)) = L + 1 /\ Append(v, c)[L + 1] = c
        /\ \A k \in 1 .. L : Append(v, c)[k] = v[k]
    BY <2>1
  <2> QED BY <1>2, <2>1, <2>2 DEF v, c
<1>8. stack'[s] = longer /\ \A t \in Searchers \ {s} : stack'[t] = stack[t]
  BY <1>4 DEF TrieInv, TypeOK
<1>9. stack' \in [Searchers -> Seq(SUBSET Node)] BY <1>4, <1>7 DEF TrieInv, TypeOK
<1> HIDE DEF longer, matching
<1>10. TypeOK' BY <1>1, <1>9 DEF TrieInv, TypeOK, insVars
<1>11. TreeInv' /\ InsertInv' BY <1>1, SearcherFrame
<1>12. Stored' = Stored /\ inserted' = inserted BY <1>1 DEF Stored, insVars
<1>13. LeafInv' BY <1>1, <1>12 DEF TrieInv, LeafInv
<1>14. ReportInv' BY <1>1, <1>12 DEF TrieInv, ReportInv
<1>15. ASSUME NEW m \in owed[s] \cap Stored PROVE Ahead(s, m)'
  <2>1. PICK k \in 1 .. L : stack[s][k] \cap Way(maps, Data[m], k - 1) # {}
    BY DEF TrieInv, SearchInv, Ahead
  <2>2. k \in 1 .. L + 1 BY <1>2
  <2>3. CASE k # L
    <3>1. k \in 1 .. L - 1 BY <1>2, <2>3
    <3>2. stack'[s][k] = stack[s][k] BY <1>7, <1>8, <3>1
    <3> QED BY <1>1, <1>7, <1>8, <2>1, <2>2, <3>2 DEF Ahead
  <2>4. CASE k = L
    <3>1. PICK p \in Pending(s) : p \in Way(maps, Data[m], L - 1) BY <1>2, <2>1, <2>4
    <3>2. CASE p # n
      <4>1. p \in stack'[s][L] BY <1>7, <1>8, <3>1, <3>2
      <4> QED BY <1>1, <1>7, <1>8, <2>2, <2>4, <3>1, <4>1 DEF Ahead
    <3>3. CASE p = n
      <4>1. L - 1 \in Nat /\ (L - 1) + 1 = L /\ L \in 0 .. Levels BY <1>2, <1>3
      <4>2. PICK c : c \in Way(maps, Data[m], L) BY <4>1, StoredHasWay
      <4> DEFINE W == Way(maps, Data[m], L - 1)
      <4>3. W \in SUBSET Node /\ Way(maps, Data[m], L) = Below(maps, Data[m], L, W)
        BY <1>5, <4>1, WayStep
      <4>4. \A a, b \in W : a = b BY <4>1, StoredHasWay
      <4>5. n \in W BY <3>1, <3>3
      <4> HIDE DEF W
      <4>6. PICK g \in W : \E x \in maps[g] : x[1] = ByteAt(Data[m], L) /\ x[2] = c
        BY <1>5, <4>2, <4>3, BelowType
      <4>7. g = n BY <4>4, <4>5, <4>6
      <4>8. PICK x \in maps[n] : x[1] = ByteAt(Data[m], L) /\ x[2] = c BY <4>6, <4>7
      <4>9. Follows(ch, x[1])
        <5>1. squery[s] \subseteq Data[m] BY DEF TrieInv, SearchInv
        <5> QED BY <4>8, <5>1 DEF Follows, ByteAt
      <4>10. c \in stack'[s][L + 1] BY <1>6, <1>7, <1>8, <4>8, <4>9
      <4>11. L + 1 \in 1 .. L + 1 /\ (L + 1) - 1 = L BY <1>2
      <4>12. Len(stack'[s]) = L + 1 /\ maps' = maps BY <1>1, <1>7, <1>8
      <4>13. stack'[s][L + 1] \cap Way(maps', Data[m], (L + 1) - 1) # {}
        BY <4>2, <4>10, <4>11, <4>12
      <4> HIDE DEF L
      <4> QED BY <4>11, <4>12, <4>13 DEF Ahead
    <3> QED BY <3>2, <3>3
  <2> QED BY <2>3, <2>4
<1>16. Len(stack'[s]) <= Levels + 1 BY <1>2, <1>3, <1>7, <1>8
<1>17. SearchInv' BY <1>1, <1>8, <1>10, <1>12, <1>15, <1>16, OthersSearch
<1> QED BY <1>10, <1>11, <1>13, <1>14, <1>17 DEF TrieInv

\* A search takes from a leaf what matches, each signature once, and it was
\* nowhere else.
LEMMA Takes ==
  ASSUME TrieInv, NEW s \in Searchers, RecursiveGetData(s)
  PROVE  \E n \in Pending(s) : \E batch \in Seq(Meta) :
            /\ removedQuery' = [removedQuery EXCEPT ![s] = @ \o batch]
            /\ stack' = [stack EXCEPT ![s] = Visited(s, n)]
            /\ Unrepeated(batch)
            /\ \A m \in Elems(batch) : m \in Stored /\ squery[s] \subseteq Data[m]
            /\ Stored' = Stored \ Elems(batch)
            /\ ptrList' \in [Node -> Seq(Meta)]
            /\ \A p \in Node : /\ Elems(ptrList'[p]) \subseteq Elems(ptrList[p])
                               /\ Unrepeated(ptrList'[p])
            /\ \A m \in Elems(ptrList'[n]) : ~(squery[s] \subseteq Data[m])
<1> DEFINE found == {m \in Meta : squery[s] \subseteq Data[m]}
           batch(n) == Restricted(ptrList[n], found)
<1>1. PICK n \in Pending(s) :
            /\ removedQuery' = [removedQuery EXCEPT ![s] = @ \o batch(n)]
            /\ ptrList' = [ptrList EXCEPT ![n] = Restricted(@, Meta \ found)]
            /\ stack' = [stack EXCEPT ![s] = Visited(s, n)]
  BY DEF RecursiveGetData
<1>2. n \in Node /\ ptrList \in [Node -> Seq(Meta)]
  <2>1. stack[s] # <<>> BY DEF RecursiveGetData
  <2> QED BY <2>1, StackTop DEF TrieInv, TypeOK
<1>3. /\ batch(n) \in Seq(Meta) /\ Elems(batch(n)) = Elems(ptrList[n]) \cap found
      /\ Unrepeated(batch(n))
  <2>1. ptrList[n] \in Seq(Meta) /\ Unrepeated(ptrList[n]) BY <1>2 DEF TrieInv, LeafInv
  <2> HIDE DEF found
  <2> QED BY <2>1, RestrictedIs
<1> DEFINE rest == Restricted(ptrList[n], Meta \ found)
<1>4. rest \in Seq(Meta) /\ Elems(rest) = Elems(ptrList[n]) \cap (Meta \ found) /\ Unrepeated(rest)
  <2>1. ptrList[n] \in Seq(Meta) /\ Unrepeated(ptrList[n]) BY <1>2 DEF TrieInv, LeafInv
  <2> HIDE DEF found
  <2> QED BY <2>1, RestrictedIs
<1>5. ptrList' = [ptrList EXCEPT ![n] = rest] BY <1>1
<1> HIDE DEF rest, batch
<1>6. /\ ptrList' \in [Node -> Seq(Meta)] /\ ptrList'[n] = rest
      /\ \A p \in Node \ {n} : ptrList'[p] = ptrList[p]
  BY <1>2, <1>4, <1>5
<1>7. \A p \in Node : Elems(ptrList'[p]) \subseteq Elems(ptrList[p]) /\ Unrepeated(ptrList'[p])
  <2> TAKE p \in Node
  <2>1. CASE p = n BY <1>4, <1>6, <2>1
  <2>2. CASE p # n BY <1>6, <2>2 DEF TrieInv, LeafInv
  <2> QED BY <2>1, <2>2
<1>8. \A m \in Elems(ptrList'[n]) : ~(squery[s] \subseteq Data[m]) BY <1>4, <1>6
<1>9. \A x : x \in Stored <=> \E p \in Node : x \in Elems(ptrList[p]) BY StoredIs DEF TrieInv
<1>10. \A m \in Elems(batch(n)) : m \in Stored /\ squery[s] \subseteq Data[m]
  BY <1>2, <1>3, <1>9
<1>11. Stored' = Stored \ Elems(batch(n))
  <2>1. \A x : x \in Stored' <=> \E p \in Node : x \in Elems(ptrList'[p])
    <3>1. \A p \in Node : \A k \in 1 .. Len(ptrList'[p]) : ptrList'[p][k] \in Meta BY <1>6
    <3> QED BY <3>1 DEF Stored, Elems
  <2>2. ASSUME NEW m \in Elems(batch(n)), NEW p \in Node, m \in Elems(ptrList'[p]) PROVE FALSE
    <3>1. m \in Elems(ptrList[n]) /\ m \in found BY <1>3
    <3>2. m \in Elems(ptrList[p]) BY <1>7, <2>2
    <3>3. n \in Way(maps, Data[m], Levels) /\ p \in Way(maps, Data[m], Levels)
      BY <1>2, <3>1, <3>2 DEF TrieInv, LeafInv
    <3>4. m \in Stored /\ Levels \in Nat BY <1>10, TrieTreeAssumption
    <3>5. n = p BY <3>3, <3>4, StoredHasWay
    <3> QED BY <1>8, <2>2, <3>1, <3>5
  <2>3. ASSUME NEW m \in Stored, m \notin Elems(batch(n)) PROVE m \in Stored'
    <3>1. PICK p \in Node : m \in Elems(ptrList[p]) BY <1>9
    <3>2. m \in Meta BY DEF Stored
    <3>3. CASE p = n
      <4>1. m \in Elems(ptrList'[n]) BY <1>3, <1>4, <1>6, <2>3, <3>1, <3>2, <3>3
      <4> QED BY <1>2, <2>1, <4>1
    <3>4. CASE p # n BY <1>6, <2>1, <3>1, <3>4
    <3> QED BY <3>3, <3>4
  <2>4. \A m \in Stored' : m \in Stored BY <1>7, <1>9, <2>1
  <2> QED BY <2>1, <2>2, <2>3, <2>4
<1> QED BY <1>1, <1>3, <1>6, <1>7, <1>8, <1>10, <1>11

LEMMA RecursiveGetDataInv ==
  ASSUME TrieInv, NEW s \in Searchers, RecursiveGetData(s)
  PROVE  TrieInv'
<1> DEFINE L == Len(stack[s])
<1>1. /\ stack[s] # <<>> /\ Depth(s) = Levels
      /\ UNCHANGED <<nodeNum, maps, insVars, squery, asked, owed, seen>>
  BY DEF RecursiveGetData
<1>2. PICK n \in Pending(s), batch \in Seq(Meta) :
            /\ removedQuery' = [removedQuery EXCEPT ![s] = @ \o batch]
            /\ stack' = [stack EXCEPT ![s] = Visited(s, n)]
            /\ Unrepeated(batch)
            /\ \A m \in Elems(batch) : m \in Stored /\ squery[s] \subseteq Data[m]
            /\ Stored' = Stored \ Elems(batch)
            /\ ptrList' \in [Node -> Seq(Meta)]
            /\ \A p \in Node : /\ Elems(ptrList'[p]) \subseteq Elems(ptrList[p])
                               /\ Unrepeated(ptrList'[p])
            /\ \A m \in Elems(ptrList'[n]) : ~(squery[s] \subseteq Data[m])
  BY Takes
<1>3. /\ L \in Nat \ {0} /\ Depth(s) = L - 1
      /\ Pending(s) = stack[s][L] /\ Pending(s) \subseteq Node
      /\ Visited(s, n) \in Seq(SUBSET Node) /\ Len(Visited(s, n)) = L
      /\ Visited(s, n)[L] = Pending(s) \ {n}
      /\ \A k \in 1 .. L - 1 : Visited(s, n)[k] = stack[s][k]
  BY <1>1, StackTop
<1>4. L - 1 = Levels /\ Levels \in Nat BY <1>1, <1>3, TrieTreeAssumption
<1>5. stack'[s] = Visited(s, n) /\ \A t \in Searchers \ {s} : stack'[t] = stack[t]
  BY <1>2 DEF TrieInv, TypeOK
<1>6. stack' \in [Searchers -> Seq(SUBSET Node)] BY <1>2, <1>3 DEF TrieInv, TypeOK
<1>7. /\ removedQuery' \in [Searchers -> Seq(Meta)]
      /\ Elems(removedQuery'[s]) = Elems(removedQuery[s]) \cup Elems(batch)
      /\ \A t \in Searchers \ {s} : removedQuery'[t] = removedQuery[t]
  <2>1. removedQuery \in [Searchers -> Seq(Meta)] BY DEF TrieInv, TypeOK
  <2>2. /\ removedQuery[s] \o batch \in Seq(Meta)
        /\ Elems(removedQuery[s] \o batch) = Elems(removedQuery[s]) \cup Elems(batch)
    BY <2>1, ConcatIs
  <2> QED BY <1>2, <2>1, <2>2
<1>8. TypeOK' BY <1>1, <1>2, <1>6, <1>7 DEF TrieInv, TypeOK, insVars
<1>9. TreeInv' /\ InsertInv' BY <1>1, SearcherFrame
<1>10. inserted' = inserted BY <1>1 DEF insVars
<1>11. LeafInv' BY <1>1, <1>2, <1>10 DEF TrieInv, LeafInv
<1>12. \A m \in Stored : m \in inserted BY StoredIs DEF TrieInv, LeafInv
<1>13. ReportInv'
  <2> SUFFICES ASSUME NEW t \in Searchers, NEW m \in Elems(removedQuery'[t])
               PROVE  m \in inserted' /\ m \notin Stored'
    BY DEF ReportInv
  <2>1. m \in Elems(removedQuery[t]) \/ m \in Elems(batch) BY <1>7
  <2> QED BY <1>2, <1>10, <1>12, <2>1 DEF TrieInv, ReportInv
<1>14. ASSUME NEW m \in owed[s] \cap Stored' PROVE Ahead(s, m)'
  <2>1. m \in Stored BY <1>2
  <2>2. PICK k \in 1 .. L : stack[s][k] \cap Way(maps, Data[m], k - 1) # {}
    BY <2>1 DEF TrieInv, SearchInv, Ahead
  <2>3. CASE k # L
    <3>1. k \in 1 .. L - 1 BY <1>3, <2>3
    <3>2. stack'[s][k] = stack[s][k] BY <1>3, <1>5, <3>1
    <3> QED BY <1>1, <1>3, <1>5, <2>2, <3>2 DEF Ahead
  <2>4. CASE k = L
    <3>1. PICK p \in Pending(s) : p \in Way(maps, Data[m], Levels) BY <1>3, <1>4, <2>2, <2>4
    <3>2. p # n
      <4>1. PICK g \in Node : m \in Elems(ptrList'[g]) BY <1>8, StoredIs
      <4>2. g \in Way(maps, Data[m], Levels) BY <1>2, <4>1 DEF TrieInv, LeafInv
      <4>3. g = p BY <1>4, <2>1, <3>1, <4>2, StoredHasWay
      <4>4. squery[s] \subseteq Data[m] BY DEF TrieInv, SearchInv
      <4> QED BY <1>2, <4>1, <4>3, <4>4
    <3>3. p \in stack'[s][L] BY <1>3, <1>5, <3>1, <3>2
    <3> QED BY <1>1, <1>3, <1>4, <1>5, <2>2, <2>4, <3>1, <3>3 DEF Ahead
  <2> QED BY <2>3, <2>4
<1>15. Len(stack'[s]) <= Levels + 1 BY <1>3, <1>4, <1>5
<1>16. Stored' \subseteq Stored BY <1>2
<1>17. SearchInv' BY <1>1, <1>5, <1>8, <1>10, <1>14, <1>15, <1>16, OthersSearch
<1> QED BY <1>8, <1>9, <1>11, <1>13, <1>17 DEF TrieInv

\* An activation that returns has nothing left.  When the last one does, nothing
\* that the search owes is stored.
LEMMA NodeReturnInv ==
  ASSUME TrieInv, NEW s \in Searchers, NodeReturn(s)
  PROVE  /\ TrieInv'
         /\ Len(stack[s]) = 1 => stack'[s] = <<>> /\ owed[s] \cap Stored = {}
         /\ Len(stack[s]) # 1 => stack'[s] # <<>>
<1> DEFINE L == Len(stack[s])
           done == L = 1
<1>1. /\ stack[s] # <<>> /\ Pending(s) = {}
      /\ stack' = [stack EXCEPT ![s] = SubSeq(@, 1, L - 1)]
      /\ squery' = [squery EXCEPT ![s] = IF done THEN {} ELSE @]
      /\ owed' = [owed EXCEPT ![s] = IF done THEN {} ELSE @]
      /\ seen' = [seen EXCEPT ![s] = IF done THEN {} ELSE @]
      /\ UNCHANGED <<nodeNum, maps, ptrList, insVars, removedQuery, asked>>
  BY DEF NodeReturn, treeVars
<1>2. L \in Nat \ {0} /\ Pending(s) = stack[s][L] /\ stack[s] \in Seq(SUBSET Node)
  BY <1>1, StackTop
<1> DEFINE shorter == SubSeq(stack[s], 1, L - 1)
<1>3. /\ shorter \in Seq(SUBSET Node) /\ Len(shorter) = L - 1
      /\ \A k \in 1 .. L - 1 : shorter[k] = stack[s][k]
  BY <1>2
<1>4. /\ stack'[s] = shorter /\ squery'[s] = (IF done THEN {} ELSE squery[s])
      /\ owed'[s] = (IF done THEN {} ELSE owed[s]) /\ seen'[s] = (IF done THEN {} ELSE seen[s])
      /\ \A t \in Searchers \ {s} : /\ stack'[t] = stack[t] /\ owed'[t] = owed[t]
                                    /\ seen'[t] = seen[t] /\ squery'[t] = squery[t]
  BY <1>1 DEF TrieInv, TypeOK
<1>5. stack' \in [Searchers -> Seq(SUBSET Node)] BY <1>1, <1>3 DEF TrieInv, TypeOK
<1> HIDE DEF shorter
<1>6. TypeOK'
  <2>1. squery' \in [Searchers -> Filter] BY <1>1 DEF TrieInv, TypeOK, Filter
  <2>2. owed' \in [Searchers -> SUBSET Meta] /\ seen' \in [Searchers -> SUBSET Meta]
    BY <1>1 DEF TrieInv, TypeOK
  <2> QED BY <1>1, <1>5, <2>1, <2>2 DEF TrieInv, TypeOK, insVars
<1>7. TreeInv' /\ InsertInv' BY <1>1, SearcherFrame
<1>8. Stored' = Stored /\ inserted' = inserted BY <1>1 DEF Stored, insVars
<1>9. LeafInv' BY <1>1, <1>8 DEF TrieInv, LeafInv
<1>10. ReportInv' BY <1>1, <1>8 DEF TrieInv, ReportInv
<1>11. ASSUME NEW m \in owed[s] \cap Stored
       PROVE  \E k \in 1 .. L - 1 : stack[s][k] \cap Way(maps, Data[m], k - 1) # {}
  <2>1. PICK k \in 1 .. L : stack[s][k] \cap Way(maps, Data[m], k - 1) # {}
    BY DEF TrieInv, SearchInv, Ahead
  <2>2. k # L BY <1>1, <1>2, <2>1
  <2>3. k \in 1 .. L - 1 BY <1>2, <2>2
  <2> QED BY <2>1, <2>3
<1>12. ASSUME NEW m \in owed[s] \cap Stored PROVE Ahead(s, m)'
  <2>1. PICK k \in 1 .. L - 1 : stack[s][k] \cap Way(maps, Data[m], k - 1) # {} BY <1>11
  <2>2. stack'[s][k] = stack[s][k] /\ Len(stack'[s]) = L - 1 /\ maps' = maps
    BY <1>1, <1>3, <1>4
  <2> QED BY <2>1, <2>2 DEF Ahead
<1>13. done => owed[s] \cap Stored = {}
  <2>1. L = 1 => 1 .. L - 1 = {} BY <1>2
  <2>2. L = 1 => ~(\E m \in owed[s] \cap Stored : TRUE) BY <1>11, <2>1
  <2> QED BY <2>2
<1>14. Len(shorter) = 0 <=> shorter = <<>> BY <1>3, EmptySeq
<1>15. done <=> stack'[s] = <<>> BY <1>2, <1>3, <1>4, <1>14
<1>16. SearchInv'
  <2>1. Len(stack'[s]) <= Levels + 1
    <3>1. Len(stack[s]) <= Levels + 1 /\ Levels \in Nat BY TrieTreeAssumption DEF TrieInv, SearchInv
    <3> QED BY <1>2, <1>3, <1>4, <3>1
  <2>2. stack'[s] # <<>> => stack[s] # <<>> /\ seen'[s] = seen[s] BY <1>1, <1>4, <1>15
  <2>3. owed'[s] \subseteq owed[s] /\ (owed'[s] # {} => squery'[s] = squery[s]) BY <1>4
  <2>4. \A m \in owed'[s] \cap Stored' : Ahead(s, m)' BY <1>8, <1>12, <2>3
  <2> QED BY <1>1, <1>4, <1>6, <1>8, <2>1, <2>2, <2>3, <2>4, OthersSearch
<1> QED BY <1>6, <1>7, <1>9, <1>10, <1>13, <1>15, <1>16 DEF TrieInv

LEMMA TrieStutter == ASSUME TrieInv, UNCHANGED vars PROVE TrieInv'
<1>1. UNCHANGED <<nodeNum, maps, ptrList, imeta, inode, ilevel, taken, inserted, squery, stack,
                  removedQuery, asked, owed, seen>>
  BY DEF vars, treeVars, insVars, searchVars
<1>2. TypeOK' BY <1>1 DEF TrieInv, TypeOK
<1>3. TreeInv' /\ InsertInv' BY <1>1, SearcherFrame DEF insVars
<1>4. Stored' = Stored BY <1>1 DEF Stored
<1>5. LeafInv' /\ ReportInv' BY <1>1, <1>4 DEF TrieInv, LeafInv, ReportInv
<1>6. SearchInv' BY <1>1, <1>4 DEF TrieInv, SearchInv, Ahead
<1> QED BY <1>2, <1>3, <1>5, <1>6 DEF TrieInv

LEMMA TrieNext == ASSUME TrieInv, [Next]_vars PROVE TrieInv'
<1>1. ASSUME NEW i \in Inserters, InserterStep(i) PROVE TrieInv'
  BY <1>1, StepDownInv, PushLeafInv DEF InserterStep
<1>2. ASSUME NEW s \in Searchers, SearcherStep(s) PROVE TrieInv'
  BY <1>2, VisitNodeInv, RecursiveGetDataInv, NodeReturnInv DEF SearcherStep
<1>3. CASE Rest BY <1>3, TrieStutter DEF Rest
<1> QED BY <1>1, <1>2, <1>3, Insert2Inv, SearchBegins, TrieStutter DEF Next

\* The inductive invariant holds in every reachable state: what is stored stands
\* at the end of its own way, and a search has a node ahead on the way to each
\* signature it still owes.
THEOREM TrieInvariant == Spec => []TrieInv
<1>1. Init => TrieInv BY TrieInit
<1>2. TrieInv /\ [Next]_vars => TrieInv' BY TrieNext
<1> QED BY <1>1, <1>2, PTL DEF Spec

\* Types, for any number of threads, bytes and nodes.
THEOREM TypeCorrect == Spec => []TypeOK
<1>1. TrieInv => TypeOK BY TrieInvProperties
<1> QED BY <1>1, TrieInvariant, PTL

\* Racing insertions never make two children for one byte: the test of lines
\* 301-311 is made under the lock of the node.
THEOREM OneWayToNodeHolds == Spec => []OneWayToNode
<1>1. TrieInv => OneWayToNode BY TrieInvProperties
<1> QED BY <1>1, TrieInvariant, PTL

\* Whatever insertions and searches interleave, a signature stands once, at the
\* leaf its own bytes lead to.
THEOREM StoredAtOwnLeafHolds == Spec => []StoredAtOwnLeaf
<1>1. TrieInv => StoredAtOwnLeaf BY TrieInvProperties
<1> QED BY <1>1, TrieInvariant, PTL

-----------------------------------------------------------------------------
(* The refinement *)

\* Steps that the client of an index does not see.
LEMMA Unseen ==
  ASSUME UNCHANGED <<inserted, squery, owed, seen, removedQuery>>, Stored' = Stored,
         \A s \in Searchers : stack'[s] # <<>> <=> stack[s] # <<>>
  PROVE  UNCHANGED Promise!vars
  BY DEF Promise!vars

LEMMA PromiseInit == ASSUME TrieInv, Init PROVE Promise!Init
<1>1. Stored = {}
  <2>1. \A n \in Node : Elems(ptrList[n]) = {} BY DEF Init, Elems
  <2> QED BY <2>1, StoredIs DEF TrieInv
<1> QED BY <1>1 DEF Init, Promise!Init

LEMMA PushLeafPromise ==
  ASSUME TrieInv, NEW i \in Inserters, PushLeaf(i)
  PROVE  Promise!Insert(imeta[i]) /\ imeta[i] \in Meta
<1>1. imeta[i] \in Meta \ inserted /\ Stored' = Stored \cup {imeta[i]} BY PushLeafInv
<1>2. seen' = [s \in Searchers |-> IF s \in {t \in Searchers : stack[t] # <<>>}
                                   THEN seen[s] \cup {imeta[i]} ELSE {}]
  BY DEF PushLeaf
<1> QED BY <1>1, <1>2 DEF PushLeaf, searchVars, Promise!Insert

LEMMA SearchPromise ==
  ASSUME TrieInv, NEW s \in Searchers, NEW q \in Queries, Search(s, q)
  PROVE  Promise!Begin(s, q)
<1>1. Stored' = Stored BY DEF Search, treeVars, Stored
<1>2. /\ stack[s] = <<>>
      /\ \A t \in Searchers : stack'[t] = IF t = s THEN <<{Root}>> ELSE stack[t]
  BY DEF Search, TrieInv, TypeOK
<1>3. <<{Root}>> # <<>> OBVIOUS
<1>4. {t \in Searchers : stack'[t] # <<>>} = {t \in Searchers : stack[t] # <<>>} \cup {s}
  BY <1>2, <1>3
<1> QED BY <1>1, <1>2, <1>4 DEF Search, insVars, Promise!Begin

LEMMA RecursiveGetDataPromise ==
  ASSUME TrieInv, NEW s \in Searchers, RecursiveGetData(s)
  PROVE  Promise!Report(s) \/ UNCHANGED Promise!vars
<1>1. /\ stack[s] # <<>>
      /\ UNCHANGED <<inserted, squery, owed, seen>>
  BY DEF RecursiveGetData, insVars
<1>2. PICK n \in Pending(s), batch \in Seq(Meta) :
            /\ removedQuery' = [removedQuery EXCEPT ![s] = @ \o batch]
            /\ stack' = [stack EXCEPT ![s] = Visited(s, n)]
            /\ Unrepeated(batch)
            /\ \A m \in Elems(batch) : m \in Stored /\ squery[s] \subseteq Data[m]
            /\ Stored' = Stored \ Elems(batch)
  BY Takes
<1>3. \A t \in Searchers : stack'[t] # <<>> <=> stack[t] # <<>>
  <2>1. Visited(s, n) \in Seq(SUBSET Node) /\ Len(Visited(s, n)) = Len(stack[s])
        /\ Len(stack[s]) \in Nat \ {0}
    BY <1>1, StackTop
  <2>2. Visited(s, n) # <<>> BY <2>1
  <2>3. stack'[s] = Visited(s, n) /\ \A t \in Searchers \ {s} : stack'[t] = stack[t]
    BY <1>2 DEF TrieInv, TypeOK
  <2> QED BY <1>1, <2>2, <2>3
<1>4. removedQuery \in [Searchers -> Seq(Meta)] BY DEF TrieInv, TypeOK
<1>5. CASE batch = <<>>
  <2>1. removedQuery' = removedQuery
    <3>1. removedQuery[s] \o <<>> = removedQuery[s] BY <1>4, ConcatEmptySeq
    <3> QED BY <1>2, <1>4, <1>5, <3>1
  <2>2. Stored' = Stored BY <1>2, <1>5 DEF Elems
  <2> QED BY <1>1, <1>3, <2>1, <2>2, Unseen
<1>6. CASE batch # <<>>
  <2>1. removedQuery'[s] = removedQuery[s] \o batch BY <1>2, <1>4
  <2>2. Promise!Added(s) = batch
    <3>1. SubSeq(removedQuery[s] \o batch, Len(removedQuery[s]) + 1, Len(removedQuery[s] \o batch)) = batch
      BY <1>4, ConcatIs
    <3> QED BY <2>1, <3>1 DEF Promise!Added
  <2>3. \A u \in Seq(Meta) : Promise!ToSet(u) = Elems(u) BY DEF Promise!ToSet, Elems
  <2>4. Promise!IsInjective(batch) BY <1>2 DEF Promise!IsInjective, Unrepeated
  <2>5. ASSUME NEW m \in Elems(batch)
        PROVE  /\ m \in seen[s] /\ squery[s] \subseteq Data[m]
               /\ \A t \in Searchers : m \notin Promise!ToSet(removedQuery[t])
    <3>1. m \in Stored /\ squery[s] \subseteq Data[m] BY <1>2
    <3>2. m \in seen[s] BY <1>1, <3>1 DEF TrieInv, SearchInv
    <3>3. \A t \in Searchers : m \notin Elems(removedQuery[t]) BY <3>1 DEF TrieInv, ReportInv
    <3> QED BY <1>4, <2>3, <3>1, <3>2, <3>3
  <2>6. Promise!ToSet(batch) = Elems(batch) BY <2>3
  <2>7. {t \in Searchers : stack'[t] # <<>>} = {t \in Searchers : stack[t] # <<>>} BY <1>3
  <2> QED BY <1>1, <1>2, <1>6, <2>2, <2>4, <2>5, <2>6, <2>7 DEF Promise!Report
<1> QED BY <1>5, <1>6

LEMMA NodeReturnPromise ==
  ASSUME TrieInv, NEW s \in Searchers, NodeReturn(s)
  PROVE  Promise!End(s) \/ UNCHANGED Promise!vars
<1> DEFINE L == Len(stack[s])
<1>1. /\ stack[s] # <<>>
      /\ squery' = [squery EXCEPT ![s] = IF L = 1 THEN {} ELSE @]
      /\ owed' = [owed EXCEPT ![s] = IF L = 1 THEN {} ELSE @]
      /\ seen' = [seen EXCEPT ![s] = IF L = 1 THEN {} ELSE @]
      /\ UNCHANGED <<inserted, ptrList, removedQuery>>
  BY DEF NodeReturn, insVars, treeVars
<1>2. /\ L = 1 => stack'[s] = <<>> /\ owed[s] \cap Stored = {}
      /\ L # 1 => stack'[s] # <<>>
  BY NodeReturnInv
<1>3. \A t \in Searchers \ {s} : stack'[t] = stack[t] BY DEF NodeReturn, TrieInv, TypeOK
<1>4. Stored' = Stored BY <1>1 DEF Stored
<1>5. CASE L = 1
  <2>1. {t \in Searchers : stack'[t] # <<>>} = {t \in Searchers : stack[t] # <<>>} \ {s}
    BY <1>2, <1>3, <1>5
  <2>2. /\ squery' = [squery EXCEPT ![s] = {}] /\ owed' = [owed EXCEPT ![s] = {}]
        /\ seen' = [seen EXCEPT ![s] = {}]
    BY <1>1, <1>5
  <2> QED BY <1>1, <1>2, <1>4, <1>5, <2>1, <2>2 DEF Promise!End
<1>6. CASE L # 1
  <2>1. squery' = squery /\ owed' = owed /\ seen' = seen BY <1>1, <1>6 DEF TrieInv, TypeOK
  <2>2. \A t \in Searchers : stack'[t] # <<>> <=> stack[t] # <<>> BY <1>1, <1>2, <1>3, <1>6
  <2> QED BY <1>1, <1>4, <2>1, <2>2, Unseen
<1> QED BY <1>5, <1>6

LEMMA VisitNodeUnseen ==
  ASSUME TrieInv, NEW s \in Searchers, VisitNode(s)
  PROVE  UNCHANGED Promise!vars
<1>1. UNCHANGED <<ptrList, inserted, squery, removedQuery, owed, seen>> /\ stack[s] # <<>>
  BY DEF VisitNode, treeVars, insVars
<1>2. PICK n, c : stack' = [stack EXCEPT ![s] = Append(Visited(s, n), c)] /\ c \in SUBSET Node
  <2>1. PICK n \in Pending(s) : stack' = [stack EXCEPT ![s] = Append(Visited(s, n),
            {e[2] : e \in {x \in maps[n] : Follows(ByteAt(squery[s], Depth(s) + 1), x[1])}})]
    BY DEF VisitNode
  <2>2. maps[n] \in SUBSET (Byte \X Node) BY <1>1, StackTop DEF TrieInv, TypeOK
  <2>3. {e[2] : e \in {x \in maps[n] : Follows(ByteAt(squery[s], Depth(s) + 1), x[1])}} \in SUBSET Node
    BY <2>2
  <2> QED BY <2>1, <2>3
<1>3. Append(Visited(s, n), c) # <<>>
  <2> DEFINE v == Visited(s, n)
  <2>1. v \in Seq(SUBSET Node) BY <1>1, StackTop
  <2> HIDE DEF v
  <2>2. Len(v) \in Nat /\ Len(Append(v, c)) = Len(v) + 1 BY <1>2, <2>1
  <2>3. Append(v, c) # <<>> BY <2>2
  <2> QED BY <2>3 DEF v
<1>4. \A t \in Searchers : stack'[t] # <<>> <=> stack[t] # <<>>
  BY <1>1, <1>2, <1>3 DEF TrieInv, TypeOK
<1>5. Stored' = Stored BY <1>1 DEF Stored
<1> QED BY <1>1, <1>4, <1>5, Unseen

LEMMA PromiseNext == ASSUME TrieInv, [Next]_vars PROVE [Promise!Next]_(Promise!vars)
<1>1. ASSUME NEW i \in Inserters, PushLeaf(i) PROVE Promise!Next
  BY <1>1, PushLeafPromise DEF Promise!Next
<1>2. ASSUME NEW i \in Inserters, (\E m \in Meta : Insert2(i, m)) \/ StepDown(i)
      PROVE  UNCHANGED Promise!vars
  <2>1. UNCHANGED <<ptrList, inserted, squery, stack, removedQuery, owed, seen>>
    BY <1>2 DEF Insert2, StepDown, treeVars, searchVars
  <2>2. Stored' = Stored BY <2>1 DEF Stored
  <2> QED BY <2>1, <2>2, Unseen
<1>3. ASSUME NEW s \in Searchers, NEW q \in Queries, Search(s, q) PROVE Promise!Next
  BY <1>3, SearchPromise DEF Promise!Next
<1>4. ASSUME NEW s \in Searchers, SearcherStep(s) PROVE [Promise!Next]_(Promise!vars)
  <2>1. Promise!Report(s) \/ Promise!End(s) => Promise!Next BY DEF Promise!Next
  <2> QED BY <1>4, <2>1, VisitNodeUnseen, RecursiveGetDataPromise, NodeReturnPromise
      DEF SearcherStep
<1>5. ASSUME UNCHANGED vars PROVE UNCHANGED Promise!vars
  <2>1. UNCHANGED <<ptrList, inserted, squery, stack, removedQuery, owed, seen>>
    BY <1>5 DEF vars, treeVars, insVars, searchVars
  <2>2. Stored' = Stored BY <2>1 DEF Stored
  <2> QED BY <2>1, <2>2, Unseen
<1> QED BY <1>1, <1>2, <1>3, <1>4, <1>5 DEF Next, InserterStep, Rest

\* With any number of inserting and searching threads the byte trie implements
\* SignatureIndex: each search reports every match that was stored when it began
\* and was not reported by another, nothing but matches, and nothing twice.
THEOREM ByteTrieKeepsPromise == Spec => KeepsPromise
<1>1. TrieInv /\ Init => Promise!Init BY PromiseInit
<1>2. TrieInv /\ [Next]_vars => [Promise!Next]_(Promise!vars) BY PromiseNext
<1>3. Init => TrieInv BY TrieInit
<1> QED BY <1>1, <1>2, <1>3, TrieInvariant, PTL DEF Spec, KeepsPromise, Promise!Spec
=============================================================================
