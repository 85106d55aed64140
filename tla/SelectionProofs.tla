---------------------------- MODULE SelectionProofs ----------------------------
(***************************************************************************)
(* Proofs about FindMid for every array: InsertSort sorts and only moves,  *)
(* so FindMid only moves, and what is known not to be larger than the      *)
(* elements in front makes up its share of all.                            *)
(***************************************************************************)
EXTENDS Selection, SharedLemmas

-----------------------------------------------------------------------------
(* Rearrangements *)

\* The permutations of the places 0 to top.
Shuffles(top) ==
    {s \in [0 .. top -> 0 .. top] :
        /\ \A x, y \in 0 .. top : s[x] = s[y] => x = y
        /\ \A y \in 0 .. top : \E x \in 0 .. top : s[x] = y}

\* What stands at x in new stood at s[x] in old, and nothing moves outside T.
MovedBy(old, new, top, T, s) ==
    /\ s \in Shuffles(top)
    /\ \A x \in 0 .. top : x \notin T => s[x] = x
    /\ new = [x \in 0 .. top |-> old[s[x]]]

Ordered(array, from, to) == \A x, y \in from .. to : x <= y => array[x] <= array[y]

(* A rearrangement has the elements of the array. *)
LEMMA MovedType ==
  ASSUME NEW top \in Nat, NEW S, NEW old \in [0 .. top -> S], NEW new, NEW T, NEW s,
         MovedBy(old, new, top, T, s)
  PROVE  new \in [0 .. top -> S] /\ \A x \in 0 .. top : s[x] \in 0 .. top /\ new[x] = old[s[x]]
<1>1. s \in [0 .. top -> 0 .. top] /\ new = [x \in 0 .. top |-> old[s[x]]]
  BY DEF MovedBy, Shuffles
<1>2. \A x \in 0 .. top : s[x] \in 0 .. top BY <1>1
<1>3. \A x \in 0 .. top : old[s[x]] \in S BY <1>2
<1> QED BY <1>1, <1>2, <1>3

(* Two rearrangements, one after the other, are one. *)
LEMMA MovedTwice ==
  ASSUME NEW top \in Nat, NEW old, NEW mid, NEW new, NEW T, NEW s, NEW t,
         MovedBy(old, mid, top, T, s), MovedBy(mid, new, top, T, t)
  PROVE  MovedBy(old, new, top, T, [x \in 0 .. top |-> s[t[x]]])
<1> DEFINE D == 0 .. top
           u == [x \in D |-> s[t[x]]]
<1>1. /\ s \in [D -> D] /\ t \in [D -> D]
      /\ \A x, y \in D : s[x] = s[y] => x = y
      /\ \A x, y \in D : t[x] = t[y] => x = y
      /\ \A y \in D : \E x \in D : s[x] = y
      /\ \A y \in D : \E x \in D : t[x] = y
  BY DEF MovedBy, Shuffles
<1>2. /\ \A x \in D : x \notin T => s[x] = x
      /\ \A x \in D : x \notin T => t[x] = x
      /\ mid = [x \in D |-> old[s[x]]]
      /\ new = [x \in D |-> mid[t[x]]]
  BY DEF MovedBy
<1> HIDE DEF D
<1>3. u \in [D -> D] BY <1>1
<1>4. \A x, y \in D : u[x] = u[y] => x = y BY <1>1
<1>5. \A y \in D : \E x \in D : u[x] = y
  <2> SUFFICES ASSUME NEW y \in D PROVE \E x \in D : u[x] = y OBVIOUS
  <2>1. PICK z \in D : s[z] = y BY <1>1
  <2>2. PICK x \in D : t[x] = z BY <1>1
  <2> QED BY <2>1, <2>2
<1>6. \A x \in D : x \notin T => u[x] = x BY <1>2
<1>7. new = [x \in D |-> old[u[x]]]
  <2>1. \A x \in D : mid[t[x]] = old[s[t[x]]] BY <1>1, <1>2
  <2> QED BY <1>2, <2>1
<1> HIDE DEF u
<1>8. MovedBy(old, new, top, T, u) BY <1>3, <1>4, <1>5, <1>6, <1>7 DEF MovedBy, Shuffles, D
<1> QED BY <1>8 DEF u, D

(* One that moves less is one that moves at most this. *)
LEMMA MovedWider ==
  ASSUME NEW top, NEW old, NEW new, NEW T, NEW W, T \subseteq W, NEW s,
         MovedBy(old, new, top, T, s)
  PROVE  MovedBy(old, new, top, W, s)
BY DEF MovedBy

(* Nothing moves. *)
LEMMA MovedNot ==
  ASSUME NEW top \in Nat, NEW S, NEW old \in [0 .. top -> S], NEW T
  PROVE  MovedBy(old, old, top, T, [x \in 0 .. top |-> x])
BY DEF MovedBy, Shuffles

(* Swap rearranges. *)
LEMMA SwapMoves ==
  ASSUME NEW top \in Nat, NEW old \in [0 .. top -> Int], NEW j \in 0 .. top, NEW k \in 0 .. top
  PROVE  \E s : MovedBy(old, Swap(old, j, k), top, {j, k}, s)
<1> DEFINE s == [x \in 0 .. top |-> IF x = j THEN k ELSE IF x = k THEN j ELSE x]
<1>1. s \in [0 .. top -> 0 .. top] OBVIOUS
<1>2. \A x, y \in 0 .. top : s[x] = s[y] => x = y OBVIOUS
<1>3. \A y \in 0 .. top : \E x \in 0 .. top : s[x] = y
  <2>1. \A y \in 0 .. top : s[s[y]] = y OBVIOUS
  <2> QED BY <1>1, <2>1
<1>4. \A x \in 0 .. top : x \notin {j, k} => s[x] = x OBVIOUS
<1>5. Swap(old, j, k) = [x \in 0 .. top |-> old[s[x]]] BY DEF Swap
<1> HIDE DEF s
<1>6. MovedBy(old, Swap(old, j, k), top, {j, k}, s) BY <1>1, <1>2, <1>3, <1>4, <1>5 DEF MovedBy, Shuffles
<1> QED BY <1>6

-----------------------------------------------------------------------------
(* InsertSort *)

(* Where an element is inserted. *)
LEMMA InsertedAt ==
  ASSUME NEW top \in Nat, NEW array \in [0 .. top -> Int], NEW from \in 0 .. top, NEW k \in from .. top
  PROVE  \E to \in from .. k :
            /\ Inserted(array, from, k) =
                 [j \in 0 .. top |-> IF j \notin to .. k THEN array[j]
                                     ELSE IF j = to THEN array[k] ELSE array[j - 1]]
            /\ to = from \/ array[to - 1] <= array[k]
            /\ \A j \in to .. k - 1 : array[k] < array[j]
<1> DEFINE stays == {j \in from .. k - 1 : array[j] <= array[k]}
           last == CHOOSE j \in stays : \A m \in stays : m <= j
           to == IF stays = {} THEN from ELSE last + 1
<1>1. stays # {} => last \in stays /\ \A m \in stays : m <= last
  <2> SUFFICES ASSUME stays # {} PROVE \E j \in stays : \A m \in stays : m <= j OBVIOUS
  <2> DEFINE below == {top - j : j \in stays}
  <2>1. below \subseteq Nat /\ below # {} OBVIOUS
  <2>2. PICK b \in below : \A c \in below : b <= c BY <2>1, NatMin
  <2>3. PICK j \in stays : b = top - j OBVIOUS
  <2>4. \A m \in stays : m <= j
    <3> SUFFICES ASSUME NEW m \in stays PROVE m <= j OBVIOUS
    <3>1. top - m \in below OBVIOUS
    <3>2. m \in Int /\ j \in Int OBVIOUS
    <3>3. b <= top - m BY <2>2, <3>1
    <3> QED BY <2>3, <3>2, <3>3
  <2> QED BY <2>4
<1> HIDE DEF last
<1>2. to \in from .. k BY <1>1
<1>3. to = from \/ array[to - 1] <= array[k]
  <2>1. CASE stays = {} BY <2>1
  <2>2. CASE stays # {}
    <3>1. last \in stays BY <1>1, <2>2
    <3>2. last \in Int /\ to - 1 = last BY <2>2, <3>1
    <3>3. array[last] <= array[k] BY <3>1
    <3> QED BY <3>2, <3>3
  <2> QED BY <2>1, <2>2
<1>4. ASSUME NEW j \in to .. k - 1 PROVE array[k] < array[j]
  <2>1. j \in from .. k - 1 BY <1>2
  <2>2. j \notin stays
    <3>1. CASE stays = {} BY <3>1
    <3>2. CASE stays # {}
      <4>1. last \in stays /\ \A m \in stays : m <= last BY <1>1, <3>2
      <4>2. last \in Int /\ to = last + 1 BY <3>2, <4>1
      <4>3. j >= to /\ j \in Int BY <1>2
      <4>4. ~(j <= last) BY <4>2, <4>3
      <4> HIDE DEF stays, to
      <4> QED BY <4>1, <4>4
    <3> QED BY <3>1, <3>2
  <2>3. array[j] \in Int /\ array[k] \in Int BY <2>1
  <2> QED BY <2>1, <2>2, <2>3
<1>5. Inserted(array, from, k) =
        [j \in 0 .. top |-> IF j \notin to .. k THEN array[j]
                            ELSE IF j = to THEN array[k] ELSE array[j - 1]]
  BY DEF Inserted, last
<1> HIDE DEF to
<1> QED BY <1>2, <1>3, <1>4, <1>5

(* A round of the outer loop moves elements from from to k only. *)
LEMMA InsertedMoves ==
  ASSUME NEW top \in Nat, NEW array \in [0 .. top -> Int], NEW from \in 0 .. top, NEW k \in from .. top
  PROVE  \E s : MovedBy(array, Inserted(array, from, k), top, from .. k, s)
<1>1. PICK to \in from .. k :
          /\ Inserted(array, from, k) =
               [j \in 0 .. top |-> IF j \notin to .. k THEN array[j]
                                   ELSE IF j = to THEN array[k] ELSE array[j - 1]]
          /\ to = from \/ array[to - 1] <= array[k]
          /\ \A j \in to .. k - 1 : array[k] < array[j]
  BY InsertedAt
<1> DEFINE s == [x \in 0 .. top |-> IF x \notin to .. k THEN x ELSE IF x = to THEN k ELSE x - 1]
<1>2. s \in [0 .. top -> 0 .. top] OBVIOUS
<1>3. \A x, y \in 0 .. top : s[x] = s[y] => x = y OBVIOUS
<1>4. \A y \in 0 .. top : \E x \in 0 .. top : s[x] = y
  <2> SUFFICES ASSUME NEW y \in 0 .. top PROVE \E x \in 0 .. top : s[x] = y OBVIOUS
  <2>1. CASE y \notin to .. k BY <2>1
  <2>2. CASE y = k
    <3>1. to \in 0 .. top /\ s[to] = k OBVIOUS
    <3> QED BY <2>2, <3>1
  <2>3. CASE y \in to .. k /\ y # k
    <3>1. y + 1 \in 0 .. top /\ s[y + 1] = y BY <2>3
    <3> QED BY <3>1
  <2> QED BY <2>1, <2>2, <2>3
<1>5. \A x \in 0 .. top : x \notin from .. k => s[x] = x OBVIOUS
<1>6. Inserted(array, from, k) = [x \in 0 .. top |-> array[s[x]]] BY <1>1
<1> HIDE DEF s
<1>7. MovedBy(array, Inserted(array, from, k), top, from .. k, s)
  BY <1>2, <1>3, <1>4, <1>5, <1>6 DEF MovedBy, Shuffles
<1> QED BY <1>7

(* After it the elements up to k are in order, if those up to k - 1 were. *)
LEMMA InsertedSorts ==
  ASSUME NEW top \in Nat, NEW array \in [0 .. top -> Int], NEW from \in 0 .. top, NEW k \in from .. top,
         Ordered(array, from, k - 1)
  PROVE  Ordered(Inserted(array, from, k), from, k)
<1>1. PICK to \in from .. k :
          /\ Inserted(array, from, k) =
             [j \in 0 .. top |-> IF j \notin to .. k THEN array[j]
                                 ELSE IF j = to THEN array[k] ELSE array[j - 1]]
          /\ to = from \/ array[to - 1] <= array[k]
          /\ \A j \in to .. k - 1 : array[k] < array[j]
  BY InsertedAt
<1> DEFINE new == Inserted(array, from, k)
<1>2. \A x \in from .. k : new[x] = IF x \notin to .. k THEN array[x]
                                    ELSE IF x = to THEN array[k] ELSE array[x - 1]
  BY <1>1
<1> HIDE DEF new
<1>3. \A x \in from .. k : array[x] \in Int OBVIOUS
<1> SUFFICES ASSUME NEW x \in from .. k, NEW y \in from .. k, x < y PROVE new[x] <= new[y]
  <2>1. \A x \in from .. k : new[x] \in Int
    <3> SUFFICES ASSUME NEW x \in from .. k PROVE new[x] \in Int OBVIOUS
    <3>1. x \notin to .. k \/ x = to \/ x - 1 \in from .. k OBVIOUS
    <3> QED BY <1>2, <1>3, <3>1
  <2> QED BY <2>1 DEF Ordered, new
<1>4. CASE y < to
  <2>1. new[x] = array[x] /\ new[y] = array[y] BY <1>2, <1>4
  <2>2. x \in from .. k - 1 /\ y \in from .. k - 1 BY <1>4
  <2> QED BY <2>1, <2>2 DEF Ordered
<1>5. CASE y = to
  <2>1. new[x] = array[x] /\ new[y] = array[k] BY <1>2, <1>5
  <2>2. x \in from .. k - 1 /\ to - 1 \in from .. k - 1 /\ x <= to - 1 /\ to # from BY <1>5
  <2>3. array[x] <= array[to - 1] BY <2>2 DEF Ordered
  <2>4. array[x] \in Int /\ array[to - 1] \in Int /\ array[k] \in Int BY <2>2, <1>3
  <2> QED BY <1>1, <2>1, <2>2, <2>3, <2>4
<1>6. CASE to < y
  <2>1. new[y] = array[y - 1] /\ y - 1 \in from .. k - 1 /\ y - 1 \in to .. k - 1 BY <1>2, <1>6
  <2>2. CASE x < to
    <3>1. new[x] = array[x] /\ x \in from .. k - 1 /\ x <= y - 1 BY <1>2, <1>6, <2>2
    <3> QED BY <2>1, <3>1 DEF Ordered
  <2>3. CASE x = to
    <3>1. new[x] = array[k] /\ array[k] < array[y - 1] BY <1>1, <1>2, <2>1, <2>3
    <3>2. array[k] \in Int /\ array[y - 1] \in Int BY <1>3, <2>1
    <3> QED BY <2>1, <3>1, <3>2
  <2>4. CASE to < x
    <3>1. new[x] = array[x - 1] /\ x - 1 \in from .. k - 1 /\ x - 1 <= y - 1 BY <1>2, <2>4
    <3> QED BY <2>1, <3>1 DEF Ordered
  <2> QED BY <2>2, <2>3, <2>4
<1> QED BY <1>4, <1>5, <1>6

(* InsertSort puts the elements of from to to in order and moves no other. *)
LEMMA InsertSortSorts ==
  ASSUME NEW top \in Nat, NEW array \in [0 .. top -> Int], NEW from \in 0 .. top, NEW to \in from .. top
  PROVE  /\ \E s : MovedBy(array, InsertSort(array, from, to), top, from .. to, s)
         /\ Ordered(InsertSort(array, from, to), from, to)
<1> DEFINE len == to - from
           Q == [0 .. top -> Int]
           step == [j \in 1 .. len |-> [b \in Q |-> Inserted(b, from, from + j)]]
           Body(f) == [k \in from .. to |-> IF k = from THEN array ELSE Inserted(f[k - 1], from, k)]
<1>1. len \in Nat /\ array \in Q OBVIOUS
<1>2. InsertSort(array, from, to) = (CHOOSE f : f = Body(f))[to] BY DEF InsertSort
<1>3. \A b \in Q, k \in from .. to : Inserted(b, from, k) \in Q
  <2> SUFFICES ASSUME NEW b \in Q, NEW k \in from .. to PROVE Inserted(b, from, k) \in Q OBVIOUS
  <2>1. b \in [0 .. top -> Int] /\ k \in from .. top OBVIOUS
  <2>2. PICK s : MovedBy(b, Inserted(b, from, k), top, from .. k, s) BY <2>1, InsertedMoves
  <2> QED BY <2>1, <2>2, MovedType
<1> HIDE DEF Q
<1>4. PICK h \in [0 .. len -> Q] : h[0] = array /\ \A j \in 1 .. len : h[j] = step[j][h[j - 1]]
  <2>1. \A j \in 1 .. len : from + j \in from .. to OBVIOUS
  <2>2. step \in Steps(len, Q) BY <1>3, <2>1 DEF Steps
  <2> HIDE DEF step, len
  <2>3. Chains(len, Q, array, step) # {} BY <1>1, <2>2, RecursionExists
  <2> QED BY <2>3 DEF Chains
<1>5. \A j \in 1 .. len : h[j] = Inserted(h[j - 1], from, from + j)
  <2> SUFFICES ASSUME NEW j \in 1 .. len PROVE h[j] = Inserted(h[j - 1], from, from + j) OBVIOUS
  <2>1. j - 1 \in 0 .. len BY <1>1
  <2>2. h[j - 1] \in Q BY <2>1
  <2> QED BY <1>4, <2>2
<1> DEFINE f == [k \in from .. to |-> h[k - from]]
<1>6. f = Body(f)
  <2>1. ASSUME NEW k \in from .. to, k # from PROVE f[k] = Inserted(f[k - 1], from, k)
    <3>1. k - from \in 1 .. len /\ k - 1 \in from .. to /\ (k - 1) - from = (k - from) - 1 /\ from + (k - from) = k
      BY <2>1
    <3>2. f[k] = h[k - from] /\ f[k - 1] = h[(k - from) - 1] BY <3>1
    <3> QED BY <1>5, <3>1, <3>2
  <2>2. f[from] = array
    <3>1. from \in from .. to /\ from - from = 0 OBVIOUS
    <3> QED BY <1>4, <3>1
  <2>3. f = [k \in from .. to |-> f[k]] OBVIOUS
  <2> HIDE DEF f
  <2> QED BY <2>1, <2>2, <2>3
<1> HIDE DEF f
<1> DEFINE c == CHOOSE g : g = Body(g)
<1>7. c = Body(c) BY <1>6
<1> HIDE DEF c
<1>8. c[from] = array
  <2>1. from \in from .. to OBVIOUS
  <2> QED BY <1>7, <2>1
<1>9. \A k \in from + 1 .. to : c[k] = Inserted(c[k - 1], from, k)
  <2>1. \A k \in from + 1 .. to : k \in from .. to /\ k # from OBVIOUS
  <2> QED BY <1>7, <2>1
<1> DEFINE Right(k) == /\ \E s : MovedBy(array, c[k], top, from .. to, s)
                       /\ Ordered(c[k], from, k)
           T == {j \in 0 .. len : Right(from + j)}
<1>10. 0 \in T
  <2>1. MovedBy(array, array, top, from .. to, [x \in 0 .. top |-> x]) BY MovedNot
  <2>2. Ordered(array, from, from)
    <3>1. \A x, y \in from .. from : x = y /\ array[x] \in Int OBVIOUS
    <3> QED BY <3>1 DEF Ordered
  <2>3. from + 0 = from OBVIOUS
  <2>4. Right(from) BY <1>8, <2>1, <2>2
  <2> HIDE DEF Right
  <2> QED BY <1>1, <2>3, <2>4
<1>11. ASSUME NEW j \in 1 .. len, j - 1 \in T PROVE j \in T
  <2> DEFINE k == from + j
             b == c[k - 1]
  <2>1. k \in from + 1 .. to /\ k - 1 = from + (j - 1) OBVIOUS
  <2>2. Right(k - 1) BY <1>11, <2>1
  <2>3. PICK s : MovedBy(array, b, top, from .. to, s) BY <2>2
  <2>4. Ordered(b, from, k - 1) BY <2>2
  <2>5. b \in [0 .. top -> Int] BY <2>3, MovedType
  <2>6. c[k] = Inserted(b, from, k) BY <1>9, <2>1
  <2> HIDE DEF k, b
  <2>7. k \in from .. top BY <2>1
  <2>8. PICK t : MovedBy(b, c[k], top, from .. k, t) BY <2>5, <2>6, <2>7, InsertedMoves
  <2>9. from .. k \subseteq from .. to BY <2>1
  <2>10. MovedBy(b, c[k], top, from .. to, t) BY <2>8, <2>9, MovedWider
  <2>11. \E u : MovedBy(array, c[k], top, from .. to, u) BY <2>3, <2>10, MovedTwice
  <2>12. Ordered(c[k], from, k) BY <2>4, <2>5, <2>6, <2>7, InsertedSorts
  <2>13. Right(k) BY <2>11, <2>12
  <2> HIDE DEF Right
  <2> QED BY <2>13 DEF k
<1> HIDE DEF T
<1>12. \A j \in 0 .. len : j \in T BY <1>1, <1>10, <1>11, SetInduction
<1>13. len \in T /\ from + len = to BY <1>1, <1>12
<1>14. Right(to) BY <1>13 DEF T
<1> QED BY <1>2, <1>14 DEF c

(* What moves within T stays in T. *)
LEMMA MovedStays ==
  ASSUME NEW top, NEW old, NEW new, NEW T, NEW s, MovedBy(old, new, top, T, s),
         NEW x \in 0 .. top, x \in T
  PROVE  s[x] \in T
<1> SUFFICES ASSUME s[x] \notin T PROVE FALSE OBVIOUS
<1>1. /\ s \in [0 .. top -> 0 .. top]
      /\ \A y, z \in 0 .. top : s[y] = s[z] => y = z
      /\ \A y \in 0 .. top : y \notin T => s[y] = y
  BY DEF MovedBy, Shuffles
<1>2. s[x] \in 0 .. top BY <1>1
<1>3. s[s[x]] = s[x] BY <1>1, <1>2
<1>4. s[x] = x BY <1>1, <1>2, <1>3
<1> QED BY <1>4

-----------------------------------------------------------------------------
(* Counting *)

\* The places of the elements of P.
Places(array, top, P) == {x \in 0 .. top : array[x] \in P}

(* There are as many elements of P as before. *)
LEMMA MovedCount ==
  ASSUME NEW top \in Nat, NEW old, NEW new, NEW T, NEW s, MovedBy(old, new, top, T, s), NEW P
  PROVE  Cardinality(Places(new, top, P)) = Cardinality(Places(old, top, P))
<1> DEFINE A == {x \in 0 .. top : new[x] \in P}
           B == {x \in 0 .. top : old[x] \in P}
           t == [x \in A |-> s[x]]
<1>1. /\ s \in [0 .. top -> 0 .. top]
      /\ \A x, y \in 0 .. top : s[x] = s[y] => x = y
      /\ \A y \in 0 .. top : \E x \in 0 .. top : s[x] = y
      /\ new = [x \in 0 .. top |-> old[s[x]]]
  BY DEF MovedBy, Shuffles
<1>2. \A x \in 0 .. top : s[x] \in 0 .. top /\ new[x] = old[s[x]] BY <1>1
<1>3. t \in [A -> B] BY <1>2
<1>4. \A x, y \in A : t[x] = t[y] => x = y BY <1>1
<1>5. \A y \in B : \E x \in A : t[x] = y
  <2> SUFFICES ASSUME NEW y \in B PROVE \E x \in A : t[x] = y OBVIOUS
  <2>1. PICK x \in 0 .. top : s[x] = y BY <1>1
  <2>2. x \in A BY <1>2, <2>1
  <2> QED BY <2>1, <2>2
<1>6. IsFiniteSet(A)
  <2>1. IsFiniteSet(0 .. top) BY FS_Interval
  <2>2. A \subseteq 0 .. top OBVIOUS
  <2> HIDE DEF A
  <2> QED BY <2>1, <2>2, FS_Subset
<1> HIDE DEF A, B, t
<1>7. t \in Surjection(A, B) BY <1>3, <1>5 DEF Surjection
<1>8. t \in Injection(A, B) BY <1>3, <1>4 DEF Injection, IsInjective
<1>9. Cardinality(B) = Cardinality(A) BY <1>6, <1>7, <1>8, FS_Surjection
<1> QED BY <1>9 DEF A, B, Places

(* The union of len disjoint sets that each make up f parts, and one of them *)
(* w, makes up the sum.                                                       *)
LEMMA WeightOfUnion ==
  ASSUME NEW len \in Nat, NEW S, \A k \in 1 .. len : IsFiniteSet(S[k]),
         \A j, k \in 1 .. len : j # k => S[j] \cap S[k] = {},
         NEW part \in Nat, NEW f \in Nat, NEW w \in Nat, NEW odd \in 1 .. len,
         \A k \in 1 .. len : k # odd => part * Cardinality(S[k]) >= f,
         part * Cardinality(S[odd]) >= w
  PROVE  part * Cardinality(UnionTo(S, len)) >= (len - 1) * f + w
<1>1. PICK sum \in [0 .. len -> Nat] :
          /\ sum[0] = 0
          /\ \A k \in 1 .. len : sum[k] = sum[k - 1] + Cardinality(S[k])
          /\ sum[len] = Cardinality(UnionTo(S, len))
  BY DisjointSum
<1> DEFINE T == {k \in 0 .. len : part * sum[k] >= IF k < odd THEN k * f ELSE (k - 1) * f + w}
<1>2. 0 \in T BY <1>1
<1>3. ASSUME NEW k \in 1 .. len, k - 1 \in T PROVE k \in T
  <2> DEFINE before == sum[k - 1]
             card == Cardinality(S[k])
  <2>1. before \in Nat /\ card \in Nat
    <3>1. k - 1 \in 0 .. len OBVIOUS
    <3> QED BY <3>1, FS_CardinalityType
  <2>2. part * before >= IF k - 1 < odd THEN (k - 1) * f ELSE (k - 2) * f + w BY <1>3
  <2>3. sum[k] = before + card BY <1>1
  <2>4. k # odd => part * card >= f OBVIOUS
  <2>5. k = odd => part * card >= w OBVIOUS
  <2> HIDE DEF before, card
  <2>6. part * (before + card) = part * before + part * card BY <2>1
  <2>7. (k - 1) * f + f = k * f /\ (k - 2) * f + f = (k - 1) * f OBVIOUS
  <2> DEFINE p == part * before
             q == part * card
             e == (k - 1) * f
             d == (k - 2) * f
             h == k * f
  <2>8. p \in Nat /\ q \in Nat /\ e \in Int /\ d \in Int /\ h \in Int BY <2>1
  <2>9. p + q >= IF k < odd THEN h ELSE e + w
    <3>1. p >= IF k - 1 < odd THEN e ELSE d + w BY <2>2
    <3>2. (k # odd => q >= f) /\ (k = odd => q >= w) BY <2>4, <2>5
    <3>3. e + f = h /\ d + f = e BY <2>7
    <3> HIDE DEF p, q, e, d, h
    <3>4. CASE k < odd BY <2>8, <3>1, <3>2, <3>3, <3>4
    <3>5. CASE k = odd BY <2>8, <3>1, <3>2, <3>3, <3>5
    <3>6. CASE k > odd BY <2>8, <3>1, <3>2, <3>3, <3>6
    <3> QED BY <3>4, <3>5, <3>6
  <2> QED BY <2>3, <2>6, <2>9
<1> HIDE DEF T
<1>4. \A k \in 0 .. len : k \in T BY <1>2, <1>3, SetInduction
<1>5. len \in T BY <1>4
<1> QED BY <1>1, <1>5 DEF T

-----------------------------------------------------------------------------
(* What is known not to be larger *)

\* For each place of D, elements of the first array that are not larger than what
\* stands there: no element is counted for two places.
Piles(low, array, first, top, D) ==
    /\ low \in [0 .. top -> SUBSET (0 .. top)]
    /\ \A x \in D : \A e \in low[x] : first[e] <= array[x]
    /\ \A x, y \in D : x # y => low[x] \cap low[y] = {}

\* The group from from to to, with f parts for each element but the last and w for
\* that one, can be sorted and its element mid be put to d.
Weighed(top, first, old, D, low, from, to, mid, d, part, f, w) ==
    /\ top \in Nat /\ first \in [0 .. top -> Int] /\ old \in [0 .. top -> Int]
    /\ D \in SUBSET (0 .. top) /\ Piles(low, old, first, top, D)
    /\ from \in 0 .. top /\ to \in from .. top /\ mid \in from .. to
    /\ from .. to \subseteq D
    /\ d \in 0 .. from /\ (d \in D => d = from)
    /\ part \in Nat /\ f \in Nat /\ w \in Nat
    /\ \A x \in from .. to - 1 : part * Cardinality(low[x]) >= f
    /\ part * Cardinality(low[to]) >= w

(* A group is sorted and its median goes to d: for it stand those that stood *)
(* for it and for the smaller ones of the group.                              *)
LEMMA MedianPile ==
  ASSUME NEW top, NEW first, NEW old, NEW D, NEW low, NEW from, NEW to, NEW mid, NEW d,
         NEW part, NEW f, NEW w,
         Weighed(top, first, old, D, low, from, to, mid, d, part, f, w),
         NEW new, new = Swap(InsertSort(old, from, to), d, mid)
  PROVE  \E pile \in SUBSET (0 .. top) :
            /\ Piles([low EXCEPT ![d] = pile], new, first, top, (D \ (from .. to)) \cup {d})
            /\ \/ part * Cardinality(pile) >= (mid - from + 1) * f
               \/ part * Cardinality(pile) >= (mid - from) * f + w
<1> DEFINE sorted == InsertSort(old, from, to)
<1>0. /\ top \in Nat /\ first \in [0 .. top -> Int] /\ old \in [0 .. top -> Int]
      /\ D \in SUBSET (0 .. top) /\ Piles(low, old, first, top, D)
      /\ from \in 0 .. top /\ to \in from .. top /\ mid \in from .. to
      /\ from .. to \subseteq D
      /\ d \in 0 .. from /\ (d \in D => d = from)
      /\ part \in Nat /\ f \in Nat /\ w \in Nat
      /\ \A x \in from .. to - 1 : part * Cardinality(low[x]) >= f
      /\ part * Cardinality(low[to]) >= w
  BY DEF Weighed
<1> USE <1>0
<1>1. (\E s : MovedBy(old, sorted, top, from .. to, s)) /\ Ordered(sorted, from, to)
  BY InsertSortSorts
<1>2. PICK s : MovedBy(old, sorted, top, from .. to, s) BY <1>1
<1> HIDE DEF sorted
<1>3. sorted \in [0 .. top -> Int] /\ \A x \in 0 .. top : s[x] \in 0 .. top /\ sorted[x] = old[s[x]]
  <2>1. s \in [0 .. top -> 0 .. top] /\ sorted = [x \in 0 .. top |-> old[s[x]]]
    BY <1>2 DEF MovedBy, Shuffles
  <2>2. \A x \in 0 .. top : s[x] \in 0 .. top /\ old[s[x]] \in Int BY <2>1
  <2> QED BY <2>1, <2>2
<1>4. \A x \in from .. to : s[x] \in from .. to
  <2> SUFFICES ASSUME NEW x \in from .. to PROVE s[x] \in from .. to OBVIOUS
  <2>1. x \in 0 .. top OBVIOUS
  <2> QED BY <1>2, <2>1, MovedStays
<1>5. \A x, y \in from .. to : s[x] = s[y] => x = y
  <2>1. \A x \in from .. to : x \in 0 .. top OBVIOUS
  <2> QED BY <1>2, <2>1 DEF MovedBy, Shuffles
<1>6. \A x \in 0 .. top : x \notin from .. to => sorted[x] = old[x]
  BY <1>2, <1>3 DEF MovedBy
<1>7. new[d] = sorted[mid] /\ \A x \in 0 .. top : x \notin from .. to /\ x # d => new[x] = old[x]
  <2>1. d \in 0 .. top /\ mid \in 0 .. top /\ mid \in from .. to OBVIOUS
  <2>2. new = [sorted EXCEPT ![d] = sorted[mid], ![mid] = sorted[d]] BY DEF Swap, sorted
  <2>3. new[d] = sorted[mid] BY <1>3, <2>1, <2>2
  <2>4. \A x \in 0 .. top : x # mid /\ x # d => new[x] = sorted[x] BY <1>3, <2>2
  <2> QED BY <1>6, <2>1, <2>3, <2>4
<1>8. /\ low \in [0 .. top -> SUBSET (0 .. top)]
      /\ \A x \in D : \A e \in low[x] : first[e] <= old[x]
      /\ \A x, y \in D : x # y => low[x] \cap low[y] = {}
  BY DEF Piles
<1> DEFINE len == mid - from + 1
           S == [k \in 1 .. len |-> low[s[from + k - 1]]]
           pile == UnionTo(S, len)
<1>9. len \in Nat /\ \A k \in 1 .. len : from + k - 1 \in from .. mid /\ from + k - 1 \in from .. to
  OBVIOUS
<1>10. \A k \in 1 .. len : s[from + k - 1] \in from .. to /\ s[from + k - 1] \in D
  BY <1>4, <1>9
<1>11. \A k \in 1 .. len : S[k] = low[s[from + k - 1]] OBVIOUS
<1> HIDE DEF S, len
<1>12. \A k \in 1 .. len : S[k] \in SUBSET (0 .. top) BY <1>8, <1>10, <1>11
<1>13. \A j, k \in 1 .. len : j # k => S[j] \cap S[k] = {}
  <2> SUFFICES ASSUME NEW j \in 1 .. len, NEW k \in 1 .. len, j # k PROVE S[j] \cap S[k] = {} OBVIOUS
  <2>1. from + j - 1 # from + k - 1 BY <1>9
  <2>2. s[from + j - 1] # s[from + k - 1] BY <1>5, <1>9, <2>1
  <2> QED BY <1>8, <1>10, <1>11, <2>2
<1>14. pile \in SUBSET (0 .. top) BY <1>12 DEF UnionTo
<1>15. \A e \in pile : \E x \in from .. mid : s[x] \in D /\ e \in low[s[x]]
  <2> SUFFICES ASSUME NEW e \in pile PROVE \E x \in from .. mid : s[x] \in D /\ e \in low[s[x]] OBVIOUS
  <2>1. PICK k \in 1 .. len : e \in S[k] BY DEF UnionTo
  <2>2. from + k - 1 \in from .. mid BY <1>9
  <2>3. s[from + k - 1] \in D /\ e \in low[s[from + k - 1]] BY <1>10, <1>11, <2>1
  <2> HIDE DEF pile
  <2> QED BY <2>2, <2>3
<1>16. \A e \in pile : first[e] <= new[d]
  <2> SUFFICES ASSUME NEW e \in pile PROVE first[e] <= new[d] OBVIOUS
  <2>1. PICK x \in from .. mid : s[x] \in D /\ e \in low[s[x]] BY <1>15
  <2>2. x \in from .. to /\ mid \in from .. to /\ x <= mid /\ x \in 0 .. top /\ mid \in 0 .. top
    <3>1. top \in Nat /\ from \in 0 .. top /\ to \in from .. top /\ mid \in from .. to OBVIOUS
    <3>2. x \in from .. mid OBVIOUS
    <3> QED BY ONLY <3>1, <3>2
  <2>3. first[e] <= sorted[x] BY <1>3, <1>8, <2>1, <2>2
  <2>4. sorted[x] <= sorted[mid] BY <1>1, <2>2 DEF Ordered
  <2>5. e \in 0 .. top BY <1>14
  <2>6. first[e] \in Int /\ sorted[x] \in Int /\ sorted[mid] \in Int BY <1>3, <2>2, <2>5
  <2>7. new[d] = sorted[mid] BY <1>7
  <2> HIDE DEF pile
  <2> QED BY ONLY <2>3, <2>4, <2>6, <2>7
<1>17. Piles([low EXCEPT ![d] = pile], new, first, top, (D \ (from .. to)) \cup {d})
  <2> DEFINE m == [low EXCEPT ![d] = pile]
             E == (D \ (from .. to)) \cup {d}
  <2>1. d \in 0 .. top OBVIOUS
  <2>2. m \in [0 .. top -> SUBSET (0 .. top)] BY <1>8, <1>14, <2>1
  <2>3. m[d] = pile /\ \A x \in 0 .. top : x # d => m[x] = low[x] BY <1>8, <2>1
  <2> HIDE DEF m, pile
  <2>4. \A x \in E : x # d => x \in D /\ x \in 0 .. top /\ x \notin from .. to OBVIOUS
  <2>5. ASSUME NEW x \in E, NEW e \in m[x] PROVE first[e] <= new[x]
    <3>1. CASE x = d BY <1>16, <2>3, <2>5, <3>1
    <3>2. CASE x # d
      <4>1. x \in D /\ m[x] = low[x] /\ new[x] = old[x] BY <1>7, <2>3, <2>4, <3>2
      <4> QED BY <1>8, <2>5, <4>1
    <3> QED BY <3>1, <3>2
  <2>6. ASSUME NEW x \in E, x # d PROVE m[x] \cap pile = {}
    <3> SUFFICES ASSUME NEW e \in m[x], e \in pile PROVE FALSE OBVIOUS
    <3>1. PICK y \in from .. mid : s[y] \in D /\ e \in low[s[y]] BY <1>15
    <3>2. s[y] \in from .. to
      <4>1. y \in from .. to OBVIOUS
      <4> QED BY <1>4, <4>1
    <3>3. x \in D /\ s[y] # x /\ m[x] = low[x] BY <2>3, <2>4, <2>6, <3>2
    <3> QED BY <1>8, <3>1, <3>3
  <2>7. ASSUME NEW x \in E, NEW y \in E, x # y PROVE m[x] \cap m[y] = {}
    <3>1. CASE x = d BY <2>3, <2>6, <2>7, <3>1
    <3>2. CASE y = d BY <2>3, <2>6, <2>7, <3>2
    <3>3. CASE x # d /\ y # d BY <1>8, <2>3, <2>4, <2>7, <3>3
    <3> QED BY <3>1, <3>2, <3>3
  <2> HIDE DEF E
  <2>8. Piles(m, new, first, top, E) BY <2>2, <2>5, <2>7 DEF Piles
  <2> QED BY <2>8 DEF m, E
<1>18. \A k \in 1 .. len : IsFiniteSet(S[k])
  <2>1. IsFiniteSet(0 .. top)
    <3>1. 0 \in Int /\ top \in Int OBVIOUS
    <3> QED BY ONLY <3>1, FS_Interval
  <2> QED BY <1>12, <2>1, FS_Subset
<1>19. \A k \in 1 .. len : s[from + k - 1] # to => part * Cardinality(S[k]) >= f
  <2> SUFFICES ASSUME NEW k \in 1 .. len, s[from + k - 1] # to PROVE part * Cardinality(S[k]) >= f OBVIOUS
  <2>1. s[from + k - 1] \in from .. to - 1
    <3> DEFINE x == s[from + k - 1]
    <3>1. x \in from .. to /\ x # to BY <1>10
    <3> HIDE DEF x
    <3>2. x \in from .. to - 1 BY <3>1
    <3> QED BY <3>2 DEF x
  <2> QED BY <1>11, <2>1
<1>20. CASE \E k \in 1 .. len : s[from + k - 1] = to
  <2>1. PICK odd \in 1 .. len : s[from + odd - 1] = to BY <1>20
  <2>2. part * Cardinality(S[odd]) >= w BY <1>11, <2>1
  <2>3. \A k \in 1 .. len : k # odd => s[from + k - 1] # to
    <3> SUFFICES ASSUME NEW k \in 1 .. len, k # odd PROVE s[from + k - 1] # to OBVIOUS
    <3>1. from + k - 1 # from + odd - 1 BY <1>9
    <3> QED BY <1>5, <1>9, <2>1, <3>1
  <2>4. \A k \in 1 .. len : k # odd => part * Cardinality(S[k]) >= f BY <1>19, <2>3
  <2>5. part * Cardinality(pile) >= (len - 1) * f + w
    BY <1>9, <1>13, <1>18, <2>2, <2>4, WeightOfUnion
  <2>6. len - 1 = mid - from BY DEF len
  <2> HIDE DEF pile
  <2> QED BY <1>14, <1>17, <2>5, <2>6
<1>21. CASE \A k \in 1 .. len : s[from + k - 1] # to
  <2>1. 1 \in 1 .. len BY DEF len
  <2>2. \A k \in 1 .. len : part * Cardinality(S[k]) >= f BY <1>19, <1>21
  <2>3. part * Cardinality(pile) >= (len - 1) * f + f
    BY <1>9, <1>13, <1>18, <2>1, <2>2, WeightOfUnion
  <2>4. (len - 1) * f + f = (mid - from + 1) * f BY DEF len
  <2> HIDE DEF pile
  <2> QED BY <1>14, <1>17, <2>3, <2>4
<1> QED BY <1>20, <1>21

-----------------------------------------------------------------------------
(* What the elements do *)

TypeInv ==
    /\ call \in Nat \X Nat
    /\ l = call[1]
    /\ r \in l .. call[2]
    /\ i \in Nat
    /\ share \in Nat
    /\ input \in [0 .. call[2] -> Int]
    /\ a \in [0 .. call[2] -> Int]
    /\ where = "groups" => i \in l .. r /\ \E g \in Nat : i = l + 5 * g

\* Only what stands between the first and the last place moves.
MoveInv == \E s : MovedBy(input, a, call[2], call[1] .. call[2], s)

(* A group is sorted and its median goes to the front. *)
LEMMA MedianMoves ==
  ASSUME NEW top \in Nat, NEW bottom \in 0 .. top, NEW first, NEW old \in [0 .. top -> Int],
         \E s : MovedBy(first, old, top, bottom .. top, s),
         NEW from \in bottom .. top, NEW to \in from .. top, NEW mid \in from .. to,
         NEW d \in bottom .. from,
         NEW new, new = Swap(InsertSort(old, from, to), d, mid)
  PROVE  new \in [0 .. top -> Int] /\ \E s : MovedBy(first, new, top, bottom .. top, s)
<1> DEFINE sorted == InsertSort(old, from, to)
<1>1. \E s : MovedBy(old, sorted, top, from .. to, s)
  <2>1. from \in 0 .. top OBVIOUS
  <2> QED BY <2>1, InsertSortSorts
<1>2. new = Swap(sorted, d, mid) OBVIOUS
<1> HIDE DEF sorted
<1>3. PICK s : MovedBy(old, sorted, top, from .. to, s) BY <1>1
<1>4. sorted \in [0 .. top -> Int] BY <1>3, MovedType
<1>5. d \in 0 .. top /\ mid \in 0 .. top /\ d \in bottom .. top /\ mid \in bottom .. top OBVIOUS
<1>6. PICK t : MovedBy(sorted, new, top, {d, mid}, t)
  <2>1. \E t : MovedBy(sorted, Swap(sorted, d, mid), top, {d, mid}, t)
    BY ONLY top \in Nat, <1>4, <1>5, SwapMoves
  <2> QED BY <1>2, <2>1
<1>7. new \in [0 .. top -> Int] BY <1>4, <1>6, MovedType
<1>8. PICK u : MovedBy(first, old, top, bottom .. top, u) OBVIOUS
<1>9. MovedBy(old, sorted, top, bottom .. top, s)
  <2>1. from .. to \subseteq bottom .. top OBVIOUS
  <2> QED BY <1>3, <2>1, MovedWider
<1>10. MovedBy(sorted, new, top, bottom .. top, t)
  <2>1. {d, mid} \subseteq bottom .. top BY <1>5
  <2> QED BY <1>6, <2>1, MovedWider
<1>11. PICK v : MovedBy(first, sorted, top, bottom .. top, v) BY <1>8, <1>9, MovedTwice
<1>12. \E x : MovedBy(first, new, top, bottom .. top, x) BY <1>10, <1>11, MovedTwice
<1> QED BY <1>7, <1>12

LEMMA MoveInit == SelectionInit => TypeInv /\ MoveInv
<1> SUFFICES ASSUME SelectionInit PROVE TypeInv /\ MoveInv OBVIOUS
<1>1. PICK b \in Bounds : call = b /\ l = b[1] /\ r = b[2] /\ input \in [0 .. b[2] -> Value]
  BY DEF SelectionInit
<1>2. b \in Nat \X Nat /\ b[1] <= b[2] BY SelectionAssumption
<1>3. call \in Nat \X Nat /\ l = call[1] /\ r \in l .. call[2] BY <1>1, <1>2
<1>4. input \in [0 .. call[2] -> Int] BY <1>1, SelectionAssumption
<1>5. a = input /\ i = 0 /\ share = 1 /\ where = "call" BY DEF SelectionInit
<1>6. call[2] \in Nat BY <1>3
<1>7. MoveInv BY <1>4, <1>5, <1>6, MovedNot DEF MoveInv
<1>8. TypeInv BY <1>3, <1>4, <1>5 DEF TypeInv
<1> QED BY <1>7, <1>8

(* The places of a group. *)
LEMMA GroupPlaces ==
  ASSUME NEW bottom \in Nat, NEW high \in Nat, NEW top \in Nat, high <= top,
         NEW from \in bottom .. high, NEW g \in Nat, from = bottom + 5 * g
  PROVE  /\ (from - bottom) \div 5 = g
         /\ bottom + g \in bottom .. from
         /\ from \in bottom .. top /\ high \in from .. top /\ bottom \in 0 .. top
         /\ from + (high - from + 1) - 1 = high
         /\ from + (high - from + 1) \div 2 \in from .. high
         /\ from < high - 5 => /\ from + 5 \in bottom .. high
                               /\ from + 5 = bottom + 5 * (g + 1)
                               /\ from + 4 \in from .. top
                               /\ from + 2 \in from .. from + 4
<1>1. (from - bottom) \div 5 = g
  <2>1. from - bottom = 5 * g OBVIOUS
  <2>2. (5 * g) \div 5 = g OBVIOUS
  <2> QED BY <2>1, <2>2
<1>2. from + (high - from + 1) \div 2 \in from .. high
  <2> DEFINE m == high - from + 1
  <2>1. m \in Nat /\ m >= 1 /\ high = from + m - 1 OBVIOUS
  <2> HIDE DEF m
  <2>2. m \div 2 \in 0 .. m - 1 BY <2>1
  <2>3. from + m \div 2 \in from .. high BY <2>1, <2>2
  <2> QED BY <2>3 DEF m
<1> QED BY <1>1, <1>2

LEMMA MoveNext == TypeInv /\ MoveInv /\ [SelectionNext]_selectionVars => TypeInv' /\ MoveInv'
<1> SUFFICES ASSUME TypeInv, MoveInv, [SelectionNext]_selectionVars PROVE TypeInv' /\ MoveInv' OBVIOUS
<1>1. /\ call \in Nat \X Nat /\ call[1] \in Nat /\ call[2] \in Nat
      /\ l = call[1] /\ r \in l .. call[2] /\ i \in Nat /\ share \in Nat
      /\ input \in [0 .. call[2] -> Int] /\ a \in [0 .. call[2] -> Int]
      /\ where = "groups" => i \in l .. r /\ \E g \in Nat : i = l + 5 * g
  BY DEF TypeInv
<1>2. CASE UNCHANGED selectionVars BY <1>2 DEF selectionVars, TypeInv, MoveInv
<1>3. CASE Enter
  <2>1. UNCHANGED <<a, input, call, l, r, share>> /\ i' = l /\ where' # "call" BY <1>3 DEF Enter
  <2>2. i' = l' + 5 * 0 /\ i' \in l' .. r' /\ i' \in Nat BY <1>1, <2>1
  <2>3. TypeInv' BY <1>1, <2>1, <2>2 DEF TypeInv
  <2>4. MoveInv' BY <2>1 DEF MoveInv
  <2> QED BY <2>3, <2>4
<1>4. PICK new, first, bottom, top, high, from :
          new = a' /\ first = input /\ bottom = call[1] /\ top = call[2] /\ high = r /\ from = i
  OBVIOUS
<1>5. /\ bottom \in Nat /\ top \in Nat /\ high \in Nat /\ high \in bottom .. top /\ high <= top
      /\ \E s : MovedBy(first, a, top, bottom .. top, s)
  BY <1>1, <1>4 DEF MoveInv
<1>6. CASE Group
  <2>1. /\ where = "groups" /\ i < r - 5 /\ n' = i - l /\ i' = i + 5
        /\ a' = Swap(InsertSort(a, i, i + 4), l + n' \div 5, i + 2)
        /\ UNCHANGED <<input, call, l, r, share, where>>
    BY <1>6 DEF Group
  <2>2. PICK g \in Nat : from = bottom + 5 * g BY <1>1, <1>4, <2>1
  <2>3. from \in bottom .. high /\ from < high - 5 BY <1>1, <1>4, <2>1
  <2>4. /\ from \in bottom .. top /\ bottom \in 0 .. top /\ from + 4 \in from .. top
        /\ from + 2 \in from .. from + 4 /\ bottom + g \in bottom .. from
        /\ (from - bottom) \div 5 = g
        /\ from + 5 \in bottom .. high /\ from + 5 = bottom + 5 * (g + 1)
    BY <1>5, <2>2, <2>3, GroupPlaces
  <2>5. new = Swap(InsertSort(a, from, from + 4), bottom + g, from + 2) BY <1>1, <1>4, <2>1, <2>4
  <2>6. new \in [0 .. top -> Int] /\ \E s : MovedBy(first, new, top, bottom .. top, s)
    <3>1. a \in [0 .. top -> Int] BY <1>1, <1>4
    <3> QED BY <1>5, <2>4, <2>5, <3>1, MedianMoves
  <2>7. i' \in l .. r /\ i' \in Nat /\ i' = l + 5 * (g + 1) /\ g + 1 \in Nat BY <1>1, <1>4, <2>1, <2>4
  <2>8. TypeInv' BY <1>1, <1>4, <2>1, <2>6, <2>7 DEF TypeInv
  <2>9. MoveInv' BY <1>4, <2>1, <2>6 DEF MoveInv
  <2> QED BY <2>8, <2>9
<1>7. CASE Rest
  <2>1. /\ where = "groups"
        /\ a' = Swap(InsertSort(a, i, i + (r - i + 1) - 1), l + (i - l) \div 5, i + (r - i + 1) \div 2)
        /\ share' = 2 * share
        /\ \/ where' = "end" /\ UNCHANGED r
           \/ where' = "call" /\ r' = l + (i - l) \div 5
        /\ UNCHANGED <<input, call, l, i>>
    BY <1>7 DEF Rest
  <2>2. PICK g \in Nat : from = bottom + 5 * g BY <1>1, <1>4, <2>1
  <2>3. from \in bottom .. high BY <1>1, <1>4, <2>1
  <2>4. /\ from \in bottom .. top /\ high \in from .. top /\ bottom \in 0 .. top
        /\ from + (high - from + 1) - 1 = high
        /\ from + (high - from + 1) \div 2 \in from .. high /\ bottom + g \in bottom .. from
        /\ (from - bottom) \div 5 = g
    BY <1>5, <2>2, <2>3, GroupPlaces
  <2>5. PICK mid : mid = from + (high - from + 1) \div 2 OBVIOUS
  <2>6. new \in [0 .. top -> Int] /\ \E s : MovedBy(first, new, top, bottom .. top, s)
    <3>1. a \in [0 .. top -> Int] BY <1>1, <1>4
    <3>2. mid \in from .. high BY <2>4, <2>5
    <3>3. new = Swap(InsertSort(a, from, high), bottom + g, mid) BY <1>1, <1>4, <2>1, <2>4, <2>5
    <3> QED BY <1>5, <2>4, <3>1, <3>2, <3>3, MedianMoves
  <2>7. r' \in l .. call[2]
    <3>1. bottom + g \in bottom .. top BY <1>5, <2>4
    <3>2. r' = high \/ r' = bottom + g BY <1>1, <1>4, <2>1, <2>4
    <3>3. r' \in bottom .. top BY <1>5, <3>1, <3>2
    <3> QED BY <1>1, <1>4, <3>3
  <2>8. share' \in Nat BY <1>1, <2>1
  <2>9. TypeInv' BY <1>1, <1>4, <2>1, <2>6, <2>7, <2>8 DEF TypeInv
  <2>10. MoveInv' BY <1>4, <2>1, <2>6 DEF MoveInv
  <2> QED BY <2>9, <2>10
<1> QED BY <1>2, <1>3, <1>6, <1>7 DEF SelectionNext

-----------------------------------------------------------------------------
(* What FindMid returns is not small *)

\* f parts of all stand for each element of the array but the last, w for that one.
\* Halved groups: what is known of the g medians in front is counted in half parts.
Standing(low, f, w, part, array, first, high, top, from, g) ==
    /\ Piles(low, array, first, top, (0 .. g - 1) \cup (from .. high))
    /\ w <= 2 * f /\ f * high + w = top + 1
    /\ \A x \in from .. high - 1 : part * Cardinality(low[x]) >= f
    /\ part * Cardinality(low[high]) >= w
    /\ \A x \in 0 .. g - 1 : 2 * part * Cardinality(low[x]) >= 5 * f

ShareInv ==
    call[1] = 0 =>
        /\ where = "call" =>
              \E low : \E f, w \in Nat : Standing(low, f, w, share, a, input, r, call[2], 0, 0)
        /\ where = "groups" =>
              \E low : \E f, w, g \in Nat :
                  i = 5 * g /\ Standing(low, f, w, share, a, input, r, call[2], i, g)
        /\ where = "end" =>
              \E pile \in SUBSET (0 .. call[2]) :
                  /\ \A e \in pile : input[e] <= a[0]
                  /\ share * Cardinality(pile) >= call[2] + 1

(* What is known of places is known of fewer. *)
LEMMA PilesFewer ==
  ASSUME NEW low, NEW array, NEW first, NEW top, NEW D, NEW E, E \subseteq D,
         Piles(low, array, first, top, D)
  PROVE  Piles(low, array, first, top, E)
BY DEF Piles

(* A group of five: its median stands for what stood for three of them. *)
LEMMA GroupStands ==
  ASSUME NEW top \in Nat, NEW high \in 0 .. top, NEW g \in Nat, NEW from \in Nat,
         from = 5 * g, from < high - 5,
         NEW part \in Nat, NEW f \in Nat, NEW w \in Nat,
         NEW first \in [0 .. top -> Int], NEW old \in [0 .. top -> Int],
         NEW low, Standing(low, f, w, part, old, first, high, top, from, g),
         NEW new, new = Swap(InsertSort(old, from, from + 4), g, from + 2)
  PROVE  \E m : Standing(m, f, w, part, new, first, high, top, from + 5, g + 1)
<1> DEFINE D == (0 .. g - 1) \cup (from .. high)
           E == (D \ (from .. from + 4)) \cup {g}
<1>1. /\ Piles(low, old, first, top, D)
      /\ w <= 2 * f /\ f * high + w = top + 1
      /\ \A x \in from .. high - 1 : part * Cardinality(low[x]) >= f
      /\ part * Cardinality(low[high]) >= w
      /\ \A x \in 0 .. g - 1 : 2 * part * Cardinality(low[x]) >= 5 * f
  BY DEF Standing
<1>2. /\ D \in SUBSET (0 .. top) /\ from .. from + 4 \subseteq D
      /\ from \in 0 .. top /\ from + 4 \in from .. top /\ from + 2 \in from .. from + 4
      /\ g \in 0 .. from /\ (g \in D => g = from)
  <2>1. D \in SUBSET (0 .. top)
    <3>1. \A x \in 0 .. g - 1 : x \in 0 .. top OBVIOUS
    <3>2. \A x \in from .. high : x \in 0 .. top OBVIOUS
    <3> QED BY <3>1, <3>2
  <2>2. from .. from + 4 \subseteq D OBVIOUS
  <2>3. from \in 0 .. top /\ from + 4 \in from .. top /\ from + 2 \in from .. from + 4 OBVIOUS
  <2>4. g \in 0 .. from /\ (g \in D => g = from) OBVIOUS
  <2> QED BY <2>1, <2>2, <2>3, <2>4
<1>3. \A x \in from .. (from + 4) - 1 : part * Cardinality(low[x]) >= f BY <1>1
<1>4. part * Cardinality(low[from + 4]) >= f
  <2>1. from + 4 \in from .. high - 1 OBVIOUS
  <2> QED BY <1>1, <2>1
<1>5. (0 .. (g + 1) - 1) \cup (from + 5 .. high) \subseteq E
  <2> SUFFICES ASSUME NEW x \in (0 .. (g + 1) - 1) \cup (from + 5 .. high), x # g
               PROVE  x \in D /\ x \notin from .. from + 4
    OBVIOUS
  <2>1. CASE x \in 0 .. (g + 1) - 1 BY <2>1
  <2>2. CASE x \in from + 5 .. high BY <2>2
  <2> QED BY <2>1, <2>2
<1>6. g \in 0 .. top /\ \A x \in from + 5 .. high : x # g /\ x \in 0 .. top OBVIOUS
<1> HIDE DEF D
<1>7. PICK pile \in SUBSET (0 .. top) :
          /\ Piles([low EXCEPT ![g] = pile], new, first, top, E)
          /\ \/ part * Cardinality(pile) >= ((from + 2) - from + 1) * f
             \/ part * Cardinality(pile) >= ((from + 2) - from) * f + f
  <2>1. PICK to, mid : to = from + 4 /\ mid = from + 2 OBVIOUS
  <2>2. /\ from \in 0 .. top /\ to \in from .. top /\ mid \in from .. to /\ D \in SUBSET (0 .. top)
        /\ from .. to \subseteq D /\ g \in 0 .. from /\ (g \in D => g = from)
    BY <1>2, <2>1
  <2>3. (\A x \in from .. to - 1 : part * Cardinality(low[x]) >= f) /\ part * Cardinality(low[to]) >= f
    BY <1>3, <1>4, <2>1
  <2>4. new = Swap(InsertSort(old, from, to), g, mid) BY <2>1
  <2>5. E = (D \ (from .. to)) \cup {g} BY <2>1
  <2> HIDE DEF E
  <2>6. \E pile \in SUBSET (0 .. top) :
          /\ Piles([low EXCEPT ![g] = pile], new, first, top, (D \ (from .. to)) \cup {g})
          /\ \/ part * Cardinality(pile) >= (mid - from + 1) * f
             \/ part * Cardinality(pile) >= (mid - from) * f + f
    <3>1. Weighed(top, first, old, D, low, from, to, mid, g, part, f, f)
      BY <1>1, <2>2, <2>3 DEF Weighed
    <3> QED BY <2>4, <3>1, MedianPile
  <2> QED BY <2>1, <2>5, <2>6
<1> HIDE DEF E
<1> DEFINE m == [low EXCEPT ![g] = pile]
<1>8. Piles(m, new, first, top, (0 .. (g + 1) - 1) \cup (from + 5 .. high)) BY <1>5, <1>7, PilesFewer
<1>9. m[g] = pile /\ \A x \in 0 .. top : x # g => m[x] = low[x] BY <1>1, <1>6 DEF Piles
<1> HIDE DEF m
<1>10. 2 * part * Cardinality(pile) >= 5 * f
  <2> DEFINE p == part * Cardinality(pile)
  <2>1. p \in Nat
    <3>1. IsFiniteSet(0 .. top)
      <4>1. 0 \in Int /\ top \in Int OBVIOUS
      <4> QED BY ONLY <4>1, FS_Interval
    <3>2. Cardinality(pile) \in Nat BY <3>1, FS_Subset, FS_CardinalityType
    <3>3. \A c \in Nat : part * c \in Nat OBVIOUS
    <3> QED BY <3>2, <3>3
  <2>2. p >= 3 * f
    <3>1. ((from + 2) - from + 1) * f = 3 * f /\ ((from + 2) - from) * f + f = 3 * f OBVIOUS
    <3> QED BY <1>7, <3>1
  <2>3. 2 * part * Cardinality(pile) = 2 * p
    <3>1. \A c \in Nat : 2 * part * c = 2 * (part * c) OBVIOUS
    <3>2. IsFiniteSet(0 .. top)
      <4>1. 0 \in Int /\ top \in Int OBVIOUS
      <4> QED BY ONLY <4>1, FS_Interval
    <3>3. Cardinality(pile) \in Nat BY <3>2, FS_Subset, FS_CardinalityType
    <3> QED BY <3>1, <3>3
  <2> HIDE DEF p
  <2> QED BY <2>1, <2>2, <2>3
<1>11. \A x \in from + 5 .. high - 1 : part * Cardinality(m[x]) >= f
  <2> SUFFICES ASSUME NEW x \in from + 5 .. high - 1 PROVE part * Cardinality(m[x]) >= f OBVIOUS
  <2>1. x \in from .. high - 1 /\ x \in from + 5 .. high OBVIOUS
  <2> QED BY <1>1, <1>6, <1>9, <2>1
<1>12. part * Cardinality(m[high]) >= w
  <2>1. high \in from + 5 .. high OBVIOUS
  <2> QED BY <1>1, <1>6, <1>9, <2>1
<1>13. \A x \in 0 .. (g + 1) - 1 : 2 * part * Cardinality(m[x]) >= 5 * f
  <2> SUFFICES ASSUME NEW x \in 0 .. (g + 1) - 1 PROVE 2 * part * Cardinality(m[x]) >= 5 * f OBVIOUS
  <2>1. CASE x = g BY <1>9, <1>10, <2>1
  <2>2. CASE x # g
    <3>1. x \in 0 .. g - 1 /\ x \in 0 .. top BY <1>6, <2>2
    <3>2. m[x] = low[x] BY <1>9, <2>2, <3>1
    <3> QED BY <1>1, <3>1, <3>2
  <2> QED BY <2>1, <2>2
<1>14. Standing(m, f, w, part, new, first, high, top, from + 5, g + 1)
  BY <1>1, <1>8, <1>11, <1>12, <1>13 DEF Standing
<1> QED BY <1>14

(* The arithmetic of the last group: half of up to six, and the last of them may *)
(* count for less or for more than the others.                                    *)
LEMMA HalfIsEnough ==
  ASSUME NEW k \in 0 .. 5, NEW f \in Nat, NEW w \in Nat, w <= 2 * f, NEW p \in Nat,
         p >= ((k + 1) \div 2 + 1) * f \/ p >= ((k + 1) \div 2) * f + w
  PROVE  2 * p >= k * f + w /\ k * f + w <= 2 * (5 * f)
<1>1. CASE k = 0 BY <1>1
<1>2. CASE k = 1 BY <1>2
<1>3. CASE k = 2 BY <1>3
<1>4. CASE k = 3 BY <1>4
<1>5. CASE k = 4 BY <1>5
<1>6. CASE k = 5 BY <1>6
<1> QED BY <1>1, <1>2, <1>3, <1>4, <1>5, <1>6

(* The last group, of one to six: the medians are the array of the next call. *)
LEMMA RestStands ==
  ASSUME NEW top \in Nat, NEW high \in 0 .. top, NEW g \in Nat, NEW from \in 0 .. high,
         from = 5 * g, from >= high - 5,
         NEW part \in Nat, NEW f \in Nat, NEW w \in Nat,
         NEW first \in [0 .. top -> Int], NEW old \in [0 .. top -> Int],
         NEW low, Standing(low, f, w, part, old, first, high, top, from, g),
         NEW mid, mid = from + (high - from + 1) \div 2,
         NEW new, new = Swap(InsertSort(old, from, high), g, mid)
  PROVE  \E m : Standing(m, 5 * f, (high - from) * f + w, 2 * part, new, first, g, top, 0, 0)
<1> DEFINE D == (0 .. g - 1) \cup (from .. high)
           E == (D \ (from .. high)) \cup {g}
           k == high - from
<1>1. /\ Piles(low, old, first, top, D)
      /\ w <= 2 * f /\ f * high + w = top + 1
      /\ \A x \in from .. high - 1 : part * Cardinality(low[x]) >= f
      /\ part * Cardinality(low[high]) >= w
      /\ \A x \in 0 .. g - 1 : 2 * part * Cardinality(low[x]) >= 5 * f
  BY DEF Standing
<1>2. k \in 0 .. 5 /\ high = from + k /\ mid = from + (k + 1) \div 2 OBVIOUS
<1>3. mid \in from .. high
  <2> HIDE DEF k
  <2>1. (k + 1) \div 2 \in 0 .. k BY <1>2
  <2> QED BY <1>2, <2>1
<1>4. /\ D \in SUBSET (0 .. top) /\ from .. high \subseteq D
      /\ from \in 0 .. top /\ high \in from .. top
      /\ g \in 0 .. from /\ (g \in D => g = from)
  OBVIOUS
<1>5. (0 .. 0 - 1) \cup (0 .. g) \subseteq E
  <2> SUFFICES ASSUME NEW x \in 0 .. g, x # g PROVE x \in D /\ x \notin from .. high OBVIOUS
  <2> QED OBVIOUS
<1>6. g \in 0 .. top OBVIOUS
<1> HIDE DEF D
<1>7. PICK pile \in SUBSET (0 .. top) :
          /\ Piles([low EXCEPT ![g] = pile], new, first, top, E)
          /\ \/ part * Cardinality(pile) >= (mid - from + 1) * f
             \/ part * Cardinality(pile) >= (mid - from) * f + w
  <2>1. Weighed(top, first, old, D, low, from, high, mid, g, part, f, w)
    BY <1>1, <1>3, <1>4 DEF Weighed
  <2>2. new = Swap(InsertSort(old, from, high), g, mid) OBVIOUS
  <2>3. \E pile \in SUBSET (0 .. top) :
          /\ Piles([low EXCEPT ![g] = pile], new, first, top, (D \ (from .. high)) \cup {g})
          /\ \/ part * Cardinality(pile) >= (mid - from + 1) * f
             \/ part * Cardinality(pile) >= (mid - from) * f + w
    BY ONLY <2>1, <2>2, MedianPile
  <2> QED BY <2>3
<1> HIDE DEF E
<1> DEFINE m == [low EXCEPT ![g] = pile]
<1>8. Piles(m, new, first, top, (0 .. 0 - 1) \cup (0 .. g)) BY <1>5, <1>7, PilesFewer
<1>9. m[g] = pile /\ \A x \in 0 .. top : x # g => m[x] = low[x] BY <1>1, <1>6 DEF Piles
<1> HIDE DEF m
<1>10. Cardinality(pile) \in Nat
  <2>1. IsFiniteSet(0 .. top)
    <3>1. 0 \in Int /\ top \in Int OBVIOUS
    <3> QED BY ONLY <3>1, FS_Interval
  <2> QED BY <2>1, FS_Subset, FS_CardinalityType
<1>11. (2 * part) * Cardinality(pile) >= k * f + w /\ k * f + w <= 2 * (5 * f)
  <2> DEFINE p == part * Cardinality(pile)
  <2>1. p \in Nat BY <1>10
  <2>2. mid - from = (k + 1) \div 2 /\ (k + 1) \div 2 \in Int BY <1>2
  <2>3. p >= ((k + 1) \div 2 + 1) * f \/ p >= ((k + 1) \div 2) * f + w BY <1>7, <2>2
  <2>4. (2 * part) * Cardinality(pile) = 2 * p BY <1>10
  <2> HIDE DEF p, k
  <2> QED BY <1>1, <1>2, <2>1, <2>3, <2>4, HalfIsEnough
<1>12. (5 * f) * g + (k * f + w) = top + 1
  <2>1. (5 * f) * g = f * from OBVIOUS
  <2>2. f * high = f * from + k * f BY <1>2
  <2> QED BY <1>1, <2>1, <2>2
<1>13. \A x \in 0 .. g - 1 : (2 * part) * Cardinality(m[x]) >= 5 * f
  <2> SUFFICES ASSUME NEW x \in 0 .. g - 1 PROVE (2 * part) * Cardinality(m[x]) >= 5 * f OBVIOUS
  <2>1. x \in 0 .. top /\ x # g BY <1>6
  <2>2. m[x] = low[x] BY <1>9, <2>1
  <2> QED BY <1>1, <2>2
<1>14. (2 * part) * Cardinality(m[g]) >= k * f + w BY <1>9, <1>11
<1>15. \A x \in 0 .. 0 - 1 : 2 * (2 * part) * Cardinality(m[x]) >= 5 * (5 * f) OBVIOUS
<1>16. k * f + w <= 2 * (5 * f) BY <1>11
<1>17. Standing(m, 5 * f, k * f + w, 2 * part, new, first, g, top, 0, 0)
  BY <1>8, <1>12, <1>13, <1>14, <1>15, <1>16 DEF Standing
<1> QED BY <1>17

(* One element is left: all parts stand for it. *)
LEMMA LastStands ==
  ASSUME NEW top \in Nat, NEW f \in Nat, NEW w \in Nat, NEW part, NEW array, NEW first, NEW low,
         Standing(low, f, w, part, array, first, 0, top, 0, 0)
  PROVE  /\ low[0] \in SUBSET (0 .. top)
         /\ \A e \in low[0] : first[e] <= array[0]
         /\ part * Cardinality(low[0]) >= top + 1
<1>1. /\ Piles(low, array, first, top, (0 .. 0 - 1) \cup (0 .. 0))
      /\ f * 0 + w = top + 1 /\ part * Cardinality(low[0]) >= w
  BY DEF Standing
<1>2. 0 \in 0 .. top /\ 0 \in (0 .. 0 - 1) \cup (0 .. 0) OBVIOUS
<1>3. low[0] \in SUBSET (0 .. top) /\ \A e \in low[0] : first[e] <= array[0]
  BY <1>1, <1>2 DEF Piles
<1>4. w = top + 1 BY <1>1
<1> QED BY <1>1, <1>3, <1>4

(* At first each element stands for itself. *)
LEMMA FirstStands ==
  ASSUME NEW top \in Nat, NEW array \in [0 .. top -> Int]
  PROVE  Standing([x \in 0 .. top |-> {x}], 1, 1, 1, array, array, top, top, 0, 0)
<1> DEFINE low == [x \in 0 .. top |-> {x}]
           D == (0 .. 0 - 1) \cup (0 .. top)
<1>1. \A x \in D : x \in 0 .. top /\ low[x] = {x} OBVIOUS
<1>2. low \in [0 .. top -> SUBSET (0 .. top)] OBVIOUS
<1>3. \A x \in 0 .. top : array[x] <= array[x]
  <2>1. \A x \in 0 .. top : array[x] \in Int OBVIOUS
  <2> QED BY <2>1
<1>4. Piles(low, array, array, top, D) BY <1>1, <1>2, <1>3 DEF Piles
<1>5. \A x \in 0 .. top : 1 * Cardinality(low[x]) = 1
  <2> SUFFICES ASSUME NEW x \in 0 .. top PROVE 1 * Cardinality(low[x]) = 1 OBVIOUS
  <2>1. low[x] = {x} OBVIOUS
  <2>2. Cardinality({x}) = 1 BY FS_Singleton
  <2> HIDE DEF low
  <2> QED BY <2>1, <2>2
<1>6. /\ \A x \in 0 .. top - 1 : 1 * Cardinality(low[x]) >= 1
      /\ 1 * Cardinality(low[top]) >= 1
      /\ \A x \in 0 .. 0 - 1 : 2 * 1 * Cardinality(low[x]) >= 5 * 1
  BY <1>5
<1>7. 1 <= 2 * 1 /\ 1 * top + 1 = top + 1 OBVIOUS
<1> HIDE DEF low
<1>8. Standing(low, 1, 1, 1, array, array, top, top, 0, 0) BY <1>4, <1>6, <1>7 DEF Standing
<1> QED BY <1>8 DEF low

LEMMA ShareInit == SelectionInit => ShareInv
<1> SUFFICES ASSUME SelectionInit, call[1] = 0 PROVE ShareInv BY DEF ShareInv
<1>1. PICK b \in Bounds : call = b /\ l = b[1] /\ r = b[2] /\ input \in [0 .. b[2] -> Value]
  BY DEF SelectionInit
<1>2. b \in Nat \X Nat /\ b[1] <= b[2] BY SelectionAssumption
<1>3. r \in Nat /\ r = call[2] /\ input \in [0 .. r -> Int] BY <1>1, <1>2, SelectionAssumption
<1>4. a = input /\ share = 1 /\ where = "call" BY DEF SelectionInit
<1>5. PICK top, array : top = r /\ array = input OBVIOUS
<1>6. Standing([x \in 0 .. top |-> {x}], 1, 1, 1, array, array, top, top, 0, 0)
  BY <1>3, <1>5, FirstStands
<1>7. \E low : \E f, w \in Nat : Standing(low, f, w, share, a, input, r, call[2], 0, 0)
  <2>1. 1 \in Nat OBVIOUS
  <2> QED BY <1>3, <1>4, <1>5, <1>6, <2>1
<1> QED BY <1>4, <1>7 DEF ShareInv

LEMMA ShareNext == TypeInv /\ ShareInv /\ [SelectionNext]_selectionVars => ShareInv'
<1> SUFFICES ASSUME TypeInv, ShareInv, [SelectionNext]_selectionVars, call'[1] = 0 PROVE ShareInv'
  BY DEF ShareInv
<1>1. call' = call BY DEF SelectionNext, selectionVars, Enter, Group, Rest
<1>2. /\ call[1] = 0 /\ call \in Nat \X Nat /\ call[2] \in Nat
      /\ l = 0 /\ r \in 0 .. call[2] /\ i \in Nat /\ share \in Nat
      /\ input \in [0 .. call[2] -> Int] /\ a \in [0 .. call[2] -> Int]
      /\ where = "groups" => i \in 0 .. r
  BY <1>1 DEF TypeInv
<1>3. PICK new, old, first, top, high, from, part :
          /\ new = a' /\ old = a /\ first = input /\ top = call[2]
          /\ high = r /\ from = i /\ part = share
  OBVIOUS
<1>4. /\ top \in Nat /\ high \in 0 .. top /\ from \in Nat /\ part \in Nat
      /\ first \in [0 .. top -> Int] /\ old \in [0 .. top -> Int]
  BY <1>2, <1>3
<1>5. where = "call" =>
          \E low : \E f, w \in Nat : Standing(low, f, w, part, old, first, high, top, 0, 0)
  BY <1>2, <1>3 DEF ShareInv
<1>6. where = "groups" =>
          \E low : \E f, w, g \in Nat :
              from = 5 * g /\ Standing(low, f, w, part, old, first, high, top, from, g)
  BY <1>2, <1>3 DEF ShareInv
<1>7. CASE UNCHANGED selectionVars BY <1>7 DEF selectionVars, ShareInv
<1>8. CASE Enter
  <2>1. /\ where = "call" /\ i' = 0 /\ UNCHANGED <<a, input, call, l, r, share>>
        /\ where' = IF r = 0 THEN "end" ELSE "groups"
    BY <1>2, <1>8 DEF Enter
  <2>2. PICK low : \E f, w \in Nat : Standing(low, f, w, part, old, first, high, top, 0, 0)
    BY <1>5, <2>1
  <2>3. PICK f \in Nat, w \in Nat : Standing(low, f, w, part, old, first, high, top, 0, 0) BY <2>2
  <2>4. CASE r = 0
    <3>1. /\ low[0] \in SUBSET (0 .. top) /\ \A e \in low[0] : first[e] <= old[0]
          /\ part * Cardinality(low[0]) >= top + 1
      BY <1>3, <1>4, <2>3, <2>4, LastStands
    <3> QED BY <1>3, <2>1, <2>4, <3>1 DEF ShareInv
  <2>5. CASE r # 0
    <3>1. where' = "groups" /\ i' = 5 * 0 /\ 0 \in Nat BY <2>1, <2>5
    <3>2. i' = 5 * 0 /\ Standing(low, f, w, share', a', input', r', call'[2], i', 0)
      BY <1>3, <2>1, <2>3, <3>1
    <3> QED BY <3>1, <3>2 DEF ShareInv
  <2> QED BY <2>4, <2>5
<1>9. CASE Group
  <2>1. /\ where = "groups" /\ i < r - 5 /\ i' = i + 5
        /\ a' = Swap(InsertSort(a, i, i + 4), l + (i - l) \div 5, i + 2)
        /\ UNCHANGED <<input, call, l, r, share, where>>
    BY <1>9 DEF Group
  <2>2. PICK low : \E f, w, g \in Nat :
            from = 5 * g /\ Standing(low, f, w, part, old, first, high, top, from, g)
    BY <1>6, <2>1
  <2>3. PICK f \in Nat, w \in Nat, g \in Nat :
            from = 5 * g /\ Standing(low, f, w, part, old, first, high, top, from, g)
    BY <2>2
  <2>4. (5 * g) \div 5 = g /\ (5 * g) - 0 = 5 * g /\ 0 + g = g OBVIOUS
  <2>5. new = Swap(InsertSort(old, from, from + 4), g, from + 2) BY <1>2, <1>3, <2>1, <2>3, <2>4
  <2>6. from < high - 5 BY <1>3, <2>1
  <2>7. PICK m : Standing(m, f, w, part, new, first, high, top, from + 5, g + 1)
    BY <1>4, <2>3, <2>5, <2>6, GroupStands
  <2>8. i' = 5 * (g + 1) /\ g + 1 \in Nat BY <1>3, <2>1, <2>3
  <2>9. Standing(m, f, w, share', a', input', r', call'[2], i', g + 1) BY <1>3, <2>1, <2>7
  <2>10. where' = "groups" BY <2>1
  <2> QED BY <2>8, <2>9, <2>10 DEF ShareInv
<1>10. CASE Rest
  <2>1. /\ where = "groups" /\ i >= r - 5
        /\ a' = Swap(InsertSort(a, i, i + (r - i + 1) - 1), l + (i - l) \div 5, i + (r - i + 1) \div 2)
        /\ share' = 2 * share
        /\ \/ (i - l) \div 5 = l /\ where' = "end"
           \/ where' = "call" /\ r' = l + (i - l) \div 5
        /\ UNCHANGED <<input, call, l, i>>
    BY <1>10 DEF Rest
  <2>2. PICK low : \E f, w, g \in Nat :
            from = 5 * g /\ Standing(low, f, w, part, old, first, high, top, from, g)
    BY <1>6, <2>1
  <2>3. PICK f \in Nat, w \in Nat, g \in Nat :
            from = 5 * g /\ Standing(low, f, w, part, old, first, high, top, from, g)
    BY <2>2
  <2>4. (5 * g) \div 5 = g /\ (5 * g) - 0 = 5 * g /\ 0 + g = g OBVIOUS
  <2>5. PICK mid : mid = from + (high - from + 1) \div 2 OBVIOUS
  <2>6. from \in 0 .. high /\ from >= high - 5 /\ from + (high - from + 1) - 1 = high
    BY <1>2, <1>3, <1>4, <2>1
  <2>7. new = Swap(InsertSort(old, from, high), g, mid)
    BY <1>2, <1>3, <2>1, <2>3, <2>4, <2>5, <2>6
  <2>8. PICK m : Standing(m, 5 * f, (high - from) * f + w, 2 * part, new, first, g, top, 0, 0)
    BY <1>4, <2>3, <2>5, <2>6, <2>7, RestStands
  <2>9. 5 * f \in Nat /\ (high - from) * f + w \in Nat
    <3>1. high - from \in Nat BY <1>4, <2>6
    <3> QED BY <3>1
  <2>10. PICK h, v : h = 5 * f /\ v = (high - from) * f + w OBVIOUS
  <2>11. h \in Nat /\ v \in Nat /\ Standing(m, h, v, 2 * part, new, first, g, top, 0, 0)
    BY <2>8, <2>9, <2>10
  <2>12. (i - l) \div 5 = g /\ l + (i - l) \div 5 = g BY <1>2, <1>3, <2>3, <2>4
  <2>13. CASE where' = "end" /\ g = 0
    <3>1. /\ m[0] \in SUBSET (0 .. top) /\ \A e \in m[0] : first[e] <= new[0]
          /\ (2 * part) * Cardinality(m[0]) >= top + 1
      BY <1>4, <2>11, <2>13, LastStands
    <3> QED BY <1>3, <2>1, <2>13, <3>1 DEF ShareInv
  <2>14. CASE where' = "call" /\ r' = g
    <3>1. Standing(m, h, v, share', a', input', r', call'[2], 0, 0) BY <1>3, <2>1, <2>11, <2>14
    <3> QED BY <2>11, <2>14, <3>1 DEF ShareInv
  <2> QED BY <1>2, <2>1, <2>12, <2>13, <2>14
<1> QED BY <1>7, <1>8, <1>9, <1>10 DEF SelectionNext

-----------------------------------------------------------------------------

LEMMA MovedAndNotSmallInv == TypeInv /\ MoveInv /\ ShareInv => MovedAndNotSmall
<1> SUFFICES ASSUME TypeInv, MoveInv, ShareInv PROVE MovedAndNotSmall OBVIOUS
<1>1. PICK top, first, array, bottom :
          top = call[2] /\ first = input /\ array = a /\ bottom = call[1]
  OBVIOUS
<1>2. /\ top \in Nat /\ bottom \in Nat
      /\ first \in [0 .. top -> Int] /\ array \in [0 .. top -> Int] /\ l = bottom /\ share \in Nat
  BY <1>1 DEF TypeInv
<1>3. PICK s : MovedBy(first, array, top, bottom .. top, s) BY <1>1 DEF MoveInv
<1>4. \A v \in Value : Occurrences(array, v) = Occurrences(first, v)
  <2> SUFFICES ASSUME NEW v \in Value PROVE Occurrences(array, v) = Occurrences(first, v) OBVIOUS
  <2>1. Cardinality(Places(array, top, {v})) = Cardinality(Places(first, top, {v}))
    BY <1>2, <1>3, MovedCount
  <2>2. \A b \in [0 .. top -> Int] : Places(b, top, {v}) = {j \in DOMAIN b : b[j] = v}
    BY DEF Places
  <2> QED BY <1>2, <2>1, <2>2 DEF Occurrences
<1>5. \A j \in DOMAIN array : j < bottom => array[j] = first[j]
  <2> SUFFICES ASSUME NEW j \in 0 .. top, j < bottom PROVE array[j] = first[j] BY <1>2
  <2>1. j \notin bottom .. top BY <1>2
  <2>2. s[j] = j /\ array[j] = first[s[j]] BY <1>3, <2>1 DEF MovedBy
  <2> QED BY <2>2
<1>6. ASSUME where = "end", bottom = 0
      PROVE  share * Cardinality({j \in 0 .. top : array[j] <= array[0]}) >= top + 1
  <2>1. PICK pile \in SUBSET (0 .. top) :
            (\A e \in pile : first[e] <= array[0]) /\ share * Cardinality(pile) >= top + 1
    BY <1>1, <1>6 DEF ShareInv
  <2> DEFINE P == {v \in Int : v <= array[0]}
             Q == Places(first, top, P)
             R == Places(array, top, P)
  <2>2. Cardinality(R) = Cardinality(Q) BY <1>2, <1>3, MovedCount
  <2>3. pile \subseteq Q
    <3> SUFFICES ASSUME NEW e \in pile PROVE e \in Q OBVIOUS
    <3>1. e \in 0 .. top /\ first[e] \in Int /\ first[e] <= array[0] BY <1>2, <2>1
    <3> QED BY <3>1 DEF Places
  <2>4. R = {j \in 0 .. top : array[j] <= array[0]}
    <3>1. \A x \in 0 .. top : array[x] \in Int BY <1>2
    <3> QED BY <3>1 DEF Places
  <2>5. IsFiniteSet(Q)
    <3>1. IsFiniteSet(0 .. top)
      <4>1. 0 \in Int /\ top \in Int BY <1>2
      <4> QED BY ONLY <4>1, FS_Interval
    <3> HIDE DEF P
    <3>2. Q \subseteq 0 .. top BY DEF Places
    <3> HIDE DEF Q
    <3> QED BY <3>1, <3>2, FS_Subset
  <2> HIDE DEF Q, R, P
  <2>6. PICK c, d : c = Cardinality(pile) /\ d = Cardinality(Q) OBVIOUS
  <2>7. c \in Nat /\ d \in Nat /\ c <= d
    <3>1. IsFiniteSet(pile) /\ Cardinality(pile) <= Cardinality(Q) BY <2>3, <2>5, FS_Subset
    <3> QED BY <2>5, <2>6, <3>1, FS_CardinalityType
  <2>8. share * c <= share * d
    <3>1. \A p \in Nat : p * c <= p * d BY <2>7
    <3> QED BY <1>2, <3>1
  <2>9. share * c \in Nat /\ share * d \in Nat
    <3>1. \A p \in Nat : p * c \in Nat /\ p * d \in Nat BY <2>7
    <3> QED BY <1>2, <3>1
  <2>10. share * d >= top + 1
    <3>1. share * c >= top + 1 BY <2>1, <2>6
    <3> QED BY <1>2, <2>8, <2>9, <3>1
  <2> QED BY <2>2, <2>4, <2>6, <2>10
<1> QED BY <1>1, <1>2, <1>4, <1>5, <1>6 DEF MovedAndNotSmall

(* FindMid (Tools.c:132-160), on every array and between any two places, only     *)
(* moves elements, and only between these places; of a call on the whole array    *)
(* the element in front is at the end no smaller than the share of all that its   *)
(* passes leave: half, a quarter, an eighth.                                      *)
THEOREM MovedAndNotSmallHolds == SelectionSpec => []MovedAndNotSmall
<1>1. SelectionInit => TypeInv /\ MoveInv /\ ShareInv BY MoveInit, ShareInit
<1>2. TypeInv /\ MoveInv /\ ShareInv /\ [SelectionNext]_selectionVars => (TypeInv /\ MoveInv /\ ShareInv)'
  BY MoveNext, ShareNext
<1>3. TypeInv /\ MoveInv /\ ShareInv => MovedAndNotSmall BY MovedAndNotSmallInv
<1> QED BY <1>1, <1>2, <1>3, PTL DEF SelectionSpec

=============================================================================
