----------------------------- MODULE SharedLemmas -----------------------------
(***************************************************************************)
(* What several of the proofs need.  Induction up to a bound: least        *)
(* elements, sets closed under successors, and the existence of functions  *)
(* that are defined step by step.  Sums of the sizes of disjoint sets.     *)
(* Remainders.  What a list gets when another one is appended to it.       *)
(***************************************************************************)
EXTENDS Integers, TLAPS, WellFoundedInduction, FiniteSetTheorems, SequenceTheorems

-----------------------------------------------------------------------------
(* Induction *)

(* Every set of natural numbers has a least element. *)
LEMMA NatMin ==
  ASSUME NEW T, T \subseteq Nat, T # {}
  PROVE \E n \in T : \A m \in T : n <= m
<1> DEFINE R == {ss \in Nat \X Nat : ss[1] < ss[2]}
<1>1. IsWellFoundedOn(R, Nat) BY NatLessThanWellFounded DEF OpToRel
<1>2. R = {ss \in Nat \X Nat : ss[1] < ss[2]} OBVIOUS
<1> HIDE DEF R
<1>3. PICK x \in T : \A y \in T : ~ (<<y, x>> \in R) BY <1>1, WFMin
<1>4. \A y \in T : x <= y
  <2> SUFFICES ASSUME NEW y \in T PROVE x <= y OBVIOUS
  <2>1. ~(y < x) BY <1>2, <1>3
  <2> QED BY <2>1
<1> QED BY <1>4

(* A set that holds 0 and the successor of its every element holds all. *)
LEMMA SetInduction ==
  ASSUME NEW T, NEW n \in Nat, 0 \in T, \A i \in 1 .. n : i - 1 \in T => i \in T
  PROVE \A i \in 0 .. n : i \in T
<1> SUFFICES ASSUME ~ \A i \in 0 .. n : i \in T PROVE FALSE OBVIOUS
<1> DEFINE C == {i \in 0 .. n : i \notin T}
<1>1. C \subseteq Nat /\ C # {} OBVIOUS
<1>2. PICK c \in C : \A m \in C : c <= m BY <1>1, NatMin
<1>3. c # 0 /\ c \in 1 .. n OBVIOUS
<1>4. c - 1 \in T
  <2>1. c - 1 \in 0 .. n /\ ~(c <= c - 1) BY <1>3
  <2> QED BY <1>2, <2>1
<1> QED BY <1>3, <1>4

\* The functions that start at a and take the given steps.
Chains(n, S, a, step) ==
    {f \in [0 .. n -> S] : f[0] = a /\ \A i \in 1 .. n : f[i] = step[i][f[i - 1]]}
Steps(n, S) == [1 .. n -> [S -> S]]

(* There is such a function. *)
LEMMA RecursionExists ==
  ASSUME NEW S, NEW n \in Nat, NEW a \in S, NEW step \in Steps(n, S)
  PROVE Chains(n, S, a, step) # {}
<1> DEFINE Good(m, f) == f[0] = a /\ \A i \in 1 .. m : f[i] = step[i][f[i - 1]]
           T == {m \in 0 .. n : \E f \in [0 .. m -> S] : Good(m, f)}
<1>1. 0 \in T
  <2> DEFINE f == [i \in 0 .. 0 |-> a]
  <2>1. f \in [0 .. 0 -> S] /\ Good(0, f) OBVIOUS
  <2> HIDE DEF f
  <2> QED BY <2>1
<1>2. ASSUME NEW m \in 1 .. n, m - 1 \in T PROVE m \in T
  <2>1. PICK f \in [0 .. m - 1 -> S] : Good(m - 1, f) BY <1>2
  <2> DEFINE g == [i \in 0 .. m |-> IF i = m THEN step[m][f[m - 1]] ELSE f[i]]
  <2>2. g \in [0 .. m -> S]
    <3>1. m - 1 \in 0 .. m - 1 OBVIOUS
    <3>2. step[m][f[m - 1]] \in S BY <3>1 DEF Steps
    <3> QED BY <3>2
  <2>3. g[0] = a BY <2>1
  <2>4. ASSUME NEW i \in 1 .. m PROVE g[i] = step[i][g[i - 1]]
    <3>1. CASE i = m BY <3>1
    <3>2. CASE i # m
      <4>1. i \in 1 .. m - 1 /\ i - 1 \in 0 .. m - 1 BY <3>2
      <4> QED BY <2>1, <3>2, <4>1
    <3> QED BY <3>1, <3>2
  <2> HIDE DEF g
  <2>5. Good(m, g) BY <2>3, <2>4
  <2> HIDE DEF Good
  <2> QED BY <2>2, <2>5
<1> HIDE DEF T
<1>3. \A i \in 0 .. n : i \in T BY <1>1, <1>2, SetInduction
<1>4. n \in T BY <1>3
<1> QED BY <1>4 DEF T, Chains

-----------------------------------------------------------------------------
(* Sums *)

UnionTo(S, n) == UNION {S[k] : k \in 1 .. n}

\* A sum of cardinalities of disjoint sets, as a function that adds one by one.
LEMMA DisjointSum ==
    ASSUME NEW n \in Nat, NEW S, \A k \in 1 .. n : IsFiniteSet(S[k]),
           \A k, l \in 1 .. n : k # l => S[k] \cap S[l] = {}
    PROVE  \E f \in [0 .. n -> Nat] :
              /\ f[0] = 0
              /\ \A k \in 1 .. n : f[k] = f[k - 1] + Cardinality(S[k])
              /\ f[n] = Cardinality(UnionTo(S, n))
              /\ IsFiniteSet(UnionTo(S, n))
<1> DEFINE U(l) == UNION {S[k] : k \in 1 .. l}
           f == [l \in 0 .. n |-> Cardinality(U(l))]
           T == {l \in 0 .. n : IsFiniteSet(U(l))}
<1>1. U(0) = {}
  OBVIOUS
<1>2. ASSUME NEW l \in 1 .. n
      PROVE  U(l) = U(l - 1) \cup S[l] /\ U(l - 1) \cap S[l] = {}
  <2>1. \A k : k \in 1 .. l <=> k \in 1 .. l - 1 \/ k = l
    OBVIOUS
  <2>2. U(l) = U(l - 1) \cup S[l]
    BY <2>1
  <2>3. \A k \in 1 .. l - 1 : k \in 1 .. n /\ k # l
    OBVIOUS
  <2>4. U(l - 1) \cap S[l] = {}
    BY <2>3
  <2> QED BY <2>2, <2>4
<1> HIDE DEF U
<1>3. \A l \in 0 .. n : l \in T
  <2>1. 0 \in T
    BY <1>1, FS_EmptySet
  <2>2. ASSUME NEW l \in 1 .. n, l - 1 \in T
        PROVE  l \in T
    <3>1. IsFiniteSet(U(l - 1)) /\ IsFiniteSet(S[l])
      BY <2>2
    <3>2. IsFiniteSet(U(l - 1) \cup S[l])
      BY <3>1, FS_Union
    <3> QED BY <1>2, <3>2
  <2> HIDE DEF T
  <2> QED BY <2>1, <2>2, SetInduction
<1>4. ASSUME NEW l \in 1 .. n
      PROVE  Cardinality(U(l)) = Cardinality(U(l - 1)) + Cardinality(S[l])
  <2>1. l - 1 \in 0 .. n /\ IsFiniteSet(U(l - 1)) /\ IsFiniteSet(S[l])
    <3>1. l - 1 \in 0 .. n
      OBVIOUS
    <3>2. l - 1 \in T
      BY <1>3, <3>1
    <3> QED BY <3>1, <3>2
  <2>2. Cardinality(U(l)) = Cardinality(U(l - 1)) + Cardinality(S[l]) - Cardinality({})
    BY <1>2, <2>1, FS_Union
  <2>3. Cardinality(U(l - 1)) \in Nat /\ Cardinality(S[l]) \in Nat /\ Cardinality({}) = 0
    BY <2>1, FS_CardinalityType, FS_EmptySet
  <2> QED BY <2>2, <2>3
<1>5. f \in [0 .. n -> Nat]
  <2>1. \A l \in 0 .. n : Cardinality(U(l)) \in Nat
    BY <1>3, FS_CardinalityType
  <2> QED BY <2>1
<1>6. f[0] = 0 /\ f[n] = Cardinality(U(n))
  BY <1>1, FS_EmptySet
<1>7. \A k \in 1 .. n : f[k] = f[k - 1] + Cardinality(S[k])
  BY <1>4
<1>8. U(n) = UnionTo(S, n) /\ IsFiniteSet(U(n))
  <2>1. n \in T
    BY <1>3
  <2> QED BY <2>1 DEF U, UnionTo
<1> HIDE DEF f
<1> QED BY <1>5, <1>6, <1>7, <1>8

-----------------------------------------------------------------------------
(* Remainders *)

(* The remainder of a division is determined by the dividend. *)
LEMMA RemainderUnique ==
  ASSUME NEW b \in Nat \ {0}, NEW q \in Int, NEW s \in Int, NEW r \in 0 .. b - 1, NEW t \in 0 .. b-1, q * b + r = s * b + t
  PROVE r = t
<1>1. (q - s) * b = t - r OBVIOUS
<1>2. CASE q = s BY <1>2
<1>3. CASE q > s
  <2>1. q - s >= 1 BY <1>3
  <2>2. (q - s) * b >= b BY <2>1
  <2> QED BY <1>1, <2>2
<1>4. CASE q < s
  <2>1. s - q >= 1 BY <1>4
  <2>2. (s - q) * b >= b BY <2>1
  <2> QED BY <1>1, <2>2
<1> QED BY <1>2, <1>3, <1>4
(* A hash that was cut down to a multiple of the width falls on the same bit: *)
(* the sum of 64 bits that becomes a uint32_t, an index that becomes a bit.     *)
LEMMA ModMod ==
  ASSUME NEW x \in Nat, NEW a \in Nat \ {0}, NEW b \in Nat \ {0}
  PROVE (x % (a * b)) % b = x % b
<1> DEFINE m == a * b
<1>0. m \in Nat /\ m > 0 OBVIOUS
<1> HIDE DEF m
<1> DEFINE q == x \div m
           r == x % m
           p == r \div b
           t == r % b
<1>1. q \in Int /\ r \in 0 .. m - 1 /\ x = m * q + r BY <1>0
<1> HIDE DEF q, r
<1>2. p \in Int /\ t \in 0 .. b - 1 /\ r = b * p + t BY <1>1
<1> HIDE DEF p, t
<1>3. (x \div b) \in Int /\ (x % b) \in 0 .. b - 1 /\ x = b * (x \div b) + (x % b) OBVIOUS
<1>4. m * q = (a * q) * b BY <1>1 DEF m
<1>5. x = (a * q + p) * b + t
  <2>1. x = (a * q) * b + b * p + t BY <1>1, <1>2, <1>4
  <2>2. a * q \in Int BY <1>1
  <2> QED BY <2>1, <2>2, <1>2
<1>6. (a * q + p) \in Int BY <1>1, <1>2
<1>7. t = x % b 
  <2> DEFINE u == x \div b
             v == x % b
             w == a * q + p
  <2>1. u \in Int /\ v \in 0 .. b-1 /\ x = u * b + v BY <1>3
  <2>2. w \in Int /\ x = w * b + t BY <1>5, <1>6
  <2> HIDE DEF u, v, w
  <2>3. v = t BY <2>1, <2>2, <1>2, RemainderUnique
  <2> QED BY <2>3 DEF v
<1> QED BY <1>7 DEF t, r, m

(* The character of an index and the bit of the hash make up the index. *)
LEMMA CharacterAndBit ==
  ASSUME NEW hash \in Nat, NEW size \in Nat \ {0}, NEW width \in Nat \ {0}
  PROVE  LET index == hash % (size * width)
         IN  (index - (index % width)) + (hash % width) = index /\ index \in Nat
<1>1. (hash % (size * width)) % width = hash % width BY ModMod
<1>2. size * width \in Nat \ {0} OBVIOUS
<1> DEFINE index == hash % (size * width)
<1>3. index \in Nat /\ hash % width \in Nat BY <1>2
<1>4. index % width = hash % width BY <1>1
<1> HIDE DEF index
<1>5. (index - (index % width)) + (hash % width) = index BY <1>3, <1>4
<1> QED BY <1>3, <1>5 DEF index
-----------------------------------------------------------------------------
(* Lists *)

(* What is behind the old end of a list that another was appended to. *)
LEMMA ConcatSuffix ==
  ASSUME NEW S, NEW u \in Seq(S), NEW v \in Seq(S)
  PROVE  SubSeq(u \o v, Len(u) + 1, Len(u \o v)) = v
<1> DEFINE w == u \o v
           x == SubSeq(w, Len(u) + 1, Len(w))
<1>1. w \in Seq(S) /\ Len(w) = Len(u) + Len(v) /\ Len(u) \in Nat /\ Len(v) \in Nat OBVIOUS
<1>2. \A k \in 1 .. Len(w) : w[k] = IF k <= Len(u) THEN u[k] ELSE v[k - Len(u)] OBVIOUS
<1>3. \A k \in 1 .. Len(v) : w[k + Len(u)] = v[k]
  <2> TAKE k \in 1 .. Len(v)
  <2>1. k + Len(u) \in 1 .. Len(w) /\ ~(k + Len(u) <= Len(u)) /\ (k + Len(u)) - Len(u) = k BY <1>1
  <2> QED BY <1>2, <2>1
<1> HIDE DEF w
<1>4. x \in Seq(S) /\ Len(x) = Len(v) BY <1>1, SubSeqProperties
<1>5. \A k \in 1 .. Len(x) : x[k] = v[k]
  <2> TAKE k \in 1 .. Len(x)
  <2>1. k \in 1 .. Len(v) BY <1>4
  <2>2. x[k] = w[k + Len(u)] BY <1>1, <2>1, SubSeqProperties
  <2> QED BY <1>3, <2>1, <2>2
<1> HIDE DEF x
<1>6. \A y, z \in Seq(S) : Len(y) = Len(z) /\ (\A k \in 1 .. Len(y) : y[k] = z[k]) => y = z
  BY SeqEqual
<1>7. x = v BY <1>4, <1>5, <1>6
<1> QED BY <1>7 DEF x, w
=============================================================================
