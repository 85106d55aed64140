--------------------------- MODULE BenchmarkProofs ---------------------------
(***************************************************************************)
(* The benchmark for any number of threads, any arrays and any hash        *)
(* function: its searches invalidate every signature whose range they hit, *)
(* each signature is inserted once, and what was invalidated is reported.  *)
(***************************************************************************)
EXTENDS Benchmark, SharedLemmas

-----------------------------------------------------------------------------
(* The arguments of the calls *)

\* A hash mixed in 64 bits and cut down is the hash mixed in 32 bits.
LEMMA SameHash ==
  ASSUME NEW c \in [0 .. 3 -> Word], NEW i \in Nat
  PROVE  InsertHash(i, c) \in Nat /\ ContainHash(i, c) = InsertHash(i, c)
<1>1. WordRange \in Nat \ {0} BY HashingAssumption
<1>2. \A j \in 0 .. 3 : c[j] \in Nat BY <1>1 DEF Word
<1>3. i * i \in Nat /\ i * i * i \in Nat OBVIOUS
<1>4. \A x, y \in Nat : x * y \in Nat OBVIOUS
<1>5. Mixture(i, c) \in Nat
  <2>1. c[0] \in Nat /\ c[1] \in Nat /\ c[2] \in Nat /\ c[3] \in Nat BY <1>2
  <2>2. i * c[1] \in Nat /\ i * i * c[2] \in Nat /\ i * i * i * c[3] \in Nat
    BY <1>3, <1>4, <2>1
  <2> QED BY <2>1, <2>2 DEF Mixture
<1>6. (Mixture(i, c) % (WordRange * WordRange)) % WordRange = Mixture(i, c) % WordRange
  BY <1>1, <1>5, ModMod
<1> QED BY <1>1, <1>5, <1>6 DEF InsertHash, ContainHash

\* A filter of a single key lies inside the filter of every range with that key.
LEMMA KeyInRange ==
    ASSUME NEW x \in Generated(BenchRegion, TOTAL), NEW y \in Generated(BenchFindRegion, TOTAL),
           x.keys \intersect y.keys # {}
    PROVE  y.data \subseteq x.data
  <1>1. PICK r \in 0 .. MaxValue - 1 : y = [keys |-> r .. r + 1 - 1, data |-> BloomGenerate({}, r, 1)]
    BY DEF Generated, Firsts, Widths, BenchFindRegion
  <1>2. PICK s \in 0 .. MaxValue - 1, diff \in {1, RangeWidth} :
          x = [keys |-> s .. s + diff - 1, data |-> BloomGenerate({}, s, diff)]
    BY DEF Generated, Firsts, Widths, BenchRegion
  <1>3. MaxValue \in Nat /\ r .. r + 1 - 1 = {r}
    BY PrefixBloomAssumption
  <1>4. y.data = InsertPositions(r)
    BY <1>1, <1>3 DEF BloomGenerate
  <1>5. r \in s .. s + diff - 1
    BY <1>1, <1>2, <1>3
  <1>6. InsertPositions(r) \subseteq x.data
    BY <1>2, <1>5 DEF BloomGenerate
  <1> QED BY <1>4, <1>6

\* BloomContainKey finds every key of a range in the filter that BloomGenerate has
\* made of it, although the two sides mix hashes of different widths: the answer
\* that the Bloom filters of signatures owe to the code around the index.
THEOREM GeneratedContainsKeys ==
    ASSUME NEW x \in Generated(BenchRegion, TOTAL), NEW key \in x.keys
    PROVE  BloomContainKey(key, x.data)
  <1>1. PICK s \in 0 .. MaxValue - 1, diff \in {1, RangeWidth} :
          x = [keys |-> s .. s + diff - 1, data |-> BloomGenerate({}, s, diff)]
    BY DEF Generated, Firsts, Widths, BenchRegion
  <1>2. MaxValue \in Nat \ {0} /\ RangeWidth \in Nat \ {0}
    BY PrefixBloomAssumption
  <1>3. key \in Key
    <2>1. key \in 0 .. MaxValue + RangeWidth - 2
      BY <1>1, <1>2
    <2> QED BY <2>1, PrefixBloomAssumption
  <1>4. ContainPositions(key) = InsertPositions(key)
    <2>1. \A i \in Rounds : i \in Nat /\ MurmurHash3(Prefix(key, i)) \in [0 .. 3 -> Word]
      BY <1>3, PrefixBloomAssumption DEF Rounds
    <2>2. \A i \in Rounds : ContainHash(i, MurmurHash3(Prefix(key, i)))
                          = InsertHash(i, MurmurHash3(Prefix(key, i)))
      BY <2>1, SameHash
    <2> QED BY <2>2 DEF ContainPositions, InsertPositions
  <1>5. InsertPositions(key) \subseteq x.data
    BY <1>1 DEF BloomGenerate
  <1> QED BY <1>4, <1>5 DEF BloomContainKey

-----------------------------------------------------------------------------
(* The shares leave nothing out and do not overlap *)

LEMMA MultiplesGrow ==
    ASSUME NEW p \in Nat, NEW a \in Nat, NEW b \in Nat, a < b
    PROVE  /\ a * p \in Nat /\ (a + 1) * p = a * p + p
           /\ (a + 1) * p <= b * p
  <1> DEFINE d == b - (a + 1)
  <1>1. d \in Nat /\ b = (a + 1) + d
    OBVIOUS
  <1> HIDE DEF d
  <1>2. b * p = (a + 1) * p + d * p /\ d * p \in Nat /\ a * p \in Nat /\ (a + 1) * p = a * p + p
    BY <1>1
  <1> QED BY <1>2

LEMMA PerThread == perThread \in Nat \ {0} /\ threadnum * perThread <= TOTAL
                   /\ TOTAL - threadnum * perThread < threadnum
  <1> DEFINE n == threadnum
             p == TOTAL \div n
             m == TOTAL % n
  <1>1. n \in Nat \ {0} /\ TOTAL \in Nat /\ TOTAL >= n
    BY BenchmarkAssumption
  <1>2. p \in Nat /\ m \in Nat /\ m < n /\ TOTAL = n * p + m
    BY <1>1
  <1>3. perThread = p
    BY DEF perThread
  <1> HIDE DEF n, p, m
  <1>4. p # 0
    BY <1>1, <1>2
  <1>5. n * p \in Nat
    BY <1>1, <1>2
  <1> QED BY <1>1, <1>2, <1>3, <1>4, <1>5 DEF n

LEMMA ShareFacts ==
    ASSUME NEW n \in Thread
    PROVE  /\ n \in Nat /\ Start(n) \in Nat /\ End(n) \in Nat
           /\ Start(n) + 1 <= End(n) /\ End(n) <= TOTAL
  <1>1. n \in Nat /\ n < threadnum /\ threadnum \in Nat
    BY BenchmarkAssumption
  <1>2. perThread \in Nat \ {0} /\ threadnum * perThread <= TOTAL
    BY PerThread
  <1>3. n * perThread \in Nat /\ (n + 1) * perThread = n * perThread + perThread
        /\ (n + 1) * perThread <= threadnum * perThread
    BY <1>1, <1>2, MultiplesGrow
  <1>4. Start(n) + 1 <= (n + 1) * perThread
    BY <1>2, <1>3 DEF Start
  <1>5. TOTAL \in Nat
    BY BenchmarkAssumption
  <1>6. threadnum * perThread \in Nat
    BY <1>1, <1>2
  <1> QED BY <1>1, <1>2, <1>3, <1>4, <1>5, <1>6 DEF Start, End

\* i is of the share with number n.
Owns(n, i) == Start(n) <= i /\ i < End(n)

\* No index is of two shares.
LEMMA OwnerUnique ==
    ASSUME NEW n \in Thread, NEW m \in Thread, NEW i \in Nat, Owns(n, i), Owns(m, i)
    PROVE  n = m
  <1>1. ASSUME NEW a \in Thread, NEW b \in Thread, a < b PROVE End(a) <= Start(b)
    <2>1. a \in Nat /\ b \in Nat /\ b < threadnum /\ threadnum \in Nat
      BY BenchmarkAssumption
    <2>2. (a + 1) * perThread <= b * perThread
      BY <1>1, <2>1, PerThread, MultiplesGrow
    <2>3. a # threadnum - 1
      BY <1>1, <2>1
    <2> QED BY <2>2, <2>3 DEF Start, End
  <1>2. n \in Nat /\ m \in Nat /\ Start(n) \in Nat /\ End(n) \in Nat /\ Start(m) \in Nat /\ End(m) \in Nat
    BY ShareFacts
  <1>3. ~(n < m) /\ ~(m < n)
    <2>1. n < m => End(n) <= Start(m)
      BY <1>1
    <2>2. m < n => End(m) <= Start(n)
      BY <1>1
    <2> QED BY <1>2, <2>1, <2>2 DEF Owns
  <1> QED BY <1>2, <1>3

\* Every index is of a share.
LEMMA OwnerExists ==
    ASSUME NEW i \in Index
    PROVE  \E n \in Thread : Owns(n, i)
  <1> DEFINE p == perThread
             q == i \div p
             n == IF q < threadnum - 1 THEN q ELSE threadnum - 1
  <1>1. p \in Nat \ {0} /\ i \in Nat /\ i < TOTAL /\ threadnum \in Nat \ {0} /\ TOTAL \in Nat
    BY PerThread, BenchmarkAssumption DEF Index
  <1> HIDE DEF p
  <1>2. q \in Nat /\ q * p <= i /\ i < (q + 1) * p
    <2> DEFINE r == i % p
    <2>1. q \in Nat /\ r \in Nat /\ r < p /\ i = p * q + r
      BY <1>1
    <2> HIDE DEF q, r
    <2>2. p * q = q * p /\ (q + 1) * p = q * p + p /\ q * p \in Nat
      BY <1>1, <2>1
    <2> QED BY <1>1, <2>1, <2>2
  <1> HIDE DEF q
  <1>3. n \in Thread /\ n \in Nat
    BY <1>1, <1>2, BenchmarkAssumption
  <1>4. CASE q < threadnum - 1
    <2>1. n = q /\ n # threadnum - 1
      BY <1>1, <1>2, <1>4
    <2>2. Start(n) = q * p /\ End(n) = (q + 1) * p
      BY <2>1 DEF Start, End, p
    <2>3. Owns(n, i)
      BY <1>2, <2>2 DEF Owns
    <2> HIDE DEF n
    <2> QED BY <1>3, <2>3
  <1>5. CASE ~(q < threadnum - 1)
    <2>1. n = threadnum - 1
      BY <1>5
    <2>2. n * p <= q * p
      <3>1. n = q \/ n < q
        BY <1>1, <1>2, <1>5
      <3>2. n < q => (n + 1) * p = n * p + p /\ (n + 1) * p <= q * p /\ n * p \in Nat
        <4> HIDE DEF n
        <4> QED BY <1>1, <1>2, <1>3, MultiplesGrow
      <3>3. q * p \in Nat
        BY <1>1, <1>2
      <3> QED BY <1>1, <3>1, <3>2, <3>3
    <2>3. n * p \in Nat /\ q * p \in Nat
      <3> HIDE DEF n
      <3> QED BY <1>1, <1>2, <1>3
    <2> HIDE DEF n
    <2>4. Start(n) <= i
      BY <1>1, <1>2, <2>2, <2>3 DEF Start, p
    <2>5. End(n) = TOTAL
      BY <2>1 DEF End
    <2> QED BY <1>1, <1>3, <2>4, <2>5 DEF Owns
  <1> QED BY <1>4, <1>5

-----------------------------------------------------------------------------
(* The inductive invariant *)

Blank == [insert |-> Zeros, query |-> Zeros, remove |-> Zeros, inserts |-> FALSE]

BenchTypes ==
    /\ m_list \in Seq(0 .. 2 * TOTAL - 1)
    /\ drawn \in [Index -> Choices \union {Blank}]
    /\ readers \subseteq Thread
    /\ DOMAIN at = Thread /\ DOMAIN step = Thread
    /\ pos \in [Thread -> Nat]
    /\ next \in [Thread -> Nat]
    /\ DOMAIN id = Thread
    /\ next_thread_id \in Nat

\* A thread that pushes keeps the readers out.
LockInv ==
    /\ writers # {} => readers = {}
    /\ \A t \in Thread : at[t] = "push" => t \in writers

\* Calls are made after the arrays have been filled, with elements of them, and
\* the readers are the threads that search.
CallInv ==
    \A t \in Thread :
        /\ step[t] \in {"insert", "insert_more", "search"} => stage # "generate" /\ next[t] \in Index
        /\ t \in readers => step[t] = "search"

ShareInv == stage # "generate" => \A t \in Thread : id[t] = t

Hit(t, k) == Signature(m_list[k]).keys \intersect drawn[next[t]].remove.keys # {}

\* The elements that the loop of t has finished with.
Passed(t, k) == k < pos[t] \/ at[t] = "unlock" \/ (at[t] = "report" /\ k = pos[t])

\* What a search has passed and its key hits is invalid.
ScanInv ==
    \A t \in readers : \A k \in DOMAIN m_list : Passed(t, k) /\ Hit(t, k) => m_list[k] \in sym

BenchInv == BenchTypes /\ LockInv /\ CallInv /\ ShareInv /\ ScanInv

\* A comparison does not overlook a signature whose range the key hits.
LEMMA HitMatches ==
    ASSUME BenchInv, NEW t \in Thread, step[t] = "search", NEW k \in DOMAIN m_list, Hit(t, k)
    PROVE  Matches(drawn[next[t]].remove.data, Data[m_list[k]])
  <1>1. next[t] \in Index /\ m_list[k] \in 0 .. 2 * TOTAL - 1 /\ TOTAL \in Nat
    BY BenchmarkAssumption DEF BenchInv, BenchTypes, CallInv
  <1> DEFINE meta == m_list[k]
             x == Signature(meta)
             y == drawn[next[t]].remove
  <1>2. x.keys \intersect y.keys # {}
    BY DEF Hit
  <1>3. \A c \in Choices : {c.insert, c.query} \subseteq Generated(BenchRegion, TOTAL)
                           /\ c.remove \in Generated(BenchFindRegion, TOTAL)
    BY BenchmarkAssumption
  <1>4. y \in Generated(BenchFindRegion, TOTAL)
    <2>1. drawn[next[t]] \in Choices \union {Blank}
      BY <1>1 DEF BenchInv, BenchTypes
    <2>2. drawn[next[t]] # Blank
      BY <1>2 DEF Blank, Zeros
    <2> QED BY <2>1, <2>2, <1>3
  <1>5. x \in Generated(BenchRegion, TOTAL)
    <2>1. CASE meta < TOTAL
      <3>1. drawn[meta] \in Choices \union {Blank}
        BY <1>1, <2>1 DEF BenchInv, BenchTypes, Index
      <3>2. x = drawn[meta].insert
        BY <2>1 DEF Signature
      <3>3. drawn[meta] # Blank
        BY <1>2, <3>2 DEF Blank, Zeros
      <3> QED BY <3>1, <3>2, <3>3, <1>3
    <2>2. CASE ~(meta < TOTAL)
      <3>1. drawn[meta - TOTAL] \in Choices \union {Blank}
        BY <1>1, <2>2 DEF BenchInv, BenchTypes, Index
      <3>2. x = drawn[meta - TOTAL].query
        BY <2>2 DEF Signature
      <3>3. drawn[meta - TOTAL] # Blank
        BY <1>2, <3>2 DEF Blank, Zeros
      <3> QED BY <3>1, <3>2, <3>3, <1>3
    <2> QED BY <2>1, <2>2
  <1>6. Data[meta] = x.data
    BY <1>1 DEF Data
  <1> HIDE DEF x, y
  <1>7. y.data \subseteq x.data
    BY <1>2, <1>4, <1>5, KeyInRange
  <1> QED BY <1>6, <1>7 DEF Matches, y

\* The inductive invariant holds before any thread has started.
LEMMA BenchInvInit == Init => BenchInv
  <1> SUFFICES ASSUME Init PROVE BenchInv OBVIOUS
  <1> USE DEF Init, IndexInit
  <1>1. BenchTypes BY DEF BenchTypes, Blank
  <1>2. LockInv BY DEF LockInv
  <1>3. CallInv BY DEF CallInv
  <1>4. ShareInv BY DEF ShareInv
  <1>5. ScanInv BY DEF ScanInv
  <1> QED BY <1>1, <1>2, <1>3, <1>4, <1>5 DEF BenchInv

-----------------------------------------------------------------------------
(* The steps *)

\* Without a reader there is nothing to show for searches.
LEMMA ScanInvVacuous == ASSUME readers' = {} PROVE ScanInv'
  BY DEF ScanInv

\* A step that changes neither what is read nor the place of a reader keeps ScanInv.
LEMMA ScanInvKept ==
    ASSUME ScanInv, readers' \subseteq readers, UNCHANGED <<m_list, drawn, at, pos>>,
           sym \subseteq sym', \A t \in readers' : next'[t] = next[t]
    PROVE  ScanInv'
  BY DEF ScanInv, Passed, Hit, Signature

\* A signature is drawn for an index while nobody calls.
LEMMA GenerateStep ==
    ASSUME BenchInv, NEW t \in Thread, Generate(t)
    PROVE  BenchInv'
  <1> USE DEF Generate, Advance, GoTo, indexVars
  <1>1. BenchTypes'
    <2>1. PICK c \in Choices : drawn' = [drawn EXCEPT ![next[t]] = c]
      OBVIOUS
    <2>2. drawn' \in [Index -> Choices \union {Blank}]
      BY <2>1 DEF BenchInv, BenchTypes
    <2>3. next' \in [Thread -> Nat]
      BY DEF BenchInv, BenchTypes
    <2> QED BY <2>2, <2>3 DEF BenchInv, BenchTypes
  <1>2. LockInv'
    BY DEF BenchInv, LockInv
  <1>3. CallInv'
    BY DEF BenchInv, BenchTypes, CallInv
  <1>4. ShareInv'
    BY DEF BenchInv, ShareInv
  <1>5. readers' = {}
    BY DEF BenchInv, BenchTypes, CallInv
  <1> QED BY <1>1, <1>2, <1>3, <1>4, <1>5, ScanInvVacuous DEF BenchInv

\* A thread takes its share, for the first time or for a later phase.
LEMMA StartStep ==
    ASSUME BenchInv, NEW t \in Thread, TakeId(t) \/ Enter(t)
    PROVE  BenchInv'
  <1> USE DEF TakeId, Enter, GoTo, indexVars
  <1>1. BenchTypes'
    <2>1. perThread \in Nat
      BY BenchmarkAssumption DEF perThread
    <2>2. Start(next_thread_id) \in Nat
      BY <2>1 DEF Start, BenchInv, BenchTypes
    <2>3. stage # "generate" => Start(id[t]) \in Nat
      BY ShareFacts DEF BenchInv, ShareInv
    <2>4. next' \in [Thread -> Nat]
      BY <2>2, <2>3 DEF BenchInv, BenchTypes
    <2> QED BY <2>4 DEF BenchInv, BenchTypes
  <1>2. LockInv'
    BY DEF BenchInv, LockInv
  <1>3. CallInv'
    BY DEF BenchInv, BenchTypes, CallInv
  <1>4. ShareInv'
    BY DEF BenchInv, ShareInv
  <1>5. ScanInv'
    <2>1. \A u \in readers : u # t /\ next'[u] = next[u]
      BY DEF BenchInv, BenchTypes, CallInv
    <2> QED BY <2>1, ScanInvKept DEF BenchInv
  <1> QED BY <1>1, <1>2, <1>3, <1>4, <1>5 DEF BenchInv

\* A thread turns to its next call, or has made its last one.
LEMMA TurnStep ==
    ASSUME BenchInv, NEW t \in Thread, Turn(t) \/ Leave(t)
    PROVE  BenchInv'
  <1> USE DEF Turn, Leave, GoTo, indexVars
  <1>1. BenchTypes'
    BY DEF BenchInv, BenchTypes
  <1>2. LockInv'
    BY DEF BenchInv, LockInv
  <1>3. CallInv'
    <2>1. Turn(t) => next[t] \in Index
      <3>1. Turn(t) => next[t] < End(t)
        BY DEF BenchInv, ShareInv
      <3> QED BY <3>1, ShareFacts, BenchmarkAssumption DEF BenchInv, BenchTypes, Index
    <2> QED BY <2>1 DEF BenchInv, BenchTypes, CallInv
  <1>4. ShareInv'
    BY DEF BenchInv, ShareInv
  <1>5. ScanInv'
    BY ScanInvKept DEF BenchInv
  <1> QED BY <1>1, <1>2, <1>3, <1>4, <1>5 DEF BenchInv

\* A thread joins the threads of a phase, waits, or ends the work.
LEMMA MainStep ==
    ASSUME BenchInv, Main
    PROVE  BenchInv'
  <1>1. CASE NextStage("generate", "insert") \/ NextStage("insert", "mix")
    <2> USE <1>1 DEF NextStage, indexVars
    <2>1. readers' = {}
      BY DEF BenchInv, BenchTypes, CallInv, AllLeft
    <2>2. BenchTypes'
      BY DEF BenchInv, BenchTypes
    <2>3. LockInv'
      BY DEF BenchInv, LockInv
    <2>4. CallInv'
      BY <2>1 DEF CallInv
    <2>5. ShareInv'
      BY DEF ShareInv
    <2> QED BY <2>1, <2>2, <2>3, <2>4, <2>5, ScanInvVacuous DEF BenchInv
  <1>2. CASE Wait \/ StopWork \/ Finish
    <2> USE <1>2 DEF Wait, StopWork, Finish, indexVars
    <2>1. BenchTypes'
      BY DEF BenchInv, BenchTypes
    <2>2. LockInv'
      BY DEF BenchInv, LockInv
    <2>3. CallInv'
      BY DEF BenchInv, CallInv
    <2>4. ShareInv'
      BY DEF BenchInv, ShareInv
    <2>5. ScanInv'
      BY ScanInvKept DEF BenchInv
    <2> QED BY <2>1, <2>2, <2>3, <2>4, <2>5 DEF BenchInv
  <1> QED BY <1>1, <1>2 DEF Main

\* An access of a call leaves the arrays and the shares alone; the last one moves on.
CallFrame(t) ==
    /\ UNCHANGED <<drawn, written, next_thread_id, stage, id, workDone, doneThread, ticks>>
    /\ IF at[t] = "unlock" THEN Advance(t) ELSE UNCHANGED <<next, step>>

\* The release of the lock, with which the call ends.
LEMMA UnlockStep ==
    ASSUME BenchInv, NEW t \in Thread, CallFrame(t), Unlock(t)
    PROVE  BenchInv'
  <1> USE DEF CallFrame, Unlock, Advance, GoTo
  <1>1. BenchTypes'
    BY DEF BenchInv, BenchTypes
  <1>2. LockInv'
    BY DEF BenchInv, BenchTypes, LockInv
  <1>3. CallInv'
    BY DEF BenchInv, BenchTypes, CallInv
  <1>4. ShareInv'
    BY DEF BenchInv, ShareInv
  <1>5. ScanInv'
    <2>1. readers' \subseteq readers /\ \A u \in readers' : u # t /\ u \in Thread
      BY DEF BenchInv, BenchTypes
    <2>2. \A u \in readers' : next'[u] = next[u] /\ at'[u] = at[u] /\ pos'[u] = pos[u]
      BY <2>1 DEF BenchInv, BenchTypes
    <2> QED BY <2>1, <2>2 DEF BenchInv, ScanInv, Passed, Hit, Signature
  <1> QED BY <1>1, <1>2, <1>3, <1>4, <1>5 DEF BenchInv

\* The other accesses of an insertion.
LEMMA InsertStep ==
    ASSUME BenchInv, NEW t \in Thread, CallFrame(t), step[t] \in {"insert", "insert_more"},
           WriteLock(t) \/ PushBack(t, Called(t))
    PROVE  BenchInv'
  <1> USE DEF CallFrame, WriteLock, PushBack
  <1>0. UNCHANGED <<next, step>>
    OBVIOUS
  <1>1. readers' = {}
    BY DEF BenchInv, LockInv
  <1>2. BenchTypes'
    <2>1. Called(t) \in 0 .. 2 * TOTAL - 1
      <3>1. TOTAL \in Nat /\ next[t] \in Index
        BY BenchmarkAssumption DEF BenchInv, CallInv
      <3> QED BY <3>1 DEF Called, Index
    <2>2. m_list' \in Seq(0 .. 2 * TOTAL - 1)
      <3> DEFINE meta == Called(t)
                 M == 0 .. 2 * TOTAL - 1
      <3>1. m_list \in Seq(M) /\ meta \in M
        BY <2>1 DEF BenchInv, BenchTypes
      <3>2. m_list' = m_list \/ m_list' = Append(m_list, meta)
        OBVIOUS
      <3> HIDE DEF meta, M
      <3>3. m_list' \in Seq(M)
        BY <3>1, <3>2
      <3> QED BY <3>3 DEF M
    <2> QED BY <1>0, <1>1, <2>2 DEF BenchInv, BenchTypes
  <1>3. LockInv'
    BY <1>1 DEF BenchInv, BenchTypes, LockInv
  <1>4. CallInv'
    BY <1>0, <1>1 DEF BenchInv, CallInv
  <1>5. ShareInv'
    BY DEF BenchInv, ShareInv
  <1> QED BY <1>1, <1>2, <1>3, <1>4, <1>5, ScanInvVacuous DEF BenchInv

\* The other accesses of a search; only Visit and Mark are more than bookkeeping.
LEMMA SearchStep ==
    ASSUME BenchInv, NEW t \in Thread, CallFrame(t), step[t] = "search",
           \/ ReadLock(t) \/ Visit(t, drawn[next[t]].remove.data, Data)
           \/ Mark(t) \/ Report(t) \/ EndOfList(t)
    PROVE  BenchInv'
  <1> USE DEF CallFrame, ReadLock, Visit, Mark, Report, EndOfList
  <1>0. UNCHANGED <<m_list, writers, next, step>> /\ sym \subseteq sym'
        /\ readers' \subseteq readers \union {t}
    OBVIOUS
  <1>1. BenchTypes'
    <2>1. pos' \in [Thread -> Nat]
      BY DEF BenchInv, BenchTypes
    <2> QED BY <1>0, <2>1 DEF BenchInv, BenchTypes
  <1>2. LockInv'
    BY <1>0 DEF BenchInv, BenchTypes, LockInv
  <1>3. CallInv'
    BY <1>0 DEF BenchInv, CallInv
  <1>4. ShareInv'
    BY DEF BenchInv, ShareInv
  <1>5. ScanInv'
    <2> SUFFICES ASSUME NEW u \in readers', NEW k \in DOMAIN m_list, Passed(u, k)', Hit(u, k)
                 PROVE  m_list[k] \in sym'
      BY <1>0 DEF ScanInv, Hit, Signature
    <2>1. CASE u # t
      <3>1. u \in readers /\ at'[u] = at[u] /\ pos'[u] = pos[u]
        BY <2>1, <1>0 DEF BenchInv, BenchTypes
      <3>2. Passed(u, k)
        BY <3>1 DEF Passed
      <3> QED BY <1>0, <3>1, <3>2 DEF BenchInv, ScanInv
    <2>2. CASE u = t
      <3>0. pos[t] \in Nat /\ k \in 1 .. Len(m_list)
            /\ Len(m_list) \in Nat
        BY DEF BenchInv, BenchTypes
      <3>1. CASE ReadLock(t)
        <4>1. pos'[t] = 1 /\ at'[t] = "scan"
          BY <3>1 DEF BenchInv, BenchTypes
        <4> QED BY <2>2, <3>0, <4>1 DEF Passed
      <3>2. CASE Visit(t, drawn[next[t]].remove.data, Data)
        <4>1. t \in readers /\ at[t] = "scan"
          BY <2>2, <3>2
        <4>2. CASE k < pos[t]
          BY <1>0, <4>1, <4>2, <2>2 DEF BenchInv, ScanInv, Passed
        <4>3. CASE k = pos[t]
          <5>1. Matches(drawn[next[t]].remove.data, Data[m_list[k]])
            BY <2>2, HitMatches
          <5>2. ~ (at'[t] = "mark" /\ pos'[t] = pos[t])
            BY <2>2, <3>0, <4>3 DEF Passed
          <5>3. m_list[k] \in sym
            BY <3>2, <4>3, <5>1, <5>2 DEF BenchInv, BenchTypes
          <5> QED BY <5>3, <1>0
        <4>4. CASE k > pos[t]
          <5>1. pos'[t] \in {pos[t], pos[t] + 1} /\ at'[t] \in {"mark", "scan"}
            BY <3>2 DEF BenchInv, BenchTypes
          <5> QED BY <2>2, <3>0, <4>4, <5>1 DEF Passed
        <4> QED BY <3>0, <4>2, <4>3, <4>4
      <3>3. CASE Mark(t)
        <4>1. t \in readers /\ pos'[t] = pos[t] /\ at'[t] = "report"
          BY <2>2, <3>3 DEF BenchInv, BenchTypes
        <4>2. k < pos[t] \/ k = pos[t]
          BY <2>2, <4>1 DEF Passed
        <4>3. CASE k = pos[t]
          BY <3>3, <4>3
        <4>4. CASE k < pos[t]
          BY <1>0, <2>2, <4>1, <4>4 DEF BenchInv, ScanInv, Passed
        <4> QED BY <4>2, <4>3, <4>4
      <3>4. CASE Report(t)
        <4>1. t \in readers /\ pos'[t] = pos[t] + 1 /\ at[t] = "report" /\ at'[t] = "scan"
          BY <2>2, <3>4 DEF BenchInv, BenchTypes
        <4>2. k < pos[t] \/ k = pos[t]
          BY <2>2, <3>0, <4>1 DEF Passed
        <4> QED BY <1>0, <2>2, <4>1, <4>2 DEF BenchInv, ScanInv, Passed
      <3>5. CASE EndOfList(t)
        <4>1. t \in readers /\ k < pos[t]
          BY <2>2, <3>0, <3>5
        <4> QED BY <1>0, <2>2, <4>1 DEF BenchInv, ScanInv, Passed
      <3> QED BY <3>1, <3>2, <3>3, <3>4, <3>5
    <2> QED BY <2>1, <2>2
  <1> QED BY <1>1, <1>2, <1>3, <1>4, <1>5 DEF BenchInv

\* Every access of a call keeps the inductive invariant.
LEMMA CallStep ==
    ASSUME BenchInv, NEW t \in Thread, Call(t)
    PROVE  BenchInv'
  <1>1. CallFrame(t)
    BY DEF Call, CallFrame
  <1>2. CASE step[t] \in {"insert", "insert_more"} /\ Insert2(t, Called(t))
    BY <1>1, <1>2, InsertStep, UnlockStep DEF Insert2
  <1>3. CASE step[t] = "search" /\ Search(t, drawn[next[t]].remove.data, Data)
    BY <1>1, <1>3, SearchStep, UnlockStep DEF Search
  <1> QED BY <1>2, <1>3 DEF Call

\* Every step keeps the inductive invariant.
LEMMA BenchInvNext == BenchInv /\ [Next]_vars => BenchInv'
  <1>1. ASSUME BenchInv, UNCHANGED vars
        PROVE  BenchInv'
    BY <1>1 DEF vars, indexVars, benchVars, BenchInv, BenchTypes, LockInv, CallInv, ShareInv,
                ScanInv, Passed, Hit, Signature
  <1>2. ASSUME BenchInv, NEW t \in Thread, Worker(t)
        PROVE  BenchInv'
    BY <1>2, StartStep, GenerateStep, TurnStep, CallStep DEF Worker
  <1> QED BY <1>1, <1>2, MainStep DEF Next

\* Whatever the number of threads, the hash function and the keys drawn, a search
\* of the benchmark leaves no valid signature behind whose range its key hits.
THEOREM RangesOfKeyInvalidatedHolds == Spec => []RangesOfKeyInvalidated
  <1>1. BenchInv => RangesOfKeyInvalidated
    BY DEF BenchInv, ScanInv, Passed, Hit, RangesOfKeyInvalidated
  <1> QED BY <1>1, BenchInvInit, BenchInvNext, PTL DEF Spec

-----------------------------------------------------------------------------
(* OncePerSignature *)

\* Where a thread is in a call fits its place in the thread function and the stage.
ControlInv ==
    /\ stage \in {"generate", "insert", "mix", "join", "done"}
    /\ \A t \in Thread :
        /\ step[t] \in {"start", "loop", "left", "insert", "insert_more", "search"}
        /\ step[t] \in {"start", "loop", "left"} => at[t] = "out"
        /\ step[t] \in {"insert", "insert_more"} => at[t] \in {"out", "push", "unlock"}
        /\ step[t] = "search" => at[t] \in {"out", "scan", "mark", "report", "unlock"}
        /\ step[t] = "insert" => stage = "insert"
        /\ step[t] \in {"insert_more", "search"} => stage \in {"mix", "join", "done"}

Started == {t \in Thread : step[t] # "start"}

\* A thread that has started is in its share, and behind it when it has left a phase
\* that nothing ends early.
InShareInv ==
    \A t \in Started :
        /\ id[t] \in Thread
        /\ Start(id[t]) <= next[t] /\ next[t] <= End(id[t])
        /\ step[t] \in {"insert", "insert_more", "search"} => next[t] < End(id[t])
        /\ step[t] = "left" /\ stage \in {"generate", "insert"} => next[t] = End(id[t])

\* No two threads take one number of the first phase.
NumberInv ==
    stage = "generate" =>
        /\ next_thread_id = Cardinality(Started)
        /\ \A t \in Started : id[t] < next_thread_id
        /\ \A t, u \in Started : id[t] = id[u] => t = u

\* Somebody has generated index i.
Drawn(i) == \E t \in Started : Start(id[t]) <= i /\ i < next[t]

WrittenInv ==
    /\ written \in [Index -> Nat]
    /\ stage = "generate" => \A i \in Index : written[i] = IF Drawn(i) THEN 1 ELSE 0
    /\ stage # "generate" => \A i \in Index : written[i] = 1

Listed(meta) == \E k \in DOMAIN m_list : m_list[k] = meta

\* A call with index i as its argument has done its work.
GivenBy(t, i) == Start(t) <= i /\ (i < next[t] \/ (i = next[t] /\ at[t] = "unlock"))
Given(i) == \E t \in Started : GivenBy(t, i)

ListedInv ==
    /\ \A k, l \in DOMAIN m_list : m_list[k] = m_list[l] => k = l
    /\ stage = "generate" => m_list = << >>
    /\ stage = "insert" => \A i \in Index : (Listed(i) <=> Given(i)) /\ ~Listed(i + TOTAL)
    /\ stage \in {"mix", "join", "done"} =>
          \A i \in Index : Listed(i) /\ (Listed(i + TOTAL) => Given(i))

OnceInv == ControlInv /\ InShareInv /\ NumberInv /\ WrittenInv /\ ListedInv

LEMMA ControlInvInit == Init => ControlInv
  BY DEF Init, IndexInit, ControlInv

\* Every action leaves a thread where its call and its stage put it.
LEMMA ControlInvNext == BenchTypes /\ ControlInv /\ [Next]_vars => ControlInv'
  <1> SUFFICES ASSUME BenchTypes, ControlInv, [Next]_vars PROVE ControlInv'
    OBVIOUS
  <1> USE DEF BenchTypes, ControlInv, indexVars
  <1>1. CASE UNCHANGED vars
    BY <1>1 DEF vars, benchVars
  <1>2. CASE NextStage("generate", "insert") \/ NextStage("insert", "mix")
    BY <1>2 DEF NextStage, AllLeft
  <1>3. CASE Wait \/ StopWork \/ Finish
    BY <1>3 DEF Wait, StopWork, Finish, AllLeft
  <1>4. ASSUME NEW t \in Thread, TakeId(t) \/ Generate(t) \/ Enter(t) \/ Turn(t) \/ Leave(t)
        PROVE  ControlInv'
    BY <1>4 DEF TakeId, Generate, Enter, Turn, Leave, Advance, GoTo
  <1>5. ASSUME NEW t \in Thread, CallFrame(t), step[t] \in {"insert", "insert_more", "search"}, Unlock(t)
        PROVE  ControlInv'
    BY <1>5 DEF CallFrame, Unlock, Advance, GoTo
  <1>6. ASSUME NEW t \in Thread, CallFrame(t), step[t] \in {"insert", "insert_more"},
               WriteLock(t) \/ PushBack(t, Called(t))
        PROVE  ControlInv'
    BY <1>6 DEF CallFrame, WriteLock, PushBack
  <1>7. ASSUME NEW t \in Thread, CallFrame(t), step[t] = "search",
               \/ ReadLock(t) \/ Visit(t, drawn[next[t]].remove.data, Data)
               \/ Mark(t) \/ Report(t) \/ EndOfList(t)
        PROVE  ControlInv'
    BY <1>7 DEF CallFrame, ReadLock, Visit, Mark, Report, EndOfList
  <1>8. ASSUME NEW t \in Thread, Call(t) PROVE ControlInv'
    <2>1. CallFrame(t)
      BY <1>8 DEF Call, CallFrame
    <2>2. CASE step[t] \in {"insert", "insert_more"} /\ Insert2(t, Called(t))
      BY <2>1, <2>2, <1>5, <1>6 DEF Insert2
    <2>3. CASE step[t] = "search" /\ Search(t, drawn[next[t]].remove.data, Data)
      BY <2>1, <2>3, <1>5, <1>7 DEF Search
    <2> QED BY <1>8, <2>2, <2>3 DEF Call
  <1> QED BY <1>1, <1>2, <1>3, <1>4, <1>8 DEF Next, Main, Worker

\* The steps of a call.
LEMMA CallCases ==
    ASSUME NEW t \in Thread, Call(t)
    PROVE  /\ CallFrame(t)
           /\ step[t] \in {"insert", "insert_more", "search"}
           /\ \/ Unlock(t)
              \/ step[t] \in {"insert", "insert_more"} /\ (WriteLock(t) \/ PushBack(t, Called(t)))
              \/ /\ step[t] = "search"
                 /\ \/ ReadLock(t) \/ Visit(t, drawn[next[t]].remove.data, Data)
                    \/ Mark(t) \/ Report(t) \/ EndOfList(t)
  BY DEF Call, CallFrame, Insert2, Search

\* A call before its end keeps to its index.
LEMMA CallKeepsPlace ==
    ASSUME NEW t \in Thread, Call(t), ~Unlock(t)
    PROVE  UNCHANGED <<next, step, id, stage, written, next_thread_id, drawn>>
  BY CallCases DEF CallFrame, WriteLock, PushBack, ReadLock, Visit, Mark, Report, EndOfList

\* The last step of a call goes on to the next index.
LEMMA UnlockAdvances ==
    ASSUME BenchTypes, NEW t \in Thread, Call(t), Unlock(t)
    PROVE  /\ UNCHANGED <<id, stage, written, next_thread_id, drawn, m_list, sym, removedQuery>>
           /\ next' = [next EXCEPT ![t] = next[t] + 1] /\ step' = [step EXCEPT ![t] = "loop"]
           /\ at[t] = "unlock" /\ at' = [at EXCEPT ![t] = "out"]
  BY CallCases DEF CallFrame, Unlock, Advance, GoTo

\* There is a number left for every thread that comes.
LEMMA NumbersLeft ==
    ASSUME NEW t \in Thread \ Started
    PROVE  /\ IsFiniteSet(Started) /\ Cardinality(Started) \in Nat
           /\ Cardinality(Started) \in Thread
  <1>1. IsFiniteSet(Thread) /\ Cardinality(Thread) = threadnum /\ threadnum \in Nat \ {0}
    <2>1. threadnum \in Nat \ {0} /\ Thread = 0 .. threadnum - 1
      BY BenchmarkAssumption
    <2> QED BY <2>1, FS_Interval
  <1>2. Started \subseteq Thread \ {t}
    BY DEF Started
  <1>3. IsFiniteSet(Thread \ {t}) /\ Cardinality(Thread \ {t}) = threadnum - 1
    BY <1>1, FS_RemoveElement
  <1>4. IsFiniteSet(Started) /\ Cardinality(Started) <= threadnum - 1
    BY <1>2, <1>3, FS_Subset
  <1>5. Cardinality(Started) \in Nat
    BY <1>4, FS_CardinalityType
  <1> QED BY <1>1, <1>4, <1>5, BenchmarkAssumption

LEMMA InShareInvInit == Init => InShareInv
  BY DEF Init, InShareInv, Started

\* A thread stays in its share.
LEMMA InShareInvNext == BenchInv /\ ControlInv /\ InShareInv /\ NumberInv /\ [Next]_vars => InShareInv'
  <1> SUFFICES ASSUME BenchInv, ControlInv, InShareInv, NumberInv, [Next]_vars PROVE InShareInv'
    OBVIOUS
  <1>0. BenchTypes
    BY DEF BenchInv
  <1> USE DEF InShareInv, Started, indexVars
  <1>1. ASSUME UNCHANGED <<next, step, id, stage>> PROVE InShareInv'
    BY <1>1
  <1>2. CASE NextStage("generate", "insert") \/ NextStage("insert", "mix")
    BY <1>2 DEF NextStage
  <1>3. CASE Wait \/ StopWork \/ Finish
    BY <1>3, <1>0 DEF Wait, StopWork, Finish, ControlInv
  <1>4. ASSUME NEW t \in Thread, TakeId(t) PROVE InShareInv'
    <2>1. t \notin Started
      BY <1>4 DEF TakeId
    <2>2. next_thread_id \in Thread
      BY <1>4, <2>1, NumbersLeft DEF TakeId, NumberInv
    <2>3. /\ id'[t] = next_thread_id /\ next'[t] = Start(next_thread_id) /\ step'[t] = "loop"
          /\ \A u \in Thread : u # t => id'[u] = id[u] /\ next'[u] = next[u] /\ step'[u] = step[u]
          /\ stage' = stage
      BY <1>4, <1>0 DEF TakeId, GoTo, BenchTypes
    <2>4. Start(next_thread_id) <= Start(next_thread_id) /\ Start(next_thread_id) <= End(next_thread_id)
      BY <2>2, ShareFacts
    <2> QED BY <2>2, <2>3, <2>4
  <1>5. ASSUME NEW t \in Thread, Generate(t) PROVE InShareInv'
    <2>1. /\ next'[t] = next[t] + 1 /\ step'[t] = "loop"
          /\ \A u \in Thread : u # t => next'[u] = next[u] /\ step'[u] = step[u]
          /\ UNCHANGED <<stage, id>>
      BY <1>5, <1>0 DEF Generate, Advance, GoTo, BenchTypes
    <2>2. id[t] \in Thread /\ next[t] \in Nat /\ Start(id[t]) <= next[t] /\ next[t] < End(id[t])
      BY <1>5, <1>0 DEF Generate, BenchTypes
    <2>3. Start(id[t]) <= next[t] + 1 /\ next[t] + 1 <= End(id[t])
      BY <2>2, ShareFacts
    <2> QED BY <2>1, <2>2, <2>3
  <1>6. ASSUME NEW t \in Thread, Enter(t) PROVE InShareInv'
    <2>1. /\ next'[t] = Start(id[t]) /\ step'[t] = "loop"
          /\ \A u \in Thread : u # t => next'[u] = next[u] /\ step'[u] = step[u]
          /\ UNCHANGED <<stage, id>>
      BY <1>6, <1>0 DEF Enter, GoTo, BenchTypes
    <2>2. id[t] \in Thread
      BY <1>6 DEF Enter, BenchInv, ShareInv
    <2>3. Start(id[t]) <= Start(id[t]) /\ Start(id[t]) <= End(id[t])
      BY <2>2, ShareFacts
    <2> QED BY <2>1, <2>2, <2>3
  <1>7. ASSUME NEW t \in Thread, Turn(t) PROVE InShareInv'
    BY <1>7, <1>0 DEF Turn, GoTo, BenchTypes
  <1>8. ASSUME NEW t \in Thread, Leave(t) PROVE InShareInv'
    <2>1. /\ step'[t] = "left" /\ step[t] = "loop"
          /\ \A u \in Thread : u # t => step'[u] = step[u]
          /\ UNCHANGED <<stage, id, next>>
      BY <1>8, <1>0 DEF Leave, GoTo, BenchTypes
    <2>2. id[t] \in Thread /\ next[t] \in Nat /\ Start(id[t]) <= next[t] /\ next[t] <= End(id[t])
      BY <2>1, <1>0 DEF BenchTypes
    <2>3. stage \in {"generate", "insert"} => next[t] = End(id[t])
      BY <1>8, <2>2, ShareFacts DEF Leave
    <2> QED BY <2>1, <2>2, <2>3
  <1>9. ASSUME NEW t \in Thread, Call(t), Unlock(t) PROVE InShareInv'
    <2>1. /\ next'[t] = next[t] + 1 /\ step'[t] = "loop"
          /\ \A u \in Thread : u # t => next'[u] = next[u] /\ step'[u] = step[u]
          /\ UNCHANGED <<stage, id>>
      BY <1>9, <1>0, UnlockAdvances DEF BenchTypes
    <2>2. id[t] \in Thread /\ next[t] \in Nat /\ Start(id[t]) <= next[t] /\ next[t] < End(id[t])
      BY <1>9, <1>0, CallCases DEF BenchTypes
    <2>3. Start(id[t]) <= next[t] + 1 /\ next[t] + 1 <= End(id[t])
      BY <2>2, ShareFacts
    <2> QED BY <2>1, <2>2, <2>3
  <1>10. ASSUME NEW t \in Thread, Call(t), ~Unlock(t) PROVE InShareInv'
    BY <1>1, <1>10, CallKeepsPlace
  <1>11. CASE UNCHANGED vars
    BY <1>1, <1>11 DEF vars, benchVars
  <1> QED BY <1>2, <1>3, <1>4, <1>5, <1>6, <1>7, <1>8, <1>9, <1>10, <1>11 DEF Next, Main, Worker

LEMMA NumberInvInit == Init => NumberInv
  <1> SUFFICES ASSUME Init PROVE NumberInv
    OBVIOUS
  <1>1. Started = {}
    BY DEF Init, Started
  <1> QED BY <1>1, FS_EmptySet DEF Init, NumberInv

\* What a step does that draws no signature and makes no thread start.
LEMMA SameThreads ==
    ASSUME BenchTypes, NEW t \in Thread, Generate(t) \/ Leave(t)
    PROVE  Started' = Started /\ UNCHANGED <<stage, id, next_thread_id>>
  BY DEF BenchTypes, Generate, Leave, Advance, GoTo, Started

\* Every number is taken by one thread.
LEMMA NumberInvNext == BenchInv /\ ControlInv /\ InShareInv /\ NumberInv /\ [Next]_vars => NumberInv'
  <1> SUFFICES ASSUME BenchInv, ControlInv, InShareInv, NumberInv, [Next]_vars PROVE NumberInv'
    OBVIOUS
  <1>0. BenchTypes
    BY DEF BenchInv
  <1>1. ASSUME Started' = Started, UNCHANGED <<stage, id, next_thread_id>> PROVE NumberInv'
    BY <1>1 DEF NumberInv
  <1>2. ASSUME stage' # "generate" PROVE NumberInv'
    BY <1>2 DEF NumberInv
  <1>3. CASE Main
    BY <1>2, <1>3 DEF Main, NextStage, Wait, StopWork, Finish
  <1>4. ASSUME NEW t \in Thread, TakeId(t) PROVE NumberInv'
    <2>1. stage = "generate" /\ stage' = "generate" /\ t \in Thread \ Started
      BY <1>4 DEF TakeId, Started
    <2>2. /\ id'[t] = next_thread_id /\ next_thread_id' = next_thread_id + 1
          /\ \A u \in Thread : u # t => id'[u] = id[u]
      BY <1>4, <1>0 DEF TakeId, BenchTypes
    <2>3. Started' = Started \union {t}
      BY <1>4, <1>0 DEF TakeId, GoTo, BenchTypes, Started
    <2>4. IsFiniteSet(Started) /\ Cardinality(Started) \in Nat
      BY <2>1, NumbersLeft
    <2>5. Cardinality(Started') = Cardinality(Started) + 1
      BY <2>1, <2>3, <2>4, FS_AddElement
    <2>6. next_thread_id = Cardinality(Started)
      BY <2>1 DEF NumberInv
    <2>7. \A u \in Started : u # t /\ u \in Thread /\ id[u] \in Nat /\ id[u] < next_thread_id
      BY <2>1, ShareFacts DEF NumberInv, InShareInv, Started
    <2>8. next_thread_id' = Cardinality(Started')
      BY <2>2, <2>5, <2>6
    <2>9. ASSUME NEW u \in Started' PROVE id'[u] < next_thread_id'
      BY <2>2, <2>3, <2>4, <2>6, <2>7
    <2>10. ASSUME NEW u \in Started', NEW v \in Started', id'[u] = id'[v] PROVE u = v
      <3>1. u \in Started /\ v \in Started => u = v
        BY <2>1, <2>2, <2>7, <2>10 DEF NumberInv
      <3>2. u \in Started => id'[u] = id[u] /\ id[u] # next_thread_id
        BY <2>2, <2>4, <2>6, <2>7
      <3>3. v \in Started => id'[v] = id[v] /\ id[v] # next_thread_id
        BY <2>2, <2>4, <2>6, <2>7
      <3> QED BY <2>2, <2>3, <2>10, <3>1, <3>2, <3>3
    <2> QED BY <2>8, <2>9, <2>10 DEF NumberInv
  <1>5. ASSUME NEW t \in Thread, Generate(t) \/ Leave(t) PROVE NumberInv'
    BY <1>0, <1>1, <1>5, SameThreads
  <1>6. ASSUME NEW t \in Thread, Enter(t) \/ Turn(t) PROVE NumberInv'
    BY <1>2, <1>6 DEF Enter, Turn
  <1>7. ASSUME NEW t \in Thread, Call(t) PROVE NumberInv'
    <2>1. stage # "generate" /\ stage' = stage
      BY <1>7, CallCases DEF BenchInv, CallInv, CallFrame
    <2> QED BY <1>2, <2>1
  <1>8. CASE UNCHANGED vars
    BY <1>1, <1>8 DEF vars, benchVars, Started
  <1> QED BY <1>3, <1>4, <1>5, <1>6, <1>7, <1>8 DEF Next, Worker

-----------------------------------------------------------------------------
(* Each index is generated once *)

LEMMA WrittenInvInit == Init => WrittenInv
  BY DEF Init, WrittenInv, Drawn, Started

\* The numbers of all threads are all numbers.
LEMMA AllNumbers ==
    ASSUME NumberInv, InShareInv, stage = "generate", AllLeft, NEW n \in Thread
    PROVE  \E t \in Started : id[t] = n
  <1> DEFINE f == [t \in Thread |-> id[t]]
  <1>1. Started = Thread
    BY DEF AllLeft, Started
  <1>2. f \in [Thread -> Thread] /\ \A t, u \in Thread : f[t] = f[u] => t = u
    BY <1>1 DEF InShareInv, NumberInv
  <1>3. IsFiniteSet(Thread)
    <2>1. threadnum \in Nat \ {0} /\ Thread = 0 .. threadnum - 1
      BY BenchmarkAssumption
    <2> QED BY <2>1, FS_Interval
  <1> HIDE DEF f
  <1>4. f \in Injection(Thread, Thread)
    BY <1>2 DEF Injection, IsInjective
  <1>5. f \in Surjection(Thread, Thread)
    BY <1>3, <1>4, FS_Injection
  <1>6. \E t \in Thread : f[t] = n
    BY <1>5 DEF Surjection
  <1> QED BY <1>1, <1>6 DEF f

\* No index is generated twice, and none is left out when all threads have left.
LEMMA WrittenInvNext ==
    BenchInv /\ ControlInv /\ InShareInv /\ NumberInv /\ WrittenInv /\ [Next]_vars => WrittenInv'
  <1> SUFFICES ASSUME BenchInv, ControlInv, InShareInv, NumberInv, WrittenInv, [Next]_vars
               PROVE  WrittenInv'
    OBVIOUS
  <1>0. BenchTypes
    BY DEF BenchInv
  <1>1. ASSUME stage # "generate", stage' # "generate", written' = written PROVE WrittenInv'
    BY <1>1 DEF WrittenInv
  <1>2. ASSUME UNCHANGED <<stage, written>>, \A i \in Index : Drawn(i)' <=> Drawn(i) PROVE WrittenInv'
    BY <1>2 DEF WrittenInv
  <1>3. CASE NextStage("generate", "insert")
    <2>1. ASSUME NEW i \in Index PROVE Drawn(i)
      <3>1. PICK n \in Thread : Owns(n, i)
        BY OwnerExists
      <3>2. PICK t \in Started : id[t] = n
        BY <1>3, AllNumbers DEF NextStage
      <3>3. next[t] = End(n)
        BY <1>3, <3>2 DEF NextStage, AllLeft, InShareInv, Started
      <3> QED BY <3>1, <3>2, <3>3 DEF Owns, Drawn
    <2>2. stage = "generate" /\ stage' = "insert" /\ written' = written
      BY <1>3 DEF NextStage
    <2> QED BY <2>1, <2>2 DEF WrittenInv
  <1>4. CASE NextStage("insert", "mix") \/ Wait \/ StopWork \/ Finish
    BY <1>1, <1>4 DEF NextStage, Wait, StopWork, Finish
  <1>5. ASSUME NEW t \in Thread, TakeId(t) PROVE WrittenInv'
    <2>1. t \notin Started /\ Started' = Started \union {t}
      BY <1>5, <1>0 DEF TakeId, GoTo, BenchTypes, Started
    <2>2. /\ \A u \in Thread : u # t => id'[u] = id[u] /\ next'[u] = next[u]
          /\ id'[t] = next_thread_id /\ next'[t] = Start(next_thread_id)
          /\ UNCHANGED <<stage, written>>
      BY <1>5, <1>0 DEF TakeId, BenchTypes
    <2>3. next_thread_id \in Thread
      BY <1>5, <2>1, NumbersLeft DEF TakeId, NumberInv
    <2>4. ASSUME NEW i \in Index PROVE Drawn(i)' <=> Drawn(i)
      <3>1. ~(Start(id'[t]) <= i /\ i < next'[t])
        BY <2>2, <2>3, ShareFacts DEF Index
      <3>2. \A u \in Started : u \in Thread /\ u # t
        BY <2>1 DEF Started
      <3>3. Drawn(i)' <=> \E u \in Started' : Start(id'[u]) <= i /\ i < next'[u]
        BY DEF Drawn
      <3> QED BY <2>1, <2>2, <3>1, <3>2, <3>3 DEF Drawn
    <2> QED BY <1>2, <2>2, <2>4
  <1>6. ASSUME NEW t \in Thread, Generate(t) PROVE WrittenInv'
    <2> DEFINE j == next[t]
    <2>1. /\ stage = "generate" /\ stage' = "generate" /\ t \in Started
          /\ id' = id /\ next'[t] = j + 1
          /\ \A u \in Thread : u # t => next'[u] = next[u]
          /\ written' = [written EXCEPT ![j] = @ + 1]
      BY <1>6, <1>0 DEF Generate, Advance, GoTo, BenchTypes, Started
    <2>2. Started' = Started
      BY <1>0, <1>6, SameThreads
    <2>3. id[t] \in Thread /\ Owns(id[t], j) /\ j \in Nat
      BY <1>6, <2>1, <1>0 DEF InShareInv, Owns, Generate, BenchTypes
    <2>4. j \in Index
      BY <2>3, ShareFacts, BenchmarkAssumption DEF Owns, Index
    <2> HIDE DEF j
    <2>5. ~Drawn(j)
      <3> SUFFICES ASSUME NEW u \in Started, Start(id[u]) <= j, j < next[u] PROVE FALSE
        BY DEF Drawn
      <3>1. id[u] \in Thread /\ next[u] <= End(id[u]) /\ next[u] \in Nat /\ u \in Thread
        BY <1>0 DEF InShareInv, Started, BenchTypes
      <3>2. Owns(id[u], j)
        BY <2>3, <3>1, ShareFacts DEF Owns
      <3>3. id[u] = id[t]
        BY <2>3, <3>1, <3>2, OwnerUnique
      <3>4. u = t
        BY <2>1, <3>3 DEF NumberInv
      <3> QED BY <2>3, <3>4 DEF j
    <2>6. ASSUME NEW i \in Index PROVE Drawn(i)' <=> Drawn(i) \/ i = j
      <3>1. Drawn(i)' <=> \E u \in Started : Start(id[u]) <= i /\ i < next'[u]
        BY <2>1, <2>2 DEF Drawn
      <3>2. \A u \in Started : u \in Thread
        BY DEF Started
      <3>3. i \in Nat /\ (i < j + 1 <=> i < j \/ i = j)
        BY <2>3 DEF Index
      <3>4. Start(id[t]) <= j
        BY <2>3 DEF Owns
      <3>5. Drawn(i)' => Drawn(i) \/ i = j
        <4> SUFFICES ASSUME NEW u \in Started, Start(id[u]) <= i, i < next'[u], i # j
                     PROVE  i < next[u]
          BY <3>1 DEF Drawn
        <4> QED BY <2>1, <3>2, <3>3 DEF j
      <3>6. Drawn(i) => Drawn(i)'
        <4> SUFFICES ASSUME NEW u \in Started, Start(id[u]) <= i, i < next[u]
                     PROVE  i < next'[u]
          BY <3>1 DEF Drawn
        <4> QED BY <2>1, <3>2, <3>3 DEF j
      <3>7. i = j => Drawn(i)'
        BY <2>1, <2>3, <3>1, <3>4
      <3> QED BY <3>5, <3>6, <3>7
    <2>7. /\ \A i \in Index : i # j => written'[i] = written[i]
          /\ written'[j] = 1 /\ written' \in [Index -> Nat]
      BY <2>1, <2>4, <2>5 DEF WrittenInv
    <2> QED BY <2>1, <2>6, <2>7 DEF WrittenInv
  <1>7. ASSUME NEW t \in Thread, Leave(t) PROVE WrittenInv'
    <2>1. Started' = Started /\ UNCHANGED <<stage, id, next, written>>
      BY <1>0, <1>7, SameThreads DEF Leave
    <2>2. \A i \in Index : Drawn(i)' <=> Drawn(i)
      BY <2>1 DEF Drawn
    <2> QED BY <1>2, <2>1, <2>2
  <1>8. ASSUME NEW t \in Thread, Enter(t) \/ Turn(t) \/ Call(t) PROVE WrittenInv'
    <2>1. stage # "generate" /\ stage' = stage /\ written' = written
      BY <1>8, CallCases DEF Enter, Turn, BenchInv, CallInv, CallFrame
    <2> QED BY <1>1, <2>1
  <1>9. CASE UNCHANGED vars
    BY <1>2, <1>9 DEF vars, benchVars, Drawn, Started
  <1> QED BY <1>3, <1>4, <1>5, <1>6, <1>7, <1>8, <1>9 DEF Next, Main, Worker

-----------------------------------------------------------------------------
(* Each signature is inserted once *)

LEMMA ListedInvInit == Init => ListedInv
  BY DEF Init, IndexInit, ListedInv

\* The list stays, and so does what has been given to it.
LEMMA ListedKept ==
    ASSUME ListedInv, UNCHANGED <<m_list, stage>>,
           \A i \in Index : Given(i) => Given(i)',
           stage = "insert" => \A i \in Index : Given(i)' => Given(i)
    PROVE  ListedInv'
  BY DEF ListedInv, Listed

\* One thread moves, and is as far as it was.
LEMMA GivenKept ==
    ASSUME NEW t \in Thread, Started' = Started, NEW i \in Index,
           \A u \in Thread : u # t => next'[u] = next[u] /\ at'[u] = at[u],
           GivenBy(t, i)' <=> GivenBy(t, i)
    PROVE  Given(i)' <=> Given(i)
  BY DEF Given, GivenBy, Started

\* What a thread is about to push nobody has pushed.
LEMMA NotGivenYet ==
    ASSUME BenchInv, ControlInv, InShareInv, NEW t \in Started,
           step[t] \in {"insert", "insert_more"}, at[t] = "push"
    PROVE  ~Given(next[t])
  <1> SUFFICES ASSUME NEW u \in Started, GivenBy(u, next[t]) PROVE FALSE
    BY DEF Given
  <1>1. stage # "generate" /\ next[t] \in Index /\ t \in Thread /\ u \in Thread
        /\ id[t] = t /\ id[u] = u
    BY DEF BenchInv, CallInv, ShareInv, Started
  <1>2. next[t] \in Nat /\ next[u] \in Nat
    BY <1>1 DEF BenchInv, BenchTypes
  <1>3. Owns(t, next[t])
    BY <1>1 DEF InShareInv, Owns
  <1>4. u # t
    BY <1>2 DEF GivenBy
  <1>5. at[u] = "unlock" => step[u] \in {"insert", "insert_more", "search"}
    BY <1>1 DEF ControlInv
  <1>6. Owns(u, next[t])
    <2>1. next[u] <= End(u) /\ End(u) \in Nat
      BY <1>1, ShareFacts DEF InShareInv
    <2>2. CASE next[t] < next[u]
      BY <1>1, <1>2, <2>1, <2>2 DEF GivenBy, Owns
    <2>3. CASE next[t] = next[u] /\ next[u] < End(u)
      BY <2>3 DEF GivenBy, Owns
    <2>4. CASE next[t] = next[u] /\ at[u] = "unlock"
      BY <1>1, <1>5, <2>3, <2>4 DEF InShareInv
    <2> QED BY <2>2, <2>4 DEF GivenBy
  <1> QED BY <1>1, <1>2, <1>3, <1>4, <1>6, OwnerUnique

\* PushBack puts an element that was not in the list at its end.
LEMMA PushListed ==
    ASSUME BenchInv, ControlInv, InShareInv, ListedInv, NEW t \in Thread, Call(t),
           step[t] \in {"insert", "insert_more"}, PushBack(t, Called(t))
    PROVE  ListedInv'
  <1> DEFINE j == next[t]
             meta == Called(t)
             n == Len(m_list)
  <1>1. /\ UNCHANGED <<next, step, id, stage>> /\ stage # "generate"
        /\ at[t] = "push" /\ at' = [at EXCEPT ![t] = "unlock"]
        /\ m_list' = Append(m_list, meta)
    <2>1. ~Unlock(t)
      BY DEF PushBack, Unlock
    <2> QED BY <2>1, CallKeepsPlace DEF PushBack, BenchInv, CallInv
  <1>2. t \in Started /\ j \in Index /\ id[t] = t /\ Started' = Started
    BY <1>1 DEF BenchInv, CallInv, ShareInv, Started
  <1>3. ~Given(j)
    BY <1>1, <1>2, NotGivenYet
  <1>4. m_list \in Seq(0 .. 2 * TOTAL - 1) /\ TOTAL \in Nat
    BY BenchmarkAssumption DEF BenchInv, BenchTypes
  <1>5. /\ step[t] = "insert" => stage = "insert" /\ meta = j
        /\ step[t] = "insert_more" => stage \in {"mix", "join", "done"} /\ meta = j + TOTAL
    BY DEF Called, ControlInv
  <1>6. ~Listed(meta)
    BY <1>2, <1>3, <1>5 DEF ListedInv
  <1>7. ASSUME NEW i \in Index PROVE Given(i)' <=> Given(i) \/ i = j
    <2>1. \A u \in Thread : u # t => at'[u] = at[u]
      BY <1>1 DEF BenchInv, BenchTypes
    <2>2. at'[t] = "unlock"
      BY <1>1 DEF BenchInv, BenchTypes
    <2>3. Start(t) <= j
      BY <1>2 DEF InShareInv
    <2>4. GivenBy(t, i)' <=> GivenBy(t, i) \/ i = j
      BY <1>1, <2>2, <2>3 DEF GivenBy
    <2>5. \A u \in Started : u # t => (GivenBy(u, i)' <=> GivenBy(u, i))
      BY <1>1, <2>1 DEF GivenBy, Started
    <2> QED BY <1>2, <2>4, <2>5 DEF Given
  <1> HIDE DEF j, meta
  <1>8. /\ n \in Nat /\ DOMAIN m_list = 1 .. n /\ DOMAIN m_list' = 1 .. n + 1
        /\ m_list'[n + 1] = meta
        /\ \A k \in 1 .. n : m_list'[k] = m_list[k]
    BY <1>1, <1>4
  <1> HIDE DEF n
  <1>9. \A x : Listed(x)' <=> Listed(x) \/ x = meta
    <2>1. \A k \in 1 .. n + 1 : k \in 1 .. n \/ k = n + 1
      BY <1>8
    <2>2. n + 1 \in 1 .. n + 1 /\ 1 .. n \subseteq 1 .. n + 1
      BY <1>8
    <2> QED BY <1>8, <2>1, <2>2 DEF Listed
  <1>10. ASSUME NEW k \in DOMAIN m_list', NEW l \in DOMAIN m_list', m_list'[k] = m_list'[l]
         PROVE  k = l
    <2>1. (k \in 1 .. n \/ k = n + 1) /\ (l \in 1 .. n \/ l = n + 1)
      BY <1>8
    <2>2. CASE k \in 1 .. n /\ l \in 1 .. n
      BY <1>8, <1>10, <2>2 DEF ListedInv
    <2>3. CASE k \in 1 .. n /\ l = n + 1
      BY <1>6, <1>8, <1>10, <2>3 DEF Listed
    <2>4. CASE l \in 1 .. n /\ k = n + 1
      BY <1>6, <1>8, <1>10, <2>4 DEF Listed
    <2> QED BY <2>1, <2>2, <2>3, <2>4
  <1>11. ASSUME stage = "insert", NEW i \in Index
         PROVE  (Listed(i)' <=> Given(i)') /\ ~Listed(i + TOTAL)'
    <2>1. meta = j /\ i + TOTAL # j /\ i \in Nat
      BY <1>2, <1>4, <1>5, <1>11 DEF Index
    <2> QED BY <1>7, <1>9, <1>11, <2>1 DEF ListedInv
  <1>12. ASSUME stage \in {"mix", "join", "done"}, NEW i \in Index
         PROVE  Listed(i)' /\ (Listed(i + TOTAL)' => Given(i)')
    <2>1. meta = j + TOTAL /\ (i + TOTAL = j + TOTAL => i = j)
      BY <1>2, <1>4, <1>5, <1>12 DEF Index
    <2> QED BY <1>7, <1>9, <1>12, <2>1 DEF ListedInv
  <1> QED BY <1>1, <1>10, <1>11, <1>12 DEF ListedInv

\* Other steps of a call leave the list alone.
LEMMA CallListed ==
    ASSUME BenchInv, ControlInv, InShareInv, ListedInv, NEW t \in Thread, Call(t),
           ~(step[t] \in {"insert", "insert_more"} /\ PushBack(t, Called(t)))
    PROVE  ListedInv'
  <1>0. BenchTypes /\ TOTAL \in Nat
    BY BenchmarkAssumption DEF BenchInv
  <1>1. stage # "generate" /\ t \in Started /\ Start(t) <= next[t] /\ next[t] \in Nat
    BY <1>0, CallCases DEF BenchInv, CallInv, ShareInv, InShareInv, Started, BenchTypes
  <1>2. \A i \in Index : i \in Nat
    BY DEF Index
  <1>3. CASE Unlock(t)
    <2>1. /\ UNCHANGED <<m_list, stage>> /\ next' = [next EXCEPT ![t] = next[t] + 1]
          /\ step' = [step EXCEPT ![t] = "loop"] /\ at[t] = "unlock"
          /\ at' = [at EXCEPT ![t] = "out"]
      BY <1>0, <1>3, UnlockAdvances
    <2>2. \A u \in Thread : u # t => next'[u] = next[u] /\ at'[u] = at[u]
      BY <1>0, <2>1 DEF BenchTypes
    <2>3. Started' = Started
      BY <1>0, <1>1, <2>1 DEF Started, BenchTypes
    <2>4. next'[t] = next[t] + 1 /\ at'[t] = "out"
      BY <1>0, <2>1 DEF BenchTypes
    <2>5. \A i \in Index : GivenBy(t, i)' <=> GivenBy(t, i)
      BY <1>1, <1>2, <2>1, <2>4 DEF GivenBy
    <2>6. \A i \in Index : Given(i)' <=> Given(i)
      BY <2>2, <2>3, <2>5, GivenKept
    <2> QED BY <2>1, <2>6, ListedKept
  <1>4. CASE ~Unlock(t)
    <2>1. UNCHANGED <<m_list, stage, next, step>>
      BY <1>4, CallCases, CallKeepsPlace
         DEF WriteLock, ReadLock, Visit, Mark, Report, EndOfList
    <2>2. /\ \A u \in Thread : u # t => at'[u] = at[u]
          /\ at[t] # "unlock"
          /\ at'[t] = "unlock" => step[t] = "search"
      BY <1>0, <1>4, CallCases DEF BenchTypes, WriteLock, ReadLock, Visit, Mark, Report, EndOfList
    <2>3. Started' = Started
      BY <2>1 DEF Started
    <2>4. ASSUME NEW i \in Index PROVE Given(i) => Given(i)'
      <3>1. \A u \in Started : GivenBy(u, i) => GivenBy(u, i)'
        BY <2>1, <2>2 DEF GivenBy, Started
      <3> QED BY <2>3, <3>1 DEF Given
    <2>5. ASSUME stage = "insert", NEW i \in Index PROVE Given(i)' => Given(i)
      <3>1. at'[t] # "unlock"
        BY <2>2, <2>5 DEF ControlInv
      <3>2. \A u \in Started : GivenBy(u, i)' => GivenBy(u, i)
        BY <2>1, <2>2, <3>1 DEF GivenBy, Started
      <3> QED BY <2>3, <3>2 DEF Given
    <2> QED BY <2>1, <2>4, <2>5, ListedKept
  <1> QED BY <1>3, <1>4

\* The steps beside the calls.
LEMMA ListedInvNext ==
    BenchInv /\ ControlInv /\ InShareInv /\ ListedInv /\ [Next]_vars => ListedInv'
  <1> SUFFICES ASSUME BenchInv, ControlInv, InShareInv, ListedInv, [Next]_vars PROVE ListedInv'
    OBVIOUS
  <1>0. BenchTypes
    BY DEF BenchInv
  <1> USE DEF indexVars
  <1>1. CASE UNCHANGED vars
    <2>1. \A i \in Index : Given(i)' <=> Given(i)
      BY <1>1 DEF vars, benchVars, Given, GivenBy, Started
    <2> QED BY <1>1, <2>1, ListedKept DEF vars, benchVars
  <1>2. CASE NextStage("generate", "insert")
    <2>1. stage = "generate" /\ stage' = "insert" /\ m_list' = << >> /\ Started' = {}
      BY <1>2 DEF NextStage, ListedInv, Started
    <2>2. \A i \in Index : ~Given(i)'
      BY <2>1 DEF Given
    <2>3. \A x : ~Listed(x)'
      BY <2>1 DEF Listed
    <2> QED BY <2>1, <2>2, <2>3 DEF ListedInv
  <1>3. CASE NextStage("insert", "mix")
    <2>1. stage = "insert" /\ stage' = "mix" /\ m_list' = m_list /\ Started = Thread
      BY <1>3 DEF NextStage, AllLeft, Started
    <2>2. ASSUME NEW i \in Index PROVE Listed(i) /\ ~Listed(i + TOTAL)
      <3>1. PICK t \in Thread : Owns(t, i)
        BY OwnerExists
      <3>2. next[t] = End(t)
        BY <1>3, <2>1 DEF NextStage, AllLeft, InShareInv, BenchInv, ShareInv
      <3>3. GivenBy(t, i)
        BY <3>1, <3>2 DEF Owns, GivenBy
      <3>4. Given(i)
        BY <2>1, <3>3 DEF Given
      <3> QED BY <2>1, <3>4 DEF ListedInv
    <2> QED BY <2>1, <2>2 DEF ListedInv, Listed
  <1>4. CASE Wait \/ StopWork \/ Finish
    <2>1. UNCHANGED <<m_list, next, step, at>>
          /\ stage \in {"mix", "join", "done"} /\ stage' \in {"mix", "join", "done"}
      BY <1>4 DEF Wait, StopWork, Finish
    <2>2. \A i \in Index : Given(i)' <=> Given(i)
      BY <2>1 DEF Given, GivenBy, Started
    <2> QED BY <2>1, <2>2 DEF ListedInv, Listed
  <1>5. ASSUME NEW t \in Thread, TakeId(t) \/ Generate(t) PROVE ListedInv'
    BY <1>5 DEF TakeId, Generate, ListedInv
  <1>6. ASSUME NEW t \in Thread, Enter(t) PROVE ListedInv'
    <2>1. /\ UNCHANGED <<m_list, stage, at>> /\ at[t] = "out" /\ id[t] = t
          /\ step[t] = "start" /\ step' = [step EXCEPT ![t] = "loop"]
          /\ next' = [next EXCEPT ![t] = Start(t)]
      BY <1>6 DEF Enter, GoTo, ControlInv, BenchInv, ShareInv
    <2>2. Started' = Started \union {t} /\ t \notin Started
          /\ next'[t] = Start(t) /\ \A u \in Thread : u # t => next'[u] = next[u]
      BY <1>0, <2>1 DEF Started, BenchTypes
    <2>3. \A i \in Index : ~GivenBy(t, i)'
      BY <2>1, <2>2, ShareFacts DEF GivenBy, Index
    <2>4. \A i \in Index, u \in Started : GivenBy(u, i)' <=> GivenBy(u, i)
      BY <2>1, <2>2 DEF GivenBy, Started
    <2>5. \A i \in Index : Given(i)' <=> Given(i)
      BY <2>2, <2>3, <2>4 DEF Given
    <2> QED BY <2>1, <2>5, ListedKept
  <1>7. ASSUME NEW t \in Thread, Turn(t) \/ Leave(t) PROVE ListedInv'
    <2>1. UNCHANGED <<m_list, stage, at, next>>
      BY <1>7 DEF Turn, Leave
    <2>2. Started' = Started
      BY <1>0, <1>7 DEF Turn, Leave, GoTo, Started, BenchTypes
    <2>3. \A i \in Index : Given(i)' <=> Given(i)
      BY <2>1, <2>2 DEF Given, GivenBy
    <2> QED BY <2>1, <2>3, ListedKept
  <1>8. ASSUME NEW t \in Thread, Call(t) PROVE ListedInv'
    BY <1>8, PushListed, CallListed
  <1> QED BY <1>1, <1>2, <1>3, <1>4, <1>5, <1>6, <1>7, <1>8 DEF Next, Main, Worker

LEMMA OnceInvHolds == Spec => [](BenchInv /\ OnceInv)
  <1>1. Init => BenchInv /\ OnceInv
    BY BenchInvInit, ControlInvInit, InShareInvInit, NumberInvInit, WrittenInvInit, ListedInvInit
       DEF OnceInv
  <1>2. BenchInv /\ OnceInv /\ [Next]_vars => (BenchInv /\ OnceInv)'
    <2> SUFFICES ASSUME BenchInv, OnceInv, [Next]_vars PROVE BenchInv' /\ OnceInv'
      OBVIOUS
    <2>1. ControlInv'
      BY ControlInvNext DEF OnceInv, BenchInv
    <2> QED BY <2>1, BenchInvNext, InShareInvNext, NumberInvNext, WrittenInvNext, ListedInvNext
            DEF OnceInv
  <1> QED BY <1>1, <1>2, PTL DEF Spec

\* For any number of threads and signatures, in whatever order the threads take their
\* numbers, init_func generates and testInsert inserts each signature of phase one
\* once before testMix begins, and testMix inserts none twice.
THEOREM OncePerSignatureHolds == Spec => []OncePerSignature
  <1>1. OnceInv => OncePerSignature
    <2> SUFFICES ASSUME OnceInv, stage \in {"mix", "join", "done"}, NEW i \in Index
                 PROVE  written[i] = 1 /\ Times(i) = 1 /\ Times(i + TOTAL) <= 1
      BY DEF OncePerSignature
    <2>1. ASSUME NEW x
          PROVE  Times(x) \in {0, 1} /\ (Listed(x) => Times(x) = 1)
      <3> DEFINE K == {k \in DOMAIN m_list : m_list[k] = x}
      <3>1. Listed(x) => \E k : K = {k}
        <4> SUFFICES ASSUME NEW k \in DOMAIN m_list, m_list[k] = x PROVE K = {k}
          BY DEF Listed
        <4>1. \A l \in DOMAIN m_list : m_list[l] = x => l = k
          BY DEF OnceInv, ListedInv
        <4> QED BY <4>1
      <3>2. ~Listed(x) => K = {}
        BY DEF Listed
      <3> HIDE DEF K
      <3>3. Cardinality(K) \in {0, 1} /\ (Listed(x) => Cardinality(K) = 1)
        BY <3>1, <3>2, FS_EmptySet, FS_Singleton
      <3> QED BY <3>3 DEF K, Times
    <2>2. written[i] = 1 /\ Listed(i)
      BY DEF OnceInv, ControlInv, WrittenInv, ListedInv
    <2> QED BY <2>1, <2>2
  <1> QED BY <1>1, OnceInvHolds, PTL

-----------------------------------------------------------------------------
(* InvalidatedAreReported *)

\* A list of as many signatures as it has elements, with a free place behind them.
Sound(l) ==
    /\ ~l.fault
    /\ l.capacity \in 1 .. SizeRange
    /\ l.size \in Nat /\ l.size < l.capacity
    /\ DOMAIN l.data = Places(l.capacity)
    /\ IsFiniteSet({l.data[i] : i \in Places(l.size)})
    /\ Cardinality({l.data[i] : i \in Places(l.size)}) = l.size

\* Somebody has reported meta, or is about to.
Accounted(meta) ==
    \E t \in Thread :
        \/ step[t] # "start" /\ stage # "insert" /\ meta \in Reported(t)
        \/ at[t] = "report" /\ m_list[pos[t]] = meta

Mixing == {"mix", "join", "done"}

\* What t found is not in its own list yet.
FoundInv ==
    \A t \in Thread :
        /\ at[t] \in {"scan", "mark", "report"} => pos[t] # 0
        /\ at[t] \in {"mark", "report"} =>
              pos[t] \in DOMAIN m_list /\ m_list[pos[t]] \notin Reported(t)
        /\ at[t] = "report" => m_list[pos[t]] \in sym

ReportedInv ==
    /\ DOMAIN removedQuery = Thread
    /\ sym \subseteq 0 .. 2 * TOTAL - 1
    /\ stage \notin Mixing => sym = {}
    /\ stage \in Mixing => \A t \in Started : Sound(removedQuery[t]) /\ Reported(t) \subseteq sym
    /\ FoundInv
    /\ \A meta \in sym : Accounted(meta)

\* A signature that was not in a list is added to it without losing another one.
LEMMA AddReports ==
    ASSUME NEW l, NEW elem, Sound(l), 2 * (l.size + 1) <= SizeRange,
           elem \notin {l.data[i] : i \in Places(l.size)}
    PROVE  LET new == ArraylistAdd(l, elem)
           IN  /\ Sound(new)
               /\ {new.data[i] : i \in Places(new.size)} = {l.data[i] : i \in Places(l.size)} \union {elem}
  <1> DEFINE data == IF ~HasRoom(l) THEN Grown(l) ELSE l.data
             capacity == IF ~HasRoom(l) THEN 2 * l.capacity ELSE l.capacity
             new == ArraylistAdd(l, elem)
             old == {l.data[i] : i \in Places(l.size)}
  <1>1. /\ l.size \in Nat /\ l.size < l.capacity /\ l.capacity \in 1 .. SizeRange
        /\ SizeRange \in Nat \ {0} /\ DOMAIN l.data = Places(l.capacity)
    BY SizeRangeAssumption DEF Sound
  <1>2. (l.capacity - 1) % SizeRange = l.capacity - 1
    BY <1>1
  <1>3. capacity \in 1 .. SizeRange /\ l.size + 1 < capacity
    <2>1. CASE HasRoom(l)
      BY <1>1, <1>2, <2>1 DEF HasRoom
    <2>2. CASE ~HasRoom(l)
      <3>1. l.capacity = l.size + 1
        BY <1>1, <1>2, <2>2 DEF HasRoom
      <3> QED BY <1>1, <2>2, <3>1
    <2> QED BY <2>1, <2>2
  <1>4. (l.size + 1) % SizeRange = l.size + 1
    BY <1>1, <1>3
  <1>5. /\ DOMAIN data = Places(capacity)
        /\ \A i \in Places(l.size) : data[i] = l.data[i]
    <2>1. CASE HasRoom(l)
      BY <1>1, <2>1
    <2>2. CASE ~HasRoom(l)
      <3>1. /\ DOMAIN Grown(l) = Places(capacity)
            /\ \A i \in Places(capacity) :
                 i \in Places(l.size) \intersect DOMAIN l.data => Grown(l)[i] = l.data[i]
        BY <2>2 DEF Grown
      <3>2. Places(l.size) \subseteq Places(capacity) /\ Places(l.size) \subseteq DOMAIN l.data
        <4>1. PICK n, c, d : n = l.size /\ c = capacity /\ d = l.capacity
          OBVIOUS
        <4>2. n \in Nat /\ c \in Nat /\ d \in Nat /\ n < c /\ n < d
          BY <1>1, <1>3, <4>1
        <4>3. Places(n) \subseteq Places(c) /\ Places(n) \subseteq Places(d)
          BY ONLY <4>2 DEF Places
        <4> QED BY <1>1, <4>1, <4>3
      <3> QED BY <2>2, <3>1, <3>2
    <2> QED BY <2>1, <2>2
  <1> HIDE DEF data, capacity
  <1>6. l.size \in DOMAIN data /\ l.size \notin Places(l.size)
    BY <1>1, <1>3, <1>5 DEF Places
  <1> DEFINE stored == Write(data, l.size, elem)
  <1>7. /\ stored[l.size] = elem
        /\ DOMAIN stored = Places(capacity)
        /\ \A i \in Places(l.size) : stored[i] = l.data[i]
    <2>1. stored = [data EXCEPT ![l.size] = elem]
      BY <1>6 DEF Write
    <2>2. Places(l.size) \subseteq DOMAIN data
      BY <1>1, <1>3, <1>5 DEF Places
    <2> HIDE DEF stored
    <2> QED BY <1>5, <1>6, <2>1, <2>2
  <1>8. /\ new.fault = (l.fault \/ l.size \notin DOMAIN data) /\ new.capacity = capacity
        /\ new.size = l.size + 1 /\ new.data = stored
    BY <1>4 DEF ArraylistAdd, List, data, capacity
  <1> HIDE DEF new, stored
  <1>9. Places(l.size + 1) = Places(l.size) \union {l.size}
    BY <1>1 DEF Places
  <1>10. {new.data[i] : i \in Places(new.size)} = old \union {elem}
    BY <1>7, <1>8, <1>9
  <1> HIDE DEF old
  <1>11. IsFiniteSet(old) /\ Cardinality(old) = l.size /\ elem \notin old
    BY DEF Sound, old
  <1>12. IsFiniteSet(old \union {elem}) /\ Cardinality(old \union {elem}) = l.size + 1
    BY <1>11, FS_AddElement
  <1>13. Sound(new)
    <2>1. ~new.fault
      <3>1. ~l.fault
        BY DEF Sound
      <3> QED BY <1>6, <1>8, <3>1
    <2>2. new.capacity \in 1 .. SizeRange /\ new.size \in Nat /\ new.size < new.capacity
          /\ DOMAIN new.data = Places(new.capacity)
      BY <1>1, <1>3, <1>7, <1>8
    <2>3. /\ IsFiniteSet({new.data[i] : i \in Places(new.size)})
          /\ Cardinality({new.data[i] : i \in Places(new.size)}) = new.size
      BY <1>8, <1>10, <1>12
    <2> QED BY <2>1, <2>2, <2>3 DEF Sound
  <1> QED BY <1>10, <1>13 DEF old, new

\* The list of a thread that begins is empty, and has a place.
LEMMA CreateSound ==
    ASSUME NEW n \in 1 .. SizeRange
    PROVE  LET new == ArraylistCreate(n)
           IN  Sound(new) /\ {new.data[i] : i \in Places(new.size)} = {}
  <1> DEFINE new == ArraylistCreate(n)
  <1>1. /\ new.fault = (n = 0) /\ new.capacity = n /\ new.size = 0
        /\ DOMAIN new.data = Places(n)
    BY DEF ArraylistCreate, List
  <1> HIDE DEF new
  <1>2. n # 0 /\ n \in Nat /\ 0 < n
    BY SizeRangeAssumption
  <1>3. {new.data[i] : i \in Places(new.size)} = {}
    BY <1>1 DEF Places
  <1>4. ~new.fault
    BY <1>1, <1>2
  <1>5. /\ IsFiniteSet({new.data[i] : i \in Places(new.size)})
        /\ Cardinality({new.data[i] : i \in Places(new.size)}) = new.size
    BY <1>1, <1>3, FS_EmptySet
  <1>6. Sound(new)
    BY <1>1, <1>2, <1>4, <1>5 DEF Sound
  <1> QED BY <1>3, <1>6 DEF new

-----------------------------------------------------------------------------
(* What is invalidated is reported *)

LEMMA ReportedInvInit == Init => ReportedInv
  BY DEF Init, IndexInit, ReportedInv, FoundInv, Mixing

\* Nothing happens to lists and signatures.
LEMMA ReportedKept ==
    ASSUME ReportedInv, UNCHANGED <<m_list, sym, at, pos, removedQuery, stage>>, Started' = Started
    PROVE  ReportedInv'
  <1>1. \A t \in Thread : Reported(t)' = Reported(t)
    BY DEF Reported
  <1>2. \A meta \in sym : Accounted(meta)'
    <2> SUFFICES ASSUME NEW meta \in sym, NEW t \in Thread,
                        \/ step[t] # "start" /\ stage # "insert" /\ meta \in Reported(t)
                        \/ at[t] = "report" /\ m_list[pos[t]] = meta
                 PROVE  Accounted(meta)'
      BY DEF ReportedInv, Accounted
    <2>1. step[t] # "start" => step'[t] # "start"
      BY DEF Started
    <2> QED BY <1>1, <2>1 DEF Accounted
  <1>3. FoundInv'
    BY <1>1 DEF ReportedInv, FoundInv
  <1>4. stage' \in Mixing => \A t \in Started' : Sound(removedQuery'[t]) /\ Reported(t)' \subseteq sym'
    BY <1>1 DEF ReportedInv, Started
  <1> QED BY <1>2, <1>3, <1>4 DEF ReportedInv

\* A thread begins, with a new list in testMix.
LEMMA EnterReported ==
    ASSUME BenchInv, ControlInv, ReportedInv, 4 * TOTAL <= SizeRange, NEW t \in Thread, Enter(t)
    PROVE  ReportedInv'
  <1>0. DOMAIN removedQuery = Thread /\ DOMAIN removedQuery' = Thread
    BY DEF Enter, ReportedInv
  <1>1. /\ UNCHANGED <<m_list, sym, at, pos, stage>> /\ at[t] = "out" /\ step[t] = "start"
        /\ Started' = Started \union {t} /\ t \notin Started
        /\ stage # "generate" /\ id[t] = t
    BY DEF Enter, GoTo, indexVars, ControlInv, BenchInv, BenchTypes, Started, ShareInv
  <1>2. \A u \in Thread : u # t => removedQuery'[u] = removedQuery[u]
    BY DEF Enter, indexVars
  <1>3. \A u \in Thread : u # t => Reported(u)' = Reported(u)
    BY <1>2 DEF Reported
  <1>4. FoundInv'
    BY <1>1, <1>3 DEF ReportedInv, FoundInv
  <1>5. \A meta \in sym : Accounted(meta)'
    <2> SUFFICES ASSUME NEW meta \in sym, NEW u \in Thread,
                        \/ step[u] # "start" /\ stage # "insert" /\ meta \in Reported(u)
                        \/ at[u] = "report" /\ m_list[pos[u]] = meta
                 PROVE  Accounted(meta)'
      BY DEF ReportedInv, Accounted
    <2>1. u # t
      BY <1>1
    <2>2. step[u] # "start" => step'[u] # "start"
      BY <1>1 DEF Started
    <2> QED BY <1>1, <1>3, <2>1, <2>2 DEF Accounted
  <1>6. ASSUME stage \in Mixing PROVE Sound(removedQuery'[t]) /\ Reported(t)' = {}
    <2> DEFINE n == End(t) - Start(t)
               new == ArraylistCreate(n)
    <2>1. removedQuery'[t] = new
      BY <1>0, <1>1, <1>6 DEF Enter, Mixing
    <2>2. n \in 1 .. SizeRange
      <3>1. SizeRange \in Nat /\ TOTAL \in Nat
        BY SizeRangeAssumption, BenchmarkAssumption
      <3> QED BY <3>1, ShareFacts
    <2> HIDE DEF n
    <2>3. Sound(new) /\ {new.data[i] : i \in Places(new.size)} = {}
      BY <2>2, CreateSound
    <2> HIDE DEF new
    <2> QED BY <2>1, <2>3 DEF Reported, ArraylistGet, ArraylistGetsize
  <1>7. ASSUME stage \in Mixing, NEW u \in Started'
        PROVE  Sound(removedQuery'[u]) /\ Reported(u)' \subseteq sym'
    <2>1. CASE u = t
      BY <1>6, <1>7, <2>1
    <2>2. CASE u # t
      <3>1. u \in Started /\ u \in Thread
        BY <1>1, <2>2 DEF Started
      <3> QED BY <1>1, <1>2, <1>3, <1>7, <2>2, <3>1 DEF ReportedInv
    <2> QED BY <2>1, <2>2
  <1> QED BY <1>0, <1>1, <1>4, <1>5, <1>7 DEF ReportedInv

\* Main, and the threads beside their calls.
LEMMA OutsideReported ==
    ASSUME BenchInv, ControlInv, ReportedInv,
           Main \/ \E t \in Thread : TakeId(t) \/ Generate(t) \/ Turn(t) \/ Leave(t)
    PROVE  ReportedInv'
  <1>0. BenchTypes
    BY DEF BenchInv
  <1> USE DEF indexVars
  <1>1. UNCHANGED <<m_list, sym, at, pos, removedQuery>>
    BY DEF Main, NextStage, Wait, StopWork, Finish, TakeId, Generate, Turn, Leave
  <1>2. \A t \in Thread : Reported(t)' = Reported(t)
    BY <1>1 DEF Reported
  <1>3. FoundInv'
    BY <1>1, <1>2 DEF ReportedInv, FoundInv
  <1>4. CASE NextStage("generate", "insert") \/ NextStage("insert", "mix")
    <2>1. sym = {} /\ Started' = {}
      BY <1>4 DEF NextStage, ReportedInv, Started, Mixing
    <2> QED BY <1>1, <1>3, <2>1 DEF ReportedInv
  <1>5. CASE Wait \/ StopWork \/ Finish
    <2>1. stage \in Mixing /\ stage' \in Mixing /\ step' = step /\ Started' = Started
      BY <1>5 DEF Wait, StopWork, Finish, Mixing, Started
    <2>2. \A meta \in sym : Accounted(meta)'
      <3> SUFFICES ASSUME NEW meta \in sym, NEW t \in Thread,
                          \/ step[t] # "start" /\ meta \in Reported(t)
                          \/ at[t] = "report" /\ m_list[pos[t]] = meta
                   PROVE  Accounted(meta)'
        BY DEF ReportedInv, Accounted
      <3>1. stage' # "insert"
        BY <2>1 DEF Mixing
      <3> QED BY <1>1, <1>2, <2>1, <3>1 DEF Accounted
    <2>3. \A t \in Started' : Sound(removedQuery'[t]) /\ Reported(t)' \subseteq sym'
      BY <1>1, <1>2, <2>1 DEF ReportedInv, Started
    <2>4. DOMAIN removedQuery' = Thread /\ sym' \subseteq 0 .. 2 * TOTAL - 1 /\ stage' \in Mixing
      BY <1>1, <2>1 DEF ReportedInv
    <2> QED BY <1>1, <1>3, <2>2, <2>3, <2>4 DEF ReportedInv
  <1>6. ASSUME NEW t \in Thread, TakeId(t) \/ Generate(t) PROVE ReportedInv'
    <2>1. stage \notin Mixing /\ stage' \notin Mixing
      BY <1>6 DEF TakeId, Generate, Mixing
    <2> QED BY <1>1, <1>3, <2>1 DEF ReportedInv
  <1>7. ASSUME NEW t \in Thread, Turn(t) \/ Leave(t) PROVE ReportedInv'
    <2>1. stage' = stage /\ Started' = Started
      BY <1>0, <1>7 DEF Turn, Leave, GoTo, Started, BenchTypes
    <2> QED BY <1>1, <2>1, ReportedKept
  <1> QED BY <1>4, <1>5, <1>6, <1>7 DEF Main

\* A step of a call that reports nothing: t comes to a place where it holds no
\* signature, or one that is not marked yet.
LEMMA QuietReported ==
    ASSUME ReportedInv, NEW t \in Thread, at[t] # "report", at'[t] # "report",
           UNCHANGED <<sym, removedQuery, stage>>, Started' = Started,
           \A k \in DOMAIN m_list : k \in DOMAIN m_list' /\ m_list'[k] = m_list[k],
           \A u \in Thread : u # t => at'[u] = at[u] /\ pos'[u] = pos[u],
           at'[t] \in {"scan", "mark"} => pos'[t] # 0,
           at'[t] = "mark" => pos'[t] \in DOMAIN m_list' /\ m_list'[pos'[t]] \notin Reported(t)
    PROVE  ReportedInv'
  <1>1. \A u \in Thread : Reported(u)' = Reported(u)
    BY DEF Reported
  <1>2. FoundInv'
    <2> SUFFICES ASSUME NEW u \in Thread
                 PROVE  /\ at'[u] \in {"scan", "mark", "report"} => pos'[u] # 0
                        /\ at'[u] \in {"mark", "report"} =>
                              pos'[u] \in DOMAIN m_list' /\ m_list'[pos'[u]] \notin Reported(u)
                        /\ at'[u] = "report" => m_list'[pos'[u]] \in sym
      BY <1>1 DEF FoundInv
    <2>1. CASE u = t
      BY <2>1
    <2>2. CASE u # t
      BY <2>2 DEF ReportedInv, FoundInv
    <2> QED BY <2>1, <2>2
  <1>3. \A meta \in sym : Accounted(meta)'
    <2> SUFFICES ASSUME NEW meta \in sym, NEW u \in Thread,
                        \/ step[u] # "start" /\ stage # "insert" /\ meta \in Reported(u)
                        \/ at[u] = "report" /\ m_list[pos[u]] = meta
                 PROVE  Accounted(meta)'
      BY DEF ReportedInv, Accounted
    <2>1. step[u] # "start" => step'[u] # "start"
      BY DEF Started
    <2>2. at[u] = "report" => u # t /\ at'[u] = "report" /\ pos'[u] = pos[u]
                              /\ m_list'[pos[u]] = m_list[pos[u]]
      BY DEF ReportedInv, FoundInv
    <2> QED BY <1>1, <2>1, <2>2 DEF Accounted
  <1>4. stage' \in Mixing => \A u \in Started' : Sound(removedQuery'[u]) /\ Reported(u)' \subseteq sym'
    BY <1>1 DEF ReportedInv, Started
  <1> QED BY <1>2, <1>3, <1>4 DEF ReportedInv

\* The steps of a call that mark and report nothing.
LEMMA CallQuiet ==
    ASSUME BenchInv, ControlInv, ReportedInv, NEW t \in Thread, Call(t), ~Mark(t), ~Report(t)
    PROVE  ReportedInv'
  <1>0. BenchTypes
    BY DEF BenchInv
  <1>1. stage' = stage /\ Started' = Started /\ t \in Started
    <2>1. step' = step \/ step' = [step EXCEPT ![t] = "loop"]
      BY CallCases DEF CallFrame, Advance, GoTo
    <2> QED BY <1>0, <2>1, CallCases DEF CallFrame, Started, BenchTypes
  <1>2. UNCHANGED <<sym, removedQuery>> /\ at[t] # "report" /\ at'[t] # "report"
        /\ \A u \in Thread : u # t => at'[u] = at[u] /\ pos'[u] = pos[u]
    BY <1>0, CallCases
       DEF Unlock, WriteLock, PushBack, ReadLock, Visit, EndOfList, BenchTypes
  <1>3. \A k \in DOMAIN m_list : k \in DOMAIN m_list' /\ m_list'[k] = m_list[k]
    <2>1. CASE m_list' = m_list
      BY <2>1
    <2>2. CASE PushBack(t, Called(t))
      <3> DEFINE meta == Called(t)
      <3>1. m_list' = Append(m_list, meta) /\ m_list \in Seq(0 .. 2 * TOTAL - 1)
        BY <1>0, <2>2 DEF PushBack, BenchTypes
      <3> HIDE DEF meta
      <3> QED BY <3>1
    <2> QED BY <2>1, <2>2, CallCases DEF Unlock, WriteLock, ReadLock, Visit, EndOfList
  <1>4. CASE Visit(t, drawn[next[t]].remove.data, Data)
    <2>1. step[t] = "search" /\ stage \in Mixing
      BY <1>4, CallCases DEF Visit, ControlInv, Mixing, Unlock, WriteLock, PushBack
    <2>2. Reported(t) \subseteq sym
      BY <1>1, <2>1 DEF ReportedInv
    <2>3. pos[t] \in Nat /\ pos[t] # 0 /\ pos[t] <= Len(m_list) /\ m_list' = m_list
          /\ pos'[t] \in {pos[t], pos[t] + 1} /\ m_list \in Seq(0 .. 2 * TOTAL - 1)
      BY <1>0, <1>4 DEF Visit, BenchTypes, ReportedInv, FoundInv
    <2>4. at'[t] = "mark" => pos'[t] = pos[t] /\ m_list[pos[t]] \notin sym
      BY <1>0, <1>4 DEF Visit, BenchTypes
    <2>5. pos[t] \in DOMAIN m_list /\ pos'[t] # 0
      BY <2>3
    <2> QED BY <1>1, <1>2, <1>3, <2>2, <2>3, <2>4, <2>5, QuietReported
  <1>5. CASE ~Visit(t, drawn[next[t]].remove.data, Data)
    <2>1. at'[t] # "mark" /\ (at'[t] = "scan" => pos'[t] = 1)
      BY <1>0, <1>5, CallCases
         DEF Unlock, WriteLock, PushBack, ReadLock, EndOfList, BenchTypes
    <2> QED BY <1>1, <1>2, <1>3, <2>1, QuietReported
  <1> QED BY <1>4, <1>5

\* A signature is marked by a search that is about to report it.
LEMMA MarkReported ==
    ASSUME BenchInv, ControlInv, ReportedInv, NEW t \in Thread, Call(t), Mark(t)
    PROVE  ReportedInv'
  <1>0. BenchTypes
    BY DEF BenchInv
  <1>p. PICK meta : meta = m_list[pos[t]]
    OBVIOUS
  <1>1. /\ at[t] = "mark" /\ at' = [at EXCEPT ![t] = "report"] /\ sym' = sym \union {meta}
        /\ UNCHANGED <<m_list, pos, removedQuery, stage, step>>
    BY <1>p, CallCases DEF Mark, CallFrame
  <1>2. pos[t] \in DOMAIN m_list /\ meta \notin Reported(t) /\ stage \in Mixing /\ pos[t] # 0
    BY <1>p, <1>1 DEF ReportedInv, FoundInv, ControlInv, Mixing
  <1>3. \A u \in Thread : Reported(u)' = Reported(u)
    BY <1>1 DEF Reported
  <1>4. at'[t] = "report" /\ \A u \in Thread : u # t => at'[u] = at[u]
    BY <1>0, <1>1 DEF BenchTypes
  <1>5. meta \in 0 .. 2 * TOTAL - 1
    <2> DEFINE M == 0 .. 2 * TOTAL - 1
    <2>1. m_list \in Seq(M)
      BY <1>0 DEF BenchTypes
    <2> HIDE DEF M
    <2>2. meta \in M
      BY <1>p, <1>2, <2>1
    <2> QED BY <2>2 DEF M
  <1>6. FoundInv'
    <2> SUFFICES ASSUME NEW u \in Thread
                 PROVE  /\ at'[u] \in {"scan", "mark", "report"} => pos[u] # 0
                        /\ at'[u] \in {"mark", "report"} =>
                              pos[u] \in DOMAIN m_list /\ m_list[pos[u]] \notin Reported(u)
                        /\ at'[u] = "report" => m_list[pos[u]] \in sym'
      BY <1>1, <1>3 DEF FoundInv
    <2>1. CASE u = t
      BY <1>p, <1>1, <1>2, <2>1
    <2>2. CASE u # t
      BY <1>1, <1>4, <2>2 DEF ReportedInv, FoundInv
    <2> QED BY <2>1, <2>2
  <1>7. \A x \in sym' : Accounted(x)'
    <2>1. Accounted(meta)'
      BY <1>p, <1>1, <1>4 DEF Accounted
    <2>2. ASSUME NEW x \in sym PROVE Accounted(x)'
      <3> SUFFICES ASSUME NEW u \in Thread,
                          \/ step[u] # "start" /\ stage # "insert" /\ x \in Reported(u)
                          \/ at[u] = "report" /\ m_list[pos[u]] = x
                   PROVE  Accounted(x)'
        BY DEF ReportedInv, Accounted
      <3> QED BY <1>1, <1>3, <1>4 DEF Accounted
    <2> QED BY <1>1, <2>1, <2>2
  <1>8. \A u \in Started' : Sound(removedQuery'[u]) /\ Reported(u)' \subseteq sym'
    BY <1>1, <1>2, <1>3 DEF ReportedInv, Started
  <1>9. DOMAIN removedQuery' = Thread /\ sym' \subseteq 0 .. 2 * TOTAL - 1 /\ stage' \in Mixing
    BY <1>1, <1>2, <1>5 DEF ReportedInv
  <1> QED BY <1>6, <1>7, <1>8, <1>9 DEF ReportedInv

\* A search adds the signature it has marked to its list, which stays sound.
LEMMA ReportReported ==
    ASSUME BenchInv, ControlInv, ReportedInv, 4 * TOTAL <= SizeRange, NEW t \in Thread,
           Call(t), Report(t)
    PROVE  ReportedInv'
  <1>0. BenchTypes
    BY DEF BenchInv
  <1> DEFINE meta == m_list[pos[t]]
             old == removedQuery[t]
             new == ArraylistAdd(old, meta)
  <1>1. /\ at[t] = "report" /\ at' = [at EXCEPT ![t] = "scan"]
        /\ removedQuery' = [removedQuery EXCEPT ![t] = new] /\ pos' = [pos EXCEPT ![t] = @ + 1]
        /\ UNCHANGED <<m_list, sym, stage, step>>
    BY CallCases DEF Report, CallFrame
  <1>2. pos[t] \in DOMAIN m_list /\ meta \notin Reported(t) /\ meta \in sym /\ stage \in Mixing
        /\ t \in Started /\ stage # "insert"
    BY <1>1 DEF ReportedInv, FoundInv, ControlInv, Mixing, Started
  <1>3. /\ removedQuery'[t] = new
        /\ \A u \in Thread : u # t => /\ removedQuery'[u] = removedQuery[u]
                                      /\ at'[u] = at[u] /\ pos'[u] = pos[u]
        /\ at'[t] = "scan" /\ pos'[t] = pos[t] + 1 /\ pos[t] \in Nat
    BY <1>0, <1>1 DEF BenchTypes, ReportedInv
  <1>4. Reported(t) = {old.data[i] : i \in Places(old.size)}
    BY DEF Reported, ArraylistGet, ArraylistGetsize
  <1>5. Sound(old) /\ Reported(t) \subseteq sym
    BY <1>2 DEF ReportedInv
  <1> HIDE DEF meta, old
  <1>6. 2 * (old.size + 1) <= SizeRange
    <2> DEFINE M == 0 .. 2 * TOTAL - 1
               R == Reported(t)
    <2>1. IsFiniteSet(R) /\ Cardinality(R) = old.size /\ old.size \in Nat
      BY <1>4, <1>5 DEF Sound
    <2>2. TOTAL \in Nat /\ SizeRange \in Nat
      BY BenchmarkAssumption, SizeRangeAssumption
    <2>3. R \union {meta} \subseteq M
      BY <1>2, <1>5 DEF ReportedInv
    <2>4. IsFiniteSet(M) /\ Cardinality(M) <= 2 * TOTAL
      <3>1. 0 \in Int /\ 2 * TOTAL - 1 \in Int
        BY <2>2
      <3> QED BY <2>2, <3>1, FS_Interval
    <2> HIDE DEF M, R
    <2>5. Cardinality(R \union {meta}) = old.size + 1
      BY <1>2, <2>1, FS_AddElement DEF R
    <2>6. Cardinality(R \union {meta}) <= Cardinality(M) /\ Cardinality(M) \in Nat
      BY <2>3, <2>4, FS_Subset, FS_CardinalityType
    <2> QED BY <2>1, <2>2, <2>4, <2>5, <2>6
  <1>7. Sound(new) /\ {new.data[i] : i \in Places(new.size)} = Reported(t) \union {meta}
    BY <1>2, <1>4, <1>5, <1>6, AddReports
  <1> HIDE DEF new
  <1>8. /\ Reported(t)' = Reported(t) \union {meta}
        /\ \A u \in Thread : u # t => Reported(u)' = Reported(u)
    <2>1. Reported(t)' = {new.data[i] : i \in Places(new.size)}
      BY <1>3 DEF Reported, ArraylistGet, ArraylistGetsize
    <2>2. ASSUME NEW u \in Thread, u # t
          PROVE  Reported(u)' = Reported(u)
      <3>1. removedQuery'[u] = removedQuery[u]
        BY <1>3, <2>2
      <3> QED BY ONLY <3>1 DEF Reported, ArraylistGet, ArraylistGetsize
    <2> QED BY <1>7, <2>1, <2>2
  <1>9. FoundInv'
    <2> SUFFICES ASSUME NEW u \in Thread
                 PROVE  /\ at'[u] \in {"scan", "mark", "report"} => pos'[u] # 0
                        /\ at'[u] \in {"mark", "report"} =>
                              pos'[u] \in DOMAIN m_list /\ m_list[pos'[u]] \notin Reported(u)'
                        /\ at'[u] = "report" => m_list[pos'[u]] \in sym
      BY <1>1 DEF FoundInv
    <2>1. CASE u = t
      BY <1>3, <2>1
    <2>2. CASE u # t
      BY <1>3, <1>8, <2>2 DEF ReportedInv, FoundInv
    <2> QED BY <2>1, <2>2
  <1>10. \A x \in sym : Accounted(x)'
    <2> SUFFICES ASSUME NEW x \in sym, NEW u \in Thread,
                        \/ step[u] # "start" /\ stage # "insert" /\ x \in Reported(u)
                        \/ at[u] = "report" /\ m_list[pos[u]] = x
                 PROVE  Accounted(x)'
      BY DEF ReportedInv, Accounted
    <2>1. CASE u = t
      <3>1. x \in Reported(t)' /\ step'[t] # "start" /\ stage' # "insert"
        BY <1>1, <1>2, <1>8, <2>1 DEF Started, meta
      <3> QED BY <3>1 DEF Accounted
    <2>2. CASE u # t
      BY <1>1, <1>3, <1>8, <2>2 DEF Accounted
    <2> QED BY <2>1, <2>2
  <1>11. ASSUME NEW u \in Started' PROVE Sound(removedQuery'[u]) /\ Reported(u)' \subseteq sym'
    <2>1. u \in Started /\ u \in Thread
      BY <1>1 DEF Started
    <2>2. CASE u = t
      BY <1>1, <1>2, <1>3, <1>5, <1>7, <1>8, <2>2
    <2>3. CASE u # t
      BY <1>1, <1>2, <1>3, <1>8, <2>1, <2>3 DEF ReportedInv
    <2> QED BY <2>2, <2>3
  <1>12. DOMAIN removedQuery' = Thread /\ sym' \subseteq 0 .. 2 * TOTAL - 1 /\ stage' \in Mixing
    BY <1>1, <1>2 DEF ReportedInv
  <1> QED BY <1>1, <1>9, <1>10, <1>11, <1>12 DEF ReportedInv

\* No step loses what was invalidated.
LEMMA ReportedInvNext ==
    ASSUME BenchInv, ControlInv, ReportedInv, 4 * TOTAL <= SizeRange, [Next]_vars
    PROVE  ReportedInv'
  <1>1. CASE UNCHANGED vars
    <2>1. Started' = Started
      BY <1>1 DEF vars, benchVars, Started
    <2> QED BY <1>1, <2>1, ReportedKept DEF vars, indexVars, benchVars
  <1>2. ASSUME NEW t \in Thread, Call(t) PROVE ReportedInv'
    BY <1>2, CallQuiet, MarkReported, ReportReported
  <1> QED BY <1>1, <1>2, EnterReported, OutsideReported DEF Next, Worker

\* Any number of threads: what was invalidated is in somebody's list or about to be put
\* there, no thread reports a signature twice, and the lists never overflow.  The
\* hypothesis is that size_t counts four times as many places as TOTAL, an int.
THEOREM InvalidatedAreReportedHolds ==
    ASSUME 4 * TOTAL <= SizeRange
    PROVE  Spec => []InvalidatedAreReported
  <1>1. BenchInv /\ OnceInv /\ ReportedInv /\ [Next]_vars => ReportedInv'
    BY ReportedInvNext DEF OnceInv
  <1>2. ASSUME ReportedInv PROVE InvalidatedAreReported
    <2>1. ASSUME stage \in Mixing, NEW t \in Thread, step[t] # "start"
          PROVE  /\ ~removedQuery[t].fault
                 /\ Cardinality(Reported(t)) = ArraylistGetsize(removedQuery[t])
                 /\ Reported(t) \subseteq sym
      <3>1. Sound(removedQuery[t]) /\ Reported(t) \subseteq sym
        BY <1>2, <2>1 DEF ReportedInv, Started
      <3> QED BY <3>1 DEF Sound, Reported, ArraylistGet, ArraylistGetsize
    <2> QED BY <1>2, <2>1 DEF ReportedInv, Accounted, InvalidatedAreReported, Mixing
  <1> QED BY <1>1, <1>2, ReportedInvInit, OnceInvHolds, PTL DEF Spec

=============================================================================
