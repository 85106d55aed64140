------------------------------- MODULE MCUnits -------------------------------
(* The parts that do not share memory with the index for TLC: the filters of   *)
(* BloomFilterTest and the units of Tool, one of them in each behaviour.  Words *)
(* and hashes have four bits, characters two.                                   *)
EXTENDS BloomFilter, SaltedBloom, KeyHash, RwLock, ArraylistUse, Selection, TLC

CONSTANTS o1, o2, o3, b1, b2

MCObject == {o1, o2, o3}
MCBuffer == {b1, b2}
MCKey == {2, 3}
MCHash == 0 .. 15
MCHashAp(x, s) == (x * 7 + s * 5 + x * s) % 16
MCMurmurHash3(key) == [j \in 0 .. 3 |-> (key * 5 + 3 * j + key * key * j) % 16]
MCPredef == [j \in 0 .. 2 |-> (3 + 2 * j) % 16]
MCDraw(seed, j) == (seed * 3 + j) % 16

MCHashCounts == {1, 2}
MCTableSizes == {2, 4}
MCSeeds == {1, 4}

Plain(m, k, seed) ==
    [m |-> m, k |-> k, minSize |-> 1, maxSize |-> 20, minHashes |-> 1,
     maxHashes |-> 4, usable |-> TRUE, seed |-> seed]

MCParameters ==
    {Plain(7, 2, 1), Plain(7, 2, 2), Plain(5, 4, 1), Plain(0, 1, 1), Plain(7, 2, 0)}

MCSymmetry == Permutations(MCObject) \union Permutations(MCBuffer)

MCBounds == {<<0, last>> : last \in 0 .. 12} \union {<<1, 8>>, <<2, 11>>}
MCCapacities == {0, 1, 2, 3}

VARIABLE unit

unitVars == <<vars, saltedVars, hashVars, rwVars, listVars, selectionVars, unit>>

\* The units that do not run are in a fixed state.
SaltedIdle == SaltedInit /\ hashCount = 1 /\ tableSize = 2
HashIdle == HashInit /\ routine = "murmur" /\ len = 0
RwIdle == RwInit /\ role = [t \in RwThread |-> "reader"]
ListIdle == ListInit /\ list.capacity = 1
SelectionIdle == SelectionInit /\ call = <<0, 0>> /\ input = [j \in 0 .. 0 |-> 0]

UnitInit ==
    /\ unit \in {"filter", "salted", "hash", "rwlock", "list", "selection"}
    /\ Init
    /\ IF unit = "salted" THEN SaltedInit ELSE SaltedIdle
    /\ IF unit = "hash" THEN HashInit ELSE HashIdle
    /\ IF unit = "rwlock" THEN RwInit ELSE RwIdle
    /\ IF unit = "list" THEN ListInit ELSE ListIdle
    /\ IF unit = "selection" THEN SelectionInit ELSE SelectionIdle

UnitNext ==
    /\ UNCHANGED unit
    /\ \/ /\ unit = "filter" /\ Next
          /\ UNCHANGED <<saltedVars, hashVars, rwVars, listVars, selectionVars>>
       \/ /\ unit = "salted" /\ SaltedNext
          /\ UNCHANGED <<vars, hashVars, rwVars, listVars, selectionVars>>
       \/ /\ unit = "hash" /\ HashNext
          /\ UNCHANGED <<vars, saltedVars, rwVars, listVars, selectionVars>>
       \/ /\ unit = "rwlock" /\ RwNext
          /\ UNCHANGED <<vars, saltedVars, hashVars, listVars, selectionVars>>
       \/ /\ unit = "list" /\ ListNext
          /\ UNCHANGED <<vars, saltedVars, hashVars, rwVars, selectionVars>>
       \/ /\ unit = "selection" /\ SelectionNext
          /\ UNCHANGED <<vars, saltedVars, hashVars, rwVars, listVars>>

UnitSpec == UnitInit /\ [][UnitNext]_unitVars
=============================================================================
