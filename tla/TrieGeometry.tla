---------------------------- MODULE TrieGeometry ----------------------------
(***************************************************************************)
(* The shape of a BF-Trie: which slot of a node a bit position falls into, *)
(* and which position a child node stands for.  A Bloom filter is the set  *)
(* of its '1' bits.  The trie branches on the '0' bits (INVERSE_ZERO, set  *)
(* unconditionally at test_bf_trie.h:61): a filter included in another one *)
(* has a superset of the other's zeros.                                    *)
(*                                                                         *)
(* The code walks an ascending array of zero positions with an index.      *)
(* Here the walk is the set of positions not yet consumed, and the next    *)
(* one is its lowest element.                                              *)
(***************************************************************************)
EXTENDS Integers, FiniteSets

CONSTANTS
    BloomSize,  \* Bloom_size: number of bits of a filter
    MaxFout     \* MAX_FOUT: number of slots, and of children, of a node

ASSUME GeometryAssumption ==
    /\ BloomSize \in Nat \ {0}
    /\ MaxFout \in Nat \ {0}

Bits == 0 .. BloomSize - 1
Slot == 0 .. MaxFout - 1
TailSlot == MaxFout - 1

\* PosNan: the position of the root, before every bit.
PosNan == -1

\* getPosition: the zero bits of a filter.
Zeros(filter) == Bits \ filter

\* position[pos_i]: the first position that is left.
Lowest(S) == CHOOSE x \in S : \A y \in S : x <= y

\* The slot of a node at position pos that a zero at p > pos belongs to.
SlotOf(pos, p) == IF p - pos - 1 < MaxFout THEN p - pos - 1 ELSE TailSlot

\* Mutant: the loop ends before the tail slot, once it has scanned another.
SlotsBeforeTail(pos, rem) ==
    LET slots == {SlotOf(pos, p) : p \in rem}
    IN  IF slots = {TailSlot} THEN slots ELSE slots \ {TailSlot}

\* The loop of SearchPtrList, which ends behind the tail slot.
SlotsOf(pos, rem) == {SlotOf(pos, p) : p \in rem}

\* Mutant: the child is placed one position too far.
ChildPosPast(pos, i) == pos + i + 2

\* The position given to the child created in slot i.
ChildPos(pos, i) == pos + i + 1

\* p has a child slot of its own; the zeros further away share the tail.
IsNear(pos, p) == p - pos - 1 < MaxFout

\* (q & d) == q: what a D-method search looks for.
Includes(d, q) == q \subseteq d
=============================================================================
