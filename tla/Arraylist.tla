------------------------------ MODULE Arraylist ------------------------------
(***************************************************************************)
(* The list of Tool/Arraylist.c, in which searches return the signatures   *)
(* they have invalidated: an array of capacity places that is doubled, and *)
(* a size_t that wraps.  The operations are functions of the list.         *)
(***************************************************************************)
EXTENDS Integers, Sequences

CONSTANTS
    SizeRange,   \* values of size_t
    NULL,
    Junk         \* memory that was never written

ASSUME SizeRangeAssumption == SizeRange \in Nat \ {0}

Places(n) == 0 .. n - 1

\* data is what malloc has returned; fault: a place outside it was accessed.
List(capacity, size, data, fault) ==
    [capacity |-> capacity, size |-> size, data |-> data, fault |-> fault]

\* Outside the array nothing that belongs to it changes.
Write(data, i, x) == IF i \in DOMAIN data THEN [data EXCEPT ![i] = x] ELSE data

\* data[0] is written even if there is no place for it.
ArraylistCreate(initCapacity) ==
    List(initCapacity, 0,
         [i \in Places(initCapacity) |-> IF i = 0 THEN NULL ELSE Junk],
         initCapacity = 0)

\* Mutant: the last place is used too, and the list grows too late.
HasRoomLate(list) == list.size <= list.capacity

\* One place is always left free; capacity - 1 wraps.
HasRoom(list) == list.size < (list.capacity - 1) % SizeRange

\* The larger array, with what was in use of the old one.
Grown(list) ==
    [i \in Places(2 * list.capacity) |->
        IF i \in Places(list.size) \intersect DOMAIN list.data THEN list.data[i] ELSE Junk]

ArraylistAdd(list, elem) ==
    LET grows == ~HasRoom(list)
        data == IF grows THEN Grown(list) ELSE list.data
        capacity == IF grows THEN 2 * list.capacity ELSE list.capacity
    IN  List(capacity, (list.size + 1) % SizeRange, Write(data, list.size, elem),
             list.fault \/ list.size \notin DOMAIN data)

ArraylistGet(list, index) == list.data[index]
ArraylistGetsize(list) == list.size

\* The first place that holds elem, or -1.
ArraylistGetindex(list, elem) ==
    LET found == {i \in Places(list.size) : ArraylistGet(list, i) = elem}
    IN  IF found = {} THEN -1 ELSE CHOOSE i \in found : \A j \in found : i <= j

ArraylistClear(list) ==
    List(list.capacity, 0, [i \in Places(list.capacity) |-> NULL],
         list.fault \/ DOMAIN list.data # Places(list.capacity))

\* index is an int that is compared with a size_t: a negative one is huge, and
\* size - 1 is the largest one of an empty list.
ArraylistRemove(list, index) ==
    IF index % SizeRange > (list.size - 1) % SizeRange
    THEN list
    ELSE IF list.size = 1
    THEN ArraylistClear(list)
    ELSE List(list.capacity, (list.size - 1) % SizeRange,
              [i \in DOMAIN list.data |->
                IF i \notin index .. list.size - 1 THEN list.data[i]
                ELSE IF i = list.size - 1 \/ i + 1 \notin DOMAIN list.data THEN NULL
                ELSE list.data[i + 1]],
              list.fault \/ ~(index .. list.size - 1 \subseteq DOMAIN list.data))

\* The capacity stays.
ArraylistDestroy(list) == List(list.capacity, 0, << >>, list.fault)
=============================================================================
