---------------------------- MODULE ArraylistUse ----------------------------
(***************************************************************************)
(* A list of Tool/Arraylist.c in the hands of one thread, beside the       *)
(* sequence it stands for.                                                 *)
(***************************************************************************)
EXTENDS Arraylist

CONSTANTS
    Elem,          \* pointers
    Capacities,    \* initial capacities
    MaxListCalls   \* bound: operations in a behaviour

ASSUME ArraylistAssumption ==
    /\ Capacities \subseteq 0 .. SizeRange - 1
    /\ MaxListCalls \in Nat
    /\ 2 * MaxListCalls <= SizeRange      \* memory ends before size_t does

VARIABLES
    list,        \* the list
    contents,    \* history: what it stands for
    regular,     \* history: created with a capacity, not destroyed, and nothing
                 \* removed from it when it was empty
    listCalls    \* operations done

listVars == <<list, contents, regular, listCalls>>

ListInit ==
    /\ \E c \in Capacities : list = ArraylistCreate(c) /\ regular = (c # 0)
    /\ contents = << >>
    /\ listCalls = 0

ListCall == ~list.fault /\ listCalls < MaxListCalls /\ listCalls' = listCalls + 1

Put(elem) ==
    /\ ListCall
    /\ list' = ArraylistAdd(list, elem)
    /\ contents' = Append(contents, elem)
    /\ UNCHANGED regular

Without(s, index) ==
    IF index \in Places(Len(s))
    THEN SubSeq(s, 1, index) \o SubSeq(s, index + 2, Len(s))
    ELSE s

\* contents is not followed any further behind a removal from an empty list.
Delete(index) ==
    /\ ListCall
    /\ list' = ArraylistRemove(list, index)
    /\ contents' = Without(contents, index)
    /\ regular' = (regular /\ list.size # 0)

Clear ==
    /\ ListCall
    /\ list' = ArraylistClear(list)
    /\ contents' = << >>
    /\ UNCHANGED regular

Destroy ==
    /\ ListCall
    /\ list' = ArraylistDestroy(list)
    /\ contents' = << >>
    /\ regular' = FALSE

ListNext ==
    \/ \E elem \in Elem : Put(elem)
    \/ \E index \in -1 .. MaxListCalls : Delete(index)
    \/ Clear
    \/ Destroy

ListSpec == ListInit /\ [][ListNext]_listVars

-----------------------------------------------------------------------------
(* Properties *)

\* A regular list is the sequence of what was added and not removed, with a free
\* place behind it: nothing is lost or doubled when the array grows or elements
\* move up, no place outside the array is written, and none is read that was not
\* written, for any capacity but 0 (whose array never grows) and as long as nothing
\* is removed from an empty list.
ListIsSequence ==
    regular =>
        /\ ~list.fault
        /\ DOMAIN list.data = Places(list.capacity)
        /\ list.size = Len(contents)
        /\ list.size < list.capacity
        /\ \A i \in Places(list.size) : ArraylistGet(list, i) = contents[i + 1]
=============================================================================
