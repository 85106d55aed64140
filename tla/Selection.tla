------------------------------ MODULE Selection ------------------------------
(***************************************************************************)
(* FindMid of Tool/Tools.c: the elements are sorted in groups of five, the *)
(* median of each group goes to the front, and FindMid continues with the  *)
(* medians.  A step is a group or a call.  The last group has one to six   *)
(* elements.                                                               *)
(***************************************************************************)
EXTENDS Integers, FiniteSets

CONSTANTS
    Value,       \* elements
    Bounds       \* calls: pairs of l and r

ASSUME SelectionAssumption ==
    /\ Value \subseteq Int
    /\ \A b \in Bounds : b \in Nat \X Nat /\ b[1] <= b[2]

VARIABLES
    a,          \* the array
    input,      \* history: the array of the first call
    call,       \* history: l and r of the first call
    l, r,       \* the arguments
    i, n,       \* the locals
    share,      \* history: doubled by each call that leaves more than one element
    where       \* where it is

selectionVars == <<a, input, call, l, r, i, n, share, where>>

-----------------------------------------------------------------------------
(* InsertSort *)

\* The round of the outer loop for element k: larger ones to its left, as far as
\* the first that is not larger, move up by one.
Inserted(array, from, k) ==
    LET stays == {j \in from .. k - 1 : array[j] <= array[k]}
        to == IF stays = {} THEN from
              ELSE (CHOOSE j \in stays : \A m \in stays : m <= j) + 1
    IN  [j \in DOMAIN array |->
            IF j \notin to .. k THEN array[j]
            ELSE IF j = to THEN array[k] ELSE array[j - 1]]

InsertSort(array, from, to) ==
    LET sorted[k \in from .. to] ==
            IF k = from THEN array ELSE Inserted(sorted[k - 1], from, k)
    IN  sorted[to]

\* Mutant: what was in front is not put back.
SwapLost(array, j, k) == [array EXCEPT ![j] = array[k]]

Swap(array, j, k) == [array EXCEPT ![j] = array[k], ![k] = array[j]]

-----------------------------------------------------------------------------
(* FindMid *)

SelectionInit ==
    /\ \E b \in Bounds :
        /\ call = b
        /\ l = b[1]
        /\ r = b[2]
        /\ input \in [0 .. b[2] -> Value]
    /\ a = input
    /\ i = 0
    /\ n = 0
    /\ share = 1
    /\ where = "call"

\* FindMid returns l at once if there is one element.
Enter ==
    /\ where = "call"
    /\ where' = IF l = r THEN "end" ELSE "groups"
    /\ i' = l
    /\ n' = 0
    /\ UNCHANGED <<a, input, call, l, r, share>>

Group ==
    /\ where = "groups"
    /\ i < r - 5
    /\ n' = i - l
    /\ a' = Swap(InsertSort(a, i, i + 4), l + n' \div 5, i + 2)
    /\ i' = i + 5
    /\ UNCHANGED <<input, call, l, r, share, where>>

\* What is left, and the call for the medians: n counts them less one, and is
\* compared with the index l.
Rest ==
    LET num == r - i + 1
        last == (i - l) \div 5
    IN  /\ where = "groups"
        /\ i >= r - 5
        /\ a' = Swap(InsertSort(a, i, i + num - 1), l + last, i + num \div 2)
        /\ n' = last
        /\ share' = 2 * share
        /\ IF last = l
           THEN where' = "end" /\ UNCHANGED r
           ELSE where' = "call" /\ r' = l + last
        /\ UNCHANGED <<input, call, l, i>>

SelectionNext == Enter \/ Group \/ Rest

SelectionSpec == SelectionInit /\ [][SelectionNext]_selectionVars

-----------------------------------------------------------------------------
(* Properties *)

Occurrences(array, v) == Cardinality({j \in DOMAIN array : array[j] = v})

\* The elements are only moved, and only between l and r.  What is returned is no
\* small element: each pass over the medians halves what is known of it, so that of
\* a call with l = 0 at least the share 1 / 2^passes of all is not larger.  It can
\* be the largest one, because of two elements FindMid takes the larger, and with
\* another l it can be the median of the first group alone.
MovedAndNotSmall ==
    /\ \A v \in Value : Occurrences(a, v) = Occurrences(input, v)
    /\ \A j \in DOMAIN a : j < call[1] => a[j] = input[j]
    /\ where = "end" /\ call[1] = 0 =>
            share * Cardinality({j \in 0 .. call[2] : a[j] <= a[l]}) >= call[2] + 1
=============================================================================
