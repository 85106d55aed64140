------------------------------ MODULE MCATree ------------------------------
(***************************************************************************)
(* Small instances of ATree.  A signature is named by the set of its zeros *)
(* and, where two have the same, by a number.                              *)
(***************************************************************************)
EXTENDS ATree, TLC

CONSTANTS
    Contents    \* the signatures: pairs of zeros and number

MCData == [m \in Contents |-> Bits \ m[1]]

\* Two with the same zeros, and others that share some or all of them.
Overlapping == {<<{0, 1, 2}, 1>>, <<{1, 2}, 1>>, <<{1, 2}, 2>>, <<{0, 1}, 1>>}

\* All bits are zeros; all but the first.
MCQueries == {{}, {0}}
=============================================================================
