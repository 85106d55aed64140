----------------------------- MODULE MCTrieTree -----------------------------
(***************************************************************************)
(* Small instances of TrieTree: filters of two bytes with one or two bits. *)
(***************************************************************************)
EXTENDS TrieTree, TLC

CONSTANTS
    Contents,   \* filters of the signatures
    Copies      \* how many signatures have the same filter

MCMeta == Contents \X Copies
MCData == [m \in MCMeta |-> m[1]]

\* A bit in the second byte; a bit in each byte.
Second == {<<2, 0>>}
Both == {<<1, 0>>, <<2, 0>>}
MCContents == {Second, Both}
MCQueries == {Second, Both}

\* Threads of a kind are interchangeable, and so are signatures of one filter.
Twins == Permutations(Inserters) \cup Permutations(Searchers) \cup Permutations(Copies)
=============================================================================
