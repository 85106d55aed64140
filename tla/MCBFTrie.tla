------------------------------ MODULE MCBFTrie ------------------------------
(***************************************************************************)
(* Small instances of BFTrie.  A signature is a pair of a filter and a     *)
(* copy number, so that TLC tries every choice of filters.                 *)
(***************************************************************************)
EXTENDS BFTrie, TLC

CONSTANTS
    Contents,   \* filters of the signatures
    Copies      \* how many signatures have the same filter

MCMeta == Contents \X Copies
MCData == [m \in MCMeta |-> m[1]]

AllFilters == SUBSET Bits
\* A filter without zeros is left to a run of its own.
Unsaturated == AllFilters \ {Bits}

\* The client deletes signatures of one filter only.
DeleteFar == {m \in MCMeta : m[1] = {0, 1}}

\* Threads of a kind are interchangeable, and so are signatures of one filter.
Twins == Permutations(Inserters) \cup Permutations(Searchers) \cup Permutations(Copies)

\* One call at a time: each starts when the one before it has returned.
OneCallNext ==
    \/ \E i \in Inserters : InserterStep(i) \/ \E m \in Meta : Idle /\ Insert2(i, m)
    \/ \E s \in Searchers : SearcherStep(s) \/ \E q \in Queries : Idle /\ Search(s, q)
    \/ \E m \in Meta : Idle /\ ClientDelete(m)
    \/ Rest

OneCallSpec == Init /\ [][OneCallNext]_vars
=============================================================================
