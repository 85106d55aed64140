----------------------------- MODULE MCBFTrieV -----------------------------
(***************************************************************************)
(* Small instances of BFTrieV.  A signature is a pair of a filter and a    *)
(* copy number; signatures of one filter have one queryId, and its bits    *)
(* are those of the filter, so that lines 468-469 find them equal.         *)
(***************************************************************************)
EXTENDS BFTrieV

CONSTANTS
    Contents,   \* filters of the signatures
    Copies      \* how many signatures have the same filter

MCMeta == Contents \X Copies
MCData == [m \in MCMeta |-> m[1]]
MCQueryId == [m \in MCMeta |-> m[1]]
=============================================================================
