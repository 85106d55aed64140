--------------------------- MODULE SignatureIndex ---------------------------
(***************************************************************************)
(* What the index of Readme.md:55-60 promises its clients in the D-method: *)
(* it holds signatures; a search hands over, each at most once, signatures *)
(* that include the query and were in the index at some time while it ran,  *)
(* and when it ends every such signature that was there when it began has  *)
(* been handed over to somebody or deleted.  Nothing is said of slots,     *)
(* nodes, locks or threads inside the index.                               *)
(***************************************************************************)
EXTENDS Integers, Sequences, FiniteSets, SequencesExt

CONSTANTS
    Meta,       \* the signatures (QueryMetaTrieTree)
    Data,       \* Data[m]: the '1' bits of m's Bloom filter
    Queries,    \* the filters that are searched for
    Searchers   \* the threads that search

VARIABLES
    stored,        \* signatures a search can still find
    used,          \* signatures given to the index so far: each is given once
    asking,        \* asking[s]: the query s is searching for
    searching,     \* the threads inside a search
    owed,          \* owed[s]: what must be gone from the index when s ends
    seen,          \* seen[s]: what was in the index at some time since s began
    removedQuery   \* removedQuery[s]: the list s has been handed

vars == <<stored, used, asking, searching, owed, seen, removedQuery>>

Init ==
    /\ stored = {}
    /\ used = {}
    /\ asking = [s \in Searchers |-> {}]
    /\ searching = {}
    /\ owed = [s \in Searchers |-> {}]
    /\ seen = [s \in Searchers |-> {}]
    /\ removedQuery = [s \in Searchers |-> <<>>]

Insert(m) ==
    /\ m \notin used
    /\ used' = used \cup {m}
    /\ stored' = stored \cup {m}
    /\ seen' = [s \in Searchers |-> IF s \in searching THEN seen[s] \cup {m} ELSE {}]
    /\ UNCHANGED <<asking, searching, owed, removedQuery>>

\* The client deletes a signature: no later search reports it.
Delete(m) ==
    /\ m \in stored
    /\ stored' = stored \ {m}
    /\ UNCHANGED <<used, asking, searching, owed, seen, removedQuery>>

Begin(s, q) ==
    /\ s \notin searching
    /\ searching' = searching \cup {s}
    /\ asking' = [asking EXCEPT ![s] = q]
    /\ owed' = [owed EXCEPT ![s] = {m \in stored : q \subseteq Data[m]}]
    /\ seen' = [seen EXCEPT ![s] = stored]
    /\ UNCHANGED <<stored, used, removedQuery>>

\* What a step adds to the list of s.
Added(s) == SubSeq(removedQuery'[s], Len(removedQuery[s]) + 1, Len(removedQuery'[s]))

\* A running search hands over some signatures, each of them for the first time.
\* It may report what came after it began, and may overtake a deletion that came
\* after it began.
Report(s) ==
    LET batch == Added(s)
    IN  /\ s \in searching
        /\ batch # <<>> /\ IsInjective(batch)
        /\ removedQuery' = [removedQuery EXCEPT ![s] = @ \o batch]
        /\ \A m \in ToSet(batch) :
              /\ m \in seen[s]
              /\ asking[s] \subseteq Data[m]
              /\ \A t \in Searchers : m \notin ToSet(removedQuery[t])
        /\ stored' = stored \ ToSet(batch)
        /\ UNCHANGED <<used, asking, searching, owed, seen>>

End(s) ==
    /\ s \in searching
    /\ owed[s] \cap stored = {}
    /\ searching' = searching \ {s}
    /\ asking' = [asking EXCEPT ![s] = {}]
    /\ owed' = [owed EXCEPT ![s] = {}]
    /\ seen' = [seen EXCEPT ![s] = {}]
    /\ UNCHANGED <<stored, used, removedQuery>>

Next ==
    \/ \E m \in Meta : Insert(m) \/ Delete(m)
    \/ \E s \in Searchers :
          \/ \E q \in Queries : Begin(s, q)
          \/ Report(s)
          \/ End(s)

Spec == Init /\ [][Next]_vars
=============================================================================
