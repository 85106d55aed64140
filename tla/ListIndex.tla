------------------------------ MODULE ListIndex ------------------------------
(***************************************************************************)
(* The index of test_list.h (USE_LIST), to which the others are compared:  *)
(* a vector of all signatures behind one pthread_rwlock, scanned from the  *)
(* front by every search.  One action per access to shared memory; meta    *)
(* and the query are the arguments of the call that is in progress.        *)
(*                                                                         *)
(* Timestamps are left out: no program of the repository sets them in the  *)
(* D-method, and their comparison always succeeds.                         *)
(***************************************************************************)
EXTENDS Arraylist, FiniteSets

CONSTANT Thread

VARIABLES
    m_list,         \* the vector
    readers,        \* m_lock: threads that hold it for reading
    writers,        \* m_lock: threads that hold it for writing
    sym,            \* signatures with INVALID_FLAG
    at,             \* at[t]: where t is in a call
    pos,            \* pos[t]: element the loop of t has reached
    removedQuery    \* removedQuery[t]: the list a search of t fills

indexVars == <<m_list, readers, writers, sym, at, pos, removedQuery>>

IndexInit ==
    /\ m_list = << >>
    /\ readers = {}
    /\ writers = {}
    /\ sym = {}
    /\ at = [t \in Thread |-> "out"]
    /\ pos = [t \in Thread |-> 0]

-----------------------------------------------------------------------------
(* Insert2 *)

WriteLock(t) ==
    /\ at[t] = "out"
    /\ readers = {} /\ writers = {}
    /\ writers' = {t}
    /\ at' = [at EXCEPT ![t] = "push"]
    /\ UNCHANGED <<m_list, readers, sym, pos, removedQuery>>

PushBack(t, meta) ==
    /\ at[t] = "push"
    /\ m_list' = Append(m_list, meta)
    /\ at' = [at EXCEPT ![t] = "unlock"]
    /\ UNCHANGED <<readers, writers, sym, pos, removedQuery>>

-----------------------------------------------------------------------------
(* Search *)

ReadLock(t) ==
    /\ at[t] = "out"
    /\ writers = {}
    /\ readers' = readers \union {t}
    /\ at' = [at EXCEPT ![t] = "scan"]
    /\ pos' = [pos EXCEPT ![t] = 1]
    /\ UNCHANGED <<m_list, writers, sym, removedQuery>>

\* Mutant: the signature in the query, as under INVERSE_INDEX.
MatchesInverse(query, data) == data \subseteq query

Matches(query, data) == query \subseteq data

\* An element is compared and its sym read.
Visit(t, query, data) ==
    /\ at[t] = "scan"
    /\ pos[t] <= Len(m_list)
    /\ LET found == Matches(query, data[m_list[pos[t]]]) /\ m_list[pos[t]] \notin sym
       IN  /\ at' = [at EXCEPT ![t] = IF found THEN "mark" ELSE "scan"]
           /\ pos' = [pos EXCEPT ![t] = IF found THEN @ ELSE @ + 1]
    /\ UNCHANGED <<m_list, readers, writers, sym, removedQuery>>

\* Another search may have done the same in between.
Mark(t) ==
    /\ at[t] = "mark"
    /\ sym' = sym \union {m_list[pos[t]]}
    /\ at' = [at EXCEPT ![t] = "report"]
    /\ UNCHANGED <<m_list, readers, writers, pos, removedQuery>>

Report(t) ==
    /\ at[t] = "report"
    /\ removedQuery' = [removedQuery EXCEPT ![t] = ArraylistAdd(@, m_list[pos[t]])]
    /\ pos' = [pos EXCEPT ![t] = @ + 1]
    /\ at' = [at EXCEPT ![t] = "scan"]
    /\ UNCHANGED <<m_list, readers, writers, sym>>

EndOfList(t) ==
    /\ at[t] = "scan"
    /\ pos[t] > Len(m_list)
    /\ at' = [at EXCEPT ![t] = "unlock"]
    /\ UNCHANGED <<m_list, readers, writers, sym, pos, removedQuery>>

-----------------------------------------------------------------------------

\* Mutant: a search forgets the lock.
UnlockWriter(t) ==
    /\ at[t] = "unlock"
    /\ writers' = writers \ {t}
    /\ at' = [at EXCEPT ![t] = "out"]
    /\ UNCHANGED <<m_list, readers, sym, pos, removedQuery>>

\* pthread_rwlock_unlock, whatever the lock is held for
Unlock(t) ==
    /\ at[t] = "unlock"
    /\ readers' = readers \ {t}
    /\ writers' = writers \ {t}
    /\ at' = [at EXCEPT ![t] = "out"]
    /\ UNCHANGED <<m_list, sym, pos, removedQuery>>

Insert2(t, meta) == WriteLock(t) \/ PushBack(t, meta) \/ Unlock(t)

Search(t, query, data) ==
    ReadLock(t) \/ Visit(t, query, data) \/ Mark(t) \/ Report(t) \/ EndOfList(t) \/ Unlock(t)

\* The signatures in a list, and those another search is about to put there.
Reported(t) == {ArraylistGet(removedQuery[t], i) : i \in Places(ArraylistGetsize(removedQuery[t]))}
=============================================================================
