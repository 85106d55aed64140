------------------------------- MODULE RwLock -------------------------------
(***************************************************************************)
(* my_rwlock of Tool/bloom.c: a word in which bit 0 is the writer's and    *)
(* every reader has the bit of its threadID.  The word is the set of its   *)
(* '1' bits; each read of *lock and each __sync operation is a step.  No   *)
(* code of the repository takes this lock, so the threads use it in all    *)
(* roles.                                                                  *)
(***************************************************************************)
EXTENDS Integers, FiniteSets

CONSTANT RwThread     \* threads, by their threadID

ASSUME RwLockAssumption == RwThread \subseteq 0 .. 63

VARIABLES
    word,     \* *lock
    role,     \* what a thread takes the lock for
    pc,       \* where a thread is
    old_v     \* old_v

rwVars == <<word, role, pc, old_v>>

Role == {"reader", "writer", "trywriter"}

\* longlong_mask
longlong_mask(t) == t

RwInit ==
    /\ word = {}                               \* my_rwlock_init
    /\ role \in [RwThread -> Role]
    /\ pc = [t \in RwThread |-> "idle"]
    /\ old_v = [t \in RwThread |-> {}]

Goto(t, label) == pc' = [pc EXCEPT ![t] = label]

-----------------------------------------------------------------------------
(* my_rwlock_rdlock *)

\* while (*lock & 1)
RdWait(t) ==
    /\ pc[t] = "idle"
    /\ role[t] = "reader"
    /\ 0 \notin word
    /\ Goto(t, "rd_read")
    /\ UNCHANGED <<word, role, old_v>>

RdRead(t) ==
    /\ pc[t] = "rd_read"
    /\ old_v' = [old_v EXCEPT ![t] = word]
    /\ Goto(t, "rd_or")
    /\ UNCHANGED <<word, role>>

\* The word may have changed in between; the reader's bit stays and it tries again.
RdOr(t) ==
    /\ pc[t] = "rd_or"
    /\ word' = word \union {longlong_mask(t)}
    /\ Goto(t, IF word = old_v[t] THEN "held" ELSE "idle")
    /\ UNCHANGED <<role, old_v>>

-----------------------------------------------------------------------------
(* my_rwlock_wrlock and my_rwlock_trywrlock *)

\* while (*lock)
WrWait(t) ==
    /\ pc[t] = "idle"
    /\ role[t] = "writer"
    /\ word = {}
    /\ Goto(t, "wr_or")
    /\ UNCHANGED <<word, role, old_v>>

\* Mutant: the word that was there is not looked at.
WrOrBlind(t) ==
    /\ pc[t] = "wr_or"
    /\ word' = word \union {0}
    /\ Goto(t, "held")
    /\ UNCHANGED <<role, old_v>>

WrOr(t) ==
    /\ pc[t] = "wr_or"
    /\ word' = word \union {0}
    /\ Goto(t, IF word = {} THEN "held" ELSE "idle")
    /\ UNCHANGED <<role, old_v>>

\* Returns -1 if the lock is taken.
TryWait(t) ==
    /\ pc[t] = "idle"
    /\ role[t] = "trywriter"
    /\ word = {}
    /\ Goto(t, "try_and")
    /\ UNCHANGED <<word, role, old_v>>

\* The fetch_and leaves bit 0 as it was.
TryAnd(t) ==
    /\ pc[t] = "try_and"
    /\ word' = word \intersect {0}
    /\ Goto(t, IF word = {} THEN "held" ELSE "idle")
    /\ UNCHANGED <<role, old_v>>

-----------------------------------------------------------------------------
(* my_rwlock_unlock *)

UnlockTest(t) ==
    /\ pc[t] = "held"
    /\ Goto(t, IF word = {0} THEN "un_zero" ELSE "un_read")
    /\ UNCHANGED <<word, role, old_v>>

UnlockZero(t) ==
    /\ pc[t] = "un_zero"
    /\ word' = {}
    /\ Goto(t, "idle")
    /\ UNCHANGED <<role, old_v>>

UnlockRead(t) ==
    /\ pc[t] = "un_read"
    /\ old_v' = [old_v EXCEPT ![t] = word]
    /\ Goto(t, "un_and")
    /\ UNCHANGED <<word, role>>

\* The bit is gone after the first try; the loop ends when nothing changed meanwhile.
UnlockAnd(t) ==
    /\ pc[t] = "un_and"
    /\ word' = word \ {longlong_mask(t)}
    /\ Goto(t, IF word = old_v[t] THEN "idle" ELSE "un_read")
    /\ UNCHANGED <<role, old_v>>

RwNext ==
    \E t \in RwThread :
        \/ RdWait(t) \/ RdRead(t) \/ RdOr(t)
        \/ WrWait(t) \/ WrOr(t)
        \/ TryWait(t) \/ TryAnd(t)
        \/ UnlockTest(t) \/ UnlockZero(t) \/ UnlockRead(t) \/ UnlockAnd(t)

RwSpec == RwInit /\ [][RwNext]_rwVars

-----------------------------------------------------------------------------
(* Properties *)

\* Between the return of a lock and the call of the unlock, or inside the unlock
\* before the word has changed.
Holds(t) == pc[t] \in {"held", "un_zero"}

\* As long as all threads are writers that wait, or all are readers with a
\* threadID other than 0, the lock does what its name says: one writer at a time
\* and bit 0 set while it is in; a reader's bit set while it is in, and bit 0 never.
\* With both roles neither holds: a reader enters when the writer's bit is set
\* between its two reads of the word, and a writer does not clear bit 0 unless
\* the word is 1.
LockOfOneRole ==
    /\ (\A t \in RwThread : role[t] = "writer") =>
            \A t \in RwThread :
                Holds(t) => word = {0} /\ \A u \in RwThread : Holds(u) => u = t
    /\ (\A t \in RwThread : role[t] = "reader" /\ t # 0) =>
            /\ 0 \notin word
            /\ \A t \in RwThread : Holds(t) => longlong_mask(t) \in word
=============================================================================
