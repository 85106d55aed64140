------------------------------ MODULE Benchmark ------------------------------
(***************************************************************************)
(* The benchmark of test_trie_tree.cpp on the list index: threads that     *)
(* share TOTAL signatures out, first to generate them, then to insert      *)
(* them, then to insert or search until all is done or the time is over.   *)
(***************************************************************************)
EXTENDS ListIndex, PrefixBloom

CONSTANTS
    threadnum,
    TOTAL,
    Choices,   \* what the random numbers can make of one index of the arrays
    WorkTicks  \* bound: times main looks at doneThread, workTime * 10

BenchRegion == "Random"
BenchFindRegion == "RandomFind"

ASSUME BenchmarkAssumption ==
    /\ threadnum \in Nat \ {0}
    /\ TOTAL \in Nat /\ TOTAL >= threadnum
    /\ Thread = 0 .. threadnum - 1
    /\ WorkTicks \in Nat
    /\ \A c \in Choices :
        /\ {c.insert, c.query} \subseteq Generated(BenchRegion, TOTAL)
        /\ c.remove \in Generated(BenchFindRegion, TOTAL)
        /\ c.inserts \in BOOLEAN

VARIABLES
    drawn,            \* insertQueries, queries, removeQuery, and mixPara[i] < indexInsertRatio
    written,          \* history: how often an index was generated
    next_thread_id,
    stage,            \* where main is
    id,               \* id[t]: thread_id, and attributes->threadId
    next,             \* next[t]: i
    step,             \* step[t]: where t is in its thread function
    workDone,
    doneThread,
    ticks             \* rounds of the loop in which main waits

benchVars == <<drawn, written, next_thread_id, stage, id, next, step,
               workDone, doneThread, ticks>>

vars == <<indexVars, benchVars>>

Index == 0 .. TOTAL - 1

\* memset to 0
Zeros == [keys |-> {}, data |-> {}]

Signature(meta) == IF meta < TOTAL THEN drawn[meta].insert ELSE drawn[meta - TOTAL].query

Data == [meta \in 0 .. 2 * TOTAL - 1 |-> Signature(meta).data]

-----------------------------------------------------------------------------
(* The shares *)

perThread == TOTAL \div threadnum
Start(i) == i * perThread

\* Mutant: the last thread has no rest.
EndEven(i) == (i + 1) * perThread

End(i) == IF i = threadnum - 1 THEN TOTAL ELSE (i + 1) * perThread

Init ==
    /\ IndexInit
    /\ removedQuery = [t \in Thread |-> << >>]
    /\ drawn = [i \in Index |->
                  [insert |-> Zeros, query |-> Zeros, remove |-> Zeros, inserts |-> FALSE]]
    /\ written = [i \in Index |-> 0]
    /\ next_thread_id = 0
    /\ stage = "generate"
    /\ id = [t \in Thread |-> 0]
    /\ next = [t \in Thread |-> 0]
    /\ step = [t \in Thread |-> "start"]
    /\ workDone = FALSE
    /\ doneThread = 0
    /\ ticks = 0

GoTo(t, s) == step' = [step EXCEPT ![t] = s]
Advance(t) == next' = [next EXCEPT ![t] = @ + 1] /\ GoTo(t, "loop")

-----------------------------------------------------------------------------
(* init_func *)

TakeId(t) ==
    /\ stage = "generate" /\ step[t] = "start"
    /\ id' = [id EXCEPT ![t] = next_thread_id]
    /\ next' = [next EXCEPT ![t] = Start(next_thread_id)]
    /\ next_thread_id' = next_thread_id + 1
    /\ GoTo(t, "loop")
    /\ UNCHANGED <<indexVars, drawn, written, stage, workDone, doneThread, ticks>>

Generate(t) ==
    /\ stage = "generate" /\ step[t] = "loop"
    /\ next[t] < End(id[t])
    /\ \E c \in Choices : drawn' = [drawn EXCEPT ![next[t]] = c]
    /\ written' = [written EXCEPT ![next[t]] = @ + 1]
    /\ Advance(t)
    /\ UNCHANGED <<indexVars, next_thread_id, stage, id, workDone, doneThread, ticks>>

-----------------------------------------------------------------------------
(* testInsert and testMix *)

\* The list of removed signatures is of testMix.
Enter(t) ==
    /\ stage # "generate" /\ step[t] = "start"
    /\ removedQuery' =
         IF stage = "insert" THEN removedQuery
         ELSE [removedQuery EXCEPT ![t] = ArraylistCreate(End(id[t]) - Start(id[t]))]
    /\ next' = [next EXCEPT ![t] = Start(id[t])]
    /\ GoTo(t, "loop")
    /\ UNCHANGED <<m_list, readers, writers, sym, at, pos, drawn, written, next_thread_id,
                   stage, id, workDone, doneThread, ticks>>

Turn(t) ==
    /\ stage # "generate" /\ step[t] = "loop"
    /\ next[t] < End(id[t])
    /\ stage = "insert" \/ ~workDone
    /\ GoTo(t, IF stage = "insert" THEN "insert"
               ELSE IF drawn[next[t]].inserts THEN "insert_more" ELSE "search")
    /\ UNCHANGED <<indexVars, drawn, written, next_thread_id, stage, id, next, workDone,
                   doneThread, ticks>>

Called(t) == IF step[t] = "insert" THEN next[t] ELSE next[t] + TOTAL

\* An access of a call, whose last one is the release of the lock.
Call(t) ==
    /\ \/ step[t] \in {"insert", "insert_more"} /\ Insert2(t, Called(t))
       \/ step[t] = "search" /\ Search(t, drawn[next[t]].remove.data, Data)
    /\ IF at[t] = "unlock" THEN Advance(t) ELSE UNCHANGED <<next, step>>
    /\ UNCHANGED <<drawn, written, next_thread_id, stage, id, workDone, doneThread, ticks>>

\* fetch_add of testMix, in which the list of removed signatures ends too.
Leave(t) ==
    /\ step[t] = "loop"
    /\ next[t] >= End(id[t]) \/ (workDone /\ stage \in {"mix", "join"})
    /\ GoTo(t, "left")
    /\ doneThread' = IF stage \in {"mix", "join"} THEN doneThread + 1 ELSE doneThread
    /\ UNCHANGED <<indexVars, drawn, written, next_thread_id, stage, id, next, workDone, ticks>>

Worker(t) == TakeId(t) \/ Generate(t) \/ Enter(t) \/ Turn(t) \/ Call(t) \/ Leave(t)

-----------------------------------------------------------------------------
(* test *)

AllLeft == \A t \in Thread : step[t] = "left"

\* The threads of a stage have been joined and those of the next one start.
NextStage(old, new) ==
    /\ stage = old /\ AllLeft
    /\ stage' = new
    /\ id' = [t \in Thread |-> t]
    /\ step' = [t \in Thread |-> "start"]
    /\ UNCHANGED <<indexVars, drawn, written, next_thread_id, next, workDone, doneThread, ticks>>

Wait ==
    /\ stage = "mix"
    /\ ticks < WorkTicks /\ doneThread # threadnum
    /\ ticks' = ticks + 1
    /\ UNCHANGED <<indexVars, drawn, written, next_thread_id, stage, id, next, step, workDone,
                   doneThread>>

StopWork ==
    /\ stage = "mix"
    /\ ticks = WorkTicks \/ doneThread = threadnum
    /\ workDone' = TRUE
    /\ stage' = "join"
    /\ UNCHANGED <<indexVars, drawn, written, next_thread_id, id, next, step, doneThread, ticks>>

Finish ==
    /\ stage = "join" /\ AllLeft
    /\ stage' = "done"
    /\ UNCHANGED <<indexVars, drawn, written, next_thread_id, id, next, step, workDone,
                   doneThread, ticks>>

Main == NextStage("generate", "insert") \/ NextStage("insert", "mix") \/ Wait \/ StopWork \/ Finish

Next == Main \/ \E t \in Thread : Worker(t)

\* The scheduler runs every thread again and again.  No lock is starved for ever,
\* because every thread makes a bounded number of calls.
Spec ==
    /\ Init /\ [][Next]_vars
    /\ WF_vars(Main)
    /\ \A t \in Thread : WF_vars(Worker(t))

-----------------------------------------------------------------------------
(* Properties *)

Times(meta) == Cardinality({k \in DOMAIN m_list : m_list[k] = meta})

\* The shares of init_func, which are taken in any order, and those of testInsert
\* and testMix leave nothing out and overlap nowhere: the signatures of phase one
\* have been generated and inserted once each when phase two begins, and none is
\* inserted twice in it.
OncePerSignature ==
    stage \in {"mix", "join", "done"} =>
        /\ \A i \in Index : written[i] = 1 /\ Times(i) = 1
        /\ \A i \in Index : Times(i + TOTAL) <= 1

\* A search for a key leaves no valid signature behind in whose range it is,
\* although it compares nothing but bits, and although other searches mark
\* signatures of the same list at the same time and insertions wait for it.
RangesOfKeyInvalidated ==
    \A t \in Thread :
        t \in readers /\ at[t] = "unlock" =>
            \A k \in DOMAIN m_list :
                Signature(m_list[k]).keys \intersect drawn[next[t]].remove.keys # {}
                    => m_list[k] \in sym

\* What was invalidated is in somebody's list, or about to be put there: the sum
\* of the sizes that main prints counts each at least once.  One thread never
\* reports a signature twice, however often its list has grown.
InvalidatedAreReported ==
    /\ stage \in {"mix", "join", "done"} =>
            \A t \in Thread : step[t] # "start" =>
                /\ ~removedQuery[t].fault
                /\ Cardinality(Reported(t)) = ArraylistGetsize(removedQuery[t])
                /\ Reported(t) \subseteq sym
    /\ \A meta \in sym : \E t \in Thread :
            \/ step[t] # "start" /\ stage # "insert" /\ meta \in Reported(t)
            \/ at[t] = "report" /\ m_list[pos[t]] = meta

\* The benchmark ends: no thread waits for ever for the lock, for main or for
\* another thread.
TestEnds == <>(stage = "done")
=============================================================================
