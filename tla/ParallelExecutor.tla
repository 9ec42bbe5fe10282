--------------------------- MODULE ParallelExecutor ---------------------------
(***************************************************************************)
(* ParallelExecutor.h: one caller hands work to a fixed set of threads     *)
(* through a flag per thread, and waits until every flag is down again.    *)
(* A wait on a flag reads it and, while it has the old value, sleeps until *)
(* a notify_one on that flag; who stores a flag notifies in a later step.  *)
(* ParallelForWorkerThreads is left out: its constraint takes its two      *)
(* parameters in the wrong order, so that no call of it compiles.          *)
(***************************************************************************)
EXTENDS Naturals, FiniteSets, Sequences

CONSTANTS WorkerThreadCount,
          ChunkSizes,       \* bound: the chunk sizes of the calls
          AxisCounts,       \* bound: getAxis has this many axes, from 0 on
          Resultless,       \* bound: the indices whose task has no result
          IndexModulus,     \* 2^32
          MaxCalls          \* bound: calls of ParallelFor

\* No chunk size is 0, with which no thread ever gets beyond index 0, and the
\* index that the threads share does not wrap around.
ASSUME ParallelAssumption ==
    /\ WorkerThreadCount \in Nat \ {0} /\ MaxCalls \in Nat
    /\ ChunkSizes \subseteq Nat \ {0} /\ AxisCounts \subseteq Nat
    /\ IndexModulus \in Nat
    /\ \A chunk \in ChunkSizes, axes \in AxisCounts :
           axes + (WorkerThreadCount + 1) * chunk < IndexModulus

Threads == 0..WorkerThreadCount - 1
Indices == UNION {0..axes - 1 : axes \in AxisCounts \ {0}}

VARIABLES
    callerPc,
    thread,         \* the loop variable of the caller
    calls,
    chunkSize, axisCount,   \* of the call
    work,           \* work_: "nothing" or "for"
    workingFlag, shouldStop,
    claimIndex,     \* workIndex_
    threadPc,
    index, workEnd, \* locals of work_
    page,           \* the result pages; those of earlier calls stay in them
    elementCount,
    runs,           \* how often the call has run the task for each index
    returned,       \* what the caller finds in the ExecutionResults
    sleepers,       \* the threads that sleep in the wait for their flag
    callerSleeps,   \* the caller does, on the flag of `thread`
    raised,         \* the flag the caller has raised and not yet notified
    lowered         \* the threads that have lowered theirs and not yet notified

callVars == <<calls, chunkSize, axisCount>>
workerVars == <<index, workEnd, page, elementCount, runs>>
flowVars == <<callerPc, thread, callVars, work, workingFlag, shouldStop,
              claimIndex, threadPc, workerVars, returned>>
waitVars == <<sleepers, callerSleeps, raised, lowered>>
executorVars == <<flowVars, waitVars>>

ExecutorInit ==
    /\ callerPc = "construct" /\ thread = 0
    /\ calls = 0 /\ chunkSize = 0 /\ axisCount = 0
    /\ work = "nothing"
    /\ workingFlag = [t \in Threads |-> FALSE]
    /\ shouldStop = FALSE /\ claimIndex = 0
    /\ threadPc = [t \in Threads |-> "unstarted"]
    /\ index = [t \in Threads |-> 0] /\ workEnd = [t \in Threads |-> 0]
    /\ page = [t \in Threads |-> <<>>]
    /\ elementCount = [t \in Threads |-> 0]
    /\ runs = [i \in Indices |-> 0]
    /\ returned = <<>>
    /\ sleepers = {} /\ callerSleeps = FALSE /\ raised = {} /\ lowered = {}

GotoThread(t, label) == threadPc' = [threadPc EXCEPT ![t] = label]

\* The caller's loop over the threads goes on, or ends at `label`.
NextThread(label) ==
    /\ thread' = (thread + 1) % WorkerThreadCount
    /\ callerPc' = IF thread + 1 = WorkerThreadCount THEN label ELSE callerPc

-----------------------------------------------------------------------------
(* The caller.                                                             *)

\* The constructor starts one thread after the other ...
Start ==
    /\ callerPc = "construct"
    /\ workingFlag' = [workingFlag EXCEPT ![thread] = TRUE]
    /\ GotoThread(thread, "loop")
    /\ callerPc' = "constructed"
    /\ UNCHANGED <<thread, callVars, work, shouldStop, claimIndex, workerVars,
                   returned, waitVars>>

\* ... and waits until it has run the work that does nothing.
Started ==
    /\ callerPc = "constructed" /\ ~workingFlag[thread]
    /\ thread' = (thread + 1) % WorkerThreadCount
    /\ callerPc' = IF thread + 1 = WorkerThreadCount THEN "ready"
                   ELSE "construct"
    /\ UNCHANGED <<callVars, work, workingFlag, shouldStop, claimIndex,
                   threadPc, workerVars, returned, waitVars>>

ParallelFor(chunk, axes) ==
    /\ callerPc = "ready" /\ calls < MaxCalls
    /\ callerPc' = "launch"
    /\ calls' = calls + 1 /\ chunkSize' = chunk /\ axisCount' = axes
    /\ work' = "for" /\ claimIndex' = 0
    /\ runs' = [i \in Indices |-> 0] /\ returned' = <<>>
    /\ UNCHANGED <<thread, workingFlag, shouldStop, threadPc, index, workEnd,
                   page, elementCount, waitVars>>

\* Mutant: ElementCount keeps the results of the call before.
LaunchWithOldResults ==
    /\ callerPc = "launch"
    /\ workingFlag' = [workingFlag EXCEPT ![thread] = TRUE]
    /\ raised' = {thread}
    /\ NextThread("await")
    /\ UNCHANGED <<callVars, work, shouldStop, claimIndex, threadPc,
                   workerVars, returned, sleepers, callerSleeps, lowered>>

\* Each thread gets its flag.
Launch ==
    /\ callerPc = "launch"
    /\ elementCount' = [elementCount EXCEPT ![thread] = 0]
    /\ workingFlag' = [workingFlag EXCEPT ![thread] = TRUE]
    /\ raised' = {thread}
    /\ NextThread("await")
    /\ UNCHANGED <<callVars, work, shouldStop, claimIndex, threadPc, index,
                   workEnd, page, runs, returned, sleepers, callerSleeps,
                   lowered>>

\* The elements an iteration over the ExecutionResults meets: thread by thread.
Elements ==
    LET upTo[t \in 0..WorkerThreadCount] ==
            IF t = 0 THEN <<>>
            ELSE upTo[t - 1] \o SubSeq(page[t - 1], 1, elementCount[t - 1])
    IN upTo[WorkerThreadCount]

\* Mutant: the caller does not wait for the last thread.
AwaitAllButLast ==
    /\ callerPc = "await"
    /\ thread + 1 = WorkerThreadCount \/ ~workingFlag[thread]
    /\ NextThread("ready")
    /\ returned' = IF callerPc' = "ready" THEN Elements ELSE returned
    /\ UNCHANGED <<callVars, work, workingFlag, shouldStop, claimIndex,
                   threadPc, workerVars, waitVars>>

\* The caller waits for each flag in turn, and has the results.
Await ==
    /\ callerPc = "await" /\ ~workingFlag[thread]
    /\ NextThread("ready")
    /\ returned' = IF callerPc' = "ready" THEN Elements ELSE returned
    /\ UNCHANGED <<callVars, work, workingFlag, shouldStop, claimIndex,
                   threadPc, workerVars, waitVars>>

\* The destructor: shouldStop_, an empty work_, ...
Destruct ==
    /\ callerPc = "ready" /\ calls = MaxCalls
    /\ callerPc' = "stop"
    /\ shouldStop' = TRUE /\ work' = "nothing"
    /\ UNCHANGED <<thread, callVars, workingFlag, claimIndex, threadPc,
                   workerVars, returned, waitVars>>

\* ... and for each thread its flag ...
Stop ==
    /\ callerPc = "stop"
    /\ workingFlag' = [workingFlag EXCEPT ![thread] = TRUE]
    /\ raised' = {thread}
    /\ callerPc' = "join"
    /\ UNCHANGED <<thread, callVars, work, shouldStop, claimIndex, threadPc,
                   workerVars, returned, sleepers, callerSleeps, lowered>>

\* ... and its end.
Join ==
    /\ callerPc = "join"
    /\ threadPc[thread] = "exited" /\ thread \notin lowered
    /\ thread' = (thread + 1) % WorkerThreadCount
    /\ callerPc' = IF thread + 1 = WorkerThreadCount THEN "destroyed"
                   ELSE "stop"
    /\ UNCHANGED <<callVars, work, workingFlag, shouldStop, claimIndex,
                   threadPc, workerVars, returned, waitVars>>

-----------------------------------------------------------------------------
(* WorkerThreadBody.                                                       *)

\* The loop is left: the flag goes down once more.
Exit(t) ==
    /\ GotoThread(t, "exited")
    /\ workingFlag' = [workingFlag EXCEPT ![t] = FALSE]
    /\ lowered' = lowered \cup {t}

\* The test of the loop.
Loop(t) ==
    /\ threadPc[t] = "loop"
    /\ IF shouldStop
       THEN Exit(t)
       ELSE GotoThread(t, "wait") /\ UNCHANGED <<workingFlag, lowered>>
    /\ UNCHANGED <<callerPc, thread, callVars, work, shouldStop, claimIndex,
                   workerVars, returned, sleepers, callerSleeps, raised>>

\* The wait finds the flag raised.
Wait(t) ==
    /\ threadPc[t] = "wait" /\ workingFlag[t]
    /\ GotoThread(t, "check")
    /\ UNCHANGED <<callerPc, thread, callVars, work, workingFlag, shouldStop,
                   claimIndex, workerVars, returned, waitVars>>

\* The second test, and the call of work_.
Check(t) ==
    /\ threadPc[t] = "check"
    /\ IF shouldStop
       THEN Exit(t)
       ELSE /\ GotoThread(t, IF work = "for" THEN "claim" ELSE "finish")
            /\ UNCHANGED <<workingFlag, lowered>>
    /\ UNCHANGED <<callerPc, thread, callVars, work, shouldStop, claimIndex,
                   workerVars, returned, sleepers, callerSleeps, raised>>

\* fetch_add gives the old value, which is taken for the end of the chunk: the
\* first claim, whose beginning underflows, is empty.
Claim(t) ==
    /\ threadPc[t] = "claim"
    /\ workEnd' = [workEnd EXCEPT ![t] = claimIndex]
    /\ index' = [index EXCEPT ![t] = IF claimIndex < chunkSize THEN claimIndex
                                     ELSE claimIndex - chunkSize]
    /\ claimIndex' = (claimIndex + chunkSize) % IndexModulus
    /\ GotoThread(t, "run")
    /\ UNCHANGED <<callerPc, thread, callVars, work, workingFlag, shouldStop,
                   page, elementCount, runs, returned, waitVars>>

\* One index; at the first one without an axis the thread is done.
RunTask(t) ==
    /\ threadPc[t] = "run" /\ index[t] < workEnd[t]
    /\ \/ /\ index[t] >= axisCount
          /\ GotoThread(t, "finish")
          /\ UNCHANGED workerVars
       \/ /\ index[t] < axisCount
          /\ runs' = [runs EXCEPT ![index[t]] = @ + 1]
          /\ index' = [index EXCEPT ![t] = @ + 1]
          /\ \/ /\ index[t] \in Resultless
                /\ UNCHANGED <<page, elementCount>>
             \/ /\ index[t] \notin Resultless
                /\ page' = [page EXCEPT ![t] =
                       SubSeq(@, 1, elementCount[t]) \o <<index[t]>>
                       \o SubSeq(@, elementCount[t] + 2, Len(@))]
                /\ elementCount' = [elementCount EXCEPT ![t] = @ + 1]
          /\ UNCHANGED <<threadPc, workEnd>>
    /\ UNCHANGED <<callerPc, thread, callVars, work, workingFlag, shouldStop,
                   claimIndex, returned, waitVars>>

ChunkDone(t) ==
    /\ threadPc[t] = "run" /\ index[t] >= workEnd[t]
    /\ GotoThread(t, "claim")
    /\ UNCHANGED <<callerPc, thread, callVars, work, workingFlag, shouldStop,
                   claimIndex, workerVars, returned, waitVars>>

\* Mutant: without its notify_one.
FinishSilently(t) ==
    /\ threadPc[t] = "finish"
    /\ workingFlag' = [workingFlag EXCEPT ![t] = FALSE]
    /\ GotoThread(t, "loop")
    /\ UNCHANGED <<callerPc, thread, callVars, work, shouldStop, claimIndex,
                   workerVars, returned, waitVars>>

\* The flag goes down.
Finish(t) ==
    /\ threadPc[t] = "finish"
    /\ workingFlag' = [workingFlag EXCEPT ![t] = FALSE]
    /\ lowered' = lowered \cup {t}
    /\ GotoThread(t, "loop")
    /\ UNCHANGED <<callerPc, thread, callVars, work, shouldStop, claimIndex,
                   workerVars, returned, sleepers, callerSleeps, raised>>

-----------------------------------------------------------------------------
(* The waits on a flag and their notify_one.                               *)

\* A wait that finds the old value sleeps, ...
ThreadSleeps(t) ==
    /\ threadPc[t] = "wait" /\ ~workingFlag[t]
    /\ sleepers' = sleepers \cup {t}
    /\ UNCHANGED <<flowVars, callerSleeps, raised, lowered>>

CallerSleeps ==
    /\ callerPc \in {"constructed", "await"} /\ workingFlag[thread]
    /\ callerSleeps' = TRUE
    /\ UNCHANGED <<flowVars, sleepers, raised, lowered>>

\* ... until it is notified on that flag, when it reads the flag again.
CallerNotifies ==
    /\ raised # {} /\ raised' = {}
    /\ sleepers' = sleepers \ raised
    /\ UNCHANGED <<flowVars, callerSleeps, lowered>>

ThreadNotifies(t) ==
    /\ t \in lowered /\ lowered' = lowered \ {t}
    /\ callerSleeps' = (callerSleeps /\ thread # t)
    /\ UNCHANGED <<flowVars, sleepers, raised>>

CallerFlow == Start \/ Started \/ Launch \/ Await \/ Destruct \/ Stop \/ Join
ThreadFlow(t) == \/ Loop(t) \/ Wait(t) \/ Check(t) \/ Claim(t) \/ RunTask(t)
                 \/ ChunkDone(t) \/ Finish(t)

\* Who sleeps, or has a flag to notify, does nothing else.
CallerStep ==
    \/ /\ raised = {} /\ ~callerSleeps
       /\ CallerFlow \/ CallerSleeps
    \/ CallerNotifies
Worker(t) ==
    \/ /\ t \notin sleepers \cup lowered
       /\ ThreadFlow(t) \/ ThreadSleeps(t)
    \/ ThreadNotifies(t)

AnyCall == \E chunk \in ChunkSizes, axes \in AxisCounts :
               ParallelFor(chunk, axes)

Destroyed == callerPc = "destroyed" /\ UNCHANGED executorVars

ExecutorNext == CallerStep \/ AnyCall \/ (\E t \in Threads : Worker(t))
                \/ Destroyed

ExecutorFairness == /\ WF_executorVars(CallerStep)
                    /\ \A t \in Threads : WF_executorVars(Worker(t))
ExecutorSpec == ExecutorInit /\ [][ExecutorNext]_executorVars
ExecutorFairSpec == ExecutorSpec /\ ExecutorFairness

-----------------------------------------------------------------------------
(* Properties.                                                             *)

\* ParallelFor runs the task once for each axis and returns the results of this
\* call, whatever thread claims which chunk (ParallelExecutor.h:286-325).
HasResults == callerPc \notin {"launch", "await"} /\ calls > 0
Barrier == INSTANCE ForkJoin
    WITH running <- callerPc \in {"launch", "await"},
         todo <- {i \in 0..axisCount - 1 : runs[i] = 0},
         results <- IF HasResults THEN {returned[k] : k \in DOMAIN returned}
                    ELSE {}
ImplementsForkJoin == Barrier!Spec

\* No index is run twice, and no result is lost or of an earlier call.
ResultsAreExact ==
    /\ \A i \in Indices : runs[i] =< 1
    /\ HasResults =>
         /\ Len(returned) = Cardinality((0..axisCount - 1) \ Resultless)
         /\ {returned[k] : k \in DOMAIN returned} = (0..axisCount - 1) \ Resultless

\* Every call returns and the destructor ends: nobody sleeps on a flag that has
\* changed without a notify_one to come, whether the other has stored it before
\* or after he looked (ParallelExecutor.h:238-256, 313-321, 362-380).
CallReturns == /\ callerPc = "launch" ~> callerPc = "ready"
               /\ callerPc = "stop" ~> callerPc = "destroyed"
=============================================================================
