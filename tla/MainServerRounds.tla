-------------------------- MODULE MainServerRounds --------------------------
(***************************************************************************)
(* The game threads of MainServer.cpp.  In every round the main thread     *)
(* resets the two atomics, raises workerThreadsWorkVersion_ and wakes the  *)
(* workers; the workers claim actors from workIndex_ until none is left,   *)
(* and the one that brings workingThreadCount_ to zero wakes the main      *)
(* thread.                                                                 *)
(*                                                                         *)
(* A block under a mutex is one step.  A condition variable is the set of  *)
(* the threads that sleep on it: to test the predicate and to fall asleep  *)
(* is one step, because the mutex is held, and a sleeper that is notified  *)
(* (or wakes spuriously) tests again.  The relaxed atomics are sequentially *)
(* consistent here.                                                        *)
(***************************************************************************)
EXTENDS Integers, FiniteSets

CONSTANTS Workers,       \* workerThreads_
          NumActors,     \* actors registered before Run is called
          VersionModulus \* 2^32 in the code: the range of uint32_t

WorkerThreadsCount == Cardinality(Workers)
RunQueue == 0..(NumActors - 1)

ASSUME RoundsAssumption ==
    /\ IsFiniteSet(Workers) /\ Workers # {}
    /\ NumActors \in Nat
    /\ VersionModulus \in Nat /\ VersionModulus > 1

VARIABLES
    mainPc,                   \* the statement the main thread is about to run
    workingThreadCount,       \* workingThreadCount_
    workIndex,                \* workIndex_
    workerThreadsWorkVersion, \* workerThreadsWorkVersion_
    mainThreadShouldWakeup,   \* mainThreadShouldWakeup_
    pc,                       \* the statement each worker is about to run
    desiredVersion,           \* the local variable of each worker
    claimed                   \* the local workIndex of each worker

mainVars   == <<mainPc, mainThreadShouldWakeup>>
atomicVars == <<workingThreadCount, workIndex>>
workerVars == <<pc, desiredVersion, claimed>>
vars == <<mainVars, atomicVars, workerThreadsWorkVersion, workerVars>>

MainPcs == {"storeCount", "storeIndex", "bumpVersion", "notifyAll",
            "wait", "asleep"}
WorkerPcs == {"wait", "asleep", "fetchIndex", "run", "fetchSub", "signal"}

Succ(v) == (v + 1) % VersionModulus     \* ++ on a uint32_t

Init ==
    /\ mainPc = "storeCount"
    /\ workingThreadCount = WorkerThreadsCount
    /\ workIndex = 0
    /\ workerThreadsWorkVersion = 0
    /\ mainThreadShouldWakeup = FALSE
    /\ pc = [w \in Workers |-> "wait"]
    /\ desiredVersion = [w \in Workers |-> Succ(0)]
    /\ claimed = [w \in Workers |-> 0]

-----------------------------------------------------------------------------
(* The main thread: MainServer::Run.                                       *)

MainStep(from, to) == mainPc = from /\ mainPc' = to

\* Mutant: the counter is not set again for the new round.
StoreCountForgotten ==
    /\ MainStep("storeCount", "storeIndex")
    /\ UNCHANGED <<mainThreadShouldWakeup, atomicVars, workerThreadsWorkVersion,
                   workerVars>>

StoreCount ==
    /\ MainStep("storeCount", "storeIndex")
    /\ workingThreadCount' = WorkerThreadsCount
    /\ UNCHANGED <<mainThreadShouldWakeup, workIndex, workerThreadsWorkVersion,
                   workerVars>>

StoreIndex ==
    /\ MainStep("storeIndex", "bumpVersion")
    /\ workIndex' = 0
    /\ UNCHANGED <<mainThreadShouldWakeup, workingThreadCount,
                   workerThreadsWorkVersion, workerVars>>

BumpVersion ==
    /\ MainStep("bumpVersion", "notifyAll")
    /\ workerThreadsWorkVersion' = Succ(workerThreadsWorkVersion)
    /\ UNCHANGED <<mainThreadShouldWakeup, atomicVars, workerVars>>

\* Mutant: notify_one, which wakes one of the sleepers.
NotifyOne ==
    /\ MainStep("notifyAll", "wait")
    /\ IF \E w \in Workers : pc[w] = "asleep"
       THEN \E w \in Workers : /\ pc[w] = "asleep"
                               /\ pc' = [pc EXCEPT ![w] = "wait"]
       ELSE UNCHANGED pc
    /\ UNCHANGED <<mainThreadShouldWakeup, atomicVars, workerThreadsWorkVersion,
                   desiredVersion, claimed>>

\* workerThreadsWakeupConditionVariable_.notify_all, without the mutex.
NotifyAll ==
    /\ MainStep("notifyAll", "wait")
    /\ pc' = [w \in Workers |-> IF pc[w] = "asleep" THEN "wait" ELSE pc[w]]
    /\ UNCHANGED <<mainThreadShouldWakeup, atomicVars, workerThreadsWorkVersion,
                   desiredVersion, claimed>>

\* Mutant: the flag stays TRUE when the main thread has seen it.
MainWaitKeepsFlag ==
    /\ mainPc = "wait"
    /\ mainPc' = IF mainThreadShouldWakeup THEN "storeCount" ELSE "asleep"
    /\ UNCHANGED <<mainThreadShouldWakeup, atomicVars, workerThreadsWorkVersion,
                   workerVars>>

\* mainThreadWakeupConditionVariable_.wait, and the pause of 16 ms after it.
MainWait ==
    /\ mainPc = "wait"
    /\ mainPc' = IF mainThreadShouldWakeup THEN "storeCount" ELSE "asleep"
    /\ mainThreadShouldWakeup' = FALSE
    /\ UNCHANGED <<atomicVars, workerThreadsWorkVersion, workerVars>>

MainThread == StoreCount \/ StoreIndex \/ BumpVersion \/ NotifyAll \/ MainWait

-----------------------------------------------------------------------------
(* A worker: MainServer::WorkerThreadBody.                                 *)

WorkerStep(w, from, to) == pc[w] = from /\ pc' = [pc EXCEPT ![w] = to]

WorkerWait(w) ==
    /\ WorkerStep(w, "wait",
                  IF workerThreadsWorkVersion = desiredVersion[w]
                  THEN "fetchIndex" ELSE "asleep")
    /\ UNCHANGED <<mainVars, atomicVars, workerThreadsWorkVersion,
                   desiredVersion, claimed>>

\* Mutant: a load and a store instead of fetch_add: an increment can be lost.
FetchIndexNotAtomic(w) ==
    /\ WorkerStep(w, "fetchIndex",
                  IF workIndex < NumActors THEN "run" ELSE "fetchSub")
    /\ claimed' = [claimed EXCEPT ![w] = workIndex]
    /\ workIndex' \in {workIndex, workIndex + 1}
    /\ UNCHANGED <<mainVars, workingThreadCount, workerThreadsWorkVersion,
                   desiredVersion>>

\* workIndex_.fetch_add, and ActorRegistry->Get, whose table is constant here.
FetchIndex(w) ==
    /\ WorkerStep(w, "fetchIndex",
                  IF workIndex < NumActors THEN "run" ELSE "fetchSub")
    /\ claimed' = [claimed EXCEPT ![w] = workIndex]
    /\ workIndex' = workIndex + 1
    /\ UNCHANGED <<mainVars, workingThreadCount, workerThreadsWorkVersion,
                   desiredVersion>>

\* actor->Run() returns.
RunActor(w) ==
    /\ WorkerStep(w, "run", "fetchIndex")
    /\ UNCHANGED <<mainVars, atomicVars, workerThreadsWorkVersion,
                   desiredVersion, claimed>>

\* Mutant: the test is off by one, and the last but one signals the main thread.
FetchSubOffByOne(w) ==
    /\ WorkerStep(w, "fetchSub",
                  IF workingThreadCount = 2 THEN "signal" ELSE "wait")
    /\ workingThreadCount' = workingThreadCount - 1
    /\ desiredVersion' = [desiredVersion EXCEPT ![w] =
            IF workingThreadCount = 2 THEN @ ELSE Succ(@)]
    /\ UNCHANGED <<mainVars, workIndex, workerThreadsWorkVersion, claimed>>

\* workingThreadCount_.fetch_sub.  A worker that is not the last one raises
\* its desiredVersion and waits for the next round.
FetchSub(w) ==
    /\ WorkerStep(w, "fetchSub",
                  IF workingThreadCount = 1 THEN "signal" ELSE "wait")
    /\ workingThreadCount' = workingThreadCount - 1
    /\ desiredVersion' = [desiredVersion EXCEPT ![w] =
            IF workingThreadCount = 1 THEN @ ELSE Succ(@)]
    /\ UNCHANGED <<mainVars, workIndex, workerThreadsWorkVersion, claimed>>

\* Mutant: the flag is set and nobody is notified.
SignalWithoutNotify(w) ==
    /\ WorkerStep(w, "signal", "wait")
    /\ mainThreadShouldWakeup' = TRUE
    /\ desiredVersion' = [desiredVersion EXCEPT ![w] = Succ(@)]
    /\ UNCHANGED <<mainPc, atomicVars, workerThreadsWorkVersion, claimed>>

\* The last worker, under mainThreadShouldWakeupMutex_.
Signal(w) ==
    /\ WorkerStep(w, "signal", "wait")
    /\ mainThreadShouldWakeup' = TRUE
    /\ mainPc' = IF mainPc = "asleep" THEN "wait" ELSE mainPc
    /\ desiredVersion' = [desiredVersion EXCEPT ![w] = Succ(@)]
    /\ UNCHANGED <<atomicVars, workerThreadsWorkVersion, claimed>>

Worker(w) == WorkerWait(w) \/ FetchIndex(w) \/ RunActor(w) \/ FetchSub(w)
             \/ Signal(w)

-----------------------------------------------------------------------------
\* A condition variable may wake a sleeper without a notification.
SpuriousWakeup ==
    /\ \/ MainStep("asleep", "wait") /\ UNCHANGED pc
       \/ /\ \E w \in Workers : WorkerStep(w, "asleep", "wait")
          /\ UNCHANGED mainPc
    /\ UNCHANGED <<mainThreadShouldWakeup, atomicVars, workerThreadsWorkVersion,
                   desiredVersion, claimed>>

Next == MainThread \/ SpuriousWakeup \/ \E w \in Workers : Worker(w)

Spec == Init /\ [][Next]_vars

(* The operating system runs every thread, and every Actor::Run returns.   *)
(* Nobody may count on a spurious wakeup.                                  *)
Fairness == WF_vars(MainThread) /\ \A w \in Workers : WF_vars(Worker(w))

FairSpec == Spec /\ Fairness
-----------------------------------------------------------------------------
(* Properties.                                                             *)

\* The counter never wraps below zero, and workIndex_ stays far from 2^32:
\* each worker reads past the end of the run queue once per round.
\* MainServer.cpp: lines 55, 56, 96 and 100.
TypeOK ==
    /\ mainPc \in MainPcs
    /\ workingThreadCount \in 0..WorkerThreadsCount
    /\ workIndex \in 0..(NumActors + WorkerThreadsCount)
    /\ workerThreadsWorkVersion \in 0..(VersionModulus - 1)
    /\ mainThreadShouldWakeup \in BOOLEAN
    /\ pc \in [Workers -> WorkerPcs]
    /\ desiredVersion \in [Workers -> 0..(VersionModulus - 1)]
    /\ claimed \in [Workers -> Nat]

(* The refinement.                                                         *)
Running == {w \in Workers : pc[w] = "run"}
running == {claimed[w] : w \in Running}
done    == {a \in RunQueue : a < workIndex /\ a \notin running}

Rounds == INSTANCE ActorRounds WITH running <- running, done <- done

\* The main thread never starts a round over the previous one, and the claims
\* of the workers never collide or skip: every actor runs exactly once per
\* round, in one thread.  MainServer.cpp: Run and WorkerThreadBody.
ImplementsActorRounds == Rounds!Spec

\* No two workers are inside the Run of one actor; `running` alone, a set,
\* would not show it.  MainServer.cpp:96-111.
ActorRunsInOneThread ==
    \A v, w \in Running : claimed[v] = claimed[w] => v = w

\* A worker waits for the present version or for the next one: the predicate
\* is an equality, so one that fell a round behind would never wake again.
\* MainServer.cpp:90 and 107.
NoWorkerFallsBehind ==
    \A w \in Workers :
        desiredVersion[w] \in {workerThreadsWorkVersion,
                               Succ(workerThreadsWorkVersion)}

\* Nobody sleeps through what it waits for: a worker that sleeps while its
\* version is there is about to be notified, and the main thread never sleeps
\* with its flag set.  MainServer.cpp:57-72, 86-91 and 102-104.
NoLostWakeup ==
    /\ \A w \in Workers :
          pc[w] = "asleep" /\ desiredVersion[w] = workerThreadsWorkVersion
          => mainPc = "notifyAll"
    /\ mainPc = "asleep" => ~mainThreadShouldWakeup

\* Every actor runs again and again: the two condition variables never leave
\* main thread and workers waiting for each other.  MainServer.cpp:53-114.
EveryActorRunsForever == \A a \in RunQueue : []<>(a \in running)
=============================================================================
