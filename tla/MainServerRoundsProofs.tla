------------------------ MODULE MainServerRoundsProofs ------------------------
(***************************************************************************)
(* Proofs about MainServerRounds for any number of workers and actors and  *)
(* any range of the version counter.                                       *)
(*                                                                         *)
(* The argument counts.  While a round is open, workingThreadCount_ is the *)
(* number of workers that still owe their fetch_sub; it is zero exactly    *)
(* when the main thread may be told, so that the round closes only when    *)
(* every worker has read past the end of the run queue.                    *)
(***************************************************************************)
EXTENDS MainServerRounds, FiniteSetTheorems, TLAPS

USE RoundsAssumption

\* The main thread has raised the version and has not seen the end yet.
Open == mainPc \in {"notifyAll", "wait", "asleep"}

\* The workers that have not called fetch_sub in this round.
Owing == {w \in Workers : desiredVersion[w] = workerThreadsWorkVersion
                          /\ pc[w] # "signal"}

\* The workers that have read past the end of the run queue in this round.
Past == {w \in Workers : desiredVersion[w] # workerThreadsWorkVersion
                         \/ pc[w] \in {"fetchSub", "signal"}}

\* Every worker is in the present round or waits for the next one.
PaceInv ==
    /\ NoWorkerFallsBehind
    /\ \A w \in Workers : desiredVersion[w] # workerThreadsWorkVersion
                          => pc[w] \in {"wait", "asleep"}
    /\ ~Open => \A w \in Workers : desiredVersion[w] # workerThreadsWorkVersion

CountInv ==
    /\ Open => workingThreadCount = Cardinality(Owing)
    /\ mainPc \in {"storeIndex", "bumpVersion"}
       => workingThreadCount = WorkerThreadsCount

\* The main thread is told once per round, when the count is zero.
SignalInv ==
    /\ \A v, w \in Workers : pc[v] = "signal" /\ pc[w] = "signal" => v = w
    /\ \A w \in Workers : pc[w] = "signal"
          => workingThreadCount = 0 /\ ~mainThreadShouldWakeup
    /\ mainThreadShouldWakeup => Open /\ workingThreadCount = 0

IndexInv ==
    /\ Open => workIndex =< NumActors + Cardinality(Past)
    /\ Open => Past = {} \/ workIndex >= NumActors
    /\ mainPc \in {"storeCount", "storeIndex"}
       => workIndex = 0 \/ workIndex >= NumActors
    /\ mainPc = "bumpVersion" => workIndex = 0

ClaimInv ==
    /\ \A w \in Running : claimed[w] < NumActors /\ claimed[w] < workIndex
    /\ ActorRunsInOneThread

\* The inductive invariant.
IInv == TypeOK /\ PaceInv /\ CountInv /\ SignalInv /\ IndexInv /\ ClaimInv
        /\ NoLostWakeup

-----------------------------------------------------------------------------
(* Lemmas.                                                                 *)

\* The number of threads is a positive natural number.
LEMMA ThreadsCount ==
    /\ WorkerThreadsCount \in Nat /\ WorkerThreadsCount > 0
    /\ \A S \in SUBSET Workers : /\ IsFiniteSet(S) /\ Cardinality(S) \in Nat
                                 /\ Cardinality(S) =< WorkerThreadsCount
  BY FS_CardinalityType, FS_EmptySet, FS_Subset DEF WorkerThreadsCount

\* The next version is a version, and a different one.
LEMMA SuccType ==
    ASSUME NEW v \in 0..(VersionModulus - 1)
    PROVE  Succ(v) \in 0..(VersionModulus - 1) /\ Succ(v) # v
  BY DEF Succ

\* Steps that leave the workers alone leave the two sets alone.
LEMMA SameSets ==
    ASSUME UNCHANGED <<pc, desiredVersion, workerThreadsWorkVersion>>
    PROVE  Owing' = Owing /\ Past' = Past /\ Running' = Running
  BY DEF Owing, Past, Running

-----------------------------------------------------------------------------
(* The invariant: initial states and stuttering.                           *)

LEMMA InitInv == Init => IInv
  <1> SUFFICES ASSUME Init PROVE IInv
      OBVIOUS
  <1> USE DEF Init
  <1>1. /\ 0 \in 0..(VersionModulus - 1)
        /\ Succ(0) \in 0..(VersionModulus - 1)
      BY SuccType
  <1>2. TypeOK
    <2>1. /\ workingThreadCount \in 0..WorkerThreadsCount
          /\ workIndex \in 0..(NumActors + WorkerThreadsCount)
        BY ThreadsCount
    <2>2. /\ pc \in [Workers -> WorkerPcs]
          /\ desiredVersion \in [Workers -> 0..(VersionModulus - 1)]
          /\ claimed \in [Workers -> Nat]
        BY <1>1 DEF WorkerPcs
    <2> QED BY <2>1, <2>2, <1>1 DEF TypeOK, MainPcs
  <1>3. PaceInv
      BY <1>1, SuccType DEF PaceInv, NoWorkerFallsBehind
  <1>4. CountInv /\ SignalInv /\ IndexInv
      BY DEF CountInv, SignalInv, IndexInv, Open
  <1>5. ClaimInv /\ NoLostWakeup
      BY DEF ClaimInv, ActorRunsInOneThread, Running, NoLostWakeup
  <1> QED BY <1>2, <1>3, <1>4, <1>5 DEF IInv

LEMMA StutterInv ==
    ASSUME IInv, UNCHANGED vars
    PROVE  IInv'
  <1> USE DEF IInv, vars, mainVars, atomicVars, workerVars
  <1>1. TypeOK' /\ PaceInv'
      BY DEF TypeOK, PaceInv, NoWorkerFallsBehind, Open
  <1>2. CountInv' /\ IndexInv'
      BY SameSets DEF CountInv, IndexInv, Open
  <1>3. SignalInv'
      BY DEF SignalInv, Open
  <1>4. ClaimInv' /\ NoLostWakeup'
      BY SameSets DEF ClaimInv, ActorRunsInOneThread, NoLostWakeup
  <1> QED BY <1>1, <1>2, <1>3, <1>4

-----------------------------------------------------------------------------
(* The main thread.                                                        *)

LEMMA StoreInv ==
    ASSUME IInv, StoreCount \/ StoreIndex
    PROVE  IInv'
  <1> USE DEF IInv, mainVars, atomicVars, workerVars, StoreCount, StoreIndex,
              MainStep
  <1>1. /\ mainPc \in {"storeCount", "storeIndex"}
        /\ mainPc' \in {"storeIndex", "bumpVersion"}
        /\ UNCHANGED <<workerThreadsWorkVersion, workerVars,
                       mainThreadShouldWakeup>>
      OBVIOUS
  <1>2. TypeOK'
      BY ThreadsCount DEF TypeOK, MainPcs
  <1>3. PaceInv'
      BY <1>1 DEF PaceInv, NoWorkerFallsBehind, Open
  <1>4. CountInv' /\ IndexInv'
      BY <1>1 DEF CountInv, IndexInv, Open
  <1>5. \A w \in Workers : pc[w] \in {"wait", "asleep"}
      BY <1>1 DEF PaceInv, Open
  <1>6. SignalInv' /\ ClaimInv'
      BY <1>1, <1>5 DEF SignalInv, ClaimInv, ActorRunsInOneThread, Running, Open
  <1>7. NoLostWakeup'
      BY <1>1 DEF NoLostWakeup, PaceInv, Open
  <1> QED BY <1>2, <1>3, <1>4, <1>6, <1>7

\* A round opens: every worker owes a fetch_sub and none is past the end.
LEMMA BumpVersionInv ==
    ASSUME IInv, BumpVersion
    PROVE  IInv'
  <1> USE DEF IInv, mainVars, atomicVars, workerVars, BumpVersion, MainStep
  <1>1. \A w \in Workers : /\ pc[w] \in {"wait", "asleep"}
                           /\ desiredVersion[w] = workerThreadsWorkVersion'
      BY DEF PaceInv, NoWorkerFallsBehind, Open
  <1>2. Owing' = Workers /\ Past' = {} /\ Running' = {}
      BY <1>1 DEF Owing, Past, Running
  <1>3. TypeOK'
      BY SuccType DEF TypeOK, MainPcs
  <1>4. PaceInv'
      BY <1>1 DEF PaceInv, NoWorkerFallsBehind, Open
  <1>5. CountInv'
      BY <1>2 DEF CountInv, Open, WorkerThreadsCount
  <1>6. IndexInv'
      BY <1>2, FS_EmptySet DEF IndexInv, Open
  <1>7. SignalInv' /\ ClaimInv'
      BY <1>1, <1>2 DEF SignalInv, ClaimInv, ActorRunsInOneThread, Open
  <1>8. NoLostWakeup'
      BY DEF NoLostWakeup
  <1> QED BY <1>3, <1>4, <1>5, <1>6, <1>7, <1>8

LEMMA NotifyAllInv ==
    ASSUME IInv, NotifyAll
    PROVE  IInv'
  <1> USE DEF IInv, mainVars, atomicVars, workerVars, NotifyAll, MainStep
  <1>1. \A w \in Workers :
            /\ pc[w] \in WorkerPcs
            /\ pc'[w] = IF pc[w] = "asleep" THEN "wait" ELSE pc[w]
      BY DEF TypeOK
  <1>2. Owing' = Owing /\ Past' = Past /\ Running' = Running
      BY <1>1 DEF Owing, Past, Running
  <1>3. TypeOK'
      BY DEF TypeOK, MainPcs, WorkerPcs
  <1>4. PaceInv'
      BY <1>1 DEF PaceInv, NoWorkerFallsBehind, Open
  <1>5. CountInv' /\ IndexInv'
      BY <1>2 DEF CountInv, IndexInv, Open
  <1>6. SignalInv'
      BY <1>1 DEF SignalInv, Open
  <1>7. ClaimInv'
      BY <1>2 DEF ClaimInv, ActorRunsInOneThread
  <1>8. NoLostWakeup'
      BY <1>1 DEF NoLostWakeup
  <1> QED BY <1>3, <1>4, <1>5, <1>6, <1>7, <1>8

\* The count is zero and nobody is about to signal: the round is over.
LEMMA RoundOver ==
    ASSUME IInv, mainThreadShouldWakeup
    PROVE  /\ \A w \in Workers : desiredVersion[w] # workerThreadsWorkVersion
           /\ workIndex >= NumActors
  <1> USE DEF IInv
  <1>1. Open /\ workingThreadCount = 0
      BY DEF SignalInv
  <1>2. Owing = {}
    <2>1. Cardinality(Owing) = 0
        BY <1>1 DEF CountInv
    <2>2. IsFiniteSet(Owing)
        BY ThreadsCount DEF Owing
    <2> QED BY <2>1, <2>2, FS_EmptySet
  <1>3. \A w \in Workers : desiredVersion[w] # workerThreadsWorkVersion
      BY <1>2 DEF Owing, SignalInv
  <1>4. Past # {}
      BY <1>3 DEF Past
  <1> QED BY <1>1, <1>3, <1>4 DEF IndexInv

LEMMA MainWaitInv ==
    ASSUME IInv, MainWait
    PROVE  IInv'
  <1> USE DEF IInv, mainVars, atomicVars, workerVars, MainWait
  <1>1. UNCHANGED <<atomicVars, workerThreadsWorkVersion, workerVars>>
      OBVIOUS
  <1>2. mainPc' = "storeCount" => mainThreadShouldWakeup
      OBVIOUS
  <1>3. /\ mainPc = "wait" /\ mainPc' \in {"storeCount", "asleep"}
        /\ mainThreadShouldWakeup' = FALSE
      OBVIOUS
  <1> HIDE DEF MainWait
  <1>4. TypeOK'
      BY <1>1, <1>3 DEF TypeOK, MainPcs
  <1>5. PaceInv'
      BY <1>1, <1>2, <1>3, RoundOver DEF PaceInv, NoWorkerFallsBehind, Open
  <1>6. CountInv' /\ IndexInv'
      BY <1>1, <1>2, <1>3, RoundOver, SameSets DEF CountInv, IndexInv, Open
  <1>7. SignalInv'
      BY <1>1, <1>3 DEF SignalInv
  <1>8. ClaimInv' /\ NoLostWakeup'
      BY <1>1, <1>3, SameSets
      DEF ClaimInv, ActorRunsInOneThread, NoLostWakeup
  <1> QED BY <1>4, <1>5, <1>6, <1>7, <1>8

-----------------------------------------------------------------------------
(* The workers.                                                            *)

LEMMA WorkerWaitInv ==
    ASSUME IInv, NEW w \in Workers, WorkerWait(w)
    PROVE  IInv'
  <1> USE DEF IInv, mainVars, atomicVars, workerVars, WorkerWait, WorkerStep
  <1>1. /\ pc[w] = "wait"
        /\ pc' = [pc EXCEPT ![w] =
                     IF desiredVersion[w] = workerThreadsWorkVersion
                     THEN "fetchIndex" ELSE "asleep"]
        /\ UNCHANGED <<mainVars, atomicVars, workerThreadsWorkVersion,
                       desiredVersion, claimed>>
      OBVIOUS
  <1> HIDE DEF WorkerWait, WorkerStep
  <1>2. \A v \in Workers :
            pc'[v] = IF v # w THEN pc[v]
                     ELSE IF desiredVersion[w] = workerThreadsWorkVersion
                     THEN "fetchIndex" ELSE "asleep"
      BY <1>1 DEF TypeOK
  <1>3. Owing' = Owing /\ Past' = Past /\ Running' = Running
      BY <1>1, <1>2 DEF Owing, Past, Running
  <1>4. TypeOK'
      BY <1>1 DEF TypeOK, WorkerPcs
  <1>5. PaceInv'
      BY <1>1, <1>2 DEF PaceInv, NoWorkerFallsBehind, Open
  <1>6. CountInv' /\ IndexInv'
      BY <1>1, <1>3 DEF CountInv, IndexInv, Open
  <1>7. SignalInv'
      BY <1>1, <1>2 DEF SignalInv, Open
  <1>8. ClaimInv'
      BY <1>1, <1>3 DEF ClaimInv, ActorRunsInOneThread
  <1>9. NoLostWakeup'
      BY <1>1, <1>2 DEF NoLostWakeup
  <1> QED BY <1>4, <1>5, <1>6, <1>7, <1>8, <1>9

\* The worker claims an actor, or joins those that are past the end.
LEMMA FetchIndexInv ==
    ASSUME IInv, NEW w \in Workers, FetchIndex(w)
    PROVE  IInv'
  <1> USE DEF IInv, mainVars, atomicVars, workerVars
  <1>1. /\ pc[w] = "fetchIndex"
        /\ pc' = [pc EXCEPT ![w] =
                     IF workIndex < NumActors THEN "run" ELSE "fetchSub"]
        /\ claimed' = [claimed EXCEPT ![w] = workIndex]
        /\ workIndex' = workIndex + 1
        /\ UNCHANGED <<mainVars, workingThreadCount, workerThreadsWorkVersion,
                       desiredVersion>>
      BY DEF FetchIndex, WorkerStep
  <1>2. \A v \in Workers :
            /\ pc'[v] = IF v # w THEN pc[v]
                        ELSE IF workIndex < NumActors THEN "run" ELSE "fetchSub"
            /\ claimed'[v] = IF v = w THEN workIndex ELSE claimed[v]
            /\ claimed[v] \in Nat
      BY <1>1 DEF TypeOK
  <1>3. Open /\ desiredVersion[w] = workerThreadsWorkVersion
      BY <1>1 DEF PaceInv
  <1>4. Owing' = Owing
      BY <1>1, <1>2 DEF Owing
  <1>5. workIndex \in Nat
      BY DEF TypeOK
  <1>6. IndexInv'
    <2>1. CASE workIndex < NumActors
      <3>1. Past' = Past /\ Past = {}
          BY <2>1, <1>1, <1>2, <1>3, <1>5 DEF Past, IndexInv
      <3>2. Cardinality(Past) = 0
          BY <3>1, FS_EmptySet
      <3> QED BY <2>1, <3>1, <3>2, <1>1, <1>3, <1>5 DEF IndexInv, Open
    <2>2. CASE workIndex >= NumActors
      <3>1. w \notin Past /\ Past' = Past \cup {w}
          BY <2>2, <1>1, <1>2, <1>3, <1>5 DEF Past
      <3>2. IsFiniteSet(Past) /\ Cardinality(Past) \in Nat
          BY ThreadsCount DEF Past
      <3>3. Cardinality(Past') = Cardinality(Past) + 1
          BY <3>1, <3>2, FS_AddElement
      <3> QED BY <2>2, <3>2, <3>3, <1>1, <1>3, <1>5 DEF IndexInv, Open
    <2> QED BY <2>1, <2>2, <1>5
  <1>7. TypeOK'
    <2>1. Open'
        BY <1>1, <1>3 DEF Open
    <2>2. Cardinality(Past') \in Nat /\ Cardinality(Past') =< WorkerThreadsCount
        BY ThreadsCount DEF Past
    <2>3. workIndex' \in 0..(NumActors + WorkerThreadsCount)
        BY <1>1, <1>5, <1>6, <2>1, <2>2, ThreadsCount DEF IndexInv
    <2>4. pc' \in [Workers -> WorkerPcs] /\ claimed' \in [Workers -> Nat]
        BY <1>1, <1>5 DEF TypeOK, WorkerPcs
    <2> QED BY <2>3, <2>4, <1>1 DEF TypeOK
  <1>8. PaceInv'
      BY <1>1, <1>2, <1>3 DEF PaceInv, NoWorkerFallsBehind, Open
  <1>9. CountInv'
      BY <1>1, <1>4 DEF CountInv, Open
  <1>10. SignalInv'
      BY <1>1, <1>2 DEF SignalInv, Open
  <1>11. ClaimInv'
      BY <1>1, <1>2, <1>5 DEF ClaimInv, ActorRunsInOneThread, Running
  <1>12. NoLostWakeup'
      BY <1>1, <1>2 DEF NoLostWakeup
  <1> QED BY <1>6, <1>7, <1>8, <1>9, <1>10, <1>11, <1>12

LEMMA RunActorInv ==
    ASSUME IInv, NEW w \in Workers, RunActor(w)
    PROVE  IInv'
  <1> USE DEF IInv, mainVars, atomicVars, workerVars
  <1>1. /\ pc[w] = "run" /\ pc' = [pc EXCEPT ![w] = "fetchIndex"]
        /\ UNCHANGED <<mainVars, atomicVars, workerThreadsWorkVersion,
                       desiredVersion, claimed>>
      BY DEF RunActor, WorkerStep
  <1>2. \A v \in Workers : pc'[v] = IF v = w THEN "fetchIndex" ELSE pc[v]
      BY <1>1 DEF TypeOK
  <1>3. Owing' = Owing /\ Past' = Past /\ Running' = Running \ {w}
      BY <1>1, <1>2 DEF Owing, Past, Running
  <1>4. TypeOK'
      BY <1>1 DEF TypeOK, WorkerPcs
  <1>5. PaceInv'
      BY <1>1, <1>2 DEF PaceInv, NoWorkerFallsBehind, Open
  <1>6. CountInv' /\ IndexInv'
      BY <1>1, <1>3 DEF CountInv, IndexInv, Open
  <1>7. SignalInv' /\ NoLostWakeup'
      BY <1>1, <1>2 DEF SignalInv, NoLostWakeup, Open
  <1>8. ClaimInv'
      BY <1>1, <1>3 DEF ClaimInv, ActorRunsInOneThread
  <1> QED BY <1>4, <1>5, <1>6, <1>7, <1>8

\* One worker fewer owes its fetch_sub; the last one is left to signal.
LEMMA FetchSubInv ==
    ASSUME IInv, NEW w \in Workers, FetchSub(w)
    PROVE  IInv'
  <1> USE DEF IInv, mainVars, atomicVars, workerVars
  <1> DEFINE last == workingThreadCount = 1
  <1>1. /\ pc[w] = "fetchSub"
        /\ pc' = [pc EXCEPT ![w] = IF last THEN "signal" ELSE "wait"]
        /\ workingThreadCount' = workingThreadCount - 1
        /\ desiredVersion' = [desiredVersion EXCEPT ![w] =
                                 IF last THEN @ ELSE Succ(@)]
        /\ UNCHANGED <<mainVars, workIndex, workerThreadsWorkVersion, claimed>>
      BY DEF FetchSub, WorkerStep
  <1>2. Open /\ desiredVersion[w] = workerThreadsWorkVersion
      BY <1>1 DEF PaceInv
  <1>3. /\ Succ(workerThreadsWorkVersion) \in 0..(VersionModulus - 1)
        /\ Succ(workerThreadsWorkVersion) # workerThreadsWorkVersion
      BY SuccType DEF TypeOK
  <1>4. \A v \in Workers :
            /\ pc'[v] = IF v # w THEN pc[v] ELSE IF last THEN "signal" ELSE "wait"
            /\ desiredVersion'[v] =
                  IF v = w /\ ~last THEN Succ(workerThreadsWorkVersion)
                  ELSE desiredVersion[v]
      BY <1>1, <1>2 DEF TypeOK
  <1>5. Owing' = Owing \ {w} /\ w \in Owing /\ Past' = Past
        /\ Running' = Running
      BY <1>1, <1>2, <1>3, <1>4 DEF Owing, Past, Running
  <1>6. /\ workingThreadCount = Cardinality(Owing)
        /\ workingThreadCount' = Cardinality(Owing')
        /\ workingThreadCount \in Nat \ {0}
    <2>1. IsFiniteSet(Owing) /\ Cardinality(Owing) \in Nat
        BY ThreadsCount DEF Owing
    <2>2. Cardinality(Owing) # 0 /\ Cardinality(Owing') = Cardinality(Owing) - 1
        BY <2>1, <1>5, FS_EmptySet, FS_RemoveElement
    <2> QED BY <2>1, <2>2, <1>1, <1>2 DEF CountInv
  <1>7. TypeOK'
      BY <1>1, <1>2, <1>3, <1>6, ThreadsCount DEF TypeOK, WorkerPcs
  <1>8. PaceInv'
      BY <1>1, <1>2, <1>3, <1>4 DEF PaceInv, NoWorkerFallsBehind, Open
  <1>9. CountInv'
      BY <1>1, <1>2, <1>6 DEF CountInv, Open
  <1>10. IndexInv'
      BY <1>1, <1>5 DEF IndexInv, Open
  <1>11. SignalInv'
    <2>1. ~mainThreadShouldWakeup /\ \A v \in Workers : pc[v] # "signal"
        BY <1>6 DEF SignalInv
    <2>2. \A v \in Workers : pc'[v] = "signal" => v = w /\ workingThreadCount' = 0
        BY <2>1, <1>1, <1>4, <1>6
    <2> QED BY <2>1, <2>2, <1>1 DEF SignalInv
  <1>12. ClaimInv'
      BY <1>1, <1>5 DEF ClaimInv, ActorRunsInOneThread
  <1>13. NoLostWakeup'
      BY <1>1, <1>4 DEF NoLostWakeup
  <1> QED BY <1>7, <1>8, <1>9, <1>10, <1>11, <1>12, <1>13

LEMMA SignalStepInv ==
    ASSUME IInv, NEW w \in Workers, Signal(w)
    PROVE  IInv'
  <1> USE DEF IInv, mainVars, atomicVars, workerVars
  <1>1. /\ pc[w] = "signal" /\ pc' = [pc EXCEPT ![w] = "wait"]
        /\ mainThreadShouldWakeup' = TRUE
        /\ mainPc' = IF mainPc = "asleep" THEN "wait" ELSE mainPc
        /\ desiredVersion' = [desiredVersion EXCEPT ![w] = Succ(@)]
        /\ UNCHANGED <<atomicVars, workerThreadsWorkVersion, claimed>>
      BY DEF Signal, WorkerStep
  <1>2. Open /\ desiredVersion[w] = workerThreadsWorkVersion
      BY <1>1 DEF PaceInv
  <1>3. /\ Succ(workerThreadsWorkVersion) \in 0..(VersionModulus - 1)
        /\ Succ(workerThreadsWorkVersion) # workerThreadsWorkVersion
      BY SuccType DEF TypeOK
  <1>4. \A v \in Workers :
            /\ pc'[v] = IF v = w THEN "wait" ELSE pc[v]
            /\ desiredVersion'[v] = IF v = w THEN Succ(workerThreadsWorkVersion)
                                    ELSE desiredVersion[v]
      BY <1>1, <1>2 DEF TypeOK
  <1>5. Owing' = Owing /\ Past' = Past /\ Running' = Running
      BY <1>1, <1>2, <1>3, <1>4 DEF Owing, Past, Running
  <1>6. Open' /\ mainPc' # "asleep"
      BY <1>1, <1>2 DEF Open
  <1>7. TypeOK'
      BY <1>1, <1>2, <1>3 DEF TypeOK, WorkerPcs, MainPcs
  <1>8. PaceInv'
      BY <1>1, <1>2, <1>4, <1>6 DEF PaceInv, NoWorkerFallsBehind
  <1>9. CountInv' /\ IndexInv'
      BY <1>1, <1>2, <1>5, <1>6 DEF CountInv, IndexInv, Open
  <1>10. SignalInv'
      BY <1>1, <1>4, <1>6 DEF SignalInv
  <1>11. ClaimInv'
      BY <1>1, <1>5 DEF ClaimInv, ActorRunsInOneThread
  <1>12. NoLostWakeup'
      BY <1>1, <1>4, <1>6 DEF NoLostWakeup
  <1> QED BY <1>7, <1>8, <1>9, <1>10, <1>11, <1>12

LEMMA SpuriousWakeupInv ==
    ASSUME IInv, SpuriousWakeup
    PROVE  IInv'
  <1> USE DEF IInv, mainVars, atomicVars, workerVars
  <1>1. UNCHANGED <<mainThreadShouldWakeup, atomicVars, workerThreadsWorkVersion,
                    desiredVersion, claimed>>
      BY DEF SpuriousWakeup
  <1>2. /\ mainPc' = mainPc \/ (mainPc = "asleep" /\ mainPc' = "wait")
        /\ pc' \in [Workers -> WorkerPcs]
        /\ \A v \in Workers :
              pc'[v] = pc[v] \/ (pc[v] = "asleep" /\ pc'[v] = "wait")
      BY DEF SpuriousWakeup, MainStep, WorkerStep, TypeOK, WorkerPcs
  <1>3. Owing' = Owing /\ Past' = Past /\ Running' = Running
      BY <1>1, <1>2 DEF Owing, Past, Running
  <1>4. TypeOK'
      BY <1>1, <1>2 DEF TypeOK, MainPcs
  <1>5. PaceInv'
      BY <1>1, <1>2 DEF PaceInv, NoWorkerFallsBehind, Open
  <1>6. CountInv' /\ IndexInv'
      BY <1>1, <1>2, <1>3 DEF CountInv, IndexInv, Open
  <1>7. SignalInv'
      BY <1>1, <1>2 DEF SignalInv, Open
  <1>8. ClaimInv'
      BY <1>1, <1>3 DEF ClaimInv, ActorRunsInOneThread
  <1>9. NoLostWakeup'
      BY <1>1, <1>2 DEF NoLostWakeup
  <1> QED BY <1>4, <1>5, <1>6, <1>7, <1>8, <1>9

-----------------------------------------------------------------------------
(* Theorems.                                                               *)

LEMMA NextInv ==
    ASSUME IInv, [Next]_vars
    PROVE  IInv'
  <1>1. CASE MainThread
      BY <1>1, StoreInv, BumpVersionInv, NotifyAllInv, MainWaitInv
      DEF MainThread
  <1>2. ASSUME NEW w \in Workers, Worker(w) PROVE IInv'
      BY <1>2, WorkerWaitInv, FetchIndexInv, RunActorInv, FetchSubInv,
         SignalStepInv DEF Worker
  <1> QED BY <1>1, <1>2, SpuriousWakeupInv, StutterInv DEF Next

\* The inductive invariant holds in every state of every execution of
\* MainServer::Run and MainServer::WorkerThreadBody.
THEOREM Invariant == Spec => []IInv
  BY InitInv, NextInv, PTL DEF Spec

\* The types, and with them the bounds of workingThreadCount_ and workIndex_:
\* the two counters of MainServer never wrap.
THEOREM CountersNeverWrap == Spec => []TypeOK
  BY Invariant, PTL DEF IInv

\* No two worker threads are ever inside the Run of the same actor.
THEOREM OneThreadPerActor == Spec => []ActorRunsInOneThread
  BY Invariant, PTL DEF IInv, ClaimInv

\* desiredVersion of a worker never falls behind workerThreadsWorkVersion_.
THEOREM WorkersKeepPace == Spec => []NoWorkerFallsBehind
  BY Invariant, PTL DEF IInv, PaceInv

\* Neither condition variable of MainServer loses a wakeup.
THEOREM WakeupsAreNotLost == Spec => []NoLostWakeup
  BY Invariant, PTL DEF IInv

-----------------------------------------------------------------------------
(* The refinement.                                                         *)

\* Steps that start and finish no actor and reset no index are invisible.
LEMMA Invisible ==
    ASSUME Running' = Running, UNCHANGED <<claimed, workIndex>>
    PROVE  UNCHANGED <<running, done>>
  BY DEF running, done

LEMMA StoreIndexRefines ==
    ASSUME IInv, StoreIndex
    PROVE  Rounds!NewRound \/ UNCHANGED <<running, done>>
  <1> USE DEF IInv, mainVars, workerVars
  <1>1. /\ mainPc = "storeIndex" /\ workIndex' = 0
        /\ UNCHANGED workerVars
      BY DEF StoreIndex, MainStep
  <1>2. Running = {} /\ Running' = {}
      BY <1>1 DEF PaceInv, Open, Running
  <1>3. running = {} /\ running' = {} /\ done' = {}
      BY <1>1, <1>2 DEF running, done, RunQueue
  <1>4. CASE workIndex = 0
      BY <1>3, <1>4 DEF done, RunQueue
  <1>5. CASE workIndex >= NumActors
    <2>1. workIndex \in Nat
        BY DEF TypeOK
    <2>2. done = RunQueue
        BY <1>3, <1>5, <2>1 DEF done, RunQueue
    <2> QED BY <1>3, <2>2 DEF Rounds!NewRound
  <1> QED BY <1>1, <1>4, <1>5 DEF IndexInv

LEMMA FetchIndexRefines ==
    ASSUME IInv, NEW w \in Workers, FetchIndex(w)
    PROVE  \/ UNCHANGED <<running, done>>
           \/ workIndex \in RunQueue /\ Rounds!Start(workIndex)
  <1> USE DEF IInv
  <1>1. /\ pc[w] = "fetchIndex"
        /\ pc' = [pc EXCEPT ![w] =
                     IF workIndex < NumActors THEN "run" ELSE "fetchSub"]
        /\ claimed' = [claimed EXCEPT ![w] = workIndex]
        /\ workIndex' = workIndex + 1
      BY DEF FetchIndex, WorkerStep
  <1>2. /\ \A v \in Workers :
              /\ pc'[v] = IF v # w THEN pc[v]
                          ELSE IF workIndex < NumActors THEN "run" ELSE "fetchSub"
              /\ claimed'[v] = IF v = w THEN workIndex ELSE claimed[v]
              /\ claimed[v] \in Nat
        /\ workIndex \in Nat
      BY <1>1 DEF TypeOK
  <1>3. CASE workIndex < NumActors
    <2>1. running' = running \cup {workIndex}
        BY <1>1, <1>2, <1>3 DEF running, Running
    <2>2. workIndex \notin running /\ workIndex \notin done
        BY <1>2 DEF running, done, RunQueue, ClaimInv
    <2>3. done' = done
        BY <2>1, <1>1, <1>2 DEF done, RunQueue
    <2>4. workIndex \in RunQueue
        BY <1>2, <1>3 DEF RunQueue
    <2> QED BY <2>1, <2>2, <2>3, <2>4 DEF Rounds!Start
  <1>4. CASE ~(workIndex < NumActors)
    <2>1. running' = running
        BY <1>1, <1>2, <1>4 DEF running, Running
    <2>2. done' = done
        BY <2>1, <1>1, <1>2, <1>4 DEF done, RunQueue
    <2> QED BY <2>1, <2>2
  <1> QED BY <1>3, <1>4

LEMMA RunActorRefines ==
    ASSUME IInv, NEW w \in Workers, RunActor(w)
    PROVE  claimed[w] \in RunQueue /\ Rounds!Finish(claimed[w])
  <1> USE DEF IInv, atomicVars
  <1>1. /\ pc[w] = "run" /\ pc' = [pc EXCEPT ![w] = "fetchIndex"]
        /\ UNCHANGED <<workIndex, claimed>>
      BY DEF RunActor, WorkerStep
  <1>2. /\ \A v \in Workers : pc'[v] = IF v = w THEN "fetchIndex" ELSE pc[v]
        /\ claimed[w] \in Nat /\ workIndex \in Nat
      BY <1>1 DEF TypeOK
  <1>3. w \in Running /\ Running' = Running \ {w}
      BY <1>1, <1>2 DEF Running
  <1>4. claimed[w] \in running /\ running' = running \ {claimed[w]}
      BY <1>1, <1>3 DEF running, ClaimInv, ActorRunsInOneThread
  <1>5. claimed[w] \in RunQueue /\ claimed[w] < workIndex
      BY <1>2, <1>3 DEF ClaimInv, RunQueue
  <1>6. done' = done \cup {claimed[w]}
      BY <1>1, <1>4, <1>5 DEF done
  <1> QED BY <1>4, <1>5, <1>6 DEF Rounds!Finish

LEMMA StepRefines ==
    ASSUME IInv, [Next]_vars
    PROVE  [Rounds!Next]_(Rounds!vars)
  <1> USE DEF Rounds!vars, mainVars, atomicVars, workerVars
  <1>1. CASE StoreCount \/ BumpVersion \/ MainWait
    <2>1. UNCHANGED <<pc, claimed, workIndex>>
        BY <1>1 DEF StoreCount, BumpVersion, MainWait
    <2> QED BY <2>1, Invisible DEF Running
  <1>2. CASE StoreIndex
      BY <1>2, StoreIndexRefines DEF Rounds!Next
  <1>3. CASE NotifyAll
    <2>1. UNCHANGED <<claimed, workIndex>>
        BY <1>3 DEF NotifyAll
    <2>2. Running' = Running
        BY <1>3 DEF NotifyAll, Running
    <2> QED BY <2>1, <2>2, Invisible
  <1>4. CASE SpuriousWakeup
    <2>1. UNCHANGED <<claimed, workIndex>>
        BY <1>4 DEF SpuriousWakeup
    <2>2. \A v \in Workers : pc'[v] = "run" <=> pc[v] = "run"
        BY <1>4 DEF SpuriousWakeup, WorkerStep, IInv, TypeOK
    <2> QED BY <2>1, <2>2, Invisible DEF Running
  <1>5. ASSUME NEW w \in Workers, WorkerWait(w) \/ FetchSub(w) \/ Signal(w)
        PROVE  UNCHANGED <<running, done>>
    <2>1. UNCHANGED <<claimed, workIndex>>
        BY <1>5 DEF WorkerWait, FetchSub, Signal
    <2>2. \A v \in Workers : pc'[v] = "run" <=> pc[v] = "run"
        BY <1>5 DEF WorkerWait, FetchSub, Signal, WorkerStep, IInv, TypeOK
    <2> QED BY <2>1, <2>2, Invisible DEF Running
  <1>6. ASSUME NEW w \in Workers, Worker(w)
        PROVE  [Rounds!Next]_(Rounds!vars)
      BY <1>5, <1>6, FetchIndexRefines, RunActorRefines
      DEF Worker, Rounds!Next
  <1>7. CASE UNCHANGED vars
      BY <1>7, Invisible DEF vars, Running
  <1> QED BY <1>1, <1>2, <1>3, <1>4, <1>6, <1>7 DEF Next, MainThread

\* MainServer::Run and WorkerThreadBody implement ActorRounds: every actor
\* runs exactly once per round, and rounds do not overlap.
THEOREM Refinement == Spec => ImplementsActorRounds
  <1>1. Init => Rounds!Init
      BY DEF Init, Rounds!Init, running, done, Running, RunQueue
  <1>2. IInv /\ [Next]_vars => [Rounds!Next]_(Rounds!vars)
      BY StepRefines
  <1> QED BY <1>1, <1>2, Invariant, PTL
          DEF Spec, ImplementsActorRounds, Rounds!Spec
=============================================================================
