-------------------------- MODULE ActorMailboxProofs --------------------------
(***************************************************************************)
(* Proofs about ActorMailbox for any number of pushers and messages.  The  *)
(* drained vector is empty whenever Run starts, so that every Run swaps;   *)
(* the lock keeps the swap away from a pusher that has read pushIndex_.    *)
(***************************************************************************)
EXTENDS ActorMailbox, SequenceTheorems, TLAPS

USE MailboxAssumption

Cells == Messages \cup {Moved}


\* The vector of the pushers holds messages, and so does what is left of the
\* drained one; the latter is empty outside the loop.
VectorInv ==
    /\ messageQueue[pushIndex] \in Seq(Messages)
    /\ runPc \in {"idle", "swap"} => messageQueue[Drained] = <<>>
    /\ runPc = "swap" => cursor = 1
    /\ runPc = "loop" => cursor =< Len(messageQueue[Drained]) + 1
    /\ runPc = "clear" => cursor = Len(messageQueue[Drained]) + 1
    /\ \A i \in cursor..Len(messageQueue[Drained]) :
          messageQueue[Drained][i] \in Messages

LockInv ==
    /\ DrainedVectorIsPrivate
    /\ \A p \in Pushers : pushMutex = p => holding[p] \in Messages

IInv == TypeOK /\ VectorInv /\ LockInv

-----------------------------------------------------------------------------
(* Lemmas.                                                                 *)

\* The two indices are different vectors.
LEMMA Indices ==
    ASSUME pushIndex \in Vectors
    PROVE  /\ Drained \in Vectors /\ Drained # pushIndex
           /\ 1 - Drained = pushIndex
           /\ \A v \in Vectors : v = pushIndex \/ v = Drained
  BY DEF Drained, Vectors

\* What is left for the loop of Run is a sequence of messages.
LEMMA RemainingType ==
    ASSUME IInv
    PROVE  /\ Remaining \in Seq(Messages)
           /\ runPc # "loop" => Remaining = <<>>
           /\ runPc \in {"loop", "clear"}
              => Remaining = SubSeq(messageQueue[Drained], cursor,
                                    Len(messageQueue[Drained]))
  <1> DEFINE d == messageQueue[Drained]
  <1>1. d \in Seq(Cells) /\ Len(d) \in Nat /\ cursor \in Nat
      BY Indices, LenProperties DEF IInv, TypeOK, Cells
  <1>2. CASE runPc \in {"loop", "clear"}
    <2>1. SubSeq(d, cursor, Len(d)) \in Seq(Messages)
        BY <1>1, SubSeqProperties DEF IInv, VectorInv
    <2>2. runPc = "clear" => SubSeq(d, cursor, Len(d)) = <<>>
        BY <1>1, SubSeqEmpty DEF IInv, VectorInv
    <2> QED BY <1>2, <2>1, <2>2 DEF Remaining
  <1>3. CASE runPc \in {"idle", "swap"}
    <2>1. Remaining = <<>>
        BY <1>3 DEF Remaining, IInv, VectorInv
    <2> QED BY <2>1, <1>3, EmptySeq
  <1>4. runPc \in RunPcs
      BY DEF IInv, TypeOK
  <1> QED BY <1>2, <1>3, <1>4 DEF RunPcs

-----------------------------------------------------------------------------
(* The invariant.                                                          *)

LEMMA InitInv == Init => IInv
  <1> SUFFICES ASSUME Init PROVE IInv
      OBVIOUS
  <1> USE DEF Init
  <1>1. messageQueue[0] = <<>> /\ messageQueue[1] = <<>> /\ Drained = 1
      BY DEF Vectors, Drained
  <1>2. TypeOK
      BY DEF TypeOK, Vectors, RunPcs
  <1>3. VectorInv
    <2>1. <<>> \in Seq(Messages) /\ Len(<<>>) = 0
        BY EmptySeq
    <2>2. messageQueue[pushIndex] = <<>> /\ messageQueue[Drained] = <<>>
        BY <1>1
    <2>3. \A i \in cursor..Len(messageQueue[Drained]) :
              messageQueue[Drained][i] \in Messages
        BY <2>1, <2>2
    <2> QED BY <2>1, <2>2, <2>3 DEF VectorInv
  <1>4. LockInv
      BY DEF LockInv, DrainedVectorIsPrivate
  <1> QED BY <1>2, <1>3, <1>4 DEF IInv

LEMMA PushLockInv ==
    ASSUME IInv, NEW p \in Pushers, NEW m \in Messages, PushLock(p, m)
    PROVE  IInv'
  <1> USE DEF IInv, PushLock, runVars
  <1>1. TypeOK'
      BY DEF TypeOK
  <1>2. VectorInv'
      BY DEF VectorInv, Drained
  <1>3. LockInv'
      BY DEF LockInv, DrainedVectorIsPrivate, TypeOK
  <1> QED BY <1>1, <1>2, <1>3

\* The pusher appends to the vector that Run leaves alone.
LEMMA PushEmplaceEffect ==
    ASSUME IInv, NEW p \in Pushers, PushEmplace(p)
    PROVE  /\ holding[p] \in Messages
           /\ messageQueue'[pushIndex] = Append(messageQueue[pushIndex], holding[p])
           /\ messageQueue'[Drained] = messageQueue[Drained]
           /\ UNCHANGED <<pushIndex, runVars>>
  <1>1. pushMutex = p /\ target[p] = pushIndex /\ holding[p] \in Messages
      BY DEF PushEmplace, IInv, LockInv, DrainedVectorIsPrivate
  <1> QED BY <1>1, Indices DEF PushEmplace, IInv, TypeOK

LEMMA PushEmplaceInv ==
    ASSUME IInv, NEW p \in Pushers, PushEmplace(p)
    PROVE  IInv'
  <1> USE DEF IInv
  <1>1. /\ holding[p] \in Messages
        /\ messageQueue'[pushIndex] = Append(messageQueue[pushIndex], holding[p])
        /\ messageQueue'[Drained] = messageQueue[Drained]
        /\ UNCHANGED <<pushIndex, runPc, cursor, handled>>
      BY PushEmplaceEffect DEF runVars
  <1>2. TypeOK'
    <2>1. Append(messageQueue[target[p]], holding[p]) \in Seq(Messages \cup {Moved})
        BY <1>1, AppendProperties DEF TypeOK
    <2> QED BY <2>1, <1>1 DEF TypeOK, PushEmplace
  <1>3. VectorInv'
    <2>1. messageQueue'[pushIndex] \in Seq(Messages)
        BY <1>1, AppendProperties DEF VectorInv
    <2> QED BY <2>1, <1>1 DEF VectorInv, Drained
  <1>4. LockInv'
      BY DEF LockInv, DrainedVectorIsPrivate, PushEmplace
  <1> QED BY <1>2, <1>3, <1>4

LEMMA RunTestInv ==
    ASSUME IInv, RunTest
    PROVE  IInv' /\ runPc' = "swap"
  <1> USE DEF IInv, RunTest, pushVars
  <1>1. messageQueue[Drained] = <<>> /\ runPc' = "swap"
      BY DEF VectorInv
  <1>2. TypeOK'
      BY DEF TypeOK, RunPcs
  <1>3. VectorInv'
      BY <1>1, EmptySeq DEF VectorInv, Drained
  <1>4. LockInv'
      BY DEF LockInv, DrainedVectorIsPrivate
  <1> QED BY <1>1, <1>2, <1>3, <1>4

LEMMA RunSwapInv ==
    ASSUME IInv, RunSwap
    PROVE  IInv'
  <1> USE DEF IInv, RunSwap, pushVars
  <1>1. pushIndex' = Drained /\ Drained' = pushIndex /\ pushIndex \in Vectors
      BY Indices DEF TypeOK, Drained
  <1>2. TypeOK'
      BY <1>1, Indices DEF TypeOK, RunPcs
  <1>3. VectorInv'
    <2>1. messageQueue'[pushIndex'] \in Seq(Messages)
        BY <1>1, EmptySeq DEF VectorInv
    <2>2. /\ messageQueue'[Drained'] = messageQueue[pushIndex]
          /\ cursor' = 1
          /\ messageQueue[pushIndex] \in Seq(Messages)
        BY <1>1 DEF VectorInv
    <2>3. Len(messageQueue[pushIndex]) \in Nat
        BY <2>2, LenProperties
    <2>4. \A i \in 1..Len(messageQueue[pushIndex]) :
              messageQueue[pushIndex][i] \in Messages
        BY <2>2, ElementOfSeq
    <2> QED BY <2>1, <2>2, <2>3, <2>4 DEF VectorInv
  <1>4. LockInv'
      BY DEF LockInv, DrainedVectorIsPrivate
  <1> QED BY <1>2, <1>3, <1>4

\* The message at the cursor is handled and its cell is left null.
LEMMA RunHandleEffect ==
    ASSUME IInv, RunHandle
    PROVE  /\ cursor \in 1..Len(messageQueue[Drained])
           /\ messageQueue[Drained][cursor] \in Messages
           /\ messageQueue'[Drained] =
                [messageQueue[Drained] EXCEPT ![cursor] = Moved]
           /\ messageQueue'[Drained] \in Seq(Cells)
           /\ Len(messageQueue'[Drained]) = Len(messageQueue[Drained])
           /\ \A i \in 1..Len(messageQueue[Drained]) :
                 messageQueue'[Drained][i] = IF i = cursor THEN Moved
                                             ELSE messageQueue[Drained][i]
           /\ messageQueue'[pushIndex] = messageQueue[pushIndex]
           /\ cursor' = cursor + 1
           /\ handled' = Append(handled, messageQueue[Drained][cursor])
           /\ runPc = "loop"
           /\ UNCHANGED <<pushIndex, pushVars, runPc>>
  <1> DEFINE d == messageQueue[Drained]
  <1>1. /\ d \in Seq(Cells) /\ Len(d) \in Nat
        /\ cursor \in 1..Len(d)
      BY Indices, LenProperties DEF IInv, TypeOK, Cells, RunHandle
  <1>2. messageQueue' = [messageQueue EXCEPT ![Drained] =
                            [d EXCEPT ![cursor] = Moved]]
      BY DEF RunHandle
  <1>3. /\ messageQueue'[Drained] = [d EXCEPT ![cursor] = Moved]
        /\ messageQueue'[pushIndex] = messageQueue[pushIndex]
      BY <1>2, Indices DEF IInv, TypeOK
  <1>4. /\ [d EXCEPT ![cursor] = Moved] \in Seq(Cells)
        /\ Len([d EXCEPT ![cursor] = Moved]) = Len(d)
        /\ \A i \in 1..Len(d) : [d EXCEPT ![cursor] = Moved][i] =
                                   IF i = cursor THEN Moved ELSE d[i]
      BY <1>1, ExceptSeq DEF Cells
  <1>5. d[cursor] \in Messages
      BY <1>1 DEF IInv, VectorInv
  <1> QED BY <1>1, <1>3, <1>4, <1>5 DEF RunHandle

LEMMA RunHandleInv ==
    ASSUME IInv, RunHandle
    PROVE  IInv'
  <1> USE DEF IInv
  <1>1. TypeOK'
    <2>1. messageQueue' \in [Vectors -> Seq(Messages \cup {Moved})]
      <3>1. messageQueue' = [messageQueue EXCEPT ![Drained] =
                                messageQueue'[Drained]]
          BY RunHandleEffect, Indices DEF RunHandle, TypeOK
      <3> QED BY <3>1, RunHandleEffect, Indices DEF TypeOK, Cells
    <2>2. handled' \in Seq(Messages)
      <3>1. PICK m \in Messages : handled' = Append(handled, m)
          BY RunHandleEffect
      <3> QED BY <3>1, AppendProperties DEF TypeOK
    <2> QED BY <2>1, <2>2, RunHandleEffect DEF TypeOK, pushVars
  <1>2. VectorInv'
    <2>1. Drained' = Drained /\ Len(messageQueue[Drained]) \in Nat
        BY RunHandleEffect, Indices, LenProperties DEF Drained, TypeOK
    <2>2. cursor' =< Len(messageQueue'[Drained]) + 1
        BY <2>1, RunHandleEffect
    <2>3. \A i \in cursor'..Len(messageQueue'[Drained]) :
              messageQueue'[Drained][i] \in Messages
        BY <2>1, RunHandleEffect DEF VectorInv
    <2> QED BY <2>1, <2>2, <2>3, RunHandleEffect DEF VectorInv
  <1>3. LockInv'
      BY RunHandleEffect DEF LockInv, DrainedVectorIsPrivate, pushVars
  <1> QED BY <1>1, <1>2, <1>3

LEMMA RunLoopEndsInv ==
    ASSUME IInv, RunLoopEnds
    PROVE  IInv'
  <1> USE DEF IInv, RunLoopEnds, pushVars
  <1>1. TypeOK'
      BY DEF TypeOK, RunPcs
  <1>2. VectorInv'
    <2>1. Len(messageQueue[Drained]) \in Nat /\ cursor \in Nat
        BY Indices, LenProperties DEF TypeOK
    <2> QED BY <2>1 DEF VectorInv, Drained
  <1>3. LockInv'
      BY DEF LockInv, DrainedVectorIsPrivate
  <1> QED BY <1>1, <1>2, <1>3

LEMMA RunClearInv ==
    ASSUME IInv, RunClear
    PROVE  IInv'
  <1> USE DEF IInv, RunClear, pushVars
  <1>1. /\ messageQueue'[Drained] = <<>>
        /\ messageQueue'[pushIndex] = messageQueue[pushIndex]
        /\ Drained' = Drained
      BY Indices DEF TypeOK, Drained
  <1>2. TypeOK'
      BY EmptySeq DEF TypeOK, RunPcs
  <1>3. VectorInv'
      BY <1>1, EmptySeq DEF VectorInv, TypeOK
  <1>4. LockInv'
      BY DEF LockInv, DrainedVectorIsPrivate
  <1> QED BY <1>2, <1>3, <1>4

LEMMA NextInv ==
    ASSUME IInv, [Next]_vars
    PROVE  IInv'
  <1>1. CASE UNCHANGED vars
      BY <1>1 DEF vars, pushVars, runVars, IInv, TypeOK, VectorInv, LockInv,
                  DrainedVectorIsPrivate, Drained
  <1>2. CASE Run
      BY <1>2, RunTestInv, RunSwapInv, RunHandleInv, RunLoopEndsInv, RunClearInv
      DEF Run
  <1> QED BY <1>1, <1>2, PushLockInv, PushEmplaceInv DEF Next

\* The inductive invariant of Actor::PushMessage and Actor::Run.
THEOREM Invariant == Spec => []IInv
  BY InitInv, NextInv, PTL DEF Spec

\* The types; among them, that the handlers are never given a null pointer.
THEOREM TypeCorrect == Spec => []TypeOK
  BY Invariant, PTL DEF IInv

\* Run goes through its vector without the lock because no pusher is ever
\* about to append to it.
THEOREM NoPushIntoDrainedVector == Spec => []DrainedVectorIsPrivate
  BY Invariant, PTL DEF IInv, LockInv

-----------------------------------------------------------------------------
(* The refinement.                                                         *)

LEMMA QueueType ==
    ASSUME IInv
    PROVE  /\ messageQueue[pushIndex] \in Seq(Messages)
           /\ queue \in Seq(Messages)
  BY RemainingType, ConcatProperties DEF IInv, VectorInv, queue

\* To append to the second of two sequences is to append to both.
LEMMA AppendToConcat ==
    ASSUME NEW s \in Seq(Messages), NEW t \in Seq(Messages), NEW m \in Messages
    PROVE  s \o Append(t, m) = Append(s \o t, m)
  <1>1. <<m>> \in Seq(Messages) /\ s \o t \in Seq(Messages)
      BY ConcatProperties
  <1>2. Append(t, m) = t \o <<m>> /\ Append(s \o t, m) = (s \o t) \o <<m>>
      BY <1>1, AppendIsConcat
  <1> QED BY <1>1, <1>2, ConcatAssociative

\* Head and tail of a sequence that begins with m.
LEMMA HeadTailOfConcat ==
    ASSUME NEW m \in Messages, NEW s \in Seq(Messages)
    PROVE  /\ <<m>> \o s # <<>>
           /\ Head(<<m>> \o s) = m
           /\ Tail(<<m>> \o s) = s
  <1> DEFINE q == <<m>> \o s
  <1>1. /\ <<m>> \in Seq(Messages) /\ q \in Seq(Messages)
        /\ Len(q) = 1 + Len(s) /\ Len(s) \in Nat
        /\ \A i \in 1..(1 + Len(s)) : q[i] = IF i =< 1 THEN m ELSE s[i - 1]
      BY ConcatProperties, LenProperties
  <1>2. q # <<>>
      BY <1>1, EmptySeq
  <1>3. Head(q) = m
      BY <1>1, <1>2
  <1>4. Tail(q) \in Seq(Messages) /\ Len(Tail(q)) = Len(s)
        /\ \A i \in 1..Len(s) : Tail(q)[i] = s[i]
      BY <1>1, <1>2, HeadTailProperties
  <1>5. Tail(q) = s
      BY <1>1, <1>4, SeqEqual
  <1> QED BY <1>2, <1>3, <1>5

LEMMA PushEmplaceRefines ==
    ASSUME IInv, NEW p \in Pushers, PushEmplace(p)
    PROVE  Mailbox!Push(holding[p])
  <1>1. Remaining' = Remaining
      BY PushEmplaceEffect DEF Remaining, Drained, runVars
  <1>2. queue' = Remaining \o Append(messageQueue[pushIndex], holding[p])
      BY <1>1, PushEmplaceEffect DEF queue
  <1>3. queue' = Append(queue, holding[p])
      BY <1>2, PushEmplaceEffect, RemainingType, QueueType, AppendToConcat
      DEF queue
  <1> QED BY <1>3, PushEmplaceEffect DEF Mailbox!Push, runVars

LEMMA RunHandleRefines ==
    ASSUME IInv, RunHandle
    PROVE  Mailbox!Handle
  <1> DEFINE d == messageQueue[Drained]
             e == messageQueue'[Drained]
             n == Len(messageQueue[Drained])
             m == messageQueue[Drained][cursor]
  <1>1. d \in Seq(Cells) /\ n \in Nat /\ cursor \in 1..n /\ m \in Messages
      BY RunHandleEffect, Indices, LenProperties DEF IInv, TypeOK, Cells
  <1>2. Remaining = <<m>> \o SubSeq(d, cursor + 1, n)
      BY <1>1, RunHandleEffect, SubSeqRecursiveFirst DEF Remaining
  <1>3. Remaining' = SubSeq(e, cursor + 1, n)
      BY RunHandleEffect DEF Remaining, Drained
  <1>4. SubSeq(e, cursor + 1, n) = SubSeq(d, cursor + 1, n)
    <2>1. \A i \in (cursor + 1)..n : e[i] = d[i] /\ d[i] \in Cells
        BY <1>1, RunHandleEffect, ElementOfSeq
    <2> DEFINE x == SubSeq(e, cursor + 1, n)
               y == SubSeq(d, cursor + 1, n)
    <2>2. cursor + 1 \in Int /\ n \in Int
        BY <1>1
    <2>3. /\ y \in Seq(Cells)
          /\ Len(y) = IF cursor + 1 =< n THEN n - (cursor + 1) + 1 ELSE 0
          /\ \A i \in 1..(n - (cursor + 1) + 1) : y[i] = d[cursor + 1 + i - 1]
        BY <2>1, <2>2, SubSeqProperties
    <2>4. \A i \in (cursor + 1)..n : e[i] \in Cells
        BY <2>1
    <2>5. /\ x \in Seq(Cells)
          /\ Len(x) = IF cursor + 1 =< n THEN n - (cursor + 1) + 1 ELSE 0
          /\ \A i \in 1..(n - (cursor + 1) + 1) : x[i] = e[cursor + 1 + i - 1]
        BY <2>2, <2>4, SubSeqProperties
    <2>6. Len(x) = Len(y) /\ \A i \in 1..Len(x) : x[i] = y[i]
        BY <1>1, <2>1, <2>3, <2>5
    <2> HIDE DEF x, y
    <2>7. x = y
        BY <2>3, <2>5, <2>6, SeqEqual
    <2> QED BY <2>7 DEF x, y
  <1>5. Remaining' \in Seq(Messages)
    <2>1. \A i \in (cursor + 1)..n : d[i] \in Messages
        BY <1>1 DEF IInv, VectorInv
    <2> QED BY <1>1, <1>3, <1>4, <2>1, SubSeqProperties
  <1>6. queue = <<m>> \o (Remaining' \o messageQueue[pushIndex])
    <2>1. queue = (<<m>> \o Remaining') \o messageQueue[pushIndex]
        BY <1>2, <1>3, <1>4 DEF queue
    <2>2. <<m>> \in Seq(Messages)
        BY <1>1
    <2>3. messageQueue[pushIndex] \in Seq(Messages)
        BY QueueType
    <2>4. \A s, t, u \in Seq(Messages) : (s \o t) \o u = s \o (t \o u)
        BY ConcatAssociative
    <2> HIDE DEF m
    <2> QED BY <2>1, <2>2, <2>3, <2>4, <1>5
  <1>7. queue' = Remaining' \o messageQueue[pushIndex]
      BY RunHandleEffect DEF queue
  <1>8. Remaining' \o messageQueue[pushIndex] \in Seq(Messages)
      BY <1>5, QueueType, ConcatProperties
  <1>9. queue # <<>> /\ Head(queue) = m /\ Tail(queue) = queue'
      BY <1>1, <1>6, <1>7, <1>8, HeadTailOfConcat
  <1> QED BY <1>9, RunHandleEffect DEF Mailbox!Handle

\* The exchange of the vectors does not change the queue.
LEMMA RunSwapRefines ==
    ASSUME IInv, RunSwap
    PROVE  UNCHANGED <<queue, handled>>
  <1>1. /\ pushIndex' = Drained /\ Drained' = pushIndex
        /\ UNCHANGED <<messageQueue, handled>>
        /\ cursor' = 1 /\ runPc = "swap" /\ runPc' = "loop"
        /\ messageQueue[Drained] = <<>>
      BY Indices DEF RunSwap, Drained, IInv, TypeOK, VectorInv
  <1>2. Remaining' = messageQueue[pushIndex]
    <2>1. Remaining' = SubSeq(messageQueue[pushIndex], 1,
                              Len(messageQueue[pushIndex]))
        BY <1>1 DEF Remaining
    <2> QED BY <2>1, QueueType, SubSeqFull
  <1>3. queue' = messageQueue[pushIndex] \o <<>>
      BY <1>1, <1>2 DEF queue
  <1>4. queue = <<>> \o messageQueue[pushIndex]
      BY <1>1 DEF queue, Remaining
  <1> QED BY <1>1, <1>3, <1>4, QueueType, ConcatEmptySeq

LEMMA StepRefines ==
    ASSUME IInv, IInv', [Next]_vars
    PROVE  [Mailbox!Next]_(Mailbox!vars)
  <1> USE DEF Mailbox!vars
  <1>1. ASSUME NEW p \in Pushers, PushEmplace(p) PROVE Mailbox!Next
      BY <1>1, PushEmplaceRefines, PushEmplaceEffect DEF Mailbox!Next
  <1>2. ASSUME NEW p \in Pushers, NEW m \in Messages, PushLock(p, m)
        PROVE  UNCHANGED <<queue, handled>>
      BY <1>2 DEF PushLock, runVars, queue, Remaining, Drained
  <1>3. CASE RunTest
    <2>1. runPc = "idle" /\ runPc' = "swap"
          /\ UNCHANGED <<messageQueue, pushIndex, handled>>
        BY <1>3, RunTestInv DEF RunTest
    <2> QED BY <2>1 DEF queue, Remaining, Drained
  <1>4. CASE RunLoopEnds
      BY <1>4 DEF RunLoopEnds, queue, Remaining, Drained
  <1>5. CASE RunClear
    <2>1. Remaining = <<>> /\ Remaining' = <<>>
        BY <1>5, RemainingType DEF RunClear, Remaining, VectorInv, IInv
    <2>2. messageQueue'[pushIndex'] = messageQueue[pushIndex]
        BY <1>5, Indices DEF RunClear, IInv, TypeOK
    <2> QED BY <1>5, <2>1, <2>2 DEF RunClear, queue
  <1>6. CASE RunHandle
      BY <1>6, RunHandleRefines DEF Mailbox!Next
  <1>7. CASE UNCHANGED vars
      BY <1>7 DEF vars, runVars, queue, Remaining, Drained
  <1> QED BY <1>1, <1>2, <1>3, <1>4, <1>5, <1>6, <1>7, RunSwapRefines
          DEF Next, Run

\* The two vectors of an actor implement one first-in first-out queue.
THEOREM Refinement == Spec => ImplementsMessageQueue
  <1>1. Init => Mailbox!Init
    <2> SUFFICES ASSUME Init PROVE Mailbox!Init
        OBVIOUS
    <2>1. /\ messageQueue[pushIndex] = <<>> /\ messageQueue[Drained] = <<>>
          /\ runPc = "idle" /\ handled = <<>>
        BY DEF Init, Drained, Vectors
    <2>2. queue = <<>> \o <<>>
        BY <2>1 DEF queue, Remaining
    <2>3. queue = <<>>
        BY <2>2, EmptySeq, ConcatEmptySeq
    <2> QED BY <2>1, <2>3 DEF Mailbox!Init
  <1>2. IInv /\ IInv' /\ [Next]_vars => [Mailbox!Next]_(Mailbox!vars)
      BY StepRefines
  <1> QED BY <1>1, <1>2, Invariant, PTL
          DEF Spec, ImplementsMessageQueue, Mailbox!Spec
=============================================================================
