--------------------------- MODULE SessionSendProofs ---------------------------
(***************************************************************************)
(* Proofs about SessionSend: messages leave whole and in order, and the    *)
(* bytes a pending WSASend refers to stay as they are, for every capacity, *)
(* any number of messages and of worker threads.                           *)
(***************************************************************************)
EXTENDS SessionSend, RingArithmeticProofs, SequenceTheorems, TLAPS

-----------------------------------------------------------------------------
(* The inductive invariant.                                                *)

RingSize == GetRingBufferSize(BufferCapacity, head, tail)

\* Nothing but the receive path's own send has happened (see Events).
Quiet == events \subseteq {"WantWrite"}

\* The mutex has one owner.
LockIsExclusive ==
    \A w \in Workers : pc[w] \in {"write", "fill"} => processing = w

\* Only a worker that is about to advance the head has something to account.
TransferredIsPending ==
    \A w \in Workers : transferred[w] > 0 => At(w, "advance")

\* The worker that has set isIoOnline_[Send] and not started the WSASend yet.
OwnsSend(w) ==
    /\ pc[w] \in {"process", "write", "fill", "processReceive", "wsaSend"}
    /\ serving[w] = "Send"

\* There is one of them or a pending WSASend, and the flag says so.
SendIsOwned ==
    /\ \A w, x \in Workers : OwnsSend(w) /\ OwnsSend(x) => w = x
    /\ \A w \in Workers : OwnsSend(w) => sendOnline /\ inFlight = <<>>
    /\ inFlight # <<>> => sendOnline
    /\ \A w \in Workers : pc[w] \in {"processReceive", "wsaSend"} => serving[w] = "Send"

\* k slots from the head on have been sent and not been accounted for yet.
Unaccounted(k) ==
    IF k = 0 THEN \A w \in Workers : transferred[w] = 0
    ELSE \E w \in Workers : /\ transferred[w] = k
                            /\ \A x \in Workers \ {w} : transferred[x] = 0

\* The messages are numbered through from the wire to the queue, where the
\* first k slots of the ring are also the last k of the wire.
Numbered(k) ==
    /\ k =< Len(wire)
    /\ \A i \in 1..Len(wire) : wire[i] = i
    /\ \A i \in 0..RingSize - 1 :
           sendTlsBuffer[Advance(BufferCapacity, head, i)] = Len(wire) - k + i + 1
    /\ \A i \in 1..Len(writeBio) : writeBio[i] = Len(wire) - k + RingSize + i
    /\ \A i \in 1..Len(sendAppQueue) :
           sendAppQueue[i] = Len(wire) - k + RingSize + Len(writeBio) + i
    /\ pushed = Len(wire) - k + RingSize + Len(writeBio) + Len(sendAppQueue)

StreamInOrder == \E k \in 0..RingSize : Unaccounted(k) /\ Numbered(k)

\* A pending WSASend has slots that are unread, from the head on.
InFlightIsContent ==
    inFlight # <<>> => /\ inFlight[1] = head /\ inFlight[2] =< RingSize
                       /\ Unaccounted(0)

\* The head that the owner of the mutex has loaded is the head or behind it.
LoadedHeadIsBehind ==
    \A w \in Workers : At(w, "fill") =>
        GetRingBufferSize(BufferCapacity, loadedHead, tail) >= RingSize

SendInv == StreamInOrder /\ InFlightIsContent /\ LoadedHeadIsBehind

IInv == /\ TypeOK /\ initiating =< pushed
        /\ LockIsExclusive /\ TransferredIsPending /\ SendIsOwned
        /\ (Quiet => SendInv)

-----------------------------------------------------------------------------
(* Types.                                                                  *)

\* The ring and its positions (Session.h).
LEMMA RingFacts ==
    ASSUME TypeOK
    PROVE  /\ BufferCapacity \in Nat \ {0}
           /\ Slots = 0..BufferCapacity - 1 /\ 0 \in Slots
           /\ head \in 0..BufferCapacity - 1 /\ tail \in 0..BufferCapacity - 1
           /\ loadedHead \in 0..BufferCapacity - 1
           /\ sendTlsBuffer \in [0..BufferCapacity - 1 -> Messages \cup {0}]
           /\ RingSize \in 0..BufferCapacity - 1
           /\ FreeSlots \in 0..BufferCapacity - 1
           /\ FreeSlots = BufferCapacity
                            - GetRingBufferSize(BufferCapacity, loadedHead, tail) - 1
  <1>1. /\ BufferCapacity \in Nat \ {0} /\ Slots = 0..BufferCapacity - 1 /\ 0 \in Slots
    BY SendAssumption DEF Slots
  <1>2. /\ head \in 0..BufferCapacity - 1 /\ tail \in 0..BufferCapacity - 1
        /\ loadedHead \in 0..BufferCapacity - 1
        /\ sendTlsBuffer \in [0..BufferCapacity - 1 -> Messages \cup {0}]
    BY <1>1 DEF TypeOK
  <1>3. RingSize \in 0..BufferCapacity - 1
    BY <1>1, <1>2, SizeType DEF RingSize
  <1>4. /\ FreeSlots \in 0..BufferCapacity - 1
        /\ FreeSlots = BufferCapacity
                         - GetRingBufferSize(BufferCapacity, loadedHead, tail) - 1
    BY <1>1, <1>2, SizeType DEF FreeSlots
  <1> QED
    BY <1>1, <1>2, <1>3, <1>4

\* What is taken from the BIO and how much (Session.cpp:507-540).
LEMMA TakenFacts ==
    ASSUME TypeOK
    PROVE  LET size == MinOf(FreeSlots, Len(writeBio))
           IN /\ size \in 0..Len(writeBio) /\ size \in 0..FreeSlots
              /\ SubSeq(writeBio, 1, size) \in Seq(Messages)
              /\ Len(SubSeq(writeBio, 1, size)) = size
              /\ SubSeq(writeBio, size + 1, Len(writeBio)) \in Seq(Messages)
              /\ Enqueued(size) \in [Slots -> Messages \cup {0}]
  <1> DEFINE size == MinOf(FreeSlots, Len(writeBio))
             taken == SubSeq(writeBio, 1, size)
  <1>1. writeBio \in Seq(Messages) /\ Len(writeBio) \in Nat
    BY DEF TypeOK
  <1>2. FreeSlots \in 0..BufferCapacity - 1 /\ BufferCapacity \in Nat \ {0}
    BY RingFacts
  <1>3. size \in 0..Len(writeBio) /\ size \in 0..FreeSlots
    BY <1>1, <1>2 DEF MinOf
  <1> HIDE DEF size
  <1>4. /\ taken \in Seq(Messages) /\ Len(taken) = size
        /\ SubSeq(writeBio, size + 1, Len(writeBio)) \in Seq(Messages)
    BY <1>1, <1>3, SubSeqProperties
  <1>5. Enqueued(size) \in [Slots -> Messages \cup {0}]
    <2> DEFINE V == Messages \cup {0}
    <2>1. taken \in Seq(V)
      BY <1>4, SeqMonotonic
    <2>2. /\ BufferCapacity \in Nat \ {0} /\ tail \in 0..BufferCapacity - 1
          /\ sendTlsBuffer \in [0..BufferCapacity - 1 -> V]
          /\ Slots = 0..BufferCapacity - 1
      BY RingFacts
    <2> HIDE DEF V, taken
    <2>3. Write(sendTlsBuffer, BufferCapacity, tail, taken) \in [0..BufferCapacity - 1 -> V]
      BY <2>1, <2>2, WriteType
    <2> QED
      BY <2>2, <2>3 DEF Enqueued, V, taken
  <1> QED
    BY <1>3, <1>4, <1>5 DEF size, taken

\* Every step keeps the types.
LEMMA TypeStep ==
    ASSUME TypeOK, initiating =< pushed, [Next]_vars
    PROVE  TypeOK' /\ initiating' =< pushed'
  <1> DEFINE Typed == TypeOK' /\ initiating' =< pushed'
  <1> USE DEF queueVars, ringVars, flagVars, closeVars, mutexVars, Goto, Pcs, At
  <1>0. Nobody \notin Workers /\ MaxMessages \in Nat /\ Messages = 1..MaxMessages
    BY SendAssumption DEF Messages
  <1>1. CASE UNCHANGED vars
    BY <1>1 DEF TypeOK, vars
  <1>2. CASE PushMessage
    <2>1. pushed' \in 0..MaxMessages /\ initiating' \in 0..MaxMessages /\ initiating' =< pushed'
      BY <1>0, <1>2 DEF PushMessage, TypeOK
    <2>2. sendAppQueue' \in Seq(Messages)
      <3>1. pushed + 1 \in Messages
        BY <1>0, <1>2 DEF PushMessage, TypeOK
      <3> QED
        BY <1>2, <3>1 DEF PushMessage, TypeOK
    <2> QED
      BY <1>2, <2>1, <2>2 DEF PushMessage, TypeOK
  <1>3. CASE InitiateSend
    BY <1>0, <1>3 DEF InitiateSend, TypeOK
  <1>4. CASE CloseElsewhere
    BY <1>4 DEF CloseElsewhere, TypeOK
  <1>5. ASSUME NEW w \in Workers, PostInitiateSend(w) PROVE Typed
    BY <1>5 DEF PostInitiateSend, TypeOK
  <1>6. ASSUME NEW w \in Workers, PostSend(w) PROVE Typed
    <2> DEFINE V == Messages \cup {0}
    <2>1. inFlight[1] \in Slots /\ inFlight[2] \in 0..BufferCapacity
      BY <1>6 DEF PostSend, TypeOK
    <2>2. /\ BufferCapacity \in Nat \ {0} /\ inFlight[1] \in 0..BufferCapacity - 1
          /\ sendTlsBuffer \in [0..BufferCapacity - 1 -> V] /\ inFlight[2] \in Nat
      BY <2>1, RingFacts
    <2>3. wire' \in Seq(V)
      <3>1. wire \in Seq(V)
        BY DEF TypeOK
      <3> HIDE DEF V
      <3>2. Read(sendTlsBuffer, BufferCapacity, inFlight[1], inFlight[2]) \in Seq(V)
        BY <2>2, ReadType
      <3>3. wire' = wire \o Read(sendTlsBuffer, BufferCapacity, inFlight[1], inFlight[2])
        BY <1>6 DEF PostSend
      <3> QED
        BY <3>1, <3>2, <3>3, ConcatProperties
    <2>4. transferred' \in [Workers -> 0..BufferCapacity] /\ pc' \in [Workers -> Pcs]
          /\ serving' \in [Workers -> {"Send", "Receive"}]
      BY <1>6, <2>1 DEF PostSend, TypeOK
    <2> QED
      BY <1>6, <2>3, <2>4 DEF PostSend, TypeOK
  <1>7. ASSUME NEW w \in Workers, PostIoFailed(w) PROVE Typed
    BY <1>7 DEF PostIoFailed, TypeOK
  <1>8. ASSUME NEW w \in Workers, ReceiveWantsSend(w) PROVE Typed
    BY <1>8 DEF ReceiveWantsSend, TypeOK, Events
  <1>9. ASSUME NEW w \in Workers, AdvanceHead(w) PROVE Typed
    <2>1. transferred[w] \in Nat /\ head \in Nat /\ BufferCapacity \in Nat \ {0}
      BY RingFacts DEF TypeOK
    <2>2. head' \in Slots
      BY <1>9, <2>1, AdvanceType, RingFacts DEF AdvanceHead
    <2>3. 0 \in 0..BufferCapacity
      BY <2>1
    <2> QED
      BY <1>9, <2>2, <2>3 DEF AdvanceHead, TypeOK
  <1>10. ASSUME NEW w \in Workers, BeginSend(w) PROVE Typed
    BY <1>10 DEF BeginSend, TypeOK
  <1>11. ASSUME NEW w \in Workers, LockProcess(w) PROVE Typed
    BY <1>11 DEF LockProcess, TypeOK
  <1>12. ASSUME NEW w \in Workers, NEW label \in Pcs, Unlock(w, label)
         PROVE  /\ processing' \in Workers \cup {Nobody} /\ loadedHead' \in Slots
                /\ wantRead' \in BOOLEAN /\ pc' \in [Workers -> Pcs]
                /\ serving' \in [Workers -> {"Send", "Receive"}]
    BY <1>12, RingFacts DEF Unlock, TypeOK
  <1>13. ASSUME NEW w \in Workers, Fail(w)
         PROVE  /\ processing' \in Workers \cup {Nobody} /\ loadedHead' \in Slots
                /\ wantRead' \in BOOLEAN /\ pc' \in [Workers -> Pcs]
                /\ serving' \in [Workers -> {"Send", "Receive"}]
                /\ sendOnline' \in BOOLEAN
    <2>1. sendOnline' \in BOOLEAN /\ Unlock(w, "close") /\ "close" \in Pcs
      BY <1>13 DEF Fail
    <2> QED
      BY <1>12, <2>1
  <1>14. ASSUME NEW w \in Workers, WriteMessage(w) PROVE Typed
    <2>1. /\ sendAppQueue' \in Seq(Messages) /\ Head(sendAppQueue) \in Messages
          /\ UNCHANGED <<pushed, initiating, ringVars, initiateOnline, inFlight,
                         wire, closeVars, transferred>>
      <3>1. sendAppQueue \in Seq(Messages) /\ sendAppQueue # <<>> /\ sendAppQueue' = Tail(sendAppQueue)
        BY <1>14 DEF WriteMessage, TypeOK
      <3> QED
        BY <1>14, <3>1, HeadTailProperties DEF WriteMessage
    <2>2. CASE /\ writeBio' = Append(writeBio, Head(sendAppQueue))
               /\ UNCHANGED <<mutexVars, wantReads, pc, serving, events, sendOnline>>
      <3>1. writeBio' \in Seq(Messages)
        BY <2>1, <2>2 DEF TypeOK
      <3> QED
        BY <2>1, <2>2, <3>1 DEF TypeOK
    <2>3. CASE /\ wantReads < MaxWantRead
               /\ wantReads' = wantReads + 1
               /\ wantRead' = TRUE
               /\ events' = events \cup {"WantRead"}
               /\ loadedHead' = head
               /\ Goto(w, "fill")
               /\ UNCHANGED <<writeBio, processing, serving, sendOnline>>
      <3>1. wantReads' \in 0..MaxWantRead
        BY <2>3, SendAssumption DEF TypeOK
      <3> QED
        BY <2>1, <2>3, <3>1 DEF TypeOK, Events
    <2>4. CASE /\ Fail(w)
               /\ events' = events \cup {"TlsError"}
               /\ UNCHANGED <<writeBio, wantReads>>
      <3>1. events' \subseteq Events
        BY <2>4 DEF TypeOK, Events
      <3> QED
        BY <1>13, <2>1, <2>4, <3>1 DEF TypeOK
    <2> QED
      BY <1>14, <2>2, <2>3, <2>4 DEF WriteMessage
  <1>15. ASSUME NEW w \in Workers, LoadHead(w) PROVE Typed
    BY <1>15 DEF LoadHead, TypeOK
  <1>16. ASSUME NEW w \in Workers, FillRing(w) PROVE Typed
    <2> DEFINE size == MinOf(FreeSlots, Len(writeBio))
    <2>1. /\ sendTlsBuffer' \in [Slots -> Messages \cup {0}]
          /\ writeBio' \in Seq(Messages) /\ size \in Nat
      BY <1>16, TakenFacts DEF FillRing
    <2>2. /\ UNCHANGED <<queueVars, head, initiateOnline, inFlight, wire, closeVars,
                         transferred, wantReads>>
          /\ \/ /\ tail' = Advance(BufferCapacity, tail, size)
                /\ AfterProcess(w)
                /\ UNCHANGED <<sendOnline, events>>
             \/ /\ Fail(w)
                /\ events' = events \cup {"RingFull"}
                /\ UNCHANGED tail
      BY <1>16 DEF FillRing
    <2> HIDE DEF size
    <2>3. CASE /\ tail' = Advance(BufferCapacity, tail, size)
               /\ AfterProcess(w)
               /\ UNCHANGED <<sendOnline, events>>
      <3>1. tail' \in Slots
        <4>1. BufferCapacity \in Nat \ {0} /\ tail \in Nat /\ Slots = 0..BufferCapacity - 1
          BY RingFacts
        <4> QED
          BY <2>1, <2>3, <4>1, AdvanceType
      <3>2. \E label \in Pcs : Unlock(w, label)
        BY <2>3 DEF AfterProcess
      <3> QED
        BY <1>12, <2>1, <2>2, <2>3, <3>1, <3>2 DEF TypeOK
    <2>4. CASE /\ Fail(w)
               /\ events' = events \cup {"RingFull"}
               /\ UNCHANGED tail
      <3>1. events' \subseteq Events
        BY <2>4 DEF TypeOK, Events
      <3> QED
        BY <1>13, <2>1, <2>2, <2>4, <3>1 DEF TypeOK
    <2> QED
      BY <2>2, <2>3, <2>4
  <1>17. ASSUME NEW w \in Workers, ProcessReceive(w) PROVE Typed
    BY <1>17 DEF ProcessReceive, TypeOK
  <1>18. ASSUME NEW w \in Workers, WsaSend(w) PROVE Typed
    <2>1. Contiguous(BufferCapacity, head, tail) \in 0..BufferCapacity /\ head \in Slots
      BY RingFacts DEF Contiguous
    <2>2. inFlight' = <<>> \/ inFlight' \in Slots \X (0..BufferCapacity)
      BY <1>18, <2>1 DEF WsaSend, TypeOK
    <2>3. events' \subseteq Events
      BY <1>18 DEF WsaSend, TypeOK, Events
    <2> QED
      BY <1>18, <2>2, <2>3 DEF WsaSend, TypeOK
  <1>19. ASSUME NEW w \in Workers, Close(w) PROVE Typed
    BY <1>19 DEF Close, TypeOK
  <1> HIDE DEF Typed
  <1> QED
    BY <1>1, <1>2, <1>3, <1>4, <1>5, <1>6, <1>7, <1>8, <1>9, <1>10, <1>11, <1>14,
       <1>15, <1>16, <1>17, <1>18, <1>19
    DEF Next, TakeInitiateSend, TakeSend, Continue, Typed

-----------------------------------------------------------------------------
(* The mutex, the flag and the owner of the Send.                          *)

\* How TryProcessSendBuffers ends: with the mutex free, its worker elsewhere
\* and, when it fails for a Send, the flag cleared (Session.cpp:171-198, 449-541).
LEMMA LeavesLock ==
    ASSUME TypeOK, NEW w \in Workers, FillRing(w) \/ (WriteMessage(w) /\ Fail(w))
    PROVE  /\ pc[w] \in {"write", "fill"}
           /\ \A x \in Workers : x # w => pc'[x] = pc[x] /\ serving'[x] = serving[x]
           /\ pc'[w] \in {"idle", "processReceive", "wsaSend", "close"}
           /\ serving'[w] = "Send"
           /\ pc'[w] \in {"processReceive", "wsaSend"} => serving[w] = "Send"
           /\ sendOnline' = sendOnline \/ (serving[w] = "Send" /\ sendOnline' = FALSE)
           /\ pc'[w] \in {"processReceive", "wsaSend"} => sendOnline' = sendOnline
           /\ inFlight' = inFlight
  <1> USE DEF flagVars
  <1>0. /\ pc \in [Workers -> Pcs] /\ serving \in [Workers -> {"Send", "Receive"}]
        /\ sendOnline \in BOOLEAN
    BY DEF TypeOK
  <1>1. pc[w] \in {"write", "fill"} /\ inFlight' = inFlight
    BY DEF FillRing, WriteMessage, At
  <1>2. ASSUME NEW label, Unlock(w, label)
        PROVE  /\ \A x \in Workers : x # w => pc'[x] = pc[x] /\ serving'[x] = serving[x]
               /\ pc'[w] = label /\ serving'[w] = "Send"
    BY <1>0, <1>2 DEF Unlock, Goto
  <1>3. CASE Fail(w)
    <2>1. Unlock(w, "close") /\ sendOnline' = (sendOnline /\ serving[w] # "Send")
      BY <1>3 DEF Fail
    <2>2. sendOnline' = sendOnline \/ (serving[w] = "Send" /\ sendOnline' = FALSE)
      BY <1>0, <2>1
    <2> QED
      BY <1>1, <1>2, <2>1, <2>2
  <1>4. CASE FillRing(w) /\ ~Fail(w)
    <2>1. AfterProcess(w) /\ sendOnline' = sendOnline
      BY <1>4 DEF FillRing
    <2>2. \E label \in {"idle", "processReceive", "wsaSend"} :
             /\ Unlock(w, label)
             /\ label # "idle" => serving[w] # "Receive"
      BY <2>1 DEF AfterProcess
    <2> QED
      BY <1>0, <1>1, <1>2, <2>1, <2>2
  <1> QED
    BY <1>3, <1>4

\* sendBuffersProcessMutex_ excludes (Session.cpp:449-453).
LEMMA LockStep ==
    ASSUME TypeOK, LockIsExclusive, [Next]_vars
    PROVE  LockIsExclusive'
  <1> USE DEF At, Goto
  <1>0. pc \in [Workers -> Pcs]
    BY DEF TypeOK
  <1>1. ASSUME UNCHANGED processing,
               \A w \in Workers : pc'[w] \in {"write", "fill"} => pc[w] \in {"write", "fill"}
        PROVE  LockIsExclusive'
    BY <1>1 DEF LockIsExclusive
  <1>2. CASE UNCHANGED vars \/ PushMessage \/ InitiateSend \/ CloseElsewhere
    BY <1>1, <1>2 DEF vars, PushMessage, InitiateSend, CloseElsewhere, mutexVars
  <1>3. ASSUME NEW w \in Workers, LockProcess(w) PROVE LockIsExclusive'
    <2>1. \A x \in Workers : pc[x] \notin {"write", "fill"}
      BY <1>3, SendAssumption DEF LockProcess, LockIsExclusive
    <2> QED
      BY <1>0, <1>3, <2>1 DEF LockProcess, LockIsExclusive
  <1>4. ASSUME NEW w \in Workers, FillRing(w) \/ (WriteMessage(w) /\ Fail(w))
        PROVE  LockIsExclusive'
    <2>1. pc[w] \in {"write", "fill"} /\ pc'[w] \notin {"write", "fill"}
      BY <1>4, LeavesLock
    <2>2. \A x \in Workers : x # w => pc'[x] = pc[x]
      BY <1>4, LeavesLock
    <2>3. \A x \in Workers : pc[x] \in {"write", "fill"} => x = w
      BY <2>1 DEF LockIsExclusive
    <2> QED
      BY <2>1, <2>2, <2>3 DEF LockIsExclusive
  <1>5. ASSUME NEW w \in Workers, (WriteMessage(w) /\ ~Fail(w)) \/ LoadHead(w)
        PROVE  LockIsExclusive'
    <2>1. processing' = processing /\ pc[w] = "write"
      BY <1>5 DEF WriteMessage, LoadHead, mutexVars
    <2>2. pc' = pc \/ pc' = [pc EXCEPT ![w] = "fill"]
      BY <1>5 DEF WriteMessage, LoadHead
    <2> QED
      BY <1>0, <1>1, <2>1, <2>2
  <1>6. ASSUME NEW w \in Workers,
               \/ PostInitiateSend(w) \/ PostSend(w) \/ PostIoFailed(w) \/ ReceiveWantsSend(w)
               \/ AdvanceHead(w) \/ BeginSend(w) \/ ProcessReceive(w) \/ WsaSend(w) \/ Close(w)
        PROVE  LockIsExclusive'
    <2>1. UNCHANGED processing
      BY <1>6 DEF PostInitiateSend, PostSend, PostIoFailed, ReceiveWantsSend, AdvanceHead,
                  BeginSend, ProcessReceive, WsaSend, Close, mutexVars
    <2>2. \E label : pc' = [pc EXCEPT ![w] = label] /\ label \notin {"write", "fill"}
      BY <1>6 DEF PostInitiateSend, PostSend, PostIoFailed, ReceiveWantsSend, AdvanceHead,
                  BeginSend, ProcessReceive, WsaSend, Close
    <2> QED
      BY <1>0, <1>1, <2>1, <2>2
  <1> QED
    BY <1>2, <1>3, <1>4, <1>5, <1>6 DEF Next, TakeInitiateSend, TakeSend, Continue

\* The bytes of a Send are accounted for once (Session.cpp:231-242).
LEMMA TransferredStep ==
    ASSUME TypeOK, TransferredIsPending, [Next]_vars
    PROVE  TransferredIsPending'
  <1> USE DEF At, Goto
  <1>0. pc \in [Workers -> Pcs] /\ transferred \in [Workers -> 0..BufferCapacity]
    BY DEF TypeOK
  <1>1. ASSUME UNCHANGED transferred,
               \A w \in Workers : pc[w] = "advance" => pc'[w] = "advance"
        PROVE  TransferredIsPending'
    BY <1>1 DEF TransferredIsPending
  <1>2. CASE UNCHANGED vars \/ PushMessage \/ InitiateSend \/ CloseElsewhere
    BY <1>1, <1>2 DEF vars, PushMessage, InitiateSend, CloseElsewhere
  <1>3. ASSUME NEW w \in Workers, PostSend(w) PROVE TransferredIsPending'
    BY <1>0, <1>3 DEF PostSend, TransferredIsPending
  <1>4. ASSUME NEW w \in Workers, AdvanceHead(w) PROVE TransferredIsPending'
    BY <1>0, <1>4 DEF AdvanceHead, TransferredIsPending
  <1>5. ASSUME NEW w \in Workers, FillRing(w) \/ (WriteMessage(w) /\ Fail(w))
        PROVE  TransferredIsPending'
    <2>1. transferred' = transferred
      BY <1>5 DEF FillRing, WriteMessage
    <2> QED
      BY <1>1, <1>5, <2>1, LeavesLock
  <1>6. ASSUME NEW w \in Workers,
               \/ PostInitiateSend(w) \/ PostIoFailed(w) \/ ReceiveWantsSend(w)
               \/ BeginSend(w) \/ LockProcess(w) \/ (WriteMessage(w) /\ ~Fail(w)) \/ LoadHead(w)
               \/ ProcessReceive(w) \/ WsaSend(w) \/ Close(w)
        PROVE  TransferredIsPending'
    <2>1. transferred' = transferred /\ pc[w] # "advance"
      BY <1>6 DEF PostInitiateSend, PostIoFailed, ReceiveWantsSend, BeginSend, LockProcess,
                  WriteMessage, LoadHead, ProcessReceive, WsaSend, Close
    <2>2. \A x \in Workers : x # w => pc'[x] = pc[x]
      BY <1>0, <1>6 DEF PostInitiateSend, PostIoFailed, ReceiveWantsSend, BeginSend, LockProcess,
                        WriteMessage, LoadHead, ProcessReceive, WsaSend, Close
    <2> QED
      BY <1>1, <2>1, <2>2
  <1> QED
    BY <1>2, <1>3, <1>4, <1>5, <1>6 DEF Next, TakeInitiateSend, TakeSend, Continue

\* isIoOnline_[Send] has one owner, from the block of TrySendAsync that sets it
\* to the completion that clears it (Session.cpp:139-242).
LEMMA OwnerStep ==
    ASSUME TypeOK, SendIsOwned, [Next]_vars
    PROVE  SendIsOwned'
  <1> USE DEF At, Goto, flagVars, SendIsOwned, OwnsSend
  <1>0. /\ pc \in [Workers -> Pcs] /\ serving \in [Workers -> {"Send", "Receive"}]
        /\ sendOnline \in BOOLEAN
    BY DEF TypeOK
  <1>1. CASE UNCHANGED vars \/ PushMessage \/ InitiateSend \/ CloseElsewhere
    BY <1>1 DEF vars, PushMessage, InitiateSend, CloseElsewhere
  <1>2. ASSUME NEW w \in Workers, PostInitiateSend(w) PROVE SendIsOwned'
    BY <1>0, <1>2 DEF PostInitiateSend
  <1>3. ASSUME NEW w \in Workers, PostSend(w) PROVE SendIsOwned'
    BY <1>0, <1>3 DEF PostSend
  <1>4. ASSUME NEW w \in Workers, PostIoFailed(w) PROVE SendIsOwned'
    BY <1>0, <1>4 DEF PostIoFailed
  <1>5. ASSUME NEW w \in Workers, ReceiveWantsSend(w) PROVE SendIsOwned'
    BY <1>0, <1>5 DEF ReceiveWantsSend
  <1>6. ASSUME NEW w \in Workers, AdvanceHead(w) PROVE SendIsOwned'
    BY <1>0, <1>6 DEF AdvanceHead
  <1>7. ASSUME NEW w \in Workers, BeginSend(w) PROVE SendIsOwned'
    BY <1>0, <1>7 DEF BeginSend
  <1>8. ASSUME NEW w \in Workers, LockProcess(w) PROVE SendIsOwned'
    BY <1>0, <1>8 DEF LockProcess
  <1>9. ASSUME NEW w \in Workers, FillRing(w) \/ (WriteMessage(w) /\ Fail(w))
        PROVE  SendIsOwned'
    <2>1. /\ pc[w] \in {"write", "fill"}
          /\ \A x \in Workers : x # w => pc'[x] = pc[x] /\ serving'[x] = serving[x]
      BY <1>9, LeavesLock
    <2>2. /\ pc'[w] \in {"idle", "processReceive", "wsaSend", "close"}
          /\ serving'[w] = "Send"
          /\ pc'[w] \in {"processReceive", "wsaSend"} => serving[w] = "Send"
      BY <1>9, LeavesLock
    <2>3. /\ sendOnline' = sendOnline \/ (serving[w] = "Send" /\ sendOnline' = FALSE)
          /\ pc'[w] \in {"processReceive", "wsaSend"} => sendOnline' = sendOnline
          /\ inFlight' = inFlight
      BY <1>9, LeavesLock
    <2> QED
      BY <1>0, <2>1, <2>2, <2>3
  <1>10. ASSUME NEW w \in Workers, (WriteMessage(w) /\ ~Fail(w)) \/ LoadHead(w)
         PROVE  SendIsOwned'
    <2>1. /\ pc[w] = "write"
          /\ pc' = pc \/ pc' = [pc EXCEPT ![w] = "fill"]
          /\ UNCHANGED <<serving, sendOnline, inFlight>>
      BY <1>10 DEF WriteMessage, LoadHead
    <2> QED
      BY <1>0, <2>1
  <1>11. ASSUME NEW w \in Workers, ProcessReceive(w) PROVE SendIsOwned'
    BY <1>0, <1>11 DEF ProcessReceive
  <1>12. ASSUME NEW w \in Workers, WsaSend(w) PROVE SendIsOwned'
    BY <1>0, <1>12 DEF WsaSend
  <1>13. ASSUME NEW w \in Workers, Close(w) PROVE SendIsOwned'
    BY <1>0, <1>13 DEF Close
  <1> QED
    BY <1>1, <1>2, <1>3, <1>4, <1>5, <1>6, <1>7, <1>8, <1>9, <1>10, <1>11, <1>12, <1>13
    DEF Next, TakeInitiateSend, TakeSend, Continue

-----------------------------------------------------------------------------
(* The stream of messages.                                                 *)

\* The lengths the numbering speaks of.
LEMMA LengthFacts ==
    ASSUME TypeOK
    PROVE  /\ Len(wire) \in Nat /\ Len(writeBio) \in Nat /\ Len(sendAppQueue) \in Nat
           /\ pushed \in Nat
           /\ \A w \in Workers : transferred[w] \in Nat
  <1>1. writeBio \in Seq(Messages) /\ sendAppQueue \in Seq(Messages)
    BY DEF TypeOK
  <1>2. wire \in Seq(Messages \cup {0})
    BY DEF TypeOK
  <1>3. pushed \in Nat /\ transferred \in [Workers -> 0..BufferCapacity]
        /\ BufferCapacity \in Nat
    BY RingFacts DEF TypeOK
  <1> QED
    BY <1>1, <1>2, <1>3

\* A step that moves no message.
LEMMA SendUnchanged ==
    ASSUME TypeOK, SendInv, UNCHANGED <<wire, ringVars, writeBio, sendAppQueue, pushed, transferred>>,
           inFlight' = inFlight \/ inFlight' = <<>>,
           \/ loadedHead' = head
           \/ /\ loadedHead' = loadedHead
              /\ \A w \in Workers : pc'[w] = "fill" => pc[w] = "fill"
    PROVE  SendInv'
  <1> USE DEF ringVars
  <1>1. RingSize' = RingSize
    BY DEF RingSize
  <1>2. StreamInOrder'
    BY <1>1 DEF SendInv, StreamInOrder, Unaccounted, Numbered
  <1>3. InFlightIsContent'
    BY <1>1 DEF SendInv, InFlightIsContent, Unaccounted
  <1>4. LoadedHeadIsBehind'
    <2>1. CASE loadedHead' = head
      <3>1. GetRingBufferSize(BufferCapacity, loadedHead, tail)' = RingSize
        BY <2>1 DEF RingSize
      <3>2. RingSize \in Nat
        BY RingFacts
      <3>3. RingSize >= RingSize
        BY <3>2
      <3> QED
        BY <1>1, <3>1, <3>3 DEF LoadedHeadIsBehind
    <2>2. CASE /\ loadedHead' = loadedHead
               /\ \A w \in Workers : pc'[w] = "fill" => pc[w] = "fill"
      BY <1>1, <2>2 DEF SendInv, LoadedHeadIsBehind, At
    <2> QED
      BY <2>1, <2>2
  <1> QED
    BY <1>2, <1>3, <1>4 DEF SendInv

\* A message that is pushed is the next one (Session.h:208-223).
LEMMA PushStep ==
    ASSUME TypeOK, SendInv, PushMessage
    PROVE  SendInv'
  <1>1. /\ pushed' = pushed + 1 /\ sendAppQueue' = Append(sendAppQueue, pushed + 1)
        /\ UNCHANGED <<wire, ringVars, writeBio, transferred, inFlight, loadedHead, pc>>
    BY DEF PushMessage, flagVars, mutexVars
  <1> USE DEF ringVars
  <1>2. RingSize' = RingSize
    BY <1>1 DEF RingSize
  <1>3. PICK k \in 0..RingSize : Unaccounted(k) /\ Numbered(k)
    BY DEF SendInv, StreamInOrder
  <1> DEFINE b == Len(wire) - k
  <1>4. /\ Len(sendAppQueue) \in Nat /\ Len(sendAppQueue') = Len(sendAppQueue) + 1
        /\ \A i \in 1..Len(sendAppQueue) : sendAppQueue'[i] = sendAppQueue[i]
        /\ sendAppQueue'[Len(sendAppQueue) + 1] = pushed + 1
    <2>1. sendAppQueue \in Seq(Nat) /\ pushed + 1 \in Nat
      <3>1. Messages \subseteq Nat
        BY SendAssumption DEF Messages
      <3>2. sendAppQueue \in Seq(Messages) /\ pushed \in Nat
        BY DEF TypeOK
      <3>3. sendAppQueue \in Seq(Nat)
        BY <3>1, <3>2, SeqMonotonic
      <3> QED
        BY <3>2, <3>3
    <2> QED
      BY <1>1, <2>1, AppendProperties
  <1>5. /\ pushed = b + RingSize + Len(writeBio) + Len(sendAppQueue)
        /\ \A i \in 1..Len(sendAppQueue) :
              sendAppQueue[i] = b + RingSize + Len(writeBio) + i
        /\ b \in Int /\ RingSize \in Nat /\ Len(writeBio) \in Nat
    BY <1>3, LengthFacts, RingFacts DEF Numbered
  <1>6. ASSUME NEW i \in 1..Len(sendAppQueue')
        PROVE  sendAppQueue'[i] = b + RingSize + Len(writeBio) + i
    <2> HIDE DEF b
    <2>1. CASE i = Len(sendAppQueue) + 1
      BY <1>4, <1>5, <2>1
    <2>2. CASE i # Len(sendAppQueue) + 1
      BY <1>4, <1>5, <2>2
    <2> QED
      BY <2>1, <2>2
  <1>7. pushed' = b + RingSize + Len(writeBio) + Len(sendAppQueue')
    <2> HIDE DEF b
    <2> QED
      BY <1>1, <1>4, <1>5
  <1>8. Numbered(k)'
    BY <1>1, <1>2, <1>3, <1>6, <1>7 DEF Numbered
  <1>9. Unaccounted(k)'
    BY <1>1, <1>3 DEF Unaccounted
  <1>10. StreamInOrder'
    BY <1>2, <1>8, <1>9 DEF StreamInOrder
  <1>11. InFlightIsContent'
    BY <1>1, <1>2 DEF SendInv, InFlightIsContent, Unaccounted
  <1>12. LoadedHeadIsBehind'
    BY <1>1, <1>2 DEF SendInv, LoadedHeadIsBehind, At
  <1> QED
    BY <1>10, <1>11, <1>12 DEF SendInv

\* What the client gets is what follows on the wire (Session.cpp:231-236).
LEMMA PostSendStep ==
    ASSUME TypeOK, SendInv, NEW w \in Workers, PostSend(w)
    PROVE  SendInv'
  <1>1. inFlight[1] = head /\ inFlight[2] =< RingSize /\ Unaccounted(0)
    BY DEF PostSend, SendInv, InFlightIsContent
  <1>3. PICK n \in 0..RingSize : n = inFlight[2]
    <2>1. inFlight[2] \in Nat
      BY DEF PostSend, TypeOK
    <2> QED
      BY <1>1, <2>1, RingFacts
  <1>m. n \in Nat /\ RingSize \in 0..BufferCapacity - 1 /\ BufferCapacity \in Nat
    BY RingFacts
  <1> DEFINE sent == Read(sendTlsBuffer, BufferCapacity, head, n)
             V == Messages \cup {0}
  <1>2. /\ wire' = wire \o sent /\ transferred' = [transferred EXCEPT ![w] = n]
        /\ inFlight' = <<>> /\ pc' = [pc EXCEPT ![w] = "advance"]
        /\ UNCHANGED <<sendTlsBuffer, head, tail, writeBio, sendAppQueue, pushed, loadedHead>>
    BY <1>1, <1>3 DEF PostSend, Goto, ringVars, mutexVars, queueVars
  <1>4. RingSize' = RingSize
    BY <1>2 DEF RingSize
  <1>5. PICK k \in 0..RingSize : Unaccounted(k) /\ Numbered(k)
    BY DEF SendInv, StreamInOrder
  <1>6. k = 0
    BY <1>1, <1>5 DEF Unaccounted
  <1>7. /\ \A i \in 1..Len(wire) : wire[i] = i
        /\ \A i \in 0..RingSize - 1 :
               sendTlsBuffer[Advance(BufferCapacity, head, i)] = Len(wire) + i + 1
        /\ \A i \in 1..Len(writeBio) : writeBio[i] = Len(wire) + RingSize + i
        /\ \A i \in 1..Len(sendAppQueue) :
               sendAppQueue[i] = Len(wire) + RingSize + Len(writeBio) + i
        /\ pushed = Len(wire) + RingSize + Len(writeBio) + Len(sendAppQueue)
        /\ Len(wire) \in Nat /\ Len(writeBio) \in Nat /\ Len(sendAppQueue) \in Nat
    BY <1>5, <1>6, LengthFacts DEF Numbered
  <1>8. /\ Len(wire') = Len(wire) + n
        /\ \A i \in 1..Len(wire) : wire'[i] = wire[i]
        /\ \A i \in 1..n : wire'[Len(wire) + i] = sendTlsBuffer[Advance(BufferCapacity, head, i - 1)]
    <2>1. wire \in Seq(V)
      BY DEF TypeOK
    <2>2. sent \in Seq(V)
      <3>1. /\ BufferCapacity \in Nat \ {0} /\ head \in 0..BufferCapacity - 1
            /\ sendTlsBuffer \in [0..BufferCapacity - 1 -> V] /\ n \in Nat
        BY <1>3, <1>m, RingFacts
      <3> HIDE DEF V
      <3> QED
        BY <3>1, ReadType
    <2>3. /\ Len(sent) = n
          /\ \A i \in 1..n : sent[i] = sendTlsBuffer[Advance(BufferCapacity, head, i - 1)]
      BY <1>3, <1>m, ReadAt
    <2> HIDE DEF sent, V
    <2>4. /\ Len(wire \o sent) = Len(wire) + n
          /\ \A i \in 1..Len(wire) + n :
                (wire \o sent)[i] = IF i =< Len(wire) THEN wire[i] ELSE sent[i - Len(wire)]
      BY <2>1, <2>2, <2>3, ConcatProperties
    <2>5. \A i \in 1..n : (wire \o sent)[Len(wire) + i] = sent[i]
      BY <1>3, <1>m, <1>7, <2>4
    <2> QED
      BY <1>2, <1>3, <1>m, <1>7, <2>3, <2>4, <2>5
  <1>9. \A i \in 1..Len(wire') : wire'[i] = i
    <2> SUFFICES ASSUME NEW i \in 1..Len(wire) + n PROVE wire'[i] = i
      BY <1>8
    <2>1. CASE i =< Len(wire)
      BY <1>3, <1>m, <1>7, <1>8, <2>1
    <2>2. CASE i > Len(wire)
      <3>1. PICK j \in 1..n : i = Len(wire) + j
        <4>1. i - Len(wire) \in 1..n /\ i = Len(wire) + (i - Len(wire))
          BY <1>3, <1>m, <1>7, <2>2
        <4> QED
          BY <4>1
      <3>2. j - 1 \in 0..RingSize - 1
        BY <1>3, <1>m
      <3>3. sendTlsBuffer[Advance(BufferCapacity, head, j - 1)] = Len(wire) + (j - 1) + 1
        BY <1>7, <3>2
      <3>4. wire'[i] = Len(wire) + (j - 1) + 1
        BY <1>8, <3>1, <3>3
      <3> QED
        BY <1>3, <1>m, <1>7, <3>1, <3>4
    <2> QED
      BY <1>3, <1>m, <1>7, <2>1, <2>2
  <1>10. Len(wire') - n = Len(wire) /\ n =< Len(wire')
    BY <1>3, <1>m, <1>7, <1>8
  <1>11. Numbered(n)'
    BY <1>2, <1>4, <1>7, <1>9, <1>10 DEF Numbered
  <1>12. Unaccounted(n)'
    <2>1. transferred \in [Workers -> 0..BufferCapacity]
      BY DEF TypeOK
    <2>2. \A x \in Workers : transferred[x] = 0
      BY <1>1 DEF Unaccounted
    <2>3. transferred'[w] = n /\ \A x \in Workers \ {w} : transferred'[x] = 0
      BY <1>2, <2>1, <2>2
    <2> QED
      BY <2>3 DEF Unaccounted
  <1>13. StreamInOrder'
    BY <1>3, <1>m, <1>4, <1>11, <1>12 DEF StreamInOrder
  <1>14. InFlightIsContent'
    BY <1>2 DEF InFlightIsContent
  <1>15. LoadedHeadIsBehind'
    <2>1. pc \in [Workers -> Pcs]
      BY DEF TypeOK
    <2>2. \A x \in Workers : At(x, "fill")' => At(x, "fill")
      BY <1>2, <2>1 DEF At
    <2> QED
      BY <1>2, <1>4, <2>2 DEF SendInv, LoadedHeadIsBehind
  <1> QED
    BY <1>13, <1>14, <1>15 DEF SendInv

\* What was sent is taken off the ring, once (Session.cpp:238-241).
LEMMA AdvanceHeadStep ==
    ASSUME TypeOK, SendInv, NEW w \in Workers, AdvanceHead(w)
    PROVE  SendInv'
  <1>1. /\ head' = Advance(BufferCapacity, head, transferred[w])
        /\ transferred' = [transferred EXCEPT ![w] = 0]
        /\ pc' = [pc EXCEPT ![w] = "begin"]
        /\ UNCHANGED <<wire, sendTlsBuffer, tail, writeBio, sendAppQueue, pushed,
                       inFlight, loadedHead>>
    BY DEF AdvanceHead, Goto, flagVars, mutexVars, queueVars
  <1>2. /\ transferred \in [Workers -> 0..BufferCapacity] /\ pc \in [Workers -> Pcs]
        /\ transferred[w] \in Nat
        /\ BufferCapacity \in Nat \ {0} /\ head \in 0..BufferCapacity - 1
        /\ tail \in 0..BufferCapacity - 1
        /\ RingSize \in 0..BufferCapacity - 1
    <2>1. transferred \in [Workers -> 0..BufferCapacity] /\ pc \in [Workers -> Pcs]
      BY DEF TypeOK
    <2>2. /\ BufferCapacity \in Nat \ {0} /\ head \in 0..BufferCapacity - 1
          /\ tail \in 0..BufferCapacity - 1 /\ RingSize \in 0..BufferCapacity - 1
      BY RingFacts
    <2>3. transferred[w] \in Nat
      BY <2>1, <2>2
    <2> QED
      BY <2>1, <2>2, <2>3
  <1>3. \A x \in Workers : At(x, "fill")' => At(x, "fill")
    BY <1>1, <1>2 DEF At
  <1>4. CASE transferred[w] = 0
    <2>1. head' = head /\ transferred' = transferred
      BY <1>1, <1>2, <1>4, AdvanceZero
    <2>2. \A x \in Workers : pc'[x] = "fill" => pc[x] = "fill"
      BY <1>3 DEF At
    <2> QED
      BY <1>1, <2>1, <2>2, SendUnchanged DEF ringVars
  <1>5. CASE transferred[w] # 0
    <2>1. PICK k \in 0..RingSize : Unaccounted(k) /\ Numbered(k)
      BY DEF SendInv, StreamInOrder
    <2>2. k = transferred[w] /\ \A x \in Workers \ {w} : transferred[x] = 0
      BY <1>5, <2>1 DEF Unaccounted
    <2>3. k \in 0..GetRingBufferSize(BufferCapacity, head, tail)
      BY <2>1 DEF RingSize
    <2>4. RingSize' = RingSize - k
      <3>1. GetRingBufferSize(BufferCapacity, Advance(BufferCapacity, head, k), tail)
              = GetRingBufferSize(BufferCapacity, head, tail) - k
        BY <1>2, <2>3, AdvanceHeadDropsPrefix
      <3> QED
        BY <1>1, <2>2, <3>1 DEF RingSize
    <2>5. Unaccounted(0)'
      BY <1>1, <1>2, <2>2 DEF Unaccounted
    <2> DEFINE W == Len(wire)
    <2>6. W \in Nat /\ Len(writeBio) \in Nat /\ Len(sendAppQueue) \in Nat /\ k \in Nat /\ k =< RingSize
      BY <1>2, <2>1, LengthFacts
    <2>7. ASSUME NEW i \in 0..RingSize - k - 1
          PROVE  sendTlsBuffer[Advance(BufferCapacity, head', i)] = W - 0 + i + 1
      <3>1. i \in Nat /\ k + i =< BufferCapacity /\ k + i \in 0..RingSize - 1
        BY <1>2, <2>6
      <3>2. Advance(BufferCapacity, head', i) = Advance(BufferCapacity, head, k + i)
        BY <1>1, <1>2, <2>2, <2>3, <3>1, AdvanceHeadDropsPrefix
      <3>3. sendTlsBuffer[Advance(BufferCapacity, head, k + i)] = W - k + (k + i) + 1
        BY <2>1, <3>1 DEF Numbered
      <3>4. W - k + (k + i) + 1 = W - 0 + i + 1
        BY <2>6, <3>1
      <3> QED
        BY <3>2, <3>3, <3>4
    <2>8. W - k + RingSize = W - 0 + (RingSize - k)
      BY <1>2, <2>6
    <2>9. Numbered(0)'
      <3>1. 0 =< Len(wire') /\ \A i \in 1..Len(wire') : wire'[i] = i
        BY <1>1, <2>1, <2>6 DEF Numbered
      <3>2. \A i \in 0..RingSize' - 1 :
               sendTlsBuffer'[Advance(BufferCapacity, head', i)] = Len(wire') - 0 + i + 1
        BY <1>1, <2>4, <2>7
      <3>3. \A i \in 1..Len(writeBio) : writeBio[i] = W - 0 + RingSize' + i
        BY <2>1, <2>4, <2>8 DEF Numbered
      <3>4. /\ \A i \in 1..Len(sendAppQueue) :
                   sendAppQueue[i] = W - 0 + RingSize' + Len(writeBio) + i
            /\ pushed = W - 0 + RingSize' + Len(writeBio) + Len(sendAppQueue)
        BY <2>1, <2>4, <2>8 DEF Numbered
      <3> QED
        BY <1>1, <3>1, <3>2, <3>3, <3>4 DEF Numbered
    <2>10. StreamInOrder'
      <3>1. 0 \in 0..RingSize'
        BY <1>2, <2>4, <2>6
      <3> QED
        BY <2>5, <2>9, <3>1 DEF StreamInOrder
    <2>11. InFlightIsContent'
      <3>1. inFlight = <<>>
        BY <1>5 DEF SendInv, InFlightIsContent, Unaccounted
      <3> QED
        BY <1>1, <3>1 DEF InFlightIsContent
    <2>12. LoadedHeadIsBehind'
      <3> DEFINE g == GetRingBufferSize(BufferCapacity, loadedHead, tail)
      <3>1. GetRingBufferSize(BufferCapacity, loadedHead, tail)' = g
        BY <1>1
      <3>2. g \in Nat
        <4>1. loadedHead \in 0..BufferCapacity - 1
          BY RingFacts
        <4>2. g \in 0..BufferCapacity - 1
          BY <1>2, <4>1, SizeType
        <4> QED
          BY <4>2
      <3>3. \A x \in Workers : At(x, "fill")' => g >= RingSize
        BY <1>3 DEF SendInv, LoadedHeadIsBehind
      <3> HIDE DEF g
      <3>4. \A x \in Workers : At(x, "fill")' => g >= RingSize'
        BY <1>2, <2>4, <2>6, <3>2, <3>3
      <3> QED
        BY <3>1, <3>4 DEF LoadedHeadIsBehind
    <2> QED
      BY <2>10, <2>11, <2>12 DEF SendInv
  <1> QED
    BY <1>4, <1>5

\* A message goes to the end of the BIO (Session.cpp:454-500).
LEMMA WriteStep ==
    ASSUME TypeOK, SendInv, Quiet', NEW w \in Workers, WriteMessage(w)
    PROVE  SendInv'
  <1>1. /\ sendAppQueue # <<>> /\ sendAppQueue' = Tail(sendAppQueue)
        /\ writeBio' = Append(writeBio, Head(sendAppQueue))
        /\ UNCHANGED <<wire, ringVars, pushed, transferred, inFlight, loadedHead, pc>>
    <2>1. "WantRead" \notin events' /\ "TlsError" \notin events'
      BY DEF Quiet
    <2> QED
      BY <2>1 DEF WriteMessage, mutexVars
  <1> USE DEF ringVars
  <1>2. RingSize' = RingSize
    BY <1>1 DEF RingSize
  <1>3. PICK k \in 0..RingSize : Unaccounted(k) /\ Numbered(k)
    BY DEF SendInv, StreamInOrder
  <1> DEFINE b == Len(wire) - k + RingSize
             B == Len(writeBio)
             Q == Len(sendAppQueue)
  <1>4. /\ \A i \in 1..B : writeBio[i] = b + i
        /\ \A i \in 1..Q : sendAppQueue[i] = b + B + i
        /\ pushed = b + B + Q
        /\ b \in Int /\ B \in Nat /\ Q \in Nat
    BY <1>3, LengthFacts, RingFacts DEF Numbered
  <1>5. /\ Q >= 1 /\ Head(sendAppQueue) = sendAppQueue[1]
        /\ Len(sendAppQueue') = Q - 1
        /\ \A i \in 1..Q - 1 : sendAppQueue'[i] = sendAppQueue[i + 1]
    <2>1. sendAppQueue \in Seq(Messages) /\ Q # 0
      BY <1>1, EmptySeq DEF TypeOK
    <2> QED
      BY <1>1, <1>4, <2>1, HeadTailProperties
  <1>6. /\ Len(writeBio') = B + 1
        /\ \A i \in 1..B : writeBio'[i] = writeBio[i]
        /\ writeBio'[B + 1] = Head(sendAppQueue)
    <2>1. writeBio \in Seq(Messages) /\ Head(sendAppQueue) \in Messages
      BY <1>1, HeadTailProperties DEF TypeOK
    <2> QED
      BY <1>1, <2>1, AppendProperties
  <1> HIDE DEF b, B, Q
  <1>7. ASSUME NEW i \in 1..B + 1
        PROVE  writeBio'[i] = b + i
    <2>1. CASE i = B + 1
      <3>1. 1 \in 1..Q
        BY <1>4, <1>5
      <3>2. sendAppQueue[1] = b + B + 1
        BY <1>4, <3>1
      <3> QED
        BY <1>4, <1>5, <1>6, <2>1, <3>2
    <2>2. CASE i # B + 1
      <3>1. i \in 1..B
        BY <1>4, <2>2
      <3> QED
        BY <1>4, <1>6, <3>1
    <2> QED
      BY <2>1, <2>2
  <1>8. ASSUME NEW i \in 1..Q - 1
        PROVE  sendAppQueue'[i] = b + (B + 1) + i
    <2>1. i + 1 \in 1..Q
      BY <1>4, <1>5
    <2>2. sendAppQueue'[i] = b + B + (i + 1)
      BY <1>4, <1>5, <2>1
    <2> QED
      BY <1>4, <2>2
  <1>9. pushed = b + (B + 1) + (Q - 1)
    BY <1>4
  <1>10. Numbered(k)'
    <2>1. Len(wire) - k + RingSize = b
      BY DEF b
    <2> QED
      BY <1>1, <1>2, <1>3, <1>5, <1>6, <1>7, <1>8, <1>9, <2>1 DEF Numbered
  <1>11. StreamInOrder'
    BY <1>1, <1>2, <1>3, <1>10 DEF StreamInOrder, Unaccounted
  <1>12. InFlightIsContent'
    BY <1>1, <1>2 DEF SendInv, InFlightIsContent, Unaccounted
  <1>13. LoadedHeadIsBehind'
    BY <1>1, <1>2 DEF SendInv, LoadedHeadIsBehind, At
  <1> QED
    BY <1>11, <1>12, <1>13 DEF SendInv

\* The head that was loaded bounds what is written (Session.cpp:502-532).
LEMMA WrittenIsFree ==
    ASSUME TypeOK, SendInv, NEW w \in Workers, At(w, "fill")
    PROVE  /\ MinOf(FreeSlots, Len(writeBio))
                \in 0..Available(BufferCapacity, head, tail)
           /\ Len(SubSeq(writeBio, 1, MinOf(FreeSlots, Len(writeBio))))
                = MinOf(FreeSlots, Len(writeBio))
  <1> DEFINE size == MinOf(FreeSlots, Len(writeBio))
             g == GetRingBufferSize(BufferCapacity, loadedHead, tail)
  <1>1. size \in 0..FreeSlots /\ Len(SubSeq(writeBio, 1, size)) = size
    BY TakenFacts
  <1>2. g >= RingSize
    BY DEF SendInv, LoadedHeadIsBehind
  <1>3. /\ FreeSlots = BufferCapacity - g - 1 /\ FreeSlots \in 0..BufferCapacity - 1
        /\ RingSize \in 0..BufferCapacity - 1 /\ BufferCapacity \in Nat \ {0}
        /\ head \in 0..BufferCapacity - 1 /\ tail \in 0..BufferCapacity - 1
        /\ loadedHead \in 0..BufferCapacity - 1
    BY RingFacts
  <1>4. Available(BufferCapacity, head, tail) = BufferCapacity - RingSize - 1
    BY <1>3, SizeType DEF RingSize
  <1>5. g \in 0..BufferCapacity - 1
    BY <1>3, SizeType
  <1> HIDE DEF size, g
  <1>6. size \in 0..Available(BufferCapacity, head, tail)
    BY <1>1, <1>2, <1>3, <1>4, <1>5
  <1> QED
    BY <1>1, <1>6 DEF size

\* What the BIO held goes behind what the ring holds (Session.cpp:507-540).
LEMMA FillStep ==
    ASSUME TypeOK, LockIsExclusive, SendInv, Quiet', NEW w \in Workers, FillRing(w)
    PROVE  SendInv'
  <1> DEFINE size == MinOf(FreeSlots, Len(writeBio))
             W == Len(wire)
             B == Len(writeBio)
  <1>0. pc \in [Workers -> Pcs] /\ writeBio \in Seq(Messages) /\ B \in Nat
    BY DEF TypeOK
  <1>1. /\ At(w, "fill")
        /\ sendTlsBuffer' = Enqueued(size)
        /\ SubSeq(writeBio, size + 1, B) = <<>> /\ writeBio' = <<>>
        /\ tail' = Advance(BufferCapacity, tail, size)
        /\ UNCHANGED <<wire, head, sendAppQueue, pushed, transferred, inFlight>>
    <2>1. "RingFull" \notin events'
      BY DEF Quiet
    <2> QED
      BY <2>1 DEF FillRing, queueVars
  <1>2. size = B
    <2>1. size \in 0..B
      BY TakenFacts
    <2> HIDE DEF size, B
    <2>2. size < B => Len(SubSeq(writeBio, size + 1, B)) # 0
      <3>1. ASSUME size < B PROVE Len(SubSeq(writeBio, size + 1, B)) = B - size
        <4>1. size + 1 \in 1..B + 1 /\ B \in 0..B
          BY <1>0, <2>1, <3>1
        <4>2. Len(SubSeq(writeBio, size + 1, B)) = B - (size + 1) + 1
          BY <1>0, <2>1, <3>1, <4>1, SubSeqProperties DEF B
        <4> QED
          BY <1>0, <2>1, <4>2
      <3> QED
        BY <1>0, <2>1, <3>1
    <2>3. Len(SubSeq(writeBio, size + 1, B)) = 0
      <3>1. SubSeq(writeBio, size + 1, B) = <<>>
        BY <1>1
      <3>2. Len(<<>>) = 0
        OBVIOUS
      <3> QED
        BY <3>1, <3>2, Zenon
    <2> QED
      BY <1>0, <2>1, <2>2, <2>3
  <1>3. SubSeq(writeBio, 1, size) = writeBio
    BY <1>0, <1>2, SubSeqFull
  <1>4. B \in 0..Available(BufferCapacity, head, tail)
    BY <1>1, <1>2, WrittenIsFree
  <1>5. /\ BufferCapacity \in Nat \ {0}
        /\ head \in 0..BufferCapacity - 1 /\ tail \in 0..BufferCapacity - 1
        /\ RingSize \in 0..BufferCapacity - 1
        /\ DOMAIN sendTlsBuffer = 0..BufferCapacity - 1
    BY RingFacts
  <1>6. sendTlsBuffer' = Write(sendTlsBuffer, BufferCapacity, tail, writeBio)
    BY <1>1, <1>3 DEF Enqueued
  <1>7. RingSize' = RingSize + B
    <2>1. GetRingBufferSize(BufferCapacity, head, Advance(BufferCapacity, tail, B))
            = GetRingBufferSize(BufferCapacity, head, tail) + B
      BY <1>4, <1>5, AdvanceTailAdds
    <2> QED
      BY <1>1, <1>2, <2>1 DEF RingSize
  <1>8. PICK k \in 0..RingSize : Unaccounted(k) /\ Numbered(k)
    BY DEF SendInv, StreamInOrder
  <1>9. /\ \A i \in 0..RingSize - 1 :
              sendTlsBuffer[Advance(BufferCapacity, head, i)] = W - k + i + 1
        /\ \A i \in 1..B : writeBio[i] = W - k + RingSize + i
        /\ \A i \in 1..Len(sendAppQueue) : sendAppQueue[i] = W - k + RingSize + B + i
        /\ pushed = W - k + RingSize + B + Len(sendAppQueue)
        /\ W \in Nat /\ k \in Nat
    BY <1>8, LengthFacts, <1>5 DEF Numbered
  <1> HIDE DEF B
  <1>10. ASSUME NEW i \in 0..RingSize + B - 1
         PROVE  sendTlsBuffer'[Advance(BufferCapacity, head, i)] = W - k + i + 1
    <2>1. CASE i < RingSize
      <3>1. i \in 0..GetRingBufferSize(BufferCapacity, head, tail) - 1
        BY <1>5, <2>1 DEF RingSize
      <3>2. Len(writeBio) \in 0..Available(BufferCapacity, head, tail)
        BY <1>4 DEF B
      <3>3. sendTlsBuffer'[Advance(BufferCapacity, head, i)]
              = sendTlsBuffer[Advance(BufferCapacity, head, i)]
        BY <1>5, <1>6, <3>1, <3>2, WriteKeepsContent
      <3> QED
        BY <1>9, <3>1, <3>3 DEF RingSize
    <2>2. CASE i >= RingSize
      <3>1. PICK j \in 0..B - 1 : i = RingSize + j
        <4>1. i - RingSize \in 0..B - 1 /\ i = RingSize + (i - RingSize)
          BY <1>0, <1>5, <2>2
        <4> QED
          BY <4>1
      <3>2. Len(writeBio) \in 0..Available(BufferCapacity, head, tail) /\ j \in 0..Len(writeBio) - 1
        BY <1>4, <3>1 DEF B
      <3>3. sendTlsBuffer'[Advance(BufferCapacity, head,
                                   GetRingBufferSize(BufferCapacity, head, tail) + j)]
              = writeBio[j + 1]
        BY <1>5, <1>6, <3>2, WriteAddsData
      <3>4. writeBio[j + 1] = W - k + RingSize + (j + 1)
        BY <1>0, <1>9, <3>1
      <3>5. W - k + RingSize + (j + 1) = W - k + i + 1
        BY <1>5, <1>9, <3>1
      <3> QED
        BY <3>1, <3>3, <3>4, <3>5 DEF RingSize
    <2> QED
      BY <1>5, <2>1, <2>2
  <1>11. Numbered(k)'
    <2>1. Len(writeBio') = 0
      BY <1>1
    <2>2. k =< Len(wire') /\ \A i \in 1..Len(wire') : wire'[i] = i
      BY <1>1, <1>8 DEF Numbered
    <2>3. \A i \in 0..RingSize' - 1 :
             sendTlsBuffer'[Advance(BufferCapacity, head', i)] = Len(wire') - k + i + 1
      <3>1. RingSize' = RingSize + B /\ head' = head /\ Len(wire') = W
        BY <1>1, <1>7
      <3> SUFFICES ASSUME NEW i \in 0..RingSize' - 1
                   PROVE  sendTlsBuffer'[Advance(BufferCapacity, head', i)]
                            = Len(wire') - k + i + 1
        OBVIOUS
      <3>2. i \in 0..RingSize + B - 1
        BY <1>0, <1>5, <3>1
      <3>3. sendTlsBuffer'[Advance(BufferCapacity, head, i)] = W - k + i + 1
        BY <1>10, <3>2
      <3> QED
        BY <3>1, <3>3
    <2>4. W - k + (RingSize + B) + 0 = W - k + RingSize + B
      BY <1>0, <1>5, <1>9
    <2>5. /\ \A i \in 1..Len(sendAppQueue) :
                sendAppQueue[i] = W - k + RingSize' + Len(writeBio') + i
          /\ pushed = W - k + RingSize' + Len(writeBio') + Len(sendAppQueue)
      BY <1>7, <1>9, <2>1, <2>4
    <2>6. \A i \in 1..Len(writeBio') : writeBio'[i] = W - k + RingSize' + i
      BY <2>1
    <2> QED
      BY <1>1, <2>2, <2>3, <2>5, <2>6 DEF Numbered
  <1>12. StreamInOrder'
    <2>1. k \in 0..RingSize'
      BY <1>0, <1>5, <1>7
    <2> QED
      BY <1>1, <1>8, <1>11, <2>1 DEF StreamInOrder, Unaccounted
  <1>13. InFlightIsContent'
    <2>1. ASSUME inFlight # <<>>
          PROVE  inFlight[1] = head /\ inFlight[2] =< RingSize + B /\ Unaccounted(0)
      <3>1. inFlight[1] = head /\ inFlight[2] =< RingSize /\ Unaccounted(0)
        BY <2>1 DEF SendInv, InFlightIsContent
      <3>2. inFlight[2] \in Nat
        BY <1>5, <2>1 DEF TypeOK
      <3> QED
        BY <1>0, <1>5, <3>1, <3>2
    <2> QED
      BY <1>1, <1>7, <2>1 DEF InFlightIsContent, Unaccounted
  <1>14. LoadedHeadIsBehind'
    <2>1. \A x \in Workers : x # w => pc[x] # "fill" /\ pc'[x] = pc[x]
      <3>1. \A x \in Workers : x # w => pc[x] # "fill"
        BY <1>1 DEF LockIsExclusive, At
      <3>2. \A x \in Workers : x # w => pc'[x] = pc[x]
        BY LeavesLock
      <3> QED
        BY <3>1, <3>2
    <2>2. pc'[w] # "fill"
      BY LeavesLock
    <2> QED
      BY <2>1, <2>2 DEF LoadedHeadIsBehind, At
  <1> QED
    BY <1>12, <1>13, <1>14 DEF SendInv

\* A WSASend takes content of the ring, all of it unsent (Session.cpp:200-229).
LEMMA WsaStep ==
    ASSUME TypeOK, TransferredIsPending, SendInv, Quiet', NEW w \in Workers, WsaSend(w)
    PROVE  SendInv'
  <1>0. /\ pc \in [Workers -> Pcs]
        /\ \A x \in Workers : transferred[x] \in Nat
    BY LengthFacts DEF TypeOK
  <1>1. /\ UNCHANGED <<wire, ringVars, writeBio, sendAppQueue, pushed, transferred, loadedHead>>
        /\ \E label \in {"idle", "close"} : pc' = [pc EXCEPT ![w] = label]
    BY DEF WsaSend, Goto, queueVars, mutexVars
  <1>2. \A x \in Workers : pc'[x] = "fill" => pc[x] = "fill"
    BY <1>0, <1>1
  <1>3. CASE inFlight' = inFlight
    BY <1>1, <1>2, <1>3, SendUnchanged
  <1>4. CASE inFlight' # inFlight
    <2>1. /\ inFlight' = <<head, Contiguous(BufferCapacity, head, tail)>>
          /\ ~HeadIsStale
      BY <1>4 DEF WsaSend, Quiet
    <2>2. Unaccounted(0)
      <3>1. \A x \in Workers : ~(transferred[x] > 0)
        BY <2>1 DEF HeadIsStale, TransferredIsPending
      <3> QED
        BY <1>0, <3>1 DEF Unaccounted
    <2>3. Contiguous(BufferCapacity, head, tail) =< RingSize
      BY RingFacts DEF Contiguous, RingSize, GetRingBufferSize
    <2>4. RingSize' = RingSize
      BY <1>1 DEF RingSize, ringVars
    <2>5. InFlightIsContent'
      BY <1>1, <2>1, <2>2, <2>3, <2>4 DEF InFlightIsContent, Unaccounted, ringVars
    <2>6. StreamInOrder'
      BY <1>1, <2>4 DEF SendInv, StreamInOrder, Unaccounted, Numbered, ringVars
    <2>7. LoadedHeadIsBehind'
      BY <1>1, <1>2, <2>4 DEF SendInv, LoadedHeadIsBehind, At, ringVars
    <2> QED
      BY <2>5, <2>6, <2>7 DEF SendInv
  <1> QED
    BY <1>3, <1>4

\* No step forgets an exceptional event.
LEMMA EventsGrow ==
    ASSUME [Next]_vars
    PROVE  Quiet' => Quiet
  <1>1. events \subseteq events'
    <2>1. ASSUME NEW w \in Workers, WriteMessage(w) PROVE events \subseteq events'
      BY <2>1 DEF WriteMessage
    <2>2. ASSUME NEW w \in Workers, FillRing(w) PROVE events \subseteq events'
      BY <2>2 DEF FillRing
    <2>3. ASSUME NEW w \in Workers,
                 \/ PostInitiateSend(w) \/ PostSend(w) \/ PostIoFailed(w) \/ ReceiveWantsSend(w)
                 \/ AdvanceHead(w) \/ BeginSend(w) \/ LockProcess(w) \/ LoadHead(w)
                 \/ ProcessReceive(w) \/ WsaSend(w) \/ Close(w)
          PROVE  events \subseteq events'
      BY <2>3 DEF PostInitiateSend, PostSend, PostIoFailed, ReceiveWantsSend, AdvanceHead,
                  BeginSend, LockProcess, LoadHead, ProcessReceive, WsaSend, Close
    <2>4. CASE UNCHANGED vars \/ PushMessage \/ InitiateSend \/ CloseElsewhere
      BY <2>4 DEF vars, PushMessage, InitiateSend, CloseElsewhere
    <2> QED
      BY <2>1, <2>2, <2>3, <2>4 DEF Next, TakeInitiateSend, TakeSend, Continue
  <1> QED
    BY <1>1 DEF Quiet

\* Every step keeps the messages in order.
LEMMA StreamStep ==
    ASSUME TypeOK, LockIsExclusive, TransferredIsPending, SendInv, Quiet', [Next]_vars
    PROVE  SendInv'
  <1>0. pc \in [Workers -> Pcs]
    BY DEF TypeOK
  <1>1. CASE UNCHANGED vars \/ InitiateSend \/ CloseElsewhere
    <2>1. UNCHANGED <<wire, ringVars, writeBio, sendAppQueue, pushed, transferred,
                      inFlight, loadedHead, pc>>
      BY <1>1 DEF vars, InitiateSend, CloseElsewhere, queueVars, ringVars, flagVars, mutexVars
    <2> QED
      BY <2>1, SendUnchanged
  <1>2. ASSUME NEW w \in Workers,
               \/ PostInitiateSend(w) \/ PostIoFailed(w) \/ ReceiveWantsSend(w) \/ BeginSend(w)
               \/ LockProcess(w) \/ ProcessReceive(w) \/ Close(w)
        PROVE  SendInv'
    <2>1. UNCHANGED <<wire, ringVars, writeBio, sendAppQueue, pushed, transferred, loadedHead>>
      BY <1>2 DEF PostInitiateSend, PostIoFailed, ReceiveWantsSend, BeginSend, LockProcess,
                  ProcessReceive, Close, queueVars, ringVars, mutexVars
    <2>2. inFlight' = inFlight \/ inFlight' = <<>>
      BY <1>2 DEF PostInitiateSend, PostIoFailed, ReceiveWantsSend, BeginSend, LockProcess,
                  ProcessReceive, Close, flagVars
    <2>3. \A x \in Workers : pc'[x] = "fill" => pc[x] = "fill"
      BY <1>0, <1>2 DEF PostInitiateSend, PostIoFailed, ReceiveWantsSend, BeginSend, LockProcess,
                        ProcessReceive, Close, Goto
    <2> QED
      BY <2>1, <2>2, <2>3, SendUnchanged
  <1>3. ASSUME NEW w \in Workers, LoadHead(w) PROVE SendInv'
    <2>1. /\ UNCHANGED <<wire, ringVars, writeBio, sendAppQueue, pushed, transferred, inFlight>>
          /\ loadedHead' = head
      BY <1>3 DEF LoadHead, queueVars, ringVars, flagVars
    <2> QED
      BY <2>1, SendUnchanged
  <1>4. CASE PushMessage
    BY <1>4, PushStep
  <1>5. ASSUME NEW w \in Workers, PostSend(w) PROVE SendInv'
    BY <1>5, PostSendStep
  <1>6. ASSUME NEW w \in Workers, AdvanceHead(w) PROVE SendInv'
    BY <1>6, AdvanceHeadStep
  <1>7. ASSUME NEW w \in Workers, WriteMessage(w) PROVE SendInv'
    BY <1>7, WriteStep
  <1>8. ASSUME NEW w \in Workers, FillRing(w) PROVE SendInv'
    BY <1>8, FillStep
  <1>9. ASSUME NEW w \in Workers, WsaSend(w) PROVE SendInv'
    BY <1>9, WsaStep
  <1> QED
    BY <1>1, <1>2, <1>3, <1>4, <1>5, <1>6, <1>7, <1>8, <1>9
    DEF Next, TakeInitiateSend, TakeSend, Continue

-----------------------------------------------------------------------------
(* The theorems.                                                           *)

\* A session begins with empty buffers and nothing to send (Session.cpp:12-41).
LEMMA InitInv == Init => IInv
  <1> SUFFICES ASSUME Init PROVE IInv
    OBVIOUS
  <1> USE DEF Init
  <1>1. TypeOK
    <2>1. /\ BufferCapacity \in Nat \ {0} /\ MaxMessages \in Nat /\ MaxWantRead \in Nat
          /\ 0 \in Slots
      BY SendAssumption DEF Slots
    <2>2. "idle" \in Pcs
      BY DEF Pcs
    <2>3. /\ sendAppQueue \in Seq(Messages) /\ writeBio \in Seq(Messages)
          /\ wire \in Seq(Messages \cup {0})
      OBVIOUS
    <2>4. /\ pc \in [Workers -> Pcs] /\ serving \in [Workers -> {"Send", "Receive"}]
          /\ transferred \in [Workers -> 0..BufferCapacity]
          /\ sendTlsBuffer \in [Slots -> Messages \cup {0}]
      BY <2>1, <2>2
    <2>5. /\ pushed \in 0..MaxMessages /\ initiating \in 0..MaxMessages
          /\ wantReads \in 0..MaxWantRead
      BY <2>1
    <2> QED
      BY <2>1, <2>3, <2>4, <2>5 DEF TypeOK
  <1>2. RingSize = 0 /\ Unaccounted(0)
    BY DEF RingSize, GetRingBufferSize, Unaccounted
  <1>3. Numbered(0)
    BY <1>2 DEF Numbered
  <1>4. StreamInOrder
    BY <1>2, <1>3 DEF StreamInOrder
  <1>5. InFlightIsContent /\ LoadedHeadIsBehind
    BY DEF InFlightIsContent, LoadedHeadIsBehind, At
  <1>6. LockIsExclusive /\ TransferredIsPending /\ initiating =< pushed
    BY DEF LockIsExclusive, TransferredIsPending
  <1>7. SendIsOwned
    BY DEF SendIsOwned, OwnsSend
  <1> QED
    BY <1>1, <1>4, <1>5, <1>6, <1>7 DEF IInv, SendInv

\* The invariant is inductive.
LEMMA NextInv == IInv /\ [Next]_vars => IInv'
  <1> SUFFICES ASSUME IInv, [Next]_vars PROVE IInv'
    OBVIOUS
  <1>1. /\ TypeOK /\ initiating =< pushed /\ LockIsExclusive /\ TransferredIsPending
        /\ SendIsOwned /\ (Quiet => SendInv)
    BY DEF IInv
  <1>2. TypeOK' /\ initiating' =< pushed'
    BY <1>1, TypeStep
  <1>3. LockIsExclusive'
    BY <1>1, LockStep
  <1>4. TransferredIsPending'
    BY <1>1, TransferredStep
  <1>5. SendIsOwned'
    BY <1>1, OwnerStep
  <1>6. ASSUME Quiet' PROVE SendInv'
    <2>1. SendInv
      BY <1>1, <1>6, EventsGrow
    <2> QED
      BY <1>1, <1>6, <2>1, StreamStep
  <1> QED
    BY <1>2, <1>3, <1>4, <1>5, <1>6 DEF IInv

\* So it holds in every state of a session's send path.
THEOREM Invariant == Spec => []IInv
  BY InitInv, NextInv, PTL DEF Spec

\* The types: no head or tail leaves its ring, no WSABUF is longer than it
\* (Session.cpp:200-242, 502-541).
THEOREM SendTypes == Spec => []TypeOK
  BY Invariant, PTL DEF IInv

\* A sequence that counts, as the client's messages do.
Counts(s) == \A i \in 1..Len(s) : s[i] = i

\* One that counts on behind it.
LEMMA ConcatCounts ==
    ASSUME NEW S, NEW s \in Seq(S), NEW t \in Seq(S), Counts(s),
           \A i \in 1..Len(t) : t[i] = Len(s) + i
    PROVE  /\ s \o t \in Seq(S)
           /\ Len(s \o t) = Len(s) + Len(t)
           /\ Counts(s \o t)
  <1>1. Len(s) \in Nat /\ Len(t) \in Nat
    OBVIOUS
  <1>2. /\ Len(s \o t) = Len(s) + Len(t) /\ s \o t \in Seq(S)
        /\ \A i \in 1..Len(s) + Len(t) : (s \o t)[i] = IF i =< Len(s) THEN s[i] ELSE t[i - Len(s)]
    BY <1>1, ConcatProperties
  <1>3. ASSUME NEW i \in 1..Len(s) + Len(t) PROVE (s \o t)[i] = i
    <2>1. CASE i =< Len(s)
      BY <1>1, <1>2, <2>1 DEF Counts
    <2>2. CASE i > Len(s)
      <3>1. i - Len(s) \in 1..Len(t) /\ Len(s) + (i - Len(s)) = i
        BY <1>1, <2>2
      <3> QED
        BY <1>1, <1>2, <2>2, <3>1
    <2> QED
      BY <1>1, <2>1, <2>2
  <1> QED
    BY <1>2, <1>3 DEF Counts

\* The number of slots that are sent and not accounted for is the one there is.
LEMMA AccountedIsUnaccounted ==
    ASSUME TypeOK, TransferredIsPending, NEW k \in 0..RingSize, Unaccounted(k)
    PROVE  Accounted = k
  <1>1. \A w \in Workers : transferred[w] \in Nat
    BY LengthFacts
  <1>2. RingSize \in 0..BufferCapacity - 1 /\ BufferCapacity \in Nat \ {0}
    BY RingFacts
  <1>3. k \in 0..BufferCapacity
    BY <1>2
  <1>4. CASE k = 0
    <2>1. ~HeadIsStale
      BY <1>1, <1>4 DEF HeadIsStale, Unaccounted
    <2> QED
      BY <1>3, <1>4, <2>1 DEF Accounted
  <1>5. CASE k # 0
    <2>1. PICK w \in Workers : /\ transferred[w] = k
                               /\ \A x \in Workers \ {w} : transferred[x] = 0
      BY <1>5 DEF Unaccounted
    <2>2. transferred[w] > 0
      BY <1>3, <1>5, <2>1
    <2>3. HeadIsStale
      BY <2>2 DEF HeadIsStale, TransferredIsPending
    <2>4. \A n \in 0..BufferCapacity :
             (\E u \in Workers : transferred[u] = n /\ n > 0) <=> n = k
      BY <1>3, <2>1, <2>2
    <2> QED
      BY <1>3, <2>3, <2>4 DEF Accounted
  <1> QED
    BY <1>4, <1>5

\* For every ring and any number of messages, actors and worker threads, what
\* has been pushed is on the wire, in the ring, in the BIO and in the queue, in
\* this order and once, unless one of the exceptional events has happened
\* (Session.cpp:139-242, 449-541).
THEOREM MessagesLeaveInOrder == Spec => []StreamIsWhole
  <1>1. ASSUME IInv PROVE StreamIsWhole
    <2> SUFFICES ASSUME Quiet
                 PROVE  wire \o RingContent \o writeBio \o sendAppQueue = [i \in 1..pushed |-> i]
      BY DEF StreamIsWhole, Quiet
    <2>1. TypeOK /\ TransferredIsPending /\ SendInv
      BY <1>1 DEF IInv
    <2>2. PICK k \in 0..RingSize : Unaccounted(k) /\ Numbered(k)
      BY <2>1 DEF SendInv, StreamInOrder
    <2>3. Accounted = k
      BY <2>1, <2>2, AccountedIsUnaccounted
    <2> DEFINE content == Read(sendTlsBuffer, BufferCapacity, head, RingSize)
               V == Messages \cup {0}
               W == Len(wire)
    <2>4. /\ BufferCapacity \in Nat \ {0} /\ head \in 0..BufferCapacity - 1
          /\ sendTlsBuffer \in [0..BufferCapacity - 1 -> V]
          /\ RingSize \in 0..BufferCapacity - 1 /\ RingSize \in Nat
      BY <2>1, RingFacts
    <2>5. W \in Nat /\ Len(writeBio) \in Nat /\ Len(sendAppQueue) \in Nat /\ pushed \in Nat
      BY <2>1, LengthFacts
    <2>6. RingContent = SubSeq(content, k + 1, RingSize)
      BY <2>3 DEF RingContent, RingSize
    <2>7. content \in Seq(V) /\ Len(content) = RingSize
          /\ \A i \in 1..RingSize : content[i] = sendTlsBuffer[Advance(BufferCapacity, head, i - 1)]
      <3>1. content \in Seq(V)
        <4> HIDE DEF V
        <4> QED
          BY <2>4, ReadType
      <3> QED
        BY <2>4, <3>1, ReadAt
    <2>8. \A i \in 1..RingSize : content[i] = W - k + i
      <3> SUFFICES ASSUME NEW i \in 1..RingSize PROVE content[i] = W - k + i
        OBVIOUS
      <3>1. i - 1 \in 0..RingSize - 1
        BY <2>4
      <3>2. sendTlsBuffer[Advance(BufferCapacity, head, i - 1)] = W - k + (i - 1) + 1
        BY <2>2, <3>1 DEF Numbered
      <3>3. W - k + (i - 1) + 1 = W - k + i
        BY <2>4, <2>5
      <3> HIDE DEF content
      <3> QED
        BY <2>7, <3>2, <3>3
    <2> HIDE DEF content, V
    <2>9. /\ RingContent \in Seq(V) /\ Len(RingContent) = RingSize - k
          /\ \A i \in 1..RingSize - k : RingContent[i] = W + i
      <3>1. RingContent \in Seq(V)
        BY <2>4, <2>6, <2>7, SubSeqProperties
      <3>2. Len(RingContent) = RingSize - k
        <4>1. k < RingSize => Len(SubSeq(content, k + 1, RingSize)) = RingSize - (k + 1) + 1
          BY <2>4, <2>7, SubSeqProperties
        <4>2. k = RingSize => SubSeq(content, k + 1, RingSize) = <<>>
          BY <2>4, <2>7, SubSeqProperties
        <4>3. k = RingSize => Len(SubSeq(content, k + 1, RingSize)) = 0
          BY <4>2
        <4> QED
          BY <2>4, <2>6, <4>1, <4>3
      <3>3. ASSUME NEW i \in 1..RingSize - k PROVE RingContent[i] = W + i
        <4>1. RingContent[i] = content[k + i]
          BY <2>4, <2>6, <2>7
        <4>2. k + i \in 1..RingSize
          BY <2>4
        <4>3. content[k + i] = W - k + (k + i)
          BY <2>8, <4>2
        <4> QED
          BY <2>4, <2>5, <4>1, <4>3
      <3> QED
        BY <3>1, <3>2, <3>3
    <2>10. wire \in Seq(V) /\ Counts(wire)
      <3>1. wire \in Seq(V)
        BY <2>1 DEF TypeOK, V
      <3> QED
        BY <2>2, <3>1 DEF Numbered, Counts
    <2>11. writeBio \in Seq(V) /\ sendAppQueue \in Seq(V)
      <3>1. writeBio \in Seq(Messages) /\ sendAppQueue \in Seq(Messages)
        BY <2>1 DEF TypeOK
      <3> QED
        BY <3>1, SeqMonotonic DEF V
    <2> DEFINE s1 == wire \o RingContent
               s2 == s1 \o writeBio
               s3 == s2 \o sendAppQueue
    <2>12. s1 \in Seq(V) /\ Len(s1) = W + Len(RingContent) /\ Counts(s1)
      BY <2>9, <2>10, ConcatCounts
    <2>13. Len(s1) = W - k + RingSize
      BY <2>4, <2>5, <2>9, <2>12
    <2> HIDE DEF s1
    <2>14. s2 \in Seq(V) /\ Len(s2) = Len(s1) + Len(writeBio) /\ Counts(s2)
      <3>1. \A i \in 1..Len(writeBio) : writeBio[i] = Len(s1) + i
        BY <2>2, <2>13 DEF Numbered
      <3> QED
        BY <2>11, <2>12, <3>1, ConcatCounts
    <2> HIDE DEF s2
    <2>15. s3 \in Seq(V) /\ Len(s3) = Len(s2) + Len(sendAppQueue) /\ Counts(s3)
      <3>1. \A i \in 1..Len(sendAppQueue) : sendAppQueue[i] = Len(s2) + i
        BY <2>2, <2>13, <2>14 DEF Numbered
      <3> QED
        BY <2>11, <2>14, <3>1, ConcatCounts
    <2>16. Len(s3) = pushed
      BY <2>2, <2>13, <2>14, <2>15 DEF Numbered
    <2> HIDE DEF s3
    <2>17. s3 = [i \in 1..pushed |-> i]
      BY <2>15, <2>16 DEF Counts
    <2> QED
      BY <2>17 DEF s1, s2, s3
  <1> QED
    BY <1>1, Invariant, PTL

\* What a pending WSASend refers to is not written to, though the receive path
\* fills the ring meanwhile and the head it goes by is an old one
\* (Session.cpp:200-229, 502-532).
THEOREM PendingBytesAreStable == Spec => KernelBufferIsStable
  <1> DEFINE Stable == Quiet => \A slot \in InFlightSlots :
                                    sendTlsBuffer'[slot] = sendTlsBuffer[slot]
  <1>1. ASSUME IInv, [Next]_vars PROVE Stable
    <2> SUFFICES ASSUME Quiet, NEW slot \in InFlightSlots
                 PROVE  sendTlsBuffer'[slot] = sendTlsBuffer[slot]
      OBVIOUS
    <2>1. TypeOK /\ SendInv
      BY <1>1 DEF IInv
    <2>2. ASSUME NEW w \in Workers, FillRing(w)
          PROVE  sendTlsBuffer'[slot] = sendTlsBuffer[slot]
      <3> DEFINE data == SubSeq(writeBio, 1, MinOf(FreeSlots, Len(writeBio)))
      <3>1. Len(data) \in 0..Available(BufferCapacity, head, tail)
        BY <2>1, <2>2, WrittenIsFree DEF FillRing
      <3>2. sendTlsBuffer' = Write(sendTlsBuffer, BufferCapacity, tail, data)
        BY <2>2 DEF FillRing, Enqueued
      <3>3. /\ BufferCapacity \in Nat \ {0}
            /\ head \in 0..BufferCapacity - 1 /\ tail \in 0..BufferCapacity - 1
            /\ DOMAIN sendTlsBuffer = 0..BufferCapacity - 1
            /\ RingSize \in Nat
        BY <2>1, RingFacts
      <3>4. /\ inFlight # <<>> /\ inFlight[1] = head /\ inFlight[2] =< RingSize
        BY <2>1 DEF InFlightSlots, SendInv, InFlightIsContent
      <3>5. inFlight[2] \in Nat
        BY <2>1, <3>3, <3>4 DEF TypeOK
      <3>6. PICK i \in 0..inFlight[2] - 1 : slot = Advance(BufferCapacity, head, i)
        BY <3>4 DEF InFlightSlots
      <3>7. i \in 0..GetRingBufferSize(BufferCapacity, head, tail) - 1
        BY <3>3, <3>4, <3>5 DEF RingSize
      <3> HIDE DEF data
      <3> QED
        BY <3>1, <3>2, <3>3, <3>6, <3>7, WriteKeepsContent
    <2>3. ASSUME ~ \E w \in Workers : FillRing(w)
          PROVE  sendTlsBuffer' = sendTlsBuffer
      BY <1>1, <2>3 DEF Next, TakeInitiateSend, TakeSend, Continue, vars, ringVars, PushMessage,
          InitiateSend, CloseElsewhere, PostInitiateSend, PostSend, PostIoFailed, AdvanceHead,
          BeginSend, LockProcess, WriteMessage, LoadHead, ProcessReceive, WsaSend, Close,
          ReceiveWantsSend
    <2> QED
      BY <2>2, <2>3
  <1> QED
    BY <1>1, Invariant, PTL DEF Spec, KernelBufferIsStable, Quiet

\* A WSASend is started only when none is pending: isIoOnline_[Send] is set
\* before and cleared by the completion alone (Session.cpp:139-229).
SendsAreSequential == [][inFlight' # inFlight => inFlight = <<>> \/ inFlight' = <<>>]_vars

\* So it is, with any number of workers in TrySendAsync and with the receive
\* path processing the send buffers on its own.
THEOREM OneSendAtATime == Spec => SendsAreSequential
  <1> DEFINE Sequential == inFlight' # inFlight => inFlight = <<>> \/ inFlight' = <<>>
  <1>1. ASSUME IInv, [Next]_vars PROVE Sequential
    <2>1. ASSUME NEW w \in Workers, WsaSend(w) PROVE inFlight = <<>>
      <3>1. OwnsSend(w)
        BY <1>1, <2>1 DEF WsaSend, At, IInv, SendIsOwned, OwnsSend
      <3> QED
        BY <1>1, <3>1 DEF IInv, SendIsOwned
    <2>2. ASSUME ~ \E w \in Workers : WsaSend(w)
          PROVE  inFlight' = inFlight \/ inFlight' = <<>>
      BY <1>1, <2>2 DEF Next, TakeInitiateSend, TakeSend, Continue, vars, flagVars, PushMessage,
          InitiateSend, CloseElsewhere, PostInitiateSend, PostSend, PostIoFailed, AdvanceHead,
          BeginSend, LockProcess, WriteMessage, LoadHead, ProcessReceive, FillRing, Close,
          ReceiveWantsSend
    <2> QED
      BY <2>1, <2>2
  <1> QED
    BY <1>1, Invariant, PTL DEF Spec, SendsAreSequential
=============================================================================
