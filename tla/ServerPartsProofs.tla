--------------------------- MODULE ServerPartsProofs ---------------------------
(***************************************************************************)
(* Proofs about parts of the server, each for every size of it: those that *)
(* several threads share, SpscRingBuffer, ParallelExecutor,                *)
(* MpscMessageBodyPool and DbConnectionPool, and those of one thread,      *)
(* EntityManager, GlobalObjects, SparseList and SparseArray.               *)
(*                                                                         *)
(* The ring: behind the head lie the bytes that were produced and not      *)
(* consumed, in order; what the producer stores lies behind the tail, in   *)
(* slots the consumer does not look at; and the copy that the consumer     *)
(* makes of a block in two pieces has begun with the block's bytes.        *)
(*                                                                         *)
(* The executor: the chunks that are claimed are disjoint and reach up to  *)
(* one chunk below the shared index, so that an index is run, is waiting   *)
(* in one thread's chunk, or lies above; and a thread stops only when the  *)
(* shared index is past the last axis.                                     *)
(*                                                                         *)
(* The pool: that no waiter is forgotten is inductive by itself once       *)
(* connections are known to be finitely many: a connection that comes back *)
(* brings one notified thread with it, and one that is taken is taken by a *)
(* thread that was counted.                                                *)
(*                                                                         *)
(* The entities: the version of a node is the number of its creations, up  *)
(* to the wrap, so that two creations with the same version are Versions   *)
(* creations apart.                                                        *)
(*                                                                         *)
(* The global objects: each pair of maps is one to one, and the events of  *)
(* one round take contexts out of it one after another.                    *)
(*                                                                         *)
(* The bodies: no block changes its class, whoever acquires. With one      *)
(* producer the blocks without an owner are the lists: a block in a list   *)
(* has a place, counted from the end, and the Next of the block above it   *)
(* is the block below, which stays so between the read and the exchange.   *)
(*                                                                         *)
(* The containers: a node of a list has a place too, and a removal shifts  *)
(* those above it. Only the Prev of a node in use has to be right, so long *)
(* as nodes leave the free list at its head alone.                         *)
(* The dense array and the dense indices are each other's inverse.         *)
(***************************************************************************)
EXTENDS SpscRingBuffer, ParallelExecutor, DbConnectionPool, EntityManager,
        GlobalObjects, MpscMessageBodyPool, SparseList, SparseArray,
        RingArithmeticProofs, FiniteSetTheorems, SequenceTheorems, TLAPS

-----------------------------------------------------------------------------
(* SpscRingBuffer                                                          *)

\* The slots that have been published and not dequeued.
Unread == GetRingBufferSize(Capacity, ringHead, ringTail)

RingTypeInv ==
    /\ ringBuffer \in [0..Capacity - 1 -> Nat]
    /\ ringHead \in 0..Capacity - 1 /\ ringTail \in 0..Capacity - 1
    /\ tempDequeue \in Seq(Nat)
    /\ enqueuePc \in {"idle", "copy"} /\ dequeuePc \in {"idle", "copy", "use"}
    /\ enqueueSize \in Nat /\ stored \in Nat /\ produced \in Nat
    /\ dequeueSize \in Nat /\ copied \in Nat /\ consumed \in Nat

\* Behind the head lie the bytes from `consumed` on.
ContentIsStream ==
    /\ produced = (consumed + Unread) % ByteValues
    /\ \A i \in 0..Unread - 1 :
          ringBuffer[Advance(Capacity, ringHead, i)] = (consumed + i) % ByteValues

\* What the producer has stored lies behind the tail, in slots that are free.
StoredIsBehindTail ==
    enqueuePc = "copy" =>
        /\ stored =< enqueueSize
        /\ enqueueSize =< Available(Capacity, ringHead, ringTail)
        /\ \A i \in 0..stored - 1 :
              ringBuffer[Advance(Capacity, ringTail, i)]
                  = (produced + i) % ByteValues

\* The block of the consumer is unread, and its copy, where it needs one, has
\* begun with the right bytes.
BlockIsUnread ==
    dequeuePc # "idle" =>
        /\ dequeueSize =< Unread
        /\ dequeuePc = "copy" => ~InOnePiece(dequeueSize) /\ copied < dequeueSize
        /\ dequeuePc = "use" => InOnePiece(dequeueSize) \/ copied = dequeueSize
        /\ InOnePiece(dequeueSize) \/ Len(tempDequeue) = copied
        /\ InOnePiece(dequeueSize)
           \/ \A i \in 1..copied : tempDequeue[i] = (consumed + (i - 1)) % ByteValues

RingInv == RingTypeInv /\ ContentIsStream /\ StoredIsBehindTail /\ BlockIsUnread

-----------------------------------------------------------------------------
\* The unread slots and the available ones (SpscRingBuffer.h:129-137).
LEMMA UnreadType ==
    ASSUME RingTypeInv
    PROVE  /\ Unread \in 0..Capacity - 1
           /\ Available(Capacity, ringHead, ringTail) = Capacity - Unread - 1
           /\ Capacity \in Nat \ {0} /\ ByteValues \in Nat \ {0}
BY SizeType, SpscAssumption DEF RingTypeInv, Unread

\* An empty ring (SpscRingBuffer.cpp:7-14).
LEMMA RingInvInit == RingInit => RingInv
<1> SUFFICES ASSUME RingInit PROVE RingInv
    OBVIOUS
<1>1. RingTypeInv
    BY SpscAssumption DEF RingInit, RingTypeInv
<1>2. Unread = 0
    BY SpscAssumption DEF RingInit, Unread, GetRingBufferSize
<1>3. ContentIsStream
    <2>1. (consumed + Unread) % ByteValues = 0
        BY <1>2, SpscAssumption DEF RingInit
    <2> QED BY <1>2, <2>1 DEF RingInit, ContentIsStream
<1>4. StoredIsBehindTail /\ BlockIsUnread
    BY DEF RingInit, StoredIsBehindTail, BlockIsUnread
<1> QED BY <1>1, <1>3, <1>4 DEF RingInv

\* Nothing but types (SpscRingBuffer.h:48-108).
LEMMA RingTypeStep == RingInv /\ [RingNext]_ringVars => RingTypeInv'
<1> SUFFICES ASSUME RingInv, [RingNext]_ringVars PROVE RingTypeInv'
    OBVIOUS
<1> USE SpscAssumption DEF RingInv, RingTypeInv
<1>0. /\ Capacity \in Nat \ {0} /\ ringHead \in Nat /\ ringTail \in Nat
      /\ copied \in Nat /\ enqueueSize \in Nat /\ dequeueSize \in Nat
    OBVIOUS
<1>1. ASSUME NEW size \in SpscBlockSizes, TryEnqueue(size) PROVE RingTypeInv'
    BY <1>1 DEF TryEnqueue, consumerVars
<1>2. ASSUME NEW size \in SpscBlockSizes, TryPeek(size) PROVE RingTypeInv'
    BY <1>2 DEF TryPeek, producerVars
<1>3. ASSUME Store PROVE RingTypeInv'
    <2>1. (produced + stored) % ByteValues \in Nat
        OBVIOUS
    <2>2. ringBuffer' \in [0..Capacity - 1 -> Nat]
        BY <1>3, <2>1 DEF Store
    <2> QED BY <1>3, <2>2 DEF Store, consumerVars
<1>4. ASSUME Publish PROVE RingTypeInv'
    <2>1. Advance(Capacity, ringTail, enqueueSize) \in 0..Capacity - 1
        BY <1>0, AdvanceType
    <2>2. (produced + enqueueSize) % ByteValues \in Nat
        OBVIOUS
    <2> QED BY <1>4, <2>1, <2>2 DEF Publish, consumerVars
<1>5. ASSUME Load PROVE RingTypeInv'
    <2>1. Advance(Capacity, ringHead, copied) \in 0..Capacity - 1
        BY <1>0, AdvanceType
    <2>2. tempDequeue' \in Seq(Nat)
        BY <1>5, <2>1 DEF Load
    <2> QED BY <1>5, <2>2 DEF Load, producerVars
<1>6. ASSUME Dequeue PROVE RingTypeInv'
    <2>1. Advance(Capacity, ringHead, dequeueSize) \in 0..Capacity - 1
        BY <1>0, AdvanceType
    <2>2. (consumed + dequeueSize) % ByteValues \in Nat
        OBVIOUS
    <2> QED BY <1>6, <2>1, <2>2 DEF Dequeue, producerVars
<1>7. CASE UNCHANGED ringVars
    BY <1>7 DEF ringVars, producerVars, consumerVars
<1> QED BY <1>1, <1>2, <1>3, <1>4, <1>5, <1>6, <1>7 DEF RingNext

\* The slot behind the stored bytes is free (SpscRingBuffer.h:51-62).
LEMMA SlotToStoreIsFree ==
    ASSUME RingInv, enqueuePc = "copy", stored < enqueueSize
    PROVE  /\ \A i \in 0..Unread - 1 :
                Advance(Capacity, ringHead, i) # Advance(Capacity, ringTail, stored)
           /\ \A i \in 0..stored - 1 :
                Advance(Capacity, ringTail, i) # Advance(Capacity, ringTail, stored)
           /\ Advance(Capacity, ringTail, stored) \in 0..Capacity - 1
<1>0. /\ Unread \in 0..Capacity - 1 /\ Capacity \in Nat \ {0}
      /\ stored \in Nat /\ Unread + stored \in 0..Capacity - 1
      /\ ringHead \in 0..Capacity - 1 /\ ringTail \in 0..Capacity - 1
    BY UnreadType DEF RingInv, RingTypeInv, StoredIsBehindTail
<1>1. stored \in 0..Capacity - Unread /\ stored \in 0..Capacity - 1
    BY <1>0
<1>2. Advance(Capacity, ringHead, Unread + stored) = Advance(Capacity, ringTail, stored)
    BY <1>0, <1>1, TailIsBehindContent DEF Unread
<1>3. ASSUME NEW i \in 0..Unread - 1
      PROVE  Advance(Capacity, ringHead, i) # Advance(Capacity, ringTail, stored)
    <2>1. i \in 0..Capacity - 1 /\ i # Unread + stored
        BY <1>0
    <2>2. Advance(Capacity, ringHead, i) # Advance(Capacity, ringHead, Unread + stored)
        BY <2>1, <1>0, AdvanceInjective
    <2> QED BY <2>2, <1>2
<1>4. ASSUME NEW i \in 0..stored - 1
      PROVE  Advance(Capacity, ringTail, i) # Advance(Capacity, ringTail, stored)
    <2>1. i \in 0..Capacity - 1 /\ i # stored
        BY <1>0
    <2> QED BY <2>1, <1>0, <1>1, AdvanceInjective
<1>5. Advance(Capacity, ringTail, stored) \in 0..Capacity - 1
    BY <1>0, <1>1, AdvanceType
<1> QED BY <1>3, <1>4, <1>5

\* The producer stores a byte (SpscRingBuffer.h:59-62).
LEMMA StoreKeepsStream ==
    ASSUME RingInv, RingTypeInv', Store
    PROVE  ContentIsStream' /\ StoredIsBehindTail' /\ BlockIsUnread'
<1> DEFINE slot == Advance(Capacity, ringTail, stored)
<1>0. /\ Unread \in 0..Capacity - 1 /\ Capacity \in Nat \ {0}
      /\ ringHead \in 0..Capacity - 1 /\ ringTail \in 0..Capacity - 1
      /\ stored \in Nat /\ ringBuffer \in [0..Capacity - 1 -> Nat]
    BY UnreadType DEF RingInv, RingTypeInv
<1>1. /\ \A i \in 0..Unread - 1 : Advance(Capacity, ringHead, i) # slot
      /\ \A i \in 0..stored - 1 : Advance(Capacity, ringTail, i) # slot
      /\ slot \in 0..Capacity - 1
    BY SlotToStoreIsFree DEF Store
<1>2. /\ ringBuffer' = [ringBuffer EXCEPT ![slot] = (produced + stored) % ByteValues]
      /\ stored' = stored + 1 /\ stored < enqueueSize /\ enqueuePc = "copy"
      /\ UNCHANGED <<ringHead, ringTail, produced, consumed, enqueueSize,
                     dequeuePc, dequeueSize, copied, tempDequeue>>
    BY DEF Store, consumerVars
<1>3. /\ \A i \in 0..Unread - 1 : Advance(Capacity, ringHead, i) \in 0..Capacity - 1
      /\ \A i \in 0..stored - 1 : Advance(Capacity, ringTail, i) \in 0..Capacity - 1
    <2>1. /\ ringHead \in Nat /\ ringTail \in Nat
          /\ 0..Unread - 1 \subseteq Nat /\ 0..stored - 1 \subseteq Nat
        BY <1>0
    <2> QED BY <1>0, <2>1, AdvanceType
<1> HIDE DEF slot
<1>4. \A k \in 0..Capacity - 1 :
          ringBuffer'[k] = IF k = slot THEN (produced + stored) % ByteValues
                           ELSE ringBuffer[k]
    BY <1>2, <1>0
<1>5. Unread' = Unread
    BY <1>2 DEF Unread
<1>6. ContentIsStream'
    BY <1>1, <1>2, <1>3, <1>4, <1>5 DEF ContentIsStream, RingInv
<1>7. StoredIsBehindTail'
    <2>1. \A i \in 0..stored - 1 :
              ringBuffer'[Advance(Capacity, ringTail, i)] = (produced + i) % ByteValues
        BY <1>1, <1>2, <1>3, <1>4 DEF StoredIsBehindTail, RingInv
    <2>2. ringBuffer'[Advance(Capacity, ringTail, stored)]
              = (produced + stored) % ByteValues
        BY <1>1, <1>4 DEF slot
    <2>3. \A i \in 0..stored' - 1 :
              ringBuffer'[Advance(Capacity, ringTail, i)] = (produced + i) % ByteValues
        <3> SUFFICES ASSUME NEW i \in 0..stored' - 1
                     PROVE  ringBuffer'[Advance(Capacity, ringTail, i)]
                                = (produced + i) % ByteValues
            OBVIOUS
        <3>1. i = stored \/ i \in 0..stored - 1
            BY <1>0, <1>2
        <3> QED BY <3>1, <2>1, <2>2
    <2>4. stored' =< enqueueSize' /\ enqueueSize' =< Available(Capacity, ringHead', ringTail')
        BY <1>0, <1>2 DEF StoredIsBehindTail, RingInv, RingTypeInv
    <2> QED BY <2>3, <2>4, <1>2 DEF StoredIsBehindTail
<1>8. BlockIsUnread'
    BY <1>2, <1>5 DEF BlockIsUnread, RingInv, InOnePiece
<1> QED BY <1>6, <1>7, <1>8

\* The producer publishes its block (SpscRingBuffer.h:78).
LEMMA PublishKeepsStream ==
    ASSUME RingInv, RingTypeInv', Publish
    PROVE  ContentIsStream' /\ StoredIsBehindTail' /\ BlockIsUnread'
<1>0. /\ Unread \in 0..Capacity - 1 /\ Capacity \in Nat \ {0}
      /\ ByteValues \in Nat \ {0}
      /\ ringHead \in 0..Capacity - 1 /\ ringTail \in 0..Capacity - 1
      /\ stored \in Nat /\ enqueueSize \in Nat
      /\ consumed \in Nat /\ produced \in Nat /\ dequeueSize \in Nat
    BY UnreadType DEF RingInv, RingTypeInv
<1>1. /\ ringTail' = Advance(Capacity, ringTail, enqueueSize)
      /\ produced' = (produced + enqueueSize) % ByteValues
      /\ enqueuePc = "copy" /\ stored = enqueueSize /\ enqueuePc' = "idle"
      /\ UNCHANGED <<ringBuffer, ringHead, consumed, dequeuePc, dequeueSize,
                     copied, tempDequeue>>
    BY DEF Publish, consumerVars
<1>2. /\ enqueueSize \in 0..Available(Capacity, ringHead, ringTail)
      /\ Available(Capacity, ringHead, ringTail) = Capacity - Unread - 1
      /\ \A i \in 0..enqueueSize - 1 :
            ringBuffer[Advance(Capacity, ringTail, i)] = (produced + i) % ByteValues
    BY <1>0, <1>1, UnreadType DEF RingInv, StoredIsBehindTail
<1>3. Unread' = Unread + enqueueSize
    BY <1>0, <1>1, <1>2, AdvanceTailAdds DEF Unread
<1>4. produced = (consumed + Unread) % ByteValues
    BY DEF RingInv, ContentIsStream
<1>5. \A i \in Nat : (produced + i) % ByteValues = (consumed + (Unread + i)) % ByteValues
    <2> SUFFICES ASSUME NEW i \in Nat
                 PROVE  (produced + i) % ByteValues
                            = (consumed + (Unread + i)) % ByteValues
        OBVIOUS
    <2>1. consumed + Unread \in Nat
        BY <1>0
    <2>2. (((consumed + Unread) % ByteValues) + i) % ByteValues
              = ((consumed + Unread) + i) % ByteValues
        BY <1>0, <2>1, RemainderOfSum
    <2>3. (consumed + Unread) + i = consumed + (Unread + i)
        BY <1>0
    <2> QED BY <1>4, <2>2, <2>3
<1>6. ASSUME NEW i \in 0..Unread' - 1
      PROVE  ringBuffer'[Advance(Capacity, ringHead, i)] = (consumed + i) % ByteValues
    <2>1. CASE i \in 0..Unread - 1
        BY <2>1, <1>1 DEF RingInv, ContentIsStream
    <2>2. CASE i \notin 0..Unread - 1
        <3>1. PICK j \in 0..enqueueSize - 1 : i = Unread + j
            <4>1. i - Unread \in 0..enqueueSize - 1 /\ i = Unread + (i - Unread)
                BY <2>2, <1>0, <1>3
            <4> QED BY <4>1
        <3>2. j \in 0..Capacity - Unread /\ j \in Nat
            BY <1>0, <1>2, <3>1
        <3>3. Advance(Capacity, ringHead, Unread + j) = Advance(Capacity, ringTail, j)
            BY <1>0, <3>2, TailIsBehindContent DEF Unread
        <3>4. ringBuffer[Advance(Capacity, ringTail, j)] = (produced + j) % ByteValues
            BY <1>2, <3>1
        <3> QED BY <1>1, <1>5, <3>1, <3>2, <3>3, <3>4
    <2> QED BY <2>1, <2>2
<1>7. produced' = (consumed' + Unread') % ByteValues
    BY <1>0, <1>1, <1>3, <1>5
<1>8. ContentIsStream'
    BY <1>1, <1>6, <1>7 DEF ContentIsStream
<1>9. StoredIsBehindTail'
    BY <1>1 DEF StoredIsBehindTail
<1>10. BlockIsUnread'
    BY <1>0, <1>1, <1>3 DEF BlockIsUnread, RingInv, InOnePiece
<1> QED BY <1>8, <1>9, <1>10

\* The consumer copies a byte (SpscRingBuffer.h:104-105).
LEMMA LoadKeepsStream ==
    ASSUME RingInv, RingTypeInv', Load
    PROVE  ContentIsStream' /\ StoredIsBehindTail' /\ BlockIsUnread'
<1>0. /\ Unread \in 0..Capacity - 1 /\ Capacity \in Nat \ {0}
      /\ copied \in Nat /\ dequeueSize \in Nat /\ consumed \in Nat
      /\ tempDequeue \in Seq(Nat) /\ ringBuffer \in [0..Capacity - 1 -> Nat]
      /\ ringHead \in 0..Capacity - 1
    BY UnreadType DEF RingInv, RingTypeInv
<1>1. /\ dequeuePc = "copy" /\ copied < dequeueSize /\ copied' = copied + 1
      /\ tempDequeue' = Append(tempDequeue, ringBuffer[Advance(Capacity, ringHead, copied)])
      /\ dequeuePc' = IF copied' = dequeueSize THEN "use" ELSE "copy"
      /\ UNCHANGED <<ringBuffer, ringHead, ringTail, consumed, produced,
                     dequeueSize, enqueuePc, enqueueSize, stored>>
    BY DEF Load, producerVars
<1>2. Unread' = Unread
    BY <1>1 DEF Unread
<1>3. ContentIsStream' /\ StoredIsBehindTail'
    BY <1>1, <1>2 DEF ContentIsStream, StoredIsBehindTail, RingInv
<1>4. /\ dequeueSize =< Unread /\ ~InOnePiece(dequeueSize)
      /\ Len(tempDequeue) = copied
      /\ \A i \in 1..copied : tempDequeue[i] = (consumed + (i - 1)) % ByteValues
    BY <1>1 DEF RingInv, BlockIsUnread
<1>5. ringBuffer[Advance(Capacity, ringHead, copied)] = (consumed + copied) % ByteValues
    <2>1. copied \in 0..Unread - 1
        BY <1>0, <1>1, <1>4
    <2> QED BY <2>1 DEF RingInv, ContentIsStream
<1>6. ringBuffer[Advance(Capacity, ringHead, copied)] \in Nat
    <2>1. ringHead \in Nat
        BY <1>0
    <2>2. Advance(Capacity, ringHead, copied) \in 0..Capacity - 1
        BY <1>0, <2>1, AdvanceType
    <2> QED BY <1>0, <2>2
<1>7. /\ Len(tempDequeue') = copied'
      /\ tempDequeue'[copied + 1] = (consumed + copied) % ByteValues
      /\ \A i \in 1..copied : tempDequeue'[i] = tempDequeue[i]
    <2> DEFINE byte == ringBuffer[Advance(Capacity, ringHead, copied)]
    <2>1. /\ byte \in Nat /\ byte = (consumed + copied) % ByteValues
          /\ tempDequeue' = Append(tempDequeue, byte)
        BY <1>1, <1>5, <1>6
    <2> HIDE DEF byte
    <2>2. /\ Len(Append(tempDequeue, byte)) = copied + 1
          /\ Append(tempDequeue, byte)[copied + 1] = byte
          /\ \A i \in 1..copied : Append(tempDequeue, byte)[i] = tempDequeue[i]
        BY <1>0, <1>4, <2>1
    <2> QED BY <1>1, <2>1, <2>2
<1>8. \A i \in 1..copied' : tempDequeue'[i] = (consumed + (i - 1)) % ByteValues
    <2> SUFFICES ASSUME NEW i \in 1..copied'
                 PROVE  tempDequeue'[i] = (consumed + (i - 1)) % ByteValues
        OBVIOUS
    <2>1. i \in 1..copied \/ (i = copied + 1 /\ i - 1 = copied)
        BY <1>0, <1>1
    <2> QED BY <2>1, <1>4, <1>7
<1>9. BlockIsUnread'
    <2>1. InOnePiece(dequeueSize)' = InOnePiece(dequeueSize)
        BY <1>1 DEF InOnePiece
    <2>2. /\ dequeuePc' = "copy" => copied' < dequeueSize'
          /\ dequeuePc' = "use" => copied' = dequeueSize'
        BY <1>0, <1>1
    <2>3. dequeueSize' =< Unread'
        BY <1>1, <1>2, <1>4
    <2>4. consumed' = consumed
        BY <1>1
    <2> QED BY <2>1, <2>2, <2>3, <2>4, <1>4, <1>7, <1>8 DEF BlockIsUnread
<1> QED BY <1>3, <1>9

\* The consumer gives its slots back (SpscRingBuffer.h:83-86).
LEMMA DequeueKeepsStream ==
    ASSUME RingInv, RingTypeInv', Dequeue
    PROVE  ContentIsStream' /\ StoredIsBehindTail' /\ BlockIsUnread'
<1>0. /\ Unread \in 0..Capacity - 1 /\ Capacity \in Nat \ {0}
      /\ ByteValues \in Nat \ {0}
      /\ ringHead \in 0..Capacity - 1 /\ ringTail \in 0..Capacity - 1
      /\ dequeueSize \in Nat /\ consumed \in Nat
      /\ enqueueSize \in Nat
    BY UnreadType DEF RingInv, RingTypeInv
<1>1. /\ dequeuePc = "use" /\ dequeuePc' = "idle"
      /\ ringHead' = Advance(Capacity, ringHead, dequeueSize)
      /\ consumed' = (consumed + dequeueSize) % ByteValues
      /\ UNCHANGED <<ringBuffer, ringTail, produced, enqueuePc, enqueueSize, stored>>
    BY DEF Dequeue, producerVars
<1>2. dequeueSize \in 0..Unread
    BY <1>0, <1>1 DEF RingInv, BlockIsUnread
<1>3. /\ ringHead' \in 0..Capacity - 1
      /\ Unread' = Unread - dequeueSize
      /\ \A i \in Nat : dequeueSize + i =< Capacity
            => Advance(Capacity, ringHead', i) = Advance(Capacity, ringHead, dequeueSize + i)
    BY <1>0, <1>1, <1>2, AdvanceHeadDropsPrefix DEF Unread
<1>4. \A i \in Nat : (consumed' + i) % ByteValues
                         = (consumed + (dequeueSize + i)) % ByteValues
    <2> SUFFICES ASSUME NEW i \in Nat
                 PROVE  (consumed' + i) % ByteValues
                            = (consumed + (dequeueSize + i)) % ByteValues
        OBVIOUS
    <2>1. consumed + dequeueSize \in Nat
        BY <1>0
    <2>2. (((consumed + dequeueSize) % ByteValues) + i) % ByteValues
              = ((consumed + dequeueSize) + i) % ByteValues
        BY <1>0, <2>1, RemainderOfSum
    <2>3. (consumed + dequeueSize) + i = consumed + (dequeueSize + i)
        BY <1>0
    <2> QED BY <1>1, <2>2, <2>3
<1>5. produced' = (consumed' + Unread') % ByteValues
    <2>1. Unread' \in Nat /\ dequeueSize + Unread' = Unread
        BY <1>0, <1>2, <1>3
    <2> QED BY <1>1, <1>4, <2>1 DEF RingInv, ContentIsStream
<1>6. ASSUME NEW i \in 0..Unread' - 1
      PROVE  ringBuffer[Advance(Capacity, ringHead', i)] = (consumed' + i) % ByteValues
    <2>1. i \in Nat /\ dequeueSize + i \in 0..Unread - 1 /\ dequeueSize + i =< Capacity
        BY <1>0, <1>2, <1>3
    <2>2. ringBuffer[Advance(Capacity, ringHead, dequeueSize + i)]
              = (consumed + (dequeueSize + i)) % ByteValues
        BY <2>1 DEF RingInv, ContentIsStream
    <2> QED BY <1>3, <1>4, <2>1, <2>2
<1>7. ContentIsStream'
    BY <1>1, <1>5, <1>6 DEF ContentIsStream
<1>8. Available(Capacity, ringHead', ringTail')
          = Available(Capacity, ringHead, ringTail) + dequeueSize
    <2>1. Unread - dequeueSize \in Nat
        BY <1>0, <1>2
    <2> QED BY <1>0, <1>2, <1>3, <2>1 DEF Available, Unread
<1>9. StoredIsBehindTail'
    <2>1. ASSUME enqueuePc = "copy"
          PROVE  enqueueSize =< Available(Capacity, ringHead', ringTail')
        <3>1. Available(Capacity, ringHead, ringTail) \in Nat
            BY <1>0, SizeType
        <3>2. enqueueSize =< Available(Capacity, ringHead, ringTail)
            BY <2>1 DEF RingInv, StoredIsBehindTail
        <3> QED BY <1>0, <1>8, <3>1, <3>2
    <2> QED BY <2>1, <1>1 DEF StoredIsBehindTail, RingInv
<1>10. BlockIsUnread'
    BY <1>1 DEF BlockIsUnread
<1> QED BY <1>7, <1>9, <1>10

\* A producer that begins a block, or a consumer that begins to look
\* (SpscRingBuffer.h:51-55, 91-105).
LEMMA BeginKeepsStream ==
    ASSUME RingInv, RingTypeInv', NEW size \in SpscBlockSizes,
           TryEnqueue(size) \/ TryPeek(size)
    PROVE  ContentIsStream' /\ StoredIsBehindTail' /\ BlockIsUnread'
<1>0. /\ Unread \in 0..Capacity - 1 /\ Capacity \in Nat \ {0}
      /\ size \in Nat /\ ringHead \in 0..Capacity - 1
    BY UnreadType, SpscAssumption DEF RingInv, RingTypeInv
<1>1. CASE TryEnqueue(size)
    <2>1. /\ size =< Available(Capacity, ringHead, ringTail)
          /\ enqueueSize' = size /\ stored' = 0
          /\ UNCHANGED <<ringBuffer, ringHead, ringTail, consumed, produced,
                         dequeuePc, dequeueSize, copied, tempDequeue>>
        BY <1>1 DEF TryEnqueue, HasRoom, consumerVars
    <2>2. ContentIsStream' /\ BlockIsUnread'
        BY <2>1 DEF ContentIsStream, BlockIsUnread, RingInv, Unread, InOnePiece
    <2>3. StoredIsBehindTail'
        BY <1>0, <2>1 DEF StoredIsBehindTail
    <2> QED BY <2>2, <2>3
<1>2. CASE TryPeek(size)
    <2>1. /\ size =< Unread
          /\ dequeuePc' = IF InOnePiece(size) THEN "use" ELSE "copy"
          /\ dequeueSize' = size /\ copied' = 0 /\ tempDequeue' = <<>>
          /\ UNCHANGED <<ringBuffer, ringHead, ringTail, consumed, produced,
                         enqueuePc, enqueueSize, stored>>
        BY <1>0, <1>2 DEF TryPeek, Readable, producerVars, Unread
    <2>2. ContentIsStream' /\ StoredIsBehindTail'
        BY <2>1 DEF ContentIsStream, StoredIsBehindTail, RingInv, Unread
    <2>3. InOnePiece(dequeueSize)' = InOnePiece(size) /\ Unread' = Unread
        BY <2>1 DEF InOnePiece, Unread
    <2>4. ~InOnePiece(size) => 0 < size
        BY <1>0 DEF InOnePiece
    <2>5. Len(tempDequeue') = 0
        BY <2>1
    <2>6. \A i \in 1..copied' : tempDequeue'[i] = (consumed' + (i - 1)) % ByteValues
        BY <2>1
    <2>7. /\ dequeuePc' = "copy" => ~InOnePiece(size) /\ copied' < dequeueSize'
          /\ dequeuePc' = "use" => InOnePiece(size)
        BY <2>1, <2>4
    <2>8. BlockIsUnread'
        BY <2>1, <2>3, <2>5, <2>6, <2>7 DEF BlockIsUnread
    <2> QED BY <2>2, <2>8
<1> QED BY <1>1, <1>2

\* No step of the producer or of the consumer breaks the invariant
\* (SpscRingBuffer.h:48-108).
LEMMA RingInvNext == RingInv /\ [RingNext]_ringVars => RingInv'
<1> SUFFICES ASSUME RingInv, [RingNext]_ringVars PROVE RingInv'
    OBVIOUS
<1>1. RingTypeInv'
    BY RingTypeStep
<1>2. CASE UNCHANGED ringVars
    BY <1>1, <1>2 DEF ringVars, producerVars, consumerVars, RingInv, ContentIsStream,
       StoredIsBehindTail, BlockIsUnread, Unread, InOnePiece
<1> QED BY <1>1, <1>2, BeginKeepsStream, StoreKeepsStream, PublishKeepsStream,
           LoadKeepsStream, DequeueKeepsStream DEF RingNext, RingInv

\* What the consumer has been given are the next bytes of the stream
\* (SpscRingBuffer.h:91-108).
LEMMA UnreadBlockIsNext == RingInv => PeekedBytesAreNext
<1> SUFFICES ASSUME RingInv, dequeuePc = "use"
             PROVE  Peeked = [i \in 1..dequeueSize |-> (consumed + i - 1) % ByteValues]
    BY DEF PeekedBytesAreNext
<1>0. /\ Unread \in 0..Capacity - 1 /\ dequeueSize \in Nat /\ consumed \in Nat
      /\ tempDequeue \in Seq(Nat) /\ dequeueSize =< Unread
    BY UnreadType DEF RingInv, RingTypeInv, BlockIsUnread
<1>1. \A i \in 1..dequeueSize : consumed + (i - 1) = consumed + i - 1
    BY <1>0
<1>2. CASE InOnePiece(dequeueSize)
    <2>1. \A i \in 1..dequeueSize :
              ringBuffer[Advance(Capacity, ringHead, i - 1)]
                  = (consumed + (i - 1)) % ByteValues
        <3> SUFFICES ASSUME NEW i \in 1..dequeueSize
                     PROVE  ringBuffer[Advance(Capacity, ringHead, i - 1)]
                                = (consumed + (i - 1)) % ByteValues
            OBVIOUS
        <3>1. i - 1 \in 0..Unread - 1
            BY <1>0
        <3> QED BY <3>1 DEF RingInv, ContentIsStream
    <2> QED BY <1>1, <1>2, <2>1 DEF Peeked, Read
<1>3. CASE ~InOnePiece(dequeueSize)
    <2>1. /\ Len(tempDequeue) = dequeueSize
          /\ \A i \in 1..dequeueSize :
                tempDequeue[i] = (consumed + (i - 1)) % ByteValues
        BY <1>3 DEF RingInv, BlockIsUnread
    <2>2. tempDequeue = [i \in 1..dequeueSize |-> tempDequeue[i]]
        BY <1>0, <2>1
    <2> QED BY <1>1, <1>3, <2>1, <2>2 DEF Peeked
<1> QED BY <1>2, <1>3

\* Whatever the capacity and the sizes of the blocks, and wherever the ring
\* wraps, the consumer sees the next bytes of the stream until its Dequeue: the
\* producer never writes to what it has been given (SpscRingBuffer.h:48-108).
THEOREM PeekedBytesStay == RingSpec => []PeekedBytesAreNext
<1>1. RingInit => RingInv
    BY RingInvInit
<1>2. RingInv /\ [RingNext]_ringVars => RingInv'
    BY RingInvNext
<1>3. RingInv => PeekedBytesAreNext
    BY UnreadBlockIsNext
<1> QED BY <1>1, <1>2, <1>3, PTL DEF RingSpec

-----------------------------------------------------------------------------
(* ParallelExecutor                                                        *)

Busy == callerPc \in {"launch", "await"}
Stopping == callerPc \in {"stop", "join", "destroyed"}

ExecutorTypeInv ==
    /\ callerPc \in {"construct", "constructed", "ready", "launch", "await", "stop",
                     "join", "destroyed"}
    /\ thread \in Threads /\ calls \in Nat
    /\ chunkSize \in Nat /\ axisCount \in Nat
    /\ work \in {"nothing", "for"} /\ shouldStop \in BOOLEAN
    /\ workingFlag \in [Threads -> BOOLEAN]
    /\ claimIndex \in Nat
    /\ threadPc \in [Threads -> {"unstarted", "loop", "wait", "check", "claim", "run",
                                 "finish", "exited"}]
    /\ index \in [Threads -> Nat] /\ workEnd \in [Threads -> Nat]
    /\ page \in [Threads -> Seq(Nat)] /\ elementCount \in [Threads -> Nat]
    /\ \A t \in Threads : elementCount[t] =< Len(page[t])
    /\ runs \in [Indices -> Nat]

\* A thread that waits for its flag, or is about to.
Resting(t) == ~workingFlag[t] /\ threadPc[t] \in {"loop", "wait"}

\* A thread that has been given its flag, and works up to one of the places in `pcs`.
Working(t, pcs) == workingFlag[t] /\ threadPc[t] \in {"loop", "wait", "check"} \cup pcs

\* Where a thread can be while the caller is where it is.
ThreadFollows(t) ==
    /\ callerPc = "construct" =>
          \/ t < thread /\ Resting(t)
          \/ t >= thread /\ ~workingFlag[t] /\ threadPc[t] = "unstarted"
    /\ callerPc = "constructed" =>
          \/ t =< thread /\ Resting(t)
          \/ t = thread /\ Working(t, {"finish"})
          \/ t > thread /\ ~workingFlag[t] /\ threadPc[t] = "unstarted"
    /\ callerPc = "ready" => Resting(t)
    /\ callerPc = "launch" =>
          Resting(t) \/ (t < thread /\ Working(t, {"claim", "run", "finish"}))
    /\ callerPc = "await" =>
          Resting(t) \/ (t >= thread /\ Working(t, {"claim", "run", "finish"}))
    /\ Stopping => threadPc[t] \in {"loop", "wait", "check", "exited"}

ThreadsFollowCaller ==
    /\ callerPc = "ready" => thread = 0
    /\ \A t \in Threads : ThreadFollows(t)

\* What the caller has set.
CallIsSet ==
    /\ shouldStop <=> Stopping
    /\ callerPc \in {"construct", "constructed"} => work = "nothing" /\ calls = 0
    /\ Busy => work = "for" /\ calls > 0
    /\ calls = 0 => axisCount = 0 /\ chunkSize = 0
    /\ calls > 0 => chunkSize \in ChunkSizes /\ axisCount \in AxisCounts

Launched(t) == \/ callerPc = "launch" /\ t < thread
               \/ callerPc = "await"

\* A thread that has found, or will find, an index without an axis.
Spent == {t \in Threads :
            /\ Launched(t)
            /\ \/ ~workingFlag[t]
               \/ threadPc[t] = "finish"
               \/ threadPc[t] = "run" /\ workEnd[t] > axisCount}

\* The indices that thread t has claimed and not run yet.
Claimed(t, i) == threadPc[t] = "run" /\ index[t] =< i /\ i < workEnd[t]

ChunkIsClaimed ==
    Busy => \A t \in Threads : threadPc[t] = "run" =>
        /\ index[t] =< workEnd[t]
        /\ workEnd[t] + chunkSize =< claimIndex
        /\ index[t] = workEnd[t] => workEnd[t] =< axisCount

ClaimsAreDisjoint ==
    Busy => \A t, u \in Threads : \A i \in Nat : Claimed(t, i) /\ Claimed(u, i) => t = u

ClaimIndexIsBounded ==
    Busy =>
        /\ claimIndex = 0 \/ chunkSize =< claimIndex
        /\ claimIndex =< axisCount + chunkSize + chunkSize * Cardinality(Spent)
        /\ Spent # {} => axisCount + chunkSize < claimIndex

RunsAreExact ==
    Busy => \A i \in Indices :
        runs[i] = IF /\ i < axisCount /\ i + chunkSize < claimIndex
                     /\ \A t \in Threads : ~Claimed(t, i)
                  THEN 1 ELSE 0

\* The result at place k of a page is of this call.
IsResult(t, k) == Launched(t) /\ k \in 1..elementCount[t]

ResultsAreKept ==
    Busy =>
        /\ \A t \in Threads : \A k \in Nat : IsResult(t, k) =>
              page[t][k] \in Indices \ Resultless /\ runs[page[t][k]] = 1
        /\ \A i \in Indices \ Resultless : runs[i] = 1 =>
              \E t \in Threads : \E k \in Nat : IsResult(t, k) /\ page[t][k] = i
        /\ \A t, u \in Threads : \A k, l \in Nat :
              IsResult(t, k) /\ IsResult(u, l) /\ page[t][k] = page[u][l]
                  => t = u /\ k = l

Results == (0..axisCount - 1) \ Resultless

CallIsComplete ==
    /\ ~Busy => \A i \in Indices : runs[i] = IF i < axisCount THEN 1 ELSE 0
    /\ HasResults => Len(returned) = Cardinality(Results)
                     /\ {returned[k] : k \in DOMAIN returned} = Results

WorkInv ==
    /\ ChunkIsClaimed /\ ClaimsAreDisjoint /\ ClaimIndexIsBounded /\ RunsAreExact
    /\ ResultsAreKept /\ CallIsComplete

ExecutorInv == ExecutorTypeInv /\ ThreadsFollowCaller /\ CallIsSet /\ WorkInv

-----------------------------------------------------------------------------
\* The numbers of the executor (ParallelExecutor.h:238-256).
LEMMA ExecutorNumbers ==
    /\ WorkerThreadCount \in Nat \ {0}
    /\ Threads \subseteq Nat /\ 0 \in Threads
    /\ IsFiniteSet(Threads) /\ Cardinality(Threads) = WorkerThreadCount
    /\ Indices \subseteq Nat
    /\ ChunkSizes \subseteq Nat \ {0} /\ AxisCounts \subseteq Nat
    /\ \A axes \in AxisCounts : 0..axes - 1 \subseteq Indices
<1>1. /\ WorkerThreadCount \in Nat \ {0}
      /\ ChunkSizes \subseteq Nat \ {0} /\ AxisCounts \subseteq Nat
    BY ParallelAssumption
<1>2. Threads \subseteq Nat /\ 0 \in Threads
    BY <1>1 DEF Threads
<1>3. IsFiniteSet(Threads) /\ Cardinality(Threads) = WorkerThreadCount
    <2>1. /\ IsFiniteSet(0..WorkerThreadCount - 1)
          /\ Cardinality(0..WorkerThreadCount - 1)
               = IF 0 > WorkerThreadCount - 1 THEN 0 ELSE (WorkerThreadCount - 1) - 0 + 1
        <3>1. 0 \in Int /\ WorkerThreadCount - 1 \in Int
            BY <1>1
        <3> QED BY <3>1, FS_Interval
    <2> QED BY <2>1, <1>1 DEF Threads
<1>4. Indices \subseteq Nat
    BY <1>1 DEF Indices
<1>5. \A axes \in AxisCounts : 0..axes - 1 \subseteq Indices
    <2> SUFFICES ASSUME NEW axes \in AxisCounts, NEW i \in 0..axes - 1
                 PROVE  i \in Indices
        OBVIOUS
    <2>1. axes \in AxisCounts \ {0}
        BY <1>1
    <2> QED BY <2>1 DEF Indices
<1> QED BY <1>1, <1>2, <1>3, <1>4, <1>5

\* The caller's loop stays within the threads (ParallelExecutor.h:308-321).
LEMMA NextThreadType ==
    ASSUME thread \in Threads
    PROVE  /\ (thread + 1) % WorkerThreadCount \in Threads
           /\ thread + 1 # WorkerThreadCount =>
                (thread + 1) % WorkerThreadCount = thread + 1
           /\ thread + 1 = WorkerThreadCount =>
                /\ (thread + 1) % WorkerThreadCount = 0
                /\ \A t \in Threads : t =< thread
BY ExecutorNumbers DEF Threads

\* The constructor's beginning (ParallelExecutor.h:238-256).
LEMMA ExecutorInvInit == ExecutorInit => ExecutorInv
<1> SUFFICES ASSUME ExecutorInit PROVE ExecutorInv
    OBVIOUS
<1>1. ExecutorTypeInv
    BY ExecutorNumbers DEF ExecutorInit, ExecutorTypeInv
<1>2. ThreadsFollowCaller
    BY ExecutorNumbers DEF ExecutorInit, ThreadsFollowCaller, ThreadFollows, Threads, Stopping
<1>3. CallIsSet
    BY DEF ExecutorInit, CallIsSet, Stopping, Busy
<1>4. ~Busy /\ ~HasResults /\ axisCount = 0 /\ runs = [i \in Indices |-> 0]
    BY DEF ExecutorInit, Busy, HasResults
<1>5. \A i \in Indices : runs[i] = IF i < axisCount THEN 1 ELSE 0
    BY <1>4, ExecutorNumbers
<1>6. WorkInv
    BY <1>4, <1>5 DEF WorkInv, ChunkIsClaimed, ClaimsAreDisjoint, ClaimIndexIsBounded,
       RunsAreExact, ResultsAreKept, CallIsComplete
<1> QED BY <1>1, <1>2, <1>3, <1>6 DEF ExecutorInv

-----------------------------------------------------------------------------
\* A thread that runs is one of the call (ParallelExecutor.h:313-325, 362-372).
LEMMA WorkingThread ==
    ASSUME ExecutorInv, NEW t \in Threads,
           threadPc[t] \in {"claim", "run"} \/ (Busy /\ threadPc[t] = "finish")
    PROVE  /\ Busy /\ Launched(t) /\ workingFlag[t] /\ ~Resting(t)
           /\ chunkSize \in Nat \ {0} /\ chunkSize \in ChunkSizes
           /\ axisCount \in Nat /\ axisCount \in AxisCounts
<1>1. Busy
    BY DEF ExecutorInv, ThreadsFollowCaller, ThreadFollows, Stopping, Busy, ExecutorTypeInv,
           Resting, Working
<1>2. Launched(t) /\ workingFlag[t] /\ ~Resting(t)
    BY <1>1 DEF ExecutorInv, ThreadsFollowCaller, ThreadFollows, Busy, Resting, Working, Launched
<1>3. chunkSize \in ChunkSizes /\ axisCount \in AxisCounts
    BY <1>1 DEF ExecutorInv, CallIsSet
<1> QED BY <1>1, <1>2, <1>3, ExecutorNumbers

\* The threads that are done are finitely many, and no more than there are
\* (ParallelExecutor.h:282-303).
LEMMA SpentIsFinite ==
    ASSUME ExecutorInv
    PROVE  /\ IsFiniteSet(Spent) /\ Cardinality(Spent) \in Nat
           /\ \A t \in Threads : t \notin Spent =>
                Cardinality(Spent) + 1 =< WorkerThreadCount
<1>1. Spent \subseteq Threads
    BY DEF Spent
<1>2. IsFiniteSet(Spent) /\ Cardinality(Spent) \in Nat
    BY <1>1, ExecutorNumbers, FS_Subset, FS_CardinalityType
<1>3. ASSUME NEW t \in Threads, t \notin Spent
      PROVE  Cardinality(Spent) + 1 =< WorkerThreadCount
    <2>1. Cardinality(Spent \cup {t}) = Cardinality(Spent) + 1
        BY <1>2, <1>3, FS_AddElement
    <2>2. Spent \cup {t} \subseteq Threads
        BY <1>1
    <2>3. Cardinality(Spent \cup {t}) =< Cardinality(Threads)
        BY <2>2, ExecutorNumbers, FS_Subset
    <2> QED BY <2>1, <2>3, ExecutorNumbers
<1> QED BY <1>2, <1>3

\* The index that the threads share does not wrap around
\* (ParallelExecutor.h:286, 287).
LEMMA ClaimDoesNotWrap ==
    ASSUME ExecutorInv, NEW t \in Threads, threadPc[t] = "claim"
    PROVE  /\ claimIndex + chunkSize < IndexModulus
           /\ (claimIndex + chunkSize) % IndexModulus = claimIndex + chunkSize
<1> DEFINE n == Cardinality(Spent)
<1>1. /\ Busy /\ chunkSize \in Nat \ {0} /\ axisCount \in Nat
      /\ chunkSize \in ChunkSizes /\ axisCount \in AxisCounts
      /\ workingFlag[t]
    BY WorkingThread
<1>2. axisCount + (WorkerThreadCount + 1) * chunkSize < IndexModulus
    BY <1>1, ParallelAssumption
<1>3. t \notin Spent
    BY <1>1 DEF Spent
<1>4. n \in Nat /\ n + 1 =< WorkerThreadCount /\ WorkerThreadCount \in Nat
    BY <1>3, SpentIsFinite, ExecutorNumbers
<1>5. claimIndex =< axisCount + chunkSize + chunkSize * n
    BY <1>1 DEF ExecutorInv, WorkInv, ClaimIndexIsBounded
<1>6. claimIndex \in Nat /\ IndexModulus \in Nat
    BY ParallelAssumption DEF ExecutorInv, ExecutorTypeInv
<1> HIDE DEF n
<1>7. PICK m \in Nat : n + 1 + m = WorkerThreadCount
    <2>1. WorkerThreadCount - (n + 1) \in Nat
          /\ n + 1 + (WorkerThreadCount - (n + 1)) = WorkerThreadCount
        BY <1>4
    <2> QED BY <2>1
<1>8. (WorkerThreadCount + 1) * chunkSize
          = chunkSize * n + 2 * chunkSize + m * chunkSize
    BY <1>1, <1>4, <1>7
<1>9. m * chunkSize \in Nat /\ chunkSize * n \in Nat
    BY <1>1, <1>4, <1>7
<1>10. claimIndex + chunkSize < IndexModulus
    <2>1. axisCount + (chunkSize * n + 2 * chunkSize + m * chunkSize) < IndexModulus
        BY <1>2, <1>8
    <2> QED BY <2>1, <1>5, <1>6, <1>9, <1>1
<1>11. claimIndex + chunkSize \in 0..IndexModulus - 1 /\ IndexModulus \in Nat \ {0}
    BY <1>1, <1>6, <1>10
<1> QED BY <1>10, <1>11

\* A page of which n results are of this call, after another one is stored.
Stored(s, n, x) == SubSeq(s, 1, n) \o <<x>> \o SubSeq(s, n + 2, Len(s))

\* What a result that is stored at a place of a page leaves there
\* (ParallelExecutor.h:302-307).
LEMMA StoreInPage ==
    ASSUME NEW s \in Seq(Nat), NEW n \in Nat, n =< Len(s), NEW x \in Nat
    PROVE  /\ Stored(s, n, x) \in Seq(Nat) /\ n + 1 =< Len(Stored(s, n, x))
           /\ Stored(s, n, x)[n + 1] = x
           /\ \A k \in 1..n : Stored(s, n, x)[k] = s[k]
<1> DEFINE r == Stored(s, n, x)
<1> DEFINE first == SubSeq(s, 1, n)
           rest == SubSeq(s, n + 2, Len(s))
           most == first \o <<x>>
<1>0. Len(s) \in Nat /\ n \in Int /\ 1 \in Int /\ n + 2 \in Int /\ Len(s) \in Int
    OBVIOUS
<1>1. first \in Seq(Nat) /\ Len(first) = n /\ \A k \in 1..n : first[k] = s[k]
    <2>1. \A k \in 1..n : s[k] \in Nat
        BY <1>0, ElementOfSeq
    <2>2. /\ first \in Seq(Nat)
          /\ Len(first) = IF 1 =< n THEN n - 1 + 1 ELSE 0
          /\ \A k \in 1..n - 1 + 1 : first[k] = s[1 + k - 1]
        BY <1>0, <2>1, SubSeqProperties
    <2> HIDE DEF first
    <2>3. \A k \in 1..n : first[k] = s[k]
        <3> SUFFICES ASSUME NEW k \in 1..n PROVE first[k] = s[k]
            OBVIOUS
        <3>1. k \in 1..n - 1 + 1 /\ 1 + k - 1 = k
            BY <1>0
        <3> QED BY <2>2, <3>1
    <2> QED BY <1>0, <2>2, <2>3
<1>2. rest \in Seq(Nat) /\ Len(rest) \in Nat
    <2>1. \A k \in n + 2..Len(s) : k \in 1..Len(s)
        BY <1>0
    <2>2. \A k \in n + 2..Len(s) : s[k] \in Nat
        BY <2>1, ElementOfSeq
    <2>3. rest \in Seq(Nat)
        BY <1>0, <2>2, SubSeqProperties
    <2> QED BY <2>3, LenProperties
<1>3. r = most \o rest
    BY DEF Stored
<1>4. /\ most \in Seq(Nat) /\ Len(most) = n + 1
      /\ \A k \in 1..n + 1 : most[k] = IF k =< n THEN first[k] ELSE x
    <2>1. <<x>> \in Seq(Nat) /\ Len(<<x>>) = 1 /\ <<x>>[1] = x
        OBVIOUS
    <2> HIDE DEF first
    <2>2. /\ most \in Seq(Nat) /\ Len(most) = Len(first) + Len(<<x>>)
          /\ \A k \in 1..Len(first) + Len(<<x>>) : most[k] =
                 IF k <= Len(first) THEN first[k] ELSE <<x>>[k - Len(first)]
        BY <1>1, <2>1, ConcatProperties
    <2>3. Len(first) + Len(<<x>>) = n + 1
        BY <1>1, <2>1
    <2>4. \A k \in 1..n + 1 : ~(k <= n) => k - n = 1
        BY <1>0
    <2> QED BY <1>1, <2>1, <2>2, <2>3, <2>4
<1> HIDE DEF first, rest, most, r
<1>5. /\ r \in Seq(Nat) /\ Len(r) = n + 1 + Len(rest)
      /\ \A k \in 1..n + 1 + Len(rest) : r[k] =
             IF k <= n + 1 THEN most[k] ELSE rest[k - (n + 1)]
    <2>1. /\ most \o rest \in Seq(Nat) /\ Len(most \o rest) = Len(most) + Len(rest)
          /\ \A k \in 1..Len(most) + Len(rest) : (most \o rest)[k] =
                 IF k <= Len(most) THEN most[k] ELSE rest[k - Len(most)]
        BY <1>2, <1>4, ConcatProperties
    <2>2. Len(most) = n + 1
        BY <1>4
    <2> QED BY <1>3, <2>1, <2>2
<1>6. n + 1 =< Len(r)
    <2>1. n + 1 =< n + 1 + Len(rest)
        BY <1>0, <1>2
    <2> QED BY <1>5, <2>1
<1>7. \A k \in 1..n + 1 : r[k] = most[k]
    <2>1. \A k \in 1..n + 1 : k \in 1..n + 1 + Len(rest) /\ k <= n + 1
        BY <1>0, <1>2
    <2> QED BY <1>5, <2>1
<1>8. r[n + 1] = x
    <2>1. n + 1 \in 1..n + 1 /\ ~(n + 1 =< n)
        BY <1>0
    <2> QED BY <1>4, <1>7, <2>1
<1>9. \A k \in 1..n : r[k] = s[k]
    <2>1. \A k \in 1..n : k \in 1..n + 1 /\ k =< n
        BY <1>0
    <2> QED BY <1>1, <1>4, <1>7, <2>1
<1> QED BY <1>5, <1>6, <1>8, <1>9 DEF r

\* A step is one of the flow of the caller or of a thread, or one of waiting and
\* notifying, which leaves the flow alone (ParallelExecutor.h:238-380).
FlowStep == \/ CallerFlow \/ AnyCall \/ \E t \in Threads : ThreadFlow(t)
            \/ UNCHANGED flowVars

LEMMA StepOfTheFlow == [ExecutorNext]_executorVars => FlowStep
BY DEF ExecutorNext, CallerStep, CallerSleeps, CallerNotifies, Worker, ThreadSleeps,
       ThreadNotifies, Destroyed, FlowStep, executorVars

\* Each step keeps the types (ParallelExecutor.h:238-380).
LEMMA ExecutorTypeStep ==
    ASSUME ExecutorInv, FlowStep
    PROVE  ExecutorTypeInv'
<1> USE DEF ExecutorTypeInv, callVars, workerVars
<1>0. /\ ExecutorTypeInv
      /\ WorkerThreadCount \in Nat \ {0} /\ Threads \subseteq Nat
      /\ Indices \subseteq Nat
      /\ ChunkSizes \subseteq Nat /\ AxisCounts \subseteq Nat
      /\ (thread + 1) % WorkerThreadCount \in Threads
    BY NextThreadType, ExecutorNumbers DEF ExecutorInv
<1>1. ASSUME Start PROVE ExecutorTypeInv'
    BY <1>0, <1>1 DEF Start, GotoThread
<1>2. ASSUME Started PROVE ExecutorTypeInv'
    BY <1>0, <1>2 DEF Started
<1>3. ASSUME NEW chunk \in ChunkSizes, NEW axes \in AxisCounts, ParallelFor(chunk, axes)
      PROVE  ExecutorTypeInv'
    <2>1. chunk \in Nat /\ axes \in Nat /\ calls + 1 \in Nat
        BY <1>0
    <2>2. runs' \in [Indices -> Nat]
        BY <1>3 DEF ParallelFor
    <2> QED BY <1>0, <1>3, <2>1, <2>2 DEF ParallelFor
<1>4. ASSUME Launch PROVE ExecutorTypeInv'
    <2>1. /\ elementCount' = [elementCount EXCEPT ![thread] = 0]
          /\ UNCHANGED page
        BY <1>4 DEF Launch
    <2>2. elementCount' \in [Threads -> Nat]
        BY <1>0, <2>1
    <2>3. \A t \in Threads : elementCount'[t] =< Len(page'[t])
        <3> SUFFICES ASSUME NEW t \in Threads PROVE elementCount'[t] =< Len(page[t])
            BY <2>1
        <3>1. Len(page[t]) \in Nat
            BY <1>0
        <3> QED BY <1>0, <2>1, <3>1
    <2> QED BY <1>0, <1>4, <2>2, <2>3 DEF Launch, NextThread
<1>5. ASSUME Await PROVE ExecutorTypeInv'
    BY <1>0, <1>5 DEF Await, NextThread
<1>6. ASSUME Destruct PROVE ExecutorTypeInv'
    BY <1>0, <1>6 DEF Destruct
<1>7. ASSUME Stop PROVE ExecutorTypeInv'
    BY <1>0, <1>7 DEF Stop
<1>8. ASSUME Join PROVE ExecutorTypeInv'
    BY <1>0, <1>8 DEF Join
<1>9. ASSUME NEW t \in Threads, Loop(t) PROVE ExecutorTypeInv'
    BY <1>0, <1>9 DEF Loop, Exit, GotoThread
<1>10. ASSUME NEW t \in Threads, Wait(t) PROVE ExecutorTypeInv'
    BY <1>0, <1>10 DEF Wait, GotoThread
<1>11. ASSUME NEW t \in Threads, Check(t) PROVE ExecutorTypeInv'
    BY <1>0, <1>11 DEF Check, Exit, GotoThread
<1>12. ASSUME NEW t \in Threads, Claim(t) PROVE ExecutorTypeInv'
    <2>1. claimIndex' = claimIndex + chunkSize
        BY <1>12, ClaimDoesNotWrap DEF Claim
    <2>2. claimIndex < chunkSize \/ claimIndex - chunkSize \in Nat
        BY <1>0
    <2>3. index' \in [Threads -> Nat] /\ workEnd' \in [Threads -> Nat]
        BY <1>0, <1>12, <2>2 DEF Claim
    <2>4. claimIndex' \in Nat
        BY <1>0, <2>1
    <2> QED BY <1>0, <1>12, <2>3, <2>4 DEF Claim, GotoThread
<1>13. ASSUME NEW t \in Threads, RunTask(t) PROVE ExecutorTypeInv'
    <2>1. CASE UNCHANGED workerVars
        BY <1>0, <1>13, <2>1 DEF RunTask, GotoThread
    <2>2. CASE /\ index[t] < axisCount
               /\ runs' = [runs EXCEPT ![index[t]] = @ + 1]
               /\ index' = [index EXCEPT ![t] = @ + 1]
               /\ \/ UNCHANGED <<page, elementCount>>
                  \/ /\ page' = [page EXCEPT ![t] =
                             SubSeq(@, 1, elementCount[t]) \o <<index[t]>>
                             \o SubSeq(@, elementCount[t] + 2, Len(@))]
                     /\ elementCount' = [elementCount EXCEPT ![t] = @ + 1]
               /\ UNCHANGED <<threadPc, workEnd>>
        <3>1. index[t] \in Indices
            <4>1. axisCount \in AxisCounts
                BY <1>13, WorkingThread DEF RunTask
            <4>2. index[t] \in Nat /\ axisCount \in Nat
                BY <1>0
            <4> HIDE DEF ExecutorTypeInv
            <4> QED BY <2>2, <4>1, <4>2, ExecutorNumbers
        <3>2. runs' \in [Indices -> Nat] /\ index' \in [Threads -> Nat]
            <4>1. runs \in [Indices -> Nat] /\ index \in [Threads -> Nat]
                BY <1>0
            <4> HIDE DEF ExecutorTypeInv
            <4>2. runs[index[t]] \in Nat /\ index[t] \in Nat
                BY <3>1, <4>1
            <4>3. runs[index[t]] + 1 \in Nat /\ index[t] + 1 \in Nat
                BY <4>2
            <4> QED BY <2>2, <4>1, <4>3
        <3>3. /\ page' \in [Threads -> Seq(Nat)] /\ elementCount' \in [Threads -> Nat]
              /\ \A u \in Threads : elementCount'[u] =< Len(page'[u])
            <4>1. CASE UNCHANGED <<page, elementCount>>
                BY <1>0, <4>1
            <4>2. CASE /\ page' = [page EXCEPT ![t] =
                               SubSeq(@, 1, elementCount[t]) \o <<index[t]>>
                               \o SubSeq(@, elementCount[t] + 2, Len(@))]
                       /\ elementCount' = [elementCount EXCEPT ![t] = @ + 1]
                <5>1. /\ page[t] \in Seq(Nat) /\ elementCount[t] \in Nat
                      /\ elementCount[t] =< Len(page[t]) /\ index[t] \in Nat
                      /\ elementCount[t] + 1 \in Nat
                    BY <1>0
                <5>2. page'[t] = SubSeq(page[t], 1, elementCount[t]) \o <<index[t]>>
                                 \o SubSeq(page[t], elementCount[t] + 2, Len(page[t]))
                    BY <1>0, <4>2
                <5>3. page'[t] \in Seq(Nat) /\ elementCount[t] + 1 =< Len(page'[t])
                    <6>1. page'[t] = Stored(page[t], elementCount[t], index[t])
                        BY <5>2 DEF Stored
                    <6> QED BY <5>1, <6>1, StoreInPage
                <5>4. /\ \A u \in Threads \ {t} : page'[u] = page[u]
                      /\ DOMAIN page' = Threads /\ page' = [u \in Threads |-> page'[u]]
                    BY <1>0, <4>2
                <5>5. page' \in [Threads -> Seq(Nat)]
                    BY <1>0, <5>3, <5>4
                <5>6. elementCount' \in [Threads -> Nat]
                    BY <1>0, <4>2, <5>1
                <5>7. \A u \in Threads : elementCount'[u] =< Len(page'[u])
                    BY <1>0, <4>2, <5>3, <5>4
                <5> QED BY <5>5, <5>6, <5>7
            <4> QED BY <2>2, <4>1, <4>2
        <3> QED BY <1>0, <1>13, <2>2, <3>2, <3>3 DEF RunTask
    <2> QED BY <1>13, <2>1, <2>2 DEF RunTask
<1>14. ASSUME NEW t \in Threads, ChunkDone(t) PROVE ExecutorTypeInv'
    BY <1>0, <1>14 DEF ChunkDone, GotoThread
<1>15. ASSUME NEW t \in Threads, Finish(t) PROVE ExecutorTypeInv'
    BY <1>0, <1>15 DEF Finish, GotoThread
<1>16. CASE UNCHANGED flowVars
    BY <1>0, <1>16 DEF flowVars
<1> QED BY <1>1, <1>2, <1>3, <1>4, <1>5, <1>6, <1>7, <1>8, <1>9, <1>10, <1>11, <1>12,
           <1>13, <1>14, <1>15, <1>16
        DEF FlowStep, CallerFlow, AnyCall, ThreadFlow

\* The caller's settings are those of its call (ParallelExecutor.h:258-313).
LEMMA CallIsSetStep ==
    ASSUME ExecutorInv, FlowStep
    PROVE  CallIsSet'
<1> USE DEF CallIsSet, Stopping, Busy, callVars
<1>0. CallIsSet /\ calls \in Nat
    BY DEF ExecutorInv, ExecutorTypeInv
<1>1. CASE CallerFlow
    BY <1>0, <1>1 DEF CallerFlow, Start, Started, Launch, Await, Destruct, Stop, Join,
                      NextThread
<1>2. CASE AnyCall
    BY <1>0, <1>2 DEF AnyCall, ParallelFor
<1>3. ASSUME NEW t \in Threads, ThreadFlow(t) PROVE CallIsSet'
    BY <1>0, <1>3 DEF ThreadFlow, Loop, Exit, Wait, Check, Claim, RunTask, ChunkDone, Finish
<1>4. CASE UNCHANGED flowVars
    BY <1>0, <1>4 DEF flowVars
<1> QED BY <1>1, <1>2, <1>3, <1>4 DEF FlowStep

\* A step of a thread leaves it where the caller lets it be, and the others
\* where they are (ParallelExecutor.h:362-380).
LEMMA WorkerFollows ==
    ASSUME ExecutorInv, NEW t \in Threads, ThreadFlow(t)
    PROVE  ThreadsFollowCaller'
<1> USE DEF Stopping, Resting, Working
<1>0. /\ ExecutorTypeInv /\ CallIsSet /\ \A u \in Threads : ThreadFollows(u)
      /\ callerPc = "ready" => thread = 0
    BY DEF ExecutorInv, ThreadsFollowCaller
<1>1. /\ UNCHANGED <<callerPc, thread, shouldStop, work>>
      /\ \A u \in Threads \ {t} : /\ threadPc'[u] = threadPc[u]
                                  /\ workingFlag'[u] = workingFlag[u]
    BY <1>0 DEF ThreadFlow, Loop, Exit, Wait, Check, Claim, RunTask, ChunkDone, Finish,
       GotoThread, ExecutorTypeInv
<1>2. ASSUME NEW u \in Threads \ {t} PROVE ThreadFollows(u)'
    BY <1>0, <1>1, <1>2 DEF ThreadFollows
<1>3. ASSUME Loop(t) PROVE ThreadFollows(t)'
    <2>1. /\ threadPc[t] = "loop"
          /\ IF shouldStop THEN threadPc'[t] = "exited"
             ELSE threadPc'[t] = "wait" /\ workingFlag'[t] = workingFlag[t]
        BY <1>0, <1>3 DEF Loop, Exit, GotoThread, ExecutorTypeInv
    <2> QED BY <1>0, <1>1, <2>1 DEF ThreadFollows, CallIsSet
<1>4. ASSUME Wait(t) PROVE ThreadFollows(t)'
    <2>1. /\ threadPc[t] = "wait" /\ workingFlag[t] /\ threadPc'[t] = "check"
          /\ workingFlag'[t] = workingFlag[t]
        BY <1>0, <1>4 DEF Wait, GotoThread, ExecutorTypeInv
    <2> QED BY <1>0, <1>1, <2>1 DEF ThreadFollows, CallIsSet
<1>5. ASSUME Check(t) PROVE ThreadFollows(t)'
    <2>1. /\ threadPc[t] = "check"
          /\ IF shouldStop THEN threadPc'[t] = "exited"
             ELSE /\ threadPc'[t] = IF work = "for" THEN "claim" ELSE "finish"
                  /\ workingFlag'[t] = workingFlag[t]
        BY <1>0, <1>5 DEF Check, Exit, GotoThread, ExecutorTypeInv
    <2> QED BY <1>0, <1>1, <2>1 DEF ThreadFollows, CallIsSet, Busy
<1>6. ASSUME Claim(t) \/ RunTask(t) \/ ChunkDone(t) PROVE ThreadFollows(t)'
    <2>1. /\ threadPc[t] \in {"claim", "run"}
          /\ threadPc'[t] \in {"claim", "run", "finish"}
          /\ workingFlag'[t] = workingFlag[t]
        BY <1>0, <1>6 DEF Claim, RunTask, ChunkDone, GotoThread, ExecutorTypeInv
    <2> QED BY <1>0, <1>1, <2>1 DEF ThreadFollows
<1>7. ASSUME Finish(t) PROVE ThreadFollows(t)'
    <2>1. /\ threadPc[t] = "finish" /\ threadPc'[t] = "loop" /\ ~workingFlag'[t]
        BY <1>0, <1>7 DEF Finish, GotoThread, ExecutorTypeInv
    <2> QED BY <1>0, <1>1, <2>1, ExecutorNumbers DEF ThreadFollows
<1> QED BY <1>0, <1>1, <1>2, <1>3, <1>4, <1>5, <1>6, <1>7 DEF ThreadFlow, ThreadsFollowCaller

\* A step of the caller finds the threads where the next place of the caller
\* lets them be (ParallelExecutor.h:238-256, 308-321).
LEMMA CallerFollows ==
    ASSUME ExecutorInv, CallerFlow \/ AnyCall
    PROVE  ThreadsFollowCaller'
<1> USE DEF Stopping, Resting, Working
<1>0. /\ ExecutorTypeInv /\ CallIsSet /\ \A u \in Threads : ThreadFollows(u)
      /\ callerPc = "ready" => thread = 0
      /\ WorkerThreadCount \in Nat \ {0} /\ Threads \subseteq Nat
      /\ thread \in Threads /\ thread \in Nat
      /\ thread + 1 # WorkerThreadCount =>
                (thread + 1) % WorkerThreadCount = thread + 1
      /\ thread + 1 = WorkerThreadCount =>
                /\ (thread + 1) % WorkerThreadCount = 0
                /\ \A t \in Threads : t =< thread
    BY NextThreadType, ExecutorNumbers
       DEF ExecutorInv, ThreadsFollowCaller, ExecutorTypeInv
<1> DEFINE next == (thread + 1) % WorkerThreadCount
<1>1. ASSUME Start PROVE ThreadsFollowCaller'
    <2>1. /\ callerPc = "construct" /\ callerPc' = "constructed" /\ thread' = thread
          /\ workingFlag'[thread] /\ threadPc'[thread] = "loop"
          /\ \A u \in Threads \ {thread} : /\ workingFlag'[u] = workingFlag[u]
                                            /\ threadPc'[u] = threadPc[u]
        BY <1>0, <1>1 DEF Start, GotoThread, ExecutorTypeInv
    <2>2. ASSUME NEW u \in Threads PROVE ThreadFollows(u)'
        <3>1. u \in Nat /\ thread \in Nat /\ ThreadFollows(u)
            BY <1>0
        <3>2. CASE u < thread
            <4>1. u # thread
                BY <3>1, <3>2
            <4> QED BY <4>1, <2>1, <3>1, <3>2 DEF ThreadFollows
        <3>3. CASE u = thread
            <4>1. workingFlag'[u] /\ threadPc'[u] \in {"loop", "wait"}
                BY <2>1, <3>1, <3>3 DEF ThreadFollows
            <4> QED BY <2>1, <3>1, <3>3, <4>1 DEF ThreadFollows
        <3>4. CASE u > thread
            <4>1. u # thread
                BY <3>1, <3>4
            <4> QED BY <4>1, <2>1, <3>1, <3>4 DEF ThreadFollows
        <3> QED BY <3>1, <3>2, <3>3, <3>4
    <2> QED BY <2>1, <2>2 DEF ThreadsFollowCaller
<1>2. ASSUME Started PROVE ThreadsFollowCaller'
    <2>1. /\ callerPc = "constructed" /\ ~workingFlag[thread]
          /\ thread' = next
          /\ callerPc' = IF thread + 1 = WorkerThreadCount THEN "ready" ELSE "construct"
          /\ UNCHANGED <<workingFlag, threadPc>>
        BY <1>2 DEF Started
    <2>2. ASSUME NEW u \in Threads PROVE ThreadFollows(u)'
        <3>1. u \in Nat /\ thread \in Nat /\ ThreadFollows(u)
            BY <1>0
        <3>2. CASE thread + 1 # WorkerThreadCount
            <4>1. thread' = thread + 1 /\ callerPc' = "construct"
                BY <1>0, <2>1, <3>2
            <4> QED BY <2>1, <3>1, <4>1 DEF ThreadFollows
        <3>3. CASE thread + 1 = WorkerThreadCount
            <4>1. u =< thread /\ callerPc' = "ready"
                BY <1>0, <2>1, <3>3
            <4> QED BY <2>1, <3>1, <4>1 DEF ThreadFollows
        <3> QED BY <3>2, <3>3
    <2> QED BY <1>0, <2>1, <2>2 DEF ThreadsFollowCaller
<1>3. ASSUME NEW chunk \in ChunkSizes, NEW axes \in AxisCounts, ParallelFor(chunk, axes)
      PROVE  ThreadsFollowCaller'
    <2>1. /\ callerPc = "ready" /\ callerPc' = "launch"
          /\ UNCHANGED <<workingFlag, threadPc>>
        BY <1>3 DEF ParallelFor
    <2> QED BY <1>0, <2>1 DEF ThreadFollows, ThreadsFollowCaller
<1>4. ASSUME Launch PROVE ThreadsFollowCaller'
    <2>1. /\ callerPc = "launch" /\ thread' = next
          /\ callerPc' = IF thread + 1 = WorkerThreadCount THEN "await" ELSE "launch"
          /\ workingFlag'[thread] /\ UNCHANGED threadPc
          /\ \A u \in Threads \ {thread} : workingFlag'[u] = workingFlag[u]
        BY <1>0, <1>4 DEF Launch, NextThread, ExecutorTypeInv
    <2>2. ASSUME NEW u \in Threads PROVE ThreadFollows(u)'
        <3>1. u \in Nat /\ thread \in Nat /\ ThreadFollows(u)
            BY <1>0
        <3>2. CASE u < thread
            <4>1. u # thread
                BY <3>1, <3>2
            <4> QED BY <4>1, <2>1, <3>1, <3>2, <1>0 DEF ThreadFollows
        <3>3. CASE u = thread
            <4>1. workingFlag'[u] /\ threadPc'[u] \in {"loop", "wait"}
                BY <2>1, <3>1, <3>3 DEF ThreadFollows
            <4> QED BY <2>1, <3>1, <3>3, <4>1, <1>0 DEF ThreadFollows
        <3>4. CASE u > thread
            <4>1. u # thread
                BY <3>1, <3>4
            <4> QED BY <4>1, <2>1, <3>1, <3>4, <1>0 DEF ThreadFollows
        <3> QED BY <3>1, <3>2, <3>3, <3>4
    <2> QED BY <2>1, <2>2 DEF ThreadsFollowCaller
<1>5. ASSUME Await PROVE ThreadsFollowCaller'
    <2>1. /\ callerPc = "await" /\ ~workingFlag[thread] /\ thread' = next
          /\ callerPc' = IF thread + 1 = WorkerThreadCount THEN "ready" ELSE "await"
          /\ UNCHANGED <<workingFlag, threadPc>>
        BY <1>5 DEF Await, NextThread
    <2>2. ASSUME NEW u \in Threads PROVE ThreadFollows(u)'
        <3>1. u \in Nat /\ thread \in Nat /\ ThreadFollows(u)
            BY <1>0
        <3>2. CASE thread + 1 # WorkerThreadCount
            <4>1. thread' = thread + 1 /\ callerPc' = "await"
                BY <1>0, <2>1, <3>2
            <4> QED BY <2>1, <3>1, <4>1 DEF ThreadFollows
        <3>3. CASE thread + 1 = WorkerThreadCount
            <4>1. u =< thread /\ callerPc' = "ready"
                BY <1>0, <2>1, <3>3
            <4> QED BY <2>1, <3>1, <4>1 DEF ThreadFollows
        <3> QED BY <3>2, <3>3
    <2> QED BY <1>0, <2>1, <2>2 DEF ThreadsFollowCaller
<1>6. ASSUME Destruct \/ Stop \/ Join PROVE ThreadsFollowCaller'
    <2>1. /\ callerPc \in {"ready", "stop", "join"}
          /\ callerPc' \in {"stop", "join", "destroyed"}
          /\ UNCHANGED threadPc
        BY <1>6 DEF Destruct, Stop, Join
    <2> QED BY <1>0, <2>1 DEF ThreadFollows, ThreadsFollowCaller
<1> QED BY <1>1, <1>2, <1>3, <1>4, <1>5, <1>6 DEF CallerFlow, AnyCall

\* No step takes a thread where the caller does not let it be
\* (ParallelExecutor.h:238-256, 308-321, 362-380).
LEMMA FollowStep ==
    ASSUME ExecutorInv, FlowStep
    PROVE  ThreadsFollowCaller'
<1>1. CASE UNCHANGED flowVars
    BY <1>1 DEF flowVars, ExecutorInv, ThreadsFollowCaller, ThreadFollows, Resting,
       Working, Stopping
<1> QED BY <1>1, WorkerFollows, CallerFollows DEF FlowStep

-----------------------------------------------------------------------------
\* A step within a call that claims nothing, runs nothing and finishes no chunk
\* (ParallelExecutor.h:308-321, 362-380).
LEMMA StepOutsideTheChunks ==
    ASSUME ExecutorInv, Busy, Busy',
           UNCHANGED <<chunkSize, axisCount, claimIndex, runs, page, index, workEnd>>,
           Spent' = Spent,
           \A t \in Threads : threadPc'[t] = "run" => threadPc[t] = "run",
           \A t \in Threads : \A i \in Nat : Claimed(t, i)' <=> Claimed(t, i),
           \A t \in Threads : \A k \in Nat : IsResult(t, k)' <=> IsResult(t, k)
    PROVE  WorkInv'
<1>0. WorkInv /\ Indices \subseteq Nat
    BY ExecutorNumbers DEF ExecutorInv
<1>1. ChunkIsClaimed'
    BY <1>0 DEF WorkInv, ChunkIsClaimed
<1>2. ClaimsAreDisjoint'
    BY <1>0 DEF WorkInv, ClaimsAreDisjoint
<1>3. ClaimIndexIsBounded'
    BY <1>0 DEF WorkInv, ClaimIndexIsBounded
<1>4. RunsAreExact'
    <2> SUFFICES ASSUME NEW i \in Indices
                 PROVE  runs[i] = IF /\ i < axisCount /\ i + chunkSize < claimIndex
                                     /\ \A t \in Threads : ~Claimed(t, i)'
                                  THEN 1 ELSE 0
        BY DEF RunsAreExact
    <2>1. \A t \in Threads : Claimed(t, i)' <=> Claimed(t, i)
        BY <1>0
    <2> QED BY <1>0, <2>1 DEF WorkInv, RunsAreExact
<1>5. ResultsAreKept'
    <2>1. ResultsAreKept
        BY <1>0 DEF WorkInv
    <2>2. \A t \in Threads : \A k \in Nat : IsResult(t, k)' =>
              page'[t][k] \in Indices \ Resultless /\ runs'[page'[t][k]] = 1
        BY <2>1 DEF ResultsAreKept
    <2>3. \A i \in Indices \ Resultless : runs'[i] = 1 =>
              \E t \in Threads : \E k \in Nat : IsResult(t, k)' /\ page'[t][k] = i
        BY <2>1 DEF ResultsAreKept
    <2>4. \A t, u \in Threads : \A k, l \in Nat :
              IsResult(t, k)' /\ IsResult(u, l)' /\ page'[t][k] = page'[u][l]
                  => t = u /\ k = l
        BY <2>1 DEF ResultsAreKept
    <2> QED BY <2>2, <2>3, <2>4 DEF ResultsAreKept
<1>6. CallIsComplete'
    BY DEF CallIsComplete, Busy, HasResults
<1> QED BY <1>1, <1>2, <1>3, <1>4, <1>5, <1>6 DEF WorkInv

\* A thread on its way to its work or back, or at the end of a chunk
\* (ParallelExecutor.h:286-290, 362-380).
LEMMA WalkKeepsWork ==
    ASSUME ExecutorInv, Busy, NEW t \in Threads,
           Loop(t) \/ Wait(t) \/ Check(t) \/ ChunkDone(t) \/ Finish(t)
    PROVE  WorkInv'
<1>0. ExecutorTypeInv /\ CallIsSet /\ Busy' /\ ~shouldStop /\ work = "for"
    BY DEF ExecutorInv, CallIsSet, Busy, Stopping, Loop, Exit, Wait, Check, ChunkDone, Finish
<1>1. /\ UNCHANGED <<callerPc, thread, chunkSize, axisCount, claimIndex, runs, page,
                     index, workEnd, elementCount>>
      /\ \A u \in Threads \ {t} : /\ threadPc'[u] = threadPc[u]
                                  /\ workingFlag'[u] = workingFlag[u]
      /\ threadPc'[t] # "run"
    BY <1>0 DEF Loop, Exit, Wait, Check, ChunkDone, Finish, GotoThread, ExecutorTypeInv,
       callVars, workerVars
<1>2. \A u \in Threads : /\ Launched(u)' <=> Launched(u)
                         /\ threadPc'[u] = "run" => threadPc[u] = "run"
    BY <1>1 DEF Launched
<1>3. \A u \in Threads : \A i \in Nat : Claimed(u, i)' <=> Claimed(u, i)
    <2>1. \A u \in Threads \ {t} : \A i \in Nat : Claimed(u, i)' <=> Claimed(u, i)
        BY <1>1 DEF Claimed
    <2>2. threadPc[t] = "run" => index[t] \in Nat /\ workEnd[t] \in Nat
                                 /\ index[t] >= workEnd[t]
        BY <1>0 DEF Loop, Exit, Wait, Check, ChunkDone, Finish, ExecutorTypeInv
    <2>3. \A i \in Nat : ~Claimed(t, i) /\ ~Claimed(t, i)'
        BY <1>1, <2>2 DEF Claimed
    <2> QED BY <2>1, <2>3
<1>4. Spent' = Spent
    <2>1. \A u \in Threads \ {t} : u \in Spent' <=> u \in Spent
        BY <1>1, <1>2 DEF Spent
    <2>2. t \in Spent' <=> t \in Spent
        <3>1. CASE Loop(t) \/ Wait(t) \/ Check(t)
            <4>1. /\ threadPc[t] \notin {"run", "finish"}
                  /\ threadPc'[t] \notin {"run", "finish"}
                  /\ workingFlag'[t] = workingFlag[t]
                BY <3>1, <1>0 DEF Loop, Exit, Wait, Check, GotoThread, ExecutorTypeInv
            <4> QED BY <1>1, <1>2, <4>1 DEF Spent
        <3>2. CASE ChunkDone(t)
            <4>1. /\ threadPc[t] = "run" /\ threadPc'[t] = "claim"
                  /\ workingFlag'[t] = workingFlag[t] /\ index[t] >= workEnd[t]
                BY <3>2, <1>0 DEF ChunkDone, GotoThread, ExecutorTypeInv
            <4>2. workingFlag[t]
                BY <4>1, WorkingThread
            <4>3. /\ index[t] =< workEnd[t]
                  /\ index[t] = workEnd[t] => workEnd[t] =< axisCount
                BY <4>1 DEF ExecutorInv, WorkInv, ChunkIsClaimed
            <4>4. ~(workEnd[t] > axisCount)
                <5>1. index[t] \in Nat /\ workEnd[t] \in Nat /\ axisCount \in Nat
                    BY <1>0 DEF ExecutorTypeInv
                <5> QED BY <4>1, <4>3, <5>1
            <4> QED BY <1>1, <1>2, <4>1, <4>2, <4>4 DEF Spent
        <3>3. CASE Finish(t)
            <4>1. threadPc[t] = "finish" /\ ~workingFlag'[t]
                BY <3>3, <1>0 DEF Finish, GotoThread, ExecutorTypeInv
            <4>2. Launched(t)
                BY <4>1, WorkingThread
            <4> QED BY <1>2, <4>1, <4>2 DEF Spent
        <3> QED BY <3>1, <3>2, <3>3
    <2>3. Spent \subseteq Threads /\ Spent' \subseteq Threads
        BY DEF Spent
    <2> QED BY <2>1, <2>2, <2>3
<1>5. \A u \in Threads : \A k \in Nat : IsResult(u, k)' <=> IsResult(u, k)
    BY <1>1, <1>2 DEF IsResult
<1> QED BY <1>0, <1>1, <1>2, <1>3, <1>4, <1>5, StepOutsideTheChunks

\* The caller gives one thread its flag, with no result of an earlier call left,
\* or finds one flag down (ParallelExecutor.h:308-321).
LEMMA CallerKeepsWork ==
    ASSUME ExecutorInv, Busy, Busy', Launch \/ Await
    PROVE  WorkInv'
<1>0. /\ ExecutorTypeInv /\ \A u \in Threads : ThreadFollows(u)
      /\ WorkerThreadCount \in Nat \ {0} /\ Threads \subseteq Nat
      /\ thread \in Threads /\ thread \in Nat
      /\ thread + 1 # WorkerThreadCount =>
                (thread + 1) % WorkerThreadCount = thread + 1
      /\ thread + 1 = WorkerThreadCount =>
                \A t \in Threads : t =< thread
    BY NextThreadType, ExecutorNumbers
       DEF ExecutorInv, ThreadsFollowCaller, ExecutorTypeInv
<1>1. /\ UNCHANGED <<chunkSize, axisCount, claimIndex, runs, page, index, workEnd, threadPc>>
    BY DEF Launch, Await, callVars, workerVars
<1>2. \A u \in Threads : \A i \in Nat : Claimed(u, i)' <=> Claimed(u, i)
    BY <1>1 DEF Claimed
<1>3. CASE Launch
    <2>1. /\ callerPc = "launch"
          /\ callerPc' = IF thread + 1 = WorkerThreadCount THEN "await" ELSE "launch"
          /\ thread' = (thread + 1) % WorkerThreadCount
          /\ workingFlag'[thread] /\ elementCount'[thread] = 0
          /\ \A u \in Threads \ {thread} : /\ workingFlag'[u] = workingFlag[u]
                                           /\ elementCount'[u] = elementCount[u]
        BY <1>0, <1>3 DEF Launch, NextThread, ExecutorTypeInv
    <2>2. ~Launched(thread) /\ threadPc[thread] \notin {"run", "finish"}
        BY <1>0, <2>1 DEF Launched, ThreadFollows, Resting
    <2>3. \A u \in Threads \ {thread} : Launched(u)' <=> Launched(u)
        <3> SUFFICES ASSUME NEW u \in Threads \ {thread}
                     PROVE  Launched(u)' <=> Launched(u)
            OBVIOUS
        <3>1. u \in Nat
            BY <1>0
        <3>2. CASE thread + 1 = WorkerThreadCount
            <4>1. u < thread /\ callerPc' = "await"
                BY <1>0, <2>1, <3>1, <3>2
            <4> QED BY <2>1, <4>1 DEF Launched
        <3>3. CASE thread + 1 # WorkerThreadCount
            <4>1. thread' = thread + 1 /\ callerPc' = "launch"
                BY <1>0, <2>1, <3>3
            <4>2. u < thread + 1 <=> u < thread
                BY <1>0, <3>1
            <4> QED BY <2>1, <4>1, <4>2 DEF Launched
        <3> QED BY <3>2, <3>3
    <2>4. Spent' = Spent
        <3>1. thread \notin Spent /\ thread \notin Spent'
            BY <1>1, <2>1, <2>2 DEF Spent
        <3>2. \A u \in Threads \ {thread} : u \in Spent' <=> u \in Spent
            BY <1>1, <2>1, <2>3 DEF Spent
        <3>3. Spent \subseteq Threads /\ Spent' \subseteq Threads
            BY DEF Spent
        <3> QED BY <3>1, <3>2, <3>3
    <2>5. \A u \in Threads : \A k \in Nat : IsResult(u, k)' <=> IsResult(u, k)
        <3>1. ASSUME NEW u \in Threads, u = thread, NEW k \in Nat
              PROVE  ~IsResult(u, k) /\ ~IsResult(u, k)'
            BY <2>1, <2>2, <3>1 DEF IsResult
        <3>2. \A u \in Threads \ {thread} : \A k \in Nat :
                  IsResult(u, k)' <=> IsResult(u, k)
            BY <2>1, <2>3 DEF IsResult
        <3> QED BY <3>1, <3>2
    <2> QED BY <1>1, <1>2, <2>4, <2>5, StepOutsideTheChunks
<1>4. CASE Await
    <2>1. /\ callerPc = "await" /\ callerPc' = "await"
          /\ UNCHANGED <<workingFlag, elementCount>>
        BY <1>4 DEF Await, NextThread, Busy, workerVars
    <2>2. \A u \in Threads : Launched(u)' /\ Launched(u)
        BY <2>1 DEF Launched
    <2>3. Spent' = Spent
        BY <1>1, <2>1, <2>2 DEF Spent
    <2>4. \A u \in Threads : \A k \in Nat : IsResult(u, k)' <=> IsResult(u, k)
        BY <2>1, <2>2 DEF IsResult
    <2> QED BY <1>1, <1>2, <2>3, <2>4, StepOutsideTheChunks
<1> QED BY <1>3, <1>4

\* A call begins: no thread has its flag, and no index has been run
\* (ParallelExecutor.h:258-306).
LEMMA CallBegins ==
    ASSUME ExecutorInv, NEW chunk \in ChunkSizes, NEW axes \in AxisCounts,
           ParallelFor(chunk, axes)
    PROVE  WorkInv'
<1>0. /\ Indices \subseteq Nat /\ Threads \subseteq Nat
      /\ chunk \in Nat \ {0} /\ axes \in Nat
    BY ExecutorNumbers
<1>1. /\ callerPc = "ready" /\ callerPc' = "launch" /\ thread' = 0
      /\ chunkSize' = chunk /\ axisCount' = axes /\ claimIndex' = 0
      /\ \A i \in Indices : runs'[i] = 0
      /\ UNCHANGED threadPc
    BY DEF ParallelFor, ExecutorInv, ThreadsFollowCaller
<1>2. \A t \in Threads : threadPc'[t] # "run"
    BY <1>1 DEF ExecutorInv, ThreadsFollowCaller, ThreadFollows, Resting
<1>3. \A t \in Threads : ~Launched(t)'
    <2> SUFFICES ASSUME NEW t \in Threads PROVE ~Launched(t)'
        OBVIOUS
    <2>1. t \in Nat
        BY <1>0
    <2> QED BY <1>1, <2>1 DEF Launched
<1>4. Spent' = {}
    BY <1>3 DEF Spent
<1>5. ChunkIsClaimed' /\ ClaimsAreDisjoint'
    BY <1>2 DEF ChunkIsClaimed, ClaimsAreDisjoint, Claimed
<1>6. ClaimIndexIsBounded'
    <2>1. Cardinality(Spent') = 0
        BY <1>4, FS_EmptySet
    <2>2. 0 =< axes + chunk + chunk * Cardinality(Spent')
        BY <1>0, <2>1
    <2> QED BY <1>1, <1>4, <2>2 DEF ClaimIndexIsBounded
<1>7. RunsAreExact'
    <2>1. \A i \in Indices : ~(i + chunk < 0)
        BY <1>0
    <2> QED BY <1>1, <2>1 DEF RunsAreExact
<1>8. ResultsAreKept'
    BY <1>1, <1>3 DEF ResultsAreKept, IsResult
<1>9. CallIsComplete'
    BY <1>1 DEF CallIsComplete, Busy, HasResults
<1> QED BY <1>5, <1>6, <1>7, <1>8, <1>9 DEF WorkInv

\* A thread claims the chunk that ends at the old value of workIndex_
\* (ParallelExecutor.h:286-288).
LEMMA ClaimKeepsWork ==
    ASSUME ExecutorInv, NEW t \in Threads, Claim(t)
    PROVE  WorkInv'
<1>0. /\ ExecutorTypeInv /\ Busy /\ Launched(t) /\ workingFlag[t]
      /\ chunkSize \in Nat \ {0} /\ axisCount \in Nat /\ claimIndex \in Nat
      /\ threadPc[t] = "claim"
      /\ Indices \subseteq Nat
    BY WorkingThread, ExecutorNumbers DEF Claim, ExecutorInv, ExecutorTypeInv
<1>1. /\ UNCHANGED <<callerPc, thread, chunkSize, axisCount, workingFlag, runs, page,
                     elementCount>>
      /\ claimIndex' = claimIndex + chunkSize
      /\ threadPc'[t] = "run" /\ workEnd'[t] = claimIndex
      /\ index'[t] = IF claimIndex < chunkSize THEN claimIndex
                     ELSE claimIndex - chunkSize
      /\ \A u \in Threads \ {t} : /\ threadPc'[u] = threadPc[u]
                                  /\ index'[u] = index[u] /\ workEnd'[u] = workEnd[u]
    BY <1>0, ClaimDoesNotWrap DEF Claim, GotoThread, ExecutorTypeInv, callVars
<1>2. /\ ChunkIsClaimed /\ ClaimsAreDisjoint /\ ClaimIndexIsBounded /\ RunsAreExact
      /\ ResultsAreKept
    BY DEF ExecutorInv, WorkInv
<1>3. /\ claimIndex = 0 \/ chunkSize =< claimIndex
      /\ claimIndex =< axisCount + chunkSize + chunkSize * Cardinality(Spent)
      /\ Spent # {} => axisCount + chunkSize < claimIndex
    BY <1>0, <1>2 DEF ClaimIndexIsBounded
<1>4. /\ index'[t] \in Nat /\ index'[t] =< claimIndex
      /\ claimIndex = 0 => index'[t] = 0
      /\ claimIndex # 0 => index'[t] = claimIndex - chunkSize
    BY <1>0, <1>1, <1>3
<1>5. \A u \in Threads \ {t} : \A i \in Nat : Claimed(u, i)' <=> Claimed(u, i)
    BY <1>1 DEF Claimed
<1>6. \A i \in Nat : /\ ~Claimed(t, i)
                     /\ Claimed(t, i)' <=> (claimIndex # 0 /\ claimIndex - chunkSize =< i
                                            /\ i < claimIndex)
    <2> SUFFICES ASSUME NEW i \in Nat
                 PROVE  /\ ~Claimed(t, i)
                        /\ Claimed(t, i)' <=> (claimIndex # 0 /\ claimIndex - chunkSize =< i
                                               /\ i < claimIndex)
        OBVIOUS
    <2>1. ~Claimed(t, i)
        BY <1>0 DEF Claimed
    <2>2. Claimed(t, i)' <=> (index'[t] =< i /\ i < claimIndex)
        BY <1>1 DEF Claimed
    <2> QED BY <1>0, <1>4, <2>1, <2>2
<1>7. ASSUME NEW u \in Threads, threadPc[u] = "run"
      PROVE  /\ index[u] =< workEnd[u] /\ workEnd[u] + chunkSize =< claimIndex
             /\ index[u] = workEnd[u] => workEnd[u] =< axisCount
             /\ workEnd[u] \in Nat /\ index[u] \in Nat
    BY <1>0, <1>2, <1>7 DEF ChunkIsClaimed, ExecutorTypeInv
<1>8. ChunkIsClaimed'
    <2> SUFFICES ASSUME NEW u \in Threads, threadPc'[u] = "run"
                 PROVE  /\ index'[u] =< workEnd'[u]
                        /\ workEnd'[u] + chunkSize =< claimIndex'
                        /\ index'[u] = workEnd'[u] => workEnd'[u] =< axisCount
        BY <1>1 DEF ChunkIsClaimed
    <2>1. CASE u = t
        BY <1>0, <1>1, <1>4, <2>1
    <2>2. CASE u # t
        <3>1. threadPc[u] = "run" /\ index'[u] = index[u] /\ workEnd'[u] = workEnd[u]
            BY <1>1, <2>2
        <3> QED BY <1>0, <1>1, <1>7, <3>1
    <2> QED BY <2>1, <2>2
<1>9. ClaimsAreDisjoint'
    <2>1. ASSUME NEW u \in Threads \ {t}, NEW i \in Nat, Claimed(u, i)
          PROVE  ~Claimed(t, i)'
        <3>1. threadPc[u] = "run" /\ i < workEnd[u]
            BY <2>1 DEF Claimed
        <3>2. workEnd[u] + chunkSize =< claimIndex /\ workEnd[u] \in Nat
            BY <1>7, <3>1
        <3>3. ~(claimIndex - chunkSize =< i)
            BY <1>0, <3>1, <3>2
        <3> QED BY <1>6, <3>3
    <2>2. ASSUME NEW u \in Threads, NEW v \in Threads, NEW i \in Nat,
                 Claimed(u, i)', Claimed(v, i)'
          PROVE  u = v
        <3>1. CASE u # t /\ v # t
            BY <1>0, <1>2, <1>5, <2>2, <3>1 DEF ClaimsAreDisjoint
        <3>2. CASE u = t /\ v # t
            BY <1>5, <2>1, <2>2, <3>2
        <3>3. CASE u # t /\ v = t
            BY <1>5, <2>1, <2>2, <3>3
        <3> QED BY <3>1, <3>2, <3>3
    <2> QED BY <2>2 DEF ClaimsAreDisjoint
<1>10. /\ t \notin Spent
       /\ Spent' = IF claimIndex > axisCount THEN Spent \cup {t} ELSE Spent
    <2>1. \A u \in Threads : Launched(u)' <=> Launched(u)
        BY <1>1 DEF Launched
    <2>2. t \notin Spent /\ (t \in Spent' <=> claimIndex > axisCount)
        BY <1>0, <1>1, <2>1 DEF Spent
    <2>3. \A u \in Threads \ {t} : u \in Spent' <=> u \in Spent
        BY <1>1, <2>1 DEF Spent
    <2>4. Spent \subseteq Threads /\ Spent' \subseteq Threads
        BY DEF Spent
    <2> QED BY <2>2, <2>3, <2>4
<1>11. ClaimIndexIsBounded'
    <2> DEFINE n == Cardinality(Spent)
    <2>1. n \in Nat /\ IsFiniteSet(Spent)
        BY SpentIsFinite
    <2>2. claimIndex =< axisCount + chunkSize + chunkSize * n
        BY <1>3
    <2>3. claimIndex > axisCount => Cardinality(Spent') = n + 1
        BY <1>10, <2>1, FS_AddElement
    <2>4. ~(claimIndex > axisCount) => Cardinality(Spent') = n
        BY <1>10
    <2>5. Spent # {} => axisCount + chunkSize < claimIndex
        BY <1>3
    <2> HIDE DEF n
    <2>6. chunkSize * (n + 1) = chunkSize * n + chunkSize /\ chunkSize * n \in Nat
        BY <1>0, <2>1
    <2>7. claimIndex' =< axisCount + chunkSize + chunkSize * Cardinality(Spent')
        <3>1. CASE claimIndex > axisCount
            <4>1. claimIndex + chunkSize
                      =< axisCount + chunkSize + (chunkSize * n + chunkSize)
                BY <1>0, <2>2, <2>6
            <4> QED BY <1>1, <2>3, <2>6, <3>1, <4>1
        <3>2. CASE ~(claimIndex > axisCount)
            <4>1. claimIndex + chunkSize =< axisCount + chunkSize + chunkSize * n
                BY <1>0, <2>6, <3>2
            <4> QED BY <1>1, <2>4, <3>2, <4>1
        <3> QED BY <3>1, <3>2
    <2>8. Spent' # {} => axisCount + chunkSize < claimIndex'
        <3>1. CASE claimIndex > axisCount
            BY <1>0, <1>1, <3>1
        <3>2. CASE ~(claimIndex > axisCount)
            BY <1>0, <1>1, <1>10, <2>5, <3>2
        <3> QED BY <3>1, <3>2
    <2>9. chunkSize =< claimIndex'
        BY <1>0, <1>1
    <2> QED BY <1>1, <2>7, <2>8, <2>9 DEF ClaimIndexIsBounded
<1>12. RunsAreExact'
    <2> SUFFICES ASSUME NEW i \in Indices
                 PROVE  runs[i] = IF /\ i < axisCount /\ i + chunkSize < claimIndex'
                                     /\ \A u \in Threads : ~Claimed(u, i)'
                                  THEN 1 ELSE 0
        BY <1>1 DEF RunsAreExact
    <2>0. i \in Nat
        BY <1>0
    <2>1. runs[i] = IF /\ i < axisCount /\ i + chunkSize < claimIndex
                       /\ \A u \in Threads : ~Claimed(u, i)
                    THEN 1 ELSE 0
        BY <1>0, <1>2 DEF RunsAreExact
    <2>2. CASE i + chunkSize < claimIndex
        <3>1. ~Claimed(t, i)' /\ ~Claimed(t, i)
            BY <1>0, <1>6, <2>0, <2>2
        <3>2. i + chunkSize < claimIndex'
            BY <1>0, <1>1, <2>0, <2>2
        <3>3. \A u \in Threads : Claimed(u, i)' <=> Claimed(u, i)
            BY <1>5, <2>0, <3>1
        <3> QED BY <2>1, <2>2, <3>2, <3>3
    <2>3. CASE ~(i + chunkSize < claimIndex)
        <3>1. i + chunkSize < claimIndex' => Claimed(t, i)'
            BY <1>0, <1>1, <1>6, <2>0, <2>3
        <3> QED BY <2>1, <2>3, <3>1
    <2> QED BY <2>2, <2>3
<1>13. ResultsAreKept'
    <2>1. \A u \in Threads : \A k \in Nat : IsResult(u, k)' <=> IsResult(u, k)
        BY <1>1 DEF IsResult, Launched
    <2>2. \A u \in Threads : \A k \in Nat : IsResult(u, k)' =>
              page'[u][k] \in Indices \ Resultless /\ runs'[page'[u][k]] = 1
        BY <1>0, <1>1, <1>2, <2>1 DEF ResultsAreKept
    <2>3. \A i \in Indices \ Resultless : runs'[i] = 1 =>
              \E u \in Threads : \E k \in Nat : IsResult(u, k)' /\ page'[u][k] = i
        BY <1>0, <1>1, <1>2, <2>1 DEF ResultsAreKept
    <2>4. \A u, v \in Threads : \A k, l \in Nat :
              IsResult(u, k)' /\ IsResult(v, l)' /\ page'[u][k] = page'[v][l]
                  => u = v /\ k = l
        BY <1>0, <1>1, <1>2, <2>1 DEF ResultsAreKept
    <2> QED BY <2>2, <2>3, <2>4 DEF ResultsAreKept
<1>14. CallIsComplete'
    BY <1>0, <1>1 DEF CallIsComplete, Busy, HasResults
<1> QED BY <1>8, <1>9, <1>11, <1>12, <1>13, <1>14 DEF WorkInv

\* A thread comes to an index without an axis: it is done, and so will all
\* others be (ParallelExecutor.h:290-296).
LEMMA EndKeepsWork ==
    ASSUME ExecutorInv, NEW t \in Threads, RunTask(t), index[t] >= axisCount
    PROVE  WorkInv'
<1>0. /\ ExecutorTypeInv /\ Busy /\ Launched(t) /\ workingFlag[t]
      /\ axisCount \in Nat /\ index[t] \in Nat /\ workEnd[t] \in Nat
      /\ threadPc[t] = "run" /\ index[t] < workEnd[t]
      /\ Indices \subseteq Nat
    BY WorkingThread, ExecutorNumbers DEF RunTask, ExecutorInv, ExecutorTypeInv
<1>1. /\ UNCHANGED <<callerPc, thread, chunkSize, axisCount, claimIndex, workingFlag,
                     runs, page, elementCount, index, workEnd>>
      /\ threadPc'[t] = "finish"
      /\ \A u \in Threads \ {t} : threadPc'[u] = threadPc[u]
    <2>1. ~(index[t] < axisCount)
        BY <1>0
    <2> QED BY <1>0, <2>1 DEF RunTask, GotoThread, ExecutorTypeInv, callVars, workerVars
<1>2. /\ ChunkIsClaimed /\ ClaimsAreDisjoint /\ ClaimIndexIsBounded /\ RunsAreExact
      /\ ResultsAreKept
    BY DEF ExecutorInv, WorkInv
<1>3. Busy'
    BY <1>0, <1>1 DEF Busy
<1>4. \A u \in Threads : Launched(u)' <=> Launched(u)
    BY <1>1 DEF Launched
<1>5. Spent' = Spent
    <2>1. workEnd[t] > axisCount
        BY <1>0
    <2>2. t \in Spent /\ t \in Spent'
        BY <1>0, <1>1, <1>4, <2>1 DEF Spent
    <2>3. \A u \in Threads \ {t} : u \in Spent' <=> u \in Spent
        BY <1>1, <1>4 DEF Spent
    <2>4. Spent \subseteq Threads /\ Spent' \subseteq Threads
        BY DEF Spent
    <2> QED BY <2>2, <2>3, <2>4
<1>6. \A u \in Threads \ {t} : \A i \in Nat : Claimed(u, i)' <=> Claimed(u, i)
    BY <1>1 DEF Claimed
<1>7. \A i \in Nat : ~Claimed(t, i)' /\ (Claimed(t, i) => ~(i < axisCount))
    BY <1>0, <1>1 DEF Claimed
<1>8. ChunkIsClaimed'
    <2>1. \A u \in Threads : threadPc'[u] = "run" => threadPc[u] = "run"
        BY <1>0, <1>1
    <2> QED BY <1>0, <1>1, <1>2, <2>1 DEF ChunkIsClaimed
<1>9. ClaimsAreDisjoint'
    <2>1. \A u \in Threads : \A i \in Nat : Claimed(u, i)' => Claimed(u, i)
        BY <1>6, <1>7
    <2> QED BY <1>0, <1>2, <2>1 DEF ClaimsAreDisjoint
<1>10. ClaimIndexIsBounded'
    BY <1>0, <1>1, <1>2, <1>5 DEF ClaimIndexIsBounded
<1>11. RunsAreExact'
    <2> SUFFICES ASSUME NEW i \in Indices
                 PROVE  runs[i] = IF /\ i < axisCount /\ i + chunkSize < claimIndex
                                     /\ \A u \in Threads : ~Claimed(u, i)'
                                  THEN 1 ELSE 0
        BY <1>1 DEF RunsAreExact
    <2>1. runs[i] = IF /\ i < axisCount /\ i + chunkSize < claimIndex
                       /\ \A u \in Threads : ~Claimed(u, i)
                    THEN 1 ELSE 0
        BY <1>0, <1>2 DEF RunsAreExact
    <2>2. i \in Nat
        BY <1>0
    <2>3. i < axisCount => ((\A u \in Threads : ~Claimed(u, i)')
                              <=> (\A u \in Threads : ~Claimed(u, i)))
        BY <1>6, <1>7, <2>2
    <2> QED BY <2>1, <2>3
<1>12. ResultsAreKept'
    <2>1. \A u \in Threads : \A k \in Nat : IsResult(u, k)' <=> IsResult(u, k)
        BY <1>1, <1>4 DEF IsResult
    <2>2. \A u \in Threads : \A k \in Nat : IsResult(u, k)' =>
              page'[u][k] \in Indices \ Resultless /\ runs'[page'[u][k]] = 1
        BY <1>0, <1>1, <1>2, <2>1 DEF ResultsAreKept
    <2>3. \A i \in Indices \ Resultless : runs'[i] = 1 =>
              \E u \in Threads : \E k \in Nat : IsResult(u, k)' /\ page'[u][k] = i
        <3> SUFFICES ASSUME NEW i \in Indices \ Resultless, runs'[i] = 1
                     PROVE  \E u \in Threads : \E k \in Nat :
                                IsResult(u, k)' /\ page'[u][k] = i
            OBVIOUS
        <3>1. runs[i] = 1
            BY <1>1
        <3>2. PICK u \in Threads, k \in Nat : IsResult(u, k) /\ page[u][k] = i
            BY <1>0, <1>2, <3>1 DEF ResultsAreKept
        <3>3. IsResult(u, k)' /\ page'[u][k] = i
            BY <1>1, <2>1, <3>2
        <3> QED BY <3>3
    <2>4. \A u, v \in Threads : \A k, l \in Nat :
              IsResult(u, k)' /\ IsResult(v, l)' /\ page'[u][k] = page'[v][l]
                  => u = v /\ k = l
        BY <1>0, <1>1, <1>2, <2>1 DEF ResultsAreKept
    <2> QED BY <2>2, <2>3, <2>4 DEF ResultsAreKept
<1>13. CallIsComplete'
    BY <1>3 DEF CallIsComplete, Busy, HasResults
<1> QED BY <1>8, <1>9, <1>10, <1>11, <1>12, <1>13 DEF WorkInv

\* What a thread changes that runs the task for its next index: nothing but the
\* count of this index and its own page (ParallelExecutor.h:290-309).
LEMMA TaskStep ==
    ASSUME ExecutorInv, NEW t \in Threads, RunTask(t), index[t] < axisCount
    PROVE  /\ UNCHANGED <<callerPc, thread, chunkSize, axisCount, claimIndex, workingFlag,
                          threadPc, workEnd, calls, returned>>
           /\ index[t] \in Indices /\ index[t] \in Nat
           /\ index'[t] = index[t] + 1
           /\ \A u \in Threads \ {t} : index'[u] = index[u]
           /\ runs[index[t]] = 0 /\ runs'[index[t]] = 1
           /\ \A i \in Indices \ {index[t]} : runs'[i] = runs[i]
           /\ Claimed(t, index[t])
           /\ Spent' = Spent
<1>0. /\ ExecutorTypeInv /\ Busy /\ axisCount \in AxisCounts
      /\ axisCount \in Nat /\ index[t] \in Nat /\ workEnd[t] \in Nat
      /\ threadPc[t] = "run" /\ index[t] < workEnd[t]
      /\ Indices \subseteq Nat
    BY WorkingThread, ExecutorNumbers DEF RunTask, ExecutorInv, ExecutorTypeInv
<1>1. ~(index[t] >= axisCount)
    BY <1>0
<1>2. /\ UNCHANGED <<callerPc, thread, chunkSize, axisCount, claimIndex, workingFlag,
                     threadPc, workEnd, calls, returned>>
      /\ index' = [index EXCEPT ![t] = @ + 1]
      /\ runs' = [runs EXCEPT ![index[t]] = @ + 1]
    BY <1>1 DEF RunTask, callVars
<1>3. index[t] \in Indices
    BY <1>0, ExecutorNumbers
<1>4. Claimed(t, index[t])
    BY <1>0 DEF Claimed
<1>5. runs[index[t]] = 0
    BY <1>0, <1>3, <1>4 DEF ExecutorInv, WorkInv, RunsAreExact
<1>6. /\ index'[t] = index[t] + 1
      /\ \A u \in Threads \ {t} : index'[u] = index[u]
    BY <1>0, <1>2 DEF ExecutorTypeInv
<1>7. /\ runs'[index[t]] = 1
      /\ \A i \in Indices \ {index[t]} : runs'[i] = runs[i]
    BY <1>0, <1>2, <1>3, <1>5 DEF ExecutorTypeInv
<1>8. Spent' = Spent
    BY <1>2 DEF Spent, Launched
<1> QED BY <1>0, <1>2, <1>3, <1>4, <1>5, <1>6, <1>7, <1>8

\* The results after the task has run: one more, if it has returned one, at the
\* end of the thread's page (ParallelExecutor.h:298-309).
LEMMA TaskKeepsResults ==
    ASSUME ExecutorInv, NEW t \in Threads, RunTask(t), index[t] < axisCount
    PROVE  ResultsAreKept'
<1> DEFINE x == index[t]
           n == elementCount[t]
<1>0. /\ ExecutorTypeInv /\ Busy /\ Launched(t)
      /\ Indices \subseteq Nat /\ n \in Nat
      /\ ResultsAreKept
    BY WorkingThread, ExecutorNumbers
       DEF RunTask, ExecutorInv, ExecutorTypeInv, WorkInv
<1>1. /\ UNCHANGED <<callerPc, thread>> /\ x \in Indices
      /\ runs[x] = 0 /\ runs'[x] = 1
      /\ \A i \in Indices \ {x} : runs'[i] = runs[i]
    BY TaskStep
<1>2. \A u \in Threads : Launched(u)' <=> Launched(u)
    BY <1>1 DEF Launched
<1>3. CASE x \in Resultless
    <2>1. UNCHANGED <<page, elementCount>>
        BY <1>3, <1>0 DEF RunTask, ExecutorTypeInv, workerVars
    <2>2. \A u \in Threads : \A k \in Nat : IsResult(u, k)' <=> IsResult(u, k)
        BY <1>2, <2>1 DEF IsResult
    <2> HIDE DEF x, n
    <2>3. \A u \in Threads : \A k \in Nat : IsResult(u, k)' =>
              page'[u][k] \in Indices \ Resultless /\ runs'[page'[u][k]] = 1
        <3> SUFFICES ASSUME NEW u \in Threads, NEW k \in Nat, IsResult(u, k)'
                     PROVE  page'[u][k] \in Indices \ Resultless /\ runs'[page'[u][k]] = 1
            OBVIOUS
        <3>1. IsResult(u, k) /\ page'[u][k] = page[u][k]
            BY <2>1, <2>2
        <3>2. page[u][k] \in Indices \ Resultless /\ runs[page[u][k]] = 1
            BY <1>0, <3>1 DEF ResultsAreKept
        <3>3. page[u][k] # x
            BY <1>1, <3>2
        <3> QED BY <1>1, <3>1, <3>2, <3>3
    <2>4. \A i \in Indices \ Resultless : runs'[i] = 1 =>
              \E u \in Threads : \E k \in Nat : IsResult(u, k)' /\ page'[u][k] = i
        BY <1>0, <1>1, <1>3, <2>1, <2>2 DEF ResultsAreKept
    <2>5. \A u, v \in Threads : \A k, l \in Nat :
              IsResult(u, k)' /\ IsResult(v, l)' /\ page'[u][k] = page'[v][l]
                  => u = v /\ k = l
        BY <1>0, <2>1, <2>2 DEF ResultsAreKept
    <2> QED BY <2>3, <2>4, <2>5 DEF ResultsAreKept
<1>4. CASE x \notin Resultless
    <2>1. /\ page' = [page EXCEPT ![t] =
                 SubSeq(@, 1, elementCount[t]) \o <<index[t]>>
                 \o SubSeq(@, elementCount[t] + 2, Len(@))]
          /\ elementCount' = [elementCount EXCEPT ![t] = @ + 1]
        <3>1. ~(index[t] >= axisCount)
            BY <1>0 DEF ExecutorTypeInv
        <3> QED BY <1>4, <3>1 DEF RunTask
    <2>2. /\ page[t] \in Seq(Nat) /\ n =< Len(page[t])
          /\ page'[t] = SubSeq(page[t], 1, n) \o <<x>> \o SubSeq(page[t], n + 2, Len(page[t]))
          /\ elementCount'[t] = n + 1
          /\ \A u \in Threads \ {t} : page'[u] = page[u] /\ elementCount'[u] = elementCount[u]
        BY <1>0, <2>1 DEF ExecutorTypeInv
    <2>3. page'[t][n + 1] = x /\ \A k \in 1..n : page'[t][k] = page[t][k]
        <3>1. page'[t] = Stored(page[t], n, x)
            BY <2>2 DEF Stored
        <3>2. n \in Nat /\ x \in Nat /\ page[t] \in Seq(Nat) /\ n =< Len(page[t])
            BY <1>0, <1>1, <2>2
        <3> HIDE DEF n, x
        <3>3. /\ Stored(page[t], n, x)[n + 1] = x
              /\ \A k \in 1..n : Stored(page[t], n, x)[k] = page[t][k]
            BY <3>2, StoreInPage
        <3> QED BY <3>1, <3>3
    <2>4. \A u \in Threads : \A k \in Nat :
              IsResult(u, k)' <=> IsResult(u, k) \/ (u = t /\ k = n + 1)
        <3> SUFFICES ASSUME NEW u \in Threads, NEW k \in Nat
                     PROVE  IsResult(u, k)' <=> IsResult(u, k) \/ (u = t /\ k = n + 1)
            OBVIOUS
        <3>1. CASE u # t
            BY <1>2, <2>2, <3>1 DEF IsResult
        <3>2. CASE u = t
            <4>1. k \in 1..n + 1 <=> k \in 1..n \/ k = n + 1
                BY <1>0
            <4> QED BY <1>0, <1>2, <2>2, <3>2, <4>1 DEF IsResult
        <3> QED BY <3>1, <3>2
    <2>5. \A u \in Threads : \A k \in Nat : IsResult(u, k) => page'[u][k] = page[u][k]
        BY <2>2, <2>3 DEF IsResult
    <2>6. /\ \A u \in Threads : \A k \in Nat : IsResult(u, k) =>
                page[u][k] \in Indices \ Resultless /\ runs[page[u][k]] = 1
          /\ \A i \in Indices \ Resultless : runs[i] = 1 =>
                \E u \in Threads : \E k \in Nat : IsResult(u, k) /\ page[u][k] = i
          /\ \A u, v \in Threads : \A k, l \in Nat :
                IsResult(u, k) /\ IsResult(v, l) /\ page[u][k] = page[v][l]
                    => u = v /\ k = l
        BY <1>0 DEF ResultsAreKept
    <2>7. n + 1 \in Nat
        BY <1>0
    <2> HIDE DEF x, n
    <2>8. \A u \in Threads : \A k \in Nat : IsResult(u, k) => page'[u][k] # x
        BY <1>1, <2>5, <2>6
    <2>9. \A u \in Threads : \A k \in Nat : IsResult(u, k)' =>
              page'[u][k] \in Indices \ Resultless /\ runs'[page'[u][k]] = 1
        BY <1>1, <1>4, <2>3, <2>4, <2>5, <2>6
    <2>10. \A i \in Indices \ Resultless : runs'[i] = 1 =>
               \E u \in Threads : \E k \in Nat : IsResult(u, k)' /\ page'[u][k] = i
        <3> SUFFICES ASSUME NEW i \in Indices \ Resultless, runs'[i] = 1
                     PROVE  \E u \in Threads : \E k \in Nat :
                                IsResult(u, k)' /\ page'[u][k] = i
            OBVIOUS
        <3>1. CASE i = x
            BY <2>3, <2>4, <2>7, <3>1
        <3>2. CASE i # x
            <4>1. runs[i] = 1
                BY <1>1, <3>2
            <4>2. PICK u \in Threads, k \in Nat : IsResult(u, k) /\ page[u][k] = i
                BY <2>6, <4>1
            <4> QED BY <2>4, <2>5, <4>2
        <3> QED BY <3>1, <3>2
    <2>11. \A u, v \in Threads : \A k, l \in Nat :
               IsResult(u, k)' /\ IsResult(v, l)' /\ page'[u][k] = page'[v][l]
                   => u = v /\ k = l
        <3> SUFFICES ASSUME NEW u \in Threads, NEW v \in Threads, NEW k \in Nat, NEW l \in Nat,
                            IsResult(u, k)', IsResult(v, l)', page'[u][k] = page'[v][l]
                     PROVE  u = v /\ k = l
            OBVIOUS
        <3>1. CASE IsResult(u, k) /\ IsResult(v, l)
            BY <2>5, <2>6, <3>1
        <3>2. CASE ~IsResult(u, k)
            <4>1. u = t /\ k = n + 1 /\ page'[u][k] = x
                BY <2>3, <2>4, <3>2
            <4>2. ~IsResult(v, l)
                BY <2>8, <4>1
            <4> QED BY <2>4, <4>1, <4>2
        <3>3. CASE ~IsResult(v, l)
            <4>1. v = t /\ l = n + 1 /\ page'[v][l] = x
                BY <2>3, <2>4, <3>3
            <4>2. ~IsResult(u, k)
                BY <2>8, <4>1
            <4> QED BY <2>4, <4>1, <4>2
        <3> QED BY <3>1, <3>2, <3>3
    <2> QED BY <2>9, <2>10, <2>11 DEF ResultsAreKept
<1> QED BY <1>3, <1>4

\* A thread runs the task for the next index of its chunk
\* (ParallelExecutor.h:290-309).
LEMMA TaskKeepsWork ==
    ASSUME ExecutorInv, NEW t \in Threads, RunTask(t), index[t] < axisCount
    PROVE  WorkInv'
<1> DEFINE x == index[t]
<1>0. /\ ExecutorTypeInv /\ Busy /\ axisCount \in Nat /\ chunkSize \in Nat \ {0}
      /\ claimIndex \in Nat /\ workEnd[t] \in Nat /\ Indices \subseteq Nat
      /\ threadPc[t] = "run" /\ x < workEnd[t]
    BY WorkingThread, ExecutorNumbers DEF RunTask, ExecutorInv, ExecutorTypeInv
<1>1. /\ UNCHANGED <<callerPc, thread, chunkSize, axisCount, claimIndex, workingFlag,
                     threadPc, workEnd>>
      /\ x \in Indices /\ x \in Nat /\ x < axisCount
      /\ index'[t] = x + 1
      /\ \A u \in Threads \ {t} : index'[u] = index[u]
      /\ runs[x] = 0 /\ runs'[x] = 1
      /\ \A i \in Indices \ {x} : runs'[i] = runs[i]
      /\ Claimed(t, x)
      /\ Spent' = Spent
    BY TaskStep
<1>2. /\ ChunkIsClaimed /\ ClaimsAreDisjoint /\ ClaimIndexIsBounded /\ RunsAreExact
    BY DEF ExecutorInv, WorkInv
<1>3. Busy'
    BY <1>0, <1>1 DEF Busy
<1>4. ResultsAreKept'
    BY TaskKeepsResults
<1> HIDE DEF x
<1>5. ChunkIsClaimed'
    <2> SUFFICES ASSUME NEW u \in Threads, threadPc[u] = "run"
                 PROVE  /\ index'[u] =< workEnd[u]
                        /\ workEnd[u] + chunkSize =< claimIndex
                        /\ index'[u] = workEnd[u] => workEnd[u] =< axisCount
        BY <1>1 DEF ChunkIsClaimed
    <2>1. /\ index[u] =< workEnd[u]
          /\ workEnd[u] + chunkSize =< claimIndex
          /\ index[u] = workEnd[u] => workEnd[u] =< axisCount
        BY <1>0, <1>2 DEF ChunkIsClaimed
    <2>2. CASE u = t
        <3>1. index'[u] =< workEnd[u]
            BY <1>0, <1>1, <2>2
        <3>2. index'[u] = workEnd[u] => workEnd[u] =< axisCount
            BY <1>0, <1>1, <2>2
        <3> QED BY <2>1, <3>1, <3>2
    <2>3. CASE u # t
        BY <1>1, <2>1, <2>3
    <2> QED BY <2>2, <2>3
<1>6. \A u \in Threads : \A i \in Nat : Claimed(u, i)' <=> Claimed(u, i) /\ ~(u = t /\ i = x)
    <2> SUFFICES ASSUME NEW u \in Threads, NEW i \in Nat
                 PROVE  Claimed(u, i)' <=> Claimed(u, i) /\ ~(u = t /\ i = x)
        OBVIOUS
    <2>1. CASE u # t
        BY <1>1, <2>1 DEF Claimed
    <2>2. CASE u = t
        <3>1. index[t] = x
            BY DEF x
        <3>2. x + 1 =< i <=> x =< i /\ i # x
            BY <1>1
        <3> QED BY <1>1, <2>2, <3>1, <3>2 DEF Claimed
    <2> QED BY <2>1, <2>2
<1>7. ClaimsAreDisjoint'
    BY <1>0, <1>2, <1>6 DEF ClaimsAreDisjoint
<1>8. ClaimIndexIsBounded'
    BY <1>0, <1>1, <1>2 DEF ClaimIndexIsBounded
<1>9. RunsAreExact'
    <2> SUFFICES ASSUME NEW i \in Indices
                 PROVE  runs'[i] = IF /\ i < axisCount /\ i + chunkSize < claimIndex
                                      /\ \A u \in Threads : ~Claimed(u, i)'
                                   THEN 1 ELSE 0
        BY <1>1 DEF RunsAreExact
    <2>1. runs[i] = IF /\ i < axisCount /\ i + chunkSize < claimIndex
                       /\ \A u \in Threads : ~Claimed(u, i)
                    THEN 1 ELSE 0
        BY <1>0, <1>2 DEF RunsAreExact
    <2>2. i \in Nat
        BY <1>0
    <2>3. CASE i = x
        <3>1. workEnd[t] + chunkSize =< claimIndex
            BY <1>0, <1>2 DEF ChunkIsClaimed
        <3>2. i + chunkSize < claimIndex
            BY <1>0, <1>1, <2>3, <3>1
        <3>3. \A u \in Threads : Claimed(u, x) => u = t
            BY <1>0, <1>1, <1>2 DEF ClaimsAreDisjoint
        <3>4. \A u \in Threads : ~Claimed(u, i)'
            BY <1>6, <2>2, <2>3, <3>3
        <3> QED BY <1>1, <2>3, <3>2, <3>4
    <2>4. CASE i # x
        <3>1. \A u \in Threads : Claimed(u, i)' <=> Claimed(u, i)
            BY <1>6, <2>2, <2>4
        <3> QED BY <1>1, <2>1, <2>4, <3>1
    <2> QED BY <2>3, <2>4
<1>10. CallIsComplete'
    BY <1>3 DEF CallIsComplete, Busy, HasResults
<1> QED BY <1>4, <1>5, <1>7, <1>8, <1>9, <1>10 DEF WorkInv

-----------------------------------------------------------------------------
\* The results of one thread, as an iteration over the ExecutionResults meets
\* them, and the equations of Elements (ParallelExecutor.h:139-205).
Segment(t) == SubSeq(page[t], 1, elementCount[t])
Concatenates(f, n) == f = [t \in 0..n |-> IF t = 0 THEN <<>> ELSE f[t - 1] \o Segment(t - 1)]

\* The results of a thread are the first elements of its page
\* (ParallelExecutor.h:302-309).
LEMMA SegmentType ==
    ASSUME ExecutorTypeInv, NEW t \in Threads
    PROVE  /\ Segment(t) \in Seq(Nat) /\ Len(Segment(t)) = elementCount[t]
           /\ elementCount[t] \in Nat
           /\ \A k \in 1..elementCount[t] : Segment(t)[k] = page[t][k]
<1> DEFINE s == page[t]
           n == elementCount[t]
<1>1. s \in Seq(Nat) /\ n \in Nat /\ n =< Len(s)
    BY DEF ExecutorTypeInv
<1> HIDE DEF s, n
<1>2. Len(s) \in Nat /\ 1 \in Int /\ n \in Int
    BY <1>1
<1>3. \A k \in 1..n : k \in 1..Len(s)
    BY <1>1, <1>2
<1>4. \A k \in 1..n : s[k] \in Nat
    BY <1>1, <1>3, ElementOfSeq
<1>5. /\ SubSeq(s, 1, n) \in Seq(Nat)
      /\ Len(SubSeq(s, 1, n)) = IF 1 =< n THEN n - 1 + 1 ELSE 0
      /\ \A k \in 1..n - 1 + 1 : SubSeq(s, 1, n)[k] = s[1 + k - 1]
    BY <1>2, <1>4, SubSeqProperties
<1>6. \A k \in 1..n : k \in 1..n - 1 + 1 /\ 1 + k - 1 = k
    BY <1>1
<1>7. Len(SubSeq(s, 1, n)) = n
    BY <1>1, <1>5
<1>8. \A k \in 1..n : SubSeq(s, 1, n)[k] = s[k]
    BY <1>5, <1>6
<1> QED BY <1>1, <1>5, <1>7, <1>8 DEF Segment, s, n

\* The equations of Elements have a solution, so that Elements is one
\* (ParallelExecutor.h:139-205).
LEMMA ElementsAreConcatenated ==
    \E f : Concatenates(f, WorkerThreadCount) /\ Elements = f[WorkerThreadCount]
<1> DEFINE W == WorkerThreadCount
           Bad == {n \in 0..W : ~\E f : Concatenates(f, n)}
<1>0. W \in Nat
    BY ExecutorNumbers
<1>1. Bad = {}
    <2> SUFFICES ASSUME Bad # {} PROVE FALSE
        OBVIOUS
    <2>1. PICK m \in Bad : \A j \in Bad : m =< j
        <3>1. Bad \in SUBSET Nat
            BY <1>0
        <3> HIDE DEF Bad
        <3> QED BY <3>1, LeastNumber
    <2>2. m \in 0..W /\ m \in Nat
        BY <1>0
    <2>3. CASE m = 0
        <3> DEFINE f == [t \in 0..0 |-> <<>>]
        <3>1. \A t \in 0..0 : t = 0
            OBVIOUS
        <3>2. f = [t \in 0..0 |-> IF t = 0 THEN <<>> ELSE f[t - 1] \o Segment(t - 1)]
            BY <3>1
        <3>3. Concatenates(f, 0)
            BY <3>2 DEF Concatenates
        <3> QED BY <2>1, <2>3, <3>3
    <2>4. CASE m # 0
        <3>1. m - 1 \in 0..W /\ m - 1 \in Nat /\ ~(m =< m - 1)
            BY <1>0, <2>2, <2>4
        <3>2. m - 1 \notin Bad
            <4> HIDE DEF Bad
            <4> QED BY <2>1, <3>1
        <3>3. PICK f : Concatenates(f, m - 1)
            BY <3>1, <3>2
        <3> DEFINE g == [t \in 0..m |-> IF t = m THEN f[m - 1] \o Segment(m - 1) ELSE f[t]]
        <3>4. \A t \in 0..m - 1 : f[t] = IF t = 0 THEN <<>> ELSE f[t - 1] \o Segment(t - 1)
            BY <3>3 DEF Concatenates
        <3>5. \A t \in 0..m : g[t] = IF t = 0 THEN <<>> ELSE g[t - 1] \o Segment(t - 1)
            <4> SUFFICES ASSUME NEW t \in 0..m
                         PROVE  g[t] = IF t = 0 THEN <<>> ELSE g[t - 1] \o Segment(t - 1)
                OBVIOUS
            <4>1. CASE t = m
                <5>1. m - 1 \in 0..m /\ m - 1 # m
                    BY <3>1
                <5>2. g[m - 1] = f[m - 1]
                    BY <5>1
                <5> QED BY <2>4, <4>1, <5>2
            <4>2. CASE t # m
                <5>1. t \in 0..m - 1 /\ (t # 0 => t - 1 \in 0..m /\ t - 1 # m)
                    BY <2>2, <4>2
                <5>2. g[t] = f[t] /\ (t # 0 => g[t - 1] = f[t - 1])
                    BY <4>2, <5>1
                <5> HIDE DEF g
                <5> QED BY <3>4, <5>1, <5>2
            <4> QED BY <4>1, <4>2
        <3>6. g = [t \in 0..m |-> g[t]]
            OBVIOUS
        <3> HIDE DEF g
        <3>7. Concatenates(g, m)
            BY <3>5, <3>6 DEF Concatenates
        <3> QED BY <2>1, <3>7
    <2> QED BY <2>3, <2>4
<1>2. \E f : Concatenates(f, W)
    BY <1>0, <1>1
<1> DEFINE g == CHOOSE f : Concatenates(f, W)
<1>3. Concatenates(g, W)
    BY <1>2
<1>4. Elements = g[W]
    BY DEF Elements, Concatenates, Segment
<1> QED BY <1>3, <1>4

\* An iteration over the ExecutionResults meets each result of each thread
\* once, if they are all different (ParallelExecutor.h:139-205).
LEMMA ElementsAreTheResults ==
    ASSUME ExecutorTypeInv, NEW R,
           \A t \in Threads : \A k \in 1..elementCount[t] : page[t][k] \in R,
           \A i \in R : \E t \in Threads : \E k \in 1..elementCount[t] : page[t][k] = i,
           \A t, u \in Threads : \A k \in 1..elementCount[t], l \in 1..elementCount[u] :
               page[t][k] = page[u][l] => t = u /\ k = l
    PROVE  /\ Elements \in Seq(Nat)
           /\ {Elements[k] : k \in DOMAIN Elements} = R
           /\ Len(Elements) = Cardinality(R)
<1> DEFINE W == WorkerThreadCount
<1>0. W \in Nat /\ Threads = 0..W - 1
    BY ExecutorNumbers DEF Threads
<1>1. PICK f : Concatenates(f, W) /\ Elements = f[W]
    BY ElementsAreConcatenated
<1>2. /\ f[0] = <<>>
      /\ \A t \in 0..W - 1 : f[t + 1] = f[t] \o Segment(t)
    <2>1. \A t \in 0..W : f[t] = IF t = 0 THEN <<>> ELSE f[t - 1] \o Segment(t - 1)
        BY <1>1 DEF Concatenates
    <2>2. \A t \in 0..W - 1 : t + 1 \in 0..W /\ t + 1 # 0 /\ (t + 1) - 1 = t
        BY <1>0
    <2>3. f[0] = <<>>
        BY <1>0, <2>1
    <2> QED BY <2>1, <2>2, <2>3
<1> DEFINE Sound(t) ==
              /\ f[t] \in Seq(Nat)
              /\ \A k \in 1..Len(f[t]) : \E u \in Threads : \E l \in 1..elementCount[u] :
                    u < t /\ f[t][k] = page[u][l]
              /\ \A u \in Threads : u < t => \A l \in 1..elementCount[u] :
                    \E k \in 1..Len(f[t]) : f[t][k] = page[u][l]
              /\ \A j, k \in 1..Len(f[t]) : f[t][j] = f[t][k] => j = k
           Bad == {t \in 0..W : ~Sound(t)}
<1>3. Sound(0)
    <2>1. f[0] \in Seq(Nat) /\ Len(f[0]) = 0
        BY <1>2, EmptySeq
    <2>2. \A u \in Threads : ~(u < 0)
        BY <1>0
    <2>3. \A k \in 1..Len(f[0]) : FALSE
        BY <2>1
    <2> QED BY <2>1, <2>2, <2>3
<1>4. ASSUME NEW t \in 0..W - 1, Sound(t)
      PROVE  Sound(t + 1)
    <2> DEFINE a == f[t]
               b == Segment(t)
               c == f[t + 1]
    <2>0. /\ t \in Threads /\ t \in Nat /\ c = a \o b
          /\ \A u \in Threads : u \in Nat /\ (u < t + 1 <=> u < t \/ u = t)
        BY <1>0, <1>2
    <2>1. /\ b \in Seq(Nat) /\ Len(b) = elementCount[t] /\ elementCount[t] \in Nat
          /\ \A k \in 1..elementCount[t] : b[k] = page[t][k]
        BY <2>0, SegmentType
    <2>2. /\ a \in Seq(Nat)
          /\ \A k \in 1..Len(a) : \E u \in Threads : \E l \in 1..elementCount[u] :
                u < t /\ a[k] = page[u][l]
          /\ \A u \in Threads : u < t => \A l \in 1..elementCount[u] :
                \E k \in 1..Len(a) : a[k] = page[u][l]
          /\ \A j, k \in 1..Len(a) : a[j] = a[k] => j = k
        BY <1>4
    <2> HIDE DEF a, b
    <2>3. /\ a \o b \in Seq(Nat) /\ Len(a \o b) = Len(a) + Len(b)
          /\ \A k \in 1..Len(a) + Len(b) : (a \o b)[k] =
                 IF k <= Len(a) THEN a[k] ELSE b[k - Len(a)]
        <3>1. a \in Seq(Nat) /\ b \in Seq(Nat)
            BY <2>1, <2>2
        <3> QED BY <3>1, ConcatProperties
    <2>4. Len(a) \in Nat /\ Len(b) \in Nat
        BY <2>1, <2>2
    <2>5. /\ c \in Seq(Nat) /\ Len(c) = Len(a) + elementCount[t]
          /\ \A k \in 1..Len(a) : c[k] = a[k]
          /\ \A l \in 1..elementCount[t] : c[Len(a) + l] = page[t][l]
        <3>1. \A k \in 1..Len(a) : k \in 1..Len(a) + Len(b) /\ k <= Len(a)
            BY <2>4
        <3>2. \A l \in 1..elementCount[t] :
                  /\ Len(a) + l \in 1..Len(a) + Len(b) /\ ~(Len(a) + l <= Len(a))
                  /\ (Len(a) + l) - Len(a) = l
            BY <2>1, <2>4
        <3>3. \A l \in 1..elementCount[t] : (a \o b)[Len(a) + l] = b[l]
            BY <2>3, <3>2
        <3>4. \A k \in 1..Len(a) : (a \o b)[k] = a[k]
            BY <2>3, <3>1
        <3> QED BY <2>0, <2>1, <2>3, <3>3, <3>4
    <2> HIDE DEF c
    <2>6. \A k \in 1..Len(c) : \/ k \in 1..Len(a)
                               \/ \E l \in 1..elementCount[t] : k = Len(a) + l
        <3> SUFFICES ASSUME NEW k \in 1..Len(c), k \notin 1..Len(a)
                     PROVE  \E l \in 1..elementCount[t] : k = Len(a) + l
            OBVIOUS
        <3>1. k - Len(a) \in 1..elementCount[t] /\ k = Len(a) + (k - Len(a))
            BY <2>1, <2>4, <2>5
        <3> QED BY <3>1
    <2>7. /\ \A k \in 1..Len(a) : k \in 1..Len(c)
          /\ \A l \in 1..elementCount[t] : Len(a) + l \in 1..Len(c)
        BY <2>1, <2>4, <2>5
    <2>8. \A k \in 1..Len(c) : \E u \in Threads : \E l \in 1..elementCount[u] :
              u < t + 1 /\ c[k] = page[u][l]
        <3> SUFFICES ASSUME NEW k \in 1..Len(c)
                     PROVE  \E u \in Threads : \E l \in 1..elementCount[u] :
                                u < t + 1 /\ c[k] = page[u][l]
            OBVIOUS
        <3>1. CASE k \in 1..Len(a)
            <4>1. PICK u \in Threads : \E l \in 1..elementCount[u] :
                      u < t /\ a[k] = page[u][l]
                BY <2>2, <3>1
            <4>2. PICK l \in 1..elementCount[u] : u < t /\ a[k] = page[u][l]
                BY <4>1
            <4>3. u < t + 1 /\ c[k] = page[u][l]
                BY <2>0, <2>5, <3>1, <4>2
            <4> QED BY <4>3
        <3>2. CASE k \notin 1..Len(a)
            <4>1. PICK l \in 1..elementCount[t] : k = Len(a) + l
                BY <2>6, <3>2
            <4>2. t < t + 1 /\ c[k] = page[t][l]
                BY <2>0, <2>5, <4>1
            <4> QED BY <2>0, <4>1, <4>2
        <3> QED BY <3>1, <3>2
    <2>9. \A u \in Threads : u < t + 1 => \A l \in 1..elementCount[u] :
              \E k \in 1..Len(c) : c[k] = page[u][l]
        <3> SUFFICES ASSUME NEW u \in Threads, u < t + 1, NEW l \in 1..elementCount[u]
                     PROVE  \E k \in 1..Len(c) : c[k] = page[u][l]
            OBVIOUS
        <3>1. CASE u < t
            <4>1. PICK k \in 1..Len(a) : a[k] = page[u][l]
                BY <2>2, <3>1
            <4> QED BY <2>5, <2>7, <4>1
        <3>2. CASE u = t
            <4>1. c[Len(a) + l] = page[u][l] /\ Len(a) + l \in 1..Len(c)
                BY <2>5, <2>7, <3>2
            <4> QED BY <4>1
        <3> QED BY <2>0, <3>1, <3>2
    <2>10. \A j, k \in 1..Len(c) : c[j] = c[k] => j = k
        <3> SUFFICES ASSUME NEW j \in 1..Len(c), NEW k \in 1..Len(c), c[j] = c[k]
                     PROVE  j = k
            OBVIOUS
        <3>1. ASSUME NEW m \in 1..Len(a), NEW l \in 1..elementCount[t]
              PROVE  c[m] # c[Len(a) + l]
            <4>1. PICK u \in Threads : \E n \in 1..elementCount[u] :
                      u < t /\ a[m] = page[u][n]
                BY <2>2
            <4>2. PICK n \in 1..elementCount[u] : u < t /\ a[m] = page[u][n]
                BY <4>1
            <4>3. u # t
                BY <2>0, <4>2
            <4>4. page[u][n] # page[t][l]
                BY <2>0, <4>3
            <4> QED BY <2>5, <4>2, <4>4
        <3>2. CASE j \in 1..Len(a) /\ k \in 1..Len(a)
            BY <2>2, <2>5, <3>2
        <3>3. CASE j \notin 1..Len(a) /\ k \notin 1..Len(a)
            <4>1. PICK l \in 1..elementCount[t] : j = Len(a) + l
                BY <2>6, <3>3
            <4>2. PICK n \in 1..elementCount[t] : k = Len(a) + n
                BY <2>6, <3>3
            <4>3. page[t][l] = page[t][n]
                BY <2>5, <4>1, <4>2
            <4>4. l = n
                BY <2>0, <4>3
            <4> QED BY <4>1, <4>2, <4>4
        <3>4. CASE j \in 1..Len(a) /\ k \notin 1..Len(a)
            <4>1. PICK l \in 1..elementCount[t] : k = Len(a) + l
                BY <2>6, <3>4
            <4>2. c[j] # c[Len(a) + l]
                BY <3>1, <3>4
            <4> QED BY <4>1, <4>2
        <3>5. CASE j \notin 1..Len(a) /\ k \in 1..Len(a)
            <4>1. PICK l \in 1..elementCount[t] : j = Len(a) + l
                BY <2>6, <3>5
            <4>2. c[k] # c[Len(a) + l]
                BY <3>1, <3>5
            <4> QED BY <4>1, <4>2
        <3> QED BY <3>2, <3>3, <3>4, <3>5
    <2> QED BY <2>5, <2>8, <2>9, <2>10 DEF c
<1>5. Sound(W)
    <2> HIDE DEF Sound
    <2> SUFFICES ASSUME Bad # {} PROVE FALSE
        BY <1>0
    <2>1. PICK m \in Bad : \A j \in Bad : m =< j
        <3>1. Bad \in SUBSET Nat
            BY <1>0
        <3> HIDE DEF Bad
        <3> QED BY <3>1, LeastNumber
    <2>2. m \in 0..W /\ ~Sound(m) /\ m # 0
        BY <1>3, <2>1
    <2>3. m - 1 \in 0..W - 1 /\ m - 1 \in 0..W /\ (m - 1) + 1 = m /\ ~(m =< m - 1)
        BY <1>0, <2>2
    <2>4. m - 1 \notin Bad
        <3> HIDE DEF Bad
        <3> QED BY <2>1, <2>3
    <2>5. Sound(m - 1)
        BY <2>3, <2>4
    <2>6. Sound((m - 1) + 1)
        BY <1>4, <2>3, <2>5
    <2> QED BY <2>2, <2>3, <2>6
<1>6. /\ Elements \in Seq(Nat)
      /\ \A k \in 1..Len(Elements) : Elements[k] \in R
      /\ \A i \in R : \E k \in 1..Len(Elements) : Elements[k] = i
      /\ \A j, k \in 1..Len(Elements) : Elements[j] = Elements[k] => j = k
    <2> DEFINE e == f[W]
    <2>1. \A u \in Threads : u < W
        BY <1>0
    <2>2. /\ e \in Seq(Nat)
          /\ \A k \in 1..Len(e) : \E u \in Threads : \E l \in 1..elementCount[u] :
                e[k] = page[u][l]
          /\ \A u \in Threads : \A l \in 1..elementCount[u] :
                \E k \in 1..Len(e) : e[k] = page[u][l]
          /\ \A j, k \in 1..Len(e) : e[j] = e[k] => j = k
        BY <1>5, <2>1
    <2>3. e = Elements
        BY <1>1
    <2> HIDE DEF e
    <2>4. \A k \in 1..Len(e) : e[k] \in R
        <3> SUFFICES ASSUME NEW k \in 1..Len(e) PROVE e[k] \in R
            OBVIOUS
        <3>1. PICK u \in Threads : \E l \in 1..elementCount[u] : e[k] = page[u][l]
            BY <2>2
        <3> QED BY <3>1
    <2>5. \A i \in R : \E k \in 1..Len(e) : e[k] = i
        <3> SUFFICES ASSUME NEW i \in R PROVE \E k \in 1..Len(e) : e[k] = i
            OBVIOUS
        <3>1. PICK u \in Threads : \E l \in 1..elementCount[u] : page[u][l] = i
            OBVIOUS
        <3>2. PICK l \in 1..elementCount[u] : page[u][l] = i
            BY <3>1
        <3> QED BY <2>2, <3>2
    <2> QED BY <2>2, <2>3, <2>4, <2>5
<1>7. /\ Len(Elements) \in Nat /\ DOMAIN Elements = 1..Len(Elements)
      /\ Elements \in [1..Len(Elements) -> R]
    <2>1. /\ Len(Elements) \in Nat
          /\ Elements \in [1..Len(Elements) -> Nat]
        BY <1>6, LenProperties
    <2> QED BY <1>6, <2>1
<1>8. {Elements[k] : k \in DOMAIN Elements} = R
    BY <1>6, <1>7
<1>9. Elements \in Bijection(1..Len(Elements), R)
    BY <1>6, <1>7 DEF Bijection, Injection, Surjection, IsInjective
<1>10. Cardinality(R) = Len(Elements)
    BY <1>7, <1>9, FS_CountingElements DEF ExistsBijection
<1> QED BY <1>6, <1>8, <1>10

-----------------------------------------------------------------------------
\* The call ends when the flag of the last thread is down: every index has been
\* run, and the results are its own (ParallelExecutor.h:313-325).
LEMMA CallEnds ==
    ASSUME ExecutorInv, Await, ~Busy'
    PROVE  /\ \A i \in Indices : runs[i] = IF i < axisCount THEN 1 ELSE 0
           /\ \A i \in 0..axisCount - 1 : i \in Indices
           /\ callerPc' = "ready" /\ Busy /\ calls > 0
           /\ UNCHANGED <<calls, axisCount, runs>>
           /\ WorkInv'
<1>0. /\ ExecutorTypeInv /\ \A u \in Threads : ThreadFollows(u)
      /\ Threads \subseteq Nat /\ thread \in Threads /\ Indices \subseteq Nat
      /\ thread + 1 = WorkerThreadCount => \A t \in Threads : t =< thread
    BY NextThreadType, ExecutorNumbers
       DEF ExecutorInv, ThreadsFollowCaller, ExecutorTypeInv
<1>1. /\ callerPc = "await" /\ ~workingFlag[thread] /\ thread + 1 = WorkerThreadCount
      /\ callerPc' = "ready" /\ returned' = Elements
      /\ UNCHANGED <<calls, axisCount, runs>>
    BY DEF Await, NextThread, Busy, callVars, workerVars
<1>2. Busy /\ calls > 0 /\ axisCount \in AxisCounts /\ axisCount \in Nat
    BY <1>0, <1>1 DEF Busy, ExecutorInv, CallIsSet, ExecutorTypeInv
<1>3. \A u \in Threads : Resting(u)
    <2> SUFFICES ASSUME NEW u \in Threads, ~Resting(u) PROVE FALSE
        OBVIOUS
    <2>1. u >= thread /\ workingFlag[u]
        BY <1>0, <1>1 DEF ThreadFollows, Working
    <2>2. u = thread
        BY <1>0, <1>1, <2>1
    <2> QED BY <1>1, <2>1, <2>2
<1>4. /\ \A u \in Threads : Launched(u)
      /\ \A u \in Threads : \A i \in Nat : ~Claimed(u, i)
      /\ Spent # {}
    <2>1. \A u \in Threads : Launched(u) /\ ~workingFlag[u] /\ threadPc[u] # "run"
        BY <1>1, <1>3 DEF Launched, Resting
    <2> QED BY <1>0, <2>1 DEF Spent, Claimed
<1>5. axisCount + chunkSize < claimIndex
    BY <1>2, <1>4 DEF ExecutorInv, WorkInv, ClaimIndexIsBounded
<1>6. \A i \in Indices : runs[i] = IF i < axisCount THEN 1 ELSE 0
    <2> SUFFICES ASSUME NEW i \in Indices
                 PROVE  runs[i] = IF i < axisCount THEN 1 ELSE 0
        OBVIOUS
    <2>1. /\ i \in Nat /\ chunkSize \in Nat /\ claimIndex \in Nat
          /\ \A t \in Threads : ~Claimed(t, i)
        BY <1>0, <1>4 DEF ExecutorTypeInv
    <2>2. i < axisCount => i + chunkSize < claimIndex
        BY <1>2, <1>5, <2>1
    <2> QED BY <1>2, <2>1, <2>2 DEF ExecutorInv, WorkInv, RunsAreExact
<1>7. \A i \in 0..axisCount - 1 : i \in Indices /\ i < axisCount
    BY <1>2, ExecutorNumbers
<1>8. /\ \A t \in Threads : \A k \in 1..elementCount[t] :
            page[t][k] \in Indices \ Resultless /\ runs[page[t][k]] = 1
      /\ \A i \in Indices \ Resultless : runs[i] = 1 =>
            \E t \in Threads : \E k \in 1..elementCount[t] : page[t][k] = i
      /\ \A t, u \in Threads : \A k \in 1..elementCount[t], l \in 1..elementCount[u] :
            page[t][k] = page[u][l] => t = u /\ k = l
    <2>1. ResultsAreKept
        BY DEF ExecutorInv, WorkInv
    <2>2. \A t \in Threads : \A k \in Nat : IsResult(t, k) <=> k \in 1..elementCount[t]
        BY <1>4 DEF IsResult
    <2>3. \A t \in Threads : 1..elementCount[t] \subseteq Nat
        BY <1>0 DEF ExecutorTypeInv
    <2>4. \A t \in Threads : \A k \in 1..elementCount[t] :
              page[t][k] \in Indices \ Resultless /\ runs[page[t][k]] = 1
        BY <1>2, <2>1, <2>2, <2>3 DEF ResultsAreKept
    <2>5. \A i \in Indices \ Resultless : runs[i] = 1 =>
              \E t \in Threads : \E k \in 1..elementCount[t] : page[t][k] = i
        BY <1>2, <2>1, <2>2, <2>3 DEF ResultsAreKept
    <2>6. \A t, u \in Threads : \A k \in 1..elementCount[t], l \in 1..elementCount[u] :
              page[t][k] = page[u][l] => t = u /\ k = l
        BY <1>2, <2>1, <2>2, <2>3 DEF ResultsAreKept
    <2> QED BY <2>4, <2>5, <2>6
<1>9. /\ \A t \in Threads : \A k \in 1..elementCount[t] : page[t][k] \in Results
      /\ \A i \in Results : \E t \in Threads : \E k \in 1..elementCount[t] :
            page[t][k] = i
    <2>1. \A i \in Indices \ Resultless : i \in Results <=> runs[i] = 1
        <3> SUFFICES ASSUME NEW i \in Indices \ Resultless
                     PROVE  i \in Results <=> runs[i] = 1
            OBVIOUS
        <3>1. i \in Nat /\ i \in Indices
            BY <1>0
        <3>2. i < axisCount <=> i \in 0..axisCount - 1
            BY <1>2, <3>1
        <3>3. runs[i] = 1 <=> i < axisCount
            BY <1>6, <3>1
        <3> QED BY <3>2, <3>3 DEF Results
    <2>2. Results \subseteq Indices \ Resultless
        BY <1>7 DEF Results
    <2>3. \A t \in Threads : \A k \in 1..elementCount[t] : page[t][k] \in Results
        BY <1>8, <2>1
    <2>4. \A i \in Results : \E t \in Threads : \E k \in 1..elementCount[t] :
              page[t][k] = i
        BY <1>8, <2>1, <2>2
    <2> QED BY <2>3, <2>4
<1>10. /\ {Elements[k] : k \in DOMAIN Elements} = Results
       /\ Len(Elements) = Cardinality(Results)
    <2>1. \A t \in Threads : \A k \in 1..elementCount[t] : page[t][k] \in Results
        BY <1>9
    <2>2. \A i \in Results : \E t \in Threads : \E k \in 1..elementCount[t] :
              page[t][k] = i
        BY <1>9
    <2>3. \A t, u \in Threads : \A k \in 1..elementCount[t], l \in 1..elementCount[u] :
              page[t][k] = page[u][l] => t = u /\ k = l
        BY <1>8
    <2> QED BY <1>0, <2>1, <2>2, <2>3, ElementsAreTheResults
<1>11. CallIsComplete'
    <2>1. Results' = Results
        BY <1>1 DEF Results
    <2>2. /\ Len(returned') = Cardinality(Results)
          /\ {returned'[k] : k \in DOMAIN returned'} = Results
        BY <1>1, <1>10
    <2>3. \A i \in Indices : runs'[i] = IF i < axisCount' THEN 1 ELSE 0
        BY <1>1, <1>6
    <2> QED BY <2>1, <2>2, <2>3 DEF CallIsComplete
<1>12. WorkInv'
    BY <1>11 DEF WorkInv, ChunkIsClaimed, ClaimsAreDisjoint, ClaimIndexIsBounded,
       RunsAreExact, ResultsAreKept
<1> QED BY <1>1, <1>2, <1>6, <1>7, <1>12

\* Between the calls nothing of the last one changes
\* (ParallelExecutor.h:238-256, 362-380).
LEMMA StepBetweenCalls ==
    ASSUME ExecutorInv, ~Busy, ~Busy', FlowStep
    PROVE  /\ UNCHANGED <<calls, axisCount, runs, returned>>
           /\ WorkInv'
<1>1. \A t \in Threads : threadPc[t] \notin {"claim", "run"}
    BY WorkingThread
<1>2. UNCHANGED <<calls, axisCount, runs, returned>>
    <2>1. CASE UNCHANGED flowVars
        BY <2>1 DEF flowVars, callVars, workerVars
    <2>2. CASE CallerFlow
        BY <2>2 DEF CallerFlow, Start, Started, Launch, Await, Destruct, Stop, Join, Busy,
           callVars, workerVars
    <2>3. ~AnyCall
        BY DEF AnyCall, ParallelFor, Busy
    <2>4. ASSUME NEW t \in Threads, ThreadFlow(t)
          PROVE  UNCHANGED <<calls, axisCount, runs, returned>>
        BY <1>1, <2>4 DEF ThreadFlow, Loop, Exit, Wait, Check, Claim, RunTask, ChunkDone, Finish,
           callVars, workerVars
    <2> QED BY <2>1, <2>2, <2>3, <2>4 DEF FlowStep
<1>3. HasResults' => HasResults
    BY <1>2 DEF HasResults, Busy
<1>4. Results' = Results
    BY <1>2 DEF Results
<1>5. CallIsComplete
    BY DEF ExecutorInv, WorkInv
<1>6. CallIsComplete'
    BY <1>2, <1>3, <1>4, <1>5 DEF CallIsComplete
<1>7. WorkInv'
    BY <1>6 DEF WorkInv, ChunkIsClaimed, ClaimsAreDisjoint, ClaimIndexIsBounded,
       RunsAreExact, ResultsAreKept
<1> QED BY <1>2, <1>7

\* Every step keeps the invariant (ParallelExecutor.h:238-380).
LEMMA ExecutorInvNext ==
    ASSUME ExecutorInv, FlowStep
    PROVE  ExecutorInv'
<1>1. ExecutorTypeInv' /\ ThreadsFollowCaller' /\ CallIsSet'
    BY ExecutorTypeStep, FollowStep, CallIsSetStep
<1>2. WorkInv'
    <2>1. CASE ~Busy /\ ~Busy'
        BY <2>1, StepBetweenCalls
    <2>2. CASE Busy /\ Busy' /\ UNCHANGED flowVars
        <3>1. UNCHANGED <<callerPc, thread, chunkSize, axisCount, claimIndex, runs, page,
                          index, workEnd, threadPc, workingFlag, elementCount>>
            BY <2>2 DEF flowVars, callVars, workerVars
        <3>2. Spent' = Spent
            BY <3>1 DEF Spent, Launched
        <3>3. /\ \A t \in Threads : threadPc'[t] = "run" => threadPc[t] = "run"
              /\ \A t \in Threads : \A i \in Nat : Claimed(t, i)' <=> Claimed(t, i)
              /\ \A t \in Threads : \A k \in Nat : IsResult(t, k)' <=> IsResult(t, k)
            BY <3>1 DEF Claimed, IsResult, Launched
        <3> QED BY <2>2, <3>1, <3>2, <3>3, StepOutsideTheChunks
    <2>3. CASE CallerFlow /\ Busy
        <3>1. Launch \/ Await
            BY <2>3 DEF CallerFlow, Start, Started, Destruct, Stop, Join, Busy
        <3>2. Launch => Busy'
            BY DEF Launch, NextThread, Busy
        <3> QED BY <2>3, <3>1, <3>2, CallerKeepsWork, CallEnds
    <2>4. CASE AnyCall
        BY <2>4, CallBegins DEF AnyCall
    <2>5. ASSUME NEW t \in Threads, ThreadFlow(t), Busy
          PROVE  WorkInv'
        <3>1. CASE Loop(t) \/ Wait(t) \/ Check(t) \/ ChunkDone(t) \/ Finish(t)
            BY <2>5, <3>1, WalkKeepsWork
        <3>2. CASE Claim(t)
            BY <3>2, ClaimKeepsWork
        <3>3. CASE RunTask(t)
            <4>1. index[t] >= axisCount \/ index[t] < axisCount
                BY <3>3 DEF RunTask
            <4> QED BY <3>3, <4>1, EndKeepsWork, TaskKeepsWork
        <3> QED BY <2>5, <3>1, <3>2, <3>3 DEF ThreadFlow
    <2>6. UNCHANGED flowVars => (Busy' <=> Busy)
        BY DEF flowVars, Busy
    <2>7. CallerFlow /\ ~Busy => ~Busy'
        BY DEF CallerFlow, Start, Started, Launch, Await, Destruct, Stop, Join, Busy
    <2>8. ASSUME NEW t \in Threads, ThreadFlow(t)
          PROVE  Busy' <=> Busy
        BY <2>8 DEF ThreadFlow, Loop, Exit, Wait, Check, Claim, RunTask, ChunkDone, Finish, Busy
    <2> QED BY <2>1, <2>2, <2>3, <2>4, <2>5, <2>6, <2>7, <2>8 DEF FlowStep
<1> QED BY <1>1, <1>2 DEF ExecutorInv

\* The flags, the chunks and the pages of the executor are what ExecutorInv
\* says, in every state (ParallelExecutor.h:238-380).
THEOREM ExecutorInvariant == ExecutorSpec => []ExecutorInv
<1>1. ExecutorInv /\ [ExecutorNext]_executorVars => ExecutorInv'
    BY ExecutorInvNext, StepOfTheFlow
<1> QED BY ExecutorInvInit, <1>1, PTL DEF ExecutorSpec

\* ParallelFor runs the task once for each axis, and returns the results of this
\* call and no others, whatever thread claims which chunk
\* (ParallelExecutor.h:258-325).
THEOREM ResultsStayExact == ExecutorSpec => []ResultsAreExact
<1>1. ASSUME ExecutorInv PROVE ResultsAreExact
    <2>1. RunsAreExact /\ CallIsComplete
        BY <1>1 DEF ExecutorInv, WorkInv
    <2>2. \A i \in Indices : runs[i] =< 1
        <3>1. \A i \in Indices : runs[i] \in {0, 1}
            BY <2>1 DEF RunsAreExact, CallIsComplete
        <3> QED BY <3>1
    <2> QED BY <2>1, <2>2 DEF ResultsAreExact, CallIsComplete, Results
<1> QED BY <1>1, ExecutorInvariant, PTL

-----------------------------------------------------------------------------
\* What ForkJoin sees of the executor.
Todo == {i \in 0..axisCount - 1 : runs[i] = 0}
Found == IF HasResults THEN {returned[k] : k \in DOMAIN returned} ELSE {}

\* A step of the call is a step of ForkJoin: one that calls, one that runs an
\* index, one that returns the results, or one that ForkJoin does not see
\* (ParallelExecutor.h:258-325).
LEMMA ForkJoinStep ==
    ASSUME ExecutorInv, FlowStep
    PROVE  [Barrier!Next]_Barrier!vars
<1>0. /\ ExecutorInv' /\ Indices \subseteq Nat
      /\ \A axes \in AxisCounts : 0..axes - 1 \subseteq Indices
    BY ExecutorInvNext, ExecutorNumbers
<1>1. Busy => ~HasResults /\ Found = {}
    BY DEF Busy, HasResults, Found
<1>2. Busy' => Found' = {}
    BY DEF Busy, HasResults, Found
<1>3. (Busy' <=> Busy) /\ Todo' = Todo /\ Found' = Found => UNCHANGED Barrier!vars
    BY DEF Barrier!vars, Busy, Todo, Found
<1>4. CASE ~Busy /\ ~Busy'
    <2>1. UNCHANGED <<calls, axisCount, runs, returned>>
        BY <1>4, StepBetweenCalls
    <2>2. Todo' = Todo /\ Found' = Found
        BY <1>4, <2>1 DEF Todo, Found, HasResults, Busy
    <2> QED BY <1>3, <1>4, <2>2
<1>5. CASE ~Busy /\ Busy'
    <2>1. AnyCall
        BY <1>5 DEF FlowStep, CallerFlow, Start, Started, Launch, Await, Destruct, Stop,
           Join, ThreadFlow, Loop, Exit, Wait, Check, Claim, RunTask, ChunkDone, Finish,
           flowVars, Busy
    <2>2. PICK chunk \in ChunkSizes, axes \in AxisCounts : ParallelFor(chunk, axes)
        BY <2>1 DEF AnyCall
    <2>3. Todo' = 0..axes - 1
        BY <1>0, <2>2 DEF ParallelFor, Todo
    <2>4. 0..axes - 1 \in SUBSET Indices
        BY <1>0
    <2>5. Barrier!Call(0..axes - 1)
        BY <1>2, <1>5, <2>3 DEF Barrier!Call, Busy, Todo, Found
    <2> QED BY <2>4, <2>5 DEF Barrier!Next
<1>6. CASE Busy /\ ~Busy'
    <2>1. Await
        BY <1>6 DEF FlowStep, CallerFlow, Start, Started, Launch, Await, Destruct, Stop,
           Join, AnyCall, ParallelFor, ThreadFlow, Loop, Exit, Wait, Check, Claim, RunTask, ChunkDone,
           Finish, NextThread, flowVars, Busy
    <2>2. /\ \A i \in Indices : runs[i] = IF i < axisCount THEN 1 ELSE 0
          /\ \A i \in 0..axisCount - 1 : i \in Indices
          /\ callerPc' = "ready" /\ calls > 0
          /\ UNCHANGED <<calls, axisCount, runs>>
        BY <1>6, <2>1, CallEnds
    <2>3. Todo = {} /\ Todo' = {}
        <3>1. axisCount \in Nat
            BY DEF ExecutorInv, ExecutorTypeInv
        <3> QED BY <2>2, <3>1 DEF Todo
    <2>4. Found' = Results' /\ Results' \in SUBSET Indices
        <3>1. HasResults'
            BY <2>2 DEF HasResults
        <3>2. CallIsComplete'
            BY <1>0 DEF ExecutorInv, WorkInv
        <3> QED BY <2>2, <3>1, <3>2 DEF CallIsComplete, Found, Results
    <2>5. PICK R \in SUBSET Indices : R = Found'
        BY <2>4
    <2>6. Barrier!Return(R)
        BY <1>6, <2>3, <2>5 DEF Barrier!Return, Busy, Todo, Found
    <2> QED BY <2>5, <2>6 DEF Barrier!Next
<1>7. CASE Busy /\ Busy'
    <2>1. CASE UNCHANGED <<axisCount, runs>>
        <3>1. Todo' = Todo
            BY <2>1 DEF Todo
        <3> QED BY <1>1, <1>2, <1>3, <1>7, <3>1
    <2>2. CASE \E t \in Threads : RunTask(t) /\ index[t] < axisCount
        <3>1. PICK t \in Threads : RunTask(t) /\ index[t] < axisCount
            BY <2>2
        <3>2. /\ axisCount' = axisCount
              /\ index[t] \in Indices /\ index[t] \in Nat
              /\ runs[index[t]] = 0 /\ runs'[index[t]] = 1
              /\ \A i \in Indices \ {index[t]} : runs'[i] = runs[i]
            BY <3>1, TaskStep
        <3>3. axisCount \in AxisCounts /\ axisCount \in Nat
            BY <1>7 DEF ExecutorInv, ExecutorTypeInv, CallIsSet
        <3>4. 0..axisCount - 1 \subseteq Indices
            BY <1>0, <3>3
        <3>5. index[t] \in Todo
            BY <3>1, <3>2, <3>3 DEF Todo
        <3>6. Todo' = Todo \ {index[t]}
            BY <3>2, <3>4 DEF Todo
        <3>7. PICK i \in Indices : i = index[t]
            BY <3>2
        <3>8. Barrier!Run(i)
            BY <1>1, <1>2, <1>7, <3>5, <3>6, <3>7 DEF Barrier!Run, Busy, Todo, Found
        <3> QED BY <3>7, <3>8 DEF Barrier!Next
    <2>3. CallerFlow => UNCHANGED <<axisCount, runs>>
        BY DEF CallerFlow, Start, Started, Launch, Await, Destruct, Stop, Join, callVars,
           workerVars
    <2>4. ~AnyCall
        BY <1>7 DEF AnyCall, ParallelFor, Busy
    <2>5. ASSUME NEW t \in Threads, ThreadFlow(t), ~(RunTask(t) /\ index[t] < axisCount)
          PROVE  UNCHANGED <<axisCount, runs>>
        BY <2>5 DEF ThreadFlow, Loop, Exit, Wait, Check, Claim, RunTask, ChunkDone, Finish, callVars,
           workerVars
    <2>6. UNCHANGED flowVars => UNCHANGED <<axisCount, runs>>
        BY DEF flowVars, callVars, workerVars
    <2> QED BY <2>1, <2>2, <2>3, <2>4, <2>5, <2>6 DEF FlowStep
<1> QED BY <1>4, <1>5, <1>6, <1>7

\* The executor is a fork and join of its tasks: between a call and its return
\* every index is run once, and none is run outside a call
\* (ParallelExecutor.h:258-325).
THEOREM ExecutorForksAndJoins == ExecutorSpec => ImplementsForkJoin
<1>1. ExecutorInit => Barrier!Init
    <2> SUFFICES ASSUME ExecutorInit PROVE Barrier!Init
        OBVIOUS
    <2>1. ~Busy /\ Todo = {} /\ Found = {}
        BY DEF ExecutorInit, Busy, Todo, Found, HasResults
    <2> QED BY <2>1 DEF Barrier!Init, Busy, Todo, Found
<1>2. ExecutorInv /\ [ExecutorNext]_executorVars => [Barrier!Next]_Barrier!vars
    BY ForkJoinStep, StepOfTheFlow
<1> QED BY <1>1, <1>2, ExecutorInvariant, PTL DEF ExecutorSpec, ImplementsForkJoin, Barrier!Spec

-----------------------------------------------------------------------------
(* EntityManager                                                           *)

\* The version of a node counts its creations, up to the wrap; an Entity has
\* the version of the creation that returned it.
EntityInv ==
    /\ versionOf \in [EntityIndices -> Nat] /\ incarnation \in [EntityIndices -> Nat]
    /\ \A i \in EntityIndices : versionOf[i] = incarnation[i] % Versions
    /\ \A e \in issued :
          /\ e.node \in EntityIndices /\ e.birth \in Nat
          /\ e.Id = e.node % IdCount
          /\ e.birth =< incarnation[e.node]
          /\ e.Version = e.birth % Versions

\* A creation gives the next version to its node and to its Entity
\* (EntityManager.h:75-94, 117-120).
LEMMA IssueKeepsVersions ==
    ASSUME EntityInv, NEW i \in EntityIndices, Issue(i)
    PROVE  EntityInv'
<1> DEFINE n == incarnation[i]
           new == [Id |-> i % IdCount, Version |-> versionOf'[i],
                   node |-> i, birth |-> incarnation'[i]]
<1>0. /\ Versions \in Nat \ {0} /\ n \in Nat
      /\ versionOf[i] = n % Versions /\ versionOf[i] \in Nat
    BY EntityAssumption DEF EntityInv
<1>1. /\ versionOf' = [versionOf EXCEPT ![i] = (versionOf[i] + 1) % Versions]
      /\ incarnation' = [incarnation EXCEPT ![i] = n + 1]
      /\ issued' = issued \cup {new}
    BY DEF Issue, GetIncrementVersion
<1>2. (versionOf[i] + 1) % Versions = (n + 1) % Versions
      /\ (versionOf[i] + 1) % Versions \in Nat
    <2>1. ((n % Versions) + 1) % Versions = (n + 1) % Versions
        BY <1>0, RemainderOfSum
    <2>2. (n + 1) % Versions \in Nat
        BY <1>0
    <2> QED BY <1>0, <2>1, <2>2
<1>3. /\ versionOf'[i] = (n + 1) % Versions /\ incarnation'[i] = n + 1
      /\ \A j \in EntityIndices \ {i} : /\ versionOf'[j] = versionOf[j]
                                        /\ incarnation'[j] = incarnation[j]
    BY <1>1, <1>2 DEF EntityInv
<1>4. versionOf' \in [EntityIndices -> Nat] /\ incarnation' \in [EntityIndices -> Nat]
    BY <1>0, <1>1, <1>2 DEF EntityInv
<1>5. \A j \in EntityIndices : /\ versionOf'[j] = incarnation'[j] % Versions
                               /\ incarnation[j] =< incarnation'[j]
    BY <1>0, <1>3 DEF EntityInv
<1>6. ASSUME NEW e \in issued'
      PROVE  /\ e.node \in EntityIndices /\ e.birth \in Nat
             /\ e.Id = e.node % IdCount
             /\ e.birth =< incarnation'[e.node]
             /\ e.Version = e.birth % Versions
    <2>1. CASE e \in issued
        <3>1. /\ e.node \in EntityIndices /\ e.birth \in Nat
              /\ e.Id = e.node % IdCount
              /\ e.birth =< incarnation[e.node]
              /\ e.Version = e.birth % Versions
            BY <2>1 DEF EntityInv
        <3>2. /\ incarnation[e.node] =< incarnation'[e.node]
              /\ incarnation[e.node] \in Nat /\ incarnation'[e.node] \in Nat
            BY <1>4, <1>5, <3>1 DEF EntityInv
        <3> QED BY <3>1, <3>2
    <2>2. CASE e = new
        BY <1>0, <1>3, <2>2
    <2> QED BY <1>1, <2>1, <2>2
<1> QED BY <1>4, <1>5, <1>6 DEF EntityInv

\* Numbers less than B apart differ in their remainders (EntityManager.h:117-120).
LEMMA NearbySameRemainder ==
    ASSUME NEW B \in Nat \ {0}, NEW n \in Nat, NEW m \in Nat,
           m =< n, n < m + B, n % B = m % B
    PROVE  n = m
<1> DEFINE p == n \div B
           q == m \div B
           r == n % B
<1>1. /\ p \in Nat /\ q \in Nat /\ r \in 0..B - 1
      /\ n = B * p + r /\ m = B * q + r
    BY QuotientAndRemainder
<1> HIDE DEF p, q, r
<1>2. CASE p = q
    BY <1>1, <1>2
<1>3. CASE p < q
    <2>1. B * (q - p) >= B
        BY <1>1, <1>3
    <2>2. B * q = B * p + B * (q - p)
        BY <1>1
    <2>3. B * p \in Nat /\ B * q \in Nat /\ B * (q - p) \in Int
        BY <1>1
    <2> QED BY <1>1, <2>1, <2>2, <2>3
<1>4. CASE q < p
    <2>1. B * (p - q) >= B
        BY <1>1, <1>4
    <2>2. B * p = B * q + B * (p - q)
        BY <1>1
    <2>3. B * p \in Nat /\ B * q \in Nat /\ B * (p - q) \in Int
        BY <1>1
    <2> QED BY <1>1, <2>1, <2>2, <2>3
<1> QED BY <1>1, <1>2, <1>3, <1>4

\* No holder of an Entity of one of the first IdCount nodes, the only ones with
\* an id of their own, sees or destroys a later entity of its node, however the
\* nodes are created and destroyed and whatever entities of later nodes share the
\* id, until the version has wrapped (Entity.h:19, EntityManager.h:75-120).
THEOREM EntitiesNameOneCreation == EntitySpec => []EntityNamesOneCreation
<1>1. EntityInit => EntityInv
    <2> SUFFICES ASSUME EntityInit PROVE EntityInv
        OBVIOUS
    <2>1. 0 = 0 % Versions
        BY EntityAssumption
    <2> QED BY <2>1 DEF EntityInit, EntityInv
<1>2. EntityInv /\ [EntityNext]_entityVars => EntityInv'
    <2> SUFFICES ASSUME EntityInv, [EntityNext]_entityVars PROVE EntityInv'
        OBVIOUS
    <2>1. CASE UNCHANGED <<versionOf, incarnation, issued>>
        BY <2>1 DEF EntityInv
    <2>2. CASE \E i \in EntityIndices : Issue(i)
        BY <2>2, IssueKeepsVersions
    <2> QED BY <2>1, <2>2 DEF EntityNext, CreateEntity, CreateWithSpecificId, Destroy, entityVars
<1>3. EntityInv => EntityNamesOneCreation
    <2> SUFFICES ASSUME EntityInv, NEW e \in issued, e.node < IdCount, IsCurrent(e),
                        incarnation[e.Id] < e.birth + Versions
                 PROVE  incarnation[e.Id] = e.birth
        BY DEF EntityNamesOneCreation
    <2> DEFINE n == incarnation[e.Id]
               b == e.birth
    <2>0. e.Id = e.node
        <3>1. e.node \in Nat /\ e.Id = e.node % IdCount /\ IdCount \in Nat \ {0}
            BY EntityAssumption DEF EntityInv, EntityIndices
        <3> QED BY <3>1
    <2>1. /\ n \in Nat /\ b \in Nat /\ b =< n /\ n < b + Versions
          /\ n % Versions = b % Versions /\ Versions \in Nat \ {0}
        BY <2>0, EntityAssumption DEF EntityInv, IsCurrent
    <2> HIDE DEF n, b
    <2>2. n = b
        BY <2>1, NearbySameRemainder
    <2> QED BY <2>2 DEF n, b
<1> QED BY <1>1, <1>2, <1>3, PTL DEF EntitySpec

-----------------------------------------------------------------------------
(* GlobalObjects                                                           *)

\* Each of two maps leads back through the other.
OneToOne(m, n) ==
    /\ \A c \in DOMAIN m : m[c].Id \in DOMAIN n /\ n[m[c].Id] = <<m[c].Version, c>>
    /\ \A i \in DOMAIN n : n[i][2] \in DOMAIN m /\ m[n[i][2]].Id = i

\* Every character has an entity, which knows it and one player.
EntitiesAreOwned ==
    \A character \in DOMAIN characterEntityMap :
        LET e == characterEntityMap[character]
        IN /\ e \in Entities
           /\ e.Id \in DOMAIN entityCharacterMap \cap DOMAIN entityPlayerMap
           /\ entityCharacterMap[e.Id] = <<e.Version, character>>
           /\ entityPlayerMap[e.Id][2] \in Players

ObjectsInv ==
    /\ abort # "map" /\ OneToOne(contextEntityMap, entityContextMap)
    /\ sessionErased \in Seq(Contexts)
    /\ EntitiesAreOwned

\* What one erased context leaves of both maps, and whether it has aborted.
Unpossessed(p, c) ==
    IF c \notin DOMAIN p[1] THEN p
    ELSE <<Erased(p[1], c), Erased(p[2], p[1][c].Id),
           p[3] \/ p[1][c].Id \notin DOMAIN p[2]>>

UnpossessesUpTo(f, s, n) ==
    f = [k \in 0..n |-> IF k = 0 THEN <<contextEntityMap, entityContextMap, FALSE>>
                        ELSE Unpossessed(f[k - 1], s[k])]

PairIsSound(p) == OneToOne(p[1], p[2]) /\ ~p[3]

\* A pair of the two maps that are each other's inverse loses a context and its
\* entity (G_Possession.cpp:23-45).
LEMMA ErasedPair ==
    ASSUME NEW m, NEW n, OneToOne(m, n), NEW c \in DOMAIN m
    PROVE  /\ m[c].Id \in DOMAIN n
           /\ OneToOne(Erased(m, c), Erased(n, m[c].Id))
<1> DEFINE i == m[c].Id
           m1 == Erased(m, c)
           n1 == Erased(n, i)
<1>1. i \in DOMAIN n /\ n[i] = <<m[c].Version, c>>
    BY DEF OneToOne
<1>2. /\ DOMAIN m1 = DOMAIN m \ {c} /\ \A d \in DOMAIN m \ {c} : m1[d] = m[d]
      /\ DOMAIN n1 = DOMAIN n \ {i} /\ \A j \in DOMAIN n \ {i} : n1[j] = n[j]
    BY DEF Erased
<1> HIDE DEF m1, n1
<1>3. ASSUME NEW d \in DOMAIN m \ {c}
      PROVE  m[d].Id \in DOMAIN n \ {i} /\ n[m[d].Id] = <<m[d].Version, d>>
    <2>1. m[d].Id \in DOMAIN n /\ n[m[d].Id] = <<m[d].Version, d>>
        BY DEF OneToOne
    <2>2. m[d].Id # i
        BY <1>1, <2>1
    <2> QED BY <2>1, <2>2
<1>4. ASSUME NEW j \in DOMAIN n \ {i}
      PROVE  n[j][2] \in DOMAIN m \ {c} /\ m[n[j][2]].Id = j
    BY DEF OneToOne
<1>5. OneToOne(m1, n1)
    BY <1>2, <1>3, <1>4 DEF OneToOne
<1> QED BY <1>1, <1>5 DEF m1, n1

\* UnpossessAll is the last of the pairs of maps that come one after the other
\* (S_PlayerCharacters_UnpossessOnDisconnected.cpp:14-20).
LEMMA UnpossessAllIsLast ==
    ASSUME NEW s \in Seq(Contexts)
    PROVE  \E f : UnpossessesUpTo(f, s, Len(s)) /\ UnpossessAll(s) = f[Len(s)]
<1> DEFINE N == Len(s)
           first == <<contextEntityMap, entityContextMap, FALSE>>
           Bad == {n \in 0..N : ~\E f : UnpossessesUpTo(f, s, n)}
<1>0. N \in Nat
    OBVIOUS
<1>1. Bad = {}
    <2> SUFFICES ASSUME Bad # {} PROVE FALSE
        OBVIOUS
    <2>1. PICK m \in Bad : \A j \in Bad : m =< j
        <3>1. Bad \in SUBSET Nat
            BY <1>0
        <3> HIDE DEF Bad
        <3> QED BY <3>1, LeastNumber
    <2>2. m \in 0..N /\ m \in Nat
        BY <1>0
    <2>3. CASE m = 0
        <3> DEFINE f == [k \in 0..0 |-> first]
        <3>1. \A k \in 0..0 : k = 0
            OBVIOUS
        <3>2. f = [k \in 0..0 |-> IF k = 0 THEN first ELSE Unpossessed(f[k - 1], s[k])]
            BY <3>1
        <3>3. UnpossessesUpTo(f, s, 0)
            BY <3>2 DEF UnpossessesUpTo
        <3> QED BY <2>1, <2>3, <3>3
    <2>4. CASE m # 0
        <3>1. m - 1 \in 0..N /\ m - 1 \in Nat /\ ~(m =< m - 1)
            BY <1>0, <2>2, <2>4
        <3>2. m - 1 \notin Bad
            <4> HIDE DEF Bad
            <4> QED BY <2>1, <3>1
        <3>3. PICK f : UnpossessesUpTo(f, s, m - 1)
            BY <3>1, <3>2
        <3> DEFINE g == [k \in 0..m |-> IF k = m THEN Unpossessed(f[m - 1], s[m]) ELSE f[k]]
        <3> HIDE DEF first
        <3>4. \A k \in 0..m - 1 : f[k] = IF k = 0 THEN first ELSE Unpossessed(f[k - 1], s[k])
            BY <3>3 DEF UnpossessesUpTo, first
        <3>5. \A k \in 0..m : g[k] = IF k = 0 THEN first ELSE Unpossessed(g[k - 1], s[k])
            <4> SUFFICES ASSUME NEW k \in 0..m
                         PROVE  g[k] = IF k = 0 THEN first ELSE Unpossessed(g[k - 1], s[k])
                OBVIOUS
            <4>1. CASE k = m
                <5>1. m - 1 \in 0..m /\ m - 1 # m
                    BY <3>1
                <5>2. g[m - 1] = f[m - 1]
                    BY <5>1
                <5> QED BY <2>4, <4>1, <5>2
            <4>2. CASE k # m
                <5>1. k \in 0..m - 1 /\ (k # 0 => k - 1 \in 0..m /\ k - 1 # m)
                    BY <2>2, <4>2
                <5>2. g[k] = f[k] /\ (k # 0 => g[k - 1] = f[k - 1])
                    BY <4>2, <5>1
                <5> HIDE DEF g
                <5> QED BY <3>4, <5>1, <5>2
            <4> QED BY <4>1, <4>2
        <3>6. g = [k \in 0..m |-> g[k]]
            OBVIOUS
        <3> HIDE DEF g
        <3>7. UnpossessesUpTo(g, s, m)
            BY <3>5, <3>6 DEF UnpossessesUpTo, first
        <3> QED BY <2>1, <3>7
    <2> QED BY <2>3, <2>4
<1>2. \E f : UnpossessesUpTo(f, s, N)
    BY <1>0, <1>1
<1> DEFINE g == CHOOSE f : UnpossessesUpTo(f, s, N)
<1>3. UnpossessesUpTo(g, s, N)
    BY <1>2
<1>4. UnpossessAll(s) = g[N]
    BY DEF UnpossessAll, UnpossessesUpTo, Unpossessed
<1> QED BY <1>3, <1>4

\* The unpossess operations leave the maps each other's inverse, whatever the
\* events say, and never erase what is not there
\* (G_Possession.cpp:23-33, S_PlayerCharacters_UnpossessOnDisconnected.cpp:14-20).
LEMMA UnpossessAllIsSound ==
    ASSUME OneToOne(contextEntityMap, entityContextMap), NEW s \in Seq(Contexts)
    PROVE  PairIsSound(UnpossessAll(s))
<1> DEFINE N == Len(s)
           first == <<contextEntityMap, entityContextMap, FALSE>>
<1>0. N \in Nat
    OBVIOUS
<1>1. PICK f : UnpossessesUpTo(f, s, N) /\ UnpossessAll(s) = f[N]
    BY UnpossessAllIsLast
<1>2. \A k \in 0..N : f[k] = IF k = 0 THEN first ELSE Unpossessed(f[k - 1], s[k])
    BY <1>1 DEF UnpossessesUpTo
<1>3. PairIsSound(first)
    BY DEF PairIsSound
<1>4. ASSUME NEW p, PairIsSound(p), NEW c
      PROVE  PairIsSound(Unpossessed(p, c))
    <2>1. CASE c \notin DOMAIN p[1]
        BY <1>4, <2>1 DEF Unpossessed
    <2>2. CASE c \in DOMAIN p[1]
        <3>1. /\ p[1][c].Id \in DOMAIN p[2]
              /\ OneToOne(Erased(p[1], c), Erased(p[2], p[1][c].Id))
            BY <1>4, <2>2, ErasedPair DEF PairIsSound
        <3> QED BY <1>4, <2>2, <3>1 DEF Unpossessed, PairIsSound
    <2> QED BY <2>1, <2>2
<1> DEFINE Bad == {k \in 0..N : ~PairIsSound(f[k])}
<1> HIDE DEF first
<1>5. Bad = {}
    <2> SUFFICES ASSUME Bad # {} PROVE FALSE
        OBVIOUS
    <2>1. PICK m \in Bad : \A j \in Bad : m =< j
        <3>1. Bad \in SUBSET Nat
            BY <1>0
        <3> HIDE DEF Bad
        <3> QED BY <3>1, LeastNumber
    <2>2. m \in 0..N /\ ~PairIsSound(f[m]) /\ m # 0
        BY <1>0, <1>2, <1>3, <2>1
    <2>3. m - 1 \in 0..N /\ ~(m =< m - 1)
        BY <1>0, <2>2
    <2>4. m - 1 \notin Bad
        <3> HIDE DEF Bad
        <3> QED BY <2>1, <2>3
    <2>5. PairIsSound(f[m - 1])
        BY <2>3, <2>4
    <2>6. f[m] = Unpossessed(f[m - 1], s[m])
        BY <1>2, <2>2
    <2> QED BY <1>4, <2>2, <2>5, <2>6
<1>6. N \in 0..N
    BY <1>0
<1> QED BY <1>1, <1>5, <1>6

\* Every operation on the global objects keeps their maps in agreement
\* (G_Possession.cpp:7-45, G_PlayerCharacters.cpp:8-20).
LEMMA ObjectsInvNext ==
    ASSUME ObjectsInv, [ObjectsNext]_objectVars
    PROVE  ObjectsInv'
<1> USE DEF possession, ownership
<1>0. /\ abort # "map" /\ OneToOne(contextEntityMap, entityContextMap)
      /\ sessionErased \in Seq(Contexts) /\ EntitiesAreOwned
    BY DEF ObjectsInv
<1>1. ASSUME NEW c \in Contexts, NEW e \in Entities, TryPossess(c, e)
      PROVE  ObjectsInv'
    <2> DEFINE m == contextEntityMap
               n == entityContextMap
               m1 == contextEntityMap'
               n1 == entityContextMap'
    <2>1. /\ c \notin DOMAIN m /\ e.Id \notin DOMAIN n
          /\ DOMAIN m1 = DOMAIN m \cup {c} /\ m1[c] = e
          /\ \A d \in DOMAIN m : m1[d] = m[d]
          /\ DOMAIN n1 = DOMAIN n \cup {e.Id} /\ n1[e.Id] = <<e.Version, c>>
          /\ \A i \in DOMAIN n : n1[i] = n[i]
          /\ abort' # "map"
        BY <1>0, <1>1 DEF TryPossess, CanPossess, EmplacedAt, AbortIf
    <2>2. /\ \A d \in DOMAIN m : m[d].Id \in DOMAIN n /\ n[m[d].Id] = <<m[d].Version, d>>
          /\ \A i \in DOMAIN n : n[i][2] \in DOMAIN m /\ m[n[i][2]].Id = i
        BY <1>0 DEF OneToOne
    <2> HIDE DEF m, n, m1, n1
    <2>3. \A d \in DOMAIN m1 : m1[d].Id \in DOMAIN n1 /\ n1[m1[d].Id] = <<m1[d].Version, d>>
        BY <2>1, <2>2
    <2>4. \A i \in DOMAIN n1 : n1[i][2] \in DOMAIN m1 /\ m1[n1[i][2]].Id = i
        BY <2>1, <2>2
    <2>5. OneToOne(contextEntityMap, entityContextMap)'
        BY <2>3, <2>4 DEF OneToOne, m1, n1
    <2>6. EntitiesAreOwned' /\ sessionErased' \in Seq(Contexts)
        BY <1>0, <1>1 DEF TryPossess, EntitiesAreOwned
    <2> QED BY <2>1, <2>5, <2>6 DEF ObjectsInv
<1>2. ASSUME NEW s \in Seq(Contexts),
             /\ contextEntityMap' = UnpossessAll(s)[1]
             /\ entityContextMap' = UnpossessAll(s)[2]
             /\ AbortIf(UnpossessAll(s)[3])
             /\ UNCHANGED <<ownership, sessionErased>>
      PROVE  ObjectsInv'
    <2>1. PairIsSound(UnpossessAll(s))
        BY <1>0, UnpossessAllIsSound
    <2>2. OneToOne(contextEntityMap, entityContextMap)' /\ abort' # "map"
        BY <1>0, <1>2, <2>1 DEF PairIsSound, OneToOne, AbortIf
    <2>3. EntitiesAreOwned' /\ sessionErased' \in Seq(Contexts)
        BY <1>0, <1>2 DEF EntitiesAreOwned
    <2> QED BY <2>2, <2>3 DEF ObjectsInv
<1>3. ASSUME NEW c \in Contexts, UnpossessByContext(c)
      PROVE  ObjectsInv'
    <2>1. <<c>> \in Seq(Contexts)
        OBVIOUS
    <2> QED BY <1>2, <1>3, <2>1 DEF UnpossessByContext
<1>4. ASSUME S_PlayerCharacters_UnpossessOnDisconnected
      PROVE  ObjectsInv'
    BY <1>0, <1>2, <1>4 DEF S_PlayerCharacters_UnpossessOnDisconnected
<1>5. ASSUME NEW e \in Entities, UnpossessByEntity(e)
      PROVE  ObjectsInv'
    <2> DEFINE c == entityContextMap[e.Id][2]
    <2>1. /\ e.Id \in DOMAIN entityContextMap
          /\ contextEntityMap' = Erased(contextEntityMap, c)
          /\ entityContextMap' = Erased(entityContextMap, e.Id)
          /\ AbortIf(c \notin DOMAIN contextEntityMap)
          /\ UNCHANGED <<ownership, sessionErased>>
        BY <1>5 DEF UnpossessByEntity, IsPossessed
    <2>2. c \in DOMAIN contextEntityMap /\ contextEntityMap[c].Id = e.Id
        BY <1>0, <2>1 DEF OneToOne
    <2>3. OneToOne(contextEntityMap', entityContextMap') /\ abort' # "map"
        BY <1>0, <2>1, <2>2, ErasedPair DEF AbortIf
    <2>4. EntitiesAreOwned' /\ sessionErased' \in Seq(Contexts)
        BY <1>0, <2>1 DEF EntitiesAreOwned
    <2> QED BY <2>3, <2>4 DEF ObjectsInv, OneToOne
<1>6. ASSUME NEW player \in Players, NEW character \in Characters, NEW e \in Entities,
             AddOwnership(player, character, e), MayOwn(character, e)
      PROVE  ObjectsInv'
    <2>1. /\ character \notin DOMAIN characterEntityMap
          /\ e.Id \notin DOMAIN entityPlayerMap /\ e.Id \notin DOMAIN entityCharacterMap
          /\ characterEntityMap' = EmplacedAt(characterEntityMap, character, e)
          /\ entityPlayerMap' = EmplacedAt(entityPlayerMap, e.Id, <<e.Version, player>>)
          /\ entityCharacterMap' = EmplacedAt(entityCharacterMap, e.Id, <<e.Version, character>>)
          /\ UNCHANGED <<possession, sessionErased, abort>>
        BY <1>6 DEF AddOwnership, MayOwn
    <2>2. ASSUME NEW d \in DOMAIN characterEntityMap'
          PROVE  /\ characterEntityMap'[d] \in Entities
                 /\ characterEntityMap'[d].Id \in DOMAIN entityCharacterMap' \cap DOMAIN entityPlayerMap'
                 /\ entityCharacterMap'[characterEntityMap'[d].Id] = <<characterEntityMap'[d].Version, d>>
                 /\ entityPlayerMap'[characterEntityMap'[d].Id][2] \in Players
        <3>1. CASE d = character
            BY <2>1, <3>1 DEF EmplacedAt
        <3>2. CASE d # character
            <4> DEFINE x == characterEntityMap[d]
            <4>1. d \in DOMAIN characterEntityMap /\ characterEntityMap'[d] = x
                BY <2>1, <3>2 DEF EmplacedAt
            <4>2. /\ x \in Entities
                  /\ x.Id \in DOMAIN entityCharacterMap \cap DOMAIN entityPlayerMap
                  /\ entityCharacterMap[x.Id] = <<x.Version, d>>
                  /\ entityPlayerMap[x.Id][2] \in Players
                BY <1>0, <4>1 DEF EntitiesAreOwned
            <4> HIDE DEF x
            <4>3. x.Id # e.Id
                BY <2>1, <4>2
            <4>4. /\ x.Id \in DOMAIN entityCharacterMap' \cap DOMAIN entityPlayerMap'
                  /\ entityCharacterMap'[x.Id] = entityCharacterMap[x.Id]
                  /\ entityPlayerMap'[x.Id] = entityPlayerMap[x.Id]
                BY <2>1, <4>2, <4>3 DEF EmplacedAt
            <4> QED BY <4>1, <4>2, <4>4
        <3> QED BY <3>1, <3>2
    <2>3. EntitiesAreOwned'
        BY <2>2 DEF EntitiesAreOwned
    <2>4. OneToOne(contextEntityMap, entityContextMap)' /\ abort' # "map"
          /\ sessionErased' \in Seq(Contexts)
        BY <1>0, <2>1 DEF OneToOne
    <2> QED BY <2>3, <2>4 DEF ObjectsInv
<1>6a. ASSUME NEW player \in Players, NEW character \in Characters, NEW e \in Entities,
              AddOwnership(player, character, e), ~MayOwn(character, e)
       PROVE  ObjectsInv'
    <2>1. abort' = "owner" /\ UNCHANGED <<possession, ownership, sessionErased>>
        BY <1>6a DEF AddOwnership
    <2> QED BY <1>0, <2>1 DEF ObjectsInv, OneToOne, EntitiesAreOwned
<1>7. ASSUME NEW c \in Contexts, Push(c)
      PROVE  ObjectsInv'
    <2>1. sessionErased' \in Seq(Contexts)
        BY <1>0, <1>7 DEF Push
    <2> QED BY <1>0, <1>7, <2>1 DEF Push, ObjectsInv, OneToOne, EntitiesAreOwned
<1>8. CASE Clear \/ UNCHANGED objectVars
    <2>1. sessionErased' = <<>> \/ sessionErased' = sessionErased
        BY <1>8 DEF Clear, objectVars
    <2>2. <<>> \in Seq(Contexts)
        BY EmptySeq
    <2>3. sessionErased' \in Seq(Contexts)
        BY <1>0, <2>1, <2>2
    <2> QED BY <1>0, <1>8, <2>3 DEF Clear, objectVars, ObjectsInv, OneToOne, EntitiesAreOwned
<1> QED BY <1>1, <1>3, <1>4, <1>5, <1>6, <1>6a, <1>7, <1>8 DEF ObjectsNext

\* A possessed entity knows its context and a context its entity, no operation
\* on them aborts, and every character has one owner, for whom GetEntityOf finds
\* its entity (G_Possession.cpp:7-45, G_PlayerCharacters.cpp:8-40).
THEOREM GlobalMapsStayInAgreement == ObjectsSpec => []GlobalMapsAgree
<1>1. ObjectsInit => ObjectsInv
    <2> SUFFICES ASSUME ObjectsInit PROVE ObjectsInv
        OBVIOUS
    <2>1. /\ DOMAIN contextEntityMap = {} /\ DOMAIN entityContextMap = {}
          /\ DOMAIN characterEntityMap = {}
        BY DEF ObjectsInit, EmptyMap
    <2> QED BY <2>1 DEF ObjectsInit, ObjectsInv, OneToOne, EntitiesAreOwned
<1>2. ObjectsInv /\ [ObjectsNext]_objectVars => ObjectsInv'
    BY ObjectsInvNext
<1>3. ASSUME ObjectsInv PROVE GlobalMapsAgree
    <2>1. PossessionIsOneToOne
        BY <1>3 DEF ObjectsInv, OneToOne, PossessionIsOneToOne
    <2>2. ASSUME NEW character \in DOMAIN characterEntityMap
          PROVE  LET e == characterEntityMap[character]
                 IN /\ e.Id \in DOMAIN entityCharacterMap \cap DOMAIN entityPlayerMap
                    /\ entityCharacterMap[e.Id] = <<e.Version, character>>
                    /\ Cardinality({q \in Players : GetEntityOf(q, character) = e}) = 1
        <3> DEFINE e == characterEntityMap[character]
                   owner == entityPlayerMap[e.Id][2]
        <3>1. /\ e \in Entities
              /\ e.Id \in DOMAIN entityCharacterMap \cap DOMAIN entityPlayerMap
              /\ entityCharacterMap[e.Id] = <<e.Version, character>>
              /\ owner \in Players
            BY <1>3 DEF ObjectsInv, EntitiesAreOwned
        <3>2. e # NullEntity
            BY <3>1, ObjectAssumption
        <3>3. {q \in Players : GetEntityOf(q, character) = e} = {owner}
            BY <3>1, <3>2 DEF GetEntityOf
        <3>4. Cardinality({owner}) = 1
            BY FS_Singleton
        <3> QED BY <3>1, <3>3, <3>4
    <2> QED BY <2>1, <2>2 DEF GlobalMapsAgree, OwnershipIsExact
<1> QED BY <1>1, <1>2, <1>3, PTL DEF ObjectsSpec

-----------------------------------------------------------------------------
(* MpscMessageBodyPool                                                     *)

USE BodyAssumption

\* The class of a size is the smallest that fits it
\* (MpscMessageBodyPool.h:98-137).
LEMMA BlockSizeForFits ==
    ASSUME NEW size \in MessageSizes
    PROVE  BlockSizeFor(size) \in BlockSizes /\ size =< BlockSizeFor(size)
<1> DEFINE T == {s \in BlockSizes : size =< s}
<1>1. T \in SUBSET Nat /\ T # {}
    BY BodyAssumption
<1>2. \E k \in T : \A j \in T : k =< j
    <2> HIDE DEF T
    <2> QED BY <1>1, LeastNumber
<1>3. Min(T) \in T
    BY <1>2 DEF Min
<1> QED BY <1>3 DEF BlockSizeFor

BodyTypeInv ==
    /\ heads \in [BlockSizes -> Blocks \cup {NullBlock}]
    /\ nextBlock \in [Blocks -> Blocks \cup {NullBlock}]
    /\ sizeOf \in [Blocks -> BlockSizes \cup {0}]
    /\ acquirePc \in [Producers -> {"idle", "read", "exchange", "allocate", "filled"}]
    /\ wantedSize \in [Producers -> MessageSizes \cup {0}]
    /\ expected \in [Producers -> Blocks \cup {NullBlock}]
    /\ successor \in [Producers -> Blocks \cup {NullBlock}]
    /\ acquired \in [Producers -> Blocks \cup {NullBlock}]
    /\ sent \subseteq Blocks \X MessageSizes
    /\ releasePc \in {"idle", "link", "exchange"}
    /\ releasePc = "idle" => released = <<NullBlock, 0>>
    /\ releasePc # "idle" => released \in Blocks \X MessageSizes
    /\ seenHead \in Blocks \cup {NullBlock}
    /\ \A p \in Producers : /\ acquirePc[p] # "idle" => wantedSize[p] \in MessageSizes
                            /\ acquired[p] # NullBlock <=> acquirePc[p] = "filled"
                            /\ acquirePc[p] \in {"read", "exchange"}
                                  => expected[p] \in Blocks

-----------------------------------------------------------------------------
(* For any number of producers: a block never changes its class.           *)

\* Each pointer of a class leads to a block of that class, and whoever has a
\* block has one of the class of the size he has it for.
ClassesAreKept ==
    /\ \A s \in BlockSizes : heads[s] # NullBlock => sizeOf[heads[s]] = s
    /\ \A b \in Blocks : sizeOf[b] # 0 /\ nextBlock[b] # NullBlock
                            => sizeOf[nextBlock[b]] = sizeOf[b]
    /\ \A p \in Producers :
          LET s == BlockSizeFor(wantedSize[p])
          IN /\ acquirePc[p] \in {"read", "exchange"} => sizeOf[expected[p]] = s
             /\ acquirePc[p] = "exchange" /\ successor[p] # NullBlock
                   => sizeOf[successor[p]] = s
             /\ acquirePc[p] = "filled" => sizeOf[acquired[p]] = s
    /\ \A body \in sent : sizeOf[body[1]] = BlockSizeFor(body[2])
    /\ releasePc # "idle" =>
          LET s == BlockSizeFor(released[2])
          IN /\ sizeOf[released[1]] = s
             /\ seenHead # NullBlock => sizeOf[seenHead] = s

\* A block that is not allocated has no successor.
FreshBlocksAreUnlinked ==
    \A b \in Blocks : sizeOf[b] = 0 => nextBlock[b] = NullBlock

ClassInv == BodyTypeInv /\ ClassesAreKept /\ FreshBlocksAreUnlinked


\* The pool starts without blocks (MpscMessageBodyPool.h).
LEMMA BodyInitClasses == BodyInit => ClassInv
<1> SUFFICES ASSUME BodyInit PROVE ClassInv
    OBVIOUS
<1> QED BY DEF BodyInit, ClassInv, BodyTypeInv, ClassesAreKept, FreshBlocksAreUnlinked

\* Acquire loads the head of the list of its size.
LEMMA AcquireLoadKeepsClasses ==
    ASSUME ClassInv, NEW p \in Producers, NEW size \in MessageSizes, AcquireLoad(p, size)
    PROVE  ClassInv'
<1>1. BlockSizeFor(size) \in BlockSizes
    BY BlockSizeForFits
<1> DEFINE s == BlockSizeFor(size)
<1>2. /\ wantedSize' = [wantedSize EXCEPT ![p] = size]
      /\ expected' = [expected EXCEPT ![p] = heads[s]]
      /\ acquirePc' = [acquirePc EXCEPT ![p] =
                         IF heads[s] = NullBlock THEN "allocate" ELSE "read"]
      /\ acquirePc[p] = "idle"
    BY DEF AcquireLoad, Expect
<1>3. UNCHANGED <<heads, nextBlock, sizeOf, successor, acquired, sent, releaseVars>>
    BY DEF AcquireLoad
<1> HIDE DEF s
<1>4. BodyTypeInv'
    BY <1>1, <1>2, <1>3 DEF ClassInv, BodyTypeInv, releaseVars, s
<1>5. ClassesAreKept'
    BY <1>1, <1>2, <1>3 DEF ClassInv, BodyTypeInv, ClassesAreKept, releaseVars, s
<1>6. FreshBlocksAreUnlinked'
    BY <1>3 DEF ClassInv, FreshBlocksAreUnlinked
<1> QED BY <1>4, <1>5, <1>6 DEF ClassInv

\* It reads the Next of that block.
LEMMA AcquireReadKeepsClasses ==
    ASSUME ClassInv, NEW p \in Producers, AcquireRead(p)
    PROVE  ClassInv'
<1>0. BlockSizeFor(wantedSize[p]) \in BlockSizes
    BY BlockSizeForFits DEF ClassInv, BodyTypeInv, AcquireRead
<1>1. BodyTypeInv'
    BY DEF ClassInv, BodyTypeInv, AcquireRead, releaseVars
<1>2. ClassesAreKept'
    BY <1>0 DEF ClassInv, BodyTypeInv, ClassesAreKept, AcquireRead, releaseVars
<1> QED BY <1>1, <1>2 DEF ClassInv, AcquireRead, FreshBlocksAreUnlinked

\* It exchanges the head for that Next, or starts again.
LEMMA AcquireExchangeKeepsClasses ==
    ASSUME ClassInv, NEW p \in Producers, AcquireExchange(p)
    PROVE  ClassInv'
<1> DEFINE s == BlockSizeFor(wantedSize[p])
<1>0. s \in BlockSizes
    BY BlockSizeForFits DEF ClassInv, BodyTypeInv, AcquireExchange
<1>1. acquirePc[p] = "exchange"
      /\ UNCHANGED <<nextBlock, sizeOf, wantedSize, successor, sent, releaseVars>>
    BY DEF AcquireExchange
<1>2. CASE /\ heads[s] = expected[p]
           /\ heads' = [heads EXCEPT ![s] = successor[p]]
           /\ Return(p, expected[p])
           /\ UNCHANGED expected
    <2> HIDE DEF s
    <2>1. BodyTypeInv'
        BY <1>0, <1>1, <1>2 DEF ClassInv, BodyTypeInv, Return, releaseVars
    <2>2. ClassesAreKept'
        BY <1>0, <1>1, <1>2 DEF ClassInv, BodyTypeInv, ClassesAreKept, Return, releaseVars, s
    <2> QED BY <2>1, <2>2, <1>1 DEF ClassInv, FreshBlocksAreUnlinked
<1>3. CASE Expect(p, heads[s]) /\ UNCHANGED <<heads, acquired>>
    <2> HIDE DEF s
    <2>1. BodyTypeInv'
        BY <1>0, <1>1, <1>3 DEF ClassInv, BodyTypeInv, Expect, releaseVars
    <2>2. ClassesAreKept'
        BY <1>0, <1>1, <1>3 DEF ClassInv, BodyTypeInv, ClassesAreKept, Expect, releaseVars, s
    <2> QED BY <2>1, <2>2, <1>1, <1>3 DEF ClassInv, FreshBlocksAreUnlinked
<1> QED BY <1>2, <1>3 DEF AcquireExchange

\* It allocates a block of its class where the list is empty.
LEMMA AcquireAllocateKeepsClasses ==
    ASSUME ClassInv, NEW p \in Producers, AcquireAllocate(p)
    PROVE  ClassInv'
<1> DEFINE s == BlockSizeFor(wantedSize[p])
<1>0. s \in BlockSizes
    BY BlockSizeForFits DEF ClassInv, BodyTypeInv, AcquireAllocate
<1>1. PICK b \in Blocks : /\ sizeOf[b] = 0
                          /\ sizeOf' = [sizeOf EXCEPT ![b] = s]
                          /\ Return(p, b)
    BY DEF AcquireAllocate
<1>2. acquirePc[p] = "allocate"
      /\ UNCHANGED <<heads, nextBlock, wantedSize, expected, successor, sent, releaseVars>>
    BY DEF AcquireAllocate
<1>3. s # 0
    BY <1>0
<1> HIDE DEF s
<1>4. BodyTypeInv'
    BY <1>0, <1>1, <1>2 DEF ClassInv, BodyTypeInv, Return, releaseVars
<1>5. ClassesAreKept'
    <2>1. \A q \in Producers : acquirePc[q] # "idle"
              => BlockSizeFor(wantedSize[q]) \in BlockSizes
        BY BlockSizeForFits DEF ClassInv, BodyTypeInv
    <2>2. \A body \in sent : BlockSizeFor(body[2]) \in BlockSizes
        BY BlockSizeForFits DEF ClassInv, BodyTypeInv
    <2>3. releasePc # "idle" => BlockSizeFor(released[2]) \in BlockSizes
        BY BlockSizeForFits DEF ClassInv, BodyTypeInv
    <2>4. \A c \in Blocks : sizeOf[c] # 0 => sizeOf'[c] = sizeOf[c]
        BY <1>1 DEF ClassInv, BodyTypeInv
    <2>5. sizeOf'[b] = s
        BY <1>1 DEF ClassInv, BodyTypeInv
    <2>6. nextBlock[b] = NullBlock
        BY <1>1 DEF ClassInv, FreshBlocksAreUnlinked
    <2>7. \A t \in BlockSizes : heads'[t] # NullBlock => sizeOf'[heads'[t]] = t
        BY <1>2, <2>4 DEF ClassInv, BodyTypeInv, ClassesAreKept
    <2>8. \A c \in Blocks : sizeOf'[c] # 0 /\ nextBlock'[c] # NullBlock
                            => sizeOf'[nextBlock'[c]] = sizeOf'[c]
        BY <1>1, <1>2, <2>4, <2>6 DEF ClassInv, BodyTypeInv, ClassesAreKept
    <2>9. ASSUME NEW q \in Producers
          PROVE  LET t == BlockSizeFor(wantedSize'[q])
                 IN /\ acquirePc'[q] \in {"read", "exchange"} => sizeOf'[expected'[q]] = t
                    /\ acquirePc'[q] = "exchange" /\ successor'[q] # NullBlock
                          => sizeOf'[successor'[q]] = t
                    /\ acquirePc'[q] = "filled" => sizeOf'[acquired'[q]] = t
        <3>1. CASE q = p
            BY <3>1, <1>1, <1>2, <2>5 DEF ClassInv, BodyTypeInv, Return, s
        <3>2. CASE q # p
            <4>1. acquirePc'[q] = acquirePc[q] /\ acquired'[q] = acquired[q]
                BY <3>2, <1>1 DEF ClassInv, BodyTypeInv, Return
            <4> QED BY <4>1, <1>2, <2>1, <2>4 DEF ClassInv, BodyTypeInv, ClassesAreKept
        <3> QED BY <3>1, <3>2
    <2>10. \A body \in sent' : sizeOf'[body[1]] = BlockSizeFor(body[2])
        BY <1>2, <2>2, <2>4 DEF ClassInv, BodyTypeInv, ClassesAreKept
    <2>11. releasePc' # "idle" =>
              /\ sizeOf'[released'[1]] = BlockSizeFor(released'[2])
              /\ seenHead' # NullBlock => sizeOf'[seenHead'] = BlockSizeFor(released'[2])
        BY <1>2, <2>3, <2>4 DEF ClassInv, BodyTypeInv, ClassesAreKept, releaseVars
    <2> QED BY <2>7, <2>8, <2>9, <2>10, <2>11 DEF ClassesAreKept
<1>6. FreshBlocksAreUnlinked'
    BY <1>1, <1>2 DEF ClassInv, BodyTypeInv, FreshBlocksAreUnlinked
<1> QED BY <1>4, <1>5, <1>6 DEF ClassInv

\* The body goes to the consumer.
LEMMA SendKeepsClasses ==
    ASSUME ClassInv, NEW p \in Producers, Send(p)
    PROVE  ClassInv'
<1>1. BodyTypeInv'
    BY DEF ClassInv, BodyTypeInv, Send, releaseVars
<1>2. ClassesAreKept'
    BY DEF ClassInv, BodyTypeInv, ClassesAreKept, Send, releaseVars
<1> QED BY <1>1, <1>2 DEF ClassInv, Send, FreshBlocksAreUnlinked

\* Release puts the block into the list of its class.
LEMMA ReleaseKeepsClasses ==
    ASSUME ClassInv,
           (\E body \in sent : ReleaseLoad(body)) \/ ReleaseLink \/ ReleaseExchange
    PROVE  ClassInv'
<1>1. ASSUME NEW body \in sent, ReleaseLoad(body)
      PROVE  ClassInv'
    <2>0. BlockSizeFor(body[2]) \in BlockSizes /\ body \in Blocks \X MessageSizes
        BY BlockSizeForFits DEF ClassInv, BodyTypeInv
    <2>1. BodyTypeInv'
        BY <1>1, <2>0 DEF ClassInv, BodyTypeInv, ReleaseLoad, acquireVars
    <2>2. ClassesAreKept'
        BY <1>1, <2>0 DEF ClassInv, BodyTypeInv, ClassesAreKept, ReleaseLoad, acquireVars
    <2> QED BY <1>1, <2>1, <2>2 DEF ClassInv, ReleaseLoad, FreshBlocksAreUnlinked
<1>2. CASE ReleaseLink
    <2>0. releasePc = "link" /\ BlockSizeFor(released[2]) \in BlockSizes /\ released[1] \in Blocks
        BY <1>2, BlockSizeForFits DEF ReleaseLink, ClassInv, BodyTypeInv
    <2>1. BodyTypeInv'
        BY <1>2 DEF ClassInv, BodyTypeInv, ReleaseLink, acquireVars
    <2>2. ClassesAreKept'
        BY <1>2, <2>0 DEF ClassInv, BodyTypeInv, ClassesAreKept, ReleaseLink, acquireVars
    <2>3. FreshBlocksAreUnlinked'
        BY <1>2, <2>0 DEF ClassInv, BodyTypeInv, ClassesAreKept, ReleaseLink, FreshBlocksAreUnlinked
    <2> QED BY <2>1, <2>2, <2>3 DEF ClassInv
<1>3. CASE ReleaseExchange
    <2> DEFINE s == BlockSizeFor(released[2])
    <2>0. releasePc = "exchange" /\ s \in BlockSizes /\ released[1] \in Blocks
        BY <1>3, BlockSizeForFits DEF ReleaseExchange, ClassInv, BodyTypeInv
    <2>1. BodyTypeInv'
        <3>0. UNCHANGED <<nextBlock, sizeOf, acquireVars, sent>>
            BY <1>3 DEF ReleaseExchange
        <3>1. CASE /\ heads' = [heads EXCEPT ![s] = released[1]]
                   /\ released' = <<NullBlock, 0>>
                   /\ releasePc' = "idle"
                   /\ UNCHANGED seenHead
            <4> HIDE DEF s
            <4> QED BY <2>0, <3>0, <3>1 DEF ClassInv, BodyTypeInv, acquireVars
        <3>2. CASE seenHead' = heads[s] /\ releasePc' = "link" /\ UNCHANGED <<heads, released>>
            <4> HIDE DEF s
            <4> QED BY <2>0, <3>0, <3>2 DEF ClassInv, BodyTypeInv, acquireVars
        <3> QED BY <1>3, <3>1, <3>2 DEF ReleaseExchange
    <2>2. ClassesAreKept'
        BY <1>3, <2>0 DEF ClassInv, BodyTypeInv, ClassesAreKept, ReleaseExchange, acquireVars
    <2> QED BY <1>3, <2>1, <2>2 DEF ClassInv, ReleaseExchange, FreshBlocksAreUnlinked
<1> QED BY <1>1, <1>2, <1>3

\* No step changes the class of a block.
LEMMA BodyClassesNext ==
    ASSUME ClassInv, [BodyNext]_bodyVars
    PROVE  ClassInv'
<1>1. CASE UNCHANGED bodyVars
    BY <1>1 DEF bodyVars, acquireVars, releaseVars, ClassInv, BodyTypeInv,
                ClassesAreKept, FreshBlocksAreUnlinked
<1>2. ASSUME NEW p \in Producers, NEW size \in MessageSizes, AcquireLoad(p, size)
      PROVE  ClassInv'
    BY <1>2, AcquireLoadKeepsClasses
<1>3. ASSUME NEW p \in Producers,
             AcquireRead(p) \/ AcquireExchange(p) \/ AcquireAllocate(p) \/ Send(p)
      PROVE  ClassInv'
    BY <1>3, AcquireReadKeepsClasses, AcquireExchangeKeepsClasses,
       AcquireAllocateKeepsClasses, SendKeepsClasses
<1> QED BY <1>1, <1>2, <1>3, ReleaseKeepsClasses DEF BodyNext

\* A body fits in its block whoever acquires at the same time: also a block
\* that two producers got was allocated for the class of both
\* (MpscMessageBodyPool.h:35, 56).
THEOREM BodiesFitTheirBlocks == BodySpec => []BodyFitsItsBlock
<1>1. ClassInv => BodyFitsItsBlock
    <2> SUFFICES ASSUME ClassInv, NEW p \in Producers, acquired[p] # NullBlock
                 PROVE  wantedSize[p] =< sizeOf[acquired[p]]
        BY DEF BodyFitsItsBlock
    <2>1. acquirePc[p] = "filled" /\ wantedSize[p] \in MessageSizes
        BY DEF ClassInv, BodyTypeInv
    <2>2. sizeOf[acquired[p]] = BlockSizeFor(wantedSize[p])
        BY <2>1 DEF ClassInv, ClassesAreKept
    <2> QED BY <2>1, <2>2, BlockSizeForFits
<1>2. BodyInit => ClassInv
    BY BodyInitClasses
<1>3. ClassInv /\ [BodyNext]_bodyVars => ClassInv'
    BY BodyClassesNext
<1> QED BY <1>1, <1>2, <1>3, PTL DEF BodySpec

-----------------------------------------------------------------------------
(* For one producer: the lists hold the blocks that nobody has.            *)

OneProducer == \A p, q \in Producers : p = q

\* The blocks of each class that are free are its list: `place` counts from the
\* end of it, which is Null, and `height` is its length.
ListsAreWhole(place, height) ==
    /\ \A s \in BlockSizes :
          IF height[s] = 0 THEN heads[s] = NullBlock
          ELSE /\ heads[s] \in Blocks /\ sizeOf[heads[s]] = s
               /\ place[heads[s]] = height[s]
    /\ \A b \in Blocks : place[b] # 0 =>
          /\ sizeOf[b] # 0 /\ place[b] =< height[sizeOf[b]]
          /\ IF place[b] = 1 THEN nextBlock[b] = NullBlock
             ELSE /\ nextBlock[b] \in Blocks /\ sizeOf[nextBlock[b]] = sizeOf[b]
                  /\ place[nextBlock[b]] = place[b] - 1
    /\ \A b, c \in Blocks :
          place[b] # 0 /\ place[b] = place[c] /\ sizeOf[b] = sizeOf[c] => b = c
    /\ \A s \in BlockSizes : \A j \in 1..height[s] :
          \E b \in Blocks : sizeOf[b] = s /\ place[b] = j

HasOwner(b) ==
    \/ \E p \in Producers : acquired[p] = b
    \/ \E body \in sent \cup {released} : body[1] = b

\* A block that is allocated has an owner or is in a list.
OwnedOrListed(place) ==
    \A b \in Blocks : HasOwner(b) <=> sizeOf[b] # 0 /\ place[b] = 0

OwnersDiffer ==
    /\ \A p \in Producers : \A body \in sent \cup {released} :
          acquired[p] # NullBlock => body[1] # acquired[p]
    /\ \A body \in sent : \A other \in (sent \ {body}) \cup {released} :
          other[1] # body[1]

\* What the producer has read of the list stays true until its exchange, and
\* the consumer exchanges the head for a block that leads to it.
ReadsAreFresh(place) ==
    /\ \A p \in Producers :
          /\ acquirePc[p] \in {"read", "exchange"} => place[expected[p]] # 0
          /\ acquirePc[p] = "exchange" => successor[p] = nextBlock[expected[p]]
    /\ releasePc = "exchange" => nextBlock[released[1]] = seenHead

ListsInv(place, height) ==
    /\ place \in [Blocks -> Nat] /\ height \in [BlockSizes -> Nat]
    /\ ListsAreWhole(place, height) /\ OwnedOrListed(place) /\ ReadsAreFresh(place)

BodyInv ==
    /\ ClassInv /\ OwnersDiffer
    /\ \E place, height : ListsInv(place, height)

\* A list has no more blocks than there are (MpscMessageBodyPool.h:75-96).
LEMMA ListIsShort ==
    ASSUME BodyTypeInv, NEW place, NEW height, ListsInv(place, height),
           NEW s \in BlockSizes
    PROVE  height[s] =< Cardinality(Blocks)
<1> DEFINE f == [j \in 1..height[s] |-> CHOOSE b \in Blocks : sizeOf[b] = s /\ place[b] = j]
<1>1. height[s] \in Nat
    BY DEF ListsInv
<1>2. \A j \in 1..height[s] : f[j] \in Blocks /\ place[f[j]] = j
    BY DEF ListsInv, ListsAreWhole
<1>3. f \in Injection(1..height[s], Blocks)
    <2> HIDE DEF f
    <2>1. f \in [1..height[s] -> Blocks]
        BY <1>2 DEF f
    <2> QED BY <1>2, <2>1 DEF Injection, IsInjective
<1>4. Cardinality(1..height[s]) =< Cardinality(Blocks)
    <2> HIDE DEF f
    <2> QED BY <1>3, FS_Injection
<1>5. Cardinality(1..height[s]) = height[s]
    BY <1>1, FS_Interval
<1> QED BY <1>4, <1>5

\* Following Next from a head visits the blocks of its class that have a place
\* in a list (MpscMessageBodyPool.h:42-48).
LEMMA FreeIsListed ==
    ASSUME BodyTypeInv, NEW place, NEW height, ListsInv(place, height),
           NEW s \in BlockSizes
    PROVE  Free(s) = {b \in Blocks : sizeOf[b] = s /\ place[b] # 0}
<1> DEFINE N == Cardinality(Blocks)
           h == height[s]
           At(j) == CHOOSE b \in Blocks : sizeOf[b] = s /\ place[b] = j
           Follows(g) == g = [k \in 0..N |->
                               IF k = 0 THEN heads[s]
                               ELSE IF g[k - 1] = NullBlock THEN NullBlock
                               ELSE nextBlock[g[k - 1]]]
           f == [k \in 0..N |-> IF k < h THEN At(h - k) ELSE NullBlock]
           chain == CHOOSE g : Follows(g)
<1>1. N \in Nat /\ h \in Nat /\ h =< N
    BY ListIsShort, FS_CardinalityType DEF ListsInv
<1>2. \A j \in 1..h : At(j) \in Blocks /\ sizeOf[At(j)] = s /\ place[At(j)] = j
    BY DEF ListsInv, ListsAreWhole
<1>3. \A b \in Blocks : sizeOf[b] = s /\ place[b] # 0 => place[b] \in 1..h /\ b = At(place[b])
    <2> SUFFICES ASSUME NEW b \in Blocks, sizeOf[b] = s, place[b] # 0
                 PROVE  place[b] \in 1..h /\ b = At(place[b])
        OBVIOUS
    <2>1. place[b] \in 1..h
        BY <1>1 DEF ListsInv, ListsAreWhole
    <2> QED BY <2>1, <1>2 DEF ListsInv, ListsAreWhole
<1>4. heads[s] = IF h = 0 THEN NullBlock ELSE At(h)
    <2>1. CASE h = 0
        BY <2>1 DEF ListsInv, ListsAreWhole
    <2>2. CASE h # 0
        <3>1. heads[s] \in Blocks /\ sizeOf[heads[s]] = s /\ place[heads[s]] = h
            BY <2>2 DEF ListsInv, ListsAreWhole
        <3> HIDE DEF At
        <3> QED BY <2>2, <3>1, <1>3
    <2> QED BY <2>1, <2>2
<1>5. \A j \in 1..h : nextBlock[At(j)] = IF j = 1 THEN NullBlock ELSE At(j - 1)
    <2> SUFFICES ASSUME NEW j \in 1..h
                 PROVE  nextBlock[At(j)] = IF j = 1 THEN NullBlock ELSE At(j - 1)
        OBVIOUS
    <2> DEFINE b == At(j)
    <2>0. b \in Blocks /\ sizeOf[b] = s /\ place[b] = j /\ j # 0
        BY <1>2
    <2> HIDE DEF At, b
    <2>1. IF j = 1 THEN nextBlock[b] = NullBlock
          ELSE /\ nextBlock[b] \in Blocks /\ sizeOf[nextBlock[b]] = s
               /\ place[nextBlock[b]] = j - 1
        BY <2>0 DEF ListsInv, ListsAreWhole
    <2>2. j # 1 => j - 1 # 0
        BY <1>1
    <2>3. CASE j = 1
        BY <2>1, <2>3 DEF b
    <2>4. CASE j # 1
        <3>1. nextBlock[b] = At(place[nextBlock[b]])
            BY <2>1, <2>2, <2>4, <1>3
        <3> QED BY <3>1, <2>1, <2>4 DEF b
    <2> QED BY <2>3, <2>4
<1> HIDE DEF At
<1>6. Follows(f)
    <2> SUFFICES ASSUME NEW k \in 0..N
                 PROVE  f[k] = IF k = 0 THEN heads[s]
                               ELSE IF f[k - 1] = NullBlock THEN NullBlock
                               ELSE nextBlock[f[k - 1]]
        BY Zenon
    <2>1. CASE k = 0
        BY <2>1, <1>1, <1>4
    <2>2. CASE k # 0 /\ k - 1 < h
        <3>0. k - 1 \in 0..N /\ h - (k - 1) \in 1..h /\ h - (k - 1) - 1 = h - k
            BY <2>2, <1>1
        <3>1. f[k - 1] = At(h - (k - 1))
            BY <2>2, <3>0
        <3>2. f[k - 1] # NullBlock
            <4>1. At(h - (k - 1)) \in Blocks
                BY <3>0, <1>2
            <4> QED BY <3>1, <4>1
        <3>3. nextBlock[f[k - 1]] = IF h - (k - 1) = 1 THEN NullBlock ELSE At(h - k)
            BY <3>0, <3>1, <1>5
        <3>4. h - (k - 1) = 1 <=> ~(k < h)
            BY <2>2, <1>1
        <3> QED BY <3>2, <3>3, <3>4, <2>2
    <2>3. CASE k # 0 /\ ~(k - 1 < h)
        <3>1. k - 1 \in 0..N /\ ~(k < h)
            BY <2>3, <1>1
        <3> QED BY <3>1, <2>3
    <2> QED BY <2>1, <2>2, <2>3
<1>7. Follows(chain)
    <2> HIDE DEF Follows
    <2> QED BY <1>6
<1>8. chain = f
    <2> DEFINE T == {k \in 0..N : chain[k] # f[k]}
    <2> HIDE DEF chain
    <2>1. T = {}
        <3> SUFFICES ASSUME T # {} PROVE FALSE
            OBVIOUS
        <3>1. T \in SUBSET Nat
            BY <1>1
        <3>2. PICK k \in T : \A j \in T : k =< j
            <4> HIDE DEF T
            <4> QED BY <3>1, LeastNumber
        <3>3. k \in 0..N /\ chain[k] # f[k]
            OBVIOUS
        <3>4. k # 0 => k - 1 \in 0..N /\ chain[k - 1] = f[k - 1]
            BY <3>2, <3>3, <1>1
        <3>5. /\ chain[k] = IF k = 0 THEN heads[s]
                           ELSE IF chain[k - 1] = NullBlock THEN NullBlock
                           ELSE nextBlock[chain[k - 1]]
              /\ f[k] = IF k = 0 THEN heads[s]
                           ELSE IF f[k - 1] = NullBlock THEN NullBlock
                           ELSE nextBlock[f[k - 1]]
            <4> HIDE DEF f
            <4> QED BY <3>3, <1>6, <1>7
        <3> HIDE DEF f
        <3> QED BY <3>3, <3>4, <3>5
    <2>2. chain = [k \in 0..N |-> chain[k]]
        BY <1>7, Zenon
    <2>3. \A k \in 0..N : chain[k] = f[k]
        <3> HIDE DEF f
        <3> QED BY <2>1
    <2> QED BY <2>2, <2>3
<1>9. Free(s) = {f[k] : k \in 0..N} \ {NullBlock}
    <2>1. Free(s) = {chain[k] : k \in 0..N} \ {NullBlock}
        BY DEF Free
    <2> HIDE DEF f, chain
    <2> QED BY <2>1, <1>8
<1>10. ASSUME NEW b \in {f[k] : k \in 0..N} \ {NullBlock}
       PROVE  b \in Blocks /\ sizeOf[b] = s /\ place[b] # 0
    <2>1. PICK k \in 0..N : b = f[k]
        OBVIOUS
    <2>2. k < h /\ b = At(h - k) /\ h - k \in 1..h
        BY <2>1, <1>1
    <2> QED BY <2>2, <1>2
<1>11. ASSUME NEW b \in Blocks, sizeOf[b] = s, place[b] # 0
       PROVE  b \in {f[k] : k \in 0..N} \ {NullBlock}
    <2>1. place[b] \in 1..h /\ b = At(place[b])
        BY <1>3, <1>11
    <2>2. h - place[b] \in 0..N /\ h - place[b] < h /\ h - (h - place[b]) = place[b]
        BY <2>1, <1>1
    <2>3. f[h - place[b]] = b
        BY <2>1, <2>2
    <2>4. b # NullBlock
        BY BodyAssumption
    <2> HIDE DEF f
    <2> QED BY <2>2, <2>3, <2>4
<1> QED BY <1>9, <1>10, <1>11

\* The state is what the theorem says.
LEMMA BodyInvIsSound ==
    ASSUME BodyInv, OneProducer
    PROVE  BlocksAreSound
<1> PICK place, height : ListsInv(place, height)
    BY DEF BodyInv
<1>0. BodyTypeInv
    BY DEF BodyInv, ClassInv
<1>1. \A s \in BlockSizes : Free(s) = {b \in Blocks : sizeOf[b] = s /\ place[b] # 0}
    BY <1>0, FreeIsListed
<1>2. BlockHasOneOwner
    <2>1. ASSUME NEW p \in Producers, acquired[p] # NullBlock, NEW s \in BlockSizes
          PROVE  acquired[p] \notin Free(s)
        <3>1. acquired[p] \in Blocks
            BY <1>0, <2>1 DEF BodyTypeInv
        <3>2. HasOwner(acquired[p])
            BY DEF HasOwner
        <3>3. place[acquired[p]] = 0
            BY <3>1, <3>2 DEF ListsInv, OwnedOrListed
        <3> QED BY <3>3, <1>1
    <2> QED BY <2>1 DEF BlockHasOneOwner, BodyInv, OwnersDiffer, OneProducer
<1>3. NoBlockIsLost
    <2> SUFFICES ASSUME NEW b \in Blocks, sizeOf[b] # 0, ~HasOwner(b)
                 PROVE  b \in Free(sizeOf[b])
        BY DEF NoBlockIsLost, HasOwner
    <2>1. place[b] # 0
        BY DEF ListsInv, OwnedOrListed
    <2>2. sizeOf[b] \in BlockSizes
        BY <1>0 DEF BodyTypeInv
    <2> QED BY <2>1, <2>2, <1>1
<1>4. BodyFitsItsBlock
    <2> SUFFICES ASSUME NEW p \in Producers, acquired[p] # NullBlock
                 PROVE  wantedSize[p] =< sizeOf[acquired[p]]
        BY DEF BodyFitsItsBlock
    <2>1. acquirePc[p] = "filled" /\ wantedSize[p] \in MessageSizes
        BY <1>0 DEF BodyTypeInv
    <2>2. sizeOf[acquired[p]] = BlockSizeFor(wantedSize[p])
        BY <2>1 DEF BodyInv, ClassInv, ClassesAreKept
    <2> QED BY <2>1, <2>2, BlockSizeForFits
<1> QED BY <1>2, <1>3, <1>4 DEF BlocksAreSound

\* The conjuncts of BodyInv about owners and lists.
OwnersAndLists(place, height) == OwnersDiffer /\ ListsInv(place, height)

\* Nobody has a block at first (MpscMessageBodyPool.h:75-96).
LEMMA BodyInitLists == BodyInit => BodyInv
<1> SUFFICES ASSUME BodyInit PROVE BodyInv
    OBVIOUS
<1> DEFINE place == [b \in Blocks |-> 0]
           height == [s \in BlockSizes |-> 0]
<1>1. ClassInv
    BY BodyInitClasses
<1>2. OwnersDiffer
    BY DEF BodyInit, OwnersDiffer
<1>3. ListsAreWhole(place, height)
    BY DEF BodyInit, ListsAreWhole
<1>4. OwnedOrListed(place)
    BY DEF BodyInit, OwnedOrListed, HasOwner
<1>5. ReadsAreFresh(place)
    BY DEF BodyInit, ReadsAreFresh
<1> HIDE DEF place, height
<1>6. ListsInv(place, height)
    BY <1>3, <1>4, <1>5 DEF ListsInv, place, height
<1> QED BY <1>1, <1>2, <1>6 DEF BodyInv

\* Load and Read leave the lists alone (MpscMessageBodyPool.h:33-43).
LEMMA AcquireLoadKeepsLists ==
    ASSUME ClassInv, NEW place, NEW height, OwnersAndLists(place, height),
           NEW p \in Producers, NEW size \in MessageSizes, AcquireLoad(p, size)
    PROVE  OwnersAndLists(place, height)'
<1>0. BlockSizeFor(size) \in BlockSizes
    BY BlockSizeForFits
<1> DEFINE s == BlockSizeFor(size)
<1>1. /\ expected' = [expected EXCEPT ![p] = heads[s]]
      /\ acquirePc' = [acquirePc EXCEPT ![p] =
                         IF heads[s] = NullBlock THEN "allocate" ELSE "read"]
      /\ UNCHANGED <<heads, nextBlock, sizeOf, successor, acquired, sent,
                     released, releasePc, seenHead>>
    BY DEF AcquireLoad, Expect, releaseVars
<1>2. heads[s] # NullBlock => place[heads[s]] # 0
    BY <1>0 DEF OwnersAndLists, ListsInv, ListsAreWhole
<1> HIDE DEF s
<1>3. ReadsAreFresh(place)'
    BY <1>1, <1>2 DEF OwnersAndLists, ListsInv, ReadsAreFresh, ClassInv, BodyTypeInv
<1> QED BY <1>1, <1>3 DEF OwnersAndLists, ListsInv, ListsAreWhole, OwnedOrListed,
           HasOwner, OwnersDiffer

\* A read leaves the lists and is fresh.
LEMMA AcquireReadKeepsLists ==
    ASSUME ClassInv, NEW place, NEW height, OwnersAndLists(place, height),
           NEW p \in Producers, AcquireRead(p)
    PROVE  OwnersAndLists(place, height)'
<1>1. UNCHANGED <<heads, nextBlock, sizeOf, wantedSize, expected, acquired,
                  sent, released, releasePc, seenHead>>
    BY DEF AcquireRead, releaseVars
<1>2. ReadsAreFresh(place)'
    BY <1>1 DEF AcquireRead, OwnersAndLists, ListsInv, ReadsAreFresh, ClassInv, BodyTypeInv
<1> QED BY <1>1, <1>2 DEF OwnersAndLists, ListsInv, ListsAreWhole, OwnedOrListed,
           HasOwner, OwnersDiffer

\* An exchange that succeeds takes the first block of the list, and the head
\* becomes the second: nobody else has taken blocks (MpscMessageBodyPool.h:43-48).
LEMMA AcquireExchangeKeepsLists ==
    ASSUME ClassInv, OneProducer, NEW place, NEW height,
           OwnersAndLists(place, height), NEW p \in Producers, AcquireExchange(p)
    PROVE  \E place2, height2 : OwnersAndLists(place2, height2)'
<1> DEFINE s == BlockSizeFor(wantedSize[p])
<1>0. s \in BlockSizes
    BY BlockSizeForFits DEF ClassInv, BodyTypeInv, AcquireExchange
<1>1. acquirePc[p] = "exchange"
      /\ UNCHANGED <<nextBlock, sizeOf, wantedSize, successor, sent,
                     released, releasePc, seenHead>>
    BY DEF AcquireExchange, releaseVars
<1>2. CASE /\ heads[s] = expected[p]
           /\ heads' = [heads EXCEPT ![s] = successor[p]]
           /\ Return(p, expected[p])
           /\ UNCHANGED expected
    <2> DEFINE b == expected[p]
    <2>1. /\ b \in Blocks /\ place[b] # 0 /\ successor[p] = nextBlock[b]
          /\ heads[s] = b
        BY <1>1, <1>2 DEF ClassInv, BodyTypeInv, OwnersAndLists, ListsInv, ReadsAreFresh
    <2>2. /\ height[s] # 0 /\ sizeOf[b] = s /\ place[b] = height[s]
          /\ place \in [Blocks -> Nat] /\ height \in [BlockSizes -> Nat]
        <3> HIDE DEF s, b
        <3>1. heads[s] # NullBlock
            BY <2>1
        <3> QED BY <1>0, <2>1, <3>1 DEF OwnersAndLists, ListsInv, ListsAreWhole
    <2>3. /\ acquired' = [acquired EXCEPT ![p] = b]
          /\ acquirePc' = [acquirePc EXCEPT ![p] = "filled"]
          /\ heads' = [heads EXCEPT ![s] = nextBlock[b]]
        BY <1>2, <2>1 DEF Return
    <2> HIDE DEF s, b
    <2>4. PICK place2, height2 :
             /\ place2 \in [Blocks -> Nat] /\ height2 \in [BlockSizes -> Nat]
             /\ place2[b] = 0 /\ height2[s] = height[s] - 1
             /\ \A c \in Blocks \ {b} : place2[c] = place[c]
             /\ \A t \in BlockSizes \ {s} : height2[t] = height[t]
        <3> DEFINE place3 == [place EXCEPT ![b] = 0]
                   height3 == [height EXCEPT ![s] = @ - 1]
        <3>1. /\ place3 \in [Blocks -> Nat] /\ height3 \in [BlockSizes -> Nat]
              /\ place3[b] = 0 /\ height3[s] = height[s] - 1
              /\ \A c \in Blocks \ {b} : place3[c] = place[c]
              /\ \A t \in BlockSizes \ {s} : height3[t] = height[t]
            BY <1>0, <2>1, <2>2
        <3> HIDE DEF place3, height3
        <3> QED BY <3>1
    <2>5. heads'[s] = nextBlock[b] /\ \A t \in BlockSizes \ {s} : heads'[t] = heads[t]
        BY <1>0, <2>3 DEF ClassInv, BodyTypeInv
    <2>6. ListsAreWhole(place2, height2)'
        <3>0. ListsAreWhole(place, height)
            BY DEF OwnersAndLists, ListsInv
        <3>1. \A t \in BlockSizes :
                 IF height2[t] = 0 THEN heads'[t] = NullBlock
                 ELSE /\ heads'[t] \in Blocks /\ sizeOf[heads'[t]] = t
                      /\ place2[heads'[t]] = height2[t]
            <4>1. CASE height[s] = 1
                BY <4>1, <3>0, <2>1, <2>2, <2>4, <2>5 DEF ListsAreWhole
            <4>2. CASE height[s] # 1
                <5>1. /\ nextBlock[b] \in Blocks /\ sizeOf[nextBlock[b]] = s
                      /\ place[nextBlock[b]] = height[s] - 1
                    BY <4>2, <3>0, <2>1, <2>2 DEF ListsAreWhole
                <5>2. nextBlock[b] # b /\ height[s] - 1 # 0
                    BY <5>1, <2>2, <1>0, <4>2
                <5> QED BY <5>1, <5>2, <3>0, <2>1, <2>2, <2>4, <2>5 DEF ListsAreWhole
            <4> QED BY <4>1, <4>2
        <3>2. ASSUME NEW c \in Blocks, place2[c] # 0
              PROVE  /\ sizeOf[c] # 0 /\ place2[c] =< height2[sizeOf[c]]
                     /\ IF place2[c] = 1 THEN nextBlock[c] = NullBlock
                        ELSE /\ nextBlock[c] \in Blocks /\ sizeOf[nextBlock[c]] = sizeOf[c]
                             /\ place2[nextBlock[c]] = place2[c] - 1
            <4>1. c # b /\ place2[c] = place[c] /\ place[c] # 0
                BY <3>2, <2>4
            <4>2. /\ sizeOf[c] # 0 /\ place[c] =< height[sizeOf[c]]
                  /\ IF place[c] = 1 THEN nextBlock[c] = NullBlock
                     ELSE /\ nextBlock[c] \in Blocks /\ sizeOf[nextBlock[c]] = sizeOf[c]
                          /\ place[nextBlock[c]] = place[c] - 1
                BY <4>1, <3>0 DEF ListsAreWhole
            <4>3. sizeOf[c] \in BlockSizes
                BY <4>2 DEF ClassInv, BodyTypeInv
            <4>4. sizeOf[c] = s => place[c] # height[s]
                BY <4>1, <3>0, <2>1, <2>2 DEF ListsAreWhole
            <4>5. place[c] =< height2[sizeOf[c]]
                <5>1. place[c] \in Nat /\ height[sizeOf[c]] \in Nat
                    BY <4>3, <2>2
                <5>2. CASE sizeOf[c] = s
                    BY <5>1, <5>2, <4>2, <4>4, <2>4
                <5>3. CASE sizeOf[c] # s
                    BY <5>3, <4>2, <4>3, <2>4
                <5> QED BY <5>2, <5>3
            <4>6. place[c] # 1 => nextBlock[c] # b
                BY <4>2, <4>4, <2>2, <4>3
            <4> QED BY <4>1, <4>2, <4>5, <4>6, <2>4
        <3>3. \A c, d \in Blocks :
                 place2[c] # 0 /\ place2[c] = place2[d] /\ sizeOf[c] = sizeOf[d] => c = d
            BY <3>0, <2>4 DEF ListsAreWhole
        <3>4. ASSUME NEW t \in BlockSizes, NEW j \in 1..height2[t]
              PROVE  \E c \in Blocks : sizeOf[c] = t /\ place2[c] = j
            <4>1. j \in 1..height[t] /\ (t = s => j # height[s])
                BY <2>2, <2>4
            <4>2. PICK c \in Blocks : sizeOf[c] = t /\ place[c] = j
                BY <4>1, <3>0 DEF ListsAreWhole
            <4>3. c # b
                BY <4>1, <4>2, <2>2
            <4> QED BY <4>2, <4>3, <2>4
        <3> QED BY <1>1, <3>1, <3>2, <3>3, <3>4 DEF ListsAreWhole
    <2>7. acquired[p] = NullBlock /\ \A q \in Producers : q = p
        BY <1>1 DEF ClassInv, BodyTypeInv, OneProducer
    <2>8. acquired'[p] = b /\ acquirePc'[p] = "filled"
        BY <2>3 DEF ClassInv, BodyTypeInv
    <2>9. ~HasOwner(b)
        BY <2>1 DEF OwnersAndLists, ListsInv, OwnedOrListed
    <2>10. \A c \in Blocks : HasOwner(c)' <=> HasOwner(c) \/ c = b
        BY <1>1, <2>7, <2>8 DEF HasOwner
    <2>11. OwnedOrListed(place2)'
        <3>1. \A c \in Blocks : HasOwner(c) <=> sizeOf[c] # 0 /\ place[c] = 0
            BY DEF OwnersAndLists, ListsInv, OwnedOrListed
        <3>2. s # 0
            BY <1>0
        <3>3. \A c \in Blocks : HasOwner(c)' <=> sizeOf[c] # 0 /\ place2[c] = 0
            BY <3>1, <3>2, <2>2, <2>4, <2>10
        <3> QED BY <1>1, <3>3 DEF OwnedOrListed
    <2>12. ReadsAreFresh(place2)'
        BY <1>1, <2>7, <2>8 DEF OwnersAndLists, ListsInv, ReadsAreFresh
    <2>13. OwnersDiffer'
        BY <1>1, <2>7, <2>8, <2>9 DEF OwnersAndLists, OwnersDiffer, HasOwner
    <2>14. OwnersAndLists(place2, height2)'
        BY <2>4, <2>6, <2>11, <2>12, <2>13 DEF OwnersAndLists, ListsInv
    <2> QED BY <2>14
<1>3. CASE Expect(p, heads[s]) /\ UNCHANGED <<heads, acquired>>
    <2>1. /\ expected' = [expected EXCEPT ![p] = heads[s]]
          /\ acquirePc' = [acquirePc EXCEPT ![p] =
                         IF heads[s] = NullBlock THEN "allocate" ELSE "read"]
        BY <1>3 DEF Expect
    <2>2. heads[s] # NullBlock => place[heads[s]] # 0
        BY <1>0 DEF OwnersAndLists, ListsInv, ListsAreWhole
    <2> HIDE DEF s
    <2>3. ReadsAreFresh(place)'
        BY <1>1, <2>1, <2>2 DEF OwnersAndLists, ListsInv, ReadsAreFresh, ClassInv, BodyTypeInv
    <2>4. OwnersAndLists(place, height)'
        BY <1>1, <1>3, <2>3 DEF OwnersAndLists, ListsInv, ListsAreWhole, OwnedOrListed,
           HasOwner, OwnersDiffer
    <2> QED BY <2>4
<1> QED BY <1>2, <1>3 DEF AcquireExchange

\* A new block is in no list (MpscMessageBodyPool.h:50-52).
LEMMA AcquireAllocateKeepsLists ==
    ASSUME ClassInv, OneProducer, NEW place, NEW height,
           OwnersAndLists(place, height), NEW p \in Producers, AcquireAllocate(p)
    PROVE  OwnersAndLists(place, height)'
<1> DEFINE s == BlockSizeFor(wantedSize[p])
<1>0. s \in BlockSizes
    BY BlockSizeForFits DEF ClassInv, BodyTypeInv, AcquireAllocate
<1>1. PICK b \in Blocks : /\ sizeOf[b] = 0
                          /\ sizeOf' = [sizeOf EXCEPT ![b] = s]
                          /\ Return(p, b)
    BY DEF AcquireAllocate
<1>2. acquirePc[p] = "allocate"
      /\ UNCHANGED <<heads, nextBlock, wantedSize, expected, successor, sent,
                     released, releasePc, seenHead>>
    BY DEF AcquireAllocate, releaseVars
<1>3. s # 0
    BY <1>0
<1> HIDE DEF s
<1>4. ~HasOwner(b)
    BY <1>1 DEF OwnersAndLists, ListsInv, OwnedOrListed
<1>5. place[b] = 0 /\ place \in [Blocks -> Nat] /\ height \in [BlockSizes -> Nat]
    BY <1>1 DEF OwnersAndLists, ListsInv, ListsAreWhole
<1>6. acquired[p] = NullBlock /\ \A q \in Producers : q = p
    BY <1>2 DEF ClassInv, BodyTypeInv, OneProducer
<1>7. acquired'[p] = b /\ acquirePc'[p] = "filled"
    BY <1>1 DEF ClassInv, BodyTypeInv, Return
<1>8. sizeOf'[b] = s /\ \A c \in Blocks \ {b} : sizeOf'[c] = sizeOf[c]
    BY <1>1 DEF ClassInv, BodyTypeInv
<1>9. ListsAreWhole(place, height)'
    <2>0. ListsAreWhole(place, height)
        BY DEF OwnersAndLists, ListsInv
    <2>1. \A c \in Blocks : place[c] # 0 => sizeOf'[c] = sizeOf[c]
        BY <1>5, <1>8
    <2>2. \A t \in BlockSizes :
             IF height[t] = 0 THEN heads[t] = NullBlock
             ELSE /\ heads[t] \in Blocks /\ sizeOf'[heads[t]] = t
                  /\ place[heads[t]] = height[t]
        BY <2>0, <2>1 DEF ListsAreWhole
    <2>3. ASSUME NEW c \in Blocks, place[c] # 0
          PROVE  /\ sizeOf'[c] # 0 /\ place[c] =< height[sizeOf'[c]]
                 /\ IF place[c] = 1 THEN nextBlock[c] = NullBlock
                    ELSE /\ nextBlock[c] \in Blocks /\ sizeOf'[nextBlock[c]] = sizeOf'[c]
                         /\ place[nextBlock[c]] = place[c] - 1
        <3>1. /\ sizeOf[c] # 0 /\ place[c] =< height[sizeOf[c]]
              /\ IF place[c] = 1 THEN nextBlock[c] = NullBlock
                 ELSE /\ nextBlock[c] \in Blocks /\ sizeOf[nextBlock[c]] = sizeOf[c]
                      /\ place[nextBlock[c]] = place[c] - 1
            BY <2>0, <2>3 DEF ListsAreWhole
        <3>2. sizeOf'[c] = sizeOf[c]
            BY <2>1, <2>3
        <3>3. place[c] # 1 => place[nextBlock[c]] # 0
            BY <3>1, <1>5, <2>3
        <3> QED BY <3>1, <3>2, <3>3, <2>1
    <2>4. \A c, d \in Blocks :
             place[c] # 0 /\ place[c] = place[d] /\ sizeOf'[c] = sizeOf'[d] => c = d
        BY <2>0, <2>1 DEF ListsAreWhole
    <2>5. \A t \in BlockSizes : \A j \in 1..height[t] :
             \E c \in Blocks : sizeOf'[c] = t /\ place[c] = j
        <3> SUFFICES ASSUME NEW t \in BlockSizes, NEW j \in 1..height[t]
                     PROVE  \E c \in Blocks : sizeOf'[c] = t /\ place[c] = j
            OBVIOUS
        <3>1. PICK c \in Blocks : sizeOf[c] = t /\ place[c] = j
            BY <2>0 DEF ListsAreWhole
        <3>2. place[c] # 0
            BY <3>1, <1>5
        <3> QED BY <3>1, <3>2, <2>1
    <2> QED BY <1>2, <2>2, <2>3, <2>4, <2>5 DEF ListsAreWhole
<1>10. \A c \in Blocks : HasOwner(c)' <=> HasOwner(c) \/ c = b
    BY <1>2, <1>6, <1>7 DEF HasOwner
<1>11. OwnedOrListed(place)'
    BY <1>3, <1>5, <1>8, <1>10 DEF OwnersAndLists, ListsInv, OwnedOrListed
<1>12. ReadsAreFresh(place)'
    BY <1>2, <1>6, <1>7 DEF OwnersAndLists, ListsInv, ReadsAreFresh
<1>13. OwnersDiffer'
    BY <1>2, <1>4, <1>6, <1>7 DEF OwnersAndLists, OwnersDiffer, HasOwner
<1> QED BY <1>5, <1>9, <1>11, <1>12, <1>13 DEF OwnersAndLists, ListsInv

\* The consumer gets the block of the body (Session.cpp:488).
LEMMA SendKeepsLists ==
    ASSUME ClassInv, OneProducer, NEW place, NEW height,
           OwnersAndLists(place, height), NEW p \in Producers, Send(p)
    PROVE  OwnersAndLists(place, height)'
<1>1. /\ acquirePc[p] = "filled" /\ sent' = sent \cup {<<acquired[p], wantedSize[p]>>}
      /\ acquired' = [acquired EXCEPT ![p] = NullBlock]
      /\ acquirePc' = [acquirePc EXCEPT ![p] = "idle"]
      /\ UNCHANGED <<heads, nextBlock, sizeOf, wantedSize, expected, successor,
                     released, releasePc, seenHead>>
    BY DEF Send, releaseVars
<1>2. acquired[p] \in Blocks /\ \A q \in Producers : q = p
    BY <1>1 DEF ClassInv, BodyTypeInv, OneProducer
<1>3. acquired'[p] = NullBlock /\ acquirePc'[p] = "idle"
    BY <1>1 DEF ClassInv, BodyTypeInv
<1>4. \A c \in Blocks : HasOwner(c)' <=> HasOwner(c)
    <2> DEFINE body == <<acquired[p], wantedSize[p]>>
    <2>1. body[1] = acquired[p] /\ sent' = sent \cup {body} /\ released' = released
        BY <1>1
    <2> HIDE DEF body
    <2> QED BY <1>2, <1>3, <2>1 DEF HasOwner
<1>5. OwnedOrListed(place)'
    BY <1>1, <1>4 DEF OwnersAndLists, ListsInv, OwnedOrListed
<1>6. ReadsAreFresh(place)'
    BY <1>1, <1>2, <1>3 DEF OwnersAndLists, ListsInv, ReadsAreFresh
<1>7. OwnersDiffer'
    BY <1>1, <1>2, <1>3 DEF OwnersAndLists, OwnersDiffer
<1> QED BY <1>1, <1>5, <1>6, <1>7 DEF OwnersAndLists, ListsInv, ListsAreWhole

\* The body that is given back is no longer on its way (MpscMessageBodyPool.h:54-65).
LEMMA ReleaseLoadKeepsLists ==
    ASSUME ClassInv, NEW place, NEW height, OwnersAndLists(place, height),
           NEW body \in sent, ReleaseLoad(body)
    PROVE  OwnersAndLists(place, height)'
<1>1. /\ releasePc = "idle" /\ sent' = sent \ {body} /\ released' = body
      /\ releasePc' = "link"
      /\ UNCHANGED <<heads, nextBlock, sizeOf, acquirePc, wantedSize, expected,
                     successor, acquired>>
    BY DEF ReleaseLoad, acquireVars
<1>2. released = <<NullBlock, 0>>
    BY <1>1 DEF ClassInv, BodyTypeInv
<1>3. released[1] = NullBlock /\ NullBlock \notin Blocks
    BY <1>2
<1>4. \A b \in Blocks : HasOwner(b)' <=> HasOwner(b)
    BY <1>1, <1>3 DEF HasOwner
<1>5. OwnedOrListed(place)'
    BY <1>1, <1>4 DEF OwnersAndLists, ListsInv, OwnedOrListed
<1>6. ReadsAreFresh(place)'
    BY <1>1 DEF OwnersAndLists, ListsInv, ReadsAreFresh
<1>7. OwnersDiffer'
    BY <1>1 DEF OwnersAndLists, OwnersDiffer
<1> QED BY <1>1, <1>5, <1>6, <1>7 DEF OwnersAndLists, ListsInv, ListsAreWhole

\* Only the Next of a block in no list is written (MpscMessageBodyPool.h:66-68).
LEMMA ReleaseLinkKeepsLists ==
    ASSUME ClassInv, NEW place, NEW height, OwnersAndLists(place, height), ReleaseLink
    PROVE  OwnersAndLists(place, height)'
<1> DEFINE b == released[1]
<1>1. /\ releasePc = "link" /\ nextBlock' = [nextBlock EXCEPT ![b] = seenHead]
      /\ UNCHANGED <<heads, sizeOf, acquirePc, wantedSize, expected, successor,
                     acquired, sent, released, seenHead>>
    BY DEF ReleaseLink, acquireVars
<1>2. b \in Blocks
    BY <1>1 DEF ClassInv, BodyTypeInv
<1>3. HasOwner(b)
    BY DEF HasOwner
<1>4. place[b] = 0
    BY <1>2, <1>3 DEF OwnersAndLists, ListsInv, OwnedOrListed
<1> HIDE DEF b
<1>5. nextBlock'[b] = seenHead /\ \A c \in Blocks \ {b} : nextBlock'[c] = nextBlock[c]
    BY <1>1, <1>2 DEF ClassInv, BodyTypeInv
<1>6. \A c \in Blocks : place[c] # 0 => nextBlock'[c] = nextBlock[c]
    BY <1>4, <1>5
<1>7. ListsAreWhole(place, height)'
    BY <1>1, <1>6 DEF OwnersAndLists, ListsInv, ListsAreWhole
<1>8. ReadsAreFresh(place)'
    <2>1. \A p \in Producers :
             /\ acquirePc[p] \in {"read", "exchange"} => place[expected[p]] # 0
             /\ acquirePc[p] = "exchange" => successor[p] = nextBlock'[expected[p]]
        <3>1. \A p \in Producers : acquirePc[p] \in {"read", "exchange"}
                                      => expected[p] \in Blocks
            BY DEF ClassInv, BodyTypeInv
        <3> QED BY <3>1, <1>6 DEF OwnersAndLists, ListsInv, ReadsAreFresh
    <2> QED BY <1>1, <1>5, <2>1 DEF ReadsAreFresh, b
<1>9. \A c \in Blocks : HasOwner(c)' <=> HasOwner(c)
    BY <1>1 DEF HasOwner
<1>10. OwnedOrListed(place)' /\ OwnersDiffer'
    BY <1>1, <1>9 DEF OwnersAndLists, ListsInv, OwnedOrListed, OwnersDiffer
<1> QED BY <1>7, <1>8, <1>10 DEF OwnersAndLists, ListsInv

\* An exchange that succeeds puts the block before the list
\* (MpscMessageBodyPool.h:69-73).
LEMMA ReleaseExchangeKeepsLists ==
    ASSUME ClassInv, NEW place, NEW height, OwnersAndLists(place, height),
           ReleaseExchange
    PROVE  \E place2, height2 : OwnersAndLists(place2, height2)'
<1> DEFINE s == BlockSizeFor(released[2])
           b == released[1]
<1>0. releasePc = "exchange" /\ s \in BlockSizes /\ b \in Blocks /\ sizeOf[b] = s
    BY BlockSizeForFits DEF ReleaseExchange, ClassInv, BodyTypeInv, ClassesAreKept
<1>1. UNCHANGED <<nextBlock, sizeOf, acquirePc, wantedSize, expected, successor,
                  acquired, sent>>
    BY DEF ReleaseExchange, acquireVars
<1>2. CASE /\ heads[s] = seenHead
           /\ heads' = [heads EXCEPT ![s] = b]
           /\ released' = <<NullBlock, 0>>
           /\ releasePc' = "idle"
           /\ UNCHANGED seenHead
    <2>1. HasOwner(b) /\ nextBlock[b] = heads[s]
        BY <1>0, <1>2 DEF HasOwner, OwnersAndLists, ListsInv, ReadsAreFresh
    <2>2. /\ place[b] = 0
          /\ place \in [Blocks -> Nat] /\ height \in [BlockSizes -> Nat]
        BY <1>0, <2>1 DEF OwnersAndLists, ListsInv, OwnedOrListed
    <2>3. \A body \in sent : body[1] # b
        BY DEF OwnersAndLists, OwnersDiffer
    <2>4. \A p \in Producers : acquired[p] # b
        <3>1. b # NullBlock
            BY <1>0
        <3> QED BY <3>1 DEF OwnersAndLists, OwnersDiffer
    <2>5. released'[1] = NullBlock /\ NullBlock \notin Blocks
        BY <1>2
    <2>6. \A c \in Blocks : HasOwner(c)' <=> HasOwner(c) /\ c # b
        BY <1>1, <2>3, <2>4, <2>5 DEF HasOwner
    <2> HIDE DEF s, b
    <2>7. heads'[s] = b /\ \A t \in BlockSizes \ {s} : heads'[t] = heads[t]
        BY <1>0, <1>2 DEF ClassInv, BodyTypeInv
    <2>8. PICK place2, height2 :
             /\ place2 \in [Blocks -> Nat] /\ height2 \in [BlockSizes -> Nat]
             /\ place2[b] = height[s] + 1 /\ height2[s] = height[s] + 1
             /\ \A c \in Blocks \ {b} : place2[c] = place[c]
             /\ \A t \in BlockSizes \ {s} : height2[t] = height[t]
        <3> DEFINE place3 == [place EXCEPT ![b] = height[s] + 1]
                   height3 == [height EXCEPT ![s] = @ + 1]
        <3>1. /\ place3 \in [Blocks -> Nat] /\ height3 \in [BlockSizes -> Nat]
              /\ place3[b] = height[s] + 1 /\ height3[s] = height[s] + 1
              /\ \A c \in Blocks \ {b} : place3[c] = place[c]
              /\ \A t \in BlockSizes \ {s} : height3[t] = height[t]
            BY <1>0, <2>2
        <3> HIDE DEF place3, height3
        <3> QED BY <3>1
    <2>9. ListsAreWhole(place2, height2)'
        <3>0. ListsAreWhole(place, height)
            BY DEF OwnersAndLists, ListsInv
        <3>1. \A t \in BlockSizes :
                 IF height2[t] = 0 THEN heads'[t] = NullBlock
                 ELSE /\ heads'[t] \in Blocks /\ sizeOf[heads'[t]] = t
                      /\ place2[heads'[t]] = height2[t]
            <4> SUFFICES ASSUME NEW t \in BlockSizes
                         PROVE  IF height2[t] = 0 THEN heads'[t] = NullBlock
                                ELSE /\ heads'[t] \in Blocks /\ sizeOf[heads'[t]] = t
                                     /\ place2[heads'[t]] = height2[t]
                OBVIOUS
            <4>1. CASE t = s
                <5>1. height2[s] # 0
                    BY <1>0, <2>2, <2>8
                <5> QED BY <4>1, <5>1, <1>0, <2>7, <2>8
            <4>2. CASE t # s
                <5>1. IF height[t] = 0 THEN heads[t] = NullBlock
                      ELSE /\ heads[t] \in Blocks /\ sizeOf[heads[t]] = t
                           /\ place[heads[t]] = height[t]
                    BY <3>0 DEF ListsAreWhole
                <5> QED BY <4>2, <5>1, <1>0, <2>7, <2>8
            <4> QED BY <4>1, <4>2
        <3>2. ASSUME NEW c \in Blocks, place2[c] # 0
              PROVE  /\ sizeOf[c] # 0 /\ place2[c] =< height2[sizeOf[c]]
                     /\ IF place2[c] = 1 THEN nextBlock[c] = NullBlock
                        ELSE /\ nextBlock[c] \in Blocks /\ sizeOf[nextBlock[c]] = sizeOf[c]
                             /\ place2[nextBlock[c]] = place2[c] - 1
            <4>1. CASE c = b
                <5>1. height[s] \in Nat /\ s # 0
                    BY <1>0, <2>2
                <5>2. place2[b] = 1 <=> height[s] = 0
                    BY <5>1, <2>8
                <5>3. IF height[s] = 0 THEN heads[s] = NullBlock
                      ELSE /\ heads[s] \in Blocks /\ sizeOf[heads[s]] = s
                           /\ place[heads[s]] = height[s]
                    BY <1>0, <3>0 DEF ListsAreWhole
                <5>4. height[s] # 0 => heads[s] # b
                    BY <5>3, <2>2
                <5>5. height[s] # 0 => place2[heads[s]] = place2[b] - 1
                    BY <5>1, <5>3, <5>4, <2>8
                <5>6. place2[b] =< height2[s]
                    BY <5>1, <2>8
                <5> QED BY <4>1, <5>1, <5>2, <5>3, <5>5, <5>6, <1>0, <2>1
            <4>2. CASE c # b
                <5>1. place2[c] = place[c] /\ place[c] # 0
                    BY <4>2, <3>2, <2>8
                <5>2. /\ sizeOf[c] # 0 /\ place[c] =< height[sizeOf[c]]
                      /\ IF place[c] = 1 THEN nextBlock[c] = NullBlock
                         ELSE /\ nextBlock[c] \in Blocks /\ sizeOf[nextBlock[c]] = sizeOf[c]
                              /\ place[nextBlock[c]] = place[c] - 1
                    BY <5>1, <3>0 DEF ListsAreWhole
                <5>3. sizeOf[c] \in BlockSizes
                    BY <5>2 DEF ClassInv, BodyTypeInv
                <5>4. place[c] =< height2[sizeOf[c]]
                    <6>1. place[c] \in Nat /\ height[sizeOf[c]] \in Nat
                        BY <5>3, <2>2
                    <6>2. CASE sizeOf[c] = s
                        BY <6>1, <6>2, <5>2, <2>8
                    <6>3. CASE sizeOf[c] # s
                        BY <6>3, <5>2, <5>3, <2>8
                    <6> QED BY <6>2, <6>3
                <5>5. place[c] # 1 => nextBlock[c] # b
                    <6>1. place[c] \in Nat
                        BY <2>2
                    <6> QED BY <6>1, <5>1, <5>2, <2>2
                <5> QED BY <4>2, <5>1, <5>2, <5>4, <5>5, <2>8
            <4> QED BY <4>1, <4>2
        <3>3. ASSUME NEW c \in Blocks, NEW d \in Blocks, place2[c] # 0,
                     place2[c] = place2[d], sizeOf[c] = sizeOf[d]
              PROVE  c = d
            <4>1. ASSUME NEW e \in Blocks, e # b, sizeOf[e] = s
                  PROVE  place2[e] # height[s] + 1
                <5>1. place2[e] = place[e] /\ place[e] \in Nat /\ height[s] \in Nat
                    BY <4>1, <1>0, <2>2, <2>8
                <5>2. place[e] # 0 => place[e] =< height[s]
                    BY <4>1, <3>0 DEF ListsAreWhole
                <5> QED BY <5>1, <5>2
            <4>2. CASE c = b \/ d = b
                BY <4>1, <4>2, <3>3, <1>0, <2>8
            <4>3. CASE c # b /\ d # b
                BY <4>3, <3>0, <3>3, <2>8 DEF ListsAreWhole
            <4> QED BY <4>2, <4>3
        <3>4. ASSUME NEW t \in BlockSizes, NEW j \in 1..height2[t]
              PROVE  \E c \in Blocks : sizeOf[c] = t /\ place2[c] = j
            <4>1. CASE t = s /\ j = height[s] + 1
                BY <4>1, <1>0, <2>8
            <4>2. CASE ~(t = s /\ j = height[s] + 1)
                <5>1. j \in 1..height[t]
                    <6>1. height[t] \in Nat /\ height2[t] \in Nat
                        BY <2>2, <2>8
                    <6> QED BY <6>1, <4>2, <2>8
                <5>2. PICK c \in Blocks : sizeOf[c] = t /\ place[c] = j
                    BY <5>1, <3>0 DEF ListsAreWhole
                <5>3. c # b
                    BY <5>1, <5>2, <2>2
                <5> QED BY <5>2, <5>3, <2>8
            <4> QED BY <4>1, <4>2
        <3> QED BY <1>1, <3>1, <3>2, <3>3, <3>4 DEF ListsAreWhole
    <2>10. OwnedOrListed(place2)'
        <3>1. \A c \in Blocks : HasOwner(c) <=> sizeOf[c] # 0 /\ place[c] = 0
            BY DEF OwnersAndLists, ListsInv, OwnedOrListed
        <3>2. place2[b] # 0
            BY <1>0, <2>2, <2>8
        <3>3. \A c \in Blocks : HasOwner(c)' <=> sizeOf[c] # 0 /\ place2[c] = 0
            BY <3>1, <3>2, <2>6, <2>8
        <3> QED BY <1>1, <3>3 DEF OwnedOrListed
    <2>11. ReadsAreFresh(place2)'
        <3>1. \A p \in Producers : acquirePc[p] \in {"read", "exchange"}
                                      => expected[p] \in Blocks /\ place[expected[p]] # 0
            BY DEF ClassInv, BodyTypeInv, OwnersAndLists, ListsInv, ReadsAreFresh
        <3>2. \A p \in Producers : acquirePc[p] \in {"read", "exchange"}
                                      => place2[expected[p]] # 0
            BY <3>1, <2>2, <2>8
        <3> QED BY <1>1, <1>2, <3>2 DEF OwnersAndLists, ListsInv, ReadsAreFresh
    <2>12. OwnersDiffer'
        <3>1. \A p \in Producers : acquired[p] # NullBlock
            => \A body \in sent : body[1] # acquired[p]
            BY DEF OwnersAndLists, OwnersDiffer
        <3>2. \A body \in sent : body[1] \in Blocks
            BY DEF ClassInv, BodyTypeInv
        <3> QED BY <3>1, <3>2, <1>1, <2>5 DEF OwnersAndLists, OwnersDiffer
    <2>13. OwnersAndLists(place2, height2)'
        BY <2>8, <2>9, <2>10, <2>11, <2>12 DEF OwnersAndLists, ListsInv
    <2> QED BY <2>13
<1>3. CASE /\ seenHead' = heads[s] /\ releasePc' = "link"
           /\ UNCHANGED <<heads, released>>
    <2>1. ReadsAreFresh(place)'
        BY <1>1, <1>3 DEF OwnersAndLists, ListsInv, ReadsAreFresh
    <2>2. OwnersAndLists(place, height)'
        BY <1>1, <1>3, <2>1 DEF OwnersAndLists, ListsInv, ListsAreWhole, OwnedOrListed,
           HasOwner, OwnersDiffer
    <2> QED BY <2>2
<1> QED BY <1>2, <1>3 DEF ReleaseExchange

\* With one producer every step keeps the lists.
LEMMA BodyInvNext ==
    ASSUME OneProducer, BodyInv, [BodyNext]_bodyVars
    PROVE  BodyInv'
<1> PICK place, height : ListsInv(place, height)
    BY DEF BodyInv
<1>0. ClassInv /\ OwnersAndLists(place, height)
    BY DEF BodyInv, OwnersAndLists
<1>1. ClassInv'
    BY <1>0, BodyClassesNext
<1>2. \E place2, height2 : OwnersAndLists(place2, height2)'
    <2>1. CASE UNCHANGED bodyVars
        <3>1. OwnersAndLists(place, height)'
            BY <1>0, <2>1 DEF bodyVars, acquireVars, releaseVars, OwnersAndLists,
               OwnersDiffer, ListsInv, ListsAreWhole, OwnedOrListed, HasOwner,
               ReadsAreFresh
        <3> QED BY <3>1
    <2>2. ASSUME NEW p \in Producers, NEW size \in MessageSizes, AcquireLoad(p, size)
          PROVE  \E place2, height2 : OwnersAndLists(place2, height2)'
        <3>1. OwnersAndLists(place, height)'
            BY <1>0, <2>2, AcquireLoadKeepsLists
        <3> QED BY <3>1
    <2>3. ASSUME NEW p \in Producers, AcquireRead(p)
          PROVE  \E place2, height2 : OwnersAndLists(place2, height2)'
        <3>1. OwnersAndLists(place, height)'
            BY <1>0, <2>3, AcquireReadKeepsLists
        <3> QED BY <3>1
    <2>4. ASSUME NEW p \in Producers, AcquireExchange(p)
          PROVE  \E place2, height2 : OwnersAndLists(place2, height2)'
        BY <1>0, <2>4, AcquireExchangeKeepsLists
    <2>5. ASSUME NEW p \in Producers, AcquireAllocate(p)
          PROVE  \E place2, height2 : OwnersAndLists(place2, height2)'
        <3>1. OwnersAndLists(place, height)'
            BY <1>0, <2>5, AcquireAllocateKeepsLists
        <3> QED BY <3>1
    <2>6. ASSUME NEW p \in Producers, Send(p)
          PROVE  \E place2, height2 : OwnersAndLists(place2, height2)'
        <3>1. OwnersAndLists(place, height)'
            BY <1>0, <2>6, SendKeepsLists
        <3> QED BY <3>1
    <2>7. ASSUME NEW body \in sent, ReleaseLoad(body)
          PROVE  \E place2, height2 : OwnersAndLists(place2, height2)'
        <3>1. OwnersAndLists(place, height)'
            BY <1>0, <2>7, ReleaseLoadKeepsLists
        <3> QED BY <3>1
    <2>8. CASE ReleaseLink
        <3>1. OwnersAndLists(place, height)'
            BY <1>0, <2>8, ReleaseLinkKeepsLists
        <3> QED BY <3>1
    <2>9. CASE ReleaseExchange
        BY <1>0, <2>9, ReleaseExchangeKeepsLists
    <2> QED BY <2>1, <2>2, <2>3, <2>4, <2>5, <2>6, <2>7, <2>8, <2>9 DEF BodyNext
<1> QED BY <1>1, <1>2 DEF BodyInv, OwnersAndLists

\* With one producer the list of free blocks is sound: what the exchange of
\* Acquire compares is then enough, for nobody else takes blocks and the
\* consumer only puts some before the one that was read
\* (MpscMessageBodyPool.h:33-73).
THEOREM OneProducerIsSound ==
    ASSUME OneProducer
    PROVE  BodySpec => []BlocksAreSound
<1>1. BodyInit => BodyInv
    BY BodyInitLists
<1>2. BodyInv /\ [BodyNext]_bodyVars => BodyInv'
    BY BodyInvNext
<1>3. BodyInv => BlocksAreSound
    BY BodyInvIsSound
<1> QED BY <1>1, <1>2, <1>3, PTL DEF BodySpec

HIDE BodyAssumption

-----------------------------------------------------------------------------
(* IndexedUnmanagedList                                                    *)

USE NodeAssumption

\* From `head` on, the nodes of S follow one another and then the list ends;
\* `place` counts from its end, and `height` is its length.
IsList(next, head, S, place, height) ==
    /\ height \in Nat /\ place \in [S -> 1..height]
    /\ IF height = 0 THEN head = NullNode ELSE head \in S /\ place[head] = height
    /\ \A b \in S : IF place[b] = 1 THEN next[b] = NullNode
                    ELSE next[b] \in S /\ place[next[b]] = place[b] - 1
    /\ \A b, c \in S : place[b] = place[c] => b = c
    /\ \A j \in 1..height : \E b \in S : place[b] = j

\* Some places of the nodes show that it is their list.
ListOf(next, head, S) == \E place, height : IsList(next, head, S, place, height)

\* The empty list.
LEMMA ListEmpty ==
    ASSUME NEW next
    PROVE  ListOf(next, NullNode, {})
<1> DEFINE place == [b \in {} |-> 1]
<1>1. IsList(next, NullNode, {}, place, 0)
    BY DEF IsList
<1> HIDE DEF place
<1> QED BY <1>1 DEF ListOf

\* What the first node and the links of a list are.
LEMMA ListLinks ==
    ASSUME NEW next, NEW head, NEW S \in SUBSET Nat, ListOf(next, head, S)
    PROVE  /\ head \in S \cup {NullNode} /\ (head = NullNode <=> S = {})
           /\ \A b \in S : next[b] \in S \cup {NullNode} /\ next[b] # b /\ next[b] # head
           /\ \A b, c \in S : next[b] = next[c] /\ next[b] # NullNode => b = c
<1> PICK place, height : IsList(next, head, S, place, height)
    BY DEF ListOf
<1>1. height \in Nat /\ place \in [S -> 1..height]
    BY DEF IsList
<1>2. head \in S \cup {NullNode} /\ (head = NullNode <=> S = {})
    <2>1. CASE height = 0
        <3>1. S = {}
            BY <1>1, <2>1
        <3> QED BY <2>1, <3>1 DEF IsList
    <2>2. CASE height # 0
        BY <2>2 DEF IsList
    <2> QED BY <2>1, <2>2
<1>3. ASSUME NEW b \in S
      PROVE  next[b] \in S \cup {NullNode} /\ next[b] # b /\ next[b] # head
    <2>1. CASE place[b] = 1
        <3>1. next[b] = NullNode
            BY <2>1 DEF IsList
        <3> QED BY <3>1, <1>2
    <2>2. CASE place[b] # 1
        <3>1. next[b] \in S /\ place[next[b]] = place[b] - 1
            BY <2>2 DEF IsList
        <3>2. head \in S => place[head] = height
            BY <1>1 DEF IsList
        <3>3. place[b] \in Nat /\ place[b] =< height
            BY <1>1
        <3> QED BY <3>1, <3>2, <3>3, <1>1
    <2> QED BY <2>1, <2>2
<1>4. ASSUME NEW b \in S, NEW c \in S, next[b] = next[c], next[b] # NullNode
      PROVE  b = c
    <2>1. place[next[b]] = place[b] - 1 /\ place[next[c]] = place[c] - 1
        BY <1>4 DEF IsList
    <2>2. place[b] = place[c]
        BY <1>1, <1>4, <2>1
    <2> QED BY <2>2 DEF IsList
<1> QED BY <1>2, <1>3, <1>4

\* Links of other nodes are not looked at.
LEMMA ListSame ==
    ASSUME NEW next, NEW head, NEW S \in SUBSET Nat, ListOf(next, head, S),
           NEW links, \A b \in S : links[b] = next[b]
    PROVE  ListOf(links, head, S)
<1> PICK place, height : IsList(next, head, S, place, height)
    BY DEF ListOf
<1>1. IsList(links, head, S, place, height)
    BY DEF IsList
<1> QED BY <1>1 DEF ListOf

\* A node in front of the list.
LEMMA ListPush ==
    ASSUME NEW next, NEW head, NEW S \in SUBSET Nat, ListOf(next, head, S),
           NEW i \in Nat, i \notin S,
           NEW links, links[i] = head, \A b \in S : links[b] = next[b]
    PROVE  ListOf(links, i, S \cup {i})
<1> PICK place, height : IsList(next, head, S, place, height)
    BY DEF ListOf
<1>1. height \in Nat /\ place \in [S -> 1..height]
    BY DEF IsList
<1> PICK place2 : /\ place2 \in [S \cup {i} -> 1..height + 1]
                  /\ place2[i] = height + 1 /\ \A b \in S : place2[b] = place[b]
    <2> DEFINE place3 == [b \in S \cup {i} |-> IF b = i THEN height + 1 ELSE place[b]]
    <2>1. /\ place3 \in [S \cup {i} -> 1..height + 1]
          /\ place3[i] = height + 1 /\ \A b \in S : place3[b] = place[b]
        BY <1>1
    <2> HIDE DEF place3
    <2> QED BY <2>1
<1>2. ASSUME NEW b \in S \cup {i}
      PROVE  IF place2[b] = 1 THEN links[b] = NullNode
             ELSE links[b] \in S \cup {i} /\ place2[links[b]] = place2[b] - 1
    <2>1. CASE b = i
        <3>1. place2[b] = 1 <=> height = 0
            BY <1>1, <2>1
        <3>2. IF height = 0 THEN head = NullNode ELSE head \in S /\ place[head] = height
            BY DEF IsList
        <3>3. CASE height = 0
            BY <2>1, <3>1, <3>2, <3>3
        <3>4. CASE height # 0
            <4>1. links[b] \in S /\ place2[links[b]] = height
                BY <2>1, <3>2, <3>4
            <4>2. place2[b] - 1 = height
                BY <1>1, <2>1
            <4> QED BY <3>1, <3>4, <4>1, <4>2
        <3> QED BY <3>3, <3>4
    <2>2. CASE b # i
        <3>1. IF place[b] = 1 THEN next[b] = NullNode
              ELSE next[b] \in S /\ place[next[b]] = place[b] - 1
            BY <2>2 DEF IsList
        <3> QED BY <2>2, <3>1
    <2> QED BY <2>1, <2>2
<1>3. \A b \in S : place2[b] # height + 1
    BY <1>1
<1>4. \A b, c \in S \cup {i} : place2[b] = place2[c] => b = c
    BY <1>3 DEF IsList
<1>5. ASSUME NEW j \in 1..height + 1
      PROVE  \E b \in S \cup {i} : place2[b] = j
    <2>1. CASE j = height + 1
        BY <2>1
    <2>2. CASE j \in 1..height
        BY <2>2 DEF IsList
    <2> QED BY <1>1, <2>1, <2>2
<1>6. IsList(links, i, S \cup {i}, place2, height + 1)
    BY <1>1, <1>2, <1>4, <1>5 DEF IsList
<1> QED BY <1>6 DEF ListOf

\* Without one node: the one before it, if there is one, leads to the one after
\* it.
LEMMA ListRemove ==
    ASSUME NEW next, NEW head, NEW S \in SUBSET Nat, ListOf(next, head, S),
           NEW i \in S, NEW links, NEW first,
           first = IF head = i THEN next[i] ELSE head,
           \A b \in S \ {i} : links[b] = IF next[b] = i THEN next[i] ELSE next[b]
    PROVE  ListOf(links, first, S \ {i})
<1> PICK place, height : IsList(next, head, S, place, height)
    BY DEF ListOf
<1> DEFINE k == place[i]
<1>1. height \in Nat /\ place \in [S -> 1..height] /\ k \in 1..height /\ height - 1 \in Nat
    BY DEF IsList
<1>2. \A b \in S : IF place[b] = 1 THEN next[b] = NullNode
                   ELSE next[b] \in S /\ place[next[b]] = place[b] - 1
    BY DEF IsList
<1>3. \A b \in S \ {i} : place[b] # k
    BY DEF IsList
<1> HIDE DEF k
<1> PICK place2 : /\ place2 \in [S \ {i} -> 1..height - 1]
                  /\ \A b \in S \ {i} :
                        place2[b] = IF place[b] < k THEN place[b] ELSE place[b] - 1
    <2> DEFINE place3 == [b \in S \ {i} |-> IF place[b] < k THEN place[b] ELSE place[b] - 1]
    <2>1. ASSUME NEW b \in S \ {i}
          PROVE  place3[b] \in 1..height - 1
        <3>1. place[b] \in 1..height /\ place[b] # k
            BY <1>1, <1>3
        <3> QED BY <3>1, <1>1
    <2>2. place3 \in [S \ {i} -> 1..height - 1]
        BY <2>1
    <2>3. \A b \in S \ {i} : place3[b] = IF place[b] < k THEN place[b] ELSE place[b] - 1
        OBVIOUS
    <2> HIDE DEF place3
    <2> QED BY <2>2, <2>3
<1>4. ASSUME NEW b \in S \ {i}
      PROVE  IF place2[b] = 1 THEN links[b] = NullNode
             ELSE links[b] \in S \ {i} /\ place2[links[b]] = place2[b] - 1
    <2>0. place[b] \in 1..height /\ place[b] # k
        BY <1>1, <1>3
    <2>1. CASE place[b] = k + 1
        <3>1. next[b] \in S /\ place[next[b]] = k /\ place2[b] = k
            BY <1>1, <1>2, <2>0, <2>1
        <3>2. next[b] = i
            BY <1>3, <3>1
        <3>3. links[b] = next[i]
            BY <3>2
        <3>4. IF k = 1 THEN next[i] = NullNode
              ELSE next[i] \in S /\ place[next[i]] = k - 1
            BY <1>2 DEF k
        <3>5. k # 1 => next[i] # i /\ place2[next[i]] = k - 1
            <4>1. SUFFICES ASSUME k # 1 PROVE next[i] # i /\ place2[next[i]] = k - 1
                OBVIOUS
            <4>2. next[i] \in S /\ place[next[i]] = k - 1 /\ k - 1 < k
                BY <1>1, <3>4, <4>1
            <4>3. next[i] # i
                BY <1>1, <4>2 DEF k
            <4> QED BY <4>2, <4>3
        <3> QED BY <3>1, <3>3, <3>4, <3>5
    <2>2. CASE place[b] < k
        <3>1. place2[b] = place[b]
            BY <2>2
        <3>2. CASE place[b] = 1
            <4>1. next[b] = NullNode /\ NullNode # i
                BY <1>2, <3>2
            <4> QED BY <3>1, <3>2, <4>1
        <3>3. CASE place[b] # 1
            <4>1. next[b] \in S /\ place[next[b]] = place[b] - 1
                BY <1>2, <3>3
            <4>2. place[next[b]] < k /\ place[next[b]] # k
                BY <1>1, <2>0, <2>2, <4>1
            <4>3. next[b] # i
                BY <4>2 DEF k
            <4> QED BY <3>1, <3>3, <4>1, <4>2, <4>3
        <3> QED BY <3>2, <3>3
    <2>3. CASE place[b] > k + 1
        <3>1. place2[b] = place[b] - 1 /\ place[b] # 1 /\ place2[b] # 1
            BY <1>1, <2>0, <2>3
        <3>2. next[b] \in S /\ place[next[b]] = place[b] - 1
            BY <1>2, <3>1
        <3>3. ~(place[next[b]] < k) /\ place[next[b]] # k
            BY <1>1, <2>0, <2>3, <3>2
        <3>4. next[b] # i
            BY <3>3 DEF k
        <3>5. links[b] = next[b] /\ next[b] \in S \ {i}
            BY <3>2, <3>4
        <3>6. place2[next[b]] = place[next[b]] - 1
            BY <3>3, <3>5
        <3>7. place2[next[b]] = place2[b] - 1
            BY <3>1, <3>2, <3>6
        <3> QED BY <3>1, <3>5, <3>7
    <2> QED BY <1>1, <2>0, <2>1, <2>2, <2>3
<1>5. ASSUME NEW b \in S \ {i}, NEW c \in S \ {i}, place2[b] = place2[c]
      PROVE  b = c
    <2>1. place[b] \in 1..height /\ place[b] # k /\ place[c] \in 1..height /\ place[c] # k
        BY <1>1, <1>3
    <2>2. place[b] = place[c]
        BY <1>1, <1>5, <2>1
    <2> QED BY <2>2 DEF IsList
<1>6. ASSUME NEW j \in 1..height - 1
      PROVE  \E b \in S \ {i} : place2[b] = j
    <2>1. CASE j < k
        <3>1. PICK b \in S : place[b] = j
            BY <1>1 DEF IsList
        <3> QED BY <1>1, <2>1, <3>1 DEF k
    <2>2. CASE ~(j < k)
        <3>1. j + 1 \in 1..height
            BY <1>1
        <3>2. PICK b \in S : place[b] = j + 1
            BY <3>1 DEF IsList
        <3>3. ~(place[b] < k) /\ place[b] # k /\ place[b] - 1 = j
            BY <1>1, <2>2, <3>2
        <3>4. b # i
            BY <3>3 DEF k
        <3> QED BY <3>3, <3>4
    <2> QED BY <2>1, <2>2
<1>7. IF height - 1 = 0 THEN first = NullNode
      ELSE first \in S \ {i} /\ place2[first] = height - 1
    <2>0. head \in S /\ place[head] = height
        BY <1>1 DEF IsList
    <2>1. CASE head = i
        <3>1. k = height /\ first = next[i]
            BY <2>0, <2>1 DEF k
        <3>2. IF height = 1 THEN next[i] = NullNode
              ELSE next[i] \in S /\ place[next[i]] = height - 1
            BY <1>2, <3>1 DEF k
        <3>3. height # 1 => place[next[i]] < k /\ next[i] # i
            <4>1. SUFFICES ASSUME height # 1 PROVE place[next[i]] < k /\ next[i] # i
                OBVIOUS
            <4>2. place[next[i]] < k /\ place[next[i]] # k
                BY <1>1, <3>1, <3>2, <4>1
            <4> QED BY <4>2 DEF k
        <3>4. CASE height = 1
            BY <3>1, <3>2, <3>4
        <3>5. CASE height # 1
            <4>1. next[i] \in S \ {i} /\ place2[next[i]] = height - 1
                BY <3>2, <3>3, <3>5
            <4> QED BY <1>1, <3>1, <3>5, <4>1
        <3> QED BY <3>4, <3>5
    <2>2. CASE head # i
        <3>1. place[head] # k
            BY <1>3, <2>0, <2>2
        <3>2. k < height
            BY <1>1, <2>0, <3>1
        <3> QED BY <1>1, <2>0, <2>2, <3>2
    <2> QED BY <2>1, <2>2
<1>8. IsList(links, first, S \ {i}, place2, height - 1)
    BY <1>1, <1>4, <1>5, <1>6, <1>7 DEF IsList
<1> QED BY <1>8 DEF ListOf

\* Following Next from the head meets every node of the list, and ends after as
\* many steps as there are nodes (IndexedUnmanagedList.h:34-60).
LEMMA ListVisits ==
    ASSUME NEW list, NEW head, NEW S \in SUBSET Nat, IsFiniteSet(S),
           ListOf(list.next, head, S)
    PROVE  Visits(list, head, S)
<1> PICK place, h : IsList(list.next, head, S, place, h)
    BY DEF ListOf
<1> DEFINE N == Cardinality(S)
           next == list.next
           At(j) == CHOOSE b \in S : place[b] = j
           Follows(g) == g = [k \in 0..N |->
                               IF k = 0 THEN head
                               ELSE IF g[k - 1] = NullNode THEN NullNode
                               ELSE next[g[k - 1]]]
           f == [k \in 0..N |-> IF k < h THEN At(h - k) ELSE NullNode]
           chain == CHOOSE g : Follows(g)
<1>0. h \in Nat /\ place \in [S -> 1..h]
    BY DEF IsList
<1>1. \A j \in 1..h : At(j) \in S /\ place[At(j)] = j
    BY DEF IsList
<1>2. \A b \in S : place[b] \in 1..h /\ b = At(place[b])
    <2> SUFFICES ASSUME NEW b \in S PROVE place[b] \in 1..h /\ b = At(place[b])
        OBVIOUS
    <2>1. place[b] \in 1..h
        BY <1>0
    <2> QED BY <2>1, <1>1 DEF IsList
<1>3. IF h = 0 THEN head = NullNode ELSE head = At(h)
    <2>1. CASE h = 0
        BY <2>1 DEF IsList
    <2>2. CASE h # 0
        <3>1. head \in S /\ place[head] = h
            BY <2>2 DEF IsList
        <3> HIDE DEF At
        <3> QED BY <2>2, <3>1, <1>2
    <2> QED BY <2>1, <2>2
<1>4. \A j \in 1..h : next[At(j)] = IF j = 1 THEN NullNode ELSE At(j - 1)
    <2> SUFFICES ASSUME NEW j \in 1..h
                 PROVE  next[At(j)] = IF j = 1 THEN NullNode ELSE At(j - 1)
        OBVIOUS
    <2> DEFINE b == At(j)
    <2>0. b \in S /\ place[b] = j
        BY <1>1
    <2> HIDE DEF At, b
    <2>1. IF j = 1 THEN next[b] = NullNode
          ELSE next[b] \in S /\ place[next[b]] = j - 1
        BY <2>0 DEF IsList
    <2>2. CASE j = 1
        BY <2>1, <2>2 DEF b
    <2>3. CASE j # 1
        <3>1. next[b] = At(place[next[b]])
            BY <2>1, <2>3, <1>2
        <3> QED BY <3>1, <2>1, <2>3 DEF b
    <2> QED BY <2>2, <2>3
<1> HIDE DEF At
<1>5. N \in Nat /\ h =< N
    <2> DEFINE a == [j \in 1..h |-> At(j)]
    <2>1. a \in [1..h -> S]
        BY <1>1
    <2>2. a \in Injection(1..h, S)
        <3>1. \A j \in 1..h : place[a[j]] = j
            BY <1>1
        <3> HIDE DEF a
        <3> QED BY <2>1, <3>1 DEF Injection, IsInjective
    <2>3. Cardinality(1..h) =< N
        <3> HIDE DEF a
        <3> QED BY <2>2, FS_Injection
    <2>4. Cardinality(1..h) = h
        BY <1>0, FS_Interval
    <2> QED BY <2>3, <2>4, FS_CardinalityType
<1>6. NullNode \notin S
    OBVIOUS
<1>7. Follows(f)
    <2> SUFFICES ASSUME NEW k \in 0..N
                 PROVE  f[k] = IF k = 0 THEN head
                               ELSE IF f[k - 1] = NullNode THEN NullNode
                               ELSE next[f[k - 1]]
        BY Zenon
    <2>1. CASE k = 0
        BY <2>1, <1>0, <1>3
    <2>2. CASE k # 0 /\ k - 1 < h
        <3>0. k - 1 \in 0..N /\ h - (k - 1) \in 1..h /\ h - (k - 1) - 1 = h - k
            BY <2>2, <1>0, <1>5
        <3>1. f[k - 1] = At(h - (k - 1))
            BY <2>2, <3>0
        <3>2. f[k - 1] # NullNode
            <4>1. At(h - (k - 1)) \in S
                BY <3>0, <1>1
            <4> QED BY <3>1, <4>1, <1>6
        <3>3. next[f[k - 1]] = IF h - (k - 1) = 1 THEN NullNode ELSE At(h - k)
            BY <3>0, <3>1, <1>4
        <3>4. h - (k - 1) = 1 <=> ~(k < h)
            BY <2>2, <1>0, <1>5
        <3> QED BY <3>2, <3>3, <3>4, <2>2
    <2>3. CASE k # 0 /\ ~(k - 1 < h)
        <3>1. k - 1 \in 0..N /\ ~(k < h)
            BY <2>3, <1>0, <1>5
        <3> QED BY <3>1, <2>3
    <2> QED BY <2>1, <2>2, <2>3
<1>8. Follows(chain)
    <2> HIDE DEF Follows
    <2> QED BY <1>7
<1>9. chain = f
    <2> DEFINE T == {k \in 0..N : chain[k] # f[k]}
    <2> HIDE DEF chain
    <2>1. T = {}
        <3> SUFFICES ASSUME T # {} PROVE FALSE
            OBVIOUS
        <3>1. T \in SUBSET Nat
            BY <1>5
        <3>2. PICK k \in T : \A j \in T : k =< j
            <4> HIDE DEF T
            <4> QED BY <3>1, LeastNumber
        <3>3. k \in 0..N /\ chain[k] # f[k]
            OBVIOUS
        <3>4. k # 0 => k - 1 \in 0..N /\ chain[k - 1] = f[k - 1]
            BY <3>2, <3>3, <1>5
        <3>5. /\ chain[k] = IF k = 0 THEN head
                           ELSE IF chain[k - 1] = NullNode THEN NullNode
                           ELSE next[chain[k - 1]]
              /\ f[k] = IF k = 0 THEN head
                           ELSE IF f[k - 1] = NullNode THEN NullNode
                           ELSE next[f[k - 1]]
            <4> HIDE DEF f
            <4> QED BY <3>3, <1>7, <1>8
        <3> HIDE DEF f
        <3> QED BY <3>3, <3>4, <3>5
    <2>2. chain = [k \in 0..N |-> chain[k]]
        BY <1>8, Zenon
    <2>3. \A k \in 0..N : chain[k] = f[k]
        <3> HIDE DEF f
        <3> QED BY <2>1
    <2> QED BY <2>2, <2>3
<1>10. Chain(list, head, N) = f
    <2>1. Chain(list, head, N) = chain
        BY DEF Chain
    <2> QED BY <2>1, <1>9
<1>11. f[N] = NullNode
    BY <1>5, <1>0
<1>12. ASSUME NEW b \in {f[k] : k \in 0..N} \ {NullNode}
       PROVE  b \in S
    <2>1. PICK k \in 0..N : b = f[k]
        OBVIOUS
    <2>2. k < h /\ b = At(h - k) /\ h - k \in 1..h
        BY <2>1, <1>0, <1>5
    <2> QED BY <2>2, <1>1
<1>13. ASSUME NEW b \in S
       PROVE  b \in {f[k] : k \in 0..N} \ {NullNode}
    <2>1. place[b] \in 1..h /\ b = At(place[b])
        BY <1>2
    <2>2. h - place[b] \in 0..N /\ h - place[b] < h /\ h - (h - place[b]) = place[b]
        BY <2>1, <1>0, <1>5
    <2>3. f[h - place[b]] = b
        BY <2>1, <2>2
    <2>4. b # NullNode
        BY <1>6
    <2> HIDE DEF f
    <2> QED BY <2>2, <2>3, <2>4
<1> HIDE DEF f
<1> QED BY <1>10, <1>11, <1>12, <1>13 DEF Visits

-----------------------------------------------------------------------------
(* The operations on the nodes.                                            *)

Link(n) == 0..n - 1 \cup {NullNode}

\* A list of n nodes.
NodeTypes(l, n) ==
    /\ n \in Nat
    /\ l \in [next : [0..n - 1 -> Link(n)], prev : [0..n - 1 -> Link(n)],
              allocated : [0..n - 1 -> BOOLEAN], free : Link(n), used : Link(n)]

\* Both lists are whole, and the Prev of a node in use is the node before it.
\* Those of free nodes may be stale.
ListsAreLinked(l) ==
    /\ ListOf(l.next, l.used, Allocated(l))
    /\ ListOf(l.next, l.free, Nodes(l) \ Allocated(l))
    /\ \A b \in Allocated(l) :
          IF b = l.used THEN l.prev[b] = NullNode
          ELSE l.prev[b] \in Allocated(l) /\ l.next[l.prev[b]] = b

\* Which nodes there are, and that they are finitely many.
LEMMA NodesOfTypes ==
    ASSUME NEW l, NEW n, NodeTypes(l, n)
    PROVE  /\ Nodes(l) = 0..n - 1 /\ Allocated(l) \subseteq Nodes(l)
           /\ Cardinality(Nodes(l)) = n
           /\ IsFiniteSet(Nodes(l)) /\ IsFiniteSet(Allocated(l))
           /\ Nodes(l) \subseteq Nat
<1>1. Nodes(l) = 0..n - 1 /\ n \in Nat
    BY DEF NodeTypes, Nodes
<1>2. Cardinality(0..n - 1) = n /\ IsFiniteSet(0..n - 1)
    BY <1>1, FS_Interval
<1>3. Allocated(l) \subseteq Nodes(l)
    BY DEF Allocated
<1> QED BY <1>1, <1>2, <1>3, FS_Subset

\* The empty lists of a new pool (IndexedUnmanagedList.h:116-122).
LEMMA EmptyListIsLinked ==
    /\ NodeTypes(EmptyList, 0) /\ ListsAreLinked(EmptyList)
    /\ Allocated(EmptyList) = {}
<1>1. <<>> \in [{} -> Link(0)] /\ <<>> \in [{} -> BOOLEAN] /\ DOMAIN <<>> = {}
    OBVIOUS
<1>2. 0..0 - 1 = {}
    OBVIOUS
<1>3. NodeTypes(EmptyList, 0)
    BY <1>1, <1>2 DEF NodeTypes, EmptyList, Link
<1>4. Nodes(EmptyList) = {} /\ Allocated(EmptyList) = {}
    BY DEF EmptyList, Nodes, Allocated
<1>5. ListOf(EmptyList.next, NullNode, {})
    BY ListEmpty
<1>6. EmptyList.used = NullNode /\ EmptyList.free = NullNode
    BY DEF EmptyList
<1> QED BY <1>3, <1>4, <1>5, <1>6 DEF ListsAreLinked

\* A page of nodes that are not allocated, in front of the free list
\* (IndexedUnmanagedList.h:131-163).
LEMMA PageIsAdded ==
    ASSUME NEW l, NEW n, NodeTypes(l, n), NEW rest \in Link(n)
    PROVE  LET m == ExtendPage(l, rest)
               last == n + NodesPerPage - 1
           IN /\ NodeTypes(m, n + NodesPerPage) /\ Allocated(m) = Allocated(l)
              /\ m.free = n /\ m.used = l.used
              /\ \A i \in 0..n - 1 : m.next[i] = l.next[i]
              /\ \A i \in n..last : m.next[i] = IF i = last THEN rest ELSE i + 1
              /\ \A i \in 0..n - 1 : i # rest => m.prev[i] = l.prev[i]
<1> DEFINE m == ExtendPage(l, rest)
           last == n + NodesPerPage - 1
           NextOf(i) == IF i = last THEN rest ELSE i + 1
           PrevOf(i) == IF i = n THEN NullNode ELSE i - 1
           prev == [i \in 0..last |-> IF i < n THEN l.prev[i] ELSE PrevOf(i)]
<1>0. Cardinality(Nodes(l)) = n /\ n \in Nat /\ last \in Nat /\ n =< last
      /\ n + NodesPerPage \in Nat /\ n + NodesPerPage - 1 = last
    BY NodesOfTypes DEF NodeTypes
<1>1. m = [l EXCEPT !.next = [i \in 0..last |-> IF i < n THEN l.next[i] ELSE NextOf(i)],
                    !.prev = SetLink(prev, rest, last),
                    !.allocated = [i \in 0..last |-> IF i < n THEN l.allocated[i] ELSE FALSE],
                    !.free = n]
    BY <1>0 DEF ExtendPage
<1> HIDE DEF m
<1>2. /\ m.next = [i \in 0..last |-> IF i < n THEN l.next[i] ELSE NextOf(i)]
      /\ m.prev = SetLink(prev, rest, last)
      /\ m.allocated = [i \in 0..last |-> IF i < n THEN l.allocated[i] ELSE FALSE]
      /\ m.free = n /\ m.used = l.used
      /\ m = [next |-> m.next, prev |-> m.prev, allocated |-> m.allocated,
              free |-> m.free, used |-> m.used]
    BY <1>1 DEF NodeTypes
<1>3. m.next \in [0..last -> Link(n + NodesPerPage)]
    <2>1. \A i \in 0..n - 1 : l.next[i] \in Link(n + NodesPerPage)
        BY <1>0 DEF NodeTypes, Link
    <2>2. \A i \in n..last : NextOf(i) \in Link(n + NodesPerPage)
        BY <1>0 DEF Link
    <2> QED BY <1>0, <1>2, <2>1, <2>2
<1>4. prev \in [0..last -> Link(n + NodesPerPage)]
    <2>1. \A i \in 0..n - 1 : l.prev[i] \in Link(n + NodesPerPage)
        BY <1>0 DEF NodeTypes, Link
    <2>2. \A i \in n..last : PrevOf(i) \in Link(n + NodesPerPage)
        BY <1>0 DEF Link
    <2> QED BY <1>0, <2>1, <2>2
<1>5. m.prev \in [0..last -> Link(n + NodesPerPage)]
      /\ \A i \in 0..n - 1 : i # rest => m.prev[i] = l.prev[i]
    <2>1. \A i \in 0..n - 1 : prev[i] = l.prev[i] /\ i \in 0..last
        BY <1>0
    <2> HIDE DEF prev
    <2>2. last \in Link(n + NodesPerPage)
        BY <1>0 DEF Link
    <2> QED BY <1>2, <1>4, <2>1, <2>2 DEF SetLink
<1>6. m.allocated \in [0..last -> BOOLEAN]
    <2>1. \A i \in 0..n - 1 : l.allocated[i] \in BOOLEAN
        BY DEF NodeTypes
    <2>2. ASSUME NEW i \in 0..last
          PROVE  (IF i < n THEN l.allocated[i] ELSE FALSE) \in BOOLEAN
        <3>1. i < n => i \in 0..n - 1
            BY <1>0
        <3> QED BY <2>1, <3>1, Zenon
    <2>3. m.allocated = [i \in 0..last |-> IF i < n THEN l.allocated[i] ELSE FALSE]
        BY <1>2
    <2> QED BY <2>2, <2>3, Zenon
<1>7. m.free \in Link(n + NodesPerPage) /\ m.used \in Link(n + NodesPerPage)
    BY <1>0, <1>2 DEF NodeTypes, Link
<1>8. NodeTypes(m, n + NodesPerPage)
    <2>1. m \in [next : [0..last -> Link(n + NodesPerPage)],
                 prev : [0..last -> Link(n + NodesPerPage)],
                 allocated : [0..last -> BOOLEAN],
                 free : Link(n + NodesPerPage), used : Link(n + NodesPerPage)]
        BY <1>2, <1>3, <1>5, <1>6, <1>7
    <2> QED BY <1>0, <2>1 DEF NodeTypes
<1>9. Allocated(m) = Allocated(l)
    <2>1. Nodes(m) = 0..last /\ Nodes(l) = 0..n - 1
        BY <1>0, <1>8, NodesOfTypes
    <2>2. \A i \in 0..last : m.allocated[i] <=> i \in 0..n - 1 /\ l.allocated[i]
        BY <1>0, <1>2
    <2> QED BY <1>0, <2>1, <2>2 DEF Allocated
<1>10. \A i \in 0..n - 1 : m.next[i] = l.next[i]
    BY <1>0, <1>2
<1>11. \A i \in n..last : m.next[i] = NextOf(i)
    BY <1>0, <1>2
<1> QED BY <1>0, <1>2, <1>5, <1>8, <1>9, <1>10, <1>11 DEF m

\* Create finds a free node, on a new page if it must
\* (IndexedUnmanagedList.h:131-166).
LEMMA FreeNodeIsThere ==
    ASSUME NEW l, NEW n, NodeTypes(l, n), ListsAreLinked(l)
    PROVE  LET m == WithFreeNode(l)
           IN /\ \E k : NodeTypes(m, k)
              /\ ListsAreLinked(m) /\ Allocated(m) = Allocated(l)
              /\ m.free \in Nodes(m) \ Allocated(m)
<1>0. /\ Nodes(l) = 0..n - 1 /\ Allocated(l) \subseteq Nodes(l) /\ n \in Nat
      /\ Nodes(l) \subseteq Nat
    BY NodesOfTypes DEF NodeTypes
<1>1. /\ l.free \in (Nodes(l) \ Allocated(l)) \cup {NullNode}
      /\ l.free = NullNode <=> Nodes(l) \ Allocated(l) = {}
    <2>1. Nodes(l) \ Allocated(l) \in SUBSET Nat
        BY <1>0
    <2> QED BY <2>1, ListLinks DEF ListsAreLinked
<1>2. CASE l.free # NullNode
    BY <1>1, <1>2 DEF WithFreeNode
<1>3. CASE l.free = NullNode
    <2> DEFINE m == ExtendPage(l, NullNode)
               last == n + NodesPerPage - 1
    <2>1. NullNode \in Link(n) /\ n =< last /\ last \in Nat
        BY <1>0 DEF Link
    <2>2. /\ NodeTypes(m, n + NodesPerPage) /\ Allocated(m) = Allocated(l)
          /\ m.free = n /\ m.used = l.used
          /\ \A i \in 0..n - 1 : m.next[i] = l.next[i]
          /\ \A i \in n..last : m.next[i] = IF i = last THEN NullNode ELSE i + 1
          /\ \A i \in 0..n - 1 : i # NullNode => m.prev[i] = l.prev[i]
        BY <2>1, PageIsAdded
    <2>3. WithFreeNode(l) = m
        BY <1>3 DEF WithFreeNode
    <2> HIDE DEF m
    <2>4. Nodes(m) = 0..last
        <3>1. (n + NodesPerPage) - 1 = last
            BY <1>0
        <3>2. Nodes(m) = 0..(n + NodesPerPage) - 1
            BY <2>2, NodesOfTypes
        <3> QED BY <3>1, <3>2
    <2>5. Allocated(l) = 0..n - 1
        BY <1>0, <1>1, <1>3
    <2>6. Nodes(m) \ Allocated(m) = n..last
        BY <1>0, <2>1, <2>2, <2>4, <2>5
    <2>7. ListOf(m.next, m.free, n..last)
        <3> DEFINE place == [i \in n..last |-> last - i + 1]
                   h == last - n + 1
        <3>1. h \in Nat /\ h # 0 /\ place \in [n..last -> 1..h]
            BY <1>0, <2>1
        <3>2. n \in n..last /\ place[n] = h
            BY <1>0, <2>1
        <3>3. ASSUME NEW b \in n..last
              PROVE  IF place[b] = 1 THEN m.next[b] = NullNode
                     ELSE m.next[b] \in n..last /\ place[m.next[b]] = place[b] - 1
            <4>1. place[b] = 1 <=> b = last
                BY <1>0, <2>1
            <4>2. b # last => b + 1 \in n..last /\ place[b + 1] = place[b] - 1
                BY <1>0, <2>1
            <4> HIDE DEF place
            <4> QED BY <4>1, <4>2, <2>2
        <3>4. \A b, c \in n..last : place[b] = place[c] => b = c
            BY <1>0, <2>1
        <3>5. ASSUME NEW j \in 1..h
              PROVE  \E b \in n..last : place[b] = j
            <4>1. last - j + 1 \in n..last /\ place[last - j + 1] = j
                BY <1>0, <2>1
            <4> QED BY <4>1
        <3> HIDE DEF place, h
        <3>6. IsList(m.next, m.free, n..last, place, h)
            BY <2>2, <3>1, <3>2, <3>3, <3>4, <3>5 DEF IsList
        <3> QED BY <3>6 DEF ListOf
    <2>8. ListOf(m.next, m.used, Allocated(m))
        <3>1. Allocated(l) \in SUBSET Nat
            BY <1>0
        <3>2. ListOf(l.next, l.used, Allocated(l))
            BY DEF ListsAreLinked
        <3>3. \A b \in Allocated(l) : m.next[b] = l.next[b]
            BY <2>2, <2>5
        <3>4. ListOf(m.next, l.used, Allocated(l))
            BY <3>1, <3>2, <3>3, ListSame
        <3> QED BY <2>2, <3>4
    <2>9. ASSUME NEW b \in Allocated(m)
          PROVE  IF b = m.used THEN m.prev[b] = NullNode
                 ELSE m.prev[b] \in Allocated(m) /\ m.next[m.prev[b]] = b
        <3>1. b \in 0..n - 1 /\ b # NullNode /\ b \in Allocated(l)
            BY <2>2, <2>5
        <3>2. m.prev[b] = l.prev[b]
            BY <2>2, <3>1
        <3>3. IF b = l.used THEN l.prev[b] = NullNode
              ELSE l.prev[b] \in Allocated(l) /\ l.next[l.prev[b]] = b
            BY <3>1 DEF ListsAreLinked
        <3> QED BY <2>2, <2>5, <3>2, <3>3
    <2>10. m.free \in Nodes(m) \ Allocated(m)
        BY <1>0, <2>1, <2>2, <2>6
    <2> QED BY <2>2, <2>3, <2>6, <2>7, <2>8, <2>9, <2>10 DEF ListsAreLinked
<1> QED BY <1>2, <1>3

\* Create takes the first free node, and it becomes the first that is in use
\* (IndexedUnmanagedList.h:124-166).
LEMMA CreateIsLinked ==
    ASSUME NEW l, NEW n, NodeTypes(l, n), ListsAreLinked(l)
    PROVE  /\ \E k : NodeTypes(Create(l), k)
           /\ ListsAreLinked(Create(l))
           /\ CreatedIndex(l) \notin Allocated(l)
           /\ Allocated(Create(l)) = Allocated(l) \cup {CreatedIndex(l)}
<1> DEFINE m == WithFreeNode(l)
           node == m.free
           free == m.next[node]
           c == Create(l)
<1> PICK k : NodeTypes(m, k)
    BY FreeNodeIsThere
<1>0. /\ ListsAreLinked(m) /\ Allocated(m) = Allocated(l)
      /\ node \in Nodes(m) \ Allocated(m) /\ CreatedIndex(l) = node
    BY FreeNodeIsThere DEF CreatedIndex
<1> HIDE DEF m
<1>1. /\ Nodes(m) = 0..k - 1 /\ Allocated(m) \subseteq Nodes(m) /\ k \in Nat
      /\ Nodes(m) \subseteq Nat
    BY NodesOfTypes DEF NodeTypes
<1>2. c = [next |-> [m.next EXCEPT ![node] = m.used],
           prev |-> SetLink([SetLink(m.prev, free, NullNode)
                                EXCEPT ![node] = NullNode], m.used, node),
           allocated |-> [m.allocated EXCEPT ![node] = TRUE],
           free |-> free, used |-> node]
    BY DEF Create, m
<1> DEFINE used == Allocated(m)
           unused == Nodes(m) \ Allocated(m)
<1>3. ListOf(m.next, m.used, used) /\ ListOf(m.next, node, unused)
      /\ used \in SUBSET Nat /\ unused \in SUBSET Nat
    BY <1>0, <1>1 DEF ListsAreLinked
<1>4. free \in (unused \ {node}) \cup {NullNode} /\ \A b \in unused : m.next[b] # node
    BY <1>0, <1>3, ListLinks
<1>5. m.used \in used \cup {NullNode}
    BY <1>3, ListLinks
<1>6. node \in 0..k - 1 /\ node \in Nat /\ node # NullNode /\ node \in unused
    BY <1>0, <1>1
<1> HIDE DEF c, node, free
<1>7. NodeTypes(c, k)
    <2>1. c.next \in [0..k - 1 -> Link(k)]
        BY <1>2, <1>6 DEF NodeTypes
    <2>2. c.prev \in [0..k - 1 -> Link(k)]
        BY <1>2, <1>6 DEF NodeTypes, SetLink, Link
    <2>3. c.allocated \in [0..k - 1 -> BOOLEAN]
        BY <1>2, <1>6 DEF NodeTypes
    <2>4. free \in Link(k) /\ node \in Link(k)
        BY <1>1, <1>4, <1>6 DEF Link
    <2>5. c = [next |-> c.next, prev |-> c.prev, allocated |-> c.allocated,
               free |-> free, used |-> node]
        BY <1>2
    <2> QED BY <1>1, <2>1, <2>2, <2>3, <2>4, <2>5 DEF NodeTypes
<1>8. Nodes(c) = Nodes(m) /\ Allocated(c) = used \cup {node}
    <2>1. Nodes(c) = 0..k - 1
        BY <1>7, NodesOfTypes
    <2>2. \A b \in 0..k - 1 : c.allocated[b] <=> b = node \/ m.allocated[b]
        BY <1>2, <1>6 DEF NodeTypes
    <2> QED BY <1>1, <1>6, <2>1, <2>2 DEF Allocated
<1>9. /\ c.next[node] = m.used /\ c.used = node /\ c.free = free
      /\ \A b \in Nodes(m) \ {node} : c.next[b] = m.next[b]
    BY <1>1, <1>2, <1>6 DEF NodeTypes
<1>10. ListOf(c.next, c.used, Allocated(c))
    <2>1. node \notin used /\ \A b \in used : c.next[b] = m.next[b]
        BY <1>0, <1>1, <1>9 DEF node
    <2>2. ListOf(c.next, node, used \cup {node})
        BY <1>3, <1>6, <1>9, <2>1, ListPush
    <2> QED BY <1>8, <1>9, <2>2
<1>11. ListOf(c.next, c.free, Nodes(c) \ Allocated(c))
    <2>1. free = IF node = node THEN m.next[node] ELSE node
        BY DEF free
    <2>2. \A b \in unused \ {node} : c.next[b] = IF m.next[b] = node THEN m.next[node] ELSE m.next[b]
        BY <1>4, <1>9
    <2>3. ListOf(c.next, free, unused \ {node})
        <3> HIDE DEF unused
        <3> QED BY <1>3, <1>6, <2>1, <2>2, ListRemove
    <2>4. Nodes(c) \ Allocated(c) = unused \ {node}
        BY <1>8
    <2> QED BY <1>9, <2>3, <2>4
<1>12. ASSUME NEW b \in Allocated(c)
       PROVE  IF b = c.used THEN c.prev[b] = NullNode
              ELSE c.prev[b] \in Allocated(c) /\ c.next[c.prev[b]] = b
    <2>1. /\ c.prev[node] = NullNode
          /\ m.used # NullNode => c.prev[m.used] = node
          /\ \A d \in used : d # m.used => c.prev[d] = m.prev[d]
        <3>1. m.prev \in [0..k - 1 -> Link(k)] /\ used \subseteq 0..k - 1
            BY <1>1 DEF NodeTypes
        <3>2. node \notin used /\ free \notin used
            BY <1>1, <1>4, <1>6
        <3>3. c.prev = SetLink([SetLink(m.prev, free, NullNode)
                                EXCEPT ![node] = NullNode], m.used, node)
            BY <1>2
        <3> HIDE DEF used
        <3>4. free \in 0..k - 1 \cup {NullNode}
            BY <1>1, <1>4
        <3> DEFINE p == SetLink(m.prev, free, NullNode)
                   q == [p EXCEPT ![node] = NullNode]
        <3>5. DOMAIN p = 0..k - 1 /\ \A d \in used : p[d] = m.prev[d]
            BY <3>1, <3>2, <3>4 DEF SetLink
        <3> HIDE DEF p
        <3>6. DOMAIN q = 0..k - 1 /\ q[node] = NullNode /\ \A d \in used : q[d] = m.prev[d]
            BY <1>6, <3>1, <3>2, <3>5
        <3>7. c.prev = SetLink(q, m.used, node)
            BY <3>3 DEF p
        <3> HIDE DEF q
        <3> QED BY <1>5, <1>6, <3>1, <3>2, <3>6, <3>7 DEF SetLink
    <2>2. CASE b = node
        BY <1>9, <2>1, <2>2
    <2>3. CASE b # node
        <3>1. b \in used
            BY <1>8, <2>3
        <3>2. CASE b = m.used
            <4>1. m.used # NullNode
                BY <1>3, <3>1, <3>2
            <4>2. c.prev[b] = node /\ c.next[node] = b
                BY <1>9, <2>1, <3>2, <4>1
            <4> QED BY <1>8, <1>9, <2>3, <4>2
        <3>3. CASE b # m.used
            <4>1. c.prev[b] = m.prev[b]
                BY <2>1, <3>1, <3>3
            <4>2. m.prev[b] \in used /\ m.next[m.prev[b]] = b
                BY <1>0, <3>1, <3>3 DEF ListsAreLinked
            <4>3. m.prev[b] \in Nodes(m) \ {node}
                BY <1>1, <1>6, <4>2
            <4> QED BY <1>8, <1>9, <2>3, <4>1, <4>2, <4>3
        <3> QED BY <3>2, <3>3
    <2> QED BY <2>2, <2>3
<1>13. ListsAreLinked(c)
    BY <1>10, <1>11, <1>12 DEF ListsAreLinked
<1> QED BY <1>0, <1>7, <1>8, <1>13 DEF c, node

\* A node that changes its list keeps links in the range, and only its own flag
\* changes (IndexedUnmanagedList.h:168-256).
LEMMA MoveKeepsTypes ==
    ASSUME NEW l, NEW n, NodeTypes(l, n), NEW i \in 0..n - 1,
           NEW from \in {"free", "used"}, NEW to \in {"free", "used"}, from # to,
           NEW allocated \in BOOLEAN
    PROVE  LET m == Move(l, i, from, to, allocated)
           IN NodeTypes(m, n) /\ m.allocated = [l.allocated EXCEPT ![i] = allocated]
<1> DEFINE m == Move(l, i, from, to, allocated)
<1>1. m.next \in [0..n - 1 -> Link(n)] /\ m.prev \in [0..n - 1 -> Link(n)]
    BY DEF Move, NodeTypes, SetLink, Link
<1>2. m.allocated = [l.allocated EXCEPT ![i] = allocated]
    BY DEF Move, NodeTypes
<1>3. m.free \in Link(n) /\ m.used \in Link(n)
    BY DEF Move, NodeTypes, Link
<1>4. m = [x \in {"next", "prev", "allocated", "free", "used"} |-> m[x]]
    BY DEF Move, NodeTypes
<1>5. l.allocated \in [0..n - 1 -> BOOLEAN] /\ n \in Nat
    BY DEF NodeTypes
<1> HIDE DEF m
<1>6. m.allocated \in [0..n - 1 -> BOOLEAN]
    BY <1>2, <1>5
<1>7. NodeTypes(m, n)
    BY <1>1, <1>3, <1>4, <1>5, <1>6 DEF NodeTypes
<1> QED BY <1>2, <1>7 DEF m

\* Erase of a node that is allocated (IndexedUnmanagedList.h:218-256).
LEMMA EraseKeepsTypes ==
    ASSUME NEW l, NEW n, NodeTypes(l, n), NEW i, Get(l, i)
    PROVE  /\ Erase(l, i) = Move(l, i, "used", "free", FALSE)
           /\ NodeTypes(Erase(l, i), n)
           /\ i \in Allocated(l) /\ Allocated(Erase(l, i)) = Allocated(l) \ {i}
<1> DEFINE m == Move(l, i, "used", "free", FALSE)
<1>1. i \in 0..n - 1 /\ i \in Allocated(l) /\ Nodes(l) = 0..n - 1
    BY NodesOfTypes DEF Get, Allocated, Nodes
<1>2. Erase(l, i) = m
    BY DEF Erase
<1>3. NodeTypes(m, n) /\ m.allocated = [l.allocated EXCEPT ![i] = FALSE]
    <2>1. "used" # "free" /\ FALSE \in BOOLEAN
        OBVIOUS
    <2> QED BY <1>1, <2>1, MoveKeepsTypes
<1> HIDE DEF m
<1>4. Nodes(m) = 0..n - 1
    BY <1>3, NodesOfTypes
<1>5. Allocated(m) = Allocated(l) \ {i}
    <2>1. l.allocated \in [0..n - 1 -> BOOLEAN]
        BY DEF NodeTypes
    <2> QED BY <1>1, <1>3, <1>4, <2>1 DEF Allocated
<1> QED BY <1>1, <1>2, <1>3, <1>5 DEF m

\* Pages are added until the node is there.
LEMMA NamedNodeIsThere ==
    ASSUME NEW l, NEW n, NodeTypes(l, n), NEW i \in Nat
    PROVE  \E k : /\ NodeTypes(WithNode(l, i), k) /\ i \in 0..k - 1
                  /\ Allocated(WithNode(l, i)) = Allocated(l)
<1> DEFINE Grow(m) == IF i \in Nodes(m) THEN m ELSE ExtendPage(m, m.free)
           Grows(g, p) == g = [q \in 0..p |-> IF q = 0 THEN l ELSE Grow(g[q - 1])]
           Has(p) == \E g : Grows(g, p)
           grown == CHOOSE g : Grows(g, i + 1)
<1>1. Has(0)
    <2> DEFINE g == [q \in 0..0 |-> l]
    <2>1. g = [q \in 0..0 |-> IF q = 0 THEN l ELSE Grow(g[q - 1])]
        <3>1. \A q \in 0..0 : q = 0
            OBVIOUS
        <3> HIDE DEF Grow
        <3> QED BY <3>1
    <2> HIDE DEF g, Grow
    <2> QED BY <2>1
<1>2. ASSUME NEW p \in Nat, Has(p)
      PROVE  Has(p + 1)
    <2> HIDE DEF Grow
    <2> PICK g : Grows(g, p)
        BY <1>2
    <2> DEFINE f == [q \in 0..p + 1 |-> IF q = p + 1 THEN Grow(g[p]) ELSE g[q]]
    <2>1. ASSUME NEW q \in 0..p + 1
          PROVE  f[q] = IF q = 0 THEN l ELSE Grow(f[q - 1])
        <3>1. CASE q = p + 1
            <4>1. q - 1 = p /\ p \in 0..p + 1 /\ p # p + 1 /\ q # 0
                BY <3>1
            <4>2. f[q] = Grow(g[p]) /\ f[p] = g[p]
                BY <3>1, <4>1
            <4> HIDE DEF f
            <4> QED BY <4>1, <4>2
        <3>2. CASE q # p + 1
            <4>1. q \in 0..p /\ (q # 0 => q - 1 \in 0..p /\ q - 1 \in 0..p + 1 /\ q - 1 # p + 1)
                BY <3>2
            <4>2. f[q] = g[q] /\ (q # 0 => f[q - 1] = g[q - 1])
                BY <3>2, <4>1
            <4>3. g[q] = IF q = 0 THEN l ELSE Grow(g[q - 1])
                BY <4>1
            <4> HIDE DEF f
            <4> QED BY <4>2, <4>3
        <3> QED BY <3>1, <3>2
    <2>2. f = [q \in 0..p + 1 |-> f[q]]
        OBVIOUS
    <2> HIDE DEF f
    <2>3. Grows(f, p + 1)
        BY <2>1, <2>2
    <2> HIDE DEF Grows
    <2> QED BY <2>3
<1> HIDE DEF Has
<1>3. \A p \in Nat : Has(p)
    <2> DEFINE T == {p \in Nat : ~Has(p)}
    <2> SUFFICES ASSUME T # {} PROVE FALSE
        OBVIOUS
    <2>1. PICK p \in T : \A j \in T : p =< j
        <3>1. T \in SUBSET Nat
            OBVIOUS
        <3> HIDE DEF T
        <3> QED BY <3>1, LeastNumber
    <2>2. p # 0
        BY <1>1
    <2>3. p - 1 \in Nat /\ p - 1 \notin T
        BY <2>1, <2>2
    <2>4. Has((p - 1) + 1) /\ (p - 1) + 1 = p
        BY <1>2, <2>3
    <2> QED BY <2>4
<1>4. Grows(grown, i + 1)
    <2>1. \E g : Grows(g, i + 1)
        BY <1>3 DEF Has
    <2> HIDE DEF Grows
    <2> QED BY <2>1
<1>5. WithNode(l, i) = grown[i + 1]
    BY DEF WithNode
<1> HIDE DEF grown
<1>6. grown[0] = l /\ \A q \in 1..i + 1 : grown[q] = Grow(grown[q - 1])
    <2> HIDE DEF Grow
    <2> QED BY <1>4
<1> DEFINE Is(q, k) == /\ NodeTypes(grown[q], k) /\ (i < k \/ q =< k)
                       /\ Allocated(grown[q]) = Allocated(l)
<1>7. \E k : Is(0, k)
    <2>1. n \in Nat
        BY DEF NodeTypes
    <2> QED BY <1>6, <2>1
<1>8. ASSUME NEW q \in 1..i + 1, NEW k, Is(q - 1, k)
      PROVE  \E j : Is(q, j)
    <2> DEFINE m == grown[q - 1]
    <2>1. Nodes(m) = 0..k - 1 /\ k \in Nat
        BY <1>8, NodesOfTypes DEF NodeTypes
    <2>2. CASE i < k
        <3>1. grown[q] = m
            BY <1>6, <2>1, <2>2
        <3>2. Is(q, k)
            BY <1>8, <2>2, <3>1
        <3> HIDE DEF Is
        <3> QED BY <3>2
    <2>3. CASE ~(i < k)
        <3>1. grown[q] = ExtendPage(m, m.free)
            BY <1>6, <2>1, <2>3
        <3>2. m.free \in Link(k)
            BY <1>8 DEF NodeTypes
        <3> HIDE DEF m
        <3>3. NodeTypes(grown[q], k + NodesPerPage) /\ Allocated(grown[q]) = Allocated(m)
            BY <1>8, <3>1, <3>2, PageIsAdded DEF m
        <3>4. q =< k + NodesPerPage
            BY <1>8, <2>1, <2>3
        <3>5. Is(q, k + NodesPerPage)
            BY <1>8, <3>3, <3>4 DEF m
        <3> HIDE DEF Is
        <3> QED BY <3>5
    <2> QED BY <2>2, <2>3
<1> HIDE DEF Is
<1>9. \A q \in 0..i + 1 : \E k : Is(q, k)
    <2> DEFINE T == {q \in 0..i + 1 : ~\E k : Is(q, k)}
    <2> SUFFICES ASSUME T # {} PROVE FALSE
        OBVIOUS
    <2>1. PICK q \in T : \A j \in T : q =< j
        <3>1. T \in SUBSET Nat
            OBVIOUS
        <3> HIDE DEF T
        <3> QED BY <3>1, LeastNumber
    <2>2. q \in 1..i + 1
        BY <1>7
    <2>3. q - 1 \in 0..i + 1 /\ q - 1 \notin T
        BY <2>1, <2>2
    <2>4. PICK k : Is(q - 1, k)
        BY <2>3
    <2> QED BY <1>8, <2>2, <2>4
<1>10. PICK k : Is(i + 1, k)
    BY <1>9
<1>11. NodeTypes(grown[i + 1], k) /\ (i < k \/ i + 1 =< k) /\ Allocated(grown[i + 1]) = Allocated(l)
    BY <1>10 DEF Is
<1>12. i \in 0..k - 1
    BY <1>11 DEF NodeTypes
<1> QED BY <1>5, <1>11, <1>12

\* CreateAt of an index that is not in use allocates it, whatever the lists look
\* like (IndexedUnmanagedList.h:168-216).
LEMMA CreateAtKeepsTypes ==
    ASSUME NEW l, NEW n, NodeTypes(l, n), NEW i \in Nat, ~Get(l, i)
    PROVE  /\ \E k : NodeTypes(CreateAt(l, i), k)
           /\ Allocated(CreateAt(l, i)) = Allocated(l) \cup {i}
<1> DEFINE w == WithNode(l, i)
           m == Move(w, i, "free", "used", TRUE)
<1> PICK k : NodeTypes(w, k) /\ i \in 0..k - 1 /\ Allocated(w) = Allocated(l)
    BY NamedNodeIsThere
<1>1. i \notin Allocated(l)
    BY DEF Get, Allocated
<1> HIDE DEF w
<1>2. Nodes(w) = 0..k - 1
    BY NodesOfTypes
<1>3. ~w.allocated[i]
    BY <1>1, <1>2 DEF Allocated
<1>4. CreateAt(l, i) = m
    BY <1>3 DEF CreateAt, w
<1>5. NodeTypes(m, k) /\ m.allocated = [w.allocated EXCEPT ![i] = TRUE]
    <2>1. "free" # "used" /\ TRUE \in BOOLEAN
        OBVIOUS
    <2> QED BY <2>1, MoveKeepsTypes
<1> HIDE DEF m
<1>6. Nodes(m) = 0..k - 1
    BY <1>5, NodesOfTypes
<1>7. Allocated(m) = Allocated(w) \cup {i}
    <2>1. w.allocated \in [0..k - 1 -> BOOLEAN]
        BY DEF NodeTypes
    <2> QED BY <1>2, <1>5, <1>6, <2>1 DEF Allocated
<1> QED BY <1>4, <1>5, <1>7

\* Erase takes the node out of the middle of the list of those in use and puts
\* it before the free ones (IndexedUnmanagedList.h:218-256).
LEMMA EraseIsLinked ==
    ASSUME NEW l, NEW n, NodeTypes(l, n), ListsAreLinked(l), NEW i, Get(l, i)
    PROVE  ListsAreLinked(Erase(l, i))
<1> DEFINE m == Erase(l, i)
           before == l.prev[i]
           after == l.next[i]
           used == Allocated(l)
           unused == Nodes(l) \ Allocated(l)
<1>1. /\ m = Move(l, i, "used", "free", FALSE) /\ NodeTypes(m, n)
      /\ i \in used /\ Allocated(m) = used \ {i}
    BY EraseKeepsTypes
<1>2. /\ m.next = [SetLink(l.next, before, after) EXCEPT ![i] = l.free]
      /\ m.prev = SetLink(SetLink(l.prev, after, before), l.free, i)
      /\ m.free = i /\ m.used = IF before = NullNode THEN after ELSE l.used
    BY <1>1 DEF Move, NodeTypes
<1>3. /\ Nodes(l) = 0..n - 1 /\ Nodes(m) = 0..n - 1 /\ used \subseteq Nodes(l)
      /\ Nodes(l) \subseteq Nat
    BY <1>1, NodesOfTypes
<1>4. /\ ListOf(l.next, l.used, used) /\ ListOf(l.next, l.free, unused)
      /\ used \in SUBSET Nat /\ unused \in SUBSET Nat
    BY <1>3 DEF ListsAreLinked
<1>5. /\ after \in used \cup {NullNode} /\ after # i
      /\ l.used \in used
      /\ \A b \in used : l.next[b] # l.used
      /\ \A b, c \in used : l.next[b] = l.next[c] /\ l.next[b] # NullNode => b = c
    BY <1>1, <1>4, ListLinks
<1>6. l.free \in unused \cup {NullNode} /\ \A b \in unused : l.next[b] \in unused \cup {NullNode}
    BY <1>4, ListLinks
<1>7. IF i = l.used THEN before = NullNode ELSE before \in used /\ l.next[before] = i
    BY <1>1 DEF ListsAreLinked
<1>8. l.next \in [Nodes(l) -> Link(n)] /\ l.prev \in [Nodes(l) -> Link(n)]
    BY <1>3 DEF NodeTypes
<1> HIDE DEF m, before, after, used, unused
<1>9. i \in Nodes(l) /\ i # NullNode /\ i \notin unused /\ NullNode \notin Nodes(l)
    BY <1>1, <1>3 DEF unused, used
<1>10. unused \cap used = {} /\ unused \subseteq Nodes(l)
    BY DEF unused, used
<1>11. /\ m.next[i] = l.free
       /\ \A b \in Nodes(l) \ {i} : m.next[b] = IF b = before THEN after ELSE l.next[b]
    <2> DEFINE p == SetLink(l.next, before, after)
    <2>1. DOMAIN p = Nodes(l) /\ \A b \in Nodes(l) : p[b] = IF b = before THEN after ELSE l.next[b]
        BY <1>7, <1>8, <1>9 DEF SetLink
    <2>2. m.next = [p EXCEPT ![i] = l.free]
        BY <1>2
    <2> HIDE DEF p
    <2> QED BY <1>9, <2>1, <2>2
<1>12. \A b \in used \ {i} : m.prev[b] = IF b = after THEN before ELSE l.prev[b]
    <2> DEFINE p == SetLink(l.prev, after, before)
    <2>1. DOMAIN p = Nodes(l) /\ \A b \in Nodes(l) : p[b] = IF b = after THEN before ELSE l.prev[b]
        BY <1>3, <1>5, <1>8, <1>9 DEF SetLink
    <2>2. m.prev = SetLink(p, l.free, i)
        BY <1>2
    <2> HIDE DEF p
    <2> QED BY <1>3, <1>6, <1>10, <2>1, <2>2 DEF SetLink
<1>13. \A b \in used \ {i} : l.next[b] = i <=> b = before
    <2>1. CASE i = l.used
        BY <1>3, <1>5, <1>7, <1>9, <2>1
    <2>2. CASE i # l.used
        BY <1>1, <1>5, <1>7, <1>9, <2>2
    <2> QED BY <2>1, <2>2
<1>14. ListOf(m.next, m.used, Allocated(m))
    <2>1. m.used = IF l.used = i THEN after ELSE l.used
        BY <1>2, <1>3, <1>7, <1>9
    <2>2. \A b \in used \ {i} : m.next[b] = IF l.next[b] = i THEN after ELSE l.next[b]
        BY <1>3, <1>11, <1>13
    <2>3. /\ m.used = IF l.used = i THEN l.next[i] ELSE l.used
          /\ \A b \in used \ {i} :
                m.next[b] = IF l.next[b] = i THEN l.next[i] ELSE l.next[b]
        BY <2>1, <2>2 DEF after
    <2>4. /\ ListOf(l.next, l.used, used) /\ used \in SUBSET Nat /\ i \in used
        BY <1>1, <1>4
    <2>5. ListOf(m.next, m.used, used \ {i})
        BY ONLY <2>3, <2>4, ListRemove
    <2> QED BY <1>1, <2>5
<1>15. ListOf(m.next, m.free, Nodes(m) \ Allocated(m))
    <2>1. before \notin unused
        BY <1>3, <1>7, <1>9, <1>10
    <2>2. \A b \in unused : m.next[b] = l.next[b]
        BY <1>9, <1>10, <1>11, <2>1
    <2>3. ListOf(m.next, i, unused \cup {i})
        BY <1>3, <1>4, <1>9, <1>11, <2>2, ListPush
    <2>4. Nodes(m) \ Allocated(m) = unused \cup {i}
        BY <1>1, <1>3 DEF unused, used
    <2> QED BY <1>2, <2>3, <2>4
<1>16. ASSUME NEW b \in Allocated(m)
       PROVE  IF b = m.used THEN m.prev[b] = NullNode
              ELSE m.prev[b] \in Allocated(m) /\ m.next[m.prev[b]] = b
    <2>0. b \in used /\ b # i /\ b \in Nodes(l)
        BY <1>1, <1>3
    <2>1. CASE b = after
        <3>1. m.prev[b] = before
            BY <1>12, <2>0, <2>1
        <3>2. CASE before = NullNode
            BY <1>2, <2>1, <3>1, <3>2
        <3>3. CASE before # NullNode
            <4>1. before \in used /\ l.next[before] = i /\ before # i
                BY <1>5, <1>7, <3>3 DEF after
            <4>2. m.next[before] = after
                BY <1>3, <1>11, <4>1
            <4>3. m.used = l.used /\ b # l.used
                BY <1>1, <1>2, <1>5, <2>1, <3>3 DEF after
            <4> QED BY <1>1, <2>1, <3>1, <4>1, <4>2, <4>3
        <3> QED BY <3>2, <3>3
    <2>2. CASE b # after
        <3>1. m.prev[b] = l.prev[b]
            BY <1>12, <2>0, <2>2
        <3>2. IF b = l.used THEN l.prev[b] = NullNode
              ELSE l.prev[b] \in used /\ l.next[l.prev[b]] = b
            BY <2>0 DEF ListsAreLinked, used
        <3>3. CASE b = l.used
            <4>1. before # NullNode
                BY <1>3, <1>7, <1>9, <2>0, <3>3
            <4> QED BY <1>2, <3>1, <3>2, <3>3, <4>1
        <3>4. CASE b # l.used
            <4>1. l.prev[b] # i
                BY <2>2, <3>2, <3>4 DEF after
            <4>2. l.prev[b] # before
                <5>1. before \in used => l.next[before] = i
                    BY <1>3, <1>7, <1>9
                <5> QED BY <2>0, <3>2, <3>4, <5>1
            <4>3. m.next[l.prev[b]] = b /\ l.prev[b] \in used \ {i}
                BY <1>3, <1>11, <3>2, <3>4, <4>1, <4>2
            <4>4. b # m.used
                BY <1>2, <2>2, <3>4
            <4> QED BY <1>1, <3>1, <4>3, <4>4
        <3> QED BY <3>3, <3>4
    <2> QED BY <2>1, <2>2
<1>17. ListsAreLinked(m)
    BY <1>14, <1>15, <1>16 DEF ListsAreLinked
<1> QED BY <1>17 DEF m

-----------------------------------------------------------------------------
(* SparseList                                                              *)

\* The nodes are a list of some length, and its links are sound for an owner
\* that never names an index.
NodesInv ==
    /\ operations \in Interfaces
    /\ \E n : NodeTypes(sparseBlocks, n)
    /\ "EmplaceAt" \notin operations => ListsAreLinked(sparseBlocks)

\* The dense array and the dense indices of the nodes in use are each other's
\* inverse.
DenseInv ==
    /\ count \in Nat /\ count = Cardinality(InUse)
    /\ InUse \subseteq DOMAIN denseIndexOf
    /\ \A i \in InUse :
          denseIndexOf[i] \in 0..count - 1 /\ dense[denseIndexOf[i]] = i
    /\ DOMAIN dense = 0..count - 1
    /\ \A k \in 0..count - 1 : dense[k] \in InUse /\ denseIndexOf[dense[k]] = k
    /\ DOMAIN dataOf = InUse

\* What the iteration has not met yet lies ahead of it.
IterationInv ==
    iterator # NoIteration =>
        /\ iterator \in Nat
        /\ ~erasedInside => /\ watched \in InUse
                            /\ met \/ iterator <= denseIndexOf[watched]

ContainerInv == NodesInv /\ DenseInv /\ IterationInv

\* A node that comes into use is the last of the dense array
\* (SparseList.h:98-115).
LEMMA EmplaceKeepsDense ==
    ASSUME DenseInv, IsFiniteSet(InUse), NEW i, i \notin InUse, NEW d,
           EmplaceImpl(i, d), InUse' = InUse \cup {i}
    PROVE  DenseInv' /\ \A j \in InUse : denseIndexOf'[j] = denseIndexOf[j]
<1>1. /\ count' = count + 1 /\ count \in Nat
      /\ count' = Cardinality(InUse')
    BY FS_AddElement DEF DenseInv, EmplaceImpl
<1>2. /\ DOMAIN denseIndexOf' = DOMAIN denseIndexOf \cup {i}
      /\ denseIndexOf'[i] = count
      /\ \A j \in InUse : denseIndexOf'[j] = denseIndexOf[j]
    BY DEF DenseInv, EmplaceImpl, Put
<1>3. /\ DOMAIN dense' = 0..count'- 1
      /\ dense'[count] = i
      /\ \A k \in 0..count - 1 : dense'[k] = dense[k]
    BY <1>1 DEF DenseInv, EmplaceImpl, Put
<1>4. DOMAIN dataOf' = InUse'
    BY DEF DenseInv, EmplaceImpl, Put
<1>5. ASSUME NEW j \in InUse'
      PROVE  denseIndexOf'[j] \in 0..count' - 1 /\ dense'[denseIndexOf'[j]] = j
    <2>1. CASE j = i
        BY <1>1, <1>2, <1>3, <2>1
    <2>2. CASE j # i
        <3>1. j \in InUse /\ denseIndexOf[j] \in 0..count - 1 /\ dense[denseIndexOf[j]] = j
            BY <2>2 DEF DenseInv
        <3> QED BY <1>1, <1>2, <1>3, <3>1
    <2> QED BY <2>1, <2>2
<1>6. ASSUME NEW k \in 0..count' - 1
      PROVE  dense'[k] \in InUse' /\ denseIndexOf'[dense'[k]] = k
    <2>1. CASE k = count
        BY <1>2, <1>3, <2>1
    <2>2. CASE k # count
        <3>1. k \in 0..count - 1
            BY <1>1, <2>2
        <3>2. dense[k] \in InUse /\ denseIndexOf[dense[k]] = k
            BY <3>1 DEF DenseInv
        <3> QED BY <1>2, <1>3, <3>1, <3>2
    <2> QED BY <2>1, <2>2
<1>7. InUse' \subseteq DOMAIN denseIndexOf'
    BY <1>2 DEF DenseInv
<1> QED BY <1>1, <1>2, <1>3, <1>4, <1>5, <1>6, <1>7 DEF DenseInv

\* The last of the dense array takes the place of the erased one, also where it
\* is the erased one itself (SparseList.h:117-137).
LEMMA EraseKeepsDense ==
    ASSUME DenseInv, IsFiniteSet(InUse), NEW i \in InUse,
           SwapAndPop(i), InUse' = InUse \ {i},
           dataOf' = [j \in DOMAIN dataOf \ {i} |-> dataOf[j]]
    PROVE  DenseInv'
<1> DEFINE erased == denseIndexOf[i]
           last == count - 1
<1>1. /\ count' = last /\ count \in Nat /\ erased \in 0..last /\ last \in Nat
      /\ count' = Cardinality(InUse')
    <2>1. count \in Nat /\ count = Cardinality(InUse) /\ erased \in 0..count - 1
        BY DEF DenseInv
    <2>2. count' = last
        BY DEF SwapAndPop
    <2>3. Cardinality(InUse \ {i}) = Cardinality(InUse) - 1
        BY FS_RemoveElement
    <2> QED BY <2>1, <2>2, <2>3
<1>2. /\ DOMAIN dense' = 0..last - 1
      /\ \A k \in 0..last - 1 : dense'[k] = IF k = erased THEN dense[last] ELSE dense[k]
    BY DEF SwapAndPop
<1>3. /\ dense[last] \in InUse /\ denseIndexOf[dense[last]] = last
      /\ erased # last => dense[last] # i
      /\ dense[erased] = i
    BY <1>1 DEF DenseInv
<1>4. /\ InUse' \subseteq DOMAIN denseIndexOf'
      /\ erased # last => denseIndexOf'[dense[last]] = erased
      /\ \A j \in InUse \ {i} : j # dense[last] => denseIndexOf'[j] = denseIndexOf[j]
    <2>1. InUse \subseteq DOMAIN denseIndexOf
        BY DEF DenseInv
    <2> QED BY <1>3, <2>1 DEF SwapAndPop
<1>5. DOMAIN dataOf' = InUse'
    BY DEF DenseInv
<1>6. ASSUME NEW j \in InUse'
      PROVE  denseIndexOf'[j] \in 0..count' - 1 /\ dense'[denseIndexOf'[j]] = j
    <2>0. j \in InUse /\ j # i /\ denseIndexOf[j] \in 0..last /\ dense[denseIndexOf[j]] = j
        BY <1>1 DEF DenseInv
    <2>1. CASE j = dense[last]
        <3>1. erased # last
            BY <1>3, <2>0, <2>1
        <3> QED BY <1>1, <1>2, <1>4, <2>1, <3>1
    <2>2. CASE j # dense[last]
        <3>1. denseIndexOf[j] # last /\ denseIndexOf[j] # erased
            BY <1>3, <2>0, <2>2
        <3> QED BY <1>1, <1>2, <1>4, <2>0, <2>2, <3>1
    <2> QED BY <2>1, <2>2
<1>7. ASSUME NEW k \in 0..count' - 1
      PROVE  dense'[k] \in InUse' /\ denseIndexOf'[dense'[k]] = k
    <2>0. k \in 0..last - 1 /\ dense[k] \in InUse /\ denseIndexOf[dense[k]] = k
        BY <1>1 DEF DenseInv
    <2>1. CASE k = erased
        <3>1. erased # last
            BY <1>1, <2>0, <2>1
        <3> QED BY <1>2, <1>3, <1>4, <2>0, <2>1, <3>1
    <2>2. CASE k # erased
        <3>1. dense[k] # i /\ dense[k] # dense[last]
            BY <1>1, <1>3, <2>0, <2>2
        <3> QED BY <1>2, <1>4, <2>0, <2>2, <3>1
    <2> QED BY <2>1, <2>2
<1> QED BY <1>1, <1>2, <1>4, <1>5, <1>6, <1>7 DEF DenseInv

\* The container is empty.
LEMMA ListInitial == ListInit => ContainerInv
<1> SUFFICES ASSUME ListInit PROVE ContainerInv
    OBVIOUS
<1>1. NodesInv
    BY EmptyListIsLinked DEF ListInit, NodesInv
<1>2. InUse = {}
    BY EmptyListIsLinked DEF ListInit, InUse
<1>3. 0..0 - 1 = {} /\ DOMAIN <<>> = {}
    OBVIOUS
<1>4. DenseInv
    BY <1>2, <1>3, FS_EmptySet DEF ListInit, DenseInv
<1> QED BY <1>1, <1>4 DEF ListInit, IterationInv, ContainerInv

\* The nodes in use are finitely many.
LEMMA InUseIsFinite == NodesInv => IsFiniteSet(InUse) /\ InUse \in SUBSET Nat
    BY NodesOfTypes DEF NodesInv, InUse

\* An index is emplaced that was not in use, and nothing that was moves.
LEMMA EmplaceStep ==
    ASSUME ContainerInv, NEW d, NEW i,
           \/ Emplace(d) /\ i = CreatedIndex(sparseBlocks)
           \/ EmplaceAt(i, d) /\ i \in Nat
    PROVE  ContainerInv' /\ i \notin InUse /\ InUse' = InUse \cup {i} /\ EmplaceImpl(i, d)
<1> PICK n : NodeTypes(sparseBlocks, n)
    BY DEF ContainerInv, NodesInv
<1>0. EmplaceImpl(i, d) /\ UNCHANGED <<operations, iteratorVars>>
    BY DEF Emplace, EmplaceAt
<1>1. NodesInv' /\ i \notin InUse /\ InUse' = InUse \cup {i}
    <2>1. CASE Emplace(d) /\ i = CreatedIndex(sparseBlocks)
        <3>1. "EmplaceAt" \notin operations /\ ListsAreLinked(sparseBlocks)
            BY <2>1, InterfaceAssumption DEF ContainerInv, NodesInv, Emplace
        <3>2. sparseBlocks' = Create(sparseBlocks)
            BY <2>1 DEF Emplace
        <3> QED BY <1>0, <2>1, <3>1, <3>2, CreateIsLinked DEF InUse, NodesInv, ContainerInv
    <2>2. CASE EmplaceAt(i, d) /\ i \in Nat
        <3>1. ~Get(sparseBlocks, i) /\ sparseBlocks' = CreateAt(sparseBlocks, i)
              /\ "EmplaceAt" \in operations
            BY <2>2 DEF EmplaceAt, IsFree
        <3>2. i \notin InUse
            BY <3>1 DEF Get, InUse, Allocated
        <3> QED BY <1>0, <2>2, <3>1, <3>2, CreateAtKeepsTypes DEF InUse, NodesInv, ContainerInv
    <2> QED BY <2>1, <2>2
<1>2. DenseInv' /\ \A j \in InUse : denseIndexOf'[j] = denseIndexOf[j]
    BY <1>0, <1>1, InUseIsFinite, EmplaceKeepsDense DEF ContainerInv
<1>3. IterationInv'
    BY <1>0, <1>1, <1>2 DEF ContainerInv, IterationInv, iteratorVars
<1> QED BY <1>0, <1>1, <1>2, <1>3 DEF ContainerInv

\* One index leaves.
LEMMA EraseStep ==
    ASSUME ContainerInv, NEW i, EraseBySparseIndex(i)
    PROVE  ContainerInv' /\ i \in InUse /\ InUse' = InUse \ {i}
<1> PICK n : NodeTypes(sparseBlocks, n)
    BY DEF ContainerInv, NodesInv
<1>1. Get(sparseBlocks, i) /\ sparseBlocks' = Erase(sparseBlocks, i)
    BY DEF EraseBySparseIndex
<1>2. i \in InUse /\ InUse' = InUse \ {i} /\ NodeTypes(sparseBlocks', n)
    BY <1>1, EraseKeepsTypes DEF InUse
<1>3. NodesInv'
    BY <1>1, <1>2, EraseIsLinked DEF NodesInv, ContainerInv, EraseBySparseIndex
<1>4. DenseInv'
    BY <1>2, InUseIsFinite, EraseKeepsDense DEF ContainerInv, EraseBySparseIndex
<1>5. IterationInv'
    BY DEF ContainerInv, IterationInv, EraseBySparseIndex
<1> QED BY <1>2, <1>3, <1>4, <1>5 DEF ContainerInv

\* The iteration only reads the container.
LEMMA IterationStep ==
    ASSUME ContainerInv, Begin \/ Visit \/ End
    PROVE  ContainerInv' /\ UNCHANGED listVars
<1>1. UNCHANGED <<operations, listVars>>
    BY DEF Begin, Visit, End
<1>2. NodesInv' /\ DenseInv' /\ InUse' = InUse
    BY <1>1 DEF ContainerInv, NodesInv, DenseInv, InUse, listVars
<1>3. IterationInv'
    <2>1. CASE Begin
        <3>1. iterator' = 0 /\ watched' \in InUse
            BY <2>1 DEF Begin
        <3>2. denseIndexOf[watched'] \in Nat
            BY <3>1 DEF ContainerInv, DenseInv
        <3> QED BY <1>1, <1>2, <3>1, <3>2 DEF IterationInv, listVars
    <2>2. CASE Visit
        <3>1. /\ iterator \in Nat /\ iterator' = iterator + 1 /\ iterator < count
              /\ UNCHANGED <<watched, erasedInside>>
              /\ met' = (met \/ dense[iterator] = watched)
            BY <2>2 DEF Visit, ContainerInv, IterationInv
        <3>2. ASSUME ~erasedInside
              PROVE  watched \in InUse /\ (met' \/ iterator' <= denseIndexOf[watched])
            <4>1. watched \in InUse /\ (met \/ iterator <= denseIndexOf[watched])
                BY <2>2, <3>2 DEF Visit, ContainerInv, IterationInv
            <4>2. denseIndexOf[watched] \in Nat /\ dense[denseIndexOf[watched]] = watched
                BY <4>1 DEF ContainerInv, DenseInv
            <4>3. CASE met
                BY <3>1, <4>1, <4>3
            <4>4. CASE iterator = denseIndexOf[watched]
                BY <3>1, <4>1, <4>2, <4>4
            <4>5. CASE iterator < denseIndexOf[watched]
                <5>1. iterator' <= denseIndexOf[watched]
                    BY <3>1, <4>2, <4>5
                <5> QED BY <4>1, <5>1
            <4>6. met \/ iterator = denseIndexOf[watched] \/ iterator < denseIndexOf[watched]
                BY <3>1, <4>1, <4>2
            <4> QED BY <4>3, <4>4, <4>5, <4>6
        <3> QED BY <1>1, <1>2, <3>1, <3>2 DEF IterationInv, listVars
    <2>3. CASE End
        BY <2>3 DEF End, IterationInv
    <2> QED BY <2>1, <2>2, <2>3
<1> QED BY <1>1, <1>2, <1>3 DEF ContainerInv

\* Emplace, EmplaceAt, EraseBySparseIndex and the steps of an iteration keep it
\* (SparseList.h:80-180).
LEMMA ContainerStep == ContainerInv /\ [ListNext]_sparseListVars => ContainerInv'
<1> SUFFICES ASSUME ContainerInv, [ListNext]_sparseListVars PROVE ContainerInv'
    OBVIOUS
<1>1. ASSUME NEW d \in Data, Emplace(d) PROVE ContainerInv'
    <2>1. \E i : i = CreatedIndex(sparseBlocks)
        OBVIOUS
    <2> QED BY <1>1, <2>1, EmplaceStep
<1>2. ASSUME NEW d \in Data, NEW i \in NamedIds, EmplaceAt(i, d) PROVE ContainerInv'
    <2>1. i \in Nat
        BY IndexAssumption DEF Ids
    <2> QED BY <1>2, <2>1, EmplaceStep
<1>3. ASSUME NEW i \in Ids, EraseBySparseIndex(i) PROVE ContainerInv'
    BY <1>3, EraseStep
<1>4. CASE Begin \/ Visit \/ End
    BY <1>4, IterationStep
<1>5. CASE UNCHANGED sparseListVars
    BY <1>5 DEF ContainerInv, NodesInv, DenseInv, IterationInv, InUse,
                sparseListVars, listVars, iteratorVars
<1> QED BY <1>1, <1>2, <1>3, <1>4, <1>5 DEF ListNext

\* Every state of a container satisfies it.
LEMMA ContainerInvariant == ListSpec => []ContainerInv
    BY ListInitial, ContainerStep, PTL DEF ListSpec

\* The lists visit what they should, and the dense array is exact.
LEMMA ContainerInvIsExact == ContainerInv => ContainerIsExact
<1> SUFFICES ASSUME ContainerInv PROVE ContainerIsExact
    OBVIOUS
<1> PICK n : NodeTypes(sparseBlocks, n)
    BY DEF ContainerInv, NodesInv
<1> DEFINE rest == Nodes(sparseBlocks) \ InUse
<1>1. /\ IsFiniteSet(InUse) /\ InUse \in SUBSET Nat
      /\ IsFiniteSet(rest) /\ rest \in SUBSET Nat
    BY NodesOfTypes, FS_Difference DEF InUse
<1>2. ASSUME "EmplaceAt" \notin operations
      PROVE  /\ Visits(sparseBlocks, sparseBlocks.used, InUse)
             /\ Visits(sparseBlocks, sparseBlocks.free, rest)
    <2>1. /\ ListOf(sparseBlocks.next, sparseBlocks.used, InUse)
          /\ ListOf(sparseBlocks.next, sparseBlocks.free, rest)
        BY <1>2 DEF ContainerInv, NodesInv, ListsAreLinked, InUse
    <2> QED BY <1>1, <2>1, ListVisits
<1>3. DenseArrayIsExact
    BY DEF ContainerInv, DenseInv, DenseArrayIsExact
<1> QED BY <1>2, <1>3 DEF ContainerIsExact, ListsAreExact

\* The lists of a container whose owner never names an index visit the nodes in
\* use and the others, and the dense array of every container holds the indices
\* in use once each (SparseList.h:80-137, IndexedUnmanagedList.h:139-256).
THEOREM ContainersStayExact == ListSpec => []ContainerIsExact
    BY ContainerInvariant, ContainerInvIsExact, PTL

\* An iteration that erases nothing has met every index that was in use when it
\* began (MakeIterableFromThis.h:47-62).
THEOREM IterationsAreComplete == ListSpec => IterationIsComplete
<1>1. ASSUME ContainerInv, [ListNext]_sparseListVars
      PROVE  [End /\ ~erasedInside => met]_sparseListVars
    <2>1. ASSUME End, ~erasedInside PROVE met
        <3>1. /\ iterator \in Nat /\ iterator >= count /\ watched \in InUse
              /\ met \/ iterator <= denseIndexOf[watched]
            BY <1>1, <2>1 DEF End, ContainerInv, IterationInv
        <3>2. count \in Nat /\ denseIndexOf[watched] \in 0..count - 1
            BY <1>1, <3>1 DEF ContainerInv, DenseInv
        <3> QED BY <3>1, <3>2
    <2> QED BY <2>1
<1> QED BY <1>1, ContainerInvariant, PTL DEF ListSpec, IterationIsComplete

\* The indices and data an owner sees.
LEMMA ListMapStep ==
    ContainerInv /\ ContainerInv' /\ [ListNext]_sparseListVars =>
        [Map!Next]_[i \in Allocated(sparseBlocks) |-> dataOf[i]]
<1> DEFINE map == [i \in InUse |-> dataOf[i]]
<1> SUFFICES ASSUME ContainerInv, ContainerInv', [ListNext]_sparseListVars
             PROVE  Map!Next \/ map' = map
    BY DEF InUse
<1>0. DOMAIN map = InUse /\ DOMAIN dataOf = InUse
    BY DEF ContainerInv, DenseInv
<1>1. ASSUME NEW d \in Data, NEW i \in Ids,
             (Emplace(d) /\ i = CreatedIndex(sparseBlocks)) \/ EmplaceAt(i, d)
      PROVE  Map!Add(i, d)
    <2>0. i \in Nat
        BY IndexAssumption DEF Ids
    <2>1. i \notin InUse /\ InUse' = InUse \cup {i} /\ EmplaceImpl(i, d)
        BY <1>1, <2>0, EmplaceStep
    <2>2. \A j \in InUse' : dataOf'[j] = IF j = i THEN d ELSE dataOf[j]
        BY <1>0, <2>1 DEF EmplaceImpl, Put
    <2>3. map' = [j \in DOMAIN map \cup {i} |-> IF j = i THEN d ELSE map[j]]
        BY <1>0, <2>1, <2>2
    <2> QED BY <1>0, <2>1, <2>3 DEF Map!Add, InUse
<1>2. ASSUME NEW i \in Ids, EraseBySparseIndex(i)
      PROVE  Map!Remove(i)
    <2>1. i \in InUse /\ InUse' = InUse \ {i}
        BY <1>2, EraseStep
    <2>2. dataOf' = [j \in DOMAIN dataOf \ {i} |-> dataOf[j]]
        BY <1>2 DEF EraseBySparseIndex
    <2>3. map' = [j \in DOMAIN map \ {i} |-> map[j]]
        BY <1>0, <2>1, <2>2
    <2> QED BY <1>0, <2>1, <2>3 DEF Map!Remove, InUse
<1>3. ASSUME NEW d \in Data, Emplace(d) PROVE Map!Next
    BY <1>1, <1>3 DEF Emplace, Map!Next
<1>4. ASSUME NEW d \in Data, NEW i \in NamedIds, EmplaceAt(i, d) PROVE Map!Next
    BY <1>1, <1>4, IndexAssumption DEF Map!Next
<1>5. ASSUME NEW i \in Ids, EraseBySparseIndex(i) PROVE Map!Next
    BY <1>2, <1>5 DEF Map!Next
<1>6. CASE Begin \/ Visit \/ End
    BY <1>6, IterationStep DEF listVars, InUse
<1>7. CASE UNCHANGED sparseListVars
    BY <1>7 DEF sparseListVars, listVars, InUse
<1> QED BY <1>3, <1>4, <1>5, <1>6, <1>7 DEF ListNext

\* A SparseList is a map from indices to data for an owner that keeps to one of
\* the two ways to emplace (SparseList.h:80-150), whatever becomes of its lists.
THEOREM ListImplementsMap == ListSpec => ListImplementsIdMap
<1>1. ListInit => Map!Init
    BY EmptyListIsLinked DEF ListInit, Map!Init
<1>2. ContainerInv /\ ContainerInv' /\ [ListNext]_sparseListVars =>
          [Map!Next]_[i \in Allocated(sparseBlocks) |-> dataOf[i]]
    BY ListMapStep
<1> QED BY <1>1, <1>2, ContainerInvariant, PTL
        DEF ListSpec, ListImplementsIdMap, Map!Spec

-----------------------------------------------------------------------------
(* SparseArray                                                             *)

ArrayInUse == Allocated(arrayNodes)

\* As for SparseList; the data lie in the dense blocks.
ArrayNodesInv == \E n : NodeTypes(arrayNodes, n) /\ ListsAreLinked(arrayNodes)

ArrayDenseInv ==
    /\ arrayCount \in Nat /\ arrayCount = Cardinality(ArrayInUse)
    /\ DOMAIN denseBlocks = 0..arrayCount - 1
    /\ ArrayInUse \subseteq DOMAIN placeOf
    /\ \A i \in ArrayInUse :
          /\ placeOf[i] \in 0..arrayCount - 1
          /\ denseBlocks[placeOf[i]].SparseIndex = i
    /\ \A k \in 0..arrayCount - 1 :
          /\ denseBlocks[k].SparseIndex \in ArrayInUse
          /\ placeOf[denseBlocks[k].SparseIndex] = k

ArrayInv == ArrayNodesInv /\ ArrayDenseInv

\* A dense array from 0 on has as many blocks as its indices.
LEMMA CountOfBlocks ==
    ASSUME NEW k \in Nat
    PROVE  IsFiniteSet(0..k - 1) /\ Cardinality(0..k - 1) = k
<1>1. 0 \in Int /\ k - 1 \in Int
    OBVIOUS
<1>2. /\ IsFiniteSet(0..k - 1)
      /\ Cardinality(0..k - 1) = IF 0 > k - 1 THEN 0 ELSE k - 1 - 0 + 1
    BY <1>1, FS_Interval
<1> QED BY <1>2

\* The array is empty.
LEMMA ArrayInitial == ArrayInit => ArrayInv
<1> SUFFICES ASSUME ArrayInit PROVE ArrayInv
    OBVIOUS
<1>1. ArrayNodesInv /\ ArrayInUse = {}
    BY EmptyListIsLinked DEF ArrayInit, ArrayNodesInv, ArrayInUse
<1>2. 0..0 - 1 = {} /\ DOMAIN <<>> = {}
    OBVIOUS
<1>3. arrayCount = 0
    BY <1>2, FS_EmptySet DEF ArrayInit, arrayCount
<1>4. ArrayDenseInv
    BY <1>1, <1>2, <1>3, FS_EmptySet DEF ArrayInit, ArrayDenseInv
<1> QED BY <1>1, <1>4 DEF ArrayInv

\* Emplace takes the next block and the next node (SparseArray.h:69-92).
LEMMA EmplaceDatumStep ==
    ASSUME ArrayInv, NEW d, EmplaceDatum(d)
    PROVE  LET i == CreatedIndex(arrayNodes)
           IN /\ ArrayInv'
              /\ i \notin ArrayInUse /\ ArrayInUse' = ArrayInUse \cup {i}
              /\ denseBlocks'[placeOf'[i]].Data = d
              /\ \A j \in ArrayInUse :
                    denseBlocks'[placeOf'[j]].Data = denseBlocks[placeOf[j]].Data
<1> DEFINE n == arrayCount
<1> PICK i : i = CreatedIndex(arrayNodes)
    OBVIOUS
<1>1. /\ ArrayNodesInv' /\ i \notin ArrayInUse /\ ArrayInUse' = ArrayInUse \cup {i}
      /\ IsFiniteSet(ArrayInUse)
    <2>1. PICK k : NodeTypes(arrayNodes, k) /\ ListsAreLinked(arrayNodes)
        BY DEF ArrayInv, ArrayNodesInv
    <2>2. arrayNodes' = Create(arrayNodes)
        BY DEF EmplaceDatum
    <2>3. /\ \E q : NodeTypes(Create(arrayNodes), q)
          /\ ListsAreLinked(Create(arrayNodes))
          /\ i \notin Allocated(arrayNodes)
          /\ Allocated(Create(arrayNodes)) = Allocated(arrayNodes) \cup {i}
        BY <2>1, CreateIsLinked
    <2>4. IsFiniteSet(Allocated(arrayNodes))
        BY <2>1, NodesOfTypes
    <2> QED BY <2>2, <2>3, <2>4 DEF ArrayNodesInv, ArrayInUse
<1>2. /\ DOMAIN placeOf' = DOMAIN placeOf \cup {i}
      /\ placeOf'[i] = n /\ \A j \in ArrayInUse : placeOf'[j] = placeOf[j]
    BY <1>1 DEF ArrayInv, ArrayDenseInv, EmplaceDatum, With
<1>3. /\ n \in Nat /\ DOMAIN denseBlocks' = 0..n
      /\ denseBlocks'[n] = [SparseIndex |-> i, Data |-> d]
      /\ \A k \in 0..n - 1 : denseBlocks'[k] = denseBlocks[k]
    <2>1. n \in Nat /\ DOMAIN denseBlocks = 0..n - 1
        BY DEF ArrayInv, ArrayDenseInv
    <2> QED BY <2>1 DEF EmplaceDatum, With
<1>4. arrayCount' = n + 1 /\ arrayCount' = Cardinality(ArrayInUse')
    <2>1. Cardinality(0..(n + 1) - 1) = n + 1 /\ (n + 1) - 1 = n
        BY <1>3, CountOfBlocks
    <2>2. Cardinality(ArrayInUse') = n + 1
        BY <1>1, FS_AddElement DEF ArrayInv, ArrayDenseInv
    <2> QED BY <1>3, <2>1, <2>2 DEF arrayCount
<1>5. ASSUME NEW j \in ArrayInUse
      PROVE  /\ placeOf[j] \in 0..n - 1 /\ denseBlocks[placeOf[j]].SparseIndex = j
             /\ denseBlocks'[placeOf'[j]] = denseBlocks[placeOf[j]]
             /\ placeOf'[j] = placeOf[j]
    BY <1>2, <1>3 DEF ArrayInv, ArrayDenseInv
<1>6. ASSUME NEW j \in ArrayInUse'
      PROVE  placeOf'[j] \in 0..arrayCount' - 1 /\ denseBlocks'[placeOf'[j]].SparseIndex = j
    <2>1. CASE j = i
        BY <1>2, <1>3, <1>4, <2>1
    <2>2. CASE j # i
        BY <1>1, <1>3, <1>4, <1>5, <2>2
    <2> QED BY <2>1, <2>2
<1>7. ASSUME NEW k \in 0..arrayCount' - 1
      PROVE  /\ denseBlocks'[k].SparseIndex \in ArrayInUse'
             /\ placeOf'[denseBlocks'[k].SparseIndex] = k
    <2>1. CASE k = n
        BY <1>1, <1>2, <1>3, <2>1
    <2>2. CASE k # n
        <3>1. k \in 0..n - 1
            BY <1>3, <1>4, <2>2
        <3>2. denseBlocks[k].SparseIndex \in ArrayInUse /\ placeOf[denseBlocks[k].SparseIndex] = k
            BY <3>1 DEF ArrayInv, ArrayDenseInv
        <3> QED BY <1>1, <1>2, <1>3, <3>1, <3>2
    <2> QED BY <2>1, <2>2
<1>8. ArrayDenseInv'
    <2>1. ArrayInUse' \subseteq DOMAIN placeOf'
        BY <1>1, <1>2 DEF ArrayInv, ArrayDenseInv
    <2>2. DOMAIN denseBlocks' = 0..arrayCount' - 1 /\ arrayCount' \in Nat
        BY <1>3, <1>4
    <2> QED BY <1>4, <1>6, <1>7, <2>1, <2>2 DEF ArrayDenseInv
<1> QED BY <1>1, <1>2, <1>3, <1>5, <1>8 DEF ArrayInv

\* The last block takes the place of the erased one, with its datum
\* (SparseArray.h:94-141).
LEMMA EraseDatumStep ==
    ASSUME ArrayInv, NEW i, EraseDatum(i)
    PROVE  /\ ArrayInv'
           /\ i \in ArrayInUse /\ ArrayInUse' = ArrayInUse \ {i}
           /\ \A j \in ArrayInUse \ {i} :
                 denseBlocks'[placeOf'[j]].Data = denseBlocks[placeOf[j]].Data
<1> DEFINE n == arrayCount
           last == n - 1
           place == placeOf[i]
           moved == denseBlocks[last].SparseIndex
<1>1. /\ ArrayNodesInv' /\ i \in ArrayInUse /\ ArrayInUse' = ArrayInUse \ {i}
      /\ IsFiniteSet(ArrayInUse)
    <2>1. PICK k : NodeTypes(arrayNodes, k) /\ ListsAreLinked(arrayNodes)
        BY DEF ArrayInv, ArrayNodesInv
    <2>2. Get(arrayNodes, i) /\ arrayNodes' = Erase(arrayNodes, i)
        BY DEF EraseDatum
    <2>3. /\ NodeTypes(Erase(arrayNodes, i), k) /\ i \in Allocated(arrayNodes)
          /\ Allocated(Erase(arrayNodes, i)) = Allocated(arrayNodes) \ {i}
          /\ ListsAreLinked(Erase(arrayNodes, i))
        BY <2>1, <2>2, EraseKeepsTypes, EraseIsLinked
    <2>4. IsFiniteSet(Allocated(arrayNodes))
        BY <2>1, NodesOfTypes
    <2> QED BY <2>2, <2>3, <2>4 DEF ArrayNodesInv, ArrayInUse
<1>2. /\ n \in Nat /\ place \in 0..last /\ last \in Nat
      /\ denseBlocks[place].SparseIndex = i
      /\ moved \in ArrayInUse /\ placeOf[moved] = last
    <2>1. n \in Nat /\ place \in 0..n - 1 /\ denseBlocks[place].SparseIndex = i
        BY <1>1 DEF ArrayInv, ArrayDenseInv
    <2>2. last \in 0..n - 1
        BY <2>1
    <2>3. moved \in ArrayInUse /\ placeOf[moved] = last
        BY <2>2 DEF ArrayInv, ArrayDenseInv
    <2> QED BY <2>1, <2>3
<1>3. /\ DOMAIN denseBlocks' = 0..last - 1
      /\ \A k \in 0..last - 1 :
            denseBlocks'[k] = IF k = place THEN denseBlocks[last] ELSE denseBlocks[k]
    BY DEF EraseDatum, PlaceWithLast
<1>4. arrayCount' = last /\ arrayCount' = Cardinality(ArrayInUse')
    <2>1. Cardinality(0..last - 1) = last
        BY <1>2, CountOfBlocks
    <2>2. Cardinality(ArrayInUse') = last
        BY <1>1, FS_RemoveElement DEF ArrayInv, ArrayDenseInv
    <2> QED BY <1>3, <2>1, <2>2 DEF arrayCount
<1>5. /\ DOMAIN placeOf' = DOMAIN placeOf
      /\ place # last => placeOf'[moved] = place /\ moved # i
      /\ \A j \in ArrayInUse \ {i} : j # moved => placeOf'[j] = placeOf[j]
    <2>1. ArrayInUse \subseteq DOMAIN placeOf
        BY DEF ArrayInv, ArrayDenseInv
    <2>2. place # last => moved # i
        BY <1>2
    <2>3. placeOf' = IF place = last THEN [placeOf EXCEPT ![i] = NoPlace]
                     ELSE [[placeOf EXCEPT ![i] = NoPlace] EXCEPT ![moved] = place]
        BY DEF EraseDatum
    <2> QED BY <1>2, <2>1, <2>2, <2>3
<1>6. ASSUME NEW j \in ArrayInUse \ {i}
      PROVE  /\ placeOf'[j] \in 0..last - 1
             /\ denseBlocks'[placeOf'[j]] = denseBlocks[placeOf[j]]
             /\ denseBlocks[placeOf[j]].SparseIndex = j
    <2>0. placeOf[j] \in 0..last /\ denseBlocks[placeOf[j]].SparseIndex = j
        BY <1>2 DEF ArrayInv, ArrayDenseInv
    <2>1. CASE j = moved
        <3>1. place # last
            BY <1>2, <2>1
        <3>2. placeOf'[j] = place /\ place \in 0..last - 1
            BY <1>2, <1>5, <2>1, <3>1
        <3> QED BY <1>2, <1>3, <2>0, <2>1, <3>2
    <2>2. CASE j # moved
        <3>1. placeOf[j] # last /\ placeOf[j] # place
            BY <1>2, <2>0, <2>2
        <3>2. placeOf'[j] = placeOf[j] /\ placeOf[j] \in 0..last - 1
            BY <1>2, <1>5, <2>0, <2>2, <3>1
        <3> QED BY <1>3, <2>0, <3>1, <3>2
    <2> QED BY <2>1, <2>2
<1>7. ASSUME NEW k \in 0..last - 1
      PROVE  /\ denseBlocks'[k].SparseIndex \in ArrayInUse'
             /\ placeOf'[denseBlocks'[k].SparseIndex] = k
    <2>0. k \in 0..n - 1 /\ denseBlocks[k].SparseIndex \in ArrayInUse
          /\ placeOf[denseBlocks[k].SparseIndex] = k
        <3>1. k \in 0..n - 1
            BY <1>2
        <3> QED BY <3>1 DEF ArrayInv, ArrayDenseInv
    <2>1. CASE k = place
        <3>1. place # last
            BY <1>2, <2>1
        <3> QED BY <1>1, <1>2, <1>3, <1>5, <2>1, <3>1
    <2>2. CASE k # place
        <3>1. denseBlocks[k].SparseIndex # i /\ denseBlocks[k].SparseIndex # moved
            BY <1>2, <2>0, <2>2
        <3> QED BY <1>1, <1>3, <1>5, <2>0, <2>2, <3>1
    <2> QED BY <2>1, <2>2
<1>8. ArrayDenseInv'
    <2>1. ArrayInUse' \subseteq DOMAIN placeOf'
        BY <1>1, <1>5 DEF ArrayInv, ArrayDenseInv
    <2> QED BY <1>1, <1>2, <1>3, <1>4, <1>6, <1>7, <2>1 DEF ArrayDenseInv
<1> QED BY <1>1, <1>6, <1>8 DEF ArrayInv

\* Every state of a SparseArray satisfies it.
LEMMA ArrayInvariant == ArraySpec => []ArrayInv
<1>1. ArrayInv /\ [ArrayNext]_arrayVars => ArrayInv'
    <2> SUFFICES ASSUME ArrayInv, [ArrayNext]_arrayVars PROVE ArrayInv'
        OBVIOUS
    <2>1. CASE UNCHANGED arrayVars
        BY <2>1 DEF ArrayInv, ArrayNodesInv, ArrayDenseInv, ArrayInUse, arrayCount, arrayVars
    <2>2. ASSUME NEW d \in ArrayData, EmplaceDatum(d) PROVE ArrayInv'
        BY <2>2, EmplaceDatumStep
    <2>3. ASSUME NEW i \in ArrayIds, EraseDatum(i) PROVE ArrayInv'
        BY <2>3, EraseDatumStep
    <2> QED BY <2>1, <2>2, <2>3 DEF ArrayNext
<1> QED BY <1>1, ArrayInitial, PTL DEF ArraySpec

\* A SparseArray is a map from the indices it chooses to data, wherever the swap
\* and pop has moved a datum (SparseArray.h:69-163).
THEOREM ArrayImplementsMap == ArraySpec => ArrayImplementsIdMap
<1> DEFINE map == [j \in ArrayInUse |-> denseBlocks[placeOf[j]].Data]
<1>1. ArrayInit => ArrayMap!Init
    BY EmptyListIsLinked DEF ArrayInit, ArrayMap!Init
<1>2. ArrayInv /\ [ArrayNext]_arrayVars => 
          [ArrayMap!Next]_[i \in Allocated(arrayNodes) |-> denseBlocks[placeOf[i]].Data]
    <2> SUFFICES ASSUME ArrayInv, [ArrayNext]_arrayVars
                 PROVE  ArrayMap!Next \/ map' = map
        BY DEF ArrayInUse
    <2>1. ASSUME NEW d \in ArrayData, EmplaceDatum(d)
          PROVE  ArrayMap!Next
        <3> PICK i : i = CreatedIndex(arrayNodes)
            OBVIOUS
        <3>1. /\ i \in ArrayIds /\ i \notin ArrayInUse /\ ArrayInUse' = ArrayInUse \cup {i}
              /\ denseBlocks'[placeOf'[i]].Data = d
              /\ \A j \in ArrayInUse :
                    denseBlocks'[placeOf'[j]].Data = denseBlocks[placeOf[j]].Data
            BY <2>1, EmplaceDatumStep DEF EmplaceDatum
        <3>2. map' = [j \in DOMAIN map \cup {i} |-> IF j = i THEN d ELSE map[j]]
            BY <3>1
        <3>3. ArrayMap!Add(i, d)
            BY <3>1, <3>2 DEF ArrayMap!Add, ArrayInUse
        <3> QED BY <3>1, <3>3 DEF ArrayMap!Next
    <2>2. ASSUME NEW i \in ArrayIds, EraseDatum(i)
          PROVE  ArrayMap!Next
        <3>1. /\ i \in ArrayInUse /\ ArrayInUse' = ArrayInUse \ {i}
              /\ \A j \in ArrayInUse \ {i} :
                    denseBlocks'[placeOf'[j]].Data = denseBlocks[placeOf[j]].Data
            BY <2>2, EraseDatumStep
        <3>2. map' = [j \in DOMAIN map \ {i} |-> map[j]]
            BY <3>1
        <3>3. ArrayMap!Remove(i)
            BY <3>1, <3>2 DEF ArrayMap!Remove, ArrayInUse
        <3> QED BY <3>3 DEF ArrayMap!Next
    <2>3. CASE UNCHANGED arrayVars
        BY <2>3 DEF arrayVars, ArrayInUse
    <2> QED BY <2>1, <2>2, <2>3 DEF ArrayNext
<1> QED BY <1>1, <1>2, ArrayInvariant, PTL
        DEF ArraySpec, ArrayImplementsIdMap, ArrayMap!Spec

HIDE NodeAssumption

-----------------------------------------------------------------------------
(* DbConnectionPool                                                        *)

USE PoolAssumption

PoolPcs == {"out", "lock", "test", "asleep", "notified", "holding", "release"}

PoolTypeInv ==
    /\ connections \subseteq Connections
    /\ poolMutex \in Clients \cup {NoClient}
    /\ clientPc \in [Clients -> PoolPcs]
    /\ connectionOf \in [Clients -> Connections \cup {NoConnection}]
    /\ acquires \in [Clients -> Nat]

\* A thread has a connection from the end of Acquire to Release.
HoldersHoldOne ==
    \A c \in Clients :
        connectionOf[c] # NoConnection <=> clientPc[c] \in {"holding", "release"}

\* The inductive invariant.
PoolInv == PoolTypeInv /\ HoldersHoldOne /\ PoolIsExact

\* The threads that have been notified, or look at the pool.
Looking == In("notified") \cup In("test")

-----------------------------------------------------------------------------
\* Whatever the threads do, the counted sets are finite
\* (DbConnectionPool.cpp:27-51).
LEMMA CountedSetsAreFinite ==
    ASSUME PoolTypeInv
    PROVE  /\ IsFiniteSet(connections) /\ Cardinality(connections) \in Nat
           /\ IsFiniteSet(Looking) /\ Cardinality(Looking) \in Nat
<1>1. IsFiniteSet(connections)
    BY FS_Subset DEF PoolTypeInv
<1>2. IsFiniteSet(Looking)
    BY FS_Subset, Looking \subseteq Clients DEF Looking, In
<1> QED BY <1>1, <1>2, FS_CardinalityType

\* The constructor makes the invariant true (DbConnectionPool.cpp:11-24).
LEMMA PoolInvInit == PoolInit => PoolInv
<1> SUFFICES ASSUME PoolInit PROVE PoolInv
    OBVIOUS
<1>1. PoolTypeInv
    BY DEF PoolInit, PoolTypeInv, PoolPcs
<1>2. HoldersHoldOne
    BY DEF PoolInit, HoldersHoldOne
<1>3. NoWaiterIsForgotten
    BY DEF PoolInit, NoWaiterIsForgotten, In
<1>4. ConnectionHasOneUser
    BY DEF PoolInit, ConnectionHasOneUser
<1> QED BY <1>1, <1>2, <1>3, <1>4 DEF PoolInv, PoolIsExact

\* Each step keeps the types and gives connections to holders alone
\* (DbConnectionPool.cpp:27-51, DbConnection.cpp:15-18).
LEMMA HoldersStep == PoolInv /\ [PoolNext]_poolVars => PoolTypeInv' /\ HoldersHoldOne'
<1> SUFFICES ASSUME PoolInv, [PoolNext]_poolVars
             PROVE  PoolTypeInv' /\ HoldersHoldOne'
    OBVIOUS
<1> USE DEF PoolInv, PoolTypeInv, HoldersHoldOne, PoolPcs, GotoClient, In
<1>1. ASSUME NEW c \in Clients, Acquire(c) PROVE PoolTypeInv' /\ HoldersHoldOne'
    BY <1>1 DEF Acquire
<1>2. ASSUME NEW c \in Clients, Lock(c) PROVE PoolTypeInv' /\ HoldersHoldOne'
    BY <1>2 DEF Lock
<1>3. ASSUME NEW c \in Clients, Test(c) PROVE PoolTypeInv' /\ HoldersHoldOne'
    BY <1>3 DEF Test
<1>4. ASSUME NEW c \in Clients, ReleaseLock(c) PROVE PoolTypeInv' /\ HoldersHoldOne'
    BY <1>4 DEF ReleaseLock
<1>5. ASSUME NEW c \in Clients, Release(c) PROVE PoolTypeInv' /\ HoldersHoldOne'
    BY <1>5 DEF Release, GiveBack, Notify
<1>6. ASSUME NEW c \in Clients, Spurious(c) PROVE PoolTypeInv' /\ HoldersHoldOne'
    BY <1>6 DEF Spurious
<1>7. CASE UNCHANGED poolVars
    BY <1>7 DEF poolVars
<1> QED BY <1>1, <1>2, <1>3, <1>4, <1>5, <1>6, <1>7
        DEF PoolNext, Client, Finished

\* A connection moves between the vector and one holder
\* (DbConnectionPool.cpp:36-43, 49).
LEMMA UserStep == PoolInv /\ [PoolNext]_poolVars => ConnectionHasOneUser'
<1> SUFFICES ASSUME PoolInv, [PoolNext]_poolVars PROVE ConnectionHasOneUser'
    OBVIOUS
<1> USE DEF PoolInv, PoolIsExact, ConnectionHasOneUser
<1>1. ASSUME NEW c \in Clients, Test(c), connections # {}
      PROVE  ConnectionHasOneUser'
    <2>1. PICK k \in connections :
              /\ connections' = connections \ {k}
              /\ connectionOf' = [connectionOf EXCEPT ![c] = k]
        BY <1>1 DEF Test
    <2>2. connectionOf[c] = NoConnection
        BY <1>1 DEF Test, HoldersHoldOne
    <2>3. \A d \in Clients : connectionOf'[d] = IF d = c THEN k ELSE connectionOf[d]
        BY <2>1 DEF PoolTypeInv
    <2>4. k \in Connections
        BY <2>1 DEF PoolTypeInv
    <2> QED BY <2>1, <2>2, <2>3, <2>4
<1>2. ASSUME NEW c \in Clients, Release(c) PROVE ConnectionHasOneUser'
    <2>1. /\ connections' = connections \cup {connectionOf[c]}
          /\ connectionOf' = [connectionOf EXCEPT ![c] = NoConnection]
        BY <1>2 DEF Release, GiveBack
    <2>2. connectionOf[c] \in Connections
        BY <1>2 DEF Release, HoldersHoldOne, PoolTypeInv
    <2>3. \A d \in Clients :
              connectionOf'[d] = IF d = c THEN NoConnection ELSE connectionOf[d]
        BY <2>1 DEF PoolTypeInv
    <2> QED BY <2>1, <2>2, <2>3
<1>3. CASE UNCHANGED <<connections, connectionOf>>
    BY <1>3
<1>4. ASSUME NEW c \in Clients, Test(c), connections = {}
      PROVE  UNCHANGED <<connections, connectionOf>>
    BY <1>4 DEF Test
<1> QED BY <1>1, <1>2, <1>3, <1>4
        DEF PoolNext, Client, Acquire, Lock, ReleaseLock, Spurious, Finished, poolVars

\* A step that takes no connection and gives none back forgets nobody, if it
\* keeps those that look at the pool (DbConnectionPool.cpp:27-34).
LEMMA KeepsLooking ==
    ASSUME PoolInv, PoolTypeInv', UNCHANGED connections,
           Looking \subseteq Looking', In("asleep")' # {} => In("asleep") # {}
    PROVE  NoWaiterIsForgotten'
<1>1. /\ Cardinality(Looking) \in Nat /\ Cardinality(connections) \in Nat
    BY CountedSetsAreFinite DEF PoolInv
<1>2. Looking' \subseteq Clients
    BY DEF Looking, In
<1>3. IsFiniteSet(Looking')
    BY <1>2, FS_Subset
<1>4. /\ Cardinality(Looking') \in Nat
      /\ Cardinality(Looking) =< Cardinality(Looking')
    BY <1>3, FS_Subset, FS_CardinalityType
<1> QED BY <1>1, <1>4 DEF PoolInv, PoolIsExact, NoWaiterIsForgotten, Looking

\* A connection that is taken is taken by a thread that was counted, and one
\* that comes back notifies a thread that was not (DbConnectionPool.cpp:36-51).
LEMMA WaiterStep == PoolInv /\ [PoolNext]_poolVars => NoWaiterIsForgotten'
<1> SUFFICES ASSUME PoolInv, [PoolNext]_poolVars PROVE NoWaiterIsForgotten'
    OBVIOUS
<1>0. PoolTypeInv'
    BY HoldersStep
<1>1. /\ IsFiniteSet(connections) /\ Cardinality(connections) \in Nat
      /\ IsFiniteSet(Looking) /\ Cardinality(Looking) \in Nat
    BY CountedSetsAreFinite DEF PoolInv
<1>2. In("asleep") # {} => Cardinality(connections) =< Cardinality(Looking)
    BY DEF PoolInv, PoolIsExact, NoWaiterIsForgotten, Looking
<1>3. ASSUME NEW c \in Clients, Acquire(c) \/ Lock(c) \/ ReleaseLock(c) \/ Spurious(c)
      PROVE  NoWaiterIsForgotten'
    <2>1. /\ UNCHANGED connections
          /\ Looking \subseteq Looking'
          /\ In("asleep")' # {} => In("asleep") # {}
        BY <1>3 DEF PoolInv, PoolTypeInv, PoolPcs, Acquire, Lock, ReleaseLock,
                    Spurious, GotoClient, In, Looking
    <2> QED BY <2>1, <1>0, KeepsLooking
<1>4. ASSUME NEW c \in Clients, Test(c), connections = {}
      PROVE  NoWaiterIsForgotten'
    <2>1. connections' = {} /\ Looking' \subseteq Clients
        BY <1>4 DEF Test, Looking, In
    <2>2. Cardinality(Looking') \in Nat
        BY <2>1, FS_Subset, FS_CardinalityType
    <2> QED BY <2>1, <2>2, FS_EmptySet DEF NoWaiterIsForgotten, Looking
<1>5. ASSUME NEW c \in Clients, Test(c), connections # {}
      PROVE  NoWaiterIsForgotten'
    <2>1. PICK k \in connections : connections' = connections \ {k}
        BY <1>5 DEF Test
    <2>2. Cardinality(connections') = Cardinality(connections) - 1
        BY <2>1, <1>1, FS_RemoveElement
    <2>3. /\ c \in Looking /\ Looking' = Looking \ {c}
          /\ In("asleep")' = In("asleep")
        BY <1>5 DEF Test, GotoClient, PoolInv, PoolTypeInv, Looking, In
    <2>4. Cardinality(Looking') = Cardinality(Looking) - 1
        BY <2>3, <1>1, FS_RemoveElement
    <2> QED BY <2>2, <2>3, <2>4, <1>1, <1>2 DEF NoWaiterIsForgotten, Looking
<1>6. ASSUME NEW c \in Clients, Release(c), In("asleep") = {}
      PROVE  NoWaiterIsForgotten'
    <2>1. In("asleep")' = {}
        BY <1>6 DEF Release, Notify, GotoClient, PoolInv, PoolTypeInv, In
    <2> QED BY <2>1 DEF NoWaiterIsForgotten
<1>7. ASSUME NEW c \in Clients, Release(c), In("asleep") # {}
      PROVE  NoWaiterIsForgotten'
    <2>1. PICK d \in In("asleep") :
              clientPc' = [clientPc EXCEPT ![c] = "out", ![d] = "notified"]
        BY <1>7 DEF Release, Notify
    <2>2. d \notin Looking /\ Looking' = Looking \cup {d}
        BY <2>1, <1>7 DEF Release, PoolInv, PoolTypeInv, Looking, In
    <2>3. Cardinality(Looking') = Cardinality(Looking) + 1
        BY <2>2, <1>1, FS_AddElement
    <2>4. connections' = connections \cup {connectionOf[c]}
        BY <1>7 DEF Release, GiveBack
    <2>5. Cardinality(connections') = IF connectionOf[c] \in connections
                                     THEN Cardinality(connections)
                                     ELSE Cardinality(connections) + 1
        BY <2>4, <1>1, FS_AddElement
    <2> QED BY <2>3, <2>5, <1>1, <1>2, <1>7 DEF NoWaiterIsForgotten, Looking
<1>8. CASE UNCHANGED poolVars
    BY <1>8 DEF poolVars, PoolInv, PoolIsExact, NoWaiterIsForgotten, In
<1> QED BY <1>3, <1>4, <1>5, <1>6, <1>7, <1>8 DEF PoolNext, Client, Finished

-----------------------------------------------------------------------------
\* No step of a thread in Acquire or Release breaks the invariant
\* (DbConnectionPool.cpp:27-51).
LEMMA PoolInvNext == PoolInv /\ [PoolNext]_poolVars => PoolInv'
    BY HoldersStep, UserStep, WaiterStep DEF PoolInv, PoolIsExact

\* Whatever the order of the threads, a connection has one user, none is lost,
\* and for each one in the pool that a sleeper could have a thread is on its way
\* to it (DbConnectionPool.cpp:27-51).
THEOREM PoolStaysExact == PoolSpec => []PoolIsExact
<1>1. PoolInit => PoolInv
    BY PoolInvInit
<1>2. PoolInv /\ [PoolNext]_poolVars => PoolInv'
    BY PoolInvNext
<1>3. PoolInv => PoolIsExact
    BY DEF PoolInv
<1> QED BY <1>1, <1>2, <1>3, PTL DEF PoolSpec

\* The connections in the pool are some of those that were opened, and only the
\* threads between Acquire and Release have one (DbConnectionPool.cpp:27-51).
THEOREM HoldersTypeCorrect == PoolSpec => [](PoolTypeInv /\ HoldersHoldOne)
<1>1. PoolInit => PoolInv
    BY PoolInvInit
<1>2. PoolInv /\ [PoolNext]_poolVars => PoolInv'
    BY PoolInvNext
<1>3. PoolInv => PoolTypeInv /\ HoldersHoldOne
    BY DEF PoolInv
<1> QED BY <1>1, <1>2, <1>3, PTL DEF PoolSpec
=============================================================================
