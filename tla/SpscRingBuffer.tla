---------------------------- MODULE SpscRingBuffer ----------------------------
(***************************************************************************)
(* SpscRingBuffer.h: a ring of bytes between one producer and one consumer *)
(* without a lock.  The producer enqueues blocks of characters; a block of *)
(* another type, which would go through tempEnqueueBuffer_ where the ring  *)
(* wraps, is left out, because that buffer is never allocated.             *)
(*                                                                         *)
(* The k-th byte of the stream has the value k % ByteValues.               *)
(***************************************************************************)
EXTENDS RingArithmetic

CONSTANTS Capacity,
          SpscBlockSizes,    \* the sizes of the blocks, MaxBlockSize the largest
          ByteValues     \* bound: more than Capacity

ASSUME SpscAssumption ==
    /\ Capacity \in Nat \ {0} /\ ByteValues \in Nat \ {0}
    /\ SpscBlockSizes \subseteq Nat

VARIABLES
    ringBuffer,
    ringHead, ringTail,   \* head_ and tail_
    tempDequeue,          \* tempDequeueBuffer_
    enqueuePc,
    enqueueSize, stored,  \* of the producer: its block, the bytes it has copied
    produced,             \* the value of the next byte of the stream
    dequeuePc,
    dequeueSize, copied,  \* of the consumer
    consumed              \* the value of the byte the consumer comes to next

producerVars == <<ringTail, enqueuePc, enqueueSize, stored, produced>>
consumerVars == <<ringHead, tempDequeue, dequeuePc, dequeueSize, copied, consumed>>
ringVars == <<ringBuffer, producerVars, consumerVars>>

RingInit ==
    /\ ringBuffer = [i \in 0..Capacity - 1 |-> 0]
    /\ ringHead = 0 /\ ringTail = 0
    /\ tempDequeue = <<>>
    /\ enqueuePc = "idle" /\ enqueueSize = 0 /\ stored = 0 /\ produced = 0
    /\ dequeuePc = "idle" /\ dequeueSize = 0 /\ copied = 0 /\ consumed = 0

-----------------------------------------------------------------------------
(* TryEnqueue.                                                             *)

\* Mutant: the slot that keeps a full ring from looking empty is used.
HasRoomToTheLastSlot(size) == size =< Available(Capacity, ringHead, ringTail) + 1

\* GetBufferStatus: the two loads are one step, since the producer alone
\* writes tail_.
HasRoom(size) == size =< Available(Capacity, ringHead, ringTail)

TryEnqueue(size) ==
    /\ enqueuePc = "idle" /\ HasRoom(size)
    /\ enqueuePc' = "copy" /\ enqueueSize' = size /\ stored' = 0
    /\ UNCHANGED <<ringBuffer, ringTail, produced, consumerVars>>

\* A byte of one of the two memcpy.
Store ==
    /\ enqueuePc = "copy" /\ stored < enqueueSize
    /\ ringBuffer' = [ringBuffer EXCEPT ![Advance(Capacity, ringTail, stored)] =
                          (produced + stored) % ByteValues]
    /\ stored' = stored + 1
    /\ UNCHANGED <<ringTail, enqueuePc, enqueueSize, produced, consumerVars>>

Publish ==
    /\ enqueuePc = "copy" /\ stored = enqueueSize
    /\ ringTail' = Advance(Capacity, ringTail, enqueueSize)
    /\ produced' = (produced + enqueueSize) % ByteValues
    /\ enqueuePc' = "idle"
    /\ UNCHANGED <<ringBuffer, enqueueSize, stored, consumerVars>>

-----------------------------------------------------------------------------
(* TryPeek and Dequeue.                                                    *)

InOnePiece(size) == size =< Capacity - ringHead

\* A pointer into the ring, or a copy that begins.
TryPeek(size) ==
    /\ dequeuePc = "idle" /\ Readable(Capacity, ringHead, ringTail, size)
    /\ dequeuePc' = IF InOnePiece(size) THEN "use" ELSE "copy"
    /\ dequeueSize' = size /\ copied' = 0 /\ tempDequeue' = <<>>
    /\ UNCHANGED <<ringBuffer, producerVars, ringHead, consumed>>

Load ==
    /\ dequeuePc = "copy" /\ copied < dequeueSize
    /\ tempDequeue' = Append(tempDequeue,
                             ringBuffer[Advance(Capacity, ringHead, copied)])
    /\ copied' = copied + 1
    /\ dequeuePc' = IF copied' = dequeueSize THEN "use" ELSE "copy"
    /\ UNCHANGED <<ringBuffer, producerVars, ringHead, dequeueSize, consumed>>

Dequeue ==
    /\ dequeuePc = "use"
    /\ ringHead' = Advance(Capacity, ringHead, dequeueSize)
    /\ consumed' = (consumed + dequeueSize) % ByteValues
    /\ dequeuePc' = "idle"
    /\ UNCHANGED <<ringBuffer, producerVars, tempDequeue, dequeueSize, copied>>

RingNext == \/ \E size \in SpscBlockSizes : TryEnqueue(size) \/ TryPeek(size)
        \/ Store \/ Publish \/ Load \/ Dequeue

RingSpec == RingInit /\ [][RingNext]_ringVars

-----------------------------------------------------------------------------
(* Properties.                                                             *)

\* What the consumer sees through the pointer that TryPeek has returned.
Peeked == IF InOnePiece(dequeueSize)
          THEN Read(ringBuffer, Capacity, ringHead, dequeueSize)
          ELSE tempDequeue

\* Until its Dequeue the consumer sees the next bytes of the stream, also
\* where the ring wraps: the producer never writes to what it has been given
\* (SpscRingBuffer.h:12-14, 48-108, 130-138).
PeekedBytesAreNext ==
    dequeuePc = "use" =>
        Peeked = [i \in 1..dequeueSize |-> (consumed + i - 1) % ByteValues]
=============================================================================
