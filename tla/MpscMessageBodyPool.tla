-------------------------- MODULE MpscMessageBodyPool --------------------------
(***************************************************************************)
(* MpscMessageBodyPool.h: a lock-free list of free blocks per size class.  *)
(* Producers acquire a block for a message body; the one consumer gives it *)
(* back, with the size it was acquired for.                                *)
(***************************************************************************)
EXTENDS Naturals, FiniteSets, FiniteSetsExt

CONSTANTS Producers,
          Blocks,        \* bound: the blocks operator new may return
          BlockSizes,    \* the sizes of the classes
          MessageSizes,  \* bound: the sizes of the bodies
          NullBlock

\* A body that fits in no class ends the process (GetMemoryBlockListHeadFor).
ASSUME BodyAssumption ==
    /\ IsFiniteSet(Blocks) /\ NullBlock \notin Blocks
    /\ BlockSizes \subseteq Nat \ {0} /\ MessageSizes \subseteq Nat
    /\ \A size \in MessageSizes : \E s \in BlockSizes : size =< s

VARIABLES
    heads,       \* memoryBlockListHeads_
    nextBlock,   \* Next of each block; it is not part of the body
    sizeOf,      \* the size each block was allocated with, 0 before that
    acquirePc,
    wantedSize,  \* `size` of each producer,
    expected,    \* ... the head it has read
    successor,   \* ... and the Next of that block
    acquired,    \* ... and the block that Acquire has returned to it
    sent,        \* the bodies on their way to the consumer: <<block, size>>
    released,    \* the body the consumer gives back, or NullBlock and 0
    releasePc,
    seenHead     \* `expected` of Release

acquireVars == <<acquirePc, wantedSize, expected, successor, acquired>>
releaseVars == <<released, releasePc, seenHead>>
bodyVars == <<heads, nextBlock, sizeOf, acquireVars, sent, releaseVars>>

BodyInit ==
    /\ heads = [s \in BlockSizes |-> NullBlock]
    /\ nextBlock = [b \in Blocks |-> NullBlock]
    /\ sizeOf = [b \in Blocks |-> 0]
    /\ acquirePc = [p \in Producers |-> "idle"]
    /\ wantedSize = [p \in Producers |-> 0]
    /\ expected = [p \in Producers |-> NullBlock]
    /\ successor = [p \in Producers |-> NullBlock]
    /\ acquired = [p \in Producers |-> NullBlock]
    /\ sent = {}
    /\ released = <<NullBlock, 0>>
    /\ releasePc = "idle"
    /\ seenHead = NullBlock

\* GetMemoryBlockListHeadFor; a larger size aborts.
BlockSizeFor(size) == Min({s \in BlockSizes : size =< s})

-----------------------------------------------------------------------------
(* Acquire.                                                                *)

\* The head is in `expected`: the loop goes on with its Next, or ends.
Expect(p, head) ==
    /\ expected' = [expected EXCEPT ![p] = head]
    /\ acquirePc' = [acquirePc EXCEPT ![p] =
                        IF head = NullBlock THEN "allocate" ELSE "read"]

AcquireLoad(p, size) ==
    /\ acquirePc[p] = "idle"
    /\ wantedSize' = [wantedSize EXCEPT ![p] = size]
    /\ Expect(p, heads[BlockSizeFor(size)])
    /\ UNCHANGED <<heads, nextBlock, sizeOf, successor, acquired, sent, releaseVars>>

\* expected->Next, the argument of the compare and exchange.
AcquireRead(p) ==
    /\ acquirePc[p] = "read"
    /\ successor' = [successor EXCEPT ![p] = nextBlock[expected[p]]]
    /\ acquirePc' = [acquirePc EXCEPT ![p] = "exchange"]
    /\ UNCHANGED <<heads, nextBlock, sizeOf, wantedSize, expected, acquired,
                   sent, releaseVars>>

Return(p, b) ==
    /\ acquired' = [acquired EXCEPT ![p] = b]
    /\ acquirePc' = [acquirePc EXCEPT ![p] = "filled"]

\* compare_exchange_weak, which may fail for no reason.
AcquireExchange(p) ==
    LET s == BlockSizeFor(wantedSize[p])
    IN /\ acquirePc[p] = "exchange"
       /\ \/ /\ heads[s] = expected[p]
             /\ heads' = [heads EXCEPT ![s] = successor[p]]
             /\ Return(p, expected[p])
             /\ UNCHANGED expected
          \/ /\ Expect(p, heads[s])
             /\ UNCHANGED <<heads, acquired>>
       /\ UNCHANGED <<nextBlock, sizeOf, wantedSize, successor, sent, releaseVars>>

AcquireAllocate(p) ==
    /\ acquirePc[p] = "allocate"
    /\ \E b \in {b \in Blocks : sizeOf[b] = 0} :
           /\ sizeOf' = [sizeOf EXCEPT ![b] = BlockSizeFor(wantedSize[p])]
           /\ Return(p, b)
    /\ UNCHANGED <<heads, nextBlock, wantedSize, expected, successor, sent,
                   releaseVars>>

\* The producer fills the body and hands it to the consumer.
Send(p) ==
    /\ acquirePc[p] = "filled"
    /\ sent' = sent \cup {<<acquired[p], wantedSize[p]>>}
    /\ acquired' = [acquired EXCEPT ![p] = NullBlock]
    /\ acquirePc' = [acquirePc EXCEPT ![p] = "idle"]
    /\ UNCHANGED <<heads, nextBlock, sizeOf, wantedSize, expected, successor,
                   releaseVars>>

-----------------------------------------------------------------------------
(* Release.                                                                *)

ReleaseLoad(body) ==
    /\ releasePc = "idle" /\ body \in sent
    /\ sent' = sent \ {body}
    /\ released' = body
    /\ seenHead' = heads[BlockSizeFor(body[2])]
    /\ releasePc' = "link"
    /\ UNCHANGED <<heads, nextBlock, sizeOf, acquireVars>>

ReleaseLink ==
    /\ releasePc = "link"
    /\ nextBlock' = [nextBlock EXCEPT ![released[1]] = seenHead]
    /\ releasePc' = "exchange"
    /\ UNCHANGED <<heads, sizeOf, acquireVars, sent, released, seenHead>>

\* Mutant: a failed exchange does not link the block again.
ReleaseExchangeStaleNext ==
    LET s == BlockSizeFor(released[2])
    IN /\ releasePc = "exchange"
       /\ \/ /\ heads[s] = seenHead
             /\ heads' = [heads EXCEPT ![s] = released[1]]
             /\ released' = <<NullBlock, 0>>
             /\ releasePc' = "idle"
             /\ UNCHANGED seenHead
          \/ /\ seenHead' = heads[s]
             /\ UNCHANGED <<heads, released, releasePc>>
       /\ UNCHANGED <<nextBlock, sizeOf, acquireVars, sent>>

ReleaseExchange ==
    LET s == BlockSizeFor(released[2])
    IN /\ releasePc = "exchange"
       /\ \/ /\ heads[s] = seenHead
             /\ heads' = [heads EXCEPT ![s] = released[1]]
             /\ released' = <<NullBlock, 0>>
             /\ releasePc' = "idle"
             /\ UNCHANGED seenHead
          \/ /\ seenHead' = heads[s]
             /\ releasePc' = "link"
             /\ UNCHANGED <<heads, released>>
       /\ UNCHANGED <<nextBlock, sizeOf, acquireVars, sent>>

BodyNext ==
    \/ \E p \in Producers :
          \/ \E size \in MessageSizes : AcquireLoad(p, size)
          \/ AcquireRead(p) \/ AcquireExchange(p) \/ AcquireAllocate(p) \/ Send(p)
    \/ \E body \in sent : ReleaseLoad(body)
    \/ ReleaseLink \/ ReleaseExchange

BodySpec == BodyInit /\ [][BodyNext]_bodyVars

-----------------------------------------------------------------------------
(* Properties.                                                             *)

Free(s) ==
    LET chain[k \in 0..Cardinality(Blocks)] ==
            IF k = 0 THEN heads[s]
            ELSE IF chain[k - 1] = NullBlock THEN NullBlock
            ELSE nextBlock[chain[k - 1]]
    IN {chain[k] : k \in 0..Cardinality(Blocks)} \ {NullBlock}

\* Acquire gives a block to one producer, and not again before its Release
\* (MpscMessageBodyPool.h:33-52, "safe for several producers" in 14-17).
BlockHasOneOwner ==
    /\ \A p \in Producers : acquired[p] # NullBlock =>
          /\ \A q \in Producers \ {p} : acquired[q] # acquired[p]
          /\ \A body \in sent \cup {released} : body[1] # acquired[p]
          /\ \A s \in BlockSizes : acquired[p] \notin Free(s)
    /\ \A body \in sent : \A other \in (sent \ {body}) \cup {released} :
          other[1] # body[1]

\* Every block is with a producer, on its way or in its list: neither side
\* overwrites what the other has done to a head (MpscMessageBodyPool.h:42-43,
\* 65-72).
NoBlockIsLost ==
    \A b \in Blocks : sizeOf[b] # 0 =>
        \/ \E p \in Producers : acquired[p] = b
        \/ \E body \in sent \cup {released} : body[1] = b
        \/ b \in Free(sizeOf[b])

\* No body is written beyond the end of its block, also after the block has
\* been through a free list (MpscMessageBodyPool.h:35, 56, 98-136).
BodyFitsItsBlock ==
    \A p \in Producers :
        acquired[p] # NullBlock => wantedSize[p] =< sizeOf[acquired[p]]

\* What one producer and the consumer can rely on.
BlocksAreSound == BlockHasOneOwner /\ NoBlockIsLost /\ BodyFitsItsBlock
=============================================================================
