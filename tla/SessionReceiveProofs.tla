------------------------- MODULE SessionReceiveProofs -------------------------
(***************************************************************************)
(* Proofs about the receiving half of a Session, for every capacity of the *)
(* rings, every list of messages and every set of workers.                 *)
(***************************************************************************)
EXTENDS SessionReceive, RingArithmeticProofs, SequenceTheorems, WellFoundedInduction

-----------------------------------------------------------------------------
(* The headers of the client's messages.                                   *)

\* The equations of HeaderOf have a solution, so that HeaderOf is one: message
\* n + 1 begins behind the header and the body of message n (Session.cpp:280-337).
LEMMA HeaderOfEquations ==
    /\ HeaderOf \in [1..Len(BodySizes) + 1 -> Nat \ {0}]
    /\ HeaderOf[1] = 1
    /\ \A n \in 1..Len(BodySizes) : HeaderOf[n + 1] = HeaderOf[n] + 1 + BodySizes[n]
  <1> DEFINE N == Len(BodySizes)
             Solves(g, k) == /\ g \in [1..k -> Nat \ {0}]
                             /\ g[1] = 1
                             /\ \A n \in 1..k - 1 : g[n + 1] = g[n] + 1 + BodySizes[n]
             T == {k \in 1..N + 1 : ~ \E g : Solves(g, k)}
  <1>1. N \in Nat /\ BodySizes \in [1..N -> Nat]
    BY ReceiveAssumption
  <1>2. T = {}
    <2> SUFFICES ASSUME T # {} PROVE FALSE
      OBVIOUS
    <2>1. PICK k \in T : \A j \in T : k =< j
      <3>1. T \in SUBSET Nat
        BY <1>1
      <3> HIDE DEF T
      <3> QED
        BY <3>1, LeastNumber
    <2>2. CASE k = 1
      <3>1. Solves([n \in 1..1 |-> 1], 1)
        OBVIOUS
      <3> QED
        BY <2>2, <3>1
    <2>3. CASE k # 1
      <3>1. k - 1 \in 1..N + 1 /\ k - 1 \notin T
        <4>1. k \in 1..N + 1
          OBVIOUS
        <4>2. k - 1 \in 1..N + 1 /\ ~(k =< k - 1)
          BY <1>1, <2>3, <4>1
        <4> HIDE DEF T
        <4> QED
          BY <2>1, <4>2
      <3>2. PICK g : Solves(g, k - 1)
        BY <3>1
      <3> DEFINE h == [n \in 1..k |-> IF n = k THEN g[k - 1] + 1 + BodySizes[k - 1] ELSE g[n]]
      <3>3. k \in 1..N + 1 /\ k - 1 \in 1..N
        BY <1>1, <3>1
      <3>4. h \in [1..k -> Nat \ {0}]
        <4>1. g[k - 1] \in Nat \ {0} /\ BodySizes[k - 1] \in Nat
          <5>1. k - 1 \in 1..k - 1
            BY <3>3
          <5> QED
            BY <1>1, <3>2, <3>3, <5>1
        <4>2. \A n \in 1..k : n # k => g[n] \in Nat \ {0}
          BY <3>2, <3>3
        <4> QED
          BY <4>1, <4>2
      <3>5. h[1] = 1
        BY <3>2, <3>3, <2>3
      <3>6. ASSUME NEW n \in 1..k - 1
            PROVE  h[n + 1] = h[n] + 1 + BodySizes[n]
        <4>1. CASE n = k - 1
          BY <3>3, <4>1
        <4>2. CASE n # k - 1
          <5>1. n \in 1..(k - 1) - 1
            BY <3>3, <4>2
          <5>2. g[n + 1] = g[n] + 1 + BodySizes[n]
            BY <5>1, <3>2
          <5>3. h[n + 1] = g[n + 1] /\ h[n] = g[n]
            BY <3>3, <5>1
          <5> QED
            BY <5>2, <5>3
        <4> QED
          BY <4>1, <4>2
      <3>7. Solves(h, k)
        BY <3>4, <3>5, <3>6
      <3> HIDE DEF h, Solves
      <3> QED
        BY <3>7, <2>1
    <2> QED
      BY <2>2, <2>3
  <1>3. PICK g : Solves(g, N + 1)
    <2> HIDE DEF Solves
    <2>1. N + 1 \in 1..N + 1
      BY <1>1
    <2> QED
      BY <2>1, <1>2
  <1>4. g = [n \in 1..N + 1 |-> IF n = 1 THEN 1 ELSE g[n - 1] + 1 + BodySizes[n - 1]]
    <2>1. \A n \in 1..N + 1 : n # 1 => n - 1 \in 1..(N + 1) - 1 /\ (n - 1) + 1 = n
      BY <1>1
    <2>2. \A n \in 1..N + 1 : n # 1 => g[n] = g[n - 1] + 1 + BodySizes[n - 1]
      BY <2>1, <1>3
    <2> QED
      BY <1>3, <2>2
  <1>5. HeaderOf = [n \in 1..N + 1 |-> IF n = 1 THEN 1
                                       ELSE HeaderOf[n - 1] + 1 + BodySizes[n - 1]]
    <2> HIDE DEF Solves
    <2> QED
      BY <1>4 DEF HeaderOf
  <1> HIDE DEF Solves, T, N
  <1>6. HeaderOf[1] = 1 /\ DOMAIN HeaderOf = 1..N + 1
    BY <1>1, <1>5
  <1>7. \A n \in 1..N : HeaderOf[n + 1] = HeaderOf[n] + 1 + BodySizes[n]
    <2> SUFFICES ASSUME NEW n \in 1..N PROVE HeaderOf[n + 1] = HeaderOf[n] + 1 + BodySizes[n]
      OBVIOUS
    <2>1. n + 1 \in 1..N + 1 /\ n + 1 # 1 /\ (n + 1) - 1 = n
      BY <1>1
    <2> QED
      BY <1>5, <2>1
  <1>8. HeaderOf = [n \in 1..N + 1 |-> HeaderOf[n]]
    BY <1>5
  <1> DEFINE Bad == {n \in 1..N + 1 : HeaderOf[n] \notin Nat \ {0}}
  <1>9. Bad = {}
    <2> SUFFICES ASSUME Bad # {} PROVE FALSE
      OBVIOUS
    <2>1. PICK k \in Bad : \A j \in Bad : k =< j
      <3>1. Bad \in SUBSET Nat
        BY <1>1
      <3> HIDE DEF Bad
      <3> QED
        BY <3>1, LeastNumber
    <2>2. k \in 1..N + 1 /\ k # 1
      BY <1>6, <2>1
    <2>3. k - 1 \in 1..N /\ k - 1 \notin Bad /\ (k - 1) + 1 = k
      BY <1>1, <2>1, <2>2
    <2>4. HeaderOf[k - 1] \in Nat \ {0} /\ BodySizes[k - 1] \in Nat
      BY <1>1, <2>3
    <2>5. HeaderOf[k] = HeaderOf[k - 1] + 1 + BodySizes[k - 1]
      BY <1>7, <2>3
    <2> QED
      BY <2>1, <2>4, <2>5
  <1> QED
    BY <1>6, <1>7, <1>8, <1>9 DEF N

\* A later message begins behind an earlier one, so that a cell is the header
\* of at most one (Session.cpp:280-337).
LEMMA HeadersIncrease ==
    \A a, b \in 1..Len(BodySizes) + 1 : a < b => HeaderOf[a] < HeaderOf[b]
  <1> DEFINE N == Len(BodySizes)
  <1>1. N \in Nat /\ \A n \in 1..N : BodySizes[n] \in Nat
    BY ReceiveAssumption
  <1> SUFFICES ASSUME NEW a \in 1..N + 1
               PROVE  \A b \in 1..N + 1 : a < b => HeaderOf[a] < HeaderOf[b]
    OBVIOUS
  <1> DEFINE T == {b \in 1..N + 1 : a < b /\ ~(HeaderOf[a] < HeaderOf[b])}
  <1>2. T = {}
    <2> SUFFICES ASSUME T # {} PROVE FALSE
      OBVIOUS
    <2>1. PICK k \in T : \A j \in T : k =< j
      <3>1. T \in SUBSET Nat
        BY <1>1
      <3> HIDE DEF T
      <3> QED
        BY <3>1, LeastNumber
    <2>2. k \in 1..N + 1 /\ a < k /\ ~(HeaderOf[a] < HeaderOf[k])
      OBVIOUS
    <2>3. k - 1 \in 1..N /\ k - 1 \in 1..N + 1 /\ (k - 1) + 1 = k /\ ~(k =< k - 1)
      BY <1>1, <2>2
    <2>4. k - 1 \notin T
      <3> HIDE DEF T
      <3> QED
        BY <2>1, <2>3
    <2>5. /\ HeaderOf[k] = HeaderOf[k - 1] + 1 + BodySizes[k - 1]
          /\ HeaderOf[k - 1] \in Nat /\ BodySizes[k - 1] \in Nat
          /\ HeaderOf[a] \in Nat
      BY <1>1, <2>3, HeaderOfEquations
    <2>6. a = k - 1 \/ HeaderOf[a] < HeaderOf[k - 1]
      BY <1>1, <2>2, <2>3, <2>4
    <2> QED
      BY <2>2, <2>5, <2>6
  <1> QED
    BY <1>2

\* The cells: a header is one, unless it is the one behind the last message,
\* and so are those of its body.
LEMMA CellFacts ==
    /\ LastCell \in Nat
    /\ \A n \in 1..Len(BodySizes) + 1 : HeaderOf[n] \in 1..LastCell + 1
    /\ \A n \in Messages : /\ n \in 1..Len(BodySizes) + 1 /\ n + 1 \in 1..Len(BodySizes) + 1
                           /\ HeaderOf[n + 1] = HeaderOf[n] + 1 + BodySizes[n]
                           /\ HeaderOf[n] \in Cells /\ BodySizes[n] \in Nat
                           /\ Body(n) \in Seq(Cells)
    /\ \A n \in 1..Len(BodySizes) + 1 : HeaderOf[n] \in Cells => n \in Messages
    /\ \A m, n \in 1..Len(BodySizes) + 1 : HeaderOf[m] = HeaderOf[n] => m = n
  <1> DEFINE N == Len(BodySizes)
  <1>1. N \in Nat /\ Messages = 1..N /\ \A n \in 1..N : BodySizes[n] \in Nat
    BY ReceiveAssumption DEF Messages
  <1>2. \A n \in 1..N + 1 : HeaderOf[n] \in Nat \ {0}
    BY HeaderOfEquations
  <1>3. N + 1 \in 1..N + 1
    BY <1>1
  <1>4. LastCell \in Nat /\ LastCell + 1 = HeaderOf[N + 1]
    BY <1>2, <1>3 DEF LastCell
  <1>5. \A n \in 1..N + 1 : n # N + 1 => HeaderOf[n] < HeaderOf[N + 1]
    BY <1>1, <1>3, HeadersIncrease
  <1>6. \A n \in 1..N + 1 : HeaderOf[n] \in 1..LastCell + 1
    BY <1>2, <1>4, <1>5
  <1>7. ASSUME NEW n \in 1..N
        PROVE  /\ n \in 1..N + 1 /\ n + 1 \in 1..N + 1
               /\ HeaderOf[n + 1] = HeaderOf[n] + 1 + BodySizes[n]
               /\ HeaderOf[n] \in Cells /\ BodySizes[n] \in Nat
               /\ Body(n) \in Seq(Cells)
    <2>1. n \in 1..N + 1 /\ n + 1 \in 1..N + 1 /\ BodySizes[n] \in Nat
      BY <1>1
    <2>2. HeaderOf[n + 1] = HeaderOf[n] + 1 + BodySizes[n]
      BY HeaderOfEquations
    <2>3. HeaderOf[n] \in 1..LastCell + 1 /\ HeaderOf[n + 1] \in 1..LastCell + 1
      BY <1>6, <2>1
    <2>4. ASSUME NEW i \in 1..BodySizes[n]
          PROVE  HeaderOf[n] + i \in 1..LastCell
      <3>1. HeaderOf[n] + i + 1 =< HeaderOf[n + 1]
        BY <2>1, <2>2, <2>3
      <3>2. /\ HeaderOf[n + 1] \in Nat /\ HeaderOf[n + 1] =< LastCell + 1
            /\ HeaderOf[n] \in Nat \ {0} /\ LastCell \in Nat /\ i \in Nat
        BY <1>4, <2>1, <2>3
      <3>3. ASSUME NEW a \in Nat \ {0}, NEW b \in Nat, NEW c \in Nat, NEW d \in Nat,
                   a + b + 1 =< c, c =< d + 1
            PROVE  a + b \in 1..d
        BY <3>3
      <3> QED
        BY <3>1, <3>2, <3>3
    <2>5. HeaderOf[n] \in 1..LastCell
      BY <1>4, <2>1, <2>2, <2>3
    <2>6. Body(n) \in [1..BodySizes[n] -> Cells]
      BY <2>4 DEF Cells, Body
    <2>7. Body(n) \in Seq(Cells)
      BY <2>1, <2>6
    <2> QED
      BY <2>1, <2>2, <2>5, <2>7 DEF Cells
  <1>8. \A n \in 1..N + 1 : HeaderOf[n] \in Cells => n \in 1..N
    BY <1>1, <1>4 DEF Cells
  <1>9. ASSUME NEW m \in 1..N + 1, NEW n \in 1..N + 1, HeaderOf[m] = HeaderOf[n]
        PROVE  m = n
    <2>1. ~(m < n) /\ ~(n < m)
      BY <1>2, <1>9, HeadersIncrease
    <2> QED
      BY <1>1, <2>1
  <1> QED
    BY <1>1, <1>4, <1>6, <1>7, <1>8, <1>9

\* A header cell gives the size of its message and no other (Session.cpp:294-304).
LEMMA SizesAtHeader ==
    ASSUME NEW n \in Messages
    PROVE  SizesAt(HeaderOf[n]) = {BodySizes[n]}
  <1>1. {m \in Messages : HeaderOf[m] = HeaderOf[n]} = {n}
    BY CellFacts
  <1> QED
    BY <1>1 DEF SizesAt

-----------------------------------------------------------------------------
(* The inductive invariant.                                                *)

TlsSize == GetRingBufferSize(BufferCapacity, tlsHead, tlsTail)
AppSize == GetRingBufferSize(BufferCapacity, appHead, appTail)

\* The workers between the completion of a Receive and the start of the next.
OwnsReceive(w) == pc[w] \in {"advance", "process", "decrypt", "receive"}

\* There is one of them or a pending WSARecv, and the ring is empty but for
\* what the owner is about to hand to the BIO.
ReceiveIsOwned ==
    /\ \A w, x \in Workers : OwnsReceive(w) /\ OwnsReceive(x) => w = x
    /\ receiving => \A w \in Workers : ~OwnsReceive(w)
    /\ tlsHead # tlsTail => \E w \in Workers : At(w, "process")

\* What has been received and not yet read is cells.
TlsRingIsFilled ==
    /\ \A w \in Workers : At(w, "advance") =>
           /\ tlsTail + transferred[w] =< BufferCapacity
           /\ \A i \in 0..transferred[w] - 1 :
                  receiveTlsBuffer[Advance(BufferCapacity, tlsTail, i)] \in Cells
    /\ \A i \in 0..TlsSize - 1 :
           receiveTlsBuffer[Advance(BufferCapacity, tlsHead, i)] \in Cells

\* Where the slots are whose cells are not yet in the BIO, as long as no Receive
\* has filled the ring: behind the tail, or between the head and the tail.
UnreadIsOwned ==
    "FullReceive" \notin events =>
        /\ \A w \in Workers : At(w, "advance") => transferred[w] < BufferCapacity
        /\ \A slot \in unread :
              \/ \E i \in 0..TlsSize - 1 : slot = Advance(BufferCapacity, tlsHead, i)
              \/ \E w \in Workers : /\ At(w, "advance")
                                    /\ slot \in tlsTail..tlsTail + transferred[w] - 1

\* The mutex has one owner.
LockIsExclusive ==
    /\ \A w \in Workers : pc[w] \in {"decrypt", "decryptForSend"} => processing = w
    /\ "WantRead" \notin events =>
           \A w \in Workers : pc[w] \notin {"processForSend", "decryptForSend"}

Clean == "Overlap" \notin events /\ ~({"Lost", "WantRead"} \subseteq events)

\* The messages that have been pushed and popped.
Popped == IF \E w \in Workers : At(w, "pop") THEN Len(mailbox) - 1 ELSE Len(mailbox)

\* The ReceiveAppBuffer begins with the header of the next message and goes on
\* cell by cell, up to what SSL_read has taken.
StreamInOrder ==
    /\ Popped \in 0..Len(BodySizes)
    /\ \A i \in 0..AppSize - 1 :
           receiveAppBuffer[Advance(BufferCapacity, appHead, i)]
             = HeaderOf[Popped + 1] + i
    /\ HeaderOf[Popped + 1] + AppSize =< LastCell + 1
    /\ "Lost" \notin events => decrypted + 1 = HeaderOf[Popped + 1] + AppSize

\* A peeked message is the next one and stays where it is until its pop.
PeekedIsNext ==
    /\ \A w, x \in Workers : HoldsMessage(w) /\ HoldsMessage(x) => w = x
    /\ \A w \in Workers : HoldsMessage(w) =>
           /\ Popped + 1 \in Messages
           /\ peeked[w].header = HeaderOf[Popped + 1]
           /\ peeked[w].size = BodySizes[Popped + 1]
           /\ 1 + peeked[w].size =< AppSize
           /\ IF peeked[w].at = InPopBuffer
              THEN contiguousPopBuffer = Body(Popped + 1)
              ELSE peeked[w].at = Advance(BufferCapacity, appHead, 1)

MailboxInOrder ==
    \A n \in 1..Len(mailbox) :
        /\ n \in Messages
        /\ mailbox[n] = [header |-> HeaderOf[n], body |-> Body(n)]

\* The head that the owner of the mutex has loaded is the head or behind it.
LoadedHeadIsBehind ==
    processing # Nobody =>
        GetRingBufferSize(BufferCapacity, loadedHead, appTail) >= AppSize

\* After a loss nobody is left who would decrypt.
LossIsFinal ==
    "Lost" \in events =>
        /\ ~receiving
        /\ \A w \in Workers : /\ ~OwnsReceive(w)
                              /\ pc[w] \notin {"processForSend", "decryptForSend"}

AppInv == /\ StreamInOrder /\ PeekedIsNext /\ MailboxInOrder
          /\ LoadedHeadIsBehind /\ LossIsFinal

IInv == /\ TypeOK /\ ReceiveIsOwned /\ TlsRingIsFilled /\ UnreadIsOwned
        /\ LockIsExclusive
        /\ (Clean => AppInv)

-----------------------------------------------------------------------------
(* Types.                                                                  *)

\* The constants, as the rings need them.
LEMMA ConstantFacts ==
    /\ BufferCapacity \in Nat \ {0} /\ BufferCapacity > 1
    /\ Slots = 0..BufferCapacity - 1
    /\ BodyLimit \in Nat /\ BodyLimit = BufferCapacity - 1
    /\ LastCell \in Nat /\ Cells = 1..LastCell
    /\ Nobody \notin Workers
    /\ Len(BodySizes) \in Nat /\ Messages = 1..Len(BodySizes)
  BY ReceiveAssumption, CellFacts DEF Slots, BodyLimit, Cells, Messages

\* The positions in the two rings and their slots (Session.h).
LEMMA RingFacts ==
    ASSUME TypeOK
    PROVE  /\ tlsHead \in 0..BufferCapacity - 1 /\ tlsTail \in 0..BufferCapacity - 1
           /\ appHead \in 0..BufferCapacity - 1 /\ appTail \in 0..BufferCapacity - 1
           /\ loadedHead \in 0..BufferCapacity - 1
           /\ receiveTlsBuffer \in [0..BufferCapacity - 1 -> 0..LastCell]
           /\ receiveAppBuffer \in [0..BufferCapacity - 1 -> 0..LastCell]
           /\ 0 \in Slots /\ Cells \subseteq 0..LastCell
  <1>1. Slots = 0..BufferCapacity - 1 /\ 0 \in Slots /\ Cells \subseteq 0..LastCell
    BY ConstantFacts
  <1> QED
    BY <1>1 DEF TypeOK

\* The sizes of the two rings (Session.h, GetReadableSizes).
LEMMA SizeFacts ==
    ASSUME TypeOK
    PROVE  /\ TlsSize \in 0..BufferCapacity - 1 /\ AppSize \in 0..BufferCapacity - 1
           /\ FreeSlots \in 0..BufferCapacity - 1
           /\ TlsSize = 0 <=> tlsHead = tlsTail
  BY ConstantFacts, SizeType DEF TypeOK, TlsSize, AppSize, FreeSlots

\* What is drained from the ReceiveTlsBuffer is cells, and all there are
\* (Session.cpp:341-379).
LEMMA DrainedCells ==
    ASSUME TypeOK, TlsRingIsFilled
    PROVE  /\ Drained \in Seq(Cells)
           /\ Len(Drained) = TlsSize
           /\ Advance(BufferCapacity, tlsHead, Len(Drained)) = tlsTail
  <1>1. TlsSize \in 0..BufferCapacity - 1 /\ tlsHead \in Slots /\ tlsTail \in Slots
    BY SizeFacts DEF TypeOK
  <1>2. receiveTlsBuffer \in [Slots -> 0..LastCell]
    BY DEF TypeOK
  <1>3. /\ Drained \in Seq(0..LastCell) /\ Len(Drained) = TlsSize
        /\ \A i \in 1..TlsSize :
              Drained[i] = receiveTlsBuffer[Advance(BufferCapacity, tlsHead, i - 1)]
    <2>1. Drained = Read(receiveTlsBuffer, BufferCapacity, tlsHead, TlsSize)
      BY DEF Drained, TlsSize
    <2>2. /\ TlsSize \in Nat /\ BufferCapacity \in Nat \ {0}
          /\ tlsHead \in 0..BufferCapacity - 1
          /\ receiveTlsBuffer \in [0..BufferCapacity - 1 -> 0..LastCell]
      BY <1>1, <1>2, ConstantFacts
    <2> DEFINE V == 0..LastCell
    <2>3. receiveTlsBuffer \in [0..BufferCapacity - 1 -> V]
      BY <2>2
    <2> HIDE DEF V
    <2>4. TlsSize \in Nat /\ BufferCapacity \in Nat \ {0}
      BY <2>2
    <2>5. tlsHead \in 0..BufferCapacity - 1
      BY <2>2
    <2>6. Drained \in Seq(V)
      BY <2>1, <2>3, <2>4, <2>5, ReadType
    <2>7. /\ Len(Drained) = TlsSize
          /\ \A i \in 1..TlsSize :
                Drained[i] = receiveTlsBuffer[Advance(BufferCapacity, tlsHead, i - 1)]
      BY <2>1, <2>4, ReadAt
    <2> QED
      BY <2>6, <2>7 DEF V
  <1>4. \A i \in 1..TlsSize : i - 1 \in 0..TlsSize - 1
    BY <1>1
  <1>5. \A i \in 1..TlsSize : Drained[i] \in Cells
    BY <1>3, <1>4 DEF TlsRingIsFilled
  <1>6. Drained \in Seq(Cells)
    BY <1>3, <1>5, <1>1, ElementOfSeq, SeqDef
  <1>7. Advance(BufferCapacity, tlsHead, TlsSize + 0) = Advance(BufferCapacity, tlsTail, 0)
    <2>1. 0 \in 0..BufferCapacity - TlsSize
      BY <1>1, ConstantFacts
    <2> QED
      BY <1>1, <2>1, ConstantFacts, TailIsBehindContent DEF TlsSize
  <1>8. Advance(BufferCapacity, tlsTail, 0) = tlsTail
    BY <1>1, ConstantFacts, AdvanceOnce
  <1> QED
    BY <1>1, <1>3, <1>6, <1>7, <1>8

\* What SSL_read takes without an error is what the client has sent next
\* (Session.cpp:378-431).
LEMMA TakenCells ==
    ASSUME TypeOK, NEW n \in 0..Len(readBio), InOrder(SubSeq(readBio, 1, n))
    PROVE  /\ SubSeq(readBio, 1, n) \in Seq(Cells)
           /\ Len(SubSeq(readBio, 1, n)) = n
           /\ \A i \in 1..n : SubSeq(readBio, 1, n)[i] = decrypted + i
           /\ decrypted + n \in 0..LastCell
           /\ SubSeq(readBio, n + 1, Len(readBio)) \in Seq(Cells)
  <1> DEFINE taken == SubSeq(readBio, 1, n)
  <1>1. readBio \in Seq(Cells) /\ Len(readBio) \in Nat
    BY DEF TypeOK
  <1>2. taken \in Seq(Cells) /\ Len(taken) = n
    BY <1>1, SubSeqProperties
  <1>3. \A i \in 1..n : taken[i] = decrypted + i
    BY <1>2 DEF InOrder
  <1>4. decrypted + n \in 0..LastCell
    <2>1. CASE n = 0
      BY <2>1, ConstantFacts DEF TypeOK
    <2>2. CASE n # 0
      <3>1. n \in 1..n
        BY <2>2
      <3>2. taken[n] \in Cells
        BY <1>2, <3>1, ElementOfSeq
      <3>3. taken[n] = decrypted + n
        BY <1>3, <3>1
      <3>4. decrypted \in Nat /\ n \in Nat /\ LastCell \in Nat /\ Cells = 1..LastCell
        BY <1>1, ConstantFacts DEF TypeOK
      <3> HIDE DEF taken
      <3> QED
        BY <3>2, <3>3, <3>4
    <2> QED
      BY <2>1, <2>2
  <1>5. SubSeq(readBio, n + 1, Len(readBio)) \in Seq(Cells)
    BY <1>1, SubSeqProperties
  <1> QED
    BY <1>2, <1>3, <1>4, <1>5

\* A message is pushed with a body of cells, or of what slots hold before they
\* are filled (NetworkServer.cpp:279-288).
LEMMA BodyOfType ==
    ASSUME TypeOK, NEW w \in Workers
    PROVE  /\ BodyOf(peeked[w]) \in Seq(0..LastCell)
           /\ peeked[w].header \in 0..LastCell
           /\ peeked[w].size \in 0..BodyLimit
  <1> DEFINE V == 0..LastCell
  <1>1. /\ peeked[w].header \in 0..LastCell /\ peeked[w].size \in 0..BodyLimit
        /\ peeked[w].at \in Slots \cup {InPopBuffer}
    BY DEF TypeOK
  <1>2. peeked[w].size \in Nat
    BY <1>1, ConstantFacts
  <1>3. CASE peeked[w].at = InPopBuffer
    <2>1. contiguousPopBuffer \in Seq(V)
      BY DEF TypeOK
    <2>2. 0 \in V
      BY ConstantFacts
    <2> HIDE DEF V
    <2>3. \A i \in 1..peeked[w].size :
             (IF i =< Len(contiguousPopBuffer) THEN contiguousPopBuffer[i] ELSE 0) \in V
      <3> SUFFICES ASSUME NEW i \in 1..peeked[w].size, i =< Len(contiguousPopBuffer)
                   PROVE  contiguousPopBuffer[i] \in V
        BY <2>2
      <3>1. i \in 1..Len(contiguousPopBuffer)
        BY <1>2, <2>1
      <3> QED
        BY <2>1, <3>1, ElementOfSeq
    <2>4. BodyOf(peeked[w]) \in [1..peeked[w].size -> V]
      BY <1>3, <2>3 DEF BodyOf
    <2>5. BodyOf(peeked[w]) \in Seq(V)
      BY <1>2, <2>4
    <2> QED
      BY <1>1, <2>5 DEF V
  <1>4. CASE peeked[w].at # InPopBuffer
    <2>1. peeked[w].at \in 0..BufferCapacity - 1
      BY <1>1, <1>4, ConstantFacts
    <2>2. receiveAppBuffer \in [0..BufferCapacity - 1 -> V] /\ BufferCapacity \in Nat \ {0}
      BY ConstantFacts DEF TypeOK
    <2> HIDE DEF V
    <2>3. Read(receiveAppBuffer, BufferCapacity, peeked[w].at, peeked[w].size) \in Seq(V)
      BY <1>2, <2>1, <2>2, ReadType
    <2> QED
      BY <1>1, <1>4, <2>3 DEF BodyOf, V
  <1> QED
    BY <1>3, <1>4

\* What PeekReceivedMessage finds fits into the rings (Session.cpp:280-337).
LEMMA PeekedSize ==
    ASSUME TypeOK, NEW cell, NEW size \in SizesAt(cell), BodyIsReadable(size)
    PROVE  /\ size \in 0..BodyLimit
           /\ Advance(BufferCapacity, appHead, 1) \in Slots
           /\ AppSize > 0 => size =< AppSize - 1
  <1> DEFINE next == Advance(BufferCapacity, appHead, 1)
  <1>1. appHead \in 0..BufferCapacity - 1 /\ appTail \in 0..BufferCapacity - 1
    BY ConstantFacts DEF TypeOK
  <1>2. next \in 0..BufferCapacity - 1
    <2>1. appHead \in Nat /\ 1 \in Nat /\ BufferCapacity \in Nat \ {0}
      BY <1>1, ConstantFacts
    <2> QED
      BY <2>1, AdvanceType
  <1>3. GetRingBufferSize(BufferCapacity, next, appTail) \in 0..BufferCapacity - 1
    BY <1>1, <1>2, ConstantFacts, SizeType
  <1>4. size \in Nat
    BY CellFacts, ConstantFacts DEF SizesAt
  <1>5. size =< GetRingBufferSize(BufferCapacity, next, appTail)
    BY <1>3, <1>4 DEF BodyIsReadable, Readable
  <1>6. AppSize > 0 => GetRingBufferSize(BufferCapacity, next, appTail) = AppSize - 1
    <2> SUFFICES ASSUME AppSize > 0
                 PROVE  GetRingBufferSize(BufferCapacity, next, appTail) = AppSize - 1
      OBVIOUS
    <2>1. 1 \in 0..AppSize
      BY SizeFacts
    <2> QED
      BY <1>1, <2>1, ConstantFacts, AdvanceHeadDropsPrefix DEF AppSize
  <1> QED
    BY <1>2, <1>3, <1>4, <1>5, <1>6, ConstantFacts

\* What a Receive brings: cells that the client has sent, into the slots from
\* the tail to the end of the ring (Session.cpp:49-110).
LEMMA ReceivedCells ==
    ASSUME TypeOK, NEW n \in 0..MinOf(BufferCapacity - tlsTail, LastCell - arrived)
    PROVE  LET data == [i \in 1..n |-> arrived + i]
           IN /\ n \in 0..BufferCapacity /\ tlsTail + n =< BufferCapacity
              /\ arrived + n \in 0..LastCell
              /\ data \in Seq(Cells) /\ Len(data) = n
              /\ Write(receiveTlsBuffer, BufferCapacity, tlsTail, data)
                    \in [Slots -> 0..LastCell]
              /\ \A i \in 0..n - 1 :
                    Write(receiveTlsBuffer, BufferCapacity, tlsTail, data)
                       [Advance(BufferCapacity, tlsTail, i)] \in Cells
  <1> DEFINE data == [i \in 1..n |-> arrived + i]
             V == 0..LastCell
             written == Write(receiveTlsBuffer, BufferCapacity, tlsTail, data)
  <1>1. /\ tlsTail \in 0..BufferCapacity - 1 /\ arrived \in 0..LastCell
        /\ BufferCapacity \in Nat \ {0} /\ LastCell \in Nat /\ Cells = 1..LastCell
        /\ Slots = 0..BufferCapacity - 1
    BY ConstantFacts DEF TypeOK
  <1>2. n \in 0..BufferCapacity /\ tlsTail + n =< BufferCapacity /\ arrived + n \in 0..LastCell
    BY <1>1 DEF MinOf
  <1>3. data \in [1..n -> Cells]
    BY <1>1, <1>2
  <1>4. n \in Nat
    BY <1>2
  <1>5. data \in Seq(Cells) /\ Len(data) = n
    BY <1>3, <1>4
  <1>6. written \in [Slots -> V]
    <2>1. data \in Seq(V)
      BY <1>1, <1>5, SeqMonotonic
    <2>2. receiveTlsBuffer \in [0..BufferCapacity - 1 -> V]
      BY <1>1 DEF TypeOK
    <2> HIDE DEF V, data
    <2> QED
      BY <1>1, <2>1, <2>2, WriteType
  <1>7. ASSUME NEW i \in 0..n - 1
        PROVE  written[Advance(BufferCapacity, tlsTail, i)] \in Cells
    <2>1. i \in 0..BufferCapacity - 1 /\ i < n /\ i + 1 \in 1..n
      BY <1>1, <1>2
    <2>2. DOMAIN receiveTlsBuffer = 0..BufferCapacity - 1
      BY <1>1 DEF TypeOK
    <2>3. data[i + 1] \in Cells
      BY <1>3, <2>1
    <2> HIDE DEF data
    <2>4. written[Advance(BufferCapacity, tlsTail, i)]
            = IF i < Len(data) THEN data[i + 1]
              ELSE receiveTlsBuffer[Advance(BufferCapacity, tlsTail, i)]
      BY <1>1, <1>4, <1>5, <2>1, <2>2, WriteAtOffset
    <2> QED
      BY <1>5, <2>1, <2>3, <2>4
  <1> HIDE DEF data, written
  <1> QED
    BY <1>2, <1>5, <1>6, <1>7 DEF data, written

\* Every step keeps the types.
LEMMA TypeStep ==
    ASSUME TypeOK, TlsRingIsFilled, [Next]_vars
    PROVE  TypeOK'
  <1> USE DEF tlsVars, appVars, mutexVars, popVars, workerVars, Goto, Pcs
  <1>1. CASE UNCHANGED vars
    BY <1>1 DEF TypeOK, vars
  <1>2. CASE CloseElsewhere
    BY <1>2 DEF TypeOK, CloseElsewhere
  <1>3. ASSUME NEW w \in Workers, PostReceive(w) PROVE TypeOK'
    <2>1. PICK n \in 0..MinOf(BufferCapacity - tlsTail, LastCell - arrived) :
             /\ arrived' = arrived + n
             /\ receiveTlsBuffer' = Write(receiveTlsBuffer, BufferCapacity, tlsTail,
                                          [i \in 1..n |-> arrived + i])
             /\ transferred' = [transferred EXCEPT ![w] = n]
             /\ events' = events \cup (IF n = BufferCapacity THEN {"FullReceive"} ELSE {})
             /\ unread' = unread \cup (tlsTail..tlsTail + n - 1)
      BY <1>3 DEF PostReceive
    <2>2. /\ arrived' \in 0..LastCell
          /\ receiveTlsBuffer' \in [Slots -> 0..LastCell]
          /\ n \in 0..BufferCapacity
      BY <2>1, ReceivedCells
    <2>3. events' \subseteq Events
      BY <2>1 DEF TypeOK, Events
    <2>4. transferred' \in [Workers -> 0..BufferCapacity]
      BY <2>1, <2>2 DEF TypeOK
    <2>5. unread' \subseteq Slots
      <3>1. tlsTail + n =< BufferCapacity /\ tlsTail \in 0..BufferCapacity - 1 /\ n \in Nat
        BY <2>1, <2>2, ReceivedCells, RingFacts
      <3>2. tlsTail..tlsTail + n - 1 \subseteq Slots
        BY <3>1, ConstantFacts
      <3> QED
        BY <2>1, <3>2 DEF TypeOK
    <2> QED
      BY <1>3, <2>2, <2>3, <2>4, <2>5 DEF TypeOK, PostReceive
  <1>4. ASSUME NEW w \in Workers, PostIoFailed(w) PROVE TypeOK'
    BY <1>4 DEF TypeOK, PostIoFailed
  <1>5. ASSUME NEW w \in Workers, AdvanceTail(w) PROVE TypeOK'
    <2>1. tlsTail \in Nat /\ transferred[w] \in Nat
      BY ConstantFacts DEF TypeOK
    <2>2. tlsTail' \in Slots
      BY <1>5, <2>1, ConstantFacts, AdvanceType DEF AdvanceTail
    <2> QED
      BY <1>5, <2>2 DEF TypeOK, AdvanceTail
  <1>6. ASSUME NEW w \in Workers, TryReceiveAsync(w) PROVE TypeOK'
    BY <1>6 DEF TypeOK, TryReceiveAsync
  <1>7. ASSUME NEW w \in Workers, TlsToBio(w) PROVE TypeOK'
    <2>1. readBio \in Seq(Cells)
      BY DEF TypeOK
    <2>2. readBio' \in Seq(Cells)
      BY <1>7, <2>1, DrainedCells, ConcatProperties DEF TlsToBio
    <2>3. tlsHead' \in Slots /\ loadedHead' \in Slots
      BY <1>7, DrainedCells DEF TlsToBio, TypeOK
    <2>4. pc' \in [Workers -> Pcs]
      BY <1>7 DEF TlsToBio, TypeOK
    <2>5. processing' \in Workers \cup {Nobody}
      BY <1>7 DEF TlsToBio
    <2>6. unread' \subseteq Slots
      BY <1>7 DEF TlsToBio, TypeOK
    <2> QED
      BY <1>7, <2>2, <2>3, <2>4, <2>5, <2>6 DEF TypeOK, TlsToBio
  <1>8. ASSUME NEW w \in Workers, NEW ok \in BOOLEAN, Unlock(w, ok)
        PROVE  /\ processing' \in Workers \cup {Nobody} /\ loadedHead' \in Slots
               /\ succeeded' \in [Workers -> BOOLEAN] /\ pc' \in [Workers -> Pcs]
    <2>1. 0 \in Slots /\ succeeded \in [Workers -> BOOLEAN] /\ pc \in [Workers -> Pcs]
      BY RingFacts DEF TypeOK
    <2>2. processing' \in Workers \cup {Nobody} /\ loadedHead' \in Slots
      BY <1>8, <2>1 DEF Unlock
    <2>3. \E label \in {"idle", "close", "receive", "peek"} :
             pc' = [pc EXCEPT ![w] = label]
      BY <1>8 DEF Unlock
    <2>4. pc' \in [Workers -> Pcs]
      BY <2>1, <2>3
    <2>5. succeeded' \in [Workers -> BOOLEAN]
      <3>1. (ok /\ transferred[w] > 0) \in BOOLEAN
        OBVIOUS
      <3>2. CASE UNCHANGED succeeded
        BY <2>1, <3>2
      <3>3. CASE succeeded' = [succeeded EXCEPT ![w] = ok /\ transferred[w] > 0]
        BY <2>1, <3>1, <3>3
      <3> QED
        BY <1>8, <3>2, <3>3 DEF Unlock
    <2> QED
      BY <2>2, <2>4, <2>5
  <1>9. ASSUME NEW w \in Workers, BioToApp(w) PROVE TypeOK'
    <2>1. /\ readBio \in Seq(Cells) /\ Len(readBio) \in Nat /\ Len(readBio) \in 0..Len(readBio)
          /\ SubSeq(readBio, 1, Len(readBio)) = readBio
      BY SubSeqFull DEF TypeOK
    <2>2. InOrder(readBio)
      BY <1>9 DEF BioToApp, CanDecrypt
    <2>3. decrypted + Len(readBio) \in 0..LastCell
      BY <2>1, <2>2, TakenCells
    <2>4. receiveAppBuffer' \in [Slots -> 0..LastCell]
      <3> DEFINE V == 0..LastCell
      <3>1. /\ Cells \subseteq V /\ receiveAppBuffer \in [0..BufferCapacity - 1 -> V]
            /\ appTail \in 0..BufferCapacity - 1
        BY RingFacts
      <3> HIDE DEF V
      <3>2. readBio \in Seq(V)
        BY <2>1, <3>1, SeqMonotonic
      <3>3. Write(receiveAppBuffer, BufferCapacity, appTail, readBio) \in [0..BufferCapacity - 1 -> V]
        BY <3>1, <3>2, ConstantFacts, WriteType
      <3> QED
        BY <1>9, <3>3, ConstantFacts DEF BioToApp, V
    <2>5. appTail' \in Slots
      <3>1. appTail \in Nat
        BY ConstantFacts DEF TypeOK
      <3> QED
        BY <1>9, <2>1, <3>1, ConstantFacts, AdvanceType DEF BioToApp
    <2>6. decrypted' \in 0..LastCell
      BY <1>9, <2>3 DEF BioToApp
    <2>7. readBio' \in Seq(Cells)
      BY <1>9 DEF BioToApp
    <2>8. events' \subseteq Events
      BY <1>9 DEF BioToApp, TypeOK, Events
    <2>9. /\ processing' \in Workers \cup {Nobody} /\ loadedHead' \in Slots
          /\ succeeded' \in [Workers -> BOOLEAN] /\ pc' \in [Workers -> Pcs]
      <3>1. CASE \E ok \in BOOLEAN : Unlock(w, ok)
        BY <1>8, <3>1
      <3>2. CASE /\ processing' = Nobody /\ loadedHead' = 0
                 /\ Goto(w, IF At(w, "decrypt") THEN "process" ELSE "processForSend")
                 /\ UNCHANGED succeeded
        <4>1. 0 \in Slots /\ succeeded \in [Workers -> BOOLEAN] /\ pc \in [Workers -> Pcs]
          BY RingFacts DEF TypeOK
        <4> QED
          BY <3>2, <4>1
      <3> QED
        BY <1>9, <3>1, <3>2 DEF BioToApp
    <2> HIDE DEF Pcs, Goto
    <2> QED
      BY <1>9, <2>4, <2>5, <2>6, <2>7, <2>8, <2>9 DEF TypeOK, BioToApp
  <1>10. ASSUME NEW w \in Workers, RingFull(w) PROVE TypeOK'
    <2> DEFINE taken == SubSeq(readBio, 1, FreeSlots)
    <2>1. readBio \in Seq(Cells) /\ Len(readBio) \in Nat
      BY DEF TypeOK
    <2>2. FreeSlots \in 0..Len(readBio) /\ InOrder(taken)
      BY <1>10, <2>1, SizeFacts, ConstantFacts DEF RingFull
    <2>3. /\ taken \in Seq(Cells) /\ decrypted + FreeSlots \in 0..LastCell
          /\ SubSeq(readBio, FreeSlots + 1, Len(readBio)) \in Seq(Cells)
      BY <2>2, TakenCells
    <2>4. receiveAppBuffer' \in [Slots -> 0..LastCell]
      <3> DEFINE V == 0..LastCell
      <3>1. /\ Cells \subseteq V /\ receiveAppBuffer \in [0..BufferCapacity - 1 -> V]
            /\ appTail \in 0..BufferCapacity - 1
        BY RingFacts
      <3> HIDE DEF V, taken
      <3>2. taken \in Seq(V)
        BY <2>3, <3>1, SeqMonotonic
      <3>3. Write(receiveAppBuffer, BufferCapacity, appTail, taken) \in [0..BufferCapacity - 1 -> V]
        BY <3>1, <3>2, ConstantFacts, WriteType
      <3> QED
        BY <1>10, <3>3, ConstantFacts DEF RingFull, V, taken
    <2>5. decrypted' \in 0..LastCell /\ readBio' \in Seq(Cells)
      BY <1>10, <2>3 DEF RingFull
    <2>6. events' \subseteq Events
      BY <1>10 DEF RingFull, TypeOK, Events
    <2>7. Unlock(w, FALSE)
      BY <1>10 DEF RingFull
    <2>8. /\ processing' \in Workers \cup {Nobody} /\ loadedHead' \in Slots
          /\ succeeded' \in [Workers -> BOOLEAN] /\ pc' \in [Workers -> Pcs]
      BY <1>8, <2>7
    <2> HIDE DEF Pcs, Goto, taken
    <2> QED
      BY <1>10, <2>4, <2>5, <2>6, <2>8 DEF TypeOK, RingFull
  <1>11. ASSUME NEW w \in Workers, TlsError(w) PROVE TypeOK'
    <2>1. /\ processing' \in Workers \cup {Nobody} /\ loadedHead' \in Slots
          /\ succeeded' \in [Workers -> BOOLEAN] /\ pc' \in [Workers -> Pcs]
      BY <1>8, <1>11 DEF TlsError
    <2>2. readBio' \in Seq(Cells)
      BY <1>11, EmptySeq DEF TlsError
    <2> HIDE DEF Pcs, Goto
    <2> QED
      BY <1>11, <2>1, <2>2 DEF TypeOK, TlsError
  <1>12. ASSUME NEW w \in Workers, SendWantsReceive(w) PROVE TypeOK'
    BY <1>12 DEF TypeOK, SendWantsReceive, Events
  <1>13. ASSUME NEW w \in Workers, PeekNothing(w) PROVE TypeOK'
    <2>1. transferred' \in [Workers -> 0..BufferCapacity]
      BY <1>13, ConstantFacts DEF TypeOK, PeekNothing
    <2> QED
      BY <1>13, <2>1 DEF TypeOK, PeekNothing
  <1>14. ASSUME NEW w \in Workers, Peek(w) PROVE TypeOK'
    <2> DEFINE bodyHead == Advance(BufferCapacity, appHead, 1)
               V == 0..LastCell
    <2>1. PICK size \in SizesAt(receiveAppBuffer[appHead]) :
             /\ BodyIsReadable(size)
             /\ peeked' = [peeked EXCEPT ![w] =
                   [header |-> receiveAppBuffer[appHead], size |-> size,
                    at |-> IF bodyHead + size > BufferCapacity THEN InPopBuffer ELSE bodyHead]]
             /\ contiguousPopBuffer' =
                   IF bodyHead + size > BufferCapacity
                   THEN Read(receiveAppBuffer, BufferCapacity, bodyHead, size)
                   ELSE contiguousPopBuffer
      BY <1>14 DEF Peek
    <2>2. size \in 0..BodyLimit /\ bodyHead \in Slots
      BY <2>1, PeekedSize
    <2>3. receiveAppBuffer[appHead] \in 0..LastCell
      BY DEF TypeOK
    <2>4. [header |-> receiveAppBuffer[appHead], size |-> size,
           at |-> IF bodyHead + size > BufferCapacity THEN InPopBuffer ELSE bodyHead]
            \in [header : 0..LastCell, size : 0..BodyLimit, at : Slots \cup {InPopBuffer}]
      BY <2>2, <2>3
    <2>5. peeked' \in [Workers -> [header : 0..LastCell, size : 0..BodyLimit,
                                   at : Slots \cup {InPopBuffer}]]
      BY <2>1, <2>4 DEF TypeOK
    <2>6. contiguousPopBuffer' \in Seq(0..LastCell)
      <3>1. receiveAppBuffer \in [0..BufferCapacity - 1 -> V] /\ contiguousPopBuffer \in Seq(V)
        BY ConstantFacts DEF TypeOK
      <3>2. size \in Nat /\ bodyHead \in 0..BufferCapacity - 1 /\ BufferCapacity \in Nat \ {0}
        BY <2>2, ConstantFacts
      <3> HIDE DEF V, bodyHead
      <3>3. Read(receiveAppBuffer, BufferCapacity, bodyHead, size) \in Seq(V)
        BY <3>1, <3>2, ReadType
      <3> QED
        BY <2>1, <3>1, <3>3 DEF V
    <2>7. events' \subseteq Events
      BY <1>14 DEF Peek, TypeOK, Events
    <2>8. pc' \in [Workers -> Pcs]
      BY <1>14 DEF Peek, TypeOK
    <2> HIDE DEF Pcs, Goto, bodyHead
    <2> QED
      BY <1>14, <2>5, <2>6, <2>7, <2>8 DEF TypeOK, Peek
  <1>15. ASSUME NEW w \in Workers, PushToActor(w) PROVE TypeOK'
    <2> DEFINE message == [header |-> peeked[w].header, body |-> BodyOf(peeked[w])]
               S == [header : 0..LastCell, body : Seq(0..LastCell)]
    <2>1. message \in S /\ mailbox \in Seq(S)
      BY BodyOfType DEF TypeOK
    <2>2. mailbox' = Append(mailbox, message) /\ Len(mailbox) < MaxMailbox
      BY <1>15 DEF PushToActor
    <2> HIDE DEF message, S
    <2>3. mailbox' \in Seq(S) /\ Len(mailbox') = Len(mailbox) + 1
      BY <2>1, <2>2, AppendProperties
    <2>4. Len(mailbox') =< MaxMailbox
      BY <2>1, <2>2, <2>3, ReceiveAssumption
    <2>5. pc' \in [Workers -> Pcs]
      BY <1>15 DEF PushToActor, TypeOK
    <2> HIDE DEF Pcs, Goto
    <2> QED
      BY <1>15, <2>3, <2>4, <2>5 DEF TypeOK, PushToActor, S
  <1>16. ASSUME NEW w \in Workers, PopReceivedMessage(w) PROVE TypeOK'
    <2>1. appHead \in Nat /\ 1 + peeked[w].size \in Nat
      <3>1. appHead \in Nat
        BY ConstantFacts DEF TypeOK
      <3>2. peeked[w].size \in 0..BodyLimit
        BY BodyOfType
      <3> QED
        BY <3>1, <3>2, ConstantFacts
    <2>2. appHead' \in Slots
      BY <1>16, <2>1, ConstantFacts, AdvanceType DEF PopReceivedMessage
    <2>3. NoMessage \in [header : 0..LastCell, size : 0..BodyLimit, at : Slots \cup {InPopBuffer}]
      BY ConstantFacts DEF NoMessage
    <2>4. peeked' \in [Workers -> [header : 0..LastCell, size : 0..BodyLimit,
                                   at : Slots \cup {InPopBuffer}]]
      BY <1>16, <2>3 DEF TypeOK, PopReceivedMessage
    <2>5. pc' \in [Workers -> Pcs]
      BY <1>16 DEF PopReceivedMessage, TypeOK
    <2> HIDE DEF Pcs, Goto
    <2> QED
      BY <1>16, <2>2, <2>4, <2>5 DEF TypeOK, PopReceivedMessage
  <1>17. ASSUME NEW w \in Workers, Close(w) PROVE TypeOK'
    BY <1>17 DEF TypeOK, Close
  <1> QED
    BY <1>1, <1>2, <1>3, <1>4, <1>5, <1>6, <1>7, <1>9, <1>10, <1>11, <1>12, <1>13,
       <1>14, <1>15, <1>16, <1>17 DEF Next, Step

-----------------------------------------------------------------------------
(* The receive ring, its owner and the mutex.                              *)

\* One owner at a time, and only it leaves something in the ring
\* (Session.cpp:49-137).
LEMMA OwnerStep ==
    ASSUME TypeOK, TlsRingIsFilled, ReceiveIsOwned, [Next]_vars
    PROVE  ReceiveIsOwned'
  <1> USE DEF ReceiveIsOwned, OwnsReceive, At, Goto, tlsVars
  <1>0. pc \in [Workers -> Pcs]
    BY DEF TypeOK
  <1>1. CASE UNCHANGED vars
    BY <1>1 DEF vars
  <1>2. CASE CloseElsewhere
    BY <1>2 DEF CloseElsewhere
  <1>3. ASSUME NEW w \in Workers, PostReceive(w) PROVE ReceiveIsOwned'
    BY <1>0, <1>3 DEF PostReceive
  <1>4. ASSUME NEW w \in Workers, PostIoFailed(w) PROVE ReceiveIsOwned'
    BY <1>0, <1>4 DEF PostIoFailed
  <1>5. ASSUME NEW w \in Workers, AdvanceTail(w) PROVE ReceiveIsOwned'
    BY <1>0, <1>5 DEF AdvanceTail
  <1>6. ASSUME NEW w \in Workers, TryReceiveAsync(w) PROVE ReceiveIsOwned'
    BY <1>0, <1>6 DEF TryReceiveAsync
  <1>7. ASSUME NEW w \in Workers, TlsToBio(w) PROVE ReceiveIsOwned'
    <2>1. tlsHead' = tlsTail'
      BY <1>7, DrainedCells DEF TlsToBio
    <2> QED
      BY <1>0, <1>7, <2>1 DEF TlsToBio
  <1>8. ASSUME NEW w \in Workers, NEW label, pc' = [pc EXCEPT ![w] = label],
               pc[w] \in {"decrypt", "decryptForSend"},
               OwnsReceive(w)' => OwnsReceive(w),
               UNCHANGED <<receiving, tlsHead, tlsTail>>
        PROVE  ReceiveIsOwned'
    BY <1>0, <1>8
  <1>9. ASSUME NEW w \in Workers, NEW ok, Unlock(w, ok)
        PROVE  \E label : /\ pc' = [pc EXCEPT ![w] = label]
                          /\ OwnsReceive(w)' => OwnsReceive(w)
    BY <1>0, <1>9 DEF Unlock
  <1>10. ASSUME NEW w \in Workers, BioToApp(w) PROVE ReceiveIsOwned'
    <2>1. /\ pc[w] \in {"decrypt", "decryptForSend"}
          /\ UNCHANGED <<receiving, tlsHead, tlsTail>>
      BY <1>10 DEF BioToApp
    <2>2. CASE \E ok : Unlock(w, ok)
      BY <1>8, <1>9, <2>1, <2>2
    <2>3. CASE Goto(w, IF At(w, "decrypt") THEN "process" ELSE "processForSend")
      <3>1. OwnsReceive(w)' => OwnsReceive(w)
        BY <1>0, <2>1, <2>3
      <3> QED
        BY <1>8, <2>1, <2>3, <3>1
    <2> QED
      BY <1>10, <2>2, <2>3 DEF BioToApp
  <1>11. ASSUME NEW w \in Workers, RingFull(w) PROVE ReceiveIsOwned'
    <2>1. /\ pc[w] \in {"decrypt", "decryptForSend"} /\ Unlock(w, FALSE)
          /\ UNCHANGED <<receiving, tlsHead, tlsTail>>
      BY <1>11 DEF RingFull
    <2> QED
      BY <1>8, <1>9, <2>1
  <1>12. ASSUME NEW w \in Workers, TlsError(w) PROVE ReceiveIsOwned'
    <2>1. /\ pc[w] \in {"decrypt", "decryptForSend"} /\ Unlock(w, FALSE)
          /\ UNCHANGED <<receiving, tlsHead, tlsTail>>
      BY <1>12 DEF TlsError
    <2> QED
      BY <1>8, <1>9, <2>1
  <1>13. ASSUME NEW w \in Workers, SendWantsReceive(w) PROVE ReceiveIsOwned'
    BY <1>0, <1>13 DEF SendWantsReceive
  <1>14. ASSUME NEW w \in Workers, PeekNothing(w) PROVE ReceiveIsOwned'
    BY <1>0, <1>14 DEF PeekNothing
  <1>15. ASSUME NEW w \in Workers, Peek(w) PROVE ReceiveIsOwned'
    BY <1>0, <1>15 DEF Peek
  <1>16. ASSUME NEW w \in Workers, PushToActor(w) PROVE ReceiveIsOwned'
    BY <1>0, <1>16 DEF PushToActor
  <1>17. ASSUME NEW w \in Workers, PopReceivedMessage(w) PROVE ReceiveIsOwned'
    BY <1>0, <1>17 DEF PopReceivedMessage
  <1>18. ASSUME NEW w \in Workers, Close(w) PROVE ReceiveIsOwned'
    BY <1>0, <1>18 DEF Close
  <1> QED
    BY <1>1, <1>2, <1>3, <1>4, <1>5, <1>6, <1>7, <1>10, <1>11, <1>12, <1>13,
       <1>14, <1>15, <1>16, <1>17, <1>18 DEF Next, Step

\* What is handed to the BIO has been received (Session.cpp:341-379).
LEMMA FilledStep ==
    ASSUME TypeOK, TlsRingIsFilled, ReceiveIsOwned, [Next]_vars
    PROVE  TlsRingIsFilled'
  <1> USE DEF At, Goto, tlsVars
  <1>0. pc \in [Workers -> Pcs] /\ transferred \in [Workers -> 0..BufferCapacity]
    BY DEF TypeOK
  <1>1. ASSUME UNCHANGED <<receiveTlsBuffer, tlsHead, tlsTail>>,
               \A w \in Workers : pc'[w] = "advance"
                  => pc[w] = "advance" /\ transferred'[w] = transferred[w]
        PROVE  TlsRingIsFilled'
    BY <1>1 DEF TlsRingIsFilled, TlsSize
  <1>2. ASSUME NEW w \in Workers, PostReceive(w) PROVE TlsRingIsFilled'
    <2>1. PICK n \in 0..MinOf(BufferCapacity - tlsTail, LastCell - arrived) :
             /\ receiveTlsBuffer' = Write(receiveTlsBuffer, BufferCapacity, tlsTail,
                                          [i \in 1..n |-> arrived + i])
             /\ transferred' = [transferred EXCEPT ![w] = n]
      BY <1>2 DEF PostReceive
    <2>2. /\ tlsTail + n =< BufferCapacity
          /\ \A i \in 0..n - 1 :
                receiveTlsBuffer'[Advance(BufferCapacity, tlsTail, i)] \in Cells
      BY <2>1, ReceivedCells
    <2>3. transferred'[w] = n /\ UNCHANGED <<tlsHead, tlsTail>>
      BY <1>0, <1>2, <2>1 DEF PostReceive
    <2>4. \A x \in Workers : pc'[x] = "advance" => x = w
      BY <1>0, <1>2 DEF PostReceive, ReceiveIsOwned, OwnsReceive
    <2>5. TlsSize' = 0
      <3>1. tlsHead = tlsTail
        BY <1>2 DEF PostReceive, ReceiveIsOwned, OwnsReceive
      <3> QED
        BY <2>3, <3>1, RingFacts DEF TlsSize, GetRingBufferSize
    <2> QED
      BY <2>2, <2>3, <2>4, <2>5 DEF TlsRingIsFilled
  <1>3. ASSUME NEW w \in Workers, AdvanceTail(w) PROVE TlsRingIsFilled'
    <2> DEFINE n == transferred[w]
    <2>1. /\ tlsHead = tlsTail /\ pc[w] = "advance"
          /\ \A x \in Workers : pc'[x] # "advance"
      BY <1>0, <1>3 DEF AdvanceTail, ReceiveIsOwned, OwnsReceive
    <2>2. /\ n \in 0..BufferCapacity /\ tlsTail + n =< BufferCapacity
          /\ \A i \in 0..n - 1 :
                receiveTlsBuffer[Advance(BufferCapacity, tlsTail, i)] \in Cells
      BY <1>0, <2>1 DEF TlsRingIsFilled
    <2>3. /\ tlsTail' = Advance(BufferCapacity, tlsTail, n)
          /\ UNCHANGED <<receiveTlsBuffer, tlsHead>>
      BY <1>3 DEF AdvanceTail
    <2>4. Advance(BufferCapacity, tlsTail, n)
            = IF tlsTail + n < BufferCapacity THEN tlsTail + n ELSE tlsTail + n - BufferCapacity
      BY <2>2, RingFacts, ConstantFacts, AdvanceOnce
    <2> HIDE DEF n
    <2>5. TlsSize' = GetRingBufferSize(BufferCapacity, tlsTail, tlsTail')
      BY <2>1, <2>3 DEF TlsSize
    <2>6. tlsTail \in 0..BufferCapacity - 1 /\ BufferCapacity \in Nat \ {0}
      BY RingFacts, ConstantFacts
    <2>7. TlsSize' \in Nat /\ TlsSize' =< n
      BY <2>2, <2>3, <2>4, <2>5, <2>6 DEF GetRingBufferSize
    <2>8. \A i \in 0..TlsSize' - 1 :
             receiveTlsBuffer'[Advance(BufferCapacity, tlsHead', i)] \in Cells
      <3> DEFINE size == TlsSize'
      <3>1. \A i \in 0..size - 1 : i \in 0..n - 1
        <4>1. n \in Nat /\ size \in Nat /\ size =< n
          BY <2>2, <2>6, <2>7
        <4> HIDE DEF size
        <4> QED
          BY <4>1
      <3> QED
        BY <2>1, <2>2, <2>3, <3>1
    <2> QED
      BY <2>1, <2>8 DEF TlsRingIsFilled
  <1>4. ASSUME NEW w \in Workers, TlsToBio(w) PROVE TlsRingIsFilled'
    <2>1. tlsHead' = tlsTail' /\ tlsTail' = tlsTail
      BY <1>4, DrainedCells DEF TlsToBio
    <2>2. TlsSize' = 0
      BY <2>1, RingFacts DEF TlsSize, GetRingBufferSize
    <2>3. \A x \in Workers : pc'[x] = "advance" => pc[x] = "advance"
      BY <1>0, <1>4 DEF TlsToBio
    <2>4. UNCHANGED <<receiveTlsBuffer, tlsTail, transferred>>
      BY <1>4 DEF TlsToBio, workerVars
    <2> QED
      BY <2>2, <2>3, <2>4 DEF TlsRingIsFilled
  <1>5. ASSUME NEW w \in Workers,
               BioToApp(w) \/ RingFull(w) \/ TlsError(w)
        PROVE  TlsRingIsFilled'
    <2>1. UNCHANGED <<receiveTlsBuffer, tlsHead, tlsTail, transferred>>
      BY <1>5 DEF BioToApp, RingFull, TlsError
    <2>2. \E label : label # "advance" /\ pc' = [pc EXCEPT ![w] = label]
      <3>1. ASSUME NEW ok, Unlock(w, ok)
            PROVE  \E label : label # "advance" /\ pc' = [pc EXCEPT ![w] = label]
        BY <3>1 DEF Unlock
      <3>2. \/ \E ok : Unlock(w, ok)
            \/ Goto(w, IF At(w, "decrypt") THEN "process" ELSE "processForSend")
        BY <1>5 DEF BioToApp, RingFull, TlsError
      <3> QED
        BY <3>1, <3>2
    <2>3. \A x \in Workers : pc'[x] = "advance" => pc[x] = "advance"
      BY <1>0, <2>2
    <2> QED
      BY <1>1, <2>1, <2>3
  <1>6. ASSUME NEW w \in Workers,
               \/ PostIoFailed(w) \/ TryReceiveAsync(w) \/ SendWantsReceive(w)
               \/ Peek(w) \/ PushToActor(w) \/ PopReceivedMessage(w) \/ Close(w)
        PROVE  TlsRingIsFilled'
    <2>1. UNCHANGED <<receiveTlsBuffer, tlsHead, tlsTail, transferred>>
      BY <1>6 DEF PostIoFailed, TryReceiveAsync, SendWantsReceive, Peek, PushToActor,
                  PopReceivedMessage, Close, workerVars
    <2>2. \A x \in Workers : pc'[x] = "advance" => pc[x] = "advance"
      BY <1>0, <1>6 DEF PostIoFailed, TryReceiveAsync, SendWantsReceive, Peek, PushToActor,
                        PopReceivedMessage, Close
    <2> QED
      BY <1>1, <2>1, <2>2
  <1>7. ASSUME NEW w \in Workers, PeekNothing(w) PROVE TlsRingIsFilled'
    BY <1>0, <1>1, <1>7 DEF PeekNothing
  <1>8. CASE UNCHANGED vars \/ CloseElsewhere
    BY <1>1, <1>8 DEF vars, CloseElsewhere, workerVars
  <1> QED
    BY <1>2, <1>3, <1>4, <1>5, <1>6, <1>7, <1>8 DEF Next, Step

\* How TryProcessReceiveBuffers ends: the worker leaves for a label that is not
\* under the mutex, and not for the send path unless it came from there
\* (Session.cpp:339-431).
LEMMA LeavesLock ==
    ASSUME TypeOK, NEW w \in Workers, BioToApp(w) \/ RingFull(w) \/ TlsError(w)
    PROVE  /\ processing' = Nobody
           /\ \E label : /\ pc' = [pc EXCEPT ![w] = label]
                         /\ label \notin {"decrypt", "decryptForSend", "advance", "push", "pop"}
                         /\ label = "processForSend" => pc[w] = "decryptForSend"
                         /\ label \in {"process", "receive"} => pc[w] = "decrypt"
           /\ events \subseteq events'
           /\ "WantRead" \in events' => "WantRead" \in events
           /\ "Overlap" \in events' => "Overlap" \in events
  <1> DEFINE Left == /\ processing' = Nobody
                     /\ \E label :
                          /\ pc' = [pc EXCEPT ![w] = label]
                          /\ label \notin {"decrypt", "decryptForSend", "advance", "push", "pop"}
                          /\ label = "processForSend" => pc[w] = "decryptForSend"
                          /\ label \in {"process", "receive"} => pc[w] = "decrypt"
  <1>1. ASSUME NEW ok, Unlock(w, ok)
        PROVE  Left
    BY <1>1 DEF Unlock, Goto, At
  <1>2. /\ events \subseteq events'
        /\ "WantRead" \in events' => "WantRead" \in events
        /\ "Overlap" \in events' => "Overlap" \in events
    <2>1. CASE BioToApp(w)
      BY <2>1 DEF BioToApp
    <2>2. CASE RingFull(w)
      BY <2>2 DEF RingFull
    <2>3. CASE TlsError(w)
      BY <2>3 DEF TlsError
    <2> QED
      BY <2>1, <2>2, <2>3
  <1>3. \/ \E ok : Unlock(w, ok)
        \/ /\ processing' = Nobody
           /\ Goto(w, IF At(w, "decrypt") THEN "process" ELSE "processForSend")
    BY DEF BioToApp, RingFull, TlsError
  <1>4. pc[w] \in {"decrypt", "decryptForSend"}
    BY DEF BioToApp, RingFull, TlsError
  <1>5. ASSUME processing' = Nobody,
               Goto(w, IF At(w, "decrypt") THEN "process" ELSE "processForSend")
        PROVE  Left
    <2>1. CASE pc[w] = "decrypt"
      <3>1. pc' = [pc EXCEPT ![w] = "process"]
        BY <1>5, <2>1 DEF Goto, At
      <3> QED
        BY <1>5, <2>1, <3>1
    <2>2. CASE pc[w] = "decryptForSend"
      <3>1. pc' = [pc EXCEPT ![w] = "processForSend"]
        BY <1>5, <2>2 DEF Goto, At
      <3>2. /\ "processForSend" \notin {"decrypt", "decryptForSend", "advance", "push", "pop"}
            /\ "processForSend" \notin {"process", "receive"}
        OBVIOUS
      <3> QED
        BY <1>5, <2>2, <3>1, <3>2, Zenon
    <2> QED
      BY <1>4, <2>1, <2>2
  <1>6. Left
    <2> HIDE DEF Left
    <2> QED
      BY <1>1, <1>3, <1>5
  <1> QED
    BY <1>2, <1>6

\* The slots of what has been received follow the bytes: from behind the tail
\* into the ring, and from there to the BIO (Session.cpp:77-85, 341-379).
LEMMA UnreadStep ==
    ASSUME TypeOK, TypeOK', TlsRingIsFilled, ReceiveIsOwned, UnreadIsOwned, [Next]_vars
    PROVE  UnreadIsOwned'
  <1> USE DEF At, Goto, tlsVars
  <1>0. pc \in [Workers -> Pcs] /\ transferred \in [Workers -> 0..BufferCapacity]
    BY DEF TypeOK
  <1>1. ASSUME UNCHANGED <<tlsHead, tlsTail, unread>>, events \subseteq events',
               \A w \in Workers : pc'[w] = "advance" <=> pc[w] = "advance",
               \A w \in Workers : pc[w] = "advance" => transferred'[w] = transferred[w]
        PROVE  UnreadIsOwned'
    <2>1. TlsSize' = TlsSize
      BY <1>1 DEF TlsSize
    <2> QED
      BY <1>1, <2>1 DEF UnreadIsOwned
  <1>2. ASSUME NEW w \in Workers, PostReceive(w) PROVE UnreadIsOwned'
    <2> SUFFICES ASSUME "FullReceive" \notin events' PROVE UnreadIsOwned'
      BY DEF UnreadIsOwned
    <2>1. PICK n \in 0..MinOf(BufferCapacity - tlsTail, LastCell - arrived) :
             /\ transferred' = [transferred EXCEPT ![w] = n]
             /\ events' = events \cup (IF n = BufferCapacity THEN {"FullReceive"} ELSE {})
             /\ unread' = unread \cup (tlsTail..tlsTail + n - 1)
      BY <1>2 DEF PostReceive
    <2>2. n \in 0..BufferCapacity /\ n # BufferCapacity /\ "FullReceive" \notin events
      BY <2>1, ReceivedCells
    <2>3. tlsHead = tlsTail /\ \A x \in Workers : pc[x] # "advance"
      BY <1>2 DEF PostReceive, ReceiveIsOwned, OwnsReceive
    <2>4. unread = {}
      <3>1. TlsSize = 0
        BY <2>3, SizeFacts
      <3>2. 0..TlsSize - 1 = {}
        BY <3>1
      <3> QED
        BY <2>2, <2>3, <3>2 DEF UnreadIsOwned
    <2>5. UNCHANGED <<tlsHead, tlsTail>> /\ pc' = [pc EXCEPT ![w] = "advance"]
      BY <1>2 DEF PostReceive
    <2>6. \A x \in Workers : pc'[x] = "advance" => transferred'[x] < BufferCapacity
      BY <1>0, <2>1, <2>2, <2>3, <2>5, ConstantFacts
    <2>7. \A slot \in unread' : slot \in tlsTail'..tlsTail' + transferred'[w] - 1
      BY <1>0, <2>1, <2>4, <2>5
    <2>8. pc'[w] = "advance"
      BY <1>0, <2>5
    <2> QED
      BY <2>6, <2>7, <2>8 DEF UnreadIsOwned
  <1>3. ASSUME NEW w \in Workers, AdvanceTail(w) PROVE UnreadIsOwned'
    <2> SUFFICES ASSUME "FullReceive" \notin events' PROVE UnreadIsOwned'
      BY DEF UnreadIsOwned
    <2>1. /\ tlsHead = tlsTail /\ pc[w] = "advance" /\ "FullReceive" \notin events
          /\ \A x \in Workers : pc[x] = "advance" => x = w
          /\ \A x \in Workers : pc'[x] # "advance"
      BY <1>0, <1>3 DEF AdvanceTail, ReceiveIsOwned, OwnsReceive
    <2>2. /\ transferred[w] \in Nat /\ transferred[w] < BufferCapacity
          /\ tlsTail + transferred[w] =< BufferCapacity
      BY <1>0, <2>1 DEF UnreadIsOwned, TlsRingIsFilled
    <2>3. /\ tlsTail' = Advance(BufferCapacity, tlsTail, transferred[w])
          /\ UNCHANGED <<unread, tlsHead>>
      BY <1>3 DEF AdvanceTail
    <2>4. tlsTail \in 0..BufferCapacity - 1 /\ BufferCapacity \in Nat \ {0}
      BY RingFacts, ConstantFacts
    <2>5. TlsSize' = transferred[w]
      <3>1. Advance(BufferCapacity, tlsTail, transferred[w])
              = IF tlsTail + transferred[w] < BufferCapacity THEN tlsTail + transferred[w]
                ELSE tlsTail + transferred[w] - BufferCapacity
        <4>1. transferred[w] \in 0..BufferCapacity
          BY <1>0
        <4> QED
          BY <2>4, <4>1, AdvanceOnce
      <3>2. TlsSize' = GetRingBufferSize(BufferCapacity, tlsTail, tlsTail')
        BY <2>1, <2>3 DEF TlsSize
      <3> QED
        BY <2>2, <2>3, <2>4, <3>1, <3>2 DEF GetRingBufferSize
    <2>6. ASSUME NEW slot \in unread
          PROVE  slot \in tlsTail..tlsTail + transferred[w] - 1
      <3>1. 0..TlsSize - 1 = {}
        <4>1. TlsSize = 0
          BY <2>1, SizeFacts
        <4> QED
          BY <4>1
      <3>2. PICK x \in Workers : pc[x] = "advance" /\ slot \in tlsTail..tlsTail + transferred[x] - 1
        BY <2>1, <3>1 DEF UnreadIsOwned
      <3> QED
        BY <2>1, <3>2
    <2>7. ASSUME NEW slot \in unread
          PROVE  \E i \in 0..TlsSize' - 1 : slot = Advance(BufferCapacity, tlsHead', i)
      <3>1. slot \in tlsTail..tlsTail + transferred[w] - 1
        BY <2>6
      <3>2. slot - tlsTail \in 0..transferred[w] - 1 /\ slot < BufferCapacity /\ slot \in Int
        BY <2>2, <2>4, <3>1
      <3>3. Advance(BufferCapacity, tlsTail, slot - tlsTail) = slot
        <4>1. slot - tlsTail \in 0..BufferCapacity
          <5>1. \A k, n : n \in Nat /\ n < BufferCapacity /\ k \in 0..n - 1 => k \in 0..BufferCapacity
            BY <2>4
          <5> QED
            BY <2>2, <3>2, <5>1
        <4>2. tlsTail + (slot - tlsTail) = slot
          BY <2>4, <3>2
        <4> QED
          BY <2>4, <3>2, <4>1, <4>2, AdvanceOnce
      <3> QED
        BY <2>1, <2>3, <2>5, <3>2, <3>3
    <2> QED
      BY <2>1, <2>3, <2>7 DEF UnreadIsOwned
  <1>4. ASSUME NEW w \in Workers, TlsToBio(w) PROVE UnreadIsOwned'
    <2> SUFFICES ASSUME "FullReceive" \notin events' PROVE UnreadIsOwned'
      BY DEF UnreadIsOwned
    <2>1. /\ "FullReceive" \notin events /\ UNCHANGED <<tlsTail, transferred>>
          /\ unread' = unread \ DrainedSlots
      BY <1>4 DEF TlsToBio, workerVars
    <2>2. \A x \in Workers : pc'[x] = "advance" <=> pc[x] = "advance"
      BY <1>0, <1>4 DEF TlsToBio
    <2>3. ASSUME NEW slot \in unread'
          PROVE  \E x \in Workers : /\ pc[x] = "advance"
                                    /\ slot \in tlsTail..tlsTail + transferred[x] - 1
      <3>1. ASSUME NEW i \in 0..TlsSize - 1
            PROVE  Advance(BufferCapacity, tlsHead, i) \in DrainedSlots
        <4>1. TlsSize \in Nat /\ Len(Drained) = TlsSize
          BY SizeFacts, DrainedCells
        <4>2. i + 1 \in 1..Len(Drained) /\ (i + 1) - 1 = i
          BY <4>1
        <4> QED
          BY <4>2 DEF DrainedSlots
      <3> QED
        BY <2>1, <3>1 DEF UnreadIsOwned
    <2> QED
      BY <2>1, <2>2, <2>3 DEF UnreadIsOwned
  <1>5. ASSUME NEW w \in Workers,
               BioToApp(w) \/ RingFull(w) \/ TlsError(w)
        PROVE  UnreadIsOwned'
    <2>1. UNCHANGED <<tlsHead, tlsTail, unread, transferred>>
      BY <1>5 DEF BioToApp, RingFull, TlsError
    <2>2. PICK label : pc' = [pc EXCEPT ![w] = label] /\ label # "advance"
      BY <1>5, LeavesLock
    <2>3. pc[w] # "advance" /\ events \subseteq events'
      BY <1>5, LeavesLock DEF BioToApp, RingFull, TlsError
    <2>4. \A x \in Workers : pc'[x] = "advance" <=> pc[x] = "advance"
      BY <1>0, <2>2, <2>3
    <2> QED
      BY <1>1, <2>1, <2>3, <2>4
  <1>6. ASSUME NEW w \in Workers,
               \/ PostIoFailed(w) \/ TryReceiveAsync(w) \/ SendWantsReceive(w)
               \/ Peek(w) \/ PushToActor(w) \/ PopReceivedMessage(w) \/ Close(w)
        PROVE  UnreadIsOwned'
    <2>1. UNCHANGED <<tlsHead, tlsTail, unread, transferred>> /\ events \subseteq events'
      BY <1>6 DEF PostIoFailed, TryReceiveAsync, SendWantsReceive, Peek, PushToActor,
                  PopReceivedMessage, Close, workerVars
    <2>2. \A x \in Workers : pc'[x] = "advance" <=> pc[x] = "advance"
      BY <1>0, <1>6 DEF PostIoFailed, TryReceiveAsync, SendWantsReceive, Peek, PushToActor,
                        PopReceivedMessage, Close
    <2> QED
      BY <1>1, <2>1, <2>2
  <1>7. ASSUME NEW w \in Workers, PeekNothing(w) PROVE UnreadIsOwned'
    <2>1. /\ UNCHANGED <<tlsHead, tlsTail, unread, events>>
          /\ \A x \in Workers : pc'[x] = "advance" <=> pc[x] = "advance"
          /\ \A x \in Workers : pc[x] = "advance" => transferred'[x] = transferred[x]
      BY <1>0, <1>7 DEF PeekNothing
    <2> QED
      BY <1>1, <2>1
  <1>8. CASE UNCHANGED vars \/ CloseElsewhere
    <2>1. UNCHANGED <<tlsHead, tlsTail, unread, transferred, events, pc>>
      BY <1>8 DEF vars, CloseElsewhere, workerVars
    <2> QED
      BY <1>1, <2>1
  <1> QED
    BY <1>2, <1>3, <1>4, <1>5, <1>6, <1>7, <1>8 DEF Next, Step

\* receiveBuffersProcessMutex_ excludes, and the send path is in here only when
\* SSL_write has wanted to read (Session.cpp:186-197, 341-345).
LEMMA LockStep ==
    ASSUME TypeOK, LockIsExclusive, [Next]_vars
    PROVE  LockIsExclusive'
  <1> USE DEF At, Goto
  <1>0. pc \in [Workers -> Pcs]
    BY DEF TypeOK
  <1>1. ASSUME UNCHANGED processing, events \subseteq events',
               \A w \in Workers : /\ pc'[w] \in {"decrypt", "decryptForSend"} => pc'[w] = pc[w]
                                  /\ pc'[w] = "processForSend" =>
                                        pc'[w] = pc[w] \/ "WantRead" \in events'
        PROVE  LockIsExclusive'
    BY <1>1 DEF LockIsExclusive
  <1>2. ASSUME NEW w \in Workers, BioToApp(w) \/ RingFull(w) \/ TlsError(w)
        PROVE  LockIsExclusive'
    <2>1. pc[w] \in {"decrypt", "decryptForSend"}
      BY <1>2 DEF BioToApp, RingFull, TlsError
    <2>2. \A x \in Workers : pc[x] \in {"decrypt", "decryptForSend"} => x = w
      BY <2>1 DEF LockIsExclusive
    <2>3. PICK label : /\ pc' = [pc EXCEPT ![w] = label]
                       /\ label \notin {"decrypt", "decryptForSend"}
                       /\ label = "processForSend" => pc[w] = "decryptForSend"
      BY <1>2, LeavesLock
    <2>4. events \subseteq events'
      BY <1>2, LeavesLock
    <2> QED
      BY <1>0, <2>2, <2>3, <2>4 DEF LockIsExclusive
  <1>3. ASSUME NEW w \in Workers, TlsToBio(w) PROVE LockIsExclusive'
    <2>1. \A x \in Workers : pc[x] \notin {"decrypt", "decryptForSend"}
      BY <1>3, ReceiveAssumption DEF TlsToBio, LockIsExclusive
    <2> QED
      BY <1>0, <1>3, <2>1 DEF TlsToBio, LockIsExclusive
  <1>4. ASSUME NEW w \in Workers,
               \/ PostReceive(w) \/ PostIoFailed(w) \/ AdvanceTail(w) \/ TryReceiveAsync(w)
               \/ PeekNothing(w) \/ Peek(w) \/ PushToActor(w) \/ PopReceivedMessage(w)
               \/ Close(w) \/ SendWantsReceive(w)
        PROVE  LockIsExclusive'
    <2>1. UNCHANGED processing /\ events \subseteq events'
      BY <1>4 DEF PostReceive, PostIoFailed, AdvanceTail, TryReceiveAsync, PeekNothing, Peek,
                  PushToActor, PopReceivedMessage, Close, SendWantsReceive, mutexVars
    <2>2. ASSUME NEW label, pc' = [pc EXCEPT ![w] = label],
                 label \notin {"decrypt", "decryptForSend"},
                 label = "processForSend" => "WantRead" \in events'
          PROVE  LockIsExclusive'
      BY <1>0, <1>1, <2>1, <2>2
    <2>3. PostReceive(w) => pc' = [pc EXCEPT ![w] = "advance"]
      BY DEF PostReceive
    <2>4. AdvanceTail(w) => pc' = [pc EXCEPT ![w] = "process"]
      BY DEF AdvanceTail
    <2>5. PostIoFailed(w) => pc' = [pc EXCEPT ![w] = "close"]
      BY DEF PostIoFailed
    <2>6. TryReceiveAsync(w) \/ PopReceivedMessage(w) => pc' = [pc EXCEPT ![w] = "peek"]
      BY DEF TryReceiveAsync, PopReceivedMessage
    <2>7. PeekNothing(w) \/ Close(w) => \/ pc' = [pc EXCEPT ![w] = "idle"]
                                       \/ pc' = [pc EXCEPT ![w] = "close"]
      BY DEF PeekNothing, Close
    <2>8. /\ Peek(w) => pc' = [pc EXCEPT ![w] = "push"]
          /\ PushToActor(w) => pc' = [pc EXCEPT ![w] = "pop"]
      BY DEF Peek, PushToActor
    <2>9. SendWantsReceive(w) => /\ pc' = [pc EXCEPT ![w] = "processForSend"]
                                 /\ "WantRead" \in events'
      BY DEF SendWantsReceive
    <2> QED
      BY <1>4, <2>2, <2>3, <2>4, <2>5, <2>6, <2>7, <2>8, <2>9
  <1>5. CASE UNCHANGED vars \/ CloseElsewhere
    BY <1>1, <1>5 DEF vars, CloseElsewhere, mutexVars
  <1> QED
    BY <1>2, <1>3, <1>4, <1>5 DEF Next, Step

-----------------------------------------------------------------------------
(* The application ring, the peeked message and the mailbox.               *)

\* A step that leaves the application ring and the dispatch loop alone.
LEMMA AppUnchanged ==
    ASSUME StreamInOrder, PeekedIsNext, MailboxInOrder,
           UNCHANGED <<appVars, popVars, decrypted>>,
           \A w \in Workers : /\ pc'[w] = "push" <=> pc[w] = "push"
                              /\ pc'[w] = "pop" <=> pc[w] = "pop",
           events \subseteq events'
    PROVE  StreamInOrder' /\ PeekedIsNext' /\ MailboxInOrder'
  <1> USE DEF appVars, popVars
  <1>1. \A w \in Workers : /\ HoldsMessage(w)' <=> HoldsMessage(w)
                           /\ At(w, "pop")' <=> At(w, "pop")
    BY DEF HoldsMessage, At
  <1>2. Popped' = Popped
    BY <1>1 DEF Popped
  <1>3. AppSize' = AppSize
    BY DEF AppSize
  <1>4. StreamInOrder'
    BY <1>2, <1>3 DEF StreamInOrder
  <1>5. PeekedIsNext'
    BY <1>1, <1>2, <1>3 DEF PeekedIsNext
  <1>6. MailboxInOrder'
    BY DEF MailboxInOrder
  <1> QED
    BY <1>4, <1>5, <1>6

\* The steps of that kind.
LEMMA OtherSteps ==
    ASSUME TypeOK, NEW w \in Workers,
           \/ PostReceive(w) \/ PostIoFailed(w) \/ AdvanceTail(w) \/ TryReceiveAsync(w)
           \/ TlsToBio(w) \/ TlsError(w) \/ SendWantsReceive(w) \/ PeekNothing(w) \/ Close(w)
    PROVE  /\ UNCHANGED <<appVars, popVars, decrypted>>
           /\ \A x \in Workers : /\ pc'[x] = "push" <=> pc[x] = "push"
                                 /\ pc'[x] = "pop" <=> pc[x] = "pop"
           /\ events \subseteq events'
           /\ "Lost" \in events' => "Lost" \in events
  <1>0. pc \in [Workers -> Pcs]
    BY DEF TypeOK
  <1>1. /\ UNCHANGED <<appVars, popVars, decrypted>>
        /\ events \subseteq events'
        /\ "Lost" \in events' => "Lost" \in events
    BY DEF PostReceive, PostIoFailed, AdvanceTail, TryReceiveAsync, TlsToBio, TlsError,
           SendWantsReceive, PeekNothing, Close
  <1> DEFINE Same == \A x \in Workers : /\ pc'[x] = "push" <=> pc[x] = "push"
                                        /\ pc'[x] = "pop" <=> pc[x] = "pop"
  <1>2. ASSUME \A x \in Workers : x # w => pc'[x] = pc[x],
               pc'[w] \notin {"push", "pop"}, pc[w] \notin {"push", "pop"}
        PROVE  Same
    BY <1>2
  <1> HIDE DEF Same
  <1>3. ASSUME TlsError(w) PROVE Same
    <2>1. pc[w] \notin {"push", "pop"}
      BY <1>3 DEF TlsError
    <2> QED
      BY <1>0, <1>2, <1>3, <2>1, LeavesLock
  <1>4. ASSUME TlsToBio(w) PROVE Same
    <2>1. ASSUME At(w, "process") PROVE Same
      <3>1. pc' = [pc EXCEPT ![w] = "decrypt"] /\ pc[w] = "process"
        BY <1>4, <2>1 DEF TlsToBio, Goto, At
      <3> QED
        BY <1>0, <1>2, <3>1
    <2>2. ASSUME ~At(w, "process") PROVE Same
      <3>1. pc' = [pc EXCEPT ![w] = "decryptForSend"] /\ pc[w] = "processForSend"
        BY <1>4, <2>2 DEF TlsToBio, Goto, At
      <3> QED
        BY <1>0, <1>2, <3>1
    <2> QED
      BY <2>1, <2>2
  <1>5. ASSUME PeekNothing(w) PROVE Same
    <2>1. pc[w] = "peek"
      BY <1>5 DEF PeekNothing, At
    <2>2. pc' = [pc EXCEPT ![w] = "idle"] \/ pc' = [pc EXCEPT ![w] = "close"]
      BY <1>5 DEF PeekNothing, Goto
    <2> QED
      BY <1>0, <1>2, <2>1, <2>2
  <1>6. ASSUME PostReceive(w) PROVE Same
    BY <1>0, <1>2, <1>6 DEF PostReceive, Goto, At
  <1>7. ASSUME PostIoFailed(w) PROVE Same
    BY <1>0, <1>2, <1>7 DEF PostIoFailed, Goto, At
  <1>8. ASSUME AdvanceTail(w) PROVE Same
    BY <1>0, <1>2, <1>8 DEF AdvanceTail, Goto, At
  <1>9. ASSUME TryReceiveAsync(w) PROVE Same
    BY <1>0, <1>2, <1>9 DEF TryReceiveAsync, Goto, At
  <1>10. ASSUME SendWantsReceive(w) PROVE Same
    BY <1>0, <1>2, <1>10 DEF SendWantsReceive, Goto, At
  <1>11. ASSUME Close(w) PROVE Same
    BY <1>0, <1>2, <1>11 DEF Close, Goto, At
  <1>12. Same
    BY <1>3, <1>4, <1>5, <1>6, <1>7, <1>8, <1>9, <1>10, <1>11
  <1> QED
    BY <1>1, <1>12 DEF Same

\* A step that ends the decryption leaves the dispatch loop alone too.
LEMMA DecryptKeepsDispatch ==
    ASSUME TypeOK, NEW w \in Workers, BioToApp(w) \/ RingFull(w)
    PROVE  /\ UNCHANGED popVars
           /\ \A x \in Workers : /\ HoldsMessage(x)' <=> HoldsMessage(x)
                                 /\ At(x, "pop")' <=> At(x, "pop")
           /\ Popped' = Popped
  <1>0. pc \in [Workers -> Pcs]
    BY DEF TypeOK
  <1>1. UNCHANGED popVars /\ pc[w] \in {"decrypt", "decryptForSend"}
    BY DEF BioToApp, RingFull
  <1>2. PICK label : /\ pc' = [pc EXCEPT ![w] = label]
                     /\ label \notin {"push", "pop"}
    BY LeavesLock
  <1>3. \A x \in Workers : /\ HoldsMessage(x)' <=> HoldsMessage(x)
                           /\ At(x, "pop")' <=> At(x, "pop")
    BY <1>0, <1>1, <1>2 DEF HoldsMessage, At
  <1>4. Popped' = Popped
    BY <1>1, <1>3 DEF Popped, popVars
  <1> QED
    BY <1>1, <1>3, <1>4

\* The head that was loaded bounds what may be written (Session.cpp:378-383).
LEMMA FreeSlotsAreAvailable ==
    ASSUME TypeOK, LockIsExclusive, LoadedHeadIsBehind,
           NEW w \in Workers, pc[w] \in {"decrypt", "decryptForSend"}
    PROVE  /\ FreeSlots =< Available(BufferCapacity, appHead, appTail)
           /\ Available(BufferCapacity, appHead, appTail) \in 0..BufferCapacity - 1
           /\ FreeSlots \in 0..BufferCapacity - 1
  <1>1. processing # Nobody
    BY ReceiveAssumption DEF LockIsExclusive
  <1>2. GetRingBufferSize(BufferCapacity, loadedHead, appTail)
          >= GetRingBufferSize(BufferCapacity, appHead, appTail)
    BY <1>1 DEF LoadedHeadIsBehind, AppSize
  <1>3. /\ appHead \in 0..BufferCapacity - 1 /\ appTail \in 0..BufferCapacity - 1
        /\ loadedHead \in 0..BufferCapacity - 1 /\ BufferCapacity \in Nat \ {0}
    BY RingFacts, ConstantFacts
  <1>4. FreeSlots =< Available(BufferCapacity, appHead, appTail)
    BY <1>2, <1>3 DEF FreeSlots, Available, GetRingBufferSize
  <1>5. /\ Available(BufferCapacity, appHead, appTail) \in 0..BufferCapacity - 1
        /\ FreeSlots \in 0..BufferCapacity - 1
    BY <1>3 DEF FreeSlots, Available, GetRingBufferSize
  <1> QED
    BY <1>4, <1>5

\* Decrypted cells go behind those that are there (Session.cpp:378-431).
LEMMA BioToAppStep ==
    ASSUME TypeOK, TypeOK', LockIsExclusive, AppInv, NEW w \in Workers, BioToApp(w)
    PROVE  StreamInOrder' /\ PeekedIsNext' /\ MailboxInOrder'
  <1> DEFINE n == Len(readBio)
             first == HeaderOf[Popped + 1]
  <1>1. pc[w] \in {"decrypt", "decryptForSend"} /\ InOrder(readBio) /\ n < FreeSlots
    BY DEF BioToApp, CanDecrypt
  <1>2. /\ receiveAppBuffer' = Write(receiveAppBuffer, BufferCapacity, appTail, readBio)
        /\ appTail' = Advance(BufferCapacity, appTail, n)
        /\ decrypted' = decrypted + n
        /\ "Lost" \in events' => "Lost" \in events
    BY DEF BioToApp
  <1>3. UNCHANGED <<appHead, contiguousPopBuffer, peeked, mailbox>> /\ Popped' = Popped
    BY DecryptKeepsDispatch DEF popVars
  <1>4. "Lost" \notin events
    BY <1>1 DEF AppInv, LossIsFinal, OwnsReceive
  <1>5. n \in Nat
    BY DEF TypeOK
  <1>r. /\ appHead \in 0..BufferCapacity - 1 /\ appTail \in 0..BufferCapacity - 1
        /\ BufferCapacity \in Nat \ {0} /\ DOMAIN receiveAppBuffer = 0..BufferCapacity - 1
    BY RingFacts, ConstantFacts
  <1>6. n \in 0..Available(BufferCapacity, appHead, appTail)
    <2>1. /\ FreeSlots =< Available(BufferCapacity, appHead, appTail)
          /\ Available(BufferCapacity, appHead, appTail) \in 0..BufferCapacity - 1
          /\ FreeSlots \in 0..BufferCapacity - 1
      BY <1>1, FreeSlotsAreAvailable DEF AppInv
    <2> HIDE DEF n
    <2> QED
      BY <1>1, <1>5, <2>1, ConstantFacts
  <1>7. AppSize' = AppSize + n
    <2> HIDE DEF n
    <2>1. GetRingBufferSize(BufferCapacity, appHead, Advance(BufferCapacity, appTail, n))
            = GetRingBufferSize(BufferCapacity, appHead, appTail) + n
      BY <1>6, <1>r, AdvanceTailAdds
    <2> QED
      BY <1>2, <1>3, <2>1 DEF AppSize
  <1>8. /\ Popped \in 0..Len(BodySizes)
        /\ \A i \in 0..AppSize - 1 :
              receiveAppBuffer[Advance(BufferCapacity, appHead, i)] = first + i
        /\ decrypted + 1 = first + AppSize
    BY <1>4 DEF AppInv, StreamInOrder
  <1>a. AppSize \in Nat /\ decrypted \in Nat
    <2>1. AppSize \in 0..BufferCapacity - 1
      BY SizeFacts
    <2>2. decrypted \in 0..LastCell
      BY DEF TypeOK
    <2> QED
      BY <2>1, <2>2, ConstantFacts
  <1>9. first \in Nat /\ AppSize \in Nat /\ decrypted \in Nat
    <2>1. Popped + 1 \in 1..Len(BodySizes) + 1
      BY <1>8, ConstantFacts
    <2> QED
      BY <2>1, <1>a, HeaderOfEquations
  <1>10. ASSUME NEW i \in 0..AppSize - 1
         PROVE  receiveAppBuffer'[Advance(BufferCapacity, appHead, i)] = first + i
    <2>1. receiveAppBuffer'[Advance(BufferCapacity, appHead, i)]
            = receiveAppBuffer[Advance(BufferCapacity, appHead, i)]
      <3> HIDE DEF first
      <3>1. Len(readBio) \in 0..Available(BufferCapacity, appHead, appTail)
        BY <1>6
      <3>2. i \in 0..GetRingBufferSize(BufferCapacity, appHead, appTail) - 1
        BY DEF AppSize
      <3> QED
        BY <1>2, <1>r, <3>1, <3>2, WriteKeepsContent
    <2> QED
      BY <1>8, <2>1
  <1>11. ASSUME NEW i \in 0..n - 1
         PROVE  receiveAppBuffer'[Advance(BufferCapacity, appHead, AppSize + i)]
                  = first + (AppSize + i)
    <2>1. receiveAppBuffer'[Advance(BufferCapacity, appHead, AppSize + i)] = readBio[i + 1]
      <3> HIDE DEF first
      <3>1. Len(readBio) \in 0..Available(BufferCapacity, appHead, appTail)
        BY <1>6
      <3>2. i \in 0..Len(readBio) - 1
        OBVIOUS
      <3>3. AppSize = GetRingBufferSize(BufferCapacity, appHead, appTail)
        BY DEF AppSize
      <3> QED
        BY <1>2, <1>r, <3>1, <3>2, <3>3, WriteAddsData
    <2>2. i + 1 \in 1..n
      BY <1>5
    <2>3. readBio[i + 1] = decrypted + (i + 1)
      BY <1>1, <2>2 DEF InOrder
    <2> HIDE DEF first, n
    <2>4. decrypted + (i + 1) = first + (AppSize + i)
      BY <1>5, <1>8, <1>9
    <2> QED
      BY <2>1, <2>3, <2>4
  <1>12. ASSUME NEW i \in 0..AppSize' - 1
         PROVE  receiveAppBuffer'[Advance(BufferCapacity, appHead', i)] = first + i
    <2> HIDE DEF first, n
    <2> DEFINE s == AppSize
    <2>1. i \in Nat /\ i < s + n /\ s \in Nat /\ n \in Nat
      BY <1>5, <1>7, <1>9
    <2>2. CASE i < s
      <3>1. i \in 0..AppSize - 1
        BY <2>1, <2>2
      <3> QED
        BY <1>3, <1>10, <3>1
    <2>3. CASE ~(i < s)
      <3>1. i - s \in 0..n - 1 /\ s + (i - s) = i
        <4> HIDE DEF s
        <4> QED
          BY <2>1, <2>3
      <3> QED
        BY <1>3, <1>11, <3>1
    <2> QED
      BY <2>2, <2>3
  <1>13. StreamInOrder'
    <2> HIDE DEF n
    <2>1. decrypted' + 1 = first + AppSize'
      <3> HIDE DEF first
      <3> QED
        BY <1>2, <1>5, <1>7, <1>8, <1>9
    <2>2. first + AppSize' =< LastCell + 1
      <3>1. decrypted' \in 0..LastCell
        BY DEF TypeOK
      <3> HIDE DEF first
      <3> QED
        BY <2>1, <3>1, ConstantFacts
    <2> QED
      BY <1>3, <1>8, <1>12, <2>1, <2>2 DEF StreamInOrder
  <1>14. PeekedIsNext'
    <2>1. AppSize =< AppSize' /\ AppSize \in Nat /\ AppSize' \in Nat
      <3> HIDE DEF n
      <3> QED
        BY <1>5, <1>7, <1>9
    <2>2. \A x \in Workers : peeked[x].size \in Nat
      BY BodyOfType, ConstantFacts
    <2>3. PeekedIsNext
      BY DEF AppInv
    <2> QED
      BY <1>3, <2>1, <2>2, <2>3, DecryptKeepsDispatch DEF PeekedIsNext
  <1>15. MailboxInOrder'
    BY <1>3 DEF MailboxInOrder, AppInv
  <1> QED
    BY <1>13, <1>14, <1>15

\* A full ring fails and stores no tail: what is unread stays as it is
\* (Session.cpp:385-393).
LEMMA RingFullStep ==
    ASSUME TypeOK, LockIsExclusive, AppInv, NEW w \in Workers, RingFull(w)
    PROVE  StreamInOrder' /\ PeekedIsNext' /\ MailboxInOrder'
  <1> DEFINE taken == SubSeq(readBio, 1, FreeSlots)
             first == HeaderOf[Popped + 1]
  <1>1. /\ pc[w] \in {"decrypt", "decryptForSend"} /\ Len(readBio) >= FreeSlots
        /\ receiveAppBuffer' = Write(receiveAppBuffer, BufferCapacity, appTail, taken)
        /\ appTail' = appTail /\ decrypted' = decrypted + FreeSlots
        /\ events' = events \cup (IF FreeSlots > 0 THEN {"Lost"} ELSE {})
    BY DEF RingFull, appVars
  <1>2. UNCHANGED <<appHead, contiguousPopBuffer, peeked, mailbox>> /\ Popped' = Popped
    BY DecryptKeepsDispatch DEF popVars
  <1>3. AppSize' = AppSize
    BY <1>1, <1>2 DEF AppSize
  <1>4. /\ FreeSlots =< Available(BufferCapacity, appHead, appTail)
        /\ Available(BufferCapacity, appHead, appTail) \in 0..BufferCapacity - 1
        /\ FreeSlots \in 0..BufferCapacity - 1
    BY <1>1, FreeSlotsAreAvailable DEF AppInv
  <1>5. Len(taken) \in 0..Available(BufferCapacity, appHead, appTail)
    <2>1. readBio \in Seq(Cells) /\ Len(readBio) \in Nat
      BY DEF TypeOK
    <2>2. FreeSlots \in Nat
      BY <1>4, ConstantFacts
    <2>3. Len(taken) = FreeSlots
      BY <1>1, <2>1, <2>2, SubSeqProperties
    <2> QED
      BY <1>4, <2>2, <2>3, ConstantFacts
  <1>6. /\ appHead \in 0..BufferCapacity - 1 /\ appTail \in 0..BufferCapacity - 1
        /\ BufferCapacity \in Nat \ {0} /\ DOMAIN receiveAppBuffer = 0..BufferCapacity - 1
    BY RingFacts, ConstantFacts
  <1>7. ASSUME NEW i \in 0..AppSize - 1
        PROVE  receiveAppBuffer'[Advance(BufferCapacity, appHead, i)]
                 = receiveAppBuffer[Advance(BufferCapacity, appHead, i)]
    <2> HIDE DEF taken
    <2>1. i \in 0..GetRingBufferSize(BufferCapacity, appHead, appTail) - 1
      BY DEF AppSize
    <2> QED
      BY <1>1, <1>5, <1>6, <2>1, WriteKeepsContent
  <1>8. \A i \in 0..AppSize' - 1 :
           receiveAppBuffer'[Advance(BufferCapacity, appHead', i)] = first + i
    BY <1>2, <1>3, <1>7 DEF AppInv, StreamInOrder
  <1>9. "Lost" \notin events' => "Lost" \notin events /\ decrypted' = decrypted
    <2>1. "Lost" \notin events' => FreeSlots = 0 /\ "Lost" \notin events
      BY <1>1, <1>4, ConstantFacts
    <2>2. decrypted \in Nat
      BY ConstantFacts DEF TypeOK
    <2> QED
      BY <1>1, <2>1, <2>2
  <1>10. StreamInOrder'
    BY <1>2, <1>3, <1>8, <1>9 DEF AppInv, StreamInOrder
  <1>11. PeekedIsNext'
    BY <1>2, <1>3, DecryptKeepsDispatch DEF AppInv, PeekedIsNext
  <1>12. MailboxInOrder'
    BY <1>2 DEF AppInv, MailboxInOrder
  <1> QED
    BY <1>10, <1>11, <1>12

\* What the invariant says of the unread cells, as numbers.
LEMMA StreamFacts ==
    ASSUME TypeOK, StreamInOrder
    PROVE  /\ Popped \in Nat /\ Popped + 1 \in 1..Len(BodySizes) + 1
           /\ HeaderOf[Popped + 1] \in 1..LastCell + 1
           /\ AppSize \in Nat
           /\ \A i \in Nat : i < AppSize =>
                 receiveAppBuffer[Advance(BufferCapacity, appHead, i)]
                   = HeaderOf[Popped + 1] + i
           /\ AppSize > 0 => Popped + 1 \in Messages
  <1>1. Popped \in Nat /\ Popped + 1 \in 1..Len(BodySizes) + 1
    BY ConstantFacts DEF StreamInOrder
  <1>2. HeaderOf[Popped + 1] \in 1..LastCell + 1
    BY <1>1, CellFacts
  <1>3. AppSize \in Nat
    BY SizeFacts
  <1>4. \A i \in Nat : i < AppSize =>
           receiveAppBuffer[Advance(BufferCapacity, appHead, i)] = HeaderOf[Popped + 1] + i
    <2>1. \A i \in Nat : i < AppSize => i \in 0..AppSize - 1
      BY <1>3
    <2> QED
      BY <2>1 DEF StreamInOrder
  <1>5. ASSUME AppSize > 0
        PROVE  Popped + 1 \in Messages
    <2>1. HeaderOf[Popped + 1] + AppSize =< LastCell + 1
      BY DEF StreamInOrder
    <2>2. HeaderOf[Popped + 1] \in Cells
      BY <1>2, <1>3, <1>5, <2>1, ConstantFacts
    <2> QED
      BY <1>1, <2>2, CellFacts
  <1> QED
    BY <1>1, <1>2, <1>3, <1>4, <1>5

\* What is peeked is the header of the next message and, at the slots behind it
\* or in the buffer where a wrapped body is put together, its body
\* (Session.cpp:280-337).
LEMMA PeekStep ==
    ASSUME TypeOK, AppInv, Clean', NEW w \in Workers, Peek(w)
    PROVE  StreamInOrder' /\ PeekedIsNext' /\ MailboxInOrder'
  <1> DEFINE next == Popped + 1
             bodyHead == Advance(BufferCapacity, appHead, 1)
  <1>0. pc \in [Workers -> Pcs] /\ peeked \in [Workers -> [header : 0..LastCell,
                                     size : 0..BodyLimit, at : Slots \cup {InPopBuffer}]]
    BY DEF TypeOK
  <1>i. StreamInOrder /\ PeekedIsNext /\ MailboxInOrder
    BY DEF AppInv
  <1>1. PICK size \in SizesAt(receiveAppBuffer[appHead]) :
           /\ BodyIsReadable(size)
           /\ peeked' = [peeked EXCEPT ![w] =
                 [header |-> receiveAppBuffer[appHead], size |-> size,
                  at |-> IF bodyHead + size > BufferCapacity THEN InPopBuffer ELSE bodyHead]]
           /\ contiguousPopBuffer' =
                 IF bodyHead + size > BufferCapacity
                 THEN Read(receiveAppBuffer, BufferCapacity, bodyHead, size)
                 ELSE contiguousPopBuffer
    BY DEF Peek
  <1>2. /\ pc[w] = "peek" /\ pc' = [pc EXCEPT ![w] = "push"]
        /\ UNCHANGED <<appHead, appTail, receiveAppBuffer, decrypted, mailbox>>
        /\ events' = events \cup (IF \E x \in Workers \ {w} : HoldsMessage(x)
                                  THEN {"Overlap"} ELSE {})
    BY DEF Peek, At, Goto, appVars
  <1>3. AppSize > 0
    <2>1. AppSize >= 1
      BY DEF Peek, Readable, AppSize
    <2> QED
      BY <2>1, SizeFacts, ConstantFacts
  <1>4. /\ next \in Messages /\ AppSize \in Nat
        /\ \A i \in Nat : i < AppSize =>
              receiveAppBuffer[Advance(BufferCapacity, appHead, i)] = HeaderOf[next] + i
        /\ HeaderOf[next] \in Nat
    BY <1>3, <1>i, StreamFacts, ConstantFacts
  <1>5. receiveAppBuffer[appHead] = HeaderOf[next]
    <2>1. Advance(BufferCapacity, appHead, 0) = appHead
      BY RingFacts, ConstantFacts, AdvanceZero
    <2>2. receiveAppBuffer[Advance(BufferCapacity, appHead, 0)] = HeaderOf[next] + 0
      BY <1>3, <1>4
    <2> HIDE DEF next
    <2> QED
      BY <1>4, <2>1, <2>2
  <1>6. size = BodySizes[next]
    BY <1>1, <1>4, <1>5, SizesAtHeader
  <1>7. size \in 0..BodyLimit /\ bodyHead \in Slots /\ size =< AppSize - 1
    BY <1>1, <1>3, PeekedSize
  <1>8. 1 + size =< AppSize /\ size \in Nat
    BY <1>4, <1>7, ConstantFacts
  <1>9. \A x \in Workers : x # w => ~HoldsMessage(x)
    BY <1>2 DEF Clean
  <1>10. /\ \A x \in Workers : HoldsMessage(x)' => x = w
         /\ \A x \in Workers : At(x, "pop")' <=> At(x, "pop")
    BY <1>0, <1>2, <1>9 DEF HoldsMessage, At
  <1>11. Popped' = Popped /\ AppSize' = AppSize
    BY <1>2, <1>10 DEF Popped, AppSize
  <1>12. peeked'[w] = [header |-> receiveAppBuffer[appHead], size |-> size,
                       at |-> IF bodyHead + size > BufferCapacity THEN InPopBuffer ELSE bodyHead]
    BY <1>0, <1>1
  <1>13. IF peeked'[w].at = InPopBuffer
         THEN contiguousPopBuffer' = Body(next)
         ELSE peeked'[w].at = bodyHead
    <2>1. CASE bodyHead + size > BufferCapacity
      <3>1. contiguousPopBuffer' = Read(receiveAppBuffer, BufferCapacity, bodyHead, size)
        BY <1>1, <2>1
      <3>2. ASSUME NEW i \in 1..size
            PROVE  receiveAppBuffer[Advance(BufferCapacity, bodyHead, i - 1)]
                     = HeaderOf[next] + i
        <4>1. /\ appHead \in 0..BufferCapacity - 1 /\ appTail \in 0..BufferCapacity - 1
              /\ BufferCapacity \in Nat \ {0} /\ AppSize \in 0..BufferCapacity - 1
          BY RingFacts, ConstantFacts, SizeFacts
        <4>2. /\ 1 \in 0..GetRingBufferSize(BufferCapacity, appHead, appTail)
              /\ i - 1 \in Nat /\ 1 + (i - 1) = i /\ i =< BufferCapacity
              /\ i \in Nat /\ i < AppSize
          BY <1>8, <4>1 DEF AppSize
        <4>3. Advance(BufferCapacity, bodyHead, i - 1) = Advance(BufferCapacity, appHead, i)
          BY <4>1, <4>2, AdvanceHeadDropsPrefix
        <4> QED
          BY <1>4, <4>2, <4>3
      <3>3. Read(receiveAppBuffer, BufferCapacity, bodyHead, size) = Body(next)
        <4> HIDE DEF bodyHead, next
        <4> QED
          BY <1>6, <3>2 DEF Read, Body
      <3> QED
        BY <1>12, <2>1, <3>1, <3>3
    <2>2. CASE ~(bodyHead + size > BufferCapacity)
      <3>1. bodyHead # InPopBuffer
        BY <1>7, ConstantFacts DEF InPopBuffer
      <3> QED
        BY <1>12, <2>2, <3>1
    <2> QED
      BY <2>1, <2>2
  <1>14. StreamInOrder'
    BY <1>i, <1>2, <1>11 DEF StreamInOrder
  <1>15. PeekedIsNext'
    <2>1. \A x, y \in Workers : HoldsMessage(x)' /\ HoldsMessage(y)' => x = y
      BY <1>10
    <2>2. peeked'[w].header = HeaderOf[next] /\ peeked'[w].size = BodySizes[next]
      BY <1>5, <1>6, <1>12
    <2>3. 1 + peeked'[w].size =< AppSize'
      BY <1>8, <1>11, <1>12
    <2>4. appHead' = appHead
      BY <1>2
    <2> HIDE DEF bodyHead
    <2> QED
      BY <1>4, <1>10, <1>11, <1>13, <2>1, <2>2, <2>3, <2>4 DEF PeekedIsNext, bodyHead
  <1>16. MailboxInOrder'
    BY <1>i, <1>2 DEF MailboxInOrder
  <1> QED
    BY <1>14, <1>15, <1>16

\* The message that is pushed is the next one, whole (NetworkServer.cpp:277-290).
LEMMA PushStep ==
    ASSUME TypeOK, AppInv, NEW w \in Workers, PushToActor(w)
    PROVE  StreamInOrder' /\ PeekedIsNext' /\ MailboxInOrder'
  <1> DEFINE next == Popped + 1
             S == [header : 0..LastCell, body : Seq(0..LastCell)]
             message == [header |-> peeked[w].header, body |-> BodyOf(peeked[w])]
  <1>i. StreamInOrder /\ PeekedIsNext /\ MailboxInOrder
    BY DEF AppInv
  <1>0. pc \in [Workers -> Pcs] /\ mailbox \in Seq(S)
    BY DEF TypeOK
  <1>1. /\ pc[w] = "push" /\ pc' = [pc EXCEPT ![w] = "pop"]
        /\ mailbox' = Append(mailbox, message)
        /\ UNCHANGED <<appHead, appTail, receiveAppBuffer, decrypted, peeked,
                       contiguousPopBuffer, events>>
    BY DEF PushToActor, At, Goto, appVars
  <1>2. \A x \in Workers : HoldsMessage(x) <=> x = w
    BY <1>i, <1>1 DEF PeekedIsNext, HoldsMessage
  <1>3. \A x \in Workers : ~At(x, "pop")
    BY <1>1, <1>2 DEF HoldsMessage, At
  <1>4. \A x \in Workers : HoldsMessage(x)' <=> x = w
    BY <1>0, <1>1, <1>2 DEF HoldsMessage
  <1>5. At(w, "pop")'
    BY <1>0, <1>1 DEF At
  <1>6. mailbox' \in Seq(S) /\ Len(mailbox') = Len(mailbox) + 1
        /\ mailbox'[Len(mailbox) + 1] = message
        /\ \A n \in 1..Len(mailbox) : mailbox'[n] = mailbox[n]
    <2>1. message \in S
      BY BodyOfType
    <2> HIDE DEF message, S
    <2> QED
      BY <1>0, <1>1, <2>1, AppendProperties
  <1>7. Len(mailbox) \in Nat /\ Popped = Len(mailbox) /\ Popped' = Len(mailbox)
    <2>1. Len(mailbox) \in Nat /\ Popped = Len(mailbox)
      BY <1>0, <1>3 DEF Popped
    <2>2. Popped' = Len(mailbox') - 1
      BY <1>5 DEF Popped
    <2> QED
      BY <1>6, <2>1, <2>2
  <1>8. AppSize' = AppSize
    BY <1>1 DEF AppSize
  <1>9. /\ next \in Messages /\ peeked[w].header = HeaderOf[next]
        /\ peeked[w].size = BodySizes[next] /\ 1 + peeked[w].size =< AppSize
        /\ IF peeked[w].at = InPopBuffer THEN contiguousPopBuffer = Body(next)
           ELSE peeked[w].at = Advance(BufferCapacity, appHead, 1)
    BY <1>i, <1>2 DEF PeekedIsNext
  <1>10. BodySizes[next] \in Nat
    BY <1>9, CellFacts
  <1>11. BodyOf(peeked[w]) = Body(next)
    <2>1. CASE peeked[w].at = InPopBuffer
      <3>1. contiguousPopBuffer = Body(next)
        BY <1>9, <2>1
      <3>2. Len(Body(next)) = BodySizes[next] /\ DOMAIN Body(next) = 1..BodySizes[next]
        BY <1>10 DEF Body
      <3>3. BodyOf(peeked[w]) = [i \in 1..BodySizes[next] |-> contiguousPopBuffer[i]]
        BY <1>9, <1>10, <2>1, <3>1, <3>2 DEF BodyOf
      <3> QED
        BY <3>1, <3>3 DEF Body
    <2>2. CASE peeked[w].at # InPopBuffer
      <3> DEFINE bodyHead == Advance(BufferCapacity, appHead, 1)
      <3>1. BodyOf(peeked[w]) = Read(receiveAppBuffer, BufferCapacity, bodyHead, BodySizes[next])
        BY <1>9, <2>2 DEF BodyOf
      <3>2. ASSUME NEW i \in 1..BodySizes[next]
            PROVE  receiveAppBuffer[Advance(BufferCapacity, bodyHead, i - 1)]
                     = HeaderOf[next] + i
        <4>1. /\ appHead \in 0..BufferCapacity - 1 /\ appTail \in 0..BufferCapacity - 1
              /\ BufferCapacity \in Nat \ {0} /\ AppSize \in 0..BufferCapacity - 1
          BY RingFacts, ConstantFacts, SizeFacts
        <4>2. /\ 1 \in 0..GetRingBufferSize(BufferCapacity, appHead, appTail)
              /\ i - 1 \in Nat /\ 1 + (i - 1) = i /\ i =< BufferCapacity
              /\ i \in Nat /\ i < AppSize
          BY <1>9, <1>10, <4>1 DEF AppSize
        <4>3. Advance(BufferCapacity, bodyHead, i - 1) = Advance(BufferCapacity, appHead, i)
          BY <4>1, <4>2, AdvanceHeadDropsPrefix
        <4>4. receiveAppBuffer[Advance(BufferCapacity, appHead, i)] = HeaderOf[next] + i
          BY <1>i, <4>2, StreamFacts
        <4> QED
          BY <4>3, <4>4
      <3> HIDE DEF bodyHead, next
      <3> QED
        BY <3>1, <3>2 DEF Read, Body
    <2> QED
      BY <2>1, <2>2
  <1>12. MailboxInOrder'
    <2> SUFFICES ASSUME NEW n \in 1..Len(mailbox) + 1
                 PROVE  /\ n \in Messages
                        /\ mailbox'[n] = [header |-> HeaderOf[n], body |-> Body(n)]
      BY <1>6 DEF MailboxInOrder
    <2>1. CASE n = Len(mailbox) + 1
      BY <1>6, <1>7, <1>9, <1>11, <2>1
    <2>2. CASE n # Len(mailbox) + 1
      <3>1. n \in 1..Len(mailbox)
        BY <1>7, <2>2
      <3> QED
        BY <1>i, <1>6, <3>1 DEF MailboxInOrder
    <2> QED
      BY <2>1, <2>2
  <1>13. StreamInOrder'
    BY <1>i, <1>1, <1>7, <1>8 DEF StreamInOrder
  <1>14. PeekedIsNext'
    BY <1>1, <1>4, <1>7, <1>8, <1>9 DEF PeekedIsNext
  <1> QED
    BY <1>12, <1>13, <1>14

\* A pop takes the message off the ring, header and body
\* (Session.h:136-140).
LEMMA PopStep ==
    ASSUME TypeOK, AppInv, NEW w \in Workers, PopReceivedMessage(w)
    PROVE  /\ StreamInOrder' /\ PeekedIsNext' /\ MailboxInOrder'
           /\ AppSize' \in 0..AppSize
  <1> DEFINE next == Popped + 1
             n == 1 + peeked[w].size
  <1>i. StreamInOrder /\ PeekedIsNext /\ MailboxInOrder
    BY DEF AppInv
  <1>0. pc \in [Workers -> Pcs] /\ Len(mailbox) \in Nat
    <2> DEFINE S == [header : 0..LastCell, body : Seq(0..LastCell)]
    <2>1. pc \in [Workers -> Pcs] /\ mailbox \in Seq(S)
      BY DEF TypeOK
    <2> HIDE DEF S
    <2> QED
      BY <2>1
  <1>1. /\ pc[w] = "pop" /\ pc' = [pc EXCEPT ![w] = "peek"]
        /\ appHead' = Advance(BufferCapacity, appHead, n)
        /\ UNCHANGED <<appTail, receiveAppBuffer, decrypted, mailbox, events>>
    BY DEF PopReceivedMessage, At, Goto, appVars
  <1>2. \A x \in Workers : HoldsMessage(x) <=> x = w
    BY <1>i, <1>1 DEF PeekedIsNext, HoldsMessage
  <1>3. \A x \in Workers : ~HoldsMessage(x)' /\ ~At(x, "pop")'
    BY <1>0, <1>1, <1>2 DEF HoldsMessage, At
  <1>4. Popped = Len(mailbox) - 1 /\ Popped' = Len(mailbox)
    BY <1>1, <1>3 DEF Popped, At
  <1>5. Popped' = next /\ next \in Nat
    BY <1>0, <1>4
  <1>6. /\ next \in Messages /\ n = 1 + BodySizes[next] /\ n =< AppSize
    BY <1>i, <1>2 DEF PeekedIsNext
  <1>7. /\ next + 1 \in 1..Len(BodySizes) + 1 /\ BodySizes[next] \in Nat
        /\ HeaderOf[next + 1] = HeaderOf[next] + n
        /\ HeaderOf[next] \in Nat /\ HeaderOf[next + 1] \in Nat
    <2>1. HeaderOf[next + 1] = HeaderOf[next] + 1 + BodySizes[next] /\ BodySizes[next] \in Nat
      BY <1>6, CellFacts
    <2>2. next + 1 \in 1..Len(BodySizes) + 1
      BY <1>6, CellFacts
    <2>3. HeaderOf[next] \in Nat /\ HeaderOf[next + 1] \in Nat
      BY <1>6, <2>2, CellFacts, HeaderOfEquations
    <2> HIDE DEF next, n
    <2> QED
      BY <1>6, <2>1, <2>2, <2>3
  <1>8. /\ AppSize \in 0..BufferCapacity - 1 /\ BufferCapacity \in Nat \ {0}
        /\ appHead \in 0..BufferCapacity - 1 /\ appTail \in 0..BufferCapacity - 1
    BY SizeFacts, RingFacts, ConstantFacts
  <1>9. n \in 0..GetRingBufferSize(BufferCapacity, appHead, appTail)
    <2> HIDE DEF next, n
    <2> QED
      BY <1>6, <1>7, <1>8 DEF AppSize
  <1> HIDE DEF n
  <1>10. AppSize' = AppSize - n
    <2>1. GetRingBufferSize(BufferCapacity, Advance(BufferCapacity, appHead, n), appTail)
            = GetRingBufferSize(BufferCapacity, appHead, appTail) - n
      BY <1>8, <1>9, AdvanceHeadDropsPrefix
    <2> QED
      BY <1>1, <2>1 DEF AppSize
  <1>11. n \in Nat /\ n =< BufferCapacity
    BY <1>8, <1>9 DEF AppSize
  <1>12. ASSUME NEW i \in Nat, i < AppSize - n
         PROVE  receiveAppBuffer[Advance(BufferCapacity, appHead', i)] = HeaderOf[next + 1] + i
    <2>1. n + i \in Nat /\ n + i < AppSize /\ n + i =< BufferCapacity
      BY <1>8, <1>11, <1>12
    <2>2. Advance(BufferCapacity, appHead', i) = Advance(BufferCapacity, appHead, n + i)
      BY <1>1, <1>8, <1>9, <2>1, AdvanceHeadDropsPrefix
    <2>3. receiveAppBuffer[Advance(BufferCapacity, appHead, n + i)] = HeaderOf[next] + (n + i)
      BY <1>i, <2>1, StreamFacts
    <2> HIDE DEF next
    <2> QED
      BY <1>7, <1>11, <2>2, <2>3
  <1>13. StreamInOrder'
    <2> DEFINE s == AppSize'
               h == HeaderOf[next + 1]
    <2>1. /\ HeaderOf[next] + AppSize =< LastCell + 1
          /\ "Lost" \notin events => decrypted + 1 = HeaderOf[next] + AppSize
      BY <1>i DEF StreamInOrder
    <2>2. h + s = HeaderOf[next] + AppSize
      <3> HIDE DEF next
      <3> QED
        BY <1>7, <1>8, <1>10, <1>11
    <2>3. \A i \in 0..s - 1 : i \in Nat /\ i < AppSize - n
      <3>1. s \in Int /\ s = AppSize - n
        BY <1>8, <1>10, <1>11
      <3> HIDE DEF s
      <3> QED
        BY <3>1
    <2>4. \A i \in 0..s - 1 : receiveAppBuffer[Advance(BufferCapacity, appHead', i)] = h + i
      BY <1>12, <2>3
    <2>5. next \in 0..Len(BodySizes)
      BY <1>6, ConstantFacts
    <2> HIDE DEF next
    <2> QED
      BY <1>1, <1>5, <2>1, <2>2, <2>4, <2>5 DEF StreamInOrder
  <1>14. PeekedIsNext'
    BY <1>3 DEF PeekedIsNext
  <1>15. MailboxInOrder'
    BY <1>i, <1>1 DEF MailboxInOrder
  <1>16. AppSize' \in 0..AppSize
    <2> DEFINE s == AppSize
    <2>1. s \in Nat /\ n \in 0..s
      BY <1>8, <1>9 DEF AppSize
    <2> HIDE DEF s
    <2>2. s - n \in 0..s
      BY <2>1
    <2> QED
      BY <1>10, <2>2 DEF s
  <1> QED
    BY <1>13, <1>14, <1>15, <1>16

\* The head a worker has loaded stays behind, since only a pop moves the head
\* (Session.cpp:378-383, Session.h:136-140).
LEMMA LoadedHeadStep ==
    ASSUME TypeOK, AppInv, [Next]_vars
    PROVE  LoadedHeadIsBehind'
  <1>i. LoadedHeadIsBehind
    BY DEF AppInv
  <1>1. ASSUME UNCHANGED <<processing, loadedHead, appHead, appTail>>
        PROVE  LoadedHeadIsBehind'
    BY <1>i, <1>1 DEF LoadedHeadIsBehind, AppSize
  <1>2. ASSUME NEW w \in Workers, BioToApp(w) \/ RingFull(w) \/ TlsError(w)
        PROVE  LoadedHeadIsBehind'
    <2>1. processing' = Nobody
      BY <1>2, LeavesLock
    <2> QED
      BY <2>1 DEF LoadedHeadIsBehind
  <1>3. ASSUME NEW w \in Workers, TlsToBio(w) PROVE LoadedHeadIsBehind'
    <2>1. loadedHead' = appHead /\ appHead' = appHead /\ appTail' = appTail
      BY <1>3 DEF TlsToBio, appVars, popVars
    <2>2. /\ AppSize \in 0..BufferCapacity - 1 /\ BufferCapacity \in Nat \ {0}
      BY SizeFacts, ConstantFacts
    <2>3. AppSize' = AppSize /\ GetRingBufferSize(BufferCapacity, loadedHead', appTail') = AppSize
      BY <2>1 DEF AppSize
    <2> QED
      BY <2>2, <2>3 DEF LoadedHeadIsBehind
  <1>4. ASSUME NEW w \in Workers, PopReceivedMessage(w) PROVE LoadedHeadIsBehind'
    <2>1. UNCHANGED <<processing, loadedHead, appTail>>
      BY <1>4 DEF PopReceivedMessage, mutexVars, appVars
    <2>2. AppSize' \in 0..AppSize
      BY <1>4, PopStep
    <2>3. /\ AppSize \in 0..BufferCapacity - 1 /\ BufferCapacity \in Nat \ {0}
      BY SizeFacts, ConstantFacts
    <2> DEFINE g == GetRingBufferSize(BufferCapacity, loadedHead, appTail)
               s == AppSize'
    <2>4. /\ loadedHead \in 0..BufferCapacity - 1 /\ appTail \in 0..BufferCapacity - 1
      BY DEF TypeOK, Slots
    <2>5. g \in 0..BufferCapacity - 1
      BY <2>3, <2>4, SizeType
    <2>6. ASSUME processing # Nobody PROVE g >= s
      <3>1. g >= AppSize
        BY <1>i, <2>6 DEF LoadedHeadIsBehind
      <3>2. s \in 0..AppSize
        BY <2>2
      <3> HIDE DEF g, s
      <3> QED
        BY <2>3, <2>5, <3>1, <3>2
    <2>7. GetRingBufferSize(BufferCapacity, loadedHead, appTail)' = g
      BY <2>1
    <2> QED
      BY <2>1, <2>6, <2>7 DEF LoadedHeadIsBehind
  <1>5. ASSUME NEW w \in Workers,
               \/ PostReceive(w) \/ PostIoFailed(w) \/ AdvanceTail(w) \/ TryReceiveAsync(w)
               \/ PeekNothing(w) \/ Peek(w) \/ PushToActor(w) \/ Close(w) \/ SendWantsReceive(w)
        PROVE  LoadedHeadIsBehind'
    BY <1>1, <1>5 DEF PostReceive, PostIoFailed, AdvanceTail, TryReceiveAsync, PeekNothing, Peek,
                      PushToActor, Close, SendWantsReceive, mutexVars, appVars, popVars
  <1>6. CASE UNCHANGED vars \/ CloseElsewhere
    BY <1>1, <1>6 DEF vars, CloseElsewhere, mutexVars, appVars, popVars
  <1> QED
    BY <1>2, <1>3, <1>4, <1>5, <1>6 DEF Next, Step

\* A full ring fails its session: the Receive is not started again, and only
\* a send that wants to read would decrypt more
\* (Session.cpp:112-137, 385-393).
LEMMA LossStep ==
    ASSUME TypeOK, ReceiveIsOwned, LockIsExclusive, AppInv, Clean', [Next]_vars
    PROVE  LossIsFinal'
  <1> DEFINE Gone(x) == /\ ~OwnsReceive(x)
                        /\ pc[x] \notin {"processForSend", "decryptForSend"}
  <1>0. pc \in [Workers -> Pcs]
    BY DEF TypeOK
  <1>i. LossIsFinal
    BY DEF AppInv
  <1>1. ASSUME UNCHANGED <<receiving, pc>>, "Lost" \in events' => "Lost" \in events
        PROVE  LossIsFinal'
    BY <1>i, <1>1 DEF LossIsFinal, OwnsReceive
  <1>2. CASE UNCHANGED vars \/ CloseElsewhere
    BY <1>1, <1>2 DEF vars, CloseElsewhere
  <1>3. ASSUME NEW w \in Workers, "Lost" \in events,
               \/ PostReceive(w) \/ PostIoFailed(w) \/ AdvanceTail(w) \/ TryReceiveAsync(w)
               \/ TlsToBio(w) \/ BioToApp(w) \/ RingFull(w) \/ TlsError(w)
        PROVE  FALSE
    <2>1. ~receiving /\ Gone(w)
      BY <1>i, <1>3 DEF LossIsFinal
    <2> QED
      BY <1>3, <2>1 DEF PostReceive, PostIoFailed, AdvanceTail, TryReceiveAsync, TlsToBio,
                        BioToApp, RingFull, TlsError, At, OwnsReceive
  <1>4. ASSUME NEW w \in Workers, SendWantsReceive(w) PROVE "Lost" \notin events'
    BY <1>4 DEF SendWantsReceive, Clean
  <1>5. ASSUME NEW w \in Workers,
               PeekNothing(w) \/ Peek(w) \/ PushToActor(w) \/ PopReceivedMessage(w) \/ Close(w)
        PROVE  LossIsFinal'
    <2>1. receiving' = receiving /\ ("Lost" \in events' => "Lost" \in events)
      BY <1>5 DEF PeekNothing, Peek, PushToActor, PopReceivedMessage, Close
    <2>2. \E label \in {"idle", "close", "push", "pop", "peek"} : pc' = [pc EXCEPT ![w] = label]
      BY <1>5 DEF PeekNothing, Peek, PushToActor, PopReceivedMessage, Close, Goto
    <2>3. \A x \in Workers : Gone(x) => Gone(x)'
      BY <1>0, <2>2 DEF OwnsReceive
    <2> QED
      BY <1>i, <2>1, <2>3 DEF LossIsFinal
  <1>6. ASSUME NEW w \in Workers, RingFull(w), "Lost" \in events' PROVE LossIsFinal'
    <2>1. "WantRead" \notin events
      BY <1>6 DEF Clean, RingFull
    <2>2. \A x \in Workers : pc[x] \notin {"processForSend", "decryptForSend"}
      BY <2>1 DEF LockIsExclusive
    <2>3. pc[w] = "decrypt"
      BY <1>6, <2>2 DEF RingFull
    <2>4. /\ ~receiving
          /\ \A x \in Workers : x # w => ~OwnsReceive(x)
      BY <2>3 DEF ReceiveIsOwned, OwnsReceive
    <2>5. pc' = [pc EXCEPT ![w] = "peek"]
      <3>1. Unlock(w, FALSE)
        BY <1>6 DEF RingFull
      <3>2. /\ succeeded' = [succeeded EXCEPT ![w] = FALSE /\ transferred[w] > 0]
            /\ Goto(w, IF succeeded'[w] THEN "receive" ELSE "peek")
        BY <2>3, <3>1 DEF Unlock, At
      <3>3. succeeded \in [Workers -> BOOLEAN]
        BY DEF TypeOK
      <3>4. ~succeeded'[w]
        BY <3>2, <3>3
      <3> QED
        BY <3>2, <3>4 DEF Goto
    <2>6. receiving' = receiving
      BY <1>6 DEF RingFull
    <2> QED
      BY <1>0, <2>2, <2>4, <2>5, <2>6 DEF LossIsFinal, OwnsReceive
  <1>7. ASSUME NEW w \in Workers,
               \/ PostReceive(w) \/ PostIoFailed(w) \/ AdvanceTail(w) \/ TryReceiveAsync(w)
               \/ TlsToBio(w) \/ BioToApp(w) \/ TlsError(w)
        PROVE  LossIsFinal'
    <2>1. "Lost" \in events' => "Lost" \in events
      <3>1. CASE BioToApp(w)
        <4>1. events' = events \/ events' = events \cup {"WantWrite"}
          BY <3>1 DEF BioToApp
        <4> QED
          BY <4>1
      <3>2. CASE ~BioToApp(w)
        BY <1>7, <3>2, OtherSteps
      <3> QED
        BY <3>1, <3>2
    <2>2. "Lost" \notin events
      BY <1>3, <1>7
    <2> QED
      BY <2>1, <2>2 DEF LossIsFinal
  <1>8. ASSUME "Lost" \notin events' PROVE LossIsFinal'
    BY <1>8 DEF LossIsFinal
  <1> QED
    BY <1>2, <1>4, <1>5, <1>6, <1>7, <1>8 DEF Next, Step

-----------------------------------------------------------------------------
(* The theorems.                                                           *)

\* A session begins with empty buffers and one pending Receive
\* (Session.cpp:12-41, NetworkServer.cpp:191-264).
LEMMA InitInv == Init => IInv
  <1> SUFFICES ASSUME Init PROVE IInv
    OBVIOUS
  <1> USE DEF Init
  <1>1. TypeOK
    <2>1. 0 \in Slots /\ 0 \in 0..LastCell /\ 0 \in 0..BodyLimit /\ 0 \in 0..BufferCapacity
      BY ConstantFacts
    <2>2. Len(mailbox) =< MaxMailbox
      BY ReceiveAssumption
    <2>3. "idle" \in Pcs
      BY DEF Pcs
    <2>4. peeked \in [Workers -> [header : 0..LastCell, size : 0..BodyLimit,
                                  at : Slots \cup {InPopBuffer}]]
      BY <2>1 DEF NoMessage
    <2> DEFINE S == [header : 0..LastCell, body : Seq(0..LastCell)]
    <2>5. mailbox \in Seq(S)
      OBVIOUS
    <2>6. readBio \in Seq(Cells) /\ contiguousPopBuffer \in Seq(0..LastCell)
      OBVIOUS
    <2> QED
      BY <2>1, <2>2, <2>3, <2>4, <2>5, <2>6 DEF TypeOK
  <1>2. TlsSize = 0 /\ AppSize = 0
    BY ConstantFacts DEF TlsSize, AppSize, GetRingBufferSize
  <1>3. ReceiveIsOwned
    BY DEF ReceiveIsOwned, OwnsReceive
  <1>4. TlsRingIsFilled
    BY <1>2 DEF TlsRingIsFilled, At
  <1>5. LockIsExclusive /\ UnreadIsOwned
    BY DEF LockIsExclusive, UnreadIsOwned, At
  <1>6. Popped = 0
    BY DEF Popped, At
  <1>7. StreamInOrder
    <2>1. HeaderOf[0 + 1] = 1 /\ LastCell \in Nat /\ Len(BodySizes) \in Nat
      BY HeaderOfEquations, ConstantFacts
    <2> QED
      BY <1>2, <1>6, <2>1 DEF StreamInOrder
  <1>8. PeekedIsNext
    BY DEF PeekedIsNext, HoldsMessage
  <1>9. MailboxInOrder /\ LoadedHeadIsBehind /\ LossIsFinal
    BY DEF MailboxInOrder, LoadedHeadIsBehind, LossIsFinal
  <1> QED
    BY <1>1, <1>3, <1>4, <1>5, <1>7, <1>8, <1>9 DEF IInv, AppInv

\* No step forgets an exceptional event.
LEMMA EventsGrow ==
    ASSUME TypeOK, [Next]_vars
    PROVE  events \subseteq events'
  <1>1. CASE UNCHANGED vars \/ CloseElsewhere
    BY <1>1 DEF vars, CloseElsewhere
  <1>2. ASSUME NEW w \in Workers, BioToApp(w) \/ RingFull(w) PROVE events \subseteq events'
    BY <1>2, LeavesLock
  <1>3. ASSUME NEW w \in Workers, Peek(w) \/ PushToActor(w) \/ PopReceivedMessage(w)
        PROVE  events \subseteq events'
    BY <1>3 DEF Peek, PushToActor, PopReceivedMessage
  <1>4. ASSUME NEW w \in Workers,
               \/ PostReceive(w) \/ PostIoFailed(w) \/ AdvanceTail(w) \/ TryReceiveAsync(w)
               \/ TlsToBio(w) \/ TlsError(w) \/ SendWantsReceive(w) \/ PeekNothing(w) \/ Close(w)
        PROVE  events \subseteq events'
    BY <1>4, OtherSteps
  <1> QED
    BY <1>1, <1>2, <1>3, <1>4 DEF Next, Step

\* Every step of a session keeps the stream of cells and the mailbox in order.
LEMMA StreamStep ==
    ASSUME TypeOK, TypeOK', LockIsExclusive, AppInv, Clean', [Next]_vars
    PROVE  StreamInOrder' /\ PeekedIsNext' /\ MailboxInOrder'
  <1>i. StreamInOrder /\ PeekedIsNext /\ MailboxInOrder
    BY DEF AppInv
  <1>1. CASE UNCHANGED vars \/ CloseElsewhere
    <2>1. UNCHANGED <<appVars, popVars, decrypted, pc, events>>
      BY <1>1 DEF vars, CloseElsewhere
    <2> QED
      BY <1>i, <2>1, AppUnchanged
  <1>2. ASSUME NEW w \in Workers,
               \/ PostReceive(w) \/ PostIoFailed(w) \/ AdvanceTail(w) \/ TryReceiveAsync(w)
               \/ TlsToBio(w) \/ TlsError(w) \/ SendWantsReceive(w) \/ PeekNothing(w) \/ Close(w)
        PROVE  StreamInOrder' /\ PeekedIsNext' /\ MailboxInOrder'
    BY <1>i, <1>2, OtherSteps, AppUnchanged
  <1>3. ASSUME NEW w \in Workers, BioToApp(w)
        PROVE  StreamInOrder' /\ PeekedIsNext' /\ MailboxInOrder'
    BY <1>3, BioToAppStep
  <1>4. ASSUME NEW w \in Workers, RingFull(w)
        PROVE  StreamInOrder' /\ PeekedIsNext' /\ MailboxInOrder'
    BY <1>4, RingFullStep
  <1>5. ASSUME NEW w \in Workers, Peek(w)
        PROVE  StreamInOrder' /\ PeekedIsNext' /\ MailboxInOrder'
    BY <1>5, PeekStep
  <1>6. ASSUME NEW w \in Workers, PushToActor(w)
        PROVE  StreamInOrder' /\ PeekedIsNext' /\ MailboxInOrder'
    BY <1>6, PushStep
  <1>7. ASSUME NEW w \in Workers, PopReceivedMessage(w)
        PROVE  StreamInOrder' /\ PeekedIsNext' /\ MailboxInOrder'
    BY <1>7, PopStep
  <1> QED
    BY <1>1, <1>2, <1>3, <1>4, <1>5, <1>6, <1>7 DEF Next, Step

\* The invariant is inductive.
LEMMA NextInv == IInv /\ [Next]_vars => IInv'
  <1> SUFFICES ASSUME IInv, [Next]_vars PROVE IInv'
    OBVIOUS
  <1>1. /\ TypeOK /\ ReceiveIsOwned /\ TlsRingIsFilled /\ UnreadIsOwned
        /\ LockIsExclusive /\ (Clean => AppInv)
    BY DEF IInv
  <1>2. TypeOK'
    BY <1>1, TypeStep
  <1>3. ReceiveIsOwned'
    BY <1>1, OwnerStep
  <1>4. TlsRingIsFilled'
    BY <1>1, FilledStep
  <1>5. LockIsExclusive'
    BY <1>1, LockStep
  <1>6. ASSUME Clean' PROVE AppInv'
    <2>1. Clean
      BY <1>1, <1>6, EventsGrow DEF Clean
    <2>2. AppInv
      BY <1>1, <2>1
    <2>3. StreamInOrder' /\ PeekedIsNext' /\ MailboxInOrder'
      BY <1>1, <1>2, <1>6, <2>2, StreamStep
    <2>4. LoadedHeadIsBehind'
      BY <1>1, <2>2, LoadedHeadStep
    <2>5. LossIsFinal'
      BY <1>1, <1>6, <2>2, LossStep
    <2> QED
      BY <2>3, <2>4, <2>5 DEF AppInv
  <1>7. UnreadIsOwned'
    BY <1>1, <1>2, UnreadStep
  <1> QED
    BY <1>2, <1>3, <1>4, <1>5, <1>6, <1>7 DEF IInv

\* So it holds in every state of a session's receive path.
THEOREM Invariant == Spec => []IInv
  BY InitInv, NextInv, PTL DEF Spec

\* The types: no head or tail leaves its ring, no peeked body is longer than
\* the ring (Session.cpp:280-431).
THEOREM ReceiveTypes == Spec => []TypeOK
  BY Invariant, PTL DEF IInv

\* For every ring, every stream of messages and any number of worker threads,
\* the actor gets the client's messages whole and in order, unless two workers
\* hold a message at once or a send decrypts behind a loss
\* (Session.cpp:280-431, NetworkServer.cpp:266-299).
THEOREM MessagesAreWholeAndInOrder == Spec => []MailboxIsPrefix
  <1>1. IInv => MailboxIsPrefix
    BY DEF IInv, AppInv, Clean, MailboxInOrder, MailboxIsPrefix
  <1> QED
    BY <1>1, Invariant, PTL

\* As long as no Receive has filled the whole ring, a pending WSARecv has no slot
\* of a cell that has not reached the BIO: the owner of the Receive has drained
\* the ring before it starts the next (Session.cpp:49-137, 341-379).
THEOREM ReceiveIntoFreeSlots == Spec => []KernelWritesFreeSlots
  <1>1. IInv => KernelWritesFreeSlots
    <2> SUFFICES ASSUME IInv, receiving, "FullReceive" \notin events PROVE unread = {}
      BY DEF KernelWritesFreeSlots
    <2>1. tlsHead = tlsTail /\ \A w \in Workers : ~At(w, "advance")
      BY DEF IInv, ReceiveIsOwned, OwnsReceive, At
    <2>2. TlsSize = 0
      BY <2>1, SizeFacts DEF IInv
    <2>3. 0..TlsSize - 1 = {}
      BY <2>2
    <2> QED
      BY <2>1, <2>3 DEF IInv, UnreadIsOwned
  <1> QED
    BY <1>1, Invariant, PTL
=============================================================================
