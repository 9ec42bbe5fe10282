---------------------------- MODULE SessionReceive ----------------------------
(***************************************************************************)
(* The way of a message through the receiving half of a Session:           *)
(*                                                                         *)
(*   the client --WSARecv--> ReceiveTlsBuffer --BIO_write--> ReadBio       *)
(*     --SSL_read--> ReceiveAppBuffer --PeekReceivedMessage--> the actor   *)
(*                                                                         *)
(* The client's messages are a stream of cells 1, 2, ..., each the content *)
(* of one TLS record: a message is a header cell and BodySize cells more,  *)
(* and a cell takes one slot of either ring.  TLS gives out the cells in   *)
(* order or fails.  What the closing of a session does to its objects is   *)
(* the matter of SessionLifecycle; here it is the flag shouldClose_.       *)
(***************************************************************************)
EXTENDS RingArithmetic, FiniteSets

CONSTANTS Workers,
          Nobody,         \* receiveBuffersProcessMutex_ is free
          BufferCapacity,
          BodySizes,      \* bound: the body sizes of the client's messages
          MaxMailbox      \* bound: the actor gets no more messages than this

ASSUME ReceiveAssumption ==
    /\ Nobody \notin Workers
    /\ BufferCapacity \in Nat /\ BufferCapacity > 1
    /\ BodySizes \in Seq(Nat)
    /\ MaxMailbox \in Nat /\ MaxMailbox >= Len(BodySizes)

Messages == DOMAIN BodySizes
Slots == 0..BufferCapacity - 1

\* The cell that is the header of message n, or the first after the last one.
HeaderOf[n \in 1..Len(BodySizes) + 1] ==
    IF n = 1 THEN 1 ELSE HeaderOf[n - 1] + 1 + BodySizes[n - 1]

LastCell == HeaderOf[Len(BodySizes) + 1] - 1
Cells == 1..LastCell
Body(n) == [i \in 1..BodySizes[n] |-> HeaderOf[n] + i]
BodyLimit == BufferCapacity - 1

VARIABLES
    arrived,          \* cells the client has sent and the kernel passed on
    receiveTlsBuffer, tlsHead, tlsTail,
    unread,           \* auxiliary: its slots with cells not yet in ReadBio
    receiving,        \* isIoOnline_[IoType_Receive]: WSARecv into tlsTail...
    readBio,
    decrypted,        \* cells SSL_read has taken
    receiveAppBuffer, appHead, appTail,
    contiguousPopBuffer,
    processing,       \* the owner of receiveBuffersProcessMutex_
    loadedHead,       \* what it has loaded of appHead
    shouldClose,
    pc,
    transferred,      \* bytesTransferred of a completed Receive
    succeeded,        \* returnValue of PostReceive
    peeked,           \* the message a worker has peeked and not popped
    mailbox,          \* the Msg_Cts pushed to the associated actor
    events            \* exceptional events met so far

tlsVars == <<receiveTlsBuffer, tlsHead, tlsTail, unread>>
appVars == <<receiveAppBuffer, appTail>>
mutexVars == <<processing, loadedHead>>
popVars == <<appHead, contiguousPopBuffer, peeked, mailbox>>
workerVars == <<transferred, succeeded>>
vars == <<arrived, tlsVars, receiving, readBio, decrypted, appVars, popVars,
          mutexVars, shouldClose, pc, workerVars, events>>

Pcs == {"idle", "advance", "process", "decrypt", "receive", "peek", "push",
        "pop", "close", "processForSend", "decryptForSend"}

\* Overlap: a worker peeks while another has not popped what it has peeked.
\* FullReceive: a Receive at tail 0 brings BufferCapacity cells, so that the
\* advanced tail is 0 again and equals the head: the ring passes for empty.
\* Lost: a full ReceiveAppBuffer has made TryProcessReceiveBuffers fail.
\* WantWrite: SSL_read wants to write, WantRead: SSL_write wants to read, which
\* OpenSSL does not report on the memory BIOs of an established TLS 1.3
\* connection; the code is written to handle both.
Events == {"Overlap", "FullReceive", "Lost", "WantWrite", "WantRead"}

\* Where a peeked body is: at a slot, or in ReceiveContiguousPopBuffer.
InPopBuffer == BufferCapacity

NoMessage == [header |-> 0, size |-> 0, at |-> 0]

Init ==
    /\ arrived = 0
    /\ receiveTlsBuffer = [slot \in Slots |-> 0] /\ tlsHead = 0 /\ tlsTail = 0
    /\ unread = {}
    /\ receiving = TRUE
    /\ readBio = <<>> /\ decrypted = 0
    /\ receiveAppBuffer = [slot \in Slots |-> 0] /\ appHead = 0 /\ appTail = 0
    /\ contiguousPopBuffer = <<>>
    /\ processing = Nobody /\ loadedHead = 0
    /\ shouldClose = FALSE
    /\ pc = [w \in Workers |-> "idle"]
    /\ transferred = [w \in Workers |-> 0]
    /\ succeeded = [w \in Workers |-> TRUE]
    /\ peeked = [w \in Workers |-> NoMessage]
    /\ mailbox = <<>>
    /\ events = {}

At(w, label) == pc[w] = label
Goto(w, label) == pc' = [pc EXCEPT ![w] = label]

-----------------------------------------------------------------------------
(* A Receive.                                                              *)

\* It completes with the cells that have come, at most up to the end of the
\* ring, or with none when the client has shut down; the flag is cleared.
PostReceive(w) ==
    /\ At(w, "idle") /\ receiving
    /\ \E n \in 0..MinOf(BufferCapacity - tlsTail, LastCell - arrived) :
          /\ arrived' = arrived + n
          /\ receiveTlsBuffer' =
                Write(receiveTlsBuffer, BufferCapacity, tlsTail,
                      [i \in 1..n |-> arrived + i])
          /\ unread' = unread \cup (tlsTail..tlsTail + n - 1)
          /\ transferred' = [transferred EXCEPT ![w] = n]
          /\ events' = events \cup (IF n = BufferCapacity THEN {"FullReceive"}
                                    ELSE {})
    /\ receiving' = FALSE
    /\ Goto(w, "advance")
    /\ UNCHANGED <<tlsHead, tlsTail, readBio, decrypted, appVars, popVars,
                   mutexVars, shouldClose, succeeded>>

\* A Receive that fails.
PostIoFailed(w) ==
    /\ At(w, "idle") /\ receiving
    /\ receiving' = FALSE
    /\ Goto(w, "close")
    /\ UNCHANGED <<arrived, tlsVars, readBio, decrypted, appVars, popVars,
                   mutexVars, shouldClose, workerVars, events>>

\* TryPostReceive then advances the tail.
AdvanceTail(w) ==
    /\ At(w, "advance")
    /\ tlsTail' = Advance(BufferCapacity, tlsTail, transferred[w])
    /\ Goto(w, "process")
    /\ UNCHANGED <<arrived, receiveTlsBuffer, tlsHead, unread, receiving,
                   readBio, decrypted, appVars, popVars, mutexVars, shouldClose,
                   workerVars, events>>

\* TryReceiveAsync asks for all slots up to the end of the ring.  A Receive
\* that is not started fails the session.
TryReceiveAsync(w) ==
    /\ At(w, "receive")
    /\ \/ /\ ~receiving /\ ~shouldClose
          /\ GetRingBufferSize(BufferCapacity, tlsHead, tlsTail)
                # BufferCapacity - 1
          /\ receiving' = TRUE
          /\ UNCHANGED succeeded
       \/ /\ UNCHANGED receiving   \* also when WSARecv fails at once
          /\ succeeded' = [succeeded EXCEPT ![w] = FALSE]
    /\ Goto(w, "peek")
    /\ UNCHANGED <<arrived, tlsVars, readBio, decrypted, appVars, popVars,
                   mutexVars, shouldClose, transferred, events>>

-----------------------------------------------------------------------------
(* TryProcessReceiveBuffers, under receiveBuffersProcessMutex_.            *)

\* Mutant: one record at a time.
DrainedOneRecord ==
    Read(receiveTlsBuffer, BufferCapacity, tlsHead,
         MinOf(1, GetRingBufferSize(BufferCapacity, tlsHead, tlsTail)))

\* The whole ring goes to ReadBio.
Drained == Read(receiveTlsBuffer, BufferCapacity, tlsHead,
                GetRingBufferSize(BufferCapacity, tlsHead, tlsTail))

DrainedSlots == {Advance(BufferCapacity, tlsHead, i - 1) : i \in 1..Len(Drained)}

\* ReceiveTlsBuffer to ReadBio; then the head of the other ring is loaded.
TlsToBio(w) ==
    /\ pc[w] \in {"process", "processForSend"} /\ processing = Nobody
    /\ processing' = w
    /\ readBio' = readBio \o Drained
    /\ unread' = unread \ DrainedSlots
    /\ tlsHead' = Advance(BufferCapacity, tlsHead, Len(Drained))
    /\ loadedHead' = appHead
    /\ Goto(w, IF At(w, "process") THEN "decrypt" ELSE "decryptForSend")
    /\ UNCHANGED <<arrived, receiveTlsBuffer, tlsTail, receiving, decrypted,
                   appVars, popVars, shouldClose, workerVars, events>>

FreeSlots == Available(BufferCapacity, loadedHead, appTail)

\* Cells that SSL_read takes without a TLS error.
InOrder(cells) == cells = [i \in 1..Len(cells) |-> decrypted + i]

\* SSL_read takes every cell, which must come in order; the loop gives up when
\* no slot is free, even when no cell is left.
CanDecrypt == InOrder(readBio) /\ Len(readBio) < FreeSlots

\* The end of TryProcessReceiveBuffers, and of its callers' loop around it.
Unlock(w, ok) ==
    /\ processing' = Nobody /\ loadedHead' = 0
    /\ \/ /\ At(w, "decryptForSend")
          /\ Goto(w, IF ok THEN "idle" ELSE "close")
          /\ UNCHANGED succeeded
       \/ /\ At(w, "decrypt")
          /\ succeeded' = [succeeded EXCEPT ![w] = ok /\ transferred[w] > 0]
          /\ Goto(w, IF succeeded'[w] THEN "receive" ELSE "peek")

\* ReadBio to ReceiveAppBuffer.  SSL_read may want to write in the end: then
\* TryPostReceive processes the send buffers, and fails, is done or starts over.
BioToApp(w) ==
    /\ pc[w] \in {"decrypt", "decryptForSend"} /\ CanDecrypt
    /\ receiveAppBuffer' =
          Write(receiveAppBuffer, BufferCapacity, appTail, readBio)
    /\ appTail' = Advance(BufferCapacity, appTail, Len(readBio))
    /\ decrypted' = decrypted + Len(readBio)
    /\ readBio' = <<>>
    /\ \/ Unlock(w, TRUE) /\ UNCHANGED events
       \/ /\ "WantWrite" \notin events
          /\ events' = events \cup {"WantWrite"}
          /\ \/ \E ok \in BOOLEAN : Unlock(w, ok)
             \/ /\ processing' = Nobody /\ loadedHead' = 0
                /\ Goto(w, IF At(w, "decrypt") THEN "process"
                           ELSE "processForSend")
                /\ UNCHANGED succeeded
    /\ UNCHANGED <<arrived, tlsVars, receiving, popVars, shouldClose,
                   transferred>>

\* The result Failed, because no slot is free: the tail is not stored, and what
\* SSL_read has taken is lost.
RingFull(w) ==
    LET taken == SubSeq(readBio, 1, FreeSlots)
    IN /\ pc[w] \in {"decrypt", "decryptForSend"}
       /\ Len(readBio) >= FreeSlots /\ InOrder(taken)
       /\ receiveAppBuffer' =
             Write(receiveAppBuffer, BufferCapacity, appTail, taken)
       /\ decrypted' = decrypted + FreeSlots
       /\ readBio' = SubSeq(readBio, FreeSlots + 1, Len(readBio))
       /\ events' = events \cup (IF FreeSlots > 0 THEN {"Lost"} ELSE {})
       /\ Unlock(w, FALSE)
       /\ UNCHANGED <<arrived, tlsVars, receiving, appTail, popVars,
                      shouldClose, transferred>>

\* The result Failed, because of a cell out of order: Ssl fails from now on.
TlsError(w) ==
    /\ pc[w] \in {"decrypt", "decryptForSend"}
    /\ ~InOrder(SubSeq(readBio, 1, MinOf(FreeSlots, Len(readBio))))
    /\ readBio' = <<>>
    /\ Unlock(w, FALSE)
    /\ UNCHANGED <<arrived, tlsVars, receiving, decrypted, appVars, popVars,
                   shouldClose, transferred, events>>

\* TrySendAsync calls it when SSL_write wants to read.
SendWantsReceive(w) ==
    /\ At(w, "idle") /\ ~shouldClose
    /\ "WantRead" \notin events
    /\ events' = events \cup {"WantRead"}
    /\ Goto(w, "processForSend")
    /\ UNCHANGED <<arrived, tlsVars, receiving, readBio, decrypted, appVars,
                   popVars, mutexVars, shouldClose, workerVars>>

-----------------------------------------------------------------------------
(* The dispatch loop of NetworkServer::PostReceive.                        *)

\* Mutant: a header is enough.
BodyIsReadableAlways(size) == TRUE

\* The second GetReadableSizes of PeekReceivedMessage.
BodyIsReadable(size) ==
    Readable(BufferCapacity, Advance(BufferCapacity, appHead, 1), appTail, size)

\* The body size a header cell gives: any, for a cell that is no header.
SizesAt(cell) ==
    LET numbers == {n \in Messages : HeaderOf[n] = cell}
    IN IF numbers = {} THEN 0..BodyLimit ELSE {BodySizes[n] : n \in numbers}

HoldsMessage(w) == pc[w] \in {"push", "pop"}

\* PeekReceivedMessage finds no whole message: the loop and PostReceive end.
PeekNothing(w) ==
    /\ At(w, "peek")
    /\ \/ ~Readable(BufferCapacity, appHead, appTail, 1)
       \/ \E size \in SizesAt(receiveAppBuffer[appHead]) : ~BodyIsReadable(size)
    /\ Goto(w, IF succeeded[w] THEN "idle" ELSE "close")
    /\ succeeded' = [succeeded EXCEPT ![w] = TRUE]
    /\ transferred' = [transferred EXCEPT ![w] = 0]
    /\ UNCHANGED <<arrived, tlsVars, receiving, readBio, decrypted, appVars,
                   popVars, mutexVars, shouldClose, events>>

\* It finds one: the body stays where it is, or, when it wraps around, is
\* copied to the one ReceiveContiguousPopBuffer of the session.
Peek(w) ==
    /\ At(w, "peek")
    /\ Readable(BufferCapacity, appHead, appTail, 1)
    /\ \E size \in SizesAt(receiveAppBuffer[appHead]) :
          /\ BodyIsReadable(size)
          /\ LET bodyHead == Advance(BufferCapacity, appHead, 1)
                 wraps == bodyHead + size > BufferCapacity
             IN /\ peeked' = [peeked EXCEPT ![w] =
                      [header |-> receiveAppBuffer[appHead], size |-> size,
                       at |-> IF wraps THEN InPopBuffer ELSE bodyHead]]
                /\ contiguousPopBuffer' =
                      IF wraps
                      THEN Read(receiveAppBuffer, BufferCapacity, bodyHead, size)
                      ELSE contiguousPopBuffer
    /\ Goto(w, "push")
    /\ events' = events \cup
                 (IF \E x \in Workers \ {w} : HoldsMessage(x)
                  THEN {"Overlap"} ELSE {})
    /\ UNCHANGED <<arrived, tlsVars, receiving, readBio, decrypted, appVars,
                   appHead, mailbox, mutexVars, shouldClose, workerVars>>

\* What is found where the body was: with less left in the shared buffer than
\* the message is long, old bytes.
BodyOf(message) ==
    IF message.at = InPopBuffer
    THEN [i \in 1..message.size |-> IF i =< Len(contiguousPopBuffer)
                                    THEN contiguousPopBuffer[i] ELSE 0]
    ELSE Read(receiveAppBuffer, BufferCapacity, message.at, message.size)

\* The body is copied and the Msg_Cts pushed to the associated actor.
PushToActor(w) ==
    /\ At(w, "push")
    /\ Len(mailbox) < MaxMailbox
    /\ mailbox' = Append(mailbox, [header |-> peeked[w].header,
                                   body |-> BodyOf(peeked[w])])
    /\ Goto(w, "pop")
    /\ UNCHANGED <<arrived, tlsVars, receiving, readBio, decrypted, appVars,
                   appHead, contiguousPopBuffer, peeked, mutexVars,
                   shouldClose, workerVars, events>>

\* Mutant: the loop is an if.
PopAndLeave(w) ==
    /\ At(w, "pop")
    /\ appHead' = Advance(BufferCapacity, appHead, 1 + peeked[w].size)
    /\ peeked' = [peeked EXCEPT ![w] = NoMessage]
    /\ Goto(w, IF succeeded[w] THEN "idle" ELSE "close")
    /\ UNCHANGED <<arrived, tlsVars, receiving, readBio, decrypted, appVars,
                   contiguousPopBuffer, mailbox, mutexVars, shouldClose,
                   workerVars, events>>

\* PopReceivedMessage: its load and its store of the head are one step here.
PopReceivedMessage(w) ==
    /\ At(w, "pop")
    /\ appHead' = Advance(BufferCapacity, appHead, 1 + peeked[w].size)
    /\ peeked' = [peeked EXCEPT ![w] = NoMessage]
    /\ Goto(w, "peek")
    /\ UNCHANGED <<arrived, tlsVars, receiving, readBio, decrypted, appVars,
                   contiguousPopBuffer, mailbox, mutexVars, shouldClose,
                   workerVars, events>>

-----------------------------------------------------------------------------
\* SessionCleanupRoutine, which sets shouldClose_.
Close(w) ==
    /\ At(w, "close")
    /\ shouldClose' = TRUE
    /\ Goto(w, "idle")
    /\ UNCHANGED <<arrived, tlsVars, receiving, readBio, decrypted, appVars,
                   popVars, mutexVars, workerVars, events>>

\* The same from elsewhere: the send path, or an actor.
CloseElsewhere ==
    /\ ~shouldClose /\ shouldClose' = TRUE
    /\ UNCHANGED <<arrived, tlsVars, receiving, readBio, decrypted, appVars,
                   popVars, mutexVars, pc, workerVars, events>>

Step(w) ==
    \/ AdvanceTail(w) \/ TryReceiveAsync(w)
    \/ TlsToBio(w) \/ BioToApp(w) \/ RingFull(w) \/ TlsError(w)
    \/ PeekNothing(w) \/ Peek(w) \/ PushToActor(w) \/ PopReceivedMessage(w)
    \/ Close(w)

Next ==
    \/ CloseElsewhere
    \/ \E w \in Workers : \/ Step(w) \/ PostReceive(w) \/ PostIoFailed(w)
                          \/ SendWantsReceive(w)

Spec == Init /\ [][Next]_vars

\* A worker that has begun with a completion goes on; completions need not come.
FairSpec == Spec /\ \A w \in Workers : WF_vars(Step(w))

-----------------------------------------------------------------------------
(* Properties.                                                             *)

TypeOK ==
    /\ arrived \in 0..LastCell /\ decrypted \in 0..LastCell
    /\ receiveTlsBuffer \in [Slots -> 0..LastCell]
    /\ receiveAppBuffer \in [Slots -> 0..LastCell]
    /\ {tlsHead, tlsTail, appHead, appTail, loadedHead} \subseteq Slots
    /\ unread \subseteq Slots
    /\ receiving \in BOOLEAN /\ shouldClose \in BOOLEAN
    /\ readBio \in Seq(Cells)
    /\ processing \in Workers \cup {Nobody}
    /\ pc \in [Workers -> Pcs]
    /\ transferred \in [Workers -> 0..BufferCapacity]
    /\ succeeded \in [Workers -> BOOLEAN]
    /\ events \subseteq Events
    /\ contiguousPopBuffer \in Seq(0..LastCell)
    /\ mailbox \in Seq([header : 0..LastCell, body : Seq(0..LastCell)])
    /\ Len(mailbox) =< MaxMailbox
    /\ peeked \in [Workers -> [header : 0..LastCell, size : 0..BodyLimit,
                               at : Slots \cup {InPopBuffer}]]

\* What the actor has got is a prefix of what the client has sent, whole and in
\* order, through two rings, wrapped bodies and lost bytes, as long as no two
\* workers hold a message at once and no send goes on reading for a session
\* whose full ring has lost bytes (Session.cpp:339-431, NetworkServer.cpp:277).
MailboxIsPrefix ==
    "Overlap" \notin events /\ ~({"Lost", "WantRead"} \subseteq events) =>
        \A n \in 1..Len(mailbox) :
            /\ n \in Messages
            /\ mailbox[n] = [header |-> HeaderOf[n], body |-> Body(n)]

\* No pending WSARecv, which gets all slots from the tail to the end of the
\* ring whatever the head is (Session.cpp:64), has a slot whose cell is not yet
\* in ReadBio, so that no received cell is overwritten, with one exception that
\* the code makes: after a FullReceive nothing is drained, and the next WSARecv
\* has all those cells overwritten.  TLS then fails (see MailboxIsPrefix).
KernelWritesFreeSlots ==
    receiving /\ "FullReceive" \notin events =>
        unread \cap (tlsTail..BufferCapacity - 1) = {}

\* A message that has come as a whole is given to the actor or the session
\* closes: no worker that leaves the dispatch loop relies on one that has left
\* it before (NetworkServer.cpp:273-291).  Not so after a FullReceive.
ArrivedMessageIsDispatched ==
    \A n \in Messages :
        arrived >= HeaderOf[n + 1] - 1
            ~> \/ Len(mailbox) >= n \/ shouldClose
               \/ events \cap {"Overlap", "FullReceive"} # {}

\* Each message the client sends is pushed to the actor once, as the single
\* pop per push in PostReceive says (NetworkServer.cpp:277-290).
NoMessageIsDispatchedTwice ==
    \A i, j \in 1..Len(mailbox) :
        mailbox[i].header = mailbox[j].header => i = j
=============================================================================
