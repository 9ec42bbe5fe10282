----------------------------- MODULE SessionSend -----------------------------
(***************************************************************************)
(* The way of a message through the sending half of a Session:             *)
(*                                                                         *)
(*   sendAppQueue_ --SSL_write--> WriteBio --BIO_read--> SendTlsBuffer     *)
(*                 --WSASend--> the client                                 *)
(*                                                                         *)
(* Actors push messages, in the order of their numbers, and post an        *)
(* InitiateSend completion; workers complete InitiateSend and Send; and a  *)
(* worker in the receive path may process the send buffers as well.  A     *)
(* message stands for the TLS record it becomes and takes one slot of the  *)
(* ring.  What the closing of a session does to its objects is the matter  *)
(* of SessionLifecycle; here it is the flag shouldClose_ and the lost      *)
(* connection.                                                             *)
(***************************************************************************)
EXTENDS RingArithmetic, FiniteSets

CONSTANTS Workers,
          Nobody,          \* sendBuffersProcessMutex_ is free
          BufferCapacity,
          MaxMessages,     \* bound: messages the actors push
          MaxWantRead,     \* bound: SSL_write wants to read this often
          MaxWire          \* bound: a client that gets more than this has met
                           \* a record out of order and resets the connection

ASSUME SendAssumption ==
    /\ Nobody \notin Workers
    /\ BufferCapacity \in Nat /\ BufferCapacity > 1
    /\ MaxMessages \in Nat /\ MaxWantRead \in Nat
    /\ MaxWire \in Nat /\ MaxWire >= MaxMessages

Messages == 1..MaxMessages
Slots == 0..BufferCapacity - 1

VARIABLES
    pushed,         \* messages pushed so far
    initiating,     \* actors between PushMessage and InitiateSend
    sendAppQueue, writeBio, sendTlsBuffer, head, tail,
    sendOnline,     \* isIoOnline_[IoType_Send]
    initiateOnline, \* isIoOnline_[IoType_InitiateSend], and its completion
    inFlight,       \* the WSABUF of the pending WSASend: <<start, len>> or <<>>
    wire,           \* what the client has received
    shouldClose, connected,
    processing,     \* the owner of sendBuffersProcessMutex_
    loadedHead,     \* what it has loaded of head
    wantRead,       \* its local of that name
    pc,
    serving,        \* "Send": the thread calls TrySendAsync; or "Receive"
    transferred,    \* bytesTransferred of a completed Send
    wantReads,
    events          \* exceptional events met so far

queueVars == <<pushed, initiating, sendAppQueue>>
ringVars  == <<sendTlsBuffer, head, tail>>
flagVars  == <<sendOnline, initiateOnline, inFlight>>
closeVars == <<shouldClose, connected>>
mutexVars == <<processing, loadedHead, wantRead>>
vars == <<queueVars, writeBio, ringVars, flagVars, wire, closeVars,
          mutexVars, pc, serving, transferred, wantReads, events>>

Pcs == {"idle", "advance", "begin", "process", "write", "fill",
        "processReceive", "wsaSend", "close"}

\* Overlap: a WSASend starts while another worker has yet to advance head.
\* RingFull, TlsError: TryProcessSendBuffers fails, which closes the session.
\* WantRead: SSL_write wants to read, and the message it was given is dropped.
\* WantWrite: SSL_read wants to write, and the receive path fills the ring.
\* OpenSSL reports neither of the last two on the memory BIOs of an established
\* TLS 1.3 connection; the code is written to handle both.
Events == {"Overlap", "RingFull", "TlsError", "WantRead", "WantWrite"}

Init ==
    /\ pushed = 0 /\ initiating = 0
    /\ sendAppQueue = <<>> /\ writeBio = <<>>
    /\ sendTlsBuffer = [slot \in Slots |-> 0]
    /\ head = 0 /\ tail = 0
    /\ sendOnline = FALSE /\ initiateOnline = FALSE /\ inFlight = <<>>
    /\ wire = <<>>
    /\ shouldClose = FALSE /\ connected = TRUE
    /\ processing = Nobody /\ loadedHead = 0 /\ wantRead = FALSE
    /\ pc = [w \in Workers |-> "idle"]
    /\ serving = [w \in Workers |-> "Send"]
    /\ transferred = [w \in Workers |-> 0]
    /\ wantReads = 0
    /\ events = {}

At(w, label) == pc[w] = label
Goto(w, label) == pc' = [pc EXCEPT ![w] = label]

-----------------------------------------------------------------------------
(* SendMessageTo, by an actor: PushMessage, then InitiateSend.             *)

PushMessage ==
    /\ pushed < MaxMessages
    /\ pushed' = pushed + 1
    /\ sendAppQueue' = Append(sendAppQueue, pushed + 1)
    /\ initiating' = initiating + 1
    /\ UNCHANGED <<writeBio, ringVars, flagVars, wire, closeVars, mutexVars,
                   pc, serving, transferred, wantReads, events>>

\* A completion is posted unless one is pending already.
InitiateSend ==
    /\ initiating > 0
    /\ initiating' = initiating - 1
    /\ initiateOnline' = TRUE
    /\ UNCHANGED <<pushed, sendAppQueue, writeBio, ringVars, sendOnline,
                   inFlight, wire, closeVars, mutexVars, pc, serving,
                   transferred, wantReads, events>>

-----------------------------------------------------------------------------
(* The completions.                                                        *)

\* The InitiateSend branch of WorkerThreadBody up to TrySendAsync.
PostInitiateSend(w) ==
    /\ At(w, "idle") /\ initiateOnline
    /\ initiateOnline' = FALSE
    /\ Goto(w, "begin")
    /\ serving' = [serving EXCEPT ![w] = "Send"]
    /\ UNCHANGED <<queueVars, writeBio, ringVars, sendOnline, inFlight, wire,
                   closeVars, mutexVars, transferred, wantReads, events>>

\* The kernel has sent its buffer; TryPostSend clears the flag first.
PostSend(w) ==
    /\ At(w, "idle") /\ inFlight # <<>>
    /\ Len(wire) + inFlight[2] =< MaxWire
    /\ wire' = wire \o Read(sendTlsBuffer, BufferCapacity,
                            inFlight[1], inFlight[2])
    /\ transferred' = [transferred EXCEPT ![w] = inFlight[2]]
    /\ inFlight' = <<>>
    /\ sendOnline' = FALSE
    /\ Goto(w, "advance")
    /\ serving' = [serving EXCEPT ![w] = "Send"]
    /\ UNCHANGED <<queueVars, writeBio, ringVars, initiateOnline, closeVars,
                   mutexVars, wantReads, events>>

\* A Send that fails, which it does when the connection is lost.
PostIoFailed(w) ==
    /\ At(w, "idle") /\ inFlight # <<>>
    /\ connected' = FALSE
    /\ inFlight' = <<>>
    /\ sendOnline' = FALSE
    /\ Goto(w, "close")
    /\ UNCHANGED <<queueVars, writeBio, ringVars, initiateOnline, wire,
                   shouldClose, mutexVars, serving, transferred, wantReads,
                   events>>

\* Mutant: the head runs past the end of the ring.
AdvanceHeadUnwrapped(w) ==
    /\ At(w, "advance")
    /\ head' = head + transferred[w]
    /\ Goto(w, "begin")
    /\ UNCHANGED <<queueVars, writeBio, sendTlsBuffer, tail, flagVars, wire,
                   closeVars, mutexVars, serving, transferred, wantReads,
                   events>>

\* TryPostSend then advances the head.
AdvanceHead(w) ==
    /\ At(w, "advance")
    /\ head' = Advance(BufferCapacity, head, transferred[w])
    /\ transferred' = [transferred EXCEPT ![w] = 0]
    /\ Goto(w, "begin")
    /\ UNCHANGED <<queueVars, writeBio, sendTlsBuffer, tail, flagVars, wire,
                   closeVars, mutexVars, serving, wantReads, events>>

-----------------------------------------------------------------------------
(* TrySendAsync.                                                           *)

\* Mutant: the queue is not looked at.
BeginSendRingOnly(w) ==
    /\ At(w, "begin")
    /\ IF ~sendOnline /\ ~shouldClose /\ head # tail
       THEN sendOnline' = TRUE /\ Goto(w, "process")
       ELSE UNCHANGED sendOnline /\ Goto(w, IF ~sendOnline /\ shouldClose
                                            THEN "close" ELSE "idle")
    /\ UNCHANGED <<queueVars, writeBio, ringVars, initiateOnline, inFlight,
                   wire, closeVars, mutexVars, serving, transferred,
                   wantReads, events>>

\* The block under ioOperationMutexes_[Send].  Whoever owns the flag sends
\* what is there; with nothing to send the flag goes back.
BeginSend(w) ==
    /\ At(w, "begin")
    /\ \/ /\ sendOnline
          /\ Goto(w, "idle") /\ UNCHANGED sendOnline
       \/ /\ ~sendOnline /\ shouldClose
          /\ Goto(w, "close") /\ UNCHANGED sendOnline
       \/ /\ ~sendOnline /\ ~shouldClose
          /\ IF head = tail /\ sendAppQueue = <<>>
             THEN Goto(w, "idle") /\ UNCHANGED sendOnline
             ELSE Goto(w, "process") /\ sendOnline' = TRUE
    /\ UNCHANGED <<queueVars, writeBio, ringVars, initiateOnline, inFlight,
                   wire, closeVars, mutexVars, serving, transferred,
                   wantReads, events>>

-----------------------------------------------------------------------------
(* TryProcessSendBuffers, under sendBuffersProcessMutex_.                  *)

\* A worker in TryPostReceive calls it when SSL_read wants to write.
ReceiveWantsSend(w) ==
    /\ At(w, "idle")
    /\ Goto(w, "process")
    /\ serving' = [serving EXCEPT ![w] = "Receive"]
    /\ events' = events \cup {"WantWrite"}
    /\ UNCHANGED <<queueVars, writeBio, ringVars, flagVars, wire, closeVars,
                   mutexVars, transferred, wantReads>>

LockProcess(w) ==
    /\ At(w, "process") /\ processing = Nobody
    /\ processing' = w
    /\ Goto(w, "write")
    /\ UNCHANGED <<queueVars, writeBio, ringVars, flagVars, wire, closeVars,
                   loadedHead, wantRead, serving, transferred, wantReads,
                   events>>

\* The end of TryProcessSendBuffers and its locals.
Unlock(w, label) ==
    /\ processing' = Nobody /\ loadedHead' = 0 /\ wantRead' = FALSE
    /\ Goto(w, label)
    /\ serving' = [serving EXCEPT ![w] = "Send"]

\* A result of Failed: TrySendAsync clears its flag, and the session closes.
Fail(w) ==
    /\ Unlock(w, "close")
    /\ sendOnline' = (sendOnline /\ serving[w] # "Send")

\* One turn of the loop over sendAppQueue_.  A message that SSL_write does
\* not take is gone, because it has been popped before.
WriteMessage(w) ==
    /\ At(w, "write") /\ sendAppQueue # <<>>
    /\ sendAppQueue' = Tail(sendAppQueue)
    /\ \/ /\ writeBio' = Append(writeBio, Head(sendAppQueue))
          /\ UNCHANGED <<mutexVars, wantReads, pc, serving, events,
                         sendOnline>>
       \/ /\ wantReads < MaxWantRead
          /\ wantReads' = wantReads + 1
          /\ wantRead' = TRUE
          /\ events' = events \cup {"WantRead"}
          /\ loadedHead' = head
          /\ Goto(w, "fill")
          /\ UNCHANGED <<writeBio, processing, serving, sendOnline>>
       \/ /\ Fail(w)
          /\ events' = events \cup {"TlsError"}
          /\ UNCHANGED <<writeBio, wantReads>>
    /\ UNCHANGED <<pushed, initiating, ringVars, initiateOnline, inFlight,
                   wire, closeVars, transferred>>

\* The queue is empty: on to the BIO.
LoadHead(w) ==
    /\ At(w, "write") /\ sendAppQueue = <<>>
    /\ loadedHead' = head
    /\ Goto(w, "fill")
    /\ UNCHANGED <<queueVars, writeBio, ringVars, flagVars, wire, closeVars,
                   processing, wantRead, serving, transferred, wantReads,
                   events>>

\* Mutant: the last free slot is used too.
FreeSlotsAll == Available(BufferCapacity, loadedHead, tail) + 1

FreeSlots == Available(BufferCapacity, loadedHead, tail)

\* Mutant: the bytes are enqueued where the ring is read.
EnqueuedAtHead(size) ==
    Write(sendTlsBuffer, BufferCapacity, head, SubSeq(writeBio, 1, size))

Enqueued(size) ==
    Write(sendTlsBuffer, BufferCapacity, tail, SubSeq(writeBio, 1, size))

\* Where TryProcessSendBuffers returns to, if not with Failed.  TryPostReceive
\* goes back to its own buffers.
AfterProcess(w) ==
    Unlock(w, IF serving[w] = "Receive" THEN "idle"
              ELSE IF wantRead THEN "processReceive" ELSE "wsaSend")

\* The loop over WriteBio.  A full ring fails, and what has been read from the
\* BIO is lost: the tail is stored at the end.
FillRing(w) ==
    /\ At(w, "fill")
    /\ LET size == MinOf(FreeSlots, Len(writeBio))
       IN /\ sendTlsBuffer' = Enqueued(size)
          /\ writeBio' = SubSeq(writeBio, size + 1, Len(writeBio))
          /\ IF writeBio' = <<>>
             THEN /\ tail' = Advance(BufferCapacity, tail, size)
                  /\ AfterProcess(w)
                  /\ UNCHANGED <<sendOnline, events>>
             ELSE /\ Fail(w)
                  /\ events' = events \cup {"RingFull"}
                  /\ UNCHANGED tail
    /\ UNCHANGED <<queueVars, head, initiateOnline, inFlight, wire, closeVars,
                   transferred, wantReads>>

\* TrySendAsync turns to the receive buffers, then tries again, or sends what
\* the ring has, or fails.
ProcessReceive(w) ==
    /\ At(w, "processReceive")
    /\ \/ Goto(w, "process") /\ UNCHANGED sendOnline
       \/ Goto(w, "wsaSend") /\ UNCHANGED sendOnline
       \/ Goto(w, "close") /\ sendOnline' = FALSE
    /\ UNCHANGED <<queueVars, writeBio, ringVars, initiateOnline, inFlight,
                   wire, closeVars, mutexVars, serving, transferred,
                   wantReads, events>>

-----------------------------------------------------------------------------
\* Some other worker has the bytes from head on sent, but not yet accounted.
HeadIsStale == \E u \in Workers : At(u, "advance") /\ transferred[u] > 0

\* WSASend with what lies in one piece from the head on, which may be nothing.
WsaSend(w) ==
    /\ At(w, "wsaSend")
    /\ \/ /\ connected
          /\ inFlight' = <<head, Contiguous(BufferCapacity, head, tail)>>
          /\ events' = IF HeadIsStale THEN events \cup {"Overlap"}
                          ELSE events
          /\ Goto(w, "idle")
          /\ UNCHANGED sendOnline
       \/ /\ sendOnline' = FALSE
          /\ Goto(w, "close")
          /\ UNCHANGED <<inFlight, events>>
    /\ UNCHANGED <<queueVars, writeBio, ringVars, initiateOnline, wire,
                   closeVars, mutexVars, serving, transferred, wantReads>>

\* SessionCleanupRoutine.
Close(w) ==
    /\ At(w, "close")
    /\ shouldClose' = TRUE /\ connected' = FALSE
    /\ Goto(w, "idle")
    /\ UNCHANGED <<queueVars, writeBio, ringVars, flagVars, wire, mutexVars,
                   serving, transferred, wantReads, events>>

\* The same, by an actor or in the receive path.
CloseElsewhere ==
    /\ ~shouldClose
    /\ shouldClose' = TRUE /\ connected' = FALSE
    /\ UNCHANGED <<queueVars, writeBio, ringVars, flagVars, wire, mutexVars,
                   pc, serving, transferred, wantReads, events>>

TakeInitiateSend == \E w \in Workers : PostInitiateSend(w)
TakeSend == \E w \in Workers : PostSend(w) \/ PostIoFailed(w)

\* A worker inside a call.
Continue(w) ==
    \/ AdvanceHead(w) \/ BeginSend(w)
    \/ LockProcess(w) \/ WriteMessage(w) \/ LoadHead(w) \/ FillRing(w)
    \/ ProcessReceive(w) \/ WsaSend(w) \/ Close(w)

Next ==
    \/ PushMessage \/ InitiateSend \/ CloseElsewhere
    \/ TakeInitiateSend \/ TakeSend
    \/ \E w \in Workers : ReceiveWantsSend(w) \/ Continue(w)

Spec == Init /\ [][Next]_vars

(* Actors finish their calls, workers run and get the mutexes they wait    *)
(* for, and completions are taken in the end although workers may be busy  *)
(* with the receive path again and again.  Nothing makes actors push.      *)
Fairness ==
    /\ WF_vars(InitiateSend)
    /\ SF_vars(TakeInitiateSend) /\ SF_vars(TakeSend)
    /\ \A w \in Workers : SF_vars(Continue(w))

FairSpec == Spec /\ Fairness
-----------------------------------------------------------------------------
(* Properties.                                                             *)

\* Types.
TypeOK ==
    /\ pushed \in 0..MaxMessages /\ initiating \in 0..MaxMessages
    /\ sendAppQueue \in Seq(Messages) /\ writeBio \in Seq(Messages)
    /\ sendTlsBuffer \in [Slots -> Messages \cup {0}]
    /\ head \in Slots /\ tail \in Slots
    /\ sendOnline \in BOOLEAN /\ initiateOnline \in BOOLEAN
    /\ inFlight = <<>> \/ inFlight \in Slots \X (0..BufferCapacity)
    /\ wire \in Seq(Messages \cup {0})
    /\ shouldClose \in BOOLEAN /\ connected \in BOOLEAN
    /\ processing \in Workers \cup {Nobody}
    /\ loadedHead \in Slots /\ wantRead \in BOOLEAN
    /\ pc \in [Workers -> Pcs]
    /\ serving \in [Workers -> {"Send", "Receive"}]
    /\ transferred \in [Workers -> 0..BufferCapacity]
    /\ wantReads \in 0..MaxWantRead
    /\ events \subseteq Events

\* What the ring holds, without what has been sent and not accounted for yet.
Accounted == CHOOSE n \in 0..BufferCapacity :
                IF HeadIsStale THEN \E u \in Workers : transferred[u] = n /\ n > 0
                ELSE n = 0
RingContent ==
    LET size == GetRingBufferSize(BufferCapacity, head, tail)
    IN SubSeq(Read(sendTlsBuffer, BufferCapacity, head, size),
              Accounted + 1, size)

\* Every message is in exactly one place, in the order of the pushes, whatever
\* the actors, the Send owner and the receive path do in between: nothing is
\* lost, doubled or reordered on its way through the queue, the BIO and the
\* ring.  Session.cpp: TryProcessSendBuffers, TrySendAsync, TryPostSend.
StreamIsWhole ==
    events \subseteq {"WantWrite"} =>
        wire \o RingContent \o writeBio \o sendAppQueue = [i \in 1..pushed |-> i]

\* The bytes the kernel is sending are not written to meanwhile, though the
\* receive path fills the ring while a Send is pending.
\* Session.cpp: TryProcessSendBuffers (loadedHead), TrySendAsync.
InFlightSlots ==
    IF inFlight = <<>> THEN {}
    ELSE {Advance(BufferCapacity, inFlight[1], i) : i \in 0..inFlight[2] - 1}

KernelBufferIsStable ==
    [][events \subseteq {"WantWrite"} =>
          \A slot \in InFlightSlots : sendTlsBuffer'[slot] = sendTlsBuffer[slot]]_vars

\* A pushed message reaches the client or the session closes: whoever finds a
\* flag set may rely on its owner to come back for what was pushed meanwhile.
\* (The receive path comes back for nothing: with WantWrite what it has moved
\* waits for the next push.)
\* Session.cpp: TrySendAsync, InitiateSendAsync; NetworkServer.cpp: InitiateSend.
PushedMessageIsSent ==
    \A m \in Messages :
        m =< pushed ~> \/ \E i \in 1..Len(wire) : wire[i] = m
                       \/ shouldClose \/ events # {}

-----------------------------------------------------------------------------
(* What the repository says of the program and the code does not do.       *)

\* The README lists the exchange of messages between the network server and
\* the main server as complete: no message is sent to the client twice.
NoMessageIsSentTwice ==
    \A i, j \in 1..Len(wire) : wire[i] = wire[j] => i = j
=============================================================================
