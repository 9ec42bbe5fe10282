------------------------ MODULE SessionLifecycleProofs ------------------------
(* Proofs about SessionLifecycle for any number of contexts, workers and     *)
(* actors, and any bound on the messages.                                    *)
EXTENDS SessionLifecycle, TLAPS

(* The inductive invariant, in named parts.                                  *)

Emplacing(t) == pc[t] \in {"emplaceLock", "emplace"}

\* A new session that only the thread accepting it knows.
Accepting(t) == Emplacing(t) \/ (pc[t] = "beginReceive" /\ io[t] = "Accept")

\* What a thread serves at each statement, and that it has a context there.
ThreadInv ==
    \A t \in Threads :
        /\ pc[t] \notin {"idle", "handshake"} => ctx[t] \in Contexts
        /\ pc[t] \in {"idle", "handshake"} => ctx[t] = NoContext
        /\ pc[t] = "handshake" \/ Emplacing(t) => io[t] = "Accept"
        /\ pc[t] \in {"beginReceive", "wsaRecv"} => io[t] \in {"Accept", "Receive"}
        /\ pc[t] \in {"processReceive", "dispatch"} => io[t] = "Receive"
        /\ pc[t] = "ioFailed" => io[t] \in {"Send", "Receive"}
        /\ pc[t] = "enter" => io[t] \in IoTypes
        /\ pc[t] \in {"beginSend", "processSend", "wsaSend"}
              => io[t] \in {"Send", "InitiateSend"}

\* The statements executed under sessionsMutex_.
LockInv ==
    /\ writer # NoThread => readers = {}
    /\ \A t \in Threads :
        /\ pc[t] \in {"emplace", "clnErase"} => writer = t
        /\ pc[t] \in {"processReceive", "dispatch", "beginSend", "processSend",
                      "wsaSend"} => t \in readers
        /\ pc[t] \in {"beginReceive", "wsaRecv"} /\ io[t] = "Receive"
              => t \in readers

\* Where a context is in its life.
ContextInv ==
    /\ sessions \subseteq created /\ destroyed \subseteq created
    /\ sessions \cap destroyed = {}
    /\ \A c \in created : \/ c \in sessions \cup destroyed
                          \/ \E t \in Threads : Emplacing(t) /\ ctx[t] = c
    /\ \A t \in Threads : ctx[t] \in created \cup {NoContext}
    /\ \A c \in Contexts \ created :
        dispatched[c] = 0 /\ \A ty \in IoTypes : ~Pending(c, ty)

\* Nobody else knows a session that is being accepted.
AcceptInv ==
    \A t \in Threads : Accepting(t) =>
        /\ Emplacing(t) => ctx[t] \notin sessions
        /\ ctx[t] \notin destroyed
        /\ dispatched[ctx[t]] = 0
        /\ \A ty \in IoTypes : ~Pending(ctx[t], ty)
        /\ \A u \in Threads : ctx[u] = ctx[t] => u = t

IoIdle(c) == ~Online(c, "Send") /\ ~Online(c, "Receive")

\* From the successful Close on, no Send or Receive can be started again.
CloseInv ==
    /\ \A c \in destroyed : c \in shouldClose /\ IoIdle(c)
    /\ \A t \in Threads :
        /\ pc[t] \in {"clnSsl", "clnSocket", "clnCheck", "clnLock", "clnErase"}
              => ctx[t] \in shouldClose
        /\ pc[t] \in {"clnLock", "clnErase"} => IoIdle(ctx[t])

\* A session with a Send or Receive, or served by a worker, is in the map.
ServeInv ==
    /\ \A c \in Contexts : IoIdle(c) \/ c \in sessions
    /\ \A t \in Threads :
        /\ io[t] \in {"Accept", "Receive", "Send"}
        /\ pc[t] \notin CleanupPcs
        /\ pc[t] # "handshake" /\ ~Emplacing(t)
        => ctx[t] \in sessions

\* One thread reports a session, after its erasure.
ReportInv ==
    /\ \A c \in Contexts : gone[c] # 0 => c \in destroyed
    /\ \A t \in Threads : pc[t] = "clnNotify" =>
        /\ ctx[t] \in destroyed /\ gone[ctx[t]] = 0
        /\ \A u \in Threads : pc[u] = "clnNotify" /\ ctx[u] = ctx[t] => u = t

IInv == /\ TypeOK /\ ThreadInv /\ LockInv /\ ContextInv /\ AcceptInv
        /\ FlagHasOneOwner /\ CloseInv /\ ServeInv /\ ReportInv

\* The statements of the model (moving on, locking, dereferencing) and the
\* tuples of variables are expanded in every step below.
USE DEF At, Goto, Begin, End, Deref, DerefSsl, CanLockShared, CanLockExclusive,
        LockShared, UnlockShared, LockExclusive, UnlockExclusive, AfterReceive,
        AfterSend, Return, sessionVars, ioVars, closeVars, lockVars, actorVars

-----------------------------------------------------------------------------
(* One lemma per part: every step preserves it.                              *)

LEMMA TypeStep ==
    ASSUME TypeOK, ThreadInv, [Next]_vars
    PROVE  TypeOK' /\ ThreadInv'
  <1> USE ConstantsAssumption
      DEF TypeOK, ThreadInv, Emplacing, Threads, Pcs, CleanupPcs, Kinds, IoTypes,
          Faults
  <1>1. ASSUME NEW w \in Workers, ProcessReceiveBuffers(w)
        PROVE  TypeOK' /\ ThreadInv'
    <2>0. /\ pc' \in [Threads -> Pcs] /\ ctx' \in [Threads -> Contexts \cup {NoContext}]
          /\ io' \in [Threads -> Kinds] /\ ok' \in [Threads -> BOOLEAN]
      BY <1>1 DEF ProcessReceiveBuffers
    <2>1. TypeOK'
      BY <1>1, <2>0 DEF ProcessReceiveBuffers
    <2>2. ThreadInv'
      BY <1>1 DEF ProcessReceiveBuffers
    <2>3. QED BY <2>1, <2>2
  <1>2. ASSUME NEW w \in Workers, BeginReceive(w) \/ WsaRecv(w)
        PROVE  TypeOK' /\ ThreadInv'
    <2>1. ctx[w] \in Contexts /\ io[w] \in {"Accept", "Receive"}
      BY <1>2 DEF BeginReceive, WsaRecv
    <2>2. /\ isIoOnline' \subseteq Contexts \X IoTypes
          /\ inFlight' \subseteq Contexts \X IoTypes
      BY <2>1, <1>2 DEF BeginReceive, WsaRecv
    <2>3. TypeOK'
      <3>1. CASE BeginReceive(w)
        <4>1. /\ pc' \in [Threads -> Pcs] /\ io' \in [Threads -> Kinds]
              /\ ctx' \in [Threads -> Contexts \cup {NoContext}]
              /\ ok' \in [Threads -> BOOLEAN]
          BY <2>1, <3>1 DEF BeginReceive
        <4>2. QED
          BY <2>2, <3>1, <4>1 DEF BeginReceive
      <3>2. CASE WsaRecv(w)
        <4>1. /\ pc' \in [Threads -> Pcs] /\ io' \in [Threads -> Kinds]
              /\ ctx' \in [Threads -> Contexts \cup {NoContext}]
              /\ ok' \in [Threads -> BOOLEAN]
          <5>1. CASE io[w] = "Receive"
            BY <2>1, <3>2, <5>1 DEF WsaRecv
          <5>2. CASE io[w] = "Accept"
            BY <2>1, <3>2, <5>2 DEF WsaRecv
          <5>3. QED BY <2>1, <5>1, <5>2
        <4>2. QED
          BY <2>2, <3>2, <4>1 DEF WsaRecv
      <3>3. QED BY <1>2, <3>1, <3>2
    <2>4. ThreadInv'
      BY <1>2 DEF BeginReceive, WsaRecv
    <2>5. QED BY <2>3, <2>4
  <1>3. CASE \E w \in Workers : EmplaceLock(w)
    BY <1>3 DEF EmplaceLock
  <1>4. CASE \E w \in Workers : Emplace(w)
    BY <1>4 DEF Emplace
  <1>5. CASE \E w \in Workers : PostIoFailed(w)
    BY <1>5 DEF PostIoFailed
  <1>6. CASE \E w \in Workers : Enter(w)
    BY <1>6 DEF Enter
  <1>7. CASE \E w \in Workers : LeavePostReceive(w)
    BY <1>7 DEF LeavePostReceive
  <1>8. CASE \E w \in Workers : BeginSend(w)
    BY <1>8 DEF BeginSend
  <1>9. CASE \E w \in Workers : ProcessSendBuffers(w)
    BY <1>9 DEF ProcessSendBuffers
  <1>10. CASE \E w \in Workers : WsaSend(w)
    BY <1>10 DEF WsaSend
  <1>11. CASE \E w \in Workers : Dispatch(w)
    BY <1>11 DEF Dispatch
  <1>12. CASE \E w \in Workers, c \in Contexts : TakeContext(w, c)
    BY <1>12 DEF TakeContext
  <1>13. CASE \E w \in Workers, c \in Contexts, ty \in IoTypes : Dequeue(w, c, ty)
    BY <1>13 DEF Dequeue
  <1>14. CASE \E w \in Workers, c \in Contexts, ty \in IoTypes :
                DequeueFailed(w, c, ty)
    BY <1>14 DEF DequeueFailed
  <1>15. CASE \E t \in Threads : CleanupBarrier(t)
    BY <1>15 DEF CleanupBarrier
  <1>16. CASE \E t \in Threads : CleanupFind(t)
    BY <1>16 DEF CleanupFind
  <1>17. CASE \E t \in Threads : CleanupClose(t)
    BY <1>17 DEF CleanupClose
  <1>18. CASE \E t \in Threads : CleanupSsl(t)
    BY <1>18 DEF CleanupSsl
  <1>19. CASE \E t \in Threads : CleanupSocket(t)
    BY <1>19 DEF CleanupSocket
  <1>20. CASE \E t \in Threads : CleanupCheck(t)
    BY <1>20 DEF CleanupCheck
  <1>21. CASE \E t \in Threads : CleanupLock(t)
    BY <1>21 DEF CleanupLock
  <1>22. CASE \E t \in Threads : CleanupErase(t)
    BY <1>22 DEF CleanupErase
  <1>23. CASE \E t \in Threads : CleanupNotify(t)
    BY <1>23 DEF CleanupNotify
  <1>24. CASE \E a \in Actors, c \in Contexts : SendMessageTo(a, c)
    BY <1>24 DEF SendMessageTo
  <1>25. CASE \E a \in Actors, c \in Contexts : DisconnectSession(a, c)
    BY <1>25 DEF DisconnectSession
  <1>26. ASSUME NEW w \in Workers, BeginAccept(w) \/ AcceptFails(w)
         PROVE  TypeOK' /\ ThreadInv'
    <2>1. CASE BeginAccept(w)
      BY <2>1 DEF BeginAccept
    <2>2. CASE AcceptFails(w)
      BY <2>2 DEF AcceptFails
    <2>3. QED BY <1>26, <2>1, <2>2
  <1>27. CASE \E t \in Threads : AwaitExclusive(t)
    BY <1>27 DEF AwaitExclusive
  <1>28. CASE UNCHANGED vars
    BY <1>28 DEF vars
  <1> HIDE DEF TypeOK, ThreadInv, Emplacing, Threads, Pcs, CleanupPcs, Kinds,
          IoTypes, Faults
  <1>29. ASSUME NEW w \in Workers, Handle(w) PROVE TypeOK' /\ ThreadInv'
    BY <1>1, <1>2, <1>3, <1>4, <1>5, <1>6, <1>7, <1>8, <1>9, <1>10, <1>29
       DEF Handle
  <1>30. ASSUME NEW t \in Threads, Cleanup(t) PROVE TypeOK' /\ ThreadInv'
    BY <1>15, <1>16, <1>17, <1>18, <1>19, <1>20, <1>21, <1>22, <1>23, <1>30
       DEF Cleanup
  <1>31. QED
    BY <1>11, <1>12, <1>13, <1>14, <1>24, <1>25, <1>26, <1>27, <1>28, <1>29,
       <1>30 DEF Next, TakeCompletion

LEMMA LockStep ==
    ASSUME TypeOK, ThreadInv, LockInv, [Next]_vars
    PROVE  LockInv'
  <1> USE ConstantsAssumption
      DEF TypeOK, ThreadInv, LockInv, Emplacing, Threads
  <1>1. CASE \E w \in Workers : Handle(w)
    BY <1>1 DEF Handle, EmplaceLock, Emplace, PostIoFailed, Enter,
       ProcessReceiveBuffers, BeginReceive, WsaRecv, LeavePostReceive,
       BeginSend, ProcessSendBuffers, WsaSend
  <1>2. CASE \E w \in Workers : Dispatch(w)
    BY <1>2 DEF Dispatch
  <1>3. CASE \E w \in Workers : \/ BeginAccept(w) \/ AcceptFails(w)
                                \/ \E c \in Contexts : TakeContext(w, c)
    BY <1>3 DEF BeginAccept, AcceptFails, TakeContext
  <1>4. CASE \E c \in Contexts, ty \in IoTypes : TakeCompletion(c, ty)
    BY <1>4 DEF TakeCompletion, Dequeue, DequeueFailed
  <1>5. CASE \E t \in Threads : Cleanup(t) \/ AwaitExclusive(t)
    BY <1>5 DEF AwaitExclusive, Cleanup, CleanupBarrier, CleanupFind, CleanupClose,
       CleanupSsl, CleanupSocket, CleanupCheck, CleanupLock, CleanupErase,
       CleanupNotify
  <1>6. CASE \E a \in Actors, c \in Contexts :
                SendMessageTo(a, c) \/ DisconnectSession(a, c)
    BY <1>6 DEF SendMessageTo, DisconnectSession
  <1>7. CASE UNCHANGED vars
    BY <1>7 DEF vars
  <1> HIDE DEF TypeOK, ThreadInv, LockInv, Emplacing, Threads
  <1>8. QED
    BY <1>1, <1>2, <1>3, <1>4, <1>5, <1>6, <1>7 DEF Next

LEMMA ContextStep ==
    ASSUME TypeOK, ThreadInv, ContextInv, AcceptInv, [Next]_vars
    PROVE  ContextInv'
  <1>a. \A t \in Threads : pc[t] \notin {"idle", "handshake"} => ctx[t] \in created
    BY ConstantsAssumption DEF ThreadInv, ContextInv
  <1>b. \A t \in Threads : Emplacing(t) => ctx[t] \notin destroyed
    BY DEF AcceptInv, Accepting
  <1>c. \A c \in Contexts, ty \in IoTypes :
            <<c, ty>> \in inFlight \/ dispatched[c] > 0 => c \in created
    BY DEF ContextInv, TypeOK, Pending
  <1> USE ConstantsAssumption
      DEF TypeOK, ThreadInv, ContextInv, AcceptInv, Emplacing, Accepting,
          Pending, Threads, IoTypes
  <1>1. ASSUME NEW w \in Workers, Emplace(w) PROVE ContextInv'
    <2>1. /\ sessions' = sessions \cup {ctx[w]} /\ ctx' = ctx
          /\ pc[w] = "emplace" /\ pc' = [pc EXCEPT ![w] = "beginReceive"]
          /\ UNCHANGED <<created, destroyed, dispatched, inFlight>>
      BY <1>1 DEF Emplace
    <2>4. ctx[w] \in created /\ ctx[w] \notin destroyed
      BY <2>1, <1>a, <1>b
    <2>2. ASSUME NEW c \in created'
          PROVE  \/ c \in (sessions \cup destroyed)'
                 \/ \E t \in Threads : Emplacing(t)' /\ ctx'[t] = c
      BY <2>1, <2>2
    <2>3. QED
      BY <2>1, <2>2, <2>4
  <1>2. ASSUME NEW w \in Workers,
               \/ EmplaceLock(w) \/ PostIoFailed(w) \/ Enter(w)
               \/ ProcessReceiveBuffers(w) \/ BeginReceive(w) \/ WsaRecv(w)
               \/ LeavePostReceive(w) \/ BeginSend(w) \/ ProcessSendBuffers(w)
               \/ WsaSend(w) \/ Dispatch(w) \/ BeginAccept(w) \/ AcceptFails(w)
        PROVE  ContextInv'
    <2>1. CASE EmplaceLock(w)
      BY <2>1 DEF EmplaceLock
    <2>2. CASE PostIoFailed(w)
      BY <2>2 DEF PostIoFailed
    <2>3. CASE Enter(w)
      BY <2>3 DEF Enter
    <2>4. CASE ProcessReceiveBuffers(w)
      BY <2>4 DEF ProcessReceiveBuffers
    <2>5. CASE BeginReceive(w)
      BY <2>5 DEF BeginReceive
    <2>6. CASE WsaRecv(w)
      BY <2>6 DEF WsaRecv
    <2>7. CASE LeavePostReceive(w)
      BY <2>7 DEF LeavePostReceive
    <2>8. CASE BeginSend(w)
      BY <2>8 DEF BeginSend
    <2>9. CASE ProcessSendBuffers(w)
      BY <2>9 DEF ProcessSendBuffers
    <2>10. CASE WsaSend(w)
      BY <2>10 DEF WsaSend
    <2>11. CASE Dispatch(w)
      BY <2>11 DEF Dispatch
    <2>12. CASE BeginAccept(w)
      BY <2>12 DEF BeginAccept
    <2>13. CASE AcceptFails(w)
      BY <2>13 DEF AcceptFails
    <2> QED
      BY <1>2, <2>1, <2>2, <2>3, <2>4, <2>5, <2>6, <2>7, <2>8,
         <2>9, <2>10, <2>11, <2>12, <2>13
  <1>3. ASSUME NEW w \in Workers, NEW c \in Contexts, TakeContext(w, c)
        PROVE  ContextInv'
    BY <1>3 DEF TakeContext
  <1>4. ASSUME NEW t \in Threads, NEW c \in Contexts, NEW ty \in IoTypes,
               \/ Dequeue(t, c, ty) \/ DequeueFailed(t, c, ty)
               \/ DisconnectSession(t, c)
        PROVE  ContextInv'
    <2>1. c \in created
      BY <1>4, <1>c DEF Dequeue, DequeueFailed, DisconnectSession
    <2>4. /\ pc[t] = "idle"
          /\ \A u \in Threads \ {t} : UNCHANGED <<pc[u], ctx[u]>>
          /\ ctx' = [ctx EXCEPT ![t] = c]
      BY <1>4 DEF Dequeue, DequeueFailed, DisconnectSession
    <2>5. /\ inFlight' \subseteq inFlight
          /\ UNCHANGED <<created, sessions, destroyed, dispatched>>
      BY <1>4 DEF Dequeue, DequeueFailed, DisconnectSession
    <2>2. ASSUME NEW d \in created'
          PROVE  \/ d \in (sessions \cup destroyed)'
                 \/ \E u \in Threads : Emplacing(u)' /\ ctx'[u] = d
      BY <2>1, <2>2, <2>4, <2>5
    <2>3. QED
      BY <2>1, <2>2, <2>4, <2>5
  <1>5. ASSUME NEW t \in Threads, Cleanup(t) \/ AwaitExclusive(t) PROVE ContextInv'
    BY <1>5 DEF AwaitExclusive, Cleanup, CleanupBarrier, CleanupFind, CleanupClose, CleanupSsl,
       CleanupSocket, CleanupCheck, CleanupLock, CleanupErase, CleanupNotify
  <1>6. ASSUME NEW a \in Actors, NEW c \in Contexts, SendMessageTo(a, c)
        PROVE  ContextInv'
    BY <1>6 DEF SendMessageTo
  <1>7. CASE UNCHANGED vars
    BY <1>7 DEF vars
  <1> HIDE DEF TypeOK, ThreadInv, ContextInv, AcceptInv, Emplacing, Accepting,
          Pending
  <1>8. QED
    BY <1>1, <1>2, <1>3, <1>4, <1>5, <1>6, <1>7 DEF Next, Handle, TakeCompletion

LEMMA AcceptStep ==
    ASSUME TypeOK, ThreadInv, ContextInv, AcceptInv, [Next]_vars
    PROVE  AcceptInv'
  <1> USE ConstantsAssumption
      DEF TypeOK, ThreadInv, ContextInv, AcceptInv, Emplacing, Accepting, Pending,
          Threads, IoTypes
  <1>1. ASSUME NEW w \in Workers, Handle(w) PROVE AcceptInv'
    <2>1. CASE EmplaceLock(w)
      BY <2>1 DEF EmplaceLock
    <2>2. CASE Emplace(w)
      BY <2>2 DEF Emplace
    <2>3. CASE PostIoFailed(w)
      BY <2>3 DEF PostIoFailed
    <2>4. CASE Enter(w)
      BY <2>4 DEF Enter
    <2>5. CASE ProcessReceiveBuffers(w)
      BY <2>5 DEF ProcessReceiveBuffers
    <2>6. CASE BeginReceive(w)
      BY <2>6 DEF BeginReceive
    <2>7. CASE WsaRecv(w)
      BY <2>7 DEF WsaRecv
    <2>8. CASE LeavePostReceive(w)
      BY <2>8 DEF LeavePostReceive
    <2>9. CASE BeginSend(w)
      BY <2>9 DEF BeginSend
    <2>10. CASE ProcessSendBuffers(w)
      BY <2>10 DEF ProcessSendBuffers
    <2>11. CASE WsaSend(w)
      BY <2>11 DEF WsaSend
    <2> QED
      BY <1>1, <2>1, <2>2, <2>3, <2>4, <2>5, <2>6, <2>7, <2>8, <2>9, <2>10, <2>11 DEF Handle
  <1>2. CASE \E w \in Workers : Dispatch(w)
    BY <1>2 DEF Dispatch
  <1>3. CASE \E w \in Workers : \/ BeginAccept(w) \/ AcceptFails(w)
                                \/ \E c \in Contexts : TakeContext(w, c)
    BY <1>3 DEF BeginAccept, AcceptFails, TakeContext
  <1>4. CASE \E c \in Contexts, ty \in IoTypes : TakeCompletion(c, ty)
    BY <1>4 DEF TakeCompletion, Dequeue, DequeueFailed
  <1>5. CASE \E t \in Threads : Cleanup(t) \/ AwaitExclusive(t)
    BY <1>5 DEF AwaitExclusive, Cleanup, CleanupBarrier, CleanupFind, CleanupClose,
       CleanupSsl, CleanupSocket, CleanupCheck, CleanupLock, CleanupErase,
       CleanupNotify
  <1>6. CASE \E a \in Actors, c \in Contexts :
                SendMessageTo(a, c) \/ DisconnectSession(a, c)
    BY <1>6 DEF SendMessageTo, DisconnectSession
  <1>7. CASE UNCHANGED vars
    BY <1>7 DEF vars
  <1> HIDE DEF TypeOK, ThreadInv, ContextInv, AcceptInv, Emplacing, Accepting,
          Pending, Threads, IoTypes
  <1>8. QED
    BY <1>1, <1>2, <1>3, <1>4, <1>5, <1>6, <1>7 DEF Next

-----------------------------------------------------------------------------
(* FlagHasOneOwner: an operation changes hands in one of five ways.          *)

OwnsNothing(t) == \A c \in Contexts, ty \in IoTypes : ~Owns(t, c, ty)

OwnsOnly(t, c, ty) ==
    \A d \in Contexts, x \in IoTypes : Owns(t, d, x) <=> d = c /\ x = ty

OthersKeep(t) ==
    \A u \in Threads \ {t}, c \in Contexts, ty \in IoTypes :
        Owns(u, c, ty)' <=> Owns(u, c, ty)

\* A step that changes the control of one thread changes the operations of
\* that thread only.
LEMMA OneThreadMoves ==
    ASSUME NEW t \in Threads,
           \A u \in Threads \ {t} : UNCHANGED <<pc[u], ctx[u], io[u]>>
    PROVE  OthersKeep(t)
  BY DEF OthersKeep, Owns

\* The step of a thread that has no operation before or after it.
LEMMA FlagKept ==
    ASSUME FlagHasOneOwner, UNCHANGED ioVars, NEW t \in Threads, OthersKeep(t),
           \A c \in Contexts, ty \in IoTypes : Owns(t, c, ty)' <=> Owns(t, c, ty)
    PROVE  FlagHasOneOwner'
  <1>1. \A u \in Threads, c \in Contexts, ty \in IoTypes :
            Owns(u, c, ty)' <=> Owns(u, c, ty)
    BY DEF OthersKeep
  <1>2. QED
    BY <1>1 DEF FlagHasOneOwner, Online, Pending, ioVars

\* A completion is taken from the queue.
LEMMA FlagTaken ==
    ASSUME FlagHasOneOwner, NEW t \in Threads, OthersKeep(t),
           NEW c \in Contexts, NEW ty \in IoTypes, Pending(c, ty),
           OwnsNothing(t), OwnsOnly(t, c, ty)',
           inFlight' = inFlight \ {<<c, ty>>}, isIoOnline' = isIoOnline
    PROVE  FlagHasOneOwner'
  <1>1. \A d \in Contexts, x \in IoTypes :
            /\ Online(d, x)' <=> Online(d, x)
            /\ Pending(d, x)' <=> Pending(d, x) /\ ~(d = c /\ x = ty)
    BY DEF Online, Pending
  <1>2. SUFFICES ASSUME NEW d \in Contexts, NEW x \in IoTypes
                 PROVE  /\ Pending(d, x)' => Online(d, x)'
                        /\ Online(d, x)' => Pending(d, x)'
                              \/ \E u \in Threads : Owns(u, d, x)'
                        /\ \A u \in Threads : Owns(u, d, x)' =>
                              /\ Online(d, x)' /\ ~Pending(d, x)'
                              /\ \A v \in Threads : Owns(v, d, x)' => v = u
    BY DEF FlagHasOneOwner
  <1>3. CASE d = c /\ x = ty
    BY <1>1, <1>3 DEF FlagHasOneOwner, OthersKeep, OwnsNothing, OwnsOnly
  <1>4. CASE ~(d = c /\ x = ty)
    BY <1>1, <1>4 DEF FlagHasOneOwner, OthersKeep, OwnsNothing, OwnsOnly
  <1>5. QED BY <1>3, <1>4

\* The owner of an operation clears its flag.
LEMMA FlagCleared ==
    ASSUME FlagHasOneOwner, NEW t \in Threads, OthersKeep(t),
           NEW c \in Contexts, NEW ty \in IoTypes,
           OwnsOnly(t, c, ty), OwnsNothing(t)',
           isIoOnline' = isIoOnline \ {<<c, ty>>}, inFlight' = inFlight
    PROVE  FlagHasOneOwner'
  <1>1. \A d \in Contexts, x \in IoTypes :
            /\ Online(d, x)' <=> Online(d, x) /\ ~(d = c /\ x = ty)
            /\ Pending(d, x)' <=> Pending(d, x)
    BY DEF Online, Pending
  <1>2. SUFFICES ASSUME NEW d \in Contexts, NEW x \in IoTypes
                 PROVE  /\ Pending(d, x)' => Online(d, x)'
                        /\ Online(d, x)' => Pending(d, x)'
                              \/ \E u \in Threads : Owns(u, d, x)'
                        /\ \A u \in Threads : Owns(u, d, x)' =>
                              /\ Online(d, x)' /\ ~Pending(d, x)'
                              /\ \A v \in Threads : Owns(v, d, x)' => v = u
    BY DEF FlagHasOneOwner
  <1>3. CASE d = c /\ x = ty
    BY <1>1, <1>3 DEF FlagHasOneOwner, OthersKeep, OwnsNothing, OwnsOnly
  <1>4. CASE ~(d = c /\ x = ty)
    BY <1>1, <1>4 DEF FlagHasOneOwner, OthersKeep, OwnsNothing, OwnsOnly
  <1>5. QED BY <1>3, <1>4

\* A thread sets a flag that is not set.
LEMMA FlagSet ==
    ASSUME FlagHasOneOwner, NEW t \in Threads, OthersKeep(t),
           NEW c \in Contexts, NEW ty \in IoTypes, ~Online(c, ty),
           OwnsNothing(t), OwnsOnly(t, c, ty)',
           isIoOnline' = isIoOnline \cup {<<c, ty>>}, inFlight' = inFlight
    PROVE  FlagHasOneOwner'
  <1>1. \A d \in Contexts, x \in IoTypes :
            /\ Online(d, x)' <=> Online(d, x) \/ (d = c /\ x = ty)
            /\ Pending(d, x)' <=> Pending(d, x)
    BY DEF Online, Pending
  <1>2. SUFFICES ASSUME NEW d \in Contexts, NEW x \in IoTypes
                 PROVE  /\ Pending(d, x)' => Online(d, x)'
                        /\ Online(d, x)' => Pending(d, x)'
                              \/ \E u \in Threads : Owns(u, d, x)'
                        /\ \A u \in Threads : Owns(u, d, x)' =>
                              /\ Online(d, x)' /\ ~Pending(d, x)'
                              /\ \A v \in Threads : Owns(v, d, x)' => v = u
    BY DEF FlagHasOneOwner
  <1>3. CASE d = c /\ x = ty
    BY <1>1, <1>3 DEF FlagHasOneOwner, OthersKeep, OwnsNothing, OwnsOnly
  <1>4. CASE ~(d = c /\ x = ty)
    BY <1>1, <1>4 DEF FlagHasOneOwner, OthersKeep, OwnsNothing, OwnsOnly
  <1>5. QED BY <1>3, <1>4

\* The owner of an operation hands it to the kernel.
LEMMA FlagSubmitted ==
    ASSUME FlagHasOneOwner, NEW t \in Threads, OthersKeep(t),
           NEW c \in Contexts, NEW ty \in IoTypes,
           OwnsOnly(t, c, ty), OwnsNothing(t)',
           inFlight' = inFlight \cup {<<c, ty>>}, isIoOnline' = isIoOnline
    PROVE  FlagHasOneOwner'
  <1>1. \A d \in Contexts, x \in IoTypes :
            /\ Online(d, x)' <=> Online(d, x)
            /\ Pending(d, x)' <=> Pending(d, x) \/ (d = c /\ x = ty)
    BY DEF Online, Pending
  <1>2. SUFFICES ASSUME NEW d \in Contexts, NEW x \in IoTypes
                 PROVE  /\ Pending(d, x)' => Online(d, x)'
                        /\ Online(d, x)' => Pending(d, x)'
                              \/ \E u \in Threads : Owns(u, d, x)'
                        /\ \A u \in Threads : Owns(u, d, x)' =>
                              /\ Online(d, x)' /\ ~Pending(d, x)'
                              /\ \A v \in Threads : Owns(v, d, x)' => v = u
    BY DEF FlagHasOneOwner
  <1>3. CASE d = c /\ x = ty
    BY <1>1, <1>3 DEF FlagHasOneOwner, OthersKeep, OwnsNothing, OwnsOnly
  <1>4. CASE ~(d = c /\ x = ty)
    BY <1>1, <1>4 DEF FlagHasOneOwner, OthersKeep, OwnsNothing, OwnsOnly
  <1>5. QED BY <1>3, <1>4

\* SendMessageTo sets the InitiateSend flag and posts the completion at once.
LEMMA FlagPosted ==
    ASSUME FlagHasOneOwner, NEW c \in Contexts, NEW ty \in IoTypes, ~Online(c, ty),
           \A t \in Threads : UNCHANGED <<pc[t], ctx[t], io[t]>>,
           isIoOnline' = isIoOnline \cup {<<c, ty>>},
           inFlight' = inFlight \cup {<<c, ty>>}
    PROVE  FlagHasOneOwner'
  <1>1. \A u \in Threads, d \in Contexts, x \in IoTypes :
            Owns(u, d, x)' <=> Owns(u, d, x)
    BY DEF Owns
  <1>2. \A d \in Contexts, x \in IoTypes :
            /\ Online(d, x)' <=> Online(d, x) \/ (d = c /\ x = ty)
            /\ Pending(d, x)' <=> Pending(d, x) \/ (d = c /\ x = ty)
    BY DEF Online, Pending
  <1>3. QED
    BY <1>1, <1>2 DEF FlagHasOneOwner

LEMMA FlagStutter ==
    ASSUME FlagHasOneOwner, UNCHANGED vars
    PROVE  FlagHasOneOwner'
  <1>1. \A t \in Threads, c \in Contexts, ty \in IoTypes :
            Owns(t, c, ty)' <=> Owns(t, c, ty)
    BY DEF vars, Owns
  <1>2. isIoOnline' = isIoOnline /\ inFlight' = inFlight
    BY DEF vars
  <1>3. QED
    BY <1>1, <1>2 DEF FlagHasOneOwner, Online, Pending

LEMMA FlagStep ==
    ASSUME TypeOK, ThreadInv, FlagHasOneOwner, [Next]_vars
    PROVE  FlagHasOneOwner'
  <1> USE DEF TypeOK, Threads, IoTypes
  <1>1. ASSUME NEW w \in Workers, Handle(w) \/ Dispatch(w) PROVE OthersKeep(w)
    <2>1. \A u \in Threads \ {w} : UNCHANGED <<pc[u], ctx[u], io[u]>>
      BY <1>1 DEF Handle, EmplaceLock, Emplace, PostIoFailed, Enter,
         ProcessReceiveBuffers, BeginReceive, WsaRecv, Dispatch,
         LeavePostReceive, BeginSend, ProcessSendBuffers, WsaSend
    <2>2. QED
      BY <2>1, OneThreadMoves
  <1>2. ASSUME NEW w \in Workers,
               \/ EmplaceLock(w) \/ Emplace(w) \/ ProcessReceiveBuffers(w)
               \/ Dispatch(w) \/ LeavePostReceive(w) \/ ProcessSendBuffers(w)
        PROVE  FlagHasOneOwner'
    <2>1. OthersKeep(w)
      BY <1>1, <1>2 DEF Handle
    <2>2. UNCHANGED ioVars
      BY <1>2 DEF EmplaceLock, Emplace, ProcessReceiveBuffers, Dispatch,
         LeavePostReceive, ProcessSendBuffers
    <2>3. \A c \in Contexts, ty \in IoTypes : Owns(w, c, ty)' <=> Owns(w, c, ty)
      BY <1>2 DEF Owns, EmplaceLock, Emplace, ProcessReceiveBuffers, Dispatch,
         LeavePostReceive, ProcessSendBuffers
    <2>4. QED
      BY <2>1, <2>2, <2>3, FlagKept
  <1>3. ASSUME NEW w \in Workers, PostIoFailed(w) \/ Enter(w)
        PROVE  FlagHasOneOwner'
    <2>1. ctx[w] \in Contexts /\ io[w] \in IoTypes
      BY <1>3 DEF ThreadInv, PostIoFailed, Enter
    <2>2. OwnsOnly(w, ctx[w], io[w]) /\ OwnsNothing(w)'
      BY <1>3, <2>1 DEF OwnsOnly, OwnsNothing, Owns, PostIoFailed, Enter
    <2>3. /\ isIoOnline' = isIoOnline \ {<<ctx[w], io[w]>>}
          /\ inFlight' = inFlight
      BY <1>3 DEF PostIoFailed, Enter
    <2>4. QED
      BY <1>1, <1>3, <2>1, <2>2, <2>3, FlagCleared DEF Handle
  <1>4. ASSUME NEW w \in Workers, BeginReceive(w)
        PROVE  FlagHasOneOwner'
    <2>1. ctx[w] \in Contexts /\ OwnsNothing(w)
      BY <1>4 DEF ThreadInv, OwnsNothing, Owns, BeginReceive
    <2>2. CASE UNCHANGED isIoOnline
      <3>1. OwnsNothing(w)'
        BY <1>4, <2>1, <2>2 DEF OwnsNothing, Owns, BeginReceive
      <3>2. UNCHANGED ioVars
        BY <1>4, <2>2 DEF BeginReceive
      <3>3. QED
        BY <1>1, <1>4, <2>1, <3>1, <3>2, FlagKept DEF Handle, OwnsNothing
    <2>3. CASE isIoOnline' # isIoOnline
      <3>1. /\ ~Online(ctx[w], "Receive")
            /\ isIoOnline' = isIoOnline \cup {<<ctx[w], "Receive">>}
            /\ inFlight' = inFlight
            /\ pc' = [pc EXCEPT ![w] = "wsaRecv"] /\ UNCHANGED <<ctx, io>>
        BY <1>4, <2>3 DEF BeginReceive, Online
      <3>2. OwnsOnly(w, ctx[w], "Receive")'
        BY <2>1, <3>1 DEF OwnsOnly, Owns
      <3>3. QED
        BY <1>1, <1>4, <2>1, <3>1, <3>2, FlagSet DEF Handle
    <2>4. QED BY <2>2, <2>3
  <1>5. ASSUME NEW w \in Workers, BeginSend(w)
        PROVE  FlagHasOneOwner'
    <2>1. ctx[w] \in Contexts /\ OwnsNothing(w)
      BY <1>5 DEF ThreadInv, OwnsNothing, Owns, BeginSend
    <2>2. CASE UNCHANGED isIoOnline
      <3>1. OwnsNothing(w)'
        BY <1>5, <2>1, <2>2 DEF OwnsNothing, Owns, BeginSend
      <3>2. UNCHANGED ioVars
        BY <1>5, <2>2 DEF BeginSend
      <3>3. QED
        BY <1>1, <1>5, <2>1, <3>1, <3>2, FlagKept DEF Handle, OwnsNothing
    <2>3. CASE isIoOnline' # isIoOnline
      <3>1. /\ ~Online(ctx[w], "Send")
            /\ isIoOnline' = isIoOnline \cup {<<ctx[w], "Send">>}
            /\ inFlight' = inFlight
            /\ pc' = [pc EXCEPT ![w] = "processSend"] /\ UNCHANGED <<ctx, io>>
        BY <1>5, <2>3 DEF BeginSend, Online
      <3>2. OwnsOnly(w, ctx[w], "Send")'
        BY <2>1, <3>1 DEF OwnsOnly, Owns
      <3>3. QED
        BY <1>1, <1>5, <2>1, <3>1, <3>2, FlagSet DEF Handle
    <2>4. QED BY <2>2, <2>3
  <1>6. ASSUME NEW w \in Workers, WsaRecv(w)
        PROVE  FlagHasOneOwner'
    <2>1. ctx[w] \in Contexts
      BY <1>6 DEF ThreadInv, WsaRecv
    <2>2. OwnsOnly(w, ctx[w], "Receive") /\ OwnsNothing(w)'
      BY <1>6, <2>1 DEF OwnsOnly, OwnsNothing, Owns, WsaRecv
    <2>3. \/ /\ inFlight' = inFlight \cup {<<ctx[w], "Receive">>}
             /\ isIoOnline' = isIoOnline
          \/ /\ isIoOnline' = isIoOnline \ {<<ctx[w], "Receive">>}
             /\ inFlight' = inFlight
      BY <1>6 DEF WsaRecv
    <2>4. QED
      BY <1>1, <1>6, <2>1, <2>2, <2>3, FlagSubmitted, FlagCleared DEF Handle
  <1>7. ASSUME NEW w \in Workers, WsaSend(w)
        PROVE  FlagHasOneOwner'
    <2>1. ctx[w] \in Contexts
      BY <1>7 DEF ThreadInv, WsaSend
    <2>2. OwnsOnly(w, ctx[w], "Send") /\ OwnsNothing(w)'
      BY <1>7, <2>1 DEF OwnsOnly, OwnsNothing, Owns, WsaSend
    <2>3. \/ /\ inFlight' = inFlight \cup {<<ctx[w], "Send">>}
             /\ isIoOnline' = isIoOnline
          \/ /\ isIoOnline' = isIoOnline \ {<<ctx[w], "Send">>}
             /\ inFlight' = inFlight
      BY <1>7 DEF WsaSend
    <2>4. QED
      BY <1>1, <1>7, <2>1, <2>2, <2>3, FlagSubmitted, FlagCleared DEF Handle
  <1>8. ASSUME NEW c \in Contexts, NEW ty \in IoTypes, TakeCompletion(c, ty)
        PROVE  FlagHasOneOwner'
    <2>1. PICK w \in Workers : Dequeue(w, c, ty) \/ DequeueFailed(w, c, ty)
      BY <1>8 DEF TakeCompletion
    <2>2. Pending(c, ty) /\ OwnsNothing(w) /\ OwnsOnly(w, c, ty)'
      BY <2>1 DEF Pending, OwnsNothing, OwnsOnly, Owns, Dequeue, DequeueFailed
    <2>3. inFlight' = inFlight \ {<<c, ty>>} /\ isIoOnline' = isIoOnline
      BY <2>1 DEF Dequeue, DequeueFailed
    <2>4. \A u \in Threads \ {w} : UNCHANGED <<pc[u], ctx[u], io[u]>>
      BY <2>1 DEF Dequeue, DequeueFailed
    <2>5. QED
      BY <2>2, <2>3, <2>4, OneThreadMoves, FlagTaken
  <1>9. ASSUME NEW t \in Threads,
               \/ Cleanup(t) \/ AwaitExclusive(t)
               \/ BeginAccept(t) \/ AcceptFails(t)
               \/ \E c \in Contexts : TakeContext(t, c) \/ DisconnectSession(t, c)
        PROVE  FlagHasOneOwner'
    <2>1. \A u \in Threads \ {t} : UNCHANGED <<pc[u], ctx[u], io[u]>>
      BY <1>9 DEF Cleanup, CleanupBarrier, CleanupFind, CleanupClose, CleanupSsl,
         CleanupSocket, CleanupCheck, CleanupLock, CleanupErase, CleanupNotify,
         TakeContext, DisconnectSession, BeginAccept, AcceptFails, AwaitExclusive
    <2>2. UNCHANGED ioVars
      BY <1>9 DEF Cleanup, CleanupBarrier, CleanupFind, CleanupClose, CleanupSsl,
         CleanupSocket, CleanupCheck, CleanupLock, CleanupErase, CleanupNotify,
         TakeContext, DisconnectSession, BeginAccept, AcceptFails, AwaitExclusive
    <2>3. OwnsNothing(t) /\ OwnsNothing(t)'
      BY <1>9 DEF OwnsNothing, Owns, Cleanup, CleanupBarrier, CleanupFind,
         CleanupClose, CleanupSsl, CleanupSocket, CleanupCheck, CleanupLock,
         CleanupErase, CleanupNotify, TakeContext, DisconnectSession,
         BeginAccept, AcceptFails, AwaitExclusive
    <2>4. QED
      BY <2>1, <2>2, <2>3, OneThreadMoves, FlagKept DEF OwnsNothing
  <1>10. ASSUME NEW a \in Actors, NEW c \in Contexts, SendMessageTo(a, c)
        PROVE  FlagHasOneOwner'
    BY <1>10, FlagPosted DEF SendMessageTo, Online
  <1>11. CASE UNCHANGED vars
    BY <1>11, FlagStutter
  <1>12. ASSUME NEW w \in Workers, Handle(w) \/ Dispatch(w)
         PROVE  FlagHasOneOwner'
    BY <1>2, <1>3, <1>4, <1>5, <1>6, <1>7, <1>12 DEF Handle
  <1>13. QED
    BY <1>8, <1>9, <1>10, <1>11, <1>12 DEF Next

-----------------------------------------------------------------------------
(* The parts about closing, serving and reporting.                           *)

LEMMA CloseStep ==
    ASSUME TypeOK, ThreadInv, CloseInv, [Next]_vars
    PROVE  CloseInv'
  <1> USE ConstantsAssumption
      DEF TypeOK, ThreadInv, CloseInv, IoIdle, Online, Emplacing, Threads, IoTypes,
          AllOffline
  <1>1. CASE \E w \in Workers : Handle(w)
    BY <1>1 DEF Handle, EmplaceLock, Emplace, PostIoFailed, Enter,
       ProcessReceiveBuffers, BeginReceive, WsaRecv, LeavePostReceive,
       BeginSend, ProcessSendBuffers, WsaSend
  <1>2. CASE \E w \in Workers : Dispatch(w)
    BY <1>2 DEF Dispatch
  <1>3. CASE \E w \in Workers : \/ BeginAccept(w) \/ AcceptFails(w)
                                \/ \E c \in Contexts : TakeContext(w, c)
    BY <1>3 DEF BeginAccept, AcceptFails, TakeContext
  <1>4. CASE \E c \in Contexts, ty \in IoTypes : TakeCompletion(c, ty)
    BY <1>4 DEF TakeCompletion, Dequeue, DequeueFailed
  <1>5. CASE \E t \in Threads : Cleanup(t) \/ AwaitExclusive(t)
    BY <1>5 DEF AwaitExclusive, Cleanup, CleanupBarrier, CleanupFind, CleanupClose,
       CleanupSsl, CleanupSocket, CleanupCheck, CleanupLock, CleanupErase,
       CleanupNotify
  <1>6. CASE \E a \in Actors, c \in Contexts :
                SendMessageTo(a, c) \/ DisconnectSession(a, c)
    BY <1>6 DEF SendMessageTo, DisconnectSession
  <1>7. CASE UNCHANGED vars
    BY <1>7 DEF vars
  <1> HIDE DEF TypeOK, ThreadInv, CloseInv, IoIdle, Online, Emplacing,
          Threads, IoTypes, AllOffline
  <1>8. QED
    BY <1>1, <1>2, <1>3, <1>4, <1>5, <1>6, <1>7 DEF Next

LEMMA ServeStep ==
    ASSUME TypeOK, ThreadInv, LockInv, ContextInv, AcceptInv, FlagHasOneOwner,
           CloseInv, ServeInv, [Next]_vars
    PROVE  ServeInv'
  <1>a. \A t \in Threads :
          /\ pc[t] = "wsaRecv" => ~IoIdle(ctx[t])
          /\ pc[t] \in {"processSend", "wsaSend"} => ~IoIdle(ctx[t])
          /\ pc[t] \in {"enter", "ioFailed"} /\ io[t] \in {"Send", "Receive"}
                => ~IoIdle(ctx[t])
    BY ConstantsAssumption
       DEF FlagHasOneOwner, Owns, IoIdle, ThreadInv, TypeOK, IoTypes
  <1>b. \A c \in Contexts, ty \in {"Send", "Receive"} :
            <<c, ty>> \in inFlight => c \in sessions
    BY DEF FlagHasOneOwner, Pending, Online, ServeInv, IoIdle, IoTypes
  <1>c. \A t \in Threads : pc[t] = "beginSend" /\ ctx[t] \notin shouldClose
            => ctx[t] \in sessions
    <2>1. SUFFICES ASSUME NEW t \in Threads, pc[t] = "beginSend",
                          ctx[t] \notin shouldClose, ctx[t] \notin sessions
                   PROVE  FALSE
      OBVIOUS
    <2>2. ctx[t] \in created /\ ctx[t] \notin destroyed
      BY <2>1, ConstantsAssumption DEF ThreadInv, ContextInv, CloseInv
    <2>3. PICK u \in Threads : Emplacing(u) /\ ctx[u] = ctx[t]
      BY <2>1, <2>2 DEF ContextInv
    <2>4. u = t
      BY <2>3 DEF AcceptInv, Accepting
    <2>5. QED
      BY <2>1, <2>3, <2>4 DEF Emplacing
  <1>d. ASSUME NEW t \in Threads, CleanupErase(t), NEW u \in Threads, u # t,
               io[u] \in {"Accept", "Receive", "Send"}, pc[u] \notin CleanupPcs,
               ~Emplacing(u), ctx[u] = ctx[t], pc[u] \notin {"idle", "handshake"}
        PROVE  FALSE
    <2>1. /\ pc[t] = "clnErase" /\ IoIdle(ctx[t])
          /\ u \notin readers
      BY <1>d, ConstantsAssumption DEF CleanupErase, CloseInv, LockInv
    <2>2. ~Accepting(u)
      BY <1>d DEF AcceptInv
    <2>3. pc[u] \notin {"wsaRecv", "processSend", "wsaSend"}
      BY <1>a, <1>d, <2>1
    <2>4. pc[u] \notin {"enter", "ioFailed"}
      BY <1>a, <1>d, <2>1 DEF ThreadInv, IoTypes
    <2>5. QED
      BY <1>d, <2>1, <2>2, <2>3, <2>4
         DEF LockInv, ThreadInv, Accepting, Emplacing, TypeOK, Pcs, CleanupPcs
  <1> USE ConstantsAssumption
      DEF TypeOK, ThreadInv, ServeInv, IoIdle, Online, Emplacing, Threads,
          IoTypes, CleanupPcs
  <1>1. ASSUME NEW w \in Workers, Handle(w) \/ Dispatch(w), ~BeginSend(w)
        PROVE  ServeInv'
    BY <1>1, <1>a DEF Handle, EmplaceLock, Emplace, PostIoFailed, Enter,
       ProcessReceiveBuffers, BeginReceive, WsaRecv, LeavePostReceive,
       ProcessSendBuffers, WsaSend, Dispatch
  <1>2. ASSUME NEW w \in Workers, BeginSend(w) PROVE ServeInv'
    <2>5. /\ sessions' = sessions
          /\ \/ isIoOnline' = isIoOnline
             \/ /\ isIoOnline' = isIoOnline \cup {<<ctx[w], "Send">>}
                /\ ctx[w] \in sessions
      BY <1>2, <1>c DEF BeginSend
    <2>6. ASSUME NEW c \in Contexts, NEW ty \in {"Send", "Receive"},
                 <<c, ty>> \in isIoOnline'
          PROVE  c \in sessions'
      <3>1. CASE <<c, ty>> \in isIoOnline
        BY <2>5, <3>1
      <3>2. CASE <<c, ty>> = <<ctx[w], "Send">>
        BY <2>5, <2>6, <3>2
      <3>3. QED BY <2>5, <2>6, <3>1, <3>2
    <2>1. \A c \in Contexts : IoIdle(c)' \/ c \in sessions'
      BY <2>6
    <2>2. \A t \in Threads \ {w} : UNCHANGED <<pc[t], ctx[t], io[t]>>
      BY <1>2 DEF BeginSend
    <2>3. \/ pc'[w] \in {"idle", "clnBarrier"}
          \/ pc'[w] = "processSend" /\ ctx[w] \notin shouldClose /\ ctx' = ctx
      BY <1>2 DEF BeginSend
    <2>4. QED
      BY <1>2, <2>1, <2>2, <2>3, <1>c DEF BeginSend
  <1>3. ASSUME NEW w \in Workers,
               \/ BeginAccept(w) \/ AcceptFails(w)
               \/ \E c \in Contexts : TakeContext(w, c)
        PROVE  ServeInv'
    BY <1>3 DEF BeginAccept, AcceptFails, TakeContext
  <1>4. ASSUME NEW w \in Workers, NEW c \in Contexts, NEW ty \in IoTypes,
               Dequeue(w, c, ty) \/ DequeueFailed(w, c, ty)
        PROVE  ServeInv'
    <2>1. /\ \A t \in Threads \ {w} : UNCHANGED <<pc[t], ctx[t], io[t]>>
          /\ ctx'[w] = c /\ io'[w] = ty
          /\ UNCHANGED <<sessions, isIoOnline>>
      BY <1>4 DEF Dequeue, DequeueFailed
    <2>2. ty \in {"Send", "Receive"} => c \in sessions
      BY <1>4, <1>b DEF Dequeue, DequeueFailed
    <2>3. QED
      BY <2>1, <2>2
  <1>5. ASSUME NEW t \in Threads, Cleanup(t) \/ AwaitExclusive(t), ~CleanupErase(t)
        PROVE  ServeInv'
    BY <1>5 DEF AwaitExclusive, Cleanup, CleanupBarrier, CleanupFind, CleanupClose, CleanupSsl,
       CleanupSocket, CleanupCheck, CleanupLock, CleanupNotify
  <1>6. ASSUME NEW t \in Threads, CleanupErase(t) PROVE ServeInv'
    <2>1. /\ \A u \in Threads \ {t} : UNCHANGED <<pc[u], ctx[u], io[u]>>
          /\ pc'[t] \in {"idle", "clnNotify"}
          /\ sessions' = sessions \ {ctx[t]} /\ UNCHANGED isIoOnline
      BY <1>6 DEF CleanupErase
    <2>2. IoIdle(ctx[t])
      BY <1>6 DEF CleanupErase, CloseInv
    <2>3. \A c \in Contexts : IoIdle(c)' \/ c \in sessions'
      BY <2>1, <2>2
    <2>4. ASSUME NEW u \in Threads, ~Emplacing(u)', pc'[u] \notin CleanupPcs,
                 pc'[u] # "handshake", io'[u] \in {"Accept", "Receive", "Send"}
          PROVE  ctx'[u] \in sessions'
      <3>1. CASE u = t
        BY <1>6, <2>1, <2>4, <3>1 DEF CleanupErase
      <3>2. CASE u # t
        <4>1. /\ ctx[u] \in sessions /\ pc[u] \notin {"idle", "handshake"}
              /\ pc[u] \notin CleanupPcs /\ ~Emplacing(u)
              /\ io[u] \in {"Accept", "Receive", "Send"}
          BY <2>1, <2>4, <3>2
        <4>2. ctx[u] # ctx[t]
          BY <1>6, <1>d, <3>2, <4>1
        <4>3. QED
          BY <2>1, <3>2, <4>1, <4>2
      <3>3. QED BY <3>1, <3>2
    <2>5. QED
      BY <2>3, <2>4
  <1>7. ASSUME NEW a \in Actors, NEW c \in Contexts,
               SendMessageTo(a, c) \/ DisconnectSession(a, c)
        PROVE  ServeInv'
    BY <1>7 DEF SendMessageTo, DisconnectSession
  <1>8. CASE UNCHANGED vars
    BY <1>8 DEF vars
  <1> HIDE DEF TypeOK, ThreadInv, ServeInv
  <1>9. QED
    BY <1>1, <1>2, <1>3, <1>4, <1>5, <1>6, <1>7, <1>8 DEF Next, TakeCompletion

LEMMA ReportStep ==
    ASSUME TypeOK, ThreadInv, ContextInv, CloseInv, ReportInv, [Next]_vars
    PROVE  ReportInv'
  <1> USE ConstantsAssumption
      DEF TypeOK, ThreadInv, ContextInv, ReportInv, Emplacing, Threads
  <1>1. CASE \E w \in Workers : Handle(w)
    BY <1>1 DEF Handle, EmplaceLock, Emplace, PostIoFailed, Enter,
       ProcessReceiveBuffers, BeginReceive, WsaRecv, LeavePostReceive,
       BeginSend, ProcessSendBuffers, WsaSend
  <1>2. CASE \E w \in Workers : Dispatch(w)
    BY <1>2 DEF Dispatch
  <1>3. CASE \E w \in Workers : \/ BeginAccept(w) \/ AcceptFails(w)
                                \/ \E c \in Contexts : TakeContext(w, c)
    BY <1>3 DEF BeginAccept, AcceptFails, TakeContext
  <1>4. CASE \E c \in Contexts, ty \in IoTypes : TakeCompletion(c, ty)
    BY <1>4 DEF TakeCompletion, Dequeue, DequeueFailed
  <1>5. CASE \E t \in Threads : Cleanup(t) \/ AwaitExclusive(t)
    BY <1>5 DEF AwaitExclusive, Cleanup, CleanupBarrier, CleanupFind, CleanupClose,
       CleanupSsl, CleanupSocket, CleanupCheck, CleanupLock, CleanupErase,
       CleanupNotify
  <1>6. CASE \E a \in Actors, c \in Contexts :
                SendMessageTo(a, c) \/ DisconnectSession(a, c)
    BY <1>6 DEF SendMessageTo, DisconnectSession
  <1>7. CASE UNCHANGED vars
    BY <1>7 DEF vars
  <1> HIDE DEF TypeOK, ThreadInv, ContextInv, ReportInv, Emplacing, Threads
  <1>8. QED
    BY <1>1, <1>2, <1>3, <1>4, <1>5, <1>6, <1>7 DEF Next

-----------------------------------------------------------------------------
(* The inductive invariant and what follows from it.                         *)

LEMMA InitIInv == Init => IInv
  BY ConstantsAssumption
     DEF Init, IInv, TypeOK, ThreadInv, LockInv, ContextInv, AcceptInv,
         FlagHasOneOwner, CloseInv, ServeInv, ReportInv, Emplacing, Accepting,
         Owns, Online, Pending, IoIdle, Pcs, CleanupPcs, Kinds, IoTypes, Faults

LEMMA NextIInv == IInv /\ [Next]_vars => IInv'
  BY TypeStep, LockStep, ContextStep, AcceptStep, FlagStep, CloseStep, ServeStep,
     ReportStep DEF IInv

THEOREM Invariant == Spec => []IInv
  BY InitIInv, NextIInv, PTL DEF Spec

\* Every variable keeps its type: in particular no thread ever works without a
\* context, and no flag outside isIoOnline_ is touched.
THEOREM TypeCorrect == Spec => []TypeOK
  BY Invariant, PTL DEF IInv

\* The flags of isIoOnline_ always match the operations in progress.
THEOREM FlagsMatchOperations == Spec => []FlagHasOneOwner
  BY Invariant, PTL DEF IInv

\* The destructor of a session runs only when no Send or Receive is pending.
THEOREM NoIoAfterDestruction == Spec => []IoNeverOutlivesSession
  <1>1. IInv => IoNeverOutlivesSession
    BY DEF IInv, TypeOK, IoNeverOutlivesSession, CloseInv, FlagHasOneOwner, IoIdle,
           IoTypes
  <1>2. QED
    BY <1>1, Invariant, PTL

\* A session that a worker serves is in the map and has not been destroyed.
THEOREM ServedSessionsAreAlive == Spec => []ServedSessionIsAlive
  <1>0. IInv => \A t \in Threads : pc[t] = "handshake" => ctx[t] \notin destroyed
    BY ConstantsAssumption DEF IInv, TypeOK, ThreadInv
  <1>1. IInv => ServedSessionIsAlive
    BY <1>0 DEF IInv, ServedSessionIsAlive, ServeInv, ContextInv, AcceptInv, Accepting,
           Threads
  <1>2. QED
    BY <1>1, Invariant, PTL

(* The refinement of SessionStream.                                          *)

LEMMA InitStream == Init => Stream!Init
  BY DEF Init, Stream!Init, phase

LEMMA NextStream ==
    ASSUME IInv, IInv', [Next]_vars
    PROVE  [Stream!Next]_Stream!vars
  <1>1. ASSUME NEW w \in Workers, Emplace(w) PROVE [Stream!Next]_Stream!vars
    <2>1. /\ ctx[w] \in Contexts /\ ctx[w] \notin sessions
          /\ ctx[w] \notin destroyed
      BY <1>1 DEF IInv, Emplace, ThreadInv, AcceptInv, Accepting, Emplacing, Threads
    <2>2. /\ sessions' = sessions \cup {ctx[w]}
          /\ UNCHANGED <<destroyed, dispatched, gone>>
      BY <1>1 DEF Emplace
    <2>3. Stream!Open(ctx[w])
      BY <2>1, <2>2 DEF Stream!Open, phase
    <2>4. QED
      BY <2>1, <2>3 DEF Stream!Next
  <1>2. ASSUME NEW w \in Workers, Dispatch(w) PROVE [Stream!Next]_Stream!vars
    <2>1. ctx[w] \in sessions
      BY <1>2 DEF IInv, Dispatch, ServeInv, ThreadInv, CleanupPcs, Emplacing, Threads
    <2>2. ctx[w] \in Contexts /\ ctx[w] \notin destroyed
      BY <2>1 DEF IInv, TypeOK, ContextInv
    <2>3. Stream!Deliver(ctx[w])
      BY <1>2, <2>1, <2>2 DEF Dispatch, Stream!Deliver, phase
    <2>4. QED
      BY <2>2, <2>3 DEF Stream!Next
  <1>3. ASSUME NEW t \in Threads, CleanupErase(t)
        PROVE  [Stream!Next]_Stream!vars
    <2>1. CASE ctx[t] \in sessions
      <3>1. ctx[t] \in Contexts /\ ctx[t] \notin destroyed
        BY <2>1 DEF IInv, TypeOK, ContextInv
      <3>2. /\ sessions' = sessions \ {ctx[t]}
            /\ destroyed' = destroyed \cup {ctx[t]}
            /\ UNCHANGED <<dispatched, gone>>
        BY <1>3, <2>1 DEF CleanupErase
      <3>3. Stream!Close(ctx[t])
        BY <2>1, <3>1, <3>2 DEF Stream!Close, phase
      <3>4. QED
        BY <3>1, <3>3 DEF Stream!Next
    <2>2. CASE ctx[t] \notin sessions
      BY <1>3, <2>2 DEF CleanupErase, phase, Stream!vars
    <2>3. QED BY <2>1, <2>2
  <1>4. ASSUME NEW t \in Threads, CleanupNotify(t)
        PROVE  [Stream!Next]_Stream!vars
    <2>1. /\ ctx[t] \in Contexts /\ ctx[t] \in destroyed
          /\ gone[ctx[t]] = 0
      BY <1>4 DEF IInv, TypeOK, CleanupNotify, ReportInv
    <2>2. Stream!Report(ctx[t])
      BY <1>4, <2>1 DEF IInv, TypeOK, CleanupNotify, Stream!Report, phase
    <2>3. QED
      BY <2>1, <2>2 DEF Stream!Next
  <1> USE DEF phase, Stream!vars
  <1>5. ASSUME NEW w \in Workers, Handle(w), ~Emplace(w)
        PROVE  UNCHANGED Stream!vars
    BY <1>5 DEF Handle, EmplaceLock, PostIoFailed, Enter, ProcessReceiveBuffers,
       BeginReceive, WsaRecv, LeavePostReceive, BeginSend, ProcessSendBuffers,
       WsaSend
  <1>6. ASSUME NEW t \in Threads, Cleanup(t) \/ AwaitExclusive(t), ~CleanupErase(t),
               ~CleanupNotify(t)
        PROVE  UNCHANGED Stream!vars
    BY <1>6 DEF AwaitExclusive, Cleanup, CleanupBarrier, CleanupFind, CleanupClose, CleanupSsl,
       CleanupSocket, CleanupCheck, CleanupLock
  <1>7. ASSUME NEW t \in Threads, NEW c \in Contexts,
               \/ TakeContext(t, c) \/ SendMessageTo(t, c)
               \/ DisconnectSession(t, c)
               \/ \E ty \in IoTypes : Dequeue(t, c, ty) \/ DequeueFailed(t, c, ty)
        PROVE  UNCHANGED Stream!vars
    BY <1>7 DEF TakeContext, SendMessageTo, DisconnectSession, Dequeue,
       DequeueFailed
  <1>8. ASSUME \/ UNCHANGED vars
               \/ \E w \in Workers : BeginAccept(w) \/ AcceptFails(w)
        PROVE  UNCHANGED Stream!vars
    BY <1>8 DEF vars, BeginAccept, AcceptFails
  <1> HIDE DEF phase, Stream!vars
  <1>9. QED
    BY <1>1, <1>2, <1>3, <1>4, <1>5, <1>6, <1>7, <1>8
       DEF Next, TakeCompletion, Threads

\* The threads of the network server implement the promise made to the actors.
THEOREM Refinement == Spec => ImplementsSessionStream
  <1>1. Spec => Stream!Spec
    BY InitStream, NextStream, Invariant, PTL DEF Spec, Stream!Spec
  <1>2. QED
    BY <1>1 DEF ImplementsSessionStream
=============================================================================
