-------------------------- MODULE SessionLifecycle --------------------------
(***************************************************************************)
(* The life of a session in NetworkServer.cpp and Session.cpp: it is       *)
(* accepted, its Send, Receive and InitiateSend operations are started and *)
(* completed by the IOCP workers, actors send to it and disconnect it, and *)
(* SessionCleanupRoutine closes, erases and reports it.                    *)
(*                                                                         *)
(* Every thread is a small program: pc[t] is the statement it is about to  *)
(* execute, ctx[t] the context it works on, io[t] the kind of completion   *)
(* (or call) it serves, and ok[t] the `returnValue` of PostReceive.  The   *)
(* bytes themselves are abstracted: a ring that is empty, full or broken   *)
(* is a nondeterministic outcome.                                          *)
(*                                                                         *)
(* Reading an object after its lifetime is undefined in C++.  The model    *)
(* records it in `faults` and goes on with the values the memory last      *)
(* held (or, for the TLS object and the hash map, with either outcome).    *)
(* Taking sessionsMutex_ shared when the thread already owns it is also    *)
(* undefined: it is recorded, and what happens is what the SRW lock behind *)
(* the std::shared_mutex of this platform does with the request.           *)
(***************************************************************************)
EXTENDS Naturals, FiniteSets

CONSTANTS Contexts,     \* values that newContext_ hands out
          Workers,      \* the IOCP worker threads
          Actors,       \* the game threads that call the network interface
          NoThread,     \* sessionsMutex_ has no exclusive owner
          NoContext,    \* an idle thread works on no context
          MaxDispatch   \* bound: messages dispatched per session

Threads == Workers \cup Actors

ASSUME ConstantsAssumption ==
    /\ Workers \cap Actors = {}
    /\ NoThread \notin Threads
    /\ NoContext \notin Contexts
    /\ MaxDispatch \in Nat

IoTypes == {"Send", "Receive", "InitiateSend"}

\* What a thread is serving; "Api" is a call of DisconnectSession.
Kinds == IoTypes \cup {"Accept", "Api", "None"}

CleanupPcs == {"clnBarrier", "clnFind", "clnClose", "clnSsl", "clnSocket",
               "clnCheck", "clnLock", "clnErase", "clnNotify"}

Pcs == {"idle", "handshake", "emplaceLock", "emplace", "ioFailed",
        "enter", "processReceive", "beginReceive", "wsaRecv", "dispatch",
        "beginSend", "processSend", "wsaSend"} \cup CleanupPcs

VARIABLES
    created,      \* contexts that newContext_.fetch_add has returned
    sessions,     \* the keys of sessions_
    destroyed,    \* sessions whose destructor has run
    isIoOnline,   \* isIoOnline_: the <<context, type>> whose flag is TRUE
    inFlight,     \* operations in the kernel or in the completion queue
    shouldClose,  \* sessions whose shouldClose_ is TRUE
    sslFreed,     \* sessions whose Ssl (and BIOs) SSL_free has released
    socketClosed, \* sessions whose Socket closesocket has closed
    readers,      \* threads that own sessionsMutex_ shared
    writer,       \* the thread that owns sessionsMutex_ exclusively
    waiters,      \* threads queued on sessionsMutex_ for exclusive ownership
    pc, ctx, io, ok,
    dispatched,   \* Msg_Cts pushed to an actor, per context
    gone,         \* Msg_SessionDisconnected pushed to an actor, per context
    faults        \* undefined behaviour met so far

sessionVars == <<created, sessions, destroyed>>
ioVars      == <<isIoOnline, inFlight>>
closeVars   == <<shouldClose, sslFreed, socketClosed>>
lockVars    == <<readers, writer, waiters>>
actorVars   == <<dispatched, gone>>
vars == <<sessionVars, ioVars, closeVars, lockVars, pc, ctx, io, ok,
          actorVars, faults>>

Faults == {"SslAfterFree", "SessionAfterErase", "MapRace", "RecursiveLock"}

Init ==
    /\ created = {} /\ sessions = {} /\ destroyed = {}
    /\ isIoOnline = {} /\ inFlight = {}
    /\ shouldClose = {} /\ sslFreed = {} /\ socketClosed = {}
    /\ readers = {} /\ writer = NoThread /\ waiters = {}
    /\ pc = [t \in Threads |-> "idle"]
    /\ ctx = [t \in Threads |-> NoContext]
    /\ io = [t \in Threads |-> "None"]
    /\ ok = [t \in Threads |-> TRUE]
    /\ dispatched = [c \in Contexts |-> 0]
    /\ gone = [c \in Contexts |-> 0]
    /\ faults = {}

-----------------------------------------------------------------------------
(* Control of one thread.                                                  *)

At(t, label) == pc[t] = label

Goto(t, label) == /\ pc' = [pc EXCEPT ![t] = label]
                  /\ UNCHANGED <<ctx, io>>

Begin(t, label, c, kind) == /\ pc' = [pc EXCEPT ![t] = label]
                            /\ ctx' = [ctx EXCEPT ![t] = c]
                            /\ io' = [io EXCEPT ![t] = kind]

End(t) == Begin(t, "idle", NoContext, "None")

\* A dereference of the session ctx[t] points to.
Deref(t) ==
    faults' = faults \cup
        (IF ctx[t] \in destroyed THEN {"SessionAfterErase"} ELSE {})

\* The same, and a use of its Ssl or of one of its BIOs.
DerefSsl(t) ==
    faults' = faults
        \cup (IF ctx[t] \in destroyed THEN {"SessionAfterErase"} ELSE {})
        \cup (IF ctx[t] \in sslFreed THEN {"SslAfterFree"} ELSE {})

(* sessionsMutex_, a std::shared_mutex on an SRW lock: a request for shared *)
(* ownership waits while another thread is queued for the exclusive one.    *)

CanLockShared == writer = NoThread /\ waiters = {}
CanLockExclusive == writer = NoThread /\ readers = {}

LockShared(t) == /\ CanLockShared
                 /\ readers' = readers \cup {t}
                 /\ UNCHANGED <<writer, waiters>>

UnlockShared(t) == /\ readers' = readers \ {t}
                   /\ UNCHANGED <<writer, waiters>>

LockExclusive(t) == /\ CanLockExclusive
                    /\ writer' = t
                    /\ waiters' = waiters \ {t}
                    /\ UNCHANGED readers

UnlockExclusive == /\ writer' = NoThread
                   /\ UNCHANGED <<readers, waiters>>

\* The lock is owned: the thread that wants it exclusively is queued.
AwaitExclusive(t) ==
    /\ pc[t] \in {"emplaceLock", "clnLock"}
    /\ ~CanLockExclusive /\ t \notin waiters
    /\ waiters' = waiters \cup {t}
    /\ UNCHANGED <<sessionVars, ioVars, closeVars, readers, writer, pc, ctx, io,
                   ok, actorVars, faults>>

-----------------------------------------------------------------------------
(* PostAccept.  SSL_accept runs on a blocking socket: how long the worker  *)
(* stays in the handshake is up to the client.                             *)

BeginAccept(w) ==
    /\ At(w, "idle")
    /\ Begin(w, "handshake", NoContext, "Accept")
    /\ UNCHANGED <<sessionVars, ioVars, closeVars, lockVars, ok, actorVars,
                   faults>>

\* The handshake fails, or the client has no printable address.
AcceptFails(w) ==
    /\ At(w, "handshake")
    /\ End(w)
    /\ UNCHANGED <<sessionVars, ioVars, closeVars, lockVars, ok, actorVars,
                   faults>>

TakeContext(w, c) ==
    /\ At(w, "handshake") /\ c \notin created
    /\ created' = created \cup {c}
    /\ Begin(w, "emplaceLock", c, "Accept")
    /\ UNCHANGED <<sessions, destroyed, ioVars, closeVars, lockVars, ok,
                   actorVars, faults>>

EmplaceLock(w) ==
    /\ At(w, "emplaceLock")
    /\ LockExclusive(w)
    /\ Goto(w, "emplace")
    /\ UNCHANGED <<sessionVars, ioVars, closeVars, ok, actorVars, faults>>

Emplace(w) ==
    /\ At(w, "emplace")
    /\ sessions' = sessions \cup {ctx[w]}
    /\ UnlockExclusive
    /\ Goto(w, "beginReceive")
    /\ UNCHANGED <<created, destroyed, ioVars, closeVars, ok, actorVars,
                   faults>>

-----------------------------------------------------------------------------
(* GetQueuedCompletionStatus.                                              *)

\* A completion that succeeded; InitiateSend is posted by hand and always is.
Dequeue(w, c, ty) ==
    /\ At(w, "idle") /\ <<c, ty>> \in inFlight
    /\ inFlight' = inFlight \ {<<c, ty>>}
    /\ Begin(w, "enter", c, ty)
    /\ UNCHANGED <<sessionVars, isIoOnline, closeVars, lockVars, ok,
                   actorVars, faults>>

DequeueFailed(w, c, ty) ==
    /\ At(w, "idle") /\ <<c, ty>> \in inFlight /\ ty # "InitiateSend"
    /\ inFlight' = inFlight \ {<<c, ty>>}
    /\ Begin(w, "ioFailed", c, ty)
    /\ UNCHANGED <<sessionVars, isIoOnline, closeVars, lockVars, ok,
                   actorVars, faults>>

\* Mutant: the failed completion clears its flag and leaves the cleanup to others.
PostIoFailedNoCleanup(w) ==
    /\ At(w, "ioFailed")
    /\ isIoOnline' = isIoOnline \ {<<ctx[w], io[w]>>}
    /\ Deref(w)
    /\ End(w)
    /\ UNCHANGED <<sessionVars, inFlight, closeVars, lockVars, ok, actorVars>>

\* Session::PostIoFailed
PostIoFailed(w) ==
    /\ At(w, "ioFailed")
    /\ isIoOnline' = isIoOnline \ {<<ctx[w], io[w]>>}
    /\ Deref(w)
    /\ Goto(w, "clnBarrier")
    /\ UNCHANGED <<sessionVars, inFlight, closeVars, lockVars, ok, actorVars>>

\* PostReceive, PostSend and the InitiateSend branch take sessionsMutex_
\* shared, then TryPostReceive, TryPostSend or PostInitiateSend clears the flag.
Enter(w) ==
    /\ At(w, "enter")
    /\ LockShared(w)
    /\ isIoOnline' = isIoOnline \ {<<ctx[w], io[w]>>}
    /\ Deref(w)
    /\ Goto(w, IF io[w] = "Receive" THEN "processReceive" ELSE "beginSend")
    /\ UNCHANGED <<sessionVars, inFlight, closeVars, ok, actorVars>>

-----------------------------------------------------------------------------
(* Receiving: TryPostReceive, TryReceiveAsync and PostReceive.             *)

\* What follows a TryReceiveAsync that returned r.
AfterReceive(w, r) ==
    IF io[w] = "Receive"
    THEN Goto(w, "dispatch") /\ ok' = [ok EXCEPT ![w] = r]
    ELSE /\ IF r THEN End(w) ELSE Goto(w, "clnBarrier")
         /\ UNCHANGED ok

\* Both loops of TryPostReceive use the Ssl.
ProcessReceiveBuffers(w) ==
    /\ At(w, "processReceive")
    /\ DerefSsl(w)
    /\ \/ Goto(w, "beginReceive") /\ UNCHANGED ok
       \/ AfterReceive(w, FALSE)        \* Failed, or no bytes were received
    /\ UNCHANGED <<sessionVars, ioVars, closeVars, lockVars, actorVars>>

\* Mutant: the flag is indexed by the completion at hand instead of IoType_Receive.
BeginReceiveWrongFlag(w) ==
    /\ At(w, "beginReceive")
    /\ Deref(w)
    /\ IF <<ctx[w], io[w]>> \in isIoOnline \/ ctx[w] \in shouldClose
       THEN AfterReceive(w, FALSE) /\ UNCHANGED isIoOnline
       ELSE /\ isIoOnline' = isIoOnline \cup {<<ctx[w], io[w]>>}
            /\ Goto(w, "wsaRecv")
            /\ UNCHANGED ok
    /\ UNCHANGED <<sessionVars, inFlight, closeVars, lockVars, actorVars>>

\* The test and set of TryReceiveAsync under ioOperationMutexes_[Receive].
BeginReceive(w) ==
    /\ At(w, "beginReceive")
    /\ Deref(w)
    /\ IF <<ctx[w], "Receive">> \in isIoOnline \/ ctx[w] \in shouldClose
       THEN AfterReceive(w, FALSE) /\ UNCHANGED isIoOnline
       ELSE /\ isIoOnline' = isIoOnline \cup {<<ctx[w], "Receive">>}
            /\ Goto(w, "wsaRecv")
            /\ UNCHANGED ok
    /\ UNCHANGED <<sessionVars, inFlight, closeVars, lockVars, actorVars>>

\* Mutant: a WSARecv that fails leaves the flag TRUE.
WsaRecvKeepsFlag(w) ==
    /\ At(w, "wsaRecv")
    /\ Deref(w)
    /\ \/ /\ ctx[w] \notin socketClosed
          /\ inFlight' = inFlight \cup {<<ctx[w], "Receive">>}
          /\ AfterReceive(w, TRUE)
       \/ AfterReceive(w, FALSE) /\ UNCHANGED inFlight
    /\ UNCHANGED <<sessionVars, isIoOnline, closeVars, lockVars, actorVars>>

WsaRecv(w) ==
    /\ At(w, "wsaRecv")
    /\ Deref(w)
    /\ \/ /\ ctx[w] \notin socketClosed
          /\ inFlight' = inFlight \cup {<<ctx[w], "Receive">>}
          /\ AfterReceive(w, TRUE)
          /\ UNCHANGED isIoOnline
       \/ /\ isIoOnline' = isIoOnline \ {<<ctx[w], "Receive">>}
          /\ AfterReceive(w, FALSE)     \* the ring is full, or WSARecv failed
          /\ UNCHANGED inFlight
    /\ UNCHANGED <<sessionVars, closeVars, lockVars, actorVars>>

\* One turn of the loop of PostReceive over the complete messages.
Dispatch(w) ==
    /\ At(w, "dispatch") /\ dispatched[ctx[w]] < MaxDispatch
    /\ dispatched' = [dispatched EXCEPT ![ctx[w]] = @ + 1]
    /\ Deref(w)
    /\ UNCHANGED <<sessionVars, ioVars, closeVars, lockVars, pc, ctx, io, ok,
                   gone>>

LeavePostReceive(w) ==
    /\ At(w, "dispatch")
    /\ UnlockShared(w)
    /\ Deref(w)
    /\ IF ok[w] THEN End(w) ELSE Goto(w, "clnBarrier")
    /\ ok' = [ok EXCEPT ![w] = TRUE]
    /\ UNCHANGED <<sessionVars, ioVars, closeVars, actorVars>>

-----------------------------------------------------------------------------
(* Sending: TrySendAsync, as PostSend and the InitiateSend branch call it. *)

\* Mutant: the InitiateSend branch never gives its shared lock back.
AfterSendKeepsLock(w, r) ==
    /\ IF r THEN End(w) ELSE Goto(w, "clnBarrier")
    /\ IF io[w] = "InitiateSend" THEN UNCHANGED lockVars ELSE UnlockShared(w)

\* What follows a TrySendAsync that returned r.  PostSend's lambda releases
\* sessionsMutex_ before the cleanup; the InitiateSend branch holds it across.
AfterSend(w, r) ==
    IF r THEN UnlockShared(w) /\ End(w)
    ELSE /\ IF io[w] = "InitiateSend" THEN UNCHANGED lockVars
            ELSE UnlockShared(w)
         /\ Goto(w, "clnBarrier")

\* The block of TrySendAsync under ioOperationMutexes_[Send].
BeginSend(w) ==
    /\ At(w, "beginSend")
    /\ Deref(w)
    /\ IF <<ctx[w], "Send">> \in isIoOnline
       THEN AfterSend(w, TRUE) /\ UNCHANGED isIoOnline
       ELSE IF ctx[w] \in shouldClose
       THEN AfterSend(w, FALSE) /\ UNCHANGED isIoOnline
       ELSE \/ AfterSend(w, TRUE) /\ UNCHANGED isIoOnline  \* nothing to send
            \/ /\ isIoOnline' = isIoOnline \cup {<<ctx[w], "Send">>}
               /\ Goto(w, "processSend")
               /\ UNCHANGED lockVars
    /\ UNCHANGED <<sessionVars, inFlight, closeVars, ok, actorVars>>

ProcessSendBuffers(w) ==
    /\ At(w, "processSend")
    /\ DerefSsl(w)
    /\ Goto(w, "wsaSend")
    /\ UNCHANGED <<sessionVars, ioVars, closeVars, lockVars, ok, actorVars>>

\* WSASend starts the operation, or the flag is cleared because the buffers
\* could not be processed or WSASend failed.
WsaSend(w) ==
    /\ At(w, "wsaSend")
    /\ Deref(w)
    /\ \/ /\ ctx[w] \notin socketClosed
          /\ inFlight' = inFlight \cup {<<ctx[w], "Send">>}
          /\ AfterSend(w, TRUE)
          /\ UNCHANGED isIoOnline
       \/ /\ isIoOnline' = isIoOnline \ {<<ctx[w], "Send">>}
          /\ AfterSend(w, FALSE)
          /\ UNCHANGED inFlight
    /\ UNCHANGED <<sessionVars, closeVars, ok, actorVars>>

-----------------------------------------------------------------------------
(* SessionCleanupRoutine, run by workers and by DisconnectSession.         *)

\* The end of the routine; the InitiateSend branch then drops its lock.
Return(t) == UnlockShared(t) /\ End(t)

\* The empty scope of a shared_lock: it waits for an exclusive owner, and for
\* those queued to be one.  In the InitiateSend branch the thread already owns
\* the lock shared.
CleanupBarrier(t) ==
    /\ At(t, "clnBarrier")
    /\ CanLockShared
    /\ faults' = faults \cup (IF t \in readers THEN {"RecursiveLock"} ELSE {})
    /\ Goto(t, "clnFind")
    /\ UNCHANGED <<sessionVars, ioVars, closeVars, lockVars, ok, actorVars>>

\* sessions_.find without a lock: while another thread emplaces or erases,
\* it may give either answer.
CleanupFind(t) ==
    /\ At(t, "clnFind")
    /\ faults' = faults \cup (IF writer = NoThread THEN {} ELSE {"MapRace"})
    /\ \/ /\ ctx[t] \in sessions \/ writer # NoThread
          /\ Goto(t, "clnClose")
          /\ UNCHANGED lockVars
       \/ /\ ctx[t] \notin sessions \/ writer # NoThread
          /\ Return(t)
    /\ UNCHANGED <<sessionVars, ioVars, closeVars, ok, actorVars>>

\* Session::Cleanup, first statement: shouldClose_.exchange(true).
CleanupClose(t) ==
    /\ At(t, "clnClose")
    /\ Deref(t)
    /\ shouldClose' = shouldClose \cup {ctx[t]}
    /\ Goto(t, IF ctx[t] \in shouldClose THEN "clnCheck" ELSE "clnSsl")
    /\ UNCHANGED <<sessionVars, ioVars, sslFreed, socketClosed, lockVars, ok,
                   actorVars>>

CleanupSsl(t) ==
    /\ At(t, "clnSsl")
    /\ Deref(t)
    /\ sslFreed' = sslFreed \cup {ctx[t]}
    /\ Goto(t, "clnSocket")
    /\ UNCHANGED <<sessionVars, ioVars, shouldClose, socketClosed, lockVars,
                   ok, actorVars>>

CleanupSocket(t) ==
    /\ At(t, "clnSocket")
    /\ Deref(t)
    /\ socketClosed' = socketClosed \cup {ctx[t]}
    /\ Goto(t, "clnCheck")
    /\ UNCHANGED <<sessionVars, ioVars, shouldClose, sslFreed, lockVars, ok,
                   actorVars>>

\* Mutant: Close looks at the two send flags only.
SendOffline(c) == \A ty \in {"Send", "InitiateSend"} : <<c, ty>> \notin isIoOnline

AllOffline(c) == \A ty \in IoTypes : <<c, ty>> \notin isIoOnline

\* Session::Close, the result under the three ioOperationMutexes_.
CleanupCheck(t) ==
    /\ At(t, "clnCheck")
    /\ Deref(t)
    /\ IF AllOffline(ctx[t]) THEN Goto(t, "clnLock") /\ UNCHANGED lockVars
       ELSE Return(t)
    /\ UNCHANGED <<sessionVars, ioVars, closeVars, ok, actorVars>>

\* Mutant: the session is erased without waiting for the owners of shared locks.
CleanupLockOverReaders(t) ==
    /\ At(t, "clnLock")
    /\ writer = NoThread /\ writer' = t /\ waiters' = waiters \ {t}
    /\ Goto(t, "clnErase")
    /\ UNCHANGED <<sessionVars, ioVars, closeVars, readers, ok, actorVars, faults>>

CleanupLock(t) ==
    /\ At(t, "clnLock")
    /\ LockExclusive(t)
    /\ Goto(t, "clnErase")
    /\ UNCHANGED <<sessionVars, ioVars, closeVars, ok, actorVars, faults>>

\* Mutant: the result of the first find is trusted under the lock.
CleanupEraseUnchecked(t) ==
    /\ At(t, "clnErase")
    /\ UnlockExclusive
    /\ sessions' = sessions \ {ctx[t]}
    /\ destroyed' = destroyed \cup {ctx[t]}
    /\ Goto(t, "clnNotify")
    /\ UNCHANGED <<created, ioVars, closeVars, ok, actorVars, faults>>

\* The second find, under the lock: only the thread that still finds the
\* session erases it and reports it.
CleanupErase(t) ==
    /\ At(t, "clnErase")
    /\ UnlockExclusive
    /\ sessions' = sessions \ {ctx[t]}
    /\ IF ctx[t] \in sessions
       THEN destroyed' = destroyed \cup {ctx[t]} /\ Goto(t, "clnNotify")
       ELSE End(t) /\ UNCHANGED destroyed
    /\ UNCHANGED <<created, ioVars, closeVars, ok, actorVars, faults>>

CleanupNotify(t) ==
    /\ At(t, "clnNotify")
    /\ gone' = [gone EXCEPT ![ctx[t]] = @ + 1]
    /\ Return(t)
    /\ UNCHANGED <<sessionVars, ioVars, closeVars, ok, dispatched, faults>>

Cleanup(t) ==
    \/ CleanupBarrier(t) \/ CleanupFind(t) \/ CleanupClose(t)
    \/ CleanupSsl(t) \/ CleanupSocket(t) \/ CleanupCheck(t)
    \/ CleanupLock(t) \/ CleanupErase(t) \/ CleanupNotify(t)

-----------------------------------------------------------------------------
(* What actors call.  An actor knows a context from a Msg_Cts only.        *)

\* The message itself always fits the queue; what matters here is whether it
\* posts an InitiateSend completion.  shouldClose_ is not looked at.
SendMessageTo(a, c) ==
    /\ At(a, "idle") /\ dispatched[c] > 0 /\ CanLockShared
    /\ c \in sessions /\ <<c, "InitiateSend">> \notin isIoOnline
    /\ isIoOnline' = isIoOnline \cup {<<c, "InitiateSend">>}
    /\ inFlight' = inFlight \cup {<<c, "InitiateSend">>}
    /\ UNCHANGED <<sessionVars, closeVars, lockVars, pc, ctx, io, ok,
                   actorVars, faults>>

DisconnectSession(a, c) ==
    /\ At(a, "idle") /\ dispatched[c] > 0
    /\ Begin(a, "clnBarrier", c, "Api")
    /\ UNCHANGED <<sessionVars, ioVars, closeVars, lockVars, ok, actorVars,
                   faults>>

-----------------------------------------------------------------------------
\* A worker handling the completion it has taken.
Handle(w) ==
    \/ EmplaceLock(w) \/ Emplace(w) \/ PostIoFailed(w) \/ Enter(w)
    \/ ProcessReceiveBuffers(w) \/ BeginReceive(w) \/ WsaRecv(w)
    \/ LeavePostReceive(w)
    \/ BeginSend(w) \/ ProcessSendBuffers(w) \/ WsaSend(w)

TakeCompletion(c, ty) ==
    \E w \in Workers : Dequeue(w, c, ty) \/ DequeueFailed(w, c, ty)

Next ==
    \/ \E w \in Workers : Handle(w) \/ Dispatch(w)
    \/ \E w \in Workers : BeginAccept(w) \/ AcceptFails(w)
    \/ \E w \in Workers, c \in Contexts : TakeContext(w, c)
    \/ \E c \in Contexts, ty \in IoTypes : TakeCompletion(c, ty)
    \/ \E t \in Threads : Cleanup(t) \/ AwaitExclusive(t)
    \/ \E a \in Actors, c \in Contexts :
            SendMessageTo(a, c) \/ DisconnectSession(a, c)

Spec == Init /\ [][Next]_vars

(* The operating system runs every thread, which takes the SRW lock if the *)
(* lock stays free for it; a closed socket completes what is pending on    *)
(* it, and the completion queue hands each completion to a worker that     *)
(* asks for one, time and again.  New clients, the end of a handshake,     *)
(* messages and calls of the actors are under no obligation.               *)
Fairness ==
    /\ \A w \in Workers : WF_vars(Handle(w) \/ Cleanup(w) \/ AwaitExclusive(w))
    /\ \A a \in Actors : WF_vars(Cleanup(a) \/ AwaitExclusive(a))
    /\ \A c \in Contexts, ty \in IoTypes : SF_vars(TakeCompletion(c, ty))

FairSpec == Spec /\ Fairness
-----------------------------------------------------------------------------
(* Properties.                                                             *)

TypeOK ==
    /\ created \subseteq Contexts
    /\ sessions \subseteq Contexts
    /\ destroyed \subseteq Contexts
    /\ isIoOnline \subseteq Contexts \X IoTypes
    /\ inFlight \subseteq Contexts \X IoTypes
    /\ shouldClose \subseteq Contexts
    /\ sslFreed \subseteq Contexts
    /\ socketClosed \subseteq Contexts
    /\ readers \subseteq Threads
    /\ writer \in Threads \cup {NoThread}
    /\ waiters \subseteq Threads
    /\ pc \in [Threads -> Pcs]
    /\ ctx \in [Threads -> Contexts \cup {NoContext}]
    /\ io \in [Threads -> Kinds]
    /\ ok \in [Threads -> BOOLEAN]
    /\ dispatched \in [Contexts -> Nat]
    /\ gone \in [Contexts -> Nat]
    /\ faults \subseteq Faults

\* The thread t is between taking a completion of the operation and clearing
\* its flag, or between setting the flag and starting the operation.
Owns(t, c, ty) ==
    /\ ctx[t] = c
    /\ \/ pc[t] \in {"enter", "ioFailed"} /\ io[t] = ty
       \/ pc[t] = "wsaRecv" /\ ty = "Receive"
       \/ pc[t] \in {"processSend", "wsaSend"} /\ ty = "Send"

Online(c, ty) == <<c, ty>> \in isIoOnline
Pending(c, ty) == <<c, ty>> \in inFlight

\* A flag of isIoOnline_ is TRUE exactly while its operation is pending or one
\* thread is starting or completing it: no OVERLAPPED is reused while the
\* kernel has it, and no flag is left TRUE with nobody to clear it (which
\* would keep Close from ever returning true).  Session.cpp: TryReceiveAsync,
\* TryPostReceive, TrySendAsync, TryPostSend, PostIoFailed.
FlagHasOneOwner ==
    \A c \in Contexts, ty \in IoTypes :
        /\ Pending(c, ty) => Online(c, ty)
        /\ Online(c, ty) => Pending(c, ty) \/ \E t \in Threads : Owns(t, c, ty)
        /\ \A t \in Threads : Owns(t, c, ty) =>
              /\ Online(c, ty) /\ ~Pending(c, ty)
              /\ \A u \in Threads : Owns(u, c, ty) => u = t

\* When the destructor of a session has run, no Send or Receive that uses its
\* buffers and its OVERLAPPED is pending.  Session::Close, and the order of
\* shouldClose_ and the flags in TryReceiveAsync and TrySendAsync.
IoNeverOutlivesSession ==
    \A c \in destroyed : ~Pending(c, "Send") /\ ~Pending(c, "Receive")

\* A worker that serves an accept, a Receive or a Send never has its session
\* destroyed under it; PostAccept relies on it without taking sessionsMutex_.
\* NetworkServer.cpp: PostAccept, PostReceive, PostSend.
ServedSessionIsAlive ==
    \A w \in Workers :
        /\ io[w] \in {"Accept", "Receive", "Send"}
        /\ pc[w] \notin CleanupPcs
        => ctx[w] \notin destroyed

(* The refinement: the actors' view of the network server.                 *)
phase == [c \in Contexts |-> IF c \in destroyed THEN "closed"
                             ELSE IF c \in sessions THEN "open" ELSE "new"]

Stream == INSTANCE SessionStream
    WITH phase <- phase, dispatched <- dispatched, gone <- gone

\* Every step of the threads is a step of SessionStream or invisible to the
\* actors: no Msg_Cts follows Msg_SessionDisconnected, which is pushed once
\* however many workers and actors clean up one session at the same time.
\* NetworkServer.cpp: PostReceive, SessionCleanupRoutine.
ImplementsSessionStream == Stream!Spec

\* A worker in the InitiateSend branch still owns the shared lock when
\* SessionCleanupRoutine asks for it again, behind a thread that is queued for
\* the exclusive one, or asks for the exclusive one itself
\* (NetworkServer.cpp:179-184, 331 and 341): the wait has no end.
SelfDeadlock ==
    \E t \in readers : At(t, "clnLock") \/ (At(t, "clnBarrier") /\ waiters # {})

\* A thread has used a session, its Ssl or the map when it must not.
BadAccess == faults \cap {"SslAfterFree", "SessionAfterErase", "MapRace"} # {}

SendsNeverStop(c) == []<><<\E a \in Actors : SendMessageTo(a, c)>>_vars

\* In the end every worker is in a handshake that its client does not finish.
AllInHandshake == <>[](\A w \in Workers : At(w, "handshake"))

\* Once shouldClose_ is set, the owner of the session is told in the end,
\* whichever thread clears the last flag.  The exceptions are what the code
\* does not rule out: actors that never stop sending to the context
\* (InitiateSendAsync does not look at shouldClose_, so each send can set a
\* flag again before Close looks at it), clients that hold every worker in
\* SSL_accept, a worker that has deadlocked on itself, and undefined behaviour.
\* (None of these predicates on the state is ever left again, so "again and
\* again, closing implies reported" says that the one leads to the other.)
\* NetworkServer.cpp: SessionCleanupRoutine and all its callers.
ClosingSessionIsReported ==
    \A c \in Contexts :
        \/ SendsNeverStop(c) \/ AllInHandshake
        \/ []<>(c \in shouldClose => gone[c] = 1 \/ SelfDeadlock \/ BadAccess)

\* No thread waits for ever for sessionsMutex_ exclusively, to accept a
\* connection or to erase a session: every other owner releases it, except a
\* worker that has deadlocked on itself.
\* NetworkServer.cpp: PostAccept, SessionCleanupRoutine.
ExclusiveLockIsGranted ==
    \A t \in Threads :
        []<>(pc[t] \notin {"emplaceLock", "clnLock"} \/ SelfDeadlock)

-----------------------------------------------------------------------------
(* What the repository says of the program and the code does not do.       *)

\* The README lists the exchange of messages between the network server and
\* the main server as complete: no worker may stop serving for good.
NoSelfDeadlock == ~SelfDeadlock

\* "A session that has ended and is gone is a normal case", says the network
\* interface of the calls about one, and CRASH_COND(decryptableSize !=
\* BIO_write(ReadBio, ...)) asserts that the BIO of a session being served takes
\* the bytes: nobody uses a session that is erased, nor an Ssl that is freed.
NoUseAfterFree == {"SslAfterFree", "SessionAfterErase"} \cap faults = {}
=============================================================================
