---------------------------- MODULE ActorMailbox ----------------------------
(***************************************************************************)
(* The mailbox of one actor: Actor::PushMessage, called by any thread, and *)
(* Actor::Run, called by one game thread at a time (MainServerRounds).     *)
(* Pushers append to one of two vectors under pushMutex_; Run exchanges    *)
(* the vectors under the mutex and goes through the other one without it.  *)
(*                                                                         *)
(* A cell whose unique_ptr has been moved out holds Moved.                 *)
(***************************************************************************)
EXTENDS Integers, Sequences

CONSTANTS Pushers,   \* the threads that send messages to the actor
          Messages,  \* the messages they send, each once
          NoThread,  \* pushMutex_ is free
          Moved      \* a null unique_ptr

ASSUME MailboxAssumption == NoThread \notin Pushers /\ Moved \notin Messages

Vectors == {0, 1}

VARIABLES
    messageQueue, \* messageQueue_, the two vectors
    pushIndex,    \* pushIndex_
    pushMutex,    \* the pusher that owns pushMutex_
    unsent,       \* messages nobody has pushed yet
    holding,      \* the message argument of each pusher inside PushMessage
    target,       \* the vector it has read from pushIndex_
    runPc,        \* the statement Run is about to execute
    cursor,       \* iterator of the loop of Run
    handled       \* messages given to the handlers

pushVars == <<pushMutex, unsent, holding, target>>
runVars  == <<runPc, cursor, handled>>
vars == <<messageQueue, pushIndex, pushVars, runVars>>

RunPcs == {"idle", "swap", "loop", "clear"}

Init ==
    /\ messageQueue = [v \in Vectors |-> <<>>]
    /\ pushIndex = 0
    /\ pushMutex = NoThread
    /\ unsent = Messages
    /\ holding = [p \in Pushers |-> Moved]
    /\ target = [p \in Pushers |-> 0]
    /\ runPc = "idle"
    /\ cursor = 1
    /\ handled = <<>>

Drained == 1 - pushIndex    \* the vector Run looks at

-----------------------------------------------------------------------------
(* Actor::PushMessage.                                                     *)

\* The lock, and the evaluation of messageQueue_[pushIndex_].
PushLock(p, m) ==
    /\ pushMutex = NoThread /\ m \in unsent
    /\ pushMutex' = p
    /\ unsent' = unsent \ {m}
    /\ holding' = [holding EXCEPT ![p] = m]
    /\ target' = [target EXCEPT ![p] = pushIndex]
    /\ UNCHANGED <<messageQueue, pushIndex, runVars>>

\* emplace_back, and the end of the scope of the lock.
PushEmplace(p) ==
    /\ pushMutex = p
    /\ messageQueue' = [messageQueue EXCEPT ![target[p]] =
                            Append(@, holding[p])]
    /\ holding' = [holding EXCEPT ![p] = Moved]
    /\ pushMutex' = NoThread
    /\ UNCHANGED <<pushIndex, unsent, target, runVars>>

-----------------------------------------------------------------------------
(* Actor::Run.                                                             *)

\* Mutant: the test looks at the vector of the pushers.
RunTestPushVector ==
    /\ runPc = "idle"
    /\ runPc' = IF messageQueue[pushIndex] = <<>> THEN "swap" ELSE "loop"
    /\ cursor' = 1
    /\ UNCHANGED <<messageQueue, pushIndex, pushVars, handled>>

RunTest ==
    /\ runPc = "idle"
    /\ runPc' = IF messageQueue[Drained] = <<>> THEN "swap" ELSE "loop"
    /\ cursor' = 1
    /\ UNCHANGED <<messageQueue, pushIndex, pushVars, handled>>

\* Mutant: the vectors are exchanged without the mutex.
RunSwapUnlocked ==
    /\ runPc = "swap"
    /\ pushIndex' = 1 - pushIndex
    /\ runPc' = "loop"
    /\ UNCHANGED <<messageQueue, pushVars, cursor, handled>>

\* The block under pushMutex_.
RunSwap ==
    /\ runPc = "swap" /\ pushMutex = NoThread
    /\ pushIndex' = 1 - pushIndex
    /\ runPc' = "loop"
    /\ UNCHANGED <<messageQueue, pushVars, cursor, handled>>

\* One turn of the loop: the message moves to its handler, or to
\* OnUnknownMessageReceived.
RunHandle ==
    /\ runPc = "loop" /\ cursor =< Len(messageQueue[Drained])
    /\ handled' = Append(handled, messageQueue[Drained][cursor])
    /\ messageQueue' = [messageQueue EXCEPT ![Drained][cursor] = Moved]
    /\ cursor' = cursor + 1
    /\ UNCHANGED <<pushIndex, pushVars, runPc>>

RunLoopEnds ==
    /\ runPc = "loop" /\ cursor > Len(messageQueue[Drained])
    /\ runPc' = "clear"
    /\ UNCHANGED <<messageQueue, pushIndex, pushVars, cursor, handled>>

\* Mutant: clear is forgotten.
RunClearForgotten ==
    /\ runPc = "clear"
    /\ runPc' = "idle"
    /\ UNCHANGED <<messageQueue, pushIndex, pushVars, cursor, handled>>

\* Mutant: clear is called on the vector of the pushers.
RunClearPushVector ==
    /\ runPc = "clear"
    /\ messageQueue' = [messageQueue EXCEPT ![pushIndex] = <<>>]
    /\ runPc' = "idle"
    /\ UNCHANGED <<pushIndex, pushVars, cursor, handled>>

\* clear, and Tick, which has no part in the mailbox.
RunClear ==
    /\ runPc = "clear"
    /\ messageQueue' = [messageQueue EXCEPT ![Drained] = <<>>]
    /\ runPc' = "idle"
    /\ UNCHANGED <<pushIndex, pushVars, cursor, handled>>

Run == RunTest \/ RunSwap \/ RunHandle \/ RunLoopEnds \/ RunClear

Next == \/ \E p \in Pushers, m \in Messages : PushLock(p, m)
        \/ \E p \in Pushers : PushEmplace(p)
        \/ Run

Spec == Init /\ [][Next]_vars

(* Every thread inside PushMessage leaves it, and the round scheduler runs *)
(* the actor again and again (MainServerRounds, EveryActorRunsForever);    *)
(* the mutex, an SRW lock, is granted to Run in the end.  Nobody has to    *)
(* push a message.                                                         *)
Fairness == /\ \A p \in Pushers : WF_vars(PushEmplace(p))
            /\ SF_vars(Run)

FairSpec == Spec /\ Fairness
-----------------------------------------------------------------------------
(* Properties.                                                             *)

\* The two vectors hold messages that are not handled yet, except the part of
\* the drained one that the loop is past; no null pointer reaches a handler.
\* Actor.cpp and Actor.h.
TypeOK ==
    /\ messageQueue \in [Vectors -> Seq(Messages \cup {Moved})]
    /\ pushIndex \in Vectors
    /\ pushMutex \in Pushers \cup {NoThread}
    /\ unsent \subseteq Messages
    /\ holding \in [Pushers -> Messages \cup {Moved}]
    /\ target \in [Pushers -> Vectors]
    /\ runPc \in RunPcs
    /\ cursor \in Nat \ {0}
    /\ handled \in Seq(Messages)

\* While Run goes through a vector, no other thread is about to append to it,
\* which would invalidate the iterator or lose the message in clear().
\* Actor.cpp:10-16 read pushIndex_ and the vector without pushMutex_.
DrainedVectorIsPrivate ==
    \A p \in Pushers : pushMutex = p => target[p] = pushIndex

(* The refinement.                                                         *)
Remaining == IF runPc \in {"loop", "clear"}
             THEN SubSeq(messageQueue[Drained], cursor, Len(messageQueue[Drained]))
             ELSE messageQueue[Drained]

queue == Remaining \o messageQueue[pushIndex]

Mailbox == INSTANCE MessageQueue WITH queue <- queue, handled <- handled

\* The two vectors are one queue: every message is handled once, in the order
\* of the pushes.  Actor.cpp: Run; Actor.h: PushMessage.
ImplementsMessageQueue == Mailbox!Spec

\* A message pushed to an actor is handled, however the pushes fall between
\* the steps of Run.  Actor.cpp:8-32.
PushedMessageIsHandled ==
    \A m \in Messages :
        m \notin unsent ~> \E i \in 1..Len(handled) : handled[i] = m
=============================================================================
