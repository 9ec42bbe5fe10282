---------------------------- MODULE DbConnectionPool ----------------------------
(***************************************************************************)
(* DbConnectionPool.cpp: game threads take connections from a vector under *)
(* a mutex and a condition variable; a DbConnection gives its connection   *)
(* back when it goes out of scope.  Handlers hold one at a time.           *)
(*                                                                         *)
(* Each thread acquires MaxAcquires times: the handlers of one round.  The *)
(* next round waits for all of them.                                       *)
(***************************************************************************)
EXTENDS Naturals, FiniteSets

CONSTANTS Clients,         \* the game threads
          Connections,     \* opened by the constructor
          MaxAcquires,     \* bound: calls of Acquire by one thread
          NoConnection, NoClient

ASSUME PoolAssumption ==
    /\ IsFiniteSet(Clients) /\ IsFiniteSet(Connections)
    /\ Connections # {} /\ MaxAcquires \in Nat
    /\ NoConnection \notin Connections /\ NoClient \notin Clients

VARIABLES
    connections,   \* connections_
    poolMutex,     \* the thread that owns mutex_
    clientPc,
    connectionOf,  \* the connection of each thread
    acquires       \* its calls of Acquire

poolVars == <<connections, poolMutex, clientPc, connectionOf, acquires>>

\* A constructor that cannot open all of them aborts.
PoolInit ==
    /\ connections = Connections
    /\ poolMutex = NoClient
    /\ clientPc = [c \in Clients |-> "out"]
    /\ connectionOf = [c \in Clients |-> NoConnection]
    /\ acquires = [c \in Clients |-> 0]

In(label) == {c \in Clients : clientPc[c] = label}
GotoClient(c, label) == clientPc' = [clientPc EXCEPT ![c] = label]

Acquire(c) ==
    /\ clientPc[c] = "out" /\ acquires[c] < MaxAcquires
    /\ acquires' = [acquires EXCEPT ![c] = @ + 1]
    /\ GotoClient(c, "lock")
    /\ UNCHANGED <<connections, poolMutex, connectionOf>>

\* The mutex, at first and after a wakeup.
Lock(c) ==
    /\ clientPc[c] \in {"lock", "notified"} /\ poolMutex = NoClient
    /\ poolMutex' = c
    /\ GotoClient(c, "test")
    /\ UNCHANGED <<connections, connectionOf, acquires>>

\* The predicate of the wait: the thread leaves with a connection, or falls
\* asleep and gives up the mutex in one step.
Test(c) ==
    /\ clientPc[c] = "test"
    /\ poolMutex' = NoClient
    /\ \/ /\ connections = {}
          /\ GotoClient(c, "asleep")
          /\ UNCHANGED <<connections, connectionOf>>
       \/ /\ \E k \in connections :
                /\ connections' = connections \ {k}
                /\ connectionOf' = [connectionOf EXCEPT ![c] = k]
          /\ GotoClient(c, "holding")
    /\ UNCHANGED acquires

\* A condition variable may wake a thread for no reason.
Spurious(c) ==
    /\ clientPc[c] = "asleep"
    /\ GotoClient(c, "notified")
    /\ UNCHANGED <<connections, poolMutex, connectionOf, acquires>>

\* The end of the scope of the DbConnection: Release takes the mutex, ...
ReleaseLock(c) ==
    /\ clientPc[c] = "holding" /\ poolMutex = NoClient
    /\ poolMutex' = c
    /\ GotoClient(c, "release")
    /\ UNCHANGED <<connections, connectionOf, acquires>>

\* Mutant: the handler keeps its connection as well.
GiveBackKeeping(c) ==
    /\ connections' = connections \cup {connectionOf[c]}
    /\ UNCHANGED connectionOf

\* The destructor moves its connection into the vector.
GiveBack(c) ==
    /\ connections' = connections \cup {connectionOf[c]}
    /\ connectionOf' = [connectionOf EXCEPT ![c] = NoConnection]

\* Mutant: only a pool that was empty notifies.
NotifyIfEmpty(c) ==
    IF connections = {}
    THEN \/ /\ In("asleep") = {}
            /\ GotoClient(c, "out")
         \/ \E d \in In("asleep") :
                clientPc' = [clientPc EXCEPT ![c] = "out", ![d] = "notified"]
    ELSE GotoClient(c, "out")

\* notify_one.
Notify(c) ==
    \/ /\ In("asleep") = {}
       /\ GotoClient(c, "out")
    \/ \E d \in In("asleep") :
           clientPc' = [clientPc EXCEPT ![c] = "out", ![d] = "notified"]

\* ... puts the connection into the vector and notifies one thread.
Release(c) ==
    /\ clientPc[c] = "release"
    /\ GiveBack(c)
    /\ Notify(c)
    /\ poolMutex' = NoClient
    /\ UNCHANGED acquires

Client(c) == Acquire(c) \/ Lock(c) \/ Test(c) \/ ReleaseLock(c) \/ Release(c)

Finished ==
    /\ \A c \in Clients : clientPc[c] = "out" /\ acquires[c] = MaxAcquires
    /\ UNCHANGED poolVars

PoolNext == (\E c \in Clients : Client(c) \/ Spurious(c)) \/ Finished

\* Queries end, and the mutex, an SRW lock, is granted in the end.  Nobody
\* counts on a spurious wakeup.
PoolFairness == \A c \in Clients : /\ WF_poolVars(Client(c))
                               /\ SF_poolVars(Lock(c) \/ ReleaseLock(c))

PoolSpec == PoolInit /\ [][PoolNext]_poolVars
PoolFairSpec == PoolSpec /\ PoolFairness

-----------------------------------------------------------------------------
(* Properties.                                                             *)

\* For every connection in the pool that a sleeping thread could have, some
\* thread has been notified that has not looked yet: newcomers that take the
\* connection first do not make a wakeup disappear
\* (DbConnectionPool.cpp:27-44, 46-51).
NoWaiterIsForgotten ==
    In("asleep") # {} =>
        Cardinality(connections) =< Cardinality(In("notified") \cup In("test"))

\* A connection has one user, and none is lost (DbConnectionPool.cpp:36-43, 49;
\* DbConnection.cpp:15-18).
ConnectionHasOneUser ==
    /\ \A c, d \in Clients :
          c # d /\ connectionOf[c] # NoConnection =>
              connectionOf[c] # connectionOf[d] /\ connectionOf[c] \notin connections
    /\ Connections = connections \cup ({connectionOf[c] : c \in Clients}
                                        \ {NoConnection})

PoolIsExact == NoWaiterIsForgotten /\ ConnectionHasOneUser

\* Every Acquire returns, however few connections there are: a handler never
\* acquires a second one while it holds one (DbConnectionPool.cpp:27, A_Auth.cpp:151, 240).
AcquireReturns ==
    \A c \in Clients : clientPc[c] = "lock" ~> clientPc[c] = "holding"
=============================================================================
