------------------------------ MODULE AuthActor ------------------------------
(***************************************************************************)
(* A_Auth: the actor that registers accounts and logs contexts in.  Its    *)
(* handlers queue jobs for a background thread, which hashes passwords and *)
(* queues the finished jobs back; Tick applies those to the two maps       *)
(* between contexts and accounts, and to the database.                     *)
(*                                                                         *)
(* The actor runs in one thread (MainServerRounds), and what it is told of *)
(* a context ends with Msg_SessionDisconnected (SessionStream,             *)
(* MessageQueue).  An account stands for its name, its row and its id; a   *)
(* password is right or wrong.  Requests that fail the checks of length    *)
(* and characters are answered at once and change nothing.                 *)
(*                                                                         *)
(* No code of this commit assigns authThread_, so that nothing takes a job *)
(* from the background queue.  The model has the steps of the thread that  *)
(* AuthBackgroundThreadBody is written for, and assumes nowhere that it    *)
(* runs: with no such step, the behaviours are those of this commit.       *)
(*                                                                         *)
(* An exception of the database ends the process, and the behaviour.       *)
(***************************************************************************)
EXTENDS Naturals, Sequences

CONSTANTS Contexts, Accounts,
          InvalidId,       \* LoginJob::InvalidId
          MaxRequests      \* bound: requests of the clients

ASSUME AuthAssumption ==
    /\ InvalidId \notin Accounts
    /\ MaxRequests \in Nat

Requests == 1..MaxRequests

\* A request and what the background thread adds to it.
Jobs == [kind : {"Login", "Register"}, request : Requests,
         Context : Contexts, Id : Accounts \cup {InvalidId},
         right : BOOLEAN, isPasswordMatch : BOOLEAN]

VARIABLES
    gone,          \* contexts whose Msg_SessionDisconnected has been handled
    contextIdMap,  \* contextIdMap_, a set of pairs <<context, id>>
    idContextMap,  \* idContextMap_, a set of pairs <<id, context>>
    authJobBackgroundQueue, authJobForegroundQueue,
    authThreadJob, \* the job the background thread works on, or <<>>
    creatingJob,   \* the job between the SELECT and the INSERT, or <<>>
    rows,          \* player.accounts: the number of rows of each account
    actorPc,       \* "messages", "tick" or "insert"
    issued,        \* requests so far
    refused,       \* requests that were answered without a job
    answered       \* requests whose job Tick has answered

maps   == <<contextIdMap, idContextMap>>
queues == <<authJobBackgroundQueue, authJobForegroundQueue, authThreadJob,
            creatingJob>>
vars == <<gone, maps, queues, rows, actorPc, issued, refused, answered>>

Init ==
    /\ gone = {}
    /\ contextIdMap = {} /\ idContextMap = {}
    /\ authJobBackgroundQueue = <<>> /\ authJobForegroundQueue = <<>>
    /\ authThreadJob = <<>> /\ creatingJob = <<>>
    /\ rows \in [Accounts -> {0, 1}]
    /\ actorPc = "messages"
    /\ issued = 0 /\ refused = {} /\ answered = {}

LoggedIn(c) == \E id \in Accounts : <<c, id>> \in contextIdMap
Online(id)  == \E c \in Contexts : <<id, c>> \in idContextMap

-----------------------------------------------------------------------------
(* The handlers.                                                           *)

Request(c) == /\ actorPc = "messages" /\ c \notin gone
              /\ issued < MaxRequests
              /\ issued' = issued + 1

OnRegisterRequest(c, a) ==
    /\ Request(c)
    /\ authJobBackgroundQueue' = Append(authJobBackgroundQueue,
            [kind |-> "Register", request |-> issued + 1, Context |-> c,
             Id |-> a, right |-> TRUE, isPasswordMatch |-> FALSE])
    /\ UNCHANGED <<gone, maps, authJobForegroundQueue, authThreadJob,
                   creatingJob, rows, actorPc, refused, answered>>

\* A context that is logged in is notified and disconnected instead.
OnLoginRequest(c, a, right) ==
    /\ Request(c)
    /\ IF LoggedIn(c)
       THEN /\ refused' = refused \cup {issued + 1}
            /\ UNCHANGED authJobBackgroundQueue
       ELSE /\ authJobBackgroundQueue' = Append(authJobBackgroundQueue,
                  [kind |-> "Login", request |-> issued + 1, Context |-> c,
                   Id |-> IF rows[a] > 0 THEN a ELSE InvalidId,
                   right |-> right, isPasswordMatch |-> FALSE])
            /\ UNCHANGED refused
    /\ UNCHANGED <<gone, maps, authJobForegroundQueue, authThreadJob,
                   creatingJob, rows, actorPc, answered>>

\* Mutant: the account stays in idContextMap_.
OnDisconnectedKeepsId(c) ==
    /\ actorPc = "messages" /\ c \notin gone
    /\ gone' = gone \cup {c}
    /\ contextIdMap' = {p \in contextIdMap : p[1] # c}
    /\ UNCHANGED <<idContextMap, queues, rows, actorPc, issued, refused,
                   answered>>

\* Handle(Msg_SessionDisconnected).
OnDisconnected(c) ==
    /\ actorPc = "messages" /\ c \notin gone
    /\ gone' = gone \cup {c}
    /\ contextIdMap' = {p \in contextIdMap : p[1] # c}
    /\ idContextMap' = {p \in idContextMap : <<c, p[1]>> \notin contextIdMap}
    /\ UNCHANGED <<queues, rows, actorPc, issued, refused, answered>>

\* The mailbox is empty: Actor::Run calls Tick.
EndOfMessages ==
    /\ actorPc = "messages"
    /\ actorPc' = "tick"
    /\ UNCHANGED <<gone, maps, queues, rows, issued, refused, answered>>

-----------------------------------------------------------------------------
(* AuthBackgroundThreadBody.                                               *)

TakeJob ==
    /\ authThreadJob = <<>> /\ authJobBackgroundQueue # <<>>
    /\ authThreadJob' = <<Head(authJobBackgroundQueue)>>
    /\ authJobBackgroundQueue' = Tail(authJobBackgroundQueue)
    /\ UNCHANGED <<gone, maps, authJobForegroundQueue, creatingJob, rows,
                   actorPc, issued, refused, answered>>

\* Mutant: the password of an unknown account counts.
ExecutedForUnknownId(job) ==
    [job EXCEPT !.isPasswordMatch = job.kind = "Login" /\ job.right]

\* ExecuteBackgroundJob of both kinds of job.
Executed(job) ==
    [job EXCEPT !.isPasswordMatch =
        job.kind = "Login" /\ job.right /\ job.Id # InvalidId]

\* Mutant: the finished job is put before those that still wait for Tick.
FinishJobFirst ==
    /\ authThreadJob # <<>>
    /\ authJobForegroundQueue' =
            <<Executed(authThreadJob[1])>> \o authJobForegroundQueue
    /\ authThreadJob' = <<>>
    /\ UNCHANGED <<gone, maps, authJobBackgroundQueue, creatingJob, rows,
                   actorPc, issued, refused, answered>>

FinishJob ==
    /\ authThreadJob # <<>>
    /\ authJobForegroundQueue' =
            Append(authJobForegroundQueue, Executed(authThreadJob[1]))
    /\ authThreadJob' = <<>>
    /\ UNCHANGED <<gone, maps, authJobBackgroundQueue, creatingJob, rows,
                   actorPc, issued, refused, answered>>

-----------------------------------------------------------------------------
(* Tick.                                                                   *)

\* Neither DuplicateContext nor IdAlreadyOnline.
MayLogIn(job) == ~LoggedIn(job.Context) /\ ~Online(job.Id)

\* The job is answered; Tick goes on with the queue, or returns.
Answer(job, goesOn) ==
    /\ answered' = answered \cup {job.request}
    /\ actorPc' = IF goesOn THEN "tick" ELSE "messages"

\* Only a wrong password ends Tick.
TickLogin(job) ==
    /\ job.kind = "Login"
    /\ IF job.isPasswordMatch /\ MayLogIn(job)
       THEN /\ contextIdMap' = contextIdMap \cup {<<job.Context, job.Id>>}
            /\ idContextMap' = idContextMap \cup {<<job.Id, job.Context>>}
       ELSE UNCHANGED maps
    /\ Answer(job, job.isPasswordMatch)
    /\ UNCHANGED creatingJob

\* TryCreateAccount, the SELECT: DuplicateId ends Tick.
TickRegister(job) ==
    /\ job.kind = "Register"
    /\ IF rows[job.Id] > 0
       THEN Answer(job, FALSE) /\ UNCHANGED creatingJob
       ELSE /\ creatingJob' = <<job>> /\ actorPc' = "insert"
            /\ UNCHANGED answered
    /\ UNCHANGED maps

\* Mutant: an early return of Tick forgets the jobs behind the failed one.
TickJobForgetsRest ==
    /\ actorPc = "tick" /\ authJobForegroundQueue # <<>>
    /\ LET job == Head(authJobForegroundQueue)
       IN TickLogin(job) \/ TickRegister(job)
    /\ authJobForegroundQueue' = IF actorPc' # "messages"
                                 THEN Tail(authJobForegroundQueue) ELSE <<>>
    /\ UNCHANGED <<gone, authJobBackgroundQueue, authThreadJob, rows, issued,
                   refused>>

TickJob ==
    /\ actorPc = "tick" /\ authJobForegroundQueue # <<>>
    /\ LET job == Head(authJobForegroundQueue)
       IN TickLogin(job) \/ TickRegister(job)
    /\ authJobForegroundQueue' = Tail(authJobForegroundQueue)
    /\ UNCHANGED <<gone, authJobBackgroundQueue, authThreadJob, rows, issued,
                   refused>>

\* TryCreateAccount, the INSERT in a transaction of its own: Success, or
\* UnknownError, which ends Tick, when no row is affected.
TickInsert ==
    /\ actorPc = "insert"
    /\ LET job == creatingJob[1]
       IN \/ /\ rows' = [rows EXCEPT ![job.Id] = @ + 1]
             /\ Answer(job, TRUE)
          \/ UNCHANGED rows /\ Answer(job, FALSE)
    /\ creatingJob' = <<>>
    /\ UNCHANGED <<gone, maps, authJobBackgroundQueue, authJobForegroundQueue,
                   authThreadJob, issued, refused>>

TickEnds ==
    /\ actorPc = "tick" /\ authJobForegroundQueue = <<>>
    /\ actorPc' = "messages"
    /\ UNCHANGED <<gone, maps, queues, rows, issued, refused, answered>>

-----------------------------------------------------------------------------
Actor == EndOfMessages \/ TickJob \/ TickInsert \/ TickEnds
AuthThread == TakeJob \/ FinishJob

Next ==
    \/ \E c \in Contexts, a \in Accounts : OnRegisterRequest(c, a)
    \/ \E c \in Contexts, a \in Accounts, right \in BOOLEAN :
            OnLoginRequest(c, a, right)
    \/ \E c \in Contexts : OnDisconnected(c)
    \/ Actor
    \/ AuthThread

Spec == Init /\ [][Next]_vars

(* The scheduler runs the actor in every round.                            *)
Fairness == WF_vars(Actor)

FairSpec == Spec /\ Fairness
-----------------------------------------------------------------------------
(* Properties.                                                             *)

\* Types.
TypeOK ==
    /\ gone \subseteq Contexts
    /\ contextIdMap \subseteq Contexts \X Accounts
    /\ idContextMap \subseteq Accounts \X Contexts
    /\ authJobBackgroundQueue \in Seq(Jobs)
    /\ authJobForegroundQueue \in Seq(Jobs)
    /\ authThreadJob \in Seq(Jobs) /\ Len(authThreadJob) =< 1
    /\ creatingJob \in Seq(Jobs)
    /\ Len(creatingJob) = (IF actorPc = "insert" THEN 1 ELSE 0)
    /\ rows \in [Accounts -> Nat]
    /\ actorPc \in {"messages", "tick", "insert"}
    /\ issued \in 0..MaxRequests
    /\ refused \subseteq Requests /\ answered \subseteq Requests

\* contextIdMap_ and idContextMap_ are maps and each other's inverse: no
\* account is online from two contexts, and none stays online whose context
\* has been removed.  A_Auth.cpp:75-85 and 205-219.
MapsAreInverse ==
    /\ \A c \in Contexts, id \in Accounts :
            <<c, id>> \in contextIdMap <=> <<id, c>> \in idContextMap
    /\ \A p, q \in contextIdMap : p[1] = q[1] \/ p[2] = q[2] => p = q

\* The requests of the jobs in a queue, and a queue in their order.
Numbers(q) == {q[i].request : i \in 1..Len(q)}
InOrder(q) == \A i, j \in 1..Len(q) : i < j => q[i].request < q[j].request
Precede(S, T) == \A m \in S, n \in T : m < n

\* A job moves from queue to queue without being lost, doubled or overtaken,
\* also where it is behind one that makes Tick return: every request is
\* answered at once, waits in one place, or has been answered by Tick, and
\* Tick answers the jobs in the order in which the clients sent them, one time
\* each.  A_Auth.cpp:34-63, 136-139, 151-169 and 174-255.
JobsAreAnsweredInOrder ==
    LET creating == Numbers(creatingJob)
        finished == Numbers(authJobForegroundQueue)
        working  == Numbers(authThreadJob)
        queued   == Numbers(authJobBackgroundQueue)
    IN /\ InOrder(authJobForegroundQueue) /\ InOrder(authJobBackgroundQueue)
       /\ Precede(answered, creating \cup finished \cup working \cup queued)
       /\ Precede(creating, finished \cup working \cup queued)
       /\ Precede(finished, working \cup queued)
       /\ Precede(working, queued)
       /\ 1..issued = refused \cup answered \cup creating \cup finished
                            \cup working \cup queued

\* A job that the background thread has handed back is applied and answered,
\* also when jobs before it make Tick return time and again, and whether or
\* not the thread goes on.  A_Auth.cpp:172-256.
FinishedJobIsAnswered ==
    \A n \in Requests : n \in Numbers(authJobForegroundQueue) ~> n \in answered

-----------------------------------------------------------------------------
(* What the repository says of the program and the code does not do.       *)

\* AuthenticationResult names the refusal of a second login IdAlreadyOnline:
\* an account in the maps belongs to a context that is not gone.
IdsInMapsAreOnline == \A p \in contextIdMap : p[1] \notin gone
=============================================================================
