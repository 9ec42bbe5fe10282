--------------------------- MODULE AuthActorProofs ---------------------------
(***************************************************************************)
(* Proofs about AuthActor for any contexts and accounts, whether or not    *)
(* the background thread runs: however the jobs of several contexts and    *)
(* the disconnections interleave, the two maps stay each other's inverse   *)
(* and Tick answers each job once, in the order of the requests.           *)
(***************************************************************************)
EXTENDS AuthActor, SequenceTheorems, TLAPS

USE AuthAssumption

\* A job that is applied to the database or to the maps names an account.
GoodJobs == {j \in Jobs : j.kind = "Register" \/ j.isPasswordMatch
                          => j.Id \in Accounts}

QueuesInv == /\ authJobBackgroundQueue \in Seq(GoodJobs)
             /\ authJobForegroundQueue \in Seq(GoodJobs)
             /\ \/ authThreadJob = <<>>
                \/ \E j \in GoodJobs : authThreadJob = <<j>>
             /\ \/ creatingJob = <<>> /\ actorPc # "insert"
                \/ /\ actorPc = "insert"
                   /\ \E j \in GoodJobs : creatingJob = <<j>> /\ j.Id \in Accounts

IInv == TypeOK /\ QueuesInv /\ MapsAreInverse /\ JobsAreAnsweredInOrder

-----------------------------------------------------------------------------
(* Lemmas.                                                                 *)

\* Taking the head of a queue of good jobs leaves good jobs.
LEMMA QueueHead ==
    ASSUME NEW S, NEW q \in Seq(S), q # <<>>
    PROVE  Head(q) \in S /\ Tail(q) \in Seq(S)
  BY HeadTailProperties

\* A sequence of good jobs is a sequence of jobs.
LEMMA GoodQueues == Seq(GoodJobs) \subseteq Seq(Jobs)
  BY SeqMonotonic DEF GoodJobs

\* What does not touch the maps keeps them inverse.
LEMMA SameMaps ==
    ASSUME MapsAreInverse, UNCHANGED maps
    PROVE  MapsAreInverse'
  BY DEF MapsAreInverse, maps

\* The order of the jobs depends on these variables only.
LEMMA SameJobs ==
    ASSUME JobsAreAnsweredInOrder, UNCHANGED <<queues, issued, refused, answered>>
    PROVE  JobsAreAnsweredInOrder'
  BY DEF JobsAreAnsweredInOrder, Numbers, InOrder, Precede, queues

\* A queue of at most one job.
LEMMA NumbersOfOne ==
    ASSUME NEW j
    PROVE  Numbers(<<>>) = {} /\ Numbers(<<j>>) = {j.request}
  BY DEF Numbers

\* A job with a later number joins a queue at its end.
LEMMA NumbersAppend ==
    ASSUME NEW q \in Seq(Jobs), NEW j \in Jobs
    PROVE  /\ Numbers(Append(q, j)) = Numbers(q) \cup {j.request}
           /\ InOrder(q) /\ Precede(Numbers(q), {j.request})
                => InOrder(Append(q, j))
  <1> DEFINE r == Append(q, j)
  <1>1. /\ Len(q) \in Nat /\ Len(r) = Len(q) + 1
        /\ \A i \in 1..Len(q) : r[i] = q[i]
        /\ r[Len(q) + 1] = j
      BY AppendProperties, LenProperties
  <1> HIDE DEF r
  <1>2. 1..Len(r) = 1..Len(q) \cup {Len(q) + 1}
      BY <1>1
  <1>3. Numbers(r) = Numbers(q) \cup {j.request}
      BY <1>1, <1>2 DEF Numbers
  <1>4. ASSUME InOrder(q), Precede(Numbers(q), {j.request})
        PROVE  InOrder(r)
    <2> SUFFICES ASSUME NEW i \in 1..Len(r), NEW k \in 1..Len(r), i < k
                 PROVE  r[i].request < r[k].request
        BY DEF InOrder
    <2>1. i \in 1..Len(q) /\ r[i] = q[i]
        BY <1>1, <1>2
    <2>2. CASE k \in 1..Len(q)
        BY <1>1, <1>4, <2>1, <2>2 DEF InOrder
    <2>3. CASE k = Len(q) + 1
        BY <1>1, <1>4, <2>1, <2>3 DEF Precede, Numbers
    <2> QED BY <1>2, <2>2, <2>3
  <1> QED BY <1>3, <1>4 DEF r

\* The first job leaves a queue.
LEMMA NumbersTail ==
    ASSUME NEW q \in Seq(Jobs), q # <<>>
    PROVE  /\ Numbers(q) = {Head(q).request} \cup Numbers(Tail(q))
           /\ InOrder(q) => /\ InOrder(Tail(q))
                            /\ Precede({Head(q).request}, Numbers(Tail(q)))
  <1> DEFINE r == Tail(q)
  <1>1. /\ Len(q) \in Nat \ {0} /\ Len(r) = Len(q) - 1
        /\ \A i \in 1..Len(r) : r[i] = q[i + 1]
        /\ Head(q) = q[1]
      BY HeadTailProperties, EmptySeq, LenProperties
  <1> HIDE DEF r
  <1>2. /\ \A i \in 1..Len(r) : i + 1 \in 1..Len(q) /\ 1 < i + 1
        /\ \A i \in 1..Len(q) : i = 1 \/ (i - 1 \in 1..Len(r) /\ q[i] = r[i - 1])
      BY <1>1
  <1>3. Numbers(q) = {Head(q).request} \cup Numbers(r)
    <2>1. ASSUME NEW n \in Numbers(q) PROVE n \in {Head(q).request} \cup Numbers(r)
      <3>1. PICK i \in 1..Len(q) : n = q[i].request
          BY DEF Numbers
      <3>2. CASE i = 1
          BY <1>1, <3>1, <3>2
      <3>3. CASE i - 1 \in 1..Len(r) /\ q[i] = r[i - 1]
          BY <3>1, <3>3 DEF Numbers
      <3> QED BY <1>2, <3>2, <3>3
    <2>2. Head(q).request \in Numbers(q)
        BY <1>1 DEF Numbers
    <2>3. ASSUME NEW n \in Numbers(r) PROVE n \in Numbers(q)
        BY <1>1, <1>2, <2>3 DEF Numbers
    <2> QED BY <2>1, <2>2, <2>3
  <1>4. ASSUME InOrder(q)
        PROVE  InOrder(r) /\ Precede({Head(q).request}, Numbers(r))
    <2>1. InOrder(r)
        BY <1>1, <1>2, <1>4 DEF InOrder
    <2>2. \A i \in 1..Len(r) : q[1].request < q[i + 1].request
        BY <1>1, <1>2, <1>4 DEF InOrder
    <2>3. Precede({Head(q).request}, Numbers(r))
        BY <1>1, <2>2 DEF Precede, Numbers
    <2> QED BY <2>1, <2>3
  <1> QED BY <1>3, <1>4 DEF r

LEMMA InitInv == Init => IInv
  <1> SUFFICES ASSUME Init PROVE IInv
      OBVIOUS
  <1>1. TypeOK
      BY EmptySeq DEF Init, TypeOK
  <1>2. QueuesInv /\ MapsAreInverse
      BY EmptySeq DEF Init, QueuesInv, MapsAreInverse
  <1>3. JobsAreAnsweredInOrder
    <2>1. Numbers(<<>>) = {} /\ InOrder(<<>>)
        BY EmptySeq DEF Numbers, InOrder
    <2>2. 1..0 = {}
        OBVIOUS
    <2> QED BY <2>1, <2>2 DEF Init, JobsAreAnsweredInOrder, Precede
  <1> QED BY <1>1, <1>2, <1>3 DEF IInv

-----------------------------------------------------------------------------
(* The handlers.                                                           *)

\* A request takes the next number, and its job the last place.
LEMMA RequestType ==
    ASSUME IInv, NEW c \in Contexts, Request(c)
    PROVE  /\ issued + 1 \in Requests /\ issued' \in 0..MaxRequests
           /\ 1..issued' = 1..issued \cup {issued + 1}
           /\ \A n \in 1..issued : n < issued + 1
  BY DEF IInv, TypeOK, Request, Requests

LEMMA QueueJob ==
    ASSUME IInv, NEW c \in Contexts, Request(c),
           NEW job \in GoodJobs, job.request = issued + 1,
           authJobBackgroundQueue' = Append(authJobBackgroundQueue, job),
           UNCHANGED <<authJobForegroundQueue, authThreadJob, creatingJob,
                       refused, answered>>
    PROVE  JobsAreAnsweredInOrder'
  <1> DEFINE q == authJobBackgroundQueue
  <1>1. q \in Seq(Jobs) /\ job \in Jobs
      BY DEF IInv, TypeOK, GoodJobs
  <1>2. /\ InOrder(q) /\ JobsAreAnsweredInOrder
        /\ Precede(Numbers(q), {issued + 1})
        /\ Precede(answered, {issued + 1})
        /\ Precede(Numbers(creatingJob), {issued + 1})
        /\ Precede(Numbers(authJobForegroundQueue), {issued + 1})
        /\ Precede(Numbers(authThreadJob), {issued + 1})
      BY RequestType DEF IInv, JobsAreAnsweredInOrder, Precede
  <1>3. /\ Numbers(q)' = Numbers(q) \cup {issued + 1}
        /\ InOrder(q)'
    <2>1. /\ Numbers(Append(q, job)) = Numbers(q) \cup {issued + 1}
          /\ InOrder(Append(q, job))
        BY <1>1, <1>2, NumbersAppend
    <2> QED BY <2>1 DEF Numbers, InOrder
  <1>4. /\ Numbers(authJobForegroundQueue)' = Numbers(authJobForegroundQueue)
        /\ Numbers(authThreadJob)' = Numbers(authThreadJob)
        /\ Numbers(creatingJob)' = Numbers(creatingJob)
        /\ InOrder(authJobForegroundQueue)' = InOrder(authJobForegroundQueue)
      BY DEF Numbers, InOrder
  <1> QED BY <1>2, <1>3, <1>4, RequestType DEF JobsAreAnsweredInOrder, Precede

LEMMA OnRegisterRequestInv ==
    ASSUME IInv, NEW c \in Contexts, NEW a \in Accounts, OnRegisterRequest(c, a)
    PROVE  IInv'
  <1> DEFINE job == [kind |-> "Register", request |-> issued + 1,
                     Context |-> c, Id |-> a, right |-> TRUE,
                     isPasswordMatch |-> FALSE]
  <1>1. Request(c) /\ authJobBackgroundQueue' = Append(authJobBackgroundQueue, job)
        /\ UNCHANGED <<gone, maps, authJobForegroundQueue, authThreadJob,
                       creatingJob, rows, actorPc, refused, answered>>
      BY DEF OnRegisterRequest
  <1>2. job \in GoodJobs /\ job.request = issued + 1
      BY <1>1, RequestType DEF GoodJobs, Jobs
  <1> HIDE DEF job
  <1>3. authJobBackgroundQueue' \in Seq(GoodJobs)
      BY <1>1, <1>2, AppendProperties DEF IInv, QueuesInv
  <1>4. TypeOK'
      BY <1>1, <1>3, RequestType, GoodQueues DEF IInv, TypeOK, maps
  <1>5. QueuesInv'
      BY <1>1, <1>3 DEF IInv, QueuesInv
  <1>6. JobsAreAnsweredInOrder'
      BY <1>1, <1>2, QueueJob
  <1> QED BY <1>1, <1>4, <1>5, <1>6, SameMaps DEF IInv

LEMMA OnLoginRequestInv ==
    ASSUME IInv, NEW c \in Contexts, NEW a \in Accounts, NEW right \in BOOLEAN,
           OnLoginRequest(c, a, right)
    PROVE  IInv'
  <1> DEFINE job == [kind |-> "Login", request |-> issued + 1,
                     Context |-> c,
                     Id |-> IF rows[a] > 0 THEN a ELSE InvalidId,
                     right |-> right, isPasswordMatch |-> FALSE]
  <1>1. Request(c)
        /\ UNCHANGED <<gone, maps, authJobForegroundQueue, authThreadJob,
                       creatingJob, rows, actorPc, answered>>
      BY DEF OnLoginRequest
  <1>2. /\ refused' \subseteq Requests
        /\ authJobBackgroundQueue' \in Seq(GoodJobs)
        /\ JobsAreAnsweredInOrder'
    <2>1. CASE LoggedIn(c)
      <3>1. refused' = refused \cup {issued + 1}
            /\ UNCHANGED authJobBackgroundQueue
          BY <2>1 DEF OnLoginRequest
      <3>2. JobsAreAnsweredInOrder'
          BY <1>1, <3>1, RequestType
          DEF IInv, JobsAreAnsweredInOrder, Numbers, InOrder, Precede
      <3> QED BY <1>1, <3>1, <3>2, RequestType DEF IInv, TypeOK, QueuesInv
    <2>2. CASE ~LoggedIn(c)
      <3>1. authJobBackgroundQueue' = Append(authJobBackgroundQueue, job)
            /\ refused' = refused
          BY <2>2 DEF OnLoginRequest
      <3>2. job \in GoodJobs /\ job.request = issued + 1
          BY <1>1, RequestType DEF GoodJobs, Jobs
      <3> HIDE DEF job
      <3>3. JobsAreAnsweredInOrder'
          BY <1>1, <3>1, <3>2, QueueJob
      <3> QED BY <3>1, <3>2, <3>3, AppendProperties DEF IInv, QueuesInv, TypeOK
    <2> QED BY <2>1, <2>2
  <1>3. TypeOK'
      BY <1>1, <1>2, RequestType, GoodQueues DEF IInv, TypeOK, maps
  <1>4. QueuesInv'
      BY <1>1, <1>2 DEF IInv, QueuesInv
  <1> QED BY <1>1, <1>2, <1>3, <1>4, SameMaps DEF IInv

\* Both maps lose the pair of the context, and no other pair.
LEMMA OnDisconnectedInv ==
    ASSUME IInv, NEW c \in Contexts, OnDisconnected(c)
    PROVE  IInv'
  <1> USE DEF OnDisconnected
  <1>1. TypeOK' /\ QueuesInv'
      BY DEF IInv, TypeOK, QueuesInv, queues
  <1>2. ASSUME NEW d \in Contexts, NEW id \in Accounts
        PROVE  <<d, id>> \in contextIdMap' <=> <<id, d>> \in idContextMap'
    <2>1. <<d, id>> \in contextIdMap' <=> <<d, id>> \in contextIdMap /\ d # c
        OBVIOUS
    <2>2. <<id, d>> \in idContextMap'
          <=> <<id, d>> \in idContextMap /\ <<c, id>> \notin contextIdMap
        OBVIOUS
    <2>3. <<d, id>> \in contextIdMap /\ <<c, id>> \in contextIdMap => d = c
        BY DEF IInv, MapsAreInverse
    <2> QED BY <2>1, <2>2, <2>3 DEF IInv, MapsAreInverse
  <1>3. \A p, q \in contextIdMap' : p[1] = q[1] \/ p[2] = q[2] => p = q
      BY DEF IInv, MapsAreInverse
  <1>4. JobsAreAnsweredInOrder'
      BY SameJobs DEF IInv
  <1> QED BY <1>1, <1>2, <1>3, <1>4 DEF IInv, MapsAreInverse

-----------------------------------------------------------------------------
(* The background thread.                                                  *)

LEMMA TakeJobInv ==
    ASSUME IInv, TakeJob
    PROVE  IInv'
  <1> USE DEF TakeJob
  <1> DEFINE q == authJobBackgroundQueue
  <1>1. Head(q) \in GoodJobs /\ Tail(q) \in Seq(GoodJobs)
      BY QueueHead DEF IInv, QueuesInv
  <1>2. QueuesInv'
      BY <1>1 DEF IInv, QueuesInv
  <1>3. TypeOK'
    <2>1. authThreadJob' \in Seq(Jobs) /\ Len(authThreadJob') =< 1
        BY <1>1 DEF GoodJobs
    <2> QED BY <1>1, <2>1, GoodQueues DEF IInv, TypeOK, maps
  <1>4. JobsAreAnsweredInOrder'
    <2>1. q \in Seq(Jobs) /\ q # <<>>
        BY DEF IInv, TypeOK
    <2>2. /\ Numbers(q) = {Head(q).request} \cup Numbers(Tail(q))
          /\ InOrder(q) => /\ InOrder(Tail(q))
                           /\ Precede({Head(q).request}, Numbers(Tail(q)))
        BY <2>1, NumbersTail
    <2>3. /\ Numbers(authThreadJob) = {} /\ Numbers(authThreadJob)' = {Head(q).request}
          /\ Numbers(q)' = Numbers(Tail(q)) /\ InOrder(q)' = InOrder(Tail(q))
        BY NumbersOfOne DEF Numbers, InOrder
    <2>4. /\ Numbers(authJobForegroundQueue)' = Numbers(authJobForegroundQueue)
          /\ Numbers(creatingJob)' = Numbers(creatingJob)
          /\ InOrder(authJobForegroundQueue)' = InOrder(authJobForegroundQueue)
          /\ UNCHANGED <<issued, refused, answered>>
        BY DEF Numbers, InOrder
    <2> QED BY <2>2, <2>3, <2>4 DEF IInv, JobsAreAnsweredInOrder, Precede
  <1> QED BY <1>2, <1>3, <1>4, SameMaps DEF IInv

LEMMA FinishJobInv ==
    ASSUME IInv, FinishJob
    PROVE  IInv'
  <1> USE DEF FinishJob
  <1>1. PICK j \in GoodJobs : authThreadJob = <<j>>
      BY DEF IInv, QueuesInv
  <1>2. Executed(j) \in GoodJobs /\ Executed(j).request = j.request
    <2>1. /\ j \in Jobs /\ Executed(j) \in Jobs
          /\ Executed(j).kind = j.kind /\ Executed(j).Id = j.Id
          /\ Executed(j).request = j.request
        BY DEF GoodJobs, Jobs, Executed
    <2>2. Executed(j).isPasswordMatch => j.Id # InvalidId
        BY <2>1 DEF Jobs, Executed
    <2> QED BY <2>1, <2>2 DEF GoodJobs, Jobs
  <1> DEFINE q == authJobForegroundQueue
  <1>3. q' = Append(q, Executed(j))
      BY <1>1
  <1>4. q' \in Seq(GoodJobs)
      BY <1>2, <1>3, AppendProperties DEF IInv, QueuesInv
  <1>5. QueuesInv'
      BY <1>4 DEF IInv, QueuesInv
  <1>6. TypeOK'
    <2>1. <<>> \in Seq(Jobs) /\ Len(<<>>) = 0
        BY EmptySeq
    <2>2. authThreadJob' \in Seq(Jobs) /\ Len(authThreadJob') =< 1
        BY <2>1
    <2> QED BY <1>4, <2>2, GoodQueues DEF IInv, TypeOK, maps
  <1>7. JobsAreAnsweredInOrder'
    <2>1. q \in Seq(Jobs) /\ Executed(j) \in Jobs
        BY <1>2 DEF IInv, TypeOK, GoodJobs
    <2>2. Numbers(authThreadJob) = {j.request} /\ Numbers(authThreadJob)' = {}
        BY <1>1, NumbersOfOne
    <2>3. InOrder(q) /\ Precede(Numbers(q), {j.request})
        BY <2>2 DEF IInv, JobsAreAnsweredInOrder, Precede
    <2>4. /\ Numbers(Append(q, Executed(j))) = Numbers(q) \cup {j.request}
          /\ InOrder(Append(q, Executed(j)))
        BY <1>2, <2>1, <2>3, NumbersAppend
    <2>5. Numbers(q)' = Numbers(q) \cup {j.request} /\ InOrder(q)'
        BY <1>3, <2>4 DEF Numbers, InOrder
    <2>6. /\ Numbers(authJobBackgroundQueue)' = Numbers(authJobBackgroundQueue)
          /\ Numbers(creatingJob)' = Numbers(creatingJob)
          /\ InOrder(authJobBackgroundQueue)' = InOrder(authJobBackgroundQueue)
          /\ UNCHANGED <<issued, refused, answered>>
        BY DEF Numbers, InOrder
    <2> QED BY <2>2, <2>5, <2>6 DEF IInv, JobsAreAnsweredInOrder, Precede
  <1> QED BY <1>5, <1>6, <1>7, SameMaps DEF IInv

-----------------------------------------------------------------------------
(* Tick.                                                                   *)

\* Only an account that is in neither map is entered, in both.
LEMMA TickLoginMaps ==
    ASSUME IInv, NEW job \in GoodJobs, TickLogin(job)
    PROVE  /\ contextIdMap' \subseteq Contexts \X Accounts
           /\ idContextMap' \subseteq Accounts \X Contexts
           /\ MapsAreInverse'
  <1> USE DEF IInv
  <1>2. CASE ~(job.isPasswordMatch /\ MayLogIn(job))
      BY <1>2, SameMaps DEF TickLogin, TypeOK, maps
  <1>3. CASE job.isPasswordMatch /\ MayLogIn(job)
    <2> DEFINE c == job.Context
               a == job.Id
    <2>1. c \in Contexts /\ a \in Accounts
        BY <1>3 DEF GoodJobs, Jobs
    <2>2. /\ contextIdMap' = contextIdMap \cup {<<c, a>>}
          /\ idContextMap' = idContextMap \cup {<<a, c>>}
        BY <1>3 DEF TickLogin
    <2>3. /\ \A id \in Accounts : <<c, id>> \notin contextIdMap
          /\ \A d \in Contexts : <<a, d>> \notin idContextMap
        BY <1>3, <2>1 DEF MayLogIn, LoggedIn, Online
    <2>4. \A d \in Contexts : <<d, a>> \notin contextIdMap
        BY <2>1, <2>3 DEF MapsAreInverse
    <2> HIDE DEF c, a
    <2>5. \A p \in contextIdMap : p \in Contexts \X Accounts
                                  /\ p[1] # c /\ p[2] # a
        BY <2>1, <2>3, <2>4 DEF TypeOK
    <2>6. \A d \in Contexts, id \in Accounts :
              <<d, id>> \in contextIdMap' <=> <<id, d>> \in idContextMap'
        BY <2>1, <2>2 DEF MapsAreInverse
    <2>7. \A p, q \in contextIdMap' : p[1] = q[1] \/ p[2] = q[2] => p = q
        BY <2>1, <2>2, <2>5 DEF MapsAreInverse
    <2> QED BY <2>1, <2>2, <2>6, <2>7 DEF MapsAreInverse, TypeOK
  <1> QED BY <1>2, <1>3

\* The first finished job is answered, or is on its way to the database.
LEMMA JobLeavesQueue ==
    ASSUME IInv, actorPc = "tick", authJobForegroundQueue # <<>>,
           NEW job, job = Head(authJobForegroundQueue),
           authJobForegroundQueue' = Tail(authJobForegroundQueue),
           UNCHANGED <<authJobBackgroundQueue, authThreadJob, issued, refused>>,
           \/ answered' = answered \cup {job.request} /\ creatingJob' = creatingJob
           \/ answered' = answered /\ creatingJob' = <<job>>
    PROVE  JobsAreAnsweredInOrder'
  <1> DEFINE q == authJobForegroundQueue
  <1>1. q \in Seq(Jobs) /\ Numbers(creatingJob) = {}
      BY NumbersOfOne DEF IInv, TypeOK, QueuesInv
  <1>2. /\ Numbers(q) = {job.request} \cup Numbers(Tail(q))
        /\ InOrder(q) => /\ InOrder(Tail(q))
                         /\ Precede({job.request}, Numbers(Tail(q)))
      BY <1>1, NumbersTail
  <1>3. /\ Numbers(q)' = Numbers(Tail(q)) /\ InOrder(q)' = InOrder(Tail(q))
        /\ Numbers(authJobBackgroundQueue)' = Numbers(authJobBackgroundQueue)
        /\ InOrder(authJobBackgroundQueue)' = InOrder(authJobBackgroundQueue)
        /\ Numbers(authThreadJob)' = Numbers(authThreadJob)
      BY DEF Numbers, InOrder
  <1>4. CASE answered' = answered \cup {job.request} /\ creatingJob' = creatingJob
    <2>1. Numbers(creatingJob)' = {}
        BY <1>1, <1>4 DEF Numbers
    <2> QED BY <1>1, <1>2, <1>3, <1>4, <2>1
            DEF IInv, JobsAreAnsweredInOrder, Precede
  <1>5. CASE answered' = answered /\ creatingJob' = <<job>>
    <2>1. Numbers(creatingJob)' = {job.request}
        BY <1>5, NumbersOfOne DEF Numbers
    <2> QED BY <1>1, <1>2, <1>3, <1>5, <2>1
            DEF IInv, JobsAreAnsweredInOrder, Precede
  <1> QED BY <1>4, <1>5

LEMMA TickJobInv ==
    ASSUME IInv, TickJob
    PROVE  IInv'
  <1> DEFINE job == Head(authJobForegroundQueue)
  <1>1. job \in GoodJobs /\ Tail(authJobForegroundQueue) \in Seq(GoodJobs)
      BY QueueHead DEF IInv, QueuesInv, TickJob
  <1>2. /\ actorPc = "tick" /\ authJobForegroundQueue # <<>>
        /\ TickLogin(job) \/ TickRegister(job)
        /\ authJobForegroundQueue' = Tail(authJobForegroundQueue)
        /\ UNCHANGED <<gone, authJobBackgroundQueue, authThreadJob, rows, issued,
                       refused>>
      BY DEF TickJob
  <1>3. job.request \in Requests
      BY <1>1 DEF GoodJobs, Jobs
  <1>4. creatingJob = <<>>
      BY <1>2 DEF IInv, QueuesInv
  <1>5. job = Head(authJobForegroundQueue)
      OBVIOUS
  <1> HIDE DEF job
  <1>6. /\ contextIdMap' \subseteq Contexts \X Accounts
        /\ idContextMap' \subseteq Accounts \X Contexts
        /\ MapsAreInverse'
    <2>1. CASE TickLogin(job)
        BY <1>1, <2>1, TickLoginMaps
    <2>2. CASE TickRegister(job)
        BY <2>2, SameMaps DEF TickRegister, IInv, TypeOK, maps
    <2> QED BY <1>2, <2>1, <2>2
  <1>7. \/ /\ answered' = answered \cup {job.request} /\ creatingJob' = creatingJob
           /\ actorPc' \in {"messages", "tick"}
        \/ /\ answered' = answered /\ creatingJob' = <<job>>
           /\ actorPc' = "insert" /\ job.Id \in Accounts
    <2>1. CASE TickLogin(job)
        BY <2>1 DEF TickLogin, Answer
    <2>2. CASE TickRegister(job)
        BY <1>1, <2>2 DEF TickRegister, Answer, GoodJobs
    <2> QED BY <1>2, <2>1, <2>2
  <1>8. QueuesInv'
    <2>1. /\ authJobForegroundQueue' \in Seq(GoodJobs)
          /\ authJobBackgroundQueue' \in Seq(GoodJobs)
          /\ \/ authThreadJob' = <<>>
             \/ \E j \in GoodJobs : authThreadJob' = <<j>>
        BY <1>1, <1>2 DEF IInv, QueuesInv
    <2>2. \/ creatingJob' = <<>> /\ actorPc' # "insert"
          \/ /\ actorPc' = "insert"
             /\ \E j \in GoodJobs : creatingJob' = <<j>> /\ j.Id \in Accounts
        BY <1>1, <1>4, <1>7
    <2> QED BY <2>1, <2>2 DEF QueuesInv
  <1>9. TypeOK'
    <2>1. /\ creatingJob' \in Seq(Jobs)
          /\ Len(creatingJob') = (IF actorPc' = "insert" THEN 1 ELSE 0)
      <3>1. CASE creatingJob' = creatingJob /\ actorPc' \in {"messages", "tick"}
          BY <1>4, <3>1, EmptySeq
      <3>2. CASE creatingJob' = <<job>> /\ actorPc' = "insert"
          BY <1>1, <3>2 DEF GoodJobs
      <3> QED BY <1>7, <3>1, <3>2
    <2>2. answered' \subseteq Requests /\ actorPc' \in {"messages", "tick", "insert"}
        BY <1>3, <1>7 DEF IInv, TypeOK
    <2> QED BY <1>1, <1>2, <1>6, <2>1, <2>2, GoodQueues DEF IInv, TypeOK
  <1>10. JobsAreAnsweredInOrder'
    <2>1. \/ answered' = answered \cup {job.request} /\ creatingJob' = creatingJob
          \/ answered' = answered /\ creatingJob' = <<job>>
        BY <1>7
    <2> QED BY <1>2, <1>5, <2>1, JobLeavesQueue
  <1> QED BY <1>6, <1>8, <1>9, <1>10 DEF IInv

\* Whether or not the row is there afterwards, the registration is answered.
LEMMA TickInsertInv ==
    ASSUME IInv, TickInsert
    PROVE  IInv'
  <1>1. PICK job \in GoodJobs : creatingJob = <<job>> /\ job.Id \in Accounts
      BY DEF IInv, QueuesInv, TickInsert
  <1>2. /\ answered' = answered \cup {job.request} /\ creatingJob' = <<>>
        /\ actorPc' \in {"messages", "tick"}
        /\ rows' = rows \/ rows' = [rows EXCEPT ![job.Id] = @ + 1]
        /\ UNCHANGED <<gone, maps, authJobBackgroundQueue, authJobForegroundQueue,
                       authThreadJob, issued, refused>>
      BY <1>1 DEF TickInsert, Answer
  <1>3. rows' \in [Accounts -> Nat] /\ job.request \in Requests
      BY <1>1, <1>2 DEF IInv, TypeOK, GoodJobs, Jobs
  <1>4. TypeOK'
      BY <1>2, <1>3, EmptySeq DEF IInv, TypeOK, maps
  <1>5. QueuesInv'
      BY <1>2 DEF IInv, QueuesInv
  <1>6. JobsAreAnsweredInOrder'
    <2>1. Numbers(creatingJob) = {job.request} /\ Numbers(creatingJob)' = {}
        BY <1>1, <1>2, NumbersOfOne
    <2>2. /\ Numbers(authJobForegroundQueue)' = Numbers(authJobForegroundQueue)
          /\ InOrder(authJobForegroundQueue)' = InOrder(authJobForegroundQueue)
          /\ Numbers(authJobBackgroundQueue)' = Numbers(authJobBackgroundQueue)
          /\ InOrder(authJobBackgroundQueue)' = InOrder(authJobBackgroundQueue)
          /\ Numbers(authThreadJob)' = Numbers(authThreadJob)
        BY <1>2 DEF Numbers, InOrder
    <2> QED BY <1>2, <2>1, <2>2 DEF IInv, JobsAreAnsweredInOrder, Precede
  <1> QED BY <1>2, <1>4, <1>5, <1>6, SameMaps DEF IInv

-----------------------------------------------------------------------------
(* Theorems.                                                               *)

LEMMA NextInv ==
    ASSUME IInv, [Next]_vars
    PROVE  IInv'
  <1>1. CASE EndOfMessages \/ TickEnds \/ UNCHANGED vars
    <2>1. /\ UNCHANGED <<gone, maps, queues, rows, issued, refused, answered>>
          /\ \/ actorPc' = actorPc
             \/ actorPc \in {"messages", "tick"} /\ actorPc' \in {"messages", "tick"}
        BY <1>1 DEF EndOfMessages, TickEnds, vars
    <2>2. TypeOK'
        BY <2>1 DEF maps, queues, IInv, TypeOK
    <2>3. QueuesInv'
        BY <2>1 DEF queues, IInv, QueuesInv
    <2> QED BY <2>1, <2>2, <2>3, SameMaps, SameJobs DEF IInv
  <1>2. CASE AuthThread
      BY <1>2, TakeJobInv, FinishJobInv DEF AuthThread
  <1>3. CASE Actor
      BY <1>1, <1>3, TickJobInv, TickInsertInv DEF Actor
  <1> QED BY <1>1, <1>2, <1>3, OnRegisterRequestInv, OnLoginRequestInv,
             OnDisconnectedInv DEF Next

\* The inductive invariant of the authentication actor.
THEOREM Invariant == Spec => []IInv
  BY InitInv, NextInv, PTL DEF Spec

\* The types; among them, that nobody is logged in as LoginJob::InvalidId.
THEOREM TypeCorrect == Spec => []TypeOK
  BY Invariant, PTL DEF IInv

\* contextIdMap_ and idContextMap_ are each other's inverse at all times.
THEOREM InverseMaps == Spec => []MapsAreInverse
  BY Invariant, PTL DEF IInv

\* No job is lost, doubled or overtaken between the handler that queues it
\* and the answer of Tick, whatever the two threads do meanwhile.
THEOREM JobsInOrder == Spec => []JobsAreAnsweredInOrder
  BY Invariant, PTL DEF IInv
=============================================================================
