---------------------------- MODULE MCServerParts ----------------------------
(***************************************************************************)
(* The parts of the server that share no state with one another, side by   *)
(* side: `part` says which of them a behaviour is about, and the others    *)
(* keep their initial state.                                               *)
(***************************************************************************)
EXTENDS ActorMailbox, DbConnectionPool, ParallelExecutor, SpscRingBuffer,
        EntityManager, GlobalObjects, MpscMessageBodyPool, SparseList,
        SparseArray, TLC

VARIABLE part

Parts == {"mailbox", "connections", "executor", "ring", "bodies", "list",
          "array", "entities", "objects"}

\* What an owner of a SparseList may keep to.
EitherWay == {{"Emplace"}, {"EmplaceAt"}}

PartsInit ==
    /\ part \in Parts
    /\ Init /\ PoolInit /\ ExecutorInit /\ RingInit /\ EntityInit /\ ObjectsInit
    /\ BodyInit /\ ListInit /\ ArrayInit
    /\ part # "list" => operations = {"Emplace"}

\* All other parts rest.
Only(p) ==
    /\ part = p /\ UNCHANGED part
    /\ IF p = "mailbox" THEN TRUE ELSE UNCHANGED vars
    /\ IF p = "connections" THEN TRUE ELSE UNCHANGED poolVars
    /\ IF p = "executor" THEN TRUE ELSE UNCHANGED executorVars
    /\ IF p = "ring" THEN TRUE ELSE UNCHANGED ringVars
    /\ IF p = "bodies" THEN TRUE ELSE UNCHANGED bodyVars
    /\ IF p = "list" THEN TRUE ELSE UNCHANGED sparseListVars
    /\ IF p = "array" THEN TRUE ELSE UNCHANGED arrayVars
    /\ IF p = "entities" THEN TRUE ELSE UNCHANGED entityVars
    /\ IF p = "objects" THEN TRUE ELSE UNCHANGED objectVars

PartsNext ==
    \/ part = "mailbox" /\ Next /\ Only("mailbox")
    \/ part = "connections" /\ PoolNext /\ Only("connections")
    \/ part = "executor" /\ ExecutorNext /\ Only("executor")
    \/ part = "ring" /\ RingNext /\ Only("ring")
    \/ part = "bodies" /\ BodyNext /\ Only("bodies")
    \/ part = "list" /\ ListNext /\ Only("list")
    \/ part = "array" /\ ArrayNext /\ Only("array")
    \/ part = "entities" /\ EntityNext /\ Only("entities")
    \/ part = "objects" /\ ObjectsNext /\ Only("objects")

partsVars == <<part, vars, poolVars, executorVars, ringVars, bodyVars,
               sparseListVars, arrayVars, entityVars, objectVars>>

\* The fairness of the part at hand: Fairness, PoolFairness or ExecutorFairness.
PartsFairness ==
    /\ \A p \in Pushers : WF_vars(part = "mailbox" /\ PushEmplace(p))
    /\ SF_vars(part = "mailbox" /\ Run)
    /\ \A c \in Clients :
          /\ WF_poolVars(part = "connections" /\ Client(c))
          /\ SF_poolVars(part = "connections" /\ (Lock(c) \/ ReleaseLock(c)))
    /\ WF_executorVars(part = "executor" /\ CallerStep)
    /\ \A t \in Threads : WF_executorVars(part = "executor" /\ Worker(t))

PartsSpec == PartsInit /\ [][PartsNext]_partsVars /\ PartsFairness

\* Both containers, see there.
ImplementsIdMap == ListImplementsIdMap /\ ArrayImplementsIdMap
=============================================================================
