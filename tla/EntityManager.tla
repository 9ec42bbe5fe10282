----------------------------- MODULE EntityManager -----------------------------
(***************************************************************************)
(* EntityManager.h: entities are the nodes of an IndexedUnmanagedList with *)
(* a version, which every creation increments.  An Entity is a value that  *)
(* its holders keep, also after the entity has been destroyed.  It has the *)
(* IdBitSize low bits of its node's index: nodes that far apart share ids. *)
(***************************************************************************)
EXTENDS IndexedUnmanagedList

CONSTANTS MaxEntities,      \* bound: nodes 0..MaxEntities - 1
          IdCount,          \* 2 to the IdBitSize
          Versions,         \* 2 to the VersionBitSize
          MaxCreations      \* bound: creations of one node

ASSUME EntityAssumption ==
    /\ MaxEntities \in Nat /\ MaxCreations \in Nat
    /\ IdCount \in Nat \ {0} /\ Versions \in Nat \ {0}

EntityIndices == 0..MaxEntities - 1

VARIABLES
    entityNodes,   \* list_
    versionOf,     \* the versions in its nodes; 0 in a new one
    incarnation,   \* how often each node has been created
    issued         \* the entities handed out: Id and Version, and their creation

entityVars == <<entityNodes, versionOf, incarnation, issued>>

EntityInit ==
    /\ entityNodes = EmptyList
    /\ versionOf = [i \in EntityIndices |-> 0]
    /\ incarnation = [i \in EntityIndices |-> 0]
    /\ issued = {}

\* Mutant: the mask is one bit short.
GetIncrementVersionShort(version) == (version + 1) % (Versions \div 2)

GetIncrementVersion(version) == (version + 1) % Versions

NullId == IdCount - 1

\* A created node has the next version and becomes an Entity, whose constructor
\* masks the id.
Issue(i) ==
    /\ incarnation[i] < MaxCreations
    /\ versionOf' = [versionOf EXCEPT ![i] = GetIncrementVersion(@)]
    /\ incarnation' = [incarnation EXCEPT ![i] = @ + 1]
    /\ issued' = issued \cup {[Id |-> i % IdCount, Version |-> versionOf'[i],
                               node |-> i, birth |-> incarnation'[i]]}

\* Any free node, that of NullId and those behind it included.
CreateEntity ==
    /\ CreatedIndex(entityNodes) \in EntityIndices
    /\ entityNodes' = Create(entityNodes)
    /\ Issue(CreatedIndex(entityNodes))

\* NullId, and an id in use, give the null entity; the latter may cost a page.
CreateWithSpecificId(i) ==
    IF i = NullId THEN UNCHANGED entityVars
    ELSE /\ entityNodes' = CreateAt(entityNodes, i)
         /\ IF Get(entityNodes, i)
            THEN UNCHANGED <<versionOf, incarnation, issued>>
            ELSE Issue(i)

\* What Get(e.GetId()) == e tells a holder, and Destroy asks.
IsCurrent(e) == Get(entityNodes, e.Id) /\ versionOf[e.Id] = e.Version

Destroy(e) ==
    /\ IsCurrent(e)
    /\ entityNodes' = Erase(entityNodes, e.Id)
    /\ UNCHANGED <<versionOf, incarnation, issued>>

EntityNext ==
    \/ CreateEntity
    \/ \E i \in EntityIndices : CreateWithSpecificId(i)
    \/ \E e \in issued : Destroy(e)

EntitySpec == EntityInit /\ [][EntityNext]_entityVars

-----------------------------------------------------------------------------
(* Properties.                                                             *)

\* An Entity of one of the first IdCount nodes names the creation that returned it,
\* until that node has been created Versions times again: whatever entities that
\* share its id are created and destroyed, a holder neither sees nor destroys its
\* successor (EntityManager.h:76-120).  An Entity of a later node names another
\* node, which is why it is left out (Entity.h:19).
EntityNamesOneCreation ==
    \A e \in issued :
        /\ e.node < IdCount /\ IsCurrent(e)
        /\ incarnation[e.Id] < e.birth + Versions
        => incarnation[e.Id] = e.birth
=============================================================================
