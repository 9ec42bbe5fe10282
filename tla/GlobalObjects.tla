----------------------------- MODULE GlobalObjects -----------------------------
(***************************************************************************)
(* The global objects that relate players, characters, contexts and        *)
(* entities: G_Possession and G_PlayerCharacters, with the event queue and *)
(* the system that ends the possession of a session that is gone.  One     *)
(* thread calls them, and with any Entity, be it of a live entity or not.  *)
(* Each map is a SparseList used by EmplaceAt only (SparseList,            *)
(* ImplementsIdMap).  The process ends when a check fails: `abort` says    *)
(* whether it is one of a map (EmplaceAt, EraseBySparseIndex) or the       *)
(* integrity check of AddOwnership, whose callers may pass anything.       *)
(***************************************************************************)
EXTENDS Naturals, Sequences, FiniteSets

CONSTANTS Contexts, Players, Characters, EntityIds, EntityVersions,
          MaxEvents,     \* bound: events in the queue
          NullEntity

Entities == [Id : EntityIds, Version : EntityVersions]

\* Entity::NullEntity is none that is handed out.
ASSUME ObjectAssumption == NullEntity \notin Entities

VARIABLES
    contextEntityMap, entityContextMap,     \* of G_Possession
    characterEntityMap, entityPlayerMap, entityCharacterMap,
    sessionErased,   \* the queue of Event_SessionErased
    abort            \* "no", or the check that has failed

possession == <<contextEntityMap, entityContextMap>>
ownership == <<characterEntityMap, entityPlayerMap, entityCharacterMap>>
objectVars == <<possession, ownership, sessionErased, abort>>

EmptyMap == <<>>

ObjectsInit ==
    /\ contextEntityMap = EmptyMap /\ entityContextMap = EmptyMap
    /\ characterEntityMap = EmptyMap
    /\ entityPlayerMap = EmptyMap /\ entityCharacterMap = EmptyMap
    /\ sessionErased = <<>> /\ abort = "no"

\* EmplaceAt and EraseBySparseIndex of a SparseList.
EmplacedAt(map, i, d) == [j \in DOMAIN map \cup {i} |-> IF j = i THEN d ELSE map[j]]
Erased(map, i) == [j \in DOMAIN map \ {i} |-> map[j]]

\* The check of a map, which ends the process on an index in use, or not in use.
AbortIf(failed) == abort' = IF failed THEN "map" ELSE abort

-----------------------------------------------------------------------------
(* G_Possession.                                                           *)

\* Mutant: an entity may be possessed twice.
CanPossessAnyEntity(c, e) == c \notin DOMAIN contextEntityMap

\* DuplicateContext and EntityAlreadyPossessed.
CanPossess(c, e) == /\ c \notin DOMAIN contextEntityMap
                    /\ e.Id \notin DOMAIN entityContextMap

TryPossess(c, e) ==
    /\ CanPossess(c, e)
    /\ AbortIf(c \in DOMAIN contextEntityMap \/ e.Id \in DOMAIN entityContextMap)
    /\ contextEntityMap' = EmplacedAt(contextEntityMap, c, e)
    /\ entityContextMap' = EmplacedAt(entityContextMap, e.Id, <<e.Version, c>>)
    /\ UNCHANGED <<ownership, sessionErased>>

\* Both maps after UnpossessByContext of every element of `contexts`, in turn,
\* and whether one of the erasures has aborted.
UnpossessAll(contexts) ==
    LET after[k \in 0..Len(contexts)] ==
            IF k = 0 THEN <<contextEntityMap, entityContextMap, FALSE>>
            ELSE LET c == contexts[k]
                     p == after[k - 1]
                 IN IF c \notin DOMAIN p[1] THEN p
                    ELSE <<Erased(p[1], c), Erased(p[2], p[1][c].Id),
                           p[3] \/ p[1][c].Id \notin DOMAIN p[2]>>
    IN after[Len(contexts)]

UnpossessByContext(c) ==
    LET p == UnpossessAll(<<c>>)
    IN /\ contextEntityMap' = p[1] /\ entityContextMap' = p[2] /\ AbortIf(p[3])
       /\ UNCHANGED <<ownership, sessionErased>>

IsPossessed(e) == /\ e.Id \in DOMAIN entityContextMap
                  /\ entityContextMap[e.Id][1] = e.Version

UnpossessByEntity(e) ==
    /\ IsPossessed(e)
    /\ LET c == entityContextMap[e.Id][2]
       IN /\ AbortIf(c \notin DOMAIN contextEntityMap)
          /\ contextEntityMap' = Erased(contextEntityMap, c)
    /\ entityContextMap' = Erased(entityContextMap, e.Id)
    /\ UNCHANGED <<ownership, sessionErased>>

-----------------------------------------------------------------------------
(* The events of the sessions.                                             *)

Push(c) ==
    /\ Len(sessionErased) < MaxEvents
    /\ sessionErased' = Append(sessionErased, c)
    /\ UNCHANGED <<possession, ownership, abort>>

S_PlayerCharacters_UnpossessOnDisconnected ==
    LET p == UnpossessAll(sessionErased)
    IN /\ contextEntityMap' = p[1] /\ entityContextMap' = p[2] /\ AbortIf(p[3])
       /\ UNCHANGED <<ownership, sessionErased>>

Clear == /\ sessionErased' = <<>>
         /\ UNCHANGED <<possession, ownership, abort>>

-----------------------------------------------------------------------------
(* G_PlayerCharacters.                                                     *)

\* The integrity check of AddOwnership.
MayOwn(character, e) == /\ character \notin DOMAIN characterEntityMap
                        /\ e.Id \notin DOMAIN entityPlayerMap
                        /\ e.Id \notin DOMAIN entityCharacterMap

AddOwnership(player, character, e) ==
    /\ \/ /\ MayOwn(character, e)
          /\ characterEntityMap' = EmplacedAt(characterEntityMap, character, e)
          /\ entityPlayerMap' = EmplacedAt(entityPlayerMap, e.Id, <<e.Version, player>>)
          /\ entityCharacterMap' = EmplacedAt(entityCharacterMap, e.Id, <<e.Version, character>>)
          /\ UNCHANGED abort
       \/ /\ ~MayOwn(character, e)
          /\ abort' = "owner"
          /\ UNCHANGED ownership
    /\ UNCHANGED <<possession, sessionErased>>

\* It aborts on an entity without character or player.
GetEntityOf(player, character) ==
    IF character \notin DOMAIN characterEntityMap THEN NullEntity
    ELSE LET e == characterEntityMap[character]
         IN IF entityPlayerMap[e.Id][2] = player THEN e ELSE NullEntity

ObjectsNext ==
    /\ abort = "no"
    /\ \/ \E c \in Contexts, e \in Entities : TryPossess(c, e)
       \/ \E c \in Contexts : UnpossessByContext(c) \/ Push(c)
       \/ \E e \in Entities : UnpossessByEntity(e)
       \/ S_PlayerCharacters_UnpossessOnDisconnected \/ Clear
       \/ \E player \in Players, character \in Characters, e \in Entities :
              AddOwnership(player, character, e)

ObjectsSpec == ObjectsInit /\ [][ObjectsNext]_objectVars

-----------------------------------------------------------------------------
(* Properties.                                                             *)

\* The two maps of G_Possession are each other's inverse, and none of its
\* operations, which look at one map before they change both, fails a check of a
\* map (G_Possession.cpp:7-45).
PossessionIsOneToOne ==
    /\ abort # "map"
    /\ \A c \in DOMAIN contextEntityMap :
          LET e == contextEntityMap[c]
          IN e.Id \in DOMAIN entityContextMap /\ entityContextMap[e.Id] = <<e.Version, c>>
    /\ \A i \in DOMAIN entityContextMap :
          LET c == entityContextMap[i][2]
          IN c \in DOMAIN contextEntityMap /\ contextEntityMap[c].Id = i

\* A character belongs to one player, and GetEntityOf finds its entity for this
\* player alone and never aborts (G_PlayerCharacters.cpp:8-40).
OwnershipIsExact ==
    \A character \in DOMAIN characterEntityMap :
        LET e == characterEntityMap[character]
        IN /\ e.Id \in DOMAIN entityCharacterMap \cap DOMAIN entityPlayerMap
           /\ entityCharacterMap[e.Id] = <<e.Version, character>>
           /\ Cardinality({q \in Players : GetEntityOf(q, character) = e}) = 1

\* The invariant of the world that the systems work on.
GlobalMapsAgree == PossessionIsOneToOne /\ OwnershipIsExact
=============================================================================
