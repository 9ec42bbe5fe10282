------------------------------ MODULE SparseArray ------------------------------
(***************************************************************************)
(* SparseArray.h: as SparseList, but the data lie in the dense array and   *)
(* move with it, and the container chooses every index.                    *)
(***************************************************************************)
EXTENDS IndexedUnmanagedList

CONSTANTS ArrayIds,      \* bound: the indices it may give
          ArrayData,
          NoPlace        \* NullIndex

VARIABLES
    arrayNodes,   \* sparseBlocks_
    placeOf,      \* the dense index in each of them
    denseBlocks   \* those below count_: [SparseIndex, Data]

arrayVars == <<arrayNodes, placeOf, denseBlocks>>

arrayCount == Cardinality(DOMAIN denseBlocks)

ArrayInit == arrayNodes = EmptyList /\ placeOf = <<>> /\ denseBlocks = <<>>

With(f, x, v) == [y \in DOMAIN f \cup {x} |-> IF y = x THEN v ELSE f[y]]

EmplaceDatum(d) ==
    LET i == CreatedIndex(arrayNodes)
    IN /\ i \in ArrayIds
       /\ arrayNodes' = Create(arrayNodes)
       /\ placeOf' = With(placeOf, i, arrayCount)
       /\ denseBlocks' = With(denseBlocks, arrayCount, [SparseIndex |-> i, Data |-> d])

\* Mutant: the datum stays where it was.
PlaceWithoutLastDatum(place, last) ==
    [denseBlocks[place] EXCEPT !.SparseIndex = denseBlocks[last].SparseIndex]

\* What the erased place holds afterwards: the last block, moved.
PlaceWithLast(place, last) == denseBlocks[last]

EraseDatum(i) ==
    LET place == placeOf[i]
        last == arrayCount - 1
        cleared == [placeOf EXCEPT ![i] = NoPlace]
    IN /\ Get(arrayNodes, i)
       /\ arrayNodes' = Erase(arrayNodes, i)
       /\ placeOf' = IF place = last THEN cleared
                     ELSE [cleared EXCEPT ![denseBlocks[last].SparseIndex] = place]
       /\ denseBlocks' = [k \in 0..last - 1 |->
                             IF k = place THEN PlaceWithLast(place, last)
                             ELSE denseBlocks[k]]

ArrayNext == (\E d \in ArrayData : EmplaceDatum(d)) \/ (\E i \in ArrayIds : EraseDatum(i))

ArraySpec == ArrayInit /\ [][ArrayNext]_arrayVars

-----------------------------------------------------------------------------
(* Properties.                                                             *)

\* Get finds the datum that was emplaced under an index until that index is
\* erased, wherever the swap and pop has moved it (SparseArray.h:68-157).
ArrayMap == INSTANCE IdMap
    WITH Ids <- ArrayIds, Data <- ArrayData,
         map <- [i \in Allocated(arrayNodes) |-> denseBlocks[placeOf[i]].Data]
ArrayImplementsIdMap == ArrayMap!Spec
=============================================================================
