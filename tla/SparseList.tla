------------------------------ MODULE SparseList ------------------------------
(***************************************************************************)
(* SparseList.h: data lie in the nodes of an IndexedUnmanagedList, and a   *)
(* dense array of their indices is what an iteration runs through.  One    *)
(* thread uses it.  The owner takes the index a new datum gets (Emplace),  *)
(* or names it (EmplaceAt), as the global objects do.                      *)
(***************************************************************************)
EXTENDS IndexedUnmanagedList

CONSTANTS MaxIds,      \* bound: indices 0..MaxIds - 1
          NamedIds,    \* bound: the indices EmplaceAt is called with
          Data,
          NullIndex, NoIteration,
          Interfaces   \* the sets of operations an owner may restrict itself to

\* Every owner keeps to one way to emplace.
ASSUME InterfaceAssumption ==
    \A owner \in Interfaces : ~({"Emplace", "EmplaceAt"} \subseteq owner)
Ids == 0..MaxIds - 1

ASSUME IndexAssumption ==
    MaxIds \in Nat /\ NamedIds \subseteq Ids /\ NoIteration \notin Nat

VARIABLES
    operations,    \* those this owner uses
    sparseBlocks,  \* an IndexedUnmanagedList
    denseIndexOf,  \* DenseIndex of its nodes
    dataOf,        \* Data of its nodes
    dense,         \* the dense pages
    count,
    iterator,        \* denseIndex_ of an iteration, or NoIteration
    watched,       \* an index that was in use when it began, ...
    met,           \* ... and whether it has met it, or it was erased
    erasedInside   \* it has erased an element

listVars == <<sparseBlocks, denseIndexOf, dataOf, dense, count>>
iteratorVars == <<iterator, watched, met, erasedInside>>
sparseListVars == <<operations, listVars, iteratorVars>>

\* f with x mapped to v; a page more where x is new.
Put(f, x, v) == [y \in DOMAIN f \cup {x} |-> IF y = x THEN v ELSE f[y]]

ListInit ==
    /\ operations \in Interfaces
    /\ sparseBlocks = EmptyList
    /\ denseIndexOf = <<>> /\ dataOf = <<>> /\ dense = <<>>
    /\ count = 0
    /\ iterator = NoIteration /\ watched = 0
    /\ met = FALSE /\ erasedInside = FALSE

EmplaceImpl(i, d) ==
    /\ denseIndexOf' = Put(denseIndexOf, i, count)
    /\ dataOf' = Put(dataOf, i, d)
    /\ dense' = Put(dense, count, i)
    /\ count' = count + 1

Emplace(d) ==
    /\ "Emplace" \in operations
    /\ CreatedIndex(sparseBlocks) \in Ids
    /\ sparseBlocks' = Create(sparseBlocks)
    /\ EmplaceImpl(CreatedIndex(sparseBlocks), d)
    /\ UNCHANGED <<operations, iteratorVars>>

\* What the owners ask before EmplaceAt, which aborts on an index in use.
IsFree(i) == ~Get(sparseBlocks, i)

EmplaceAt(i, d) ==
    /\ "EmplaceAt" \in operations
    /\ IsFree(i)
    /\ sparseBlocks' = CreateAt(sparseBlocks, i)
    /\ EmplaceImpl(i, d)
    /\ UNCHANGED <<operations, iteratorVars>>

\* Mutant: the block that moves keeps its dense index.
SwapAndPopDenseOnly(i) ==
    LET erased == denseIndexOf[i]
        last == count - 1
    IN /\ count' = last
       /\ dense' = [k \in 0..last - 1 |->
                      IF k = erased THEN dense[last] ELSE dense[k]]
       /\ denseIndexOf' = [denseIndexOf EXCEPT ![i] = NullIndex]

\* The last block of the dense array takes the place of the erased one.
SwapAndPop(i) ==
    LET erased == denseIndexOf[i]
        last == count - 1
        cleared == [denseIndexOf EXCEPT ![i] = NullIndex]
    IN /\ count' = last
       /\ dense' = [k \in 0..last - 1 |->
                      IF k = erased THEN dense[last] ELSE dense[k]]
       /\ denseIndexOf' = IF erased = last THEN cleared
                          ELSE [cleared EXCEPT ![dense[last]] = erased]

EraseBySparseIndex(i) ==
    /\ Get(sparseBlocks, i)
    /\ sparseBlocks' = Erase(sparseBlocks, i)
    /\ SwapAndPop(i)
    /\ dataOf' = [j \in DOMAIN dataOf \ {i} |-> dataOf[j]]
    /\ met' = (iterator # NoIteration /\ (met \/ i = watched))
    /\ erasedInside' = (iterator # NoIteration)
    /\ UNCHANGED <<operations, iterator, watched>>

-----------------------------------------------------------------------------
(* A range-based for over the dense array (MakeIterableFromThis.h).  Its   *)
(* body is any of the operations above.                                    *)

InUse == Allocated(sparseBlocks)

Begin ==
    /\ iterator = NoIteration
    /\ iterator' = 0
    /\ \E i \in InUse : watched' = i
    /\ UNCHANGED <<operations, listVars, met, erasedInside>>

\* operator*, and operator++ after the body.  shouldInvalidateIterator_, which
\* would hold the iterator back after an erasure, is never set.
Visit ==
    /\ iterator # NoIteration /\ iterator < count
    /\ met' = (met \/ dense[iterator] = watched)
    /\ iterator' = iterator + 1
    /\ UNCHANGED <<operations, listVars, watched, erasedInside>>

\* operator!= against end().
End ==
    /\ iterator # NoIteration /\ iterator >= count
    /\ iterator' = NoIteration /\ watched' = 0
    /\ met' = FALSE /\ erasedInside' = FALSE
    /\ UNCHANGED <<operations, listVars>>

ListNext ==
    \/ \E d \in Data : Emplace(d) \/ \E i \in NamedIds : EmplaceAt(i, d)
    \/ \E i \in Ids : EraseBySparseIndex(i)
    \/ Begin \/ Visit \/ End

ListSpec == ListInit /\ [][ListNext]_sparseListVars

-----------------------------------------------------------------------------
(* Properties.                                                             *)

\* The lists of sparseBlocks_ are exact for an owner that never names an index:
\* one visits the nodes in use, the other the rest, although Erase leaves the
\* Prev of its node stale (IndexedUnmanagedList.h:218-256).
ListsAreExact ==
    "EmplaceAt" \notin operations =>
        /\ Visits(sparseBlocks, sparseBlocks.used, InUse)
        /\ Visits(sparseBlocks, sparseBlocks.free, Nodes(sparseBlocks) \ InUse)

\* The dense array holds the indices in use, each once, and each node knows
\* its place there (SparseList.h:98-137), even for an owner whose lists are
\* corrupt.
DenseArrayIsExact ==
    /\ count = Cardinality(InUse)
    /\ \A i \in InUse : denseIndexOf[i] < count /\ dense[denseIndexOf[i]] = i

ContainerIsExact == ListsAreExact /\ DenseArrayIsExact

\* An iteration that erases nothing visits whatever it found there
\* (MakeIterableFromThis.h:48-60).
IterationIsComplete == [][End /\ ~erasedInside => met]_sparseListVars

\* Whatever becomes of the lists, owners that keep to one of the two ways to
\* emplace see a map from indices to data.
Map == INSTANCE IdMap
    WITH map <- [i \in Allocated(sparseBlocks) |-> dataOf[i]]
ListImplementsIdMap == Map!Spec
=============================================================================
