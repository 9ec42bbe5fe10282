------------------------------- MODULE ForkJoin -------------------------------
(***************************************************************************)
(* What ParallelFor promises: between the call and its return, the task is *)
(* run once for each of the indices, and never outside a call.             *)
(***************************************************************************)
EXTENDS Naturals

CONSTANT Indices

VARIABLES running,   \* a call is under way
          todo,      \* the indices it has not run yet
          results    \* of the last call: the indices whose results it returns

vars == <<running, todo, results>>

Init == running = FALSE /\ todo = {} /\ results = {}

Call(S) == /\ ~running /\ running' = TRUE
           /\ todo' = S /\ results' = {}

Run(i) == /\ running /\ i \in todo
          /\ todo' = todo \ {i}
          /\ UNCHANGED <<running, results>>

Return(R) == /\ running /\ todo = {}
             /\ running' = FALSE /\ results' = R
             /\ UNCHANGED todo

Next == \/ \E S \in SUBSET Indices : Call(S) \/ Return(S)
        \/ \E i \in Indices : Run(i)

Spec == Init /\ [][Next]_vars
=============================================================================
