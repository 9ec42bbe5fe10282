----------------------------- MODULE ActorRounds -----------------------------
(***************************************************************************)
(* What the round scheduler promises the actors: in every round each actor *)
(* runs once, in one thread, and no actor runs again before all of them    *)
(* have finished the round.  An actor therefore needs no lock for its own  *)
(* state.  Which thread runs it, and in what order, is left open.          *)
(***************************************************************************)
CONSTANT RunQueue       \* the indices of the registered actors

VARIABLES running,      \* actors inside Run
          done          \* actors that have finished the present round

vars == <<running, done>>

Init == running = {} /\ done = {}

Start(a) == /\ a \notin running \cup done
            /\ running' = running \cup {a}
            /\ UNCHANGED done

Finish(a) == /\ a \in running
             /\ running' = running \ {a}
             /\ done' = done \cup {a}

NewRound == /\ running = {} /\ done = RunQueue
            /\ done' = {}
            /\ UNCHANGED running

Next == NewRound \/ \E a \in RunQueue : Start(a) \/ Finish(a)

Spec == Init /\ [][Next]_vars
=============================================================================
