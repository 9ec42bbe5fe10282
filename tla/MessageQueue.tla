---------------------------- MODULE MessageQueue ----------------------------
(***************************************************************************)
(* What a mailbox promises: the messages pushed to an actor are given to   *)
(* its handlers one by one, in the order they were pushed, each once.      *)
(***************************************************************************)
EXTENDS Sequences

CONSTANT Messages

VARIABLES queue,    \* pushed and not handled yet, in order
          handled   \* what the handlers have been given, in order

vars == <<queue, handled>>

Init == queue = <<>> /\ handled = <<>>

Push(m) == /\ queue' = Append(queue, m)
           /\ UNCHANGED handled

Handle == /\ queue # <<>>
          /\ queue' = Tail(queue)
          /\ handled' = Append(handled, Head(queue))

Next == Handle \/ \E m \in Messages : Push(m)

Spec == Init /\ [][Next]_vars
=============================================================================
