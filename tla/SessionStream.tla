---------------------------- MODULE SessionStream ----------------------------
(***************************************************************************)
(* What the network server promises the actors about a connection, with no *)
(* thread, lock or operation in sight: a context is opened once, messages  *)
(* are delivered for it only while it is open, it is closed once, and then *)
(* its end is reported exactly one time.  An actor may therefore forget a  *)
(* context on Msg_SessionDisconnected: nothing of it comes afterwards.     *)
(***************************************************************************)
EXTENDS Naturals

CONSTANT Contexts

VARIABLES phase,      \* "new", "open" or "closed", per context
          dispatched, \* Msg_Cts delivered, per context
          gone        \* Msg_SessionDisconnected delivered, per context

vars == <<phase, dispatched, gone>>

Init == /\ phase = [c \in Contexts |-> "new"]
        /\ dispatched = [c \in Contexts |-> 0]
        /\ gone = [c \in Contexts |-> 0]

Open(c) == /\ phase[c] = "new"
           /\ phase' = [phase EXCEPT ![c] = "open"]
           /\ UNCHANGED <<dispatched, gone>>

Deliver(c) == /\ phase[c] = "open"
              /\ dispatched' = [dispatched EXCEPT ![c] = @ + 1]
              /\ UNCHANGED <<phase, gone>>

Close(c) == /\ phase[c] = "open"
            /\ phase' = [phase EXCEPT ![c] = "closed"]
            /\ UNCHANGED <<dispatched, gone>>

Report(c) == /\ phase[c] = "closed" /\ gone[c] = 0
             /\ gone' = [gone EXCEPT ![c] = 1]
             /\ UNCHANGED <<phase, dispatched>>

Next == \E c \in Contexts : Open(c) \/ Deliver(c) \/ Close(c) \/ Report(c)

Spec == Init /\ [][Next]_vars
=============================================================================
