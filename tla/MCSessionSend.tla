---------------------------- MODULE MCSessionSend ----------------------------
(* A small instance of SessionSend for TLC.                                *)
EXTENDS SessionSend

CONSTANTS w1, w2

TwoWorkers == {w1, w2}
=============================================================================
