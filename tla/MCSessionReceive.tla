--------------------------- MODULE MCSessionReceive ---------------------------
(* Small instances of SessionReceive for TLC.                              *)
EXTENDS SessionReceive

CONSTANTS w1, w2

TwoWorkers == {w1, w2}

\* The body of the third message wraps around a ring of four.
ThreeMessages == <<0, 0, 2>>
=============================================================================
