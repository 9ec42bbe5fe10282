------------------------- MODULE MCMainServerRounds -------------------------
(* A small instance of MainServerRounds for TLC.                           *)
EXTENDS MainServerRounds

CONSTANTS w1, w2, w3

ThreeWorkers == {w1, w2, w3}
=============================================================================
