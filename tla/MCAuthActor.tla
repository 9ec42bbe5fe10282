---------------------------- MODULE MCAuthActor ----------------------------
(* A small instance of AuthActor for TLC.                                  *)
EXTENDS AuthActor

CONSTANTS c1, c2, a1, a2

TwoContexts == {c1, c2}
TwoAccounts == {a1, a2}
=============================================================================
