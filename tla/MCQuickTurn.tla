---------------------------- MODULE MCQuickTurn ----------------------------
(* QuickTurn on a small instance; its run checks liveness, so the workers  *)
(* are not declared interchangeable.                                       *)
EXTENDS QuickTurn, TLC

CONSTANTS w1, w2
=============================================================================
