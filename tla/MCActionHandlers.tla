-------------------------- MODULE MCActionHandlers --------------------------
(* Instances of ActionHandlers for TLC.                                     *)
EXTENDS ActionHandlers, TLC
CONSTANTS w1, w2, s1
MCWorkers == {w1, w2}
=============================================================================
