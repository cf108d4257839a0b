----------------------------- MODULE MCTransfers -----------------------------
(* Instances of Transfers for TLC.                                          *)
EXTENDS Transfers, TLC
CONSTANTS w1, w2, s1
MCWorkers == {w1, w2}
MCServers == {s1}
=============================================================================
