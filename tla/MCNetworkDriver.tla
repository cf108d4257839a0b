-------------------------- MODULE MCNetworkDriver --------------------------
(* Instances of NetworkDriver for TLC.                                      *)
EXTENDS NetworkDriver
CONSTANTS h1, r1, r2
MCHandlers == {h1}
MCRequests == {r1, r2}
=============================================================================
