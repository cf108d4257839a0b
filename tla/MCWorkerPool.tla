---------------------------- MODULE MCWorkerPool ----------------------------
(***************************************************************************)
(* Small instances of WorkerPool for TLC.                                  *)
(***************************************************************************)
EXTENDS WorkerPool

=============================================================================
