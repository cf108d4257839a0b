---------------------------- MODULE MCSliceFetch ----------------------------
(* Instances of SliceFetch for TLC.                                         *)
EXTENDS SliceFetch, TLC
CONSTANTS l1, l2, s1, d1
MCLoaders == {l1, l2}
MCSlices == {s1}
MCProviders == {d1}
=============================================================================
