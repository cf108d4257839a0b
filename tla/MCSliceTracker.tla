--------------------------- MODULE MCSliceTracker ---------------------------
(***************************************************************************)
(* Small instances of SliceTracker for TLC.                                *)
(***************************************************************************)
EXTENDS SliceTracker, TLC

PeerSymmetry == Permutations(Peers)
=============================================================================
