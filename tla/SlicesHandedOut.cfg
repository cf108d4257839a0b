SPECIFICATION Spec
SYMMETRY PeerSymmetry
CONSTANTS
  Peers = {p1, p2, p3}
  NumSlices = 4
  NoPeer = NoPeer
  MaxRounds = 2
  MaxRemovals = 2
INVARIANT RepeatsNeedRemovals
PROPERTY RoundCoversDataset
CHECK_DEADLOCK FALSE
