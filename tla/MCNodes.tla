------------------------------- MODULE MCNodes -------------------------------
(* Instances of Nodes for TLC.                                              *)
EXTENDS Nodes, TLC
CONSTANTS g1, g2, d1, s1, w1, w2, i1
MCNode == {g1, g2, d1, s1, w1, w2, i1}
MCDeployments == {{g1, d1, s1}, {g1, g2, w1}, {g1, w2}, {g1, g2, i1}}
MCRelayed == {d1, s1, w1}
MCKindOf == [n \in MCNode |-> CASE n \in {g1, g2} -> "gateway" [] n = d1 -> "data"
                                [] n = s1 -> "scheduler" [] n \in {w1, w2} -> "worker"
                                [] n = i1 -> "inspect"]
=============================================================================
