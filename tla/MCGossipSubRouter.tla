-------------------------- MODULE MCGossipSubRouter --------------------------
(* Instances of GossipSubRouter for TLC.                                   *)
EXTENDS GossipSubRouter, TLC

CONSTANTS p1, p2, p3, p4, p5, t1, t2

ThreePeers == {p1, p2, p3}
FivePeers  == {p1, p2, p3, p4, p5}

OneRejected == {<<p2, t1>>}

\* A score below zero that is still above the graylist threshold, and two others
SignScores  == {-1, 0}
ThreeScores == {-1, 0, 1}
MinusOne    == -1

\* What a remote PRUNE can ask for: one unit, or a number of seconds that wraps
\* around when it is turned into a Duration and lies in the past
OneOrPast == {-1, 1}

MeshSymmetry == Permutations(Peers \ FloodPeers)
OrdinarySymmetry == Permutations(Peers \ {p1, p2})
=============================================================================
