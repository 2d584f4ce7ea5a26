------------------------------ MODULE MCScoring ------------------------------
(* The peer score and the peer gater on small instances.  They share no    *)
(* state and are checked side by side: in a behaviour only one of them     *)
(* moves.                                                                  *)
EXTENDS PeerScore, PeerGater, TLC

CONSTANTS p1, p2, ip1

VARIABLE part

MinusOne == -1
MinusTwo == -2
Liked    == [p \in {p1, p2} |-> IF p = p2 THEN 1 ELSE 0]

Init ==
    \/ /\ part = "score" /\ ScoreInit /\ GaterInit
       /\ \E a \in Addresses : address = [p \in GatedPeers |-> a]
    \/ part = "gater" /\ ScoreInit /\ GaterInit /\ params = NoParams

Next == \/ part = "score" /\ ScoreNext /\ UNCHANGED <<part, gaterVars>>
        \/ part = "gater" /\ GaterNext /\ UNCHANGED <<part, scoreVars>>

Spec == Init /\ [][Next]_<<part, scoreVars, gaterVars>>

\* The gater only compares its peers and its addresses.
GaterSymmetry == Permutations(GatedPeers) \cup Permutations(Addresses)
=============================================================================
