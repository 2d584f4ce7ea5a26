\* One busy peer and one that shares its addresses; two gated peers on two addresses.
SPECIFICATION Spec
CONSTANTS
    p1 = p1
    p2 = p2
    ip1 = ip1
    Peers = {p1, p2}
    Busy = {p1}
    IPs = {ip1}
    Whitelisted = {}
    MaxConns = 2
    FirstCaps = {1, 2}
    MeshCaps = {1}
    MeshMessageDeliveriesThreshold = 1
    MeshMessageDeliveriesActivation = 0
    TimeInMeshCap = 1
    TopicScoreCap = 2
    TimeInMeshWeight = 1
    FirstMessageDeliveriesWeight = 1
    MeshMessageDeliveriesWeight <- MinusOne
    MeshFailurePenaltyWeight <- MinusOne
    InvalidMessageDeliveriesWeight <- MinusTwo
    TopicWeight = 1
    AppSpecificScore <- Liked
    IPColocationFactorThreshold = 1
    IPColocationFactorWeight <- MinusTwo
    BehaviourPenaltyThreshold = 0
    BehaviourPenaltyWeight <- MinusOne
    RetainScore = 0
    MaxPenalty = 1
    GatedPeers = {q1, q2}
    Addresses = {a1, a2}
    RetainStats = 0
    Quiet = 0
    MaxEvents = 1
    MaxOpen = 2
SYMMETRY GaterSymmetry
INVARIANTS IPsConsistent MeshAgrees StreamsBound
PROPERTIES NoWhitewash
