\* One topic and three connected peers that dialled us, one of which only speaks
\* floodsub; scores, backoffs and fanout.
SPECIFICATION Spec
CONSTANTS
    p1 = p1
    p2 = p2
    p3 = p3
    p4 = p4
    p5 = p5
    t1 = t1
    t2 = t2
    Peers <- ThreePeers
    Topics = {t1}
    FloodPeers = {p3}
    Rejected = {}
    DirectInit = {}
    DirectCandidates = {}
    ChurnPeers = {}
    OutboundInit = {}
    LaggingPeers = {}
    QueueSize = 1
    D = 2
    Dlo = 2
    Dhi = 2
    Dscore = 1
    Dout = 0
    PruneBackoff = 2
    UnsubscribeBackoff = 1
    PeerBackoffs <- OneOrPast
    BackoffSlack = 0
    ClearBackoffTicks = 1
    FanoutTTL = 0
    OpportunisticGraftTicks = 2
    OpportunisticGraftPeers = 1
    OpportunisticGraftThreshold = 1
    Scores <- ThreeScores
    PublishThreshold <- MinusOne
    GossipThreshold <- MinusOne
    GraylistThreshold <- MinusOne
    FloodPublish = FALSE
SYMMETRY MeshSymmetry
INVARIANTS BackoffRespected FanoutExclusive TrimKeepsBest
PROPERTIES GraftEligible
