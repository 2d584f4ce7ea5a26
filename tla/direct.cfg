\* A direct peer, a peer the filter refuses and three ordinary ones.
SPECIFICATION Spec
CONSTANTS
    p1 = p1
    p2 = p2
    p3 = p3
    p4 = p4
    p5 = p5
    t1 = t1
    t2 = t2
    Peers <- FivePeers
    Topics = {t1}
    FloodPeers = {}
    Rejected <- OneRejected
    DirectInit = {p1}
    DirectCandidates = {}
    ChurnPeers = {}
    OutboundInit = {}
    LaggingPeers = {}
    QueueSize = 1
    D = 2
    Dlo = 2
    Dhi = 2
    Dscore = 1
    Dout = 0
    PruneBackoff = 1
    UnsubscribeBackoff = 1
    PeerBackoffs = {}
    BackoffSlack = 0
    ClearBackoffTicks = 1
    FanoutTTL = 0
    OpportunisticGraftTicks = 1
    OpportunisticGraftPeers = 1
    OpportunisticGraftThreshold = 0
    Scores = {0}
    PublishThreshold <- MinusOne
    GossipThreshold <- MinusOne
    GraylistThreshold <- MinusOne
    FloodPublish = FALSE
SYMMETRY OrdinarySymmetry
INVARIANTS FanoutFiltered TakeoverBound
PROPERTIES NoDirectGraft
