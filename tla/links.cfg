\* A peer whose streams come and go and whose writer lags, and which the application
\* makes direct and ordinary again; the heartbeat and the clock are fair.
SPECIFICATION FairSpec
CONSTANTS
    p1 = p1
    p2 = p2
    p3 = p3
    p4 = p4
    p5 = p5
    t1 = t1
    t2 = t2
    Peers = {p1}
    Topics = {t1}
    FloodPeers = {}
    Rejected = {}
    DirectInit = {}
    DirectCandidates = {p1}
    ChurnPeers = {p1}
    OutboundInit = {}
    LaggingPeers = {p1}
    QueueSize = 1
    D = 2
    Dlo = 1
    Dhi = 2
    Dscore = 1
    Dout = 0
    PruneBackoff = 1
    UnsubscribeBackoff = 1
    PeerBackoffs = {}
    BackoffSlack = 0
    ClearBackoffTicks = 1
    FanoutTTL = 0
    OpportunisticGraftTicks = 1
    OpportunisticGraftPeers = 1
    OpportunisticGraftThreshold = 0
    Scores <- SignScores
    PublishThreshold <- MinusOne
    GossipThreshold <- MinusOne
    GraylistThreshold <- MinusOne
    FloodPublish = TRUE
PROPERTIES PendingPruneKept BackoffEventuallyCleared MeshRecovers
