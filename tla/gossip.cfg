\* Our topic with two subscriptions and a relay, announced to a peer with a queue of one
\* RPC; two peers, an event handler and two readers; gossip of two messages with a peer,
\* with a window of two heartbeats of which one is gossiped, and limits of one or two.
SPECIFICATION ToldSpec
CONSTANTS
    p1 = p1
    p2 = p2
    h1 = h1
    r1 = r1
    r2 = r2
    MaxSubs = 2
    MaxRelays = 1
    OutboundQueue = 1
    MaxMoves = 11
    Members = {p1, p2}
    Handlers = {h1}
    Readers = {r1, r2}
    Limit = 2
    MaxBundle = 3
    Peers = {p1}
    Msgs = {m1, m2}
    Requested = {m1}
    Strategies = {"first", "last"}
    SeenTTL = 2
    HistoryLength = 2
    HistoryGossip = 1
    MaxIHaveMessages = 1
    MaxIHaveLength = 2
    MaxIDontWantMessages = 1
    MaxIDontWantLength = 1
    IDontWantMessageTTL = 1
    GossipRetransmission = 1
    IWantFollowupTime = 1
CHECK_DEADLOCK FALSE
INVARIANTS InterestAgrees EventsInOrder WakeupPending WindowServed PromisesIndexed UnwantedBound
PROPERTIES ViewConverges FanoutQuiet Settles
