\* A topic is joined again while an announcement waits for its retry.
SPECIFICATION AnnFairSpec
CONSTANTS
    MaxSubs = 2
    MaxRelays = 1
    OutboundQueue = 1
    MaxMoves = 11
CHECK_DEADLOCK FALSE
PROPERTIES FanoutNotAnnounced
