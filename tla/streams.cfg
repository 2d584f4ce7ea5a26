\* Three streams the peer opens, which replace one another, and a channel with one
\* place; a peer that is noticed twice and respawned once, again after TimeToLive.
SPECIFICATION StreamsSpec
CONSTANTS
    Streams = {s1, s2, s3}
    None = None
    IncomingCap = 1
    MaxRPCs = 1
    MaxQueues = 5
    MaxBackoffAttempts = 1
    MaxNotices = 2
CHECK_DEADLOCK FALSE
INVARIANTS ReplacedFirst NoTopicLeak PendingSignalled QueueServed
PROPERTIES ResetEnds DisconnectedForgotten
