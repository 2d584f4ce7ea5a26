\* One peer that is noticed once and respawned once, gated on one address.
SPECIFICATION GatedSpec
CONSTANTS
    MaxQueues = 2
    MaxBackoffAttempts = 1
    MaxNotices = 1
    GatedPeers = {p1}
    Addresses = {ip1}
    RetainStats = 0
    Quiet = 0
    MaxEvents = 1
    MaxOpen = 2
CHECK_DEADLOCK FALSE
INVARIANTS CountBound
