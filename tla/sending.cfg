\* Two groups of partial messages; two messages of three and two RPCs, the second one
\* published for this process only when it is not in a batch, and two callers; RPCs of up
\* to two messages and three other entries; a queue of two places with two pushers and two
\* poppers.
SPECIFICATION SendingSpec
CONSTANTS
    p1 = p1
    p2 = p2
    g1 = g1
    g2 = g2
    m1 = m1
    m2 = m2
    c1 = c1
    c2 = c2
    Partners = {p1, p2}
    Groups = {g1, g2}
    GroupTTL = 1
    TotalLimit = 2
    PeerLimit = 1
    MaxRPCSize = 6
    MaxControlSize = 5
    Sizes = {1, 3, 7}
    HaveTopics = {t1, t2}
    MaxMessages = 2
    MaxEntries = 3
    Texts = {m1, m2}
    LocalOnly = {m2}
    Callers = {c1, c2}
    MaxBatch = 2
    Fanout <- RpcsOfEach
    Pushers = {u1, u2}
    Poppers = {o1, o2}
    MaxSize = 2
    Pushes = 2
CHECK_DEADLOCK FALSE
INVARIANTS NoPhantomGroups SplitFaithful  NoLostWakeup
PROPERTIES ImplementsQueue CloseReleases
