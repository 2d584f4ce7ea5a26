\* As in validation.cfg: a peer sends one of its messages twice.
SPECIFICATION Spec
CONSTANTS
    p1 = p1
    p2 = p2
    m1 = m1
    m2 = m2
    Self = self
    Peers = {p1, p2}
    Msgs = {m1, m2}
    MaxCount = 2
    Flaw <- OneForger
    Signed = {m1}
    InlineVals = {vi}
    AsyncVals = {va, vb}
    DefaultChoices = {{}, {vi, va}}
    TopicVals = {vb}
    Workers = {w1}
    QueueSize = 1
    Throttle = 1
    ValThrottle = 1
    SendSize = 1
    Published = {m1}
    Copies <- OneRepeated
INVARIANTS NoDoubleCount
CHECK_DEADLOCK FALSE
