SPECIFICATION MessagingSpec
CONSTANTS
    Events = {e1, e2}
    Identified = {e1}
    Members = {m1, m2}
    RetryCount = 1
    MaxLog = 2
    MaxRedisErrors = 1
    MaxRebalances = 1
    Pods = {p1, p2}
    NoPod = NoPod
    MaxTopic = 2
    MaxLosses = 2
    MaxFailures = 1
    Clients = {c1, c2}
    Deliverers = {d1, d2}
    BufferSize = 1
    Watchers = {w1, w2}
    SendBuffer = 1
    BroadcastBuffer = 2
    MaxBids = 4
INVARIANTS
    EventsAccounted
    EffectsOnce
    CommittedEventsApplied
    AppliedOnce
    HubConsistent
    StreamsUninterrupted
SYMMETRY Interchangeable
CHECK_DEADLOCK FALSE
