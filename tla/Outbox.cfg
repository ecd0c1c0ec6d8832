SPECIFICATION FairSpec
CONSTANTS
    Events = {e1, e2}
    Aggregates = {a, b}
    Workers = {w1, w2}
    Partitions = {p1}
    BatchSize = 2
    MaxRetries = 2
    MaxFaults = 2
INVARIANTS DuplicatesBounded
PROPERTIES OutboxImplementsDelivery EventuallyDelivered
CHECK_DEADLOCK FALSE
