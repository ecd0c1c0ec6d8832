SPECIFICATION LifeFairSpec
CONSTANTS
    Auctions = {a1}
    Pods = {p1, p2}
    MaxBid = 2
    Reserves = {1, 2}
    MaxEvents = 6
    LifeFaultKinds = {"read", "write", "ack", "publish", "retry", "unlock", "crash"}
    MaxLifeFaults = 3
    None = None
INVARIANTS EndedOnce
PROPERTIES ExpiredAuctionsEnd WinnersAreAnnounced
CHECK_DEADLOCK FALSE
