SPECIFICATION BidSpec
CONSTANTS
    Requests = {r1, r2, r3}
    Users = {ann, bob, sue}
    SellerId = sue
    Amounts = {2, 3, 4}
    StartingPrice = 1
    ReservePrice = 3
    Funds = 9
    BidFaultKinds = {}
    MaxBidFaults = 0
    NoId = NoId
INVARIANT HighestBidWins
CHECK_DEADLOCK FALSE
