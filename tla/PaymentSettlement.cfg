SPECIFICATION FairSpec
CONSTANTS
    Bidders = {w, l}
    Winner = w
    Requests = {r1, r2}
    ClientKeys = {k1}
    HoldIds = {h1, h2}
    Amounts = {1}
    InitialBalance = 1
    MaxBalance = 2
    PoolSize = 3
    MayFail = TRUE
    None = None
INVARIANTS MoneyConserved LosersHoldsBacked
PROPERTIES RequestsReturn
