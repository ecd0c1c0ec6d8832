SPECIFICATION Spec
CONSTANTS
    Bidders = {w, l}
    Winner = w
    Requests = {r1, r2}
    ClientKeys = {k1}
    HoldIds = {h1, h2, h3}
    Amounts = {1}
    InitialBalance = 2
    MaxBalance = 2
    PoolSize = 3
    MayFail = FALSE
    None = None
INVARIANTS NoDoubleCharge
