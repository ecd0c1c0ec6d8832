SPECIFICATION FairSpec
CONSTANTS
    Users = {u1}
    Requests = {r1, r2}
    Keys = {k1}
    HoldIds = {h1, h2}
    Amounts = {1, 2}
    InitialBalance = 2
    MaxBalance = 2
    CheckMayFail = TRUE
    None = None
INVARIANTS TypeOK ReadsAreFresh
PROPERTIES SettledOnce HeldFollowsHolds CallsEnd
