SPECIFICATION AccessSpec
CONSTANTS
    Pods = {p1, p2}
    KeyPool = {1, 2, 3, 4}
    GracePeriod = 2
    AccessTokenTTL = 2
    RotationInterval = 4
    OverlapPeriod = 3
    ServiceTokenTTL = 3
    Devices = {d1, d2}
    RefreshTokens = {t1, t2}
    MaxSessions = 2
    MaxSessionErrors = 1
CONSTRAINT Undivided
INVARIANTS
    TokensOutliveRotation
    OverlapCoversTokens
    SessionsBounded
    OneTokenPerLogin
CHECK_DEADLOCK FALSE
