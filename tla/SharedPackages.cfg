SPECIFICATION PackagesSpec
CONSTANTS
    Callers = {c1, c2, c3}
    FailureThreshold = 2
    SuccessThreshold = 2
    LockClients = {l1, l2}
    RetryCount = 1
    MaxToken = 4
    Nobody = Nobody
    Requests = {r1, r2}
    Limit = 1
    TicksPerWindow = 2
    BlockThreshold = 2
    MaxRedisErrors = 2
    Versions = {1, 2, 3}
    Conns = {n1, n2, n3}
    MaxConnections = 1
    HttpRequests = {h1, h2}
    Databases = {d1, d2}
    Handlers = {g1, g2}
    Upstreams = 2
    MaxFailures = 2
    Retries = 1
INVARIANTS
    OneProbe
    HolderOwnsKey
    AdmissionsBounded
    ConnectionsCounted
    FailedUpUndone
PROPERTIES
    BreakerCloses
    PoolsOutliveRequests
    GatewayRecovers
CHECK_DEADLOCK FALSE
