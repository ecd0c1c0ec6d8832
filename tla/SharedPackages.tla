--------------------------- MODULE SharedPackages ---------------------------
(***************************************************************************)
(* The packages of pkg/ that keep state of their own, and the gateway's     *)
(* proxy, which has a breaker of its own.  They share no state and do not   *)
(* call one another, so no property of one depends on a step of another:    *)
(* one of them, `unit`, runs in a behaviour and the others stay as they     *)
(* began.                                                                   *)
(***************************************************************************)
EXTENDS CircuitBreaker, DistributedLock, RateLimiter, SchemaMigration,
        WebSocketLimiter, GracefulShutdown, GatewayProxy

VARIABLE unit

packageVars == <<breakerVars, lockVars, limiterVars, migrationVars, poolVars,
                 shutdownVars, gatewayVars, unit>>

Units == {"circuitbreaker", "lock", "ratelimit", "migrate", "pool", "shutdown", "proxy"}

PackagesInit ==
    /\ unit \in Units
    /\ BreakerInit /\ LockInit /\ LimiterInit /\ MigrationInit /\ PoolInit
    /\ ShutdownInit /\ GatewayInit

\* Only the variables of `unit` may change.
OthersStay ==
    /\ unit # "circuitbreaker" => UNCHANGED breakerVars
    /\ unit # "lock" => UNCHANGED lockVars
    /\ unit # "ratelimit" => UNCHANGED limiterVars
    /\ unit # "migrate" => UNCHANGED migrationVars
    /\ unit # "pool" => UNCHANGED poolVars
    /\ unit # "shutdown" => UNCHANGED shutdownVars
    /\ unit # "proxy" => UNCHANGED gatewayVars
    /\ UNCHANGED unit

PackagesNext ==
    \/ unit = "circuitbreaker" /\ BreakerNext /\ OthersStay
    \/ unit = "lock" /\ LockNext /\ OthersStay
    \/ unit = "ratelimit" /\ LimiterNext /\ OthersStay
    \/ unit = "migrate" /\ MigrationNext /\ OthersStay
    \/ unit = "pool" /\ PoolNext /\ OthersStay
    \/ unit = "shutdown" /\ ShutdownNext /\ OthersStay
    \/ unit = "proxy" /\ GatewayNext /\ OthersStay

PackagesSpec ==
    /\ PackagesInit
    /\ [][PackagesNext]_packageVars
    /\ BreakerFairness
    /\ ShutdownFairness
    /\ GatewayFairness

=============================================================================
