-------------------------- MODULE GracefulShutdown --------------------------
(***************************************************************************)
(* The shutdown sequence of pkg/shutdown: WebSocket close frames, Kafka      *)
(* flush (which closes the producer), drain of the HTTP server, database     *)
(* pools; each phase with a time-out of its own.  "Stop accepting" is a log  *)
(* line in the code: requests arrive until http.Server.Shutdown is called.   *)
(* A request of a service stores its result and then publishes an event.    *)
(***************************************************************************)
EXTENDS Naturals, FiniteSets

CONSTANTS
    HttpRequests,
    Databases

VARIABLES
    phase,          \* the step of Shutdown
    serving,        \* request -> where it is
    producerOpen,
    openPools,      \* database pools that are open
    closing,        \* pools the shutdown still waits for
    forced,         \* history: did the drain time out?
    brokenWrites,   \* history: requests that met a closed pool
    lostEvents      \* history: requests that stored a result and met a closed producer

shutdownVars == <<phase, serving, producerOpen, openPools, closing, forced, brokenWrites,
                  lostEvents>>

Phases == <<"running", "websockets", "kafka", "drain", "databases", "stopped">>

ShutdownTypeOK ==
    /\ \E n \in 1 .. 6 : phase = Phases[n]
    /\ serving \in [HttpRequests -> {"none", "store", "publish", "done"}]
    /\ {producerOpen, forced} \subseteq BOOLEAN
    /\ {openPools, closing} \subseteq SUBSET Databases
    /\ {brokenWrites, lostEvents} \subseteq SUBSET HttpRequests

ShutdownInit ==
    /\ phase = "running"
    /\ serving = [r \in HttpRequests |-> "none"]
    /\ producerOpen = TRUE /\ forced = FALSE
    /\ openPools = Databases /\ closing = {}
    /\ brokenWrites = {} /\ lostEvents = {}

InFlight == {r \in HttpRequests : serving[r] \in {"store", "publish"}}

resources == <<producerOpen, openPools, closing>>

-----------------------------------------------------------------------------
Arrive(r) ==
    /\ serving[r] = "none"
    /\ phase \in {"running", "websockets", "kafka"}
    /\ serving' = [serving EXCEPT ![r] = "store"]
    /\ UNCHANGED <<phase, resources, forced, brokenWrites, lostEvents>>

Store(r) ==
    /\ serving[r] = "store"
    /\ IF openPools = Databases
       THEN serving' = [serving EXCEPT ![r] = "publish"] /\ UNCHANGED brokenWrites
       ELSE serving' = [serving EXCEPT ![r] = "done"] /\ brokenWrites' = brokenWrites \cup {r}
    /\ UNCHANGED <<phase, resources, forced, lostEvents>>

PublishResult(r) ==
    /\ serving[r] = "publish"
    /\ serving' = [serving EXCEPT ![r] = "done"]
    /\ lostEvents' = IF producerOpen THEN lostEvents ELSE lostEvents \cup {r}
    /\ UNCHANGED <<phase, resources, forced, brokenWrites>>

\* The signal: Shutdown runs once.
Signal ==
    /\ phase = "running"
    /\ phase' = "websockets"
    /\ UNCHANGED <<serving, resources, forced, brokenWrites, lostEvents>>

\* CloseAll returns: all clients acknowledged, or its context ended.
CloseWebSockets ==
    /\ phase = "websockets"
    /\ phase' = "kafka"
    /\ UNCHANGED <<serving, resources, forced, brokenWrites, lostEvents>>

\* Flush closes the producer; on a time-out Close goes on in its goroutine.
FlushKafka ==
    /\ phase = "kafka"
    /\ producerOpen' = FALSE
    /\ phase' = "drain"
    /\ UNCHANGED <<serving, openPools, closing, forced, brokenWrites, lostEvents>>

\* Variant: the drain does not wait.
DrainNoWait ==
    /\ phase = "drain"
    /\ phase' = "databases" /\ closing' = Databases
    /\ UNCHANGED <<serving, producerOpen, openPools, forced, brokenWrites, lostEvents>>

\* http.Server.Shutdown returns when no request is in flight.
Drain ==
    /\ phase = "drain" /\ InFlight = {}
    /\ phase' = "databases" /\ closing' = Databases
    /\ UNCHANGED <<serving, producerOpen, openPools, forced, brokenWrites, lostEvents>>

\* Its time-out passes: the connections are cut, the handlers run on.
DrainTimesOut ==
    /\ phase = "drain" /\ InFlight # {}
    /\ phase' = "databases" /\ closing' = Databases
    /\ forced' = TRUE
    /\ UNCHANGED <<serving, producerOpen, openPools, brokenWrites, lostEvents>>

\* A pool is closed, or its Close outlives DBCloseTimeout and is left behind.
ClosePool ==
    /\ phase = "databases"
    /\ \E d \in closing :
          /\ closing' = closing \ {d}
          /\ openPools' \in {openPools, openPools \ {d}}
    /\ UNCHANGED <<phase, serving, producerOpen, forced, brokenWrites, lostEvents>>

PoolsClosed ==
    /\ phase = "databases" /\ closing = {}
    /\ phase' = "stopped"
    /\ UNCHANGED <<serving, resources, forced, brokenWrites, lostEvents>>

ShutdownStep ==
    \/ CloseWebSockets \/ FlushKafka \/ Drain \/ DrainTimesOut \/ ClosePool \/ PoolsClosed

ShutdownNext ==
    \/ \E r \in HttpRequests : Arrive(r) \/ Store(r) \/ PublishResult(r)
    \/ Signal \/ ShutdownStep

\* Each phase ends, at the latest with its time-out.
ShutdownFairness == WF_shutdownVars(ShutdownStep)

-----------------------------------------------------------------------------
\* No request meets a closed database unless the drain timed out, although
\* requests are accepted until the drain begins; and a shutdown comes to its
\* end whatever hangs.
PoolsOutliveRequests ==
    /\ [](brokenWrites # {} => forced)
    /\ (phase = "websockets") ~> (phase = "stopped")
=============================================================================
