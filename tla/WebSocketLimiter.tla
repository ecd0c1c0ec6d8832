-------------------------- MODULE WebSocketLimiter --------------------------
(***************************************************************************)
(* The connection limiter of pkg/pool/websocket.go.  TryAccept reads the     *)
(* counter and swaps it with compare-and-swap; Release decrements it and     *)
(* clamps it at zero in a second atomic operation.  A connection is released *)
(* by its own handler when it closes, and by whoever acts on                *)
(* TimedOutConnections: nothing keeps the two from doing it both.           *)
(***************************************************************************)
EXTENDS Integers, FiniteSets

CONSTANTS
    Conns,              \* connection ids
    MaxConnections

ASSUME PoolAssumption == MaxConnections \in Nat \ {0}

VARIABLES
    current,        \* wsl.current
    heartbeats,     \* keys of wsl.heartbeats
    silent,         \* connections whose last heartbeat is older than the time-out
    conn,           \* connection -> where it is
    loaded,         \* value a TryAccept loop has read
    reaping,        \* ids TimedOutConnections returned and the reaper still has to release
    clamping,       \* Release calls between Add and Store
    extra           \* history: releases of connections that were released already

poolVars == <<current, heartbeats, silent, conn, loaded, reaping, clamping, extra>>

PoolTypeOK ==
    /\ current \in Int
    /\ {heartbeats, silent, reaping, clamping} \subseteq SUBSET Conns
    /\ conn \in [Conns -> {"new", "loaded", "registering", "open", "reaped", "closed"}]
    /\ loaded \in [Conns -> Int]
    /\ extra \in Nat

PoolInit ==
    /\ current = 0 /\ extra = 0
    /\ heartbeats = {} /\ silent = {} /\ reaping = {} /\ clamping = {}
    /\ conn = [c \in Conns |-> "new"]
    /\ loaded = [c \in Conns |-> 0]

\* Connections that were accepted and not yet released.
Accepted == {c \in Conns : conn[c] \in {"registering", "open"}}

-----------------------------------------------------------------------------
\* Load; at the limit the connection is rejected.
LoadCurrent(c) ==
    /\ conn[c] = "new"
    /\ loaded' = [loaded EXCEPT ![c] = current]
    /\ conn' = [conn EXCEPT ![c] = IF current >= MaxConnections THEN "closed" ELSE "loaded"]
    /\ UNCHANGED <<current, heartbeats, silent, reaping, clamping, extra>>

\* Variant: the new value is stored without comparing.
CompareAndSwapBlind(c) ==
    /\ conn[c] = "loaded"
    /\ current' = loaded[c] + 1
    /\ conn' = [conn EXCEPT ![c] = "registering"]
    /\ UNCHANGED <<heartbeats, silent, loaded, reaping, clamping, extra>>

\* CompareAndSwap; when another call was faster, the loop starts again.
CompareAndSwap(c) ==
    /\ conn[c] = "loaded"
    /\ IF current = loaded[c]
       THEN current' = current + 1 /\ conn' = [conn EXCEPT ![c] = "registering"]
       ELSE conn' = [conn EXCEPT ![c] = "new"] /\ UNCHANGED current
    /\ UNCHANGED <<heartbeats, silent, loaded, reaping, clamping, extra>>

\* The first heartbeat, and every later one.
RecordHeartbeat(c) ==
    /\ conn[c] \in {"registering", "open"}
    /\ conn' = [conn EXCEPT ![c] = "open"]
    /\ heartbeats' = heartbeats \cup {c}
    /\ silent' = silent \ {c}
    /\ UNCHANGED <<current, loaded, reaping, clamping, extra>>

GoesSilent(c) ==
    /\ c \in heartbeats \ silent
    /\ silent' = silent \cup {c}
    /\ UNCHANGED <<current, heartbeats, conn, loaded, reaping, clamping, extra>>

\* TimedOutConnections: a snapshot.
TimedOutConnections ==
    /\ reaping = {} /\ silent # {}
    /\ reaping' = silent
    /\ UNCHANGED <<current, heartbeats, silent, conn, loaded, clamping, extra>>

\* Release: Add(-1), then the heartbeat; a negative counter is stored as zero
\* by a second operation.
ReleaseConn(c, then) ==
    /\ current' = current - 1
    /\ clamping' = IF current - 1 < 0 THEN clamping \cup {c} ELSE clamping
    /\ heartbeats' = heartbeats \ {c}
    /\ silent' = silent \ {c}
    /\ conn' = [conn EXCEPT ![c] = then]
    /\ extra' = IF c \in Accepted THEN extra ELSE extra + 1
    /\ UNCHANGED loaded

\* The handler releases its connection when it ends, also after the reaper.
HandlerReleases(c) ==
    /\ conn[c] \in {"open", "reaped"}
    /\ ReleaseConn(c, "closed")
    /\ UNCHANGED reaping

\* The reaper releases what TimedOutConnections returned, also after the handler.
ReaperReleases(c) ==
    /\ c \in reaping
    /\ ReleaseConn(c, IF conn[c] = "open" THEN "reaped" ELSE "closed")
    /\ reaping' = reaping \ {c}

ClampAtZero(c) ==
    /\ c \in clamping
    /\ current' = 0
    /\ clamping' = clamping \ {c}
    /\ UNCHANGED <<heartbeats, silent, conn, loaded, reaping, extra>>

PoolNext ==
    \/ \E c \in Conns :
          \/ LoadCurrent(c) \/ CompareAndSwap(c) \/ RecordHeartbeat(c) \/ GoesSilent(c)
          \/ HandlerReleases(c) \/ ReaperReleases(c) \/ ClampAtZero(c)
    \/ TimedOutConnections

-----------------------------------------------------------------------------
\* However accepts and releases race, the counter is the number of accepted
\* connections and stays within the limit, as long as every connection is
\* released once; the reaper and the handler may both release one.
ConnectionsCounted ==
    extra = 0 => current = Cardinality(Accepted) /\ current <= MaxConnections
=============================================================================
