--------------------------- MODULE NotificationHub --------------------------
(***************************************************************************)
(* The WebSocket hub of notification-service, for the connections of one     *)
(* user on one pod.  The loop of Run registers and unregisters; deliverLocal *)
(* is run by the goroutine that listens to Redis and, when Redis fails, by   *)
(* the Kafka consumer.  deliverLocal gives the lock back before it ranges    *)
(* over the connections, so a connection may be closed between the moment    *)
(* the range yields it and the send to its channel.                          *)
(*                                                                          *)
(* The key that says whether the user is online is shared by the pods, lives *)
(* for five minutes unless a pong renews it, and is set and deleted without  *)
(* a look at the error.                                                      *)
(***************************************************************************)
EXTENDS Naturals, FiniteSets

CONSTANTS
    Clients,        \* connections of the user
    Deliverers,     \* goroutines that may be in deliverLocal
    BufferSize      \* capacity of client.send

ASSUME HubAssumption == BufferSize \in Nat \ {0}

VARIABLES
    conns,          \* h.clients[userID]
    reading,        \* clients whose ReadPump runs: new, reading, leaving, left
    closed,         \* clients whose send channel is closed
    queued,         \* client -> messages in client.send
    deliverer,      \* deliverer -> connections not yet visited, and the one in hand
    online,         \* online:user:<id>
    elsewhere,      \* do other pods have connections of the user?
    lost,           \* history: is the key missing for a reason outside this pod's map?
    stale,          \* history: was the key not deleted with the last connection of a pod?
    evicted,        \* history: was the last connection removed by deliverLocal?
    raced,          \* history: did the connections change while a deliverLocal ranged over them?
    crashed         \* the runtime stopped the process

hubVars == <<conns, reading, closed, queued, deliverer, online, elsewhere, lost, stale, evicted, raced,
             crashed>>

presence == <<online, elsewhere, lost, stale, evicted>>

Nobody == "nobody"

HubTypeOK ==
    /\ conns \subseteq Clients /\ closed \subseteq Clients
    /\ reading \in [Clients -> {"new", "reading", "leaving", "left"}]
    /\ queued \in [Clients -> 0 .. BufferSize]
    /\ deliverer \in [Deliverers -> [left : SUBSET Clients, hand : Clients \cup {Nobody}]]
    /\ {online, elsewhere, lost, stale, evicted, raced, crashed} \subseteq BOOLEAN

Waiting == [left |-> {}, hand |-> Nobody]

HubInit ==
    /\ conns = {} /\ closed = {}
    /\ reading = [c \in Clients |-> "new"]
    /\ queued = [c \in Clients |-> 0]
    /\ deliverer = [d \in Deliverers |-> Waiting]
    /\ online = FALSE /\ elsewhere = FALSE /\ lost = FALSE /\ stale = FALSE
    /\ evicted = FALSE /\ raced = FALSE /\ crashed = FALSE

Ranging == {d \in Deliverers : deliverer[d] # Waiting}

\* A write to the map while another goroutine ranges over it: the Go runtime may
\* notice and stop the process, or the range may go on with or without the change.
MapWrite(others) ==
    /\ raced' = (raced \/ others # {})
    /\ crashed' \in {FALSE, others # {}}

\* SetOnline; its error is dropped.
SetOnline ==
    \/ online' = TRUE /\ lost' = FALSE
    \/ UNCHANGED online /\ lost' = (lost \/ ~online)

\* SetOffline by a pod that has no connection left; its error is dropped.  With
\* connections on this pod, `here`, the user is connected and has no key.
SetOffline(here) ==
    \/ online' = FALSE /\ lost' = (lost \/ here) /\ UNCHANGED stale
    \/ stale' = TRUE /\ UNCHANGED <<online, lost>>

-----------------------------------------------------------------------------
\* The case Register of Run; presence is set after the lock is released, by the
\* same goroutine.
RegisterClient(c) ==
    /\ ~crashed
    /\ reading[c] = "new"
    /\ conns' = conns \cup {c}
    /\ reading' = [reading EXCEPT ![c] = "reading"]
    /\ SetOnline
    /\ evicted' = FALSE /\ stale' = FALSE
    /\ MapWrite(Ranging)
    /\ UNCHANGED <<closed, queued, deliverer, elsewhere>>

\* ReadPump ends: the peer is gone, or WritePump closed the connection.
ReadPumpEnds(c) ==
    /\ ~crashed
    /\ reading[c] = "reading"
    /\ reading' = [reading EXCEPT ![c] = "leaving"]
    /\ UNCHANGED <<conns, closed, queued, deliverer, presence, raced, crashed>>

\* Variant: the channel is closed without a look whether the client is still there.
UnregisterUnchecked(c) ==
    /\ ~crashed
    /\ reading[c] = "leaving"
    /\ reading' = [reading EXCEPT ![c] = "left"]
    /\ conns' = conns \ {c}
    /\ closed' = closed \cup {c}
    /\ raced' = (raced \/ Ranging # {})
    /\ crashed' = (c \in closed)
    /\ IF conns' = {} THEN SetOffline(FALSE) ELSE UNCHANGED <<online, lost, stale>>
    /\ UNCHANGED <<queued, deliverer, elsewhere, evicted>>

\* The case Unregister of Run.
UnregisterClient(c) ==
    /\ ~crashed
    /\ reading[c] = "leaving"
    /\ reading' = [reading EXCEPT ![c] = "left"]
    /\ IF c \in conns
       THEN /\ conns' = conns \ {c}
            /\ closed' = closed \cup {c}
            /\ IF conns' = {} THEN SetOffline(FALSE) ELSE UNCHANGED <<online, lost, stale>>
            /\ MapWrite(Ranging)
       ELSE UNCHANGED <<conns, closed, online, lost, stale, raced, crashed>>
    /\ UNCHANGED <<queued, deliverer, elsewhere, evicted>>

\* SendToUser, through Redis or in place: deliverLocal reads the map under the
\* lock and begins to range.
deliverLocal(d) ==
    /\ ~crashed
    /\ deliverer[d] = Waiting
    /\ conns # {}
    /\ deliverer' = [deliverer EXCEPT ![d].left = conns]
    /\ UNCHANGED <<conns, reading, closed, queued, presence, raced, crashed>>

\* The range yields a connection; one deleted meanwhile is not yielded.
NextConnection(d) ==
    LET here == deliverer[d].left \cap conns IN
    /\ ~crashed
    /\ deliverer[d].left # {} /\ deliverer[d].hand = Nobody
    /\ IF here = {}
       THEN deliverer' = [deliverer EXCEPT ![d] = Waiting]
       ELSE \E c \in here :
               deliverer' = [deliverer EXCEPT ![d] = [left |-> @.left \ {c}, hand |-> c]]
    /\ UNCHANGED <<conns, reading, closed, queued, presence, raced, crashed>>

\* The select: send to the channel, which panics when it is closed.
SendToClient(d) ==
    LET c == deliverer[d].hand IN
    /\ ~crashed
    /\ c # Nobody
    /\ c \in closed \/ queued[c] < BufferSize
    /\ IF c \in closed
       THEN crashed' = TRUE /\ UNCHANGED queued
       ELSE queued' = [queued EXCEPT ![c] = @ + 1] /\ UNCHANGED crashed
    /\ deliverer' = [deliverer EXCEPT ![d].hand = Nobody]
    /\ UNCHANGED <<conns, reading, closed, presence, raced>>

\* Its default: the buffer is full, the client is removed and its channel closed.
EvictClient(d) ==
    LET c == deliverer[d].hand IN
    /\ ~crashed
    /\ c # Nobody
    /\ c \notin closed /\ queued[c] = BufferSize
    /\ conns' = conns \ {c}
    /\ closed' = closed \cup {c}
    /\ evicted' = (evicted \/ conns' = {})
    /\ MapWrite(Ranging \ {d})
    /\ deliverer' = [deliverer EXCEPT ![d].hand = Nobody]
    /\ UNCHANGED <<reading, queued, online, elsewhere, lost, stale>>

\* WritePump takes what is queued; with the channel closed it ends, and closes the
\* connection.
WritePump(c) ==
    /\ ~crashed
    /\ queued[c] > 0
    /\ queued' = [queued EXCEPT ![c] = 0]
    /\ UNCHANGED <<conns, reading, closed, deliverer, presence, raced, crashed>>

\* The key was not renewed for five minutes: RefreshOnline, which every pong
\* calls and whose error is dropped, failed, or no one is connected.
OnlineExpires ==
    /\ online
    /\ online' = FALSE /\ lost' = TRUE
    /\ UNCHANGED <<conns, reading, closed, queued, deliverer, elsewhere, stale, evicted, raced, crashed>>

\* The user connects to another pod, and leaves the other pods, whose last one
\* deletes the key unless its SetOffline fails, deliverLocal removed the
\* connection or the process died.
ConnectElsewhere ==
    /\ ~elsewhere /\ elsewhere' = TRUE
    /\ SetOnline
    /\ UNCHANGED <<conns, reading, closed, queued, deliverer, stale, evicted, raced, crashed>>

LeaveElsewhere ==
    /\ elsewhere /\ elsewhere' = FALSE
    /\ SetOffline(conns # {})
    /\ UNCHANGED <<conns, reading, closed, queued, deliverer, evicted, raced, crashed>>

HubNext ==
    \/ OnlineExpires \/ ConnectElsewhere \/ LeaveElsewhere
    \/ \E c \in Clients :
          RegisterClient(c) \/ ReadPumpEnds(c) \/ UnregisterClient(c) \/ WritePump(c)
    \/ \E d \in Deliverers :
          deliverLocal(d) \/ NextConnection(d) \/ SendToClient(d) \/ EvictClient(d)

-----------------------------------------------------------------------------
\* The hub and its deliverers agree: a connection still in the map can be sent to;
\* the process is stopped, by a send to or a second close of a closed channel or
\* by the runtime, only when connections came or went while a deliverLocal ranged
\* over them.  A user connected to this pod is online unless SetOnline failed, the
\* key was not renewed or the last connection on another pod took the shared key
\* with it; a user connected nowhere is offline unless deliverLocal removed the
\* last connection or a SetOffline failed.
HubConsistent ==
    /\ crashed \/ conns \cap closed = {}
    /\ crashed => raced
    /\ conns # {} => online \/ lost
    /\ (online /\ ~crashed) => (conns # {} \/ elsewhere \/ evicted \/ stale)
=============================================================================
