------------------------------- MODULE BidHub -------------------------------
(***************************************************************************)
(* bid-service: the WebSocket hub that streams the bids of one auction to   *)
(* the connections that watch it.  One goroutine runs the hub; every        *)
(* connection has a ReadPump and a WritePump, and a bid is handed to the    *)
(* hub through a buffered channel.  Register and Unregister are unbuffered, *)
(* so sending and receiving are one step.                                   *)
(*                                                                          *)
(* The hub is that of one pod.  A bid is broadcast by the pod that placed   *)
(* it, to its own connections only, so a watcher sees nothing of the bids   *)
(* placed on the other pods.  Bids are numbered in the order in which       *)
(* PlaceBid, on any pod, comes to broadcast them, which it does while it    *)
(* holds the lock of the auction.                                           *)
(***************************************************************************)
EXTENDS Naturals, Sequences, FiniteSets

CONSTANTS
    Watchers,         \* connections
    SendBuffer,       \* capacity of client.send, 256 in the code
    BroadcastBuffer,  \* capacity of hub.broadcast, 256 in the code
    MaxBids           \* bound: bids of the auction

ASSUME BidHubAssumption ==
    /\ SendBuffer \in Nat \ {0}
    /\ BroadcastBuffer \in Nat \ {0}
    /\ MaxBids \in Nat

VARIABLES
    broadcast,     \* hub.broadcast
    lastBid,       \* the number of the auction's last bid
    placedHere,    \* history: the bids that were placed on this pod
    room,          \* hub.rooms[auction]
    watcher,       \* the ReadPump of each connection
    writing,       \* the connections whose WritePump runs
    send,          \* client.send
    sendClosed,    \* the connections whose client.send is closed
    written,       \* what was written to each socket
    gauge          \* WebSocketConnections

bidHubVars == <<broadcast, lastBid, placedHere, room, watcher, writing, send, sendClosed, written, gauge>>

Bids == 1 .. MaxBids

BidHubTypeOK ==
    /\ broadcast \in Seq(Bids) /\ Len(broadcast) <= BroadcastBuffer
    /\ lastBid \in 0 .. MaxBids
    /\ placedHere \subseteq Bids
    /\ room \subseteq Watchers
    /\ watcher \in [Watchers -> {"new", "reading", "leaving", "left"}]
    /\ writing \subseteq Watchers
    /\ \A w \in Watchers : send[w] \in Seq(Bids) /\ Len(send[w]) <= SendBuffer
    /\ sendClosed \subseteq Watchers
    /\ \A w \in Watchers : written[w] \in Seq(Bids)
    /\ gauge \in 0 .. Cardinality(Watchers)

BidHubInit ==
    /\ broadcast = <<>>
    /\ lastBid = 0 /\ placedHere = {}
    /\ room = {}
    /\ watcher = [w \in Watchers |-> "new"]
    /\ writing = {}
    /\ send = [w \in Watchers |-> <<>>]
    /\ sendClosed = {}
    /\ written = [w \in Watchers |-> <<>>]
    /\ gauge = 0

-----------------------------------------------------------------------------

\* PlaceBid, through BroadcastNewBid and BroadcastToAuction; it waits while
\* the channel is full.
BroadcastToAuction ==
    /\ lastBid < MaxBids
    /\ Len(broadcast) < BroadcastBuffer
    /\ lastBid' = lastBid + 1
    /\ placedHere' = placedHere \cup {lastBid'}
    /\ broadcast' = Append(broadcast, lastBid')
    /\ UNCHANGED <<room, watcher, writing, send, sendClosed, written, gauge>>

\* The same on another pod, whose hub knows nothing of the connections here.
BroadcastElsewhere ==
    /\ lastBid < MaxBids
    /\ lastBid' = lastBid + 1
    /\ UNCHANGED <<broadcast, placedHere, room, watcher, writing, send, sendClosed, written, gauge>>

\* The case Register of Run.
Register(w) ==
    /\ room' = room \cup {w}
    /\ gauge' = gauge + 1

\* ServeWS hands the connection to the hub and starts the pumps.
ServeWS(w) ==
    /\ watcher[w] = "new"
    /\ Register(w)
    /\ watcher' = [watcher EXCEPT ![w] = "reading"]
    /\ writing' = writing \cup {w}
    /\ UNCHANGED <<broadcast, lastBid, placedHere, send, sendClosed, written>>

\* Variant: a hub that skips a connection with a full buffer.
RunBroadcastSkips ==
    /\ broadcast # <<>>
    /\ send' = [w \in Watchers |->
           IF w \in room /\ Len(send[w]) < SendBuffer THEN Append(send[w], Head(broadcast)) ELSE send[w]]
    /\ broadcast' = Tail(broadcast)
    /\ UNCHANGED <<lastBid, placedHere, room, watcher, writing, sendClosed, written, gauge>>

\* The hub takes a bid.  The sends to different connections commute with the
\* pumps of the others, so one step stands for the loop over the room.
RunBroadcast ==
    /\ broadcast # <<>>
    /\ LET full == {w \in room : Len(send[w]) = SendBuffer} IN
       /\ send' = [w \in Watchers |->
              IF w \in room \ full THEN Append(send[w], Head(broadcast)) ELSE send[w]]
       /\ room' = room \ full
       /\ sendClosed' = sendClosed \cup full
    /\ broadcast' = Tail(broadcast)
    /\ UNCHANGED <<lastBid, placedHere, watcher, writing, written, gauge>>

\* WritePump writes a bid and whatever else is queued in one message.
BidWritePump(w) ==
    /\ w \in writing
    /\ send[w] # <<>>
    /\ written' = [written EXCEPT ![w] = @ \o send[w]]
    /\ send' = [send EXCEPT ![w] = <<>>]
    /\ UNCHANGED <<broadcast, lastBid, placedHere, room, watcher, writing, sendClosed, gauge>>

\* WritePump returns: the channel is closed and drained, or a write or a ping
\* fails.  It closes the socket.
BidWritePumpEnds(w) ==
    /\ w \in writing
    /\ writing' = writing \ {w}
    /\ UNCHANGED <<broadcast, lastBid, placedHere, room, watcher, send, sendClosed, written, gauge>>

\* ReadMessage fails: the peer is gone, the deadline passed or the socket was
\* closed by WritePump.
BidReadPumpEnds(w) ==
    /\ watcher[w] = "reading"
    /\ watcher' = [watcher EXCEPT ![w] = "leaving"]
    /\ UNCHANGED <<broadcast, lastBid, placedHere, room, writing, send, sendClosed, written, gauge>>

\* The hub takes the connection from Unregister; one that was evicted before
\* is not in the room any more.
Unregister(w) ==
    /\ watcher[w] = "leaving"
    /\ watcher' = [watcher EXCEPT ![w] = "left"]
    /\ room' = room \ {w}
    /\ sendClosed' = IF w \in room THEN sendClosed \cup {w} ELSE sendClosed
    /\ gauge' = IF w \in room THEN gauge - 1 ELSE gauge
    /\ UNCHANGED <<broadcast, lastBid, placedHere, writing, send, written>>

BidHubNext ==
    \/ BroadcastToAuction \/ BroadcastElsewhere
    \/ RunBroadcast
    \/ \E w \in Watchers :
          ServeWS(w) \/ BidWritePump(w) \/ BidWritePumpEnds(w) \/ BidReadPumpEnds(w) \/ Unregister(w)

-----------------------------------------------------------------------------

\* A watcher sees an uninterrupted run of the bids placed on its pod, in order:
\* one that cannot keep up is disconnected, never skipped over.  The bids of the
\* other pods are missing from every stream (bid-service runs 2 replicas, and
\* the hubs have no relay), so this is not a run of the auction's bids.
StreamsUninterrupted ==
    \A w \in Watchers : \A i \in 1 .. Len(written[w]) - 1 :
        /\ written[w][i] < written[w][i + 1]
        /\ \A b \in placedHere : b <= written[w][i] \/ written[w][i + 1] <= b

=============================================================================
