-------------------------- MODULE MessagingProofs ---------------------------
(***************************************************************************)
(* Theorems about the readers of the event topics and the two WebSocket     *)
(* hubs.  The parts share no variable and one of them runs in a behaviour,  *)
(* so each has an inductive invariant over its own variables, and a step of *)
(* Messaging is a step of each part or leaves its variables alone.          *)
(***************************************************************************)
EXTENDS Messaging, SequenceTheorems, TLAPS

\* A step of Messaging is, for each of its parts, a step of that part or a
\* stuttering step of it.
LEMMA StepOfEachPart ==
    ASSUME [MessagingNext]_messagingVars
    PROVE  /\ [KafkaNext]_kafkaVars
           /\ [ReadersNext]_readersVars
           /\ [HubNext]_hubVars
           /\ [BidHubNext]_bidHubVars
<1>1. CASE UNCHANGED messagingVars
  BY <1>1 DEF messagingVars
<1>2. CASE MessagingNext
  BY <1>2 DEF MessagingNext, OtherPartsStay
<1> QED
  BY <1>1, <1>2

-----------------------------------------------------------------------------
(***************************************************************************)
(* The hub of notification-service.  HubConsistent is not inductive: that   *)
(* no deliverer has a closed channel in hand while nobody interfered, and   *)
(* that a connection not yet registered is not closed, must be known too.   *)
(***************************************************************************)
HubTyped ==
    /\ conns \in SUBSET Clients
    /\ closed \in SUBSET Clients
    /\ reading \in [Clients -> {"new", "reading", "leaving", "left"}]
    /\ deliverer \in [Deliverers -> [left : SUBSET Clients, hand : Clients \cup {Nobody}]]
    /\ online \in BOOLEAN /\ elsewhere \in BOOLEAN /\ lost \in BOOLEAN /\ stale \in BOOLEAN
    /\ evicted \in BOOLEAN /\ raced \in BOOLEAN /\ crashed \in BOOLEAN

\* What is in the map, closed, or visited by a deliverer was registered before.
NewOnesOpen ==
    /\ \A c \in conns \cup closed : reading[c] # "new"
    /\ \A d \in Deliverers : \A c \in Clients :
          (c \in deliverer[d].left \/ (c = deliverer[d].hand /\ c # Nobody)) => reading[c] # "new"

\* What a deliverer has in hand is open, unless the connections changed while
\* it ranged over them.
HandsOpen == raced \/ \A d \in Deliverers : deliverer[d].hand = Nobody \/ deliverer[d].hand \notin closed

HubInd == HubTyped /\ NewOnesOpen /\ HandsOpen /\ HubConsistent

LEMMA HubIndInit ==
    ASSUME HubInit
    PROVE  HubInd
BY DEF HubInit, HubInd, HubTyped, NewOnesOpen, HandsOpen, HubConsistent, Waiting, Nobody

\* A deliverer with a connection in hand is ranging.
LEMMA HandsRange ==
    ASSUME NEW d \in Deliverers, deliverer[d].hand # Nobody
    PROVE  d \in Ranging
BY DEF Ranging, Waiting

\* What a dropped error of Redis leaves of the key.
LEMMA SetOnlineLeaves ==
    ASSUME online \in BOOLEAN, lost \in BOOLEAN, SetOnline
    PROVE  online' \in BOOLEAN /\ lost' \in BOOLEAN /\ (online' \/ lost')
<1>1. CASE online' = TRUE /\ lost' = FALSE
  BY <1>1
<1>2. CASE online' = online /\ lost' = (lost \/ ~online)
  <2>1. CASE online
    BY <1>2, <2>1
  <2>2. CASE ~online
    BY <1>2, <2>2
  <2> QED
    BY <2>1, <2>2
<1> QED
  BY <1>1, <1>2 DEF SetOnline

LEMMA SetOfflineLeaves ==
    ASSUME online \in BOOLEAN, lost \in BOOLEAN, stale \in BOOLEAN,
           NEW here \in BOOLEAN, SetOffline(here)
    PROVE  /\ online' \in BOOLEAN /\ lost' \in BOOLEAN /\ stale' \in BOOLEAN
           /\ online' => stale'
           /\ here => lost' \/ (online' = online /\ lost' = lost)
<1>1. CASE online' = FALSE /\ lost' = (lost \/ here) /\ stale' = stale
  <2>1. lost' \in BOOLEAN /\ (here => lost')
    BY <1>1
  <2> QED
    BY <1>1, <2>1
<1>2. CASE stale' = TRUE /\ online' = online /\ lost' = lost
  BY <1>2
<1> QED
  BY <1>1, <1>2 DEF SetOffline

LEMMA HubIndStep ==
    ASSUME HubInd, [HubNext]_hubVars
    PROVE  HubInd'
<1> USE DEF HubInd
<1>1. CASE UNCHANGED hubVars
  BY <1>1 DEF hubVars, HubTyped, NewOnesOpen, HandsOpen, HubConsistent
<1>2. ASSUME NEW c \in Clients, RegisterClient(c)
      PROVE  HubInd'
  <2>1. HubTyped' /\ NewOnesOpen' /\ HandsOpen'
    BY <1>2, SetOnlineLeaves DEF RegisterClient, MapWrite, HubTyped, NewOnesOpen, HandsOpen, HubConsistent
  <2>2. online' \/ lost'
    BY <1>2, SetOnlineLeaves DEF RegisterClient, HubTyped
  <2>3. (crashed' \/ conns' \cap closed' = {}) /\ (crashed' => raced') /\ conns' # {}
    BY <1>2 DEF RegisterClient, MapWrite, HubTyped, NewOnesOpen, HubConsistent
  <2> QED
    BY <2>1, <2>2, <2>3 DEF HubConsistent
<1>3. ASSUME NEW c \in Clients, ReadPumpEnds(c)
      PROVE  HubInd'
  BY <1>3 DEF ReadPumpEnds, presence, HubTyped, NewOnesOpen, HandsOpen, HubConsistent
<1>4. ASSUME NEW c \in Clients, UnregisterClient(c)
      PROVE  HubInd'
  <2>1. CASE c \in conns
    <3>0. online' \in BOOLEAN /\ lost' \in BOOLEAN /\ stale' \in BOOLEAN
      BY <1>4, <2>1, SetOfflineLeaves DEF UnregisterClient, HubTyped
    <3>1. HubTyped' /\ NewOnesOpen'
      <4>1. /\ conns' = conns \ {c} /\ closed' = closed \cup {c}
            /\ reading' = [reading EXCEPT ![c] = "left"]
            /\ deliverer' = deliverer /\ elsewhere' = elsewhere /\ evicted' = evicted
        BY <1>4, <2>1 DEF UnregisterClient
      <4>2. raced' \in BOOLEAN /\ crashed' \in BOOLEAN
        BY <1>4, <2>1 DEF UnregisterClient, MapWrite
      <4>3. HubTyped'
        BY <3>0, <4>1, <4>2 DEF HubTyped
      <4>4. NewOnesOpen'
        BY <4>1 DEF HubTyped, NewOnesOpen
      <4> QED
        BY <4>3, <4>4
    <3>2. HandsOpen'
      BY <1>4, <2>1, HandsRange DEF UnregisterClient, MapWrite, HubTyped, HandsOpen
    <3>3. HubConsistent'
      <4>1. CASE conns' = {}
        BY <1>4, <2>1, <4>1, SetOfflineLeaves DEF UnregisterClient, MapWrite, HubTyped, HubConsistent
      <4>2. CASE conns' # {}
        BY <1>4, <2>1, <4>2 DEF UnregisterClient, MapWrite, HubTyped, HubConsistent
      <4> QED
        BY <4>1, <4>2
    <3> QED
      BY <3>1, <3>2, <3>3
  <2>2. CASE c \notin conns
    BY <1>4, <2>2 DEF UnregisterClient, HubTyped, NewOnesOpen, HandsOpen, HubConsistent
  <2> QED
    BY <2>1, <2>2
<1>5. ASSUME NEW c \in Clients, WritePump(c)
      PROVE  HubInd'
  BY <1>5 DEF WritePump, presence, HubTyped, NewOnesOpen, HandsOpen, HubConsistent
<1>6. ASSUME NEW d \in Deliverers, deliverLocal(d)
      PROVE  HubInd'
  BY <1>6 DEF deliverLocal, presence, HubTyped, NewOnesOpen, HandsOpen, HubConsistent, Waiting
<1>7. ASSUME NEW d \in Deliverers, NextConnection(d)
      PROVE  HubInd'
  <2> DEFINE here == deliverer[d].left \cap conns
  <2>1. CASE here = {}
    BY <1>7, <2>1 DEF NextConnection, presence, HubTyped, NewOnesOpen, HandsOpen, HubConsistent, Waiting
  <2>2. CASE here # {}
    <3>1. PICK c \in here : deliverer' = [deliverer EXCEPT ![d] = [left |-> @.left \ {c}, hand |-> c]]
      BY <1>7, <2>2 DEF NextConnection
    <3>2. c \in conns /\ c \notin closed
      BY <1>7 DEF NextConnection, HubConsistent
    <3> HIDE DEF here
    <3> QED
      BY <1>7, <3>1, <3>2 DEF NextConnection, presence, HubTyped, NewOnesOpen, HandsOpen, HubConsistent
  <2> QED
    BY <2>1, <2>2
<1>8. ASSUME NEW d \in Deliverers, SendToClient(d)
      PROVE  HubInd'
  <2>1. deliverer' = [deliverer EXCEPT ![d].hand = Nobody]
    BY <1>8 DEF SendToClient
  <2>2. HubTyped'
    BY <1>8, <2>1 DEF SendToClient, presence, HubTyped
  <2>3. NewOnesOpen'
    BY <1>8, <2>1 DEF SendToClient, HubTyped, NewOnesOpen
  <2>4. HandsOpen'
    BY <1>8, <2>1 DEF SendToClient, HubTyped, HandsOpen
  <2>5. HubConsistent'
    BY <1>8 DEF SendToClient, presence, HubTyped, HandsOpen, HubConsistent
  <2> QED
    BY <2>2, <2>3, <2>4, <2>5
<1>9. ASSUME NEW d \in Deliverers, EvictClient(d)
      PROVE  HubInd'
  <2>1. PICK c \in Clients : c = deliverer[d].hand /\ c # Nobody
    BY <1>9 DEF EvictClient, HubTyped
  <2>2. HubTyped'
    BY <1>9, <2>1 DEF EvictClient, MapWrite, HubTyped
  <2>3. NewOnesOpen'
    <3>1. reading[c] # "new" /\ reading' = reading /\ conns' \subseteq conns /\ closed' = closed \cup {c}
      BY <1>9, <2>1 DEF EvictClient, NewOnesOpen
    <3>2. \A e \in Deliverers :
             /\ deliverer'[e].left = deliverer[e].left
             /\ deliverer'[e].hand \in {deliverer[e].hand, Nobody}
      BY <1>9 DEF EvictClient, HubTyped
    <3> QED
      BY <3>1, <3>2 DEF NewOnesOpen
  <2>4. HandsOpen'
    <3>1. SUFFICES ASSUME ~raced', NEW e \in Deliverers, deliverer'[e].hand # Nobody
                   PROVE  deliverer'[e].hand \notin closed'
      BY DEF HandsOpen
    <3>2. ~raced /\ Ranging \ {d} = {} /\ closed' = closed \cup {c}
      BY <1>9, <2>1, <3>1 DEF EvictClient, MapWrite, HubTyped
    <3>3. e # d /\ deliverer'[e] = deliverer[e]
      BY <1>9, <3>1 DEF EvictClient, HubTyped
    <3> QED
      BY <3>1, <3>2, <3>3, HandsRange
  <2>5. HubConsistent'
    BY <1>9, <2>1 DEF EvictClient, MapWrite, HubTyped, HubConsistent
  <2> QED
    BY <2>2, <2>3, <2>4, <2>5
<1>10. CASE OnlineExpires
  BY <1>10 DEF OnlineExpires, HubTyped, NewOnesOpen, HandsOpen, HubConsistent
<1>11. CASE ConnectElsewhere
  <2>1. UNCHANGED <<conns, reading, closed, deliverer, evicted, stale, raced, crashed>> /\ elsewhere' = TRUE
    BY <1>11 DEF ConnectElsewhere
  <2>2. /\ online' \in BOOLEAN /\ lost' \in BOOLEAN
        /\ conns # {} => online' \/ lost'
    BY <1>11, SetOnlineLeaves DEF ConnectElsewhere, HubTyped
  <2>3. HubTyped' /\ NewOnesOpen' /\ HandsOpen'
    BY <2>1, <2>2 DEF HubTyped, NewOnesOpen, HandsOpen
  <2> QED
    BY <2>1, <2>2, <2>3 DEF HubConsistent
<1>12. CASE LeaveElsewhere
  <2>1. UNCHANGED <<conns, reading, closed, deliverer, evicted, raced, crashed>> /\ elsewhere' = FALSE
    BY <1>12 DEF LeaveElsewhere
  <2>2. /\ online' \in BOOLEAN /\ lost' \in BOOLEAN /\ stale' \in BOOLEAN
        /\ conns # {} => online' \/ lost'
        /\ online' => stale'
    BY <1>12, SetOfflineLeaves DEF LeaveElsewhere, HubTyped, HubConsistent
  <2>3. HubTyped' /\ NewOnesOpen' /\ HandsOpen'
    BY <2>1, <2>2 DEF HubTyped, NewOnesOpen, HandsOpen
  <2> QED
    BY <2>1, <2>2, <2>3 DEF HubConsistent
<1> QED
  BY <1>1, <1>2, <1>3, <1>4, <1>5, <1>6, <1>7, <1>8, <1>9, <1>10, <1>11, <1>12 DEF HubNext

\* The process of notification-service is stopped only when connections came or
\* went during a deliverLocal, a connection in the map can be sent to, and no step
\* of this pod takes a user offline that it has connections of, or leaves one
\* online that it has none of but for a failed command or an eviction (hub.go),
\* for any number of connections and deliverers.
THEOREM HubStaysConsistent == MessagingSpec => []HubConsistent
<1>1. MessagingInit => HubInd
  BY HubIndInit DEF MessagingInit
<1>2. HubInd /\ [MessagingNext]_messagingVars => HubInd'
  BY HubIndStep, StepOfEachPart
<1>3. HubInd => HubConsistent
  BY DEF HubInd
<1> QED
  BY <1>1, <1>2, <1>3, PTL DEF MessagingSpec

-----------------------------------------------------------------------------
(***************************************************************************)
(* The hub of bid-service.  What a watcher has been written and what is      *)
(* queued for it form one run of the bids placed on this pod; for a watcher  *)
(* in the room the run ends where the hub's channel goes on.                 *)
(***************************************************************************)

\* Of the bids P, b is the next one after a.
Follows(P, a, b) == a < b /\ \A c \in P : c <= a \/ b <= c

Run(P, s) == \A i \in 1 .. Len(s) - 1 : Follows(P, s[i], s[i + 1])

\* The channel holds the latest bids of this pod, in order.
ChannelInOrder ==
    /\ lastBid \in Nat
    /\ placedHere \subseteq 1 .. lastBid
    /\ broadcast \in Seq(placedHere)
    /\ \A i, j \in 1 .. Len(broadcast) : i < j => broadcast[i] < broadcast[j]
    /\ \A c \in placedHere : \A i \in 1 .. Len(broadcast) :
          broadcast[i] < c => \E j \in 1 .. Len(broadcast) : broadcast[j] = c

\* The bids after x are those in the channel.
Reached(x) == \A c \in placedHere : x < c <=> \E i \in 1 .. Len(broadcast) : broadcast[i] = c

\* What was written and what is queued for w join.
Joined(w) ==
    /\ Run(placedHere, written[w]) /\ Run(placedHere, send[w])
    /\ written[w] # <<>> /\ send[w] # <<>> => Follows(placedHere, written[w][Len(written[w])], send[w][1])

UpToDate(w) ==
    /\ send[w] # <<>> => Reached(send[w][Len(send[w])])
    /\ send[w] = <<>> /\ written[w] # <<>> => Reached(written[w][Len(written[w])])

StreamsTyped ==
    /\ send \in [Watchers -> Seq(placedHere)]
    /\ written \in [Watchers -> Seq(placedHere)]
    /\ watcher \in [Watchers -> {"new", "reading", "leaving", "left"}]
    /\ room \subseteq Watchers

StreamInd ==
    /\ StreamsTyped
    /\ ChannelInOrder
    /\ \A w \in Watchers : Joined(w)
    /\ \A w \in room : UpToDate(w)
    /\ \A w \in Watchers :
          watcher[w] = "new" => w \notin room /\ send[w] = <<>> /\ written[w] = <<>>

LEMMA StreamIndInit ==
    ASSUME BidHubInit
    PROVE  StreamInd
<1>1. Run(placedHere, <<>>)
  BY DEF Run
<1>2. StreamsTyped /\ ChannelInOrder
  BY DEF BidHubInit, StreamsTyped, ChannelInOrder
<1> QED
  BY <1>1, <1>2 DEF BidHubInit, StreamInd, Joined, UpToDate

\* A run goes on with the next bid, and two runs that join are one.
LEMMA RunAppend ==
    ASSUME NEW P, NEW s \in Seq(P), NEW n \in P, Run(P, s), s # <<>> => Follows(P, s[Len(s)], n)
    PROVE  /\ Run(P, Append(s, n))
           /\ Append(s, n) \in Seq(P)
           /\ Append(s, n)[Len(Append(s, n))] = n
           /\ Append(s, n)[1] = IF s = <<>> THEN n ELSE s[1]
           /\ Append(s, n) # <<>>
<1>1. /\ Len(Append(s, n)) = Len(s) + 1
      /\ \A i \in 1 .. Len(s) : Append(s, n)[i] = s[i]
      /\ Append(s, n)[Len(s) + 1] = n
      /\ Append(s, n) \in Seq(P)
      /\ Len(s) \in Nat /\ (s = <<>> <=> Len(s) = 0)
  OBVIOUS
<1>2. Run(P, Append(s, n))
  <2> SUFFICES ASSUME NEW i \in 1 .. Len(s)
               PROVE  Follows(P, Append(s, n)[i], Append(s, n)[i + 1])
    BY <1>1 DEF Run
  <2>1. CASE i < Len(s)
    <3>1. Follows(P, s[i], s[i + 1])
      BY <2>1, <1>1 DEF Run
    <3> QED
      BY <2>1, <3>1, <1>1
  <2>2. CASE i = Len(s)
    BY <2>2, <1>1
  <2> QED
    BY <2>1, <2>2, <1>1
<1>3. Append(s, n)[1] = IF s = <<>> THEN n ELSE s[1]
  BY <1>1
<1> QED
  BY <1>1, <1>2, <1>3

LEMMA RunConcat ==
    ASSUME NEW P, NEW s \in Seq(P), NEW t \in Seq(P), Run(P, s), Run(P, t), t # <<>>,
           s # <<>> => Follows(P, s[Len(s)], t[1])
    PROVE  /\ Run(P, s \o t)
           /\ s \o t \in Seq(P)
           /\ s \o t # <<>>
           /\ (s \o t)[Len(s \o t)] = t[Len(t)]
<1>1. /\ Len(s \o t) = Len(s) + Len(t)
      /\ \A i \in 1 .. Len(s) + Len(t) : (s \o t)[i] = IF i <= Len(s) THEN s[i] ELSE t[i - Len(s)]
      /\ Len(s) \in Nat /\ Len(t) \in Nat \ {0}
      /\ s \o t \in Seq(P)
  OBVIOUS
<1>2. Run(P, s \o t)
  <2>0. PICK n : n = Len(s) + Len(t)
    OBVIOUS
  <2> SUFFICES ASSUME NEW i \in 1 .. n - 1
               PROVE  Follows(P, (s \o t)[i], (s \o t)[i + 1])
    BY <1>1, <2>0 DEF Run
  <2>1. CASE i < Len(s)
    <3>1. Follows(P, s[i], s[i + 1])
      BY <2>0, <2>1, <1>1 DEF Run
    <3>2. (s \o t)[i] = s[i] /\ (s \o t)[i + 1] = s[i + 1]
      BY <2>0, <2>1, <1>1
    <3> QED
      BY <3>1, <3>2
  <2>2. CASE i = Len(s)
    BY <2>0, <2>2, <1>1
  <2>3. CASE i > Len(s)
    <3>1. i - Len(s) \in 1 .. Len(t) - 1 /\ i + 1 - Len(s) = (i - Len(s)) + 1
      BY <2>0, <2>3, <1>1
    <3>2. (s \o t)[i] = t[i - Len(s)] /\ (s \o t)[i + 1] = t[(i - Len(s)) + 1]
      BY <2>0, <2>3, <3>1, <1>1
    <3>3. Follows(P, t[i - Len(s)], t[(i - Len(s)) + 1])
      BY <3>1 DEF Run
    <3> QED
      BY <3>2, <3>3
  <2> QED
    BY <2>0, <2>1, <2>2, <2>3, <1>1
<1> QED
  BY <1>1, <1>2

\* A new bid, later than all, lies between no two of them.
LEMMA RunGrows ==
    ASSUME NEW n \in Nat, NEW P \in SUBSET (1 .. n), NEW Q, Q = P \cup {n + 1}
    PROVE  /\ \A a, b \in P : Follows(P, a, b) => Follows(Q, a, b)
           /\ \A s \in Seq(P) : s \in Seq(Q) /\ (Run(P, s) => Run(Q, s))
<1>1. \A a, b \in P : Follows(P, a, b) => Follows(Q, a, b)
  BY DEF Follows
<1>2. ASSUME NEW s \in Seq(P), Run(P, s)
      PROVE  Run(Q, s)
  <2> SUFFICES ASSUME NEW i \in 1 .. Len(s) - 1
               PROVE  Follows(Q, s[i], s[i + 1])
    BY DEF Run
  <2>1. i \in 1 .. Len(s) /\ i + 1 \in 1 .. Len(s)
    OBVIOUS
  <2>2. s[i] \in P /\ s[i + 1] \in P
    BY <2>1
  <2>3. Follows(P, s[i], s[i + 1])
    BY <1>2 DEF Run
  <2> QED
    BY <1>1, <2>2, <2>3
<1>3. \A s \in Seq(P) : s \in Seq(Q)
  OBVIOUS
<1> QED
  BY <1>1, <1>2, <1>3

\* RunBroadcast: the channel loses its head, which joins every queue of the room
\* that has space.
LEMMA RunBroadcastStream ==
    ASSUME StreamInd, RunBroadcast
    PROVE  StreamInd'
<1> DEFINE full == {w \in room : Len(send[w]) = SendBuffer}
<1>0. PICK bid : bid = Head(broadcast)
  OBVIOUS
<1>1. /\ broadcast # <<>> /\ broadcast' = Tail(broadcast)
      /\ lastBid' = lastBid /\ placedHere' = placedHere /\ watcher' = watcher /\ written' = written
      /\ send' = [w \in Watchers |-> IF w \in room \ full THEN Append(send[w], bid) ELSE send[w]]
      /\ room' = room \ full
  BY <1>0 DEF RunBroadcast
<1>2. /\ broadcast \in Seq(placedHere) /\ placedHere \subseteq 1 .. lastBid /\ lastBid \in Nat
      /\ \A i, j \in 1 .. Len(broadcast) : i < j => broadcast[i] < broadcast[j]
  BY DEF StreamInd, ChannelInOrder
<1>3. /\ Len(broadcast) \in Nat \ {0} /\ bid = broadcast[1] /\ bid \in placedHere
      /\ Tail(broadcast) \in Seq(placedHere) /\ Len(Tail(broadcast)) = Len(broadcast) - 1
      /\ \A i \in 1 .. Len(broadcast) - 1 : Tail(broadcast)[i] = broadcast[i + 1]
  BY <1>0, <1>1, <1>2
<1>4. Reached(bid)'
  <2> SUFFICES ASSUME NEW c \in placedHere
               PROVE  bid < c <=> \E i \in 1 .. Len(Tail(broadcast)) : Tail(broadcast)[i] = c
    BY <1>1 DEF Reached
  <2>1. ASSUME NEW i \in 1 .. Len(Tail(broadcast)), Tail(broadcast)[i] = c
        PROVE  bid < c
    <3>1. i + 1 \in 1 .. Len(broadcast) /\ 1 \in 1 .. Len(broadcast) /\ 1 < i + 1 /\ broadcast[i + 1] = c
      BY <1>3, <2>1
    <3> QED
      BY <1>2, <1>3, <3>1
  <2>2. ASSUME bid < c, NEW i \in 1 .. Len(broadcast), broadcast[i] = c
        PROVE  \E j \in 1 .. Len(Tail(broadcast)) : Tail(broadcast)[j] = c
    <3>1. i # 1 /\ i - 1 \in 1 .. Len(Tail(broadcast)) /\ Tail(broadcast)[i - 1] = c
      BY <1>2, <1>3, <2>2
    <3> QED
      BY <3>1
  <2>3. bid < c => \E i \in 1 .. Len(broadcast) : broadcast[i] = c
    <3>1. 1 \in 1 .. Len(broadcast)
      BY <1>3
    <3> QED
      BY <1>3, <3>1 DEF StreamInd, ChannelInOrder
  <2> QED
    BY <2>1, <2>2, <2>3
<1>5. ChannelInOrder'
  <2>1. \A i, j \in 1 .. Len(Tail(broadcast)) : i < j => Tail(broadcast)[i] < Tail(broadcast)[j]
    <3> SUFFICES ASSUME NEW i \in 1 .. Len(Tail(broadcast)), NEW j \in 1 .. Len(Tail(broadcast)), i < j
                 PROVE  Tail(broadcast)[i] < Tail(broadcast)[j]
      OBVIOUS
    <3>1. i + 1 \in 1 .. Len(broadcast) /\ j + 1 \in 1 .. Len(broadcast) /\ i + 1 < j + 1
      BY <1>3
    <3>2. broadcast[i + 1] < broadcast[j + 1]
      BY <1>2, <3>1
    <3> QED
      BY <1>3, <3>2
  <2>2. ASSUME NEW c \in placedHere, NEW i \in 1 .. Len(Tail(broadcast)), Tail(broadcast)[i] < c
        PROVE  \E j \in 1 .. Len(Tail(broadcast)) : Tail(broadcast)[j] = c
    <3>1. i + 1 \in 1 .. Len(broadcast) /\ 1 \in 1 .. Len(broadcast) /\ 1 < i + 1
      BY <1>3
    <3>2. broadcast[1] < broadcast[i + 1] /\ broadcast[i + 1] \in placedHere
      BY <1>2, <3>1
    <3>3. bid < Tail(broadcast)[i] /\ Tail(broadcast)[i] \in Nat
      <4>1. Tail(broadcast)[i] = broadcast[i + 1]
        BY <1>3
      <4>2. \A x \in placedHere : x \in Nat
        BY <1>2
      <4>3. broadcast[i + 1] \in Nat
        BY <3>2, <4>2
      <4> QED
        BY <1>3, <3>2, <4>1, <4>3
    <3>4. bid < c
      BY <1>2, <1>3, <2>2, <3>3
    <3> QED
      BY <1>1, <1>4, <3>4 DEF Reached
  <2> QED
    BY <1>1, <1>2, <1>3, <2>1, <2>2 DEF ChannelInOrder
<1>6. ASSUME NEW w \in room \ full
      PROVE  /\ w \in Watchers /\ Joined(w)' /\ UpToDate(w)'
             /\ send'[w] \in Seq(placedHere)
  <2>1. w \in Watchers /\ send[w] \in Seq(placedHere) /\ written[w] \in Seq(placedHere)
    BY DEF StreamInd, StreamsTyped
  <2>2. Joined(w) /\ UpToDate(w)
    BY <2>1 DEF StreamInd
  <2>3. ASSUME NEW x \in placedHere, Reached(x)
        PROVE  Follows(placedHere, x, bid)
    <3>1. 1 \in 1 .. Len(broadcast)
      BY <1>3
    <3>2. x < bid
      BY <1>3, <2>3, <3>1 DEF Reached
    <3>3. ASSUME NEW c \in placedHere, x < c
          PROVE  bid <= c
      <4>1. PICK i \in 1 .. Len(broadcast) : broadcast[i] = c
        BY <2>3, <3>3 DEF Reached
      <4>2. i = 1 \/ 1 < i
        BY <1>3
      <4> QED
        BY <1>2, <1>3, <3>1, <4>1, <4>2
    <3>4. \A c \in placedHere : c \in Nat
      BY <1>2
    <3> QED
      BY <3>2, <3>3, <3>4 DEF Follows
  <2>4. send[w] # <<>> => send[w][Len(send[w])] \in placedHere /\ Reached(send[w][Len(send[w])])
    BY <2>1, <2>2 DEF UpToDate
  <2>5. /\ Run(placedHere, Append(send[w], bid))
        /\ Append(send[w], bid) \in Seq(placedHere)
        /\ Append(send[w], bid)[Len(Append(send[w], bid))] = bid
        /\ Append(send[w], bid)[1] = IF send[w] = <<>> THEN bid ELSE send[w][1]
        /\ Append(send[w], bid) # <<>>
    BY <2>1, <2>2, <2>3, <2>4, <1>3, RunAppend DEF Joined
  <2>6. send'[w] = Append(send[w], bid) /\ written'[w] = written[w]
    BY <1>1, <2>1
  <2>7. written[w] # <<>> => Follows(placedHere, written[w][Len(written[w])], Append(send[w], bid)[1])
    <3>1. CASE send[w] # <<>>
      BY <2>2, <2>5, <3>1 DEF Joined
    <3>2. CASE send[w] = <<>> /\ written[w] # <<>>
      <4>1. written[w][Len(written[w])] \in placedHere
        BY <2>1, <3>2
      <4> QED
        BY <2>2, <2>3, <2>5, <3>2, <4>1 DEF UpToDate
    <3> QED
      BY <3>1, <3>2
  <2>8. Joined(w)'
    BY <1>1, <2>2, <2>5, <2>6, <2>7 DEF Joined
  <2>9. UpToDate(w)'
    BY <1>4, <2>5, <2>6 DEF UpToDate, Reached
  <2> QED
    BY <2>1, <2>5, <2>6, <2>8, <2>9
<1>7. ASSUME NEW w \in Watchers, w \notin room \ full
      PROVE  Joined(w)' /\ send'[w] = send[w] /\ send'[w] \in Seq(placedHere)
  <2>1. send'[w] = send[w] /\ written'[w] = written[w] /\ placedHere' = placedHere
    BY <1>1, <1>7
  <2> QED
    BY <2>1 DEF StreamInd, StreamsTyped, Joined
<1>8. StreamsTyped'
  <2>1. \A w \in Watchers : send'[w] \in Seq(placedHere)
    BY <1>6, <1>7
  <2> QED
    BY <1>1, <2>1 DEF StreamInd, StreamsTyped
<1>9. ASSUME NEW w \in Watchers, watcher[w] = "new"
      PROVE  w \notin room /\ send[w] = <<>> /\ written[w] = <<>>
  BY <1>9 DEF StreamInd
<1>10. \A w \in Watchers :
          watcher'[w] = "new" => w \notin room' /\ send'[w] = <<>> /\ written'[w] = <<>>
  BY <1>1, <1>7, <1>9
<1> QED
  BY <1>1, <1>5, <1>6, <1>7, <1>8, <1>10 DEF StreamInd

LEMMA StreamIndStep ==
    ASSUME StreamInd, [BidHubNext]_bidHubVars
    PROVE  StreamInd'
<1>1. CASE UNCHANGED bidHubVars
  BY <1>1 DEF bidHubVars, StreamInd, StreamsTyped, ChannelInOrder, Joined, UpToDate, Reached
<1>2. CASE BroadcastToAuction
  <2> DEFINE bid == lastBid + 1
  <2>1. /\ lastBid' = bid /\ broadcast' = Append(broadcast, bid) /\ placedHere' = placedHere \cup {bid}
        /\ UNCHANGED <<room, watcher, send, written>>
    BY <1>2 DEF BroadcastToAuction
  <2>2. /\ broadcast \in Seq(placedHere) /\ lastBid \in Nat /\ placedHere \in SUBSET (1 .. lastBid)
        /\ \A i, j \in 1 .. Len(broadcast) : i < j => broadcast[i] < broadcast[j]
        /\ \A c \in placedHere : \A i \in 1 .. Len(broadcast) :
              broadcast[i] < c => \E j \in 1 .. Len(broadcast) : broadcast[j] = c
    BY DEF StreamInd, ChannelInOrder
  <2>3. /\ \A a, b \in placedHere : Follows(placedHere, a, b) => Follows(placedHere', a, b)
        /\ \A s \in Seq(placedHere) :
              s \in Seq(placedHere') /\ (Run(placedHere, s) => Run(placedHere', s))
    <3>1. PICK Q : Q = placedHere'
      OBVIOUS
    <3>2. Q = placedHere \cup {lastBid + 1}
      BY <2>1, <3>1
    <3> QED
      BY <2>2, <3>1, <3>2, RunGrows
  <2>4. /\ broadcast \in Seq(placedHere') /\ bid \in placedHere'
        /\ \A i \in 1 .. Len(broadcast) : broadcast[i] \in placedHere
        /\ \A c \in placedHere : c \in Nat /\ c < bid
    BY <2>1, <2>2, <2>3
  <2>5. /\ broadcast' \in Seq(placedHere') /\ Len(broadcast') = Len(broadcast) + 1 /\ Len(broadcast) \in Nat
        /\ \A i \in 1 .. Len(broadcast) : broadcast'[i] = broadcast[i]
        /\ broadcast'[Len(broadcast) + 1] = bid
    BY <2>1, <2>4
  <2>6. 1 .. Len(broadcast') = (1 .. Len(broadcast)) \cup {Len(broadcast) + 1} /\ bid \in Nat
    BY <2>2, <2>5
  <2> HIDE DEF bid
  <2>7. ChannelInOrder'
    <3>1. placedHere' \subseteq 1 .. lastBid'
      BY <2>1, <2>2 DEF bid
    <3>2. \A i, j \in 1 .. Len(broadcast') : i < j => broadcast'[i] < broadcast'[j]
      <4> SUFFICES ASSUME NEW i \in 1 .. Len(broadcast'), NEW j \in 1 .. Len(broadcast'), i < j
                   PROVE  broadcast'[i] < broadcast'[j]
        OBVIOUS
      <4>1. i \in 1 .. Len(broadcast)
        BY <2>5
      <4>2. CASE j \in 1 .. Len(broadcast)
        BY <2>2, <2>5, <4>1, <4>2
      <4>3. CASE j = Len(broadcast) + 1
        BY <2>4, <2>5, <4>1, <4>3
      <4> QED
        BY <2>6, <4>2, <4>3
    <3>3. ASSUME NEW c \in placedHere', NEW i \in 1 .. Len(broadcast'), broadcast'[i] < c
          PROVE  \E j \in 1 .. Len(broadcast') : broadcast'[j] = c
      <4>1. CASE c = bid
        BY <2>5, <2>6, <4>1
      <4>2. CASE c \in placedHere
        <5>1. i \in 1 .. Len(broadcast)
          BY <2>4, <2>5, <2>6, <3>3, <4>2
        <5>2. PICK j \in 1 .. Len(broadcast) : broadcast[j] = c
          BY <2>2, <2>5, <3>3, <4>2, <5>1
        <5> QED
          BY <2>5, <2>6, <5>2
      <4> QED
        BY <2>1, <4>1, <4>2
    <3> QED
      BY <2>1, <2>2, <2>5, <2>6, <3>1, <3>2, <3>3 DEF ChannelInOrder
  <2>8. ASSUME NEW x \in placedHere, Reached(x)
        PROVE  Reached(x)'
    <3> SUFFICES ASSUME NEW c \in placedHere'
                 PROVE  x < c <=> \E i \in 1 .. Len(broadcast') : broadcast'[i] = c
      BY DEF Reached
    <3>1. CASE c = bid
      BY <2>4, <2>5, <2>6, <3>1
    <3>2. CASE c \in placedHere
      <4>1. x < c <=> \E i \in 1 .. Len(broadcast) : broadcast[i] = c
        BY <2>8, <3>2 DEF Reached
      <4>2. c # bid
        BY <2>4, <2>6, <3>2
      <4> QED
        BY <2>5, <2>6, <4>1, <4>2
    <3> QED
      BY <2>1, <3>1, <3>2
  <2>9. ASSUME NEW w \in Watchers
        PROVE  Joined(w)' /\ (UpToDate(w) => UpToDate(w)')
    <3>1. /\ send[w] \in Seq(placedHere) /\ written[w] \in Seq(placedHere) /\ Joined(w)
          /\ send'[w] = send[w] /\ written'[w] = written[w]
      BY <2>1 DEF StreamInd, StreamsTyped
    <3>2. /\ send[w] # <<>> => send[w][1] \in placedHere /\ send[w][Len(send[w])] \in placedHere
          /\ written[w] # <<>> => written[w][Len(written[w])] \in placedHere
      BY <3>1
    <3> QED
      BY <2>3, <2>8, <3>1, <3>2 DEF Joined, UpToDate
  <2>10. StreamsTyped'
    BY <2>1, <2>3 DEF StreamInd, StreamsTyped
  <2> QED
    BY <2>1, <2>7, <2>9, <2>10 DEF StreamInd, StreamsTyped
<1>8. CASE BroadcastElsewhere
  <2>1. lastBid' = lastBid + 1 /\ UNCHANGED <<broadcast, placedHere, room, watcher, send, written>>
    BY <1>8 DEF BroadcastElsewhere
  <2>2. ChannelInOrder'
    BY <2>1 DEF StreamInd, ChannelInOrder
  <2> QED
    BY <2>1, <2>2 DEF StreamInd, StreamsTyped, Joined, UpToDate, Reached
<1>3. CASE RunBroadcast
  BY <1>3, RunBroadcastStream
<1>4. ASSUME NEW w \in Watchers, ServeWS(w)
      PROVE  StreamInd'
  <2>1. UNCHANGED <<broadcast, lastBid, placedHere, send, written>> /\ room' = room \cup {w}
    BY <1>4 DEF ServeWS, Register
  <2>2. send[w] = <<>> /\ written[w] = <<>>
    BY <1>4 DEF ServeWS, StreamInd
  <2>3. ChannelInOrder' /\ (\A v \in Watchers : Joined(v)') /\ \A v \in room' : UpToDate(v)'
    BY <2>1, <2>2 DEF StreamInd, ChannelInOrder, Joined, UpToDate, Reached
  <2>4. StreamsTyped' /\ \A v \in Watchers : watcher'[v] = "new" => watcher[v] = "new" /\ v # w
    BY <1>4, <2>1 DEF ServeWS, StreamInd, StreamsTyped
  <2> QED
    BY <2>1, <2>3, <2>4 DEF StreamInd
<1>5. ASSUME NEW w \in Watchers, BidWritePump(w)
      PROVE  StreamInd'
  <2>1. /\ send[w] # <<>>
        /\ written' = [written EXCEPT ![w] = written[w] \o send[w]]
        /\ send' = [send EXCEPT ![w] = <<>>]
        /\ UNCHANGED <<broadcast, lastBid, placedHere, room, watcher>>
    BY <1>5 DEF BidWritePump, StreamInd, StreamsTyped
  <2>2. send[w] \in Seq(placedHere) /\ written[w] \in Seq(placedHere) /\ Joined(w) /\ placedHere' = placedHere
        /\ (\A x : Reached(x)' <=> Reached(x))
    BY <2>1 DEF StreamInd, StreamsTyped, Reached
  <2>3. /\ Run(placedHere, written[w] \o send[w])
        /\ written[w] \o send[w] \in Seq(placedHere)
        /\ written[w] \o send[w] # <<>>
        /\ (written[w] \o send[w])[Len(written[w] \o send[w])] = send[w][Len(send[w])]
    BY <2>1, <2>2, RunConcat DEF Joined
  <2>4. StreamsTyped' /\ ChannelInOrder'
    BY <2>1, <2>2, <2>3 DEF StreamInd, StreamsTyped, ChannelInOrder
  <2>5. send'[w] = <<>> /\ written'[w] = written[w] \o send[w]
    BY <2>1 DEF StreamInd, StreamsTyped
  <2>6. ASSUME NEW v \in Watchers, v # w
        PROVE  send'[v] = send[v] /\ written'[v] = written[v]
    BY <2>1, <2>6 DEF StreamInd, StreamsTyped
  <2>7. \A v \in Watchers : Joined(v)'
    <3>1. Joined(w)'
      <4>1. Run(placedHere, <<>>)
        BY DEF Run
      <4> QED
        BY <2>2, <2>3, <2>5, <4>1 DEF Joined
    <3>2. ASSUME NEW v \in Watchers, v # w
          PROVE  Joined(v)'
      BY <2>2, <2>6, <3>2 DEF StreamInd, Joined
    <3> QED
      BY <3>1, <3>2
  <2>8. \A v \in room' : UpToDate(v)'
    <3>1. w \in room => UpToDate(w)'
      BY <2>1, <2>2, <2>3, <2>5 DEF StreamInd, UpToDate
    <3> QED
      BY <2>1, <2>2, <2>6, <3>1 DEF StreamInd, StreamsTyped, UpToDate
  <2>9. \A v \in Watchers :
           watcher'[v] = "new" => v \notin room' /\ send'[v] = <<>> /\ written'[v] = <<>>
    BY <2>1, <2>6 DEF StreamInd
  <2> QED
    BY <2>4, <2>7, <2>8, <2>9 DEF StreamInd
<1>6. ASSUME NEW w \in Watchers, BidWritePumpEnds(w)
      PROVE  StreamInd'
  BY <1>6 DEF BidWritePumpEnds, StreamInd, StreamsTyped, ChannelInOrder, Joined, UpToDate, Reached
<1>7. ASSUME NEW w \in Watchers, BidReadPumpEnds(w) \/ Unregister(w)
      PROVE  StreamInd'
  <2>1. UNCHANGED <<broadcast, lastBid, placedHere, send, written>> /\ room' \subseteq room
    BY <1>7 DEF BidReadPumpEnds, Unregister
  <2>2. StreamsTyped' /\ \A v \in Watchers : watcher'[v] = "new" => watcher[v] = "new"
    BY <1>7, <2>1 DEF BidReadPumpEnds, Unregister, StreamInd, StreamsTyped
  <2>3. ChannelInOrder' /\ (\A v \in Watchers : Joined(v)') /\ \A v \in room' : UpToDate(v)'
    BY <2>1 DEF StreamInd, ChannelInOrder, Joined, UpToDate, Reached
  <2> QED
    BY <2>1, <2>2, <2>3 DEF StreamInd
<1> QED
  BY <1>1, <1>2, <1>3, <1>4, <1>5, <1>6, <1>7, <1>8 DEF BidHubNext

\* However the hub, the pumps and the bidders interleave, a watcher's socket
\* carries an uninterrupted run of the bids placed on its pod (hub.go of
\* bid-service), for any number of watchers and any size of the buffers; the bids
\* placed on other pods are missing from it.
THEOREM WatchersMissNoLocalBid == MessagingSpec => []StreamsUninterrupted
<1>1. MessagingInit => StreamInd
  BY StreamIndInit DEF MessagingInit
<1>2. StreamInd /\ [MessagingNext]_messagingVars => StreamInd'
  BY StreamIndStep, StepOfEachPart
<1>3. StreamInd => StreamsUninterrupted
  BY DEF StreamInd, StreamsUninterrupted, Joined, Run, Follows
<1> QED
  BY <1>1, <1>2, <1>3, PTL DEF MessagingSpec

-----------------------------------------------------------------------------
(***************************************************************************)
(* The consumer of pkg/kafka.  What is known of a session is a property of  *)
(* its record s, so that a step of one member leaves what is known of the   *)
(* others alone.                                                            *)
(***************************************************************************)
SessionType ==
    [pc : {"none", "fetch", "dedup", "handle", "backoff", "dlq", "mark", "ack"},
     next : Nat \ {0}, marked : Nat, attempt : Nat, live : BOOLEAN, upto : Nat]

KafkaTyped ==
    /\ log \in Seq(Events)
    /\ committed \in Nat /\ committed <= Len(log) + 1
    /\ session \in [Members -> SessionType]
    /\ processed \subseteq handled
    /\ unseen \subseteq 1 .. Len(log)

Accounted(o) == log[o] \in handled \/ o \in deadLetters \cup undelivered \cup abandoned \cup unseen

\* The events whose handler may succeed again.
Excused == blind \cup expired \cup overlapped

\* Between the look-up and the record.
Work == {"handle", "backoff", "dlq", "mark"}

\* A session works on a message of the log, and what it has marked lies behind it.
InTheLog(s) ==
    /\ s.pc \notin {"none", "fetch"} => s.next <= Len(log)
    /\ s.next <= Len(log) + 1
    /\ s.upto <= Len(log)
    /\ s.marked <= s.next

\* Every message behind it is accounted for.
BehindAccounted(s) ==
    /\ s.pc # "none" => \A o \in 1 .. Len(log) : o < s.next => Accounted(o)
    /\ s.pc = "mark" => log[s.next] \in handled
    /\ s.pc = "ack" => Accounted(s.next)

\* It calls the handler for an event that was handled only if the event is excused.
LookedUp(s) == s.pc \in {"handle", "backoff"} /\ log[s.next] \in handled => log[s.next] \in Excused

SessionOk(s) == InTheLog(s) /\ BehindAccounted(s) /\ LookedUp(s)

\* Two sessions that work on the same event are known to.
Apart ==
    \A m, n \in Members :
        m # n /\ session[m].pc \in Work /\ session[n].pc \in Work /\ Event(m) = Event(n) =>
            Event(m) \in overlapped

\* An event that was handled is in the store, or excused, or about to be recorded.
HandledRecorded ==
    \A e \in handled :
        e \in processed \/ e \in Excused \/ \E m \in Members : session[m].pc = "mark" /\ Event(m) = e

KafkaInd ==
    /\ KafkaTyped
    /\ \A o \in 1 .. Len(log) : o < committed => Accounted(o)
    /\ \A m \in Members : SessionOk(session[m])
    /\ Apart
    /\ HandledRecorded
    /\ repeated \subseteq Excused

LEMMA KafkaIndInit ==
    ASSUME KafkaInit
    PROVE  KafkaInd
<1>1. /\ KafkaTyped /\ committed = 0 /\ handled = {} /\ repeated = {}
      /\ \A m \in Members : session[m] = NoSession
  BY DEF KafkaInit, KafkaTyped, SessionType, NoSession, NoOffset
<1>2. Len(log) = 0
  BY DEF KafkaInit
<1>3. SessionOk(NoSession)
  BY <1>2 DEF SessionOk, InTheLog, BehindAccounted, LookedUp, NoSession
<1>4. Apart
  BY <1>1 DEF Apart, Work, NoSession
<1> QED
  BY <1>1, <1>2, <1>3, <1>4 DEF KafkaInd, HandledRecorded

\* The log stays, and the histories forget nothing.
Grows ==
    /\ UNCHANGED log
    /\ handled \subseteq handled'
    /\ deadLetters \subseteq deadLetters' /\ undelivered \subseteq undelivered'
    /\ abandoned \subseteq abandoned' /\ unseen \subseteq unseen' /\ unseen' \subseteq 1 .. Len(log)
    /\ Excused \subseteq Excused' /\ overlapped \subseteq overlapped'

LEMMA StaysAccounted ==
    ASSUME Grows
    PROVE  \A o \in Nat : Accounted(o) => Accounted(o)'
BY DEF Grows, Accounted

\* What is known of a session stays so, if nothing it is about to handle was
\* handled meanwhile.
LEMMA SessionStays ==
    ASSUME Grows, log \in Seq(Events), NEW s \in SessionType, SessionOk(s),
           s.pc \in {"handle", "backoff"} /\ log[s.next] \in handled' => log[s.next] \in handled \cup Excused'
    PROVE  SessionOk(s)'
<1>1. log' = log /\ handled \subseteq handled' /\ Excused \subseteq Excused' /\ Len(log) \in Nat
  BY DEF Grows
<1>2. s.next \in Nat
  BY DEF SessionType
<1>3. InTheLog(s)'
  BY <1>1 DEF SessionOk, InTheLog
<1>4. BehindAccounted(s)'
  <2>1. s.pc # "none" => \A o \in 1 .. Len(log) : o < s.next => Accounted(o)'
    BY StaysAccounted, <1>1 DEF SessionOk, BehindAccounted
  <2>2. s.pc = "ack" => Accounted(s.next)'
    BY StaysAccounted, <1>2 DEF SessionOk, BehindAccounted
  <2> QED
    BY <1>1, <2>1, <2>2 DEF SessionOk, BehindAccounted
<1>5. LookedUp(s)'
  BY <1>1 DEF SessionOk, LookedUp
<1> QED
  BY <1>3, <1>4, <1>5 DEF SessionOk

\* A step that changes the session of one member.
LEMMA MemberStep ==
    ASSUME KafkaInd, Grows, NEW m \in Members, NEW s \in SessionType,
           session' = [session EXCEPT ![m] = s],
           processed' \subseteq handled',
           committed' \in Nat, committed' <= Len(log) + 1,
           \A o \in 1 .. Len(log) : o < committed' => Accounted(o),
           SessionOk(s)',
           \A n \in Members \ {m} :
               session[n].pc \in {"handle", "backoff"} /\ Event(n) \in handled' =>
                   Event(n) \in handled \cup Excused',
           s.pc \in Work =>
               \A n \in Members \ {m} :
                   session[n].pc \in Work /\ Event(n) = log[s.next] => log[s.next] \in overlapped',
           HandledRecorded',
           repeated' \subseteq Excused'
    PROVE  KafkaInd'
<1>1. log' = log /\ log \in Seq(Events) /\ session \in [Members -> SessionType] /\ Len(log) \in Nat
  BY DEF KafkaInd, KafkaTyped, Grows
<1>2. session'[m] = s /\ \A n \in Members \ {m} : session'[n] = session[n]
  BY <1>1
<1>3. KafkaTyped'
  BY <1>1 DEF KafkaTyped, Grows
<1>4. \A o \in 1 .. Len(log') : o < committed' => Accounted(o)'
  BY <1>1, StaysAccounted
<1>5. \A n \in Members : SessionOk(session[n])'
  <2> SUFFICES ASSUME NEW n \in Members
               PROVE  SessionOk(session[n])'
    OBVIOUS
  <2>1. PICK t \in SessionType : t = session'[n]
    BY <1>1, <1>2
  <2>2. SessionOk(t)'
    <3>1. CASE n = m
      BY <1>2, <2>1, <3>1
    <3>2. CASE n # m
      <4>1. t = session[n] /\ SessionOk(t)
        BY <1>2, <2>1, <3>2 DEF KafkaInd
      <4>2. t.pc \in {"handle", "backoff"} /\ log[t.next] \in handled' => log[t.next] \in handled \cup Excused'
        BY <3>2, <4>1 DEF Event
      <4> QED
        BY <1>1, <4>1, <4>2, SessionStays
    <3> QED
      BY <3>1, <3>2
  <2>3. t = session[n]'
    BY <2>1
  <2> QED
    BY <2>2, <2>3
<1>6. Apart'
  <2> SUFFICES ASSUME NEW a \in Members, NEW b \in Members, a # b,
                      session'[a].pc \in Work, session'[b].pc \in Work,
                      log[session'[a].next] = log[session'[b].next]
               PROVE  log[session'[a].next] \in overlapped'
    BY <1>1 DEF Apart, Event, Work
  <2>1. CASE a # m /\ b # m
    BY <1>2, <2>1 DEF KafkaInd, Apart, Event, Grows
  <2>2. CASE a = m
    BY <1>2, <2>2 DEF Event
  <2>3. CASE b = m
    BY <1>2, <2>3 DEF Event
  <2> QED
    BY <2>1, <2>2, <2>3
<1> QED
  BY <1>3, <1>4, <1>5, <1>6 DEF KafkaInd

\* A step that handles no event keeps the others recorded.
LEMMA KeepsRecorded ==
    ASSUME KafkaInd, Grows, NEW m \in Members, NEW s \in SessionType,
           session' = [session EXCEPT ![m] = s],
           handled' = handled, processed \subseteq processed',
           session[m].pc = "mark" =>
               (s.pc = "mark" /\ s.next = session[m].next) \/ Event(m) \in processed' \cup Excused'
    PROVE  HandledRecorded'
<1>1. log' = log /\ session \in [Members -> SessionType] /\ Excused \subseteq Excused'
  BY DEF KafkaInd, KafkaTyped, Grows
<1>2. session'[m] = s /\ \A n \in Members \ {m} : session'[n] = session[n]
  BY <1>1
<1> SUFFICES ASSUME NEW e \in handled
             PROVE  e \in processed' \/ e \in Excused' \/ \E n \in Members : session'[n].pc = "mark" /\ Event(n)' = e
  BY DEF HandledRecorded
<1>3. CASE e \in processed \/ e \in Excused
  BY <1>1, <1>3
<1>4. CASE \E n \in Members : session[n].pc = "mark" /\ Event(n) = e
  <2>1. PICK n \in Members : session[n].pc = "mark" /\ Event(n) = e
    BY <1>4
  <2>2. CASE n # m
    BY <1>1, <1>2, <2>1, <2>2 DEF Event
  <2>3. CASE n = m
    BY <1>1, <1>2, <2>1, <2>3 DEF Event
  <2> QED
    BY <2>2, <2>3
<1> QED
  BY <1>3, <1>4 DEF KafkaInd, HandledRecorded

\* A step of one member in which no handler succeeds.
LEMMA QuietStep ==
    ASSUME KafkaInd, Grows, NEW m \in Members, NEW s \in SessionType,
           session' = [session EXCEPT ![m] = s],
           UNCHANGED <<handled, repeated>>,
           processed \subseteq processed', processed' \subseteq handled,
           committed' \in Nat, committed' <= Len(log) + 1,
           \A o \in 1 .. Len(log) : o < committed' => Accounted(o),
           SessionOk(s)',
           s.pc \in Work =>
               \/ session[m].pc \in Work /\ s.next = session[m].next
               \/ \A n \in Members \ {m} :
                      session[n].pc \in Work /\ Event(n) = log[s.next] => log[s.next] \in overlapped',
           session[m].pc = "mark" =>
               (s.pc = "mark" /\ s.next = session[m].next) \/ Event(m) \in processed' \cup Excused'
    PROVE  KafkaInd'
<1>1. HandledRecorded'
  BY KeepsRecorded
<1>2. repeated' \subseteq Excused'
  BY DEF KafkaInd, Grows
<1>3. \A n \in Members \ {m} :
          session[n].pc \in {"handle", "backoff"} /\ Event(n) \in handled' => Event(n) \in handled \cup Excused'
  OBVIOUS
<1>4. s.pc \in Work =>
          \A n \in Members \ {m} :
              session[n].pc \in Work /\ Event(n) = log[s.next] => log[s.next] \in overlapped'
  BY DEF KafkaInd, Apart, Event, Grows
<1>5. processed' \subseteq handled'
  OBVIOUS
<1> QED
  BY <1>1, <1>2, <1>3, <1>4, <1>5, MemberStep

\* The record of a member, and what is known of it.
LEMMA KnownSession ==
    ASSUME KafkaInd, NEW m \in Members
    PROVE  /\ session[m] \in SessionType /\ SessionOk(session[m])
           /\ session[m].next \in Nat \ {0} /\ session[m].marked \in Nat /\ session[m].attempt \in Nat
           /\ session[m].upto \in Nat /\ session[m].live \in BOOLEAN
           /\ log \in Seq(Events) /\ Len(log) \in Nat
           /\ committed \in Nat /\ committed <= Len(log) + 1 /\ processed \subseteq handled
           /\ unseen \subseteq 1 .. Len(log)
           /\ \A o \in 1 .. Len(log) : o < committed => Accounted(o)
<1>1. session[m] \in SessionType
  BY DEF KafkaInd, KafkaTyped
<1> QED
  BY <1>1 DEF KafkaInd, KafkaTyped, SessionType

LEMMA PublishKafka ==
    ASSUME KafkaInd, NEW e \in Events, Publish(e)
    PROVE  KafkaInd'
<1>1. /\ log' = Append(log, e)
      /\ UNCHANGED <<committed, session, processed, handled, repeated, blind, expired, overlapped,
                     deadLetters, undelivered, abandoned, unseen>>
  BY DEF Publish, effects, group, offsetHistory
<1>2. /\ log \in Seq(Events) /\ Len(log) \in Nat /\ session \in [Members -> SessionType]
      /\ committed \in Nat /\ committed <= Len(log) + 1
  BY DEF KafkaInd, KafkaTyped
<1>3. /\ log' \in Seq(Events) /\ Len(log') = Len(log) + 1
      /\ \A o \in 1 .. Len(log) : log'[o] = log[o]
  BY <1>1, <1>2
<1>4. KafkaTyped'
  BY <1>1, <1>2, <1>3 DEF KafkaInd, KafkaTyped
<1>5. \A o \in 1 .. Len(log) : Accounted(o) => Accounted(o)'
  BY <1>1, <1>3 DEF Accounted
<1>6. \A o \in 1 .. Len(log') : o < Len(log) + 1 => o \in 1 .. Len(log)
  BY <1>2, <1>3
<1>7. \A o \in 1 .. Len(log') : o < committed' => Accounted(o)'
  BY <1>1, <1>2, <1>3, <1>5, <1>6 DEF KafkaInd
<1>8. Excused' = Excused
  BY <1>1 DEF Excused
<1>9. \A m \in Members : session[m].pc \in Work => Event(m)' = Event(m)
  <2> SUFFICES ASSUME NEW m \in Members, session[m].pc \in Work
               PROVE  Event(m)' = Event(m)
    OBVIOUS
  <2>1. session[m].next \in 1 .. Len(log)
    BY KnownSession DEF SessionOk, InTheLog, Work
  <2> QED
    BY <1>1, <1>3, <2>1 DEF Event
<1>10. \A m \in Members : SessionOk(session[m])'
  <2> SUFFICES ASSUME NEW m \in Members
               PROVE  SessionOk(session[m])'
    OBVIOUS
  <2>1. PICK s \in SessionType : s = session[m]
    BY <1>2
  <2>2. SessionOk(s) /\ s.next \in Nat \ {0} /\ s.upto \in Nat /\ s.marked \in Nat
    BY <2>1 DEF KafkaInd, SessionType
  <2>3. InTheLog(s)'
    BY <1>2, <1>3, <2>2 DEF SessionOk, InTheLog
  <2>4. s.pc \notin {"none", "fetch"} => s.next \in 1 .. Len(log) /\ log'[s.next] = log[s.next]
    BY <1>2, <1>3, <2>2 DEF SessionOk, InTheLog
  <2>5. BehindAccounted(s)'
    <3>1. s.pc # "none" => \A o \in 1 .. Len(log') : o < s.next => Accounted(o)'
      <4> SUFFICES ASSUME s.pc # "none", NEW o \in 1 .. Len(log'), o < s.next
                   PROVE  Accounted(o)'
        OBVIOUS
      <4>1. o \in 1 .. Len(log)
        BY <1>2, <1>6, <2>2 DEF SessionOk, InTheLog
      <4> QED
        BY <1>5, <2>2, <4>1 DEF SessionOk, BehindAccounted
    <3>2. s.pc = "ack" => Accounted(s.next)'
      BY <1>5, <2>2, <2>4 DEF SessionOk, BehindAccounted
    <3>3. s.pc = "mark" => log'[s.next] \in handled'
      BY <1>1, <2>2, <2>4 DEF SessionOk, BehindAccounted
    <3> QED
      BY <3>1, <3>2, <3>3 DEF BehindAccounted
  <2>6. LookedUp(s)'
    BY <1>1, <1>8, <2>2, <2>4 DEF SessionOk, LookedUp
  <2>7. SessionOk(s)' /\ s = session[m]'
    BY <1>1, <2>1, <2>3, <2>5, <2>6 DEF SessionOk
  <2> QED
    BY <2>7
<1>11. Apart'
  BY <1>1, <1>9 DEF KafkaInd, Apart
<1>12. HandledRecorded'
  BY <1>1, <1>8, <1>9 DEF KafkaInd, HandledRecorded, Work
<1> QED
  BY <1>1, <1>4, <1>7, <1>8, <1>10, <1>11, <1>12 DEF KafkaInd

\* A step that changes no session and no event's place.
LEMMA KeyOrFenceKafka ==
    ASSUME KafkaInd,
           \/ \E e \in Events : KeyExpires(e)
           \/ \E m \in Members : FenceMember(m)
    PROVE  KafkaInd'
<1>1. /\ UNCHANGED <<log, committed, session, handled, repeated, overlapped, deadLetters, undelivered,
                     abandoned, unseen>>
      /\ processed' \subseteq processed /\ processed \subseteq processed' \cup Excused'
      /\ Excused \subseteq Excused'
  BY DEF KeyExpires, FenceMember, effects, group, offsetHistory, Excused
<1>2. Grows
  BY <1>1 DEF Grows, KafkaInd, KafkaTyped
<1>3. KafkaTyped'
  BY <1>1 DEF KafkaInd, KafkaTyped
<1>4. \A m \in Members : SessionOk(session[m])'
  <2> SUFFICES ASSUME NEW m \in Members
               PROVE  SessionOk(session[m])'
    OBVIOUS
  <2>1. PICK s \in SessionType : s = session[m] /\ SessionOk(s)
    BY KnownSession
  <2>2. SessionOk(s)' /\ s = session[m]'
    BY <1>1, <1>2, <2>1, SessionStays, KnownSession
  <2> QED
    BY <2>2
<1>5. \A o \in 1 .. Len(log') : o < committed' => Accounted(o)'
  BY <1>1, <1>2, StaysAccounted DEF KafkaInd
<1>6. Apart' /\ HandledRecorded' /\ repeated' \subseteq Excused'
  BY <1>1 DEF KafkaInd, Apart, HandledRecorded, Event
<1> QED
  BY <1>3, <1>4, <1>5, <1>6 DEF KafkaInd

\* The steps of the loop over one message that record nothing about an offset.
LEMMA LoopStepKafka ==
    ASSUME KafkaInd, NEW m \in Members,
           FetchMessage(m) \/ IsDuplicate(m) \/ HandlerFails(m) \/ RetryHandler(m)
    PROVE  KafkaInd'
<1>1. PICK s \in SessionType : s = session[m] /\ SessionOk(s)
  BY KnownSession
<1>2. /\ UNCHANGED <<log, committed, processed, handled, repeated, expired, deadLetters, undelivered,
                     abandoned, unseen>>
      /\ blind \subseteq blind' /\ overlapped \subseteq overlapped'
  BY DEF FetchMessage, IsDuplicate, HandlerFails, RetryHandler, effects, group, offsetHistory
<1>3. Grows
  BY <1>2 DEF Grows, Excused, KafkaInd, KafkaTyped
<1>4. session \in [Members -> SessionType]
  BY DEF KafkaInd, KafkaTyped
<1>5. PICK t \in SessionType :
          /\ session' = [session EXCEPT ![m] = t]
          /\ t.next = s.next /\ t.marked = s.marked /\ t.upto = s.upto
          /\ t.pc \in {"dedup", "handle", "backoff", "dlq", "ack"} /\ s.pc \in {"fetch", "dedup", "handle", "backoff"}
  <2>1. CASE FetchMessage(m)
    <3> DEFINE r == [s EXCEPT !.pc = "dedup", !.attempt = 0]
    <3>1. r \in SessionType /\ session' = [session EXCEPT ![m] = r]
      BY <1>1, <1>4, <2>1 DEF FetchMessage, SessionType
    <3> QED
      BY <1>1, <2>1, <3>1 DEF FetchMessage, SessionType
  <2>2. CASE IsDuplicate(m)
    <3>1. PICK p \in {"ack", "handle"} : session' = [session EXCEPT ![m] = [s EXCEPT !.pc = p]]
      BY <1>1, <1>4, <2>2 DEF IsDuplicate
    <3> QED
      BY <1>1, <2>2, <3>1 DEF IsDuplicate, SessionType
  <2>3. CASE HandlerFails(m)
    <3>1. PICK p \in {"backoff", "dlq"} : session' = [session EXCEPT ![m] = [s EXCEPT !.pc = p]]
      BY <1>1, <1>4, <2>3 DEF HandlerFails
    <3> QED
      BY <1>1, <2>3, <3>1 DEF HandlerFails, SessionType
  <2>4. CASE RetryHandler(m)
    <3>1. PICK n \in Nat : n = s.attempt + 1
      BY DEF SessionType
    <3>2. session' = [session EXCEPT ![m] = [s EXCEPT !.pc = "handle", !.attempt = n]]
      BY <1>1, <1>4, <2>4, <3>1 DEF RetryHandler
    <3> QED
      BY <1>1, <2>4, <3>2 DEF RetryHandler, SessionType
  <2> QED
    BY <2>1, <2>2, <2>3, <2>4
<1>6. session'[m] = t /\ \A n \in Members \ {m} : session'[n] = session[n]
  BY <1>4, <1>5
<1>7. s.pc \in {"fetch", "dedup", "handle", "backoff"} /\ DOMAIN s = DOMAIN t /\ "pc" \in DOMAIN s
  BY <1>5 DEF SessionType
<1>8. FetchMessage(m) => t.pc = "dedup"
  BY <1>1, <1>4, <1>6, <1>7 DEF FetchMessage
<1>9. HandlerFails(m) \/ RetryHandler(m) => s.pc \in {"handle", "backoff"}
  BY <1>1 DEF HandlerFails, RetryHandler
<1>10. IsDuplicate(m) =>
           \/ t.pc = "ack" /\ Event(m) \in processed
           \/ /\ t.pc = "handle"
              /\ Event(m) \notin processed \/ Event(m) \in blind'
              /\ overlapped' = IF Working(Event(m)) = {} THEN overlapped ELSE overlapped \cup {Event(m)}
  <2> SUFFICES ASSUME IsDuplicate(m)
               PROVE  \/ t.pc = "ack" /\ Event(m) \in processed
                      \/ /\ t.pc = "handle"
                         /\ Event(m) \notin processed \/ Event(m) \in blind'
                         /\ overlapped' = IF Working(Event(m)) = {} THEN overlapped ELSE overlapped \cup {Event(m)}
    OBVIOUS
  <2>1. CASE Event(m) \in processed /\ session' = [session EXCEPT ![m].pc = "ack"]
    BY <1>1, <1>4, <1>6, <1>7, <2>1
  <2>2. CASE /\ Event(m) \notin processed \/ Event(m) \in blind'
             /\ session' = [session EXCEPT ![m].pc = "handle"]
             /\ overlapped' = IF Working(Event(m)) = {} THEN overlapped ELSE overlapped \cup {Event(m)}
    BY <1>1, <1>4, <1>6, <1>7, <2>2
  <2> QED
    BY <2>1, <2>2 DEF IsDuplicate
<1>11. t.next <= Len(log) /\ t.next \in Nat /\ s.upto \in Nat /\ Len(log) \in Nat
  <2>1. CASE FetchMessage(m)
    BY <1>1, <1>5, <2>1, KnownSession DEF FetchMessage, SessionOk, InTheLog
  <2>2. CASE ~FetchMessage(m)
    BY <1>1, <1>5, <2>2, KnownSession DEF IsDuplicate, HandlerFails, RetryHandler, SessionOk, InTheLog
  <2> QED
    BY <2>1, <2>2
<1>12. t.pc = "ack" => log[t.next] \in handled
  <2>1. CASE IsDuplicate(m)
    BY <1>1, <1>5, <1>10, <2>1, KnownSession DEF Event
  <2>2. CASE HandlerFails(m)
    BY <1>1, <1>4, <1>6, <1>7, <2>2 DEF HandlerFails
  <2>3. CASE RetryHandler(m)
    BY <1>1, <1>4, <1>6, <1>7, <2>3 DEF RetryHandler
  <2> QED
    BY <1>8, <2>1, <2>2, <2>3
<1>13. LookedUp(t)'
  <2>1. CASE FetchMessage(m)
    BY <1>8, <2>1 DEF LookedUp
  <2>2. CASE IsDuplicate(m)
    <3>1. CASE t.pc = "ack"
      BY <3>1 DEF LookedUp
    <3>2. CASE Event(m) \in blind'
      BY <1>1, <1>2, <1>5, <3>2 DEF LookedUp, Event, Excused
    <3>3. CASE Event(m) \notin processed /\ overlapped' = IF Working(Event(m)) = {} THEN overlapped ELSE overlapped \cup {Event(m)}
      <4>1. ASSUME Event(m) \in handled PROVE Event(m) \in Excused'
        <5>1. CASE Event(m) \in Excused
          BY <1>3, <5>1 DEF Grows
        <5>2. CASE \E n \in Members : session[n].pc = "mark" /\ Event(n) = Event(m)
          <6>1. Working(Event(m)) # {}
            BY <5>2 DEF Working
          <6> QED
            BY <3>3, <6>1 DEF Excused
        <5> QED
          BY <3>3, <4>1, <5>1, <5>2 DEF KafkaInd, HandledRecorded
      <4> QED
        BY <1>1, <1>2, <1>5, <4>1 DEF LookedUp, Event
    <3> QED
      BY <1>10, <2>2, <3>1, <3>2, <3>3
  <2>3. CASE HandlerFails(m) \/ RetryHandler(m)
    BY <1>1, <1>2, <1>3, <1>5, <2>3 DEF HandlerFails, RetryHandler, SessionOk, LookedUp, Grows
  <2> QED
    BY <2>1, <2>2, <2>3
<1>14. SessionOk(t)'
  <2>1. InTheLog(t)'
    BY <1>1, <1>2, <1>5, <1>11 DEF SessionOk, InTheLog
  <2>2. BehindAccounted(t)'
    <3>1. \A o \in 1 .. Len(log) : o < t.next => Accounted(o)'
      BY <1>1, <1>3, <1>5, StaysAccounted DEF SessionOk, BehindAccounted
    <3>2. t.pc = "ack" => Accounted(t.next)'
      BY <1>2, <1>12 DEF Accounted
    <3> QED
      BY <1>2, <1>5, <3>1, <3>2 DEF BehindAccounted
  <2> QED
    BY <1>13, <2>1, <2>2 DEF SessionOk
<1>15. t.pc \in Work =>
           \/ session[m].pc \in Work /\ t.next = session[m].next
           \/ \A n \in Members \ {m} :
                  session[n].pc \in Work /\ Event(n) = log[t.next] => log[t.next] \in overlapped'
  <2>1. CASE IsDuplicate(m)
    <3>0. log[t.next] = Event(m)
      BY <1>1, <1>5 DEF Event
    <3> SUFFICES ASSUME t.pc \in Work, NEW n \in Members \ {m}, session[n].pc \in Work, Event(n) = Event(m)
                 PROVE  Event(m) \in overlapped'
      BY <3>0
    <3>1. n \in Working(Event(m))
      BY DEF Working, Work
    <3> QED
      BY <1>10, <2>1, <3>1 DEF Work
  <2>2. CASE FetchMessage(m)
    BY <1>8, <2>2 DEF Work
  <2>3. CASE HandlerFails(m) \/ RetryHandler(m)
    BY <1>1, <1>5, <1>9, <2>3 DEF Work
  <2> QED
    BY <2>1, <2>2, <2>3
<1> QED
  BY <1>1, <1>2, <1>3, <1>5, <1>14, <1>15, QuietStep, KnownSession

LEMMA HandlerSucceedsKafka ==
    ASSUME KafkaInd, NEW m \in Members, HandlerSucceeds(m)
    PROVE  KafkaInd'
<1>1. PICK s \in SessionType : s = session[m] /\ SessionOk(s) /\ s.pc = "handle"
  BY KnownSession DEF HandlerSucceeds
<1>2. PICK e : e = Event(m)
  OBVIOUS
<1>3. /\ UNCHANGED <<log, committed, processed, blind, expired, overlapped, deadLetters, undelivered,
                     abandoned, unseen>>
      /\ handled' = handled \cup {e}
      /\ repeated' = repeated \cup (handled \cap {e})
  BY <1>2 DEF HandlerSucceeds, group, offsetHistory
<1>4. Grows /\ Excused' = Excused
  BY <1>3 DEF Grows, Excused, KafkaInd, KafkaTyped
<1>5. session \in [Members -> SessionType]
  BY DEF KafkaInd, KafkaTyped
<1>6. PICK t \in SessionType :
          /\ session' = [session EXCEPT ![m] = t] /\ t.pc = "mark"
          /\ t.next = s.next /\ t.marked = s.marked /\ t.upto = s.upto
  <2> DEFINE r == [s EXCEPT !.pc = "mark"]
  <2>1. session' = [session EXCEPT ![m] = r]
    BY <1>1, <1>5 DEF HandlerSucceeds
  <2>2. r \in SessionType /\ r.pc = "mark" /\ r.next = s.next /\ r.marked = s.marked /\ r.upto = s.upto
    BY DEF SessionType
  <2> HIDE DEF r
  <2> QED
    BY <2>1, <2>2
<1>7. session'[m] = t /\ \A n \in Members \ {m} : session'[n] = session[n]
  BY <1>5, <1>6
<1>8. log[s.next] = e /\ log[t.next] = e
  BY <1>1, <1>2, <1>6 DEF Event
<1>9. e \in handled => e \in Excused
  BY <1>1, <1>8 DEF SessionOk, LookedUp
<1>10. SessionOk(t)'
  <2>1. InTheLog(t)' /\ LookedUp(t)'
    BY <1>1, <1>3, <1>6 DEF SessionOk, InTheLog, LookedUp
  <2>2. \A o \in 1 .. Len(log) : o < t.next => Accounted(o)'
    BY <1>1, <1>4, <1>6, StaysAccounted DEF SessionOk, BehindAccounted
  <2> QED
    BY <1>3, <1>6, <1>8, <2>1, <2>2 DEF SessionOk, BehindAccounted
<1>11. \A n \in Members \ {m} : session[n].pc \in Work /\ Event(n) = e => e \in overlapped
  BY <1>1, <1>2 DEF KafkaInd, Apart, Work
<1>12. \A n \in Members \ {m} :
           session[n].pc \in {"handle", "backoff"} /\ Event(n) \in handled' => Event(n) \in handled \cup Excused'
  BY <1>3, <1>4, <1>11 DEF Work, Excused
<1>13. HandledRecorded'
  <2> SUFFICES ASSUME NEW a \in handled'
               PROVE  a \in processed' \/ a \in Excused' \/ \E n \in Members : session'[n].pc = "mark" /\ Event(n)' = a
    BY DEF HandledRecorded
  <2>1. CASE a = e
    BY <1>3, <1>6, <1>7, <1>8, <2>1 DEF Event
  <2>2. CASE a \in handled
    <3>1. CASE a \in processed \/ a \in Excused
      BY <1>3, <1>4, <3>1
    <3>2. CASE \E n \in Members : session[n].pc = "mark" /\ Event(n) = a
      <4>1. PICK n \in Members : session[n].pc = "mark" /\ Event(n) = a
        BY <3>2
      <4>2. session'[n] = session[n]
        BY <1>1, <1>7, <4>1
      <4> QED
        BY <1>3, <4>1, <4>2 DEF Event
    <3> QED
      BY <2>2, <3>1, <3>2 DEF KafkaInd, HandledRecorded
  <2> QED
    BY <1>3, <2>1, <2>2
<1>14. repeated' \subseteq Excused' /\ processed' \subseteq handled'
  BY <1>3, <1>4, <1>9, KnownSession DEF KafkaInd
<1>15. /\ committed' \in Nat /\ committed' <= Len(log) + 1
       /\ \A o \in 1 .. Len(log) : o < committed' => Accounted(o)
  BY <1>3, KnownSession
<1>16. t.pc \in Work =>
           \A n \in Members \ {m} :
               session[n].pc \in Work /\ Event(n) = log[t.next] => log[t.next] \in overlapped'
  BY <1>3, <1>8, <1>11
<1> QED
  BY <1>4, <1>6, <1>10, <1>12, <1>13, <1>14, <1>15, <1>16, MemberStep

\* The loop leaves a message: it is abandoned, or marked.
LEMMA NextMessageKafka ==
    ASSUME KafkaInd, NEW m \in Members, AbandonMessage(m) \/ MarkMessage(m)
    PROVE  KafkaInd'
<1>1. PICK s \in SessionType : s = session[m] /\ SessionOk(s) /\ s.pc \in {"backoff", "ack"}
  BY KnownSession DEF AbandonMessage, MarkMessage
<1>2. PICK n \in Nat \ {0} : n = s.next + 1
  BY DEF SessionType
<1>3. /\ UNCHANGED <<log, committed, processed, handled, repeated, blind, expired, overlapped,
                     deadLetters, undelivered, unseen>>
      /\ abandoned \subseteq abandoned'
      /\ s.pc = "backoff" => s.next \in abandoned'
  BY <1>1 DEF AbandonMessage, MarkMessage, effects, group, offsetHistory
<1>4. Grows
  BY <1>3 DEF Grows, Excused, KafkaInd, KafkaTyped
<1>5. session \in [Members -> SessionType]
  BY DEF KafkaInd, KafkaTyped
<1>6. PICK t \in SessionType :
          /\ session' = [session EXCEPT ![m] = t] /\ t.pc = "fetch"
          /\ t.next = n /\ t.marked \in {s.marked, n} /\ t.upto = s.upto
  <2>1. CASE AbandonMessage(m)
    <3> DEFINE r == [s EXCEPT !.pc = "fetch", !.next = n]
    <3>1. session' = [session EXCEPT ![m] = r]
      BY <1>1, <1>2, <1>5, <2>1 DEF AbandonMessage
    <3>2. r \in SessionType /\ r.pc = "fetch" /\ r.next = n /\ r.marked = s.marked /\ r.upto = s.upto
      BY DEF SessionType
    <3> HIDE DEF r
    <3> QED
      BY <3>1, <3>2
  <2>2. CASE MarkMessage(m)
    <3> DEFINE r == [s EXCEPT !.pc = "fetch", !.marked = n, !.next = n]
    <3>1. session' = [session EXCEPT ![m] = r]
      BY <1>1, <1>2, <1>5, <2>2 DEF MarkMessage
    <3>2. r \in SessionType /\ r.pc = "fetch" /\ r.next = n /\ r.marked = n /\ r.upto = s.upto
      BY DEF SessionType
    <3> HIDE DEF r
    <3> QED
      BY <3>1, <3>2
  <2> QED
    BY <2>1, <2>2
<1>7. s.next \in Nat /\ s.marked \in Nat /\ s.upto \in Nat /\ Len(log) \in Nat
  BY KnownSession DEF SessionType
<1>8. SessionOk(t)'
  <2>1. InTheLog(t)' /\ LookedUp(t)'
    BY <1>1, <1>2, <1>3, <1>6, <1>7 DEF SessionOk, InTheLog, LookedUp
  <2>2. Accounted(s.next)'
    <3>1. CASE s.pc = "ack"
      BY <1>1, <1>4, <1>7, <3>1, StaysAccounted DEF SessionOk, BehindAccounted
    <3>2. CASE s.pc = "backoff"
      BY <1>3, <3>2 DEF Accounted
    <3> QED
      BY <1>1, <3>1, <3>2
  <2>3. \A o \in 1 .. Len(log) : o < s.next => Accounted(o)'
    BY <1>1, <1>4, StaysAccounted DEF SessionOk, BehindAccounted
  <2>4. \A o \in 1 .. Len(log) : o < n => o < s.next \/ o = s.next
    BY <1>2, <1>7
  <2>5. \A o \in 1 .. Len(log) : o < n => Accounted(o)'
    BY <2>2, <2>3, <2>4
  <2> QED
    BY <1>3, <1>6, <2>1, <2>5 DEF SessionOk, BehindAccounted
<1> QED
  BY <1>1, <1>3, <1>4, <1>6, <1>8, QuietStep, KnownSession DEF Work

\* The message is settled: it is in the dead-letter topic, or its event recorded.
LEMMA SettledMessageKafka ==
    ASSUME KafkaInd, NEW m \in Members, sendToDLQ(m) \/ MarkProcessed(m)
    PROVE  KafkaInd'
<1>1. PICK s \in SessionType : s = session[m] /\ SessionOk(s) /\ s.pc \in {"dlq", "mark"}
  BY KnownSession DEF sendToDLQ, MarkProcessed
<1>2. /\ UNCHANGED <<log, committed, handled, repeated, expired, overlapped, abandoned, unseen>>
      /\ deadLetters \subseteq deadLetters' /\ undelivered \subseteq undelivered'
      /\ processed \subseteq processed' /\ blind \subseteq blind'
      /\ s.pc = "dlq" => s.next \in deadLetters' \cup undelivered' /\ processed' = processed
      /\ s.pc = "mark" => Event(m) \in processed' \cup blind' /\ processed' \subseteq processed \cup {Event(m)}
  BY <1>1 DEF sendToDLQ, MarkProcessed, effects, group, offsetHistory
<1>3. Grows
  BY <1>2 DEF Grows, Excused, KafkaInd, KafkaTyped
<1>4. session \in [Members -> SessionType]
  BY DEF KafkaInd, KafkaTyped
<1>5. PICK t \in SessionType :
          /\ session' = [session EXCEPT ![m] = t] /\ t.pc = "ack"
          /\ t.next = s.next /\ t.marked = s.marked /\ t.upto = s.upto
  <2> DEFINE r == [s EXCEPT !.pc = "ack"]
  <2>1. session' = [session EXCEPT ![m] = r]
    BY <1>1, <1>4 DEF sendToDLQ, MarkProcessed
  <2>2. r \in SessionType /\ r.pc = "ack" /\ r.next = s.next /\ r.marked = s.marked /\ r.upto = s.upto
    BY DEF SessionType
  <2> HIDE DEF r
  <2> QED
    BY <2>1, <2>2
<1>6. s.pc = "mark" => Event(m) \in handled /\ Event(m) = log[s.next]
  BY <1>1 DEF SessionOk, BehindAccounted, Event
<1>7. processed' \subseteq handled
  BY <1>1, <1>2, <1>6, KnownSession
<1>8. SessionOk(t)'
  <2>1. InTheLog(t)' /\ LookedUp(t)'
    BY <1>1, <1>2, <1>5 DEF SessionOk, InTheLog, LookedUp
  <2>2. Accounted(s.next)'
    BY <1>1, <1>2, <1>6 DEF Accounted
  <2>3. \A o \in 1 .. Len(log) : o < s.next => Accounted(o)'
    BY <1>1, <1>3, StaysAccounted DEF SessionOk, BehindAccounted
  <2> QED
    BY <1>2, <1>5, <2>1, <2>2, <2>3 DEF SessionOk, BehindAccounted
<1>9. session[m].pc = "mark" => Event(m) \in processed' \cup Excused'
  BY <1>1, <1>2 DEF Excused
<1> QED
  BY <1>1, <1>2, <1>3, <1>5, <1>7, <1>8, <1>9, QuietStep, KnownSession DEF Work

LEMMA NoSessionTyped ==
    /\ NoSession \in SessionType
    /\ NoSession.next = 1 /\ NoSession.marked = 0 /\ NoSession.upto = 0 /\ NoSession.pc = "none"
<1>1. NoSession \in SessionType
  BY DEF NoSession, SessionType
<1> QED
  BY <1>1 DEF NoSession

\* A member gets the partition.
LEMMA StartSessionKafka ==
    ASSUME KafkaInd, NEW m \in Members, StartSession(m)
    PROVE  KafkaInd'
<1>1. PICK s \in SessionType : s = session[m] /\ s.pc = "none"
  BY KnownSession DEF StartSession, Holds
<1>2. PICK n \in Nat \ {0} : n = IF committed = 0 THEN Len(log) + 1 ELSE committed
  BY KnownSession
<1>3. /\ UNCHANGED <<log, committed, processed, handled, repeated, blind, expired, overlapped,
                     deadLetters, undelivered, abandoned>>
      /\ unseen \subseteq unseen' /\ unseen' \subseteq 1 .. Len(log)
      /\ committed = 0 => unseen' = 1 .. Len(log)
  BY KnownSession DEF StartSession, effects, group, NoOffset
<1>4. Grows
  BY <1>3 DEF Grows, Excused
<1>5. PICK t \in SessionType :
          /\ session' = [session EXCEPT ![m] = t] /\ t.pc = "fetch"
          /\ t.next = n /\ t.marked = 0 /\ t.upto = 0
  <2> DEFINE r == [NoSession EXCEPT !.pc = "fetch", !.live = TRUE, !.next = n]
  <2>1. session' = [session EXCEPT ![m] = r]
    BY <1>2 DEF StartSession, NoOffset
  <2>2. /\ NoSession \in SessionType
        /\ NoSession.next = 1 /\ NoSession.marked = 0 /\ NoSession.upto = 0 /\ NoSession.pc = "none"
    BY NoSessionTyped
  <2>3. r \in SessionType /\ r.pc = "fetch" /\ r.next = n /\ r.marked = 0 /\ r.upto = 0
    BY <2>2 DEF SessionType
  <2> HIDE DEF r
  <2> QED
    BY <2>1, <2>3
<1>6. n <= Len(log) + 1 /\ Len(log) \in Nat
  BY <1>2, KnownSession
<1>7. SessionOk(t)'
  <2>1. InTheLog(t)' /\ LookedUp(t)'
    BY <1>3, <1>5, <1>6 DEF InTheLog, LookedUp
  <2>2. \A o \in 1 .. Len(log) : o < n => Accounted(o)'
    <3>1. CASE committed = 0
      BY <1>3, <3>1 DEF Accounted
    <3>2. CASE committed # 0
      BY <1>2, <1>4, <3>2, StaysAccounted, KnownSession
    <3> QED
      BY <3>1, <3>2
  <2> QED
    BY <1>3, <1>5, <2>1, <2>2 DEF SessionOk, BehindAccounted
<1> QED
  BY <1>1, <1>3, <1>4, <1>5, <1>7, QuietStep, KnownSession DEF Work

\* A marked offset may be committed.
LEMMA MarkedIsAccounted ==
    ASSUME KafkaInd, NEW m \in Members, session[m].pc # "none"
    PROVE  /\ session[m].marked <= Len(log) + 1
           /\ \A o \in 1 .. Len(log) : o < session[m].marked => Accounted(o)
<1>1. PICK s \in SessionType : s = session[m] /\ SessionOk(s)
  BY KnownSession
<1>2. /\ s.marked \in Nat /\ s.next \in Nat /\ s.marked <= s.next /\ s.next <= Len(log) + 1
      /\ Len(log) \in Nat
  BY <1>1, KnownSession DEF SessionOk, InTheLog
<1>3. \A o \in 1 .. Len(log) : o < s.next => Accounted(o)
  BY <1>1 DEF SessionOk, BehindAccounted
<1>4. \A o \in 1 .. Len(log) : o < s.marked => o < s.next
  BY <1>2
<1> QED
  BY <1>1, <1>2, <1>3, <1>4

\* A session commits or is cancelled.
LEMMA CommitOrCancelKafka ==
    ASSUME KafkaInd, NEW m \in Members, AutoCommit(m) \/ CancelSession(m)
    PROVE  KafkaInd'
<1>1. PICK s \in SessionType : s = session[m] /\ SessionOk(s) /\ s.pc # "none"
  BY KnownSession DEF AutoCommit, CancelSession, Holds
<1>2. /\ UNCHANGED <<log, processed, handled, repeated, blind, expired, overlapped, deadLetters,
                     undelivered, abandoned, unseen>>
      /\ committed' \in {committed, s.marked}
  BY <1>1 DEF AutoCommit, CancelSession, effects, offsetHistory
<1>3. Grows
  BY <1>2 DEF Grows, Excused, KafkaInd, KafkaTyped
<1>4. session \in [Members -> SessionType]
  BY DEF KafkaInd, KafkaTyped
<1>5. PICK t \in SessionType :
          /\ session' = [session EXCEPT ![m] = t]
          /\ t.pc = s.pc /\ t.next = s.next /\ t.marked = s.marked /\ t.upto \in {s.upto, Len(log)}
  <2>1. CASE AutoCommit(m)
    <3>1. session' = [session EXCEPT ![m] = s]
      BY <1>1, <1>4, <2>1 DEF AutoCommit
    <3> QED
      BY <3>1
  <2>2. CASE CancelSession(m)
    <3>1. PICK u \in Nat : u = Len(log)
      BY KnownSession
    <3> DEFINE r == [s EXCEPT !.live = FALSE, !.upto = u]
    <3>2. session' = [session EXCEPT ![m] = r]
      BY <1>1, <1>4, <2>2, <3>1 DEF CancelSession
    <3>3. r \in SessionType /\ r.pc = s.pc /\ r.next = s.next /\ r.marked = s.marked /\ r.upto = u
      BY DEF SessionType
    <3> HIDE DEF r
    <3> QED
      BY <3>1, <3>2, <3>3
  <2> QED
    BY <2>1, <2>2
<1>6. SessionOk(s)'
  BY <1>1, <1>2, <1>3, SessionStays, KnownSession
<1>7. SessionOk(t)'
  <2>1. InTheLog(t)'
    BY <1>2, <1>5, <1>6, KnownSession DEF SessionOk, InTheLog
  <2>2. BehindAccounted(t)' /\ LookedUp(t)'
    BY <1>5, <1>6 DEF SessionOk, BehindAccounted, LookedUp
  <2> QED
    BY <2>1, <2>2 DEF SessionOk
<1>8. /\ committed' \in Nat /\ committed' <= Len(log) + 1
      /\ \A o \in 1 .. Len(log) : o < committed' => Accounted(o)
  BY <1>1, <1>2, MarkedIsAccounted, KnownSession
<1> QED
  BY <1>1, <1>2, <1>3, <1>5, <1>7, <1>8, QuietStep, KnownSession DEF Work

\* A session ends, with the last commit or with the process.
LEMMA SessionEndsKafka ==
    ASSUME KafkaInd, NEW m \in Members, EndSession(m) \/ ConsumerDies(m)
    PROVE  KafkaInd'
<1>1. PICK s \in SessionType : s = session[m] /\ SessionOk(s) /\ s.pc # "none"
  BY KnownSession DEF EndSession, ConsumerDies, Holds
<1>2. /\ UNCHANGED <<log, processed, handled, repeated, expired, overlapped, deadLetters, undelivered,
                     abandoned, unseen>>
      /\ committed' \in {committed, s.marked} /\ blind \subseteq blind'
      /\ session' = [session EXCEPT ![m] = NoSession]
      /\ s.pc = "mark" => Event(m) \in blind'
  BY <1>1 DEF EndSession, ConsumerDies, effects, offsetHistory
<1>3. Grows
  BY <1>2 DEF Grows, Excused, KafkaInd, KafkaTyped
<1>4. PICK t \in SessionType : t = NoSession /\ t.pc = "none" /\ t.next = 1 /\ t.marked = 0 /\ t.upto = 0
  BY NoSessionTyped
<1>5. SessionOk(t)'
  BY <1>2, <1>4, KnownSession DEF SessionOk, InTheLog, BehindAccounted, LookedUp
<1>6. /\ committed' \in Nat /\ committed' <= Len(log) + 1
      /\ \A o \in 1 .. Len(log) : o < committed' => Accounted(o)
  BY <1>1, <1>2, MarkedIsAccounted, KnownSession
<1>7. session[m].pc = "mark" => Event(m) \in Excused'
  BY <1>1, <1>2 DEF Excused
<1> QED
  BY <1>1, <1>2, <1>3, <1>4, <1>5, <1>6, <1>7, QuietStep, KnownSession DEF Work

LEMMA KafkaIndStep ==
    ASSUME KafkaInd, [KafkaNext]_kafkaVars
    PROVE  KafkaInd'
<1>1. CASE UNCHANGED kafkaVars
  BY <1>1 DEF kafkaVars, KafkaInd, KafkaTyped, SessionOk, InTheLog, BehindAccounted, LookedUp, Apart,
              HandledRecorded, Accounted, Excused, Event
<1>2. CASE \E e \in Events : Publish(e)
  BY <1>2, PublishKafka
<1>3. CASE \E e \in Events : KeyExpires(e)
  BY <1>3, KeyOrFenceKafka
<1>4. CASE \E m \in Members : Consume(m)
  BY <1>4, LoopStepKafka, HandlerSucceedsKafka, NextMessageKafka, SettledMessageKafka DEF Consume
<1>5. CASE \E m \in Members : FenceMember(m)
  BY <1>5, KeyOrFenceKafka
<1>6. CASE \E m \in Members :
               StartSession(m) \/ AutoCommit(m) \/ CancelSession(m) \/ EndSession(m) \/ ConsumerDies(m)
  BY <1>6, StartSessionKafka, CommitOrCancelKafka, SessionEndsKafka
<1> QED
  BY <1>1, <1>2, <1>3, <1>4, <1>5, <1>6 DEF KafkaNext

LEMMA KafkaInvariant == MessagingSpec => []KafkaInd
<1>1. MessagingInit => KafkaInd
  BY KafkaIndInit DEF MessagingInit
<1>2. KafkaInd /\ [MessagingNext]_messagingVars => KafkaInd'
  BY KafkaIndStep, StepOfEachPart
<1> QED
  BY <1>1, <1>2, PTL DEF MessagingSpec

\* No message before the committed offset is lost but in the three known ways,
\* whatever rebalances, fenced members, crashes and failures of the store and of
\* the dead-letter topic do (pkg/kafka/consumer.go).
THEOREM CommittedIsAccounted == MessagingSpec => []EventsAccounted
<1>1. KafkaInd => EventsAccounted
  <2> SUFFICES ASSUME KafkaInd, NEW o \in Offsets, o < committed, o <= Len(log)
               PROVE  Accounted(o)
    BY DEF EventsAccounted, Accounted
  <2>1. o \in 1 .. Len(log)
    BY DEF Offsets, KafkaInd, KafkaTyped
  <2> QED
    BY <2>1 DEF KafkaInd
<1> QED
  BY <1>1, KafkaInvariant, PTL

\* The handler of an event succeeds twice only when the store was not asked about
\* that event or not told of it, when its key expired, or when a fenced session
\* and its successor worked on it at once (consumer.go, dedup.go).
THEOREM HandlersSucceedOnce == MessagingSpec => []EffectsOnce
<1>1. KafkaInd => EffectsOnce
  BY DEF KafkaInd, Excused, EffectsOnce
<1> QED
  BY <1>1, KafkaInvariant, PTL

-----------------------------------------------------------------------------
(***************************************************************************)
(* The readers of notification-, search- and analytics-service.  First what *)
(* the proofs need to know of the statements of a message.                  *)
(***************************************************************************)
Names == {"create", "push", "mark", "email", "createSeller", "pushSeller", "deadLetter",
          "index", "indexEnded", "delete",
          "bidsToday", "bidderActivity", "activeUsers", "auctionBids", "categoryActivity",
          "dailyAuctions", "newUsers", "revenue", "sellerRevenue", "recordRevenue"}

\* A handler's statements differ from one another, its mark is the last of them,
\* and sending an e-mail is none of them.
Plan(s) ==
    /\ s \in Seq(Names)
    /\ \A i, j \in 1 .. Len(s) : s[i] = s[j] => i = j
    /\ \A i \in 1 .. Len(s) : s[i] = "mark" => i = Len(s)
    /\ \A i \in 1 .. Len(s) : s[i] # "mailed"


LEMMA PlanOf1 ==
    ASSUME NEW a \in Names,
           a # "mailed"
    PROVE  Plan(<<a>>)
<1> DEFINE s == <<a>>
<1>1. s \in Seq(Names) /\ Len(s) = 1
  OBVIOUS
<1>2. s[1] = a
  OBVIOUS
<1>3. 1 .. Len(s) = {1}
  BY <1>1
<1> HIDE DEF s
<1>4. Plan(s)
  BY <1>1, <1>2, <1>3 DEF Plan
<1> QED
  BY <1>4 DEF s

LEMMA PlanOf2 ==
    ASSUME NEW a \in Names, NEW b \in Names,
           a # "mailed" /\ b # "mailed",
           a # "mark",
           a # b
    PROVE  Plan(<<a, b>>)
<1> DEFINE s == <<a, b>>
<1>1. s \in Seq(Names) /\ Len(s) = 2
  OBVIOUS
<1>2. s[1] = a /\ s[2] = b
  OBVIOUS
<1>3. 1 .. Len(s) = {1, 2}
  BY <1>1
<1> HIDE DEF s
<1>4. Plan(s)
  BY <1>1, <1>2, <1>3 DEF Plan
<1> QED
  BY <1>4 DEF s

LEMMA PlanOf3 ==
    ASSUME NEW a \in Names, NEW b \in Names, NEW c \in Names,
           a # "mailed" /\ b # "mailed" /\ c # "mailed",
           a # "mark" /\ b # "mark",
           a # b /\ a # c /\ b # c
    PROVE  Plan(<<a, b, c>>)
<1> DEFINE s == <<a, b, c>>
<1>1. s \in Seq(Names) /\ Len(s) = 3
  OBVIOUS
<1>2. s[1] = a /\ s[2] = b /\ s[3] = c
  OBVIOUS
<1>3. 1 .. Len(s) = {1, 2, 3}
  BY <1>1
<1> HIDE DEF s
<1>4. Plan(s)
  BY <1>1, <1>2, <1>3 DEF Plan
<1> QED
  BY <1>4 DEF s

LEMMA PlanOf4 ==
    ASSUME NEW a \in Names, NEW b \in Names, NEW c \in Names, NEW d \in Names,
           a # "mailed" /\ b # "mailed" /\ c # "mailed" /\ d # "mailed",
           a # "mark" /\ b # "mark" /\ c # "mark",
           a # b /\ a # c /\ a # d /\ b # c /\ b # d /\ c # d
    PROVE  Plan(<<a, b, c, d>>)
<1> DEFINE s == <<a, b, c, d>>
<1>1. s \in Seq(Names) /\ Len(s) = 4
  OBVIOUS
<1>2. s[1] = a /\ s[2] = b /\ s[3] = c /\ s[4] = d
  OBVIOUS
<1>3. 1 .. Len(s) = {1, 2, 3, 4}
  BY <1>1
<1> HIDE DEF s
<1>4. Plan(s)
  BY <1>1, <1>2, <1>3 DEF Plan
<1> QED
  BY <1>4 DEF s

LEMMA PlanOf5 ==
    ASSUME NEW a \in Names, NEW b \in Names, NEW c \in Names, NEW d \in Names, NEW e \in Names,
           a # "mailed" /\ b # "mailed" /\ c # "mailed" /\ d # "mailed" /\ e # "mailed",
           a # "mark" /\ b # "mark" /\ c # "mark" /\ d # "mark",
           a # b /\ a # c /\ a # d /\ a # e /\ b # c /\ b # d /\ b # e /\ c # d /\ c # e /\ d # e
    PROVE  Plan(<<a, b, c, d, e>>)
<1> DEFINE s == <<a, b, c, d, e>>
<1>1. s \in Seq(Names) /\ Len(s) = 5
  OBVIOUS
<1>2. s[1] = a /\ s[2] = b /\ s[3] = c /\ s[4] = d /\ s[5] = e
  OBVIOUS
<1>3. 1 .. Len(s) = {1, 2, 3, 4, 5}
  BY <1>1
<1> HIDE DEF s
<1>4. Plan(s)
  BY <1>1, <1>2, <1>3 DEF Plan
<1> QED
  BY <1>4 DEF s

LEMMA JoinPlans ==
    ASSUME NEW a \in Names, NEW b \in Names, NEW c \in Names, NEW d \in Names, NEW e \in Names
    PROVE  /\ (<<a, b>> \o <<c, d>>) \o <<e>> = <<a, b, c, d, e>>
           /\ (<<a, b>> \o <<>>) \o <<e>> = <<a, b, e>>
<1> DEFINE s == (<<a, b>> \o <<c, d>>) \o <<e>>
           t == (<<a, b>> \o <<>>) \o <<e>>
<1>1. s \in Seq(Names) /\ Len(s) = 5 /\ <<a, b, c, d, e>> \in Seq(Names) /\ Len(<<a, b, c, d, e>>) = 5
  OBVIOUS
<1>2. s[1] = a /\ s[2] = b /\ s[3] = c /\ s[4] = d /\ s[5] = e
  OBVIOUS
<1>3. t \in Seq(Names) /\ Len(t) = 3 /\ <<a, b, e>> \in Seq(Names) /\ Len(<<a, b, e>>) = 3
  OBVIOUS
<1>4. t[1] = a /\ t[2] = b /\ t[3] = e
  OBVIOUS
<1> HIDE DEF s, t
<1>5. s = <<a, b, c, d, e>>
  <2>1. \A i \in 1 .. 5 : s[i] = <<a, b, c, d, e>>[i]
    BY <1>2
  <2> QED
    BY <1>1, <2>1, SeqEqual
<1>6. t = <<a, b, e>>
  <2>1. \A i \in 1 .. 3 : t[i] = <<a, b, e>>[i]
    BY <1>4
  <2> QED
    BY <1>3, <2>1, SeqEqual
<1> QED
  BY <1>5, <1>6 DEF s, t

LEMMA NotificationPlans ==
    ASSUME NEW kind
    PROVE  Plan(NotificationSteps(kind))
<1>1. {"create", "push", "mark", "email", "createSeller", "pushSeller", "deadLetter"} \subseteq Names
  BY DEF Names
<1>2. /\ HandleAuctionEnded(TRUE) = <<"createSeller", "pushSeller", "create", "push", "mark">>
      /\ HandleAuctionEnded(FALSE) = <<"createSeller", "pushSeller", "mark">>
  BY <1>1, JoinPlans DEF HandleAuctionEnded
<1>3. Plan(HandleAuctionEnded(TRUE)) /\ Plan(HandleAuctionEnded(FALSE))
  <2>1. Plan(<<"createSeller", "pushSeller", "create", "push", "mark">>)
    BY <1>1, PlanOf5
  <2>2. Plan(<<"createSeller", "pushSeller", "mark">>)
    BY <1>1, PlanOf3
  <2> QED
    BY <1>2, <2>1, <2>2
<1>4. Plan(HandleBidPlaced) /\ Plan(HandleOutbid) /\ Plan(HandleAuctionWon) /\ Plan(DeadLetter)
  BY <1>1, PlanOf1, PlanOf3, PlanOf4 DEF HandleBidPlaced, HandleOutbid, HandleAuctionWon, DeadLetter
<1>5. Plan(<<>>)
  BY DEF Plan
<1> QED
  BY <1>3, <1>4, <1>5 DEF NotificationSteps

LEMMA SearchPlans ==
    ASSUME NEW kind
    PROVE  Plan(SearchSteps(kind))
<1>1. {"index", "indexEnded", "delete"} \subseteq Names
  BY DEF Names
<1>2. Plan(<<"index">>) /\ Plan(<<"indexEnded">>) /\ Plan(<<"delete">>)
  BY <1>1, PlanOf1
<1>3. Plan(<<>>)
  BY DEF Plan
<1> QED
  BY <1>2, <1>3 DEF SearchSteps

LEMMA AnalyticsPlans ==
    ASSUME NEW kind
    PROVE  Plan(AnalyticsSteps(kind))
<1>1. /\ {"bidsToday", "bidderActivity", "activeUsers", "auctionBids", "categoryActivity"} \subseteq Names
      /\ {"dailyAuctions", "newUsers", "revenue", "sellerRevenue", "recordRevenue"} \subseteq Names
  BY DEF Names
<1>2. Plan(<<"bidsToday", "bidderActivity", "activeUsers", "auctionBids">>)
  BY <1>1, PlanOf4
<1>3. Plan(<<"categoryActivity", "dailyAuctions">>) /\ Plan(<<"newUsers">>)
  BY <1>1, PlanOf1, PlanOf2
<1>4. Plan(<<"revenue", "sellerRevenue", "recordRevenue">>)
  BY <1>1, PlanOf3
<1>5. Plan(<<>>)
  BY DEF Plan
<1> QED
  BY <1>2, <1>3, <1>4, <1>5 DEF AnalyticsSteps

LEMMA StepsArePlans ==
    ASSUME reader \in Readers, NEW kind
    PROVE  Plan(StepsOf(kind))
BY NotificationPlans, SearchPlans, AnalyticsPlans DEF Readers, StepsOf

\* What may be recorded of a message: a statement, or that its e-mail was sent.
Marks == Names \cup {"mailed"}

LoopType ==
    [phase : {"fetch", "check", "run", "commit"}, at : Nat, statements : Seq(Names), run : Nat]

MailType == [pod : Pods, message : Nat, run : Nat, attempt : Nat]

ReadersTyped ==
    /\ reader \in Readers
    /\ topic \in Seq(Kinds) /\ Len(topic) <= MaxTopic
    /\ owner \in Pods \cup {NoPod}
    /\ {position, committedTo, losses, failures} \subseteq Nat
    /\ position <= Len(topic) + 1 /\ committedTo <= Len(topic) + 1
    /\ loop \in [Pods -> LoopType]
    /\ mail \subseteq MailType
    /\ done \subseteq (1 .. Len(topic)) \X Marks
    /\ again \subseteq done

Among(steps, s) == \E i \in 1 .. Len(steps) : steps[i] = s

Left(l, s) == Among(l.statements, s)

\* The message took effect, statement by statement, or was passed over for a
\* known reason.
Applied(o) ==
    \/ o \in skipped \cup passedOver
    \/ \A i \in 1 .. Len(StepsOf(topic[o])) : <<o, StepsOf(topic[o])[i]>> \in done \cup failed

\* The statements that the loop l has in hand.
InHand(l) ==
    /\ l.phase # "fetch" => l.at \in 1 .. Len(topic)
    /\ l.phase \in {"check", "run"} => l.statements # <<>>
    /\ l.phase = "check" => l.statements = StepsOf(topic[l.at])
    /\ Plan(l.statements)

\* Every message behind it was applied; of the one in hand what is not left to do
\* was done or has failed.
BehindApplied(l) ==
    /\ l.phase # "fetch" => \A o \in 1 .. Len(topic) : o < l.at => Applied(o)
    /\ l.phase = "commit" => Applied(l.at)
    /\ l.phase = "run" =>
          \A i \in 1 .. Len(StepsOf(topic[l.at])) :
             \/ <<l.at, StepsOf(topic[l.at])[i]>> \in done \cup failed
             \/ Left(l, StepsOf(topic[l.at])[i])

\* What it has left to do is not done, but for a message that is replayed; a mark
\* that is left is not set, but after a failure or for a message in two hands.
LeftUndone(l) ==
    /\ l.phase # "fetch" => l.at < position \/ l.at \in replayed
    /\ l.phase \in {"check", "run"} /\ l.at \notin replayed =>
          \A s \in Names : Left(l, s) => <<l.at, s>> \notin done
    /\ l.phase = "run" /\ Left(l, "mark") /\ <<l.at, "mark">> \in done => failures > 0 \/ l.at \in together

LoopOk(l) == InHand(l) /\ BehindApplied(l) /\ LeftUndone(l)

\* Two loops with the same message have a message that is replayed.
HandsApart ==
    \A p, q \in Pods :
        p # q /\ loop[p].phase # "fetch" /\ loop[q].phase # "fetch" /\ loop[p].at = loop[q].at =>
            loop[p].at \in replayed \cap together

\* Every message before the committed offset was applied, and every one that the
\* owner of the partition has fetched, but for the one in its hands.
FrontApplied ==
    /\ \A o \in 1 .. Len(topic) : o < committedTo => Applied(o)
    /\ owner # NoPod =>
          /\ position > 0
          /\ \A o \in 1 .. Len(topic) :
                o < position => Applied(o) \/ (loop[owner].phase # "fetch" /\ loop[owner].at = o)

\* What took effect belongs to a message that was fetched.
DoneIsPast ==
    \A o \in 1 .. Len(topic) : \A s \in Marks : <<o, s>> \in done => o < position \/ o \in replayed

\* An e-mail on its way was started by its statement, once, and has not been sent.
MailsOnce ==
    /\ \A g \in mail :
          /\ <<g.message, "email">> \in done
          /\ <<g.message, "mailed">> \in done => g.message \in replayed \/ <<g.message, "mailed">> \in failed
    /\ \A g, h \in mail : g.message = h.message => g = h \/ g.message \in replayed
    /\ \A o \in 1 .. Len(topic) : <<o, "mailed">> \in done => <<o, "email">> \in done

\* A row that was inserted is there; an event that was marked is known to the
\* store unless a key expired or a command failed.
RowsThere(o) == \A s \in {"create", "createSeller"} : <<o, s>> \in done => <<s, eventID(o)>> \in rows

MarkKnown(o) == <<o, "mark">> \in done => eventID(o) \in processedIDs \/ failures > 0

StoresKnow == \A o \in 1 .. Len(topic) : RowsThere(o) /\ MarkKnown(o)

AgainKnown ==
    \A o \in 1 .. Len(topic) : \A s \in Marks :
        <<o, s>> \in again =>
            /\ o \in replayed \/ (s = "mailed" /\ <<o, s>> \in failed)
            /\ s \notin {"create", "createSeller"}
            /\ s = "mark" => failures > 0 \/ o \in together

ReadersInd ==
    /\ ReadersTyped
    /\ \A p \in Pods : LoopOk(loop[p])
    /\ HandsApart /\ FrontApplied
    /\ DoneIsPast /\ MailsOnce /\ StoresKnow /\ AgainKnown

\* What the statement at hand is, and what is left behind it.
LEMMA HeadAndTail ==
    ASSUME NEW s, Plan(s), s # <<>>
    PROVE  /\ Head(s) \in Names /\ Plan(Tail(s)) /\ Head(s) = s[1]
           /\ \A x : Among(s, x) => x = Head(s) \/ Among(Tail(s), x)
           /\ \A x : Among(Tail(s), x) => x # Head(s) /\ Among(s, x)
<1>1. s \in Seq(Names) /\ Len(s) \in Nat \ {0} /\ Head(s) = s[1] /\ 1 \in 1 .. Len(s)
  BY DEF Plan
<1>2. /\ Tail(s) \in Seq(Names) /\ Len(Tail(s)) = Len(s) - 1
      /\ \A i \in 1 .. Len(s) - 1 : Tail(s)[i] = s[i + 1]
  BY <1>1
<1>3. Plan(Tail(s))
  <2> DEFINE n == Len(s)
             t == Tail(s)
  <2>1. /\ n \in Nat \ {0} /\ t \in Seq(Names) /\ Len(t) = n - 1
        /\ \A i \in 1 .. n - 1 : t[i] = s[i + 1] /\ i + 1 \in 1 .. n
    BY <1>1, <1>2
  <2>0. /\ \A i, j \in 1 .. n : s[i] = s[j] => i = j
        /\ \A i \in 1 .. n : s[i] = "mark" => i = n
        /\ \A i \in 1 .. n : s[i] # "mailed"
    BY DEF Plan
  <2> HIDE DEF n, t
  <2>2. \A i, j \in 1 .. n - 1 : t[i] = t[j] => i = j
    <3> SUFFICES ASSUME NEW i \in 1 .. n - 1, NEW j \in 1 .. n - 1, t[i] = t[j]
                 PROVE  i = j
      OBVIOUS
    <3>1. i + 1 \in 1 .. n /\ j + 1 \in 1 .. n /\ s[i + 1] = s[j + 1]
      BY <2>1
    <3>2. i + 1 = j + 1
      BY <2>0, <3>1
    <3> QED
      BY <2>1, <3>2
  <2>3. \A i \in 1 .. n - 1 : (t[i] = "mark" => i = n - 1) /\ t[i] # "mailed"
    BY <2>0, <2>1
  <2>4. Plan(t)
    BY <2>1, <2>2, <2>3 DEF Plan
  <2> QED
    BY <2>4 DEF t
<1>4. ASSUME NEW x, NEW i \in 1 .. Len(s), s[i] = x, x # Head(s)
      PROVE  \E j \in 1 .. Len(Tail(s)) : Tail(s)[j] = x
  <2>1. i # 1 /\ i - 1 \in 1 .. Len(Tail(s)) /\ Tail(s)[i - 1] = s[i]
    BY <1>1, <1>2, <1>4
  <2> QED
    BY <1>4, <2>1
<1>5. ASSUME NEW i \in 1 .. Len(Tail(s))
      PROVE  Tail(s)[i] # Head(s) /\ \E j \in 1 .. Len(s) : s[j] = Tail(s)[i]
  <2>1. i + 1 \in 1 .. Len(s) /\ i + 1 # 1 /\ Tail(s)[i] = s[i + 1]
    BY <1>1, <1>2
  <2>2. s[i + 1] # s[1]
    BY <1>1, <2>1 DEF Plan
  <2> QED
    BY <1>1, <2>1, <2>2
<1> QED
  BY <1>1, <1>3, <1>4, <1>5 DEF Among

LEMMA ReadersIndInit ==
    ASSUME ReadersInit
    PROVE  ReadersInd
<1>1. Plan(<<>>) /\ <<>> \in Seq(Names)
  BY DEF Plan
<1>2. Idle \in LoopType /\ Idle.phase = "fetch" /\ Idle.statements = <<>>
  BY <1>1 DEF Idle, LoopType
<1>3. \A p \in Pods : loop[p] = Idle
  BY DEF ReadersInit
<1>4. ReadersTyped /\ Len(topic) = 0
  BY <1>2, ReadersAssumption DEF ReadersInit, ReadersTyped
<1>5. LoopOk(Idle)
  BY <1>1, <1>2 DEF LoopOk, InHand, BehindApplied, LeftUndone
<1>6. HandsApart
  BY <1>2, <1>3 DEF HandsApart
<1>7. FrontApplied /\ DoneIsPast /\ StoresKnow /\ AgainKnown
  BY <1>4 DEF ReadersInit, FrontApplied, DoneIsPast, StoresKnow, RowsThere, MarkKnown, AgainKnown
<1>8. MailsOnce
  BY <1>4 DEF ReadersInit, MailsOnce
<1> QED
  BY <1>3, <1>4, <1>5, <1>6, <1>7, <1>8 DEF ReadersInd

\* The topic stays, and the histories forget nothing.
Wider ==
    /\ UNCHANGED <<reader, topic>>
    /\ done \subseteq done' /\ failed \subseteq failed'
    /\ skipped \subseteq skipped' /\ passedOver \subseteq passedOver'
    /\ replayed \subseteq replayed' /\ together \subseteq together'
    /\ failures > 0 => failures' > 0

LEMMA StaysApplied ==
    ASSUME Wider
    PROVE  /\ \A o : Applied(o) => Applied(o)'
           /\ \A o : StepsOf(topic[o])' = StepsOf(topic[o])
           /\ \A o : eventID(o)' = eventID(o)
           /\ topic' = topic
<1>1. topic' = topic /\ reader' = reader
  BY DEF Wider
<1>2. \A o : StepsOf(topic[o])' = StepsOf(topic[o])
  BY <1>1 DEF StepsOf
<1>3. \A o : Applied(o) => Applied(o)'
  BY <1>2 DEF Applied, Wider
<1>4. \A o : eventID(o)' = eventID(o)
  BY <1>1 DEF eventID
<1> QED
  BY <1>1, <1>2, <1>3, <1>4

\* What is known of a loop stays so, if nothing it has left to do is done meanwhile
\* by another one.
LEMMA LoopStays ==
    ASSUME Wider, NEW l \in LoopType, LoopOk(l),
           l.phase # "fetch" /\ l.at < position => l.at < position' \/ l.at \in replayed',
           l.phase \in {"check", "run"} /\ l.at \notin replayed' =>
               \A s \in Names : Left(l, s) /\ <<l.at, s>> \in done' => <<l.at, s>> \in done,
           l.phase = "run" /\ <<l.at, "mark">> \in done' =>
               <<l.at, "mark">> \in done \/ failures' > 0 \/ l.at \in together'
    PROVE  LoopOk(l)'
<1>1. /\ \A o : Applied(o) => Applied(o)'
      /\ \A o : StepsOf(topic[o])' = StepsOf(topic[o])
      /\ topic' = topic
  BY StaysApplied
<1>2. InHand(l)'
  BY <1>1 DEF LoopOk, InHand
<1>3. BehindApplied(l)'
  <2>1. l.phase # "fetch" => \A o \in 1 .. Len(topic) : o < l.at => Applied(o)'
    BY <1>1 DEF LoopOk, BehindApplied
  <2>2. l.phase = "commit" => Applied(l.at)'
    BY <1>1 DEF LoopOk, BehindApplied
  <2>3. l.phase = "run" =>
            \A i \in 1 .. Len(StepsOf(topic[l.at])) :
               \/ <<l.at, StepsOf(topic[l.at])[i]>> \in done' \cup failed'
               \/ Left(l, StepsOf(topic[l.at])[i])
    BY DEF LoopOk, BehindApplied, Wider
  <2> QED
    BY <1>1, <2>1, <2>2, <2>3 DEF BehindApplied, Left, Among
<1>4. LeftUndone(l)'
  <2>1. l.phase # "fetch" => l.at < position' \/ l.at \in replayed'
    BY DEF LoopOk, LeftUndone, Wider
  <2>2. l.phase \in {"check", "run"} /\ l.at \notin replayed' =>
            \A s \in Names : Left(l, s) => <<l.at, s>> \notin done'
    BY DEF LoopOk, LeftUndone, Wider
  <2>3. l.phase = "run" /\ Left(l, "mark") /\ <<l.at, "mark">> \in done' => failures' > 0 \/ l.at \in together'
    BY DEF LoopOk, LeftUndone, Wider
  <2> QED
    BY <2>1, <2>2, <2>3 DEF LeftUndone, Left, Among
<1> QED
  BY <1>2, <1>3, <1>4 DEF LoopOk

\* A step that changes the loop of one pod.
LEMMA PodStep ==
    ASSUME ReadersInd, Wider, NEW p \in Pods, NEW l \in LoopType,
           loop' = [loop EXCEPT ![p] = l],
           LoopOk(l)',
           \A q \in Pods \ {p} :
               /\ loop[q].phase # "fetch" /\ loop[q].at < position =>
                      loop[q].at < position' \/ loop[q].at \in replayed'
               /\ loop[q].phase \in {"check", "run"} /\ loop[q].at \notin replayed' =>
                      \A s \in Names : Left(loop[q], s) /\ <<loop[q].at, s>> \in done' => <<loop[q].at, s>> \in done
               /\ loop[q].phase = "run" /\ <<loop[q].at, "mark">> \in done' =>
                      <<loop[q].at, "mark">> \in done \/ failures' > 0 \/ loop[q].at \in together',
           l.phase # "fetch" =>
               \/ loop[p].phase # "fetch" /\ l.at = loop[p].at
               \/ \A q \in Pods \ {p} :
                      loop[q].phase # "fetch" /\ loop[q].at = l.at => l.at \in replayed' \cap together'
    PROVE  /\ loop' \in [Pods -> LoopType]
           /\ \A q \in Pods : LoopOk(loop[q])'
           /\ HandsApart'
<1>1. loop \in [Pods -> LoopType]
  BY DEF ReadersInd, ReadersTyped
<1>2. loop'[p] = l /\ (\A q \in Pods \ {p} : loop'[q] = loop[q]) /\ loop' \in [Pods -> LoopType]
  BY <1>1
<1>3. \A q \in Pods : LoopOk(loop[q])'
  <2> SUFFICES ASSUME NEW q \in Pods
               PROVE  LoopOk(loop[q])'
    OBVIOUS
  <2>1. PICK k \in LoopType : k = loop'[q]
    BY <1>2
  <2>2. LoopOk(k)'
    <3>1. CASE q = p
      BY <1>2, <2>1, <3>1
    <3>2. CASE q # p
      <4>1. k = loop[q] /\ LoopOk(k)
        BY <1>2, <2>1, <3>2 DEF ReadersInd
      <4>2. /\ k.phase # "fetch" /\ k.at < position => k.at < position' \/ k.at \in replayed'
            /\ k.phase \in {"check", "run"} /\ k.at \notin replayed' =>
                   \A s \in Names : Left(k, s) /\ <<k.at, s>> \in done' => <<k.at, s>> \in done
            /\ k.phase = "run" /\ <<k.at, "mark">> \in done' =>
                   <<k.at, "mark">> \in done \/ failures' > 0 \/ k.at \in together'
        BY <3>2, <4>1
      <4> QED
        BY <4>1, <4>2, LoopStays
    <3> QED
      BY <3>1, <3>2
  <2>3. k = loop[q]'
    BY <2>1
  <2> QED
    BY <2>2, <2>3
<1>4. HandsApart'
  <2> SUFFICES ASSUME NEW a \in Pods, NEW b \in Pods, a # b,
                      loop'[a].phase # "fetch", loop'[b].phase # "fetch", loop'[a].at = loop'[b].at
               PROVE  loop'[a].at \in replayed' \cap together'
    BY DEF HandsApart
  <2>1. CASE a # p /\ b # p
    BY <1>2, <2>1 DEF ReadersInd, HandsApart, Wider
  <2>2. CASE a = p
    BY <1>2, <2>2 DEF ReadersInd, HandsApart, Wider
  <2>3. CASE b = p
    BY <1>2, <2>3 DEF ReadersInd, HandsApart, Wider
  <2> QED
    BY <2>1, <2>2, <2>3
<1> QED
  BY <1>2, <1>3, <1>4

\* The record of a pod's loop, and what is known of it.
LEMMA KnownLoop ==
    ASSUME ReadersInd, NEW p \in Pods
    PROVE  /\ loop[p] \in LoopType /\ LoopOk(loop[p])
           /\ loop[p].at \in Nat /\ loop[p].run \in Nat
           /\ topic \in Seq(Kinds) /\ Len(topic) \in Nat /\ Len(topic) <= MaxTopic /\ MaxTopic \in Nat
           /\ position \in Nat /\ committedTo \in Nat /\ failures \in Nat /\ losses \in Nat
           /\ loop \in [Pods -> LoopType]
<1>1. loop[p] \in LoopType /\ LoopOk(loop[p])
  BY DEF ReadersInd, ReadersTyped
<1> QED
  BY <1>1, ReadersAssumption DEF ReadersInd, ReadersTyped, LoopType

\* A step that writes to no store.
LEMMA StoresStay ==
    ASSUME ReadersInd, Wider, UNCHANGED <<rows, done, again>>, mail' \subseteq mail,
           processedIDs' = processedIDs \/ failures' > 0
    PROVE  MailsOnce' /\ StoresKnow' /\ AgainKnown'
<1>1. topic' = topic /\ \A o : eventID(o)' = eventID(o)
  BY StaysApplied
<1>2. MailsOnce'
  BY <1>1 DEF ReadersInd, MailsOnce, Wider
<1>3. StoresKnow'
  <2> SUFFICES ASSUME NEW o \in 1 .. Len(topic)
               PROVE  RowsThere(o)' /\ MarkKnown(o)'
    BY <1>1 DEF StoresKnow
  <2>1. RowsThere(o) /\ MarkKnown(o)
    BY DEF ReadersInd, StoresKnow
  <2>2. eventID(o)' = eventID(o)
    BY <1>1
  <2>3. RowsThere(o)'
    BY <2>1, <2>2 DEF RowsThere
  <2>4. MarkKnown(o)'
    BY <2>1, <2>2 DEF MarkKnown, Wider
  <2> QED
    BY <2>3, <2>4
<1>4. AgainKnown'
  BY <1>1 DEF ReadersInd, AgainKnown, Wider
<1> QED
  BY <1>2, <1>3, <1>4

\* The owner has applied what it fetched, when its loop goes on with the message in
\* hand or has applied it.
LEMMA FrontStays ==
    ASSUME ReadersInd, Wider, NEW p \in Pods, NEW l \in LoopType,
           loop' = [loop EXCEPT ![p] = l],
           position' = position, owner' \in {owner, NoPod},
           owner' = p =>
               \/ loop[p].phase = "fetch"
               \/ l.phase # "fetch" /\ l.at = loop[p].at
               \/ Applied(loop[p].at),
           \A o \in 1 .. Len(topic) : o < committedTo' => Applied(o)'
    PROVE  FrontApplied'
<1>1. topic' = topic /\ \A o : Applied(o) => Applied(o)'
  BY StaysApplied
<1>2. loop'[p] = l /\ (\A q \in Pods \ {p} : loop'[q] = loop[q]) /\ NoPod \notin Pods
  BY ReadersAssumption DEF ReadersInd, ReadersTyped
<1>3. ASSUME owner' # NoPod, NEW o \in 1 .. Len(topic), o < position
      PROVE  Applied(o)' \/ (loop'[owner'].phase # "fetch" /\ loop'[owner'].at = o)
  <2>1. owner' = owner /\ owner \in Pods
    BY <1>3 DEF ReadersInd, ReadersTyped
  <2>2. Applied(o) \/ (loop[owner].phase # "fetch" /\ loop[owner].at = o)
    BY <1>3, <2>1 DEF ReadersInd, FrontApplied
  <2>3. CASE owner = p
    BY <1>1, <1>2, <2>1, <2>2, <2>3
  <2>4. CASE owner # p
    BY <1>1, <1>2, <2>1, <2>2, <2>4
  <2> QED
    BY <2>3, <2>4
<1>4. owner' # NoPod => position > 0
  BY DEF ReadersInd, FrontApplied
<1> QED
  BY <1>1, <1>3, <1>4 DEF FrontApplied

LEMMA AssignPartitionReaders ==
    ASSUME ReadersInd, NEW p \in Pods, AssignPartition(p)
    PROVE  ReadersInd'
<1>1. /\ owner' = p
      /\ position' = IF committedTo = 0 THEN Len(topic) + 1 ELSE committedTo
      /\ skipped' = IF committedTo = 0 THEN 1 .. Len(topic) ELSE skipped
      /\ replayed' = IF committedTo = 0 THEN replayed
                     ELSE replayed \cup {o \in Messages : committedTo <= o /\ o < position}
      /\ losses' \in Nat
      /\ UNCHANGED <<reader, topic, loop, committedTo, processedIDs, rows, mail, done, again, failed,
                     passedOver, together, failures>>
  BY KnownLoop DEF AssignPartition, Loss, stores, effected
<1>2. /\ topic \in Seq(Kinds) /\ Len(topic) \in Nat /\ Len(topic) <= MaxTopic /\ MaxTopic \in Nat
      /\ position \in Nat /\ committedTo \in Nat /\ loop \in [Pods -> LoopType]
      /\ position <= Len(topic) + 1 /\ committedTo <= Len(topic) + 1 /\ NoPod \notin Pods
  BY KnownLoop, ReadersAssumption DEF ReadersInd, ReadersTyped
<1>3. position' \in Nat /\ position' > 0 /\ position' <= Len(topic) + 1
  BY <1>1, <1>2
<1>4. \A o \in 1 .. Len(topic) : committedTo = 0 => o \in skipped'
  BY <1>1
<1>5. ReadersTyped'
  BY <1>1, <1>3 DEF ReadersInd, ReadersTyped
<1>6. \A o \in 1 .. Len(topic) : o < position => o < position' \/ o \in replayed'
  <2> SUFFICES ASSUME NEW o \in 1 .. Len(topic), o < position, ~(o < position')
               PROVE  o \in replayed'
    OBVIOUS
  <2>1. committedTo # 0 /\ o \in Messages /\ committedTo <= o
    BY <1>1, <1>2 DEF Messages
  <2> QED
    BY <1>1, <2>1
<1>7. CASE committedTo # 0
  <2>1. Wider
    BY <1>1, <1>7 DEF Wider
  <2>2. MailsOnce' /\ StoresKnow' /\ AgainKnown'
    BY <1>1, <2>1, StoresStay
  <2>3. \A q \in Pods : LoopOk(loop[q])'
    <3> SUFFICES ASSUME NEW q \in Pods
                 PROVE  LoopOk(loop[q])'
      OBVIOUS
    <3>1. PICK k \in LoopType : k = loop[q] /\ LoopOk(k)
      BY KnownLoop
    <3>2. LoopOk(k)'
      <4>1. k.phase # "fetch" /\ k.at < position => k.at < position' \/ k.at \in replayed'
        BY <1>6, <3>1 DEF LoopOk, InHand
      <4> QED
        BY <1>1, <2>1, <3>1, <4>1, LoopStays
    <3>3. k = loop[q]'
      BY <1>1, <3>1
    <3> QED
      BY <3>2, <3>3
  <2>4. HandsApart'
    BY <1>1, <2>1 DEF ReadersInd, HandsApart, Wider
  <2>5. DoneIsPast'
    BY <1>1, <1>6, <2>1 DEF ReadersInd, DoneIsPast, Wider
  <2>6. FrontApplied'
    BY <1>1, <1>3, <1>7, <2>1, StaysApplied DEF ReadersInd, FrontApplied
  <2> QED
    BY <1>5, <2>2, <2>3, <2>4, <2>5, <2>6 DEF ReadersInd
<1>8. CASE committedTo = 0
  <2>1. \A o \in 1 .. Len(topic) : Applied(o)'
    BY <1>1, <1>4, <1>8 DEF Applied
  <2>2. /\ \A k : StepsOf(k)' = StepsOf(k)
        /\ \A o : eventID(o)' = eventID(o)
    BY <1>1 DEF StepsOf, eventID
  <2>3. MailsOnce' /\ StoresKnow' /\ AgainKnown'
    BY <1>1, <1>8, <2>2 DEF ReadersInd, MailsOnce, StoresKnow, RowsThere, MarkKnown, AgainKnown
  <2>4. \A q \in Pods : LoopOk(loop[q])'
    <3> SUFFICES ASSUME NEW q \in Pods
                 PROVE  LoopOk(loop[q])'
      OBVIOUS
    <3>1. PICK k \in LoopType : k = loop[q] /\ LoopOk(k)
      BY KnownLoop
    <3>2. InHand(k)'
      BY <1>1, <2>2, <3>1 DEF LoopOk, InHand
    <3>3. BehindApplied(k)'
      <4>1. k.phase = "commit" => Applied(k.at)'
        BY <2>1, <3>1 DEF LoopOk, InHand
      <4> QED
        BY <1>1, <2>1, <2>2, <3>1, <4>1 DEF LoopOk, BehindApplied, Left, Among
    <3>4. LeftUndone(k)'
      <4>1. k.phase # "fetch" => k.at < position'
        BY <1>1, <1>2, <1>8, <3>1 DEF LoopOk, InHand
      <4> QED
        BY <1>1, <1>8, <3>1, <4>1 DEF LoopOk, LeftUndone, Left, Among
    <3>5. LoopOk(k)' /\ k = loop[q]'
      BY <1>1, <3>1, <3>2, <3>3, <3>4 DEF LoopOk
    <3> QED
      BY <3>5
  <2>5. HandsApart'
    BY <1>1, <1>8 DEF ReadersInd, HandsApart
  <2>6. DoneIsPast'
    BY <1>1, <1>2, <1>8 DEF DoneIsPast
  <2>7. FrontApplied'
    BY <1>1, <1>3, <2>1 DEF FrontApplied
  <2> QED
    BY <1>5, <2>3, <2>4, <2>5, <2>6, <2>7 DEF ReadersInd
<1> QED
  BY <1>7, <1>8

LEMMA FetchReaders ==
    ASSUME ReadersInd, NEW p \in Pods, Fetch(p)
    PROVE  ReadersInd'
<1>1. PICK o : o = position
  OBVIOUS
<1>2. PICK steps : steps = StepsOf(topic[o])
  OBVIOUS
<1>3. /\ owner = p /\ loop[p].phase = "fetch" /\ o <= Len(topic)
      /\ loop' = [loop EXCEPT ![p] = Begin(o)]
      /\ together' = IF WorkingOn(o) = {} THEN together ELSE together \cup {o}
      /\ position' = o + 1
      /\ UNCHANGED <<reader, topic, owner, committedTo, processedIDs, rows, mail, done, again, failed,
                     passedOver, replayed, skipped, losses, failures>>
  BY <1>1 DEF Fetch, stores, effected
<1>4. Wider
  BY <1>3 DEF Wider
<1>5. o \in 1 .. Len(topic) /\ owner # NoPod /\ o \in Nat /\ position' \in Nat /\ position' <= Len(topic) + 1
  <2>1. owner # NoPod
    BY <1>3, ReadersAssumption
  <2>2. o > 0 /\ o \in Nat
    BY <1>1, <2>1, KnownLoop DEF ReadersInd, FrontApplied
  <2> QED
    BY <1>3, <2>1, <2>2, KnownLoop
<1>6. Plan(steps) /\ steps \in Seq(Names)
  <2>1. Plan(steps)
    BY <1>2, StepsArePlans DEF ReadersInd, ReadersTyped
  <2> QED
    BY <2>1 DEF Plan
<1>7. PICK l \in LoopType :
          /\ l = Begin(o) /\ l.at = o /\ l.statements = steps /\ l.phase \in {"check", "run", "commit"}
          /\ l.phase = "commit" <=> steps = <<>>
          /\ l.phase = "run" => steps[Len(steps)] # "mark"
  <2>1. PICK f \in {"check", "run", "commit"} :
            /\ f = IF steps = <<>> THEN "commit" ELSE IF steps[Len(steps)] = "mark" THEN "check" ELSE "run"
    OBVIOUS
  <2>2. Begin(o) = [at |-> o, statements |-> steps, run |-> losses, phase |-> f]
    BY <1>2, <2>1 DEF Begin
  <2>3. losses \in Nat
    BY KnownLoop
  <2>4. Begin(o) \in LoopType
    BY <1>5, <1>6, <2>2, <2>3 DEF LoopType
  <2>5. Begin(o).at = o /\ Begin(o).statements = steps /\ Begin(o).phase = f
    BY <2>2
  <2> QED
    BY <2>1, <2>4, <2>5
<1>8. \A a \in 1 .. Len(topic) : a < o => Applied(a)
  BY <1>1, <1>3, <1>5 DEF ReadersInd, FrontApplied
<1>9. LoopOk(l)'
  <2>1. InHand(l)'
    BY <1>2, <1>3, <1>4, <1>5, <1>6, <1>7, StaysApplied DEF InHand
  <2>2. BehindApplied(l)'
    <3>1. \A a \in 1 .. Len(topic) : a < o => Applied(a)'
      BY <1>4, <1>8, StaysApplied
    <3>2. \A i \in 1 .. Len(steps) : Left(l, steps[i])
      BY <1>7 DEF Left, Among
    <3>3. l.phase = "commit" => Len(StepsOf(topic[o])') = 0
      BY <1>2, <1>4, <1>7, StaysApplied
    <3>4. l.phase = "commit" => Applied(o)'
      BY <3>3 DEF Applied
    <3>5. StepsOf(topic[o])' = steps
      BY <1>2, <1>4, StaysApplied
    <3> QED
      BY <1>3, <1>7, <3>1, <3>2, <3>4, <3>5 DEF BehindApplied, Left, Among
  <2>3. LeftUndone(l)'
    <3>1. l.at < position'
      BY <1>3, <1>5, <1>7
    <3>2. \A s \in Names : o \notin replayed => <<o, s>> \notin done
      BY <1>1, <1>5 DEF ReadersInd, DoneIsPast, Marks
    <3>3. l.phase = "run" => ~Left(l, "mark")
      BY <1>6, <1>7 DEF Plan, Left, Among
    <3> QED
      BY <1>3, <1>7, <3>1, <3>2, <3>3 DEF LeftUndone, Left, Among
  <2> QED
    BY <2>1, <2>2, <2>3 DEF LoopOk
<1>10. ASSUME NEW q \in Pods \ {p}, loop[q].phase # "fetch", loop[q].at = o
       PROVE  o \in replayed' \cap together'
  <2>1. q \in WorkingOn(o)
    BY <1>10 DEF WorkingOn
  <2>2. o < position \/ o \in replayed
    BY <1>10, KnownLoop DEF LoopOk, LeftUndone
  <2>3. ~(o < position)
    BY <1>1, <1>5
  <2> QED
    BY <1>3, <2>1, <2>2, <2>3
<1>11. /\ loop' \in [Pods -> LoopType]
       /\ \A q \in Pods : LoopOk(loop[q])'
       /\ HandsApart'
  <2>1. \A q \in Pods \ {p} :
            /\ loop[q].phase # "fetch" /\ loop[q].at < position =>
                   loop[q].at < position' \/ loop[q].at \in replayed'
            /\ loop[q].phase \in {"check", "run"} /\ loop[q].at \notin replayed' =>
                   \A s \in Names : Left(loop[q], s) /\ <<loop[q].at, s>> \in done' => <<loop[q].at, s>> \in done
            /\ loop[q].phase = "run" /\ <<loop[q].at, "mark">> \in done' =>
                   <<loop[q].at, "mark">> \in done \/ failures' > 0 \/ loop[q].at \in together'
    <3>1. \A q \in Pods : loop[q].at \in Nat
      BY KnownLoop
    <3> QED
      BY <1>1, <1>3, <1>5, <3>1
  <2> QED
    BY <1>3, <1>4, <1>7, <1>9, <1>10, <2>1, PodStep
<1>12. ReadersTyped'
  BY <1>3, <1>5, <1>11 DEF ReadersInd, ReadersTyped
<1>13. DoneIsPast'
  BY <1>1, <1>3, <1>5 DEF ReadersInd, DoneIsPast
<1>14. MailsOnce' /\ StoresKnow' /\ AgainKnown'
  BY <1>3, <1>4, StoresStay
<1>15. FrontApplied'
  <2>1. \A a : Applied(a) => Applied(a)'
    BY <1>4, StaysApplied
  <2>2. loop'[p] = l
    BY <1>3, <1>7, KnownLoop
  <2>3. \A a \in 1 .. Len(topic) : a < o + 1 => a < o \/ a = o
    BY <1>5
  <2>4. \A a \in 1 .. Len(topic) : a < position' => Applied(a)' \/ (loop'[p].phase # "fetch" /\ loop'[p].at = a)
    BY <1>3, <1>7, <1>8, <2>1, <2>2, <2>3
  <2> QED
    BY <1>3, <1>5, <2>1, <2>4 DEF ReadersInd, FrontApplied
<1> QED
  BY <1>11, <1>12, <1>13, <1>14, <1>15 DEF ReadersInd

\* A step of a loop that leaves the partition and the stores alone.
LEMMA LoopOnlyStep ==
    ASSUME ReadersInd, Wider, NEW p \in Pods, NEW l \in LoopType,
           loop' = [loop EXCEPT ![p] = l], LoopOk(l)',
           UNCHANGED <<position, rows, done, again>>, mail' \subseteq mail,
           processedIDs' = processedIDs, owner' \in {owner, NoPod},
           {losses', failures', committedTo'} \subseteq Nat, committedTo' <= Len(topic) + 1,
           l.phase # "fetch" => loop[p].phase # "fetch" /\ l.at = loop[p].at,
           owner' = p => l.phase # "fetch" \/ loop[p].phase = "fetch" \/ Applied(loop[p].at),
           \A o \in 1 .. Len(topic) : o < committedTo' => Applied(o)'
    PROVE  ReadersInd'
<1>1. /\ loop' \in [Pods -> LoopType]
      /\ \A q \in Pods : LoopOk(loop[q])'
      /\ HandsApart'
  <2>1. \A q \in Pods \ {p} :
            /\ loop[q].phase # "fetch" /\ loop[q].at < position =>
                   loop[q].at < position' \/ loop[q].at \in replayed'
            /\ loop[q].phase \in {"check", "run"} /\ loop[q].at \notin replayed' =>
                   \A s \in Names : Left(loop[q], s) /\ <<loop[q].at, s>> \in done' => <<loop[q].at, s>> \in done
            /\ loop[q].phase = "run" /\ <<loop[q].at, "mark">> \in done' =>
                   <<loop[q].at, "mark">> \in done \/ failures' > 0 \/ loop[q].at \in together'
    OBVIOUS
  <2> QED
    BY <2>1, PodStep
<1>2. ReadersTyped'
  BY <1>1 DEF ReadersInd, ReadersTyped, Wider
<1>3. DoneIsPast'
  BY DEF ReadersInd, DoneIsPast, Wider
<1>4. MailsOnce' /\ StoresKnow' /\ AgainKnown'
  BY StoresStay
<1>5. FrontApplied'
  BY FrontStays
<1> QED
  BY <1>1, <1>2, <1>3, <1>4, <1>5 DEF ReadersInd

LEMMA IdleLoop ==
    ASSUME ReadersInd
    PROVE  Idle \in LoopType /\ Idle.phase = "fetch" /\ LoopOk(Idle)'
<1>1. Plan(<<>>) /\ <<>> \in Seq(Names)
  BY DEF Plan
<1>2. Idle \in LoopType /\ Idle.phase = "fetch" /\ Idle.statements = <<>>
  BY <1>1 DEF Idle, LoopType
<1>3. PICK l : l = Idle
  OBVIOUS
<1>4. LoopOk(l)'
  BY <1>1, <1>2, <1>3 DEF LoopOk, InHand, BehindApplied, LeftUndone
<1> QED
  BY <1>2, <1>3, <1>4

LEMMA IsProcessedReaders ==
    ASSUME ReadersInd, NEW p \in Pods, IsProcessed(p)
    PROVE  ReadersInd'
<1>1. PICK k \in LoopType : k = loop[p] /\ LoopOk(k) /\ k.phase = "check"
  BY KnownLoop DEF IsProcessed
<1>2. k.at \in 1 .. Len(topic) /\ k.statements = StepsOf(topic[k.at]) /\ k.statements # <<>>
  BY <1>1 DEF LoopOk, InHand
<1>3. /\ UNCHANGED <<reader, topic, owner, position, committedTo, processedIDs, rows, mail, done, again,
                     failed, replayed, together, skipped, losses>>
      /\ passedOver \subseteq passedOver'
      /\ failures' \in Nat /\ failures' >= failures
  BY KnownLoop DEF IsProcessed, StoreError, partition, stores, effected
<1>4. failures \in Nat
  BY KnownLoop
<1>5. Wider
  BY <1>3, <1>4 DEF Wider
<1>6. CASE /\ loop' = [loop EXCEPT ![p].phase = "commit", ![p].statements = <<>>]
           /\ k.at \in passedOver'
  <2>1. <<>> \in Seq(Names)
    OBVIOUS
  <2>2. PICK none \in Seq(Names) : none = <<>>
    BY <2>1, Zenon
  <2> DEFINE l == [k EXCEPT !.phase = "commit", !.statements = none]
  <2>3. l \in LoopType /\ l.phase = "commit" /\ l.at = k.at /\ l.statements = none
    BY DEF LoopType
  <2>4. loop' = [loop EXCEPT ![p] = l]
    BY <1>1, <1>6, <2>2, KnownLoop
  <2> HIDE DEF l
  <2>5. LoopOk(l)'
    <3>1. Applied(k.at)'
      BY <1>6 DEF Applied
    <3>2. Plan(<<>>)
      BY DEF Plan
    <3>3. \A o \in 1 .. Len(topic) : o < k.at => Applied(o)'
      BY <1>1, <1>5, StaysApplied DEF LoopOk, BehindApplied
    <3>4. InHand(l)'
      BY <1>2, <1>3, <2>2, <2>3, <3>2 DEF InHand
    <3>5. BehindApplied(l)'
      BY <1>3, <2>3, <3>1, <3>3 DEF BehindApplied
    <3>6. LeftUndone(l)'
      BY <1>1, <1>3, <2>3 DEF LoopOk, LeftUndone
    <3> QED
      BY <3>4, <3>5, <3>6 DEF LoopOk
  <2>6. \A o \in 1 .. Len(topic) : o < committedTo' => Applied(o)'
    BY <1>3, <1>5, StaysApplied DEF ReadersInd, FrontApplied
  <2>7. {losses', failures', committedTo'} \subseteq Nat /\ committedTo' <= Len(topic) + 1
    BY <1>3 DEF ReadersInd, ReadersTyped
  <2> QED
    BY <1>1, <1>3, <1>5, <2>3, <2>4, <2>5, <2>6, <2>7, LoopOnlyStep
<1>7. CASE /\ loop' = [loop EXCEPT ![p].phase = "run"]
           /\ eventID(k.at) \notin processedIDs \/ failures' > 0
  <2> DEFINE l == [k EXCEPT !.phase = "run"]
  <2>1. l \in LoopType /\ l.phase = "run" /\ l.at = k.at /\ l.statements = k.statements
    BY DEF LoopType
  <2>2. loop' = [loop EXCEPT ![p] = l]
    BY <1>1, <1>7, KnownLoop
  <2> HIDE DEF l
  <2>3. LoopOk(l)'
    <3>1. StepsOf(topic[k.at])' = StepsOf(topic[k.at])
      BY <1>5, StaysApplied
    <3>2. \A o \in 1 .. Len(topic) : o < k.at => Applied(o)'
      BY <1>1, <1>5, StaysApplied DEF LoopOk, BehindApplied
    <3>3. InHand(l)'
      BY <1>1, <1>2, <1>3, <2>1 DEF LoopOk, InHand
    <3>4. BehindApplied(l)'
      BY <1>2, <1>3, <2>1, <3>1, <3>2 DEF BehindApplied, Left, Among
    <3>5. <<k.at, "mark">> \in done => failures' > 0
      <4>1. MarkKnown(k.at)
        BY <1>2 DEF ReadersInd, StoresKnow
      <4> QED
        BY <1>5, <1>7, <4>1 DEF MarkKnown, Wider
    <3>6. LeftUndone(l)'
      BY <1>1, <1>3, <2>1, <3>5 DEF LoopOk, LeftUndone, Left, Among
    <3> QED
      BY <3>3, <3>4, <3>6 DEF LoopOk
  <2>4. \A o \in 1 .. Len(topic) : o < committedTo' => Applied(o)'
    BY <1>3, <1>5, StaysApplied DEF ReadersInd, FrontApplied
  <2>5. {losses', failures', committedTo'} \subseteq Nat /\ committedTo' <= Len(topic) + 1
    BY <1>3 DEF ReadersInd, ReadersTyped
  <2> QED
    BY <1>1, <1>3, <1>5, <2>1, <2>2, <2>3, <2>4, <2>5, LoopOnlyStep
<1>8. StoreError => failures' > 0
  BY <1>4 DEF StoreError
<1> QED
  BY <1>1, <1>6, <1>7, <1>8 DEF IsProcessed

LEMMA CommitMessagesReaders ==
    ASSUME ReadersInd, NEW p \in Pods, CommitMessages(p)
    PROVE  ReadersInd'
<1>1. PICK k \in LoopType : k = loop[p] /\ LoopOk(k) /\ k.phase = "commit"
  BY KnownLoop DEF CommitMessages
<1>2. /\ k.at \in 1 .. Len(topic) /\ Applied(k.at)
      /\ \A o \in 1 .. Len(topic) : o < k.at => Applied(o)
  BY <1>1 DEF LoopOk, InHand, BehindApplied
<1>3. /\ UNCHANGED <<reader, topic, owner, position, processedIDs, rows, mail, done, again, failed,
                     passedOver, replayed, together, skipped, losses>>
      /\ failures' \in Nat /\ failures' >= failures
      /\ committedTo' \in {committedTo, k.at + 1}
      /\ loop' = [loop EXCEPT ![p] = Idle]
  BY <1>1, KnownLoop DEF CommitMessages, StoreError, partition, stores, effected, delivery
<1>4. failures \in Nat
  BY KnownLoop
<1>5. Wider
  BY <1>3, <1>4 DEF Wider
<1>6. PICK l \in LoopType : l = Idle /\ l.phase = "fetch" /\ LoopOk(l)'
  <2>1. PICK l : l = Idle
    OBVIOUS
  <2> QED
    BY <2>1, IdleLoop
<1>7. Len(topic) \in Nat
  BY KnownLoop
<1>8. \A o \in 1 .. Len(topic) : o < k.at + 1 => o < k.at \/ o = k.at
  BY <1>2, <1>7
<1>9. \A o \in 1 .. Len(topic) : o < committedTo' => Applied(o)'
  BY <1>2, <1>3, <1>5, <1>8, StaysApplied DEF ReadersInd, FrontApplied
<1>10. {losses', failures', committedTo'} \subseteq Nat /\ committedTo' <= Len(topic) + 1
  <2>1. losses \in Nat /\ committedTo \in Nat /\ committedTo <= Len(topic) + 1
    BY DEF ReadersInd, ReadersTyped
  <2> QED
    BY <1>2, <1>3, <1>7, <2>1
<1> QED
  BY <1>1, <1>2, <1>3, <1>5, <1>6, <1>9, <1>10, LoopOnlyStep

LEMMA ReaderDiesReaders ==
    ASSUME ReadersInd, NEW p \in Pods, ReaderDies(p)
    PROVE  ReadersInd'
<1>1. /\ owner' = IF owner = p THEN NoPod ELSE owner
      /\ loop' = [loop EXCEPT ![p] = Idle]
      /\ mail' \subseteq mail
      /\ losses' \in Nat
      /\ UNCHANGED <<reader, topic, position, committedTo, processedIDs, rows, done, again, failed,
                     passedOver, replayed, together, skipped, failures>>
  BY KnownLoop DEF ReaderDies, Loss, effected, delivery
<1>2. Wider
  BY <1>1 DEF Wider
<1>3. PICK l \in LoopType : l = Idle /\ l.phase = "fetch" /\ LoopOk(l)'
  <2>1. PICK l : l = Idle
    OBVIOUS
  <2> QED
    BY <2>1, IdleLoop
<1>4. \A o \in 1 .. Len(topic) : o < committedTo' => Applied(o)'
  BY <1>1, <1>2, StaysApplied DEF ReadersInd, FrontApplied
<1>5. owner' \in {owner, NoPod} /\ owner' # p
  BY <1>1, ReadersAssumption
<1>6. {losses', failures', committedTo'} \subseteq Nat /\ committedTo' <= Len(topic) + 1
  BY <1>1 DEF ReadersInd, ReadersTyped
<1> QED
  BY <1>1, <1>2, <1>3, <1>4, <1>5, <1>6, LoopOnlyStep

\* Behind a statement that took effect or failed, the loop is as it should be.
LEMMA AfterStatementLoop ==
    ASSUME ReadersInd, Wider, NEW p \in Pods, loop[p].phase = "run", AfterStatement(p),
           NEW k \in LoopType, k = loop[p], NEW h, h = Head(k.statements),
           <<k.at, h>> \in done' \cup failed',
           done' \subseteq done \cup {<<k.at, h>>},
           UNCHANGED <<position, replayed>>
    PROVE  \E l \in LoopType :
               /\ loop' = [loop EXCEPT ![p] = l]
               /\ l.phase # "fetch" /\ l.at = k.at
               /\ LoopOk(l)'
<1>1. LoopOk(k) /\ k.phase = "run"
  BY KnownLoop
<1>2. k.at \in 1 .. Len(topic) /\ k.statements # <<>> /\ Plan(k.statements)
  BY <1>1 DEF LoopOk, InHand
<1>3. PICK rest : rest = Tail(k.statements)
  OBVIOUS
<1>4. PICK steps : steps = k.statements /\ Plan(steps) /\ steps # <<>> /\ h = Head(steps) /\ rest = Tail(steps)
  BY <1>2, <1>3
<1>5. /\ h \in Names /\ Plan(rest)
      /\ \A x : Among(steps, x) => x = h \/ Among(rest, x)
      /\ \A x : Among(rest, x) => x # h /\ Among(steps, x)
  BY <1>4, HeadAndTail
<1>6. rest \in Seq(Names)
  BY <1>5 DEF Plan
<1>7. PICK f \in {"run", "commit"} : f = IF rest = <<>> THEN "commit" ELSE "run"
  OBVIOUS
<1> DEFINE l == [k EXCEPT !.statements = rest, !.phase = f]
<1>8. l \in LoopType /\ l.phase = f /\ l.at = k.at /\ l.statements = rest
  BY <1>6 DEF LoopType
<1>9. loop' = [loop EXCEPT ![p] = l]
  BY <1>3, <1>7, KnownLoop DEF AfterStatement
<1> HIDE DEF l
<1>10. \A x : Left(k, x) => x = h \/ Left(l, x)
  BY <1>4, <1>5, <1>8 DEF Left
<1>11. \A x : Left(l, x) => x # h /\ Left(k, x)
  BY <1>4, <1>5, <1>8 DEF Left
<1>12. /\ topic' = topic /\ StepsOf(topic[k.at])' = StepsOf(topic[k.at])
       /\ \A o : Applied(o) => Applied(o)'
  BY StaysApplied
<1>13. \A i \in 1 .. Len(StepsOf(topic[k.at])) :
           \/ <<k.at, StepsOf(topic[k.at])[i]>> \in done' \cup failed'
           \/ Left(l, StepsOf(topic[k.at])[i])
  <2> SUFFICES ASSUME NEW i \in 1 .. Len(StepsOf(topic[k.at]))
               PROVE  \/ <<k.at, StepsOf(topic[k.at])[i]>> \in done' \cup failed'
                      \/ Left(l, StepsOf(topic[k.at])[i])
    OBVIOUS
  <2>1. \/ <<k.at, StepsOf(topic[k.at])[i]>> \in done \cup failed
        \/ Left(k, StepsOf(topic[k.at])[i])
    BY <1>1 DEF LoopOk, BehindApplied
  <2> QED
    BY <1>10, <2>1 DEF Wider
<1>14. InHand(l)'
  BY <1>2, <1>5, <1>7, <1>8, <1>12 DEF InHand
<1>15. BehindApplied(l)'
  <2>1. \A o \in 1 .. Len(topic) : o < k.at => Applied(o)'
    BY <1>1, <1>12 DEF LoopOk, BehindApplied
  <2>2. f = "commit" => \A x : ~Left(l, x)
    BY <1>7, <1>8 DEF Left, Among
  <2>3. f = "commit" => Applied(k.at)'
    BY <1>12, <1>13, <2>2 DEF Applied
  <2> QED
    BY <1>8, <1>12, <1>13, <2>1, <2>3 DEF BehindApplied, Left, Among
<1>16. LeftUndone(l)'
  <2>1. k.at < position \/ k.at \in replayed
    BY <1>1 DEF LoopOk, LeftUndone
  <2>2. k.at \notin replayed => \A s \in Names : Left(l, s) => <<k.at, s>> \notin done'
    BY <1>1, <1>11 DEF LoopOk, LeftUndone
  <2>3. Left(l, "mark") /\ <<k.at, "mark">> \in done' => failures' > 0 \/ k.at \in together'
    BY <1>1, <1>11 DEF LoopOk, LeftUndone, Wider
  <2> QED
    BY <1>7, <1>8, <2>1, <2>2, <2>3 DEF LeftUndone, Left, Among
<1>17. LoopOk(l)'
  BY <1>14, <1>15, <1>16 DEF LoopOk
<1> QED
  BY <1>7, <1>8, <1>9, <1>17

\* A statement that takes effect.
LEMMA EffectReaders ==
    ASSUME ReadersInd, NEW p \in Pods, loop[p].phase = "run", Effect(p), AfterStatement(p),
           UNCHANGED <<reader, topic, owner, position, committedTo, passedOver, replayed, together,
                       skipped, losses>>,
           failed \subseteq failed', failures' \in Nat, failures' >= failures
    PROVE  ReadersInd'
<1>1. PICK k \in LoopType : k = loop[p] /\ LoopOk(k) /\ k.phase = "run"
  BY KnownLoop
<1>2. PICK h, o : h = Head(k.statements) /\ o = k.at
  OBVIOUS
<1>3. /\ done' = done \cup {<<o, h>>}
      /\ again' = again \cup Repeated(o, h)
      /\ rows' = rows \cup RowOf(o, h)
      /\ processedIDs' = processedIDs \cup (IF h = "mark" THEN {eventID(o)} ELSE {})
      /\ mail' = mail \cup (IF h = "email"
                            THEN {[pod |-> p, message |-> o, run |-> k.run, attempt |-> 0]} ELSE {})
  BY <1>1, <1>2 DEF Effect
<1>4. Wider
  BY <1>3, KnownLoop DEF Wider
<1>5. PICK l \in LoopType :
          /\ loop' = [loop EXCEPT ![p] = l]
          /\ l.phase # "fetch" /\ l.at = o
          /\ LoopOk(l)'
  BY <1>1, <1>2, <1>3, <1>4, AfterStatementLoop
<1>6. o \in 1 .. Len(topic) /\ k.statements # <<>> /\ Plan(k.statements)
  BY <1>1, <1>2 DEF LoopOk, InHand
<1>7. h \in Names /\ h # "mailed" /\ Left(k, h)
  <2>1. h \in Names /\ h = k.statements[1] /\ Len(k.statements) \in Nat \ {0}
    BY <1>2, <1>6, HeadAndTail DEF Plan
  <2>2. 1 \in 1 .. Len(k.statements)
    BY <2>1
  <2> QED
    BY <1>6, <2>1, <2>2 DEF Plan, Left, Among
<1>8. <<o, h>> \in done => o \in replayed
  BY <1>1, <1>2, <1>7 DEF LoopOk, LeftUndone
<1>9. h = "mark" /\ <<o, h>> \in done => failures > 0 \/ o \in together
  BY <1>1, <1>2, <1>7 DEF LoopOk, LeftUndone
<1>10. o < position \/ o \in replayed
  BY <1>1, <1>2 DEF LoopOk, LeftUndone
<1>11. /\ loop' \in [Pods -> LoopType]
       /\ \A q \in Pods : LoopOk(loop[q])'
       /\ HandsApart'
  <2>1. ASSUME NEW q \in Pods \ {p}, loop[q].phase # "fetch", loop[q].at = o
        PROVE  o \in replayed \cap together
    BY <1>1, <1>2, <2>1 DEF ReadersInd, HandsApart
  <2>2. \A q \in Pods \ {p} :
            /\ loop[q].phase # "fetch" /\ loop[q].at < position =>
                   loop[q].at < position' \/ loop[q].at \in replayed'
            /\ loop[q].phase \in {"check", "run"} /\ loop[q].at \notin replayed' =>
                   \A s \in Names : Left(loop[q], s) /\ <<loop[q].at, s>> \in done' => <<loop[q].at, s>> \in done
            /\ loop[q].phase = "run" /\ <<loop[q].at, "mark">> \in done' =>
                   <<loop[q].at, "mark">> \in done \/ failures' > 0 \/ loop[q].at \in together'
    BY <1>3, <2>1
  <2> QED
    BY <1>1, <1>2, <1>4, <1>5, <2>2, PodStep
<1>12. Repeated(o, h) \subseteq done \cap {<<o, h>>} /\ (RowOf(o, h) \cap rows # {} => Repeated(o, h) = {})
  BY DEF Repeated
<1>13. h \in {"create", "createSeller"} => RowOf(o, h) = {<<h, eventID(o)>>}
  BY DEF RowOf
<1>14. h \in Marks
  BY <1>7 DEF Marks
<1>15. ReadersTyped'
  <2>1. mail' \subseteq MailType
    <3>1. k.run \in Nat /\ o \in Nat
      BY <1>2 DEF LoopType
    <3>2. [pod |-> p, message |-> o, run |-> k.run, attempt |-> 0] \in MailType
      BY <3>1 DEF MailType
    <3> QED
      BY <1>3, <3>2 DEF ReadersInd, ReadersTyped
  <2>2. done' \subseteq (1 .. Len(topic)) \X Marks /\ again' \subseteq done'
    BY <1>3, <1>6, <1>12, <1>14 DEF ReadersInd, ReadersTyped
  <2> QED
    BY <1>11, <2>1, <2>2 DEF ReadersInd, ReadersTyped
<1>16. DoneIsPast'
  BY <1>3, <1>10 DEF ReadersInd, DoneIsPast
<1>17. MailsOnce'
  <2>1. \A a : <<a, "mailed">> \in done' => <<a, "mailed">> \in done
    BY <1>3, <1>7
  <2>2. h = "email" /\ <<o, "mailed">> \in done => o \in replayed
    BY <1>6, <1>8 DEF ReadersInd, MailsOnce
  <2>3. \A g \in mail : h = "email" /\ g.message = o => o \in replayed
    BY <1>8 DEF ReadersInd, MailsOnce
  <2>4. \A g \in mail' : g \in mail \/ (h = "email" /\ g = [pod |-> p, message |-> o, run |-> k.run, attempt |-> 0])
    BY <1>3
  <2>5. \A g \in mail' : g \in mail \/ (h = "email" /\ g.message = o)
    BY <2>4
  <2>6. \A g \in mail' :
            /\ <<g.message, "email">> \in done'
            /\ <<g.message, "mailed">> \in done' => g.message \in replayed \/ <<g.message, "mailed">> \in failed'
    <3> SUFFICES ASSUME NEW g \in mail'
                 PROVE  /\ <<g.message, "email">> \in done'
                        /\ <<g.message, "mailed">> \in done' =>
                               g.message \in replayed \/ <<g.message, "mailed">> \in failed'
      BY Zenon
    <3>0. <<g.message, "mailed">> \in done' => <<g.message, "mailed">> \in done
      BY <2>1
    <3>1. CASE g \in mail
      BY <1>3, <3>0, <3>1 DEF ReadersInd, MailsOnce
    <3>2. CASE h = "email" /\ g.message = o
      BY <1>3, <2>2, <3>0, <3>2
    <3> QED
      BY <2>5, <3>1, <3>2
  <2>7. \A g, e \in mail' : g.message = e.message => g = e \/ g.message \in replayed
    <3> SUFFICES ASSUME NEW g \in mail', NEW e \in mail', g.message = e.message, g.message \notin replayed
                 PROVE  g = e
      OBVIOUS
    <3>1. CASE g \in mail /\ e \in mail
      BY <3>1 DEF ReadersInd, MailsOnce
    <3>2. CASE g \in mail /\ e \notin mail
      BY <2>3, <2>5, <3>2
    <3>3. CASE g \notin mail /\ e \in mail
      BY <2>3, <2>5, <3>3
    <3>4. CASE g \notin mail /\ e \notin mail
      BY <2>4, <3>4
    <3> QED
      BY <3>1, <3>2, <3>3, <3>4
  <2>8. \A a \in 1 .. Len(topic) : <<a, "mailed">> \in done' => <<a, "email">> \in done'
    BY <1>3, <2>1 DEF ReadersInd, MailsOnce
  <2> QED
    BY <2>6, <2>7, <2>8 DEF MailsOnce
<1>18. StoresKnow'
  <2> SUFFICES ASSUME NEW a \in 1 .. Len(topic)
               PROVE  RowsThere(a)' /\ MarkKnown(a)'
    BY DEF StoresKnow
  <2>1. RowsThere(a) /\ MarkKnown(a)
    BY DEF ReadersInd, StoresKnow
  <2>2. eventID(a)' = eventID(a) /\ eventID(o)' = eventID(o)
    BY <1>4, StaysApplied
  <2>3. RowsThere(a)'
    BY <1>3, <1>13, <2>1, <2>2 DEF RowsThere
  <2>4. MarkKnown(a)'
    BY <1>3, <1>4, <2>1, <2>2 DEF MarkKnown, Wider
  <2> QED
    BY <2>3, <2>4
<1>19. AgainKnown'
  <2> SUFFICES ASSUME NEW a \in 1 .. Len(topic), NEW s \in Marks, <<a, s>> \in again'
               PROVE  /\ a \in replayed \/ (s = "mailed" /\ <<a, s>> \in failed')
                      /\ s \notin {"create", "createSeller"}
                      /\ s = "mark" => failures' > 0 \/ a \in together
    BY DEF AgainKnown
  <2>1. CASE <<a, s>> \in again
    BY <1>4, <2>1 DEF ReadersInd, AgainKnown, Wider
  <2>2. CASE <<a, s>> \notin again
    <3>1. a = o /\ s = h /\ <<o, h>> \in done /\ RowOf(o, h) \cap rows = {}
      BY <1>3, <1>12, <2>2
    <3>2. h \notin {"create", "createSeller"}
      <4>1. RowsThere(o)
        BY <1>6 DEF ReadersInd, StoresKnow
      <4> QED
        BY <1>13, <3>1, <4>1 DEF RowsThere
    <3>3. h = "mark" => failures' > 0 \/ o \in together
      BY <1>4, <1>9, <3>1 DEF Wider
    <3> QED
      BY <1>8, <3>1, <3>2, <3>3
  <2> QED
    BY <2>1, <2>2
<1>20. FrontApplied'
  <2>1. \A a \in 1 .. Len(topic) : a < committedTo' => Applied(a)'
    BY <1>4, StaysApplied DEF ReadersInd, FrontApplied
  <2> QED
    BY <1>1, <1>2, <1>4, <1>5, <2>1, FrontStays
<1> QED
  BY <1>11, <1>15, <1>16, <1>17, <1>18, <1>19, <1>20 DEF ReadersInd

LEMMA StatementReaders ==
    ASSUME ReadersInd, NEW p \in Pods, Statement(p)
    PROVE  ReadersInd'
<1>1. /\ loop[p].phase = "run" /\ Effect(p) /\ AfterStatement(p)
      /\ UNCHANGED <<reader, topic, owner, position, committedTo, passedOver, replayed, together,
                     skipped, losses>>
      /\ failed \subseteq failed' /\ failures' \in Nat /\ failures' >= failures
  BY KnownLoop DEF Statement, partition, delivery
<1> QED
  BY <1>1, EffectReaders

LEMMA StatementFailsReaders ==
    ASSUME ReadersInd, NEW p \in Pods, StatementFails(p)
    PROVE  ReadersInd'
<1>1. /\ loop[p].phase = "run" /\ AfterStatement(p)
      /\ UNCHANGED <<reader, topic, owner, position, committedTo, passedOver, replayed, together,
                     skipped, losses>>
      /\ failed' = failed \cup {<<loop[p].at, Head(loop[p].statements)>>}
      /\ failures' \in Nat /\ failures' >= failures
      /\ Effect(p) \/ UNCHANGED <<stores, effected>>
  BY KnownLoop DEF StatementFails, StoreError, partition, delivery
<1>2. CASE Effect(p)
  BY <1>1, <1>2, EffectReaders
<1>3. CASE UNCHANGED <<stores, effected>>
  <2>1. UNCHANGED <<processedIDs, rows, mail, done, again>>
    BY <1>3 DEF stores, effected
  <2>2. Wider
    BY <1>1, <2>1, KnownLoop DEF Wider
  <2>3. PICK k \in LoopType : k = loop[p] /\ k.phase = "run"
    BY <1>1, KnownLoop
  <2>4. PICK h : h = Head(k.statements)
    OBVIOUS
  <2>5. PICK l \in LoopType :
            /\ loop' = [loop EXCEPT ![p] = l]
            /\ l.phase # "fetch" /\ l.at = k.at
            /\ LoopOk(l)'
    BY <1>1, <2>1, <2>2, <2>3, <2>4, AfterStatementLoop
  <2>6. \A o \in 1 .. Len(topic) : o < committedTo' => Applied(o)'
    BY <1>1, <2>2, StaysApplied DEF ReadersInd, FrontApplied
  <2>7. {losses', failures', committedTo'} \subseteq Nat /\ committedTo' <= Len(topic) + 1
    BY <1>1 DEF ReadersInd, ReadersTyped
  <2> QED
    BY <1>1, <2>1, <2>2, <2>3, <2>5, <2>6, <2>7, LoopOnlyStep
<1> QED
  BY <1>1, <1>2, <1>3

LEMMA SendMailReaders ==
    ASSUME ReadersInd, NEW g \in mail, SendMail(g)
    PROVE  ReadersInd'
<1>1. PICK o : o = g.message
  OBVIOUS
<1>2. g \in MailType /\ g.pod \in Pods /\ o \in Nat /\ g.attempt \in Nat
  BY <1>1 DEF ReadersInd, ReadersTyped, MailType
<1>3. /\ UNCHANGED <<reader, topic, owner, position, loop, committedTo, processedIDs, rows, passedOver,
                     replayed, together, skipped, losses>>
      /\ failed \subseteq failed' /\ failures' \in Nat /\ failures' >= failures
  BY <1>2, KnownLoop DEF SendMail, StoreError, partition, delivery
<1>4. /\ done \subseteq done' /\ done' \subseteq done \cup {<<o, "mailed">>}
      /\ again \subseteq again' /\ again' \subseteq again \cup (done \cap {<<o, "mailed">>})
  BY <1>1 DEF SendMail, Sent, effected
<1>5. Wider
  BY <1>2, <1>3, <1>4, KnownLoop DEF Wider
<1>6. /\ <<o, "email">> \in done
      /\ <<o, "mailed">> \in done => o \in replayed \/ <<o, "mailed">> \in failed
  BY <1>1 DEF ReadersInd, MailsOnce
<1>7. o \in 1 .. Len(topic)
  BY <1>6 DEF ReadersInd, ReadersTyped
<1>8. "mailed" \in Marks /\ "email" \in Marks /\ "mailed" \notin Names
  BY DEF Marks, Names
<1>9. \A e \in mail' : e \in MailType /\ (e \in mail \ {g} \/ (e.message = o /\ <<o, "mailed">> \in failed'))
  <2>1. CASE mail' = mail \ {g}
    BY <2>1 DEF ReadersInd, ReadersTyped
  <2>2. CASE /\ mail' = (mail \ {g}) \cup
                   (IF g.attempt + 1 < maxRetries THEN {[g EXCEPT !.attempt = @ + 1]} ELSE {})
             /\ <<o, "mailed">> \in failed'
    <3>1. PICK n \in Nat : n = g.attempt + 1
      BY <1>2
    <3>2. PICK r : r = [g EXCEPT !.attempt = n]
      OBVIOUS
    <3>3. r \in MailType /\ r.message = o
      BY <1>1, <1>2, <3>2 DEF MailType
    <3>4. \A e \in mail' : e \in mail \ {g} \/ e = r
      BY <2>2, <3>1, <3>2
    <3> QED
      BY <2>2, <3>3, <3>4 DEF ReadersInd, ReadersTyped
  <2> QED
    BY <1>1, <2>1, <2>2 DEF SendMail
<1>10. \A e, f \in mail' : e \notin mail \ {g} /\ f \notin mail \ {g} => e = f
  BY DEF SendMail
<1>11. /\ \A q \in Pods : LoopOk(loop[q])'
       /\ HandsApart'
  <2>1. HandsApart'
    BY <1>3 DEF ReadersInd, HandsApart
  <2> SUFFICES ASSUME NEW q \in Pods
               PROVE  LoopOk(loop[q])'
    BY <2>1
  <2>2. PICK k \in LoopType : k = loop[q] /\ LoopOk(k)
    BY KnownLoop
  <2>3. \A s \in Names : <<k.at, s>> \in done' => <<k.at, s>> \in done
    BY <1>4, <1>8
  <2>4. "mark" \in Names
    BY DEF Names
  <2>5. LoopOk(k)'
    BY <1>3, <1>5, <2>2, <2>3, <2>4, LoopStays
  <2>6. k = loop[q]'
    BY <1>3, <2>2
  <2> QED
    BY <2>5, <2>6
<1>12. ReadersTyped'
  <2>1. done' \subseteq (1 .. Len(topic)) \X Marks /\ again' \subseteq done'
    BY <1>4, <1>7, <1>8 DEF ReadersInd, ReadersTyped
  <2>2. mail' \subseteq MailType
    BY <1>9
  <2> QED
    BY <1>3, <2>1, <2>2 DEF ReadersInd, ReadersTyped
<1>13. FrontApplied'
  BY <1>3, <1>5, StaysApplied DEF ReadersInd, FrontApplied
<1>14. DoneIsPast'
  <2>1. o < position \/ o \in replayed
    BY <1>6, <1>7, <1>8 DEF ReadersInd, DoneIsPast
  <2> QED
    BY <1>3, <1>4, <2>1 DEF ReadersInd, DoneIsPast
<1>15. MailsOnce'
  <2>1. ASSUME NEW e \in mail'
        PROVE  /\ <<e.message, "email">> \in done'
               /\ <<e.message, "mailed">> \in done' =>
                      e.message \in replayed \/ <<e.message, "mailed">> \in failed'
    <3>1. CASE e.message # o
      <4>1. e \in mail
        BY <1>9, <3>1
      <4>2. <<e.message, "mailed">> \in done' => <<e.message, "mailed">> \in done
        BY <1>4, <3>1
      <4> QED
        BY <1>3, <1>4, <4>1, <4>2 DEF ReadersInd, MailsOnce
    <3>2. CASE e.message = o /\ <<o, "mailed">> \in failed'
      BY <1>4, <1>6, <3>2
    <3>3. CASE e.message = o /\ e \in mail \ {g}
      <4>1. o \in replayed
        BY <1>1, <3>3 DEF ReadersInd, MailsOnce
      <4> QED
        BY <1>4, <1>6, <3>3, <4>1
    <3> QED
      BY <1>9, <3>1, <3>2, <3>3
  <2>2. ASSUME NEW e \in mail', NEW f \in mail', e.message = f.message, e.message \notin replayed
        PROVE  e = f
    <3>1. CASE e \in mail \ {g} /\ f \in mail \ {g}
      BY <2>2, <3>1 DEF ReadersInd, MailsOnce
    <3>2. CASE e \notin mail \ {g} /\ f \notin mail \ {g}
      BY <1>10, <3>2
    <3>3. CASE e \in mail \ {g} /\ f \notin mail \ {g}
      <4>1. e.message = g.message
        BY <1>1, <1>9, <2>2, <3>3
      <4> QED
        BY <2>2, <3>3, <4>1 DEF ReadersInd, MailsOnce
    <3>4. CASE e \notin mail \ {g} /\ f \in mail \ {g}
      <4>1. f.message = g.message /\ f.message \notin replayed
        BY <1>1, <1>9, <2>2, <3>4
      <4> QED
        BY <3>4, <4>1 DEF ReadersInd, MailsOnce
    <3> QED
      BY <3>1, <3>2, <3>3, <3>4
  <2>3. \A a \in 1 .. Len(topic) : <<a, "mailed">> \in done' => <<a, "email">> \in done'
    BY <1>4, <1>6 DEF ReadersInd, MailsOnce
  <2> QED
    BY <1>3, <2>1, <2>2, <2>3 DEF MailsOnce
<1>16. StoresKnow'
  <2> SUFFICES ASSUME NEW a \in 1 .. Len(topic)
               PROVE  RowsThere(a)' /\ MarkKnown(a)'
    BY <1>3 DEF StoresKnow
  <2>1. RowsThere(a) /\ MarkKnown(a)
    BY DEF ReadersInd, StoresKnow
  <2>2. eventID(a)' = eventID(a)
    BY <1>5, StaysApplied
  <2>3. \A s : s # "mailed" /\ <<a, s>> \in done' => <<a, s>> \in done
    BY <1>4
  <2>4. RowsThere(a)'
    BY <1>3, <2>1, <2>2, <2>3 DEF RowsThere
  <2>5. MarkKnown(a)'
    BY <1>3, <1>5, <2>1, <2>2, <2>3 DEF MarkKnown, Wider
  <2> QED
    BY <2>4, <2>5
<1>17. AgainKnown'
  <2> SUFFICES ASSUME NEW a \in 1 .. Len(topic), NEW s \in Marks, <<a, s>> \in again'
               PROVE  /\ a \in replayed \/ (s = "mailed" /\ <<a, s>> \in failed')
                      /\ s \notin {"create", "createSeller"}
                      /\ s = "mark" => failures' > 0 \/ a \in together
    BY <1>3 DEF AgainKnown
  <2>1. CASE <<a, s>> \in again
    BY <1>5, <2>1 DEF ReadersInd, AgainKnown, Wider
  <2>2. CASE <<a, s>> \notin again
    BY <1>3, <1>4, <1>6, <2>2
  <2> QED
    BY <2>1, <2>2
<1> QED
  BY <1>11, <1>12, <1>13, <1>14, <1>15, <1>16, <1>17 DEF ReadersInd

LEMMA ProcessedExpiresReaders ==
    ASSUME ReadersInd, NEW id, ProcessedExpires(id)
    PROVE  ReadersInd'
<1>1. /\ failures' = failures + 1
      /\ UNCHANGED <<reader, topic, owner, position, loop, committedTo, rows, mail, done, again, failed,
                     passedOver, replayed, together, skipped, losses>>
  BY DEF ProcessedExpires, StoreError, partition, effected, delivery
<1>2. failures' \in Nat /\ failures' > 0
  BY <1>1 DEF ReadersInd, ReadersTyped
<1>3. Wider
  BY <1>1, <1>2 DEF Wider
<1>4. ReadersTyped'
  BY <1>1, <1>2 DEF ReadersInd, ReadersTyped
<1>5. \A q \in Pods : LoopOk(loop[q])'
  <2> SUFFICES ASSUME NEW q \in Pods
               PROVE  LoopOk(loop[q])'
    OBVIOUS
  <2>1. PICK k \in LoopType : k = loop[q] /\ LoopOk(k)
    BY KnownLoop
  <2>2. LoopOk(k)' /\ k = loop[q]'
    BY <1>1, <1>3, <2>1, LoopStays
  <2> QED
    BY <2>2
<1>6. HandsApart' /\ DoneIsPast'
  BY <1>1 DEF ReadersInd, HandsApart, DoneIsPast
<1>7. FrontApplied'
  BY <1>1, <1>3, StaysApplied DEF ReadersInd, FrontApplied
<1>8. MailsOnce' /\ StoresKnow' /\ AgainKnown'
  BY <1>1, <1>2, <1>3, StoresStay
<1> QED
  BY <1>4, <1>5, <1>6, <1>7, <1>8 DEF ReadersInd

LEMMA ProduceReaders ==
    ASSUME ReadersInd, NEW kind \in KindsFor, Produce(kind)
    PROVE  ReadersInd'
<1>1. /\ topic' = Append(topic, kind) /\ Len(topic) < MaxTopic
      /\ UNCHANGED <<reader, owner, position, loop, committedTo, processedIDs, rows, mail, done, again,
                     failed, passedOver, replayed, together, skipped, losses, failures>>
  BY DEF Produce, stores, effected, delivery
<1>2. /\ topic \in Seq(Kinds) /\ Len(topic) \in Nat /\ kind \in Kinds /\ MaxTopic \in Nat
      /\ position \in Nat /\ committedTo \in Nat
      /\ position <= Len(topic) + 1 /\ committedTo <= Len(topic) + 1
  BY ReadersAssumption DEF ReadersInd, ReadersTyped, KindsFor, Kinds
<1>3. /\ topic' \in Seq(Kinds) /\ Len(topic') = Len(topic) + 1
      /\ \A o \in 1 .. Len(topic) : topic'[o] = topic[o]
  BY <1>1, <1>2
<1>4. \A o \in 1 .. Len(topic) : StepsOf(topic[o])' = StepsOf(topic[o])
  BY <1>1, <1>3 DEF StepsOf
<1>5. \A o \in 1 .. Len(topic) : eventID(o)' = eventID(o)
  BY <1>3 DEF eventID
<1>6. \A o \in 1 .. Len(topic) : Applied(o) => Applied(o)'
  BY <1>1, <1>4 DEF Applied
<1>7. \A o \in 1 .. Len(topic') : o < Len(topic) + 1 => o \in 1 .. Len(topic)
  BY <1>2, <1>3
<1>8. ReadersTyped'
  BY <1>1, <1>2, <1>3 DEF ReadersInd, ReadersTyped
<1>9. \A q \in Pods : LoopOk(loop[q])'
  <2> SUFFICES ASSUME NEW q \in Pods
               PROVE  LoopOk(loop[q])'
    OBVIOUS
  <2>1. PICK k \in LoopType : k = loop[q] /\ LoopOk(k)
    BY KnownLoop
  <2>2. k.phase # "fetch" => k.at \in 1 .. Len(topic) /\ k.at \in 1 .. Len(topic')
    BY <1>2, <1>3, <2>1 DEF LoopOk, InHand
  <2>3. k.phase # "fetch" => StepsOf(topic[k.at])' = StepsOf(topic[k.at])
    BY <1>4, <2>2
  <2>4. InHand(k)'
    BY <2>1, <2>2, <2>3 DEF LoopOk, InHand
  <2>5. BehindApplied(k)'
    <3>1. k.phase # "fetch" => \A o \in 1 .. Len(topic') : o < k.at => Applied(o)'
      <4> SUFFICES ASSUME k.phase # "fetch", NEW o \in 1 .. Len(topic'), o < k.at
                   PROVE  Applied(o)'
        OBVIOUS
      <4>1. o \in 1 .. Len(topic)
        BY <1>2, <1>7, <2>2
      <4> QED
        BY <1>6, <2>1, <4>1 DEF LoopOk, BehindApplied
    <3>2. k.phase = "commit" => Applied(k.at)'
      BY <1>6, <2>1, <2>2 DEF LoopOk, BehindApplied
    <3>3. PICK steps : steps = StepsOf(topic[k.at])
      OBVIOUS
    <3>4. k.phase = "run" =>
              \A i \in 1 .. Len(steps) : <<k.at, steps[i]>> \in done' \cup failed' \/ Left(k, steps[i])
      BY <1>1, <2>1, <3>3 DEF LoopOk, BehindApplied
    <3>5. k.phase = "run" => steps = StepsOf(topic[k.at])'
      BY <2>3, <3>3
    <3> QED
      BY <3>1, <3>2, <3>4, <3>5 DEF BehindApplied, Left, Among
  <2>6. LeftUndone(k)'
    BY <1>1, <2>1 DEF LoopOk, LeftUndone, Left, Among
  <2>7. LoopOk(k)' /\ k = loop[q]'
    BY <1>1, <2>1, <2>4, <2>5, <2>6 DEF LoopOk
  <2> QED
    BY <2>7
<1>10. HandsApart'
  BY <1>1 DEF ReadersInd, HandsApart
<1>11. FrontApplied'
  <2>1. \A o \in 1 .. Len(topic') : o < committedTo => Applied(o)'
    BY <1>2, <1>3, <1>6, <1>7 DEF ReadersInd, FrontApplied
  <2>2. owner # NoPod =>
            \A o \in 1 .. Len(topic') :
               o < position => Applied(o)' \/ (loop[owner].phase # "fetch" /\ loop[owner].at = o)
    BY <1>2, <1>3, <1>6, <1>7 DEF ReadersInd, FrontApplied
  <2> QED
    BY <1>1, <2>1, <2>2 DEF ReadersInd, FrontApplied
<1>12. \A o, s : <<o, s>> \in done => o \in 1 .. Len(topic)
  BY DEF ReadersInd, ReadersTyped
<1>13. DoneIsPast' /\ MailsOnce'
  BY <1>1, <1>12 DEF ReadersInd, DoneIsPast, MailsOnce
<1>14. AgainKnown'
  <2>1. again \subseteq done
    BY DEF ReadersInd, ReadersTyped
  <2> QED
    BY <1>1, <1>12, <2>1 DEF ReadersInd, AgainKnown
<1>15. StoresKnow'
  <2> SUFFICES ASSUME NEW o \in 1 .. Len(topic')
               PROVE  RowsThere(o)' /\ MarkKnown(o)'
    BY DEF StoresKnow
  <2>1. CASE o \in 1 .. Len(topic)
    <3>1. RowsThere(o) /\ MarkKnown(o) /\ eventID(o)' = eventID(o)
      BY <1>5, <2>1 DEF ReadersInd, StoresKnow
    <3> QED
      BY <1>1, <3>1 DEF RowsThere, MarkKnown
  <2>2. CASE o \notin 1 .. Len(topic)
    BY <1>1, <1>12, <2>2 DEF RowsThere, MarkKnown
  <2> QED
    BY <2>1, <2>2
<1> QED
  BY <1>8, <1>9, <1>10, <1>11, <1>13, <1>14, <1>15 DEF ReadersInd

LEMMA ReadersStutter ==
    ASSUME ReadersInd, UNCHANGED readersVars
    PROVE  ReadersInd'
<1>1. UNCHANGED <<reader, topic, owner, position, loop, committedTo, processedIDs, rows, mail, done, again,
                  failed, passedOver, replayed, together, skipped, losses, failures>>
  BY DEF readersVars
<1>2. Wider
  BY <1>1 DEF Wider
<1>3. \A q \in Pods : LoopOk(loop[q])'
  <2> SUFFICES ASSUME NEW q \in Pods
               PROVE  LoopOk(loop[q])'
    OBVIOUS
  <2>1. PICK k \in LoopType : k = loop[q] /\ LoopOk(k)
    BY KnownLoop
  <2>2. LoopOk(k)' /\ k = loop[q]'
    BY <1>1, <1>2, <2>1, LoopStays
  <2> QED
    BY <2>2
<1>4. ReadersTyped' /\ HandsApart' /\ DoneIsPast'
  BY <1>1 DEF ReadersInd, ReadersTyped, HandsApart, DoneIsPast
<1>5. FrontApplied'
  BY <1>1, <1>2, StaysApplied DEF ReadersInd, FrontApplied
<1>6. MailsOnce' /\ StoresKnow' /\ AgainKnown'
  BY <1>1, <1>2, StoresStay
<1> QED
  BY <1>3, <1>4, <1>5, <1>6 DEF ReadersInd

LEMMA ReadersIndStep ==
    ASSUME ReadersInd, [ReadersNext]_readersVars
    PROVE  ReadersInd'
<1>1. CASE UNCHANGED readersVars
  BY <1>1, ReadersStutter
<1>2. CASE ReadersNext
  BY <1>2, ProduceReaders, AssignPartitionReaders, FetchReaders, IsProcessedReaders, StatementReaders,
     StatementFailsReaders, CommitMessagesReaders, SendMailReaders, ProcessedExpiresReaders, ReaderDiesReaders
     DEF ReadersNext
<1> QED
  BY <1>1, <1>2

LEMMA ReadersInvariant == MessagingSpec => []ReadersInd
<1>1. MessagingInit => ReadersInd
  BY ReadersIndInit DEF MessagingInit
<1>2. ReadersInd /\ [MessagingNext]_messagingVars => ReadersInd'
  BY ReadersIndStep, StepOfEachPart
<1> QED
  BY <1>1, <1>2, PTL DEF MessagingSpec

\* Each statement of a message before the committed offset took effect or failed
\* on its own, unless the message was passed over for a known reason, whatever
\* pods have the partition and whichever of them commits last (the loops of
\* notification-, search- and analytics-service).
THEOREM CommittedIsApplied == MessagingSpec => []CommittedEventsApplied
<1>1. ReadersInd => CommittedEventsApplied
  <2> SUFFICES ASSUME ReadersInd, NEW o \in 1 .. Len(topic), o < committedTo, o \notin skipped \cup passedOver,
                      NEW i \in DOMAIN StepsOf(topic[o])
               PROVE  <<o, StepsOf(topic[o])[i]>> \in done \cup failed
    BY DEF CommittedEventsApplied
  <2>1. Applied(o)
    BY DEF ReadersInd, FrontApplied
  <2>2. StepsOf(topic[o]) \in Seq(Names)
    BY StepsArePlans DEF ReadersInd, ReadersTyped, Plan
  <2>3. i \in 1 .. Len(StepsOf(topic[o]))
    BY <2>2
  <2> QED
    BY <2>1, <2>3 DEF Applied
<1> QED
  BY <1>1, ReadersInvariant, PTL

\* No counter, push or e-mail of an event is made twice unless its message was
\* replayed (an e-mail also when an attempt that sent it returned an error); a row
\* never is, and a mark only after a failure or by two pods at once.
THEOREM StatementsApplyOnce == MessagingSpec => []AppliedOnce
<1>1. ReadersInd => AppliedOnce
  <2> SUFFICES ASSUME ReadersInd, NEW pair \in again
               PROVE  /\ pair[1] \in replayed \/ (pair[2] = "mailed" /\ pair \in failed)
                      /\ pair[2] \notin {"create", "createSeller"}
                      /\ pair[2] = "mark" => failures > 0 \/ pair[1] \in together
    BY DEF AppliedOnce
  <2>1. PICK o \in 1 .. Len(topic), s \in Marks : pair = <<o, s>>
    BY DEF ReadersInd, ReadersTyped
  <2> QED
    BY <2>1 DEF ReadersInd, AgainKnown
<1> QED
  BY <1>1, ReadersInvariant, PTL

=============================================================================
