------------------------------ MODULE Messaging ------------------------------
(***************************************************************************)
(* The readers of the event topics and the hubs that push to browsers: the  *)
(* consumer of pkg/kafka, the readers of notification-, search- and         *)
(* analytics-service, and the two WebSocket hubs.  What flows from one to   *)
(* the next is an input of the next (a message in a topic, a delivery, a    *)
(* broadcast), so one of them, `part`, runs in a behaviour and the others   *)
(* stay as they began.                                                      *)
(***************************************************************************)
EXTENDS KafkaConsumer, EventReaders, NotificationHub, BidHub

VARIABLE part

messagingVars == <<kafkaVars, readersVars, hubVars, bidHubVars, part>>

Parts == {"consumer", "readers", "notifications", "bids"}

MessagingInit ==
    /\ part \in Parts
    /\ KafkaInit /\ ReadersInit /\ HubInit /\ BidHubInit
    /\ part # "readers" => reader = "search"

\* Only the variables of `part` may change.
OtherPartsStay ==
    /\ part # "consumer" => UNCHANGED kafkaVars
    /\ part # "readers" => UNCHANGED readersVars
    /\ part # "notifications" => UNCHANGED hubVars
    /\ part # "bids" => UNCHANGED bidHubVars
    /\ UNCHANGED part

MessagingNext ==
    \/ part = "consumer" /\ KafkaNext /\ OtherPartsStay
    \/ part = "readers" /\ ReadersNext /\ OtherPartsStay
    \/ part = "notifications" /\ HubNext /\ OtherPartsStay
    \/ part = "bids" /\ BidHubNext /\ OtherPartsStay

MessagingSpec == MessagingInit /\ [][MessagingNext]_messagingVars

=============================================================================
