--------------------------- MODULE AuctionConsumer ---------------------------
(***************************************************************************)
(* The user service's consumer of the auction topic                         *)
(* (user-service/internal/consumer/auction_consumer.go): for every          *)
(* auction.ended with a winner it settles the winner's hold (an audit row   *)
(* that changes no balance) and credits the seller, through                 *)
(* user-service/internal/service/wallet_service.go, and then commits the    *)
(* offset whatever happened.  Neither the event nor the credit has a key    *)
(* that would show that it was handled before.                              *)
(*                                                                         *)
(* One partition, read by one member of the group at a time: a crash and a  *)
(* rebalance both mean that the next reader starts at the committed offset. *)
(***************************************************************************)
EXTENDS Integers, Sequences, FiniteSets, FiniteSetsExt

CONSTANTS
    ConsumedAuctions,    \* auctions that end
    ConsumerFaultKinds,  \* what may go wrong: see ConsumerFault
    MaxConsumerFaults    \* bound on the faults of one behaviour

ASSUME ConsumerAssumption ==
    /\ ConsumerFaultKinds \subseteq {"again", "wallet", "ack", "commit", "restart"}
    /\ MaxConsumerFaults \in Nat

VARIABLES
    topic,          \* the partition
    position,       \* messages the reader has fetched
    committed,      \* the group's committed offset, -1 for none
    runPc,          \* where Run is
    settled,        \* settle rows in wallet_transactions, per auction
    credited,       \* credits of the price to the seller's balance, per auction
    start,          \* history: what lies before it the group has never been given
    consumerFaults  \* faults so far, by kind

consumerVars == <<topic, position, committed, runPc, settled, credited, start, consumerFaults>>

-----------------------------------------------------------------------------
\* key "other": auction.created, auction.started, auction.deleted.
Message == [key : {"ended"}, auction : ConsumedAuctions, winner : BOOLEAN]
             \cup [key : {"other"}, auction : ConsumedAuctions, winner : {FALSE}]

Kinds == {"again", "wallet", "ack", "commit", "restart"}

Counters == [ConsumedAuctions -> Nat]

ConsumerTypeOK ==
    /\ topic \in Seq(Message)
    /\ position \in 0 .. Len(topic)
    /\ committed \in -1 .. position
    /\ runPc \in {"fetch", "settle", "credit", "commit"}
    /\ settled \in Counters
    /\ credited \in Counters
    /\ start \in 0 .. Len(topic)
    /\ consumerFaults \in [Kinds -> 0 .. MaxConsumerFaults]

\* The group is new (no committed offset), or has read a topic still empty.
ConsumerInit ==
    /\ topic = << >>
    /\ position = 0
    /\ committed \in {-1, 0}
    /\ runPc = "fetch"
    /\ settled = [a \in ConsumedAuctions |-> 0]
    /\ credited = [a \in ConsumedAuctions |-> 0]
    /\ start = 0
    /\ consumerFaults = [k \in Kinds |-> 0]

\* kind: "again" - a message is published a second time; "wallet" - the wallet
\* operation fails; "ack" - it commits but the answer is lost; "commit" -
\* CommitMessages fails; "restart" - the member crashes, is rolled out anew or
\* loses the partition.
ConsumerFault(kind) ==
    /\ kind \in ConsumerFaultKinds
    /\ MapThenSumSet(LAMBDA k : consumerFaults[k], Kinds) < MaxConsumerFaults
    /\ consumerFaults' = [consumerFaults EXCEPT ![kind] = @ + 1]

Current == topic[position]

-----------------------------------------------------------------------------
Published(m) == \E n \in 1 .. Len(topic) : topic[n].auction = m.auction /\ topic[n].key = m.key

\* The auction service publishes an auction's messages.  It publishes one again
\* when its producer retries, when a tick outlives the scheduler's lock and when
\* the UPDATE that ends the auction failed (AuctionLifecycle).
PublishMessage(m) ==
    /\ \/ ~Published(m) /\ UNCHANGED consumerFaults
       \/ Published(m) /\ ConsumerFault("again")
    /\ topic' = Append(topic, m)
    /\ UNCHANGED <<position, committed, runPc, settled, credited, start>>

\* FetchMessage, then the dispatch on the key and on an empty WinnerID.
FetchMessage ==
    /\ runPc = "fetch"
    /\ position < Len(topic)
    /\ position' = position + 1
    /\ LET m == topic[position + 1]
       IN  runPc' = IF m.key = "ended" /\ m.winner THEN "settle" ELSE "commit"
    /\ UNCHANGED <<topic, committed, settled, credited, start, consumerFaults>>

\* A wallet operation for the current auction: it happens, it happens and
\* reports an error, or it fails.
WalletCall(count) ==
    \/ /\ UNCHANGED consumerFaults \/ ConsumerFault("ack")
       /\ count' = [count EXCEPT ![Current.auction] = @ + 1]
    \/ /\ ConsumerFault("wallet")
       /\ UNCHANGED count

\* Settle: an error is logged, "still try to credit seller".
Settle ==
    /\ runPc = "settle"
    /\ WalletCall(settled)
    /\ runPc' = "credit"
    /\ UNCHANGED <<topic, position, committed, credited, start>>

\* Variant: the credit is retried although it went through.
CreditRetried ==
    /\ runPc = "credit"
    /\ WalletCall(credited)
    /\ runPc' \in {"credit", "commit"}
    /\ UNCHANGED <<topic, position, committed, settled, start>>

\* Credit: an error is logged by Run, which goes on to commit.
Credit ==
    /\ runPc = "credit"
    /\ WalletCall(credited)
    /\ runPc' = "commit"
    /\ UNCHANGED <<topic, position, committed, settled, start>>

\* CommitMessages of the message: an error is logged, and a later commit
\* covers this message too.
CommitMessages ==
    /\ runPc = "commit"
    /\ \/ committed' = position /\ UNCHANGED consumerFaults
       \/ ConsumerFault("commit") /\ UNCHANGED committed
    /\ runPc' = "fetch"
    /\ UNCHANGED <<topic, position, settled, credited, start>>

\* Variant: the new reader starts behind everything published so far.
RestartAtEnd ==
    /\ ConsumerFault("restart")
    /\ runPc' = "fetch"
    /\ position' = Len(topic)
    /\ UNCHANGED <<topic, committed, settled, credited, start>>

\* The next reader starts at the committed offset, or at the end of the
\* partition (StartOffset: LastOffset) when there is none.
Restart ==
    /\ ConsumerFault("restart")
    /\ runPc' = "fetch"
    /\ position' = IF committed = -1 THEN Len(topic) ELSE committed
    /\ start' = IF committed = -1 THEN Len(topic) ELSE start
    /\ UNCHANGED <<topic, committed, settled, credited>>

Run == FetchMessage \/ Settle \/ Credit \/ CommitMessages

ConsumerNext == (\E m \in Message : PublishMessage(m)) \/ Run \/ Restart

ConsumerSpec == ConsumerInit /\ [][ConsumerNext]_consumerVars

\* The loop of Run goes on; it only blocks when there is nothing to fetch.
ConsumerFairSpec == ConsumerSpec /\ WF_consumerVars(Run)

-----------------------------------------------------------------------------
EndedWithWinner(a) == [key |-> "ended", auction |-> a, winner |-> TRUE]

\* The auctions whose auction.ended, with a winner, is in a stretch of the topic.
EndedIn(first, last) == {a \in ConsumedAuctions : \E n \in first .. last : topic[n] = EndedWithWinner(a)}

\* How often a's auction.ended, with a winner, is among the first n messages.
Copies(a, n) == Cardinality({k \in 1 .. n : topic[k] = EndedWithWinner(a)})

\* A seller is credited once for each copy of auction.ended in the topic, and
\* each restart repeats a copy at most once: commits that fail and answers that
\* are lost never do.  Nothing tells a copy, or a repetition, from the first.
RestartsBoundCredits ==
    \A a \in ConsumedAuctions :
        credited[a] <= Copies(a, Len(topic)) * (1 + consumerFaults["restart"])

\* The seller of every auction that ended with a winner is paid, unless a
\* wallet operation failed or a new group skipped the event.
SellersPaid ==
    \A a \in ConsumedAuctions :
        a \in EndedIn(1, Len(topic)) ~>
            (credited[a] > 0 \/ consumerFaults["wallet"] > 0 \/ a \in EndedIn(1, start))

=============================================================================
