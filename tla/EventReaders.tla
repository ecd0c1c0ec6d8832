---------------------------- MODULE EventReaders ----------------------------
(***************************************************************************)
(* The services that only read events: notification-service, search-service  *)
(* and analytics-service.  They share one loop, FetchMessage, process,       *)
(* CommitMessages, and nothing else: a behaviour is one of them, the         *)
(* variable reader, on one partition of its topic, for one auction and one  *)
(* outbid user.                                                             *)
(*                                                                         *)
(* Processing a message is a sequence of statements on Redis, PostgreSQL or *)
(* Elasticsearch, each of which may fail without stopping the others, and   *)
(* the process may die between any two.                                     *)
(*                                                                         *)
(* Every pod runs the loop; the consumer group gives the partition to one   *)
(* of them.  When it gives it to another one, at the committed offset, the  *)
(* loop that had it finishes the message in hand all the same, and its      *)
(* e-mails go on.  The group (kafka-go) is external.                        *)
(***************************************************************************)
EXTENDS Naturals, Sequences, FiniteSets

CONSTANTS
    Pods,           \* of the service
    NoPod,
    MaxTopic,       \* bound on the messages of the topic
    MaxLosses,      \* bound on rebalances and deaths of a process
    MaxFailures     \* bound on statements that fail and keys that expire

ASSUME ReadersAssumption ==
    /\ {MaxTopic, MaxLosses, MaxFailures} \subseteq Nat
    /\ NoPod \notin Pods

maxRetries == 3     \* of an e-mail

VARIABLES
    reader,         \* the service
    topic,          \* the kinds of the messages, in order
    owner,          \* the pod that has the partition, NoPod when none has
    position,       \* the message that its FetchMessage returns next
    loop,           \* pod -> the message it works on, and what is left to do for it
    committedTo,    \* committed offset of the group, 0 before the first commit
    processedIDs,   \* notif:processed:<event id>
    rows,           \* event_id of the rows of the table notifications
    document,       \* the auction in the search index
    mail,           \* the goroutines in SendWithRetry
    done,           \* history: <<message, statement>> that took effect
    again,          \* history: those that did so more than once
    failed,         \* history: those that returned an error
    passedOver,     \* history: messages taken for a repetition
    replayed,       \* history: messages fetched, and not committed when the partition was given out again
    together,       \* history: messages that two pods worked on at once
    skipped,        \* history: messages before the position of a group without a commit
    losses, failures

readersVars == <<reader, topic, owner, position, loop, committedTo, processedIDs, rows, document, mail, done,
                 again, failed, passedOver, replayed, together, skipped, losses, failures>>

Readers == {"notification", "search", "analytics"}

\* The keys of the messages; an auction.ended without a winner is "auction.unsold",
\* and a message whose value cannot be decoded is "malformed".
Kinds == {"bid.placed", "bid.outbid", "auction.won", "auction.ended", "auction.unsold",
          "auction.created", "auction.deleted", "payment.settled", "user.registered", "malformed"}

\* The statements of a handler behind its check: repository.Create, NotifyUser, the
\* e-mail in a goroutine of its own, MarkProcessed.
HandleBidPlaced == <<"create", "push", "mark">>
HandleOutbid == <<"create", "push", "email", "mark">>
HandleAuctionWon == <<"create", "push", "email", "mark">>
HandleAuctionEnded(hasWinner) ==
    <<"createSeller", "pushSeller">> \o (IF hasWinner THEN <<"create", "push">> ELSE <<>>) \o <<"mark">>

\* What Run does with a message that dispatch returns an error for.
DeadLetter == <<"deadLetter">>

\* Of dispatch; only a message that cannot be decoded is an error.
NotificationSteps(kind) ==
    CASE kind = "bid.placed"     -> HandleBidPlaced
      [] kind = "bid.outbid"     -> HandleOutbid
      [] kind = "auction.won"    -> HandleAuctionWon
      [] kind = "auction.ended"  -> HandleAuctionEnded(TRUE)
      [] kind = "auction.unsold" -> HandleAuctionEnded(FALSE)
      [] kind = "malformed"      -> DeadLetter
      [] OTHER                   -> <<>>

\* Of IndexConsumer.processMessage (auction.updated is handled like auction.created);
\* a bid changes nothing in the index.
SearchSteps(kind) ==
    CASE kind = "auction.created"                    -> <<"index">>
      [] kind \in {"auction.ended", "auction.unsold"} -> <<"indexEnded">>
      [] kind = "auction.deleted"                    -> <<"delete">>
      [] OTHER                                       -> <<>>

\* Of the analytics consumer's process.
AnalyticsSteps(kind) ==
    CASE kind = "bid.placed"      -> <<"bidsToday", "bidderActivity", "activeUsers", "auctionBids">>
      [] kind = "auction.created" -> <<"categoryActivity", "dailyAuctions">>
      [] kind = "payment.settled" -> <<"revenue", "sellerRevenue", "recordRevenue">>
      [] kind = "user.registered" -> <<"newUsers">>
      [] OTHER                    -> <<>>

StepsOf(kind) ==
    CASE reader = "notification" -> NotificationSteps(kind)
      [] reader = "search"       -> SearchSteps(kind)
      [] reader = "analytics"    -> AnalyticsSteps(kind)

\* The kinds that make a difference to the reader, and one that does not.
KindsFor == {k \in Kinds : StepsOf(k) # <<>>} \cup {"malformed"}

\* The key of the idempotency check: a bid has an id of its own, the other events
\* are told apart by the auction and the user only.
eventID(o) ==
    CASE topic[o] = "bid.placed"     -> <<"bid.placed", o>>
      [] topic[o] = "auction.unsold" -> <<"auction.ended", 0>>
      [] OTHER                       -> <<topic[o], 0>>

Messages == 1 .. MaxTopic

\* A loop in FetchMessage.
Idle == [phase |-> "fetch", at |-> 0, statements |-> <<>>, run |-> 0]

ReadersTypeOK ==
    /\ reader \in Readers
    /\ topic \in Seq(Kinds) /\ Len(topic) <= MaxTopic
    /\ owner \in Pods \cup {NoPod}
    /\ position \in 0 .. MaxTopic + 1
    /\ \A p \in Pods :
          /\ loop[p].phase \in {"fetch", "check", "run", "commit"}
          /\ loop[p].at \in 0 .. MaxTopic /\ loop[p].run \in 0 .. MaxLosses
    /\ committedTo \in 0 .. MaxTopic + 1
    /\ document \in {"none", "full", "ended"}
    /\ mail \subseteq [pod : Pods, message : Messages, run : 0 .. MaxLosses, attempt : 0 .. maxRetries - 1]
    /\ again \subseteq done
    /\ {passedOver, replayed, together, skipped} \subseteq SUBSET Messages
    /\ losses \in 0 .. MaxLosses /\ failures \in 0 .. MaxFailures

ReadersInit ==
    /\ reader \in Readers
    /\ topic = <<>>
    /\ owner = NoPod /\ position = 0 /\ committedTo = 0
    /\ loop = [p \in Pods |-> Idle]
    /\ processedIDs = {} /\ rows = {} /\ document = "none" /\ mail = {}
    /\ done = {} /\ again = {} /\ failed = {}
    /\ passedOver = {} /\ replayed = {} /\ together = {} /\ skipped = {}
    /\ losses = 0 /\ failures = 0

partition == <<reader, topic, owner, position>>
stores == <<processedIDs, rows, document, mail>>
effected == <<done, again>>
delivery == <<passedOver, replayed, together, skipped>>

-----------------------------------------------------------------------------
Produce(kind) ==
    /\ Len(topic) < MaxTopic
    /\ topic' = Append(topic, kind)
    /\ UNCHANGED <<reader, owner, position, loop, committedTo, stores, effected, failed, delivery, losses,
                   failures>>

\* The group loses its order: a bounded number of times.
Loss == losses < MaxLosses /\ losses' = losses + 1

\* Run, or a rebalance: the pod reads from the committed offset, or with none yet
\* from the newest message (StartOffset: LastOffset).
AssignPartition(p) ==
    /\ IF owner = NoPod THEN UNCHANGED losses ELSE Loss
    /\ owner' = p
    /\ position' = IF committedTo = 0 THEN Len(topic) + 1 ELSE committedTo
    /\ skipped' = IF committedTo = 0 THEN 1 .. Len(topic) ELSE skipped
    /\ replayed' = IF committedTo = 0 THEN replayed
                   ELSE replayed \cup {o \in Messages : committedTo <= o /\ o < position}
    /\ UNCHANGED <<reader, topic, loop, committedTo, stores, effected, failed, passedOver, together, failures>>

\* The branch of dispatch or process for message o.
Begin(o) ==
    LET steps == StepsOf(topic[o]) IN
    [at |-> o, statements |-> steps, run |-> losses,
     phase |-> IF steps = <<>> THEN "commit" ELSE IF steps[Len(steps)] = "mark" THEN "check" ELSE "run"]

WorkingOn(o) == {p \in Pods : loop[p].phase # "fetch" /\ loop[p].at = o}

\* Variant: the offset is committed before the message is processed.
FetchCommits(p) ==
    /\ owner = p /\ loop[p].phase = "fetch"
    /\ position <= Len(topic)
    /\ loop' = [loop EXCEPT ![p] = Begin(position)]
    /\ together' = IF WorkingOn(position) = {} THEN together ELSE together \cup {position}
    /\ position' = position + 1
    /\ committedTo' = position + 1
    /\ UNCHANGED <<reader, topic, owner, stores, effected, failed, passedOver, replayed, skipped, losses,
                   failures>>

\* FetchMessage.
Fetch(p) ==
    /\ owner = p /\ loop[p].phase = "fetch"
    /\ position <= Len(topic)
    /\ loop' = [loop EXCEPT ![p] = Begin(position)]
    /\ together' = IF WorkingOn(position) = {} THEN together ELSE together \cup {position}
    /\ position' = position + 1
    /\ UNCHANGED <<reader, topic, owner, committedTo, stores, effected, failed, passedOver, replayed, skipped,
                   losses, failures>>

StoreError == failures < MaxFailures /\ failures' = failures + 1

\* Variant: the check finds nothing.
IsProcessedNever(p) ==
    /\ loop[p].phase = "check"
    /\ loop' = [loop EXCEPT ![p].phase = "run"]
    /\ UNCHANGED <<partition, committedTo, stores, effected, failed, delivery, losses, failures>>

\* IsProcessed; an error of Redis reads as "no".
IsProcessed(p) ==
    LET id == eventID(loop[p].at) IN
    /\ loop[p].phase = "check"
    /\ \/ /\ id \in processedIDs
          /\ loop' = [loop EXCEPT ![p].phase = "commit", ![p].statements = <<>>]
          /\ passedOver' = passedOver \cup {loop[p].at}
          /\ UNCHANGED failures
       \/ /\ \/ id \notin processedIDs /\ UNCHANGED failures
             \/ id \in processedIDs /\ StoreError
          /\ loop' = [loop EXCEPT ![p].phase = "run"]
          /\ UNCHANGED passedOver
    /\ UNCHANGED <<partition, committedTo, stores, effected, failed, replayed, together, skipped, losses>>

\* The loop goes on behind the statement at hand.
AfterStatement(p) ==
    loop' = [loop EXCEPT ![p].statements = Tail(@),
                         ![p].phase = IF Tail(loop[p].statements) = <<>> THEN "commit" ELSE "run"]

\* The row a statement inserts, if any: the two rows of an auction.ended have event
\* ids of their own.
RowOf(o, statement) ==
    IF statement \in {"create", "createSeller"} THEN {<<statement, eventID(o)>>} ELSE {}

\* A second INSERT of a row is not a repeated effect, and not an error.
Repeated(o, statement) == IF RowOf(o, statement) \cap rows # {} THEN {} ELSE done \cap {<<o, statement>>}

\* The effect of the statement at hand on the stores: repository.Create (ON CONFLICT
\* DO NOTHING), Set of the processed key, IndexDocument (which replaces the
\* document), DeleteDocument, the start of SendWithRetry; the other ones push or
\* increment.
Effect(p) ==
    LET o == loop[p].at
        statement == Head(loop[p].statements) IN
    /\ rows' = rows \cup RowOf(o, statement)
    /\ processedIDs' = processedIDs \cup (IF statement = "mark" THEN {eventID(o)} ELSE {})
    /\ document' = CASE statement = "index"      -> "full"
                     [] statement = "indexEnded" -> "ended"
                     [] statement = "delete"     -> "none"
                     [] OTHER                    -> document
    /\ mail' = mail \cup (IF statement = "email"
                          THEN {[pod |-> p, message |-> o, run |-> loop[p].run, attempt |-> 0]} ELSE {})
    /\ done' = done \cup {<<o, statement>>}
    /\ again' = again \cup Repeated(o, statement)

Statement(p) ==
    /\ loop[p].phase = "run"
    /\ Effect(p)
    /\ AfterStatement(p)
    /\ UNCHANGED <<partition, committedTo, failed, delivery, losses, failures>>

\* Its error is logged or dropped, and the next one runs; the store may have
\* executed it all the same.
StatementFails(p) ==
    /\ loop[p].phase = "run"
    /\ Head(loop[p].statements) \notin {"push", "pushSeller", "email"}
    /\ StoreError
    /\ failed' = failed \cup {<<loop[p].at, Head(loop[p].statements)>>}
    /\ Effect(p) \/ UNCHANGED <<stores, effected>>
    /\ AfterStatement(p)
    /\ UNCHANGED <<partition, committedTo, delivery, losses>>

\* CommitMessages; after an error the loop goes on with the next message all the
\* same.  The commit of a pod that has lost the partition meanwhile is refused,
\* or taken when the pod has joined the group again.
CommitMessages(p) ==
    /\ loop[p].phase = "commit"
    /\ \/ committedTo' = loop[p].at + 1 /\ UNCHANGED failures
       \/ UNCHANGED committedTo /\ IF owner = p THEN StoreError ELSE UNCHANGED failures
    /\ loop' = [loop EXCEPT ![p] = Idle]
    /\ UNCHANGED <<partition, stores, effected, failed, delivery, losses>>

Sent(o) ==
    /\ done' = done \cup {<<o, "mailed">>}
    /\ again' = again \cup (done \cap {<<o, "mailed">>})

\* SendWithRetry, in a goroutine of its own: one attempt.  An attempt that returns
\* an error may have sent the e-mail.
SendMail(g) ==
    /\ \/ Sent(g.message) /\ mail' = mail \ {g} /\ UNCHANGED <<failed, failures>>
       \/ /\ StoreError
          /\ failed' = failed \cup {<<g.message, "mailed">>}
          /\ mail' = (mail \ {g}) \cup
                (IF g.attempt + 1 < maxRetries THEN {[g EXCEPT !.attempt = @ + 1]} ELSE {})
          /\ Sent(g.message) \/ UNCHANGED effected
    /\ UNCHANGED <<partition, loop, committedTo, processedIDs, rows, document, delivery, losses>>

\* The process of a pod dies: its e-mails on their way are forgotten.
ReaderDies(p) ==
    /\ Loss
    /\ owner' = IF owner = p THEN NoPod ELSE owner
    /\ loop' = [loop EXCEPT ![p] = Idle]
    /\ mail' = {g \in mail : g.pod # p}
    /\ UNCHANGED <<reader, topic, position, committedTo, processedIDs, rows, document, effected, failed,
                   delivery, failures>>

\* The 24 hours of a processed key (processedTTL) are over.
ProcessedExpires(id) ==
    /\ id \in processedIDs
    /\ StoreError
    /\ processedIDs' = processedIDs \ {id}
    /\ UNCHANGED <<partition, loop, committedTo, rows, document, mail, effected, failed, delivery, losses>>

ReadersNext ==
    \/ \E kind \in KindsFor : Produce(kind)
    \/ \E p \in Pods :
          \/ AssignPartition(p) \/ Fetch(p) \/ IsProcessed(p) \/ Statement(p) \/ StatementFails(p)
          \/ CommitMessages(p) \/ ReaderDies(p)
    \/ \E g \in mail : SendMail(g)
    \/ \E id \in processedIDs : ProcessedExpires(id)

-----------------------------------------------------------------------------
\* "Messages that fail after all retries end up here - never lost" (dead_letter.go).
\* What holds of the three loops: for a message before the committed offset, each
\* statement took effect or failed on its own, without a dead letter; or the
\* message was taken for a repetition of one with the same event id (as the second
\* time that a user is outbid in an auction is); or it was there before the first
\* commit of the group.
CommittedEventsApplied ==
    \A o \in 1 .. Len(topic) :
        (o < committedTo /\ o \notin skipped \cup passedOver) =>
            \A i \in DOMAIN StepsOf(topic[o]) :
                <<o, StepsOf(topic[o])[i]>> \in done \cup failed

\* A counter, a push or an e-mail of one event is made once, unless the message
\* was fetched and not committed when the group gave the partition out again: a
\* process died, there was a rebalance, or a commit failed before one of them.
\* (An e-mail is also sent twice when an attempt that sent it returned an error.)
\* Even then a row is not inserted twice, and a notification that got as far as
\* its mark is not made again unless Redis failed, the mark expired, or two pods
\* worked on the message at once.
AppliedOnce ==
    \A pair \in again :
        /\ pair[1] \in replayed \/ (pair[2] = "mailed" /\ pair \in failed)
        /\ pair[2] \notin {"create", "createSeller"}
        /\ pair[2] = "mark" => failures > 0 \/ pair[1] \in together
=============================================================================
