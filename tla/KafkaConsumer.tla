--------------------------- MODULE KafkaConsumer ----------------------------
(***************************************************************************)
(* The idempotent consumer and producer of pkg/kafka, on one partition.      *)
(*                                                                         *)
(* A consumer group session works through the partition: it looks the event *)
(* up in the Redis store of processed events, calls the handler with        *)
(* retries, sends what keeps failing to the dead-letter topic, records the  *)
(* event as processed and marks the offset, which is committed later.       *)
(*                                                                         *)
(* A rebalance cancels the context of the session; the loop of ConsumeClaim *)
(* ends only when the messages fetched before are used up, and the last     *)
(* marks are committed then.  A crash forgets the marks.  A member that is  *)
(* silent or slow for too long is fenced: another one gets the partition,   *)
(* and its own session goes on, without commits, until it finds out.  The   *)
(* consumer group and the brokers (Sarama) are external.                    *)
(***************************************************************************)
EXTENDS Naturals, Sequences, FiniteSets

CONSTANTS
    Events,
    Identified,     \* events with an event id, or none of them when there is no store
    Members,        \* members of the consumer group
    RetryCount,
    MaxLog,         \* bound on the messages of the partition
    MaxRedisErrors, \* bound on the commands to the store that fail and keys that expire
    MaxRebalances   \* bound on rebalances and crashes

ASSUME KafkaAssumption ==
    /\ {RetryCount, MaxLog, MaxRedisErrors, MaxRebalances} \subseteq Nat
    /\ Identified \subseteq Events

VARIABLES
    log,            \* the partition, a sequence of events
    committed,      \* committed offset of the group, NoOffset before the first commit
    session,        \* the session of each member with the partition
    fenced,         \* members whose session was given to another one
    processed,      \* processed:<group>:<event id>
    handled,        \* history: events whose handler succeeded
    repeated,       \* history: those it succeeded for more than once
    blind,          \* history: events handled without a look at the store, or not recorded there
    expired,        \* history: events whose key in the store expired
    overlapped,     \* history: events that two sessions worked on at once
    deadLetters,    \* offsets in the dead-letter topic
    undelivered,    \* history: offsets given up because that topic did not take them
    abandoned,      \* history: offsets left behind in a back-off when the session ended
    unseen,         \* history: offsets before the position of a group without a commit
    storeErrors,
    sessions        \* sessions ended so far

kafkaVars == <<log, committed, session, fenced, processed, handled, repeated, blind, expired,
               overlapped, deadLetters, undelivered, abandoned, unseen, storeErrors, sessions>>

NoOffset == 0
Offsets  == 1 .. MaxLog

KafkaTypeOK ==
    /\ log \in Seq(Events) /\ Len(log) <= MaxLog
    /\ {processed, handled, repeated, blind, expired, overlapped} \subseteq SUBSET Events
    /\ committed \in 0 .. MaxLog + 1
    /\ session \in [Members ->
           [pc : {"none", "fetch", "dedup", "handle", "backoff", "dlq", "mark", "ack"},
            next : 1 .. MaxLog + 1,      \* the message in work, or to fetch next
            marked : 0 .. MaxLog + 1,    \* offset to commit, 0 for none
            attempt : 0 .. RetryCount,
            live : BOOLEAN,              \* is the context of the session not cancelled?
            upto : 0 .. MaxLog]]         \* messages fetched when it was cancelled
    /\ fenced \subseteq Members
    /\ {deadLetters, undelivered, abandoned, unseen} \subseteq SUBSET Offsets
    /\ storeErrors \in 0 .. MaxRedisErrors
    /\ sessions \in 0 .. MaxRebalances

NoSession == [pc |-> "none", next |-> 1, marked |-> 0, attempt |-> 0, live |-> FALSE, upto |-> 0]

KafkaInit ==
    /\ log = <<>> /\ processed = {} /\ handled = {} /\ repeated = {}
    /\ blind = {} /\ expired = {} /\ overlapped = {}
    /\ committed = NoOffset
    /\ session = [m \in Members |-> NoSession] /\ fenced = {}
    /\ deadLetters = {} /\ undelivered = {} /\ abandoned = {} /\ unseen = {}
    /\ storeErrors = 0 /\ sessions = 0

effects == <<handled, repeated>>
group == <<committed, fenced, sessions>>
offsetHistory == <<deadLetters, undelivered, abandoned, unseen>>

Event(m) == log[session[m].next]

Holds(m) == session[m].pc # "none"

-----------------------------------------------------------------------------
\* Producer.Publish.  The broker may have the message although the caller gets an
\* error; a caller that tries again sends the same event, and nothing tells it from
\* a caller that did not fail.
Publish(e) ==
    /\ Len(log) < MaxLog
    /\ log' = Append(log, e)
    /\ UNCHANGED <<group, session, processed, effects, blind, expired, overlapped, offsetHistory,
                   storeErrors>>

\* Start: the member gets the partition, at the committed offset or, with none
\* yet, at the newest message (Offsets.Initial = OffsetNewest).
StartSession(m) ==
    /\ ~Holds(m)
    /\ \A n \in Members : Holds(n) => n \in fenced
    /\ session' = [session EXCEPT ![m] = [NoSession EXCEPT
           !.pc = "fetch", !.live = TRUE,
           !.next = IF committed = NoOffset THEN Len(log) + 1 ELSE committed]]
    /\ unseen' = IF committed = NoOffset THEN 1 .. Len(log) ELSE unseen
    /\ UNCHANGED <<log, group, processed, effects, blind, expired, overlapped, deadLetters,
                   undelivered, abandoned, storeErrors>>

\* ConsumeClaim: the next message, of those fetched before a cancellation too.
FetchMessage(m) ==
    /\ session[m].pc = "fetch"
    /\ session[m].next <= (IF session[m].live THEN Len(log) ELSE session[m].upto)
    /\ session' = [session EXCEPT ![m].pc = "dedup", ![m].attempt = 0]
    /\ UNCHANGED <<log, group, processed, effects, blind, expired, overlapped, offsetHistory,
                   storeErrors>>

\* A command to Redis fails; with a cancelled context it always does.
StoreFails(m) ==
    \/ ~session[m].live /\ UNCHANGED storeErrors
    \/ storeErrors < MaxRedisErrors /\ storeErrors' = storeErrors + 1

\* The store is not asked about an event without an id, or does not answer.
NoAnswer(m) == IF Event(m) \in Identified THEN StoreFails(m) ELSE UNCHANGED storeErrors

Answer(m) == Event(m) \in Identified /\ session[m].live /\ UNCHANGED storeErrors

\* The members between the look-up and the record of an event.
Working(e) == {m \in Members : session[m].pc \in {"handle", "backoff", "dlq", "mark"} /\ Event(m) = e}

\* IsDuplicate: a known event is marked and passed over; without the store the
\* event is processed anyway.
IsDuplicate(m) ==
    /\ session[m].pc = "dedup"
    /\ \/ /\ Answer(m) /\ Event(m) \in processed
          /\ session' = [session EXCEPT ![m].pc = "ack"]
          /\ UNCHANGED <<blind, overlapped>>
       \/ /\ \/ Answer(m) /\ Event(m) \notin processed /\ UNCHANGED blind
             \/ NoAnswer(m) /\ blind' = blind \cup {Event(m)}
          /\ session' = [session EXCEPT ![m].pc = "handle"]
          /\ overlapped' = IF Working(Event(m)) = {} THEN overlapped ELSE overlapped \cup {Event(m)}
    /\ UNCHANGED <<log, group, processed, effects, expired, offsetHistory>>

HandlerSucceeds(m) ==
    /\ session[m].pc = "handle"
    /\ handled' = handled \cup {Event(m)}
    /\ repeated' = repeated \cup (handled \cap {Event(m)})
    /\ session' = [session EXCEPT ![m].pc = "mark"]
    /\ UNCHANGED <<log, group, processed, blind, expired, overlapped, offsetHistory, storeErrors>>

HandlerFails(m) ==
    /\ session[m].pc = "handle"
    /\ session' = [session EXCEPT ![m].pc = IF session[m].attempt < RetryCount THEN "backoff" ELSE "dlq"]
    /\ UNCHANGED <<log, group, processed, effects, blind, expired, overlapped, offsetHistory,
                   storeErrors>>

\* The back-off ends and the handler is called again.
RetryHandler(m) ==
    /\ session[m].pc = "backoff"
    /\ session' = [session EXCEPT ![m].pc = "handle", ![m].attempt = @ + 1]
    /\ UNCHANGED <<log, group, processed, effects, blind, expired, overlapped, offsetHistory,
                   storeErrors>>

\* The context is cancelled in the back-off: processMessage returns without a
\* mark, and the loop goes on to the next message.
AbandonMessage(m) ==
    /\ session[m].pc = "backoff"
    /\ ~session[m].live
    /\ session' = [session EXCEPT ![m].pc = "fetch", ![m].next = @ + 1]
    /\ abandoned' = abandoned \cup {session[m].next}
    /\ UNCHANGED <<log, group, processed, effects, blind, expired, overlapped, deadLetters,
                   undelivered, unseen, storeErrors>>

\* Variant: a message that exhausted its retries is marked without a dead letter.
sendToDLQNothing(m) ==
    /\ session[m].pc = "dlq"
    /\ session' = [session EXCEPT ![m].pc = "ack"]
    /\ UNCHANGED <<log, group, processed, effects, blind, expired, overlapped, offsetHistory,
                   storeErrors>>

\* sendToDLQ, whose failure is logged only, as is that there is no topic for it.
sendToDLQ(m) ==
    /\ session[m].pc = "dlq"
    /\ \/ deadLetters' = deadLetters \cup {session[m].next} /\ UNCHANGED undelivered
       \/ undelivered' = undelivered \cup {session[m].next} /\ UNCHANGED deadLetters
    /\ session' = [session EXCEPT ![m].pc = "ack"]
    /\ UNCHANGED <<log, group, processed, effects, blind, expired, overlapped, abandoned, unseen,
                   storeErrors>>

\* Variant: the event is not recorded as processed.
MarkProcessedNot(m) ==
    /\ session[m].pc = "mark"
    /\ session' = [session EXCEPT ![m].pc = "ack"]
    /\ UNCHANGED <<log, group, processed, effects, blind, expired, overlapped, offsetHistory,
                   storeErrors>>

\* MarkProcessed, whose failure is ignored; the command may have been executed.
MarkProcessed(m) ==
    /\ session[m].pc = "mark"
    /\ \/ Answer(m) /\ processed' = processed \cup {Event(m)} /\ UNCHANGED blind
       \/ /\ NoAnswer(m)
          /\ processed' \in {processed, processed \cup ({Event(m)} \cap Identified)}
          /\ blind' = blind \cup {Event(m)}
    /\ session' = [session EXCEPT ![m].pc = "ack"]
    /\ UNCHANGED <<log, group, effects, expired, overlapped, offsetHistory>>

\* The time to live of a key, 7 days, is over.
KeyExpires(e) ==
    /\ e \in processed
    /\ storeErrors < MaxRedisErrors /\ storeErrors' = storeErrors + 1
    /\ processed' = processed \ {e}
    /\ expired' = expired \cup {e}
    /\ UNCHANGED <<log, group, session, effects, blind, overlapped, offsetHistory>>

MarkMessage(m) ==
    /\ session[m].pc = "ack"
    /\ session' = [session EXCEPT ![m].pc = "fetch", ![m].marked = session[m].next + 1, ![m].next = @ + 1]
    /\ UNCHANGED <<log, group, processed, effects, blind, expired, overlapped, offsetHistory,
                   storeErrors>>

\* Sarama commits the marked offset now and then; the brokers refuse a commit of
\* a fenced member.
AutoCommit(m) ==
    /\ Holds(m) /\ m \notin fenced
    /\ session[m].marked # 0 /\ session[m].marked # committed
    /\ committed' = session[m].marked
    /\ UNCHANGED <<log, session, fenced, processed, effects, blind, expired, overlapped,
                   offsetHistory, storeErrors, sessions>>

Disturbance == sessions < MaxRebalances /\ sessions' = sessions + 1

\* A rebalance, or Stop, cancels the context of the session; a fenced member
\* learns of it with its next heartbeat.
CancelSession(m) ==
    /\ Holds(m) /\ session[m].live
    /\ IF m \in fenced THEN UNCHANGED sessions ELSE Disturbance
    /\ session' = [session EXCEPT ![m].live = FALSE, ![m].upto = Len(log)]
    /\ UNCHANGED <<log, committed, fenced, processed, effects, blind, expired, overlapped,
                   offsetHistory, storeErrors>>

\* The group takes the partition from a member that sent no heartbeat for the
\* session time-out, or used up no claim within the rebalance time-out.
FenceMember(m) ==
    /\ Holds(m) /\ m \notin fenced
    /\ Disturbance
    /\ fenced' = fenced \cup {m}
    /\ UNCHANGED <<log, committed, session, processed, effects, blind, expired, overlapped,
                   offsetHistory, storeErrors>>

\* The claim is used up: the marks are committed and the partition is given up.
EndSession(m) ==
    /\ session[m].pc = "fetch" /\ ~session[m].live
    /\ session[m].next > session[m].upto
    /\ committed' = IF session[m].marked = 0 \/ m \in fenced THEN committed ELSE session[m].marked
    /\ session' = [session EXCEPT ![m] = NoSession]
    /\ fenced' = fenced \ {m}
    /\ UNCHANGED <<log, processed, effects, blind, expired, overlapped, offsetHistory, storeErrors,
                   sessions>>

\* The process dies and forgets its marks.
ConsumerDies(m) ==
    /\ Holds(m)
    /\ Disturbance
    /\ session' = [session EXCEPT ![m] = NoSession]
    /\ fenced' = fenced \ {m}
    /\ blind' = IF session[m].pc = "mark" THEN blind \cup {Event(m)} ELSE blind
    /\ UNCHANGED <<log, committed, processed, effects, expired, overlapped, offsetHistory,
                   storeErrors>>

\* processMessage and the loop around it.
Consume(m) ==
    \/ FetchMessage(m) \/ IsDuplicate(m) \/ HandlerSucceeds(m) \/ HandlerFails(m)
    \/ RetryHandler(m) \/ AbandonMessage(m) \/ sendToDLQ(m) \/ MarkProcessed(m) \/ MarkMessage(m)

KafkaNext ==
    \/ \E e \in Events : Publish(e) \/ KeyExpires(e)
    \/ \E m \in Members :
          \/ StartSession(m) \/ Consume(m) \/ AutoCommit(m)
          \/ CancelSession(m) \/ FenceMember(m) \/ EndSession(m) \/ ConsumerDies(m)

-----------------------------------------------------------------------------
\* Every message before the committed offset took effect or lies in the
\* dead-letter topic (processMessage: "DLQ handles failures").  It is lost for
\* good in three ways only: the dead-letter topic did not take it; the session
\* ended in its back-off and a later message of the same claim was marked; it was
\* published before the first commit of the group and a session that began
\* afterwards started at the newest message.
EventsAccounted ==
    committed # NoOffset =>
        \A o \in Offsets :
            (o < committed /\ o <= Len(log)) =>
                \/ log[o] \in handled
                \/ o \in deadLetters \cup undelivered \cup abandoned \cup unseen

\* However often an event is published, delivered and retried, its handler
\* succeeds once.  It succeeds again in four ways only: that very event was not
\* looked up or not recorded (it has no id, there is no store, Redis failed, the
\* session had been cancelled, or the process died between the two); its key
\* expired; or a fenced session and its successor had it in work at the same time.
EffectsOnce == repeated \subseteq blind \cup expired \cup overlapped
=============================================================================
