------------------------------- MODULE Outbox -------------------------------
(***************************************************************************)
(* The transactional outbox of the payment service: events inserted with    *)
(* the business transaction (repository/outbox_repository.go), polled and   *)
(* published by service/outbox_worker.go and, with the same loop, by        *)
(* outbox/publisher.go over outbox/repository.go.                           *)
(*                                                                         *)
(* The SELECT ... FOR UPDATE SKIP LOCKED runs on the pool, outside any      *)
(* transaction: its row locks are gone when it returns.  Several replicas   *)
(* of the service each run a worker.                                        *)
(***************************************************************************)
EXTENDS Integers, Sequences, SequencesExt, FiniteSets

CONSTANTS
    Events,      \* rows of outbox_events
    Aggregates,  \* aggregate ids
    Workers,     \* replicas running the polling loop
    Partitions,  \* partitions of the topic
    BatchSize,   \* LIMIT of the poll (50)
    MaxRetries,  \* MaxOutboxRetries (10)
    MaxFaults    \* bound on the failures and crashes of one behaviour

ASSUME OutboxAssumption ==
    /\ BatchSize \in Nat \ {0}
    /\ MaxRetries \in Nat \ {0}
    /\ MaxFaults \in Nat
    /\ Partitions # {}
    /\ IsFiniteSet(Workers)

VARIABLES
    row,        \* outbox_events: where each row is
    aggregate,  \* aggregate_id of each row
    retries,    \* retry_count of each row
    order,      \* the rows by created_at
    batch,      \* the events a worker still has to work through
    pc,         \* where each worker is
    log,        \* the topic: a sequence of events per partition
    faults      \* failures and crashes so far

vars == <<row, aggregate, retries, order, batch, pc, log, faults>>

-----------------------------------------------------------------------------
\* "open": written by a business transaction that has not committed yet.
RowStates == {"none", "open", "rolledBack", "unpublished", "published"}

TypeOK ==
    /\ row \in [Events -> RowStates]
    /\ aggregate \in [Events -> Aggregates]
    /\ retries \in [Events -> 0 .. MaxFaults]
    /\ order \in Seq(Events) /\ IsInjective(order)
    /\ batch \in [Workers -> Seq(Events)]
    /\ pc \in [Workers -> {"idle", "publish", "mark", "fail"}]
    /\ log \in [Partitions -> Seq(Events)]
    /\ faults \in 0 .. MaxFaults

Init ==
    /\ row = [e \in Events |-> "none"]
    /\ aggregate \in [Events -> Aggregates]
    /\ retries = [e \in Events |-> 0]
    /\ order = << >>
    /\ batch = [w \in Workers |-> << >>]
    /\ pc = [w \in Workers |-> "idle"]
    /\ log = [p \in Partitions |-> << >>]
    /\ faults = 0

Fault == faults < MaxFaults /\ faults' = faults + 1

-----------------------------------------------------------------------------
\* InsertOutboxEvent inside the business transaction, which holds the lock of
\* the wallet or hold row that is the event's aggregate, and commits or not.
InsertOutboxEvent(e) ==
    /\ row[e] = "none"
    /\ \A f \in Events : row[f] = "open" => aggregate[f] # aggregate[e]
    /\ row' = [row EXCEPT ![e] = "open"]
    /\ order' = Append(order, e)
    /\ UNCHANGED <<aggregate, retries, batch, pc, log, faults>>

EndBusinessTx(e) ==
    /\ row[e] = "open"
    /\ \E end \in {"unpublished", "rolledBack"} : row' = [row EXCEPT ![e] = end]
    /\ UNCHANGED <<aggregate, retries, order, batch, pc, log, faults>>

\* The elements of s that are in T, in their order.
Kept(s, T) ==
    LET kept[n \in 0 .. Len(s)] ==
            IF n = 0 THEN << >>
            ELSE IF s[n] \in T THEN Append(kept[n - 1], s[n]) ELSE kept[n - 1]
    IN  kept[Len(s)]

\* Variant: a poll that reads rows of open transactions.
PendingDirty ==
    Kept(order, {e \in Events : row[e] \in {"open", "unpublished"} /\ retries[e] < MaxRetries})

\* WHERE published_at IS NULL AND retry_count < max
Due == {e \in Events : row[e] = "unpublished" /\ retries[e] < MaxRetries}

\* ORDER BY created_at, and LIMIT n below
Pending == Kept(order, Due)

FirstOf(s) == SubSeq(s, 1, IF Len(s) < BatchSize THEN Len(s) ELSE BatchSize)

\* A tick: GetUnprocessedEvents.  No lock survives it.
Poll(w) ==
    /\ pc[w] = "idle"
    /\ Pending # << >>
    /\ batch' = [batch EXCEPT ![w] = FirstOf(Pending)]
    /\ pc' = [pc EXCEPT ![w] = "publish"]
    /\ UNCHANGED <<row, aggregate, retries, order, log, faults>>

\* The loop goes on with the next event of the batch, or waits for a tick.
NextEvent(w) ==
    /\ batch' = [batch EXCEPT ![w] = Tail(@)]
    /\ pc' = [pc EXCEPT ![w] = IF Len(batch[w]) > 1 THEN "publish" ELSE "idle"]

\* WriteMessages.  The writer's LeastBytes balancer picks the partition and
\* does not look at the key.
WriteMessages(w) ==
    \E p \in Partitions : log' = [log EXCEPT ![p] = Append(@, Head(batch[w]))]

PublishEvent(w) ==
    /\ pc[w] = "publish"
    /\ WriteMessages(w)
    /\ pc' = [pc EXCEPT ![w] = "mark"]
    /\ UNCHANGED <<row, aggregate, retries, order, batch, faults>>

\* Variant: an event is marked as published although Kafka refused it.
PublishFailsMarked(w) ==
    /\ pc[w] = "publish"
    /\ Fault
    /\ pc' = [pc EXCEPT ![w] = "mark"]
    /\ UNCHANGED <<row, aggregate, retries, order, batch, log>>

\* The write fails, or its acknowledgement is lost.
PublishFails(w) ==
    /\ pc[w] = "publish"
    /\ Fault
    /\ WriteMessages(w) \/ UNCHANGED log
    /\ pc' = [pc EXCEPT ![w] = "fail"]
    /\ UNCHANGED <<row, aggregate, retries, order, batch>>

\* Variant: the worker forgets to mark what it published.
MarkPublishedForgets(w) ==
    /\ pc[w] = "mark"
    /\ NextEvent(w)
    /\ UNCHANGED <<row, aggregate, retries, order, log, faults>>

\* UPDATE outbox_events SET published_at.
MarkPublished(w) ==
    /\ pc[w] = "mark"
    /\ row' = [row EXCEPT ![Head(batch[w])] = "published"]
    /\ NextEvent(w)
    /\ UNCHANGED <<aggregate, retries, order, log, faults>>

\* The UPDATE of published_at or of retry_count fails: the loop goes on.
UpdateFails(w) ==
    /\ pc[w] \in {"mark", "fail"}
    /\ Fault
    /\ NextEvent(w)
    /\ UNCHANGED <<row, aggregate, retries, order, log>>

\* UPDATE outbox_events SET retry_count = retry_count + 1, then the next event.
RecordFailure(w) ==
    /\ pc[w] = "fail"
    /\ retries' = [retries EXCEPT ![Head(batch[w])] = @ + 1]
    /\ NextEvent(w)
    /\ UNCHANGED <<row, aggregate, order, log, faults>>

\* The replica restarts: the rest of its batch waits for the next poll.
Crash(w) ==
    /\ pc[w] # "idle"
    /\ Fault
    /\ batch' = [batch EXCEPT ![w] = << >>]
    /\ pc' = [pc EXCEPT ![w] = "idle"]
    /\ UNCHANGED <<row, aggregate, retries, order, log>>

Work(w) == Poll(w) \/ PublishEvent(w) \/ MarkPublished(w) \/ RecordFailure(w)

Next ==
    \/ \E e \in Events : InsertOutboxEvent(e) \/ EndBusinessTx(e)
    \/ \E w \in Workers : Work(w) \/ PublishFails(w) \/ UpdateFails(w) \/ Crash(w)

Spec == Init /\ [][Next]_vars

\* The ticker of every worker keeps ticking and its loop runs on.
FairSpec == Spec /\ \A w \in Workers : WF_vars(Work(w))

-----------------------------------------------------------------------------
Committed == {e \in Events : row[e] \in {"unpublished", "published"}}

Delivered == UNION {ToSet(log[p]) : p \in Partitions}

Copies(e) ==
    Cardinality(UNION {{<<p, n>> : n \in {m \in 1 .. Len(log[p]) : log[p][m] = e}} : p \in Partitions})

Promise == INSTANCE EventDelivery WITH committed <- Committed, delivered <- Delivered

\* The outbox implements the safety half of the promise: only events whose
\* business transaction committed reach Kafka, whatever workers fail or crash.
OutboxImplementsDelivery == Promise!Safety

\* FOR UPDATE SKIP LOCKED outside a transaction keeps no replica from an event
\* another one is publishing, but each replica publishes it at most once, and
\* again only after a fault.
DuplicatesBounded == \A e \in Events : Copies(e) <= Cardinality(Workers) + faults

\* Every committed event is delivered, unless it used up its retries: the poll
\* never returns it again.
EventuallyDelivered ==
    \A e \in Events : e \in Committed ~> (e \in Delivered \/ retries[e] >= MaxRetries)
=============================================================================
