-------------------------- MODULE AuctionLifecycle --------------------------
(***************************************************************************)
(* The auction service: its HTTP operations Create, Update and Delete       *)
(* (auction-service/internal/service/auction_service.go) and the scheduler  *)
(* that every pod runs (internal/scheduler/scheduler.go), over the auctions *)
(* table (internal/repository/auction_repository.go), the Redis lock        *)
(* lock:auction_scheduler (internal/redis/cache.go) and the Kafka topic.    *)
(*                                                                         *)
(* A tick reads a list of auctions outside any transaction (the FOR UPDATE  *)
(* SKIP LOCKED of the query ends with it) and then writes each auction with *)
(* an UPDATE that does not look at its state.  Only the lock, a SETNX with  *)
(* a TTL and a DEL without an owner, keeps pods apart.                      *)
(*                                                                         *)
(* Left out: the Redis copy of an auction, which no operation here reads,   *)
(* and the events auction.created and auction.deleted, which no property    *)
(* is about.                                                                *)
(***************************************************************************)
EXTENDS Integers, FiniteSets, Sequences

CONSTANTS
    Auctions,        \* ids of auctions
    Pods,            \* replicas of the service
    MaxBid,          \* bids are amounts of 1 .. MaxBid
    Reserves,        \* reserve prices sellers ask for
    MaxEvents,       \* bound on the events one behaviour publishes
    LifeFaultKinds,  \* what may go wrong: see LifeFault
    MaxLifeFaults,   \* bound on the faults of one behaviour
    None             \* no pod, no auction

ASSUME LifecycleAssumption ==
    /\ MaxBid \in Nat \ {0}
    /\ Reserves \subseteq Nat /\ Reserves # {}
    /\ MaxEvents \in Nat
    /\ LifeFaultKinds \subseteq {"read", "write", "ack", "publish", "retry", "unlock", "crash", "slow"}
    /\ MaxLifeFaults \in Nat
    /\ None \notin Auctions \cup Pods

VARIABLES
    clock,         \* each auction's time: before start_time, before end_time, after
    rows,          \* the auctions table
    top,           \* the highest bid of each auction in the bids table, 0 for none
    tickLock,      \* the scheduler lock's key; whose SETNX made it is history
    tickPc,        \* where each pod's tick is
    list,          \* the rows a pod still has to work through
    found,         \* what endAuction decided: the winning bid, 0 for none
    auctionTopic,  \* the events auction.started and auction.ended
    editing,       \* the auctions an Update has read and not yet written
    lifeFaults     \* faults so far: how many, and of which kinds

lifeVars == <<clock, rows, top, tickLock, tickPc, list, found, auctionTopic, editing, lifeFaults>>

-----------------------------------------------------------------------------
\* winner: the amount of the winning bid (its bidder is winner_id), 0 for none.
Row == [id : Auctions, state : {"none", "scheduled", "active", "ended"}, deleted : BOOLEAN,
        reserve : Reserves \cup {0}, winner : 0 .. MaxBid]

Event == [type : {"started", "ended"}, auction : Auctions, winner : 0 .. MaxBid]

TickLabels == {"idle", "scheduled", "activate", "announceStart", "expired", "end", "write",
           "announceEnd", "unlock"}

LifeTypeOK ==
    /\ clock \in [Auctions -> {"before", "running", "over"}]
    /\ rows \in [Auctions -> Row]
    /\ top \in [Auctions -> 0 .. MaxBid]
    /\ tickLock \in Pods \cup {None}
    /\ tickPc \in [Pods -> TickLabels]
    /\ list \in [Pods -> SUBSET Row]
    /\ found \in [Pods -> [row : Row \cup {None}, winner : 0 .. MaxBid]]
    /\ auctionTopic \in Seq(Event)
    /\ editing \subseteq Auctions
    /\ lifeFaults \in [count : 0 .. MaxLifeFaults, kinds : SUBSET LifeFaultKinds]

Nothing == [row |-> None, winner |-> 0]

LifeInit ==
    /\ clock \in [Auctions -> {"before", "running"}]
    /\ rows = [a \in Auctions |-> [id |-> a, state |-> "none", deleted |-> FALSE,
                                   reserve |-> 0, winner |-> 0]]
    /\ top = [a \in Auctions |-> 0]
    /\ tickLock = None
    /\ tickPc = [p \in Pods |-> "idle"]
    /\ list = [p \in Pods |-> {}]
    /\ found = [p \in Pods |-> Nothing]
    /\ auctionTopic = << >>
    /\ editing = {}
    /\ lifeFaults = [count |-> 0, kinds |-> {}]

TickGoto(p, label) == tickPc' = [tickPc EXCEPT ![p] = label]

\* kind: "read", "write" - a query or an UPDATE fails; "ack" - the UPDATE happens
\* and its answer is lost; "publish" - the event is lost; "retry" - the producer
\* writes it again; "unlock" - the DEL fails; "crash" - the pod dies; "slow" -
\* the lock's TTL passes during the tick of its holder.
LifeFault(kind) ==
    /\ kind \in LifeFaultKinds
    /\ lifeFaults.count < MaxLifeFaults
    /\ lifeFaults' = [count |-> lifeFaults.count + 1, kinds |-> lifeFaults.kinds \cup {kind}]

NoLifeFault == UNCHANGED lifeFaults

-----------------------------------------------------------------------------
(* The HTTP operations, the bidders and the clock *)

\* Create: scheduled, or active when start_time has passed; end_time has not.
Create(a, reserve) ==
    /\ rows[a].state = "none"
    /\ clock[a] # "over"
    /\ rows' = [rows EXCEPT ![a].reserve = reserve,
                            ![a].state = IF clock[a] = "before" THEN "scheduled" ELSE "active"]
    /\ UNCHANGED <<clock, top, tickLock, tickPc, list, found, auctionTopic, editing, lifeFaults>>

Visible(a) == rows[a].state # "none" /\ ~rows[a].deleted

\* Update reads the row and checks its state (ErrAlreadyStarted) ...
UpdateRead(a) ==
    /\ Visible(a)
    /\ rows[a].state = "scheduled"
    /\ editing' = editing \cup {a}
    /\ UNCHANGED <<clock, rows, top, tickLock, tickPc, list, found, auctionTopic, lifeFaults>>

\* ... and writes it later, whatever its state has become.  A request without
\* a reserve price writes the one that was read.
UpdateWrite(a, reserve) ==
    /\ a \in editing
    /\ editing' = editing \ {a}
    /\ rows' = IF rows[a].deleted THEN rows ELSE [rows EXCEPT ![a].reserve = reserve]
    /\ UNCHANGED <<clock, top, tickLock, tickPc, list, found, auctionTopic, lifeFaults>>

\* Delete: a soft delete in any state.
Delete(a) ==
    /\ Visible(a)
    /\ rows' = [rows EXCEPT ![a].deleted = TRUE]
    /\ UNCHANGED <<clock, top, tickLock, tickPc, list, found, auctionTopic, editing, lifeFaults>>

\* The bid service accepts a higher bid on an active auction, also after its
\* end_time as long as nobody has ended it.
BidPlaced(a, amount) ==
    /\ Visible(a)
    /\ rows[a].state = "active"
    /\ amount > top[a]
    /\ top' = [top EXCEPT ![a] = amount]
    /\ UNCHANGED <<clock, rows, tickLock, tickPc, list, found, auctionTopic, editing, lifeFaults>>

TimePasses(a) ==
    /\ clock[a] # "over"
    /\ rows[a].state # "none"
    /\ clock' = [clock EXCEPT ![a] = IF @ = "before" THEN "running" ELSE "over"]
    /\ UNCHANGED <<rows, top, tickLock, tickPc, list, found, auctionTopic, editing, lifeFaults>>

-----------------------------------------------------------------------------
(* tick *)

\* AcquireSchedulerLock; a pod that finds the key skips its tick.
AcquireLock(p) ==
    /\ tickPc[p] = "idle"
    /\ tickLock = None
    /\ tickLock' = p
    /\ TickGoto(p, "scheduled")
    /\ UNCHANGED <<clock, rows, top, list, found, auctionTopic, editing, lifeFaults>>

RowsWhere(state, times) ==
    {rows[a] : a \in {b \in Auctions : /\ rows[b].state = state
                                       /\ clock[b] \in times
                                       /\ ~rows[b].deleted}}

\* A query returns its rows, or fails and the loop over them is skipped.
FetchRows(p, state, times, loop) ==
    /\ \/ NoLifeFault /\ list' = [list EXCEPT ![p] = RowsWhere(state, times)]
       \/ LifeFault("read") /\ list' = [list EXCEPT ![p] = {}]
    /\ TickGoto(p, loop)
    /\ UNCHANGED <<clock, rows, top, tickLock, found, auctionTopic, editing>>

GetScheduledToActivate(p) ==
    tickPc[p] = "scheduled" /\ FetchRows(p, "scheduled", {"running", "over"}, "activate")

GetExpiredActive(p) ==
    tickPc[p] = "expired" /\ FetchRows(p, "active", {"over"}, "end")

\* The head of a loop over the list: the next row, or on to what follows.
NextRow(p, row) ==
    /\ list' = [list EXCEPT ![p] = @ \ {row}]
    /\ found' = [found EXCEPT ![p] = [Nothing EXCEPT !.row = row]]

LoopEnds(p, here, next) ==
    /\ tickPc[p] = here
    /\ list[p] = {}
    /\ TickGoto(p, next)
    /\ NoLifeFault
    /\ UNCHANGED <<clock, rows, top, tickLock, list, found, auctionTopic, editing>>

\* activateScheduled: UpdateState(active); an error goes on with the next row.
Activate(p) ==
    /\ tickPc[p] = "activate"
    /\ \E row \in list[p] :
           /\ NextRow(p, row)
           /\ \/ /\ rows' = [rows EXCEPT ![row.id].state = "active"]
                 /\ \/ NoLifeFault /\ TickGoto(p, "announceStart")
                    \/ LifeFault("ack") /\ UNCHANGED tickPc
              \/ /\ LifeFault("write")
                 /\ UNCHANGED <<rows, tickPc>>
    /\ UNCHANGED <<clock, top, tickLock, auctionTopic, editing>>

\* PublishEvent, whose error nobody looks at.  A retry of WriteMessages whose
\* first attempt arrived leaves the event in the topic twice.
PublishEvent(p, type, winner) ==
    LET event == [type |-> type, auction |-> found[p].row.id, winner |-> winner]
    IN  \/ /\ NoLifeFault
           /\ Len(auctionTopic) < MaxEvents
           /\ auctionTopic' = Append(auctionTopic, event)
        \/ /\ LifeFault("retry")
           /\ Len(auctionTopic) < MaxEvents
           /\ auctionTopic' = Append(Append(auctionTopic, event), event)
        \/ /\ LifeFault("publish")
           /\ UNCHANGED auctionTopic

AnnounceStart(p) ==
    /\ tickPc[p] = "announceStart"
    /\ PublishEvent(p, "started", 0)
    /\ TickGoto(p, "activate")
    /\ UNCHANGED <<clock, rows, top, tickLock, list, found, editing>>

\* endAuction: GetHighestBid, whose error counts as "no bids".
FindWinner(p) ==
    /\ tickPc[p] = "end"
    /\ \E row \in list[p] :
           /\ list' = [list EXCEPT ![p] = @ \ {row}]
           /\ \E best \in {top[row.id], 0} :
                  /\ IF best = top[row.id] THEN NoLifeFault ELSE LifeFault("read")
                  /\ found' = [found EXCEPT ![p] =
                                   [row |-> row, winner |-> IF best >= row.reserve THEN best ELSE 0]]
    /\ TickGoto(p, "write")
    /\ UNCHANGED <<clock, rows, top, tickLock, auctionTopic, editing>>

\* SetWinner: winner_id, current_price and the state in one UPDATE.
SetWinner(p) ==
    rows' = [rows EXCEPT ![found[p].row.id].winner = found[p].winner,
                         ![found[p].row.id].state = "ended"]

\* SetWinner, or UpdateState(ended) without a winner.  After an error of SetWinner
\* endAuction returns: a row that was not written is left for the next tick, one
\* that was written is ended and no tick sees it again.  An error of UpdateState
\* is not looked at.
WriteEnd(p) ==
    /\ tickPc[p] = "write"
    /\ \/ /\ found[p].winner > 0
          /\ SetWinner(p)
          /\ \/ NoLifeFault /\ TickGoto(p, "announceEnd")
             \/ LifeFault("ack") /\ TickGoto(p, "end")
       \/ /\ NoLifeFault
          /\ found[p].winner = 0
          /\ rows' = [rows EXCEPT ![found[p].row.id].state = "ended"]
          /\ TickGoto(p, "announceEnd")
       \/ /\ LifeFault("write")
          /\ UNCHANGED rows
          /\ TickGoto(p, IF found[p].winner > 0 THEN "end" ELSE "announceEnd")
    /\ UNCHANGED <<clock, top, tickLock, list, found, auctionTopic, editing>>

\* Variant: the event does not carry the winner.
AnnounceEndForgetsWinner(p) ==
    /\ tickPc[p] = "announceEnd"
    /\ PublishEvent(p, "ended", 0)
    /\ TickGoto(p, "end")
    /\ UNCHANGED <<clock, rows, top, tickLock, list, found, editing>>

\* auction.ended, with the winner if there is one.
AnnounceEnd(p) ==
    /\ tickPc[p] = "announceEnd"
    /\ PublishEvent(p, "ended", found[p].winner)
    /\ TickGoto(p, "end")
    /\ UNCHANGED <<clock, rows, top, tickLock, list, found, editing>>

\* ReleaseSchedulerLock, deferred: DEL of the key, whoever set it.
ReleaseLock(p) ==
    /\ tickPc[p] = "unlock"
    /\ \/ NoLifeFault /\ tickLock' = None
       \/ LifeFault("unlock") /\ UNCHANGED tickLock
    /\ TickGoto(p, "idle")
    /\ found' = [found EXCEPT ![p] = Nothing]
    /\ UNCHANGED <<clock, rows, top, list, auctionTopic, editing>>

\* A pod dies in its tick and starts again; the lock is left to its TTL.
TickCrash(p) ==
    /\ tickPc[p] # "idle"
    /\ LifeFault("crash")
    /\ TickGoto(p, "idle")
    /\ list' = [list EXCEPT ![p] = {}]
    /\ found' = [found EXCEPT ![p] = Nothing]
    /\ UNCHANGED <<clock, rows, top, tickLock, auctionTopic, editing>>

\* Variant: the key has no TTL.
LockExpiresNever == FALSE /\ UNCHANGED lifeVars

\* Variant: the TTL is shorter than a tick.
LockExpiresEarly ==
    /\ tickLock # None
    /\ tickLock' = None
    /\ UNCHANGED <<clock, rows, top, tickPc, list, found, auctionTopic, editing, lifeFaults>>

\* The lock's TTL passes: after its holder's tick has ended without the DEL, or
\* during the tick of a slow holder.
TickLockExpires ==
    /\ tickLock # None
    /\ (tickPc[tickLock] = "idle" /\ NoLifeFault) \/ (tickPc[tickLock] # "idle" /\ LifeFault("slow"))
    /\ tickLock' = None
    /\ UNCHANGED <<clock, rows, top, tickPc, list, found, auctionTopic, editing>>

-----------------------------------------------------------------------------
Tick(p) ==
    \/ AcquireLock(p)
    \/ GetScheduledToActivate(p) \/ Activate(p) \/ AnnounceStart(p)
    \/ LoopEnds(p, "activate", "expired")
    \/ GetExpiredActive(p) \/ FindWinner(p) \/ WriteEnd(p) \/ AnnounceEnd(p)
    \/ LoopEnds(p, "end", "unlock")
    \/ ReleaseLock(p)

LifeNext ==
    \/ \E a \in Auctions :
           \/ \E reserve \in Reserves : Create(a, reserve) \/ UpdateWrite(a, reserve)
           \/ \E amount \in 1 .. MaxBid : BidPlaced(a, amount)
           \/ UpdateRead(a) \/ Delete(a) \/ TimePasses(a)
    \/ \E p \in Pods : Tick(p) \/ TickCrash(p)
    \/ TickLockExpires

LifeSpec == LifeInit /\ [][LifeNext]_lifeVars

\* Redis expires keys, every pod's ticker keeps firing and its ticks go on.
LifeFairSpec == LifeSpec /\ WF_lifeVars(TickLockExpires) /\ \A p \in Pods : WF_lifeVars(Tick(p))

-----------------------------------------------------------------------------
EndedEvents(a) == Cardinality({n \in 1 .. Len(auctionTopic) : auctionTopic[n].type = "ended" /\ auctionTopic[n].auction = a})

LifeMet(kinds) == lifeFaults.kinds \cap kinds # {}

\* As long as no tick outlives the lock, an auction is announced as ended once:
\* a crash, a lost event or answer, a failed query or a failed DEL never repeats
\* the announcement; a failed UPDATE, and a retry of the Kafka producer, repeats
\* it at most once.
EndedOnce ==
    ~LifeMet({"slow"}) => \A a \in Auctions :
        EndedEvents(a) <= IF LifeMet({"write", "retry"}) THEN 1 + lifeFaults.count ELSE 1

\* An auction whose end_time has passed ends, or is deleted, whatever pod
\* crashes or fails in between.
ExpiredAuctionsEnd ==
    \A a \in Auctions : (clock[a] = "over" /\ Visible(a)) ~> (rows[a].state = "ended" \/ rows[a].deleted)

\* Requirement 10.1: when the scheduler ends an auction with a winner it
\* publishes auction.ended with that winner, unless the write to Kafka fails, the
\* answer of SetWinner is lost or the pod dies right then: the row is ended, so
\* no later tick makes up for it.
WinnersAreAnnounced ==
    \A a \in Auctions : rows[a].winner > 0 ~>
        \/ \E n \in 1 .. Len(auctionTopic) : auctionTopic[n].auction = a /\ auctionTopic[n].winner > 0
        \/ LifeMet({"publish", "crash", "ack"})

=============================================================================
