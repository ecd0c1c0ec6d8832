# Auction platform: TLA+ models, model checking and proofs

The repository is an auction platform: seven Go services behind an API gateway,
a library of shared packages (`pkg/`) and a web front end. PostgreSQL, Redis
and Kafka carry the state the services share. This directory holds TLA+ models
of the parts where money and winners are decided, of the packages and loops they
rest on, the TLC configurations that check them on small instances, and TLAPS
proofs.

`PROJECT.json` lists every run, the source lines each definition models, the
disagreements found between code and documents, and the hazards the properties
are for.

## 1. Inventory

| Component | State it keeps | Operations | Hard behaviour | What makes it correct |
|---|---|---|---|---|
| payment-service `internal/wallet` | `wallets`, `bid_holds`, `wallet_transactions` | HoldFunds, ReleaseFunds, ChargeFunds, CreditFunds, DepositFunds | idempotency look-up outside the transaction; row locks of two tables | no lost update; a hold ends once; held balance = active holds; every call ends |
| payment-service `internal/service` | the same tables, `transactions`, a connection pool | Deposit, HoldBalance, ReleaseHold, SettleAuction | snapshot of the holds, then one transaction per hold; second connection inside a transaction | money conserved; a loser refunded; no double charge |
| payment-service `internal/saga` | `sagas`, `saga_steps`, wallets, holds, outbox | Execute, four steps, their compensations | step time-outs with a COMMIT in flight, ignored errors of its own store, cancellation, crash | completed means settled; a failed saga restores everything but the stray losing holds |
| payment-service outbox | `outbox_events`, the topic | insert with the business transaction, poll, publish, mark | several replicas; crash between publish and mark; retry limit | only committed events, at least once, in order |
| bid-service | Redis lock and highest-bid cache, `bids`, `auctions.current_price` | PlaceBid | lock TTL, stale cache, remote hold, the auction ending meanwhile | bids increase; exactly the highest bidder is held; the highest bid wins |
| auction-service | `auctions`, scheduler lock | Create, Update, Delete, scheduler tick | several pods; lock TTL; publish after write | legal transitions; ended and announced once, with the highest bid |
| user-service wallet | `wallets.balance`, `wallet_transactions` | Deposit, Withdraw, Hold, ReleaseHold, Settle, Credit | a hold is a debit, called over HTTP without a key | a release undoes exactly one hold |
| user-service consumer | Kafka offsets | Run | at-least-once delivery, failed calls, first offset | a seller is paid once |
| user-service auth | users, `user_sessions`, `refresh_tokens` | Register, Login, Refresh, Logout, SetActive, SoftDelete | statements outside a transaction, calls of several devices | a login has one valid refresh token; sessions stay near their limit |
| notification-service | notifications, processed keys, connections | consume, store, push, e-mail | redelivery, rebalances between pods, failing statements, a hub with data races, a shared presence key that expires | one notification per event unless it is replayed; the hub and its goroutines agree |
| search-service, analytics-service | index, counters | consume, query | redelivery, no idempotency | what is committed was applied; only a replay counts twice |
| api-gateway | limits, breakers, upstreams | proxy, rate limit, shed load | late answers, clients that leave, limits at their boundary | a breaker closes again once upstreams answer and clients wait; requests admitted within limits |
| `pkg/lock` | Redis key, fencing counter | Acquire, Extend, Release | TTL passes while the holder works; lost answers | a holder within its TTL owns the key |
| `pkg/circuitbreaker` | state, counters, probe flag | Execute, GetState | answers that arrive in a later state, panics | one probe at a time; closes again |
| `pkg/kafka` | offsets, dedup keys, dead letters | publish, consume, retry, DLQ | crash between handler and mark; DLQ unavailable; rebalance with a fenced session; keys that expire | handled once while it is looked up and recorded, or parked |
| `pkg/ratelimit` | windows, violations, blocks; in Redis and in memory | Check | read and increment apart; fallback when Redis is away | at most the limit but for requests that race |
| `pkg/auth`, `pkg/serviceauth` | signing keys | sign, verify, rotate | several instances rotate and persist | a token is accepted for its whole life |
| `pkg/shutdown` | phases, requests in flight | Shutdown | a phase that times out | pools outlive requests; the shutdown ends |
| `pkg/pool` | connection counter, heartbeats | TryAccept, Release, TimedOutConnections | compare-and-swap, clamp at zero, double release | counter = accepted connections, below the limit, while each is released once |
| `pkg/migrate` | schema, `schema_migrations` | Up, Down | a migration that fails half-way or finishes late, a bookkeeping statement that fails, a crash | a failed Up leaves nothing behind but what the failed migration itself changed |
| `pkg/secrets` | cached secrets | Get, refresh | vault unavailable | stale secret no older than its TTL |

The remaining packages (`errors`, `logger`, `utils`, `validation`, `database`,
`redis`) format, log, check input or open connections. The front end, the
deployment files and the scripts hold none of the core logic.

How the parts interact in one auction: the bid service places bids under a Redis
lock and asks the user service to hold and release money; the auction service's
scheduler ends the auction, picks the winner and publishes `auction.ended`; the
user service's consumer settles the winner and credits the seller; the payment
service has a second settlement path of its own (`SettleAuction`) that announces
itself through the outbox. `internal/wallet`, the saga and `outbox/publisher.go`
are exercised by tests only: no `main` starts them. They are modelled because
the design documents describe them as the way settlement is meant to run.

## 2. Modules

| Module | Models | Rests on |
|---|---|---|
| `WalletLedger` | `internal/wallet/wallet.go`, `pg_repository.go` | |
| `WalletLedgerProofs` | theorems about `WalletLedger` | `WalletLedger`, TLAPS |
| `DataLemmas` | induction over the naturals, extrema and sums over finite sets, proved once for the modules below | TLAPS |
| `PaymentSettlement` | `internal/service/wallet_service.go` and its repositories | |
| `PaymentSettlementProofs` | theorems about `PaymentSettlement` | `PaymentSettlement`, `DataLemmas` |
| `SettlementSaga` | `internal/saga/*.go` | |
| `EventDelivery` | abstract: what ADR-003 promises of the outbox | |
| `Outbox` | `outbox_worker.go`, `outbox_repository.go`, `outbox/*.go` | instance of `EventDelivery` |
| `OutboxProofs` | refinement and bound of the outbox | `Outbox`, `DataLemmas` |
| `BidPlacement` | `bid_service.go`, its lock, cache, repositories, wallet client | |
| `AuctionLifecycle` | `auction_service.go`, `scheduler.go`, repository, lock | |
| `AuctionConsumer` | `auction_consumer.go` and the wallet calls behind it | |
| `AuctionProofs` | theorems about `BidPlacement`, `AuctionLifecycle`, `AuctionConsumer` and `SettlementSaga` | all four, `DataLemmas` |
| `CircuitBreaker`, `DistributedLock`, `RateLimiter`, `SchemaMigration`, `WebSocketLimiter`, `GracefulShutdown` | the stateful packages of `pkg/` | |
| `GatewayProxy` | `api-gateway/internal/proxy` | |
| `SharedPackages` | the seven above for one run | all seven |
| `SharedPackagesProofs` | theorems about six of them | `SharedPackages`, `DataLemmas` |
| `KafkaConsumer` | `pkg/kafka` | |
| `EventReaders` | consumers of notification-, search- and analytics-service | |
| `NotificationHub`, `BidHub` | the two WebSocket hubs | |
| `Messaging` | the four above for one run | all four |
| `MCMessaging` | `Messaging` for TLC, with the symmetry of members and pods | `Messaging` |
| `MessagingProofs` | theorems about all four | `Messaging`, TLAPS |
| `KeyRotation` | `pkg/auth/key_rotation.go`, the gateway's `ParseBearer` | |
| `ServiceAuth` | `pkg/serviceauth` | |
| `UserSessions` | `auth_service.go`, session and refresh repositories | |
| `Access` | the three above for one run | all three |
| `AccessProofs` | theorems about all three | `Access`, `DataLemmas` |

Conventions. A database transaction whose rows are locked is one step; a read
outside a transaction, a Redis command, a call to another service, a write to
Kafka are steps of their own. `None` (`NoId` in `BidPlacement`) is Go's `nil`, no
row or the empty string. Amounts are whole cents. Modules that are proved about
together (the four of `AuctionProofs`, and those of each composition) declare
names of their own: `BidSpec`, `LifeSpec`, `ConsumerSpec`, `SagaSpec`. Faults are
counted in a variable and bounded by a constant (`faults` and `MaxFaults`, or
`bidFaults` and `MaxBidFaults`); `FaultKinds`, or `BidFaultKinds`, says which
kinds a run allows, so that each run names the failure that its property needs or
survives. A definition whose comment starts with "Variant:" is a deliberately
wrong form of the one it precedes; the specification never uses it, and each
property is shown to fail under one.

### WalletLedger
`wallets`, `holds`, `txns` are the three tables, `walletLock` and `holdLock` the
row locks. `Call` is the look-up of the idempotency key (which may fail and is
then ignored) up to `BEGIN`; `LockHold` and `LockWallet` are the two `SELECT ...
FOR UPDATE`; `Commit` applies what the operation computed from the rows it read
(`NewAvailable`, `NewHeld`), and `Rollback` every error return. Writes are
invisible until COMMIT and therefore one step.

### PaymentSettlement
`CheckKey` is the look-up before `Deposit` and `HoldBalance`, whose error the
code ignores, as it does that of the refund key (`RefundKeyAbsent`): with
`MayFail` a known key may be taken for a new one. `SettleAuction`
reads the snapshot of active holds, `Serve` runs the transaction of the first
two and `Settle` the loop over the snapshot: `chargeHold` for the winner,
`ReleaseHold` for everybody else. `free` is the number of idle connections.

### SettlementSaga
`Orchestrate` is `Execute`: store the state, run step `i`, record it, or record
the failure and compensate `failedStep - 1 .. 1`. `inflight` is the step that
timed out with its COMMIT on the wire; `LateCommit` applies it at any later
moment. `SaveSaga`, `SaveStep` and `SaveEnd` may lose their write whenever a
transaction may fail, and always when the context is cancelled, because the
orchestrator ignores the store's errors; `unsaved` remembers that the write of
the saga's end was lost. `Compensation` undoes step `i`; `strays` are the losing
holds that it gives up: those a failed release step had released, and those whose
`reHoldOne` failed. `Cancel` cancels the context, `SagaCrash` ends the process,
`Spend` is a user who spends available balance meanwhile.

### Outbox
`row` follows an event from the open business transaction to `published`.
`batch` is what a worker's poll returned. `PublishEvent` and the marking are
separate steps; `PublishFails`, `UpdateFails` and `Crash` are the faults. The
partition is chosen freely because the LeastBytes balancer ignores keys.

### BidPlacement
One auction. Each step of `PlaceBid` is one remote call in the order of the
code; `bidLock` remembers, as history only, whose SETNX made the key. `BidLockExpires`
is enabled for a working holder only as the fault "slow". `ReadWinner` and
`EndAuction` are the two steps of the scheduler that do not take the bid lock.
The wallet of the user service is the balance; a hold debits it.

### AuctionLifecycle
`Create`, `UpdateRead`/`UpdateWrite`, `Delete` are the HTTP operations; `Tick`
is a tick of one pod: acquire the lock, list and activate scheduled auctions,
list and end expired ones (highest bid, state, winner, event), delete the lock.
The fault "write" is an UPDATE that failed, "ack" one that was applied and whose
answer was lost (`endAuction` then returns before it publishes, and the ended row
is never listed again), "retry" a producer that writes an event twice.
`clock` gives each auction the three times the queries tell apart.

### AuctionConsumer
`PublishMessage` is the producer; the fault "again" is an `auction.ended` that is
published once more, by a retry or by a second tick, so that `Copies` of it may be
in the topic. `Run` is the loop (fetch, settle, credit, commit) and `Restart` a
crash or a rebalance, after which the committed offset counts.

### SharedPackages
Seven modules that share no state. `unit` names the one that runs in a behaviour,
the others stay as they began: one run checks them all, and its states are the
sum of theirs and not their product.

* `CircuitBreaker`: `ExecuteInClosed` and `ExecuteAsProbe` are the first half of
  Execute, under the mutex; `executeClosed` and `executeProbe` the second half,
  which takes the mutex again and may meet another state. `Panic` skips it.
* `DistributedLock`: `TakeToken` (INCR) and `SetNX` are the two commands of an
  attempt, `AcquireFails` an error of either, with the SET applied or not;
  `ReleaseLockKey` and `ExtendLock` are the scripts; `TTLPasses` is Redis.
* `RateLimiter`: the steps of `Check`: the block, the two GETs, the INCR, the
  violation, the block that follows; each may find Redis away and go on with the
  in-memory limiter, and a failed GET of the previous window alone counts as
  zero. Windows are named by their age.
* `SchemaMigration`: each statement of Up, of its roll-back and of Down is a
  step, each may fail, and the process may die between any two. `UpFails` may
  leave some of the version's changes behind, and `FinishLate` applies them after
  the time-out was reported; `left` is the version that failed.
* `WebSocketLimiter`: Load, CompareAndSwap, Add and Store are separate steps.
  Handlers and whoever acts on TimedOutConnections release, in either order
  ("reaped" is a connection that the reaper released and whose handler runs on).
* `GracefulShutdown`: the five phases; requests arrive until the drain begins,
  store their result and publish.
* `GatewayProxy`: `Forward`, `Retry`, `GiveUp` and `Record` are the loop of one
  request; the breaker (`Allow`, `AfterSuccess`, `AfterFailure`) is shared.
  `ClientLeaves` cancels the context that every attempt is derived from, so that
  the attempt fails (`AttemptFails`) whether or not the upstream answers.

### Messaging
`part` names the module that runs, as `unit` does. What flows from one to the
next (a message, a delivery) is an input of the next.

* `KafkaConsumer`: sessions of several `Members` of a group: look-up in the
  deduplication store, handler with retries, dead letter, record, mark, automatic
  commit; rebalance, cancelled sessions, crash. `FenceMember` gives the partition
  of a silent member to another one while the old session still works (`fenced`,
  `overlapped`). Events outside `Identified` have no id, or there is no store, and
  are never looked up; `KeyExpires` is the TTL of a processed key. Sarama's part is
  external.
* `EventReaders`: `reader` is one of the three services, run by several `Pods`;
  the group gives the partition to one (`owner`, `AssignPartition`). A message is a
  sequence of statements (`HandleBidPlaced` and its siblings, `SearchSteps`,
  `AnalyticsSteps`), each of which takes effect or fails; `rows` has the unique
  `event_id`, `processedIDs` the Redis keys that expire after a day; e-mails are
  retried in goroutines that a restart forgets. A commit may fail. `replayed` are
  the messages that were fetched and not committed when the partition was given
  out again, `together` those that two pods then worked on at once.
* `NotificationHub`: the connections of one user on one pod; the loop of
  deliverLocal is taken connection by connection because it runs without the lock.
  What the Go runtime does about a map written during a range is a free choice. The
  online key is shared: `elsewhere` stands for the connections on the other pods,
  which set and delete it too; it expires, and errors of SetOnline and SetOffline
  are dropped (`lost`, `stale`).
* `BidHub`: the room of one auction on one pod; the hub is one goroutine, so a
  broadcast is one step. `BroadcastElsewhere` is a bid placed on another pod, which
  never comes here; `placedHere` are the bids that do.

### Access
`realm` names the module that runs.

* `KeyRotation`: two pods and one Redis. `Rotate` is the part under the mutex,
  `persistReads` and `persistSets` the part behind it. One token is followed
  through its life. `diverged` records that a pod and Redis have parted.
* `ServiceAuth`: the loop and ForceRotate, each as check, `RotateKey` and
  `RecordRotation`.
* `UserSessions`: the statements of each call; the value of a refresh token is,
  as history, the login it goes back to. `DeleteOldest` takes the set of devices
  whose overlapping DELETEs choose the same row.

## 3. Runs

Each run asks one question of one component. A run that passes names, inside its
properties, the faults that would make them false; a run that is expected to be
violated states what a document or comment of the repository says, and TLC's
counterexample is a behaviour of the code.

| Run | Expect | States | Question and answer |
|---|---|---|---|
| `WalletLedger` | pass | 37,658 | Do row locks make the five operations safe together? `TypeOK`, `ReadsAreFresh`, `SettledOnce`, `HeldFollowsHolds`, `CallsEnd`: yes, duplicated keys and failing look-ups included. |
| `PaymentSettlement` | pass | 132,749 | With failing look-ups of the keys: is money conserved by raced settlements (`MoneyConserved`), is a loser's held balance the sum of the active holds (`LosersHoldsBacked`), does every request return (`RequestsReturn`)? Yes, the last one because the pool is larger than the number of requests. |
| `PaymentSettlement_doublecharge` | violation | | "Idempotency keys prevent double-charges": two settlements that took the same snapshot both charge the winner when another hold of the winner backs the held balance. |
| `SettlementSaga` | pass | 726,678 | `CompletedMeansSettled`, `LosersKeepTheirMoney` hold under every fault. `FailureUndone`: unless a step timed out or a compensation reported an error, a failed saga has restored the winner, the outbox, a seller who spent nothing, and every losing hold but the strays. `SagaEnds`: unless the process dies or the last write is lost. |
| `Outbox` | pass | 90,140 | `OutboxImplementsDelivery`: only committed events reach the topic. `DuplicatesBounded` (one copy per replica and fault), `EventuallyDelivered` (unless the retries are used up). |
| `BidPlacement` | pass | 5,894,709 | With one fault of any kind, an outlived lock included: `BidsIncrease` and `OnlyHighestBidderHeld`, each naming the faults that break it. |
| `BidPlacement_late` | violation | | "Winner selection from `bids` table": a bid stored between the scheduler's read and its write, or after it, beats the winner. No fault is needed. |
| `AuctionLifecycle` | pass | 440,326 | `EndedOnce` while no tick outlives the lock, no UPDATE fails and no producer retries; `ExpiredAuctionsEnd` under every fault; `WinnersAreAnnounced` unless the publication fails, the answer of SetWinner is lost or the pod dies. |
| `AuctionConsumer` | pass | 736,452 | `RestartsBoundCredits`: a credit is made once per copy of `auction.ended`, and repeated only by a restart. `SellersPaid`: unless a wallet call failed or a new group skipped the event. |
| `SharedPackages` | pass | 127,569 | `OneProbe` and `BreakerCloses` of the breaker, late answers included; `HolderOwnsKey` of the lock; `AdmissionsBounded` of the limiter and its fallback; `ConnectionsCounted` while a connection is released once; `FailedUpUndone` of a migration run, but for the version that failed; `PoolsOutliveRequests` of the shutdown; `GatewayRecovers` of the proxy, while clients wait for their answers. |
| `Messaging` | pass | 2,033,262 | `EventsAccounted`: a committed message took effect or is a dead letter, or was lost in one of three named ways. `EffectsOnce`: a handler succeeds twice only for an event that was not looked up or recorded, whose key expired, or that a fenced session and its successor had together. `AppliedOnce`: a statement of the readers is repeated only for a message that was replayed. `CommittedEventsApplied`: what a committed event of the readers did. `HubConsistent`: the notification hub is stopped only by a change during a range, and presence is wrong only for the named reasons. `StreamsUninterrupted`: a slow watcher is disconnected, and no bid of its own pod is skipped. |
| `Access` | pass | 1,576,341 | `TokensOutliveRotation`: through one rotation and any restarts while no pod has parted from Redis. `OverlapCoversTokens`: however the loop's steps fall between the ticks, ForceRotate excepted. `SessionsBounded`: one row per concurrent login above the limit, never more, also when overlapping DELETEs choose one row. `OneTokenPerLogin`: unless two refreshes read one token together. |

Every module states its type invariant; only WalletLedger's is listed as a
property, since the columns' limits are part of what it is about. The proofs
establish what they need of the others as part of their inductive invariants.

Ten of these properties except the very case of a hazard they are listed under,
because the code does not survive it; what they show is that every other
interleaving is harmless. `BidsIncrease` excepts slow and crashed calls,
`OnlyHighestBidderHeld` failed wallet calls and INSERTs, `EndedOnce` a tick longer
than its lock, `OneProbe` a late failure, `ConnectionsCounted` a double release,
`PoolsOutliveRequests` a drain that timed out, `CommittedEventsApplied` statements
that failed and events taken for repetitions, `TokensOutliveRotation` pods that
have parted from Redis, `OverlapCoversTokens` ForceRotate, `OneTokenPerLogin` two
refreshes with one token. The notes of the hazards in `PROJECT.json` say so in
each case.

### Known disagreements without a run of their own

More statements of the repository do not hold of the code. The passing runs
contain the behaviours, and their properties name them as exceptions:

* `docs/INDEPENDENT_PROJECT_REPORT.md:351` (bid races are met by "Redis
  distributed lock (SETNX + TTL), single-threaded bid processing"): a call that
  outlives the 5 s works beside the next holder and a lower bid may be stored.
  `BidsIncrease` excepts the fault "slow".
* `auction-service/internal/scheduler/scheduler.go:16` ("prevent duplicate
  processing across pods"): a tick longer than the lock lets a second pod end
  and announce the same auctions. `EndedOnce` excepts the fault "slow".
* `.kiro/specs/auction-end-notifications-wallet/requirements.md:120` ("SHALL
  check event idempotency"): the credit has no key and is repeated after a
  restart and for every copy of the event. `RestartsBoundCredits` allows one credit
  per copy and restart.
* `.kiro/specs/production-readiness/design.md:698` (compensation in reverse order,
  "restoring previous state"; requirement 18.4, `requirements.md:271`): a release
  step that fails is not compensated (`settlement.go:385`), and errors of
  `reHoldOne` are logged only (`settlement.go:478`). `FailureUndone` excepts these
  holds (`strays`).
* `payment-service/internal/service/outbox_worker.go:15` ("guarantees
  at-least-once delivery"): an event at the retry limit is never polled again.
  `EventuallyDelivered` excepts it.
* `notification-service/internal/kafka/dead_letter.go:13` ("never lost"): a
  statement of a handler that fails is logged, and the message is committed without
  a dead letter. `CommittedEventsApplied` excepts `failed`.
* `pkg/auth/key_rotation.go:89` ("zero failed authentication requests during the
  rotation window"): pods rotate by themselves and do not reload Redis.
  `TokensOutliveRotation` excepts pods that have parted from it (`diverged`).
* `docs/adr/005-circuit-breaker-with-cached-fallback.md:27` ("exactly one probe
  request") and `pkg/circuitbreaker/circuitbreaker.go:118`: a late failure clears
  the probe flag while the probe still runs. `OneProbe` excepts it (`lateFailure`).
* `pkg/migrate/migrate.go:120` ("rolls back the failed migration"): only the
  migrations applied before the failed one are rolled back. `FailedUpUndone` excepts
  the failed version (`left`).
* `README.md:52` ("live bid updates") and
  `.kiro/specs/realtime-bid-update-fix/bugfix.md:21` ("for all viewers"): a bid is
  broadcast to the connections of the pod that placed it (`bid_service.go:187`,
  `websocket/hub.go:95`) and bid-service runs two replicas
  (`deployments/k8s/bid-service/deployment.yaml:14`). `StreamsUninterrupted` is
  stated of the bids placed on the watcher's pod.

Two behaviours contradict no sentence of the repository and are excepted likewise.
The gateway records a client that disconnects as a failure of the upstream
(`reverse_proxy.go:102`, `132`), so impatient clients can keep the breaker of a
healthy service open: `GatewayRecovers` assumes that clients wait. The online key
of a user is shared by the pods of notification-service, so the last connection on
one pod takes the key of a user who is connected to another: `HubConsistent` excepts
`lost`.

Amounts are whole cents in every model; that float64 sums may be compared before
the NUMERIC(15,2) columns round them (`payment-service/internal/model/wallet.go:8`)
is not checked.

### Bounds

Two concurrent actors (three PlaceBid calls) are enough for every pairwise race
in this code: no operation waits for more than one other. Three calls of
PlaceBid and three amounts are needed because a stale cache shows only in the
call after the one that failed to write it. Two holds, two amounts and two
events let a second operation meet the first one's row. `MaxBalance` stands for
NUMERIC(15,2) and is reached, so the overflow error is exercised. `MaxFaults`
bounds the number of failures in one behaviour, `MaxEvents` the length of the
topic in `AuctionLifecycle` (no behaviour within `MaxLifeFaults` publishes more),
`BatchSize` and `MaxRetries` are 2 where the code has 50 and 10. Auction-service
runs use one auction: a tick treats its auctions one after the other, and
nothing it keeps passes from one to the next. Models that check liveness use no
symmetry; `Messaging`, which checks invariants only, takes members and pods as
interchangeable. In the three composed runs the limits of the code (retries,
thresholds, windows, buffers, sessions, grace periods) are 1 to 4, each reached
from both sides; times that the code compares with one another (grace period and
token life, overlap and rotation interval) keep their order. Tokens, keys and
fencing tokens come from pools large enough that a fresh one exists in every
state the properties speak of, and keys that nobody holds are used again.
`Messaging` has two members and two pods, which a rebalance and a fenced session
need, one event with an id and one without (`Identified`), two messages (a replay
and its successor), two rebalances or deaths of the readers (`MaxLosses`), one
failed or expired command (`MaxFailures`) and four bids over two pods.
`Access` has the constraint `Undivided`: behind the point where a pod and Redis
part, `TokensOutliveRotation` claims nothing, and the search does not go on; the
step to that point is still checked. `CHECK_DEADLOCK FALSE` is set where the system may come to rest: all
requests served, the saga over, all auctions ended, the topic read.

### Fairness

* `WalletLedger`, `PaymentSettlement`: a call that waits for a row lock or a
  connection gets it if it becomes free again and again (PostgreSQL and pgxpool
  queue their waiters): strong fairness of those steps. Nothing obliges a client
  to call.
* `SettlementSaga`: the orchestrator's goroutine runs on while its process lives.
* `Outbox`, `AuctionLifecycle`: tickers keep firing and loops run on. Faults are
  never forced to happen.
* `AuctionConsumer`: the loop of Run goes on.
* `SharedPackages`: calls that the breaker or the proxy let through are answered
  (the client has a time-out) and time passes; each phase of the shutdown ends,
  at the latest with its time-out. That callers keep calling is no fairness of
  the code: it is the premise of `BreakerCloses` (`CallersKeepCalling`) and of
  `GatewayRecovers`.

## 4. Proofs

TLC checks one small instance; the theorems below hold for every number of
users, calls, workers, requests, clients, messages and every value of the
limits, within the named assumptions. Each has the form `Spec => []Property`
(two of `WalletLedgerProofs` are action properties, one of `OutboxProofs` is a
refinement). In every case an inductive invariant was found first, checked by TLC
on the run of the module, and then proved with one lemma per action.

### WalletLedgerProofs

`TypeCorrect` (balances stay within their columns), `NoLostUpdate`,
`HoldsSettleOnce`, `HeldTracksHolds` (every step changes a held balance by exactly
the hold that starts or ends in it). Assumption: positive amounts, a starting
balance that fits its column, a `None` that is no id. `IInv` is `TypeOK /\
LockDiscipline /\ ReadsAreFresh`: a call owns the row lock of every row it has
read, the hold it read was active, and what it read is what the table holds.
Without `LockDiscipline` another call could write between the read and the
write; with it, `Commit` of one call cannot touch a row another one has read.

### PaymentSettlementProofs

`TypeCorrect`, `MoneyIsConserved`, `LosersStayBacked`. The last one is a sum: a
loser's held balance is the sum of that bidder's active holds. `Base` says that
rows keep their types, that a settlement's snapshot names holds that exist and
have kept owner and amount, and that connections in use and free add up; `FewActive`
that the active holds are finitely many, so that their sum is defined. A refund
keeps the sum because the hold it releases is re-read as active inside its
transaction; a loser's hold is never charged because the loop compares its owner
with the winner.

### OutboxProofs

`OutboxRefinesDelivery`: with `topic` mapped to what the workers wrote, every
step of `Outbox` is a step of `EventDelivery` or stutters. `QInv` adds that each
row was inserted once (`Ordered`) and that a worker's batch holds committed rows
only, none of them twice, and at least one while it is in its loop (`Batches`).
`DuplicatesAreBounded`: copies of an
event are charged to the workers that published it and have not yet marked it
(`Marking`), to those that still will (`WillWrite`), and to faults (`CopiesInd`).
The poll is the recursive function `Kept`; what it returns is proved by induction.
Assumption: finitely many workers, positive batch size and retry limit.

### SharedPackagesProofs

* `OneProbeAtATime`: `ProbeAlone` ties the set of probing callers to the
  breaker's flag while no late failure has been seen.
* `HoldersOwnTheKey`: the property is inductive among well-typed states
  (`LockInd` is `LockTyped /\ HolderOwnsKey`): a key that names an owner names no
  other, and Release and Extend only touch a key that names their caller.
* `AdmissionsAreBounded`: `LimiterInd` counts, for each window, the requests that
  have read it and not yet incremented it against the room that was left when they
  read (`WindowsBounded`), the fallback's counter (`FallbackCounted`), and the
  requests that were past the look-up when a block was set (`BlockTight`).
  Finitely many requests are assumed.
* `ConnectionsAreCounted`: `PoolInd` says that, until a connection is released
  twice, no Release is about to clamp the counter, and that a value that was loaded
  and may still be swapped in is below the limit.
* `DrainedRequestsFindPools`: the safety half of `PoolsOutliveRequests`. Unless the
  drain timed out, the pools are open until it is over and no request is in flight
  after it (`ShutdownInd`).
* `FailedUpIsUndone`: `MigrationInd` follows the migrations applied so far by the
  call (`UpSoFar`) through its rollback; the schema is known but for versions whose
  record was wrong before and the one that failed (`unsure`, `left`), the record but
  for the former.

### MessagingProofs

* `CommittedIsAccounted`, `HandlersSucceedOnce` (`KafkaInd`): of every session,
  fenced or not, everything behind its position is accounted for
  (`BehindAccounted`), and it calls the handler for an event that was handled only
  if the event is excused (`LookedUp`); what is committed is accounted for. Two
  sessions that work on one event are known to (`Apart`), so a handled event is in
  the store, about to be recorded, or excused (`HandledRecorded`).
* `CommittedIsApplied`, `StatementsApplyOnce` (`ReadersInd`): of the message in a
  pod's hands, what is not left to do was done or has failed (`BehindApplied`), and
  what is left was not done unless the message is replayed (`LeftUndone`); two pods
  have the same message only when it is replayed (`HandsApart`); what the owner has
  fetched, and what is committed, was applied (`FrontApplied`); what was done lies
  behind the position or is replayed (`DoneIsPast`); rows, marks and e-mails agree
  with it (`StoresKnow`, `MailsOnce`), and repetitions are known (`AgainKnown`). The
  proof needs that a handler's statements differ from one another and that its mark
  is the last (`Plan`), shown for every handler of the three services.
* `HubStaysConsistent` (`HubInd`): while no connection came or went during a
  range, no deliverer has a closed channel in hand (`HandsOpen`).
* `WatchersMissNoLocalBid` (`StreamInd`): what was written and what is queued for a
  watcher form one run of the bids placed on this pod (`Joined`), which ends, for a
  watcher in the room, where the hub's channel goes on (`UpToDate`). Any size of the
  two buffers.

### AccessProofs

* `RotationKeepsTokens` (`KeysInd`): while nothing has diverged, all pods have the
  same keys, a pod in Initialize is the only one and finds Redis empty, and the
  token is accepted by every pod or, when there is none, by the state in Redis
  (`Agree`); a call in progress knows what it read (`CallsKnown`). Assumption: a
  token lives no longer than the grace period.
* `ServiceTokensAreCovered` (`ServiceInd`): the token's key is current, or was
  replaced during the token's life and the loop has yet to record that rotation or
  has the rest of an interval to wait (`TokenCovered`). Assumption: the overlap
  covers the token's life and is shorter than the rotation interval.
* `SessionsAreBounded` (`PlacesBounded`): for every `k` from the limit less one up,
  the rows and the calls that are about to insert, or are still trimming with a
  count of at most `k` (`Ahead(k)`), together stay within `k`, one place per device
  and failure. One bound for each `k` is needed because a DELETE that finds its row
  gone trims nothing.
* `LoginsHaveOneToken` (`HeirsInd`): a login that is not in `split` has one heir,
  which is a valid token or a device that will issue one (`OneHeir`), and a refresh
  knows the login of the token it read (`RefreshesKnow`). Finitely many devices and
  tokens.

### AuctionProofs

The module extends the four models, which share no constant, variable or
definition; every theorem is about the specification of one of them, under the
assumption that module makes on its constants.

* `LosersMoneyIsKept`, `CompletedIsSettled`, `FailuresAreUndone` (`SagaInd`): on the
  way forward, before step `i` the tables hold exactly the steps before it
  (`Forward`); on the way back, while no compensation has failed and no commit is
  on the wire, exactly those still to be undone (`Backward`). `WireQuiet` says that
  only a step that timed out has a commit on the wire, and `HoldsKnown` which losing
  holds are active at each point: on the way back all but those still to be held
  again and the strays. Any number of losers.
* `CreditsAreBounded` (`ConsumerInd`): a credit is charged to a copy of the event
  and to a restart, or to the one pass of the reader that is behind the copy now
  (`CreditsCounted`).
* `EndsAreAnnouncedOnce` (`LifeInd`): while no tick outlives its lock, ticks are
  alone (`TicksAlone`), so the rows on a tick's list are still in the state that put
  them there (`ListsFresh`), and the announcements made, the one an auction that has
  not ended may still get and the one a tick is about to make add up to one, and one
  more for each fault once an UPDATE has failed or the producer retried (`EndsCounted`).
* `BidsAlwaysIncrease`, `HighestBidderIsHeld` (`BidInd`). `BidOrder`: while the lock
  works one call is at work (`CallsAlone`); between calls the cache is empty or holds
  the last bid (`CacheKnows`), current_price is at least the last bid
  (`PriceKnows`), each unless its own writes have failed, so that a bid that passed
  the floor beats the last one (`BidIsNext`). One of the two suffices: that is why
  the property excuses only their joint failure. `BidBooks`: what is missing from a
  wallet is the last bid, the bid about to be written, or the bid outbid and not
  yet released (`HeldKnown`), and what a call read as the highest bid is the one it
  outbids (`HighestSeen`). Hypothesis of `HighestBidderIsHeld`: `FundsSuffice`, every
  wallet can pay two bids at once. Without it the property is false, because
  PlaceBid goes on after a refused hold.

### What is only model-checked

* Liveness (`CallsEnd`, `RequestsReturn`, `SagaEnds`, `EventuallyDelivered`,
  `ExpiredAuctionsEnd`, `WinnersAreAnnounced`, `SellersPaid`, `BreakerCloses`,
  `GatewayRecovers`, the second half of `PoolsOutliveRequests`): fairness and
  ENABLED are beyond the prover.
* The two runs that expect a violation (`HighestBidWins` of `BidPlacement` among
  them) show that a property is false.
* That the inductive invariants are not vacuous: each was evaluated by TLC on
  every reachable state of its module's run before it was proved.

## 5. What is left out

* Events and broadcasts of PlaceBid, the Redis copy of an auction, audit columns,
  timestamps, logging and metrics: no property reads them.
* float64 arithmetic: amounts are whole cents in every model.
* `auction-service` clean-up (`RunCleanup`), which no code starts.
* Reads for display, HTTP decoding, authentication of requests.
* The cached response and the metrics of the breaker, the texts of notifications
  and e-mails, passwords and hashing, the blacklist of access tokens.
* Memory pressure, version routing and the WebSocket pipe of the gateway;
  deposits and withdrawals of the user-service wallet; profiles and
  administration but for deactivation and deletion; `pkg/secrets`; the pools of
  `pkg/pool` that only configure library pools.
* The components marked "not modelled" in `PROJECT.json`.

Behaviour that the models contain and no run states as a property: a refused
hold does not stop a bid; a failed INSERT leaves its hold; Update writes a
reserve price after the auction has started; a failed read of the highest bid
ends an auction without a winner; the LeastBytes balancer spreads one aggregate
over partitions; a second call with the same idempotency key that passed the
look-up changes the balance without an audit row; a second hold of a loser is
skipped by the refund key; a fencing token taken earlier may be granted the lock
later, and nothing compares fencing tokens; the limiter counts each limited
endpoint by itself; an e-mail on its way is forgotten by a restart; auction.ended
replaces the whole search document; BroadcastToAuction waits, with the auction's
lock held, while the hub's channel is full; the proxy repeats POST requests, and
counts a 5xx answer as a success of the breaker; an event published by a request
after the Kafka flush is lost.

## 6. Plan

1. Proofs: every invariant of a passing run is a theorem; next are the other safety
   action properties and the sum form of `HeldTracksHolds`.
2. Composition of `BidPlacement`, `AuctionLifecycle` and `AuctionConsumer`: from
   a bid to the seller's credit over one topic.
3. The user-service wallet as a module of its own, with deposits and withdrawals
   raced by holds; memory pressure and version routing of the gateway.
