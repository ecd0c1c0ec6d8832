---------------------------- MODULE BidPlacement ----------------------------
(***************************************************************************)
(* Concurrent PlaceBid calls of the bid service on one auction              *)
(* (bid-service/internal/service/bid_service.go), over                      *)
(*   - the Redis lock auction_lock:<id> (lock/distributed_lock.go): SETNX   *)
(*     with a TTL of 5 s, released with a plain DEL, no owner, no fencing;  *)
(*   - the Redis cache auction:highest_bid:<id> (redis/redis.go);           *)
(*   - the bids and auctions tables (repository/);                          *)
(*   - the wallet API of the user service (wallet/client.go, and behind it  *)
(*     user-service/internal/service/wallet_service.go), where a hold is a  *)
(*     debit of the only balance and a release a credit of it;              *)
(*   - the auction service's scheduler, which ends the auction without the  *)
(*     bid lock (auction-service/internal/scheduler/scheduler.go).          *)
(*                                                                         *)
(* Every call to Redis, PostgreSQL or the wallet API is one step.           *)
(***************************************************************************)
EXTENDS Integers, Sequences, SequencesExt, FiniteSetsExt

CONSTANTS
    Requests,       \* calls of PlaceBid
    Users,          \* authenticated users
    SellerId,       \* seller_id of the auction
    Amounts,        \* amounts bidders offer
    StartingPrice,  \* current_price of the auction before any bid
    ReservePrice,   \* reserve_price of the auction
    Funds,          \* balance of every wallet before any bid
    BidFaultKinds,  \* what may go wrong: see BidFault
    MaxBidFaults,   \* bound on the faults of one behaviour
    NoId            \* no request, no user

ASSUME BidAssumption ==
    /\ Amounts \subseteq Nat \ {0}
    /\ StartingPrice \in Nat
    /\ ReservePrice \in Nat
    /\ Funds \in Nat
    /\ BidFaultKinds \subseteq {"read", "cache", "price", "hold", "release", "insert", "ack",
                             "unlock", "crash", "slow"}
    /\ MaxBidFaults \in Nat
    /\ NoId \notin Requests \cup Users

VARIABLES
    bidLock,   \* the lock's key; whose SETNX created it is a history value
    cache,     \* the cached highest bid, 0 when there is no key
    bids,      \* the rows of bids, in the order of their INSERTs
    auction,   \* the auction's row
    balance,   \* the wallets
    bidPc,     \* where each request is
    bid,       \* the arguments of each request
    seen,      \* what each request read: current_price, then the highest bid
    ending,    \* the scheduler: what it read about the auction it is ending
    bidFaults  \* faults so far: how many, and of which kinds

bidVars == <<bidLock, cache, bids, auction, balance, bidPc, bid, seen, ending, bidFaults>>

-----------------------------------------------------------------------------
Bid    == [request : Requests, user : Users, amount : Amounts]
NoBid  == [request |-> NoId, user |-> NoId, amount |-> 0]
Prices == Amounts \cup {0, StartingPrice}

\* The places between a successful SETNX and the end of the call.
Working == {"auction", "highest", "hold", "save", "cache", "price", "release", "unlock"}

BidTypeOK ==
    /\ bidLock \in Requests \cup {NoId}
    /\ cache \in Amounts \cup {0}
    /\ bids \in Seq(Bid)
    /\ auction \in [state : {"active", "ended"}, price : Prices, winner : Users \cup {NoId}]
    /\ balance \in [Users -> Nat]
    /\ bidPc \in [Requests -> Working \cup {"new", "done"}]
    /\ bid \in [Requests -> Bid \cup {NoBid}]
    /\ seen \in [Requests -> [price : Prices, highest : Prices]]
    /\ ending \in [found : BOOLEAN, winner : Users \cup {NoId}, amount : Prices]
    /\ bidFaults \in [count : 0 .. MaxBidFaults, kinds : SUBSET BidFaultKinds]

NotSeen   == [price |-> 0, highest |-> 0]
NotEnding == [found |-> FALSE, winner |-> NoId, amount |-> 0]

BidInit ==
    /\ bidLock = NoId
    /\ cache = 0
    /\ bids = << >>
    /\ auction = [state |-> "active", price |-> StartingPrice, winner |-> NoId]
    /\ balance = [u \in Users |-> Funds]
    /\ bidPc = [r \in Requests |-> "new"]
    /\ bid = [r \in Requests |-> NoBid]
    /\ seen = [r \in Requests |-> NotSeen]
    /\ ending = NotEnding
    /\ bidFaults = [count |-> 0, kinds |-> {}]

BidGoto(r, label) == bidPc' = [bidPc EXCEPT ![r] = label]

\* The call is over, and its local variables with it.
Return(r) ==
    /\ BidGoto(r, "done")
    /\ bid' = [bid EXCEPT ![r] = NoBid]
    /\ seen' = [seen EXCEPT ![r] = NotSeen]

\* kind: "read" - a SELECT fails; "cache", "price", "unlock" - the command to Redis or the UPDATE fails;
\* "hold", "release", "insert" - the call fails and changes nothing;
\* "ack" - the call takes effect and its answer is lost; "crash" - the pod dies;
\* "slow" - the lock's TTL passes while its holder still works.
BidFault(kind) ==
    /\ kind \in BidFaultKinds
    /\ bidFaults.count < MaxBidFaults
    /\ bidFaults' = [count |-> bidFaults.count + 1, kinds |-> bidFaults.kinds \cup {kind}]

NoBidFault == UNCHANGED bidFaults

\* The rows of bids in the order of GetHighestBidder and GetHighestBid: ORDER BY
\* amount DESC LIMIT 1, any of the first ones if several have the same amount.
TopBids(rows) == {b \in rows : \A c \in rows : c.amount <= b.amount}

\* COALESCE(MAX(amount), 0)
MaxAmount == Max({b.amount : b \in ToSet(bids)} \cup {0})

-----------------------------------------------------------------------------
(* PlaceBid *)

\* Acquire: SETNX.  A call that finds the key returns ErrAuctionLocked and
\* changes nothing.
Acquire(r) ==
    /\ bidPc[r] = "new"
    /\ bidLock = NoId
    /\ bidLock' = r
    /\ \E u \in Users, a \in Amounts :
           bid' = [bid EXCEPT ![r] = [request |-> r, user |-> u, amount |-> a]]
    /\ BidGoto(r, "auction")
    /\ NoBidFault
    /\ UNCHANGED <<cache, bids, auction, balance, seen, ending>>

\* GetAuctionByID: only active auctions, never the seller's own; end_time is
\* not looked at.
ReadAuction(r) ==
    /\ bidPc[r] = "auction"
    /\ IF auction.state = "active" /\ bid[r].user # SellerId
       THEN /\ BidGoto(r, "highest")
            /\ seen' = [seen EXCEPT ![r].price = auction.price]
       ELSE /\ BidGoto(r, "unlock")
            /\ UNCHANGED seen
    /\ NoBidFault
    /\ UNCHANGED <<bidLock, cache, bids, auction, balance, bid, ending>>

\* Variant: a bid that equals the highest one passes.
BelowFloorNotEqual(amount, price, highest) == amount < price \/ amount < highest

\* req.Amount <= max(current_price, highest bid)
BelowFloor(amount, price, highest) == amount <= price \/ amount <= highest

\* The cached highest bid, or MAX(amount) when there is none or Redis fails.
ReadHighest(r) ==
    /\ bidPc[r] = "highest"
    /\ \E highest \in {IF cache = 0 THEN MaxAmount ELSE cache} :
           /\ seen' = [seen EXCEPT ![r].highest = highest]
           /\ BidGoto(r, IF BelowFloor(bid[r].amount, seen[r].price, highest) THEN "unlock" ELSE "hold")
    /\ NoBidFault
    /\ UNCHANGED <<bidLock, cache, bids, auction, balance, bid, ending>>

ReadHighestFromDB(r) ==
    /\ bidPc[r] = "highest"
    /\ BidFault("cache")
    /\ seen' = [seen EXCEPT ![r].highest = MaxAmount]
    /\ BidGoto(r, IF BelowFloor(bid[r].amount, seen[r].price, MaxAmount) THEN "unlock" ELSE "hold")
    /\ UNCHANGED <<bidLock, cache, bids, auction, balance, bid, ending>>

\* GetAuctionByID or GetHighestBid fails: the call ends with an error.
ReadFails(r) ==
    /\ bidPc[r] \in {"auction", "highest"}
    /\ BidFault("read")
    /\ BidGoto(r, "unlock")
    /\ UNCHANGED <<bidLock, cache, bids, auction, balance, bid, seen, ending>>

\* The user service's wallet: AdjustBalance under SELECT ... FOR UPDATE, which
\* refuses a negative balance; a hold is a debit ...
AdjustBalance(u, delta) ==
    /\ balance[u] + delta >= 0
    /\ balance' = [balance EXCEPT ![u] = @ + delta]

HoldFunds(u, amount) == AdjustBalance(u, -amount)

\* ... and a release a credit: nothing checks that there is a hold.
ReleaseHold(u, amount) == AdjustBalance(u, amount)

\* PlaceBid goes on whether the hold succeeded or not.
Hold(r) ==
    /\ bidPc[r] = "hold"
    /\ \/ /\ NoBidFault \/ BidFault("ack")
          /\ HoldFunds(bid[r].user, bid[r].amount)
       \/ /\ (balance[bid[r].user] < bid[r].amount /\ NoBidFault) \/ BidFault("hold")
          /\ UNCHANGED balance
    /\ BidGoto(r, "save")
    /\ UNCHANGED <<bidLock, cache, bids, auction, bid, seen, ending>>

\* CreateBid.  When the INSERT fails, or seems to, PlaceBid returns an error
\* and does not give the hold back.
CreateBid(r) ==
    /\ bidPc[r] = "save"
    /\ \/ NoBidFault /\ bids' = Append(bids, bid[r]) /\ BidGoto(r, "cache")
       \/ BidFault("ack") /\ bids' = Append(bids, bid[r]) /\ BidGoto(r, "unlock")
       \/ BidFault("insert") /\ UNCHANGED bids /\ BidGoto(r, "unlock")
    /\ UNCHANGED <<bidLock, cache, auction, balance, bid, seen, ending>>

\* SetHighestBid: an unconditional SET whose error is only logged.
SetHighestBid(r) ==
    /\ bidPc[r] = "cache"
    /\ \/ NoBidFault /\ cache' = bid[r].amount
       \/ BidFault("cache") /\ UNCHANGED cache
    /\ BidGoto(r, "price")
    /\ UNCHANGED <<bidLock, bids, auction, balance, bid, seen, ending>>

\* UpdateCurrentPrice: unconditional as well, whatever the auction's state.
\* The Kafka event and the WebSocket broadcast that follow change nothing here.
UpdateCurrentPrice(r) ==
    /\ bidPc[r] = "price"
    /\ \/ NoBidFault /\ auction' = [auction EXCEPT !.price = bid[r].amount]
       \/ BidFault("price") /\ UNCHANGED auction
    /\ BidGoto(r, IF seen[r].highest > 0 THEN "release" ELSE "unlock")
    /\ UNCHANGED <<bidLock, cache, bids, balance, bid, seen, ending>>

\* Variant: the bidder of this request is not left out.
OthersNoExclusion(r) == ToSet(bids)

\* The rows with id != $2.
Others(r) == {b \in ToSet(bids) : b.request # r}

\* GetHighestBidder without the new bid; that user gets the highest bid back,
\* whatever amount was held for it.
ReleasePrevious(r) ==
    /\ bidPc[r] = "release"
    /\ \/ /\ NoBidFault
          /\ \/ /\ Others(r) = {}
                /\ UNCHANGED balance
             \/ \E prev \in TopBids(Others(r)) : ReleaseHold(prev.user, seen[r].highest)
       \/ BidFault("release") /\ UNCHANGED balance
    /\ BidGoto(r, "unlock")
    /\ UNCHANGED <<bidLock, cache, bids, auction, bid, seen, ending>>

\* Release, deferred: DEL of the key, whoever set it.
Release(r) ==
    /\ bidPc[r] = "unlock"
    /\ \/ NoBidFault /\ bidLock' = NoId
       \/ BidFault("unlock") /\ UNCHANGED bidLock
    /\ Return(r)
    /\ UNCHANGED <<cache, bids, auction, balance, ending>>

\* The pod dies; the lock is left to its TTL.
BidCrash(r) ==
    /\ bidPc[r] \in Working
    /\ BidFault("crash")
    /\ Return(r)
    /\ UNCHANGED <<bidLock, cache, bids, auction, balance, ending>>

-----------------------------------------------------------------------------
(* Time *)

\* The lock's TTL passes: after the holder is gone, or while a slow one is still
\* at work.
BidLockExpires ==
    /\ bidLock # NoId
    /\ (bidPc[bidLock] = "done" /\ NoBidFault) \/ (bidPc[bidLock] # "done" /\ BidFault("slow"))
    /\ bidLock' = NoId
    /\ UNCHANGED <<cache, bids, auction, balance, bidPc, bid, seen, ending>>

\* The cache's TTL (2 h) passes, or Redis evicts the key.
CacheExpires ==
    /\ cache # 0
    /\ cache' = 0
    /\ NoBidFault
    /\ UNCHANGED <<bidLock, bids, auction, balance, bidPc, bid, seen, ending>>

-----------------------------------------------------------------------------
(* endAuction of the scheduler: GetHighestBid, then SetWinner or UpdateState *)

ReadWinner ==
    /\ auction.state = "active" /\ ~ending.found
    /\ \/ /\ bids = << >>
          /\ ending' = [NotEnding EXCEPT !.found = TRUE]
       \/ \E top \in TopBids(ToSet(bids)) :
              ending' = [found |-> TRUE, winner |-> top.user, amount |-> top.amount]
    /\ NoBidFault
    /\ UNCHANGED <<bidLock, cache, bids, auction, balance, bidPc, bid, seen>>

EndAuction ==
    /\ ending.found
    /\ auction' = IF ending.winner # NoId /\ ending.amount >= ReservePrice
                  THEN [state |-> "ended", price |-> ending.amount, winner |-> ending.winner]
                  ELSE [auction EXCEPT !.state = "ended"]
    /\ ending' = NotEnding
    /\ NoBidFault
    /\ UNCHANGED <<bidLock, cache, bids, balance, bidPc, bid, seen>>

-----------------------------------------------------------------------------
PlaceBid(r) ==
    \/ ReadAuction(r) \/ ReadHighest(r) \/ ReadHighestFromDB(r) \/ ReadFails(r) \/ Hold(r)
    \/ CreateBid(r) \/ SetHighestBid(r) \/ UpdateCurrentPrice(r) \/ ReleasePrevious(r) \/ Release(r)

BidNext ==
    \/ \E r \in Requests : Acquire(r) \/ PlaceBid(r) \/ BidCrash(r)
    \/ BidLockExpires \/ CacheExpires
    \/ ReadWinner \/ EndAuction

BidSpec == BidInit /\ [][BidNext]_bidVars

-----------------------------------------------------------------------------
InLock == {r \in Requests : bidPc[r] \in Working}

BidMet(kinds) == bidFaults.kinds \cap kinds # {}

\* "bid amount must be higher than current highest bid": every accepted bid is
\* higher than all those accepted before it.  The cache and current_price back
\* each other up: only when both miss a bid (one fails after the other, or the
\* call ends between the INSERT and the two) or the lock fails may it be false.
BidsIncrease ==
    (~BidMet({"slow", "crash", "ack"}) /\ ~(BidMet({"cache"}) /\ BidMet({"price"}))) =>
        \A m, n \in 1 .. Len(bids) : m < n => bids[m].amount < bids[n].amount

Owed(u) == IF \E b \in TopBids(ToSet(bids)) : b.user = u THEN MaxAmount ELSE 0

\* Between calls whose bidders had enough funds, exactly the highest bidder's
\* money is held and no one else's, whatever happened to the reads, to
\* current_price or to the DEL of the lock.  The cache is another matter: the
\* amount given back is the one it remembers.
OnlyHighestBidderHeld ==
    (InLock = {} /\ bidFaults.kinds \subseteq {"read", "price", "unlock"}) =>
        \A u \in Users : balance[u] = Funds - Owed(u)

\* "Winner selection from bids table (highest bid, reserve price)": when the
\* auction has ended and no call is left, no bid beats the winner's.
HighestBidWins ==
    (auction.state = "ended" /\ auction.winner # NoId /\ InLock = {}) =>
        \E b \in TopBids(ToSet(bids)) : b.user = auction.winner
=============================================================================
