------------------------- MODULE PaymentSettlement -------------------------
(***************************************************************************)
(* The live wallet service of the payment service for one auction           *)
(* (payment-service/internal/service/wallet_service.go): Deposit,           *)
(* HoldBalance, and SettleAuction with its ReleaseHold and chargeHold.      *)
(*                                                                         *)
(* SettleAuction reads the active holds OUTSIDE any transaction and then    *)
(* works through that list, one transaction per hold.  chargeHold trusts    *)
(* the list; ReleaseHold re-reads the hold FOR UPDATE.  Each transaction    *)
(* reads its rows under row locks, so it is one atomic step here; the       *)
(* look-ups before it are steps of their own.                               *)
(*                                                                         *)
(* The connection pool is modelled because ReleaseHold asks it for a second *)
(* connection (GetActiveHold) while its transaction already holds one.      *)
(***************************************************************************)
EXTENDS Integers, FiniteSets, FiniteSetsExt

CONSTANTS
    Bidders,        \* users with a wallet
    Winner,         \* winner_id of the settlement requests
    Requests,       \* concurrently running HTTP requests
    ClientKeys,     \* values of the Idempotency-Key header
    HoldIds,        \* fresh UUIDs for bid_holds
    Amounts,        \* amounts callers pass
    InitialBalance, \* available balance every wallet starts with
    MaxBalance,     \* capacity of the NUMERIC(15,2) balance columns
    PoolSize,       \* pgxpool MaxConns
    MayFail,        \* may a transaction fail (lost connection, deadlock victim)?
    None            \* "no row", "no argument"

ASSUME SettlementAssumption ==
    /\ Winner \in Bidders
    /\ Amounts \subseteq Nat \ {0}
    /\ MaxBalance \in Nat
    /\ InitialBalance \in 0 .. MaxBalance
    /\ PoolSize \in Nat \ {0}
    /\ MayFail \in BOOLEAN
    /\ None \notin Bidders \cup HoldIds

VARIABLES
    wallets,    \* wallets table: owner -> balances
    holds,      \* bid_holds table: id -> row
    txns,       \* idempotency keys in the transactions table
    free,       \* idle connections of the pool
    pc,         \* where each request is
    req,        \* the arguments of each request
    todo,       \* the hold rows a settlement still has to work through
    deposited,  \* history: money that entered each wallet
    charged     \* history: money that left each wallet

vars == <<wallets, holds, txns, free, pc, req, todo, deposited, charged>>

-----------------------------------------------------------------------------
Balance == 0 .. MaxBalance

Wallet == [available : Balance, held : Balance]

BidHold == [id : HoldIds, status : {"none", "active", "released", "charged"},
            owner : Bidders \cup {None}, amount : Amounts \cup {0}]

\* "hold:<auction>:<user>" when the header is absent, "refund:<auction>:<user>",
\* "charge:<auction>:<user>", or the header's value; a deposit without the
\* header gets a fresh UUID, which no other request shares.
HoldKeys   == {"hold"} \X Bidders
RefundKeys == {"refund"} \X Bidders
ChargeKeys == {"charge"} \X Bidders
HeaderKeys == {"header"} \X ClientKeys
FreshKey   == <<"fresh", None>>
Keys       == HoldKeys \cup RefundKeys \cup ChargeKeys \cup HeaderKeys

HoldRequests(u)    == [op : {"hold"}, user : {u}, amount : Amounts,
                       key : HeaderKeys \cup {<<"hold", u>>}]
DepositRequests(u) == [op : {"deposit"}, user : {u}, amount : Amounts,
                       key : HeaderKeys \cup {FreshKey}]
WalletRequests     == UNION {HoldRequests(u) \cup DepositRequests(u) : u \in Bidders}

Idle    == "idle"
Checked == "checked"  \* HoldBalance/Deposit: key not found, before the transaction
LoopHead == "next"    \* SettleAuction: at the head of its loop
Refund  == "refund"   \* ReleaseHold: key not found, before BEGIN
InTx    == "inTx"     \* ReleaseHold: transaction open, before GetActiveHold

TypeOK ==
    /\ wallets \in [Bidders -> Wallet]
    /\ holds \in [HoldIds -> BidHold]
    /\ txns \subseteq Keys
    /\ free \in 0 .. PoolSize
    /\ pc \in [Requests -> {Idle, Checked, LoopHead, Refund, InTx}]
    /\ req \in [Requests -> WalletRequests \cup BidHold \cup {None}]
    /\ todo \in [Requests -> SUBSET BidHold]
    /\ deposited \in [Bidders -> Nat]
    /\ charged \in [Bidders -> Nat]

Init ==
    /\ wallets = [u \in Bidders |-> [available |-> InitialBalance, held |-> 0]]
    /\ holds = [h \in HoldIds |-> [id |-> h, status |-> "none", owner |-> None, amount |-> 0]]
    /\ txns = {}
    /\ free = PoolSize
    /\ pc = [r \in Requests |-> Idle]
    /\ req = [r \in Requests |-> None]
    /\ todo = [r \in Requests |-> {}]
    /\ deposited = [u \in Bidders |-> 0]
    /\ charged = [u \in Bidders |-> 0]

\* A query on the pool needs a connection for its own duration.
PoolServes == free > 0

Goto(r, label) == pc' = [pc EXCEPT ![r] = label]

\* INSERT INTO transactions ... ON CONFLICT (idempotency_key) DO NOTHING; the
\* caller does not learn about a conflict.
CreateTransaction(key) == txns' = txns \cup ({key} \cap Keys)

-----------------------------------------------------------------------------
\* Deposit and HoldBalance look their key up before they open a transaction;
\* a key that is found ends the request with success.  An error of the look-up
\* is ignored: the request goes on, and a duplicate is applied again.
CheckKey(r, q) ==
    /\ pc[r] = Idle
    /\ PoolServes
    /\ q.key \notin txns \/ MayFail
    /\ req' = [req EXCEPT ![r] = q]
    /\ Goto(r, Checked)
    /\ UNCHANGED <<wallets, holds, txns, free, todo, deposited, charged>>

Finish(r) ==
    /\ Goto(r, Idle)
    /\ req' = [req EXCEPT ![r] = None]

\* Deposit's transaction, under the lock of the wallet row.
Deposit(r) ==
    LET u == req[r].user
        newAvailable == wallets[u].available + req[r].amount
    IN
    /\ pc[r] = Checked /\ req[r].op = "deposit"
    /\ PoolServes
    /\ newAvailable \in Balance
    /\ wallets' = [wallets EXCEPT ![u].available = newAvailable]
    /\ deposited' = [deposited EXCEPT ![u] = @ + req[r].amount]
    /\ CreateTransaction(req[r].key)
    /\ Finish(r)
    /\ UNCHANGED <<holds, free, todo, charged>>

\* HoldBalance's transaction: the wallet row is locked, checked and updated, the
\* hold and the transaction row inserted.
HoldBalance(r) ==
    LET u == req[r].user
        amount == req[r].amount
    IN
    /\ pc[r] = Checked /\ req[r].op = "hold"
    /\ PoolServes
    /\ wallets[u].available >= amount
    /\ wallets[u].held + amount \in Balance
    /\ \E h \in HoldIds :
          /\ holds[h].status = "none"
          /\ holds' = [holds EXCEPT ![h] =
                 [id |-> h, status |-> "active", owner |-> u, amount |-> amount]]
    /\ wallets' = [wallets EXCEPT ![u] =
           [available |-> @.available - amount, held |-> @.held + amount]]
    /\ CreateTransaction(req[r].key)
    /\ Finish(r)
    /\ UNCHANGED <<free, todo, deposited, charged>>

\* ErrInsufficientBalance, a refused balance, or a failed transaction.
RejectRequest(r) ==
    /\ pc[r] = Checked
    /\ Finish(r)
    /\ UNCHANGED <<wallets, holds, txns, free, todo, deposited, charged>>

-----------------------------------------------------------------------------
ActiveHolds == {holds[h] : h \in {g \in HoldIds : holds[g].status = "active"}}

\* SettleAuction reads the active holds of the auction: a snapshot.
SettleAuction(r) ==
    /\ pc[r] = Idle
    /\ PoolServes
    /\ ActiveHolds # {}
    /\ todo' = [todo EXCEPT ![r] = ActiveHolds]
    /\ Goto(r, LoopHead)
    /\ UNCHANGED <<wallets, holds, txns, free, req, deposited, charged>>

Settled(r) ==
    /\ pc[r] = LoopHead
    /\ todo[r] = {}
    /\ Goto(r, Idle)
    /\ UNCHANGED <<wallets, holds, txns, free, req, todo, deposited, charged>>

\* The winner's hold: the wallet row is locked and re-read, the hold row is
\* not: what is charged is the row of the snapshot.
ChargeHold(r) ==
    \E hold \in todo[r] :
        /\ pc[r] = LoopHead /\ hold.owner = Winner
        /\ PoolServes
        /\ wallets[hold.owner].held >= hold.amount
        /\ wallets' = [wallets EXCEPT ![hold.owner].held = @ - hold.amount]
        /\ holds' = [holds EXCEPT ![hold.id].status = "charged"]
        /\ charged' = [charged EXCEPT ![hold.owner] = @ + hold.amount]
        /\ CreateTransaction(<<"charge", hold.owner>>)
        /\ todo' = [todo EXCEPT ![r] = @ \ {hold}]
        /\ UNCHANGED <<free, pc, req, deposited>>

\* A charge that fails ends the settlement with an error: the holds after it
\* stay as they are.
ChargeHoldFails(r) ==
    \E hold \in todo[r] :
        /\ pc[r] = LoopHead /\ hold.owner = Winner
        /\ MayFail \/ wallets[Winner].held < hold.amount
        /\ todo' = [todo EXCEPT ![r] = {}]
        /\ Goto(r, Idle)
        /\ UNCHANGED <<wallets, holds, txns, free, req, deposited, charged>>

\* A loser's hold: ReleaseHold first looks up refund:<auction>:<bidder>; when
\* it is there the hold counts as refunded.
RefundKeyFound(r) ==
    \E hold \in todo[r] :
        /\ pc[r] = LoopHead /\ hold.owner # Winner
        /\ PoolServes
        /\ <<"refund", hold.owner>> \in txns
        /\ todo' = [todo EXCEPT ![r] = @ \ {hold}]
        /\ UNCHANGED <<wallets, holds, txns, free, pc, req, deposited, charged>>

RefundKeyAbsent(r) ==
    \E hold \in todo[r] :
        /\ pc[r] = LoopHead /\ hold.owner # Winner
        /\ PoolServes
        /\ <<"refund", hold.owner>> \notin txns \/ MayFail
        /\ todo' = [todo EXCEPT ![r] = @ \ {hold}]
        /\ req' = [req EXCEPT ![r] = hold]
        /\ Goto(r, Refund)
        /\ UNCHANGED <<wallets, holds, txns, free, deposited, charged>>

\* BEGIN takes a connection for the length of the transaction.
RefundBegin(r) ==
    /\ pc[r] = Refund
    /\ PoolServes
    /\ free' = free - 1
    /\ Goto(r, InTx)
    /\ UNCHANGED <<wallets, holds, txns, req, todo, deposited, charged>>

\* Variant: the hold is refunded whatever its status.
ReleaseHoldAnyStatus(r) ==
    LET hold == req[r] IN
    /\ pc[r] = InTx
    /\ PoolServes
    /\ wallets[hold.owner].held >= hold.amount
    /\ wallets[hold.owner].available + hold.amount \in Balance
    /\ wallets' = [wallets EXCEPT ![hold.owner] =
           [available |-> @.available + hold.amount, held |-> @.held - hold.amount]]
    /\ holds' = [holds EXCEPT ![hold.id].status = "released"]
    /\ CreateTransaction(<<"refund", hold.owner>>)
    /\ free' = free + 1
    /\ Goto(r, LoopHead)
    /\ req' = [req EXCEPT ![r] = None]
    /\ UNCHANGED <<todo, deposited, charged>>

\* Variant: the balance is restored without being taken out of the held part.
ReleaseHoldCreatesMoney(r) ==
    LET hold == req[r] IN
    /\ pc[r] = InTx
    /\ PoolServes
    /\ holds[hold.id].status = "active"
    /\ wallets[hold.owner].available + hold.amount \in Balance
    /\ wallets' = [wallets EXCEPT ![hold.owner].available = @ + hold.amount]
    /\ holds' = [holds EXCEPT ![hold.id].status = "released"]
    /\ CreateTransaction(<<"refund", hold.owner>>)
    /\ free' = free + 1
    /\ Goto(r, LoopHead)
    /\ req' = [req EXCEPT ![r] = None]
    /\ UNCHANGED <<todo, deposited, charged>>

\* GetActiveHold on the pool (its result is thrown away), SELECT ... AND
\* status = 'active' FOR UPDATE, the new balances, and COMMIT.
ReleaseHold(r) ==
    LET hold == req[r] IN
    /\ pc[r] = InTx
    /\ PoolServes
    /\ holds[hold.id].status = "active"
    /\ wallets[hold.owner].held >= hold.amount
    /\ wallets[hold.owner].available + hold.amount \in Balance
    /\ wallets' = [wallets EXCEPT ![hold.owner] =
           [available |-> @.available + hold.amount, held |-> @.held - hold.amount]]
    /\ holds' = [holds EXCEPT ![hold.id].status = "released"]
    /\ CreateTransaction(<<"refund", hold.owner>>)
    /\ free' = free + 1
    /\ Goto(r, LoopHead)
    /\ req' = [req EXCEPT ![r] = None]
    /\ UNCHANGED <<todo, deposited, charged>>

\* Variant: an error path that forgets tx.Rollback keeps the connection.
ReleaseHoldFailsLeaks(r) ==
    LET hold == req[r] IN
    /\ pc[r] = InTx
    /\ PoolServes
    /\ \/ MayFail
       \/ holds[hold.id].status # "active"
       \/ wallets[hold.owner].held < hold.amount
       \/ wallets[hold.owner].available + hold.amount \notin Balance
    /\ Goto(r, LoopHead)
    /\ req' = [req EXCEPT ![r] = None]
    /\ UNCHANGED <<wallets, holds, txns, free, todo, deposited, charged>>

\* ErrHoldNotFound or a failed transaction: it is logged and the settlement
\* continues with the other holds.
ReleaseHoldFails(r) ==
    LET hold == req[r] IN
    /\ pc[r] = InTx
    /\ PoolServes
    /\ \/ MayFail
       \/ holds[hold.id].status # "active"
       \/ wallets[hold.owner].held < hold.amount
       \/ wallets[hold.owner].available + hold.amount \notin Balance
    /\ free' = free + 1
    /\ Goto(r, LoopHead)
    /\ req' = [req EXCEPT ![r] = None]
    /\ UNCHANGED <<wallets, holds, txns, todo, deposited, charged>>

Serve(r) ==
    \/ Deposit(r)
    \/ HoldBalance(r)
    \/ RejectRequest(r)

Settle(r) ==
    \/ Settled(r)
    \/ ChargeHold(r)
    \/ ChargeHoldFails(r)
    \/ RefundKeyFound(r)
    \/ RefundKeyAbsent(r)
    \/ RefundBegin(r)
    \/ ReleaseHold(r)
    \/ ReleaseHoldFails(r)

Next ==
    \E r \in Requests :
        \/ \E q \in WalletRequests : CheckKey(r, q)
        \/ SettleAuction(r)
        \/ Serve(r)
        \/ Settle(r)

Spec == Init /\ [][Next]_vars

\* The pool hands its connections out in turn, so a request that keeps asking
\* for one is served; nothing obliges a client to send a request.
Fairness == \A r \in Requests : SF_vars(Serve(r)) /\ SF_vars(Settle(r))

FairSpec == Spec /\ Fairness

-----------------------------------------------------------------------------
\* The active holds of a bidder, and what they amount to.
ActiveHoldsOf(u) == {h \in HoldIds : holds[h].status = "active" /\ holds[h].owner = u}

AmountOf == [h \in HoldIds |-> holds[h].amount]

ActiveAmount(u) == SumFunctionOnSet(AmountOf, ActiveHoldsOf(u))

\* No interleaving of deposits, holds and (repeated, raced) settlements creates
\* or destroys money: what is in a wallet and what was charged to it is what
\* was paid in.
MoneyConserved ==
    \A u \in Bidders :
        wallets[u].available + wallets[u].held + charged[u]
            = InitialBalance + deposited[u]

\* A losing bidder's held balance is always the sum of that bidder's active
\* holds: however often and however concurrently the auction is settled, a
\* hold is refunded at most once and is never charged.
LosersHoldsBacked ==
    \A u \in Bidders \ {Winner} :
        charged[u] = 0 /\ wallets[u].held = ActiveAmount(u)

\* Every request returns, as long as the pool is larger than the number of
\* requests served at once: each ReleaseHold holds one connection and needs a
\* second.
RequestsReturn == \A r \in Requests : pc[r] # Idle ~> pc[r] = Idle

\* "Idempotency keys prevent double-charges" (README.md): the winner is never
\* charged more than the amounts of the winner's holds.
NoDoubleCharge ==
    charged[Winner] <=
        SumFunctionOnSet(AmountOf, {h \in HoldIds : holds[h].status = "charged"})
=============================================================================
