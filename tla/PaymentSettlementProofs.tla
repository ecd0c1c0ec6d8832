----------------------- MODULE PaymentSettlementProofs -----------------------
(***************************************************************************)
(* Proofs about PaymentSettlement, for every number of bidders, requests    *)
(* and holds, every pool size and every set of amounts.                     *)
(*                                                                         *)
(* The inductive invariant is IInv.  Neither of the two money properties is *)
(* inductive alone: a step that charges or releases a hold uses the row a   *)
(* settlement read earlier, so the owner and the amount of such a snapshot  *)
(* must be those of the table (Snapshots), whatever has become of the       *)
(* hold's status since.                                                     *)
(***************************************************************************)
EXTENDS PaymentSettlement, DataLemmas

\* A row keeps its id, and a hold that was inserted has an owner and an amount.
Rows ==
    \A h \in HoldIds :
        /\ holds[h].id = h
        /\ holds[h].status # "none" => holds[h].owner \in Bidders /\ holds[h].amount \in Amounts

\* The rows a settlement has in hand: those it still has to work through and
\* the one it is refunding.
InHand(r) == todo[r] \cup (IF pc[r] \in {Refund, InTx} THEN {req[r]} ELSE {})

\* A row in hand names an inserted hold, with its owner and amount.
Snapshots ==
    \A r \in Requests : \A hold \in InHand(r) :
        /\ hold.id \in HoldIds
        /\ holds[hold.id].status # "none"
        /\ hold.owner = holds[hold.id].owner
        /\ hold.amount = holds[hold.id].amount

\* What a request is working on; only a loser's hold is refunded.
RequestsKnown ==
    \A r \in Requests :
        /\ pc[r] = Checked => req[r] \in WalletRequests
        /\ pc[r] \in {Refund, InTx} => req[r].owner # Winner

\* Every connection that is not idle belongs to an open refund transaction.
OpenTxs == {r \in Requests : pc[r] = InTx}

ConnectionsAccounted == IsFiniteSet(OpenTxs) /\ free = PoolSize - Cardinality(OpenTxs)

\* Only finitely many holds are active at a time.
FewActive == \A u \in Bidders : IsFiniteSet(ActiveHoldsOf(u))

Base == TypeOK /\ Rows /\ Snapshots /\ RequestsKnown /\ ConnectionsAccounted

IInv == Base /\ MoneyConserved /\ FewActive /\ LosersHoldsBacked

-----------------------------------------------------------------------------
\* Amounts are positive.
LEMMA AmountsPositive == \A a \in Amounts : a \in Nat /\ a > 0
BY SettlementAssumption

\* The fields of a request of Deposit or HoldBalance.
LEMMA RequestFields ==
    ASSUME NEW q \in WalletRequests
    PROVE  q.user \in Bidders /\ q.amount \in Amounts /\ q.amount \in Nat /\ q.amount > 0
<1>1. PICK u \in Bidders : q \in HoldRequests(u) \cup DepositRequests(u)
  BY DEF WalletRequests
<1>2. q.user = u /\ q.amount \in Amounts
  BY <1>1 DEF HoldRequests, DepositRequests
<1> QED
  BY <1>2, AmountsPositive

\* The fields of a row in hand.
LEMMA HandFields ==
    ASSUME Rows, Snapshots, NEW r \in Requests, NEW hold \in InHand(r)
    PROVE  /\ hold.id \in HoldIds
           /\ hold.owner \in Bidders
           /\ hold.amount \in Amounts /\ hold.amount \in Nat /\ hold.amount > 0
           /\ holds[hold.id].owner = hold.owner
           /\ holds[hold.id].amount = hold.amount
           /\ holds[hold.id].status # "none"
BY AmountsPositive DEF Rows, Snapshots

\* The row a refund works on is one in hand, and a loser's.
LEMMA RefundFields ==
    ASSUME Base, NEW r \in Requests, pc[r] \in {Refund, InTx}
    PROVE  req[r] \in InHand(r) /\ req[r].owner # Winner
BY DEF Base, InHand, RequestsKnown

\* A transaction that opens takes one connection, one that ends gives it back.
LEMMA OpenTxAdded ==
    ASSUME Base, NEW r \in Requests, pc[r] # InTx, pc' = [pc EXCEPT ![r] = InTx],
           free' = free - 1, free > 0
    PROVE  ConnectionsAccounted' /\ free' \in 0 .. PoolSize
<1>1. OpenTxs' = OpenTxs \cup {r} /\ r \notin OpenTxs
  BY DEF OpenTxs, Base, TypeOK
<1>2. IsFiniteSet(OpenTxs') /\ Cardinality(OpenTxs') = Cardinality(OpenTxs) + 1
  BY <1>1, FS_AddElement DEF Base, ConnectionsAccounted
<1>3. Cardinality(OpenTxs) \in Nat
  BY FS_CardinalityType DEF Base, ConnectionsAccounted
<1> QED
  BY <1>2, <1>3, SettlementAssumption DEF Base, TypeOK, ConnectionsAccounted

LEMMA OpenTxRemoved ==
    ASSUME Base, NEW r \in Requests, pc[r] = InTx, NEW label, label # InTx,
           pc' = [pc EXCEPT ![r] = label], free' = free + 1
    PROVE  ConnectionsAccounted' /\ free' \in 0 .. PoolSize
<1>1. OpenTxs' = OpenTxs \ {r} /\ r \in OpenTxs
  BY DEF OpenTxs, Base, TypeOK
<1>2. IsFiniteSet(OpenTxs') /\ Cardinality(OpenTxs') = Cardinality(OpenTxs) - 1
  BY <1>1, FS_RemoveElement DEF Base, ConnectionsAccounted
<1>3. Cardinality(OpenTxs) \in Nat /\ Cardinality(OpenTxs') \in Nat
  BY <1>2, FS_CardinalityType DEF Base, ConnectionsAccounted
<1> QED
  BY <1>2, <1>3, SettlementAssumption DEF Base, TypeOK, ConnectionsAccounted

LEMMA OpenTxKept ==
    ASSUME Base, NEW r \in Requests, pc[r] # InTx, NEW label, label # InTx,
           pc' = [pc EXCEPT ![r] = label], free' = free
    PROVE  ConnectionsAccounted'
<1>1. OpenTxs' = OpenTxs
  BY DEF OpenTxs, Base, TypeOK
<1> QED
  BY <1>1 DEF Base, ConnectionsAccounted

-----------------------------------------------------------------------------
\* The initial state satisfies the invariant.
LEMMA InitIInv == Init => IInv
<1> SUFFICES ASSUME Init PROVE IInv
  OBVIOUS
<1> USE SettlementAssumption DEF Init
<1>1. TypeOK
  BY DEF TypeOK, Wallet, BidHold, Balance, Idle, Checked, LoopHead, Refund, InTx
<1>2. Rows /\ Snapshots /\ RequestsKnown
  BY DEF Rows, Snapshots, RequestsKnown, InHand, Idle, Checked, Refund, InTx
<1>3. ConnectionsAccounted
  <2>1. OpenTxs = {}
    BY DEF OpenTxs, Idle, InTx
  <2> QED
    BY <2>1, FS_EmptySet DEF ConnectionsAccounted
<1>4. MoneyConserved
  BY DEF MoneyConserved
<1>5. \A u \in Bidders : ActiveHoldsOf(u) = {}
  BY DEF ActiveHoldsOf
<1>6. FewActive
  BY <1>5, FS_EmptySet DEF FewActive
<1>7. LosersHoldsBacked
  <2>1. \A u \in Bidders : ActiveAmount(u) = 0
    BY <1>5, FS_EmptySet, SumEquation DEF ActiveAmount
  <2> QED
    BY <2>1 DEF LosersHoldsBacked
<1> QED
  BY <1>1, <1>2, <1>3, <1>4, <1>6, <1>7 DEF IInv, Base

-----------------------------------------------------------------------------
(* Base is preserved. *)

\* Rows in hand stay true of the table while no inserted hold changes its owner
\* or amount and no request takes a new row.
LEMMA SnapshotsKept ==
    ASSUME Snapshots,
           \A h \in HoldIds : holds[h].status # "none" =>
               /\ holds'[h].status # "none"
               /\ holds'[h].owner = holds[h].owner
               /\ holds'[h].amount = holds[h].amount,
           \A s \in Requests : InHand(s)' \subseteq InHand(s)
    PROVE  Snapshots'
BY DEF Snapshots

\* Deposit and HoldBalance: the look-up of the key.
LEMMA CheckKeyBase ==
    ASSUME Base, NEW r \in Requests, NEW q \in WalletRequests, CheckKey(r, q)
    PROVE  Base'
<1> USE DEF CheckKey, Goto, Idle, Checked, LoopHead, Refund, InTx
<1>1. TypeOK'
  BY DEF Base, TypeOK
<1>2. Rows'
  BY DEF Base, Rows
<1>3. Snapshots'
  <2>1. \A s \in Requests : InHand(s)' \subseteq InHand(s)
    BY DEF Base, TypeOK, InHand
  <2> QED
    BY <2>1, SnapshotsKept DEF Base
<1>4. RequestsKnown'
  BY DEF Base, TypeOK, RequestsKnown
<1>5. ConnectionsAccounted'
  BY OpenTxKept
<1> QED
  BY <1>1, <1>2, <1>3, <1>4, <1>5 DEF Base

\* The transaction of Deposit.
LEMMA DepositBase ==
    ASSUME Base, NEW r \in Requests, Deposit(r)
    PROVE  Base'
<1> USE DEF Deposit, Finish, Goto, CreateTransaction, Idle, Checked, LoopHead, Refund, InTx
<1>0. req[r] \in WalletRequests
  BY DEF Base, RequestsKnown
<1>1. req[r].user \in Bidders /\ req[r].amount \in Nat
  BY <1>0, RequestFields
<1>2. TypeOK'
  BY <1>1 DEF Base, TypeOK, Wallet
<1>3. Rows'
  BY DEF Base, Rows
<1>4. Snapshots'
  <2>1. \A s \in Requests : InHand(s)' \subseteq InHand(s)
    BY DEF Base, TypeOK, InHand
  <2> QED
    BY <2>1, SnapshotsKept DEF Base
<1>5. RequestsKnown'
  BY DEF Base, TypeOK, RequestsKnown
<1>6. ConnectionsAccounted'
  BY OpenTxKept
<1> QED
  BY <1>2, <1>3, <1>4, <1>5, <1>6 DEF Base

\* The transaction of HoldBalance inserts a hold under an id that was not used.
LEMMA HoldBalanceBase ==
    ASSUME Base, NEW r \in Requests, HoldBalance(r)
    PROVE  Base'
<1> USE DEF HoldBalance, Finish, Goto, CreateTransaction, Idle, Checked, LoopHead, Refund, InTx
<1>0. req[r] \in WalletRequests
  BY DEF Base, RequestsKnown
<1>1. req[r].user \in Bidders /\ req[r].amount \in Amounts /\ req[r].amount \in Nat
  BY <1>0, RequestFields
<1>2. PICK h \in HoldIds :
         /\ holds[h].status = "none"
         /\ holds' = [holds EXCEPT ![h] =
                [id |-> h, status |-> "active", owner |-> req[r].user, amount |-> req[r].amount]]
  OBVIOUS
<1>3. TypeOK'
  <2>1. holds' \in [HoldIds -> BidHold]
    BY <1>1, <1>2 DEF Base, TypeOK, BidHold
  <2>2. wallets' \in [Bidders -> Wallet]
    <3>1. wallets[req[r].user] \in [available : 0 .. MaxBalance, held : 0 .. MaxBalance]
      BY <1>1 DEF Base, TypeOK, Wallet, Balance
    <3>2. /\ wallets[req[r].user].available - req[r].amount \in Balance
          /\ wallets[req[r].user].held + req[r].amount \in Balance
      BY <1>1, <3>1, SettlementAssumption DEF Balance
    <3> QED
      BY <3>2 DEF Base, TypeOK, Wallet
  <2> QED
    BY <2>1, <2>2 DEF Base, TypeOK
<1>4. Rows'
  BY <1>1, <1>2 DEF Base, TypeOK, Rows
<1>5. Snapshots'
  <2>1. \A s \in Requests : InHand(s)' \subseteq InHand(s)
    BY DEF Base, TypeOK, InHand
  <2>2. \A g \in HoldIds : holds[g].status # "none" => holds'[g] = holds[g]
    BY <1>2 DEF Base, TypeOK
  <2> QED
    BY <2>1, <2>2, SnapshotsKept DEF Base
<1>6. RequestsKnown'
  BY DEF Base, TypeOK, RequestsKnown
<1>7. ConnectionsAccounted'
  BY OpenTxKept
<1> QED
  BY <1>3, <1>4, <1>5, <1>6, <1>7 DEF Base

\* A request that is refused, or fails.
LEMMA RejectRequestBase ==
    ASSUME Base, NEW r \in Requests, RejectRequest(r)
    PROVE  Base'
<1> USE DEF RejectRequest, Finish, Goto, Idle, Checked, LoopHead, Refund, InTx
<1>1. TypeOK' /\ Rows' /\ RequestsKnown'
  BY DEF Base, TypeOK, Rows, RequestsKnown
<1>2. Snapshots'
  <2>1. \A s \in Requests : InHand(s)' \subseteq InHand(s)
    BY DEF Base, TypeOK, InHand
  <2> QED
    BY <2>1, SnapshotsKept DEF Base
<1>3. ConnectionsAccounted'
  BY OpenTxKept
<1> QED
  BY <1>1, <1>2, <1>3 DEF Base

\* The snapshot of SettleAuction holds rows of the table as they are.
LEMMA SettleAuctionBase ==
    ASSUME Base, NEW r \in Requests, SettleAuction(r)
    PROVE  Base'
<1> USE DEF SettleAuction, Goto, Idle, Checked, LoopHead, Refund, InTx
<1>1. ActiveHolds \in SUBSET BidHold
  BY DEF ActiveHolds, Base, TypeOK
<1>2. TypeOK' /\ Rows' /\ RequestsKnown'
  BY <1>1 DEF Base, TypeOK, Rows, RequestsKnown
<1>3. Snapshots'
  <2> SUFFICES ASSUME NEW s \in Requests, NEW hold \in InHand(s)'
               PROVE  /\ hold.id \in HoldIds
                      /\ holds[hold.id].status # "none"
                      /\ hold.owner = holds[hold.id].owner
                      /\ hold.amount = holds[hold.id].amount
    BY DEF Snapshots
  <2>1. CASE s # r
    <3>1. hold \in InHand(s)
      BY <2>1 DEF Base, TypeOK, InHand
    <3> QED
      BY <3>1 DEF Base, Snapshots
  <2>2. CASE s = r
    <3>1. hold \in ActiveHolds
      BY <2>2 DEF Base, TypeOK, InHand
    <3>2. PICK h \in HoldIds : holds[h].status = "active" /\ hold = holds[h]
      BY <3>1 DEF ActiveHolds
    <3> QED
      BY <3>2 DEF Base, Rows
  <2> QED
    BY <2>1, <2>2
<1>4. ConnectionsAccounted'
  BY OpenTxKept
<1> QED
  BY <1>2, <1>3, <1>4 DEF Base

\* The settlement has worked through its snapshot.
LEMMA SettledBase ==
    ASSUME Base, NEW r \in Requests, Settled(r)
    PROVE  Base'
<1> USE DEF Settled, Goto, Idle, Checked, LoopHead, Refund, InTx
<1>1. TypeOK' /\ Rows' /\ RequestsKnown'
  BY DEF Base, TypeOK, Rows, RequestsKnown
<1>2. Snapshots'
  <2>1. \A s \in Requests : InHand(s)' \subseteq InHand(s)
    BY DEF Base, TypeOK, InHand
  <2> QED
    BY <2>1, SnapshotsKept DEF Base
<1>3. ConnectionsAccounted'
  BY OpenTxKept
<1> QED
  BY <1>1, <1>2, <1>3 DEF Base

\* A charge changes the status of a hold, not its owner or amount, even when
\* the hold is no longer active.
LEMMA ChargeHoldBase ==
    ASSUME Base, NEW r \in Requests, ChargeHold(r)
    PROVE  Base'
<1> USE DEF CreateTransaction, Idle, Checked, LoopHead, Refund, InTx
<1>1. PICK hold \in todo[r] :
         /\ pc[r] = LoopHead /\ hold.owner = Winner
         /\ wallets[hold.owner].held >= hold.amount
         /\ wallets' = [wallets EXCEPT ![hold.owner].held = @ - hold.amount]
         /\ holds' = [holds EXCEPT ![hold.id].status = "charged"]
         /\ charged' = [charged EXCEPT ![hold.owner] = @ + hold.amount]
         /\ txns' = txns \cup ({<<"charge", hold.owner>>} \cap Keys)
         /\ todo' = [todo EXCEPT ![r] = @ \ {hold}]
         /\ UNCHANGED <<free, pc, req, deposited>>
  BY DEF ChargeHold
<1>2. hold \in InHand(r)
  BY DEF InHand
<1>3. hold.id \in HoldIds /\ hold.owner \in Bidders /\ hold.amount \in Nat
      /\ holds[hold.id].status # "none"
  BY <1>2, HandFields DEF Base
<1>4. TypeOK'
  <2>1. holds' \in [HoldIds -> BidHold]
    BY <1>1, <1>3 DEF Base, TypeOK, BidHold
  <2>2. wallets' \in [Bidders -> Wallet]
    <3>1. wallets[hold.owner] \in [available : 0 .. MaxBalance, held : 0 .. MaxBalance]
      BY <1>3 DEF Base, TypeOK, Wallet, Balance
    <3>2. wallets[hold.owner].held - hold.amount \in Balance
      BY <1>1, <1>3, <3>1, SettlementAssumption DEF Balance
    <3> QED
      BY <1>1, <3>2 DEF Base, TypeOK, Wallet
  <2>3. charged' \in [Bidders -> Nat]
    BY <1>1, <1>3 DEF Base, TypeOK
  <2> QED
    BY <1>1, <2>1, <2>2, <2>3 DEF Base, TypeOK
<1>5. Rows'
  BY <1>1, <1>3 DEF Base, TypeOK, Rows
<1>6. Snapshots'
  <2>1. \A s \in Requests : InHand(s)' \subseteq InHand(s)
    BY <1>1 DEF Base, TypeOK, InHand
  <2>2. \A g \in HoldIds : holds[g].status # "none" =>
            /\ holds'[g].status # "none"
            /\ holds'[g].owner = holds[g].owner
            /\ holds'[g].amount = holds[g].amount
    BY <1>1 DEF Base, TypeOK, BidHold
  <2> QED
    BY <2>1, <2>2, SnapshotsKept DEF Base
<1>7. RequestsKnown'
  BY <1>1 DEF Base, TypeOK, RequestsKnown
<1>8. ConnectionsAccounted'
  <2>1. OpenTxs' = OpenTxs
    BY <1>1 DEF OpenTxs
  <2> QED
    BY <1>1, <2>1 DEF Base, ConnectionsAccounted
<1> QED
  BY <1>4, <1>5, <1>6, <1>7, <1>8 DEF Base

\* A charge that fails ends the settlement.
LEMMA ChargeHoldFailsBase ==
    ASSUME Base, NEW r \in Requests, ChargeHoldFails(r)
    PROVE  Base'
<1> USE DEF ChargeHoldFails, Goto, Idle, Checked, LoopHead, Refund, InTx
<1>1. TypeOK' /\ Rows' /\ RequestsKnown'
  BY DEF Base, TypeOK, Rows, RequestsKnown
<1>2. Snapshots'
  <2>1. \A s \in Requests : InHand(s)' \subseteq InHand(s)
    BY DEF Base, TypeOK, InHand
  <2> QED
    BY <2>1, SnapshotsKept DEF Base
<1>3. ConnectionsAccounted'
  BY OpenTxKept
<1> QED
  BY <1>1, <1>2, <1>3 DEF Base

\* A loser whose refund key is there is passed over.
LEMMA RefundKeyFoundBase ==
    ASSUME Base, NEW r \in Requests, RefundKeyFound(r)
    PROVE  Base'
<1> USE DEF RefundKeyFound, Idle, Checked, LoopHead, Refund, InTx
<1>1. TypeOK' /\ Rows' /\ RequestsKnown'
  BY DEF Base, TypeOK, Rows, RequestsKnown
<1>2. Snapshots'
  <2>1. \A s \in Requests : InHand(s)' \subseteq InHand(s)
    BY DEF Base, TypeOK, InHand
  <2> QED
    BY <2>1, SnapshotsKept DEF Base
<1>3. ConnectionsAccounted'
  <2>1. OpenTxs' = OpenTxs
    BY DEF OpenTxs
  <2> QED
    BY <2>1 DEF Base, ConnectionsAccounted
<1> QED
  BY <1>1, <1>2, <1>3 DEF Base

\* The row to refund was in hand and stays in hand.
LEMMA RefundKeyAbsentBase ==
    ASSUME Base, NEW r \in Requests, RefundKeyAbsent(r)
    PROVE  Base'
<1> USE DEF Goto, Idle, Checked, LoopHead, Refund, InTx
<1>1. PICK hold \in todo[r] :
         /\ pc[r] = LoopHead /\ hold.owner # Winner
         /\ todo' = [todo EXCEPT ![r] = @ \ {hold}]
         /\ req' = [req EXCEPT ![r] = hold]
         /\ pc' = [pc EXCEPT ![r] = Refund]
         /\ UNCHANGED <<wallets, holds, txns, free, deposited, charged>>
  BY DEF RefundKeyAbsent
<1>2. TypeOK' /\ Rows' /\ RequestsKnown'
  BY <1>1 DEF Base, TypeOK, Rows, RequestsKnown
<1>3. Snapshots'
  <2>1. \A s \in Requests : InHand(s)' \subseteq InHand(s)
    BY <1>1 DEF Base, TypeOK, InHand
  <2> QED
    BY <1>1, <2>1, SnapshotsKept DEF Base
<1>4. ConnectionsAccounted'
  BY <1>1, OpenTxKept
<1> QED
  BY <1>2, <1>3, <1>4 DEF Base

\* BEGIN takes a connection.
LEMMA RefundBeginBase ==
    ASSUME Base, NEW r \in Requests, RefundBegin(r)
    PROVE  Base'
<1> USE DEF RefundBegin, PoolServes, Goto, Idle, Checked, LoopHead, Refund, InTx
<1>1. ConnectionsAccounted' /\ free' \in 0 .. PoolSize
  BY OpenTxAdded
<1>2. TypeOK' /\ Rows' /\ RequestsKnown'
  BY <1>1 DEF Base, TypeOK, Rows, RequestsKnown
<1>3. Snapshots'
  <2>1. \A s \in Requests : InHand(s)' \subseteq InHand(s)
    BY DEF Base, TypeOK, InHand
  <2> QED
    BY <2>1, SnapshotsKept DEF Base
<1> QED
  BY <1>1, <1>2, <1>3 DEF Base

\* The transaction of a refund gives its connection back.
LEMMA ReleaseHoldBase ==
    ASSUME Base, NEW r \in Requests, ReleaseHold(r)
    PROVE  Base'
<1> USE DEF ReleaseHold, CreateTransaction, Goto, Idle, Checked, LoopHead, Refund, InTx
<1>1. req[r] \in InHand(r)
  BY RefundFields
<1>2. req[r].id \in HoldIds /\ req[r].owner \in Bidders /\ req[r].amount \in Nat
  BY <1>1, HandFields DEF Base
<1>3. ConnectionsAccounted' /\ free' \in 0 .. PoolSize
  BY OpenTxRemoved
<1>4. TypeOK'
  <2>1. holds' \in [HoldIds -> BidHold]
    BY <1>2 DEF Base, TypeOK, BidHold
  <2>2. wallets' \in [Bidders -> Wallet]
    <3>1. wallets[req[r].owner] \in [available : 0 .. MaxBalance, held : 0 .. MaxBalance]
      BY <1>2 DEF Base, TypeOK, Wallet, Balance
    <3>2. /\ wallets[req[r].owner].held - req[r].amount \in Balance
          /\ wallets[req[r].owner].available + req[r].amount \in Balance
      BY <1>2, <3>1, SettlementAssumption DEF Balance
    <3> QED
      BY <3>2 DEF Base, TypeOK, Wallet
  <2> QED
    BY <1>3, <2>1, <2>2 DEF Base, TypeOK
<1>5. Rows'
  BY <1>2 DEF Base, TypeOK, Rows
<1>6. Snapshots'
  <2>1. \A s \in Requests : InHand(s)' \subseteq InHand(s)
    BY DEF Base, TypeOK, InHand
  <2>2. \A g \in HoldIds : holds[g].status # "none" =>
            /\ holds'[g].status # "none"
            /\ holds'[g].owner = holds[g].owner
            /\ holds'[g].amount = holds[g].amount
    BY DEF Base, TypeOK, BidHold
  <2> QED
    BY <2>1, <2>2, SnapshotsKept DEF Base
<1>7. RequestsKnown'
  BY DEF Base, TypeOK, RequestsKnown
<1> QED
  BY <1>3, <1>4, <1>5, <1>6, <1>7 DEF Base

\* A refund that fails gives its connection back as well.
LEMMA ReleaseHoldFailsBase ==
    ASSUME Base, NEW r \in Requests, ReleaseHoldFails(r)
    PROVE  Base'
<1> USE DEF ReleaseHoldFails, Goto, Idle, Checked, LoopHead, Refund, InTx
<1>1. ConnectionsAccounted' /\ free' \in 0 .. PoolSize
  BY OpenTxRemoved
<1>2. TypeOK' /\ Rows' /\ RequestsKnown'
  BY <1>1 DEF Base, TypeOK, Rows, RequestsKnown
<1>3. Snapshots'
  <2>1. \A s \in Requests : InHand(s)' \subseteq InHand(s)
    BY DEF Base, TypeOK, InHand
  <2> QED
    BY <2>1, SnapshotsKept DEF Base
<1> QED
  BY <1>1, <1>2, <1>3 DEF Base

\* Every step preserves Base.
LEMMA NextBase == Base /\ [Next]_vars => Base'
<1> SUFFICES ASSUME Base, [Next]_vars PROVE Base'
  OBVIOUS
<1>1. CASE UNCHANGED vars
  <2>1. \A s \in Requests : InHand(s)' = InHand(s)
    BY <1>1 DEF vars, InHand
  <2>2. OpenTxs' = OpenTxs
    BY <1>1 DEF vars, OpenTxs
  <2> QED
    BY <1>1, <2>1, <2>2
       DEF vars, Base, TypeOK, Rows, Snapshots, RequestsKnown, ConnectionsAccounted
<1>2. CASE Next
  <2> PICK r \in Requests :
         \/ \E q \in WalletRequests : CheckKey(r, q)
         \/ SettleAuction(r)
         \/ Serve(r)
         \/ Settle(r)
    BY <1>2 DEF Next
  <2> QED
    BY CheckKeyBase, SettleAuctionBase, DepositBase, HoldBalanceBase, RejectRequestBase,
       SettledBase, ChargeHoldBase, ChargeHoldFailsBase, RefundKeyFoundBase,
       RefundKeyAbsentBase, RefundBeginBase, ReleaseHoldBase, ReleaseHoldFailsBase
       DEF Serve, Settle
<1> QED
  BY <1>1, <1>2

-----------------------------------------------------------------------------
(* The money. *)

\* A step that moves no money and changes no hold.
LEMMA NothingMoved ==
    ASSUME IInv, UNCHANGED <<wallets, holds, deposited, charged>>
    PROVE  MoneyConserved' /\ FewActive' /\ LosersHoldsBacked'
<1>1. \A u \in Bidders : ActiveHoldsOf(u)' = ActiveHoldsOf(u)
  BY DEF ActiveHoldsOf
<1>2. AmountOf' = AmountOf
  BY DEF AmountOf
<1> QED
  BY <1>1, <1>2 DEF IInv, MoneyConserved, FewActive, LosersHoldsBacked, ActiveAmount

\* The amounts that are summed are integers.
LEMMA AmountsInt ==
    ASSUME TypeOK
    PROVE  \A h \in HoldIds : AmountOf[h] = holds[h].amount /\ AmountOf[h] \in Int
BY AmountsPositive DEF TypeOK, BidHold, AmountOf

\* The active holds of a bidder whose holds a step leaves alone keep their sum.
LEMMA SameAmount ==
    ASSUME TypeOK, TypeOK', NEW u \in Bidders, IsFiniteSet(ActiveHoldsOf(u)),
           ActiveHoldsOf(u)' = ActiveHoldsOf(u),
           \A h \in ActiveHoldsOf(u) : holds'[h].amount = holds[h].amount
    PROVE  ActiveAmount(u)' = ActiveAmount(u)
<1>1. \A h \in ActiveHoldsOf(u) : AmountOf'[h] = AmountOf[h]
  BY DEF AmountOf, ActiveHoldsOf
<1>2. SumFunctionOnSet(AmountOf', ActiveHoldsOf(u)) = SumFunctionOnSet(AmountOf, ActiveHoldsOf(u))
  BY <1>1, SumAgree
<1> QED
  BY <1>2 DEF ActiveAmount

\* A deposit raises the wallet and what was paid in.
LEMMA DepositMoney ==
    ASSUME IInv, NEW r \in Requests, Deposit(r)
    PROVE  MoneyConserved' /\ FewActive' /\ LosersHoldsBacked'
<1> USE DEF Deposit
<1>1. req[r].user \in Bidders /\ req[r].amount \in Nat
  BY RequestFields DEF IInv, Base, RequestsKnown
<1>2. MoneyConserved'
  <2> DEFINE v == req[r].user
             amount == req[r].amount
  <2>1. /\ wallets'[v].available = wallets[v].available + amount
        /\ wallets'[v].held = wallets[v].held
        /\ \A u \in Bidders \ {v} : wallets'[u] = wallets[u]
        /\ \A u \in Bidders : wallets[u].available \in Nat /\ wallets[u].held \in Nat
    BY <1>1, SettlementAssumption DEF IInv, Base, TypeOK, Wallet, Balance
  <2>2. /\ deposited'[v] = deposited[v] + amount
        /\ \A u \in Bidders \ {v} : deposited'[u] = deposited[u]
        /\ \A u \in Bidders : deposited[u] \in Nat /\ charged[u] \in Nat
    BY <1>1 DEF IInv, Base, TypeOK
  <2>3. MoneyConserved /\ charged' = charged /\ InitialBalance \in Nat
    BY SettlementAssumption DEF IInv
  <2>4. v \in Bidders /\ amount \in Nat
    BY <1>1
  <2> HIDE DEF v, amount, Deposit
  <2> QED
    BY <2>1, <2>2, <2>3, <2>4 DEF MoneyConserved
<1>3. \A u \in Bidders : ActiveHoldsOf(u)' = ActiveHoldsOf(u) /\ ActiveAmount(u)' = ActiveAmount(u)
  BY DEF ActiveHoldsOf, ActiveAmount, AmountOf
<1>4. \A u \in Bidders : wallets'[u].held = wallets[u].held
  BY <1>1 DEF IInv, Base, TypeOK, Wallet
<1> QED
  BY <1>2, <1>3, <1>4 DEF IInv, FewActive, LosersHoldsBacked

\* A hold moves its amount within the wallet and adds itself to the active
\* holds of its owner.
LEMMA HoldBalanceMoney ==
    ASSUME IInv, TypeOK', NEW r \in Requests, HoldBalance(r)
    PROVE  MoneyConserved' /\ FewActive' /\ LosersHoldsBacked'
<1> USE DEF HoldBalance
<1>a. PICK v, amount : v = req[r].user /\ amount = req[r].amount
  OBVIOUS
<1>1. v \in Bidders /\ amount \in Nat
  BY <1>a, RequestFields DEF IInv, Base, RequestsKnown
<1>2. PICK h \in HoldIds :
         /\ holds[h].status = "none"
         /\ holds' = [holds EXCEPT ![h] =
                [id |-> h, status |-> "active", owner |-> v, amount |-> amount]]
  BY <1>a
<1>3. /\ wallets'[v].available = wallets[v].available - amount
      /\ wallets'[v].held = wallets[v].held + amount
      /\ \A u \in Bidders \ {v} : wallets'[u] = wallets[u]
      /\ \A u \in Bidders : wallets[u].available \in Nat /\ wallets[u].held \in Nat
  BY <1>a, <1>1, SettlementAssumption DEF IInv, Base, TypeOK, Wallet, Balance
<1>4. charged' = charged /\ deposited' = deposited
  OBVIOUS
<1>5. TypeOK /\ MoneyConserved /\ FewActive /\ LosersHoldsBacked
  BY DEF IInv, Base
<1>6. holds'[h].status = "active" /\ holds'[h].owner = v /\ holds'[h].amount = amount
      /\ \A g \in HoldIds \ {h} : holds'[g] = holds[g]
  BY <1>2, <1>5 DEF TypeOK
<1> HIDE DEF HoldBalance
<1>7. MoneyConserved'
  BY <1>1, <1>3, <1>4, <1>5, SettlementAssumption DEF TypeOK, MoneyConserved
<1>8. h \notin ActiveHoldsOf(v) /\ ActiveHoldsOf(v)' = ActiveHoldsOf(v) \cup {h}
  <2>1. h \notin ActiveHoldsOf(v)
    BY <1>2 DEF ActiveHoldsOf
  <2>2. \A g \in HoldIds : g \in ActiveHoldsOf(v)' <=> g = h \/ g \in ActiveHoldsOf(v)
    BY <1>2, <1>6 DEF ActiveHoldsOf
  <2>3. ActiveHoldsOf(v) \subseteq HoldIds /\ ActiveHoldsOf(v)' \subseteq HoldIds
    BY DEF ActiveHoldsOf
  <2> QED
    BY <2>1, <2>2, <2>3
<1>9. IsFiniteSet(ActiveHoldsOf(v)') /\ ActiveAmount(v)' = ActiveAmount(v) + amount
  <2>1. \A g \in ActiveHoldsOf(v) : AmountOf[g] \in Int /\ AmountOf'[g] = AmountOf[g]
    BY <1>2, <1>5, <1>6, AmountsInt DEF AmountOf, ActiveHoldsOf
  <2>2. AmountOf'[h] = amount
    BY <1>6 DEF AmountOf
  <2>3. IsFiniteSet(ActiveHoldsOf(v))
    BY <1>1, <1>5 DEF FewActive
  <2>4. AmountOf'[h] \in Int
    BY <1>1, <2>2
  <2>5. IsFiniteSet(ActiveHoldsOf(v)')
    BY <1>8, <2>3, FS_AddElement
  <2>6. SumFunctionOnSet(AmountOf', ActiveHoldsOf(v)')
          = SumFunctionOnSet(AmountOf, ActiveHoldsOf(v)) + AmountOf'[h]
    <3>1. h \in ActiveHoldsOf(v)' /\ ActiveHoldsOf(v) = ActiveHoldsOf(v)' \ {h}
      BY <1>8
    <3> QED
      BY <2>1, <2>3, <2>4, <3>1, SumAdded
  <2> QED
    BY <2>2, <2>5, <2>6 DEF ActiveAmount
<1>10. \A u \in Bidders \ {v} : ActiveHoldsOf(u)' = ActiveHoldsOf(u) /\ ActiveAmount(u)' = ActiveAmount(u)
  <2> SUFFICES ASSUME NEW u \in Bidders \ {v}
               PROVE  ActiveHoldsOf(u)' = ActiveHoldsOf(u) /\ ActiveAmount(u)' = ActiveAmount(u)
    OBVIOUS
  <2>1. ActiveHoldsOf(u)' = ActiveHoldsOf(u)
    BY <1>2, <1>6 DEF ActiveHoldsOf
  <2>2. \A g \in ActiveHoldsOf(u) : holds'[g].amount = holds[g].amount
    BY <1>2, <1>6 DEF ActiveHoldsOf
  <2> QED
    BY <1>5, <2>1, <2>2, SameAmount DEF FewActive
<1>11. FewActive'
  <2>1. \A u \in Bidders \ {v} : IsFiniteSet(ActiveHoldsOf(u)')
    BY <1>5, <1>10 DEF FewActive
  <2> QED
    BY <1>9, <2>1 DEF FewActive
<1>12. LosersHoldsBacked'
  <2>1. \A u \in Bidders \ {Winner} : wallets[u].held = ActiveAmount(u) /\ charged[u] = 0
    BY <1>5 DEF LosersHoldsBacked
  <2>2. \A u \in Bidders \ {Winner, v} : wallets'[u].held = ActiveAmount(u)'
    BY <1>3, <1>10, <2>1
  <2>3. v # Winner => wallets'[v].held = ActiveAmount(v)'
    BY <1>1, <1>3, <1>9, <2>1
  <2> QED
    BY <1>4, <2>1, <2>2, <2>3 DEF LosersHoldsBacked
<1> QED
  BY <1>7, <1>11, <1>12

\* A charge takes money of the winner only, whose holds no loser's sum counts.
LEMMA ChargeHoldMoney ==
    ASSUME IInv, TypeOK', NEW r \in Requests, ChargeHold(r)
    PROVE  MoneyConserved' /\ FewActive' /\ LosersHoldsBacked'
<1>1. PICK hold \in todo[r] :
         /\ hold.owner = Winner
         /\ wallets[hold.owner].held >= hold.amount
         /\ wallets' = [wallets EXCEPT ![hold.owner].held = @ - hold.amount]
         /\ holds' = [holds EXCEPT ![hold.id].status = "charged"]
         /\ charged' = [charged EXCEPT ![hold.owner] = @ + hold.amount]
         /\ deposited' = deposited
  BY DEF ChargeHold
<1>2. hold \in InHand(r)
  BY DEF InHand
<1>3. hold.id \in HoldIds /\ hold.amount \in Nat /\ holds[hold.id].owner = Winner
  BY <1>1, <1>2, HandFields DEF IInv, Base
<1>4. TypeOK /\ MoneyConserved /\ FewActive /\ LosersHoldsBacked
  BY DEF IInv, Base
<1>5. /\ wallets'[Winner].held = wallets[Winner].held - hold.amount
      /\ wallets'[Winner].available = wallets[Winner].available
      /\ charged'[Winner] = charged[Winner] + hold.amount
      /\ \A u \in Bidders \ {Winner} : wallets'[u] = wallets[u] /\ charged'[u] = charged[u]
      /\ \A u \in Bidders : wallets[u].available \in Nat /\ wallets[u].held \in Nat /\ charged[u] \in Nat
  BY <1>1, <1>4, SettlementAssumption DEF TypeOK, Wallet, Balance
<1>6. MoneyConserved'
  <2>1. \A u \in Bidders : deposited[u] \in Nat
    BY <1>4 DEF TypeOK
  <2>2. InitialBalance \in Nat /\ Winner \in Bidders /\ deposited' = deposited /\ hold.amount \in Nat
    BY <1>1, <1>3, SettlementAssumption
  <2> QED
    BY <1>4, <1>5, <2>1, <2>2 DEF MoneyConserved
<1>7. /\ \A h \in HoldIds \ {hold.id} : holds'[h] = holds[h]
      /\ \A h \in HoldIds : holds'[h].owner = holds[h].owner /\ holds'[h].amount = holds[h].amount
      /\ holds'[hold.id].status = "charged"
  BY <1>1, <1>3, <1>4 DEF TypeOK, BidHold
<1>8. IsFiniteSet(ActiveHoldsOf(Winner)')
  <2>1. ActiveHoldsOf(Winner)' = ActiveHoldsOf(Winner) \ {hold.id}
    BY <1>3, <1>7 DEF ActiveHoldsOf
  <2> QED
    BY <1>4, <2>1, FS_RemoveElement, SettlementAssumption DEF FewActive
<1>9. \A u \in Bidders \ {Winner} : ActiveHoldsOf(u)' = ActiveHoldsOf(u) /\ ActiveAmount(u)' = ActiveAmount(u)
  <2> SUFFICES ASSUME NEW u \in Bidders \ {Winner}
               PROVE  ActiveHoldsOf(u)' = ActiveHoldsOf(u) /\ ActiveAmount(u)' = ActiveAmount(u)
    OBVIOUS
  <2>1. ActiveHoldsOf(u)' = ActiveHoldsOf(u)
    BY <1>3, <1>7 DEF ActiveHoldsOf
  <2>2. \A h \in ActiveHoldsOf(u) : holds'[h].amount = holds[h].amount
    BY <1>7 DEF ActiveHoldsOf
  <2> QED
    BY <1>4, <2>1, <2>2, SameAmount DEF FewActive
<1>10. FewActive'
  BY <1>4, <1>8, <1>9 DEF FewActive
<1>11. LosersHoldsBacked'
  BY <1>4, <1>5, <1>9 DEF LosersHoldsBacked
<1> QED
  BY <1>6, <1>10, <1>11

\* A refund moves its amount back within a loser's wallet and takes its hold out
\* of that loser's active ones.
LEMMA ReleaseHoldMoney ==
    ASSUME IInv, TypeOK', NEW r \in Requests, ReleaseHold(r)
    PROVE  MoneyConserved' /\ FewActive' /\ LosersHoldsBacked'
<1>a. PICK v, amount, h : v = req[r].owner /\ amount = req[r].amount /\ h = req[r].id
  OBVIOUS
<1>1. /\ pc[r] = InTx
      /\ holds[h].status = "active"
      /\ wallets[v].held >= amount
      /\ wallets' = [wallets EXCEPT ![v] =
             [available |-> @.available + amount, held |-> @.held - amount]]
      /\ holds' = [holds EXCEPT ![h].status = "released"]
      /\ charged' = charged /\ deposited' = deposited
  BY <1>a DEF ReleaseHold
<1>2. h \in HoldIds /\ v \in Bidders /\ amount \in Nat /\ v # Winner
      /\ holds[h].owner = v /\ holds[h].amount = amount
  BY <1>a, <1>1, RefundFields, HandFields DEF IInv, Base
<1>3. TypeOK /\ MoneyConserved /\ FewActive /\ LosersHoldsBacked
  BY DEF IInv, Base
<1>4. /\ wallets'[v].available = wallets[v].available + amount
      /\ wallets'[v].held = wallets[v].held - amount
      /\ \A u \in Bidders \ {v} : wallets'[u] = wallets[u]
      /\ \A u \in Bidders : wallets[u].available \in Nat /\ wallets[u].held \in Nat
  BY <1>1, <1>2, <1>3, SettlementAssumption DEF TypeOK, Wallet, Balance
<1>5. /\ \A g \in HoldIds \ {h} : holds'[g] = holds[g]
      /\ \A g \in HoldIds : holds'[g].owner = holds[g].owner /\ holds'[g].amount = holds[g].amount
      /\ holds'[h].status = "released"
  BY <1>1, <1>2, <1>3 DEF TypeOK, BidHold
<1>6. MoneyConserved'
  <2>1. \A u \in Bidders : deposited[u] \in Nat /\ charged[u] \in Nat
    BY <1>3 DEF TypeOK
  <2>2. InitialBalance \in Nat
    BY SettlementAssumption
  <2> QED
    BY <1>1, <1>2, <1>3, <1>4, <2>1, <2>2 DEF MoneyConserved
<1>7. h \in ActiveHoldsOf(v) /\ ActiveHoldsOf(v)' = ActiveHoldsOf(v) \ {h}
  <2>1. h \in ActiveHoldsOf(v)
    BY <1>1, <1>2 DEF ActiveHoldsOf
  <2>2. \A g \in HoldIds : g \in ActiveHoldsOf(v)' <=> g # h /\ g \in ActiveHoldsOf(v)
    BY <1>2, <1>5 DEF ActiveHoldsOf
  <2>3. ActiveHoldsOf(v) \subseteq HoldIds /\ ActiveHoldsOf(v)' \subseteq HoldIds
    BY DEF ActiveHoldsOf
  <2> QED
    BY <2>1, <2>2, <2>3
<1>8. /\ IsFiniteSet(ActiveHoldsOf(v)')
      /\ ActiveAmount(v) \in Int
      /\ ActiveAmount(v)' = ActiveAmount(v) - amount
  <2>1. \A g \in ActiveHoldsOf(v) : AmountOf[g] \in Int /\ AmountOf'[g] = AmountOf[g]
    BY <1>3, <1>5, AmountsInt DEF AmountOf, ActiveHoldsOf
  <2>2. AmountOf[h] = amount
    BY <1>2 DEF AmountOf
  <2>3. IsFiniteSet(ActiveHoldsOf(v))
    BY <1>2, <1>3 DEF FewActive
  <2>4. \A g \in ActiveHoldsOf(v)' : AmountOf'[g] = AmountOf[g]
    BY <1>7, <2>1
  <2> QED
    BY <1>7, <2>1, <2>2, <2>3, <2>4, SumTakenOut DEF ActiveAmount
<1>9. \A u \in Bidders \ {v} : ActiveHoldsOf(u)' = ActiveHoldsOf(u) /\ ActiveAmount(u)' = ActiveAmount(u)
  <2> SUFFICES ASSUME NEW u \in Bidders \ {v}
               PROVE  ActiveHoldsOf(u)' = ActiveHoldsOf(u) /\ ActiveAmount(u)' = ActiveAmount(u)
    OBVIOUS
  <2>1. ActiveHoldsOf(u)' = ActiveHoldsOf(u)
    BY <1>2, <1>5 DEF ActiveHoldsOf
  <2>2. \A g \in ActiveHoldsOf(u) : holds'[g].amount = holds[g].amount
    BY <1>5 DEF ActiveHoldsOf
  <2> QED
    BY <1>3, <2>1, <2>2, SameAmount DEF FewActive
<1>10. FewActive'
  <2>1. \A u \in Bidders \ {v} : IsFiniteSet(ActiveHoldsOf(u)')
    BY <1>3, <1>9 DEF FewActive
  <2> QED
    BY <1>8, <2>1 DEF FewActive
<1>11. LosersHoldsBacked'
  <2>1. \A u \in Bidders \ {Winner} : wallets[u].held = ActiveAmount(u) /\ charged[u] = 0
    BY <1>3 DEF LosersHoldsBacked
  <2>2. \A u \in Bidders \ {Winner, v} : wallets'[u].held = ActiveAmount(u)'
    BY <1>4, <1>9, <2>1
  <2>3. wallets'[v].held = ActiveAmount(v)'
    BY <1>2, <1>4, <1>8, <2>1
  <2> QED
    BY <1>1, <2>1, <2>2, <2>3 DEF LosersHoldsBacked
<1> QED
  BY <1>6, <1>10, <1>11

\* Every other step moves no money.
LEMMA NextMoney ==
    ASSUME IInv, TypeOK', [Next]_vars
    PROVE  MoneyConserved' /\ FewActive' /\ LosersHoldsBacked'
<1>1. CASE UNCHANGED <<wallets, holds, deposited, charged>>
  BY <1>1, NothingMoved
<1>2. CASE \E r \in Requests : Deposit(r) \/ HoldBalance(r) \/ ChargeHold(r) \/ ReleaseHold(r)
  BY <1>2, DepositMoney, HoldBalanceMoney, ChargeHoldMoney, ReleaseHoldMoney
<1>3. CASE vars' = vars
  BY <1>1, <1>3 DEF vars
<1>4. CASE Next
  <2> PICK r \in Requests :
         \/ \E q \in WalletRequests : CheckKey(r, q)
         \/ SettleAuction(r)
         \/ Serve(r)
         \/ Settle(r)
    BY <1>4 DEF Next
  <2>1. CASE \/ \E q \in WalletRequests : CheckKey(r, q)
             \/ SettleAuction(r)
             \/ RejectRequest(r)
    BY <1>1, <2>1 DEF CheckKey, SettleAuction, RejectRequest
  <2>2. CASE Settled(r) \/ ChargeHoldFails(r) \/ RefundKeyFound(r) \/ RefundKeyAbsent(r)
    BY <1>1, <2>2 DEF Settled, ChargeHoldFails, RefundKeyFound, RefundKeyAbsent
  <2>3. CASE RefundBegin(r) \/ ReleaseHoldFails(r)
    BY <1>1, <2>3 DEF RefundBegin, ReleaseHoldFails
  <2>4. CASE Deposit(r) \/ HoldBalance(r) \/ ChargeHold(r) \/ ReleaseHold(r)
    BY <1>2, <2>4
  <2> QED
    BY <2>1, <2>2, <2>3, <2>4 DEF Serve, Settle
<1> QED
  BY <1>3, <1>4

-----------------------------------------------------------------------------
\* IInv holds in every reachable state.
LEMMA Inductive == Spec => []IInv
<1>1. IInv /\ [Next]_vars => IInv'
  <2> SUFFICES ASSUME IInv, [Next]_vars PROVE IInv'
    OBVIOUS
  <2>1. Base'
    BY NextBase DEF IInv
  <2>2. MoneyConserved' /\ FewActive' /\ LosersHoldsBacked'
    BY <2>1, NextMoney DEF Base
  <2> QED
    BY <2>1, <2>2 DEF IInv
<1> QED
  BY InitIInv, <1>1, PTL DEF Spec

\* Balances stay within the columns' capacity, rows within their domains and
\* the pool within its size, in every execution of wallet_service.go's
\* Deposit, HoldBalance and SettleAuction.
THEOREM TypeCorrect == Spec => []TypeOK
<1>1. IInv => TypeOK
  BY DEF IInv, Base
<1> QED
  BY <1>1, Inductive, PTL

\* No execution creates or destroys money, however many settlements of the
\* auction race each other and the bidders' deposits and holds.
THEOREM MoneyIsConserved == Spec => []MoneyConserved
<1>1. IInv => MoneyConserved
  BY DEF IInv
<1> QED
  BY <1>1, Inductive, PTL

\* A losing bidder is never charged, and what is held of that bidder's money is
\* what the active holds add up to: ReleaseHold refunds a hold at most once,
\* for any number of settlements, bidders and holds.
THEOREM LosersStayBacked == Spec => []LosersHoldsBacked
<1>1. IInv => LosersHoldsBacked
  BY DEF IInv
<1> QED
  BY <1>1, Inductive, PTL

=============================================================================
