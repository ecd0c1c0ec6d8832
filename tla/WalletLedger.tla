---------------------------- MODULE WalletLedger ----------------------------
(***************************************************************************)
(* The transactional wallet service of the payment service                 *)
(* (payment-service/internal/wallet: wallet.go over pg_repository.go).      *)
(*                                                                         *)
(* Every operation (HoldFunds, ReleaseFunds, ChargeFunds, CreditFunds,      *)
(* DepositFunds) looks its idempotency key up OUTSIDE the transaction, then *)
(* opens a PostgreSQL transaction, takes row locks with SELECT ... FOR      *)
(* UPDATE, computes the new balances from the rows it read, and commits.    *)
(* The model keeps those as separate steps, so that calls interleave        *)
(* wherever the code lets them.  The writes of a transaction are invisible  *)
(* until COMMIT, so they are one step.                                      *)
(*                                                                         *)
(* A wallet row is identified by its owner.  Amounts are whole cents.       *)
(***************************************************************************)
EXTENDS Integers, FiniteSets

CONSTANTS
    Users,          \* owners of wallets
    Requests,       \* concurrently running service calls
    Keys,           \* idempotency keys callers supply
    HoldIds,        \* fresh UUIDs for bid_holds
    Amounts,        \* amounts callers pass
    InitialBalance, \* available balance every wallet starts with
    MaxBalance,     \* capacity of the NUMERIC(15,2) balance columns
    CheckMayFail,   \* may the idempotency look-up fail (and be ignored)?
    None            \* "no row", "nobody", "no user"

ASSUME LedgerAssumption ==
    /\ Amounts \subseteq Nat \ {0}
    /\ MaxBalance \in Nat
    /\ InitialBalance \in 0 .. MaxBalance
    /\ CheckMayFail \in BOOLEAN
    /\ None \notin Users \cup Requests \cup HoldIds

VARIABLES
    wallets,    \* wallets table: owner -> balances
    holds,      \* bid_holds table: id -> row ("none": no such row yet)
    txns,       \* wallet_transactions table: idempotency_key -> audit row
    walletLock, \* owner of the row lock of each wallet
    holdLock,   \* owner of the row lock of each hold
    pc,         \* where each call is
    call,       \* the arguments of each call
    readWallet, \* the wallet row a call read under its lock
    readHold    \* the hold row a call read under its lock

vars == <<wallets, holds, txns, walletLock, holdLock, pc, call, readWallet, readHold>>

-----------------------------------------------------------------------------
Balance == 0 .. MaxBalance

Wallet == [available : Balance, held : Balance]

HoldStatus == {"none", "active", "released", "charged"}

BidHold == [status : HoldStatus, owner : Users \cup {None}, amount : Amounts \cup {0}]

NoHold == [status |-> "none", owner |-> None, amount |-> 0]

OperationType == {"hold", "release", "charge", "credit", "deposit"}

WalletTransaction ==
    [wallet : Users, op : OperationType, amount : Amounts,
     before : Balance, after : Balance]

NoTxn == [wallet |-> None, op |-> "none", amount |-> 0, before |-> 0, after |-> 0]

\* Calls that name a wallet and an amount, and calls that name a hold.
WalletOps == {"hold", "credit", "deposit"}
HoldOps   == {"release", "charge"}

WalletCalls == [op : WalletOps, user : Users, amount : Amounts, hold : {None}, key : Keys]
HoldCalls   == [op : HoldOps, user : {None}, amount : {0}, hold : HoldIds, key : Keys]
Calls       == WalletCalls \cup HoldCalls

Idle      == "idle"
Begin     == "begin"       \* idempotency pre-check passed, BEGIN
HoldRead  == "holdRead"    \* hold row locked and read
WalletRead == "walletRead" \* wallet row locked and read

TypeOK ==
    /\ wallets \in [Users -> Wallet]
    /\ holds \in [HoldIds -> BidHold]
    /\ txns \in [Keys -> WalletTransaction \cup {NoTxn}]
    /\ walletLock \in [Users -> Requests \cup {None}]
    /\ holdLock \in [HoldIds -> Requests \cup {None}]
    /\ pc \in [Requests -> {Idle, Begin, HoldRead, WalletRead}]
    /\ call \in [Requests -> Calls \cup {None}]
    /\ readWallet \in [Requests -> Wallet]
    /\ readHold \in [Requests -> BidHold]

Init ==
    /\ wallets = [u \in Users |-> [available |-> InitialBalance, held |-> 0]]
    /\ holds = [h \in HoldIds |-> NoHold]
    /\ txns = [k \in Keys |-> NoTxn]
    /\ walletLock = [u \in Users |-> None]
    /\ holdLock = [h \in HoldIds |-> None]
    /\ pc = [r \in Requests |-> Idle]
    /\ call = [r \in Requests |-> None]
    /\ readWallet = [r \in Requests |-> [available |-> 0, held |-> 0]]
    /\ readHold = [r \in Requests |-> NoHold]

-----------------------------------------------------------------------------
\* The wallet a call works on: named by the caller, or found in the hold row.
Target(r) == IF call[r].op \in WalletOps THEN call[r].user ELSE readHold[r].owner

\* The amount a call moves: the caller's, or the one stored in the hold row.
Moved(r) == IF call[r].op \in WalletOps THEN call[r].amount ELSE readHold[r].amount

\* The balances each operation computes from the rows it read.
NewAvailable(r) ==
    CASE call[r].op = "hold"    -> readWallet[r].available - Moved(r)
      [] call[r].op = "charge"  -> readWallet[r].available
      [] OTHER                  -> readWallet[r].available + Moved(r)

\* Variant: ChargeFunds forgets to lower the held balance.
NewHeldNoCharge(r) ==
    CASE call[r].op = "hold"    -> readWallet[r].held + Moved(r)
      [] call[r].op = "release" -> readWallet[r].held - Moved(r)
      [] OTHER                  -> readWallet[r].held

NewHeld(r) ==
    CASE call[r].op = "hold"    -> readWallet[r].held + Moved(r)
      [] call[r].op \in HoldOps -> readWallet[r].held - Moved(r)
      [] OTHER                  -> readWallet[r].held

\* The audit row: a charge records the held balance, all others the available one.
AuditRow(r) ==
    [wallet |-> Target(r), op |-> call[r].op, amount |-> Moved(r),
     before |-> IF call[r].op = "charge" THEN readWallet[r].held
                                         ELSE readWallet[r].available,
     after  |-> IF call[r].op = "charge" THEN NewHeld(r) ELSE NewAvailable(r)]

\* Variant: A transaction that keeps its row locks after it ended.
EndOfTxKeepsLocks(r) ==
    /\ UNCHANGED <<walletLock, holdLock>>
    /\ pc' = [pc EXCEPT ![r] = Idle]
    /\ call' = [call EXCEPT ![r] = None]
    /\ readWallet' = [readWallet EXCEPT ![r] = [available |-> 0, held |-> 0]]
    /\ readHold' = [readHold EXCEPT ![r] = NoHold]

\* COMMIT and ROLLBACK end the call and drop its row locks.
EndOfTx(r) ==
    /\ walletLock' = [u \in Users |-> IF walletLock[u] = r THEN None ELSE walletLock[u]]
    /\ holdLock' = [h \in HoldIds |-> IF holdLock[h] = r THEN None ELSE holdLock[h]]
    /\ pc' = [pc EXCEPT ![r] = Idle]
    /\ call' = [call EXCEPT ![r] = None]
    /\ readWallet' = [readWallet EXCEPT ![r] = [available |-> 0, held |-> 0]]
    /\ readHold' = [readHold EXCEPT ![r] = NoHold]

-----------------------------------------------------------------------------
\* A caller invokes an operation.  CheckIdempotencyKey runs on the pool, not
\* in a transaction; a failed look-up is logged and the call proceeds.  A key
\* that is found ends the call with ErrDuplicateOperation and changes nothing.
Call(r, c) ==
    /\ pc[r] = Idle
    /\ txns[c.key] = NoTxn \/ CheckMayFail
    /\ pc' = [pc EXCEPT ![r] = Begin]
    /\ call' = [call EXCEPT ![r] = c]
    /\ UNCHANGED <<wallets, holds, txns, walletLock, holdLock, readWallet, readHold>>

\* Variant: GetActiveHoldForUpdate without "AND status = 'active'".
LockHoldAnyStatus(r) ==
    LET h == call[r].hold IN
    /\ pc[r] = Begin
    /\ call[r].op \in HoldOps
    /\ holdLock[h] = None
    /\ holds[h].status # "none"
    /\ holdLock' = [holdLock EXCEPT ![h] = r]
    /\ readHold' = [readHold EXCEPT ![r] = holds[h]]
    /\ pc' = [pc EXCEPT ![r] = HoldRead]
    /\ UNCHANGED <<wallets, holds, txns, walletLock, call, readWallet>>

\* SELECT ... FROM bid_holds WHERE id AND status = 'active' FOR UPDATE.
LockHold(r) ==
    LET h == call[r].hold IN
    /\ pc[r] = Begin
    /\ call[r].op \in HoldOps
    /\ holdLock[h] = None
    /\ holds[h].status = "active"
    /\ holdLock' = [holdLock EXCEPT ![h] = r]
    /\ readHold' = [readHold EXCEPT ![r] = holds[h]]
    /\ pc' = [pc EXCEPT ![r] = HoldRead]
    /\ UNCHANGED <<wallets, holds, txns, walletLock, call, readWallet>>

\* Variant: SELECT without FOR UPDATE: the wallet is read, not locked.
LockWalletNoForUpdate(r) ==
    /\ \/ pc[r] = Begin /\ call[r].op \in WalletOps
       \/ pc[r] = HoldRead
    /\ readWallet' = [readWallet EXCEPT ![r] = wallets[Target(r)]]
    /\ pc' = [pc EXCEPT ![r] = WalletRead]
    /\ UNCHANGED <<wallets, holds, txns, walletLock, holdLock, call, readHold>>

\* SELECT ... FROM wallets WHERE id (or user_id) FOR UPDATE.
LockWallet(r) ==
    /\ \/ pc[r] = Begin /\ call[r].op \in WalletOps
       \/ pc[r] = HoldRead
    /\ walletLock[Target(r)] = None
    /\ walletLock' = [walletLock EXCEPT ![Target(r)] = r]
    /\ readWallet' = [readWallet EXCEPT ![r] = wallets[Target(r)]]
    /\ pc' = [pc EXCEPT ![r] = WalletRead]
    /\ UNCHANGED <<wallets, holds, txns, holdLock, call, readHold>>

\* The balance check HoldFunds makes on the row it read.
Sufficient(r) == call[r].op = "hold" => readWallet[r].available >= Moved(r)

\* Variant: balance columns without their CHECKs and their precision.
ColumnsAcceptAnything(r) == NewAvailable(r) \in Int /\ NewHeld(r) \in Int

\* CHECK (available_balance >= 0), CHECK (held_balance >= 0), NUMERIC(15,2).
ColumnsAccept(r) == NewAvailable(r) \in Balance /\ NewHeld(r) \in Balance

\* INSERT INTO wallet_transactions ... ON CONFLICT (idempotency_key) DO NOTHING:
\* a key that is already there keeps its row, and the caller is not told.
CreateWalletTransaction(r) ==
    txns' = IF txns[call[r].key] = NoTxn
            THEN [txns EXCEPT ![call[r].key] = AuditRow(r)]
            ELSE txns

\* INSERT INTO bid_holds of a new row, or UPDATE bid_holds SET status.
WriteHold(r) ==
    CASE call[r].op = "hold" ->
            \E h \in HoldIds :
                /\ holds[h].status = "none"
                /\ holds' = [holds EXCEPT ![h] =
                       [status |-> "active", owner |-> Target(r), amount |-> Moved(r)]]
      [] call[r].op = "release" ->
            holds' = [holds EXCEPT ![call[r].hold].status = "released"]
      [] call[r].op = "charge" ->
            holds' = [holds EXCEPT ![call[r].hold].status = "charged"]
      [] OTHER -> holds' = holds

\* UPDATE wallets SET available_balance = $1, held_balance = $2.
UpdateBalance(r) ==
    wallets' = [wallets EXCEPT ![Target(r)] =
                   [available |-> NewAvailable(r), held |-> NewHeld(r)]]

\* The writes of a transaction and its COMMIT.
Commit(r) ==
    /\ pc[r] = WalletRead
    /\ Sufficient(r)
    /\ ColumnsAccept(r)
    /\ CreateWalletTransaction(r)
    /\ WriteHold(r)
    /\ UpdateBalance(r)
    /\ EndOfTx(r)

\* An error return, or a lost connection, before COMMIT: the deferred
\* tx.Rollback undoes everything.
Rollback(r) ==
    /\ pc[r] # Idle
    /\ EndOfTx(r)
    /\ UNCHANGED <<wallets, holds, txns>>

\* The rejections the code itself decides on: the hold is no longer active
\* (ErrHoldNotFound), the balance is too small (ErrInsufficientBalance), or
\* PostgreSQL refuses the new balances.
MustReject(r) ==
    \/ pc[r] = Begin /\ call[r].op \in HoldOps /\ holdLock[call[r].hold] = None
          /\ holds[call[r].hold].status # "active"
    \/ pc[r] = WalletRead /\ ~(Sufficient(r) /\ ColumnsAccept(r))
    \/ pc[r] = WalletRead /\ call[r].op = "hold" /\ \A h \in HoldIds : holds[h].status # "none"

Reject(r) == MustReject(r) /\ Rollback(r)

Next ==
    \E r \in Requests :
        \/ \E c \in Calls : Call(r, c)
        \/ LockHold(r)
        \/ LockWallet(r)
        \/ Commit(r)
        \/ Rollback(r)

Spec == Init /\ [][Next]_vars

\* PostgreSQL grants a row lock to its waiters in turn, and a call that holds
\* its locks runs on; nothing obliges a caller to call or a connection to fail.
Fairness ==
    \A r \in Requests :
        /\ SF_vars(LockHold(r))
        /\ SF_vars(LockWallet(r))
        /\ WF_vars(Commit(r))
        /\ SF_vars(Reject(r))

FairSpec == Spec /\ Fairness

-----------------------------------------------------------------------------
\* No lost update: the rows a transaction read under FOR UPDATE are still the
\* rows in the table when it computes and writes the new balances.
ReadsAreFresh ==
    \A r \in Requests :
        /\ pc[r] = WalletRead => readWallet[r] = wallets[Target(r)]
        /\ pc[r] # Idle /\ readHold[r] # NoHold => readHold[r] = holds[call[r].hold]

\* The lock discipline behind ReadsAreFresh: a call owns the row lock of every
\* row it has read, the hold it read is an active one, and a hold row that
\* exists names a wallet and an amount.  The proofs use it as the
\* strengthening that makes ReadsAreFresh inductive.
HoldIsRead(r) == pc[r] = HoldRead \/ (pc[r] = WalletRead /\ call[r].op \in HoldOps)

LockDiscipline ==
    /\ \A h \in HoldIds :
          holds[h].status # "none" => holds[h].owner \in Users /\ holds[h].amount \in Amounts
    /\ \A r \in Requests :
          /\ pc[r] # Idle => call[r] \in Calls
          /\ pc[r] = HoldRead => call[r].op \in HoldOps
          /\ HoldIsRead(r) => /\ holdLock[call[r].hold] = r
                              /\ readHold[r].status = "active"
          /\ ~HoldIsRead(r) => readHold[r] = NoHold
          /\ pc[r] = WalletRead => walletLock[Target(r)] = r

\* A hold is settled once: what ReleaseFunds or ChargeFunds ended never becomes
\* active again nor changes from released to charged.
SettledOnce ==
    [][\A h \in HoldIds :
          holds[h].status \in {"released", "charged"} => holds'[h] = holds[h]]_vars

\* Every step moves the held balance of a wallet by exactly the hold that
\* appears or ends in that step, and leaves it alone when no hold does.
HoldStarts(h, u) ==
    holds[h].status # "active" /\ holds'[h].status = "active" /\ holds'[h].owner = u
HoldEnds(h, u) ==
    holds[h].status = "active" /\ holds'[h].status # "active" /\ holds[h].owner = u
HeldFollowsHolds ==
    [][\A u \in Users :
         \/ /\ wallets'[u].held = wallets[u].held
            /\ \A h \in HoldIds : ~HoldStarts(h, u) /\ ~HoldEnds(h, u)
         \/ \E h \in HoldIds :
              /\ HoldStarts(h, u)
              /\ wallets'[u].held = wallets[u].held + holds'[h].amount
         \/ \E h \in HoldIds :
              /\ HoldEnds(h, u)
              /\ wallets'[u].held = wallets[u].held - holds[h].amount]_vars

\* Every call ends: the row locks are always taken in the order hold, wallet,
\* so calls never wait for each other in a cycle.
CallsEnd == \A r \in Requests : pc[r] # Idle ~> pc[r] = Idle
=============================================================================
