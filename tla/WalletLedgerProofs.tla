------------------------- MODULE WalletLedgerProofs -------------------------
(***************************************************************************)
(* Proofs about WalletLedger, for every number of users, calls, keys and    *)
(* holds and for every set of amounts.                                      *)
(*                                                                         *)
(* The inductive invariant is IInv: the types, the lock discipline (a call  *)
(* owns the lock of each row it has read) and the freshness of the reads.   *)
(* Freshness alone is not inductive: without the discipline another call    *)
(* could commit a write to a row that was read.                             *)
(***************************************************************************)
EXTENDS WalletLedger, TLAPS

IInv == TypeOK /\ LockDiscipline /\ ReadsAreFresh

\* What a call that has read its wallet row knows: its wallet, its amount,
\* and that the row it read is the row in the table.
LEMMA ReadFacts ==
    ASSUME IInv, NEW r \in Requests, pc[r] = WalletRead
    PROVE  /\ call[r] \in Calls
           /\ Target(r) \in Users
           /\ Moved(r) \in Amounts
           /\ readWallet[r] = wallets[Target(r)]
           /\ walletLock[Target(r)] = r
           /\ call[r].key \in Keys
<1>1. call[r] \in Calls
  BY DEF IInv, LockDiscipline, WalletRead, Idle
<1>2. CASE call[r].op \in WalletOps
  <2>1. call[r] \in WalletCalls
    BY <1>1, <1>2 DEF Calls, HoldCalls, HoldOps, WalletOps
  <2> QED
    BY <1>1, <1>2, <2>1 DEF IInv, LockDiscipline, ReadsAreFresh, WalletCalls, Target, Moved, WalletRead, Idle
<1>3. CASE call[r].op \in HoldOps
  <2>1. call[r] \in HoldCalls /\ call[r].op \notin WalletOps
    BY <1>1, <1>3 DEF Calls, WalletCalls, HoldOps, WalletOps
  <2>2. readHold[r].status = "active" /\ readHold[r] = holds[call[r].hold]
    BY <1>3 DEF IInv, LockDiscipline, ReadsAreFresh, HoldIsRead, NoHold, WalletRead, Idle
  <2>3. call[r].hold \in HoldIds /\ call[r].key \in Keys
    BY <2>1 DEF HoldCalls
  <2>4. readHold[r].owner \in Users /\ readHold[r].amount \in Amounts
    BY <2>2, <2>3 DEF IInv, LockDiscipline
  <2>5. readWallet[r] = wallets[Target(r)] /\ walletLock[Target(r)] = r
    BY DEF IInv, LockDiscipline, ReadsAreFresh
  <2> QED
    BY <1>1, <2>1, <2>3, <2>4, <2>5 DEF Target, Moved
<1> QED
  BY <1>1, <1>2, <1>3 DEF Calls, WalletCalls, HoldCalls

\* The initial state satisfies the inductive invariant.
LEMMA InitIInv == Init => IInv
<1> SUFFICES ASSUME Init PROVE IInv
  OBVIOUS
<1> USE LedgerAssumption DEF Init, Idle, Begin, HoldRead, WalletRead
<1>1. TypeOK
  BY DEF TypeOK, Wallet, BidHold, Balance, HoldStatus, NoHold
<1>2. LockDiscipline
  BY DEF LockDiscipline, HoldIsRead, NoHold
<1>3. ReadsAreFresh
  BY DEF ReadsAreFresh
<1> QED
  BY <1>1, <1>2, <1>3 DEF IInv

\* Starting a call keeps the invariant: the call is well formed and has read
\* no row yet.
LEMMA CallIInv ==
    ASSUME IInv, NEW r \in Requests, NEW c \in Calls, Call(r, c)
    PROVE  IInv'
<1> USE DEF Call, Idle, Begin, HoldRead, WalletRead
<1>1. TypeOK'
  BY DEF IInv, TypeOK
<1>2. LockDiscipline'
  BY DEF IInv, TypeOK, LockDiscipline, HoldIsRead, Target
<1>3. ReadsAreFresh'
  BY DEF IInv, TypeOK, LockDiscipline, HoldIsRead, ReadsAreFresh, Target
<1> QED
  BY <1>1, <1>2, <1>3 DEF IInv

\* Locking a hold row keeps the invariant: the row was free, is active, and
\* is read as it stands.
LEMMA LockHoldIInv ==
    ASSUME IInv, NEW r \in Requests, LockHold(r)
    PROVE  IInv'
<1> USE DEF LockHold, Idle, Begin, HoldRead, WalletRead
<1>0. call[r] \in HoldCalls /\ call[r].hold \in HoldIds
  BY DEF IInv, LockDiscipline, Calls, WalletCalls, HoldCalls, WalletOps, HoldOps
<1>1. TypeOK'
  BY <1>0 DEF IInv, TypeOK
<1>2. LockDiscipline'
  BY <1>0, LedgerAssumption DEF IInv, TypeOK, LockDiscipline, HoldIsRead, Target, NoHold
<1>3. ReadsAreFresh'
  BY <1>0 DEF IInv, TypeOK, LockDiscipline, HoldIsRead, ReadsAreFresh, Target
<1> QED
  BY <1>1, <1>2, <1>3 DEF IInv

\* Locking a wallet row keeps the invariant: the row was free, it is the row
\* of the hold that was read or of the user that was named.
LEMMA LockWalletIInv ==
    ASSUME IInv, NEW r \in Requests, LockWallet(r)
    PROVE  IInv'
<1> USE DEF LockWallet, Idle, Begin, HoldRead, WalletRead
<1>0. Target(r) \in Users
  <2>1. CASE pc[r] = Begin /\ call[r].op \in WalletOps
    BY <2>1 DEF IInv, LockDiscipline, Calls, WalletCalls, HoldCalls, WalletOps, HoldOps, Target
  <2>2. CASE pc[r] = HoldRead
    <3>1. call[r] \in HoldCalls
      BY <2>2 DEF IInv, LockDiscipline, Calls, WalletCalls, WalletOps, HoldOps
    <3>2. readHold[r] = holds[call[r].hold] /\ readHold[r].status = "active"
      BY <2>2 DEF IInv, LockDiscipline, ReadsAreFresh, HoldIsRead, NoHold
    <3>3. readHold[r].owner \in Users
      BY <3>1, <3>2 DEF IInv, LockDiscipline, HoldCalls
    <3> QED
      BY <3>1, <3>3 DEF Target, HoldCalls, HoldOps, WalletOps
  <2> QED
    BY <2>1, <2>2
<1>1. TypeOK'
  BY <1>0 DEF IInv, TypeOK
<1>2. LockDiscipline'
  <2>1. \A s \in Requests : Target(s)' = Target(s)
    BY DEF Target
  <2>2. HoldIsRead(r)' <=> HoldIsRead(r)
    BY DEF HoldIsRead, IInv, TypeOK, LockDiscipline, WalletOps, HoldOps
  <2>3. \A s \in Requests : s # r => (HoldIsRead(s)' <=> HoldIsRead(s))
    BY DEF HoldIsRead, IInv, TypeOK
  <2>4. \A s \in Requests : pc[s]' = WalletRead => (walletLock[Target(s)] = s)' 
    BY <1>0, <2>1, LedgerAssumption DEF IInv, TypeOK, LockDiscipline
  <2> QED
    BY <2>2, <2>3, <2>4 DEF IInv, TypeOK, LockDiscipline
<1>3. ReadsAreFresh'
  <2>1. \A s \in Requests : Target(s)' = Target(s)
    BY DEF Target
  <2>2. \A s \in Requests : pc'[s] = WalletRead => readWallet'[s] = wallets[Target(s)]
    BY <1>0 DEF IInv, TypeOK, ReadsAreFresh
  <2> QED
    BY <2>1, <2>2 DEF IInv, TypeOK, ReadsAreFresh
<1> QED
  BY <1>1, <1>2, <1>3 DEF IInv

\* The end of a transaction frees the locks of its own call only.
LEMMA EndOfTxFacts ==
    ASSUME IInv, NEW r \in Requests, EndOfTx(r)
    PROVE  /\ walletLock' \in [Users -> Requests \cup {None}]
           /\ holdLock' \in [HoldIds -> Requests \cup {None}]
           /\ pc' \in [Requests -> {Idle, Begin, HoldRead, WalletRead}]
           /\ call' \in [Requests -> Calls \cup {None}]
           /\ readWallet' \in [Requests -> Wallet]
           /\ readHold' \in [Requests -> BidHold]
           /\ pc'[r] = Idle /\ readHold'[r] = NoHold
           /\ \A u \in Users : walletLock[u] # r => walletLock'[u] = walletLock[u]
           /\ \A h \in HoldIds : holdLock[h] # r => holdLock'[h] = holdLock[h]
           /\ \A s \in Requests \ {r} :
                /\ pc'[s] = pc[s] /\ call'[s] = call[s]
                /\ readWallet'[s] = readWallet[s] /\ readHold'[s] = readHold[s]
BY LedgerAssumption
   DEF IInv, TypeOK, EndOfTx, Wallet, Balance, BidHold, HoldStatus, NoHold

\* A transaction that ends having written only rows it had locked, and hold
\* rows that did not exist, keeps the invariant.
LEMMA EndOfTxIInv ==
    ASSUME IInv, NEW r \in Requests, EndOfTx(r),
           wallets' \in [Users -> Wallet],
           holds' \in [HoldIds -> BidHold],
           txns' \in [Keys -> WalletTransaction \cup {NoTxn}],
           \A u \in Users : wallets'[u] = wallets[u] \/ walletLock[u] = r,
           \A h \in HoldIds : \/ holds'[h] = holds[h]
                              \/ holdLock[h] = r
                              \/ holds[h].status = "none",
           \A h \in HoldIds : holds'[h].status # "none" =>
                holds'[h].owner \in Users /\ holds'[h].amount \in Amounts
    PROVE  IInv'
<1> USE EndOfTxFacts
<1>1. TypeOK'
  BY DEF TypeOK
<1>2. ASSUME NEW s \in Requests \ {r}
      PROVE  /\ HoldIsRead(s)' <=> HoldIsRead(s)
             /\ Target(s)' = Target(s)
  BY DEF HoldIsRead, Target
<1>3. ASSUME NEW s \in Requests \ {r}, HoldIsRead(s)
      PROVE  /\ call[s].hold \in HoldIds
             /\ holdLock[call[s].hold] = s
             /\ readHold[s] = holds[call[s].hold]
             /\ readHold[s].status = "active"
  <2>1. call[s] \in HoldCalls
    BY <1>3 DEF IInv, LockDiscipline, HoldIsRead, HoldRead, WalletRead, Idle,
                Calls, WalletCalls, WalletOps, HoldOps
  <2>2. pc[s] # Idle
    BY <1>3 DEF HoldIsRead, HoldRead, WalletRead, Idle
  <2>3. holdLock[call[s].hold] = s /\ readHold[s].status = "active"
    BY <1>3 DEF IInv, LockDiscipline
  <2>4. readHold[s] = holds[call[s].hold]
    BY <2>2, <2>3 DEF IInv, ReadsAreFresh, NoHold
  <2> QED
    BY <2>1, <2>3, <2>4 DEF HoldCalls
<1>4. LockDiscipline'
  <2>1. ASSUME NEW s \in Requests \ {r}
        PROVE  /\ pc'[s] # Idle => call'[s] \in Calls
               /\ pc'[s] = HoldRead => call'[s].op \in HoldOps
               /\ HoldIsRead(s)' => /\ holdLock'[call'[s].hold] = s
                                    /\ readHold'[s].status = "active"
               /\ ~HoldIsRead(s)' => readHold'[s] = NoHold
    BY <1>2, <1>3 DEF IInv, LockDiscipline
  <2>2. ASSUME NEW s \in Requests \ {r}, pc'[s] = WalletRead
        PROVE  (walletLock[Target(s)] = s)'
    BY <2>2, <1>2, ReadFacts
  <2>3. ~HoldIsRead(r)' /\ pc'[r] # WalletRead /\ pc'[r] # HoldRead
    BY DEF HoldIsRead, Idle, HoldRead, WalletRead
  <2> QED
    BY <2>1, <2>2, <2>3 DEF LockDiscipline
<1>5. ReadsAreFresh'
  <2>1. ASSUME NEW s \in Requests \ {r}, pc'[s] = WalletRead
        PROVE  (readWallet[s] = wallets[Target(s)])'
    BY <2>1, <1>2, ReadFacts
  <2>2. ASSUME NEW s \in Requests \ {r}, pc'[s] # Idle, readHold'[s] # NoHold
        PROVE  (readHold[s] = holds[call[s].hold])'
    <3>1. HoldIsRead(s)
      BY <2>2 DEF IInv, LockDiscipline
    <3> QED
      BY <3>1, <1>3
  <2>3. pc'[r] # WalletRead /\ pc'[r] = Idle
    BY DEF Idle, WalletRead
  <2> QED
    BY <2>1, <2>2, <2>3 DEF ReadsAreFresh
<1> QED
  BY <1>1, <1>4, <1>5 DEF IInv

\* A rolled-back transaction changes no table.
LEMMA RollbackIInv ==
    ASSUME IInv, NEW r \in Requests, Rollback(r)
    PROVE  IInv'
<1>1. EndOfTx(r) /\ wallets' = wallets /\ holds' = holds /\ txns' = txns
  BY DEF Rollback
<1>2. \A h \in HoldIds : holds'[h].status # "none" =>
          holds'[h].owner \in Users /\ holds'[h].amount \in Amounts
  BY <1>1 DEF IInv, LockDiscipline
<1> QED
  BY <1>1, <1>2, EndOfTxIInv DEF IInv, TypeOK

\* A committing release or charge works on a hold that is active and locked,
\* and whose owner and amount are the ones it read.
LEMMA SettlingFacts ==
    ASSUME IInv, NEW r \in Requests, pc[r] = WalletRead, call[r].op \in HoldOps
    PROVE  /\ call[r].hold \in HoldIds
           /\ holdLock[call[r].hold] = r
           /\ holds[call[r].hold].status = "active"
           /\ holds[call[r].hold].owner = Target(r)
           /\ holds[call[r].hold].amount = Moved(r)
<1>1. HoldIsRead(r) /\ pc[r] # Idle
  BY DEF HoldIsRead, WalletRead, Idle
<1>2. call[r] \in HoldCalls /\ call[r].op \notin WalletOps
  BY <1>1 DEF IInv, LockDiscipline, Calls, WalletCalls, WalletOps, HoldOps
<1>3. holdLock[call[r].hold] = r /\ readHold[r].status = "active"
  BY <1>1 DEF IInv, LockDiscipline
<1>4. readHold[r] = holds[call[r].hold]
  BY <1>1, <1>3 DEF IInv, ReadsAreFresh, NoHold
<1> QED
  BY <1>2, <1>3, <1>4 DEF HoldCalls, Target, Moved

\* What a commit does to the hold table: it makes one fresh row active, ends
\* one active row, or leaves the table alone.
LEMMA CommitHolds ==
    ASSUME IInv, NEW r \in Requests, Commit(r)
    PROVE  \/ /\ call[r].op = "hold"
              /\ \E h \in HoldIds :
                   /\ holds[h].status = "none"
                   /\ holds' = [holds EXCEPT ![h] =
                          [status |-> "active", owner |-> Target(r), amount |-> Moved(r)]]
           \/ /\ call[r].op \in HoldOps
              /\ \E st \in {"released", "charged"} :
                   holds' = [holds EXCEPT ![call[r].hold].status = st]
           \/ call[r].op \in {"credit", "deposit"} /\ holds' = holds
<1>1. call[r] \in Calls
  BY ReadFacts DEF Commit
<1>2. WriteHold(r)
  BY DEF Commit
<1>3. CASE call[r].op = "hold"
  BY <1>2, <1>3 DEF WriteHold
<1>4. CASE call[r].op = "release"
  BY <1>2, <1>4 DEF WriteHold, HoldOps
<1>5. CASE call[r].op = "charge"
  BY <1>2, <1>5 DEF WriteHold, HoldOps
<1>6. CASE call[r].op \in {"credit", "deposit"}
  BY <1>2, <1>6 DEF WriteHold
<1> QED
  BY <1>1, <1>3, <1>4, <1>5, <1>6 DEF Calls, WalletCalls, HoldCalls, WalletOps, HoldOps

\* The balances and the audit row a commit writes are well typed.
LEMMA CommitTypes ==
    ASSUME IInv, NEW r \in Requests, Commit(r)
    PROVE  /\ wallets' \in [Users -> Wallet]
           /\ txns' \in [Keys -> WalletTransaction \cup {NoTxn}]
<1>1. NewAvailable(r) \in Balance /\ NewHeld(r) \in Balance
  BY DEF Commit, ColumnsAccept
<1>2. wallets' \in [Users -> Wallet]
  BY <1>1 DEF Commit, UpdateBalance, IInv, TypeOK, Wallet
<1>3. AuditRow(r) \in WalletTransaction
  <2>1. call[r].op \in OperationType
    BY ReadFacts DEF Commit, Calls, WalletCalls, HoldCalls, WalletOps, HoldOps, OperationType
  <2>2. readWallet[r].held \in Balance /\ readWallet[r].available \in Balance
    BY DEF IInv, TypeOK, Wallet
  <2>3. Target(r) \in Users /\ Moved(r) \in Amounts
    BY ReadFacts DEF Commit
  <2> QED
    BY <1>1, <2>1, <2>2, <2>3 DEF AuditRow, WalletTransaction
<1>4. txns' \in [Keys -> WalletTransaction \cup {NoTxn}]
  BY <1>3 DEF Commit, CreateWalletTransaction, IInv, TypeOK
<1> QED
  BY <1>2, <1>4

\* Changing the status of a hold row gives a hold row.
LEMMA StatusUpdate ==
    ASSUME NEW x \in BidHold, NEW st \in HoldStatus
    PROVE  [x EXCEPT !.status = st] \in BidHold
BY DEF BidHold

\* A commit keeps the invariant.
LEMMA CommitIInv ==
    ASSUME IInv, NEW r \in Requests, Commit(r)
    PROVE  IInv'
<1>1. EndOfTx(r) /\ pc[r] = WalletRead
  BY DEF Commit
<1>2. \A u \in Users : wallets'[u] = wallets[u] \/ walletLock[u] = r
  BY <1>1, ReadFacts DEF Commit, UpdateBalance, IInv, TypeOK
<1>3. /\ holds' \in [HoldIds -> BidHold]
      /\ \A h \in HoldIds : \/ holds'[h] = holds[h]
                             \/ holdLock[h] = r
                             \/ holds[h].status = "none"
      /\ \A h \in HoldIds : holds'[h].status # "none" =>
            holds'[h].owner \in Users /\ holds'[h].amount \in Amounts
  <2>1. CASE call[r].op = "hold"
    <3>1. PICK h \in HoldIds :
            /\ holds[h].status = "none"
            /\ holds' = [holds EXCEPT ![h] =
                   [status |-> "active", owner |-> Target(r), amount |-> Moved(r)]]
      BY <2>1, CommitHolds DEF HoldOps
    <3>2. [status |-> "active", owner |-> Target(r), amount |-> Moved(r)] \in BidHold
      BY <1>1, ReadFacts DEF BidHold, HoldStatus
    <3> QED
      BY <3>1, <3>2, <1>1, ReadFacts DEF IInv, TypeOK, LockDiscipline
  <2>2. CASE call[r].op \in HoldOps
    <3>1. PICK st \in {"released", "charged"} :
            holds' = [holds EXCEPT ![call[r].hold].status = st]
      BY <2>2, CommitHolds DEF HoldOps
    <3>2. call[r].hold \in HoldIds /\ holdLock[call[r].hold] = r
          /\ holds[call[r].hold].status # "none"
      BY <1>1, <2>2, SettlingFacts
    <3>3. [holds[call[r].hold] EXCEPT !.status = st] \in BidHold
      BY <3>1, <3>2, StatusUpdate DEF IInv, TypeOK, HoldStatus
    <3>4. holds' \in [HoldIds -> BidHold]
      BY <3>1, <3>2, <3>3 DEF IInv, TypeOK
    <3>5. \A h \in HoldIds : h # call[r].hold => holds'[h] = holds[h]
      BY <3>1, <3>2 DEF IInv, TypeOK
    <3>6. /\ holds'[call[r].hold].owner = holds[call[r].hold].owner
          /\ holds'[call[r].hold].amount = holds[call[r].hold].amount
      BY <3>1, <3>2 DEF IInv, TypeOK, BidHold
    <3> QED
      BY <3>2, <3>4, <3>5, <3>6 DEF IInv, LockDiscipline
  <2>3. CASE holds' = holds
    BY <2>3 DEF IInv, TypeOK, LockDiscipline
  <2> QED
    BY <2>1, <2>2, <2>3, CommitHolds
<1> QED
  BY <1>1, <1>2, <1>3, CommitTypes, EndOfTxIInv

\* The inductive invariant: every reachable state of every instance is well
\* typed, respects the lock discipline and has only fresh reads.
THEOREM LedgerInvariant == Spec => []IInv
<1>1. Init => IInv
  BY InitIInv
<1>2. IInv /\ [Next]_vars => IInv'
  <2> SUFFICES ASSUME IInv, [Next]_vars PROVE IInv'
    OBVIOUS
  <2>1. ASSUME NEW r \in Requests, NEW c \in Calls, Call(r, c) PROVE IInv'
    BY <2>1, CallIInv
  <2>2. ASSUME NEW r \in Requests, LockHold(r) PROVE IInv'
    BY <2>2, LockHoldIInv
  <2>3. ASSUME NEW r \in Requests, LockWallet(r) PROVE IInv'
    BY <2>3, LockWalletIInv
  <2>4. ASSUME NEW r \in Requests, Commit(r) PROVE IInv'
    BY <2>4, CommitIInv
  <2>5. ASSUME NEW r \in Requests, Rollback(r) PROVE IInv'
    BY <2>5, RollbackIInv
  <2>6. CASE UNCHANGED vars
    BY <2>6 DEF vars, IInv, TypeOK, LockDiscipline, HoldIsRead, ReadsAreFresh, Target
  <2> QED
    BY <2>1, <2>2, <2>3, <2>4, <2>5, <2>6 DEF Next
<1> QED
  BY <1>1, <1>2, PTL DEF Spec

\* The tables, the locks and the variables of every call keep their types; in
\* particular no balance is ever negative or beyond its column's precision.
THEOREM TypeCorrect == Spec => []TypeOK
<1>1. IInv => TypeOK
  BY DEF IInv
<1> QED
  BY <1>1, LedgerInvariant, PTL

\* No lost update, for any number of concurrent calls: the rows a transaction
\* read under FOR UPDATE are the rows in the table when it writes.
THEOREM NoLostUpdate == Spec => []ReadsAreFresh
<1>1. IInv => ReadsAreFresh
  BY DEF IInv
<1> QED
  BY <1>1, LedgerInvariant, PTL

\* What a step other than a commit leaves alone.
LEMMA OnlyCommitWrites ==
    ASSUME [Next]_vars
    PROVE  (\E r \in Requests : Commit(r)) \/ (holds' = holds /\ wallets' = wallets)
BY DEF Next, vars, Call, LockHold, LockWallet, Rollback

\* A hold that was released or charged keeps its row for ever: ReleaseFunds and
\* ChargeFunds, duplicated or raced, end a hold at most once.
THEOREM HoldsSettleOnce == Spec => SettledOnce
<1> DEFINE Settled(h) == holds[h].status \in {"released", "charged"}
<1>1. ASSUME IInv, [Next]_vars, NEW h \in HoldIds, Settled(h)
      PROVE  holds'[h] = holds[h]
  <2>1. CASE holds' = holds
    BY <2>1
  <2>2. CASE \E r \in Requests : Commit(r)
    <3>1. PICK r \in Requests : Commit(r)
      BY <2>2
    <3>2. pc[r] = WalletRead /\ IInv
      BY <3>1, <1>1 DEF Commit
    <3>3. call[r].op \in HoldOps => h # call[r].hold
      BY <3>2, <1>1, SettlingFacts
    <3> QED
      BY <3>1, <3>3, <1>1, CommitHolds DEF IInv, TypeOK
  <2> QED
    BY <1>1, <2>1, <2>2, OnlyCommitWrites
<1>2. IInv /\ [Next]_vars =>
        [\A h \in HoldIds :
            holds[h].status \in {"released", "charged"} => holds'[h] = holds[h]]_vars
  BY <1>1
<1> QED
  BY <1>2, LedgerInvariant, PTL DEF Spec, SettledOnce

\* The held balance a commit writes.
LEMMA CommitHeld ==
    ASSUME IInv, NEW r \in Requests, Commit(r)
    PROVE  /\ Target(r) \in Users
           /\ \A u \in Users \ {Target(r)} : wallets'[u] = wallets[u]
           /\ call[r].op = "hold" =>
                wallets'[Target(r)].held = wallets[Target(r)].held + Moved(r)
           /\ call[r].op \in HoldOps =>
                wallets'[Target(r)].held = wallets[Target(r)].held - Moved(r)
           /\ call[r].op \in {"credit", "deposit"} =>
                wallets'[Target(r)].held = wallets[Target(r)].held
<1>1. Target(r) \in Users /\ readWallet[r] = wallets[Target(r)]
  BY ReadFacts DEF Commit
<1>2. /\ wallets'[Target(r)].held = NewHeld(r)
      /\ \A u \in Users \ {Target(r)} : wallets'[u] = wallets[u]
  BY <1>1 DEF Commit, UpdateBalance, IInv, TypeOK
<1> QED
  BY <1>1, <1>2 DEF NewHeld, HoldOps

\* Every step moves a held balance by exactly the hold that starts or ends in
\* it: no balance is held initially, so the sum of the active holds and the
\* held balance cannot drift apart, whatever the interleaving.
THEOREM HeldTracksHolds == Spec => HeldFollowsHolds
<1> DEFINE Follows(u) ==
         \/ /\ wallets'[u].held = wallets[u].held
            /\ \A h \in HoldIds : ~HoldStarts(h, u) /\ ~HoldEnds(h, u)
         \/ \E h \in HoldIds :
              /\ HoldStarts(h, u)
              /\ wallets'[u].held = wallets[u].held + holds'[h].amount
         \/ \E h \in HoldIds :
              /\ HoldEnds(h, u)
              /\ wallets'[u].held = wallets[u].held - holds[h].amount
<1>1. ASSUME IInv, NEW r \in Requests, Commit(r), NEW u \in Users
      PROVE  Follows(u)
  <2>1. pc[r] = WalletRead /\ Target(r) \in Users
    BY <1>1, CommitHeld DEF Commit
  <2>2. CASE call[r].op = "hold"
    <3>1. PICK h \in HoldIds :
            /\ holds[h].status = "none"
            /\ holds' = [holds EXCEPT ![h] =
                   [status |-> "active", owner |-> Target(r), amount |-> Moved(r)]]
      BY <1>1, <2>2, CommitHolds DEF HoldOps
    <3>2. /\ holds'[h].status = "active" /\ holds'[h].owner = Target(r)
          /\ holds'[h].amount = Moved(r)
          /\ \A g \in HoldIds : g # h => holds'[g] = holds[g]
      BY <3>1, <1>1 DEF IInv, TypeOK
    <3>3. CASE u = Target(r)
      BY <1>1, <2>2, <3>1, <3>2, <3>3, CommitHeld DEF HoldStarts
    <3>4. CASE u # Target(r)
      BY <1>1, <2>2, <3>1, <3>2, <3>4, CommitHeld DEF HoldStarts, HoldEnds
    <3> QED
      BY <3>3, <3>4
  <2>3. CASE call[r].op \in HoldOps
    <3> DEFINE h == call[r].hold
    <3>1. PICK st \in {"released", "charged"} : holds' = [holds EXCEPT ![h].status = st]
      BY <1>1, <2>3, CommitHolds DEF HoldOps
    <3>2. /\ h \in HoldIds /\ holds[h].status = "active"
          /\ holds[h].owner = Target(r) /\ holds[h].amount = Moved(r)
      BY <1>1, <2>1, <2>3, SettlingFacts
    <3>3. /\ holds'[h].status # "active"
          /\ \A g \in HoldIds : g # h => holds'[g] = holds[g]
      BY <3>1, <3>2, <1>1 DEF IInv, TypeOK, BidHold
    <3>4. CASE u = Target(r)
      BY <1>1, <2>3, <3>2, <3>3, <3>4, CommitHeld DEF HoldEnds
    <3>5. CASE u # Target(r)
      BY <1>1, <2>3, <3>2, <3>3, <3>5, CommitHeld DEF HoldStarts, HoldEnds
    <3> QED
      BY <3>4, <3>5
  <2>4. CASE call[r].op \in {"credit", "deposit"} /\ holds' = holds
    BY <1>1, <2>4, CommitHeld DEF HoldStarts, HoldEnds
  <2> QED
    BY <1>1, <2>2, <2>3, <2>4, CommitHolds
<1>2. ASSUME holds' = holds, wallets' = wallets, NEW u \in Users
      PROVE  Follows(u)
  BY <1>2 DEF HoldStarts, HoldEnds
<1>3. IInv /\ [Next]_vars => \A u \in Users : Follows(u)
  BY <1>1, <1>2, OnlyCommitWrites
<1>4. IInv /\ [Next]_vars => [\A u \in Users : Follows(u)]_vars
  BY <1>3
<1> QED
  BY <1>4, LedgerInvariant, PTL DEF Spec, HeldFollowsHolds

=============================================================================
