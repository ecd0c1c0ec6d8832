--------------------------- MODULE AuctionProofs ---------------------------
(***************************************************************************)
(* Proofs about the modules that follow an auction from its first bid to    *)
(* its settlement: BidPlacement, AuctionLifecycle, AuctionConsumer and      *)
(* SettlementSaga.  They share no variable: each theorem is about the       *)
(* specification of one of them.  The lemmas name the assumption on the     *)
(* constants that they use; the theorems cite it.                           *)
(***************************************************************************)
EXTENDS BidPlacement, AuctionLifecycle, AuctionConsumer, SettlementSaga, DataLemmas,
        SequenceTheorems

-----------------------------------------------------------------------------
(* The settlement saga. *)

SagaTyped ==
    /\ wallets \in [Parties -> [available : Nat, held : Nat]]
    /\ holds \in [Bidders -> {"active", "released", "charged"}]
    /\ \A l \in Losers : holds[l] # "charged"
    /\ sagaPc \in SagaLabels
    /\ i \in 0 .. 4
    /\ todo \subseteq Losers /\ strays \subseteq Losers
    /\ inflight \subseteq Commits
    /\ spent \in [Parties -> Nat]

\* What the tables say when the first n steps have been executed.
WinnerAt(n) ==
    IF n >= 1 THEN holds[Winner] = "charged" /\ wallets[Winner].held = 0
              ELSE holds[Winner] = "active" /\ wallets[Winner].held = Price

SellerGets(n) == SellerInitial + (IF n >= 2 THEN Price ELSE 0)

SellerAt(n) == wallets[Seller].available + spent[Seller] = SellerGets(n)

LosersFreed == \A l \in Losers : holds[l] # "active"

\* The way forward: before step n, the steps before it are in the tables and
\* no commit is on the wire.
StepsDone(n) ==
    /\ WinnerAt(n) /\ SellerAt(n)
    /\ IF n >= 4 THEN outbox = TRUE ELSE outbox = FALSE
    /\ timedOut = FALSE

Forward ==
    /\ sagaPc = "create" => i = 1 /\ todo = Losers /\ StepsDone(0)
    /\ sagaPc = "execute" => /\ i >= 1 /\ StepsDone(i - 1)
                             /\ i <= 2 => todo = Losers
                             /\ i = 3 => \A l \in Losers \ todo : holds[l] # "active"
                             /\ i = 4 => LosersFreed
    /\ sagaPc = "succeeded" => /\ i >= 1 /\ StepsDone(i)
                               /\ i <= 2 => todo = Losers
                               /\ i >= 3 => LosersFreed
    /\ sagaPc = "complete" => StepsDone(4) /\ LosersFreed
    /\ saga = "completed" => sagaPc = "done" /\ StepsDone(4) /\ LosersFreed

\* The way back: after a failure without a commit on the wire, and as long as
\* every compensation has succeeded, the first n steps are still to be undone.
\* What the seller has spent cannot be taken back.
StepsLeft(n) ==
    (timedOut = FALSE /\ compErr = FALSE) =>
        /\ WinnerAt(n)
        /\ spent[Seller] = 0 => wallets[Seller].available = SellerGets(n)
        /\ outbox = FALSE

Backward ==
    /\ sagaPc = "erred" => i >= 1 /\ StepsLeft(i - 1)
    /\ sagaPc \in {"compensate", "rehold", "finish"} => StepsLeft(i)
    /\ sagaPc = "compensate" => i \in {1, 2}
    /\ sagaPc = "rehold" => i = 3
    /\ sagaPc = "finish" => i = 0
    /\ saga = "failed" => sagaPc = "done" /\ StepsLeft(0)

\* Only a step that timed out has a commit on the wire.
WireQuiet == timedOut = FALSE => inflight = {}

\* Which losing holds are active, as long as no commit is on the wire: all of
\* them before the release step, those it has still to visit in it, none behind
\* it, and on the way back all but the ones still to be held again and the strays.
HeldExcept(S) == \A l \in Losers : holds[l] = "active" <=> l \notin S

HoldsKnown ==
    timedOut = FALSE =>
        /\ sagaPc = "create" => HeldExcept({})
        /\ sagaPc \in {"execute", "succeeded", "erred"} /\ i <= 2 => HeldExcept({})
        /\ sagaPc \in {"execute", "erred"} /\ i = 3 => HeldExcept(Losers \ todo)
        /\ sagaPc = "succeeded" /\ i = 3 => HeldExcept(Losers)
        /\ sagaPc \in {"execute", "succeeded", "erred"} /\ i = 4 => HeldExcept(Losers)
        /\ sagaPc = "rehold" => HeldExcept(todo \cup strays) /\ todo \cap strays = {}
        /\ sagaPc \in {"compensate", "finish"} => HeldExcept(strays)
        /\ saga = "failed" => HeldExcept(strays)

SagaInd ==
    /\ SagaTyped /\ LosersKeepTheirMoney
    /\ Forward /\ Backward /\ WireQuiet /\ HoldsKnown

LEMMA SagaStarts == SagaAssumption /\ SagaInit => SagaInd
<1> SUFFICES ASSUME SagaAssumption, SagaInit PROVE SagaInd
  OBVIOUS
<1>1. \A u \in Parties :
          /\ wallets[u].available = (IF u = Seller THEN SellerInitial ELSE 0)
          /\ wallets[u].held = (IF u = Winner THEN Price ELSE IF u = Seller THEN 0 ELSE LoserAmount)
  BY DEF SagaInit, InitialWallets
<1>2. SagaTyped
  BY DEF SagaAssumption, SagaInit, Parties, Bidders, SagaLabels, InitialWallets, SagaTyped
<1>a. \A u \in Parties : spent[u] = 0
  BY DEF SagaInit
<1>b. \A u \in Bidders : holds[u] = "active"
  BY DEF SagaInit
<1>c. /\ Winner \in Parties /\ Seller \in Parties /\ Losers \subseteq Parties
      /\ Winner \in Bidders /\ Losers \subseteq Bidders
      /\ Winner # Seller /\ Winner \notin Losers /\ Seller \notin Losers
      /\ Price \in Nat /\ LoserAmount \in Nat /\ SellerInitial \in Nat
  BY DEF SagaAssumption, Parties, Bidders
<1>3. LosersKeepTheirMoney
  <2> SUFFICES ASSUME NEW l \in Losers
               PROVE  /\ wallets[l].available + wallets[l].held + spent[l] = LoserAmount
                      /\ wallets[l].held = IF holds[l] = "active" THEN LoserAmount ELSE 0
    BY DEF LosersKeepTheirMoney
  <2>1. wallets[l].available = 0 /\ wallets[l].held = LoserAmount
    BY <1>1, <1>c
  <2> QED
    BY <2>1, <1>a, <1>b, <1>c
<1>4. Forward /\ Backward /\ WireQuiet
  <2>1. /\ wallets[Winner].held = Price /\ holds[Winner] = "active"
        /\ wallets[Seller].available = SellerInitial /\ spent[Seller] = 0
    BY <1>1, <1>a, <1>b, <1>c
  <2>2. outbox = FALSE /\ timedOut = FALSE
    BY DEF SagaInit
  <2>3. StepsDone(0)
    BY <1>c, <2>1, <2>2 DEF StepsDone, WinnerAt, SellerAt, SellerGets
  <2> QED
    BY <2>3 DEF SagaInit, Forward, Backward, WireQuiet
<1>5. HoldsKnown
  BY <1>b, <1>c DEF SagaInit, HoldsKnown, HeldExcept
<1> QED
  BY <1>2, <1>3, <1>4, <1>5 DEF SagaInd

\* What the transactions of the steps do to balances and holds: a loser's
\* money moves between the two balances, and with the hold.
Books == SagaTyped /\ LosersKeepTheirMoney

\* The wallets and holds of an action, the rest of its state given.
BooksMove(w, h) ==
    /\ w \in [Parties -> [available : Nat, held : Nat]]
    /\ h \in [Bidders -> {"active", "released", "charged"}]
    /\ \A l \in Losers :
           /\ w[l].available + w[l].held + spent[l] = LoserAmount
           /\ w[l].held = IF h[l] = "active" THEN LoserAmount ELSE 0
           /\ h[l] # "charged"

LEMMA ChargeKeepsBooks ==
    ASSUME SagaAssumption, Books, ChargeWinner
    PROVE  BooksMove(wallets', holds')
BY DEF SagaAssumption, Books, SagaTyped, LosersKeepTheirMoney, ChargeWinner, BooksMove,
       Parties, Bidders

LEMMA CreditKeepsBooks ==
    ASSUME SagaAssumption, Books, CreditSeller
    PROVE  BooksMove(wallets', holds')
BY DEF SagaAssumption, Books, SagaTyped, LosersKeepTheirMoney, CreditSeller, BooksMove,
       Parties, Bidders

LEMMA ReleaseKeepsBooks ==
    ASSUME SagaAssumption, Books, NEW l \in Losers, ReleaseOneHold(l)
    PROVE  BooksMove(wallets', holds')
<1>1. CASE holds[l] = "active"
  <2>1. wallets[l].held = LoserAmount /\ wallets[l].available \in Nat /\ LoserAmount \in Nat
    BY <1>1 DEF SagaAssumption, Books, SagaTyped, LosersKeepTheirMoney, Parties
  <2>2. /\ wallets' = [wallets EXCEPT ![l] = [available |-> wallets[l].available + LoserAmount, held |-> 0]]
        /\ holds' = [holds EXCEPT ![l] = "released"]
    BY <1>1, <2>1 DEF ReleaseOneHold
  <2> QED
    BY <2>1, <2>2 DEF Books, SagaTyped, LosersKeepTheirMoney, BooksMove, Parties, Bidders
<1>2. CASE holds[l] # "active"
  BY <1>2 DEF Books, SagaTyped, LosersKeepTheirMoney, ReleaseOneHold, BooksMove, tables
<1> QED
  BY <1>1, <1>2

LEMMA ReHoldKeepsBooks ==
    ASSUME SagaAssumption, Books, NEW l \in Losers, ReHoldOne(l)
    PROVE  BooksMove(wallets', holds')
BY DEF SagaAssumption, Books, SagaTyped, LosersKeepTheirMoney, ReHoldOne, BooksMove,
       Parties, Bidders

LEMMA ReversalsKeepBooks ==
    ASSUME SagaAssumption, Books, ReverseCharge \/ ReverseCredit
    PROVE  BooksMove(wallets', holds')
BY DEF SagaAssumption, Books, SagaTyped, LosersKeepTheirMoney, ReverseCharge,
       ReverseCredit, BooksMove, Parties, Bidders

LEMMA NothingKeepsBooks ==
    ASSUME Books, UNCHANGED <<wallets, holds>>
    PROVE  BooksMove(wallets', holds')
BY DEF Books, SagaTyped, LosersKeepTheirMoney, BooksMove

LEMMA CommitKeepsBooks ==
    ASSUME SagaAssumption, Books, NEW c, CommitOf(c), c.step = 3 => c.hold \in Losers
    PROVE  BooksMove(wallets', holds')
BY ChargeKeepsBooks, CreditKeepsBooks, ReleaseKeepsBooks, NothingKeepsBooks
   DEF CommitOf, ChargeStep, CreditStep, ReleaseStep, PublishStep, PublishEvents

\* The part of the type that is not about balances and holds.
PlacesTyped ==
    /\ sagaPc \in SagaLabels
    /\ i \in 0 .. 4
    /\ todo \subseteq Losers /\ strays \subseteq Losers
    /\ inflight \subseteq Commits

LEMMA BooksFromMove ==
    ASSUME BooksMove(wallets', holds'), spent \in [Parties -> Nat], UNCHANGED spent, PlacesTyped'
    PROVE  Books'
BY DEF BooksMove, PlacesTyped, Books, SagaTyped, LosersKeepTheirMoney

LEMMA BooksStep ==
    ASSUME SagaAssumption, Books, Forward, Backward, [SagaNext]_sagaVars
    PROVE  Books'
<1> USE DEF ChargeStep, CreditStep, ReleaseStep, PublishStep
<1>a. PlacesTyped /\ spent \in [Parties -> Nat]
  BY DEF Books, SagaTyped, PlacesTyped
<1>1. CASE UNCHANGED sagaVars
  BY <1>1, <1>a, NothingKeepsBooks, BooksFromMove DEF sagaVars, PlacesTyped
<1>2. CASE \/ CreateSaga \/ CreateFails \/ ReleaseDone \/ StepFails \/ Complete
           \/ Finish \/ SagaCrash \/ Cancel
  <2>1. UNCHANGED <<wallets, holds, spent, i, todo, strays, inflight>> /\ sagaPc' \in SagaLabels
    BY <1>2, <1>a DEF CreateSaga, CreateFails, ReleaseDone, StepFails, Complete,
           Finish, SagaCrash, Cancel, tables, orchestrator, environment,
           SagaLabels, PlacesTyped
  <2>2. PlacesTyped'
    BY <2>1, <1>a DEF PlacesTyped
  <2> QED
    BY <2>1, <2>2, <1>a, NothingKeepsBooks, BooksFromMove
<1>3. CASE ExecuteStep
  <2>1. PICK c : c = [step |-> i, hold |-> Winner]
    OBVIOUS
  <2>2. CommitOf(c) /\ c.step # 3 /\ UNCHANGED <<spent, i, todo, strays, inflight>> /\ sagaPc' = "succeeded"
    BY <1>3, <2>1 DEF ExecuteStep, orchestrator, environment
  <2>3. PlacesTyped'
    BY <2>2, <1>a DEF PlacesTyped, SagaLabels
  <2> QED
    BY <2>2, <2>3, <1>a, CommitKeepsBooks, BooksFromMove
<1>4. CASE ExecuteRelease
  <2>1. PICK l \in todo : ReleaseOneHold(l) /\ todo' = todo \ {l}
    BY <1>4 DEF ExecuteRelease
  <2>2. l \in Losers /\ UNCHANGED <<spent, i, sagaPc, strays, inflight>>
    BY <1>4, <1>a DEF ExecuteRelease, environment, PlacesTyped
  <2>3. PlacesTyped'
    BY <2>1, <2>2, <1>a DEF PlacesTyped
  <2> QED
    BY <2>1, <2>2, <2>3, <1>a, ReleaseKeepsBooks, BooksFromMove
<1>5. CASE StepTimesOut
  <2>1. PICK c \in Commits : inflight' = inflight \cup {c}
    BY <1>5 DEF StepTimesOut
  <2>2. UNCHANGED <<wallets, holds, spent, i, todo, strays>> /\ sagaPc' = "erred"
    BY <1>5 DEF StepTimesOut, tables, orchestrator
  <2>3. PlacesTyped'
    BY <2>1, <2>2, <1>a DEF PlacesTyped, SagaLabels
  <2> QED
    BY <2>2, <2>3, <1>a, NothingKeepsBooks, BooksFromMove
<1>6. CASE RecordSuccess
  <2>1. UNCHANGED <<wallets, holds, spent, todo, strays, inflight>>
    BY <1>6 DEF RecordSuccess, tables, environment
  <2>2. i' \in 0 .. 4 /\ sagaPc' \in {"complete", "execute"}
    BY <1>6, <1>a DEF RecordSuccess, PlacesTyped, Forward
  <2>3. PlacesTyped'
    BY <2>1, <2>2, <1>a DEF PlacesTyped, SagaLabels
  <2> QED
    BY <2>1, <2>3, <1>a, NothingKeepsBooks, BooksFromMove
<1>7. CASE RecordFailure
  <2>1. UNCHANGED <<wallets, holds, spent, inflight>> /\ todo' = Losers /\ strays' \subseteq Losers
    BY <1>7 DEF RecordFailure, tables, environment
  <2>2. i' \in 0 .. 4 /\ sagaPc' \in {"finish", "rehold", "compensate"}
    BY <1>7, <1>a DEF RecordFailure, FirstToCompensate, CompensateAt, PlacesTyped, Backward
  <2>3. PlacesTyped'
    BY <2>1, <2>2, <1>a DEF PlacesTyped, SagaLabels
  <2> QED
    BY <2>1, <2>3, <1>a, NothingKeepsBooks, BooksFromMove
<1>8. CASE CompensateStep \/ CompensateFails
  <2>1. /\ ReverseCharge \/ ReverseCredit \/ UNCHANGED <<wallets, holds>>
        /\ UNCHANGED <<spent, todo, strays, inflight>>
    BY <1>8 DEF CompensateStep, CompensateFails, Compensation, tables, environment
  <2>2. i' \in 0 .. 4 /\ sagaPc' \in {"finish", "rehold", "compensate"}
    BY <1>8, <1>a DEF CompensateStep, CompensateFails, CompensateAt, PlacesTyped, Backward
  <2>3. PlacesTyped'
    BY <2>1, <2>2, <1>a DEF PlacesTyped, SagaLabels
  <2> QED
    BY <2>1, <2>3, <1>a, ReversalsKeepBooks, NothingKeepsBooks, BooksFromMove
<1>9. CASE ReHoldDone
  <2>1. UNCHANGED <<wallets, holds, spent, todo, strays, inflight>>
    BY <1>9 DEF ReHoldDone, tables, environment
  <2>2. i' \in 0 .. 4 /\ sagaPc' \in {"finish", "rehold", "compensate"}
    BY <1>9, <1>a DEF ReHoldDone, CompensateAt, PlacesTyped, Backward
  <2>3. PlacesTyped'
    BY <2>1, <2>2, <1>a DEF PlacesTyped, SagaLabels
  <2> QED
    BY <2>1, <2>3, <1>a, NothingKeepsBooks, BooksFromMove
<1>10. CASE ReHold
  <2>1. PICK l \in todo : /\ todo' = todo \ {l} /\ (ReHoldOne(l) \/ UNCHANGED tables)
                            /\ strays' \in {strays, strays \cup {l}}
    BY <1>10 DEF ReHold
  <2>2. l \in Losers /\ UNCHANGED <<spent, i, sagaPc, inflight>>
    BY <1>10, <1>a DEF ReHold, environment, PlacesTyped
  <2>3. PlacesTyped'
    BY <2>1, <2>2, <1>a DEF PlacesTyped
  <2>4. BooksMove(wallets', holds')
    BY <2>1, <2>2, ReHoldKeepsBooks, NothingKeepsBooks DEF tables
  <2> QED
    BY <2>2, <2>3, <2>4, <1>a, BooksFromMove
<1>11. CASE LateCommit
  <2>1. PICK c \in inflight : inflight' = inflight \ {c} /\ (CommitOf(c) \/ UNCHANGED tables)
    BY <1>11 DEF LateCommit
  <2>2. UNCHANGED <<spent, sagaPc, i, todo, strays>>
    BY <1>11 DEF LateCommit, orchestrator
  <2>3. c.step = 3 => c.hold \in Losers
    BY <1>a DEF PlacesTyped, Commits
  <2>4. PlacesTyped'
    BY <2>1, <2>2, <1>a DEF PlacesTyped
  <2>5. BooksMove(wallets', holds')
    BY <2>1, <2>3, CommitKeepsBooks, NothingKeepsBooks DEF tables
  <2> QED
    BY <2>2, <2>4, <2>5, <1>a, BooksFromMove
<1>12. CASE Spend
  <2>1. PICK u \in Parties : /\ wallets' = [wallets EXCEPT ![u].available = 0]
                             /\ spent' = [spent EXCEPT ![u] = @ + wallets[u].available]
    BY <1>12 DEF Spend
  <2>2. UNCHANGED <<holds, sagaPc, i, todo, strays, inflight>>
    BY <1>12 DEF Spend, orchestrator
  <2>3. Losers \subseteq Parties /\ LoserAmount \in Nat
    BY DEF Parties, SagaAssumption
  <2>4. SagaTyped'
    BY <2>1, <2>2 DEF Books, SagaTyped
  <2>5. \A l \in Losers : /\ wallets'[l].held = wallets[l].held
                          /\ wallets'[l].available + spent'[l] = wallets[l].available + spent[l]
    BY <2>1, <2>3 DEF Books, SagaTyped
  <2>6. LosersKeepTheirMoney'
    BY <2>2, <2>3, <2>4, <2>5 DEF Books, SagaTyped, LosersKeepTheirMoney
  <2> QED
    BY <2>4, <2>6 DEF Books
<1> QED
  BY <1>1, <1>2, <1>3, <1>4, <1>5, <1>6, <1>7, <1>8, <1>9, <1>10, <1>11, <1>12
     DEF SagaNext, Orchestrate

Course == Forward /\ Backward /\ WireQuiet

\* A step that changes neither the tables nor what is remembered of failures
\* leaves what has been done and what is left to undo as it was.
LEMMA StepsStay ==
    ASSUME UNCHANGED <<wallets, holds, outbox, spent, timedOut, compErr>>, NEW n
    PROVE  /\ StepsDone(n)' = StepsDone(n)
           /\ StepsLeft(n)' = StepsLeft(n)
           /\ LosersFreed' = LosersFreed
BY DEF StepsDone, StepsLeft, LosersFreed, WinnerAt, SellerAt, SellerGets

\* What was executed is what is left to undo.
LEMMA DoneIsLeft ==
    ASSUME Books, SellerInitial \in Nat, Price \in Nat, NEW n \in 0 .. 3, StepsDone(n) PROVE StepsLeft(n)
<1>1. wallets[Seller].available \in Nat /\ spent[Seller] \in Nat
  BY DEF Books, SagaTyped, Parties
<1> QED
  BY <1>1 DEF StepsDone, StepsLeft, WinnerAt, SellerAt, SellerGets

\* A recorded end is not followed by anything.
LEMMA EndsAreLast ==
    ASSUME Course, sagaPc # "done" PROVE saga \notin {"completed", "failed"}
BY DEF Course, Forward, Backward

\* The transactions of the steps move the books from one step to the next.
LEMMA ChargeDone ==
    ASSUME SagaAssumption, Books, StepsDone(0), ChargeWinner, UNCHANGED <<spent, timedOut>>
    PROVE  StepsDone(1)'
<1>1. /\ Winner \in Parties /\ Seller \in Parties /\ Winner \in Bidders /\ Winner # Seller
      /\ Price \in Nat
  BY DEF SagaAssumption, Parties, Bidders
<1>2. /\ wallets'[Winner].held = wallets[Winner].held - Price
      /\ holds'[Winner] = "charged"
      /\ wallets'[Seller].available = wallets[Seller].available
      /\ UNCHANGED outbox
  BY <1>1 DEF ChargeWinner, Books, SagaTyped
<1> QED
  BY <1>1, <1>2 DEF StepsDone, WinnerAt, SellerAt, SellerGets

LEMMA CreditDone ==
    ASSUME SagaAssumption, Books, StepsDone(1), CreditSeller, UNCHANGED <<spent, timedOut>>
    PROVE  StepsDone(2)'
<1>1. /\ Winner \in Parties /\ Seller \in Parties /\ Winner # Seller
      /\ Price \in Nat /\ SellerInitial \in Nat
  BY DEF SagaAssumption, Parties
<1>2. /\ wallets'[Winner].held = wallets[Winner].held
      /\ wallets'[Seller].available = wallets[Seller].available + Price
      /\ wallets[Seller].available \in Nat /\ spent[Seller] \in Nat
      /\ UNCHANGED <<holds, outbox>>
  BY <1>1 DEF CreditSeller, Books, SagaTyped
<1> QED
  BY <1>1, <1>2 DEF StepsDone, WinnerAt, SellerAt, SellerGets

\* What happens to a loser's hold is no business of the winner and the seller.
LEMMA LosersApart ==
    ASSUME SagaAssumption, Books, NEW l \in Losers, ReleaseOneHold(l) \/ ReHoldOne(l),
           UNCHANGED <<spent, timedOut, compErr>>, NEW n
    PROVE  /\ StepsDone(n)' = StepsDone(n)
           /\ StepsLeft(n)' = StepsLeft(n)
           /\ \A k \in Losers \ {l} : holds'[k] = holds[k]
<1>1. /\ Winner \in Parties /\ Seller \in Parties /\ Winner \in Bidders
      /\ Winner # l /\ Seller # l /\ Losers \subseteq Bidders
  BY DEF SagaAssumption, Parties, Bidders
<1>2. /\ wallets'[Winner] = wallets[Winner] /\ wallets'[Seller] = wallets[Seller]
      /\ holds'[Winner] = holds[Winner] /\ UNCHANGED outbox
      /\ \A k \in Losers \ {l} : holds'[k] = holds[k]
  BY <1>1 DEF ReleaseOneHold, ReHoldOne, tables, Books, SagaTyped
<1> QED
  BY <1>2 DEF StepsDone, StepsLeft, WinnerAt, SellerAt, SellerGets

LEMMA ChargeUndone ==
    ASSUME SagaAssumption, Books, StepsLeft(1), ReverseCharge,
           UNCHANGED <<spent, timedOut, compErr>>
    PROVE  StepsLeft(0)'
<1>1. /\ Winner \in Parties /\ Seller \in Parties /\ Winner \in Bidders /\ Winner # Seller
      /\ Price \in Nat
  BY DEF SagaAssumption, Parties, Bidders
<1>2. /\ wallets'[Winner].held = wallets[Winner].held + Price
      /\ holds'[Winner] = "active"
      /\ wallets'[Seller].available = wallets[Seller].available
      /\ UNCHANGED outbox
  BY <1>1 DEF ReverseCharge, Books, SagaTyped
<1> QED
  BY <1>1, <1>2 DEF StepsLeft, WinnerAt, SellerGets

LEMMA CreditUndone ==
    ASSUME SagaAssumption, Books, StepsLeft(2), ReverseCredit,
           UNCHANGED <<spent, timedOut, compErr>>
    PROVE  StepsLeft(1)'
<1>1. /\ Winner \in Parties /\ Seller \in Parties /\ Winner # Seller
      /\ Price \in Nat /\ SellerInitial \in Nat
  BY DEF SagaAssumption, Parties
<1>2. /\ wallets'[Winner].held = wallets[Winner].held
      /\ wallets'[Seller].available =
             IF wallets[Seller].available >= Price THEN wallets[Seller].available - Price ELSE 0
      /\ wallets[Seller].available \in Nat
      /\ UNCHANGED <<holds, outbox>>
  BY <1>1 DEF ReverseCredit, Books, SagaTyped
<1> QED
  BY <1>1, <1>2 DEF StepsLeft, WinnerAt, SellerGets

\* Spending changes neither, except that what was spent cannot be taken back.
LEMMA SpendingCounted ==
    ASSUME SagaAssumption, Books, Spend, NEW n
    PROVE  /\ StepsDone(n) => StepsDone(n)'
           /\ StepsLeft(n) => StepsLeft(n)'
<1>1. Winner \in Parties /\ Seller \in Parties
  BY DEF Parties
<1>2. PICK u \in Parties : /\ wallets[u].available > 0
                           /\ wallets' = [wallets EXCEPT ![u].available = 0]
                           /\ spent' = [spent EXCEPT ![u] = @ + wallets[u].available]
  BY DEF Spend
<1>3. UNCHANGED <<holds, outbox, timedOut, compErr>>
  BY DEF Spend, orchestrator
<1>4. /\ wallets'[Winner].held = wallets[Winner].held
      /\ wallets'[Seller].available + spent'[Seller] = wallets[Seller].available + spent[Seller]
      /\ spent'[Seller] = 0 => wallets'[Seller].available = wallets[Seller].available /\ spent[Seller] = 0
  BY <1>1, <1>2 DEF Books, SagaTyped
<1> QED
  BY <1>3, <1>4 DEF StepsDone, StepsLeft, WinnerAt, SellerAt, SellerGets

LEMMA CourseStep ==
    ASSUME SagaAssumption, Books, Course, [SagaNext]_sagaVars
    PROVE  Course'
<1> USE DEF ChargeStep, CreditStep, ReleaseStep, PublishStep
<1>a. Price \in Nat /\ SellerInitial \in Nat /\ i \in 0 .. 4 /\ todo \subseteq Losers /\ Losers \subseteq Bidders
  BY DEF SagaAssumption, Books, SagaTyped, Bidders
<1>b. Forward /\ Backward /\ WireQuiet
  BY DEF Course
<1>1. CASE UNCHANGED sagaVars
  <2>1. UNCHANGED <<wallets, holds, outbox, spent, timedOut, compErr, sagaPc, i, todo, saga, inflight>>
    BY <1>1 DEF sagaVars
  <2>2. Forward' /\ Backward'
    BY <1>b, <2>1, StepsStay DEF Forward, Backward
  <2> QED
    BY <1>b, <2>1, <2>2 DEF Course, WireQuiet
<1>2. CASE CreateSaga \/ CreateFails \/ ReleaseDone \/ SagaCrash \/ Cancel
  <2>1. UNCHANGED <<wallets, holds, outbox, spent, timedOut, compErr, i, todo, inflight>>
    BY <1>2 DEF CreateSaga, CreateFails, ReleaseDone, SagaCrash, Cancel,
                tables, orchestrator, environment
  <2>2. saga \notin {"completed", "failed"}
    BY <1>2, EndsAreLast DEF CreateSaga, CreateFails, ReleaseDone, SagaCrash, Cancel
  <2>3. saga' \notin {"completed", "failed"}
    BY <1>2, <2>2 DEF CreateSaga, CreateFails, ReleaseDone, SagaCrash, Cancel
  <2>4. \/ sagaPc = "create" /\ sagaPc' \in {"execute", "done"}
        \/ sagaPc = "execute" /\ i = 3 /\ todo = {} /\ sagaPc' = "succeeded"
        \/ sagaPc' \in {"crashed", sagaPc}
    BY <1>2 DEF CreateSaga, CreateFails, ReleaseDone, SagaCrash, Cancel
  <2>5. StepsDone(1 - 1)' = StepsDone(0)'
    OBVIOUS
  <2>6. sagaPc = "execute" /\ i = 3 => (StepsDone(3)' = StepsDone(2)')
    BY DEF StepsDone, WinnerAt, SellerAt, SellerGets
  <2>7. sagaPc = "execute" /\ i = 3 /\ todo = {} => LosersFreed
    BY <1>b DEF Forward, LosersFreed
  <2>8. Forward'
    BY <1>a, <1>b, <2>1, <2>3, <2>4, <2>5, <2>6, <2>7, StepsStay DEF Forward
  <2>9. Backward'
    BY <1>b, <2>1, <2>3, <2>4, StepsStay DEF Backward
  <2> QED
    BY <1>b, <2>1, <2>8, <2>9 DEF Course, WireQuiet
<1>3. CASE ExecuteStep
  <2>1. PICK c : c = [step |-> i, hold |-> Winner]
    OBVIOUS
  <2>2. /\ sagaPc = "execute" /\ sagaPc' = "succeeded" /\ i # 3 /\ CommitOf(c) /\ c.step = i
        /\ UNCHANGED <<saga, i, todo, inflight, spent, timedOut, compErr>>
    BY <1>3, <2>1 DEF ExecuteStep, orchestrator, environment
  <2>3. saga \notin {"completed", "failed"}
    BY <2>2, EndsAreLast
  <2>4. CASE i = 1
    <3>1. ChargeWinner /\ StepsDone(0) /\ todo = Losers
      BY <1>b, <2>2, <2>4 DEF CommitOf, Forward
    <3>2. StepsDone(1)'
      BY <2>2, <3>1, ChargeDone
    <3> QED
      BY <1>b, <2>2, <2>3, <2>4, <3>1, <3>2 DEF Course, Forward, Backward, WireQuiet
  <2>5. CASE i = 2
    <3>1. CreditSeller /\ StepsDone(1) /\ todo = Losers
      BY <1>b, <2>2, <2>5 DEF CommitOf, Forward
    <3>2. StepsDone(2)'
      BY <2>2, <3>1, CreditDone
    <3> QED
      BY <1>b, <2>2, <2>3, <2>5, <3>1, <3>2 DEF Course, Forward, Backward, WireQuiet
  <2>6. CASE i = 4
    <3>1. PublishEvents /\ StepsDone(3) /\ LosersFreed
      BY <1>b, <2>2, <2>6 DEF CommitOf, Forward
    <3>2. StepsDone(4)' /\ LosersFreed'
      BY <2>2, <3>1 DEF PublishEvents, StepsDone, LosersFreed, WinnerAt, SellerAt, SellerGets
    <3> QED
      BY <1>b, <2>2, <2>3, <2>6, <3>1, <3>2 DEF Course, Forward, Backward, WireQuiet
  <2> QED
    BY <1>a, <1>b, <2>2, <2>4, <2>5, <2>6 DEF Forward
<1>4. CASE ExecuteRelease
  <2>1. PICK l \in todo : ReleaseOneHold(l) /\ todo' = todo \ {l}
    BY <1>4 DEF ExecuteRelease
  <2>2. /\ sagaPc = "execute" /\ i = 3 /\ UNCHANGED <<saga, sagaPc, i, inflight, spent, timedOut, compErr>>
    BY <1>4 DEF ExecuteRelease, environment
  <2>3. saga \notin {"completed", "failed"}
    BY <2>2, EndsAreLast
  <2>4. StepsDone(2)' /\ \A k \in Losers \ {l} : holds'[k] = holds[k]
    <3>1. StepsDone(2)
      BY <1>b, <2>2 DEF Forward
    <3> QED
      BY <1>a, <2>1, <2>2, <3>1, LosersApart
  <2>5. holds'[l] # "active"
    BY <1>a, <2>1 DEF ReleaseOneHold, tables, Books, SagaTyped
  <2>6. \A k \in Losers \ todo' : holds'[k] # "active"
    BY <1>b, <2>1, <2>2, <2>4, <2>5 DEF Forward
  <2> QED
    BY <1>b, <2>2, <2>3, <2>4, <2>6 DEF Course, Forward, Backward, WireQuiet
<1>5. CASE StepFails \/ StepTimesOut
  <2>1. /\ sagaPc = "execute" /\ sagaPc' = "erred" /\ UNCHANGED <<saga, i>>
        /\ UNCHANGED <<wallets, holds, outbox, spent, compErr>>
        /\ timedOut' = TRUE \/ UNCHANGED <<timedOut, inflight>>
    BY <1>5 DEF StepFails, StepTimesOut, tables, orchestrator, environment
  <2>2. saga \notin {"completed", "failed"}
    BY <2>1, EndsAreLast
  <2>3. i >= 1 /\ StepsLeft(i - 1)
    BY <1>a, <1>b, <2>1, DoneIsLeft DEF Forward
  <2>4. StepsLeft(i - 1)'
    BY <2>1, <2>3 DEF StepsLeft, WinnerAt, SellerGets
  <2> QED
    BY <1>b, <2>1, <2>2, <2>3, <2>4 DEF Course, Forward, Backward, WireQuiet
<1>6. CASE RecordSuccess
  <2>1. /\ sagaPc = "succeeded"
        /\ \/ i = 4 /\ sagaPc' = "complete" /\ UNCHANGED i
           \/ i # 4 /\ sagaPc' = "execute" /\ i' = i + 1
        /\ UNCHANGED <<wallets, holds, outbox, spent, timedOut, compErr, todo, saga, inflight>>
    BY <1>6 DEF RecordSuccess, tables, environment
  <2>2. saga \notin {"completed", "failed"}
    BY <2>1, EndsAreLast
  <2>3. i >= 1 /\ StepsDone(i) /\ (i <= 2 => todo = Losers) /\ (i >= 3 => LosersFreed)
    BY <1>b, <2>1 DEF Forward
  <2>4. PICK n \in 1 .. 4 : n = i
    BY <1>a, <2>3
  <2>5. StepsDone(n)' /\ (n >= 3 => LosersFreed')
    BY <2>1, <2>3, <2>4, StepsStay
  <2>6. CASE n = 4
    BY <1>b, <2>1, <2>2, <2>4, <2>5, <2>6 DEF Course, Forward, Backward, WireQuiet
  <2>7. CASE n # 4
    <3>1. sagaPc' = "execute" /\ i' = n + 1 /\ i' - 1 = n
      BY <2>1, <2>4, <2>7
    <3>2. n = 2 => \A l \in Losers \ todo' : holds'[l] # "active"
      BY <2>1, <2>3, <2>4
    <3>3. StepsDone(i - 1)'
      BY <2>5, <3>1 DEF StepsDone, WinnerAt, SellerAt, SellerGets
    <3>4. Forward'
      BY <2>1, <2>2, <2>3, <2>4, <2>5, <3>1, <3>2, <3>3 DEF Forward
    <3> QED
      BY <1>b, <2>1, <2>2, <3>1, <3>4 DEF Course, Backward, WireQuiet
  <2> QED
    BY <2>6, <2>7
<1>7. CASE Complete
  <2>1. /\ sagaPc = "complete" /\ sagaPc' = "done" /\ saga' \in {saga, "completed"}
        /\ UNCHANGED <<wallets, holds, outbox, spent, timedOut, compErr, inflight>>
    BY <1>7 DEF Complete, SaveEnd, SaveSaga, tables, environment
  <2>2. saga \notin {"completed", "failed"}
    BY <2>1, EndsAreLast
  <2>3. StepsDone(4)' /\ LosersFreed'
    BY <1>b, <2>1, StepsStay DEF Forward
  <2> QED
    BY <1>b, <2>1, <2>2, <2>3 DEF Course, Forward, Backward, WireQuiet
<1>8. CASE RecordFailure
  <2>1. /\ sagaPc = "erred" /\ i' = i - 1
        /\ sagaPc' = (CASE i - 1 = 0 -> "finish" [] i - 1 = 3 -> "rehold" [] OTHER -> "compensate")
        /\ saga' \in {saga, "compensating"}
        /\ UNCHANGED <<wallets, holds, outbox, spent, timedOut, compErr, inflight>>
    BY <1>8 DEF RecordFailure, FirstToCompensate, CompensateAt, SaveSaga,
                tables, environment
  <2>2. saga' \notin {"completed", "failed"}
    BY <2>1, EndsAreLast
  <2>3. PICK n \in 0 .. 3 : n = i - 1 /\ StepsLeft(n)
    BY <1>a, <1>b, <2>1 DEF Backward
  <2>4. StepsLeft(i)'
    BY <2>1, <2>3 DEF StepsLeft, WinnerAt, SellerGets
  <2>5. \/ n = 0 /\ sagaPc' = "finish"
        \/ n = 3 /\ sagaPc' = "rehold"
        \/ n \in {1, 2} /\ sagaPc' = "compensate"
    BY <2>1, <2>3
  <2>6. Backward'
    BY <2>1, <2>2, <2>3, <2>4, <2>5 DEF Backward
  <2> QED
    BY <1>b, <2>1, <2>2, <2>5, <2>6 DEF Course, Forward, WireQuiet
<1>9. CASE CompensateStep \/ CompensateFails \/ ReHoldDone
  <2>1. /\ sagaPc \in {"compensate", "rehold"} /\ i' = i - 1
        /\ sagaPc' = (CASE i - 1 = 0 -> "finish" [] i - 1 = 3 -> "rehold" [] OTHER -> "compensate")
        /\ UNCHANGED <<saga, spent, timedOut, inflight>>
    BY <1>9 DEF CompensateStep, CompensateFails, ReHoldDone, CompensateAt, environment
  <2>2. saga \notin {"completed", "failed"}
    BY <2>1, EndsAreLast
  <2>3. PICK n \in 0 .. 2 : n = i - 1 /\ StepsLeft(n + 1)
    <3>1. i \in {1, 2, 3} /\ StepsLeft(i)
      BY <1>b, <2>1 DEF Backward
    <3>2. i - 1 \in 0 .. 2 /\ (i - 1) + 1 = i
      BY <3>1
    <3> QED
      BY <3>1, <3>2
  <2>4. StepsLeft(n)'
    <3>1. CASE CompensateStep
      <4>1. UNCHANGED <<spent, timedOut, compErr>>
        BY <3>1 DEF CompensateStep, environment
      <4>2. \/ n = 0 /\ ReverseCharge
            \/ n = 1 /\ ReverseCredit
        BY <2>3, <3>1 DEF CompensateStep, Compensation
      <4> QED
        BY <2>3, <4>1, <4>2, ChargeUndone, CreditUndone
    <3>2. CASE CompensateFails
      BY <3>2 DEF CompensateFails, StepsLeft
    <3>3. CASE ReHoldDone
      <4>1. n = 2 /\ UNCHANGED <<wallets, holds, outbox, spent, timedOut, compErr>>
        BY <1>b, <2>3, <3>3 DEF ReHoldDone, tables, environment, Backward
      <4> QED
        BY <2>3, <4>1 DEF StepsLeft, WinnerAt, SellerGets
    <3> QED
      BY <1>9, <3>1, <3>2, <3>3
  <2>5. \/ n = 0 /\ sagaPc' = "finish"
        \/ n \in {1, 2} /\ sagaPc' = "compensate"
    BY <2>1, <2>3
  <2>6. StepsLeft(i)'
    BY <2>1, <2>3, <2>4 DEF StepsLeft, WinnerAt, SellerGets
  <2>7. Backward'
    BY <2>1, <2>2, <2>3, <2>5, <2>6 DEF Backward
  <2> QED
    BY <1>b, <2>1, <2>2, <2>5, <2>7 DEF Course, Forward, WireQuiet
<1>10. CASE ReHold
  <2>1. PICK l \in todo : ReHoldOne(l) \/ UNCHANGED tables
    BY <1>10 DEF ReHold
  <2>2. sagaPc = "rehold" /\ UNCHANGED <<saga, sagaPc, i, inflight, spent, timedOut, compErr>>
    BY <1>10 DEF ReHold, environment
  <2>3. saga \notin {"completed", "failed"}
    BY <2>2, EndsAreLast
  <2>4. StepsLeft(3)'
    <3>1. StepsLeft(3)
      BY <1>b, <2>2 DEF Backward
    <3> QED
      BY <1>a, <2>1, <2>2, <3>1, LosersApart, StepsStay DEF tables
  <2> QED
    BY <1>b, <2>2, <2>3, <2>4 DEF Course, Forward, Backward, WireQuiet
<1>11. CASE Finish
  <2>1. /\ sagaPc = "finish" /\ sagaPc' = "done" /\ saga' \in {saga, "failed"}
        /\ UNCHANGED <<wallets, holds, outbox, spent, timedOut, compErr, inflight>>
    BY <1>11 DEF Finish, SaveEnd, SaveSaga, tables, environment
  <2>2. saga \notin {"completed", "failed"}
    BY <2>1, EndsAreLast
  <2>3. StepsLeft(0)'
    BY <1>b, <2>1, StepsStay DEF Backward
  <2> QED
    BY <1>b, <2>1, <2>2, <2>3 DEF Course, Forward, Backward, WireQuiet
<1>12. CASE LateCommit
  <2>1. PICK c \in inflight : inflight' = inflight \ {c}
    BY <1>12 DEF LateCommit
  <2>2. UNCHANGED <<saga, sagaPc, i, todo, timedOut>>
    BY <1>12 DEF LateCommit, orchestrator
  <2>3. timedOut # FALSE
    BY <1>b DEF WireQuiet
  <2>4. Forward'
    BY <1>b, <2>2, <2>3 DEF Forward, StepsDone
  <2>5. Backward'
    BY <1>b, <2>2, <2>3 DEF Backward, StepsLeft
  <2> QED
    BY <2>2, <2>3, <2>4, <2>5 DEF Course, WireQuiet
<1>13. CASE Spend
  <2>1. UNCHANGED <<holds, saga, sagaPc, i, todo, inflight, timedOut>>
    BY <1>13 DEF Spend, orchestrator
  <2>2. \A n : (StepsDone(n) => StepsDone(n)') /\ (StepsLeft(n) => StepsLeft(n)')
    BY <1>13, SpendingCounted
  <2>3. Forward'
    BY <1>b, <2>1, <2>2 DEF Forward, LosersFreed
  <2>4. Backward'
    BY <1>b, <2>1, <2>2 DEF Backward
  <2> QED
    BY <1>b, <2>1, <2>3, <2>4 DEF Course, WireQuiet
<1> QED
  BY <1>1, <1>2, <1>3, <1>4, <1>5, <1>6, <1>7, <1>8, <1>9, <1>10, <1>11, <1>12, <1>13
     DEF SagaNext, Orchestrate

\* No reversal touches a losing hold.
LEMMA ReversalsLeaveLosers ==
    ASSUME SagaAssumption, Books, Compensation PROVE \A l \in Losers : holds'[l] = holds[l]
BY DEF SagaAssumption, Books, SagaTyped, Compensation, ReverseCharge, ReverseCredit, Bidders

LEMMA HoldsStep ==
    ASSUME SagaAssumption, Books, Course, HoldsKnown, [SagaNext]_sagaVars
    PROVE  HoldsKnown'
<1> USE DEF ChargeStep, CreditStep, ReleaseStep, PublishStep
<1> SUFFICES ASSUME timedOut' = FALSE PROVE HoldsKnown'
  BY DEF HoldsKnown
<1>a. i \in 0 .. 4 /\ todo \subseteq Losers /\ Losers \subseteq Bidders /\ Winner \notin Losers
  BY DEF SagaAssumption, Books, SagaTyped, Bidders
<1>b. Forward /\ Backward /\ WireQuiet
  BY DEF Course
<1>1. CASE UNCHANGED sagaVars
  BY <1>1 DEF sagaVars, HoldsKnown, HeldExcept
<1>2. CASE CreateSaga \/ CreateFails \/ SagaCrash \/ Cancel
  <2>1. UNCHANGED <<holds, i, todo, strays, timedOut>>
    BY <1>2 DEF CreateSaga, CreateFails, SagaCrash, Cancel, tables, orchestrator, environment
  <2>2. saga \notin {"completed", "failed"}
    BY <1>2, EndsAreLast DEF CreateSaga, CreateFails, SagaCrash, Cancel
  <2>3. /\ saga' # "failed"
        /\ \/ sagaPc = "create" /\ sagaPc' \in {"execute", "done"}
           \/ sagaPc' \in {"crashed", sagaPc}
    BY <1>2, <2>2 DEF CreateSaga, CreateFails, SagaCrash, Cancel
  <2>4. sagaPc = "create" => i = 1
    BY <1>b DEF Forward
  <2> QED
    BY <2>1, <2>3, <2>4 DEF HoldsKnown, HeldExcept
<1>3. CASE ExecuteStep
  <2>1. PICK c : c = [step |-> i, hold |-> Winner]
    OBVIOUS
  <2>2. /\ sagaPc = "execute" /\ sagaPc' = "succeeded" /\ i # 3 /\ CommitOf(c) /\ c.step = i
        /\ UNCHANGED <<saga, i, todo, timedOut>>
    BY <1>3, <2>1 DEF ExecuteStep, orchestrator, environment
  <2>3. saga # "failed"
    BY <2>2, EndsAreLast
  <2>4. \A l \in Losers : holds'[l] = holds[l]
    BY <1>a, <2>2 DEF CommitOf, ChargeWinner, CreditSeller, PublishEvents, Books, SagaTyped
  <2> QED
    BY <2>2, <2>3, <2>4 DEF HoldsKnown, HeldExcept
<1>4. CASE ExecuteRelease
  <2>1. PICK l \in todo : ReleaseOneHold(l) /\ todo' = todo \ {l}
    BY <1>4 DEF ExecuteRelease
  <2>2. sagaPc = "execute" /\ i = 3 /\ UNCHANGED <<saga, sagaPc, i, spent, timedOut, compErr>>
    BY <1>4 DEF ExecuteRelease, environment
  <2>3. saga # "failed"
    BY <2>2, EndsAreLast
  <2>4. \A k \in Losers \ {l} : holds'[k] = holds[k]
    BY <1>a, <2>1, <2>2, LosersApart
  <2>5. holds'[l] # "active"
    BY <1>a, <2>1 DEF ReleaseOneHold, tables, Books, SagaTyped
  <2>6. HeldExcept(Losers \ todo)
    BY <2>2 DEF HoldsKnown
  <2>7. HeldExcept(Losers \ todo)'
    BY <1>a, <2>1, <2>4, <2>5, <2>6 DEF HeldExcept
  <2> QED
    BY <2>2, <2>3, <2>7 DEF HoldsKnown
<1>5. CASE ReleaseDone
  <2>1. /\ sagaPc = "execute" /\ i = 3 /\ todo = {} /\ sagaPc' = "succeeded"
        /\ UNCHANGED <<saga, holds, i, todo, timedOut>>
    BY <1>5 DEF ReleaseDone, tables, orchestrator, environment
  <2>2. saga # "failed"
    BY <2>1, EndsAreLast
  <2> QED
    BY <2>1, <2>2 DEF HoldsKnown, HeldExcept
<1>6. CASE StepFails \/ StepTimesOut
  <2>1. /\ sagaPc = "execute" /\ sagaPc' = "erred"
        /\ UNCHANGED <<saga, holds, i, todo, timedOut>>
    BY <1>6 DEF StepFails, StepTimesOut, tables, orchestrator, environment
  <2>2. saga # "failed"
    BY <2>1, EndsAreLast
  <2> QED
    BY <2>1, <2>2 DEF HoldsKnown, HeldExcept
<1>7. CASE RecordSuccess
  <2>1. /\ sagaPc = "succeeded"
        /\ \/ i = 4 /\ sagaPc' = "complete" /\ UNCHANGED i
           \/ i # 4 /\ sagaPc' = "execute" /\ i' = i + 1
        /\ UNCHANGED <<saga, holds, todo, timedOut>>
    BY <1>7 DEF RecordSuccess, tables, environment
  <2>2. saga # "failed"
    BY <2>1, EndsAreLast
  <2>3. i <= 2 => todo = Losers
    BY <1>b, <2>1 DEF Forward
  <2> QED
    BY <1>a, <2>1, <2>2, <2>3 DEF HoldsKnown, HeldExcept
<1>8. CASE Complete
  <2>1. sagaPc = "complete" /\ sagaPc' = "done" /\ saga' \in {saga, "completed"}
    BY <1>8 DEF Complete, SaveEnd, SaveSaga
  <2>2. saga # "failed"
    BY <2>1, EndsAreLast
  <2> QED
    BY <2>1, <2>2 DEF HoldsKnown
<1>9. CASE RecordFailure
  <2>1. /\ sagaPc = "erred" /\ todo' = Losers
        /\ sagaPc' = (CASE i - 1 = 0 -> "finish" [] i - 1 = 3 -> "rehold" [] OTHER -> "compensate")
        /\ strays' = IF i = 3 THEN Losers \ todo ELSE {}
        /\ saga' \in {saga, "compensating"}
        /\ UNCHANGED <<holds, timedOut>>
    BY <1>9 DEF RecordFailure, FirstToCompensate, CompensateAt, SaveSaga, tables, environment
  <2>2. saga' # "failed"
    BY <2>1, EndsAreLast
  <2>3. i >= 1
    BY <1>b, <2>1 DEF Backward
  <2>4. \/ i = 4 /\ sagaPc' = "rehold" /\ strays' = {} /\ HeldExcept(Losers)
        \/ i = 3 /\ sagaPc' = "compensate" /\ strays' = Losers \ todo /\ HeldExcept(Losers \ todo)
        \/ i <= 2 /\ sagaPc' \in {"finish", "compensate"} /\ strays' = {} /\ HeldExcept({})
    BY <1>a, <2>1, <2>3 DEF HoldsKnown
  <2> QED
    BY <2>1, <2>2, <2>4 DEF HoldsKnown, HeldExcept
<1>10. CASE CompensateStep \/ CompensateFails
  <2>1. /\ sagaPc = "compensate" /\ i \in {1, 2} /\ (Compensation \/ UNCHANGED tables)
        /\ sagaPc' = (CASE i - 1 = 0 -> "finish" [] i - 1 = 3 -> "rehold" [] OTHER -> "compensate")
        /\ UNCHANGED <<saga, strays, timedOut>>
    BY <1>10, <1>b DEF CompensateStep, CompensateFails, CompensateAt, environment, Backward
  <2>2. saga # "failed"
    BY <2>1, EndsAreLast
  <2>3. \A l \in Losers : holds'[l] = holds[l]
    BY <2>1, ReversalsLeaveLosers DEF tables
  <2>4. sagaPc' \in {"finish", "compensate"}
    BY <2>1
  <2> QED
    BY <2>1, <2>2, <2>3, <2>4 DEF HoldsKnown, HeldExcept
<1>11. CASE ReHold
  <2>1. PICK l \in todo :
            /\ todo' = todo \ {l}
            /\ \/ ReHoldOne(l) /\ UNCHANGED strays
               \/ holds[l] # "released" /\ UNCHANGED <<tables, strays>>
               \/ strays' = strays \cup {l} /\ UNCHANGED tables
    BY <1>11 DEF ReHold
  <2>2. sagaPc = "rehold" /\ UNCHANGED <<saga, sagaPc, i, spent, timedOut, compErr>>
    BY <1>11 DEF ReHold, environment
  <2>3. saga # "failed" /\ HeldExcept(todo \cup strays)
    BY <2>2, EndsAreLast DEF HoldsKnown
  <2>4. \A k \in Losers \ {l} : holds'[k] = holds[k]
    BY <1>a, <2>1, <2>2, LosersApart DEF tables
  <2>5. holds[l] = "released" /\ l \in Losers
    BY <1>a, <2>3 DEF HeldExcept, Books, SagaTyped
  <2>6. \/ holds'[l] = "active" /\ strays' = strays
        \/ holds'[l] # "active" /\ strays' = strays \cup {l}
    BY <1>a, <2>1, <2>5 DEF ReHoldOne, tables, Books, SagaTyped
  <2>7. l \notin strays /\ todo' \cap strays' = {}
    BY <2>1, <2>2, <2>6 DEF HoldsKnown
  <2>8. HeldExcept(todo \cup strays)'
    BY <2>1, <2>3, <2>4, <2>5, <2>6, <2>7 DEF HeldExcept
  <2> QED
    BY <2>2, <2>3, <2>7, <2>8 DEF HoldsKnown
<1>12. CASE ReHoldDone
  <2>1. /\ sagaPc = "rehold" /\ todo = {} /\ i = 3
        /\ sagaPc' = (CASE i - 1 = 0 -> "finish" [] i - 1 = 3 -> "rehold" [] OTHER -> "compensate")
        /\ UNCHANGED <<saga, holds, strays, timedOut>>
    BY <1>12, <1>b DEF ReHoldDone, CompensateAt, tables, environment, Backward
  <2>2. saga # "failed" /\ sagaPc' = "compensate"
    BY <2>1, EndsAreLast
  <2> QED
    BY <2>1, <2>2 DEF HoldsKnown, HeldExcept
<1>13. CASE Finish
  <2>1. sagaPc = "finish" /\ sagaPc' = "done" /\ UNCHANGED <<holds, strays, timedOut>>
    BY <1>13 DEF Finish, tables, environment
  <2> QED
    BY <2>1 DEF HoldsKnown, HeldExcept
<1>14. CASE LateCommit
  <2>1. inflight # {} /\ UNCHANGED timedOut
    BY <1>14 DEF LateCommit
  <2> QED
    BY <1>b, <2>1 DEF WireQuiet
<1>15. CASE Spend
  <2>1. UNCHANGED <<holds, saga, sagaPc, i, todo, strays, timedOut>>
    BY <1>15 DEF Spend, orchestrator
  <2> QED
    BY <2>1 DEF HoldsKnown, HeldExcept
<1> QED
  BY <1>1, <1>2, <1>3, <1>4, <1>5, <1>6, <1>7, <1>8, <1>9, <1>10, <1>11, <1>12, <1>13,
     <1>14, <1>15
     DEF SagaNext, Orchestrate

LEMMA SagaInvariant == SagaSpec => []SagaInd
<1>1. SagaInit => SagaInd
  BY SagaAssumption, SagaStarts
<1>2. SagaInd /\ [SagaNext]_sagaVars => SagaInd'
  BY SagaAssumption, BooksStep, CourseStep, HoldsStep DEF SagaInd, Books, Course
<1> QED
  BY <1>1, <1>2, PTL DEF SagaSpec

\* A losing bidder's money is neither lost nor multiplied by the saga, and it is
\* held exactly while the hold is active: for any number of losers, any failure
\* of a step (releaseOneHold, reHoldOne) and any commit that lands late.
THEOREM LosersMoneyIsKept == SagaSpec => []LosersKeepTheirMoney
<1>1. SagaInd => LosersKeepTheirMoney
  BY DEF SagaInd
<1> QED
  BY <1>1, SagaInvariant, PTL

\* A saga Execute has recorded as completed has charged the winner, credited the
\* seller, freed every losing hold and written its events.
THEOREM CompletedIsSettled == SagaSpec => []CompletedMeansSettled
<1>1. SagaInd => CompletedMeansSettled
  BY SagaAssumption DEF SagaAssumption, SagaInd, Forward, StepsDone, WinnerAt, SellerAt, SellerGets, LosersFreed,
         LosersKeepTheirMoney, CompletedMeansSettled
<1> QED
  BY <1>1, SagaInvariant, PTL

\* A saga recorded as failed, none of whose compensations failed and none of
\* whose steps timed out with its commit on the wire, has undone all it did to
\* the winner, the outbox and, unless the money was spent, the seller; the losing
\* holds it leaves released are exactly the strays.
THEOREM FailuresAreUndone == SagaSpec => []FailureUndone
<1>1. SagaInd => FailureUndone
  <2>1. SagaInd /\ saga = "failed" /\ ~compErr /\ ~timedOut =>
            /\ holds[Winner] = "active" /\ wallets[Winner].held = Price
            /\ spent[Seller] = 0 => wallets[Seller].available = SellerInitial
            /\ ~outbox
    BY SagaAssumption DEF SagaAssumption, SagaInd, Backward, StepsLeft, WinnerAt, SellerGets
  <2>2. SagaInd /\ saga = "failed" /\ ~timedOut => HeldExcept(strays) /\ strays \subseteq Losers
    BY DEF SagaInd, HoldsKnown, SagaTyped
  <2>3. HeldExcept(strays) /\ strays \subseteq Losers => {l \in Losers : holds[l] # "active"} = strays
    BY DEF HeldExcept
  <2> QED
    BY <2>1, <2>2, <2>3 DEF FailureUndone
<1> QED
  BY <1>1, SagaInvariant, PTL

-----------------------------------------------------------------------------
(* The user service's consumer of auction.ended. *)

ConsumerTyped ==
    /\ topic \in Seq(Message)
    /\ position \in 0 .. Len(topic)
    /\ committed \in -1 .. Len(topic)
    /\ runPc \in {"fetch", "settle", "credit", "commit"}
    /\ credited \in [ConsumedAuctions -> Nat]
    /\ consumerFaults \in [Kinds -> Nat]

\* Run only works on a message that it has fetched and that is an auction.ended
\* with a winner.
EndInHand ==
    runPc \in {"settle", "credit"} =>
        position > 0 /\ topic[position] = EndedWithWinner(topic[position].auction)

\* The messages the reader has done with.
Passed == IF runPc \in {"settle", "credit"} THEN position - 1 ELSE position

Restarts == consumerFaults["restart"]

\* One credit for every time the reader came past a copy: every copy once for
\* each restart, and the copies it is past now once more.
CreditsCounted ==
    \A a \in ConsumedAuctions :
        credited[a] <= Copies(a, Len(topic)) * Restarts + Copies(a, Passed)

ConsumerInd == ConsumerTyped /\ EndInHand /\ CreditsCounted

\* The copies in a sequence of messages.
CopiesOf(s, a, n) == Cardinality({k \in 1 .. n : s[k] = EndedWithWinner(a)})

LEMMA CopiesAre ==
    ASSUME NEW a, NEW n
    PROVE  Copies(a, n) = CopiesOf(topic, a, n)
BY DEF Copies, CopiesOf

LEMMA CopiesType ==
    ASSUME NEW s, NEW a, NEW n \in Nat
    PROVE  CopiesOf(s, a, n) \in Nat
<1> DEFINE S == {k \in 1 .. n : s[k] = EndedWithWinner(a)}
<1>1. IsFiniteSet(1 .. n)
  BY FS_Interval
<1>2. IsFiniteSet(S)
  BY <1>1, FS_Subset
<1> QED
  BY <1>2, FS_CardinalityType DEF CopiesOf

LEMMA CopiesGrow ==
    ASSUME NEW s, NEW a, NEW m \in Nat, NEW n \in Nat, m <= n
    PROVE  CopiesOf(s, a, m) <= CopiesOf(s, a, n)
<1> DEFINE S == {k \in 1 .. m : s[k] = EndedWithWinner(a)}
           T == {k \in 1 .. n : s[k] = EndedWithWinner(a)}
<1>1. IsFiniteSet(1 .. n)
  BY FS_Interval
<1>2. IsFiniteSet(T)
  BY <1>1, FS_Subset
<1>3. S \subseteq T
  OBVIOUS
<1>4. Cardinality(S) <= Cardinality(T)
  BY <1>2, <1>3, FS_Subset
<1> QED
  BY <1>4 DEF CopiesOf

LEMMA CopiesNext ==
    ASSUME NEW s, NEW a, NEW n \in Nat
    PROVE  CopiesOf(s, a, n + 1) = CopiesOf(s, a, n) + (IF s[n + 1] = EndedWithWinner(a) THEN 1 ELSE 0)
<1> DEFINE S == {k \in 1 .. n : s[k] = EndedWithWinner(a)}
           T == {k \in 1 .. n + 1 : s[k] = EndedWithWinner(a)}
<1>1. IsFiniteSet(1 .. n)
  BY FS_Interval
<1>2. IsFiniteSet(S)
  BY <1>1, FS_Subset
<1>3. n + 1 \notin S
  OBVIOUS
<1>4. T = IF s[n + 1] = EndedWithWinner(a) THEN S \cup {n + 1} ELSE S
  OBVIOUS
<1>5. Cardinality(S) \in Nat /\ Cardinality(S \cup {n + 1}) = Cardinality(S) + 1
  BY <1>2, <1>3, FS_AddElement, FS_CardinalityType
<1>6. CopiesOf(s, a, n) = Cardinality(S) /\ CopiesOf(s, a, n + 1) = Cardinality(T)
  BY DEF CopiesOf
<1> HIDE DEF S, T
<1> QED
  BY <1>4, <1>5, <1>6

LEMMA CopiesSame ==
    ASSUME NEW s, NEW t, NEW a, NEW n \in Nat, \A k \in 1 .. n : s[k] = t[k]
    PROVE  CopiesOf(s, a, n) = CopiesOf(t, a, n)
<1>1. {k \in 1 .. n : s[k] = EndedWithWinner(a)} = {k \in 1 .. n : t[k] = EndedWithWinner(a)}
  OBVIOUS
<1> QED
  BY <1>1 DEF CopiesOf

\* The two facts about products that the count needs.
LEMMA MoreCopies ==
    ASSUME NEW c \in Nat, NEW d \in Nat, NEW r \in Nat, c <= d
    PROVE  c * r \in Nat /\ d * r \in Nat /\ c * r <= d * r
OBVIOUS

LEMMA OneMoreRestart ==
    ASSUME NEW c \in Nat, NEW r \in Nat
    PROVE  c * r \in Nat /\ c * (r + 1) = c * r + c /\ c * (1 + r) = c * r + c
OBVIOUS

LEMMA MoreCredits ==
    ASSUME NEW e \in Nat, NEW u \in Nat, NEW v \in Nat, NEW x \in Nat, NEW y \in Nat,
           e <= u + x, u <= v, x <= y
    PROVE  e <= v + y
OBVIOUS

LEMMA OneMoreCredit ==
    ASSUME NEW e \in Nat, NEW u \in Nat, NEW v \in Nat, NEW x \in Nat, NEW y \in Nat,
           e <= u + x, u <= v, y = x + 1
    PROVE  e + 1 <= v + y
OBVIOUS

LEMMA ConsumerStarts == ConsumerInit => ConsumerInd
<1> SUFFICES ASSUME ConsumerInit PROVE ConsumerInd
  OBVIOUS
<1>1. ConsumerTyped /\ EndInHand
  BY DEF ConsumerInit, ConsumerTyped, EndInHand, Kinds
<1>2. Passed = 0 /\ Len(topic) = 0 /\ Restarts = 0
  BY DEF ConsumerInit, Passed, Restarts, Kinds
<1>3. ASSUME NEW a \in ConsumedAuctions
      PROVE  credited[a] <= Copies(a, Len(topic)) * Restarts + Copies(a, Passed)
  <2>1. PICK c \in Nat : c = Copies(a, 0)
    BY CopiesAre, CopiesType
  <2>2. credited[a] = 0
    BY DEF ConsumerInit
  <2> QED
    BY <1>2, <2>1, <2>2
<1> QED
  BY <1>1, <1>3 DEF ConsumerInd, CreditsCounted

\* What a fault does to the counters: its own goes up.
LEMMA ConsumerFaultAdds ==
    ASSUME ConsumerTyped, NEW kind \in Kinds, ConsumerFault(kind)
    PROVE  /\ consumerFaults' \in [Kinds -> Nat]
           /\ Restarts' = Restarts + (IF kind = "restart" THEN 1 ELSE 0)
<1>1. consumerFaults' = [consumerFaults EXCEPT ![kind] = @ + 1]
  BY DEF ConsumerFault
<1> QED
  BY <1>1 DEF ConsumerTyped, Kinds, Restarts

\* A step with at most a fault that restarts nothing.
LEMMA NoRestart ==
    ASSUME ConsumerTyped, NEW kind \in Kinds \ {"restart"}, UNCHANGED consumerFaults \/ ConsumerFault(kind)
    PROVE  consumerFaults' \in [Kinds -> Nat] /\ Restarts' = Restarts
<1>1. CASE UNCHANGED consumerFaults
  BY <1>1 DEF ConsumerTyped, Restarts
<1>2. CASE ConsumerFault(kind)
  <2>1. consumerFaults' \in [Kinds -> Nat] /\ Restarts' = Restarts + (IF kind = "restart" THEN 1 ELSE 0)
    BY <1>2, ConsumerFaultAdds
  <2>2. Restarts \in Nat
    BY DEF ConsumerTyped, Restarts, Kinds
  <2> QED
    BY <2>1, <2>2
<1> QED
  BY <1>1, <1>2

\* The count is kept by a step that restarts nothing, only adds to the topic, goes
\* past at least as much and credits at most what it goes past.
LEMMA CreditsKept ==
    ASSUME ConsumerTyped, ConsumerTyped', CreditsCounted, Restarts \in Nat, Restarts' = Restarts,
           Passed \in 0 .. Len(topic), Passed' \in 0 .. Len(topic'), Passed <= Passed',
           Len(topic) <= Len(topic'), \A n \in 1 .. Len(topic) : topic'[n] = topic[n],
           \A a \in ConsumedAuctions :
               \/ credited'[a] = credited[a]
               \/ /\ credited'[a] = credited[a] + 1
                  /\ Passed' = Passed + 1 /\ topic'[Passed + 1] = EndedWithWinner(a)
    PROVE  CreditsCounted'
<1> SUFFICES ASSUME NEW a \in ConsumedAuctions
             PROVE  credited'[a] <= Copies(a, Len(topic))' * Restarts' + Copies(a, Passed)'
  BY DEF CreditsCounted
<1>l. PICK m : m = Len(topic)
  OBVIOUS
<1>m. PICK n : n = Len(topic')
  OBVIOUS
<1>p. PICK p : p = Passed
  OBVIOUS
<1>q. PICK q : q = Passed'
  OBVIOUS
<1>r. PICK r : r = Restarts
  OBVIOUS
<1>s. PICK s : s = topic
  OBVIOUS
<1>t. PICK t : t = topic'
  OBVIOUS
<1>n. m \in Nat /\ n \in Nat
  <2>1. Len(topic) \in Nat /\ Len(topic') \in Nat
    BY DEF ConsumerTyped
  <2> QED
    BY <1>l, <1>m, <2>1
<1>1. /\ m \in Nat /\ n \in Nat /\ p \in Nat /\ q \in Nat /\ r \in Nat
      /\ m <= n /\ p <= q /\ p <= m /\ q <= n
      /\ \A k \in 1 .. m : t[k] = s[k]
  BY <1>l, <1>m, <1>n, <1>p, <1>q, <1>r, <1>s, <1>t
<1>2. PICK c \in Nat, d \in Nat, x \in Nat, y \in Nat :
          /\ c = CopiesOf(s, a, m) /\ d = CopiesOf(t, a, n)
          /\ x = CopiesOf(s, a, p) /\ y = CopiesOf(t, a, q)
  BY <1>1, CopiesType
<1>3. c <= d
  <2>1. CopiesOf(s, a, m) = CopiesOf(t, a, m)
    BY <1>1, CopiesSame
  <2> QED
    BY <1>1, <1>2, <2>1, CopiesGrow
<1>4. x = CopiesOf(t, a, p) /\ x <= y
  <2>1. CopiesOf(s, a, p) = CopiesOf(t, a, p)
    BY <1>1, CopiesSame
  <2> QED
    BY <1>1, <1>2, <2>1, CopiesGrow
<1>5. PICK u \in Nat, v \in Nat : u = c * r /\ v = d * r /\ u <= v
  <2>1. r \in Nat /\ c \in Nat /\ d \in Nat
    BY <1>1, <1>2
  <2>2. c * r \in Nat /\ d * r \in Nat /\ c * r <= d * r
    BY <1>3, <2>1, MoreCopies
  <2> QED
    BY <2>2
<1>6. credited[a] \in Nat /\ credited[a] <= u + x
  <2>1. Copies(a, Len(topic)) = c /\ Copies(a, Passed) = x
    BY <1>l, <1>p, <1>s, <1>2, CopiesAre
  <2>2. credited[a] <= Copies(a, Len(topic)) * Restarts + Copies(a, Passed)
    BY DEF CreditsCounted
  <2>3. credited[a] <= c * r + x
    BY <1>r, <2>1, <2>2
  <2>4. credited[a] \in Nat
    BY DEF ConsumerTyped
  <2> QED
    BY <1>5, <2>3, <2>4
<1>7. Copies(a, Len(topic))' = d /\ Copies(a, Passed)' = y
  BY <1>m, <1>q, <1>t, <1>2 DEF Copies, CopiesOf
<1>e. PICK e : e = credited[a]
  OBVIOUS
<1>f. PICK f : f = credited'[a]
  OBVIOUS
<1>8. f <= v + y
  <2>0. e \in Nat /\ e <= u + x
    BY <1>e, <1>6
  <2>1. CASE credited'[a] = credited[a]
    <3>1. f = e
      BY <1>e, <1>f, <2>1
    <3>2. e <= v + y
      BY <1>2, <1>4, <1>5, <2>0, MoreCredits
    <3> QED
      BY <3>1, <3>2
  <2>2. CASE credited'[a] = credited[a] + 1 /\ Passed' = Passed + 1 /\ topic'[Passed + 1] = EndedWithWinner(a)
    <3>1. q = p + 1 /\ t[p + 1] = EndedWithWinner(a)
      BY <1>p, <1>q, <1>t, <2>2
    <3>3. f = e + 1
      BY <1>e, <1>f, <2>2
    <3>2. y = x + 1
      <4>1. p \in Nat
        BY <1>1
      <4>2. CopiesOf(t, a, p + 1) = CopiesOf(t, a, p) + 1
        BY <3>1, <4>1, CopiesNext
      <4> QED
        BY <1>2, <1>4, <3>1, <4>2
    <3>4. e + 1 <= v + y
      BY <1>2, <1>5, <2>0, <3>2, OneMoreCredit
    <3> QED
      BY <3>3, <3>4
  <2> QED
    BY <2>1, <2>2
<1>9. Restarts' = r
  BY <1>r
<1> QED
  BY <1>f, <1>5, <1>7, <1>8, <1>9

\* A restart gives back what the reader is past, and one more round of copies
\* pays for that.
LEMMA RestartPaid ==
    ASSUME ConsumerTyped, CreditsCounted, Restarts \in Nat, Restarts' = Restarts + 1,
           Passed \in 0 .. Len(topic), Passed' \in 0 .. Len(topic), UNCHANGED <<topic, credited>>
    PROVE  CreditsCounted'
<1> SUFFICES ASSUME NEW a \in ConsumedAuctions
             PROVE  credited'[a] <= Copies(a, Len(topic))' * Restarts' + Copies(a, Passed)'
  BY DEF CreditsCounted
<1>l. PICK m : m = Len(topic)
  OBVIOUS
<1>p. PICK p : p = Passed
  OBVIOUS
<1>q. PICK q : q = Passed'
  OBVIOUS
<1>r. PICK r : r = Restarts
  OBVIOUS
<1>s. PICK s : s = topic
  OBVIOUS
<1>n. Len(topic) \in Nat
  BY DEF ConsumerTyped
<1>1. m \in Nat /\ p \in Nat /\ q \in Nat /\ r \in Nat /\ p <= m
  BY <1>l, <1>n, <1>p, <1>q, <1>r
<1>2. PICK c \in Nat, x \in Nat, y \in Nat :
          c = CopiesOf(s, a, m) /\ x = CopiesOf(s, a, p) /\ y = CopiesOf(s, a, q)
  BY <1>1, CopiesType
<1>3. x <= c
  BY <1>1, <1>2, CopiesGrow
<1>4. PICK u \in Nat : u = c * r /\ c * (r + 1) = u + c
  BY <1>1, <1>2, OneMoreRestart
<1>5. credited[a] \in Nat /\ credited[a] <= u + x
  <2>1. Copies(a, Len(topic)) = c /\ Copies(a, Passed) = x
    BY <1>l, <1>p, <1>s, <1>2, CopiesAre
  <2>2. credited[a] <= Copies(a, Len(topic)) * Restarts + Copies(a, Passed)
    BY DEF CreditsCounted
  <2>3. credited[a] <= c * r + x
    BY <1>r, <2>1, <2>2
  <2>4. credited[a] \in Nat
    BY DEF ConsumerTyped
  <2> QED
    BY <1>4, <2>3, <2>4
<1>6. Copies(a, Len(topic))' = c /\ Copies(a, Passed)' = y
  BY <1>l, <1>q, <1>s, <1>2 DEF Copies, CopiesOf
<1>e. PICK e : e = credited[a]
  OBVIOUS
<1>7. e <= c * (r + 1) + y
  <2>1. e \in Nat /\ e <= u + x
    BY <1>e, <1>5
  <2>2. e <= (u + c) + y
    <3>0. u \in Nat /\ c \in Nat /\ x \in Nat /\ y \in Nat /\ u <= u
      BY <1>2, <1>4
    <3>1. e <= u + c /\ e \in Nat /\ u + c \in Nat /\ y \in Nat
      BY <1>3, <2>1, <3>0
    <3>2. PICK w \in Nat : w = u + c
      BY <3>1
    <3>3. e <= w + y
      BY <3>1, <3>2
    <3> QED
      BY <3>2, <3>3
  <2> QED
    BY <1>4, <2>2
<1>8. credited'[a] = e /\ Restarts' = r + 1
  BY <1>e, <1>r
<1> QED
  BY <1>6, <1>7, <1>8

LEMMA ConsumerStep == ConsumerInd /\ [ConsumerNext]_consumerVars => ConsumerInd'
<1> SUFFICES ASSUME ConsumerInd, [ConsumerNext]_consumerVars PROVE ConsumerInd'
  OBVIOUS
<1>a. ConsumerTyped /\ EndInHand /\ CreditsCounted
  BY DEF ConsumerInd
<1>b. {"again", "wallet", "ack", "commit", "restart"} = Kinds /\ Len(topic) \in Nat /\ Restarts \in Nat
  BY <1>a DEF ConsumerTyped, Kinds, Restarts
<1>k. {"again", "wallet", "ack", "commit"} \subseteq Kinds \ {"restart"}
  BY DEF Kinds
<1>c. Passed \in 0 .. Len(topic) /\ position \in 0 .. Len(topic)
  BY <1>a DEF ConsumerTyped, EndInHand, Passed
<1>1. CASE UNCHANGED consumerVars
  <2>1. UNCHANGED <<topic, position, committed, runPc, credited, consumerFaults>>
    BY <1>1 DEF consumerVars
  <2>2. ConsumerTyped' /\ EndInHand' /\ Passed' = Passed /\ Restarts' = Restarts
    BY <1>a, <2>1 DEF ConsumerTyped, EndInHand, Passed, Restarts
  <2> QED
    BY <1>a, <1>b, <1>c, <2>1, <2>2, CreditsKept DEF ConsumerInd
<1>2. ASSUME NEW m \in Message, PublishMessage(m) PROVE ConsumerInd'
  <2>1. /\ topic' = Append(topic, m) /\ UNCHANGED <<position, committed, runPc, credited>>
        /\ UNCHANGED consumerFaults \/ ConsumerFault("again")
    BY <1>2 DEF PublishMessage
  <2>2. /\ topic' \in Seq(Message) /\ Len(topic') = Len(topic) + 1
        /\ \A n \in 1 .. Len(topic) : topic'[n] = topic[n]
    BY <1>a, <2>1 DEF ConsumerTyped
  <2>3. consumerFaults' \in [Kinds -> Nat] /\ Restarts' = Restarts
    BY <1>a, <1>k, <2>1, NoRestart
  <2>4. ConsumerTyped'
    BY <1>a, <2>1, <2>2, <2>3 DEF ConsumerTyped
  <2>5. EndInHand' /\ Passed' = Passed
    BY <1>a, <1>c, <2>1, <2>2 DEF EndInHand, Passed
  <2> QED
    BY <1>a, <1>b, <1>c, <2>1, <2>2, <2>3, <2>4, <2>5, CreditsKept DEF ConsumerInd
<1>3. CASE FetchMessage
  <2>1. /\ runPc = "fetch" /\ position < Len(topic) /\ position' = position + 1
        /\ runPc' = (IF topic[position + 1].key = "ended" /\ topic[position + 1].winner THEN "settle" ELSE "commit")
        /\ UNCHANGED <<topic, committed, credited, consumerFaults>>
    BY <1>3 DEF FetchMessage
  <2>2. ConsumerTyped' /\ Restarts' = Restarts
    BY <1>a, <2>1 DEF ConsumerTyped, Restarts
  <2>3. topic[position + 1] \in Message
    BY <1>a, <1>c, <2>1 DEF ConsumerTyped
  <2>4. EndInHand'
    <3> SUFFICES ASSUME runPc' \in {"settle", "credit"}
                 PROVE  position' > 0 /\ topic'[position'] = EndedWithWinner(topic'[position'].auction)
      BY DEF EndInHand
    <3>1. PICK m : m = topic[position + 1]
      OBVIOUS
    <3>2. m \in Message /\ m.key = "ended" /\ m.winner
      BY <2>1, <2>3, <3>1
    <3>3. m = EndedWithWinner(m.auction)
      BY <3>2 DEF Message, EndedWithWinner
    <3>4. topic'[position'] = m
      BY <2>1, <3>1
    <3> QED
      BY <1>c, <2>1, <3>3, <3>4
  <2>5. Passed' \in 0 .. Len(topic) /\ Passed <= Passed'
    BY <1>c, <2>1 DEF Passed
  <2> QED
    BY <1>a, <1>b, <1>c, <2>1, <2>2, <2>4, <2>5, CreditsKept DEF ConsumerInd
<1>4. CASE Settle
  <2>1. /\ runPc = "settle" /\ runPc' = "credit" /\ UNCHANGED <<topic, position, committed, credited>>
        /\ UNCHANGED consumerFaults \/ ConsumerFault("ack") \/ ConsumerFault("wallet")
    BY <1>4 DEF Settle, WalletCall
  <2>2. consumerFaults' \in [Kinds -> Nat] /\ Restarts' = Restarts
    BY <1>a, <1>k, <2>1, NoRestart
  <2>3. ConsumerTyped' /\ EndInHand' /\ Passed' = Passed
    BY <1>a, <2>1, <2>2 DEF ConsumerTyped, EndInHand, Passed
  <2> QED
    BY <1>a, <1>b, <1>c, <2>1, <2>2, <2>3, CreditsKept DEF ConsumerInd
<1>5. CASE Credit
  <2>1. /\ runPc = "credit" /\ runPc' = "commit" /\ UNCHANGED <<topic, position, committed>>
        /\ UNCHANGED consumerFaults \/ ConsumerFault("ack") \/ ConsumerFault("wallet")
        /\ \/ credited' = [credited EXCEPT ![topic[position].auction] = @ + 1]
           \/ UNCHANGED credited
    BY <1>5 DEF Credit, WalletCall, Current
  <2>2. consumerFaults' \in [Kinds -> Nat] /\ Restarts' = Restarts
    BY <1>a, <1>k, <2>1, NoRestart
  <2>3. position \in 1 .. Len(topic) /\ topic[position] = EndedWithWinner(topic[position].auction)
    BY <1>a, <1>c, <2>1 DEF EndInHand
  <2>4. PICK b \in ConsumedAuctions : b = topic[position].auction
    <3>1. topic[position] \in Message
      BY <1>a, <2>3 DEF ConsumerTyped
    <3> QED
      BY <3>1 DEF Message
  <2>5. credited \in [ConsumedAuctions -> Nat]
    BY <1>a DEF ConsumerTyped
  <2>6. credited' \in [ConsumedAuctions -> Nat]
    BY <2>1, <2>4, <2>5
  <2>7. ConsumerTyped' /\ EndInHand'
    BY <1>a, <2>1, <2>2, <2>6 DEF ConsumerTyped, EndInHand
  <2>8. Passed' = Passed + 1 /\ Passed + 1 = position
    BY <2>1, <2>3 DEF Passed
  <2>9. \A a \in ConsumedAuctions :
            \/ credited'[a] = credited[a]
            \/ credited'[a] = credited[a] + 1 /\ topic'[Passed + 1] = EndedWithWinner(a)
    BY <2>1, <2>3, <2>4, <2>5, <2>8
  <2>10. Passed' \in 0 .. Len(topic') /\ Passed <= Passed'
    BY <1>c, <2>1, <2>3, <2>8
  <2> QED
    BY <1>a, <1>b, <1>c, <2>1, <2>2, <2>7, <2>8, <2>9, <2>10, CreditsKept DEF ConsumerInd
<1>6. CASE CommitMessages
  <2>1. /\ runPc = "commit" /\ runPc' = "fetch" /\ committed' \in {committed, position}
        /\ UNCHANGED <<topic, position, credited>>
        /\ UNCHANGED consumerFaults \/ ConsumerFault("commit")
    BY <1>6 DEF CommitMessages
  <2>2. consumerFaults' \in [Kinds -> Nat] /\ Restarts' = Restarts
    BY <1>a, <1>k, <2>1, NoRestart
  <2>3. ConsumerTyped' /\ EndInHand' /\ Passed' = Passed
    BY <1>a, <2>1, <2>2 DEF ConsumerTyped, EndInHand, Passed
  <2> QED
    BY <1>a, <1>b, <1>c, <2>1, <2>2, <2>3, CreditsKept DEF ConsumerInd
<1>7. CASE Restart
  <2>1. /\ runPc' = "fetch" /\ ConsumerFault("restart")
        /\ position' = (IF committed = -1 THEN Len(topic) ELSE committed)
        /\ UNCHANGED <<topic, committed, credited>>
    BY <1>7 DEF Restart
  <2>2. consumerFaults' \in [Kinds -> Nat] /\ Restarts' = Restarts + 1
    BY <1>a, <1>b, <2>1, ConsumerFaultAdds
  <2>3. ConsumerTyped' /\ EndInHand'
    BY <1>a, <1>b, <2>1, <2>2 DEF ConsumerTyped, EndInHand
  <2>4. Passed' \in 0 .. Len(topic)
    BY <1>a, <1>b, <2>1 DEF ConsumerTyped, Passed
  <2>5. CreditsCounted'
    BY <1>a, <1>b, <1>c, <2>1, <2>2, <2>4, RestartPaid
  <2> QED
    BY <2>3, <2>5 DEF ConsumerInd
<1> QED
  BY <1>1, <1>2, <1>3, <1>4, <1>5, <1>6, <1>7 DEF ConsumerNext, Run

\* A seller is credited once for each copy of auction.ended in the topic, and
\* once more at most for each copy and each time the consumer was started again:
\* whatever commits fail (CommitMessages) and whatever answers of the wallet are
\* lost, for any number of auctions, copies and faults.
THEOREM CreditsAreBounded == ConsumerSpec => []RestartsBoundCredits
<1>1. ConsumerInd => RestartsBoundCredits
  <2> SUFFICES ASSUME ConsumerInd, NEW a \in ConsumedAuctions
               PROVE  credited[a] <= Copies(a, Len(topic)) * (1 + consumerFaults["restart"])
    BY DEF RestartsBoundCredits
  <2>l. PICK m : m = Len(topic)
    OBVIOUS
  <2>p. PICK p : p = Passed
    OBVIOUS
  <2>r. PICK r : r = Restarts
    OBVIOUS
  <2>1. m \in Nat /\ p \in Nat /\ r \in Nat /\ p <= m
    <3>1. Len(topic) \in Nat /\ Restarts \in Nat
      BY DEF ConsumerInd, ConsumerTyped, Restarts, Kinds
    <3>2. Passed \in 0 .. Len(topic)
      BY <3>1 DEF ConsumerInd, ConsumerTyped, EndInHand, Passed
    <3> QED
      BY <2>l, <2>p, <2>r, <3>1, <3>2
  <2>2. PICK c \in Nat, x \in Nat : c = CopiesOf(topic, a, m) /\ x = CopiesOf(topic, a, p)
    BY <2>1, CopiesType
  <2>3. x <= c
    BY <2>1, <2>2, CopiesGrow
  <2>4. c = Copies(a, Len(topic)) /\ x = Copies(a, Passed)
    BY <2>l, <2>p, <2>2, CopiesAre
  <2>5. PICK u \in Nat : u = c * r /\ c * (1 + r) = u + c
    BY <2>1, <2>2, OneMoreRestart
  <2>e. PICK e : e = credited[a]
    OBVIOUS
  <2>6. e \in Nat
    BY <2>e DEF ConsumerInd, ConsumerTyped
  <2>7. e <= u + x
    BY <2>e, <2>r, <2>4, <2>5 DEF ConsumerInd, CreditsCounted
  <2>8. e <= c * (1 + r)
    <3>1. e <= u + c
      BY <2>2, <2>3, <2>5, <2>6, <2>7
    <3> QED
      BY <2>5, <3>1
  <2> QED
    BY <2>e, <2>r, <2>4, <2>8 DEF Restarts
<1> QED
  BY <1>1, ConsumerStarts, ConsumerStep, PTL DEF ConsumerSpec

-----------------------------------------------------------------------------
(* The auction service's lifecycle. *)

\* A row keeps its id, and a tick that is between finding an auction and
\* announcing it has one in hand.
RowsNamed == \A a \in Auctions : rows[a].id = a

RowInHand == \A p \in Pods : tickPc[p] \in {"announceStart", "write", "announceEnd"} => found[p].row \in Row

\* The scheduler lock keeps ticks apart ...
TicksAlone == \A p \in Pods : tickPc[p] # "idle" => tickLock = p

\* ... so that the state of a row on a tick's list is still the one that put it
\* there.
ListFresh(p) ==
    /\ tickPc[p] \in {"activate", "announceStart"} => \A r \in list[p] : rows[r.id].state = "scheduled"
    /\ tickPc[p] \in {"end", "write", "announceEnd"} => \A r \in list[p] : rows[r.id].state = "active"
    /\ tickPc[p] = "write" => /\ rows[found[p].row.id].state = "active"
                              /\ \A r \in list[p] : r.id # found[p].row.id
    /\ \A q, r \in list[p] : q.id = r.id => q = r

ListsFresh == \A p \in Pods : ListFresh(p)

\* The announcements of an auction's end that have been made or may still be:
\* one while it has not ended, one while a tick is about to announce it; a
\* failed UPDATE lets both be true, and a retry of the producer adds one.
Announcing(a) == \E p \in Pods : tickPc[p] = "announceEnd" /\ found[p].row.id = a

Spare == IF lifeFaults.kinds \cap {"write", "retry"} # {} THEN lifeFaults.count ELSE 0

EndsCounted ==
    \A a \in Auctions :
        EndedEvents(a) + (IF rows[a].state # "ended" THEN 1 ELSE 0) + (IF Announcing(a) THEN 1 ELSE 0)
            <= 1 + Spare

LifeShape == LifeTypeOK /\ RowsNamed /\ RowInHand

LifeInd ==
    /\ LifeShape
    /\ "slow" \in lifeFaults.kinds \/ (TicksAlone /\ ListsFresh /\ EndsCounted)

\* Faults are only ever added, so a failed UPDATE stays paid for.
LEMMA LifeFaultAdds ==
    ASSUME LifecycleAssumption, LifeTypeOK,
           NoLifeFault \/ \E kind \in {"read", "write", "ack", "publish", "retry", "unlock", "crash", "slow"} :
               LifeFault(kind)
    PROVE  /\ lifeFaults' \in [count : 0 .. MaxLifeFaults, kinds : SUBSET LifeFaultKinds]
           /\ lifeFaults.kinds \subseteq lifeFaults'.kinds
           /\ Spare \in Nat /\ Spare' \in Nat /\ Spare <= Spare'
<1>1. lifeFaults \in [count : 0 .. MaxLifeFaults, kinds : SUBSET LifeFaultKinds] /\ MaxLifeFaults \in Nat
  BY DEF LifecycleAssumption, LifeTypeOK
<1>2. CASE NoLifeFault
  BY <1>1, <1>2 DEF NoLifeFault, Spare
<1>3. ASSUME NEW kind, LifeFault(kind)
      PROVE  /\ lifeFaults' \in [count : 0 .. MaxLifeFaults, kinds : SUBSET LifeFaultKinds]
             /\ lifeFaults.kinds \subseteq lifeFaults'.kinds
             /\ Spare \in Nat /\ Spare' \in Nat /\ Spare <= Spare'
  <2>1. /\ kind \in LifeFaultKinds /\ lifeFaults.count < MaxLifeFaults
        /\ lifeFaults' = [count |-> lifeFaults.count + 1, kinds |-> lifeFaults.kinds \cup {kind}]
    BY <1>3 DEF LifeFault
  <2>2. lifeFaults' \in [count : 0 .. MaxLifeFaults, kinds : SUBSET LifeFaultKinds]
    BY <1>1, <2>1
  <2>3. lifeFaults'.count = lifeFaults.count + 1 /\ lifeFaults.kinds \subseteq lifeFaults'.kinds
    BY <2>1
  <2> QED
    BY <1>1, <2>2, <2>3 DEF Spare
<1> QED
  BY <1>2, <1>3

\* A failed UPDATE and a retry pay for one announcement more.
LEMMA FaultPaid ==
    ASSUME LifeTypeOK, LifeFault("write") \/ LifeFault("retry") PROVE Spare' >= Spare + 1
<1>1. PICK kind \in {"write", "retry"} :
          /\ lifeFaults' = [count |-> lifeFaults.count + 1, kinds |-> lifeFaults.kinds \cup {kind}]
          /\ lifeFaults.count \in Nat
  BY DEF LifeFault, LifeTypeOK
<1>2. lifeFaults'.count = lifeFaults.count + 1 /\ kind \in lifeFaults'.kinds
  BY <1>1
<1> QED
  BY <1>1, <1>2 DEF Spare

\* The announcements of an end, counted.
LEMMA EndedEventsType ==
    ASSUME auctionTopic \in Seq(Event), NEW a PROVE EndedEvents(a) \in Nat
<1>1. IsFiniteSet(1 .. Len(auctionTopic))
  BY FS_Interval
<1> DEFINE S == {n \in 1 .. Len(auctionTopic) : auctionTopic[n].type = "ended" /\ auctionTopic[n].auction = a}
<1>2. IsFiniteSet(S)
  BY <1>1, FS_Subset
<1> QED
  BY <1>2, FS_CardinalityType DEF EndedEvents

\* The same count, of any sequence of events.
EndsIn(s, a) == Cardinality({n \in 1 .. Len(s) : s[n].type = "ended" /\ s[n].auction = a})

LEMMA EndsInAppend ==
    ASSUME NEW s \in Seq(Event), NEW e \in Event, NEW a
    PROVE  /\ EndsIn(s, a) \in Nat
           /\ EndsIn(Append(s, e), a) = EndsIn(s, a) + (IF e.type = "ended" /\ e.auction = a THEN 1 ELSE 0)
<1>a. PICK t : t = Append(s, e)
  OBVIOUS
<1> DEFINE S == {n \in 1 .. Len(s) : s[n].type = "ended" /\ s[n].auction = a}
           T == {n \in 1 .. Len(t) : t[n].type = "ended" /\ t[n].auction = a}
<1>1. /\ Len(s) \in Nat /\ Len(t) = Len(s) + 1
      /\ \A n \in 1 .. Len(s) : t[n] = s[n]
      /\ t[Len(s) + 1] = e
  BY <1>a
<1>2. IsFiniteSet(S)
  <2>1. IsFiniteSet(1 .. Len(s))
    BY <1>1, FS_Interval
  <2> QED
    BY <2>1, FS_Subset
<1>3. Len(s) + 1 \notin S
  BY <1>1
<1>4. T = IF e.type = "ended" /\ e.auction = a THEN S \cup {Len(s) + 1} ELSE S
  BY <1>1
<1>5. Cardinality(S) \in Nat /\ Cardinality(S \cup {Len(s) + 1}) = Cardinality(S) + 1
  BY <1>2, <1>3, FS_AddElement, FS_CardinalityType
<1>6. EndsIn(s, a) = Cardinality(S) /\ EndsIn(t, a) = Cardinality(T)
  BY DEF EndsIn
<1> HIDE DEF S, T
<1> QED
  BY <1>a, <1>4, <1>5, <1>6

LEMMA EndedEventsAreIn ==
    ASSUME NEW a PROVE EndedEvents(a) = EndsIn(auctionTopic, a) /\ EndedEvents(a)' = EndsIn(auctionTopic', a)
BY DEF EndedEvents, EndsIn

LEMMA LifeStarts == LifecycleAssumption /\ LifeInit => LifeInd
<1> SUFFICES ASSUME LifecycleAssumption, LifeInit PROVE LifeInd
  OBVIOUS
<1>1. LifeShape
  BY DEF LifecycleAssumption, LifeInit, LifeShape, LifeTypeOK, RowsNamed, RowInHand, Row,
         Nothing, TickLabels
<1>2. TicksAlone /\ ListsFresh
  BY DEF LifeInit, TicksAlone, ListsFresh, ListFresh
<1>3. \A a \in Auctions : EndedEvents(a) = 0
  <2> TAKE a \in Auctions
  <2>1. {n \in 1 .. Len(auctionTopic) : auctionTopic[n].type = "ended" /\ auctionTopic[n].auction = a} = {}
    BY DEF LifeInit
  <2> QED
    BY <2>1, FS_EmptySet DEF EndedEvents
<1>4. \A a \in Auctions : ~Announcing(a)
  BY DEF LifeInit, Announcing
<1>5. Spare = 0
  BY DEF LifeInit, Spare
<1>6. EndsCounted
  BY <1>3, <1>4, <1>5 DEF EndsCounted
<1> QED
  BY <1>1, <1>2, <1>6 DEF LifeInd

\* A step of one auction or of one pod.
HttpStep(a) ==
    \/ \E reserve \in Reserves : Create(a, reserve) \/ UpdateWrite(a, reserve)
    \/ \E amount \in 1 .. MaxBid : BidPlaced(a, amount)
    \/ UpdateRead(a) \/ Delete(a) \/ TimePasses(a)

LEMMA LifeSteps ==
    ASSUME [LifeNext]_lifeVars
    PROVE  \/ UNCHANGED lifeVars
           \/ \E a \in Auctions : HttpStep(a)
           \/ \E p \in Pods : Tick(p) \/ TickCrash(p)
           \/ TickLockExpires
BY DEF LifeNext, HttpStep

\* What the HTTP operations, the bidders and the clock do.
LEMMA HttpEffect ==
    ASSUME LifeShape, NEW a \in Auctions, HttpStep(a)
    PROVE  /\ LifeShape'
           /\ UNCHANGED <<tickLock, tickPc, list, found, auctionTopic, lifeFaults>>
           /\ \A b \in Auctions : \/ rows'[b].state = rows[b].state
                                  \/ rows[b].state = "none" /\ rows'[b].state \in {"scheduled", "active"}
<1>a. LifeTypeOK /\ RowsNamed /\ RowInHand
  BY DEF LifeShape
<1>1. ASSUME NEW reserve \in Reserves, Create(a, reserve)
      PROVE  /\ LifeShape' /\ UNCHANGED <<tickLock, tickPc, list, found, auctionTopic, lifeFaults>>
             /\ \A b \in Auctions : \/ rows'[b].state = rows[b].state
                                    \/ rows[b].state = "none" /\ rows'[b].state \in {"scheduled", "active"}
  <2>1. PICK s \in {"scheduled", "active"} : rows' = [rows EXCEPT ![a].reserve = reserve, ![a].state = s]
    BY <1>1 DEF Create
  <2>2. rows[a].state = "none" /\ UNCHANGED <<clock, top, tickLock, tickPc, list, found, auctionTopic, editing, lifeFaults>>
    BY <1>1 DEF Create
  <2>3. PICK old \in Row : old = rows[a] /\ rows \in [Auctions -> Row]
    BY <1>a DEF LifeTypeOK
  <2>4. PICK new : new = [old EXCEPT !.reserve = reserve, !.state = s] /\ rows' = [rows EXCEPT ![a] = new]
    BY <2>1, <2>3
  <2>5. new \in Row /\ new.id = old.id /\ new.state = s
    BY <2>4 DEF Row
  <2>6. rows' \in [Auctions -> Row] /\ (\A b \in Auctions : rows'[b].id = rows[b].id)
        /\ rows'[a].state = s /\ \A b \in Auctions \ {a} : rows'[b] = rows[b]
    BY <2>3, <2>4, <2>5
  <2> QED
    BY <1>a, <2>2, <2>6 DEF LifeShape, LifeTypeOK, RowsNamed, RowInHand
<1>2. ASSUME NEW reserve \in Reserves, UpdateWrite(a, reserve)
      PROVE  /\ LifeShape' /\ UNCHANGED <<tickLock, tickPc, list, found, auctionTopic, lifeFaults>>
             /\ \A b \in Auctions : rows'[b].state = rows[b].state
  <2>1. rows' = rows \/ rows' = [rows EXCEPT ![a].reserve = reserve]
    BY <1>2 DEF UpdateWrite
  <2>2. editing' \subseteq editing /\ UNCHANGED <<clock, top, tickLock, tickPc, list, found, auctionTopic, lifeFaults>>
    BY <1>2 DEF UpdateWrite
  <2>3. rows' \in [Auctions -> Row]
        /\ \A b \in Auctions : rows'[b].id = rows[b].id /\ rows'[b].state = rows[b].state
    <3>1. PICK old \in Row : old = rows[a] /\ rows \in [Auctions -> Row]
      BY <1>a DEF LifeTypeOK
    <3>2. CASE rows' = rows
      BY <3>1, <3>2
    <3>3. CASE rows' = [rows EXCEPT ![a].reserve = reserve]
      <4>1. PICK new : new = [old EXCEPT !.reserve = reserve] /\ rows' = [rows EXCEPT ![a] = new]
        BY <3>1, <3>3
      <4>2. new \in Row /\ new.id = old.id /\ new.state = old.state
        BY <4>1 DEF Row
      <4> QED
        BY <3>1, <4>1, <4>2
    <3> QED
      BY <2>1, <3>2, <3>3
  <2> QED
    BY <1>a, <2>2, <2>3 DEF LifeShape, LifeTypeOK, RowsNamed, RowInHand
<1>3. CASE Delete(a)
  <2>1. rows' = [rows EXCEPT ![a].deleted = TRUE]
        /\ UNCHANGED <<clock, top, tickLock, tickPc, list, found, auctionTopic, editing, lifeFaults>>
    BY <1>3 DEF Delete
  <2>2. PICK old \in Row : old = rows[a] /\ rows \in [Auctions -> Row]
    BY <1>a DEF LifeTypeOK
  <2>3. PICK new : new = [old EXCEPT !.deleted = TRUE] /\ rows' = [rows EXCEPT ![a] = new]
    BY <2>1, <2>2
  <2>4. new \in Row /\ new.id = old.id /\ new.state = old.state
    BY <2>3 DEF Row
  <2>5. rows' \in [Auctions -> Row]
        /\ \A b \in Auctions : rows'[b].id = rows[b].id /\ rows'[b].state = rows[b].state
    BY <2>2, <2>3, <2>4
  <2> QED
    BY <1>a, <2>1, <2>5 DEF LifeShape, LifeTypeOK, RowsNamed, RowInHand
<1>4. ASSUME NEW amount \in 1 .. MaxBid, BidPlaced(a, amount)
      PROVE  LifeShape' /\ UNCHANGED <<tickLock, rows, tickPc, list, found, auctionTopic, lifeFaults>>
  <2>1. /\ top' = [top EXCEPT ![a] = amount]
        /\ UNCHANGED <<clock, rows, tickLock, tickPc, list, found, auctionTopic, editing, lifeFaults>>
    BY <1>4 DEF BidPlaced
  <2> QED
    BY <1>a, <2>1 DEF LifeShape, LifeTypeOK, RowsNamed, RowInHand
<1>5. CASE UpdateRead(a)
  BY <1>a, <1>5 DEF UpdateRead, LifeShape, LifeTypeOK, RowsNamed, RowInHand
<1>6. CASE TimePasses(a)
  BY <1>a, <1>6 DEF TimePasses, LifeShape, LifeTypeOK, RowsNamed, RowInHand
<1> QED
  BY <1>1, <1>2, <1>3, <1>4, <1>5, <1>6 DEF HttpStep

\* What the steps of a tick do: a row that changes keeps its id.
TickKeeps(p) ==
    /\ rows' \in [Auctions -> Row] /\ \A a \in Auctions : rows'[a].id = a
    /\ tickPc' \in [Pods -> TickLabels] /\ \A q \in Pods \ {p} : tickPc'[q] = tickPc[q]
    /\ list' \in [Pods -> SUBSET Row] /\ \A q \in Pods \ {p} : list'[q] = list[q]
    /\ found' \in [Pods -> [row : Row \cup {None}, winner : 0 .. MaxBid]]
    /\ \A q \in Pods \ {p} : found'[q] = found[q]
    /\ tickPc'[p] \in {"announceStart", "write", "announceEnd"} => found'[p].row \in Row
    /\ auctionTopic' \in Seq(Event)

LEMMA LifeShapeFromTick ==
    ASSUME LifeShape, NEW p \in Pods, TickKeeps(p), UNCHANGED <<clock, top, editing>>,
           tickLock' \in Pods \cup {None}, lifeFaults' \in [count : 0 .. MaxLifeFaults, kinds : SUBSET LifeFaultKinds]
    PROVE  LifeShape'
BY DEF LifeShape, TickKeeps, LifeTypeOK, RowsNamed, RowInHand

LEMMA FetchKeeps ==
    ASSUME LifeShape, NEW p \in Pods, NEW state, NEW times, NEW loop \in TickLabels,
           FetchRows(p, state, times, loop), loop \notin {"announceStart", "write", "announceEnd"}
    PROVE  TickKeeps(p)
<1>1. PICK new \in SUBSET Row : list' = [list EXCEPT ![p] = new]
  <2>1. RowsWhere(state, times) \subseteq Row
    BY DEF RowsWhere, LifeShape, LifeTypeOK
  <2> QED
    BY <2>1 DEF FetchRows
<1>2. tickPc' = [tickPc EXCEPT ![p] = loop] /\ UNCHANGED <<rows, found, auctionTopic>>
  BY DEF FetchRows, TickGoto
<1> QED
  BY <1>1, <1>2 DEF TickKeeps, LifeShape, LifeTypeOK, RowsNamed, RowInHand

\* Writing a row, by its id.
LEMMA RowWritten ==
    ASSUME LifeShape, NEW r \in Row, NEW s \in {"active", "ended"}, NEW w \in 0 .. MaxBid,
           \/ rows' = [rows EXCEPT ![r.id].state = s]
           \/ rows' = [rows EXCEPT ![r.id].winner = w, ![r.id].state = s]
    PROVE  /\ rows' \in [Auctions -> Row] /\ \A a \in Auctions : rows'[a].id = a
           /\ rows'[r.id].state = s
           /\ \A a \in Auctions : a # r.id => rows'[a] = rows[a]
<1>1. PICK b \in Auctions : b = r.id
  BY DEF Row
<1>2. rows \in [Auctions -> Row] /\ \A a \in Auctions : rows[a].id = a
  BY DEF LifeShape, LifeTypeOK, RowsNamed
<1>3. \/ rows' = [rows EXCEPT ![b].state = s]
      \/ rows' = [rows EXCEPT ![b].winner = w, ![b].state = s]
  BY <1>1
<1>4. /\ rows' \in [Auctions -> Row] /\ rows'[b].id = rows[b].id /\ rows'[b].state = s
      /\ \A a \in Auctions : a # b => rows'[a] = rows[a]
  BY <1>2, <1>3 DEF Row
<1> QED
  BY <1>1, <1>2, <1>4

LifeOrder == TicksAlone /\ ListsFresh /\ EndsCounted

\* While one pod is in its tick the others are idle.
LEMMA OthersIdle ==
    ASSUME TicksAlone, NEW p \in Pods, tickPc[p] # "idle"
    PROVE  tickLock = p /\ \A q \in Pods : q # p => tickPc[q] = "idle"
BY DEF TicksAlone

LEMMA AloneKept ==
    ASSUME TicksAlone, NEW p \in Pods, tickPc[p] # "idle", TickKeeps(p),
           tickLock' = tickLock \/ tickPc'[p] = "idle"
    PROVE  TicksAlone'
BY OthersIdle DEF TicksAlone, TickKeeps

LEMMA FreshKept ==
    ASSUME TicksAlone, ListsFresh, NEW p \in Pods, tickPc[p] # "idle", TickKeeps(p), ListFresh(p)'
    PROVE  ListsFresh'
<1> SUFFICES ASSUME NEW q \in Pods, q # p PROVE ListFresh(q)'
  BY DEF ListsFresh
<1>1. tickPc'[q] = "idle" /\ list'[q] = list[q]
  BY OthersIdle DEF TickKeeps
<1> QED
  BY <1>1 DEF ListsFresh, ListFresh

LEMMA EndsKept ==
    ASSUME LifeShape, EndsCounted, Spare \in Nat, Spare' \in Nat, Spare <= Spare',
           \A a \in Auctions : EndedEvents(a)' = EndedEvents(a),
           \A a \in Auctions : rows[a].state = "ended" => rows'[a].state = "ended",
           \A a \in Auctions : Announcing(a)' => Announcing(a)
    PROVE  EndsCounted'
<1> SUFFICES ASSUME NEW a \in Auctions
             PROVE  EndedEvents(a)' + (IF rows'[a].state # "ended" THEN 1 ELSE 0)
                       + (IF Announcing(a)' THEN 1 ELSE 0) <= 1 + Spare'
  BY DEF EndsCounted
<1>1. PICK n \in Nat : n = EndedEvents(a)
  BY EndedEventsType DEF LifeShape, LifeTypeOK
<1>2. n + (IF rows[a].state # "ended" THEN 1 ELSE 0) + (IF Announcing(a) THEN 1 ELSE 0) <= 1 + Spare
  BY <1>1 DEF EndsCounted
<1>3. EndedEvents(a)' = n
  BY <1>1
<1>4. PICK x \in Nat, y \in Nat : x = Spare /\ y = Spare' /\ x <= y
  OBVIOUS
<1>5. PICK k \in {0, 1}, m \in {0, 1} :
          /\ k = (IF rows[a].state # "ended" THEN 1 ELSE 0)
          /\ m = (IF rows'[a].state # "ended" THEN 1 ELSE 0)
          /\ m <= k
  OBVIOUS
<1>6. PICK u \in {0, 1}, v \in {0, 1} :
          /\ u = (IF Announcing(a) THEN 1 ELSE 0)
          /\ v = (IF Announcing(a)' THEN 1 ELSE 0)
          /\ v <= u
  <2>1. CASE Announcing(a)'
    BY <2>1
  <2>2. CASE ~Announcing(a)'
    BY <2>2
  <2> QED
    BY <2>1, <2>2
<1>7. n + k + u <= 1 + x
  BY <1>2, <1>4, <1>5, <1>6
<1>8. n + m + v <= 1 + y
  <2>1. x <= y /\ m <= k /\ v <= u
    BY <1>4, <1>5, <1>6
  <2>2. m \in Int /\ k \in Int /\ u \in Int /\ v \in Int
    OBVIOUS
  <2> QED
    BY <1>7, <2>1, <2>2
<1> QED
  BY <1>3, <1>4, <1>5, <1>6, <1>8

LEMMA EndedEventsStay ==
    ASSUME UNCHANGED auctionTopic, NEW a PROVE EndedEvents(a)' = EndedEvents(a)
BY DEF EndedEvents

\* A tick's step that neither ends nor announces anything.
LEMMA QuietTick ==
    ASSUME LifecycleAssumption, LifeShape, NEW p \in Pods, tickPc[p] # "idle", TickKeeps(p),
           NoLifeFault \/ \E kind \in {"read", "write", "ack", "publish", "retry", "unlock", "crash", "slow"} :
               LifeFault(kind),
           UNCHANGED <<clock, top, editing>>, tickLock' = tickLock \/ (tickLock' = None /\ tickPc'[p] = "idle"),
           \A a \in Auctions : EndedEvents(a)' = EndedEvents(a),
           \A a \in Auctions : rows[a].state = "ended" => rows'[a].state = "ended",
           tickPc'[p] # "announceEnd", LifeOrder => ListFresh(p)'
    PROVE  LifeShape' /\ (LifeOrder => LifeOrder')
<1>1. /\ lifeFaults' \in [count : 0 .. MaxLifeFaults, kinds : SUBSET LifeFaultKinds]
      /\ Spare \in Nat /\ Spare' \in Nat /\ Spare <= Spare'
  BY LifeFaultAdds DEF LifeShape
<1>2. tickLock' \in Pods \cup {None}
  BY DEF LifeShape, LifeTypeOK
<1>3. LifeShape'
  BY <1>1, <1>2, LifeShapeFromTick
<1>4. \A a \in Auctions : Announcing(a)' => Announcing(a)
  BY DEF Announcing, TickKeeps
<1>5. ASSUME LifeOrder PROVE LifeOrder'
  <2>1. TicksAlone'
    BY <1>5, AloneKept DEF LifeOrder
  <2>2. ListsFresh'
    BY <1>5, FreshKept DEF LifeOrder
  <2>3. EndsCounted'
    BY <1>1, <1>4, <1>5, EndsKept DEF LifeOrder
  <2> QED
    BY <2>1, <2>2, <2>3 DEF LifeOrder
<1> QED
  BY <1>3, <1>5

LEMMA HttpStepKeeps ==
    ASSUME LifecycleAssumption, LifeShape, NEW a \in Auctions, HttpStep(a)
    PROVE  LifeShape' /\ (LifeOrder => LifeOrder')
<1>1. /\ LifeShape'
      /\ UNCHANGED <<tickLock, tickPc, list, found, auctionTopic, lifeFaults>>
      /\ \A b \in Auctions : \/ rows'[b].state = rows[b].state
                             \/ rows[b].state = "none" /\ rows'[b].state \in {"scheduled", "active"}
  BY HttpEffect
<1>2. ASSUME LifeOrder PROVE LifeOrder'
  <2>1. TicksAlone'
    BY <1>1, <1>2 DEF LifeOrder, TicksAlone
  <2>2. ListsFresh'
    <3> SUFFICES ASSUME NEW p \in Pods PROVE ListFresh(p)'
      BY DEF ListsFresh
    <3>1. \A r \in list[p] : r.id \in Auctions
      BY DEF LifeShape, LifeTypeOK, Row
    <3>2. tickPc[p] = "write" => found[p].row.id \in Auctions
      BY DEF LifeShape, RowInHand, Row
    <3>3. ListFresh(p)
      BY <1>2 DEF LifeOrder, ListsFresh
    <3> QED
      BY <1>1, <3>1, <3>2, <3>3 DEF ListFresh
  <2>3. EndsCounted'
    <3>1. \A b \in Auctions : Announcing(b)' => Announcing(b)
      BY <1>1 DEF Announcing
    <3>2. Spare \in Nat /\ Spare' = Spare
      BY <1>1 DEF Spare, LifeShape, LifeTypeOK, LifecycleAssumption
    <3> QED
      BY <1>1, <1>2, <3>1, <3>2, EndedEventsStay, EndsKept DEF LifeOrder
  <2> QED
    BY <2>1, <2>2, <2>3 DEF LifeOrder
<1> QED
  BY <1>1, <1>2

\* The steps of a tick, one by one.
LEMMA AcquireLockKeeps ==
    ASSUME LifecycleAssumption, LifeShape, NEW p \in Pods, AcquireLock(p)
    PROVE  LifeShape' /\ (LifeOrder => LifeOrder')
<1>1. /\ tickPc[p] = "idle" /\ tickLock = None /\ tickLock' = p /\ tickPc' = [tickPc EXCEPT ![p] = "scheduled"]
      /\ UNCHANGED <<clock, rows, top, list, found, auctionTopic, editing, lifeFaults>>
  BY DEF AcquireLock, TickGoto
<1>2. LifeShape'
  BY <1>1 DEF LifeShape, LifeTypeOK, RowsNamed, RowInHand, TickLabels
<1>3. ASSUME LifeOrder PROVE LifeOrder'
  <2>1. \A q \in Pods : q # None /\ (q # p => tickPc'[q] = tickPc[q]) /\ tickPc'[p] = "scheduled"
    BY <1>1 DEF LifecycleAssumption, LifeShape, LifeTypeOK
  <2>2. TicksAlone'
    BY <1>1, <1>3, <2>1 DEF LifeOrder, TicksAlone
  <2>3. ListsFresh'
    <3> SUFFICES ASSUME NEW q \in Pods PROVE ListFresh(q)'
      BY DEF ListsFresh
    <3>1. ListFresh(q)
      BY <1>3 DEF LifeOrder, ListsFresh
    <3> QED
      BY <1>1, <2>1, <3>1 DEF ListFresh
  <2>4. EndsCounted'
    <3>1. \A a \in Auctions : Announcing(a)' => Announcing(a)
      BY <1>1, <2>1 DEF Announcing
    <3>2. Spare \in Nat /\ Spare' = Spare
      BY <1>1 DEF Spare, LifeShape, LifeTypeOK, LifecycleAssumption
    <3> QED
      BY <1>1, <1>3, <3>1, <3>2, EndedEventsStay, EndsKept DEF LifeOrder
  <2> QED
    BY <2>2, <2>3, <2>4 DEF LifeOrder
<1> QED
  BY <1>2, <1>3

LEMMA FetchFresh ==
    ASSUME LifecycleAssumption, LifeShape, NEW p \in Pods, tickPc[p] # "idle",
           NEW state, NEW times, NEW loop \in {"activate", "end"}, FetchRows(p, state, times, loop),
           state = IF loop = "activate" THEN "scheduled" ELSE "active"
    PROVE  LifeShape' /\ (LifeOrder => LifeOrder')
<1>1. TickKeeps(p)
  BY FetchKeeps DEF TickLabels
<1>2. /\ NoLifeFault \/ LifeFault("read")
      /\ list' = [list EXCEPT ![p] = RowsWhere(state, times)] \/ list' = [list EXCEPT ![p] = {}]
      /\ tickPc' = [tickPc EXCEPT ![p] = loop]
      /\ UNCHANGED <<clock, rows, top, tickLock, found, auctionTopic, editing>>
  BY DEF FetchRows, TickGoto
<1>3. tickPc'[p] = loop /\ list'[p] \in {RowsWhere(state, times), {}}
  BY <1>2 DEF LifeShape, LifeTypeOK
<1>4. \A r \in list'[p] : r.id \in Auctions /\ r = rows[r.id] /\ rows[r.id].state = state
  BY <1>3 DEF RowsWhere, LifeShape, RowsNamed
<1>5. ListFresh(p)'
  BY <1>2, <1>3, <1>4 DEF ListFresh
<1> QED
  BY <1>1, <1>2, <1>3, <1>5, EndedEventsStay, QuietTick

LEMMA ActivateKeeps ==
    ASSUME LifecycleAssumption, LifeShape, NEW p \in Pods, Activate(p)
    PROVE  LifeShape' /\ (LifeOrder => LifeOrder')
<1>1. PICK r \in list[p] :
          /\ list' = [list EXCEPT ![p] = list[p] \ {r}]
          /\ found' = [found EXCEPT ![p] = [Nothing EXCEPT !.row = r]]
          /\ \/ /\ NoLifeFault
                /\ rows' = [rows EXCEPT ![r.id].state = "active"]
                /\ tickPc' = [tickPc EXCEPT ![p] = "announceStart"]
             \/ /\ LifeFault("ack")
                /\ rows' = [rows EXCEPT ![r.id].state = "active"]
                /\ UNCHANGED tickPc
             \/ /\ LifeFault("write")
                /\ UNCHANGED <<rows, tickPc>>
  BY DEF Activate, NextRow, TickGoto
<1>2. tickPc[p] = "activate" /\ UNCHANGED <<clock, top, tickLock, auctionTopic, editing>>
  BY DEF Activate
<1>3. r \in Row /\ r.id \in Auctions
  BY DEF LifeShape, LifeTypeOK, Row
<1>4. /\ rows' \in [Auctions -> Row] /\ (\A a \in Auctions : rows'[a].id = a)
      /\ \A a \in Auctions : a # r.id => rows'[a] = rows[a]
      /\ rows'[r.id].state \in {"active", rows[r.id].state}
  <2>1. CASE rows' = [rows EXCEPT ![r.id].state = "active"]
    <3>1. 0 \in 0 .. MaxBid
      BY DEF LifecycleAssumption
    <3> QED
      BY <1>3, <2>1, <3>1, RowWritten
  <2>2. CASE UNCHANGED rows
    BY <2>2 DEF LifeShape, LifeTypeOK, RowsNamed
  <2> QED
    BY <1>1, <2>1, <2>2
<1>5. PICK f \in [row : Row \cup {None}, winner : 0 .. MaxBid] :
          f.row = r /\ found' = [found EXCEPT ![p] = f]
  <2>1. [Nothing EXCEPT !.row = r] = [row |-> r, winner |-> 0] /\ 0 \in 0 .. MaxBid
    BY DEF Nothing, LifecycleAssumption
  <2> QED
    BY <1>1, <1>3, <2>1
<1>6. tickPc' = [tickPc EXCEPT ![p] = "announceStart"] \/ tickPc' = tickPc
  BY <1>1
<1>7. tickPc'[p] \in {"activate", "announceStart"} /\ list'[p] = list[p] \ {r}
  BY <1>1, <1>2, <1>6 DEF LifeShape, LifeTypeOK
<1>8. TickKeeps(p)
  <2>1. tickPc' \in [Pods -> TickLabels] /\ \A q \in Pods \ {p} : tickPc'[q] = tickPc[q]
    BY <1>6 DEF LifeShape, LifeTypeOK, TickLabels
  <2>2. list' \in [Pods -> SUBSET Row] /\ \A q \in Pods \ {p} : list'[q] = list[q]
    BY <1>1 DEF LifeShape, LifeTypeOK
  <2>3. /\ found' \in [Pods -> [row : Row \cup {None}, winner : 0 .. MaxBid]]
        /\ (\A q \in Pods \ {p} : found'[q] = found[q]) /\ found'[p] = f
    BY <1>5 DEF LifeShape, LifeTypeOK
  <2>4. auctionTopic' \in Seq(Event)
    BY <1>2 DEF LifeShape, LifeTypeOK
  <2> QED
    BY <1>3, <1>4, <1>5, <2>1, <2>2, <2>3, <2>4 DEF TickKeeps
<1>9. ASSUME LifeOrder PROVE ListFresh(p)' /\ rows[r.id].state = "scheduled"
  <2>1. ListFresh(p)
    BY <1>9 DEF LifeOrder, ListsFresh
  <2>2. \A q \in list[p] : q.id \in Auctions
    BY DEF LifeShape, LifeTypeOK, Row
  <2>3. rows[r.id].state = "scheduled" /\ \A q \in list'[p] : rows'[q.id].state = "scheduled"
    BY <1>2, <1>4, <1>7, <2>1, <2>2 DEF ListFresh
  <2> QED
    BY <1>7, <2>1, <2>3 DEF ListFresh
<1>10. LifeShape'
  <2>1. lifeFaults' \in [count : 0 .. MaxLifeFaults, kinds : SUBSET LifeFaultKinds]
    BY <1>1, LifeFaultAdds DEF LifeShape
  <2> QED
    BY <1>2, <1>8, <2>1, LifeShapeFromTick DEF LifeShape, LifeTypeOK
<1>11. ASSUME LifeOrder PROVE LifeOrder'
  <2>1. \A a \in Auctions : rows[a].state = "ended" => rows'[a].state = "ended"
    BY <1>3, <1>4, <1>9, <1>11
  <2> QED
    BY <1>1, <1>2, <1>7, <1>8, <1>9, <1>11, <2>1, EndedEventsStay, QuietTick
<1> QED
  BY <1>10, <1>11

LEMMA LoopEndsKeeps ==
    ASSUME LifecycleAssumption, LifeShape, NEW p \in Pods,
           LoopEnds(p, "activate", "expired") \/ LoopEnds(p, "end", "unlock")
    PROVE  LifeShape' /\ (LifeOrder => LifeOrder')
<1>1. PICK next \in {"expired", "unlock"} : tickPc' = [tickPc EXCEPT ![p] = next]
  BY DEF LoopEnds, TickGoto
<1>2. /\ tickPc[p] # "idle" /\ list[p] = {} /\ NoLifeFault
      /\ UNCHANGED <<clock, rows, top, tickLock, list, found, auctionTopic, editing>>
  BY DEF LoopEnds
<1>3. TickKeeps(p) /\ tickPc'[p] = next
  BY <1>1, <1>2 DEF TickKeeps, LifeShape, LifeTypeOK, RowsNamed, RowInHand, TickLabels
<1>4. ListFresh(p)'
  BY <1>2, <1>3 DEF ListFresh
<1> QED
  BY <1>2, <1>3, <1>4, EndedEventsStay, QuietTick

\* An event is appended, appended twice, or lost.
LEMMA PublishEffect ==
    ASSUME LifeShape, NEW p \in Pods, NEW type \in {"started", "ended"}, NEW winner \in 0 .. MaxBid,
           found[p].row \in Row, PublishEvent(p, type, winner)
    PROVE  /\ auctionTopic' \in Seq(Event)
           /\ NoLifeFault \/ LifeFault("publish") \/ LifeFault("retry")
           /\ \A a \in Auctions :
                  \/ EndedEvents(a)' = EndedEvents(a)
                  \/ /\ type = "ended" /\ a = found[p].row.id
                     /\ \/ EndedEvents(a)' = EndedEvents(a) + 1
                        \/ LifeFault("retry") /\ EndedEvents(a)' = EndedEvents(a) + 2
<1>1. auctionTopic \in Seq(Event)
  BY DEF LifeShape, LifeTypeOK
<1>2. PICK id \in Auctions : id = found[p].row.id
  BY DEF Row
<1>3. PICK e \in Event : e = [type |-> type, auction |-> id, winner |-> winner]
  BY <1>2 DEF Event
<1>4. \/ NoLifeFault /\ auctionTopic' = Append(auctionTopic, e)
      \/ LifeFault("retry") /\ auctionTopic' = Append(Append(auctionTopic, e), e)
      \/ LifeFault("publish") /\ UNCHANGED auctionTopic
  BY <1>2, <1>3 DEF PublishEvent
<1>a. PICK t : t = Append(auctionTopic, e)
  OBVIOUS
<1>5. t = Append(auctionTopic, e) /\ t \in Seq(Event)
  BY <1>a, <1>1, <1>3
<1>6. auctionTopic' \in Seq(Event)
  <2>1. Append(t, e) \in Seq(Event)
    BY <1>3, <1>5
  <2> QED
    BY <1>1, <1>4, <1>5, <2>1
<1>7. ASSUME NEW a \in Auctions
      PROVE  \/ EndedEvents(a)' = EndedEvents(a)
             \/ /\ type = "ended" /\ a = found[p].row.id
                /\ \/ EndedEvents(a)' = EndedEvents(a) + 1
                   \/ LifeFault("retry") /\ EndedEvents(a)' = EndedEvents(a) + 2
  <2>1. PICK n \in Nat : n = EndsIn(auctionTopic, a)
    BY <1>1, <1>3, EndsInAppend
  <2>2. PICK k \in {0, 1} : k = IF e.type = "ended" /\ e.auction = a THEN 1 ELSE 0
    OBVIOUS
  <2>3. EndsIn(t, a) = n + k
    BY <1>1, <1>5, <2>1, <2>2, EndsInAppend
  <2>4. EndsIn(Append(t, e), a) = EndsIn(t, a) + k
    BY <1>5, <2>2, EndsInAppend
  <2>5. EndedEvents(a) = n /\ EndedEvents(a)' = EndsIn(auctionTopic', a)
    BY <2>1, EndedEventsAreIn
  <2>6. k = 1 => type = "ended" /\ a = found[p].row.id
    BY <1>2, <1>3, <2>2
  <2>7. \/ EndsIn(auctionTopic', a) = n + k
        \/ LifeFault("retry") /\ EndsIn(auctionTopic', a) = n + k + k
        \/ EndsIn(auctionTopic', a) = n
    BY <1>4, <1>5, <2>1, <2>3, <2>4
  <2>8. CASE k = 0
    BY <2>1, <2>5, <2>7, <2>8
  <2>9. CASE k = 1
    BY <2>1, <2>5, <2>6, <2>7, <2>9
  <2> QED
    BY <2>2, <2>8, <2>9
<1> QED
  BY <1>4, <1>6, <1>7

LEMMA AnnounceStartKeeps ==
    ASSUME LifecycleAssumption, LifeShape, NEW p \in Pods, AnnounceStart(p)
    PROVE  LifeShape' /\ (LifeOrder => LifeOrder')
<1>1. /\ tickPc[p] = "announceStart" /\ PublishEvent(p, "started", 0) /\ tickPc' = [tickPc EXCEPT ![p] = "activate"]
      /\ UNCHANGED <<clock, rows, top, tickLock, list, found, editing>>
  BY DEF AnnounceStart, TickGoto
<1>2. found[p].row \in Row /\ 0 \in 0 .. MaxBid
  BY <1>1 DEF LifeShape, RowInHand, LifecycleAssumption
<1>3. /\ auctionTopic' \in Seq(Event)
      /\ NoLifeFault \/ LifeFault("publish") \/ LifeFault("retry")
      /\ \A a \in Auctions : EndedEvents(a)' = EndedEvents(a)
  BY <1>1, <1>2, PublishEffect
<1>4. TickKeeps(p) /\ tickPc'[p] = "activate"
  BY <1>1, <1>3 DEF TickKeeps, LifeShape, LifeTypeOK, RowsNamed, TickLabels
<1>5. LifeOrder => ListFresh(p)'
  BY <1>1, <1>4 DEF LifeOrder, ListsFresh, ListFresh
<1> QED
  BY <1>1, <1>3, <1>4, <1>5, QuietTick

LEMMA FindWinnerKeeps ==
    ASSUME LifecycleAssumption, LifeShape, NEW p \in Pods, FindWinner(p)
    PROVE  LifeShape' /\ (LifeOrder => LifeOrder')
<1>1. PICK r, best :
          /\ r \in list[p] /\ best \in {top[r.id], 0}
          /\ list' = [list EXCEPT ![p] = list[p] \ {r}]
          /\ NoLifeFault \/ LifeFault("read")
          /\ found' = [found EXCEPT ![p] = [row |-> r, winner |-> IF best >= r.reserve THEN best ELSE 0]]
  BY DEF FindWinner
<1>2. /\ tickPc[p] = "end" /\ tickPc' = [tickPc EXCEPT ![p] = "write"]
      /\ UNCHANGED <<clock, rows, top, tickLock, auctionTopic, editing>>
  BY DEF FindWinner, TickGoto
<1>3. r \in list[p] /\ r \in Row /\ r.id \in Auctions /\ best \in 0 .. MaxBid /\ 0 \in 0 .. MaxBid
  BY <1>1 DEF LifeShape, LifeTypeOK, Row, LifecycleAssumption
<1>4. PICK f \in [row : Row \cup {None}, winner : 0 .. MaxBid] :
          f.row = r /\ found' = [found EXCEPT ![p] = f]
  <2>1. PICK w : w = (IF best >= r.reserve THEN best ELSE 0)
    OBVIOUS
  <2>2. w \in 0 .. MaxBid /\ found' = [found EXCEPT ![p] = [row |-> r, winner |-> w]]
    BY <1>1, <1>3, <2>1
  <2> QED
    BY <1>3, <2>2
<1>5. TickKeeps(p) /\ tickPc'[p] = "write" /\ list'[p] = list[p] \ {r} /\ found'[p] = f
  <2>1. tickPc' \in [Pods -> TickLabels] /\ (\A q \in Pods \ {p} : tickPc'[q] = tickPc[q]) /\ tickPc'[p] = "write"
    BY <1>2 DEF LifeShape, LifeTypeOK, TickLabels
  <2>2. /\ list' \in [Pods -> SUBSET Row] /\ (\A q \in Pods \ {p} : list'[q] = list[q])
        /\ list'[p] = list[p] \ {r}
    BY <1>1 DEF LifeShape, LifeTypeOK
  <2>3. /\ found' \in [Pods -> [row : Row \cup {None}, winner : 0 .. MaxBid]]
        /\ (\A q \in Pods \ {p} : found'[q] = found[q]) /\ found'[p] = f
    BY <1>4 DEF LifeShape, LifeTypeOK
  <2>4. /\ auctionTopic' \in Seq(Event)
        /\ rows' \in [Auctions -> Row] /\ \A a \in Auctions : rows'[a].id = a
    BY <1>2 DEF LifeShape, LifeTypeOK, RowsNamed
  <2> QED
    BY <1>3, <1>4, <2>1, <2>2, <2>3, <2>4 DEF TickKeeps
<1>6. LifeOrder => ListFresh(p)'
  BY <1>2, <1>3, <1>4, <1>5 DEF LifeOrder, ListsFresh, ListFresh
<1> QED
  BY <1>1, <1>2, <1>5, <1>6, EndedEventsStay, QuietTick

LEMMA ReleaseLockKeeps ==
    ASSUME LifecycleAssumption, LifeShape, NEW p \in Pods, ReleaseLock(p) \/ TickCrash(p)
    PROVE  LifeShape' /\ (LifeOrder => LifeOrder')
<1>1. /\ tickPc[p] # "idle" /\ tickPc' = [tickPc EXCEPT ![p] = "idle"] /\ tickLock' \in {tickLock, None}
      /\ NoLifeFault \/ LifeFault("unlock") \/ LifeFault("crash")
      /\ list' = list \/ list' = [list EXCEPT ![p] = {}]
      /\ found' = [found EXCEPT ![p] = Nothing]
      /\ UNCHANGED <<clock, rows, top, auctionTopic, editing>>
  BY DEF ReleaseLock, TickCrash, TickGoto
<1>2. Nothing \in [row : Row \cup {None}, winner : 0 .. MaxBid]
  BY DEF Nothing, LifecycleAssumption
<1>3. TickKeeps(p) /\ tickPc'[p] = "idle" /\ list'[p] \in {list[p], {}}
  <2>1. /\ rows \in [Auctions -> Row] /\ \A a \in Auctions : rows[a].id = a
        /\ tickPc \in [Pods -> TickLabels] /\ list \in [Pods -> SUBSET Row]
        /\ found \in [Pods -> [row : Row \cup {None}, winner : 0 .. MaxBid]]
        /\ auctionTopic \in Seq(Event)
    BY DEF LifeShape, LifeTypeOK, RowsNamed
  <2>2. tickPc' \in [Pods -> TickLabels] /\ tickPc'[p] = "idle" /\ \A q \in Pods \ {p} : tickPc'[q] = tickPc[q]
    BY <1>1, <2>1 DEF TickLabels
  <2>3. /\ list' \in [Pods -> SUBSET Row] /\ list'[p] \in {list[p], {}}
        /\ \A q \in Pods \ {p} : list'[q] = list[q]
    BY <1>1, <2>1
  <2>4. /\ found' \in [Pods -> [row : Row \cup {None}, winner : 0 .. MaxBid]]
        /\ \A q \in Pods \ {p} : found'[q] = found[q]
    BY <1>1, <1>2, <2>1
  <2> QED
    BY <1>1, <2>1, <2>2, <2>3, <2>4 DEF TickKeeps
<1>4. LifeOrder => ListFresh(p)'
  BY <1>3 DEF LifeOrder, ListsFresh, ListFresh
<1> QED
  BY <1>1, <1>3, <1>4, EndedEventsStay, QuietTick

LEMMA LockExpiresKeeps ==
    ASSUME LifecycleAssumption, LifeShape, TickLockExpires
    PROVE  LifeShape' /\ (LifeOrder => LifeOrder' \/ "slow" \in lifeFaults'.kinds)
<1>1. /\ tickLock \in Pods /\ tickLock' = None
      /\ NoLifeFault \/ LifeFault("slow")
      /\ UNCHANGED <<clock, rows, top, tickPc, list, found, auctionTopic, editing>>
  BY DEF TickLockExpires, LifeShape, LifeTypeOK
<1>2. /\ lifeFaults' \in [count : 0 .. MaxLifeFaults, kinds : SUBSET LifeFaultKinds]
      /\ Spare \in Nat /\ Spare' \in Nat /\ Spare <= Spare'
  BY <1>1, LifeFaultAdds DEF LifeShape
<1>3. LifeShape'
  <2>1. LifeTypeOK'
    BY <1>1, <1>2 DEF LifeShape, LifeTypeOK
  <2>2. RowsNamed' /\ RowInHand'
    BY <1>1 DEF LifeShape, RowsNamed, RowInHand
  <2> QED
    BY <2>1, <2>2 DEF LifeShape
<1>4. CASE LifeFault("slow")
  BY <1>3, <1>4 DEF LifeFault
<1>5. CASE ~LifeFault("slow")
  <2> SUFFICES ASSUME LifeOrder PROVE LifeOrder'
    BY <1>3
  <2>1. TicksAlone'
    BY <1>1, <1>5 DEF TickLockExpires, LifeOrder, TicksAlone
  <2>2. ListsFresh'
    BY <1>1 DEF LifeOrder, ListsFresh, ListFresh
  <2>3. EndsCounted'
    <3>1. \A a \in Auctions : Announcing(a)' => Announcing(a)
      BY <1>1 DEF Announcing
    <3> QED
      BY <1>1, <1>2, <3>1, EndedEventsStay, EndsKept DEF LifeOrder
  <2> QED
    BY <2>1, <2>2, <2>3 DEF LifeOrder
<1> QED
  BY <1>4, <1>5

\* The count of one auction, in numbers.
LEMMA EndsInNumbers ==
    ASSUME LifeShape, EndsCounted, NEW a \in Auctions
    PROVE  /\ EndedEvents(a) \in Nat
           /\ rows[a].state # "ended" => EndedEvents(a) + 1 <= 1 + Spare
           /\ Announcing(a) => EndedEvents(a) + 1 <= 1 + Spare
           /\ rows[a].state # "ended" /\ Announcing(a) => EndedEvents(a) + 2 <= 1 + Spare
           /\ EndedEvents(a) <= 1 + Spare
<1>1. PICK n \in Nat : n = EndedEvents(a)
  BY EndedEventsType DEF LifeShape, LifeTypeOK
<1>2. PICK k \in {0, 1} : k = (IF rows[a].state # "ended" THEN 1 ELSE 0)
  OBVIOUS
<1>3. PICK u \in {0, 1} : u = (IF Announcing(a) THEN 1 ELSE 0)
  OBVIOUS
<1>4. PICK x : x = Spare
  OBVIOUS
<1>5. n + k + u <= 1 + x
  BY <1>1, <1>2, <1>3, <1>4 DEF EndsCounted
<1>6. x \in Int
  <2>1. lifeFaults.count \in Int
    BY DEF LifeShape, LifeTypeOK
  <2> QED
    BY <1>4, <2>1 DEF Spare
<1> QED
  BY <1>1, <1>2, <1>3, <1>4, <1>5, <1>6

LEMMA WriteEndKeeps ==
    ASSUME LifecycleAssumption, LifeShape, NEW p \in Pods, WriteEnd(p)
    PROVE  LifeShape' /\ (LifeOrder => LifeOrder')
<1>1. PICK r \in Row, w \in 0 .. MaxBid : r = found[p].row /\ w = found[p].winner /\ tickPc[p] = "write"
  BY DEF WriteEnd, LifeShape, RowInHand, LifeTypeOK
<1>2. /\ \/ /\ NoLifeFault
            /\ \/ rows' = [rows EXCEPT ![r.id].state = "ended"]
               \/ rows' = [rows EXCEPT ![r.id].winner = w, ![r.id].state = "ended"]
            /\ tickPc' = [tickPc EXCEPT ![p] = "announceEnd"]
         \/ /\ LifeFault("ack")
            /\ rows' = [rows EXCEPT ![r.id].winner = w, ![r.id].state = "ended"]
            /\ tickPc' = [tickPc EXCEPT ![p] = "end"]
         \/ /\ LifeFault("write") /\ UNCHANGED rows
            /\ tickPc' = [tickPc EXCEPT ![p] = "end"] \/ tickPc' = [tickPc EXCEPT ![p] = "announceEnd"]
      /\ UNCHANGED <<clock, top, tickLock, list, found, auctionTopic, editing>>
  BY <1>1 DEF WriteEnd, SetWinner, TickGoto
<1>3. r.id \in Auctions
  BY DEF Row
<1>4. /\ rows' \in [Auctions -> Row] /\ (\A a \in Auctions : rows'[a].id = a)
      /\ \A a \in Auctions : a # r.id => rows'[a] = rows[a]
      /\ UNCHANGED rows \/ rows'[r.id].state = "ended"
  <2>1. CASE UNCHANGED rows
    BY <2>1 DEF LifeShape, LifeTypeOK, RowsNamed
  <2>2. CASE \/ rows' = [rows EXCEPT ![r.id].state = "ended"]
             \/ rows' = [rows EXCEPT ![r.id].winner = w, ![r.id].state = "ended"]
    BY <1>1, <2>2, RowWritten
  <2> QED
    BY <1>2, <2>1, <2>2
<1>5. /\ tickPc' \in [Pods -> TickLabels] /\ tickPc'[p] \in {"end", "announceEnd"}
      /\ \A q \in Pods \ {p} : tickPc'[q] = tickPc[q]
  BY <1>2 DEF LifeShape, LifeTypeOK, TickLabels
<1>6. TickKeeps(p)
  BY <1>1, <1>2, <1>4, <1>5 DEF TickKeeps, LifeShape, LifeTypeOK
<1>7. /\ lifeFaults' \in [count : 0 .. MaxLifeFaults, kinds : SUBSET LifeFaultKinds]
      /\ Spare \in Nat /\ Spare' \in Nat /\ Spare <= Spare'
  BY <1>2, LifeFaultAdds DEF LifeShape
<1>8. LifeShape'
  BY <1>2, <1>6, <1>7, LifeShapeFromTick DEF LifeShape, LifeTypeOK
<1>9. ASSUME LifeOrder PROVE LifeOrder'
  <2>1. TicksAlone'
    BY <1>1, <1>2, <1>6, <1>9, AloneKept DEF LifeOrder
  <2>2. ListFresh(p)
    BY <1>9 DEF LifeOrder, ListsFresh
  <2>3. rows[r.id].state = "active" /\ \A q \in list[p] : q.id # r.id /\ rows[q.id].state = "active"
    BY <1>1, <2>2 DEF ListFresh
  <2>4. \A q \in list[p] : q.id \in Auctions
    BY DEF LifeShape, LifeTypeOK, Row
  <2>5. ListFresh(p)'
    BY <1>2, <1>4, <1>5, <2>2, <2>3, <2>4 DEF ListFresh
  <2>6. ListsFresh'
    BY <1>1, <1>6, <1>9, <2>5, FreshKept DEF LifeOrder
  <2>7. EndsCounted'
    <3> SUFFICES ASSUME NEW a \in Auctions
                 PROVE  EndedEvents(a)' + (IF rows'[a].state # "ended" THEN 1 ELSE 0)
                           + (IF Announcing(a)' THEN 1 ELSE 0) <= 1 + Spare'
      BY DEF EndsCounted
    <3>1. PICK n \in Nat, x \in Nat, y \in Nat :
              n = EndedEvents(a) /\ x = Spare /\ y = Spare' /\ x <= y
      BY <1>7, EndedEventsType DEF LifeShape, LifeTypeOK
    <3>2. EndedEvents(a)' = n
      BY <1>2, <3>1, EndedEventsStay
    <3>3. CASE a # r.id
      <4>1. Announcing(a)' => Announcing(a)
        BY <1>1, <1>2, <1>5, <3>3 DEF Announcing
      <4>2. rows'[a].state = rows[a].state
        BY <1>4, <3>3
      <4>3. /\ rows[a].state # "ended" => n + 1 <= 1 + x
            /\ Announcing(a) => n + 1 <= 1 + x
            /\ rows[a].state # "ended" /\ Announcing(a) => n + 2 <= 1 + x
            /\ n <= 1 + x
        BY <1>9, <3>1, EndsInNumbers DEF LifeOrder
      <4>4. CASE Announcing(a)'
        BY <3>1, <3>2, <4>1, <4>2, <4>3, <4>4
      <4>5. CASE ~Announcing(a)'
        BY <3>1, <3>2, <4>1, <4>2, <4>3, <4>5
      <4> QED
        BY <4>4, <4>5
    <3>4. CASE a = r.id
      <4>1. n + 1 <= 1 + x
        BY <1>9, <2>3, <3>1, <3>4, EndsInNumbers DEF LifeOrder
      <4>2. CASE rows'[a].state = "ended"
        <5>1. PICK v \in {0, 1} : v = (IF Announcing(a)' THEN 1 ELSE 0)
          OBVIOUS
        <5> QED
          BY <3>1, <3>2, <4>1, <4>2, <5>1
      <4>3. CASE rows'[a].state # "ended"
        <5>1. LifeFault("write")
          BY <1>2, <1>4, <3>4, <4>3, RowWritten
        <5>2. y >= x + 1
          BY <3>1, <5>1, FaultPaid DEF LifeShape
        <5>3. PICK v \in {0, 1} : v = (IF Announcing(a)' THEN 1 ELSE 0)
          OBVIOUS
        <5> QED
          BY <3>1, <3>2, <4>1, <4>3, <5>2, <5>3
      <4> QED
        BY <4>2, <4>3
    <3> QED
      BY <3>3, <3>4
  <2> QED
    BY <2>1, <2>6, <2>7 DEF LifeOrder
<1> QED
  BY <1>8, <1>9

LEMMA AnnounceEndKeeps ==
    ASSUME LifecycleAssumption, LifeShape, NEW p \in Pods, AnnounceEnd(p)
    PROVE  LifeShape' /\ (LifeOrder => LifeOrder')
<1>1. /\ tickPc[p] = "announceEnd" /\ PublishEvent(p, "ended", found[p].winner)
      /\ tickPc' = [tickPc EXCEPT ![p] = "end"]
      /\ UNCHANGED <<clock, rows, top, tickLock, list, found, editing>>
  BY DEF AnnounceEnd, TickGoto
<1>2. found[p].row \in Row /\ found[p].row.id \in Auctions /\ found[p].winner \in 0 .. MaxBid
  BY <1>1 DEF LifeShape, RowInHand, LifeTypeOK, Row
<1>3. /\ auctionTopic' \in Seq(Event)
      /\ NoLifeFault \/ LifeFault("publish") \/ LifeFault("retry")
      /\ \A a \in Auctions :
             \/ EndedEvents(a)' = EndedEvents(a)
             \/ /\ a = found[p].row.id
                /\ \/ EndedEvents(a)' = EndedEvents(a) + 1
                   \/ LifeFault("retry") /\ EndedEvents(a)' = EndedEvents(a) + 2
  BY <1>1, <1>2, PublishEffect
<1>4. TickKeeps(p) /\ tickPc'[p] = "end"
  BY <1>1, <1>3 DEF TickKeeps, LifeShape, LifeTypeOK, RowsNamed, TickLabels
<1>5. /\ lifeFaults' \in [count : 0 .. MaxLifeFaults, kinds : SUBSET LifeFaultKinds]
      /\ Spare \in Nat /\ Spare' \in Nat /\ Spare <= Spare'
  BY <1>3, LifeFaultAdds DEF LifeShape
<1>6. LifeShape'
  BY <1>1, <1>4, <1>5, LifeShapeFromTick DEF LifeShape, LifeTypeOK
<1>7. ASSUME LifeOrder PROVE LifeOrder'
  <2>1. TicksAlone'
    BY <1>1, <1>4, <1>7, AloneKept DEF LifeOrder
  <2>2. ListFresh(p)'
    BY <1>1, <1>4, <1>7 DEF LifeOrder, ListsFresh, ListFresh
  <2>3. ListsFresh'
    BY <1>1, <1>4, <1>7, <2>2, FreshKept DEF LifeOrder
  <2>4. \A a \in Auctions : ~Announcing(a)'
    BY <1>1, <1>4, <1>7, OthersIdle DEF LifeOrder, Announcing, TickKeeps
  <2>5. EndsCounted'
    <3> SUFFICES ASSUME NEW a \in Auctions
                 PROVE  EndedEvents(a)' + (IF rows'[a].state # "ended" THEN 1 ELSE 0)
                           + (IF Announcing(a)' THEN 1 ELSE 0) <= 1 + Spare'
      BY DEF EndsCounted
    <3>1. PICK n \in Nat, x \in Nat, y \in Nat :
              n = EndedEvents(a) /\ x = Spare /\ y = Spare' /\ x <= y
      BY <1>5, EndedEventsType DEF LifeShape, LifeTypeOK
    <3>2. (a = found[p].row.id) => Announcing(a)
      BY <1>1 DEF Announcing
    <3>3. /\ rows[a].state # "ended" => n + 1 <= 1 + x
          /\ Announcing(a) => n + 1 <= 1 + x
          /\ rows[a].state # "ended" /\ Announcing(a) => n + 2 <= 1 + x
          /\ n <= 1 + x
      BY <1>7, <3>1, EndsInNumbers DEF LifeOrder
    <3>4. PICK k \in {0, 1} : k = (IF rows[a].state # "ended" THEN 1 ELSE 0)
      OBVIOUS
    <3>5. LifeFault("retry") => y >= x + 1
      BY <3>1, FaultPaid DEF LifeShape
    <3>6. \/ EndedEvents(a)' = n
          \/ Announcing(a) /\ EndedEvents(a)' = n + 1
          \/ Announcing(a) /\ y >= x + 1 /\ EndedEvents(a)' = n + 2
      BY <1>3, <3>1, <3>2, <3>5
    <3>7. /\ n + k <= 1 + x
          /\ Announcing(a) => n + 1 + k <= 1 + x
      BY <3>1, <3>3, <3>4
    <3>a. PICK e : e = EndedEvents(a)'
      OBVIOUS
    <3>8. e = EndedEvents(a)' /\ e \in Nat /\ e + k <= 1 + y
      BY <3>a, <3>1, <3>4, <3>6, <3>7
    <3> QED
      BY <1>1, <2>4, <3>1, <3>4, <3>8
  <2> QED
    BY <2>1, <2>3, <2>5 DEF LifeOrder
<1> QED
  BY <1>6, <1>7

LEMMA LifeStep ==
    ASSUME LifecycleAssumption, LifeInd, [LifeNext]_lifeVars
    PROVE  LifeInd'
<1>1. LifeShape /\ ("slow" \in lifeFaults.kinds \/ LifeOrder)
  BY DEF LifeInd, LifeOrder
<1>2. CASE UNCHANGED lifeVars
  <2>1. UNCHANGED <<clock, rows, top, tickLock, tickPc, list, found, auctionTopic, editing, lifeFaults>>
    BY <1>2 DEF lifeVars
  <2>2. LifeShape'
    BY <1>1, <2>1 DEF LifeShape, LifeTypeOK, RowsNamed, RowInHand
  <2>3. ASSUME LifeOrder PROVE LifeOrder'
    <3>1. TicksAlone' /\ ListsFresh'
      BY <2>1, <2>3 DEF LifeOrder, TicksAlone, ListsFresh, ListFresh
    <3>2. \A a \in Auctions : Announcing(a)' => Announcing(a)
      BY <2>1 DEF Announcing
    <3>3. Spare \in Nat /\ Spare' = Spare
      BY <1>1, <2>1 DEF Spare, LifeShape, LifeTypeOK, LifecycleAssumption
    <3> QED
      BY <1>1, <2>1, <2>3, <3>1, <3>2, <3>3, EndedEventsStay, EndsKept DEF LifeOrder
  <2> QED
    BY <1>1, <2>1, <2>2, <2>3 DEF LifeInd, LifeOrder
<1>3. CASE \E a \in Auctions : HttpStep(a)
  <2>1. LifeShape' /\ (LifeOrder => LifeOrder')
    BY <1>1, <1>3, HttpStepKeeps
  <2>2. lifeFaults' = lifeFaults
    BY <1>1, <1>3, HttpEffect
  <2> QED
    BY <1>1, <2>1, <2>2 DEF LifeInd, LifeOrder
<1>4. ASSUME NEW p \in Pods, Tick(p) \/ TickCrash(p) PROVE LifeInd'
  <2>1. LifeShape' /\ (LifeOrder => LifeOrder')
    <3>1. CASE GetScheduledToActivate(p)
      BY <1>1, <3>1, FetchFresh DEF GetScheduledToActivate
    <3>2. CASE GetExpiredActive(p)
      BY <1>1, <3>2, FetchFresh DEF GetExpiredActive
    <3> QED
      BY <1>1, <1>4, <3>1, <3>2, AcquireLockKeeps, ActivateKeeps, AnnounceStartKeeps, LoopEndsKeeps,
         FindWinnerKeeps, WriteEndKeeps, AnnounceEndKeeps, ReleaseLockKeeps DEF Tick
  <2>2. NoLifeFault \/ \E kind \in {"read", "write", "ack", "publish", "retry", "unlock", "crash", "slow"} :
               LifeFault(kind)
    BY <1>4 DEF Tick, AcquireLock, GetScheduledToActivate, Activate, AnnounceStart,
       LoopEnds, GetExpiredActive, FindWinner, WriteEnd, AnnounceEnd,
       ReleaseLock, TickCrash, FetchRows, PublishEvent, NoLifeFault
  <2>3. lifeFaults.kinds \subseteq lifeFaults'.kinds
    BY <1>1, <2>2, LifeFaultAdds DEF LifeShape
  <2> QED
    BY <1>1, <2>1, <2>3 DEF LifeInd, LifeOrder
<1>5. CASE TickLockExpires
  <2>1. lifeFaults.kinds \subseteq lifeFaults'.kinds
    BY <1>1, <1>5, LifeFaultAdds DEF LifeShape, TickLockExpires
  <2> QED
    BY <1>1, <1>5, <2>1, LockExpiresKeeps DEF LifeInd, LifeOrder
<1> QED
  BY <1>2, <1>3, <1>4, <1>5, LifeSteps

\* As long as no tick outlives the scheduler's lock, an auction's end is announced
\* once, and once more at most for each failed UPDATE and each retry of the
\* producer: whatever answers are lost and whatever pods crash
\* between SetWinner and PublishEvent, for any number of auctions, pods and faults.
THEOREM EndsAreAnnouncedOnce == LifeSpec => []EndedOnce
<1>1. LifeInd => EndedOnce
  <2> SUFFICES ASSUME LifeInd, ~LifeMet({"slow"}), NEW a \in Auctions
               PROVE  EndedEvents(a) <= IF LifeMet({"write", "retry"}) THEN 1 + lifeFaults.count ELSE 1
    BY DEF EndedOnce
  <2>1. LifeShape /\ EndsCounted
    BY DEF LifeInd, LifeMet
  <2>2. EndedEvents(a) \in Nat /\ EndedEvents(a) <= 1 + Spare
    BY <2>1, EndsInNumbers
  <2> QED
    BY <2>2 DEF LifeMet, Spare
<1>2. LifeInit => LifeInd
  BY LifecycleAssumption, LifeStarts
<1>3. LifeInd /\ [LifeNext]_lifeVars => LifeInd'
  BY LifecycleAssumption, LifeStep
<1> QED
  BY <1>1, <1>2, <1>3, PTL DEF LifeSpec

-----------------------------------------------------------------------------
(* The bid service's PlaceBid. *)

BidTyped ==
    /\ bidLock \in Requests \cup {NoId}
    /\ cache \in Nat
    /\ bids \in Seq(Bid)
    /\ auction \in [state : {"active", "ended"}, price : Nat, winner : Users \cup {NoId}]
    /\ balance \in [Users -> Nat]
    /\ bidPc \in [Requests -> Working \cup {"new", "done"}]
    /\ bid \in [Requests -> Bid \cup {NoBid}]
    /\ seen \in [Requests -> [price : Nat, highest : Nat]]
    /\ ending \in [found : BOOLEAN, winner : Users \cup {NoId}, amount : Nat]
    /\ bidFaults \in [count : Nat, kinds : SUBSET BidFaultKinds]

\* A call at work has its arguments, and its row is written once.
BidInHand == \A r \in Requests : bidPc[r] \in Working => bid[r] \in Bid /\ bid[r].request = r

RowsOnce ==
    /\ \A m, n \in 1 .. Len(bids) : bids[m].request = bids[n].request => m = n
    /\ \A n \in 1 .. Len(bids) :
           bidPc[bids[n].request] \in {"cache", "price", "release", "unlock", "done"}

BidShape == BidTyped /\ BidInHand /\ RowsOnce

\* The lock keeps calls apart.
CallsAlone == \A r \in Requests : bidPc[r] \in Working => bidLock = r

\* The amounts of the last bid and of the one before it.
LastAmount == IF Len(bids) = 0 THEN 0 ELSE bids[Len(bids)].amount
PrevAmount == IF Len(bids) <= 1 THEN 0 ELSE bids[Len(bids) - 1].amount

Increasing == \A m, n \in 1 .. Len(bids) : m < n => bids[m].amount < bids[n].amount

\* The cache remembers the last bid or nothing, except while a call is about to
\* write it ...
CacheKnows ==
    "cache" \in bidFaults.kinds \/ cache \in {0, LastAmount} \/ \E r \in Requests : bidPc[r] = "cache"

\* ... and so do current_price of an active auction, which may also be the
\* starting price, and what a call has read of it.
PriceKnows ==
    \/ "price" \in bidFaults.kinds
    \/ /\ auction.state = "active" => auction.price >= LastAmount
                                        \/ \E r \in Requests : bidPc[r] \in {"cache", "price"}
       /\ \A r \in Requests : bidPc[r] = "highest" => seen[r].price >= LastAmount

\* A bid about to be written is higher than the last one; once written it is the
\* last one.
BidIsNext ==
    \A r \in Requests :
        /\ bidPc[r] \in {"hold", "save"} => bid[r].amount > LastAmount
        /\ bidPc[r] \in {"cache", "price", "release"} => Len(bids) > 0 /\ bids[Len(bids)] = bid[r]

BidOrder == CallsAlone /\ Increasing /\ CacheKnows /\ PriceKnows /\ BidIsNext

\* The faults under which bids may fail to increase.
Disordered ==
    \/ bidFaults.kinds \cap {"slow", "crash", "ack"} # {}
    \/ "cache" \in bidFaults.kinds /\ "price" \in bidFaults.kinds

\* What is held for a user: the last bid, the one a call is about to write, and
\* the one it has outbid and not yet released.
LastOwed(u) == IF Len(bids) > 0 /\ bids[Len(bids)].user = u THEN bids[Len(bids)].amount ELSE 0
PrevOwed(u) == IF Len(bids) > 1 /\ bids[Len(bids) - 1].user = u THEN bids[Len(bids) - 1].amount ELSE 0
NextOwed(r, u) == IF bid[r].user = u THEN bid[r].amount ELSE 0

Unsettled == {r \in Requests : bidPc[r] \in {"save", "cache", "price", "release"}}

HeldKnown ==
    \A u \in Users :
        /\ Unsettled = {} => balance[u] = Funds - LastOwed(u)
        /\ \A r \in Requests :
               /\ bidPc[r] = "save" => balance[u] = Funds - LastOwed(u) - NextOwed(r, u)
               /\ bidPc[r] \in {"cache", "price", "release"} => balance[u] = Funds - LastOwed(u) - PrevOwed(u)

\* What a call has read as the highest bid is the one it outbids.
HighestSeen ==
    \A r \in Requests :
        /\ bidPc[r] \in {"hold", "save"} => seen[r].highest = LastAmount
        /\ bidPc[r] \in {"cache", "price", "release"} => seen[r].highest = PrevAmount
        /\ bidPc[r] = "release" => Len(bids) > 1

BidBooks == HeldKnown /\ HighestSeen

\* Every wallet can hold two bids at once: the one a call outbids and its own.
FundsSuffice == \A a, b \in Amounts : a + b <= Funds

Quiet == FundsSuffice /\ bidFaults.kinds \subseteq {"read", "price", "unlock"}

BidInd ==
    /\ BidShape
    /\ Disordered \/ BidOrder
    /\ Quiet => BidBooks

\* What a step has to keep.
BidKept ==
    /\ BidShape'
    /\ BidOrder /\ ~Disordered' => BidOrder'
    /\ BidOrder /\ BidBooks /\ Quiet' => BidBooks'

AnyBidFault == {"read", "cache", "price", "hold", "release", "insert", "ack", "unlock", "crash", "slow"}

LEMMA BidFaultAdds ==
    ASSUME BidTyped, NoBidFault \/ \E kind \in AnyBidFault : BidFault(kind)
    PROVE  /\ bidFaults' \in [count : Nat, kinds : SUBSET BidFaultKinds]
           /\ bidFaults.kinds \subseteq bidFaults'.kinds
           /\ \A kind \in AnyBidFault : BidFault(kind) => kind \in bidFaults'.kinds
<1>1. bidFaults \in [count : Nat, kinds : SUBSET BidFaultKinds]
  BY DEF BidTyped
<1>2. CASE NoBidFault
  BY <1>1, <1>2 DEF NoBidFault, BidFault
<1>3. ASSUME NEW kind, BidFault(kind)
      PROVE  /\ bidFaults' \in [count : Nat, kinds : SUBSET BidFaultKinds]
             /\ bidFaults.kinds \subseteq bidFaults'.kinds /\ kind \in bidFaults'.kinds
  BY <1>1, <1>3 DEF BidFault
<1> QED
  BY <1>2, <1>3

LEMMA FaultsRemain ==
    ASSUME bidFaults.kinds \subseteq bidFaults'.kinds
    PROVE  /\ ~Disordered' => ~Disordered
           /\ Quiet' => Quiet /\ ~Disordered /\ ~Disordered'
BY DEF Disordered, Quiet

-----------------------------------------------------------------------------
\* The highest bid and the last one.

LEMMA BidsRows ==
    ASSUME BidTyped
    PROVE  /\ Len(bids) \in Nat
           /\ \A n \in 1 .. Len(bids) : bids[n] \in Bid
           /\ ToSet(bids) = {bids[n] : n \in 1 .. Len(bids)}
<1>1. bids \in Seq(Bid)
  BY DEF BidTyped
<1>2. Len(bids) \in Nat /\ \A n \in 1 .. Len(bids) : bids[n] \in Bid
  BY <1>1
<1>3. DOMAIN bids = 1 .. Len(bids)
  BY <1>1
<1>4. ToSet(bids) = {bids[n] : n \in 1 .. Len(bids)}
  BY <1>1, <1>3 DEF ToSet
<1> QED
  BY <1>2, <1>4

LEMMA BidFields ==
    ASSUME BidAssumption, NEW b \in Bid
    PROVE  b.amount \in Nat /\ b.amount > 0 /\ b.amount \in Amounts /\ b.user \in Users /\ b.request \in Requests
<1>1. b.amount \in Amounts /\ b.user \in Users /\ b.request \in Requests
  BY DEF Bid
<1>2. \A x \in Amounts : x \in Nat /\ x > 0
  BY DEF BidAssumption
<1> QED
  BY <1>1, <1>2

LEMMA LastAmountType ==
    ASSUME BidAssumption, BidTyped
    PROVE  LastAmount \in Nat /\ PrevAmount \in Nat
<1>1. Len(bids) > 0 => bids[Len(bids)] \in Bid
  BY BidsRows
<1>2. Len(bids) > 1 => bids[Len(bids) - 1] \in Bid
  BY BidsRows
<1> QED
  BY <1>1, <1>2, BidsRows, BidFields DEF LastAmount, PrevAmount

LEMMA MaxAmountType ==
    ASSUME BidAssumption, BidTyped
    PROVE  MaxAmount \in Nat
<1> DEFINE R == {bids[n] : n \in 1 .. Len(bids)}
           A == {b.amount : b \in R}
<1>1. A = {bids[n].amount : n \in 1 .. Len(bids)}
  OBVIOUS
<1>2. IsFiniteSet(A)
  <2>1. IsFiniteSet(1 .. Len(bids))
    BY BidsRows, FS_Interval
  <2>2. [n \in 1 .. Len(bids) |-> bids[n].amount] \in Surjection(1 .. Len(bids), A)
    BY <1>1 DEF Surjection
  <2> QED
    BY <2>1, <2>2, FS_Surjection
<1>3. IsFiniteSet(A \cup {0})
  BY <1>2, FS_AddElement
<1>4. A \cup {0} \in SUBSET Nat
  BY BidsRows, BidFields
<1>5. Max(A \cup {0}) \in A \cup {0}
  BY <1>3, <1>4, MaxOfNaturals
<1>6. MaxAmount = Max(A \cup {0})
  BY BidsRows DEF MaxAmount, Max
<1> QED
  BY <1>4, <1>5, <1>6

LEMMA HighestIsLast ==
    ASSUME BidAssumption, BidTyped, Increasing
    PROVE  /\ MaxAmount = LastAmount
           /\ Len(bids) > 0 => TopBids(ToSet(bids)) = {bids[Len(bids)]}
<1>1. \A n \in 1 .. Len(bids) : bids[n].amount \in Nat /\ bids[n].amount <= LastAmount
  BY BidsRows, BidFields DEF Increasing, LastAmount
<1>2. MaxAmount = LastAmount
  <2> DEFINE S == {b.amount : b \in ToSet(bids)} \cup {0}
  <2>1. \A y \in S : y \in Nat /\ y <= LastAmount
    BY <1>1, BidsRows, LastAmountType
  <2>2. LastAmount \in S
    BY BidsRows DEF LastAmount
  <2>3. \A x \in S : (\A y \in S : x >= y) <=> x = LastAmount
    BY <2>1, <2>2, LastAmountType
  <2>4. MaxAmount = CHOOSE x \in S : \A y \in S : x >= y
    BY DEF MaxAmount, Max
  <2> HIDE DEF S
  <2> QED
    BY <2>2, <2>3, <2>4
<1>3. ASSUME Len(bids) > 0 PROVE TopBids(ToSet(bids)) = {bids[Len(bids)]}
  <2>1. LastAmount = bids[Len(bids)].amount /\ Len(bids) \in 1 .. Len(bids)
    BY <1>3, BidsRows DEF LastAmount
  <2>2. \A n \in 1 .. Len(bids) : n # Len(bids) => ~(bids[Len(bids)].amount <= bids[n].amount)
    BY <1>1, <2>1, BidsRows DEF Increasing
  <2> QED
    BY <1>1, <2>1, <2>2, BidsRows DEF TopBids
<1> QED
  BY <1>2, <1>3

\* Without the last row, the highest one is the one before it.
LEMMA HighestOfOthers ==
    ASSUME BidAssumption, BidTyped, RowsOnce, Increasing, Len(bids) > 1,
           NEW r \in Requests, bids[Len(bids)].request = r
    PROVE  Others(r) # {} /\ TopBids(Others(r)) = {bids[Len(bids) - 1]}
<1>1. Len(bids) \in 1 .. Len(bids) /\ Len(bids) - 1 \in 1 .. Len(bids) /\ Len(bids) \in Nat
  BY BidsRows
<1>2. Others(r) = {bids[n] : n \in 1 .. Len(bids) - 1}
  BY <1>1, BidsRows DEF Others, RowsOnce
<1>3. \A n \in 1 .. Len(bids) - 1 : bids[n].amount \in Nat /\ bids[n].amount <= bids[Len(bids) - 1].amount
  BY <1>1, BidsRows, BidFields DEF Increasing
<1>4. \A n \in 1 .. Len(bids) - 1 : n # Len(bids) - 1 => ~(bids[Len(bids) - 1].amount <= bids[n].amount)
  BY <1>1, <1>3 DEF Increasing
<1> QED
  BY <1>1, <1>2, <1>3, <1>4 DEF TopBids

-----------------------------------------------------------------------------
\* One call at a time: while the lock works, what is said of all calls is said
\* of the one at work.

OthersOut(r) == \A q \in Requests : q # r => bidPc[q] \notin Working

CallOrder(r) ==
    /\ Increasing
    /\ "cache" \in bidFaults.kinds \/ cache \in {0, LastAmount} \/ bidPc[r] = "cache"
    /\ \/ "price" \in bidFaults.kinds
       \/ /\ auction.state = "active" => auction.price >= LastAmount \/ bidPc[r] \in {"cache", "price"}
          /\ bidPc[r] = "highest" => seen[r].price >= LastAmount
    /\ bidPc[r] \in {"hold", "save"} => bid[r].amount > LastAmount
    /\ bidPc[r] \in {"cache", "price", "release"} => Len(bids) > 0 /\ bids[Len(bids)] = bid[r]

CallBooks(r) ==
    /\ \A u \in Users :
           balance[u] = Funds - LastOwed(u)
                            - (IF bidPc[r] = "save" THEN NextOwed(r, u)
                               ELSE IF bidPc[r] \in {"cache", "price", "release"} THEN PrevOwed(u) ELSE 0)
    /\ bidPc[r] \in {"hold", "save"} => seen[r].highest = LastAmount
    /\ bidPc[r] \in {"cache", "price", "release"} => seen[r].highest = PrevAmount
    /\ bidPc[r] = "release" => Len(bids) > 1

LEMMA CallIsAlone ==
    ASSUME BidOrder, NEW r \in Requests, bidPc[r] \in Working \/ bidLock = NoId, NoId \notin Requests
    PROVE  OthersOut(r)
BY DEF BidOrder, CallsAlone, OthersOut

LEMMA OwedTypes ==
    ASSUME BidAssumption, BidTyped, NEW u
    PROVE  LastOwed(u) \in Nat /\ PrevOwed(u) \in Nat
<1>1. Len(bids) > 0 => bids[Len(bids)] \in Bid
  BY BidsRows
<1>2. Len(bids) > 1 => bids[Len(bids) - 1] \in Bid
  BY BidsRows
<1> QED
  BY <1>1, <1>2, BidFields DEF LastOwed, PrevOwed

LEMMA CallFromAll ==
    ASSUME BidAssumption, BidTyped, NEW r \in Requests, OthersOut(r), BidOrder
    PROVE  CallOrder(r) /\ (BidBooks => CallBooks(r))
<1>1. \A q \in Requests : q # r => bidPc[q] \notin {"save", "cache", "price", "release"}
  BY DEF OthersOut, Working
<1>2. CallOrder(r)
  BY <1>1 DEF BidOrder, CallOrder, CacheKnows, PriceKnows, BidIsNext
<1>3. ASSUME BidBooks PROVE CallBooks(r)
  <2>1. Unsettled = {} <=> bidPc[r] \notin {"save", "cache", "price", "release"}
    BY <1>1 DEF Unsettled
  <2>2. \A u \in Users : balance[u] = Funds - LastOwed(u)
                            - (IF bidPc[r] = "save" THEN NextOwed(r, u)
                               ELSE IF bidPc[r] \in {"cache", "price", "release"} THEN PrevOwed(u) ELSE 0)
    <3> TAKE u \in Users
    <3>1. LastOwed(u) \in Nat /\ Funds \in Nat
      BY OwedTypes DEF BidAssumption
    <3> QED
      BY <1>3, <2>1, <3>1 DEF BidBooks, HeldKnown
  <2> QED
    BY <1>3, <2>2 DEF BidBooks, HighestSeen, CallBooks
<1> QED
  BY <1>2, <1>3

LEMMA AllFromCall ==
    ASSUME NEW r \in Requests, OthersOut(r)', CallOrder(r)', bidPc'[r] \in Working => bidLock' = r
    PROVE  BidOrder'
<1>1. \A q \in Requests : q # r => bidPc'[q] \notin Working
  BY DEF OthersOut
<1>2. \A q \in Requests : q # r =>
          bidPc'[q] \notin {"highest", "hold", "save", "cache", "price", "release"}
  BY <1>1 DEF Working
<1>3. CallsAlone'
  BY <1>1 DEF CallsAlone
<1>4. CacheKnows' /\ PriceKnows' /\ BidIsNext' /\ Increasing'
  BY <1>2 DEF CallOrder, CacheKnows, PriceKnows, BidIsNext
<1> QED
  BY <1>3, <1>4 DEF BidOrder

LEMMA BooksFromCall ==
    ASSUME BidAssumption, BidTyped', NEW r \in Requests, OthersOut(r)', CallBooks(r)'
    PROVE  BidBooks'
<1>1. \A q \in Requests : q # r => bidPc'[q] \notin {"hold", "save", "cache", "price", "release"}
  BY DEF OthersOut, Working
<1>2. Unsettled' = {} <=> bidPc'[r] \notin {"save", "cache", "price", "release"}
  BY <1>1 DEF Unsettled
<1>3. HighestSeen'
  BY <1>1 DEF HighestSeen, CallBooks
<1>4. HeldKnown'
  <2> SUFFICES ASSUME NEW u \in Users
               PROVE  /\ Unsettled' = {} => balance'[u] = Funds - LastOwed(u)'
                      /\ \A q \in Requests :
                             /\ bidPc'[q] = "save" => balance'[u] = Funds - LastOwed(u)' - NextOwed(q, u)'
                             /\ bidPc'[q] \in {"cache", "price", "release"} =>
                                    balance'[u] = Funds - LastOwed(u)' - PrevOwed(u)'
    BY DEF HeldKnown
  <2>1. LastOwed(u)' \in Nat /\ Funds \in Nat
    <3>1. Len(bids)' > 0 => bids'[Len(bids)'] \in Bid
      BY DEF BidTyped
    <3>2. Len(bids)' > 0 => bids'[Len(bids)'].amount \in Nat
      BY <3>1, BidFields
    <3> QED
      BY <3>2 DEF LastOwed, BidAssumption
  <2> QED
    BY <1>1, <1>2, <2>1 DEF CallBooks
<1> QED
  BY <1>3, <1>4 DEF BidBooks

\* A call's step: what it needs to show.
LEMMA KeptByCall ==
    ASSUME BidAssumption, BidShape, BidShape', NEW r \in Requests,
           bidPc[r] \in Working \/ bidLock = NoId,
           \A q \in Requests : q # r => bidPc'[q] = bidPc[q],
           bidFaults.kinds \subseteq bidFaults'.kinds,
           CallOrder(r) /\ ~Disordered' => CallOrder(r)',
           bidPc'[r] \in Working => bidLock' \in {bidLock, r},
           bidPc[r] \notin Working => bidLock' = r,
           CallOrder(r) /\ CallBooks(r) /\ Quiet' => CallBooks(r)'
    PROVE  BidKept
<1>1. NoId \notin Requests
  BY DEF BidAssumption
<1>2. BidTyped /\ BidTyped'
  BY DEF BidShape
<1>3. BidOrder => OthersOut(r) /\ OthersOut(r)'
  BY <1>1, CallIsAlone DEF OthersOut
<1>4. BidOrder => CallOrder(r) /\ (BidBooks => CallBooks(r))
  BY <1>2, <1>3, CallFromAll
<1>5. BidOrder /\ ~Disordered' => BidOrder'
  <2> SUFFICES ASSUME BidOrder, ~Disordered' PROVE BidOrder'
    OBVIOUS
  <2>1. bidPc'[r] \in Working => bidLock' = r
    BY DEF BidOrder, CallsAlone
  <2> QED
    BY <1>3, <1>4, <2>1, AllFromCall
<1>6. BidOrder /\ BidBooks /\ Quiet' => BidBooks'
  BY <1>2, <1>3, <1>4, BooksFromCall
<1> QED
  BY <1>5, <1>6 DEF BidKept

\* Its rows and arguments.
LEMMA ShapeByCall ==
    ASSUME BidShape, BidTyped', NEW r \in Requests, UNCHANGED bids,
           \A q \in Requests : q # r => bidPc'[q] = bidPc[q] /\ bid'[q] = bid[q],
           bidPc'[r] \in Working => bid'[r] \in Bid /\ bid'[r].request = r,
           bidPc[r] \in {"cache", "price", "release", "unlock", "done"} =>
               bidPc'[r] \in {"cache", "price", "release", "unlock", "done"}
    PROVE  BidShape'
<1>1. BidInHand'
  BY DEF BidShape, BidInHand
<1>2. RowsOnce'
  <2>1. \A n \in 1 .. Len(bids) : bids[n].request \in Requests
    BY BidsRows DEF BidShape, Bid
  <2> QED
    BY <2>1 DEF BidShape, RowsOnce
<1> QED
  BY <1>1, <1>2 DEF BidShape

\* Values that only depend on the rows stay when the rows do.
LEMMA RowsStay ==
    ASSUME UNCHANGED bids
    PROVE  /\ LastAmount' = LastAmount /\ PrevAmount' = PrevAmount /\ (Increasing' <=> Increasing)
           /\ \A u : LastOwed(u)' = LastOwed(u) /\ PrevOwed(u)' = PrevOwed(u)
BY DEF LastAmount, PrevAmount, Increasing, LastOwed, PrevOwed

LEMMA AcquireKept ==
    ASSUME BidAssumption, BidShape, NEW r \in Requests, Acquire(r)
    PROVE  BidKept /\ bidFaults' = bidFaults
<1>1. /\ bidPc[r] = "new" /\ bidLock = NoId /\ bidLock' = r /\ bidPc' = [bidPc EXCEPT ![r] = "auction"]
      /\ UNCHANGED <<cache, bids, auction, balance, seen, ending, bidFaults>>
  BY DEF Acquire, BidGoto, NoBidFault
<1>2. PICK b \in Bid : b.request = r /\ bid' = [bid EXCEPT ![r] = b]
  BY DEF Acquire, Bid
<1>3. BidTyped /\ BidTyped'
  BY <1>1, <1>2 DEF BidShape, BidTyped, Working
<1>4. /\ bidPc'[r] = "auction" /\ bid'[r] = b
      /\ \A q \in Requests : q # r => bidPc'[q] = bidPc[q] /\ bid'[q] = bid[q]
  BY <1>1, <1>2, <1>3 DEF BidTyped
<1>5. BidShape'
  BY <1>1, <1>2, <1>3, <1>4, ShapeByCall
<1>6. CallOrder(r) => CallOrder(r)'
  BY <1>1, <1>4, RowsStay DEF CallOrder
<1>7. CallBooks(r) => CallBooks(r)'
  BY <1>1, <1>4, RowsStay DEF CallBooks
<1> QED
  BY <1>1, <1>4, <1>5, <1>6, <1>7, KeptByCall

\* The steps of a call that leave everything but its own variables alone.
LEMMA ReadKept ==
    ASSUME BidAssumption, BidShape, NEW r \in Requests, bidPc[r] \in {"auction", "highest"},
           NEW label \in {"highest", "hold", "unlock"}, bidPc' = [bidPc EXCEPT ![r] = label],
           seen' \in [Requests -> [price : Nat, highest : Nat]],
           NoBidFault \/ \E kind \in AnyBidFault : BidFault(kind),
           UNCHANGED <<bidLock, cache, bids, auction, balance, bid, ending>>,
           (CallOrder(r) /\ ~Disordered' /\ label = "highest" /\ "price" \notin bidFaults'.kinds)
               => seen'[r].price >= LastAmount,
           (CallOrder(r) /\ ~Disordered' /\ label = "hold") => bid[r].amount > LastAmount,
           (CallOrder(r) /\ Quiet' /\ label = "hold") => seen'[r].highest = LastAmount
    PROVE  BidKept /\ bidFaults.kinds \subseteq bidFaults'.kinds
<1>1. BidTyped /\ bidFaults' \in [count : Nat, kinds : SUBSET BidFaultKinds] /\ bidFaults.kinds \subseteq bidFaults'.kinds
  BY BidFaultAdds DEF BidShape
<1>2. BidTyped' /\ bidPc'[r] = label /\ \A q \in Requests : q # r => bidPc'[q] = bidPc[q]
  BY <1>1 DEF BidTyped, Working
<1>3. bidPc[r] \in Working
  BY DEF Working
<1>4. BidShape'
  BY <1>2, <1>3, ShapeByCall DEF BidShape, BidInHand
<1>5. CallOrder(r) /\ ~Disordered' => CallOrder(r)'
  BY <1>1, <1>2, RowsStay DEF CallOrder
<1>6. CallOrder(r) /\ CallBooks(r) /\ Quiet' => CallBooks(r)'
  BY <1>2, RowsStay DEF CallBooks
<1> QED
  BY <1>1, <1>2, <1>3, <1>4, <1>5, <1>6, KeptByCall

LEMMA ReadAuctionKept ==
    ASSUME BidAssumption, BidShape, NEW r \in Requests, ReadAuction(r) \/ ReadFails(r)
    PROVE  BidKept /\ bidFaults.kinds \subseteq bidFaults'.kinds
<1>a. /\ seen \in [Requests -> [price : Nat, highest : Nat]]
      /\ auction \in [state : {"active", "ended"}, price : Nat, winner : Users \cup {NoId}]
  BY DEF BidShape, BidTyped
<1>1. CASE ReadFails(r)
  <2>1. /\ bidPc[r] \in {"auction", "highest"} /\ bidPc' = [bidPc EXCEPT ![r] = "unlock"] /\ BidFault("read")
        /\ UNCHANGED <<bidLock, cache, bids, auction, balance, bid, seen, ending>>
    BY <1>1 DEF ReadFails, BidGoto
  <2> QED
    BY <1>a, <2>1, ReadKept DEF AnyBidFault
<1>2. CASE ReadAuction(r)
  <2>1. /\ bidPc[r] = "auction" /\ NoBidFault
        /\ UNCHANGED <<bidLock, cache, bids, auction, balance, bid, ending>>
    BY <1>2 DEF ReadAuction
  <2>2. CASE auction.state = "active" /\ bid[r].user # SellerId
    <3>1. bidPc' = [bidPc EXCEPT ![r] = "highest"] /\ seen' = [seen EXCEPT ![r].price = auction.price]
      BY <1>2, <2>2 DEF ReadAuction, BidGoto
    <3>2. seen' \in [Requests -> [price : Nat, highest : Nat]] /\ seen'[r].price = auction.price
      BY <1>a, <3>1
    <3>3. CallOrder(r) /\ "price" \notin bidFaults'.kinds => auction.price >= LastAmount
      BY <2>1, <2>2 DEF CallOrder, NoBidFault
    <3> QED
      BY <2>1, <3>1, <3>2, <3>3, ReadKept
  <2>3. CASE ~(auction.state = "active" /\ bid[r].user # SellerId)
    <3>1. bidPc' = [bidPc EXCEPT ![r] = "unlock"] /\ UNCHANGED seen
      BY <1>2, <2>3 DEF ReadAuction, BidGoto
    <3> QED
      BY <1>a, <2>1, <3>1, ReadKept
  <2> QED
    BY <2>2, <2>3
<1> QED
  BY <1>1, <1>2

LEMMA ReadHighestKept ==
    ASSUME BidAssumption, BidShape, NEW r \in Requests, ReadHighest(r) \/ ReadHighestFromDB(r)
    PROVE  BidKept /\ bidFaults.kinds \subseteq bidFaults'.kinds
<1>a. /\ seen \in [Requests -> [price : Nat, highest : Nat]] /\ BidTyped
      /\ cache \in Nat /\ LastAmount \in Nat /\ MaxAmount \in Nat
  BY LastAmountType, MaxAmountType DEF BidShape, BidTyped
<1>1. PICK h \in Nat :
          /\ h = MaxAmount \/ (h = cache /\ cache # 0)
          /\ seen' = [seen EXCEPT ![r].highest = h]
          /\ bidPc' = [bidPc EXCEPT ![r] = IF BelowFloor(bid[r].amount, seen[r].price, h) THEN "unlock" ELSE "hold"]
  BY <1>a DEF ReadHighest, ReadHighestFromDB, BidGoto
<1>2. /\ bidPc[r] = "highest" /\ UNCHANGED <<bidLock, cache, bids, auction, balance, bid, ending>>
      /\ NoBidFault \/ BidFault("cache")
  BY DEF ReadHighest, ReadHighestFromDB
<1>3. bid[r].amount \in Nat
  <2>1. bid[r] \in Bid
    BY <1>2 DEF BidShape, BidInHand, Working
  <2> QED
    BY <2>1, BidFields
<1>4. seen' \in [Requests -> [price : Nat, highest : Nat]] /\ seen'[r].highest = h
  BY <1>a, <1>1
<1>5. PICK label \in {"unlock", "hold"} :
          /\ bidPc' = [bidPc EXCEPT ![r] = label]
          /\ label = "hold" => bid[r].amount > seen[r].price /\ bid[r].amount > h
  <2>1. seen[r].price \in Nat
    BY <1>a
  <2>2. CASE BelowFloor(bid[r].amount, seen[r].price, h)
    BY <1>1, <2>2
  <2>3. CASE ~BelowFloor(bid[r].amount, seen[r].price, h)
    <3>1. bid[r].amount > seen[r].price /\ bid[r].amount > h
      BY <1>3, <2>1, <2>3 DEF BelowFloor
    <3> QED
      BY <1>1, <2>3, <3>1
  <2> QED
    BY <2>2, <2>3
<1>6. bidFaults.kinds \subseteq bidFaults'.kinds
  BY <1>a, <1>2, BidFaultAdds DEF AnyBidFault
<1>7. CallOrder(r) /\ "cache" \notin bidFaults.kinds => h = LastAmount
  BY <1>a, <1>1, <1>2, HighestIsLast DEF CallOrder
<1>8. CallOrder(r) /\ "price" \notin bidFaults.kinds => seen[r].price >= LastAmount
  BY <1>2 DEF CallOrder
<1>9. CallOrder(r) /\ ~Disordered' /\ label = "hold" => bid[r].amount > LastAmount
  <2>1. seen[r].price \in Nat
    BY <1>a
  <2>2. ~Disordered' => "cache" \notin bidFaults.kinds \/ "price" \notin bidFaults.kinds
    BY <1>6, FaultsRemain DEF Disordered
  <2> QED
    BY <1>a, <1>3, <1>5, <1>7, <1>8, <2>1, <2>2
<1>10. CallOrder(r) /\ Quiet' => h = LastAmount
  BY <1>6, <1>7 DEF Quiet
<1> QED
  BY <1>2, <1>4, <1>5, <1>9, <1>10, ReadKept DEF AnyBidFault

\* The steps of a call that write to the cache, the auction's row or the wallets.
LEMMA WriteKept ==
    ASSUME BidAssumption, BidShape, NEW r \in Requests, bidPc[r] \in Working,
           NEW label \in Working, bidPc' = [bidPc EXCEPT ![r] = label],
           bidPc[r] \in {"cache", "price", "release", "unlock"} => label \in {"cache", "price", "release", "unlock"},
           cache' \in Nat, balance' \in [Users -> Nat],
           auction' \in [state : {"active", "ended"}, price : Nat, winner : Users \cup {NoId}],
           NoBidFault \/ \E kind \in AnyBidFault : BidFault(kind),
           UNCHANGED <<bidLock, bids, bid, seen, ending>>,
           bidPc'[r] = label => (CallOrder(r) /\ ~Disordered' => CallOrder(r)'),
           bidPc'[r] = label => (CallOrder(r) /\ CallBooks(r) /\ Quiet' => CallBooks(r)')
    PROVE  BidKept /\ bidFaults.kinds \subseteq bidFaults'.kinds
<1>1. BidTyped /\ bidFaults' \in [count : Nat, kinds : SUBSET BidFaultKinds] /\ bidFaults.kinds \subseteq bidFaults'.kinds
  BY BidFaultAdds DEF BidShape
<1>2. BidTyped' /\ bidPc'[r] = label /\ \A q \in Requests : q # r => bidPc'[q] = bidPc[q]
  BY <1>1 DEF BidTyped
<1>3. bidPc[r] # "done" /\ bid[r] \in Bid /\ bid[r].request = r
  BY DEF BidShape, BidInHand, Working
<1>4. BidShape'
  BY <1>2, <1>3, ShapeByCall
<1> QED
  BY <1>1, <1>2, <1>4, KeptByCall

\* A wallet with enough funds pays for the bid of the call.
LEMMA HoldKept ==
    ASSUME BidAssumption, BidShape, NEW r \in Requests, Hold(r)
    PROVE  BidKept /\ bidFaults.kinds \subseteq bidFaults'.kinds
<1>1. /\ bidPc[r] = "hold" /\ bidPc' = [bidPc EXCEPT ![r] = "save"]
      /\ UNCHANGED <<bidLock, cache, bids, auction, bid, seen, ending>>
      /\ NoBidFault \/ BidFault("ack") \/ BidFault("hold")
  BY DEF Hold, BidGoto
<1>2. PICK b \in Bid : bid[r] = b /\ b.request = r
  BY <1>1 DEF BidShape, BidInHand, Working
<1>3. b.amount \in Nat /\ b.amount \in Amounts /\ b.user \in Users
  BY <1>2, BidFields
<1>4. BidTyped /\ cache \in Nat /\ balance \in [Users -> Nat] /\ balance[b.user] \in Nat
      /\ auction \in [state : {"active", "ended"}, price : Nat, winner : Users \cup {NoId}]
      /\ LastAmount \in Nat
  BY <1>3, LastAmountType DEF BidShape, BidTyped
<1>5. \/ /\ balance[b.user] - b.amount >= 0
         /\ balance' = [balance EXCEPT ![b.user] = balance[b.user] - b.amount]
      \/ /\ balance[b.user] < b.amount \/ BidFault("hold")
         /\ UNCHANGED balance
  <2>1. balance[b.user] + (-b.amount) = balance[b.user] - b.amount
    BY <1>3, <1>4
  <2> QED
    BY <1>2, <2>1 DEF Hold, HoldFunds, AdjustBalance
<1>6. balance' \in [Users -> Nat]
  BY <1>3, <1>4, <1>5
<1>7. /\ BidFault("ack") => "ack" \in bidFaults'.kinds
      /\ BidFault("hold") => "hold" \in bidFaults'.kinds
      /\ bidFaults.kinds \subseteq bidFaults'.kinds
  BY <1>1, <1>4, BidFaultAdds DEF AnyBidFault
<1>8. ASSUME bidPc'[r] = "save", CallOrder(r) PROVE CallOrder(r)'
  BY <1>1, <1>7, <1>8, RowsStay DEF CallOrder
<1>9. ASSUME bidPc'[r] = "save", CallBooks(r), Quiet' PROVE CallBooks(r)'
  <2>1. ~BidFault("hold") /\ FundsSuffice
    BY <1>7, <1>9 DEF Quiet
  <2>2. \A u \in Users : balance[u] = Funds - LastOwed(u) /\ LastOwed(u) \in Nat /\ Funds \in Nat
    <3> TAKE u \in Users
    <3>1. LastOwed(u) \in Nat /\ Funds \in Nat
      BY <1>4, OwedTypes DEF BidAssumption
    <3> QED
      BY <1>1, <1>9, <3>1 DEF CallBooks
  <2>3. LastOwed(b.user) = 0 \/ LastOwed(b.user) \in Amounts
    <3>1. Len(bids) > 0 => bids[Len(bids)] \in Bid
      BY <1>4, BidsRows
    <3> QED
      BY <3>1, BidFields DEF LastOwed
  <2>4. LastOwed(b.user) + b.amount <= Funds
    <3>1. b.amount + b.amount <= Funds
      BY <1>3, <2>1 DEF FundsSuffice
    <3>2. LastOwed(b.user) \in Amounts => LastOwed(b.user) + b.amount <= Funds
      BY <1>3, <2>1 DEF FundsSuffice
    <3> QED
      BY <1>3, <2>2, <2>3, <3>1, <3>2
  <2>5. balance' = [balance EXCEPT ![b.user] = balance[b.user] - b.amount]
    BY <1>3, <1>5, <2>1, <2>2, <2>4
  <2>6. \A u \in Users : balance'[u] = Funds - LastOwed(u) - NextOwed(r, u)
    <3> TAKE u \in Users
    <3>1. CASE u = b.user
      BY <1>2, <1>3, <1>4, <2>2, <2>5, <3>1 DEF NextOwed
    <3>2. CASE u # b.user
      BY <1>2, <1>3, <1>4, <2>2, <2>5, <3>2 DEF NextOwed
    <3> QED
      BY <3>1, <3>2
  <2>7. \A u \in Users : LastOwed(u)' = LastOwed(u) /\ NextOwed(r, u)' = NextOwed(r, u)
    BY <1>1, RowsStay DEF NextOwed
  <2>8. LastAmount' = LastAmount
    BY <1>1, RowsStay
  <2>9. seen'[r].highest = LastAmount
    BY <1>1, <1>9 DEF CallBooks
  <2> QED
    BY <1>9, <2>6, <2>7, <2>8, <2>9 DEF CallBooks
<1>10. NoBidFault \/ \E kind \in AnyBidFault : BidFault(kind)
  BY <1>1 DEF AnyBidFault
<1> QED
  BY <1>1, <1>4, <1>6, <1>8, <1>9, <1>10, WriteKept DEF Working

LEMMA SetHighestBidKept ==
    ASSUME BidAssumption, BidShape, NEW r \in Requests, SetHighestBid(r)
    PROVE  BidKept /\ bidFaults.kinds \subseteq bidFaults'.kinds
<1>1. /\ bidPc[r] = "cache" /\ bidPc' = [bidPc EXCEPT ![r] = "price"]
      /\ UNCHANGED <<bidLock, bids, auction, balance, bid, seen, ending>>
      /\ \/ NoBidFault /\ cache' = bid[r].amount
         \/ BidFault("cache") /\ cache' = cache
  BY DEF SetHighestBid, BidGoto
<1>2. bid[r] \in Bid
  BY <1>1 DEF BidShape, BidInHand, Working
<1>3. BidTyped /\ cache' \in Nat /\ balance' \in [Users -> Nat]
      /\ auction' \in [state : {"active", "ended"}, price : Nat, winner : Users \cup {NoId}]
  BY <1>1, <1>2, BidFields DEF BidShape, BidTyped
<1>4. bidFaults.kinds \subseteq bidFaults'.kinds /\ (BidFault("cache") => "cache" \in bidFaults'.kinds)
  BY <1>1, <1>3, BidFaultAdds DEF AnyBidFault
<1>5. ASSUME bidPc'[r] = "price", CallOrder(r) PROVE CallOrder(r)'
  <2>1. LastAmount = bid[r].amount
    BY <1>1, <1>5 DEF CallOrder, LastAmount
  <2> QED
    BY <1>1, <1>4, <1>5, <2>1, RowsStay DEF CallOrder
<1>6. ASSUME bidPc'[r] = "price", CallBooks(r) PROVE CallBooks(r)'
  BY <1>1, <1>6, RowsStay DEF CallBooks
<1>7. NoBidFault \/ \E kind \in AnyBidFault : BidFault(kind)
  BY <1>1 DEF AnyBidFault
<1> QED
  BY <1>1, <1>3, <1>5, <1>6, <1>7, WriteKept DEF Working

LEMMA UpdateCurrentPriceKept ==
    ASSUME BidAssumption, BidShape, NEW r \in Requests, UpdateCurrentPrice(r)
    PROVE  BidKept /\ bidFaults.kinds \subseteq bidFaults'.kinds
<1>1. PICK label \in {"release", "unlock"} :
          /\ bidPc' = [bidPc EXCEPT ![r] = label]
          /\ label = "release" <=> seen[r].highest > 0
  BY DEF UpdateCurrentPrice, BidGoto
<1>2. /\ bidPc[r] = "price"
      /\ UNCHANGED <<bidLock, cache, bids, balance, bid, seen, ending>>
      /\ \/ NoBidFault /\ auction' = [auction EXCEPT !.price = bid[r].amount]
         \/ BidFault("price") /\ auction' = auction
  BY DEF UpdateCurrentPrice
<1>3. bid[r] \in Bid
  BY <1>2 DEF BidShape, BidInHand, Working
<1>4. bid[r].amount \in Nat
  BY <1>3, BidFields
<1>5. auction \in [state : {"active", "ended"}, price : Nat, winner : Users \cup {NoId}]
  BY DEF BidShape, BidTyped
<1>6. BidTyped /\ cache' \in Nat /\ balance' \in [Users -> Nat]
      /\ auction' \in [state : {"active", "ended"}, price : Nat, winner : Users \cup {NoId}]
  BY <1>2, <1>4, <1>5 DEF BidShape, BidTyped
<1>7. bidFaults.kinds \subseteq bidFaults'.kinds /\ (BidFault("price") => "price" \in bidFaults'.kinds)
  BY <1>2, <1>6, BidFaultAdds DEF AnyBidFault
<1>8. ASSUME bidPc'[r] = label, CallOrder(r) PROVE CallOrder(r)'
  <2>1. LastAmount = bid[r].amount /\ LastAmount \in Nat
    BY <1>2, <1>4, <1>8 DEF CallOrder, LastAmount
  <2>2. "price" \in bidFaults'.kinds \/ auction'.price >= LastAmount
    BY <1>2, <1>5, <1>7, <2>1
  <2>3. LastAmount' = LastAmount /\ (Increasing' <=> Increasing)
    BY <1>2, RowsStay
  <2> QED
    BY <1>1, <1>2, <1>7, <1>8, <2>2, <2>3 DEF CallOrder
<1>9. ASSUME bidPc'[r] = label, CallOrder(r), CallBooks(r) PROVE CallBooks(r)'
  <2>1. seen[r].highest = PrevAmount
    BY <1>2, <1>9 DEF CallBooks
  <2>2. Len(bids) \in Nat
    BY <1>6, BidsRows
  <2>3. label = "release" => Len(bids) > 1
    BY <1>1, <2>1, <2>2 DEF PrevAmount
  <2>4. label = "unlock" => \A u \in Users : PrevOwed(u) = 0
    <3> SUFFICES ASSUME label = "unlock", Len(bids) > 1 PROVE FALSE
      BY DEF PrevOwed
    <3>1. bids[Len(bids) - 1] \in Bid
      BY <1>6, <2>2, BidsRows
    <3>2. PrevAmount > 0
      BY <2>2, <3>1, BidFields DEF PrevAmount
    <3> QED
      BY <1>1, <2>1, <3>2
  <2>5. \A u \in Users : balance[u] = Funds - LastOwed(u) - PrevOwed(u)
    BY <1>2, <1>9 DEF CallBooks
  <2>6. LastAmount' = LastAmount /\ PrevAmount' = PrevAmount
        /\ \A u : LastOwed(u)' = LastOwed(u) /\ PrevOwed(u)' = PrevOwed(u)
    BY <1>2, RowsStay
  <2>7. CASE label = "release"
    BY <1>2, <1>9, <2>1, <2>3, <2>5, <2>6, <2>7 DEF CallBooks
  <2>8. CASE label = "unlock"
    BY <1>2, <1>9, <2>4, <2>5, <2>6, <2>8 DEF CallBooks
  <2> QED
    BY <2>7, <2>8
<1>10. NoBidFault \/ \E kind \in AnyBidFault : BidFault(kind)
  BY <1>2 DEF AnyBidFault
<1> QED
  BY <1>1, <1>2, <1>6, <1>8, <1>9, <1>10, WriteKept DEF Working

\* The bidder outbid gets back what was held for it.
LEMMA ReleasePreviousKept ==
    ASSUME BidAssumption, BidShape, NEW r \in Requests, ReleasePrevious(r)
    PROVE  BidKept /\ bidFaults.kinds \subseteq bidFaults'.kinds
<1>1. /\ bidPc[r] = "release" /\ bidPc' = [bidPc EXCEPT ![r] = "unlock"]
      /\ UNCHANGED <<bidLock, cache, bids, auction, bid, seen, ending>>
      /\ NoBidFault \/ BidFault("release")
  BY DEF ReleasePrevious, BidGoto
<1>2. BidTyped /\ RowsOnce /\ cache' \in Nat /\ balance \in [Users -> Nat]
      /\ auction' \in [state : {"active", "ended"}, price : Nat, winner : Users \cup {NoId}]
      /\ seen[r].highest \in Nat
  BY <1>1 DEF BidShape, BidTyped
<1>3. bid[r] \in Bid /\ bid[r].request = r
  BY <1>1 DEF BidShape, BidInHand, Working
<1>4. \/ balance' = balance /\ (Others(r) = {} \/ BidFault("release"))
      \/ \E p \in TopBids(Others(r)) :
             balance' = [balance EXCEPT ![p.user] = balance[p.user] + seen[r].highest]
  BY DEF ReleasePrevious, ReleaseHold, AdjustBalance
<1>5. balance' \in [Users -> Nat]
  <2>1. \A p \in TopBids(Others(r)) : p.user \in Users
    <3>1. \A p \in TopBids(Others(r)) : p \in Bid
      BY <1>2, BidsRows DEF TopBids, Others
    <3> QED
      BY <3>1, BidFields
  <2> QED
    BY <1>2, <1>4, <2>1
<1>6. bidFaults.kinds \subseteq bidFaults'.kinds /\ (BidFault("release") => "release" \in bidFaults'.kinds)
  BY <1>1, <1>2, BidFaultAdds DEF AnyBidFault
<1>7. ASSUME bidPc'[r] = "unlock", CallOrder(r) PROVE CallOrder(r)'
  <2>1. LastAmount' = LastAmount /\ (Increasing' <=> Increasing)
    BY <1>1, RowsStay
  <2> QED
    BY <1>1, <1>6, <1>7, <2>1 DEF CallOrder
<1>8. ASSUME bidPc'[r] = "unlock", CallOrder(r), CallBooks(r), Quiet' PROVE CallBooks(r)'
  <2>1. Len(bids) > 1 /\ seen[r].highest = PrevAmount /\ bids[Len(bids)] = bid[r] /\ Increasing
    BY <1>1, <1>8 DEF CallBooks, CallOrder
  <2>2. Others(r) # {} /\ TopBids(Others(r)) = {bids[Len(bids) - 1]}
    BY <1>2, <1>3, <2>1, HighestOfOthers
  <2>3. ~BidFault("release")
    BY <1>6, <1>8 DEF Quiet
  <2>4. PICK p \in Bid : p = bids[Len(bids) - 1]
    BY <1>2, <2>1, BidsRows
  <2>5. p.amount \in Nat /\ p.user \in Users
    BY <2>4, BidFields
  <2>6. balance' = [balance EXCEPT ![p.user] = balance[p.user] + p.amount]
    <3>1. seen[r].highest = p.amount
      BY <1>2, <2>1, <2>4, BidsRows DEF PrevAmount
    <3> QED
      BY <1>4, <2>2, <2>3, <2>4, <3>1
  <2>7. \A u \in Users : balance'[u] = Funds - LastOwed(u)
    <3> TAKE u \in Users
    <3>1. LastOwed(u) \in Nat /\ Funds \in Nat /\ balance[u] \in Nat
      BY <1>2, OwedTypes DEF BidAssumption
    <3>2. balance[u] = Funds - LastOwed(u) - PrevOwed(u)
      BY <1>1, <1>8 DEF CallBooks
    <3>3. PrevOwed(u) = IF p.user = u THEN p.amount ELSE 0
      BY <2>1, <2>4 DEF PrevOwed
    <3> QED
      BY <1>2, <2>5, <2>6, <3>1, <3>2, <3>3
  <2>8. \A u : LastOwed(u)' = LastOwed(u)
    BY <1>1, RowsStay
  <2>9. \A u \in Users : LastOwed(u) \in Nat /\ Funds \in Nat
    BY <1>2, OwedTypes DEF BidAssumption
  <2> QED
    BY <1>8, <2>7, <2>8, <2>9 DEF CallBooks
<1>9. NoBidFault \/ \E kind \in AnyBidFault : BidFault(kind)
  BY <1>1 DEF AnyBidFault
<1> QED
  BY <1>1, <1>2, <1>5, <1>7, <1>8, <1>9, WriteKept DEF Working

\* The new row is the last one, and the last one the one before it.
LEMMA RowAppended ==
    ASSUME BidAssumption, BidTyped, NEW b \in Bid, bids' = Append(bids, b)
    PROVE  /\ bids' \in Seq(Bid) /\ Len(bids') = Len(bids) + 1 /\ bids'[Len(bids')] = b
           /\ \A n \in 1 .. Len(bids) : bids'[n] = bids[n]
           /\ LastAmount' = b.amount /\ PrevAmount' = LastAmount
           /\ \A u : /\ LastOwed(u)' = IF b.user = u THEN b.amount ELSE 0
                     /\ PrevOwed(u)' = LastOwed(u)
           /\ Increasing /\ b.amount > LastAmount => Increasing'
<1>1. bids \in Seq(Bid) /\ Len(bids) \in Nat
  BY DEF BidTyped
<1>2. /\ bids' \in Seq(Bid) /\ Len(bids') = Len(bids) + 1 /\ bids'[Len(bids')] = b
      /\ \A n \in 1 .. Len(bids) : bids'[n] = bids[n]
  BY <1>1
<1>3. Len(bids') > 0 /\ Len(bids') - 1 = Len(bids) /\ (Len(bids') > 1 <=> Len(bids) > 0)
      /\ (Len(bids') <= 1 <=> Len(bids) = 0) /\ Len(bids') # 0
  BY <1>1, <1>2
<1>4. Len(bids) > 0 => bids'[Len(bids)] = bids[Len(bids)]
  BY <1>1, <1>2
<1>5. LastAmount' = b.amount /\ PrevAmount' = LastAmount
  <2>1. LastAmount' = bids'[Len(bids')].amount
    BY <1>3 DEF LastAmount
  <2>2. PrevAmount' = IF Len(bids) = 0 THEN 0 ELSE bids'[Len(bids)].amount
    BY <1>3 DEF PrevAmount
  <2> QED
    BY <1>1, <1>2, <1>4, <2>1, <2>2 DEF LastAmount
<1>6. ASSUME NEW u
      PROVE  LastOwed(u)' = (IF b.user = u THEN b.amount ELSE 0) /\ PrevOwed(u)' = LastOwed(u)
  BY <1>1, <1>2, <1>3, <1>4 DEF LastOwed, PrevOwed
<1>7. ASSUME Increasing, b.amount > LastAmount PROVE Increasing'
  <2>1. b.amount \in Nat /\ LastAmount \in Nat
    BY BidFields, LastAmountType
  <2>2. \A n \in 1 .. Len(bids) : bids[n].amount \in Nat /\ bids[n].amount <= LastAmount
    BY <1>1, <1>7, BidsRows, BidFields DEF Increasing, LastAmount
  <2> SUFFICES ASSUME NEW m \in 1 .. Len(bids'), NEW n \in 1 .. Len(bids'), m < n
               PROVE  bids'[m].amount < bids'[n].amount
    BY DEF Increasing
  <2>3. m \in 1 .. Len(bids)
    BY <1>1, <1>2
  <2>4. CASE n = Len(bids')
    BY <1>2, <1>7, <2>1, <2>2, <2>3, <2>4
  <2>5. CASE n # Len(bids')
    <3>1. n \in 1 .. Len(bids)
      BY <1>1, <1>2, <2>5
    <3>2. bids[m].amount < bids[n].amount
      BY <1>7, <2>3, <3>1 DEF Increasing
    <3> QED
      BY <1>2, <2>3, <3>1, <3>2
  <2> QED
    BY <2>4, <2>5
<1> QED
  BY <1>2, <1>5, <1>6, <1>7

LEMMA CreateBidKept ==
    ASSUME BidAssumption, BidShape, NEW r \in Requests, CreateBid(r)
    PROVE  BidKept /\ bidFaults.kinds \subseteq bidFaults'.kinds
<1>1. /\ bidPc[r] = "save"
      /\ UNCHANGED <<bidLock, cache, auction, balance, bid, seen, ending>>
      /\ NoBidFault \/ BidFault("ack") \/ BidFault("insert")
  BY DEF CreateBid
<1>2. BidTyped /\ RowsOnce /\ balance \in [Users -> Nat]
  BY DEF BidShape, BidTyped
<1>3. /\ bidFaults.kinds \subseteq bidFaults'.kinds /\ bidFaults' \in [count : Nat, kinds : SUBSET BidFaultKinds]
      /\ BidFault("ack") => "ack" \in bidFaults'.kinds
      /\ BidFault("insert") => "insert" \in bidFaults'.kinds
  BY <1>1, <1>2, BidFaultAdds DEF AnyBidFault
<1>4. PICK b \in Bid : bid[r] = b /\ b.request = r
  BY <1>1 DEF BidShape, BidInHand, Working
<1>5. b.amount \in Nat /\ b.user \in Users
  BY <1>4, BidFields
<1>6. bidPc[r] \in Working
  BY <1>1 DEF Working
<1>7. CASE BidFault("insert") /\ UNCHANGED bids /\ BidGoto(r, "unlock")
  <2>1. bidPc' = [bidPc EXCEPT ![r] = "unlock"]
    BY <1>7 DEF BidGoto
  <2>2. ASSUME bidPc'[r] = "unlock", CallOrder(r) PROVE CallOrder(r)'
    <3>1. LastAmount' = LastAmount /\ (Increasing' <=> Increasing)
      BY <1>7, RowsStay
    <3> QED
      BY <1>1, <1>3, <2>2, <3>1 DEF CallOrder
  <2>3. ~Quiet'
    BY <1>3, <1>7 DEF Quiet
  <2>4. /\ cache' \in Nat /\ balance' \in [Users -> Nat]
        /\ auction' \in [state : {"active", "ended"}, price : Nat, winner : Users \cup {NoId}]
    BY <1>1, <1>2 DEF BidTyped
  <2>5. NoBidFault \/ \E kind \in AnyBidFault : BidFault(kind)
    BY <1>7 DEF AnyBidFault
  <2> QED
    BY <1>1, <1>6, <1>7, <2>1, <2>2, <2>3, <2>4, <2>5, WriteKept DEF Working
<1>8. CASE /\ bids' = Append(bids, bid[r])
           /\ \/ NoBidFault /\ BidGoto(r, "cache")
              \/ BidFault("ack") /\ BidGoto(r, "unlock")
  <2>1. PICK label \in {"cache", "unlock"} :
            /\ bidPc' = [bidPc EXCEPT ![r] = label]
            /\ label = "unlock" => BidFault("ack")
    BY <1>8 DEF BidGoto
  <2>2. bids' = Append(bids, b)
    BY <1>4, <1>8
  <2>3. bidPc'[r] = label /\ label \in Working /\ \A q \in Requests : q # r => bidPc'[q] = bidPc[q]
    BY <1>2, <2>1 DEF BidTyped, Working
  <2>4. bids' \in Seq(Bid) /\ Len(bids') = Len(bids) + 1 /\ bids'[Len(bids')] = b
        /\ \A n \in 1 .. Len(bids) : bids'[n] = bids[n]
    BY <1>2, <2>2, RowAppended
  <2>5. BidTyped'
    BY <1>1, <1>2, <1>3, <2>1, <2>3, <2>4 DEF BidTyped
  <2>6. BidInHand'
    BY <1>1, <1>4, <2>3 DEF BidShape, BidInHand
  <2>7. RowsOnce'
    <3>1. \A n \in 1 .. Len(bids) : bids[n].request \in Requests /\ bids[n].request # r
      BY <1>1, <1>2, BidsRows DEF RowsOnce, Bid
    <3>2. \A n \in 1 .. Len(bids') : n \in 1 .. Len(bids) \/ n = Len(bids')
      BY <1>2, <2>4, BidsRows
    <3>3. \A n \in 1 .. Len(bids') :
              bidPc'[bids'[n].request] \in {"cache", "price", "release", "unlock", "done"}
      BY <1>2, <1>4, <2>3, <2>4, <3>1, <3>2 DEF RowsOnce
    <3>4. \A m, n \in 1 .. Len(bids') : bids'[m].request = bids'[n].request => m = n
      <4> SUFFICES ASSUME NEW m \in 1 .. Len(bids'), NEW n \in 1 .. Len(bids'),
                          bids'[m].request = bids'[n].request
                   PROVE  m = n
        OBVIOUS
      <4>1. CASE m \in 1 .. Len(bids) /\ n \in 1 .. Len(bids)
        BY <1>2, <2>4, <4>1 DEF RowsOnce
      <4>2. CASE m = Len(bids') /\ n \in 1 .. Len(bids)
        BY <1>4, <2>4, <3>1, <4>2
      <4>3. CASE n = Len(bids') /\ m \in 1 .. Len(bids)
        BY <1>4, <2>4, <3>1, <4>3
      <4> QED
        BY <3>2, <4>1, <4>2, <4>3
    <3> QED
      BY <3>3, <3>4 DEF RowsOnce
  <2>8. BidShape'
    BY <2>5, <2>6, <2>7 DEF BidShape
  <2>9. BidFault("ack") => Disordered' /\ ~Quiet'
    BY <1>3 DEF Disordered, Quiet
  <2>10. ASSUME CallOrder(r), ~Disordered' PROVE CallOrder(r)'
    <3>1. bidPc'[r] = "cache"
      BY <2>1, <2>3, <2>9, <2>10
    <3>2. b.amount > LastAmount /\ Increasing
      BY <1>1, <1>4, <2>10 DEF CallOrder
    <3>3. Increasing' /\ Len(bids') > 0
      BY <1>2, <2>2, <2>4, <3>2, BidsRows, RowAppended
    <3>4. bids'[Len(bids')] = bid'[r]
      BY <1>1, <1>4, <2>4
    <3> QED
      BY <3>1, <3>3, <3>4 DEF CallOrder
  <2>11. ASSUME CallBooks(r), Quiet' PROVE CallBooks(r)'
    <3>1. bidPc'[r] = "cache"
      BY <2>1, <2>3, <2>9, <2>11
    <3>2. seen'[r].highest = PrevAmount'
      BY <1>1, <1>2, <2>2, <2>11, RowAppended DEF CallBooks
    <3>3. ASSUME NEW u \in Users PROVE balance'[u] = Funds - LastOwed(u)' - PrevOwed(u)'
      <4>1. LastOwed(u) \in Nat /\ Funds \in Nat
        BY <1>2, OwedTypes DEF BidAssumption
      <4>2. balance[u] = Funds - LastOwed(u) - NextOwed(r, u)
        BY <1>1, <2>11, <3>3 DEF CallBooks
      <4>3. LastOwed(u)' = NextOwed(r, u) /\ PrevOwed(u)' = LastOwed(u) /\ NextOwed(r, u) \in Nat
        BY <1>2, <1>4, <1>5, <2>2, RowAppended DEF NextOwed
      <4> QED
        BY <1>1, <4>1, <4>2, <4>3
    <3> QED
      BY <3>1, <3>2, <3>3 DEF CallBooks
  <2>12. bidLock' = bidLock /\ bidFaults.kinds \subseteq bidFaults'.kinds
    BY <1>1, <1>3
  <2>13. BidKept
    BY <1>6, <2>3, <2>8, <2>10, <2>11, <2>12, KeptByCall
  <2> QED
    BY <2>12, <2>13
<1> QED
  BY <1>7, <1>8 DEF CreateBid

\* The call ends, with or without the DEL of the lock's key.
LEMMA ReturnKept ==
    ASSUME BidAssumption, BidShape, NEW r \in Requests, bidPc[r] \in Working, Return(r),
           bidLock' \in {bidLock, NoId},
           NoBidFault \/ \E kind \in AnyBidFault : BidFault(kind),
           UNCHANGED <<cache, bids, auction, balance, ending>>,
           bidPc[r] = "unlock" \/ BidFault("crash")
    PROVE  BidKept /\ bidFaults.kinds \subseteq bidFaults'.kinds
<1>1. /\ bidPc' = [bidPc EXCEPT ![r] = "done"] /\ bid' = [bid EXCEPT ![r] = NoBid]
      /\ seen' = [seen EXCEPT ![r] = NotSeen]
  BY DEF Return, BidGoto
<1>2. BidTyped /\ bidFaults' \in [count : Nat, kinds : SUBSET BidFaultKinds] /\ bidFaults.kinds \subseteq bidFaults'.kinds
      /\ (BidFault("crash") => "crash" \in bidFaults'.kinds)
  BY BidFaultAdds DEF BidShape, AnyBidFault
<1>3. BidTyped'
  <2>1. NotSeen \in [price : Nat, highest : Nat]
    BY DEF NotSeen
  <2>2. seen' \in [Requests -> [price : Nat, highest : Nat]]
    BY <1>1, <1>2, <2>1 DEF BidTyped
  <2>3. bid' \in [Requests -> Bid \cup {NoBid}]
    BY <1>1, <1>2 DEF BidTyped
  <2>4. bidPc' \in [Requests -> Working \cup {"new", "done"}]
    BY <1>1, <1>2 DEF BidTyped
  <2>5. bidLock' \in Requests \cup {NoId}
    BY <1>2 DEF BidTyped
  <2> QED
    BY <1>2, <2>2, <2>3, <2>4, <2>5 DEF BidTyped
<1>4. bidPc'[r] = "done" /\ \A q \in Requests : q # r => bidPc'[q] = bidPc[q] /\ bid'[q] = bid[q]
  BY <1>1, <1>2 DEF BidTyped
<1>5. "done" \notin Working
  BY DEF Working
<1>6. BidShape'
  BY <1>3, <1>4, <1>5, ShapeByCall
<1>7. BidFault("crash") => Disordered' /\ ~Quiet'
  BY <1>2 DEF Disordered, Quiet
<1>8. LastAmount' = LastAmount /\ (Increasing' <=> Increasing)
      /\ \A u : LastOwed(u)' = LastOwed(u)
  BY RowsStay
<1>9. ASSUME CallOrder(r), ~Disordered' PROVE CallOrder(r)'
  BY <1>2, <1>4, <1>7, <1>8, <1>9 DEF CallOrder
<1>10. ASSUME CallBooks(r), Quiet' PROVE CallBooks(r)'
  BY <1>4, <1>7, <1>8, <1>10 DEF CallBooks
<1> QED
  BY <1>2, <1>4, <1>5, <1>6, <1>9, <1>10, KeptByCall

LEMMA CallEndsKept ==
    ASSUME BidAssumption, BidShape, NEW r \in Requests, Release(r) \/ BidCrash(r)
    PROVE  BidKept /\ bidFaults.kinds \subseteq bidFaults'.kinds
<1>1. CASE Release(r)
  <2>1. /\ bidPc[r] = "unlock" /\ bidLock' \in {bidLock, NoId} /\ Return(r)
        /\ NoBidFault \/ BidFault("unlock")
        /\ UNCHANGED <<cache, bids, auction, balance, ending>>
    BY <1>1 DEF Release
  <2>2. bidPc[r] \in Working /\ (NoBidFault \/ \E kind \in AnyBidFault : BidFault(kind))
    BY <2>1 DEF Working, AnyBidFault
  <2> QED
    BY <2>1, <2>2, ReturnKept
<1>2. CASE BidCrash(r)
  <2>1. /\ bidPc[r] \in Working /\ bidLock' = bidLock /\ Return(r) /\ BidFault("crash")
        /\ UNCHANGED <<cache, bids, auction, balance, ending>>
    BY <1>2 DEF BidCrash
  <2>2. \E kind \in AnyBidFault : BidFault(kind)
    BY <2>1 DEF AnyBidFault
  <2> QED
    BY <2>1, <2>2, ReturnKept
<1> QED
  BY <1>1, <1>2

\* The steps nobody's call takes: a TTL passes, the scheduler ends the auction.
LEMMA NoCallKept ==
    ASSUME BidShape, BidTyped', UNCHANGED <<bids, balance, bidPc, bid, seen>>,
           bidFaults.kinds \subseteq bidFaults'.kinds,
           BidOrder /\ ~Disordered' => CallsAlone',
           cache' \in {0, cache},
           auction'.state = "active" => auction' = auction
    PROVE  BidKept
<1>1. BidShape'
  BY DEF BidShape, BidInHand, RowsOnce
<1>2. LastAmount' = LastAmount /\ PrevAmount' = PrevAmount /\ (Increasing' <=> Increasing)
      /\ \A u : LastOwed(u)' = LastOwed(u) /\ PrevOwed(u)' = PrevOwed(u)
  BY RowsStay
<1>3. CacheKnows => CacheKnows'
  BY <1>2 DEF CacheKnows
<1>4. PriceKnows => PriceKnows'
  BY <1>2 DEF PriceKnows
<1>5. BidIsNext => BidIsNext'
  BY <1>2 DEF BidIsNext
<1>6. BidOrder /\ ~Disordered' => BidOrder'
  BY <1>2, <1>3, <1>4, <1>5 DEF BidOrder
<1>7. BidBooks => BidBooks'
  <2>1. \A r, u : NextOwed(r, u)' = NextOwed(r, u)
    BY DEF NextOwed
  <2>2. Unsettled' = Unsettled
    BY DEF Unsettled
  <2>3. HeldKnown => HeldKnown'
    BY <1>2, <2>1, <2>2 DEF HeldKnown
  <2>4. HighestSeen => HighestSeen'
    BY <1>2 DEF HighestSeen
  <2> QED
    BY <2>3, <2>4 DEF BidBooks
<1> QED
  BY <1>1, <1>6, <1>7 DEF BidKept

LEMMA TimeKept ==
    ASSUME BidAssumption, BidShape, BidLockExpires \/ CacheExpires
    PROVE  BidKept /\ bidFaults.kinds \subseteq bidFaults'.kinds
<1>1. CASE BidLockExpires
  <2>1. /\ bidLock # NoId /\ bidLock' = NoId /\ UNCHANGED <<cache, bids, auction, balance, bidPc, bid, seen, ending>>
        /\ (bidPc[bidLock] = "done" /\ NoBidFault) \/ BidFault("slow")
    BY <1>1 DEF BidLockExpires
  <2>2. /\ BidTyped /\ bidFaults' \in [count : Nat, kinds : SUBSET BidFaultKinds]
        /\ bidFaults.kinds \subseteq bidFaults'.kinds /\ (BidFault("slow") => "slow" \in bidFaults'.kinds)
    BY <2>1, BidFaultAdds DEF BidShape, AnyBidFault
  <2>3. BidTyped'
    BY <2>1, <2>2 DEF BidTyped
  <2>4. ASSUME BidOrder, ~Disordered' PROVE CallsAlone'
    <3>1. bidPc[bidLock] = "done"
      BY <2>1, <2>2, <2>4 DEF Disordered
    <3>2. \A r \in Requests : bidPc[r] \notin Working
      BY <2>4, <3>1 DEF BidOrder, CallsAlone, Working
    <3> QED
      BY <2>1, <3>2 DEF CallsAlone
  <2> QED
    BY <2>1, <2>2, <2>3, <2>4, NoCallKept
<1>2. CASE CacheExpires
  <2>1. cache' = 0 /\ UNCHANGED <<bidLock, bids, auction, balance, bidPc, bid, seen, ending, bidFaults>>
    BY <1>2 DEF CacheExpires, NoBidFault
  <2>2. BidTyped'
    BY <2>1 DEF BidShape, BidTyped
  <2>3. BidOrder => CallsAlone'
    BY <2>1 DEF BidOrder, CallsAlone
  <2> QED
    BY <2>1, <2>2, <2>3, NoCallKept
<1> QED
  BY <1>1, <1>2

LEMMA SchedulerKept ==
    ASSUME BidAssumption, BidShape, ReadWinner \/ EndAuction
    PROVE  BidKept /\ bidFaults.kinds \subseteq bidFaults'.kinds
<1>1. UNCHANGED <<bidLock, cache, bids, balance, bidPc, bid, seen, bidFaults>>
  BY DEF ReadWinner, EndAuction, NoBidFault
<1>2. /\ BidTyped /\ ending \in [found : BOOLEAN, winner : Users \cup {NoId}, amount : Nat]
      /\ auction \in [state : {"active", "ended"}, price : Nat, winner : Users \cup {NoId}]
  BY DEF BidShape, BidTyped
<1>3. BidOrder => CallsAlone'
  BY <1>1 DEF BidOrder, CallsAlone
<1>4. NotEnding \in [found : BOOLEAN, winner : Users \cup {NoId}, amount : Nat]
  BY DEF NotEnding
<1>5. CASE ReadWinner
  <2>1. UNCHANGED auction
    BY <1>5 DEF ReadWinner
  <2>2. ending' \in [found : BOOLEAN, winner : Users \cup {NoId}, amount : Nat]
    <3>1. CASE ending' = [NotEnding EXCEPT !.found = TRUE]
      BY <3>1, <1>4
    <3>2. CASE \E b \in TopBids(ToSet(bids)) :
                   ending' = [found |-> TRUE, winner |-> b.user, amount |-> b.amount]
      <4>0. \A b \in TopBids(ToSet(bids)) : b \in Bid
        BY <1>2, BidsRows DEF TopBids
      <4>1. PICK b \in Bid : ending' = [found |-> TRUE, winner |-> b.user, amount |-> b.amount]
        BY <3>2, <4>0
      <4>2. b.user \in Users /\ b.amount \in Nat
        BY <4>1, BidFields
      <4> QED
        BY <4>1, <4>2
    <3> QED
      BY <1>5, <3>1, <3>2 DEF ReadWinner
  <2>3. BidTyped'
    BY <1>1, <1>2, <2>1, <2>2 DEF BidTyped
  <2> QED
    BY <1>1, <1>3, <2>1, <2>3, NoCallKept
<1>6. CASE EndAuction
  <2>1. /\ ending' = NotEnding
        /\ \/ auction' = [state |-> "ended", price |-> ending.amount, winner |-> ending.winner]
           \/ auction' = [auction EXCEPT !.state = "ended"]
    BY <1>6 DEF EndAuction
  <2>2. /\ auction' \in [state : {"active", "ended"}, price : Nat, winner : Users \cup {NoId}]
        /\ auction'.state = "ended"
    BY <1>2, <2>1
  <2>3. BidTyped'
    BY <1>1, <1>2, <1>4, <2>1, <2>2 DEF BidTyped
  <2> QED
    BY <1>1, <1>3, <2>2, <2>3, NoCallKept
<1> QED
  BY <1>5, <1>6

-----------------------------------------------------------------------------
LEMMA BidStarts == BidAssumption /\ BidInit => BidInd
<1> SUFFICES ASSUME BidAssumption, BidInit PROVE BidInd
  OBVIOUS
<1>1. /\ bidLock = NoId /\ cache = 0 /\ bids = << >> /\ balance = [u \in Users |-> Funds]
      /\ auction = [state |-> "active", price |-> StartingPrice, winner |-> NoId]
      /\ bidPc = [r \in Requests |-> "new"] /\ bid = [r \in Requests |-> NoBid]
      /\ seen = [r \in Requests |-> NotSeen] /\ ending = NotEnding
      /\ bidFaults = [count |-> 0, kinds |-> {}]
  BY DEF BidInit
<1>2. StartingPrice \in Nat /\ Funds \in Nat
  BY DEF BidAssumption
<1>3. \A r \in Requests : bidPc[r] = "new"
  BY <1>1
<1>4. BidShape
  <2>1. bids \in Seq(Bid) /\ Len(bids) = 0
    BY <1>1
  <2>2. BidTyped
    BY <1>1, <1>2, <2>1 DEF BidTyped, NotSeen, NotEnding
  <2>3. BidInHand
    BY <1>3 DEF BidInHand, Working
  <2> QED
    BY <2>1, <2>2, <2>3 DEF BidShape, RowsOnce
<1>5. Len(bids) = 0 /\ LastAmount = 0
  BY <1>1 DEF LastAmount
<1>6. BidOrder
  <2>1. CallsAlone /\ BidIsNext
    BY <1>3 DEF CallsAlone, BidIsNext, Working
  <2>2. PriceKnows
    BY <1>1, <1>2, <1>3, <1>5 DEF PriceKnows
  <2> QED
    BY <1>1, <1>5, <2>1, <2>2 DEF BidOrder, CacheKnows, Increasing
<1>7. BidBooks
  <2>1. \A u \in Users : balance[u] = Funds - LastOwed(u)
    BY <1>1, <1>2, <1>5 DEF LastOwed
  <2> QED
    BY <1>3, <2>1 DEF BidBooks, HeldKnown, HighestSeen
<1> QED
  BY <1>4, <1>6, <1>7 DEF BidInd

LEMMA BidStep ==
    ASSUME BidAssumption, BidInd, [BidNext]_bidVars PROVE BidInd'
<1>1. BidShape
  BY DEF BidInd
<1>2. BidKept /\ bidFaults.kinds \subseteq bidFaults'.kinds
  <2>1. CASE UNCHANGED bidVars
    <3>1. UNCHANGED <<bidLock, cache, bids, auction, balance, bidPc, bid, seen, ending, bidFaults>>
      BY <2>1 DEF bidVars
    <3>2. BidTyped' /\ (BidOrder => CallsAlone')
      BY <1>1, <3>1 DEF BidShape, BidTyped, BidOrder, CallsAlone
    <3> QED
      BY <1>1, <3>1, <3>2, NoCallKept
  <2>2. ASSUME NEW r \in Requests, Acquire(r) \/ PlaceBid(r) \/ BidCrash(r)
        PROVE  BidKept /\ bidFaults.kinds \subseteq bidFaults'.kinds
    <3>1. CASE Acquire(r)
      BY <1>1, <3>1, AcquireKept
    <3>2. CASE ReadAuction(r) \/ ReadFails(r)
      BY <1>1, <3>2, ReadAuctionKept
    <3>3. CASE ReadHighest(r) \/ ReadHighestFromDB(r)
      BY <1>1, <3>3, ReadHighestKept
    <3>4. CASE Hold(r)
      BY <1>1, <3>4, HoldKept
    <3>5. CASE CreateBid(r)
      BY <1>1, <3>5, CreateBidKept
    <3>6. CASE SetHighestBid(r)
      BY <1>1, <3>6, SetHighestBidKept
    <3>7. CASE UpdateCurrentPrice(r)
      BY <1>1, <3>7, UpdateCurrentPriceKept
    <3>8. CASE ReleasePrevious(r)
      BY <1>1, <3>8, ReleasePreviousKept
    <3>9. CASE Release(r) \/ BidCrash(r)
      BY <1>1, <3>9, CallEndsKept
    <3> QED
      BY <2>2, <3>1, <3>2, <3>3, <3>4, <3>5, <3>6, <3>7, <3>8, <3>9 DEF PlaceBid
  <2>3. CASE BidLockExpires \/ CacheExpires
    BY <1>1, <2>3, TimeKept
  <2>4. CASE ReadWinner \/ EndAuction
    BY <1>1, <2>4, SchedulerKept
  <2> QED
    BY <2>1, <2>2, <2>3, <2>4 DEF BidNext
<1>3. /\ ~Disordered' => ~Disordered
      /\ Quiet' => Quiet /\ ~Disordered
  BY <1>2, FaultsRemain
<1> QED
  BY <1>2, <1>3 DEF BidInd, BidKept

\* Accepted bids increase, for any number of concurrent calls of PlaceBid,
\* bidders and amounts and whatever fails, as long as the lock outlives its
\* holders, no call ends between its INSERT and the writes that follow, and not
\* both the cache and current_price miss a bid.
THEOREM BidsAlwaysIncrease == BidSpec => []BidsIncrease
<1>1. BidInd => BidsIncrease
  <2> SUFFICES ASSUME BidInd, ~BidMet({"slow", "crash", "ack"}),
                      ~(BidMet({"cache"}) /\ BidMet({"price"}))
               PROVE  \A m, n \in 1 .. Len(bids) : m < n => bids[m].amount < bids[n].amount
    BY DEF BidsIncrease
  <2>1. ~Disordered
    BY DEF BidMet, Disordered
  <2> QED
    BY <2>1 DEF BidInd, BidOrder, Increasing
<1>2. BidInit => BidInd
  BY BidAssumption, BidStarts
<1>3. BidInd /\ [BidNext]_bidVars => BidInd'
  BY BidAssumption, BidStep
<1> QED
  BY <1>1, <1>2, <1>3, PTL DEF BidSpec

\* Whenever no call of PlaceBid is at work, exactly the highest bidder's money is
\* held, the amount of its bid, whatever reads, UPDATEs of current_price or DELs
\* of the lock failed: for any bidders with enough funds for two bids at once.
THEOREM HighestBidderIsHeld ==
    ASSUME FundsSuffice PROVE BidSpec => []OnlyHighestBidderHeld
<1>1. BidInd => OnlyHighestBidderHeld
  <2> SUFFICES ASSUME BidInd, InLock = {}, bidFaults.kinds \subseteq {"read", "price", "unlock"},
                      NEW u \in Users
               PROVE  balance[u] = Funds - Owed(u)
    BY DEF OnlyHighestBidderHeld
  <2>1. BidTyped /\ Increasing /\ HeldKnown
    BY DEF BidInd, BidShape, BidOrder, BidBooks, Quiet, Disordered
  <2>2. Unsettled = {}
    BY DEF Unsettled, InLock, Working
  <2>3. balance[u] = Funds - LastOwed(u)
    BY <2>1, <2>2 DEF HeldKnown
  <2>4. Owed(u) = LastOwed(u)
    <3>1. CASE Len(bids) > 0
      BY <2>1, <3>1, BidAssumption, HighestIsLast, BidsRows DEF Owed, LastOwed, LastAmount
    <3>2. CASE Len(bids) = 0
      BY <2>1, <3>2, BidAssumption, HighestIsLast, BidsRows DEF Owed, LastOwed, LastAmount
    <3> QED
      BY <2>1, <3>1, <3>2, BidsRows
  <2> QED
    BY <2>3, <2>4
<1>2. BidInit => BidInd
  BY BidAssumption, BidStarts
<1>3. BidInd /\ [BidNext]_bidVars => BidInd'
  BY BidAssumption, BidStep
<1> QED
  BY <1>1, <1>2, <1>3, PTL DEF BidSpec

=============================================================================
