--------------------------- MODULE SettlementSaga ---------------------------
(***************************************************************************)
(* The settlement saga of the payment service                              *)
(* (payment-service/internal/saga: orchestrator.go runs the four steps of   *)
(* settlement.go and records them with store.go).                           *)
(*                                                                         *)
(*   1 charge the winner   2 credit the seller   3 release the losers'      *)
(*   holds, one transaction each   4 insert the settlement events           *)
(*                                                                         *)
(* The orchestrator runs a step in a goroutine and waits for it or for the  *)
(* step's timeout.  A step that timed out may have its COMMIT on the wire:  *)
(* the server applies it, late, or never (inflight).  When a step fails the *)
(* orchestrator compensates the steps before it, in reverse order; the      *)
(* failed step itself is not compensated.  Nothing resumes a saga whose     *)
(* process died.  A hold is identified by its bidder.                       *)
(***************************************************************************)
EXTENDS Integers, FiniteSets

CONSTANTS
    Winner, Seller, Losers,
    Price,          \* winning_amount, held in the winner's wallet
    LoserAmount,    \* amount of each losing hold
    SellerInitial,  \* available balance of the seller before the settlement
    MayFail,        \* may a transaction fail?
    MayTimeout,     \* may a step exceed its 30 s?
    MayCancel,      \* may the context passed to Execute be cancelled?
    MayCrash,       \* may the process die?
    MaySpend        \* may users spend available balance meanwhile?

ASSUME SagaAssumption ==
    /\ Winner # Seller /\ {Winner, Seller} \cap Losers = {}
    /\ Price \in Nat \ {0} /\ LoserAmount \in Nat \ {0} /\ SellerInitial \in Nat
    /\ {MayFail, MayTimeout, MayCancel, MayCrash, MaySpend} \subseteq BOOLEAN

VARIABLES
    wallets,     \* wallets table: user -> balances
    holds,       \* bid_holds.status of the winner's and the losers' holds
    outbox,      \* are the settlement events in outbox_events?
    saga,        \* sagas.state
    steps,       \* saga_steps.status
    sagaPc,      \* where the orchestrator is
    i,           \* the step being executed or compensated
    failedStep,  \* the step that failed (0: none yet)
    compErr,     \* has a compensation returned an error?
    todo,        \* holds the release step, or its compensation, still has to visit
    ctxDone,     \* has the context passed to Execute been cancelled?
    inflight,    \* commits of timed-out steps the server has not seen yet
    timedOut,    \* history: has a step timed out with its commit on the wire?
    spent,       \* history: money users took out of their available balance
    strays,      \* history: losing holds released and given up by the compensation
    unsaved      \* history: was the write of the saga's end lost?

sagaVars == <<wallets, holds, outbox, saga, steps, sagaPc, i, failedStep, compErr, todo,
          ctxDone, inflight, timedOut, spent, strays, unsaved>>

tables == <<wallets, holds, outbox>>

-----------------------------------------------------------------------------
Parties   == {Winner, Seller} \cup Losers
Bidders == {Winner} \cup Losers
StepNos == 1 .. 4

ChargeStep == 1
CreditStep == 2
ReleaseStep == 3
PublishStep == 4

SagaStates   == {"none", "running", "completed", "compensating", "failed"}
StepStatuses == {"pending", "completed", "failed", "compensated"}
SagaLabels == {"create", "execute", "succeeded", "complete", "erred", "compensate", "rehold",
           "finish", "done", "crashed"}

\* A commit on the wire: of a whole step, or of one hold of the release step.
Commits == [step : {ChargeStep, CreditStep, PublishStep}, hold : {Winner}]
             \cup [step : {ReleaseStep}, hold : Losers]

InitialWallets ==
    [u \in Parties |->
        [available |-> IF u = Seller THEN SellerInitial ELSE 0,
         held |-> IF u = Winner THEN Price
                  ELSE IF u = Seller THEN 0 ELSE LoserAmount]]

SagaTypeOK ==
    /\ wallets \in [Parties -> [available : Nat, held : Nat]]
    /\ holds \in [Bidders -> {"active", "released", "charged"}]
    /\ outbox \in BOOLEAN
    /\ saga \in SagaStates
    /\ steps \in [StepNos -> StepStatuses]
    /\ sagaPc \in SagaLabels
    /\ i \in 0 .. 4
    /\ failedStep \in 0 .. 4
    /\ compErr \in BOOLEAN
    /\ todo \subseteq Losers
    /\ ctxDone \in BOOLEAN
    /\ inflight \subseteq Commits
    /\ timedOut \in BOOLEAN
    /\ spent \in [Parties -> Nat]
    /\ strays \subseteq Losers
    /\ unsaved \in BOOLEAN

SagaInit ==
    /\ wallets = InitialWallets
    /\ holds = [b \in Bidders |-> "active"]
    /\ outbox = FALSE
    /\ saga = "none"
    /\ steps = [n \in StepNos |-> "pending"]
    /\ sagaPc = "create"
    /\ i = 1
    /\ failedStep = 0
    /\ compErr = FALSE
    /\ todo = Losers
    /\ ctxDone = FALSE
    /\ inflight = {}
    /\ timedOut = FALSE
    /\ spent = [u \in Parties |-> 0]
    /\ strays = {}
    /\ unsaved = FALSE

-----------------------------------------------------------------------------
\* The transactions of the steps.

\* chargeWinnerStep: does not look at the status of the hold.
ChargeWinner ==
    /\ wallets[Winner].held >= Price
    /\ wallets' = [wallets EXCEPT ![Winner].held = @ - Price]
    /\ holds' = [holds EXCEPT ![Winner] = "charged"]
    /\ UNCHANGED outbox

CreditSeller ==
    /\ wallets' = [wallets EXCEPT ![Seller].available = @ + Price]
    /\ UNCHANGED <<holds, outbox>>

\* Variant: a release that forgets to lower the held balance.
ReleaseOneHoldKeepsHeld(l) ==
    /\ wallets' = [wallets EXCEPT ![l].available = @ + LoserAmount]
    /\ holds' = [holds EXCEPT ![l] = "released"]
    /\ UNCHANGED outbox

\* releaseOneHold: a hold that is not active any more is skipped.
ReleaseOneHold(l) ==
    IF holds[l] = "active"
    THEN /\ wallets' = [wallets EXCEPT ![l] =
                [available |-> @.available + LoserAmount, held |-> @.held - LoserAmount]]
         /\ holds' = [holds EXCEPT ![l] = "released"]
         /\ UNCHANGED outbox
    ELSE UNCHANGED tables

\* publishSettlementEventsStep: both events, ON CONFLICT DO NOTHING.
PublishEvents == outbox' = TRUE /\ UNCHANGED <<wallets, holds>>

CommitOf(c) ==
    \/ c.step = ChargeStep /\ ChargeWinner
    \/ c.step = CreditStep /\ CreditSeller
    \/ c.step = ReleaseStep /\ ReleaseOneHold(c.hold)
    \/ c.step = PublishStep /\ PublishEvents

\* reverseChargeStep.
ReverseCharge ==
    /\ wallets' = [wallets EXCEPT ![Winner].held = @ + Price]
    /\ holds' = [holds EXCEPT ![Winner] = "active"]
    /\ UNCHANGED outbox

\* Variant: the reversal of a credit does nothing.
ReverseCreditNothing == UNCHANGED tables

\* reverseCreditStep: a balance that would become negative becomes zero.
ReverseCredit ==
    /\ wallets' = [wallets EXCEPT ![Seller].available =
           IF @ >= Price THEN @ - Price ELSE 0]
    /\ UNCHANGED <<holds, outbox>>

\* reHoldOne: only a released hold, and only if the owner still has the money
\* (CHECK available_balance >= 0).
ReHoldOne(l) ==
    /\ holds[l] = "released"
    /\ wallets[l].available >= LoserAmount
    /\ wallets' = [wallets EXCEPT ![l] =
           [available |-> @.available - LoserAmount, held |-> @.held + LoserAmount]]
    /\ holds' = [holds EXCEPT ![l] = "active"]
    /\ UNCHANGED outbox

-----------------------------------------------------------------------------
\* UpdateSagaState and UpdateStepStatus: the orchestrator ignores their error.
\* A write is lost when the database fails it, and always once the context of
\* Execute, with which store.go writes, is cancelled.
SaveSaga(state) ==
    \/ ~ctxDone /\ saga' = state
    \/ (MayFail \/ ctxDone) /\ saga' = saga

SaveStep(n, status) ==
    \/ ~ctxDone /\ steps' = [steps EXCEPT ![n] = status]
    \/ (MayFail \/ ctxDone) /\ steps' = steps

\* The last write of Execute.
SaveEnd(state) ==
    /\ SaveSaga(state)
    /\ unsaved' = (saga' # state)

orchestrator == <<i, failedStep, compErr, todo, strays, unsaved>>
environment  == <<ctxDone, inflight, timedOut, spent>>

\* CreateSaga and CreateStepRecord; a step record that cannot be written ends
\* Execute with the saga left in state running.
CreateSaga ==
    /\ sagaPc = "create"
    /\ ~ctxDone
    /\ saga' = "running"
    /\ sagaPc' = "execute"
    /\ UNCHANGED <<tables, steps, orchestrator, environment>>

CreateFails ==
    /\ sagaPc = "create"
    /\ MayFail \/ ctxDone
    /\ saga' \in {saga, "running"}
    /\ sagaPc' = "done"
    /\ UNCHANGED <<tables, steps, orchestrator, environment>>

\* The goroutine of a single-transaction step commits and the orchestrator
\* receives nil.
ExecuteStep ==
    /\ sagaPc = "execute" /\ i # ReleaseStep
    /\ ~ctxDone
    /\ CommitOf([step |-> i, hold |-> Winner])
    /\ sagaPc' = "succeeded"
    /\ UNCHANGED <<saga, steps, orchestrator, environment>>

\* releaseLoserHoldsStep visits the holds one after the other.
ExecuteRelease ==
    /\ sagaPc = "execute" /\ i = ReleaseStep
    /\ ~ctxDone
    /\ \E l \in todo :
          /\ ReleaseOneHold(l)
          /\ todo' = todo \ {l}
    /\ UNCHANGED <<saga, steps, sagaPc, i, failedStep, compErr, strays, unsaved, environment>>

ReleaseDone ==
    /\ sagaPc = "execute" /\ i = ReleaseStep /\ todo = {}
    /\ sagaPc' = "succeeded"
    /\ UNCHANGED <<tables, saga, steps, orchestrator, environment>>

\* Variant: the release step reports success although a release failed.
StepFailsSilently ==
    /\ sagaPc = "execute"
    /\ MayFail \/ ctxDone \/ (i = ChargeStep /\ wallets[Winner].held < Price)
    /\ sagaPc' = IF i = ReleaseStep THEN "succeeded" ELSE "erred"
    /\ UNCHANGED <<tables, saga, steps, orchestrator, environment>>

\* The step returns an error: its transaction is rolled back.  Charging fails
\* by itself when the held balance is too small.
StepFails ==
    /\ sagaPc = "execute"
    /\ MayFail \/ ctxDone \/ (i = ChargeStep /\ wallets[Winner].held < Price)
    /\ sagaPc' = "erred"
    /\ UNCHANGED <<tables, saga, steps, orchestrator, environment>>

\* The step's context ends while its COMMIT is on the wire; an answer lost with
\* its connection looks the same to the orchestrator.
StepTimesOut ==
    /\ sagaPc = "execute"
    /\ MayTimeout \/ ctxDone
    /\ \E c \in Commits :
          /\ c.step = i
          /\ i = ReleaseStep => c.hold \in todo
          /\ inflight' = inflight \cup {c}
    /\ timedOut' = TRUE
    /\ sagaPc' = "erred"
    /\ UNCHANGED <<tables, saga, steps, orchestrator, ctxDone, spent>>

\* UpdateStepStatus(completed), then the next step or the end of the loop.  The
\* next step begins with UpdateSagaState(running), which is the state already.
RecordSuccess ==
    /\ sagaPc = "succeeded"
    /\ SaveStep(i, "completed")
    /\ IF i = PublishStep THEN sagaPc' = "complete" /\ UNCHANGED i
                      ELSE sagaPc' = "execute" /\ i' = i + 1
    /\ UNCHANGED <<tables, saga, failedStep, compErr, todo, strays, unsaved, environment>>

Complete ==
    /\ sagaPc = "complete"
    /\ SaveEnd("completed")
    /\ sagaPc' = "done"
    /\ UNCHANGED <<tables, steps, i, failedStep, compErr, todo, strays, environment>>

\* The loop "for i := failedStep - 1; i >= 0; i--" (counted from 1 here).
FirstToCompensate(n) == n - 1

\* Where the orchestrator goes to compensate step n; 0 means the loop is over.
CompensateAt(n) == sagaPc' = (CASE n = 0 -> "finish" [] n = ReleaseStep -> "rehold" [] OTHER -> "compensate")

\* UpdateStepStatus(failed) and UpdateSagaState(compensating).  The failed step
\* is not compensated: holds it has released stay so.
RecordFailure ==
    /\ sagaPc = "erred"
    /\ SaveStep(i, "failed")
    /\ SaveSaga("compensating")
    /\ failedStep' = i
    /\ i' = FirstToCompensate(i)
    /\ todo' = Losers
    /\ strays' = IF i = ReleaseStep THEN Losers \ todo ELSE {}
    /\ CompensateAt(FirstToCompensate(i))
    /\ UNCHANGED <<tables, compErr, unsaved, environment>>

Compensation ==
    \/ i = ChargeStep /\ ReverseCharge
    \/ i = CreditStep /\ ReverseCredit

\* A compensation commits; the step becomes compensated.
CompensateStep ==
    /\ sagaPc = "compensate"
    /\ ~ctxDone
    /\ Compensation
    /\ SaveStep(i, "compensated")
    /\ i' = i - 1
    /\ CompensateAt(i - 1)
    /\ UNCHANGED <<saga, failedStep, compErr, todo, strays, unsaved, environment>>

\* Variant: the first compensation that fails ends Execute.
CompensateFailsReturns ==
    /\ sagaPc = "compensate"
    /\ MayFail \/ ctxDone
    /\ SaveStep(i, "failed")
    /\ compErr' = TRUE
    /\ sagaPc' = "done"
    /\ UNCHANGED <<tables, saga, i, failedStep, todo, strays, unsaved, environment>>

\* A compensation fails, or the 60 s are over, or it commits and the answer is
\* lost: the error is kept and the loop goes on.
CompensateFails ==
    /\ sagaPc = "compensate"
    /\ MayFail \/ ctxDone
    /\ Compensation \/ UNCHANGED tables
    /\ SaveStep(i, "failed")
    /\ compErr' = TRUE
    /\ i' = i - 1
    /\ CompensateAt(i - 1)
    /\ UNCHANGED <<saga, failedStep, todo, strays, unsaved, environment>>

\* reverseReleaseStep visits the holds; one that cannot be held again is
\* logged and passed over.
ReHold ==
    /\ sagaPc = "rehold"
    /\ \E l \in todo :
          /\ todo' = todo \ {l}
          /\ \/ ~ctxDone /\ ReHoldOne(l) /\ UNCHANGED strays
             \/ holds[l] # "released" /\ UNCHANGED <<tables, strays>>
             \/ /\ MayFail \/ ctxDone \/ wallets[l].available < LoserAmount
                /\ strays' = strays \cup {l}
                /\ UNCHANGED tables
    /\ UNCHANGED <<saga, steps, sagaPc, i, failedStep, compErr, unsaved, environment>>

\* It returns nil whatever happened to the single holds.
ReHoldDone ==
    /\ sagaPc = "rehold" /\ todo = {}
    /\ SaveStep(ReleaseStep, "compensated")
    /\ i' = i - 1
    /\ CompensateAt(i - 1)
    /\ UNCHANGED <<tables, saga, failedStep, compErr, todo, strays, unsaved, environment>>

\* UpdateSagaState(failed), with or without a compensation error.
Finish ==
    /\ sagaPc = "finish"
    /\ SaveEnd("failed")
    /\ sagaPc' = "done"
    /\ UNCHANGED <<tables, steps, i, failedStep, compErr, todo, strays, environment>>

-----------------------------------------------------------------------------
\* The server sees the COMMIT of a timed-out step, or never does.
LateCommit ==
    \E c \in inflight :
        /\ inflight' = inflight \ {c}
        /\ CommitOf(c) \/ UNCHANGED tables
        /\ UNCHANGED <<saga, steps, sagaPc, orchestrator, ctxDone, timedOut, spent>>

\* The caller of Execute goes away.
Cancel ==
    /\ MayCancel /\ ~ctxDone
    /\ sagaPc \notin {"done", "crashed"}
    /\ ctxDone' = TRUE
    /\ UNCHANGED <<tables, saga, steps, sagaPc, orchestrator, inflight, timedOut, spent>>

\* The process dies; no code picks the saga up again.
SagaCrash ==
    /\ MayCrash
    /\ sagaPc \notin {"done", "crashed"}
    /\ sagaPc' = "crashed"
    /\ UNCHANGED <<tables, saga, steps, orchestrator, environment>>

\* A user spends available balance, on another bid or by withdrawing it.
Spend ==
    /\ MaySpend
    /\ \E u \in Parties :
          /\ wallets[u].available > 0
          /\ wallets' = [wallets EXCEPT ![u].available = 0]
          /\ spent' = [spent EXCEPT ![u] = @ + wallets[u].available]
    /\ UNCHANGED <<holds, outbox, saga, steps, sagaPc, orchestrator, ctxDone, inflight, timedOut>>

Orchestrate ==
    \/ CreateSaga \/ CreateFails
    \/ ExecuteStep \/ ExecuteRelease \/ ReleaseDone \/ StepFails \/ StepTimesOut
    \/ RecordSuccess \/ Complete
    \/ RecordFailure \/ CompensateStep \/ CompensateFails \/ ReHold \/ ReHoldDone
    \/ Finish

SagaNext == Orchestrate \/ LateCommit \/ Cancel \/ SagaCrash \/ Spend

SagaSpec == SagaInit /\ [][SagaNext]_sagaVars

\* The goroutine of the orchestrator runs on as long as its process lives.
SagaFairSpec == SagaSpec /\ WF_sagaVars(Orchestrate)

-----------------------------------------------------------------------------
\* A saga recorded as completed has settled everything: the winner charged,
\* the seller credited, no losing hold active, the events in the outbox.
CompletedMeansSettled ==
    saga = "completed" =>
        /\ holds[Winner] = "charged" /\ wallets[Winner].held = 0
        /\ wallets[Seller].available + spent[Seller] = SellerInitial + Price
        /\ \A l \in Losers : holds[l] # "active" /\ wallets[l].held = 0
        /\ outbox

\* A losing bidder's money is never lost nor multiplied, whatever fails and
\* however late a commit lands, and it is held exactly while the hold is
\* active.
LosersKeepTheirMoney ==
    \A l \in Losers :
        /\ wallets[l].available + wallets[l].held + spent[l] = LoserAmount
        /\ wallets[l].held = IF holds[l] = "active" THEN LoserAmount ELSE 0

\* What a saga recorded as failed has restored, its compensations having reported
\* no error and no step having timed out with its commit on the wire: the winner,
\* the outbox, the seller unless the credit was spent, and every losing hold but
\* the strays.  "restoring previous state" (.kiro design.md, Property 19, and
\* requirement 18.4) is not true of the strays: the holds that the release step
\* had released when it failed, and those whose reHoldOne failed, an error
\* reverseReleaseStep logs and does not return.
FailureUndone ==
    (saga = "failed" /\ ~compErr /\ ~timedOut) =>
        /\ holds[Winner] = "active" /\ wallets[Winner].held = Price
        /\ spent[Seller] = 0 => wallets[Seller].available = SellerInitial
        /\ ~outbox
        /\ {l \in Losers : holds[l] # "active"} = strays

\* "guaranteed completion or full rollback" (ADR-002): a saga that started its
\* steps is recorded as completed or failed, unless its process dies, which
\* nothing resumes, or the write of its end is lost: the orchestrator ignores
\* that error, and a cancelled context makes it certain.
SagaEnds == sagaPc = "execute" ~> (saga \in {"completed", "failed"} \/ sagaPc = "crashed" \/ unsaved)
=============================================================================
