--------------------------- MODULE CircuitBreaker ---------------------------
(***************************************************************************)
(* The circuit breaker of pkg/circuitbreaker.  Execute decides under the    *)
(* mutex, runs the protected function without it, and takes it again for    *)
(* the answer: an answer may meet a breaker in another state than the one   *)
(* that admitted the call.                                                  *)
(*                                                                         *)
(* The reset time-out is an event (TimerFires) after which the breaker is   *)
(* due; the failure counter saturates at its threshold, the only value the  *)
(* code compares it with.  The cached response is left out.                 *)
(***************************************************************************)
EXTENDS Naturals, FiniteSets

CONSTANTS
    Callers,            \* concurrent calls of Execute
    FailureThreshold,
    SuccessThreshold

ASSUME BreakerAssumption ==
    FailureThreshold \in 1 .. 100 /\ SuccessThreshold \in 1 .. 10

VARIABLES
    state,              \* cb.state
    consecutiveFails,
    consecutiveSucc,
    probeInFlight,
    due,                \* has ResetTimeout passed since lastStateChange?
    running,            \* caller -> the branch of Execute it is in
    healthy,            \* does the protected service answer well from now on?
    lateFailure,        \* history: did a late answer reopen the breaker during a probe?
    probeLost           \* history: did a probe panic?

breakerVars == <<state, consecutiveFails, consecutiveSucc, probeInFlight, due, running,
                 healthy, lateFailure, probeLost>>

StateClosed   == "closed"
StateOpen     == "open"
StateHalfOpen == "half-open"

\* What the protected function may return.
Outcomes == {"ok", "http4xx", "http5xx", "timeout", "refused", "deadline"}

isFailure(err) == err \in {"http5xx", "timeout", "refused", "deadline"}

BreakerTypeOK ==
    /\ state \in {StateClosed, StateOpen, StateHalfOpen}
    /\ consecutiveFails \in 0 .. FailureThreshold
    /\ consecutiveSucc \in 0 .. SuccessThreshold - 1
    /\ running \in [Callers -> {"none", "executeClosed", "executeProbe"}]
    /\ {probeInFlight, due, healthy, lateFailure, probeLost} \subseteq BOOLEAN

BreakerInit ==
    /\ state = StateClosed
    /\ consecutiveFails = 0 /\ consecutiveSucc = 0
    /\ probeInFlight = FALSE /\ due = FALSE
    /\ running = [c \in Callers |-> "none"]
    /\ healthy = FALSE /\ lateFailure = FALSE /\ probeLost = FALSE

Probing == {c \in Callers : running[c] = "executeProbe"}

\* transition: nothing when the state stays; otherwise the clock of the state
\* starts anew.
transition(new) ==
    /\ state' = new
    /\ due' = IF state = new THEN due ELSE FALSE

\* The counter after one more failure.
OneMore(n) == IF n < FailureThreshold THEN n + 1 ELSE n

-----------------------------------------------------------------------------
ExecuteInClosed(c) ==
    /\ running[c] = "none"
    /\ state = StateClosed
    /\ running' = [running EXCEPT ![c] = "executeClosed"]
    /\ UNCHANGED <<state, consecutiveFails, consecutiveSucc, probeInFlight, due,
                   healthy, lateFailure, probeLost>>

\* Variant: the flag of the running probe is not looked at.
ExecuteAsProbeUnchecked(c) ==
    /\ running[c] = "none"
    /\ \/ state = StateOpen /\ due
       \/ state = StateHalfOpen
    /\ transition(StateHalfOpen)
    /\ probeInFlight' = TRUE
    /\ running' = [running EXCEPT ![c] = "executeProbe"]
    /\ UNCHANGED <<consecutiveFails, consecutiveSucc, healthy, lateFailure, probeLost>>

\* The first call after the reset time-out, or the next one in half-open state.
\* All other calls are answered from the cache or refused, which changes nothing.
ExecuteAsProbe(c) ==
    /\ running[c] = "none"
    /\ \/ state = StateOpen /\ due
       \/ state = StateHalfOpen /\ ~probeInFlight
    /\ transition(StateHalfOpen)
    /\ probeInFlight' = TRUE
    /\ running' = [running EXCEPT ![c] = "executeProbe"]
    /\ UNCHANGED <<consecutiveFails, consecutiveSucc, healthy, lateFailure, probeLost>>

\* The answer of a call that was admitted in closed state, whatever the state is
\* now.
executeClosed(c, err) ==
    /\ running[c] = "executeClosed"
    /\ running' = [running EXCEPT ![c] = "none"]
    /\ IF isFailure(err)
       THEN /\ consecutiveFails' = OneMore(consecutiveFails)
            /\ IF consecutiveFails' >= FailureThreshold
               THEN /\ transition(StateOpen)
                    /\ lateFailure' = (lateFailure \/ (state # StateOpen /\ Probing # {}))
                    /\ IF state # StateOpen
                       THEN probeInFlight' = FALSE /\ consecutiveSucc' = 0
                       ELSE UNCHANGED <<probeInFlight, consecutiveSucc>>
               ELSE UNCHANGED <<state, due, probeInFlight, consecutiveSucc, lateFailure>>
       ELSE /\ consecutiveFails' = 0
            /\ UNCHANGED <<state, due, probeInFlight, consecutiveSucc, lateFailure>>
    /\ UNCHANGED <<healthy, probeLost>>

\* Variant: a failed probe leaves its flag up and the breaker half-open.
executeProbeKeepsFlag(c, err) ==
    /\ running[c] = "executeProbe"
    /\ running' = [running EXCEPT ![c] = "none"]
    /\ IF isFailure(err)
       THEN UNCHANGED <<state, due, consecutiveFails, consecutiveSucc, probeInFlight>>
       ELSE /\ transition(StateClosed)
            /\ consecutiveFails' = 0 /\ consecutiveSucc' = 0 /\ probeInFlight' = FALSE
    /\ UNCHANGED <<healthy, lateFailure, probeLost>>

\* The answer of a probe.
executeProbe(c, err) ==
    /\ running[c] = "executeProbe"
    /\ running' = [running EXCEPT ![c] = "none"]
    /\ probeInFlight' = FALSE
    /\ IF isFailure(err)
       THEN /\ transition(StateOpen)
            /\ consecutiveFails' = OneMore(consecutiveFails)
            /\ consecutiveSucc' = 0
       ELSE IF consecutiveSucc + 1 >= SuccessThreshold
       THEN /\ transition(StateClosed)
            /\ consecutiveFails' = 0
            /\ consecutiveSucc' = 0
       ELSE /\ consecutiveSucc' = consecutiveSucc + 1
            /\ UNCHANGED <<state, due, consecutiveFails>>
    /\ UNCHANGED <<healthy, lateFailure, probeLost>>

Answer(c) ==
    \E err \in Outcomes :
        /\ healthy => ~isFailure(err)
        /\ executeClosed(c, err) \/ executeProbe(c, err)

\* The protected function panics: neither branch runs its second half.
Panic(c) ==
    /\ running[c] # "none"
    /\ ~healthy
    /\ running' = [running EXCEPT ![c] = "none"]
    /\ probeLost' = (probeLost \/ running[c] = "executeProbe")
    /\ UNCHANGED <<state, consecutiveFails, consecutiveSucc, probeInFlight, due, healthy,
                   lateFailure>>

\* GetState also moves a breaker whose time has come.
GetState ==
    /\ state = StateOpen /\ due
    /\ transition(StateHalfOpen)
    /\ UNCHANGED <<consecutiveFails, consecutiveSucc, probeInFlight, running, healthy,
                   lateFailure, probeLost>>

\* ResetTimeout passes.
TimerFires ==
    /\ state = StateOpen /\ ~due
    /\ due' = TRUE
    /\ UNCHANGED <<state, consecutiveFails, consecutiveSucc, probeInFlight, running, healthy,
                   lateFailure, probeLost>>

Heal ==
    /\ ~healthy
    /\ healthy' = TRUE
    /\ UNCHANGED <<state, consecutiveFails, consecutiveSucc, probeInFlight, due, running,
                   lateFailure, probeLost>>

BreakerNext ==
    \/ \E c \in Callers : ExecuteInClosed(c) \/ ExecuteAsProbe(c) \/ Answer(c) \/ Panic(c)
    \/ GetState \/ TimerFires \/ Heal

\* Calls are answered and the timer fires.  Nothing makes callers call.
BreakerFairness ==
    /\ \A c \in Callers : WF_breakerVars(Answer(c))
    /\ WF_breakerVars(TimerFires)

\* The callers' part: a breaker that would admit a probe is asked again.
CallersKeepCalling == WF_breakerVars(\E c \in Callers : ExecuteAsProbe(c))

-----------------------------------------------------------------------------
\* "Only allow one probe at a time" (circuitbreaker.go): a service that may just
\* have recovered gets one request.  A failure of a call admitted before the
\* breaker opened, arriving during a probe, is the only thing that lets a second
\* probe in.
OneProbe == Cardinality(Probing) <= 1 \/ lateFailure

\* While callers keep calling, a breaker whose service has recovered closes
\* again, late answers included; only a probe that panicked keeps it half-open
\* for good.
BreakerCloses == CallersKeepCalling => (healthy ~> (state = StateClosed \/ probeLost))
=============================================================================
