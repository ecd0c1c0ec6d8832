---------------------------- MODULE GatewayProxy ----------------------------
(***************************************************************************)
(* api-gateway: Gateway.Forward, its circuit breaker and its round robin    *)
(* over the upstreams of one service.  The handlers of concurrent requests  *)
(* share the breaker, whose methods each hold its lock; what they learn     *)
(* from the upstream they record later.                                     *)
(***************************************************************************)
EXTENDS Naturals, FiniteSetsExt

CONSTANTS
    Handlers,     \* the handlers that run Forward; each serves request after request
    Upstreams,    \* the number of upstream URLs
    MaxFailures,  \* maxFailures of the breaker, 5 in the code
    Retries       \* cfg.Proxy.Retries

ASSUME GatewayAssumption ==
    /\ Upstreams \in Nat \ {0}
    /\ MaxFailures \in Nat \ {0}
    /\ Retries \in Nat

VARIABLES
    gate,      \* the breaker: state, failures (capped) and whether resetTimeout has passed
    roundRobin,\* RoundRobin.next modulo the number of upstreams
    handler,   \* the request of each handler
    answering    \* the upstreams that answer

gatewayVars == <<gate, roundRobin, handler, answering>>

\* gone: the client has disconnected, which cancels the request's context.
HandlerIdle == [at |-> "idle", upstream |-> 0, attempt |-> 0, gone |-> FALSE]

GatewayTypeOK ==
    /\ gate \in [state : {"closed", "open", "half-open"}, failures : 0 .. MaxFailures, reset : BOOLEAN]
    /\ roundRobin \in 0 .. Upstreams - 1
    /\ handler \in [Handlers -> [at : {"idle", "asked", "refused", "sending", "success", "failure"},
                                 upstream : 0 .. Upstreams - 1, attempt : 0 .. Retries, gone : BOOLEAN]]
    /\ answering \subseteq 0 .. Upstreams - 1

GatewayInit ==
    /\ gate = [state |-> "closed", failures |-> 0, reset |-> FALSE]
    /\ roundRobin = 0
    /\ handler = [h \in Handlers |-> HandlerIdle]
    /\ answering = 0 .. Upstreams - 1

-----------------------------------------------------------------------------
(* CircuitBreaker *)

\* Allow: an open breaker turns half-open once resetTimeout has passed, and a
\* half-open one lets every request through.
Allow == gate.state # "open" \/ gate.reset

AfterAllow == IF gate.state = "open" THEN [gate EXCEPT !.state = "half-open"] ELSE gate

\* Variant: a success that only resets the count.
AfterSuccessCountOnly == [gate EXCEPT !.failures = 0]

AfterSuccess == [gate EXCEPT !.failures = 0, !.state = "closed"]

\* failures only matters up to maxFailures, and is capped there.
AfterFailure ==
    LET failures == Min({gate.failures + 1, MaxFailures}) IN
    [state    |-> IF failures >= MaxFailures THEN "open" ELSE gate.state,
     failures |-> failures,
     reset    |-> FALSE]

-----------------------------------------------------------------------------
(* Forward *)

\* A client sends a request.
Ask(h) ==
    /\ handler[h].at \in {"idle", "refused"}
    /\ handler' = [handler EXCEPT ![h] = [HandlerIdle EXCEPT !.at = "asked"]]
    /\ UNCHANGED <<gate, roundRobin, answering>>

\* Forward up to the loop.  RoundRobin.Next leaves its counter alone when
\* there is one upstream.
Forward(h) ==
    /\ handler[h].at = "asked"
    /\ Allow
    /\ gate' = AfterAllow
    /\ roundRobin' = (roundRobin + 1) % Upstreams
    /\ handler' = [handler EXCEPT ![h] = [HandlerIdle EXCEPT !.at = "sending", !.upstream = roundRobin']]
    /\ UNCHANGED answering

\* 503 service temporarily unavailable.
Refuse(h) ==
    /\ handler[h].at = "asked"
    /\ ~Allow
    /\ handler' = [handler EXCEPT ![h].at = "refused"]
    /\ UNCHANGED <<gate, roundRobin, answering>>

\* doOnce gets an answer below 500.
Answered(h) ==
    /\ handler[h].at = "sending"
    /\ handler[h].upstream \in answering /\ ~handler[h].gone
    /\ handler' = [handler EXCEPT ![h].at = "success"]
    /\ UNCHANGED <<gate, roundRobin, answering>>

\* doOnce fails or gets a 5xx answer: its context is that of the client's
\* request, so without the client it fails at once.
AttemptFails(h) ==
    /\ handler[h].at = "sending"
    /\ handler[h].upstream \notin answering \/ handler[h].gone

\* The next attempt goes to the same URL, whatever the method.
Retry(h) ==
    /\ AttemptFails(h)
    /\ handler[h].attempt < Retries
    /\ handler' = [handler EXCEPT ![h].attempt = @ + 1]
    /\ UNCHANGED <<gate, roundRobin, answering>>

\* The last attempt: an error is a failure of the upstream, be it the client
\* that has gone; a 5xx answer is a success.
GiveUp(h) ==
    /\ AttemptFails(h)
    /\ handler[h].attempt = Retries
    /\ \E outcome \in {"failure"} \cup (IF handler[h].gone THEN {} ELSE {"success"}) :
          handler' = [handler EXCEPT ![h].at = outcome]
    /\ UNCHANGED <<gate, roundRobin, answering>>

\* RecordSuccess or RecordFailure, in whatever state the breaker is by now,
\* and the answer to the client.
Record(h) ==
    /\ handler[h].at \in {"success", "failure"}
    /\ gate' = IF handler[h].at = "success" THEN AfterSuccess ELSE AfterFailure
    /\ handler' = [handler EXCEPT ![h] = HandlerIdle]
    /\ UNCHANGED <<roundRobin, answering>>

-----------------------------------------------------------------------------
(* The environment *)

\* More than resetTimeout has passed since lastFailure.
ResetTimeout ==
    /\ gate.state = "open"
    /\ ~gate.reset
    /\ gate' = [gate EXCEPT !.reset = TRUE]
    /\ UNCHANGED <<roundRobin, handler, answering>>

\* The client of a request disconnects.
ClientLeaves(h) ==
    /\ handler[h].at = "sending"
    /\ ~handler[h].gone
    /\ handler' = [handler EXCEPT ![h].gone = TRUE]
    /\ UNCHANGED <<gate, roundRobin, answering>>

\* An upstream goes down or comes back.
UpstreamChanges ==
    /\ \E u \in 0 .. Upstreams - 1 :
          answering' = IF u \in answering THEN answering \ {u} ELSE answering \cup {u}
    /\ UNCHANGED <<gate, roundRobin, handler>>

GatewayNext ==
    \/ \E h \in Handlers :
          Ask(h) \/ Forward(h) \/ Refuse(h) \/ Answered(h) \/ Retry(h) \/ GiveUp(h) \/ Record(h)
          \/ ClientLeaves(h)
    \/ ResetTimeout
    \/ UpstreamChanges

\* A handler that has a request goes on: every attempt ends, with an answer or
\* with the client's timeout.  Time passes.  Nothing makes clients call.
GatewayFairness ==
    /\ \A h \in Handlers :
          WF_gatewayVars(Forward(h) \/ Refuse(h) \/ Answered(h) \/ Retry(h) \/ GiveUp(h) \/ Record(h))
    /\ WF_gatewayVars(ResetTimeout)

-----------------------------------------------------------------------------

\* Once every upstream answers for good, clients keep calling and none leaves
\* before its answer, the breaker closes for good: no order in which late
\* failures, refusals and half-open requests are recorded leaves it open.  The
\* premise on the clients is needed: Forward records a client's disconnection as
\* a failure of the upstream, so impatient clients alone can open the breaker.
GatewayRecovers ==
    /\ <>[](answering = 0 .. Upstreams - 1)
    /\ []<>(\E h \in Handlers : handler[h].at = "asked")
    /\ <>[](\A h \in Handlers : ~handler[h].gone)
    => <>[](gate.state = "closed")

=============================================================================
