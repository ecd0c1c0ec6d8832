---------------------------- MODULE RateLimiter -----------------------------
(***************************************************************************)
(* The sliding-window limiter of pkg/ratelimit, as the gateway's middleware *)
(* runs it for the requests of one client: RedisRateLimiter.Check with the  *)
(* in-memory limiter behind it for the times Redis does not answer.         *)
(*                                                                         *)
(* The Redis counters are read in one command and incremented in another;   *)
(* the in-memory limiter works under its mutex.  A window has               *)
(* TicksPerWindow ticks; windows are named by their age (0 the current one, *)
(* 1 the one before), which is all the code asks of them.  The hour of the  *)
(* violation counters does not end.                                         *)
(***************************************************************************)
EXTENDS Naturals, FiniteSets

CONSTANTS
    Requests,           \* concurrent requests of the client
    Limit,              \* effective limit per window
    TicksPerWindow,
    BlockThreshold,
    MaxRedisErrors      \* bound on the Redis commands that fail

ASSUME LimiterAssumption ==
    /\ {Limit, TicksPerWindow, BlockThreshold} \subseteq Nat \ {0}
    /\ MaxRedisErrors \in Nat
    /\ IsFiniteSet(Requests)

VARIABLES
    now,            \* ticks since the current window began
    counts,         \* rl:<key>:<window> of the two last windows, in Redis
    violations,     \* rl:violations:<ip>:<hour>
    blocked,        \* rl:block:<ip>
    memory,         \* the in-memory limiter: windows, prevWindows, violations, blocks
    request,        \* request -> step of Check and the age of the window it saw
    redisErrors,
    admitted,       \* history: requests the fallback let through in the current window
    slipped         \* history: requests let through since the block was set

limiterVars == <<now, counts, violations, blocked, memory, request, redisErrors, admitted,
                 slipped>>

\* Ages of a window; anything above 2 is as good as 3.
Ages == 0 .. 3

Older(age) == IF age = 3 THEN 3 ELSE age + 1

LimiterTypeOK ==
    /\ now \in 0 .. TicksPerWindow - 1
    /\ counts \in [0 .. 1 -> Nat]
    /\ violations \in Nat
    /\ blocked \in BOOLEAN
    /\ memory \in [age : Ages, count : Nat, prevAge : Ages, prev : Nat,
                   violations : Nat, blocked : BOOLEAN]
    /\ request \in [Requests -> [pc : {"idle", "window", "incr", "violation", "block"},
                                 age : Ages]]
    /\ redisErrors \in 0 .. MaxRedisErrors
    /\ admitted \in Nat
    /\ slipped \in Nat

LimiterInit ==
    /\ now = 0
    /\ counts = [age \in 0 .. 1 |-> 0]
    /\ violations = 0
    /\ blocked = FALSE
    /\ memory = [age |-> 0, count |-> 0, prevAge |-> 0, prev |-> 0,
                 violations |-> 0, blocked |-> FALSE]
    /\ request = [r \in Requests |-> [pc |-> "idle", age |-> 0]]
    /\ redisErrors = 0
    /\ admitted = 0
    /\ slipped = 0

\* current + previous * (fraction of the window that is left), cut to an integer.
effectiveCount(current, previous) ==
    current + (previous * (TicksPerWindow - now)) \div TicksPerWindow

Goto(r, step) == request' = [request EXCEPT ![r] = [pc |-> step, age |-> 0]]

Admit ==
    slipped' = IF blocked THEN slipped + 1 ELSE slipped

RedisFails == redisErrors < MaxRedisErrors /\ redisErrors' = redisErrors + 1

-----------------------------------------------------------------------------
\* Check begins: isBlockedRedis, or the in-memory blocks when Redis fails.
CheckBlocked(r) ==
    /\ request[r].pc = "idle"
    /\ \/ ~blocked /\ UNCHANGED redisErrors
       \/ RedisFails /\ ~memory.blocked
    /\ Goto(r, "window")
    /\ UNCHANGED <<now, counts, violations, blocked, memory, admitted, slipped>>

\* slidingWindowCheck, the pipeline of two GETs and the comparison.  When the
\* second GET fails the previous window counts as empty.
ReadWindows(r) ==
    /\ request[r].pc = "window"
    /\ \E previous \in {counts[1], 0} :
          /\ \/ previous = counts[1] /\ UNCHANGED redisErrors
             \/ previous = 0 /\ RedisFails
          /\ Goto(r, IF effectiveCount(counts[0], previous) >= Limit THEN "violation" ELSE "incr")
    /\ UNCHANGED <<now, counts, violations, blocked, memory, admitted, slipped>>

\* INCR of the key that was computed with the GETs, which by now may be that of
\* an earlier window.
IncrWindow(r) ==
    LET age == request[r].age IN
    /\ request[r].pc = "incr"
    /\ counts' = IF age \in DOMAIN counts THEN [counts EXCEPT ![age] = @ + 1] ELSE counts
    /\ Admit
    /\ Goto(r, "idle")
    /\ UNCHANGED <<now, violations, blocked, memory, redisErrors, admitted>>

\* rotateWindows: the entry of an earlier window, however old, becomes the
\* previous one.
Rotated ==
    IF memory.age = 0 THEN memory
    ELSE [memory EXCEPT !.age = 0, !.count = 0, !.prevAge = memory.age, !.prev = memory.count]

\* Variant: the in-memory limiter compares with > instead of >=.
MemoryRefusesAbove(m) == effectiveCount(m.count, m.prev) > Limit

MemoryRefuses(m) == effectiveCount(m.count, m.prev) >= Limit

\* Redis fails in one of the two pipelines: InMemoryLimiter.Allow decides.
FallbackAllow(r) ==
    /\ request[r].pc \in {"window", "incr"}
    /\ RedisFails
    /\ IF MemoryRefuses(Rotated)
       THEN memory' = Rotated /\ Goto(r, "violation") /\ UNCHANGED <<admitted, slipped>>
       ELSE /\ memory' = [Rotated EXCEPT !.count = @ + 1]
            /\ Admit
            /\ admitted' = admitted + 1
            /\ Goto(r, "idle")
    /\ UNCHANGED <<now, counts, violations, blocked>>

\* recordViolationRedis, the INCR; the answer is 429.
RecordViolation(r) ==
    /\ request[r].pc = "violation"
    /\ violations' = IF violations < BlockThreshold THEN violations + 1 ELSE violations
    /\ Goto(r, IF violations + 1 >= BlockThreshold THEN "block" ELSE "idle")
    /\ UNCHANGED <<now, counts, blocked, memory, redisErrors, admitted, slipped>>

\* blockIP: the SET of the block.
blockIP(r) ==
    /\ request[r].pc = "block"
    /\ blocked' = TRUE
    /\ slipped' = IF blocked THEN slipped ELSE 0
    /\ Goto(r, "idle")
    /\ UNCHANGED <<now, counts, violations, memory, redisErrors, admitted>>

\* Redis fails in one of them: InMemoryLimiter.RecordViolation, whose first
\* violation only opens the record.
FallbackViolation(r) ==
    /\ request[r].pc \in {"violation", "block"}
    /\ RedisFails
    /\ memory' = [memory EXCEPT
           !.violations = IF @ < BlockThreshold THEN @ + 1 ELSE @,
           !.blocked = @ \/ (memory.violations > 0 /\ memory.violations + 1 >= BlockThreshold)]
    /\ Goto(r, "idle")
    /\ UNCHANGED <<now, counts, violations, blocked, admitted, slipped>>

\* Time passes; the last tick of a window makes every window one older.
LimiterTick ==
    /\ now' = (now + 1) % TicksPerWindow
    /\ IF now' > 0
       THEN UNCHANGED <<counts, memory, request, admitted>>
       ELSE /\ counts' = [age \in 0 .. 1 |-> IF age = 0 THEN 0 ELSE counts[0]]
            /\ memory' = [memory EXCEPT !.age = Older(@), !.prevAge = Older(@)]
            /\ request' = [r \in Requests |->
                   IF request[r].pc = "incr" THEN [request[r] EXCEPT !.age = Older(@)]
                   ELSE request[r]]
            /\ admitted' = 0
    /\ UNCHANGED <<violations, blocked, redisErrors, slipped>>

\* BlockDuration is over, in Redis and in memory.
BlockExpires ==
    /\ \/ blocked /\ blocked' = FALSE /\ slipped' = 0 /\ UNCHANGED memory
       \/ /\ memory.blocked
          /\ memory' = [memory EXCEPT !.blocked = FALSE]
          /\ UNCHANGED <<blocked, slipped>>
    /\ UNCHANGED <<now, counts, violations, request, redisErrors, admitted>>

\* cleanup: entries whose window began more than two windows ago are dropped.
Cleanup ==
    LET old(age) == age * TicksPerWindow + now > 2 * TicksPerWindow IN
    /\ memory' = [memory EXCEPT !.count = IF old(memory.age) THEN 0 ELSE @,
                                !.prev = IF old(memory.prevAge) THEN 0 ELSE @]
    /\ memory' # memory
    /\ UNCHANGED <<now, counts, violations, blocked, request, redisErrors, admitted, slipped>>

\* The steps of Check.
Check(r) ==
    \/ CheckBlocked(r)
    \/ ReadWindows(r) \/ IncrWindow(r) \/ FallbackAllow(r)
    \/ RecordViolation(r) \/ blockIP(r) \/ FallbackViolation(r)

LimiterNext ==
    \/ \E r \in Requests : Check(r)
    \/ LimiterTick \/ BlockExpires \/ Cleanup

-----------------------------------------------------------------------------
\* However requests race, a window admits no more than Limit requests through
\* Redis but for those that read the counter together, and no more than Limit
\* through the fallback; a blocked client gets in with the requests that were
\* past the look-up only, unless Redis failed and the fallback knew of no block.
AdmissionsBounded ==
    /\ \A age \in 0 .. 1 : counts[age] <= Limit + Cardinality(Requests) - 1
    /\ admitted <= Limit
    /\ (blocked /\ redisErrors = 0) => slipped < Cardinality(Requests)
=============================================================================
