------------------------ MODULE SharedPackagesProofs ------------------------
(***************************************************************************)
(* Proofs about the packages of SharedPackages, for every number of         *)
(* callers, clients, requests and connections and every threshold.          *)
(*                                                                         *)
(* A package takes its own steps only (StepOfEach), so each invariant is    *)
(* proved from the actions of its own package.                              *)
(***************************************************************************)
EXTENDS SharedPackages, DataLemmas

\* A step of the composition is a step of each package or leaves it alone.
LEMMA StepOfEach ==
    ASSUME [PackagesNext]_packageVars
    PROVE  /\ [BreakerNext]_breakerVars
           /\ [LockNext]_lockVars
           /\ [LimiterNext]_limiterVars
           /\ [MigrationNext]_migrationVars
           /\ [PoolNext]_poolVars
           /\ [ShutdownNext]_shutdownVars
BY DEF PackagesNext, packageVars, OthersStay

-----------------------------------------------------------------------------
(* The circuit breaker. *)

\* While no late failure has reopened the breaker, a probe runs in half-open
\* state only, under the flag, and alone.
ProbeAlone ==
    /\ running \in [Callers -> {"none", "executeClosed", "executeProbe"}]
    /\ \/ lateFailure = TRUE
       \/ /\ lateFailure = FALSE
          /\ Probing # {} => state = StateHalfOpen /\ probeInFlight = TRUE
          /\ \A c, d \in Probing : c = d

\* A step of a caller changes nothing of the other callers.
LEMMA ProbingAfter ==
    ASSUME running \in [Callers -> {"none", "executeClosed", "executeProbe"}],
           NEW c \in Callers, NEW branch \in {"none", "executeClosed", "executeProbe"},
           running' = [running EXCEPT ![c] = branch]
    PROVE  /\ running' \in [Callers -> {"none", "executeClosed", "executeProbe"}]
           /\ branch = "executeProbe" => Probing' = Probing \cup {c}
           /\ branch # "executeProbe" => Probing' = Probing \ {c}
BY DEF Probing

LEMMA BreakerStep == ProbeAlone /\ [BreakerNext]_breakerVars => ProbeAlone'
<1> SUFFICES ASSUME ProbeAlone, [BreakerNext]_breakerVars PROVE ProbeAlone'
  OBVIOUS
<1> USE DEF StateClosed, StateOpen, StateHalfOpen
<1>1. CASE UNCHANGED breakerVars
  BY <1>1 DEF ProbeAlone, Probing, breakerVars
<1>2. ASSUME NEW c \in Callers, ExecuteInClosed(c) PROVE ProbeAlone'
  <2>1. Probing' = Probing /\ running' \in [Callers -> {"none", "executeClosed", "executeProbe"}]
    BY <1>2 DEF ExecuteInClosed, ProbeAlone, Probing
  <2> QED
    BY <1>2, <2>1 DEF ExecuteInClosed, ProbeAlone
<1>3. ASSUME NEW c \in Callers, ExecuteAsProbe(c) PROVE ProbeAlone'
  <2>1. /\ Probing' = Probing \cup {c}
        /\ running' \in [Callers -> {"none", "executeClosed", "executeProbe"}]
    BY <1>3, ProbingAfter DEF ExecuteAsProbe, ProbeAlone
  <2>2. lateFailure' = lateFailure /\ state' = StateHalfOpen /\ probeInFlight' = TRUE
    BY <1>3 DEF ExecuteAsProbe, transition
  <2>3. lateFailure = FALSE => Probing = {}
    BY <1>3 DEF ExecuteAsProbe, ProbeAlone
  <2> QED
    BY <2>1, <2>2, <2>3 DEF ProbeAlone
<1>4. ASSUME NEW c \in Callers, NEW err, executeClosed(c, err) PROVE ProbeAlone'
  <2>1. Probing' = Probing /\ running' \in [Callers -> {"none", "executeClosed", "executeProbe"}]
    BY <1>4 DEF executeClosed, ProbeAlone, Probing
  <2>2. CASE UNCHANGED <<state, probeInFlight, lateFailure>>
    BY <2>1, <2>2 DEF ProbeAlone
  <2>3. CASE state # StateOpen /\ lateFailure' = (lateFailure \/ (state # StateOpen /\ Probing # {}))
    BY <2>1, <2>3 DEF ProbeAlone
  <2>4. CASE /\ state = StateOpen /\ state' = StateOpen /\ probeInFlight' = probeInFlight
             /\ lateFailure' = (lateFailure \/ (state # StateOpen /\ Probing # {}))
    BY <2>1, <2>4 DEF ProbeAlone
  <2> QED
    BY <1>4, <2>2, <2>3, <2>4 DEF executeClosed, transition
<1>5. ASSUME NEW c \in Callers, NEW err, executeProbe(c, err) PROVE ProbeAlone'
  <2>1. /\ Probing' = Probing \ {c} /\ c \in Probing
        /\ running' \in [Callers -> {"none", "executeClosed", "executeProbe"}]
    BY <1>5, ProbingAfter DEF executeProbe, ProbeAlone, Probing
  <2>2. lateFailure' = lateFailure
    BY <1>5 DEF executeProbe
  <2> QED
    BY <2>1, <2>2 DEF ProbeAlone
<1>6. ASSUME NEW c \in Callers, Panic(c) PROVE ProbeAlone'
  <2>1. /\ Probing' = Probing \ {c}
        /\ running' \in [Callers -> {"none", "executeClosed", "executeProbe"}]
    BY <1>6, ProbingAfter DEF Panic, ProbeAlone
  <2> QED
    BY <1>6, <2>1 DEF Panic, ProbeAlone
<1>7. CASE GetState \/ TimerFires \/ Heal
  <2>1. Probing' = Probing /\ running' = running /\ lateFailure' = lateFailure
        /\ probeInFlight' = probeInFlight
    BY <1>7 DEF GetState, TimerFires, Heal, Probing
  <2>2. state' = state \/ state = StateOpen
    BY <1>7 DEF GetState, TimerFires, Heal
  <2> QED
    BY <2>1, <2>2 DEF ProbeAlone
<1> QED
  BY <1>1, <1>2, <1>3, <1>4, <1>5, <1>6, <1>7 DEF BreakerNext, Answer

\* A service that may just have recovered gets one request at a time: whatever
\* the order in which calls start, answer late, fail or panic, two probes run
\* together only after a failure that was admitted in closed state has
\* reopened the breaker under a running probe (Execute of circuitbreaker.go).
THEOREM OneProbeAtATime == PackagesSpec => []OneProbe
<1>1. PackagesInit => ProbeAlone
  BY DEF PackagesInit, BreakerInit, ProbeAlone, Probing
<1>2. ProbeAlone => OneProbe
  <2> SUFFICES ASSUME ProbeAlone, lateFailure = FALSE PROVE Cardinality(Probing) <= 1
    BY DEF ProbeAlone, OneProbe
  <2>1. CASE Probing = {}
    BY <2>1, FS_EmptySet
  <2>2. CASE Probing # {}
    <3>1. PICK c : Probing = {c}
      BY <2>2 DEF ProbeAlone
    <3> QED
      BY <3>1, FS_Singleton
  <2> QED
    BY <2>1, <2>2
<1>3. ProbeAlone /\ [PackagesNext]_packageVars => ProbeAlone'
  BY BreakerStep, StepOfEach
<1> QED
  BY <1>1, <1>2, <1>3, PTL DEF PackagesSpec

-----------------------------------------------------------------------------
(* The distributed lock. *)

ClientStates == [pc : {"idle", "try", "setnx", "held"}, token : 0 .. MaxToken,
                 attempt : 0 .. RetryCount]

LockTyped ==
    /\ lockKey \in [owner : LockClients \cup {Nobody}, token : 0 .. MaxToken]
    /\ fencingCounter \in 0 .. MaxToken
    /\ client \in [LockClients -> ClientStates]

\* The property is inductive among the states of the right type: a key that
\* names an owner names no other one.
LockInd == LockTyped /\ HolderOwnsKey

\* What a client becomes that starts an attempt, gives up or goes on.
LEMMA ClientMoves ==
    ASSUME LockTyped, NEW c \in LockClients, NEW s \in ClientStates,
           client' = [client EXCEPT ![c] = s]
    PROVE  /\ client' \in [LockClients -> ClientStates]
           /\ client'[c] = s
           /\ \A d \in LockClients \ {c} : client'[d] = client[d]
BY DEF LockTyped

LEMMA IdleIsState == IdleClient \in ClientStates /\ [IdleClient EXCEPT !.pc = "try"] \in ClientStates
                     /\ IdleClient.pc = "idle" /\ [IdleClient EXCEPT !.pc = "try"].pc = "try"
BY LockAssumption DEF IdleClient, ClientStates

\* A step that leaves the key alone and gives no client the lock.
LEMMA KeyStays ==
    ASSUME LockInd, lockKey' = lockKey, expired \subseteq expired',
           \A d \in LockClients : client'[d].pc = "held" => client'[d] = client[d]
    PROVE  HolderOwnsKey'
BY DEF LockInd, HolderOwnsKey, Owns

\* A refused or failed attempt.
LEMMA AgainMoves ==
    ASSUME LockTyped, NEW c \in LockClients, Again(c)
    PROVE  /\ client' \in [LockClients -> ClientStates]
           /\ client'[c].pc # "held"
           /\ \A d \in LockClients \ {c} : client'[d] = client[d]
<1> DEFINE next == IF client[c].attempt < RetryCount
                   THEN [pc |-> "try", token |-> client[c].token, attempt |-> client[c].attempt + 1]
                   ELSE IdleClient
<1>1. client' = [client EXCEPT ![c] = next]
  BY DEF Again
<1>2. client[c] \in ClientStates
  BY DEF LockTyped
<1>3. next \in ClientStates /\ next.pc # "held"
  <2>1. CASE client[c].attempt < RetryCount
    <3>1. client[c].attempt + 1 \in 0 .. RetryCount
      BY <1>2, <2>1, LockAssumption DEF ClientStates
    <3> QED
      BY <1>2, <2>1, <3>1 DEF ClientStates
  <2>2. CASE ~(client[c].attempt < RetryCount)
    BY <2>2, IdleIsState
  <2> QED
    BY <2>1, <2>2
<1> HIDE DEF next
<1> QED
  BY <1>1, <1>3, ClientMoves

LEMMA LockStep == LockInd /\ [LockNext]_lockVars => LockInd'
<1> SUFFICES ASSUME LockInd, [LockNext]_lockVars PROVE LockTyped' /\ HolderOwnsKey'
  BY DEF LockInd
<1> USE LockAssumption
<1>a. LockTyped /\ \A c \in LockClients : client[c] \in ClientStates
  BY DEF LockInd, LockTyped
<1>1. CASE UNCHANGED lockVars
  BY <1>1, <1>a, KeyStays DEF lockVars, LockTyped
<1>2. ASSUME NEW c \in LockClients, AcquireLockStart(c) PROVE LockTyped' /\ HolderOwnsKey'
  BY <1>2, <1>a, ClientMoves, IdleIsState, KeyStays DEF AcquireLockStart, LockTyped
<1>3. ASSUME NEW c \in LockClients, TakeToken(c) PROVE LockTyped' /\ HolderOwnsKey'
  <2> DEFINE s == [client[c] EXCEPT !.pc = "setnx", !.token = fencingCounter + 1]
  <2>a. fencingCounter + 1 \in 0 .. MaxToken
    BY <1>3, <1>a DEF TakeToken, LockTyped
  <2>1. s \in ClientStates /\ s.pc = "setnx"
    BY <1>a, <2>a DEF ClientStates
  <2>2. client' = [client EXCEPT ![c] = s]
    BY <1>3, <1>a DEF TakeToken, LockTyped, ClientStates
  <2>3. lockKey' = lockKey /\ expired' = expired /\ fencingCounter' = fencingCounter + 1
    BY <1>3 DEF TakeToken
  <2> HIDE DEF s
  <2> QED
    BY <1>a, <2>a, <2>1, <2>2, <2>3, ClientMoves, KeyStays DEF LockTyped
<1>4. ASSUME NEW c \in LockClients, SetNX(c) PROVE LockTyped' /\ HolderOwnsKey'
  <2>1. CASE lockKey = NoLock
    <3> DEFINE s == [client[c] EXCEPT !.pc = "held"]
    <3>1. s \in ClientStates /\ s.token = client[c].token /\ client[c].token \in 0 .. MaxToken
      BY <1>a DEF ClientStates
    <3>2. client' = [client EXCEPT ![c] = s]
      BY <1>4, <1>a, <2>1 DEF SetNX, LockTyped, ClientStates
    <3>3. /\ lockKey' = [owner |-> c, token |-> client[c].token]
          /\ expired' = expired \ {c}
          /\ fencingCounter' = fencingCounter
      BY <1>4, <2>1 DEF SetNX
    <3> HIDE DEF s
    <3>4. /\ client' \in [LockClients -> ClientStates]
          /\ client'[c] = s
          /\ \A d \in LockClients \ {c} : client'[d] = client[d]
      BY <1>a, <3>1, <3>2, ClientMoves
    <3>5. \A d \in LockClients : client[d].pc = "held" => d \in expired
      BY <2>1 DEF LockInd, HolderOwnsKey, Owns, NoLock
    <3>6. HolderOwnsKey'
      BY <3>1, <3>3, <3>4, <3>5 DEF HolderOwnsKey, Owns
    <3> QED
      BY <1>a, <3>1, <3>3, <3>4, <3>6 DEF LockTyped
  <2>2. CASE lockKey # NoLock
    BY <1>4, <1>a, <2>2, AgainMoves, KeyStays DEF SetNX, LockTyped
  <2> QED
    BY <2>1, <2>2
<1>5. ASSUME NEW c \in LockClients, AcquireFails(c) PROVE LockTyped' /\ HolderOwnsKey'
  <2>1. Again(c) /\ fencingCounter' = fencingCounter /\ expired' = expired
    BY <1>5 DEF AcquireFails
  <2>2. CASE lockKey' = lockKey
    BY <1>a, <2>1, <2>2, AgainMoves, KeyStays DEF LockTyped
  <2>3. CASE lockKey = NoLock /\ lockKey' = [owner |-> c, token |-> client[c].token]
    <3>1. \A d \in LockClients : client[d].pc = "held" => d \in expired
      BY <2>3 DEF LockInd, HolderOwnsKey, Owns, NoLock
    <3>2. HolderOwnsKey'
      BY <1>a, <2>1, <3>1, AgainMoves DEF HolderOwnsKey
    <3> QED
      BY <1>a, <2>1, <2>3, <3>2, AgainMoves DEF LockTyped, ClientStates
  <2> QED
    BY <1>5, <2>2, <2>3 DEF AcquireFails
<1>6. ASSUME NEW c \in LockClients, AcquireCancelled(c) \/ ReleaseFails(c) PROVE LockTyped' /\ HolderOwnsKey'
  BY <1>6, <1>a, ClientMoves, IdleIsState, KeyStays DEF AcquireCancelled, ReleaseFails, LockTyped
<1>7. ASSUME NEW c \in LockClients, ReleaseLockKey(c) PROVE LockTyped' /\ HolderOwnsKey'
  <2>1. /\ client' \in [LockClients -> ClientStates]
        /\ client'[c].pc = "idle"
        /\ \A d \in LockClients \ {c} : client'[d] = client[d]
    BY <1>7, <1>a, ClientMoves, IdleIsState DEF ReleaseLockKey
  <2>2. fencingCounter' = fencingCounter /\ expired' = expired
        /\ lockKey' = IF Owns(c) THEN NoLock ELSE lockKey
    BY <1>7 DEF ReleaseLockKey
  <2>3. Owns(c) => \A d \in LockClients \ {c} : ~Owns(d)
    BY DEF Owns
  <2>4. HolderOwnsKey'
    BY <2>1, <2>2, <2>3 DEF LockInd, HolderOwnsKey, Owns
  <2> QED
    BY <1>a, <2>1, <2>2, <2>4 DEF LockTyped, NoLock
<1>8. ASSUME NEW c \in LockClients, ExtendLock(c) PROVE LockTyped' /\ HolderOwnsKey'
  <2>1. client' = client \/ client' = [client EXCEPT ![c] = IdleClient]
    BY <1>8 DEF ExtendLock
  <2>2. lockKey' = lockKey /\ fencingCounter' = fencingCounter /\ expired' = expired
    BY <1>8 DEF ExtendLock
  <2> QED
    BY <1>a, <2>1, <2>2, ClientMoves, IdleIsState, KeyStays DEF LockTyped
<1>9. CASE LockAges
  BY <1>9, <1>a, KeyStays DEF LockAges, LockTyped
<1>10. CASE TTLPasses
  <2>1. /\ lockKey' = NoLock /\ expired' = expired \cup {lockKey.owner}
        /\ fencingCounter' = fencingCounter /\ client' = client
    BY <1>10 DEF TTLPasses
  <2>2. \A d \in LockClients : Owns(d) => lockKey.owner = d
    BY DEF Owns
  <2>3. HolderOwnsKey'
    BY <2>1, <2>2 DEF LockInd, HolderOwnsKey
  <2> QED
    BY <1>a, <2>1, <2>3 DEF LockTyped, NoLock
<1> QED
  BY <1>1, <1>2, <1>3, <1>4, <1>5, <1>6, <1>7, <1>8, <1>9, <1>10 DEF LockNext

\* A client that got the lock and whose TTL has not passed owns the key, for any
\* number of clients, attempts and tokens: no release, extension, retry or lost
\* answer of another client takes it away (tryAcquire, Release and Extend of
\* pkg/lock).
THEOREM HoldersOwnTheKey == PackagesSpec => []HolderOwnsKey
<1>1. PackagesInit => LockInd
  <2> SUFFICES ASSUME LockInit PROVE LockTyped /\ HolderOwnsKey
    BY DEF PackagesInit, LockInd
  <2>1. LockTyped
    BY LockAssumption, IdleIsState DEF LockInit, LockTyped, NoLock
  <2>2. \A c \in LockClients : client[c].pc = "idle"
    BY DEF LockInit, IdleClient
  <2> QED
    BY <2>1, <2>2 DEF HolderOwnsKey
<1>2. LockInd /\ [PackagesNext]_packageVars => LockInd'
  BY LockStep, StepOfEach
<1>3. LockInd => HolderOwnsKey
  BY DEF LockInd
<1> QED
  BY <1>1, <1>2, <1>3, PTL DEF PackagesSpec

-----------------------------------------------------------------------------
(* The connection limiter. *)

\* Until a connection is released twice, no Release is about to clamp the
\* counter; a value that was loaded and may be swapped in is below the limit.
PoolInd ==
    /\ current \in Int
    /\ conn \in [Conns -> {"new", "loaded", "registering", "open", "reaped", "closed"}]
    /\ loaded \in [Conns -> Int]
    /\ extra \in Nat
    /\ IsFiniteSet(Accepted)
    /\ \A c \in Conns : conn[c] = "loaded" => loaded[c] < MaxConnections
    /\ extra = 0 => clamping = {} /\ current = Cardinality(Accepted) /\ current <= MaxConnections

\* What a step does to the number of accepted connections.
LEMMA AcceptedMoves ==
    ASSUME PoolInd, NEW c \in Conns, NEW s \in {"new", "loaded", "registering", "open", "reaped", "closed"},
           conn' = [conn EXCEPT ![c] = s]
    PROVE  /\ conn' \in [Conns -> {"new", "loaded", "registering", "open", "reaped", "closed"}]
           /\ conn'[c] = s
           /\ \A d \in Conns \ {c} : conn'[d] = conn[d]
           /\ IsFiniteSet(Accepted') /\ Cardinality(Accepted) \in Nat
           /\ (c \in Accepted <=> s \in {"registering", "open"}) => Accepted' = Accepted
           /\ c \notin Accepted /\ s \in {"registering", "open"}
                => Cardinality(Accepted') = Cardinality(Accepted) + 1
           /\ c \in Accepted /\ s \notin {"registering", "open"}
                => Cardinality(Accepted') = Cardinality(Accepted) - 1
<1>1. /\ conn' \in [Conns -> {"new", "loaded", "registering", "open", "reaped", "closed"}]
      /\ conn'[c] = s
      /\ \A d \in Conns \ {c} : conn'[d] = conn[d]
  BY DEF PoolInd
<1>2. Accepted' = IF s \in {"registering", "open"} THEN Accepted \cup {c} ELSE Accepted \ {c}
  BY <1>1 DEF Accepted
<1>3. IsFiniteSet(Accepted) /\ Cardinality(Accepted) \in Nat
  BY FS_CardinalityType DEF PoolInd
<1>4. /\ IsFiniteSet(Accepted \cup {c}) /\ IsFiniteSet(Accepted \ {c})
      /\ c \notin Accepted => Cardinality(Accepted \cup {c}) = Cardinality(Accepted) + 1
      /\ c \in Accepted => Cardinality(Accepted \ {c}) = Cardinality(Accepted) - 1
  BY <1>3, FS_AddElement, FS_RemoveElement
<1>5. (c \in Accepted <=> s \in {"registering", "open"}) => Accepted' = Accepted
  BY <1>2
<1>6. c \notin Accepted /\ s \in {"registering", "open"} => Accepted' = Accepted \cup {c}
  BY <1>2
<1>7. c \in Accepted /\ s \notin {"registering", "open"} => Accepted' = Accepted \ {c}
  BY <1>2
<1>8. IsFiniteSet(Accepted')
  BY <1>2, <1>4
<1> QED
  BY <1>1, <1>3, <1>4, <1>5, <1>6, <1>7, <1>8

\* Release, whoever calls it: the first one of a connection lowers the counter
\* and the number together.
LEMMA ReleaseConnInd ==
    ASSUME PoolInd, NEW c \in Conns, NEW then \in {"reaped", "closed"}, ReleaseConn(c, then)
    PROVE  PoolInd'
<1>1. /\ conn' \in [Conns -> {"new", "loaded", "registering", "open", "reaped", "closed"}]
      /\ conn'[c] = then
      /\ \A d \in Conns \ {c} : conn'[d] = conn[d]
      /\ IsFiniteSet(Accepted') /\ Cardinality(Accepted) \in Nat
      /\ c \in Accepted => Cardinality(Accepted') = Cardinality(Accepted) - 1
  BY AcceptedMoves DEF ReleaseConn
<1>2. Cardinality(Accepted') \in Nat
  BY <1>1, FS_CardinalityType
<1>3. /\ current' = current - 1 /\ loaded' = loaded
      /\ clamping' = IF current - 1 < 0 THEN clamping \cup {c} ELSE clamping
      /\ extra' = IF c \in Accepted THEN extra ELSE extra + 1
  BY DEF ReleaseConn
<1>4. current' \in Int /\ extra' \in Nat /\ loaded' \in [Conns -> Int]
  BY <1>3 DEF PoolInd
<1>5. \A d \in Conns : conn'[d] = "loaded" => loaded'[d] < MaxConnections
  BY <1>1, <1>3 DEF PoolInd
<1>6. ASSUME extra' = 0
      PROVE  clamping' = {} /\ current' = Cardinality(Accepted') /\ current' <= MaxConnections
  <2>1. c \in Accepted /\ extra = 0
    BY <1>3, <1>6 DEF PoolInd
  <2> QED
    BY <1>1, <1>2, <1>3, <2>1, PoolAssumption DEF PoolInd
<1> QED
  BY <1>1, <1>4, <1>5, <1>6 DEF PoolInd

LEMMA PoolStep == PoolInd /\ [PoolNext]_poolVars => PoolInd'
<1> SUFFICES ASSUME PoolInd, [PoolNext]_poolVars PROVE PoolInd'
  OBVIOUS
<1> USE PoolAssumption
<1>1. CASE UNCHANGED <<current, conn, loaded, clamping, extra>>
  <2>1. Accepted' = Accepted
    BY <1>1 DEF Accepted
  <2> QED
    BY <1>1, <2>1 DEF PoolInd
<1>2. ASSUME NEW c \in Conns, LoadCurrent(c) PROVE PoolInd'
  <2>1. c \notin Accepted
    BY <1>2 DEF LoadCurrent, Accepted
  <2>a. PICK s : s = IF current >= MaxConnections THEN "closed" ELSE "loaded"
    OBVIOUS
  <2>2. s \in {"loaded", "closed"} /\ (s = "loaded" => current < MaxConnections)
    BY <2>a DEF PoolInd
  <2>b. conn' = [conn EXCEPT ![c] = s]
    BY <1>2, <2>a DEF LoadCurrent
  <2>3. /\ loaded' = [loaded EXCEPT ![c] = current]
        /\ current' = current /\ clamping' = clamping /\ extra' = extra
    BY <1>2 DEF LoadCurrent
  <2>4. loaded' \in [Conns -> Int] /\ loaded'[c] = current /\ \A d \in Conns \ {c} : loaded'[d] = loaded[d]
    BY <2>3 DEF PoolInd
  <2>5. /\ conn' \in [Conns -> {"new", "loaded", "registering", "open", "reaped", "closed"}]
        /\ conn'[c] = s
        /\ \A d \in Conns \ {c} : conn'[d] = conn[d]
        /\ Accepted' = Accepted
    BY <2>1, <2>2, <2>b, AcceptedMoves
  <2> QED
    BY <2>2, <2>3, <2>4, <2>5 DEF PoolInd
<1>3. ASSUME NEW c \in Conns, CompareAndSwap(c) PROVE PoolInd'
  <2>1. c \notin Accepted /\ conn[c] = "loaded"
    BY <1>3 DEF CompareAndSwap, Accepted
  <2>2. loaded' = loaded /\ clamping' = clamping /\ extra' = extra
    BY <1>3 DEF CompareAndSwap
  <2>3. CASE current = loaded[c]
    <3>1. current' = current + 1 /\ conn' = [conn EXCEPT ![c] = "registering"]
      BY <1>3, <2>3 DEF CompareAndSwap
    <3>2. /\ conn' \in [Conns -> {"new", "loaded", "registering", "open", "reaped", "closed"}]
          /\ conn'[c] = "registering"
          /\ \A d \in Conns \ {c} : conn'[d] = conn[d]
          /\ IsFiniteSet(Accepted') /\ Cardinality(Accepted) \in Nat
          /\ Cardinality(Accepted') = Cardinality(Accepted) + 1
      BY <2>1, <3>1, AcceptedMoves
    <3>3. current < MaxConnections
      BY <2>1, <2>3 DEF PoolInd
    <3> QED
      BY <2>2, <3>1, <3>2, <3>3 DEF PoolInd
  <2>4. CASE current # loaded[c]
    <3>1. current' = current /\ conn' = [conn EXCEPT ![c] = "new"]
      BY <1>3, <2>4 DEF CompareAndSwap
    <3>2. /\ conn' \in [Conns -> {"new", "loaded", "registering", "open", "reaped", "closed"}]
          /\ conn'[c] = "new"
          /\ \A d \in Conns \ {c} : conn'[d] = conn[d]
          /\ Accepted' = Accepted
      BY <2>1, <3>1, AcceptedMoves
    <3> QED
      BY <2>2, <3>1, <3>2 DEF PoolInd
  <2> QED
    BY <2>3, <2>4
<1>4. ASSUME NEW c \in Conns, RecordHeartbeat(c) PROVE PoolInd'
  <2>1. c \in Accepted /\ conn' = [conn EXCEPT ![c] = "open"]
    BY <1>4 DEF RecordHeartbeat, Accepted
  <2>2. current' = current /\ loaded' = loaded /\ clamping' = clamping /\ extra' = extra
    BY <1>4 DEF RecordHeartbeat
  <2>3. /\ conn' \in [Conns -> {"new", "loaded", "registering", "open", "reaped", "closed"}]
        /\ conn'[c] = "open"
        /\ \A d \in Conns \ {c} : conn'[d] = conn[d]
        /\ Accepted' = Accepted
    BY <2>1, AcceptedMoves
  <2> QED
    BY <2>2, <2>3 DEF PoolInd
<1>5. ASSUME NEW c \in Conns, GoesSilent(c) \/ TimedOutConnections PROVE PoolInd'
  BY <1>1, <1>5 DEF GoesSilent, TimedOutConnections
<1>6. ASSUME NEW c \in Conns, HandlerReleases(c) \/ ReaperReleases(c) PROVE PoolInd'
  <2>1. \E then \in {"reaped", "closed"} : ReleaseConn(c, then)
    BY <1>6 DEF HandlerReleases, ReaperReleases
  <2> QED
    BY <2>1, ReleaseConnInd
<1>7. ASSUME NEW c \in Conns, ClampAtZero(c) PROVE PoolInd'
  <2>1. extra # 0 /\ current' = 0
    BY <1>7 DEF ClampAtZero, PoolInd
  <2>2. Accepted' = Accepted /\ conn' = conn /\ loaded' = loaded /\ extra' = extra
    BY <1>7 DEF ClampAtZero, Accepted
  <2> QED
    BY <2>1, <2>2 DEF PoolInd
<1>8. CASE UNCHANGED poolVars
  BY <1>1, <1>8 DEF poolVars
<1>9. CASE TimedOutConnections
  BY <1>1, <1>9 DEF TimedOutConnections
<1> QED
  BY <1>2, <1>3, <1>4, <1>5, <1>6, <1>7, <1>8, <1>9 DEF PoolNext

\* The counter is the number of accepted connections and never above the limit,
\* for any number of connections and any limit: TryAccept and Release of
\* pkg/pool/websocket.go lose no update, as long as no connection is released
\* by both its handler and the reaper.
THEOREM ConnectionsAreCounted == PackagesSpec => []ConnectionsCounted
<1>1. PackagesInit => PoolInd
  <2> SUFFICES ASSUME PoolInit PROVE PoolInd
    BY DEF PackagesInit
  <2>1. Accepted = {}
    BY DEF PoolInit, Accepted
  <2> QED
    BY <2>1, FS_EmptySet, PoolAssumption DEF PoolInit, PoolInd
<1>2. PoolInd /\ [PackagesNext]_packageVars => PoolInd'
  BY PoolStep, StepOfEach
<1>3. PoolInd => ConnectionsCounted
  BY DEF PoolInd, ConnectionsCounted
<1> QED
  BY <1>1, <1>2, <1>3, PTL DEF PackagesSpec

-----------------------------------------------------------------------------
(* The migration runner. *)

MigrationTyped ==
    /\ schema \subseteq Versions /\ todo \subseteq Versions /\ applied \subseteq Versions
    /\ before \subseteq Versions /\ left \subseteq Versions
    /\ records \in [Versions -> {"none", "dirty", "clean"}]
    /\ runner \in {"apply", "clean", "forget", "unrecord"} => at \in Versions

\* Of the versions whose record was true when the call began, those of S are in
\* the database, but for the one that failed, and those of S are recorded as
\* clean.
SchemaIs(S) == \A v \in Versions : v \in unsure \cup left \/ (v \in schema <=> v \in S)

CleanIs(S) == \A v \in Versions : v \in unsure \/ (records[v] = "clean" <=> v \in S)

\* No version of S, but for the unsure ones, was there before this call.
New(S) == \A v \in S : v \in unsure \/ v \notin before

\* What Up has done so far and what it still has to do or to undo, in each of
\* its steps.
UpSoFar ==
    LET made == before \cup applied IN
    CASE runner = "next" ->
           /\ SchemaIs(made) /\ CleanIs(made) /\ New(applied) /\ New(todo)
           /\ todo \cap applied \subseteq unsure /\ left = {}
      [] runner = "apply" ->
           /\ SchemaIs(made) /\ CleanIs(made) /\ New(applied) /\ New(todo) /\ New({at})
           /\ (todo \cup {at}) \cap applied \subseteq unsure
           /\ at \in Versions \ todo /\ left = {}
      [] runner = "clean" ->
           /\ SchemaIs(made \cup {at}) /\ CleanIs(made) /\ New(applied) /\ New(todo) /\ New({at})
           /\ (todo \cup {at}) \cap applied \subseteq unsure
           /\ at \in Versions \ todo /\ left = {}
      [] runner = "rollback" ->
           SchemaIs(made) /\ CleanIs(made) /\ New(applied)
      [] runner = "forget" ->
           /\ SchemaIs(made) /\ CleanIs(made \cup {at}) /\ New(applied) /\ New({at})
           /\ at \in Versions \ applied
      [] runner = "failed" ->
           SchemaIs(before) /\ CleanIs(before)
      [] OTHER -> TRUE

MigrationInd == MigrationTyped /\ (slip = TRUE \/ (slip = FALSE /\ UpSoFar))

\* The version Up or a rollback picks.
LEMMA VersionPicked ==
    ASSUME MigrationTyped
    PROVE  /\ todo # {} => Min(todo) \in todo /\ Max(todo) \in todo
           /\ applied # {} => Max(applied) \in applied
<1>1. \A S \in SUBSET Versions : S \in SUBSET Nat /\ IsFiniteSet(S)
  BY MigrationAssumption, FS_Subset
<1> QED
  BY <1>1, MinOfNaturals, MaxOfNaturals DEF MigrationTyped

LEMMA MigrationStep == MigrationInd /\ [MigrationNext]_migrationVars => MigrationInd'
<1> SUFFICES ASSUME MigrationInd, [MigrationNext]_migrationVars PROVE MigrationInd'
  OBVIOUS
<1>a. MigrationTyped
  BY DEF MigrationInd
<1>1. CASE UNCHANGED migrationVars
  BY <1>1 DEF migrationVars, MigrationInd, MigrationTyped, UpSoFar, SchemaIs, CleanIs, New
<1>2. CASE MigrateUp
  <2>1. MigrationTyped'
    BY <1>2, <1>a DEF MigrateUp, MigrationTyped
  <2>2. /\ runner' = "next" /\ todo' = Versions \ Recorded("clean") /\ applied' = {}
        /\ before' = schema /\ unsure' = Misrecorded /\ left' = {} /\ slip' = FALSE
        /\ schema' = schema /\ records' = records
    BY <1>2 DEF MigrateUp
  <2>3. SchemaIs(before \cup applied)' /\ CleanIs(before \cup applied)'
    BY <2>2 DEF SchemaIs, CleanIs, Misrecorded
  <2>4. New(applied)' /\ New(todo)' /\ (todo \cap applied \subseteq unsure)'
    BY <2>2 DEF New, Misrecorded, Recorded
  <2> QED
    BY <2>1, <2>2, <2>3, <2>4 DEF MigrationInd, UpSoFar
<1>3. CASE MarkDirty
  <2>1. CASE todo = {}
    BY <1>3, <1>a, <2>1 DEF MarkDirty, migrationHistory, MigrationInd, MigrationTyped, UpSoFar
  <2>2. CASE todo # {}
    <3>1. PICK m \in todo : m = Min(todo)
      BY <1>a, <2>2, VersionPicked
    <3>2. /\ runner = "next" /\ at' = m /\ todo' = todo \ {m} /\ runner' = "apply"
          /\ records' = [records EXCEPT ![m] = "dirty"]
          /\ UNCHANGED <<schema, applied, before, unsure, left, slip>>
      BY <1>3, <2>2, <3>1 DEF MarkDirty, migrationHistory
    <3>3. MigrationTyped'
      BY <1>a, <3>2 DEF MigrationTyped
    <3>4. m \in Versions /\ \A v \in Versions : records'[v] = IF v = m THEN "dirty" ELSE records[v]
      BY <1>a, <3>2 DEF MigrationTyped
    <3>5. CASE slip = FALSE
      <4>1. /\ SchemaIs(before \cup applied) /\ CleanIs(before \cup applied)
            /\ New(applied) /\ New(todo) /\ todo \cap applied \subseteq unsure
            /\ left = {}
        BY <3>2, <3>5 DEF MigrationInd, UpSoFar
      <4>2. SchemaIs(before \cup applied)' /\ New(applied)' /\ New(todo)' /\ New({at})'
        BY <3>2, <4>1 DEF SchemaIs, New
      <4>3. CleanIs(before \cup applied)'
        BY <3>2, <3>4, <4>1 DEF CleanIs, New
      <4>4. ((todo \cup {at}) \cap applied \subseteq unsure)' /\ (at \in Versions \ todo)'
        BY <3>2, <3>4, <4>1
      <4> QED
        BY <3>2, <3>3, <3>5, <4>2, <4>3, <4>4 DEF MigrationInd, UpSoFar
    <3> QED
      BY <3>2, <3>3, <3>5 DEF MigrationInd
  <2> QED
    BY <2>1, <2>2
<1>4. CASE UpTimesOut
  BY <1>4 DEF UpTimesOut, migrationHistory, MigrationInd, MigrationTyped, UpSoFar, SchemaIs, CleanIs, New
<1>5. CASE RunUp
  <2>1. /\ runner = "apply" /\ runner' = "clean" /\ schema' = schema \cup {at}
        /\ UNCHANGED <<records, at, todo, applied, before, unsure, left, slip>>
    BY <1>5 DEF RunUp, migrationHistory
  <2>2. CASE slip = FALSE
    <3>1. /\ SchemaIs(before \cup applied) /\ CleanIs(before \cup applied)
          /\ New(applied) /\ New(todo) /\ New({at})
          /\ (todo \cup {at}) \cap applied \subseteq unsure /\ at \in Versions \ todo
          /\ left = {}
      BY <2>1, <2>2 DEF MigrationInd, UpSoFar
    <3>2. SchemaIs(before \cup applied \cup {at})' /\ CleanIs(before \cup applied)'
      BY <2>1, <3>1 DEF SchemaIs, CleanIs
    <3>3. New(applied)' /\ New(todo)' /\ New({at})'
      BY <2>1, <3>1 DEF New
    <3>4. MigrationTyped'
      BY <1>a, <2>1, <3>1 DEF MigrationTyped
    <3> QED
      BY <2>1, <2>2, <3>1, <3>2, <3>3, <3>4 DEF MigrationInd, UpSoFar
  <2> QED
    BY <1>a, <2>1, <2>2 DEF MigrationInd, MigrationTyped
<1>6. CASE UpFails
  <2>1. /\ runner = "apply" /\ runner' = "rollback"
        /\ schema' \in {schema, schema \cup {at}} /\ left' = {at}
        /\ UNCHANGED <<at, todo, applied, before, unsure>>
    BY <1>6 DEF UpFails
  <2>2. CASE slip' = TRUE /\ records' \in {records, [records EXCEPT ![at] = "none"]}
    BY <1>a, <2>1, <2>2 DEF MigrationInd, MigrationTyped
  <2>3. CASE slip' = slip /\ records' = [records EXCEPT ![at] = "none"]
    <3>1. MigrationTyped'
      BY <1>a, <2>1, <2>3 DEF MigrationTyped
    <3>2. CASE slip = FALSE
      <4>1. /\ SchemaIs(before \cup applied) /\ CleanIs(before \cup applied)
            /\ New(applied) /\ New({at})
            /\ (todo \cup {at}) \cap applied \subseteq unsure /\ at \in Versions
            /\ left = {}
        BY <2>1, <3>2 DEF MigrationInd, UpSoFar
      <4>2. \A v \in Versions : records'[v] = IF v = at THEN "none" ELSE records[v]
        BY <1>a, <2>3, <4>1 DEF MigrationTyped
      <4>3. SchemaIs(before \cup applied)' /\ New(applied)'
        BY <2>1, <4>1 DEF SchemaIs, New
      <4>4. CleanIs(before \cup applied)'
        BY <2>1, <4>1, <4>2 DEF CleanIs, New
      <4> QED
        BY <2>1, <2>3, <3>1, <3>2, <4>3, <4>4 DEF MigrationInd, UpSoFar
    <3> QED
      BY <2>3, <3>1, <3>2 DEF MigrationInd
  <2> QED
    BY <1>6, <2>2, <2>3 DEF UpFails
<1>7. CASE MarkClean
  <2>1. /\ runner = "clean" /\ runner' = "next" /\ applied' = applied \cup {at}
        /\ records' = [records EXCEPT ![at] = "clean"]
        /\ UNCHANGED <<schema, at, todo, before, unsure, left, slip>>
    BY <1>7 DEF MarkClean, migrationHistory
  <2>2. MigrationTyped'
    BY <1>a, <2>1 DEF MigrationTyped
  <2>3. CASE slip = FALSE
    <3>1. /\ SchemaIs(before \cup applied \cup {at}) /\ CleanIs(before \cup applied)
          /\ New(applied) /\ New(todo) /\ New({at})
          /\ (todo \cup {at}) \cap applied \subseteq unsure /\ at \in Versions \ todo
          /\ left = {}
      BY <2>1, <2>3 DEF MigrationInd, UpSoFar
    <3>2. \A v \in Versions : records'[v] = IF v = at THEN "clean" ELSE records[v]
      BY <1>a, <2>1, <3>1 DEF MigrationTyped
    <3>3. SchemaIs(before \cup applied)' /\ New(applied)' /\ New(todo)'
      BY <2>1, <3>1 DEF SchemaIs, New
    <3>4. CleanIs(before \cup applied)'
      BY <2>1, <3>1, <3>2 DEF CleanIs
    <3>5. (todo \cap applied \subseteq unsure)'
      BY <2>1, <3>1
    <3> QED
      BY <2>1, <2>2, <2>3, <3>3, <3>4, <3>5 DEF MigrationInd, UpSoFar
  <2> QED
    BY <2>1, <2>2, <2>3 DEF MigrationInd
<1>8. CASE MarkFails \/ MigratorDies
  BY <1>8, <1>a DEF MarkFails, MigratorDies, migrationHistory, MigrationInd, MigrationTyped
<1>13. CASE FinishLate
  <2>1. /\ runner \in {"rollback", "forget", "failed"} /\ schema' = schema \cup left
        /\ UNCHANGED <<records, runner, at, todo, applied, before, unsure, left, slip>>
    BY <1>13 DEF FinishLate, migrationHistory
  <2>2. MigrationTyped'
    BY <1>a, <2>1 DEF MigrationTyped
  <2>3. \A S : SchemaIs(S) => SchemaIs(S)'
    BY <2>1 DEF SchemaIs
  <2>4. \A S : CleanIs(S) <=> CleanIs(S)'
    BY <2>1 DEF CleanIs
  <2> QED
    BY <2>1, <2>2 DEF MigrationInd, UpSoFar, SchemaIs, CleanIs, New
<1>9. CASE rollbackApplied
  <2>1. CASE applied = {}
    <3>1. /\ runner = "rollback" /\ runner' = "failed"
          /\ UNCHANGED <<schema, records, at, todo, applied, before, unsure, left, slip>>
      BY <1>9, <2>1 DEF rollbackApplied, migrationHistory
    <3>2. CASE slip = FALSE
      <4>1. SchemaIs(before \cup applied) /\ CleanIs(before \cup applied)
        BY <3>1, <3>2 DEF MigrationInd, UpSoFar
      <4>2. SchemaIs(before)' /\ CleanIs(before)'
        BY <2>1, <3>1, <4>1 DEF SchemaIs, CleanIs
      <4> QED
        BY <1>a, <3>1, <3>2, <4>2 DEF MigrationInd, MigrationTyped, UpSoFar
    <3> QED
      BY <1>a, <3>1, <3>2 DEF MigrationInd, MigrationTyped
  <2>2. CASE applied # {}
    <3>1. PICK m \in applied : m = Max(applied)
      BY <1>a, <2>2, VersionPicked
    <3>2. /\ runner = "rollback" /\ at' = m /\ applied' = applied \ {m}
          /\ UNCHANGED <<records, todo, before, unsure, left>>
      BY <1>9, <2>2, <3>1 DEF rollbackApplied, migrationHistory
    <3>3. CASE slip' = TRUE /\ runner' = "rollback" /\ schema' \in {schema, schema \ {m}}
      BY <1>a, <3>2, <3>3 DEF MigrationInd, MigrationTyped
    <3>4. CASE slip' = slip /\ runner' = "forget" /\ schema' = schema \ {m}
      <4>1. MigrationTyped'
        BY <1>a, <3>2, <3>4 DEF MigrationTyped
      <4>2. CASE slip = FALSE
        <5>1. SchemaIs(before \cup applied) /\ CleanIs(before \cup applied) /\ New(applied)
          BY <3>2, <4>2 DEF MigrationInd, UpSoFar
        <5>2. SchemaIs(before \cup applied)'
          BY <3>2, <3>4, <5>1 DEF SchemaIs, New
        <5>3. CleanIs(before \cup applied \cup {at})' /\ New(applied)' /\ New({at})'
          BY <3>2, <5>1 DEF CleanIs, New
        <5>4. (at \in Versions \ applied)'
          BY <1>a, <3>2 DEF MigrationTyped
        <5> QED
          BY <3>4, <4>1, <4>2, <5>2, <5>3, <5>4 DEF MigrationInd, UpSoFar
      <4> QED
        BY <3>4, <4>1, <4>2 DEF MigrationInd
    <3> QED
      BY <1>9, <2>2, <3>1, <3>2, <3>3, <3>4 DEF rollbackApplied
  <2> QED
    BY <2>1, <2>2
<1>10. CASE RemoveRecord
  <2>1. /\ runner \in {"forget", "unrecord"}
        /\ UNCHANGED <<schema, at, todo, applied, before, unsure, left>>
    BY <1>10 DEF RemoveRecord, migrationHistory
  <2>2. CASE /\ slip' = TRUE /\ records' \in {records, [records EXCEPT ![at] = "none"]}
             /\ runner' \in {"rollback", "failed"}
    BY <1>a, <2>1, <2>2 DEF MigrationInd, MigrationTyped
  <2>3. CASE /\ slip' = slip /\ records' = [records EXCEPT ![at] = "none"]
             /\ runner' = IF runner = "forget" THEN "rollback" ELSE "down"
    <3>1. MigrationTyped'
      BY <1>a, <2>1, <2>3 DEF MigrationTyped
    <3>2. CASE slip = FALSE /\ runner = "forget"
      <4>1. /\ SchemaIs(before \cup applied) /\ CleanIs(before \cup applied \cup {at})
            /\ New(applied) /\ New({at}) /\ at \in Versions \ applied
        BY <3>2 DEF MigrationInd, UpSoFar
      <4>2. \A v \in Versions : records'[v] = IF v = at THEN "none" ELSE records[v]
        BY <1>a, <2>3, <4>1 DEF MigrationTyped
      <4>3. SchemaIs(before \cup applied)' /\ New(applied)'
        BY <2>1, <4>1 DEF SchemaIs, New
      <4>4. CleanIs(before \cup applied)'
        BY <2>1, <4>1, <4>2 DEF CleanIs, New
      <4> QED
        BY <2>3, <3>1, <3>2, <4>3, <4>4 DEF MigrationInd, UpSoFar
    <3>3. CASE slip = FALSE /\ runner = "unrecord"
      BY <2>3, <3>1, <3>3 DEF MigrationInd, UpSoFar
    <3> QED
      BY <2>1, <2>3, <3>1, <3>2, <3>3 DEF MigrationInd
  <2> QED
    BY <1>10, <2>2, <2>3 DEF RemoveRecord
<1>11. CASE MigrateDown
  <2>1. /\ runner' = "down" /\ applied' = {} /\ before' = schema /\ left' = {} /\ slip' = FALSE
        /\ schema' = schema /\ records' = records /\ todo' \subseteq Versions
    BY <1>11 DEF MigrateDown, Recorded
  <2> QED
    BY <1>a, <2>1 DEF MigrationInd, MigrationTyped, UpSoFar
<1>12. CASE RunDown
  <2>1. UNCHANGED <<records, applied, before, unsure, left>>
    BY <1>12 DEF RunDown, migrationHistory
  <2>2. CASE todo = {}
    BY <1>12, <1>a, <2>1, <2>2 DEF RunDown, MigrationInd, MigrationTyped, UpSoFar
  <2>3. CASE todo # {}
    <3>1. PICK m \in todo : m = Max(todo)
      BY <1>a, <2>3, VersionPicked
    <3>2. \/ /\ at' = m /\ runner' = "unrecord" /\ schema' = schema \ {m} /\ todo' = todo \ {m}
             /\ slip' = slip
          \/ runner' = "failed" /\ slip' = TRUE /\ schema' \in {schema, schema \ {m}} /\ todo' = todo
      BY <1>12, <2>3, <3>1 DEF RunDown
    <3> QED
      BY <1>a, <2>1, <3>2 DEF MigrationInd, MigrationTyped, UpSoFar
  <2> QED
    BY <2>2, <2>3
<1> QED
  BY <1>1, <1>2, <1>3, <1>4, <1>5, <1>6, <1>7, <1>8, <1>9, <1>10, <1>11, <1>12, <1>13 DEF MigrationNext

\* Up that fails undoes what it did, but for the migration that failed, for any number of migrations and whatever
\* earlier calls, failed statements and crashes left behind (Up and
\* rollbackApplied of pkg/migrate).
THEOREM FailedUpIsUndone == PackagesSpec => []FailedUpUndone
<1>1. PackagesInit => MigrationInd
  BY DEF PackagesInit, MigrationInit, MigrationInd, MigrationTyped, UpSoFar
<1>2. MigrationInd /\ [PackagesNext]_packageVars => MigrationInd'
  BY MigrationStep, StepOfEach
<1>3. MigrationInd => FailedUpUndone
  <2> SUFFICES ASSUME MigrationInd, runner = "failed", slip = FALSE
               PROVE  /\ schema \ (unsure \cup left) = before \ (unsure \cup left)
                      /\ Recorded("clean") \ unsure = before \ unsure
    BY DEF MigrationInd, FailedUpUndone
  <2>1. SchemaIs(before) /\ CleanIs(before) /\ MigrationTyped
    BY DEF MigrationInd, UpSoFar
  <2> QED
    BY <2>1 DEF SchemaIs, CleanIs, MigrationTyped, Recorded
<1> QED
  BY <1>1, <1>2, <1>3, PTL DEF PackagesSpec

-----------------------------------------------------------------------------
(* The rate limiter. *)

Steps == {"idle", "window", "incr", "violation", "block"}

Memory == [age : Ages, count : Nat, prevAge : Ages, prev : Nat, violations : Nat,
           blocked : BOOLEAN]

LimiterTyped ==
    /\ now \in 0 .. TicksPerWindow - 1
    /\ counts \in [0 .. 1 -> Nat]
    /\ memory \in Memory
    /\ request \in [Requests -> [pc : Steps, age : Ages]]
    /\ redisErrors \in Nat
    /\ slipped \in Nat

\* The requests that have read the counters of a window and will increment it,
\* and those that are past the look-up of the block.
Waiting(age) == {r \in Requests : request[r].pc = "incr" /\ request[r].age = age}

Past == {r \in Requests : request[r].pc \in {"window", "incr"}}

\* The requests that are about to be counted are counted already.
WindowsBounded ==
    \A age \in 0 .. 1 : counts[age] + Cardinality(Waiting(age)) <= Limit - 1 + Cardinality(Requests)

\* The in-memory counter counts what the fallback admitted in this window.
FallbackCounted ==
    /\ admitted = IF memory.age = 0 THEN memory.count ELSE 0
    /\ admitted <= Limit

\* Those that slipped in, and those that still may, are not all the requests:
\* the one that set the block is none of them.
BlockTight ==
    (blocked /\ redisErrors = 0) => slipped + Cardinality(Past) < Cardinality(Requests)

LimiterInd == LimiterTyped /\ WindowsBounded /\ FallbackCounted /\ BlockTight

\* A rounded quotient of natural numbers is one.
LEMMA QuotientNat == \A a \in Nat : \A b \in Nat \ {0} : a \div b \in Nat
OBVIOUS

\* The weighted count is at least the count of the current window.
LEMMA EffectiveAtLeast ==
    ASSUME now \in 0 .. TicksPerWindow - 1, NEW n \in Nat, NEW p \in Nat
    PROVE  effectiveCount(n, p) \in Nat /\ effectiveCount(n, p) >= n
<1>1. TicksPerWindow \in Nat \ {0} /\ TicksPerWindow - now \in Nat
  BY LimiterAssumption
<1>2. p * (TicksPerWindow - now) \in Nat
  BY <1>1
<1>3. (p * (TicksPerWindow - now)) \div TicksPerWindow \in Nat
  BY <1>1, <1>2, QuotientNat
<1> QED
  BY <1>3 DEF effectiveCount

\* Sets of requests are finite and no larger than all of them.
LEMMA RequestSets ==
    \A S \in SUBSET Requests :
        /\ IsFiniteSet(S) /\ Cardinality(S) \in Nat /\ Cardinality(Requests) \in Nat
        /\ Cardinality(S) <= Cardinality(Requests)
        /\ \A r \in Requests : r \notin S => Cardinality(S) < Cardinality(Requests)
        /\ \A r \in S : Cardinality(S \ {r}) = Cardinality(S) - 1
        /\ \A T \in SUBSET S : Cardinality(T) <= Cardinality(S)
<1> SUFFICES ASSUME NEW S \in SUBSET Requests
             PROVE  /\ IsFiniteSet(S) /\ Cardinality(S) \in Nat /\ Cardinality(Requests) \in Nat
                    /\ Cardinality(S) <= Cardinality(Requests)
                    /\ \A r \in Requests : r \notin S => Cardinality(S) < Cardinality(Requests)
                    /\ \A r \in S : Cardinality(S \ {r}) = Cardinality(S) - 1
                    /\ \A T \in SUBSET S : Cardinality(T) <= Cardinality(S)
  OBVIOUS
<1>1. IsFiniteSet(Requests) /\ Cardinality(Requests) \in Nat
  BY LimiterAssumption, FS_CardinalityType
<1>2. IsFiniteSet(S) /\ Cardinality(S) <= Cardinality(Requests) /\ Cardinality(S) \in Nat
  BY <1>1, FS_Subset, FS_CardinalityType
<1>3. ASSUME NEW r \in Requests, r \notin S PROVE Cardinality(S) < Cardinality(Requests)
  <2>1. Cardinality(S) # Cardinality(Requests)
    BY <1>1, <1>3, FS_Subset
  <2> QED
    BY <1>1, <1>2, <2>1
<1>4. \A r \in S : Cardinality(S \ {r}) = Cardinality(S) - 1
  BY <1>2, FS_RemoveElement
<1>5. \A T \in SUBSET S : Cardinality(T) <= Cardinality(S)
  BY <1>2, FS_Subset
<1> QED
  BY <1>1, <1>2, <1>3, <1>4, <1>5

\* A request that goes on to another step.
LEMMA RequestGoes ==
    ASSUME LimiterTyped, NEW r \in Requests, NEW step \in Steps, Goto(r, step)
    PROVE  /\ request' \in [Requests -> [pc : Steps, age : Ages]]
           /\ request'[r] = [pc |-> step, age |-> 0]
           /\ \A q \in Requests \ {r} : request'[q] = request[q]
<1>1. [pc |-> step, age |-> 0] \in [pc : Steps, age : Ages]
  BY DEF Ages
<1> QED
  BY <1>1 DEF Goto, LimiterTyped

\* Unless it goes on to the increment, it no longer waits for one.
LEMMA WaitingShrinks ==
    ASSUME LimiterTyped, NEW r \in Requests, NEW step \in Steps, Goto(r, step),
           NEW age \in 0 .. 1, step # "incr" \/ age # 0
    PROVE  /\ Waiting(age)' = Waiting(age) \ {r}
           /\ Cardinality(Waiting(age)') <= Cardinality(Waiting(age))
           /\ Cardinality(Waiting(age)) \in Nat /\ Cardinality(Waiting(age)') \in Nat
<1>1. Waiting(age)' = Waiting(age) \ {r}
  <2>1. request'[r] = [pc |-> step, age |-> 0] /\ \A q \in Requests \ {r} : request'[q] = request[q]
    BY RequestGoes
  <2>2. ~(request'[r].pc = "incr" /\ request'[r].age = age)
    BY <2>1
  <2> QED
    BY <2>1, <2>2 DEF Waiting
<1>2. Waiting(age)' \in SUBSET Waiting(age) /\ Waiting(age) \in SUBSET Requests
      /\ Waiting(age)' \in SUBSET Requests
  BY <1>1 DEF Waiting
<1> QED
  BY <1>1, <1>2, RequestSets

LEMMA PastShrinks ==
    ASSUME LimiterTyped, NEW r \in Requests, NEW step \in Steps, Goto(r, step),
           step \in {"window", "incr"} => r \in Past
    PROVE  /\ Cardinality(Past') <= Cardinality(Past)
           /\ Cardinality(Past) \in Nat /\ Cardinality(Past') \in Nat
<1>1. Past' \in SUBSET Past
  <2>1. request'[r] = [pc |-> step, age |-> 0] /\ \A q \in Requests \ {r} : request'[q] = request[q]
    BY RequestGoes
  <2>2. request'[r].pc = step
    BY <2>1
  <2> QED
    BY <2>1, <2>2 DEF Past
<1>2. Past \in SUBSET Requests /\ Past' \in SUBSET Requests
  BY DEF Past
<1> QED
  BY <1>1, <1>2, RequestSets

\* A step that only moves a request, to no increment, keeps the windows' bound.
LEMMA WindowsKept ==
    ASSUME LimiterInd, NEW r \in Requests, NEW step \in Steps \ {"incr"}, Goto(r, step),
           counts' = counts
    PROVE  WindowsBounded'
<1>1. Cardinality(Requests) \in Nat /\ Limit \in Nat
  BY RequestSets, LimiterAssumption
<1>2. ASSUME NEW age \in 0 .. 1
      PROVE  counts'[age] + Cardinality(Waiting(age)') <= Limit - 1 + Cardinality(Requests)
  <2>1. /\ Cardinality(Waiting(age)') <= Cardinality(Waiting(age))
        /\ Cardinality(Waiting(age)) \in Nat /\ Cardinality(Waiting(age)') \in Nat
    BY WaitingShrinks DEF LimiterInd
  <2>2. /\ counts[age] \in Nat
        /\ counts[age] + Cardinality(Waiting(age)) <= Limit - 1 + Cardinality(Requests)
    BY DEF LimiterInd, LimiterTyped, WindowsBounded
  <2> QED
    BY <1>1, <2>1, <2>2
<1> QED
  BY <1>2 DEF WindowsBounded

\* A step that only moves a request, and not past the block, keeps its bound.
LEMMA BlockKept ==
    ASSUME LimiterInd, NEW r \in Requests, NEW step \in Steps, Goto(r, step),
           step \in {"window", "incr"} => r \in Past,
           UNCHANGED <<blocked, redisErrors, slipped>>
    PROVE  BlockTight'
<1>1. /\ Cardinality(Past') <= Cardinality(Past)
      /\ Cardinality(Past) \in Nat /\ Cardinality(Past') \in Nat
  BY PastShrinks DEF LimiterInd
<1>2. Cardinality(Requests) \in Nat /\ slipped \in Nat
  BY RequestSets DEF LimiterInd, LimiterTyped
<1> QED
  BY <1>1, <1>2 DEF LimiterInd, BlockTight

\* A Redis command that fails lifts the bound on the blocked client.
LEMMA ErrorSeen ==
    ASSUME LimiterTyped, RedisFails
    PROVE  redisErrors' \in Nat /\ redisErrors' > 0 /\ BlockTight'
BY DEF LimiterTyped, RedisFails, BlockTight

LEMMA CheckBlockedInd ==
    ASSUME LimiterInd, NEW r \in Requests, CheckBlocked(r) PROVE LimiterInd'
<1> USE DEF CheckBlocked
<1>1. Goto(r, "window") /\ "window" \in Steps \ {"incr"} /\ "window" \in Steps /\ LimiterTyped
  BY DEF Steps, LimiterInd
<1>2. BlockTight'
  <2>1. CASE ~blocked /\ UNCHANGED redisErrors
    BY <2>1 DEF BlockTight
  <2>2. CASE RedisFails
    BY <1>1, <2>2, ErrorSeen
  <2> QED
    BY <2>1, <2>2
<1>3. redisErrors' \in Nat
  BY <1>1, ErrorSeen DEF LimiterTyped
<1>4. LimiterTyped'
  BY <1>1, <1>3, RequestGoes DEF LimiterTyped
<1>5. WindowsBounded'
  BY <1>1, WindowsKept
<1> QED
  BY <1>2, <1>4, <1>5 DEF LimiterInd, FallbackCounted

LEMMA ReadWindowsInd ==
    ASSUME LimiterInd, NEW r \in Requests, ReadWindows(r) PROVE LimiterInd'
<1>a. PICK previous \in {counts[1], 0} :
          /\ \/ previous = counts[1] /\ UNCHANGED redisErrors
             \/ previous = 0 /\ RedisFails
          /\ Goto(r, IF effectiveCount(counts[0], previous) >= Limit THEN "violation" ELSE "incr")
  BY DEF ReadWindows
<1>b. /\ request[r].pc = "window"
      /\ UNCHANGED <<now, counts, violations, blocked, memory, admitted, slipped>>
  BY DEF ReadWindows
<1>1. PICK step \in Steps :
         /\ Goto(r, step)
         /\ step = IF effectiveCount(counts[0], previous) >= Limit THEN "violation" ELSE "incr"
  BY <1>a DEF Steps
<1>2. r \in Past /\ LimiterTyped
  BY <1>b DEF Past, LimiterInd
<1>c. redisErrors \in Nat /\ redisErrors' \in {redisErrors, redisErrors + 1}
  BY <1>a, <1>2 DEF RedisFails, LimiterTyped
<1>3. LimiterTyped'
  <2>1. request' \in [Requests -> [pc : Steps, age : Ages]]
    BY <1>1, <1>2, RequestGoes DEF LimiterTyped
  <2>2. redisErrors' \in Nat
    BY <1>c
  <2> QED
    BY <1>2, <1>b, <2>1, <2>2 DEF LimiterTyped
<1>4. BlockTight'
  <2>1. CASE redisErrors' = redisErrors
    BY <1>1, <1>2, <1>b, <2>1, BlockKept
  <2>2. CASE redisErrors' = redisErrors + 1
    BY <1>c, <2>2 DEF BlockTight
  <2> QED
    BY <1>c, <2>1, <2>2
<1>5. WindowsBounded'
  <2>1. CASE step # "incr"
    BY <1>1, <1>b, <2>1, WindowsKept
  <2>2. CASE step = "incr"
    <3>1. counts[0] \in Nat /\ counts[1] \in Nat /\ previous \in Nat /\ counts' = counts
      BY <1>2, <1>a, <1>b DEF LimiterTyped
    <3>2. Limit \in Nat /\ Cardinality(Requests) \in Nat
      BY LimiterAssumption, RequestSets
    <3>3. effectiveCount(counts[0], previous) \in Nat /\ effectiveCount(counts[0], previous) >= counts[0]
      BY <1>2, <3>1, EffectiveAtLeast DEF LimiterTyped
    <3>4. counts[0] <= Limit - 1
      <4>1. ~(effectiveCount(counts[0], previous) >= Limit)
        BY <1>1, <2>2
      <4> QED
        BY <3>1, <3>2, <3>3, <4>1
    <3>5. Waiting(0)' \in SUBSET Requests
      BY DEF Waiting
    <3>6. Cardinality(Waiting(0)') \in Nat /\ Cardinality(Waiting(0)') <= Cardinality(Requests)
      BY <3>5, RequestSets
    <3>7. counts'[0] + Cardinality(Waiting(0)') <= Limit - 1 + Cardinality(Requests)
      BY <3>1, <3>2, <3>4, <3>6
    <3>8. /\ Cardinality(Waiting(1)') <= Cardinality(Waiting(1))
          /\ Cardinality(Waiting(1)) \in Nat /\ Cardinality(Waiting(1)') \in Nat
      BY <1>1, <1>2, WaitingShrinks
    <3>9. counts[1] + Cardinality(Waiting(1)) <= Limit - 1 + Cardinality(Requests)
      BY DEF LimiterInd, WindowsBounded
    <3>10. counts'[1] + Cardinality(Waiting(1)') <= Limit - 1 + Cardinality(Requests)
      BY <3>1, <3>2, <3>8, <3>9
    <3> QED
      BY <3>7, <3>10 DEF WindowsBounded
  <2> QED
    BY <2>1, <2>2
<1> QED
  BY <1>3, <1>4, <1>5, <1>b DEF LimiterInd, FallbackCounted

LEMMA IncrWindowInd ==
    ASSUME LimiterInd, NEW r \in Requests, IncrWindow(r) PROVE LimiterInd'
<1>1. /\ Goto(r, "idle") /\ "idle" \in Steps \ {"incr"} /\ "idle" \in Steps
      /\ LimiterTyped /\ r \in Past /\ request[r].pc = "incr"
      /\ UNCHANGED <<now, blocked, memory, redisErrors, admitted>>
  BY DEF IncrWindow, Steps, LimiterInd, Past
<1>2. PICK age : age = request[r].age
  OBVIOUS
<1>3. counts' = IF age \in DOMAIN counts THEN [counts EXCEPT ![age] = @ + 1] ELSE counts
  BY <1>2 DEF IncrWindow
<1>4. counts' \in [0 .. 1 -> Nat] /\ \A a \in 0 .. 1 : counts'[a] = IF a = age THEN counts[a] + 1 ELSE counts[a]
  BY <1>1, <1>3 DEF LimiterTyped
<1>5. slipped' = (IF blocked THEN slipped + 1 ELSE slipped) /\ slipped' \in Nat
  BY <1>1 DEF IncrWindow, Admit, LimiterTyped
<1>6. LimiterTyped'
  BY <1>1, <1>4, <1>5, RequestGoes DEF LimiterTyped
<1>7. WindowsBounded'
  <2> SUFFICES ASSUME NEW a \in 0 .. 1
               PROVE  counts'[a] + Cardinality(Waiting(a)') <= Limit - 1 + Cardinality(Requests)
    BY DEF WindowsBounded
  <2>1. /\ Waiting(a)' = Waiting(a) \ {r}
        /\ Cardinality(Waiting(a)') <= Cardinality(Waiting(a))
        /\ Cardinality(Waiting(a)) \in Nat /\ Cardinality(Waiting(a)') \in Nat
    BY <1>1, WaitingShrinks
  <2>2. /\ counts[a] \in Nat
        /\ counts[a] + Cardinality(Waiting(a)) <= Limit - 1 + Cardinality(Requests)
    BY <1>1 DEF LimiterInd, LimiterTyped, WindowsBounded
  <2>3. Limit \in Nat /\ Cardinality(Requests) \in Nat
    BY LimiterAssumption, RequestSets
  <2>4. CASE a = age
    <3>1. r \in Waiting(a) /\ Waiting(a) \in SUBSET Requests
      BY <1>1, <1>2, <2>4 DEF Waiting
    <3>2. Cardinality(Waiting(a)') = Cardinality(Waiting(a)) - 1
      BY <2>1, <3>1, RequestSets
    <3> QED
      BY <1>4, <2>1, <2>2, <2>3, <2>4, <3>2
  <2>5. CASE a # age
    BY <1>4, <2>1, <2>2, <2>3, <2>5
  <2> QED
    BY <2>4, <2>5
<1>8. BlockTight'
  <2>1. Past' = Past \ {r} /\ Past \in SUBSET Requests /\ Past' \in SUBSET Requests
    <3>1. request'[r] = [pc |-> "idle", age |-> 0] /\ \A q \in Requests \ {r} : request'[q] = request[q]
      BY <1>1, RequestGoes
    <3>2. request'[r].pc = "idle"
      BY <3>1
    <3> QED
      BY <3>1, <3>2 DEF Past
  <2>2. Cardinality(Past') = Cardinality(Past) - 1 /\ Cardinality(Past) \in Nat /\ Cardinality(Past') \in Nat
    BY <1>1, <2>1, RequestSets
  <2>3. Cardinality(Requests) \in Nat /\ slipped \in Nat
    BY <1>1, RequestSets DEF LimiterTyped
  <2> QED
    BY <1>1, <1>5, <2>2, <2>3 DEF LimiterInd, BlockTight
<1> QED
  BY <1>1, <1>6, <1>7, <1>8 DEF LimiterInd, FallbackCounted

\* The entry of the current window, after rotation, counts what the fallback
\* admitted in it.
LEMMA RotatedCounts ==
    ASSUME LimiterTyped, FallbackCounted
    PROVE  Rotated \in Memory /\ Rotated.age = 0 /\ Rotated.count = admitted /\ Rotated.prev \in Nat
<1>1. memory \in Memory /\ memory.age \in Ages /\ memory.count \in Nat /\ memory.prev \in Nat /\ 0 \in Ages
  BY DEF LimiterTyped, Memory, Ages
<1>2. CASE memory.age = 0
  BY <1>1, <1>2 DEF FallbackCounted, Rotated
<1>3. CASE memory.age # 0
  <2>1. Rotated = [memory EXCEPT !.age = 0, !.count = 0, !.prevAge = memory.age, !.prev = memory.count]
    BY <1>3 DEF Rotated
  <2>2. Rotated \in Memory
    BY <1>1, <2>1 DEF Memory
  <2>3. Rotated.age = 0 /\ Rotated.count = 0 /\ Rotated.prev = memory.count
    BY <1>1, <2>1 DEF Memory
  <2> QED
    BY <1>1, <1>3, <2>2, <2>3 DEF FallbackCounted
<1> QED
  BY <1>2, <1>3

LEMMA FallbackAllowInd ==
    ASSUME LimiterInd, NEW r \in Requests, FallbackAllow(r) PROVE LimiterInd'
<1>1. /\ LimiterTyped /\ FallbackCounted /\ RedisFails
      /\ "violation" \in Steps \ {"incr"} /\ "idle" \in Steps \ {"incr"}
      /\ "violation" \in Steps /\ "idle" \in Steps
      /\ UNCHANGED <<now, counts, blocked>>
  BY DEF FallbackAllow, Steps, LimiterInd
<1>2. redisErrors' \in Nat /\ BlockTight'
  BY <1>1, ErrorSeen
<1>3. Rotated \in Memory /\ Rotated.age = 0 /\ Rotated.count = admitted /\ Rotated.prev \in Nat
      /\ admitted \in Nat
  <2>1. Rotated \in Memory /\ Rotated.age = 0 /\ Rotated.count = admitted /\ Rotated.prev \in Nat
    BY <1>1, RotatedCounts
  <2> QED
    BY <2>1 DEF Memory
<1>4. CASE MemoryRefuses(Rotated)
  <2>1. memory' = Rotated /\ Goto(r, "violation") /\ UNCHANGED <<admitted, slipped>>
    BY <1>4 DEF FallbackAllow
  <2>2. LimiterTyped'
    BY <1>1, <1>2, <1>3, <2>1, RequestGoes DEF LimiterTyped
  <2>3. WindowsBounded'
    BY <1>1, <2>1, WindowsKept
  <2> QED
    BY <1>1, <1>2, <1>3, <2>1, <2>2, <2>3 DEF LimiterInd, FallbackCounted
<1>5. CASE ~MemoryRefuses(Rotated)
  <2>1. /\ memory' = [Rotated EXCEPT !.count = Rotated.count + 1]
        /\ Goto(r, "idle") /\ admitted' = admitted + 1
        /\ slipped' = IF blocked THEN slipped + 1 ELSE slipped
    BY <1>5 DEF FallbackAllow, Admit
  <2>2. memory' \in Memory /\ memory'.age = 0 /\ memory'.count = admitted + 1 /\ slipped' \in Nat
    BY <1>1, <1>3, <2>1 DEF Memory, LimiterTyped
  <2>3. LimiterTyped'
    BY <1>1, <1>2, <2>1, <2>2, RequestGoes DEF LimiterTyped
  <2>4. WindowsBounded'
    BY <1>1, <2>1, WindowsKept
  <2>5. admitted < Limit
    <3>1. effectiveCount(Rotated.count, Rotated.prev) \in Nat
          /\ effectiveCount(Rotated.count, Rotated.prev) >= Rotated.count
      BY <1>1, <1>3, EffectiveAtLeast DEF LimiterTyped
    <3>2. ~(effectiveCount(Rotated.count, Rotated.prev) >= Limit)
      BY <1>5 DEF MemoryRefuses
    <3>3. Limit \in Nat
      BY LimiterAssumption
    <3> QED
      BY <1>3, <3>1, <3>2, <3>3
  <2>6. admitted' <= Limit
    BY <1>3, <2>1, <2>5, LimiterAssumption
  <2> QED
    BY <1>2, <2>1, <2>2, <2>3, <2>4, <2>6 DEF LimiterInd, FallbackCounted
<1> QED
  BY <1>4, <1>5

LEMMA RecordViolationInd ==
    ASSUME LimiterInd, NEW r \in Requests, RecordViolation(r) PROVE LimiterInd'
<1>1. PICK step \in Steps \ {"incr", "window"} : Goto(r, step)
  BY DEF RecordViolation, Steps
<1>2. LimiterTyped /\ UNCHANGED <<now, counts, blocked, memory, redisErrors, admitted, slipped>>
  BY DEF RecordViolation, LimiterInd
<1>3. LimiterTyped'
  BY <1>1, <1>2, RequestGoes DEF LimiterTyped
<1>4. WindowsBounded' /\ BlockTight'
  BY <1>1, <1>2, WindowsKept, BlockKept
<1> QED
  BY <1>2, <1>3, <1>4 DEF LimiterInd, FallbackCounted

LEMMA blockIPInd ==
    ASSUME LimiterInd, NEW r \in Requests, blockIP(r) PROVE LimiterInd'
<1>1. /\ Goto(r, "idle") /\ "idle" \in Steps \ {"incr"} /\ "idle" \in Steps
      /\ LimiterTyped /\ r \notin Past
      /\ slipped' = IF blocked THEN slipped ELSE 0
      /\ UNCHANGED <<now, counts, memory, redisErrors, admitted>>
  BY DEF blockIP, Steps, LimiterInd, Past
<1>2. LimiterTyped'
  BY <1>1, RequestGoes DEF LimiterTyped
<1>3. WindowsBounded'
  BY <1>1, WindowsKept
<1>4. BlockTight'
  <2>1. /\ Cardinality(Past') <= Cardinality(Past)
        /\ Cardinality(Past) \in Nat /\ Cardinality(Past') \in Nat
    BY <1>1, PastShrinks
  <2>2. Past \in SUBSET Requests
    BY DEF Past
  <2>3. Cardinality(Past) < Cardinality(Requests) /\ Cardinality(Requests) \in Nat
    BY <1>1, <2>2, RequestSets
  <2>4. slipped \in Nat /\ BlockTight
    BY <1>1 DEF LimiterInd, LimiterTyped
  <2> QED
    BY <1>1, <2>1, <2>3, <2>4 DEF BlockTight
<1> QED
  BY <1>1, <1>2, <1>3, <1>4 DEF LimiterInd, FallbackCounted

LEMMA FallbackViolationInd ==
    ASSUME LimiterInd, NEW r \in Requests, FallbackViolation(r) PROVE LimiterInd'
<1>1. /\ Goto(r, "idle") /\ "idle" \in Steps \ {"incr"} /\ "idle" \in Steps
      /\ LimiterTyped /\ RedisFails
      /\ UNCHANGED <<now, counts, admitted, slipped>>
  BY DEF FallbackViolation, Steps, LimiterInd
<1>2. memory' \in Memory /\ memory'.age = memory.age /\ memory'.count = memory.count
  <2>1. memory \in Memory /\ memory.violations \in Nat /\ BlockThreshold \in Nat
    BY <1>1, LimiterAssumption DEF LimiterTyped, Memory
  <2>2. PICK n, b :
           /\ n = IF memory.violations < BlockThreshold THEN memory.violations + 1 ELSE memory.violations
           /\ b = (memory.blocked \/ (memory.violations > 0 /\ memory.violations + 1 >= BlockThreshold))
    OBVIOUS
  <2>3. memory' = [memory EXCEPT !.violations = n, !.blocked = b]
    BY <2>2 DEF FallbackViolation
  <2>4. n \in Nat
    BY <2>1, <2>2
  <2>5. b \in BOOLEAN
    BY <2>2
  <2> QED
    BY <2>1, <2>3, <2>4, <2>5 DEF Memory
<1>3. redisErrors' \in Nat /\ BlockTight'
  BY <1>1, ErrorSeen
<1>4. LimiterTyped'
  BY <1>1, <1>2, <1>3, RequestGoes DEF LimiterTyped
<1>5. WindowsBounded'
  BY <1>1, WindowsKept
<1> QED
  BY <1>1, <1>2, <1>3, <1>4, <1>5 DEF LimiterInd, FallbackCounted

LEMMA LimiterTickInd == ASSUME LimiterInd, LimiterTick PROVE LimiterInd'
<1>1. LimiterTyped /\ UNCHANGED <<blocked, redisErrors, slipped>>
  BY DEF LimiterInd, LimiterTick
<1>2. now' \in 0 .. TicksPerWindow - 1
  <2>1. TicksPerWindow \in Nat \ {0} /\ now \in Nat
    BY <1>1, LimiterAssumption DEF LimiterTyped
  <2>2. (now + 1) % TicksPerWindow \in 0 .. TicksPerWindow - 1
    BY <2>1
  <2> QED
    BY <2>2 DEF LimiterTick
<1>3. CASE now' > 0
  <2>1. UNCHANGED <<counts, memory, request, admitted>>
    BY <1>3 DEF LimiterTick
  <2>2. Past' = Past /\ \A age \in 0 .. 1 : Waiting(age)' = Waiting(age)
    BY <2>1 DEF Past, Waiting
  <2> QED
    BY <1>1, <1>2, <2>1, <2>2
       DEF LimiterInd, LimiterTyped, WindowsBounded, FallbackCounted, BlockTight
<1>4. CASE ~(now' > 0)
  <2>1. /\ counts' = [age \in 0 .. 1 |-> IF age = 0 THEN 0 ELSE counts[0]]
        /\ memory' = [memory EXCEPT !.age = Older(memory.age), !.prevAge = Older(memory.prevAge)]
        /\ request' = [r \in Requests |->
               IF request[r].pc = "incr" THEN [request[r] EXCEPT !.age = Older(request[r].age)]
               ELSE request[r]]
        /\ admitted' = 0
    BY <1>4 DEF LimiterTick
  <2>2. \A age \in Ages : Older(age) \in Ages /\ Older(age) # 0 /\ (Older(age) = 1 <=> age = 0)
    BY DEF Older, Ages
  <2>3. /\ counts' \in [0 .. 1 -> Nat] /\ counts'[0] = 0 /\ counts'[1] = counts[0]
        /\ counts[0] \in Nat
    BY <1>1, <2>1 DEF LimiterTyped
  <2>4. memory' \in Memory /\ memory'.age # 0
    BY <1>1, <2>1, <2>2 DEF LimiterTyped, Memory
  <2>5. ASSUME NEW r \in Requests
        PROVE  /\ request'[r] \in [pc : Steps, age : Ages] /\ request'[r].pc = request[r].pc
               /\ request[r].pc = "incr" => request'[r].age = Older(request[r].age)
               /\ request[r].age \in Ages
    <3>1. request[r] \in [pc : Steps, age : Ages] /\ request[r].age \in Ages
      BY <1>1 DEF LimiterTyped
    <3>2. CASE request[r].pc = "incr"
      <4>1. request'[r] = [request[r] EXCEPT !.age = Older(request[r].age)]
        BY <2>1, <3>2
      <4>2. Older(request[r].age) \in Ages
        BY <2>2, <3>1
      <4> QED
        BY <3>1, <4>1, <4>2
    <3>3. CASE request[r].pc # "incr"
      BY <2>1, <3>1, <3>3
    <3> QED
      BY <3>2, <3>3
  <2>6. request' \in [Requests -> [pc : Steps, age : Ages]]
    BY <2>1, <2>5
  <2>7. Past' = Past
    BY <2>5 DEF Past
  <2>8. Waiting(0)' = {}
    BY <2>2, <2>5 DEF Waiting
  <2>9. Waiting(1)' = Waiting(0)
    BY <2>2, <2>5 DEF Waiting
  <2>10. WindowsBounded'
    <3>1. Cardinality(Waiting(0)') = 0
      BY <2>8, FS_EmptySet
    <3>2. Limit \in Nat \ {0} /\ Cardinality(Requests) \in Nat
      BY LimiterAssumption, RequestSets
    <3>3. counts[0] + Cardinality(Waiting(0)) <= Limit - 1 + Cardinality(Requests)
      BY DEF LimiterInd, WindowsBounded
    <3>4. counts'[0] + Cardinality(Waiting(0)') <= Limit - 1 + Cardinality(Requests)
      BY <2>3, <3>1, <3>2
    <3>5. counts'[1] + Cardinality(Waiting(1)') <= Limit - 1 + Cardinality(Requests)
      BY <2>3, <2>9, <3>3
    <3> QED
      BY <3>4, <3>5 DEF WindowsBounded
  <2>11. FallbackCounted'
    BY <2>1, <2>4, LimiterAssumption DEF FallbackCounted
  <2> QED
    BY <1>1, <1>2, <2>3, <2>4, <2>6, <2>7, <2>10, <2>11 DEF LimiterInd, LimiterTyped, BlockTight
<1> QED
  BY <1>3, <1>4

LEMMA BlockExpiresInd == ASSUME LimiterInd, BlockExpires PROVE LimiterInd'
<1>1. LimiterTyped /\ UNCHANGED <<now, counts, request, redisErrors, admitted>>
  BY DEF LimiterInd, BlockExpires
<1>2. Past' = Past /\ \A age \in 0 .. 1 : Waiting(age)' = Waiting(age)
  BY <1>1 DEF Past, Waiting
<1>3. WindowsBounded'
  BY <1>1, <1>2 DEF LimiterInd, WindowsBounded
<1>4. CASE blocked' = FALSE /\ slipped' = 0 /\ UNCHANGED memory
  BY <1>1, <1>3, <1>4 DEF LimiterInd, LimiterTyped, FallbackCounted, BlockTight
<1>5. CASE memory' = [memory EXCEPT !.blocked = FALSE] /\ UNCHANGED <<blocked, slipped>>
  <2>1. memory' \in Memory /\ memory'.age = memory.age /\ memory'.count = memory.count
    BY <1>1, <1>5 DEF LimiterTyped, Memory
  <2> QED
    BY <1>1, <1>2, <1>3, <1>5, <2>1 DEF LimiterInd, LimiterTyped, FallbackCounted, BlockTight
<1> QED
  BY <1>4, <1>5 DEF BlockExpires

\* The cleanup drops no entry of the current window.
LEMMA CleanupInd == ASSUME LimiterInd, Cleanup PROVE LimiterInd'
<1>1. LimiterTyped /\ UNCHANGED <<now, counts, blocked, request, redisErrors, admitted, slipped>>
  BY DEF LimiterInd, Cleanup
<1>2. Past' = Past /\ \A age \in 0 .. 1 : Waiting(age)' = Waiting(age)
  BY <1>1 DEF Past, Waiting
<1>3. PICK n, p :
         /\ memory' = [memory EXCEPT !.count = n, !.prev = p]
         /\ n = IF memory.age * TicksPerWindow + now > 2 * TicksPerWindow THEN 0 ELSE memory.count
         /\ p = IF memory.prevAge * TicksPerWindow + now > 2 * TicksPerWindow THEN 0 ELSE memory.prev
  BY DEF Cleanup
<1>4. memory \in Memory /\ memory.count \in Nat /\ memory.prev \in Nat
  BY <1>1 DEF LimiterTyped, Memory
<1>5. memory.age = 0 => n = memory.count
  <2>1. TicksPerWindow \in Nat /\ now \in Nat /\ now < TicksPerWindow
    BY <1>1, LimiterAssumption DEF LimiterTyped
  <2> QED
    BY <1>3, <2>1
<1>6. n \in Nat /\ p \in Nat
  BY <1>3, <1>4
<1>7. memory' \in Memory /\ memory'.age = memory.age /\ memory'.count = n
  BY <1>3, <1>4, <1>6 DEF Memory
<1> QED
  BY <1>1, <1>2, <1>5, <1>7
     DEF LimiterInd, LimiterTyped, WindowsBounded, FallbackCounted, BlockTight

LEMMA LimiterStep == LimiterInd /\ [LimiterNext]_limiterVars => LimiterInd'
<1> SUFFICES ASSUME LimiterInd, [LimiterNext]_limiterVars PROVE LimiterInd'
  OBVIOUS
<1>1. CASE UNCHANGED limiterVars
  <2>1. Past' = Past /\ \A age \in 0 .. 1 : Waiting(age)' = Waiting(age)
    BY <1>1 DEF Past, Waiting, limiterVars
  <2> QED
    BY <1>1, <2>1
       DEF limiterVars, LimiterInd, LimiterTyped, WindowsBounded, FallbackCounted, BlockTight
<1>2. CASE LimiterNext
  BY <1>2, CheckBlockedInd, ReadWindowsInd, IncrWindowInd, FallbackAllowInd, RecordViolationInd,
     blockIPInd, FallbackViolationInd, LimiterTickInd, BlockExpiresInd, CleanupInd
     DEF LimiterNext, Check
<1> QED
  BY <1>1, <1>2

\* A window admits at most Limit requests more than those that race, the
\* fallback at most Limit, and a blocked client's requests get in only when they
\* were past the look-up: for any limit, window, number of requests and Redis
\* failures (RedisRateLimiter.Check and InMemoryLimiter of pkg/ratelimit).
THEOREM AdmissionsAreBounded == PackagesSpec => []AdmissionsBounded
<1>1. PackagesInit => LimiterInd
  <2> SUFFICES ASSUME LimiterInit PROVE LimiterInd
    BY DEF PackagesInit
  <2>1. \A age \in 0 .. 1 : Waiting(age) = {}
    BY DEF LimiterInit, Waiting
  <2>2. LimiterTyped
    BY LimiterAssumption DEF LimiterInit, LimiterTyped, Memory, Ages, Steps
  <2>3. WindowsBounded
    <3>1. \A age \in 0 .. 1 : Cardinality(Waiting(age)) = 0 /\ counts[age] = 0
      BY <2>1, FS_EmptySet DEF LimiterInit
    <3>2. Limit \in Nat \ {0} /\ Cardinality(Requests) \in Nat
      BY LimiterAssumption, RequestSets
    <3> QED
      BY <3>1, <3>2 DEF WindowsBounded
  <2> QED
    BY <2>2, <2>3, LimiterAssumption DEF LimiterInit, LimiterInd, FallbackCounted, BlockTight
<1>2. LimiterInd /\ [PackagesNext]_packageVars => LimiterInd'
  BY LimiterStep, StepOfEach
<1>3. LimiterInd => AdmissionsBounded
  <2> SUFFICES ASSUME LimiterInd PROVE AdmissionsBounded
    OBVIOUS
  <2>1. Limit \in Nat /\ Cardinality(Requests) \in Nat
    BY LimiterAssumption, RequestSets
  <2>2. ASSUME NEW age \in 0 .. 1 PROVE counts[age] <= Limit + Cardinality(Requests) - 1
    <3>1. Waiting(age) \in SUBSET Requests
      BY DEF Waiting
    <3>2. Cardinality(Waiting(age)) \in Nat
      BY <3>1, RequestSets
    <3>3. /\ counts[age] \in Nat
          /\ counts[age] + Cardinality(Waiting(age)) <= Limit - 1 + Cardinality(Requests)
      BY DEF LimiterInd, LimiterTyped, WindowsBounded
    <3> QED
      BY <2>1, <3>2, <3>3
  <2>3. (blocked /\ redisErrors = 0) => slipped < Cardinality(Requests)
    <3>1. Past \in SUBSET Requests
      BY DEF Past
    <3>2. Cardinality(Past) \in Nat /\ slipped \in Nat
      BY <3>1, RequestSets DEF LimiterInd, LimiterTyped
    <3> QED
      BY <2>1, <3>2 DEF LimiterInd, BlockTight
  <2> QED
    BY <2>2, <2>3 DEF LimiterInd, FallbackCounted, AdmissionsBounded
<1> QED
  BY <1>1, <1>2, <1>3, PTL DEF PackagesSpec

-----------------------------------------------------------------------------
(* The shutdown sequence. *)

\* Unless the drain timed out, pools are open until it is over, and no request is
\* in flight after it.
ShutdownInd ==
    /\ serving \in [HttpRequests -> {"none", "store", "publish", "done"}]
    /\ \/ forced = TRUE
       \/ /\ brokenWrites = {}
          /\ IF phase \in {"databases", "stopped"} THEN InFlight = {} ELSE openPools = Databases

\* The safety half of PoolsOutliveRequests.
BrokenOnlyWhenForced == brokenWrites # {} => forced

LEMMA ShutdownStepKeeps ==
    ASSUME ShutdownInd, [ShutdownNext]_shutdownVars PROVE ShutdownInd'
<1>1. CASE UNCHANGED shutdownVars
  BY <1>1 DEF shutdownVars, ShutdownInd, InFlight
<1>2. ASSUME NEW r \in HttpRequests, Arrive(r) \/ Store(r) \/ PublishResult(r) PROVE ShutdownInd'
  <2>1. PICK place \in {"store", "publish", "done"} :
            serving' = [serving EXCEPT ![r] = place] /\ phase' = phase /\ forced' = forced /\ openPools' = openPools
    BY <1>2 DEF Arrive, Store, PublishResult, resources
  <2>2. serving' \in [HttpRequests -> {"none", "store", "publish", "done"}]
    BY <2>1 DEF ShutdownInd
  <2>3. CASE phase \in {"databases", "stopped"}
    <3>1. r \in InFlight
      BY <1>2, <2>3 DEF Arrive, Store, PublishResult, InFlight
    <3> QED
      BY <2>1, <2>2, <2>3, <3>1 DEF ShutdownInd
  <2>4. CASE phase \notin {"databases", "stopped"} /\ forced # TRUE
    <3>1. brokenWrites' = brokenWrites
      BY <1>2, <2>4 DEF ShutdownInd, Arrive, Store, PublishResult
    <3> QED
      BY <2>1, <2>2, <2>4, <3>1 DEF ShutdownInd
  <2> QED
    BY <2>1, <2>2, <2>3, <2>4 DEF ShutdownInd
<1>3. CASE Signal
  BY <1>3 DEF Signal, ShutdownInd, resources, InFlight
<1>4. CASE CloseWebSockets
  BY <1>4 DEF CloseWebSockets, ShutdownInd, resources, InFlight
<1>5. CASE FlushKafka
  BY <1>5 DEF FlushKafka, ShutdownInd, InFlight
<1>6. CASE Drain
  BY <1>6 DEF Drain, ShutdownInd, InFlight
<1>7. CASE DrainTimesOut
  BY <1>7 DEF DrainTimesOut, ShutdownInd
<1>8. CASE ClosePool
  BY <1>8 DEF ClosePool, ShutdownInd, InFlight
<1>9. CASE PoolsClosed
  BY <1>9 DEF PoolsClosed, ShutdownInd, resources, InFlight
<1> QED
  BY <1>1, <1>2, <1>3, <1>4, <1>5, <1>6, <1>7, <1>8, <1>9 DEF ShutdownNext, ShutdownStep

\* No request meets a closed pool unless the drain timed out, although requests
\* are accepted until http.Server.Shutdown is called: for any number of requests
\* and pools, and pools whose Close hangs (Shutdown of pkg/shutdown).
THEOREM DrainedRequestsFindPools == PackagesSpec => []BrokenOnlyWhenForced
<1>1. PackagesInit => ShutdownInd
  BY DEF PackagesInit, ShutdownInit, ShutdownInd
<1>2. ShutdownInd /\ [PackagesNext]_packageVars => ShutdownInd'
  BY ShutdownStepKeeps, StepOfEach
<1>3. ShutdownInd => BrokenOnlyWhenForced
  BY DEF ShutdownInd, BrokenOnlyWhenForced
<1> QED
  BY <1>1, <1>2, <1>3, PTL DEF PackagesSpec

=============================================================================
