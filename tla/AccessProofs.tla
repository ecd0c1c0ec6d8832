---------------------------- MODULE AccessProofs ----------------------------
(***************************************************************************)
(* Proofs about the realms of Access, for every number of pods, devices     *)
(* and tokens and every period the assumptions on them allow.               *)
(***************************************************************************)
EXTENDS Access, DataLemmas

\* A step of the composition is a step of each realm or leaves it alone.
LEMMA StepOfEachRealm ==
    ASSUME [AccessNext]_accessVars
    PROVE  /\ [KeysNext]_keysVars
           /\ [ServiceNext]_serviceVars
           /\ [SessionsNext]_sessionVars
BY DEF AccessNext, accessVars, OtherRealmsStay

\* The smaller of two numbers.
LEMMA MinOfTwo ==
    ASSUME NEW a \in Nat, NEW b \in Nat
    PROVE  Min({a, b}) \in Nat /\ Min({a, b}) <= a /\ Min({a, b}) <= b /\ Min({a, b}) \in {a, b}
<1>1. {a, b} \in SUBSET Nat /\ {a, b} # {}
  OBVIOUS
<1> QED
  BY <1>1, MinOfNaturals

-----------------------------------------------------------------------------
(* Service tokens. *)

ServiceTyped ==
    /\ manager \in [cur : ServiceKeys, prev : ServiceKeys \cup {NoServiceKey}, age : Nat]
    /\ untilRotation \in Nat
    /\ rotator \in [Rotators -> {"idle", "rotate", "record"}]
    /\ \/ serviceToken = NoServiceToken
       \/ serviceToken \in [key : ServiceKeys, age : 0 .. ServiceTokenTTL - 1]

\* The token's key is current; or it was replaced during the token's life, less
\* long ago than that, and the loop is not before another rotation: it has yet
\* to record the last one, or has the rest of an interval to wait, which is
\* longer than the rest of the token's life.
TokenCovered ==
    \/ serviceToken.key = manager.cur
    \/ /\ serviceToken.key = manager.prev
       /\ manager.age <= serviceToken.age
       /\ \/ rotator["loop"] = "record"
          \/ rotator["loop"] = "idle" /\ untilRotation + serviceToken.age >= RotationInterval

ServiceInd ==
    /\ ServiceTyped
    /\ serviceToken = NoServiceToken \/ forced = TRUE \/ (forced = FALSE /\ TokenCovered)

LEMMA ServiceKeyExists ==
    ASSUME ServiceTyped PROVE defaultKeyGenerator \in ServiceKeys
<1>1. PICK a, b, c : a = manager.cur /\ b = manager.prev /\ c = serviceToken.key
  OBVIOUS
<1>2. \E k \in ServiceKeys : k \notin {a, b, c}
  <2>1. {1, 2, 3, 4} \subseteq ServiceKeys
    BY DEF ServiceKeys
  <2>2. \E k \in {1, 2, 3, 4} : k \notin {a, b, c}
    OBVIOUS
  <2> QED
    BY <2>1, <2>2
<1> QED
  BY <1>1, <1>2 DEF defaultKeyGenerator

LEMMA ServiceStarts == ServiceInit => ServiceInd
BY ServiceAuthAssumption
   DEF ServiceInit, ServiceInd, ServiceTyped, ServiceKeys, NoServiceKey, Rotators

LEMMA ServiceStep == ServiceInd /\ [ServiceNext]_serviceVars => ServiceInd'
<1> SUFFICES ASSUME ServiceInd, [ServiceNext]_serviceVars PROVE ServiceInd'
  OBVIOUS
<1>a. ServiceTyped
  BY DEF ServiceInd
<1>b. /\ RotationInterval \in Nat /\ OverlapPeriod \in Nat /\ ServiceTokenTTL \in Nat
      /\ ServiceTokenTTL > 0 /\ ServiceTokenTTL <= OverlapPeriod /\ RotationInterval > OverlapPeriod
  BY ServiceAuthAssumption
<1>1. CASE UNCHANGED serviceVars
  BY <1>1 DEF ServiceInd, ServiceTyped, TokenCovered, serviceVars
<1>2. CASE CheckRotation
  <2>1. /\ rotator' \in [Rotators -> {"idle", "rotate", "record"}]
        /\ rotator["loop"] = "idle" /\ untilRotation = 0
        /\ UNCHANGED <<manager, untilRotation, serviceToken, forced>>
    BY <1>2, <1>a DEF CheckRotation, ServiceTyped, Rotators
  <2>2. serviceToken # NoServiceToken /\ TokenCovered => serviceToken.key = manager.cur
    BY <1>a, <1>b, <2>1 DEF TokenCovered, ServiceTyped
  <2> QED
    BY <1>a, <2>1, <2>2 DEF ServiceInd, ServiceTyped, TokenCovered
<1>3. CASE ForceRotate
  <2>1. /\ rotator' \in [Rotators -> {"idle", "rotate", "record"}]
        /\ rotator'["loop"] = rotator["loop"]
        /\ UNCHANGED <<manager, untilRotation, serviceToken, forced>>
    BY <1>3, <1>a DEF ForceRotate, ServiceTyped, Rotators
  <2> QED
    BY <1>a, <2>1 DEF ServiceInd, ServiceTyped, TokenCovered
<1>4. ASSUME NEW r \in Rotators, RotateFails(r) PROVE ServiceInd'
  <2>1. /\ rotator' \in [Rotators -> {"idle", "rotate", "record"}]
        /\ rotator["loop"] = "idle" \/ rotator["loop"] = "record" => rotator'["loop"] = rotator["loop"]
        /\ UNCHANGED <<manager, untilRotation, serviceToken, forced>>
    BY <1>4, <1>a DEF RotateFails, ServiceTyped, Rotators
  <2> QED
    BY <1>a, <2>1 DEF ServiceInd, ServiceTyped, TokenCovered
<1>5. ASSUME NEW r \in Rotators, RotateKey(r) PROVE ServiceInd'
  <2>1. PICK k : k = defaultKeyGenerator
    OBVIOUS
  <2>2. k \in ServiceKeys
    BY <1>a, <2>1, ServiceKeyExists
  <2>3. manager' = [cur |-> k, prev |-> manager.cur, age |-> 0] /\ manager.cur \in ServiceKeys
    BY <1>5, <1>a, <2>1 DEF RotateKey, ServiceTyped
  <2>4. /\ rotator' \in [Rotators -> {"idle", "rotate", "record"}]
        /\ rotator[r] = "rotate" /\ rotator'[r] = "record"
        /\ UNCHANGED <<untilRotation, serviceToken>>
    BY <1>5, <1>a DEF RotateKey, ServiceTyped, Rotators
  <2>5. ServiceTyped'
    BY <1>a, <2>2, <2>3, <2>4 DEF ServiceTyped
  <2>6. CASE serviceToken = NoServiceToken
    BY <2>4, <2>5, <2>6 DEF ServiceInd
  <2>7. CASE serviceToken # NoServiceToken /\ r = "force"
    BY <1>5, <2>5, <2>7 DEF ServiceInd, RotateKey
  <2>8. CASE serviceToken # NoServiceToken /\ r = "loop"
    <3>1. forced = TRUE => forced' = TRUE
      BY <1>5 DEF RotateKey
    <3>2. forced = FALSE => forced' = FALSE
      BY <1>5, <2>8 DEF RotateKey
    <3>3. TokenCovered => TokenCovered'
      <4>1. TokenCovered => serviceToken.key = manager.cur
        BY <2>4, <2>8 DEF TokenCovered
      <4>2. manager'.prev = manager.cur /\ manager'.age = 0 /\ serviceToken'.age >= 0
        BY <1>a, <2>3, <2>4, <2>8 DEF ServiceTyped
      <4> QED
        BY <2>4, <2>8, <4>1, <4>2 DEF TokenCovered
    <3> QED
      BY <2>5, <2>8, <3>1, <3>2, <3>3 DEF ServiceInd
  <2> QED
    BY <2>6, <2>7, <2>8 DEF Rotators
<1>6. ASSUME NEW r \in Rotators, RecordRotation(r) PROVE ServiceInd'
  <2>1. /\ rotator' \in [Rotators -> {"idle", "rotate", "record"}]
        /\ rotator["loop"] = "idle" \/ rotator["loop"] = "record"
              => rotator'["loop"] = "record" \/ rotator'["loop"] = "idle"
        /\ untilRotation' = RotationInterval
        /\ UNCHANGED <<manager, serviceToken, forced>>
    BY <1>6, <1>a DEF RecordRotation, ServiceTyped, Rotators
  <2>2. serviceToken # NoServiceToken => serviceToken.age \in Nat
    BY <1>a, <1>b DEF ServiceTyped
  <2>3. ServiceTyped'
    BY <1>a, <1>b, <2>1 DEF ServiceTyped
  <2>4. serviceToken # NoServiceToken /\ TokenCovered => TokenCovered'
    BY <1>b, <2>1, <2>2 DEF TokenCovered
  <2> QED
    BY <2>1, <2>3, <2>4 DEF ServiceInd
<1>7. CASE StopLoop \/ SetAvailable
  BY <1>7 DEF StopLoop, SetAvailable, ServiceInd, ServiceTyped, TokenCovered
<1>8. CASE IssueToken
  <2>1. serviceToken' = [key |-> manager.cur, age |-> 0] /\ forced' = FALSE
        /\ UNCHANGED <<manager, untilRotation, rotator>>
    BY <1>8 DEF IssueToken
  <2>2. ServiceTyped'
    BY <1>a, <1>b, <2>1 DEF ServiceTyped
  <2>3. TokenCovered'
    BY <2>1 DEF TokenCovered
  <2> QED
    BY <2>1, <2>2, <2>3 DEF ServiceInd
<1>9. CASE ServiceTick
  <2>1. PICK a : a = Min({manager.age + 1, OverlapPeriod + 1})
    OBVIOUS
  <2>2. a \in Nat /\ a <= manager.age + 1
    <3>1. manager.age + 1 \in Nat /\ OverlapPeriod + 1 \in Nat
      BY <1>a, <1>b DEF ServiceTyped
    <3> QED
      BY <2>1, <3>1, MinOfTwo
  <2>3. /\ manager' \in [cur : ServiceKeys, prev : ServiceKeys \cup {NoServiceKey}, age : Nat]
        /\ manager'.cur = manager.cur /\ manager'.prev = manager.prev /\ manager'.age = a
    BY <1>9, <1>a, <2>1, <2>2 DEF ServiceTick, ServiceTyped
  <2>4. untilRotation' \in Nat /\ untilRotation' >= untilRotation - 1 /\ UNCHANGED <<rotator, forced>>
    BY <1>9, <1>a DEF ServiceTick, ServiceTyped
  <2>5. CASE serviceToken = NoServiceToken \/ serviceToken.age + 1 >= ServiceTokenTTL
    <3>1. serviceToken' = NoServiceToken
      BY <1>9, <2>5 DEF ServiceTick
    <3> QED
      BY <1>a, <2>3, <2>4, <3>1 DEF ServiceInd, ServiceTyped
  <2>6. CASE ~(serviceToken = NoServiceToken \/ serviceToken.age + 1 >= ServiceTokenTTL)
    <3>1. serviceToken' = [serviceToken EXCEPT !.age = serviceToken.age + 1]
      BY <1>9, <2>6 DEF ServiceTick
    <3>2. serviceToken \in [key : ServiceKeys, age : 0 .. ServiceTokenTTL - 1]
      BY <1>a, <2>6 DEF ServiceTyped
    <3>3. /\ serviceToken' \in [key : ServiceKeys, age : 0 .. ServiceTokenTTL - 1]
          /\ serviceToken'.key = serviceToken.key /\ serviceToken'.age = serviceToken.age + 1
          /\ serviceToken.age \in Nat
      BY <1>b, <2>6, <3>1, <3>2
    <3>4. ServiceTyped'
      BY <1>a, <2>3, <2>4, <3>3 DEF ServiceTyped
    <3>5. TokenCovered => TokenCovered'
      <4>1. manager.age \in Nat /\ untilRotation \in Nat
        BY <1>a DEF ServiceTyped
      <4> QED
        BY <1>b, <2>2, <2>3, <2>4, <3>3, <4>1 DEF TokenCovered
    <3> QED
      BY <2>4, <2>6, <3>4, <3>5 DEF ServiceInd
  <2> QED
    BY <2>5, <2>6
<1> QED
  BY <1>1, <1>2, <1>3, <1>4, <1>5, <1>6, <1>7, <1>8, <1>9 DEF ServiceNext

\* The overlap of pkg/serviceauth covers every token: while the validator is
\* available and nobody calls ForceRotate during its life, a token is accepted
\* until it expires, for every interval longer than the overlap and every token
\* life within it, and however slowly the loop's goroutine gets on between the
\* check, RotateKey and the update of nextRotation.
THEOREM ServiceTokensAreCovered == AccessSpec => []OverlapCoversTokens
<1>1. AccessInit => ServiceInd
  BY ServiceStarts DEF AccessInit
<1>2. ServiceInd /\ [AccessNext]_accessVars => ServiceInd'
  BY StepOfEachRealm, ServiceStep
<1>3. ServiceInd => OverlapCoversTokens
  <2> SUFFICES ASSUME ServiceInd, serviceToken # NoServiceToken, available, ~forced
               PROVE  ValidateToken(serviceToken) = "claims"
    BY DEF OverlapCoversTokens
  <2>1. TokenCovered /\ ServiceTyped
    BY DEF ServiceInd
  <2>2. /\ serviceToken \in [key : ServiceKeys, age : 0 .. ServiceTokenTTL - 1]
        /\ serviceToken.age \in Nat /\ serviceToken.age < ServiceTokenTTL
        /\ serviceToken.age <= OverlapPeriod /\ serviceToken.key # NoServiceKey /\ manager.age \in Nat
    BY <2>1, ServiceAuthAssumption DEF ServiceTyped, ServiceKeys, NoServiceKey
  <2>3. serviceToken.key \in ValidationKeys
    BY <2>1, <2>2, ServiceAuthAssumption DEF TokenCovered, ValidationKeys
  <2> QED
    BY <2>2, <2>3 DEF ValidateToken, parseServiceToken
<1> QED
  BY <1>1, <1>2, <1>3, PTL DEF AccessSpec

-----------------------------------------------------------------------------
(* The devices of a user. *)

RequestStages == {"idle", "count", "trim", "create", "issue", "revoke", "find", "logout"}

Requests ==
    [at : RequestStages, n : Int, tokens : SUBSET RefreshTokens, login : Logins \cup {0}]

\* A device that waits works for no login.
UsersTyped ==
    /\ sessions \in Nat
    /\ sessionErrors \in Nat
    /\ refreshToken \in [RefreshTokens -> Logins \cup {0}]
    /\ device \in [Devices -> Requests]
    /\ \A d \in Devices : device[d].at = "idle" => device[d].login = 0

\* A function has no more values than arguments.
LEMMA ImageSize ==
    ASSUME NEW f, NEW S, IsFiniteSet(S)
    PROVE  /\ IsFiniteSet({f[x] : x \in S})
           /\ Cardinality({f[x] : x \in S}) \in Nat
           /\ Cardinality({f[x] : x \in S}) <= Cardinality(S)
<1> DEFINE T == {f[x] : x \in S}
           g == [x \in S |-> f[x]]
<1>1. g \in Surjection(S, T)
  BY DEF Surjection
<1> HIDE DEF g, T
<1>2. IsFiniteSet(T) /\ Cardinality(T) <= Cardinality(S)
  BY <1>1, FS_Surjection
<1>3. Cardinality(T) \in Nat
  BY <1>2, FS_CardinalityType
<1> QED
  BY <1>2, <1>3 DEF T

\* There is always a number for a new login.
LEMMA NewLoginIsNew ==
    ASSUME UsersTyped, NEW d \in Devices, device[d].at = "idle"
    PROVE  NewLogin \in Logins /\ NewLogin \notin LiveLogins
<1> DEFINE A == {refreshToken[t] : t \in Valid}
           login == [e \in Devices |-> device[e].login]
           B == {login[e] : e \in Devices \ {d}}
<1>1. /\ IsFiniteSet(A) /\ Cardinality(A) \in Nat
      /\ Cardinality(A) <= Cardinality(RefreshTokens) /\ Cardinality(RefreshTokens) \in Nat
  <2>1. IsFiniteSet(RefreshTokens) /\ Valid \in SUBSET RefreshTokens
    BY SessionsAssumption DEF Valid
  <2>2. IsFiniteSet(Valid) /\ Cardinality(Valid) <= Cardinality(RefreshTokens)
        /\ Cardinality(Valid) \in Nat /\ Cardinality(RefreshTokens) \in Nat
    BY <2>1, FS_Subset, FS_CardinalityType
  <2>3. IsFiniteSet(A) /\ Cardinality(A) \in Nat /\ Cardinality(A) <= Cardinality(Valid)
    BY <2>2, ImageSize
  <2> HIDE DEF A
  <2> QED
    BY <2>2, <2>3
<1>2. /\ IsFiniteSet(B) /\ Cardinality(B) \in Nat
      /\ Cardinality(B) <= Cardinality(Devices) - 1 /\ Cardinality(Devices) \in Nat
  <2>1. IsFiniteSet(Devices)
    BY SessionsAssumption
  <2>2. IsFiniteSet(Devices \ {d}) /\ Cardinality(Devices \ {d}) = Cardinality(Devices) - 1
        /\ Cardinality(Devices) \in Nat
    BY <2>1, FS_RemoveElement, FS_CardinalityType
  <2> HIDE DEF login
  <2>3. IsFiniteSet(B) /\ Cardinality(B) \in Nat /\ Cardinality(B) <= Cardinality(Devices \ {d})
    BY <2>2, ImageSize
  <2> HIDE DEF B
  <2> QED
    BY <2>2, <2>3
<1>3. LiveLogins \subseteq A \cup B \cup {0}
  <2>1. ASSUME NEW e \in Devices PROVE device[e].login \in B \cup {0}
    BY DEF UsersTyped
  <2> QED
    BY <2>1 DEF LiveLogins
<1> HIDE DEF A, B
<1>4. /\ IsFiniteSet(A \cup B) /\ Cardinality(A \cup B) \in Nat
      /\ Cardinality(A \cup B) <= Cardinality(RefreshTokens) + Cardinality(Devices) - 1
  <2>1. IsFiniteSet(A \cup B) /\ Cardinality(A \cup B) = Cardinality(A) + Cardinality(B) - Cardinality(A \cap B)
    BY <1>1, <1>2, FS_Union
  <2>2. IsFiniteSet(A \cap B)
    <3>1. A \cap B \in SUBSET A
      OBVIOUS
    <3> QED
      BY <1>1, <3>1, FS_Subset
  <2>3. Cardinality(A \cap B) \in Nat /\ Cardinality(A \cup B) \in Nat
    BY <2>1, <2>2, FS_CardinalityType
  <2> QED
    BY <1>1, <1>2, <2>1, <2>3
<1>5. Cardinality(Logins) = Cardinality(RefreshTokens) + Cardinality(Devices)
  <2>1. PICK n \in Nat : n = Cardinality(RefreshTokens) + Cardinality(Devices)
    BY <1>1, <1>2
  <2>2. Cardinality(1 .. n) = IF 1 > n THEN 0 ELSE n - 1 + 1
    BY FS_Interval
  <2> QED
    BY <2>1, <2>2 DEF Logins
<1>6. Logins \ LiveLogins # {}
  <2> SUFFICES ASSUME Logins \subseteq LiveLogins PROVE FALSE
    OBVIOUS
  <2>1. 0 \notin Logins
    BY <1>1, <1>2 DEF Logins
  <2>2. Logins \in SUBSET (A \cup B)
    BY <1>3, <2>1
  <2>3. Cardinality(Logins) <= Cardinality(A \cup B)
    BY <1>4, <2>2, FS_Subset
  <2> QED
    BY <1>1, <1>2, <1>4, <1>5, <2>3
<1>7. Logins \ LiveLogins \in SUBSET Nat
  BY <1>1, <1>2 DEF Logins
<1> QED
  BY <1>6, <1>7, MinOfNaturals DEF NewLogin

\* The request a step leaves with a device.
LEMMA RequestAfter ==
    ASSUME UsersTyped, NEW d \in Devices, NEW request \in Requests,
           request.at = "idle" => request.login = 0,
           device' = [device EXCEPT ![d] = request]
    PROVE  /\ device' \in [Devices -> Requests]
           /\ \A e \in Devices : device'[e].at = "idle" => device'[e].login = 0
           /\ device'[d] = request
           /\ \A e \in Devices \ {d} : device'[e] = device[e]
BY DEF UsersTyped

LEMMA NoRequestTyped ==
    NoRequest \in Requests /\ NoRequest.at = "idle" /\ NoRequest.login = 0 /\ NoRequest.tokens = {}
BY DEF NoRequest, Requests, RequestStages

LEMMA StagesKnown ==
    {"count", "trim", "create", "issue", "revoke", "find", "logout"} \subseteq RequestStages
BY DEF RequestStages

LEMMA RevokedTyped ==
    ASSUME UsersTyped, NEW ts PROVE Revoked(ts) \in [RefreshTokens -> Logins \cup {0}]
BY DEF UsersTyped, Revoked

\* What each operation of a device leaves it with.
RequestOf(d, request) ==
    /\ request \in Requests
    /\ request.at = "idle" => request.login = 0
    /\ device' = [device EXCEPT ![d] = request]

LEMMA LoginLeaves ==
    ASSUME UsersTyped, NEW d \in Devices, Register(d) \/ Login(d)
    PROVE  \E request : /\ RequestOf(d, request)
                        /\ request.at = "count" /\ request.tokens = {} /\ request.login = NewLogin
                        /\ device[d].at = "idle" /\ NewLogin \in Logins /\ NewLogin \notin LiveLogins
                        /\ split' = split \cap LiveLogins
                        /\ UNCHANGED <<sessions, refreshToken, sessionErrors>>
<1>1. PICK login, r : login = NewLogin /\ r = NoRequest
  OBVIOUS
<1>2. PICK request : /\ request = [r EXCEPT !.at = "count", !.login = login]
                     /\ device' = [device EXCEPT ![d] = request]
                     /\ device[d].at = "idle"
                     /\ split' = split \cap LiveLogins
                     /\ UNCHANGED <<sessions, refreshToken, sessionErrors>>
  BY <1>1 DEF Register, Login, Begin
<1>3. login \in Logins /\ login \notin LiveLogins
  BY <1>1, <1>2, NewLoginIsNew
<1>4. request \in Requests /\ request.at = "count" /\ request.tokens = {} /\ request.login = login
  <2>1. r \in Requests /\ r.tokens = {} /\ "count" \in RequestStages /\ login \in Logins \cup {0}
    BY <1>1, <1>3, NoRequestTyped, StagesKnown
  <2> QED
    BY <1>2, <2>1 DEF Requests
<1> QED
  BY <1>1, <1>2, <1>3, <1>4 DEF RequestOf

LEMMA StageLeaves ==
    ASSUME UsersTyped, NEW d \in Devices,
           CountByUser(d) \/ CreateSession(d) \/ SessionStatementFails(d)
    PROVE  \E request : /\ RequestOf(d, request)
                        /\ device[d].at \in {"count", "trim", "create"}
                        /\ request.at \in {"trim", "create", "issue"}
                        /\ request.tokens = device[d].tokens /\ request.login = device[d].login
                        /\ CountByUser(d) => request.at = AfterCount(sessions) /\ request.n = sessions
                        /\ CreateSession(d) => request.at = "issue"
                        /\ UNCHANGED <<refreshToken, split>>
<1>0. PICK r : r = device[d]
  OBVIOUS
<1>1. sessions \in Nat /\ device \in [Devices -> Requests] /\ r \in Requests
  BY <1>0 DEF UsersTyped
<1>b. sessions \in Int /\ r.n - 1 \in Int /\ 0 \in Int
  BY <1>1 DEF Requests
<1>c. {"trim", "create", "issue"} \subseteq RequestStages
  BY StagesKnown
<1>2. CASE CountByUser(d)
  <2>1. PICK request : /\ request = [r EXCEPT !.at = AfterCount(sessions), !.n = sessions]
                       /\ device' = [device EXCEPT ![d] = request]
    BY <1>0, <1>1, <1>2 DEF CountByUser
  <2>2. AfterCount(sessions) \in {"trim", "create"}
    BY DEF AfterCount
  <2>3. /\ request \in Requests /\ request.at = AfterCount(sessions) /\ request.n = sessions
        /\ request.tokens = r.tokens /\ request.login = r.login
    BY <1>1, <1>b, <1>c, <2>1, <2>2 DEF Requests
  <2>4. r.at = "count" /\ UNCHANGED <<refreshToken, split>>
    BY <1>0, <1>2 DEF CountByUser
  <2>5. ~CreateSession(d)
    BY <1>0, <2>4 DEF CreateSession
  <2> QED
    BY <1>0, <2>1, <2>2, <2>3, <2>4, <2>5 DEF RequestOf
<1>4. CASE CreateSession(d)
  <2>1. PICK request : /\ request = [r EXCEPT !.at = "issue", !.n = 0]
                       /\ device' = [device EXCEPT ![d] = request]
    BY <1>0, <1>1, <1>4 DEF CreateSession
  <2>2. /\ request \in Requests /\ request.at = "issue"
        /\ request.tokens = r.tokens /\ request.login = r.login
    BY <1>1, <1>b, <1>c, <2>1 DEF Requests
  <2>3. r.at = "create" /\ UNCHANGED <<refreshToken, split>>
    BY <1>0, <1>4 DEF CreateSession
  <2>4. ~CountByUser(d)
    BY <1>0, <2>3 DEF CountByUser
  <2> QED
    BY <1>0, <2>1, <2>2, <2>3, <2>4 DEF RequestOf
<1>5. CASE SessionStatementFails(d)
  <2>1. PICK at : at = IF r.at = "create" THEN "issue" ELSE "create"
    OBVIOUS
  <2>2. PICK request : /\ request = [r EXCEPT !.at = at, !.n = 0]
                       /\ device' = [device EXCEPT ![d] = request]
    BY <1>0, <1>1, <1>5, <2>1 DEF SessionStatementFails
  <2>3. /\ request \in Requests /\ request.at = at /\ at \in {"create", "issue"}
        /\ request.tokens = r.tokens /\ request.login = r.login
    BY <1>1, <1>b, <1>c, <2>1, <2>2 DEF Requests
  <2>4. r.at \in {"count", "trim", "create"} /\ UNCHANGED <<refreshToken, split, sessions>>
        /\ sessionErrors' = sessionErrors + 1 /\ sessionErrors \in Nat
    BY <1>0, <1>5 DEF SessionStatementFails, UsersTyped
  <2>5. ~CreateSession(d) /\ ~CountByUser(d)
    BY <1>0, <2>4 DEF CreateSession, CountByUser
  <2> QED
    BY <1>0, <2>2, <2>3, <2>4, <2>5 DEF RequestOf
<1> QED
  BY <1>2, <1>4, <1>5

LEMMA TrimLeaves ==
    ASSUME UsersTyped, NEW ds \in SUBSET Devices, DeleteOldest(ds)
    PROVE  /\ device' \in [Devices -> Requests]
           /\ \A d \in ds : /\ device[d].at = "trim"
                            /\ device'[d].at = AfterCount(device[d].n - 1)
                            /\ device'[d].at \in {"trim", "create"}
                            /\ device'[d].n = device[d].n - 1
                            /\ device'[d].login = device[d].login
           /\ \A d \in Devices \ ds : device'[d] = device[d]
           /\ UNCHANGED <<refreshToken, split, sessionErrors>>
<1>1. ASSUME NEW d \in ds
      PROVE  /\ device'[d] \in Requests /\ device[d].at = "trim"
             /\ device'[d].at = AfterCount(device[d].n - 1)
             /\ device'[d].at \in {"trim", "create"}
             /\ device'[d].n = device[d].n - 1
             /\ device'[d].login = device[d].login
  <2>1. PICK r, at : r = device[d] /\ at = AfterCount(r.n - 1)
    OBVIOUS
  <2>2. r \in Requests /\ at \in {"trim", "create"} /\ at \in RequestStages
    BY <1>1, <2>1, StagesKnown DEF UsersTyped, AfterCount
  <2>3. PICK request : request = [r EXCEPT !.at = at, !.n = r.n - 1]
    OBVIOUS
  <2>4. PICK n : n = r.n - 1 /\ n \in Int
    BY <2>2 DEF Requests
  <2>5. request \in Requests /\ request.at = at /\ request.n = n /\ request.login = r.login
    BY <2>2, <2>3, <2>4 DEF Requests
  <2>6. device'[d] = request /\ r.at = "trim"
    BY <1>1, <2>1, <2>3 DEF DeleteOldest
  <2> QED
    BY <2>1, <2>2, <2>4, <2>5, <2>6
<1>2. \A d \in Devices \ ds : device'[d] = device[d] /\ device[d] \in Requests
  BY DEF DeleteOldest, UsersTyped
<1>3. device' \in [Devices -> Requests]
  <2>1. \A d \in Devices : device'[d] \in Requests
    BY <1>1, <1>2
  <2>2. device' = [d \in Devices |-> device'[d]]
    BY DEF DeleteOldest
  <2> QED
    BY <2>1, <2>2
<1>4. UNCHANGED <<refreshToken, split, sessionErrors>>
  BY DEF DeleteOldest
<1> QED
  BY <1>1, <1>2, <1>3, <1>4

LEMMA RefreshLeaves ==
    ASSUME UsersTyped, NEW d \in Devices, Refresh(d) \/ Logout(d)
    PROVE  \E t \in Valid : \E request :
              /\ RequestOf(d, request)
              /\ device[d].at = "idle"
              /\ request.tokens = {t}
              /\ \/ request.at = "revoke" /\ request.login = refreshToken[t]
                 \/ request.at = "logout" /\ request.login = 0
              /\ split' = split \cap LiveLogins
              /\ UNCHANGED <<sessions, refreshToken, sessionErrors>>
<1>0. UNCHANGED <<sessions, refreshToken, sessionErrors>>
  BY DEF Refresh, Logout
<1>1. CASE Refresh(d)
  <2>1. PICK t \in Valid :
           Begin(d, [NoRequest EXCEPT !.at = "revoke", !.tokens = {t}, !.login = refreshToken[t]])
    BY <1>1 DEF Refresh
  <2>2. PICK login, r : login = refreshToken[t] /\ r = NoRequest
    OBVIOUS
  <2>3. PICK request : /\ request = [r EXCEPT !.at = "revoke", !.tokens = {t}, !.login = login]
                       /\ device' = [device EXCEPT ![d] = request]
                       /\ device[d].at = "idle" /\ split' = split \cap LiveLogins
    BY <2>1, <2>2 DEF Begin
  <2>4. t \in RefreshTokens /\ login \in Logins \cup {0}
    BY <2>2 DEF Valid, UsersTyped
  <2>5. request \in Requests /\ request.at = "revoke" /\ request.tokens = {t} /\ request.login = login
    <3>1. r \in Requests /\ "revoke" \in RequestStages /\ {t} \in SUBSET RefreshTokens
      BY <2>2, <2>4, NoRequestTyped, StagesKnown
    <3> QED
      BY <2>3, <2>4, <3>1 DEF Requests
  <2> QED
    BY <1>0, <2>2, <2>3, <2>5 DEF RequestOf
<1>2. CASE Logout(d)
  <2>1. PICK t \in Valid : Begin(d, [NoRequest EXCEPT !.at = "logout", !.tokens = {t}])
    BY <1>2 DEF Logout
  <2>0. PICK r : r = NoRequest
    OBVIOUS
  <2>2. PICK request : /\ request = [r EXCEPT !.at = "logout", !.tokens = {t}]
                       /\ device' = [device EXCEPT ![d] = request]
                       /\ device[d].at = "idle" /\ split' = split \cap LiveLogins
    BY <2>0, <2>1 DEF Begin
  <2>3. t \in RefreshTokens
    BY DEF Valid
  <2>4. request \in Requests /\ request.at = "logout" /\ request.tokens = {t} /\ request.login = 0
    <3>1. r \in Requests /\ r.login = 0 /\ "logout" \in RequestStages /\ {t} \in SUBSET RefreshTokens
      BY <2>0, <2>3, NoRequestTyped, StagesKnown
    <3> QED
      BY <2>2, <3>1 DEF Requests
  <2> QED
    BY <1>0, <2>2, <2>4 DEF RequestOf
<1> QED
  BY <1>1, <1>2

LEMMA RevokeLeaves ==
    ASSUME UsersTyped, NEW d \in Devices, Revoke(d) \/ FindByID(d)
    PROVE  \E request :
              /\ RequestOf(d, request)
              /\ Revoke(d) => /\ device[d].at = "revoke" /\ request.at = "find"
                              /\ request.tokens = device[d].tokens /\ request.login = device[d].login
              /\ FindByID(d) => /\ device[d].at = "find"
                                /\ \/ request = NoRequest
                                   \/ /\ request.at = "issue" /\ request.tokens = {}
                                      /\ request.login = device[d].login
              /\ UNCHANGED <<sessions, sessionErrors>>
<1>1. device \in [Devices -> Requests] /\ device[d] \in Requests
  BY DEF UsersTyped
<1>2. CASE Revoke(d)
  <2>1. PICK request : /\ request = [device[d] EXCEPT !.at = "find"]
                       /\ device' = [device EXCEPT ![d] = request]
    BY <1>1, <1>2 DEF Revoke, Step
  <2>2. /\ request \in Requests /\ request.at = "find"
        /\ request.tokens = device[d].tokens /\ request.login = device[d].login
    BY <1>1, <2>1 DEF Requests, RequestStages
  <2>3. device[d].at = "revoke" /\ UNCHANGED <<sessions, sessionErrors>>
    BY <1>2 DEF Revoke
  <2>4. ~FindByID(d)
    BY <2>3 DEF FindByID
  <2> QED
    BY <2>1, <2>2, <2>3, <2>4 DEF RequestOf
<1>3. CASE FindByID(d)
  <2>1. PICK request : /\ request = IF account = "deleted" THEN NoRequest
                                    ELSE [device[d] EXCEPT !.at = "issue", !.tokens = {}]
                       /\ device' = [device EXCEPT ![d] = request]
    BY <1>1, <1>3 DEF FindByID
  <2>2. \/ request = NoRequest
        \/ /\ request \in Requests /\ request.at = "issue" /\ request.tokens = {}
           /\ request.login = device[d].login
    BY <1>1, <2>1 DEF Requests, RequestStages
  <2>3. device[d].at = "find" /\ UNCHANGED <<sessions, sessionErrors>>
    BY <1>3 DEF FindByID
  <2>4. ~Revoke(d)
    BY <2>3 DEF Revoke
  <2> QED
    BY <2>1, <2>2, <2>3, <2>4, NoRequestTyped DEF RequestOf
<1> QED
  BY <1>2, <1>3

LEMMA UsersStart == SessionsInit => UsersTyped
BY NoRequestTyped DEF SessionsInit, UsersTyped

LEMMA UsersStep == UsersTyped /\ [SessionsNext]_sessionVars => UsersTyped'
<1> SUFFICES ASSUME UsersTyped, [SessionsNext]_sessionVars PROVE UsersTyped'
  OBVIOUS
<1>a. /\ sessions \in Nat /\ sessionErrors \in Nat
      /\ refreshToken \in [RefreshTokens -> Logins \cup {0}]
      /\ device \in [Devices -> Requests]
  BY DEF UsersTyped
\* Most steps leave a device with another request.
<1>b. ASSUME NEW d \in Devices, NEW request, RequestOf(d, request), sessions' \in Nat, sessionErrors' \in Nat,
             refreshToken' \in [RefreshTokens -> Logins \cup {0}]
      PROVE  UsersTyped'
  <2>1. /\ device' \in [Devices -> Requests]
        /\ \A e \in Devices : device'[e].at = "idle" => device'[e].login = 0
    BY <1>b, RequestAfter DEF RequestOf
  <2> QED
    BY <1>b, <2>1 DEF UsersTyped
<1>1. CASE UNCHANGED <<sessions, refreshToken, device, sessionErrors>>
  BY <1>1 DEF UsersTyped
<1>2. ASSUME NEW d \in Devices, Register(d) \/ Login(d) PROVE UsersTyped'
  BY <1>2, <1>a, <1>b, LoginLeaves
<1>3. ASSUME NEW d \in Devices,
             CountByUser(d) \/ CreateSession(d) \/ SessionStatementFails(d)
      PROVE  UsersTyped'
  <2>1. sessions' \in Nat /\ sessionErrors' \in Nat
    BY <1>3, <1>a DEF CountByUser, CreateSession, SessionStatementFails
  <2> QED
    BY <1>3, <1>a, <1>b, <2>1, StageLeaves
<1>4. ASSUME NEW d \in Devices, IssueRefreshToken(d) PROVE UsersTyped'
  <2>1. RequestOf(d, NoRequest) /\ UNCHANGED <<sessions, sessionErrors>>
    BY <1>4, NoRequestTyped DEF IssueRefreshToken, RequestOf
  <2>2. device[d].login \in Logins \cup {0}
    BY <1>a DEF Requests
  <2>3. refreshToken' \in [RefreshTokens -> Logins \cup {0}]
    BY <1>4, <1>a, <2>2 DEF IssueRefreshToken
  <2> QED
    BY <1>a, <1>b, <2>1, <2>3
<1>5. ASSUME NEW d \in Devices, Refresh(d) \/ Logout(d) PROVE UsersTyped'
  BY <1>5, <1>a, <1>b, RefreshLeaves
<1>6. ASSUME NEW d \in Devices, Revoke(d) \/ FindByID(d) PROVE UsersTyped'
  <2>1. refreshToken' \in [RefreshTokens -> Logins \cup {0}]
    BY <1>6, <1>a, RevokedTyped DEF Revoke, FindByID
  <2> QED
    BY <1>6, <1>a, <1>b, <2>1, RevokeLeaves
<1>7. ASSUME NEW d \in Devices, LogoutRevokes(d) \/ RequestFails(d) PROVE UsersTyped'
  <2>1. RequestOf(d, NoRequest) /\ UNCHANGED <<sessions, sessionErrors>>
    BY <1>7, NoRequestTyped DEF LogoutRevokes, RequestFails, RequestOf
  <2>2. refreshToken' \in [RefreshTokens -> Logins \cup {0}]
    BY <1>7, <1>a, RevokedTyped DEF LogoutRevokes, RequestFails
  <2> QED
    BY <1>a, <1>b, <2>1, <2>2
<1>8. CASE RefreshTokenExpires
  BY <1>8, <1>a, RevokedTyped DEF RefreshTokenExpires, UsersTyped
<1>9. CASE SetActive \/ SoftDelete
  BY <1>1, <1>9 DEF SetActive, SoftDelete
<1>10. CASE UNCHANGED sessionVars
  BY <1>1, <1>10 DEF sessionVars
<1>t. ASSUME NEW ds \in SUBSET Devices, DeleteOldest(ds) PROVE UsersTyped'
  <2>1. sessions' \in Nat
    <3>1. sessions' = IF sessions = 0 THEN 0 ELSE sessions - 1
      BY <1>t DEF DeleteOldest
    <3> QED
      BY <1>a, <3>1
  <2>2. /\ device' \in [Devices -> Requests] /\ UNCHANGED <<refreshToken, sessionErrors>>
        /\ \A e \in Devices : device'[e].at = "idle" => device'[e].login = 0
    BY <1>t, TrimLeaves DEF UsersTyped
  <2> QED
    BY <1>a, <2>1, <2>2 DEF UsersTyped
<1> QED
  BY <1>2, <1>t, <1>3, <1>4, <1>5, <1>6, <1>7, <1>8, <1>9, <1>10 DEF SessionsNext

LEMMA AllUsersTyped == AccessSpec => []UsersTyped
<1>1. AccessInit => UsersTyped
  BY UsersStart DEF AccessInit
<1>2. UsersTyped /\ [AccessNext]_accessVars => UsersTyped'
  BY StepOfEachRealm, UsersStep
<1> QED
  BY <1>1, <1>2, PTL DEF AccessSpec

-----------------------------------------------------------------------------
(* The number of sessions. *)

\* The devices that are about to insert a row once at most k + 1 - MaxSessions
\* more rows are gone.
Ahead(k) == {d \in Devices : \/ device[d].at = "create"
                             \/ device[d].at = "trim" /\ device[d].n <= k}

\* A login that is about to insert its row has claimed its place already, and
\* one that trims has claimed it among the rows its count has left: this holds
\* of the next count too, so two statements may pick the same row.
PlacesBounded ==
    \A k \in Nat : k >= MaxSessions - 1 =>
        sessions + Cardinality(Ahead(k)) <= Cardinality(Devices) + k + sessionErrors

LEMMA AheadFinite ==
    ASSUME NEW k
    PROVE  /\ IsFiniteSet(Ahead(k)) /\ Cardinality(Ahead(k)) \in Nat
           /\ IsFiniteSet(Devices) /\ Cardinality(Devices) \in Nat
           /\ Cardinality(Ahead(k)) <= Cardinality(Devices)
<1>1. IsFiniteSet(Devices) /\ Ahead(k) \in SUBSET Devices
  BY SessionsAssumption DEF Ahead
<1> QED
  BY <1>1, FS_Subset, FS_CardinalityType

\* The same after a step.
LEMMA AheadFiniteNext ==
    ASSUME NEW k
    PROVE  Cardinality(Ahead(k)') \in Nat /\ Cardinality(Ahead(k)') <= Cardinality(Devices)
<1>1. IsFiniteSet(Devices) /\ Ahead(k)' \in SUBSET Devices
  BY SessionsAssumption DEF Ahead
<1> QED
  BY <1>1, FS_Subset, FS_CardinalityType

LEMMA FewerAhead ==
    ASSUME NEW k, NEW l, Ahead(k)' \subseteq Ahead(l)
    PROVE  Cardinality(Ahead(k)') <= Cardinality(Ahead(l))
BY AheadFinite, FS_Subset

\* What a device's step does to the rows that are about to be.
LEMMA AheadAfter ==
    ASSUME UsersTyped, NEW d \in Devices, NEW request, RequestOf(d, request), NEW k \in Nat
    PROVE  /\ Cardinality(Ahead(k)') <= Cardinality(Ahead(k)) + 1
           /\ request.at \notin {"create", "trim"} => Cardinality(Ahead(k)') <= Cardinality(Ahead(k))
           /\ request.at \notin {"create", "trim"} /\ device[d].at = "create"
                => Cardinality(Ahead(k)') <= Cardinality(Ahead(k)) - 1
           /\ request.at = "trim" /\ ~(request.n <= k) => Cardinality(Ahead(k)') <= Cardinality(Ahead(k))
<1>1. device'[d] = request /\ \A e \in Devices \ {d} : device'[e] = device[e]
  BY RequestAfter DEF RequestOf
<1>2. IsFiniteSet(Ahead(k)) /\ Cardinality(Ahead(k)) \in Nat
  BY AheadFinite
<1>3. Ahead(k)' \subseteq Ahead(k) \cup {d}
  BY <1>1 DEF Ahead
<1>4. IsFiniteSet(Ahead(k) \cup {d}) /\ Cardinality(Ahead(k) \cup {d}) \in Nat
      /\ Cardinality(Ahead(k) \cup {d}) <= Cardinality(Ahead(k)) + 1
  BY <1>2, FS_AddElement
<1>5. Cardinality(Ahead(k)') <= Cardinality(Ahead(k)) + 1
  <2>1. Cardinality(Ahead(k)') <= Cardinality(Ahead(k) \cup {d})
    BY <1>3, <1>4, FS_Subset
  <2> QED
    BY <1>2, <1>4, <2>1, AheadFiniteNext
<1>6. ASSUME request.at \notin {"create", "trim"} \/ (request.at = "trim" /\ ~(request.n <= k))
      PROVE  Ahead(k)' \subseteq Ahead(k) \ {d}
  BY <1>1, <1>6 DEF Ahead
<1>7. ASSUME Ahead(k)' \subseteq Ahead(k) \ {d}
      PROVE  /\ Cardinality(Ahead(k)') <= Cardinality(Ahead(k))
             /\ d \in Ahead(k) => Cardinality(Ahead(k)') <= Cardinality(Ahead(k)) - 1
  <2>1. IsFiniteSet(Ahead(k) \ {d})
        /\ Cardinality(Ahead(k) \ {d}) = IF d \in Ahead(k) THEN Cardinality(Ahead(k)) - 1 ELSE Cardinality(Ahead(k))
    BY <1>2, FS_RemoveElement
  <2>2. Cardinality(Ahead(k)') <= Cardinality(Ahead(k) \ {d})
    BY <1>7, <2>1, FS_Subset
  <2> QED
    BY <1>2, <2>1, <2>2, AheadFiniteNext
<1>8. device[d].at = "create" => d \in Ahead(k)
  BY DEF Ahead
<1> QED
  BY <1>5, <1>6, <1>7, <1>8

LEMMA PlacesStart == SessionsInit => PlacesBounded
<1> SUFFICES ASSUME SessionsInit, NEW k \in Nat PROVE
        sessions + Cardinality(Ahead(k)) <= Cardinality(Devices) + k + sessionErrors
  BY DEF PlacesBounded
<1>1. Cardinality(Ahead(k)) <= Cardinality(Devices) /\ Cardinality(Ahead(k)) \in Nat
      /\ Cardinality(Devices) \in Nat
  BY AheadFinite
<1> QED
  BY <1>1 DEF SessionsInit

LEMMA PlacesStep == UsersTyped /\ PlacesBounded /\ [SessionsNext]_sessionVars => PlacesBounded'
<1> SUFFICES ASSUME UsersTyped, PlacesBounded, [SessionsNext]_sessionVars,
                    NEW k \in Nat, k >= MaxSessions - 1
             PROVE  sessions' + Cardinality(Ahead(k)') <= Cardinality(Devices) + k + sessionErrors'
  BY DEF PlacesBounded
<1> DEFINE Goal == sessions' + Cardinality(Ahead(k)') <= Cardinality(Devices) + k + sessionErrors'
<1>a. /\ sessions \in Nat /\ sessionErrors \in Nat
      /\ MaxSessions \in Nat /\ MaxSessions > 0
      /\ Cardinality(Ahead(k)) \in Nat /\ Cardinality(Devices) \in Nat
      /\ Cardinality(Ahead(k)') \in Nat /\ Cardinality(Ahead(k)') <= Cardinality(Devices)
  BY SessionsAssumption, AheadFinite, AheadFiniteNext DEF UsersTyped
<1>c. sessions + Cardinality(Ahead(k)) <= Cardinality(Devices) + k + sessionErrors
  BY DEF PlacesBounded
\* A request that is neither trimming nor about to insert, and leaves the rows
\* alone.
<1>b. ASSUME NEW d \in Devices, NEW request, RequestOf(d, request),
             request.at \notin {"create", "trim"}, UNCHANGED <<sessions, sessionErrors>>
      PROVE  Goal
  <2>1. Cardinality(Ahead(k)') <= Cardinality(Ahead(k))
    BY <1>b, AheadAfter
  <2> QED
    BY <1>a, <1>b, <1>c, <2>1
<1>1. CASE UNCHANGED <<sessions, device, sessionErrors>>
  <2>1. Ahead(k)' = Ahead(k)
    BY <1>1 DEF Ahead
  <2> QED
    BY <1>1, <1>c, <2>1
<1>2. ASSUME NEW d \in Devices, Register(d) \/ Login(d) PROVE Goal
  <2>1. PICK request : RequestOf(d, request) /\ request.at = "count" /\ UNCHANGED <<sessions, sessionErrors>>
    BY <1>2, LoginLeaves
  <2> QED
    BY <1>b, <2>1
<1>3. ASSUME NEW d \in Devices, CountByUser(d) PROVE Goal
  <2>1. PICK request : RequestOf(d, request) /\ request.at = AfterCount(sessions) /\ request.n = sessions
    BY <1>3, StageLeaves
  <2>2. UNCHANGED <<sessions, sessionErrors>>
    BY <1>3 DEF CountByUser
  <2>3. CASE sessions <= k
    BY <1>a, <2>2, <2>3
  <2>4. CASE ~(sessions <= k)
    <3>1. request.at = "trim"
      BY <1>a, <2>1, <2>4 DEF AfterCount
    <3>2. Cardinality(Ahead(k)') <= Cardinality(Ahead(k))
      BY <2>1, <2>4, <3>1, AheadAfter
    <3> QED
      BY <1>a, <1>c, <2>2, <3>2
  <2> QED
    BY <2>3, <2>4
<1>4. ASSUME NEW ds \in SUBSET Devices, DeleteOldest(ds) PROVE Goal
  <2>1. sessions' = (IF sessions = 0 THEN 0 ELSE sessions - 1) /\ sessionErrors' = sessionErrors
    BY <1>4 DEF DeleteOldest
  <2>2. Ahead(k)' \subseteq Ahead(k + 1)
    <3> SUFFICES ASSUME NEW d \in Ahead(k)' PROVE d \in Ahead(k + 1)
      OBVIOUS
    <3>1. d \in Devices /\ (device'[d].at = "create" \/ (device'[d].at = "trim" /\ device'[d].n <= k))
      BY DEF Ahead
    <3>2. CASE d \in ds
      <4>1. PICK n : n = device[d].n
        OBVIOUS
      <4>2. /\ device[d].at = "trim" /\ n \in Int /\ device'[d].n = n - 1
            /\ device'[d].at = AfterCount(n - 1)
        BY <1>4, <3>2, <4>1, TrimLeaves DEF UsersTyped, Requests
      <4>3. n <= k + 1
        BY <1>a, <3>1, <4>2 DEF AfterCount
      <4> QED
        BY <3>1, <4>1, <4>2, <4>3 DEF Ahead
    <3>3. CASE d \notin ds
      <4>1. PICK n : n = device[d].n
        OBVIOUS
      <4>2. device'[d] = device[d] /\ n \in Int
        BY <1>4, <3>1, <3>3, <4>1, TrimLeaves DEF UsersTyped, Requests
      <4>3. n <= k => n <= k + 1
        BY <4>2
      <4> QED
        BY <3>1, <4>1, <4>2, <4>3 DEF Ahead
    <3> QED
      BY <3>2, <3>3
  <2>3. Cardinality(Ahead(k)') <= Cardinality(Ahead(k + 1)) /\ Cardinality(Ahead(k + 1)) \in Nat
    BY <2>2, FewerAhead, AheadFinite
  <2>4. k + 1 \in Nat /\ k + 1 >= MaxSessions - 1
    BY <1>a
  <2>5. sessions + Cardinality(Ahead(k + 1)) <= Cardinality(Devices) + (k + 1) + sessionErrors
    BY <2>4 DEF PlacesBounded
  <2> QED
    BY <1>a, <2>1, <2>3, <2>5
<1>5. ASSUME NEW d \in Devices, CreateSession(d) PROVE Goal
  <2>1. PICK request : RequestOf(d, request) /\ request.at = "issue"
    BY <1>5, StageLeaves
  <2>2. device[d].at = "create" /\ sessions' = sessions + 1 /\ sessionErrors' = sessionErrors
    BY <1>5 DEF CreateSession
  <2>3. Cardinality(Ahead(k)') <= Cardinality(Ahead(k)) - 1
    BY <2>1, <2>2, AheadAfter
  <2> QED
    BY <1>a, <1>c, <2>2, <2>3
<1>6. ASSUME NEW d \in Devices, SessionStatementFails(d) PROVE Goal
  <2>1. sessions' = sessions /\ sessionErrors' = sessionErrors + 1
    BY <1>6 DEF SessionStatementFails
  <2>2. Cardinality(Ahead(k)') <= Cardinality(Ahead(k)) + 1
    BY <1>6, StageLeaves, AheadAfter
  <2> QED
    BY <1>a, <1>c, <2>1, <2>2
<1>7. ASSUME NEW d \in Devices, IssueRefreshToken(d) \/ LogoutRevokes(d) \/ RequestFails(d)
      PROVE  Goal
  <2>1. RequestOf(d, NoRequest) /\ UNCHANGED <<sessions, sessionErrors>>
    BY <1>7, NoRequestTyped DEF IssueRefreshToken, LogoutRevokes, RequestFails, RequestOf
  <2>2. NoRequest.at \notin {"create", "trim"}
    BY NoRequestTyped
  <2> QED
    BY <1>b, <2>1, <2>2
<1>8. ASSUME NEW d \in Devices, Refresh(d) \/ Logout(d) PROVE Goal
  <2>1. PICK request : /\ RequestOf(d, request) /\ request.at \notin {"create", "trim"}
                       /\ UNCHANGED <<sessions, sessionErrors>>
    BY <1>8, RefreshLeaves
  <2> QED
    BY <1>b, <2>1
<1>9. ASSUME NEW d \in Devices, Revoke(d) \/ FindByID(d) PROVE Goal
  <2>1. PICK request : /\ RequestOf(d, request) /\ request.at \notin {"create", "trim"}
                       /\ UNCHANGED <<sessions, sessionErrors>>
    BY <1>9, RevokeLeaves, NoRequestTyped
  <2> QED
    BY <1>b, <2>1
<1>10. CASE RefreshTokenExpires \/ SetActive \/ SoftDelete
  BY <1>1, <1>10 DEF RefreshTokenExpires, SetActive, SoftDelete
<1>11. CASE UNCHANGED sessionVars
  BY <1>1, <1>11 DEF sessionVars
<1> QED
  BY <1>2, <1>3, <1>4, <1>5, <1>6, <1>7, <1>8, <1>9, <1>10, <1>11 DEF SessionsNext

\* However the logins of any number of devices interleave their CountByUser,
\* DeleteOldest and Create, user_sessions never holds more rows than the limit,
\* one for each further concurrent login and one for each failed statement.
THEOREM SessionsAreBounded == AccessSpec => []SessionsBounded
<1>1. AccessInit => PlacesBounded
  BY PlacesStart DEF AccessInit
<1>2. UsersTyped /\ PlacesBounded /\ [AccessNext]_accessVars => PlacesBounded'
  BY StepOfEachRealm, PlacesStep
<1>3. UsersTyped /\ PlacesBounded => SessionsBounded
  <2> SUFFICES ASSUME UsersTyped, PlacesBounded PROVE SessionsBounded
    OBVIOUS
  <2>1. MaxSessions - 1 \in Nat /\ sessions \in Nat /\ sessionErrors \in Nat
    BY SessionsAssumption DEF UsersTyped
  <2>2. sessions + Cardinality(Ahead(MaxSessions - 1)) <= Cardinality(Devices) + (MaxSessions - 1) + sessionErrors
    BY <2>1 DEF PlacesBounded
  <2>3. Cardinality(Ahead(MaxSessions - 1)) \in Nat /\ Cardinality(Devices) \in Nat
    BY AheadFinite
  <2> QED
    BY <2>1, <2>2, <2>3, SessionsAssumption DEF SessionsBounded
<1> QED
  BY <1>1, <1>2, <1>3, AllUsersTyped, PTL DEF AccessSpec

-----------------------------------------------------------------------------
(* The refresh tokens of a login. *)

\* The devices that will issue a token for their login.
Issuing == {d \in Devices : device[d].at \in {"count", "trim", "create", "issue", "find"}}

\* A login that is not split has one heir: a valid token, or a device that will
\* issue one.  The token a refresh is about to revoke is still of its login, or
\* somebody else has revoked it.
OneHeir ==
    /\ \A t, u \in Valid : t # u /\ refreshToken[t] = refreshToken[u] => refreshToken[t] \in split
    /\ \A t \in Valid, d \in Issuing : refreshToken[t] = device[d].login => refreshToken[t] \in split
    /\ \A d, e \in Issuing : d # e /\ device[d].login = device[e].login => device[d].login \in split

RefreshesKnow ==
    /\ \A d \in Issuing : device[d].login # 0
    /\ \A d \in Devices : device[d].at = "revoke" =>
          /\ device[d].login # 0
          /\ \E t \in RefreshTokens : device[d].tokens = {t} /\ refreshToken[t] \in {0, device[d].login}

HeirsInd == OneHeir /\ RefreshesKnow

\* A device comes to a stage from which it issues nothing, and no token and no
\* split login is new.
LEMMA HeirsFewer ==
    ASSUME UsersTyped, HeirsInd, NEW d \in Devices, NEW request, RequestOf(d, request),
           request.at \in {"idle", "logout"}, NEW ts, refreshToken' = Revoked(ts),
           split' = split \/ split' = split \cap LiveLogins
    PROVE  HeirsInd'
<1>1. device'[d] = request /\ \A e \in Devices \ {d} : device'[e] = device[e]
  BY RequestAfter DEF RequestOf
<1>2. \A t \in RefreshTokens : refreshToken'[t] \in {0, refreshToken[t]}
  BY DEF Revoked
<1>3. \A t \in Valid' : t \in Valid /\ refreshToken'[t] = refreshToken[t]
  BY <1>2 DEF Valid
<1>4. \A e \in Issuing' : e \in Issuing /\ device'[e] = device[e]
  BY <1>1 DEF Issuing
<1>5. /\ \A t \in Valid : refreshToken[t] \in split => refreshToken[t] \in split'
      /\ \A e \in Devices : device[e].login \in split => device[e].login \in split'
  BY DEF LiveLogins
<1>6. Issuing \subseteq Devices
  BY DEF Issuing
<1>7. OneHeir'
  BY <1>3, <1>4, <1>5, <1>6 DEF HeirsInd, OneHeir
<1>8. RefreshesKnow'
  BY <1>1, <1>2, <1>4 DEF HeirsInd, RefreshesKnow
<1> QED
  BY <1>7, <1>8 DEF HeirsInd

\* A device that will issue a token goes on for the same login.
LEMMA HeirsSame ==
    ASSUME UsersTyped, HeirsInd, NEW d \in Devices, NEW request, RequestOf(d, request),
           d \in Issuing, request.at \in {"count", "trim", "create", "issue", "find"},
           request.login = device[d].login, UNCHANGED <<refreshToken, split>>
    PROVE  HeirsInd'
<1>1. device'[d] = request /\ \A e \in Devices \ {d} : device'[e] = device[e]
  BY RequestAfter DEF RequestOf
<1>2. Valid' = Valid /\ Issuing' = Issuing /\ Issuing \subseteq Devices
  BY <1>1 DEF Valid, Issuing
<1>3. \A e \in Devices : device'[e].login = device[e].login
  BY <1>1
<1>4. OneHeir'
  BY <1>2, <1>3 DEF HeirsInd, OneHeir
<1>5. RefreshesKnow'
  BY <1>1, <1>2, <1>3 DEF HeirsInd, RefreshesKnow
<1> QED
  BY <1>4, <1>5 DEF HeirsInd

LEMMA HeirsStart == SessionsInit => HeirsInd
<1> SUFFICES ASSUME SessionsInit PROVE HeirsInd
  OBVIOUS
<1>1. Valid = {} /\ Issuing = {} /\ \A d \in Devices : device[d].at = "idle"
  BY NoRequestTyped DEF SessionsInit, Valid, Issuing
<1> QED
  BY <1>1 DEF HeirsInd, OneHeir, RefreshesKnow

LEMMA HeirsStep == UsersTyped /\ HeirsInd /\ [SessionsNext]_sessionVars => HeirsInd'
<1> SUFFICES ASSUME UsersTyped, HeirsInd, [SessionsNext]_sessionVars PROVE HeirsInd'
  OBVIOUS
<1>a. OneHeir /\ RefreshesKnow
  BY DEF HeirsInd
<1>b. Issuing \subseteq Devices /\ Valid \subseteq RefreshTokens
  BY DEF Issuing, Valid
<1>1. CASE UNCHANGED <<refreshToken, device, split>>
  BY <1>1 DEF HeirsInd, OneHeir, RefreshesKnow, Valid, Issuing
<1>2. ASSUME NEW d \in Devices, Register(d) \/ Login(d) PROVE HeirsInd'
  <2>1. PICK request : /\ RequestOf(d, request)
                       /\ request.at = "count" /\ request.login = NewLogin
                       /\ device[d].at = "idle" /\ NewLogin \in Logins /\ NewLogin \notin LiveLogins
                       /\ split' = split \cap LiveLogins
                       /\ refreshToken' = refreshToken
    BY <1>2, LoginLeaves
  <2>2. device'[d] = request /\ \A e \in Devices \ {d} : device'[e] = device[e]
    BY <2>1, RequestAfter DEF RequestOf
  <2>3. Valid' = Valid /\ Issuing' = Issuing \cup {d} /\ d \notin Issuing
    BY <2>1, <2>2 DEF Valid, Issuing
  <2>4. /\ \A t \in Valid : refreshToken[t] \in LiveLogins /\ refreshToken[t] # request.login
        /\ \A e \in Devices : device[e].login \in LiveLogins /\ device[e].login # request.login
    BY <2>1 DEF LiveLogins
  <2>5. OneHeir'
    BY <1>a, <1>b, <2>1, <2>2, <2>3, <2>4 DEF OneHeir
  <2>6. request.login # 0
    BY <2>1, SessionsAssumption, FS_CardinalityType DEF Logins
  <2>7. RefreshesKnow'
    BY <1>a, <1>b, <2>1, <2>2, <2>3, <2>6 DEF RefreshesKnow
  <2> QED
    BY <2>5, <2>7 DEF HeirsInd
<1>3. ASSUME NEW d \in Devices,
             CountByUser(d) \/ CreateSession(d) \/ SessionStatementFails(d)
      PROVE  HeirsInd'
  <2>1. PICK request : /\ RequestOf(d, request)
                       /\ device[d].at \in {"count", "trim", "create"}
                       /\ request.at \in {"trim", "create", "issue"}
                       /\ request.login = device[d].login
                       /\ UNCHANGED <<refreshToken, split>>
    BY <1>3, StageLeaves
  <2>2. d \in Issuing
    BY <2>1 DEF Issuing
  <2> QED
    BY <2>1, <2>2, HeirsSame
<1>4. ASSUME NEW d \in Devices, IssueRefreshToken(d) PROVE HeirsInd'
  <2>1. PICK t : t = GenerateRefreshToken
    OBVIOUS
  <2>2. t \in FreshRefreshTokens
    BY <1>4, <2>1 DEF IssueRefreshToken, GenerateRefreshToken
  <2>3. /\ t \in RefreshTokens /\ t \notin Valid
        /\ \A e \in Devices : t \notin device[e].tokens
    BY <2>2 DEF FreshRefreshTokens
  <2>4. /\ device[d].at = "issue" /\ RequestOf(d, NoRequest) /\ split' = split
        /\ refreshToken' = [refreshToken EXCEPT ![t] = device[d].login]
    BY <1>4, <2>1, NoRequestTyped DEF IssueRefreshToken, RequestOf
  <2>5. device'[d].at = "idle" /\ \A e \in Devices \ {d} : device'[e] = device[e]
    BY <2>4, RequestAfter, NoRequestTyped DEF RequestOf
  <2>6. /\ refreshToken'[t] = device[d].login
        /\ \A u \in RefreshTokens \ {t} : refreshToken'[u] = refreshToken[u]
    BY <2>3, <2>4 DEF UsersTyped
  <2>7. d \in Issuing /\ Issuing' = Issuing \ {d}
    BY <2>4, <2>5 DEF Issuing
  <2>8. Valid' = Valid \cup {t}
    BY <1>a, <2>3, <2>6, <2>7 DEF Valid, RefreshesKnow
  <2>9. OneHeir'
    <3>1. \A u \in Valid : u # t /\ refreshToken'[u] = refreshToken[u]
      BY <1>b, <2>3, <2>6
    <3>2. \A e \in Issuing' : e \in Issuing /\ e # d /\ device'[e] = device[e]
      BY <1>b, <2>5, <2>7
    <3> QED
      BY <1>a, <2>4, <2>6, <2>7, <2>8, <3>1, <3>2 DEF OneHeir
  <2>10. RefreshesKnow'
    <3>1. \A e \in Issuing' : device'[e].login # 0
      BY <1>a, <1>b, <2>5, <2>7 DEF RefreshesKnow
    <3>2. ASSUME NEW e \in Devices, device'[e].at = "revoke"
          PROVE  /\ device'[e].login # 0
                 /\ \E u \in RefreshTokens :
                       device'[e].tokens = {u} /\ refreshToken'[u] \in {0, device'[e].login}
      BY <1>a, <2>3, <2>5, <2>6, <3>2 DEF RefreshesKnow
    <3> QED
      BY <3>1, <3>2 DEF RefreshesKnow
  <2> QED
    BY <2>9, <2>10 DEF HeirsInd
<1>5. ASSUME NEW d \in Devices, Refresh(d) \/ Logout(d) PROVE HeirsInd'
  <2>0. PICK t \in Valid : \E request :
              /\ RequestOf(d, request)
              /\ device[d].at = "idle"
              /\ request.tokens = {t}
              /\ \/ request.at = "revoke" /\ request.login = refreshToken[t]
                 \/ request.at = "logout" /\ request.login = 0
              /\ split' = split \cap LiveLogins
              /\ refreshToken' = refreshToken
    BY <1>5, RefreshLeaves
  <2>1. PICK request :
              /\ RequestOf(d, request)
              /\ device[d].at = "idle"
              /\ request.tokens = {t}
              /\ \/ request.at = "revoke" /\ request.login = refreshToken[t]
                 \/ request.at = "logout" /\ request.login = 0
              /\ split' = split \cap LiveLogins
              /\ refreshToken' = refreshToken
    BY <2>0
  <2>2. device'[d] = request /\ \A e \in Devices \ {d} : device'[e] = device[e]
    BY <2>1, RequestAfter DEF RequestOf
  <2>3. Valid' = Valid /\ Issuing' = Issuing /\ d \notin Issuing /\ refreshToken[t] # 0
    BY <2>1, <2>2 DEF Valid, Issuing
  <2>4. /\ \A u \in Valid : refreshToken[u] \in LiveLogins
        /\ \A e \in Devices : device[e].login \in LiveLogins
    BY DEF LiveLogins
  <2>5. OneHeir'
    BY <1>a, <1>b, <2>1, <2>2, <2>3, <2>4 DEF OneHeir
  <2>6. RefreshesKnow'
    BY <1>a, <1>b, <2>1, <2>2, <2>3 DEF RefreshesKnow
  <2> QED
    BY <2>5, <2>6 DEF HeirsInd
<1>6. ASSUME NEW d \in Devices, Revoke(d) PROVE HeirsInd'
  <2>1. PICK request : /\ RequestOf(d, request)
                       /\ device[d].at = "revoke" /\ request.at = "find"
                       /\ request.login = device[d].login
    BY <1>6, RevokeLeaves
  <2>2. PICK t \in RefreshTokens : device[d].tokens = {t} /\ refreshToken[t] \in {0, device[d].login}
    BY <1>a, <2>1 DEF RefreshesKnow
  <2>3. /\ refreshToken' = Revoked({t}) /\ device[d].login # 0
        /\ split' = IF t \in Valid THEN split ELSE split \cup {device[d].login}
    BY <1>6, <1>a, <2>1, <2>2 DEF Revoke, RefreshesKnow
  <2>4. device'[d] = request /\ \A e \in Devices \ {d} : device'[e] = device[e]
    BY <2>1, RequestAfter DEF RequestOf
  <2>5. refreshToken'[t] = 0 /\ \A u \in RefreshTokens \ {t} : refreshToken'[u] = refreshToken[u]
    BY <2>3 DEF Revoked
  <2>6. Valid' = Valid \ {t} /\ \A u \in Valid' : u \in Valid /\ u # t /\ refreshToken'[u] = refreshToken[u]
    BY <2>5 DEF Valid
  <2>7. Issuing' = Issuing \cup {d} /\ d \notin Issuing /\ \A e \in Issuing : e # d /\ device'[e] = device[e]
    BY <1>b, <2>1, <2>4 DEF Issuing
  <2>8. device[d].login \in split' \/ (t \in Valid /\ refreshToken[t] = device[d].login)
    BY <2>2, <2>3 DEF Valid
  <2>9. split \subseteq split'
    BY <2>3
  <2>10. OneHeir'
    <3>1. \A u \in Valid' : refreshToken'[u] = device'[d].login => refreshToken'[u] \in split'
      BY <1>a, <2>1, <2>4, <2>6, <2>8, <2>9 DEF OneHeir
    <3>2. \A e \in Issuing : device'[e].login = device'[d].login => device'[d].login \in split'
      BY <1>a, <2>1, <2>4, <2>7, <2>8, <2>9 DEF OneHeir
    <3>3. \A u, v \in Valid' : u # v /\ refreshToken'[u] = refreshToken'[v] => refreshToken'[u] \in split'
      BY <1>a, <2>6, <2>9 DEF OneHeir
    <3>4. \A u \in Valid', e \in Issuing : refreshToken'[u] = device'[e].login => refreshToken'[u] \in split'
      BY <1>a, <2>6, <2>7, <2>9 DEF OneHeir
    <3>5. \A e, f \in Issuing : e # f /\ device'[e].login = device'[f].login => device'[e].login \in split'
      BY <1>a, <2>7, <2>9 DEF OneHeir
    <3> QED
      BY <2>7, <3>1, <3>2, <3>3, <3>4, <3>5 DEF OneHeir
  <2>11. RefreshesKnow'
    <3>1. \A e \in Issuing' : device'[e].login # 0
      BY <1>a, <2>1, <2>3, <2>4, <2>7 DEF RefreshesKnow
    <3>2. ASSUME NEW e \in Devices, device'[e].at = "revoke"
          PROVE  /\ device'[e].login # 0
                 /\ \E u \in RefreshTokens :
                       device'[e].tokens = {u} /\ refreshToken'[u] \in {0, device'[e].login}
      BY <1>a, <2>1, <2>4, <2>5, <3>2 DEF RefreshesKnow
    <3> QED
      BY <3>1, <3>2 DEF RefreshesKnow
  <2> QED
    BY <2>10, <2>11 DEF HeirsInd
<1>c. refreshToken = Revoked({})
  BY DEF Revoked, UsersTyped
<1>7. ASSUME NEW d \in Devices, FindByID(d) PROVE HeirsInd'
  <2>1. PICK request : /\ RequestOf(d, request)
                       /\ device[d].at = "find"
                       /\ \/ request = NoRequest
                          \/ request.at = "issue" /\ request.login = device[d].login
    BY <1>7, RevokeLeaves
  <2>2. UNCHANGED <<refreshToken, split>>
    BY <1>7 DEF FindByID
  <2>3. CASE request = NoRequest
    BY <1>c, <2>1, <2>2, <2>3, HeirsFewer, NoRequestTyped
  <2>4. CASE request.at = "issue" /\ request.login = device[d].login
    <3>1. d \in Issuing
      BY <2>1 DEF Issuing
    <3> QED
      BY <2>1, <2>2, <2>4, <3>1, HeirsSame
  <2> QED
    BY <2>1, <2>3, <2>4
<1>8. ASSUME NEW d \in Devices, LogoutRevokes(d) \/ RequestFails(d) PROVE HeirsInd'
  <2>1. PICK ts : refreshToken' = Revoked(ts)
    BY <1>8, <1>c DEF LogoutRevokes, RequestFails
  <2>2. RequestOf(d, NoRequest) /\ split' = split
    BY <1>8, NoRequestTyped DEF LogoutRevokes, RequestFails, RequestOf
  <2> QED
    BY <2>1, <2>2, HeirsFewer, NoRequestTyped
<1>9. CASE RefreshTokenExpires
  <2>1. PICK t \in Valid : refreshToken' = Revoked({t})
    BY <1>9 DEF RefreshTokenExpires
  <2>2. UNCHANGED <<device, split>>
    BY <1>9 DEF RefreshTokenExpires
  <2>3. \A u \in RefreshTokens : refreshToken'[u] \in {0, refreshToken[u]}
    BY <2>1 DEF Revoked
  <2>4. Issuing' = Issuing /\ \A u \in Valid' : u \in Valid /\ refreshToken'[u] = refreshToken[u]
    BY <2>2, <2>3 DEF Valid, Issuing
  <2>5. OneHeir'
    BY <1>a, <2>2, <2>4 DEF OneHeir
  <2>6. RefreshesKnow'
    BY <1>a, <2>2, <2>3, <2>4 DEF RefreshesKnow
  <2> QED
    BY <2>5, <2>6 DEF HeirsInd
<1>10. CASE SetActive \/ SoftDelete
  BY <1>1, <1>10 DEF SetActive, SoftDelete
<1>11. CASE UNCHANGED sessionVars
  BY <1>1, <1>11 DEF sessionVars
<1>t. ASSUME NEW ds \in SUBSET Devices, DeleteOldest(ds) PROVE HeirsInd'
  <2>1. /\ \A d \in Devices : device'[d].login = device[d].login
        /\ \A d \in ds : device[d].at = "trim" /\ device'[d].at \in {"trim", "create"}
        /\ \A d \in Devices \ ds : device'[d] = device[d]
        /\ UNCHANGED <<refreshToken, split>>
    BY <1>t, TrimLeaves
  <2>2. Valid' = Valid /\ Issuing' = Issuing
    BY <2>1 DEF Valid, Issuing
  <2>3. OneHeir'
    BY <1>a, <1>b, <2>1, <2>2 DEF OneHeir
  <2>4. RefreshesKnow'
    BY <1>a, <1>b, <2>1, <2>2 DEF RefreshesKnow
  <2> QED
    BY <2>3, <2>4 DEF HeirsInd
<1> QED
  BY <1>2, <1>t, <1>3, <1>4, <1>5, <1>6, <1>7, <1>8, <1>9, <1>10, <1>11 DEF SessionsNext

\* A login has at most one valid refresh token, unless two refreshes read the
\* same token before either revoked it: for any number of devices and tokens, and
\* however FindValid, the unconditional UPDATE of Revoke and the insert of the new
\* token interleave with logouts, expiry, failures and bans.
THEOREM LoginsHaveOneToken == AccessSpec => []OneTokenPerLogin
<1>1. AccessInit => HeirsInd
  BY HeirsStart DEF AccessInit
<1>2. UsersTyped /\ HeirsInd /\ [AccessNext]_accessVars => HeirsInd'
  BY StepOfEachRealm, HeirsStep
<1>3. HeirsInd => OneTokenPerLogin
  BY DEF HeirsInd, OneHeir, OneTokenPerLogin
<1> QED
  BY <1>1, <1>2, <1>3, AllUsersTyped, PTL DEF AccessSpec

-----------------------------------------------------------------------------
(* The signing keys. *)

RealStates == [cur : KeyPool, prev : KeyPool \cup {NoKey}, age : Nat]

SomeStates == RealStates \cup {NoState}

Calls == [at : {"idle", "read", "set"}, snapshot : SomeStates]

KeysTyped ==
    /\ keyState \in [Pods -> SomeStates]
    /\ keyCall \in [Pods -> [KeyCallers -> Calls]]
    /\ redisState \in SomeStates
    /\ accessToken = NoToken \/ accessToken \in [key : KeyPool, age : 0 .. AccessTokenTTL - 1]
    /\ rotations \in {0, 1, 2}
    /\ diverged = TRUE \/ diverged = FALSE

\* A pod that is not there persists nothing, what is written is a state, and
\* while Initialize persists nothing else does.
CallsKnown ==
    \A p \in Pods, c \in KeyCallers :
        /\ keyCall[p][c].at # "idle" => keyState[p] # NoState
        /\ keyCall[p][c].at = "set" => keyCall[p][c].snapshot # NoState
        /\ keyCall[p]["init"].at # "idle" /\ c # "init" => keyCall[p][c].at = "idle"

LEMMA RealIsNotNone == \A s \in RealStates : s # NoState /\ s.cur # NoKey
BY RotationAssumption DEF RealStates, NoState, NoKey

LEMMA CallMoved ==
    ASSUME KeysTyped, NEW p \in Pods, NEW c \in KeyCallers, NEW at \in {"idle", "read", "set"},
           keyCall' = [keyCall EXCEPT ![p][c].at = at]
    PROVE  /\ keyCall' \in [Pods -> [KeyCallers -> Calls]]
           /\ keyCall'[p][c].at = at /\ keyCall'[p][c].snapshot = keyCall[p][c].snapshot
           /\ \A d \in KeyCallers \ {c} : keyCall'[p][d] = keyCall[p][d]
           /\ \A q \in Pods \ {p} : keyCall'[q] = keyCall[q]
<1>1. keyCall \in [Pods -> [KeyCallers -> Calls]] /\ keyCall[p][c] \in Calls
  BY DEF KeysTyped
<1>2. PICK r : r = [keyCall[p][c] EXCEPT !.at = at]
  OBVIOUS
<1>3. r \in Calls /\ r.at = at /\ r.snapshot = keyCall[p][c].snapshot
  BY <1>1, <1>2 DEF Calls
<1>4. keyCall' = [keyCall EXCEPT ![p] = [keyCall[p] EXCEPT ![c] = r]]
  BY <1>1, <1>2
<1> QED
  BY <1>1, <1>3, <1>4

LEMMA CallSet ==
    ASSUME KeysTyped, NEW p \in Pods, NEW c \in KeyCallers, NEW r \in Calls,
           keyCall' = [keyCall EXCEPT ![p][c] = r]
    PROVE  /\ keyCall' \in [Pods -> [KeyCallers -> Calls]]
           /\ keyCall'[p][c] = r
           /\ \A d \in KeyCallers \ {c} : keyCall'[p][d] = keyCall[p][d]
           /\ \A q \in Pods \ {p} : keyCall'[q] = keyCall[q]
<1>1. keyCall \in [Pods -> [KeyCallers -> Calls]]
  BY DEF KeysTyped
<1>2. keyCall' = [keyCall EXCEPT ![p] = [keyCall[p] EXCEPT ![c] = r]]
  BY <1>1
<1> QED
  BY <1>1, <1>2

LEMMA StateSet ==
    ASSUME KeysTyped, NEW p \in Pods, NEW s \in SomeStates, keyState' = [keyState EXCEPT ![p] = s]
    PROVE  /\ keyState' \in [Pods -> SomeStates] /\ keyState'[p] = s
           /\ \A q \in Pods \ {p} : keyState'[q] = keyState[q]
BY DEF KeysTyped

LEMMA KeyGenerated == ASSUME FreshKeys # {} PROVE generateKey \in KeyPool
<1>1. FreshKeys \in SUBSET Nat /\ FreshKeys \subseteq KeyPool
  BY RotationAssumption DEF FreshKeys
<1>2. \E k \in FreshKeys : \A other \in FreshKeys : k <= other
  BY <1>1, LeastNatural
<1>3. generateKey \in FreshKeys
  BY <1>2 DEF generateKey
<1> QED
  BY <1>1, <1>3

\* Time changes the age of a state and nothing else.
LEMMA AgedFacts ==
    ASSUME NEW s \in SomeStates
    PROVE  /\ Aged(s) \in SomeStates
           /\ s = NoState <=> Aged(s) = NoState
           /\ s # NoState => /\ Aged(s) \in RealStates /\ Aged(s).cur = s.cur /\ Aged(s).prev = s.prev
                             /\ Aged(s).age <= s.age + 1 /\ s.age \in Nat /\ Aged(s).age \in Nat
<1>1. CASE s = NoState
  BY <1>1 DEF Aged
<1>2. CASE s # NoState
  <2>1. s \in RealStates /\ s.age \in Nat
    BY <1>2 DEF SomeStates, RealStates
  <2>2. PICK a : a = Min({s.age + 1, GracePeriod + 1})
    OBVIOUS
  <2>3. a \in Nat /\ a <= s.age + 1
    <3>1. s.age + 1 \in Nat /\ GracePeriod + 1 \in Nat
      BY <2>1, RotationAssumption
    <3> QED
      BY <2>2, <3>1, MinOfTwo
  <2>4. Aged(s) = [s EXCEPT !.age = a]
    BY <1>2, <2>2 DEF Aged
  <2>5. Aged(s) \in RealStates /\ Aged(s).cur = s.cur /\ Aged(s).prev = s.prev /\ Aged(s).age = a
    BY <2>1, <2>3, <2>4 DEF RealStates
  <2> QED
    BY <1>2, <2>1, <2>3, <2>5, RealIsNotNone DEF SomeStates
<1> QED
  BY <1>1, <1>2

\* The state of keys that a rotation and Initialize leave.
LEMMA NewStates ==
    ASSUME KeysTyped, FreshKeys # {}
    PROVE  /\ [NoState EXCEPT !.cur = generateKey] \in RealStates
           /\ \A p \in Pods : keyState[p] # NoState =>
                 [cur |-> generateKey, prev |-> keyState[p].cur, age |-> 0] \in RealStates
<1>1. PICK k \in KeyPool : k = generateKey
  BY KeyGenerated
<1>2. [NoState EXCEPT !.cur = k] \in RealStates
  <2>1. [NoState EXCEPT !.cur = k] = [cur |-> k, prev |-> NoKey, age |-> 0]
    BY DEF NoState
  <2> QED
    BY <2>1 DEF RealStates
<1>3. ASSUME NEW p \in Pods, keyState[p] # NoState
      PROVE  [cur |-> k, prev |-> keyState[p].cur, age |-> 0] \in RealStates
  <2>1. keyState[p].cur \in KeyPool
    BY <1>3 DEF KeysTyped, SomeStates, RealStates
  <2> QED
    BY <2>1 DEF RealStates
<1> QED
  BY <1>1, <1>2, <1>3

LEMMA IdleCall == KeyCallIdle \in Calls /\ KeyCallIdle.at = "idle" /\ NoState \in SomeStates
BY DEF KeyCallIdle, Calls, SomeStates

LEMMA KeysStart == KeysInit => KeysTyped /\ CallsKnown
BY IdleCall DEF KeysInit, KeysTyped, CallsKnown, SomeStates, KeyCallers

\* The token's key is the state's current one, or was until the one rotation
\* since it was signed.
Accepts(s) ==
    \/ s.cur = accessToken.key
    \/ rotations = 1 /\ s.prev = accessToken.key /\ s.age <= accessToken.age

\* As long as no pod has parted from Redis, all pods have the same keys, a pod in
\* Initialize is the only one and Redis is empty, no pod serves and no token
\* lives while Redis is empty, and the token is accepted by every pod or, when
\* there is none, by the pod that will load the state from Redis.
Agree ==
    /\ \A p, q \in Pods : keyState[p] # NoState /\ keyState[q] # NoState => keyState[p] = keyState[q]
    /\ redisState = NoState =>
          accessToken = NoToken /\ \A p \in Pods : keyState[p] = NoState \/ keyCall[p]["init"].at # "idle"
    /\ \A p \in Pods : keyCall[p]["init"].at # "idle" =>
          redisState = NoState /\ \A q \in Pods : keyState[q] # NoState => q = p
    /\ accessToken # NoToken /\ rotations <= 1 =>
          /\ \A p \in Pods : keyState[p] # NoState => Accepts(keyState[p])
          /\ (\A p \in Pods : keyState[p] = NoState) => Accepts(redisState)

KeysInd == KeysTyped /\ CallsKnown /\ (diverged = FALSE => Agree)

LEMMA LoadsKeeps == ASSUME KeysInd, NEW p \in Pods, InitializeLoads(p) PROVE KeysInd'
<1>1. /\ keyState[p] = NoState /\ redisState # NoState
      /\ keyState' = [keyState EXCEPT ![p] = redisState]
      /\ UNCHANGED <<keyCall, redisState, accessToken, rotations>>
  BY DEF InitializeLoads, Started
<1>2. KeysTyped /\ CallsKnown /\ redisState \in SomeStates
  BY DEF KeysInd, KeysTyped
<1>3. /\ keyState' \in [Pods -> SomeStates] /\ keyState'[p] = redisState
      /\ \A q \in Pods \ {p} : keyState'[q] = keyState[q]
  BY <1>1, <1>2, StateSet
<1>4. \/ diverged' = TRUE
      \/ /\ diverged = FALSE /\ diverged' = FALSE
         /\ \A q \in Pods \ {p} : keyState[q] # NoState => keyState[q] = redisState
  BY <1>2 DEF InitializeLoads, KeysTyped, Others, Started
<1>5. KeysTyped'
  BY <1>1, <1>2, <1>3, <1>4 DEF KeysTyped
<1>6. CallsKnown'
  BY <1>1, <1>2, <1>3 DEF CallsKnown
<1>7. ASSUME diverged' = FALSE PROVE Agree'
  <2>1. Agree /\ \A q \in Pods \ {p} : keyState[q] # NoState => keyState[q] = redisState
    BY <1>4, <1>7 DEF KeysInd
  <2>2. \A q \in Pods : keyCall[q]["init"].at = "idle"
    BY <1>1, <2>1 DEF Agree
  <2>3. \A q \in Pods : keyState'[q] # NoState => keyState'[q] = redisState
    BY <1>3, <2>1
  <2>4. accessToken # NoToken /\ rotations <= 1 => Accepts(redisState)
    BY <1>1, <2>1 DEF Agree
  <2>5. \A s : Accepts(s)' <=> Accepts(s)
    BY <1>1 DEF Accepts
  <2> QED
    BY <1>1, <1>3, <2>2, <2>3, <2>4, <2>5 DEF Agree, Accepts
<1> QED
  BY <1>5, <1>6, <1>7 DEF KeysInd

LEMMA GeneratesKeeps == ASSUME KeysInd, NEW p \in Pods, InitializeGenerates(p) PROVE KeysInd'
<1>1. PICK s : s = [NoState EXCEPT !.cur = generateKey]
  OBVIOUS
<1>2. /\ keyState[p] = NoState /\ FreshKeys # {}
      /\ keyState' = [keyState EXCEPT ![p] = s]
      /\ keyCall' = [keyCall EXCEPT ![p]["init"].at = "read"]
      /\ UNCHANGED <<redisState, accessToken, rotations>>
  BY <1>1 DEF InitializeGenerates, Started
<1>3. KeysTyped /\ CallsKnown /\ s \in SomeStates /\ s # NoState /\ "init" \in KeyCallers
  BY <1>1, <1>2, NewStates, RealIsNotNone DEF KeysInd, SomeStates, KeyCallers
<1>4. /\ keyState' \in [Pods -> SomeStates] /\ keyState'[p] = s
      /\ \A q \in Pods \ {p} : keyState'[q] = keyState[q]
  BY <1>2, <1>3, StateSet
<1>5. /\ keyCall' \in [Pods -> [KeyCallers -> Calls]]
      /\ keyCall'[p]["init"].at = "read"
      /\ \A d \in KeyCallers \ {"init"} : keyCall'[p][d] = keyCall[p][d]
      /\ \A q \in Pods \ {p} : keyCall'[q] = keyCall[q]
  BY <1>2, <1>3, CallMoved
<1>6. \/ diverged' = TRUE
      \/ /\ diverged = FALSE /\ diverged' = FALSE
         /\ redisState = NoState
         /\ \A q \in Pods \ {p} : keyState[q] = NoState
  BY <1>3 DEF InitializeGenerates, KeysTyped, Others, Started
<1>7. KeysTyped'
  BY <1>2, <1>3, <1>4, <1>5, <1>6 DEF KeysTyped
<1>8. CallsKnown'
  BY <1>2, <1>3, <1>4, <1>5 DEF CallsKnown
<1>9. ASSUME diverged' = FALSE PROVE Agree'
  <2>1. Agree /\ redisState = NoState /\ \A q \in Pods \ {p} : keyState[q] = NoState
    BY <1>6, <1>9 DEF KeysInd
  <2>2. accessToken = NoToken
    BY <2>1 DEF Agree
  <2>3. \A q \in Pods \ {p} : keyState'[q] = NoState /\ keyCall'[q]["init"].at = "idle"
    BY <1>3, <1>4, <1>5, <2>1 DEF CallsKnown
  <2> QED
    BY <1>2, <1>5, <2>1, <2>2, <2>3 DEF Agree
<1> QED
  BY <1>7, <1>8, <1>9 DEF KeysInd

LEMMA RotateKeeps == ASSUME KeysInd, NEW p \in Pods, NEW c \in KeyCallers, Rotate(p, c) PROVE KeysInd'
<1>1. PICK s : s = [cur |-> generateKey, prev |-> keyState[p].cur, age |-> 0]
  OBVIOUS
<1>2. /\ c # "init" /\ keyState[p] # NoState /\ keyCall[p]["init"].at = "idle"
      /\ keyCall[p][c].at = "idle" /\ FreshKeys # {}
      /\ keyState' = [keyState EXCEPT ![p] = s]
      /\ keyCall' = [keyCall EXCEPT ![p][c].at = "read"]
      /\ UNCHANGED <<redisState, accessToken>>
  BY <1>1 DEF Rotate, Started, Serving
<1>3. KeysTyped /\ CallsKnown /\ s \in SomeStates /\ s # NoState
  BY <1>1, <1>2, NewStates, RealIsNotNone DEF KeysInd, SomeStates
<1>4. /\ keyState' \in [Pods -> SomeStates] /\ keyState'[p] = s
      /\ \A q \in Pods \ {p} : keyState'[q] = keyState[q]
  BY <1>2, <1>3, StateSet
<1>5. /\ keyCall' \in [Pods -> [KeyCallers -> Calls]]
      /\ keyCall'[p][c].at = "read"
      /\ \A d \in KeyCallers \ {c} : keyCall'[p][d] = keyCall[p][d]
      /\ \A q \in Pods \ {p} : keyCall'[q] = keyCall[q]
  BY <1>2, <1>3, CallMoved
<1>6. /\ rotations' \in {0, 1, 2}
      /\ rotations' <= 1 => rotations = 0 /\ rotations' = 1
  <2>1. rotations \in {0, 1, 2} /\ rotations + 1 \in Nat /\ 2 \in Nat
    BY <1>3 DEF KeysTyped
  <2>2. rotations' <= rotations + 1 /\ rotations' <= 2 /\ rotations' \in {rotations + 1, 2}
    BY <2>1, MinOfTwo DEF Rotate
  <2> QED
    BY <2>1, <2>2
<1>7. \/ diverged' = TRUE
      \/ /\ diverged = FALSE /\ diverged' = FALSE
         /\ \A q \in Pods \ {p} : keyState[q] = NoState
  BY <1>3 DEF Rotate, KeysTyped, Others, Started
<1>8. KeysTyped'
  BY <1>2, <1>3, <1>4, <1>5, <1>6, <1>7 DEF KeysTyped
<1>9. CallsKnown'
  BY <1>2, <1>3, <1>4, <1>5 DEF CallsKnown, KeyCallers
<1>10. ASSUME diverged' = FALSE PROVE Agree'
  <2>1. Agree /\ \A q \in Pods \ {p} : keyState[q] = NoState
    BY <1>7, <1>10 DEF KeysInd
  <2>2. \A q \in Pods : keyCall'[q]["init"].at = "idle"
    BY <1>2, <1>3, <1>5, <2>1 DEF CallsKnown, KeyCallers
  <2>3. redisState # NoState
    BY <1>2, <2>1 DEF Agree
  <2>4. accessToken # NoToken /\ rotations' <= 1 => Accepts(s)'
    <3> SUFFICES ASSUME accessToken # NoToken, rotations' <= 1 PROVE Accepts(s)'
      OBVIOUS
    <3>1. rotations = 0 /\ rotations' = 1
      BY <1>6
    <3>2. keyState[p].cur = accessToken.key
      BY <1>2, <2>1, <3>1 DEF Agree, Accepts
    <3>3. s.prev = accessToken.key /\ s.age = 0 /\ accessToken.age >= 0
      BY <1>1, <1>3, <3>2 DEF KeysTyped
    <3> QED
      BY <1>2, <3>1, <3>3 DEF Accepts
  <2>5. Agree'
    BY <1>2, <1>3, <1>4, <2>1, <2>2, <2>3, <2>4 DEF Agree, Accepts
  <2> QED
    BY <2>5
<1> QED
  BY <1>8, <1>9, <1>10 DEF KeysInd

LEMMA ReadsKeeps == ASSUME KeysInd, NEW p \in Pods, NEW c \in KeyCallers, persistReads(p, c) PROVE KeysInd'
<1>1. PICK r : r = [at |-> "set", snapshot |-> keyState[p]]
  OBVIOUS
<1>2. /\ keyCall[p][c].at = "read" /\ keyCall' = [keyCall EXCEPT ![p][c] = r]
      /\ UNCHANGED <<keyState, redisState, accessToken, rotations, diverged>>
  BY <1>1 DEF persistReads
<1>3. KeysTyped /\ CallsKnown /\ r \in Calls /\ r.at = "set" /\ r.snapshot = keyState[p]
  BY <1>1 DEF KeysInd, KeysTyped, Calls
<1>4. /\ keyCall' \in [Pods -> [KeyCallers -> Calls]]
      /\ keyCall'[p][c] = r
      /\ \A d \in KeyCallers \ {c} : keyCall'[p][d] = keyCall[p][d]
      /\ \A q \in Pods \ {p} : keyCall'[q] = keyCall[q]
  BY <1>2, <1>3, CallSet
<1>5. KeysTyped'
  BY <1>2, <1>3, <1>4 DEF KeysTyped
<1>6. \A q \in Pods, d \in KeyCallers : keyCall'[q][d].at # "idle" <=> keyCall[q][d].at # "idle"
  BY <1>2, <1>3, <1>4
<1>7. CallsKnown'
  BY <1>2, <1>3, <1>4, <1>6 DEF CallsKnown, KeyCallers
<1>8. Agree => Agree'
  BY <1>2, <1>6 DEF Agree, Accepts, KeyCallers
<1> QED
  BY <1>2, <1>5, <1>7, <1>8 DEF KeysInd

LEMMA SetsKeeps == ASSUME KeysInd, NEW p \in Pods, NEW c \in KeyCallers, persistSets(p, c) PROVE KeysInd'
<1>1. /\ keyCall[p][c].at = "set" /\ redisState' = keyCall[p][c].snapshot
      /\ keyCall' = [keyCall EXCEPT ![p][c] = KeyCallIdle]
      /\ UNCHANGED <<keyState, accessToken, rotations, diverged>>
  BY DEF persistSets
<1>2. KeysTyped /\ CallsKnown
  BY DEF KeysInd
<1>3. redisState' \in SomeStates /\ redisState' # NoState /\ keyState[p] # NoState
  BY <1>1, <1>2 DEF KeysTyped, CallsKnown, Calls
<1>4. /\ keyCall' \in [Pods -> [KeyCallers -> Calls]]
      /\ keyCall'[p][c].at = "idle"
      /\ \A d \in KeyCallers \ {c} : keyCall'[p][d] = keyCall[p][d]
      /\ \A q \in Pods \ {p} : keyCall'[q] = keyCall[q]
  BY <1>1, <1>2, CallSet, IdleCall
<1>5. KeysTyped'
  BY <1>1, <1>2, <1>3, <1>4 DEF KeysTyped
<1>6. CallsKnown'
  BY <1>1, <1>2, <1>4 DEF CallsKnown, KeyCallers
<1>7. ASSUME Agree PROVE Agree'
  <2>1. \A q \in Pods : keyCall'[q]["init"].at = "idle"
    <3>1. ASSUME NEW q \in Pods, keyCall[q]["init"].at # "idle" PROVE q = p /\ c = "init"
      BY <1>1, <1>2, <1>3, <1>7, <3>1 DEF Agree, CallsKnown
    <3> QED
      BY <1>4, <3>1 DEF KeyCallers
  <2> QED
    BY <1>1, <1>3, <1>7, <2>1 DEF Agree, Accepts
<1> QED
  BY <1>1, <1>5, <1>6, <1>7 DEF KeysInd

LEMMA FailsKeeps == ASSUME KeysInd, NEW p \in Pods, NEW c \in KeyCallers, persistFails(p, c) PROVE KeysInd'
<1>1. /\ keyCall[p][c].at = "set"
      /\ keyCall' = [keyCall EXCEPT ![p][c] = KeyCallIdle]
      /\ UNCHANGED <<redisState, accessToken, rotations, diverged>>
  BY DEF persistFails
<1>2. KeysTyped /\ CallsKnown
  BY DEF KeysInd
<1>3. keyState[p] # NoState
  BY <1>1, <1>2 DEF CallsKnown
<1>4. /\ keyCall' \in [Pods -> [KeyCallers -> Calls]]
      /\ keyCall'[p][c].at = "idle"
      /\ \A d \in KeyCallers \ {c} : keyCall'[p][d] = keyCall[p][d]
      /\ \A q \in Pods \ {p} : keyCall'[q] = keyCall[q]
  BY <1>1, <1>2, CallSet, IdleCall
<1>5. CASE c = "init"
  <2>1. keyState' = [keyState EXCEPT ![p] = NoState]
    BY <1>5 DEF persistFails
  <2>2. /\ keyState' \in [Pods -> SomeStates] /\ keyState'[p] = NoState
        /\ \A q \in Pods \ {p} : keyState'[q] = keyState[q]
    BY <1>2, <2>1, StateSet, IdleCall
  <2>3. KeysTyped'
    BY <1>1, <1>2, <1>4, <2>2 DEF KeysTyped
  <2>4. \A d \in KeyCallers : keyCall'[p][d].at = "idle"
    BY <1>1, <1>2, <1>4, <1>5 DEF CallsKnown
  <2>5. CallsKnown'
    BY <1>2, <1>4, <2>2, <2>4 DEF CallsKnown, KeyCallers
  <2>6. ASSUME Agree PROVE Agree'
    <3>1. redisState = NoState /\ accessToken = NoToken /\ \A q \in Pods \ {p} : keyState[q] = NoState
      BY <1>1, <1>5, <2>6 DEF Agree
    <3>2. \A q \in Pods : keyState'[q] = NoState /\ keyCall'[q]["init"].at = "idle"
      BY <1>2, <1>4, <2>2, <2>4, <3>1 DEF CallsKnown, KeyCallers
    <3> QED
      BY <1>1, <3>1, <3>2 DEF Agree
  <2> QED
    BY <1>1, <2>3, <2>5, <2>6 DEF KeysInd
<1>6. CASE c # "init"
  <2>1. keyState' = keyState
    BY <1>6 DEF persistFails
  <2>2. KeysTyped'
    BY <1>1, <1>2, <1>4, <2>1 DEF KeysTyped
  <2>3. CallsKnown'
    BY <1>1, <1>2, <1>4, <2>1 DEF CallsKnown, KeyCallers
  <2>4. \A q \in Pods : keyCall'[q]["init"] = keyCall[q]["init"]
    BY <1>4, <1>6 DEF KeyCallers
  <2>5. Agree => Agree'
    BY <1>1, <2>1, <2>4 DEF Agree, Accepts
  <2> QED
    BY <1>1, <2>2, <2>3, <2>5 DEF KeysInd
<1> QED
  BY <1>5, <1>6

LEMMA SignKeeps == ASSUME KeysInd, NEW p \in Pods, SignToken(p) PROVE KeysInd'
<1>1. /\ keyState[p] # NoState /\ keyCall[p]["init"].at = "idle"
      /\ accessToken' = [key |-> keyState[p].cur, age |-> 0] /\ rotations' = 0
      /\ UNCHANGED <<keyState, keyCall, redisState, diverged>>
  BY DEF SignToken, Serving, Started
<1>2. KeysTyped /\ CallsKnown /\ keyState[p].cur \in KeyPool
  BY <1>1 DEF KeysInd, KeysTyped, SomeStates, RealStates
<1>3. accessToken' \in [key : KeyPool, age : 0 .. AccessTokenTTL - 1] /\ accessToken'.key = keyState[p].cur
  BY <1>1, <1>2, RotationAssumption
<1>4. KeysTyped'
  BY <1>1, <1>2, <1>3 DEF KeysTyped
<1>5. CallsKnown'
  BY <1>1, <1>2 DEF CallsKnown
<1>6. ASSUME Agree PROVE Agree'
  <2>1. redisState # NoState
    BY <1>1, <1>6 DEF Agree
  <2>2. \A q \in Pods : keyState[q] # NoState => keyState[q].cur = accessToken'.key
    BY <1>1, <1>3, <1>6 DEF Agree
  <2> QED
    BY <1>1, <1>6, <2>1, <2>2 DEF Agree, Accepts
<1> QED
  BY <1>1, <1>4, <1>5, <1>6 DEF KeysInd

LEMMA TickKeeps == ASSUME KeysInd, KeysTick PROVE KeysInd'
<1>1. /\ keyState' = [p \in Pods |-> Aged(keyState[p])]
      /\ redisState' = Aged(redisState)
      /\ keyCall' = [p \in Pods |-> [c \in KeyCallers |->
             [keyCall[p][c] EXCEPT !.snapshot = Aged(keyCall[p][c].snapshot)]]]
      /\ diverged' = diverged
  BY DEF KeysTick
<1>2. KeysTyped /\ CallsKnown
  BY DEF KeysInd
<1>3. \A p \in Pods : keyState[p] \in SomeStates /\ keyState'[p] = Aged(keyState[p])
  BY <1>1, <1>2 DEF KeysTyped
<1>4. keyState' \in [Pods -> SomeStates] /\ \A p \in Pods : keyState'[p] = NoState <=> keyState[p] = NoState
  BY <1>1, <1>3, AgedFacts
<1>5. redisState \in SomeStates /\ redisState' \in SomeStates /\ (redisState' = NoState <=> redisState = NoState)
  BY <1>1, <1>2, AgedFacts DEF KeysTyped
<1>6. ASSUME NEW p \in Pods, NEW c \in KeyCallers
      PROVE  /\ keyCall'[p][c] \in Calls /\ keyCall'[p][c].at = keyCall[p][c].at
             /\ keyCall'[p][c].snapshot = NoState <=> keyCall[p][c].snapshot = NoState
  <2>1. PICK r : r = keyCall[p][c]
    OBVIOUS
  <2>2. r \in Calls /\ r.snapshot \in SomeStates
    BY <1>2, <2>1 DEF KeysTyped, Calls
  <2>3. PICK s : s = Aged(r.snapshot)
    OBVIOUS
  <2>4. s \in SomeStates /\ (s = NoState <=> r.snapshot = NoState)
    BY <2>2, <2>3, AgedFacts
  <2>5. keyCall'[p][c] = [r EXCEPT !.snapshot = s]
    BY <1>1, <2>1, <2>3
  <2> QED
    BY <2>1, <2>2, <2>4, <2>5 DEF Calls
<1>7. keyCall' \in [Pods -> [KeyCallers -> Calls]]
  BY <1>1, <1>6
<1>8. \/ accessToken' = NoToken /\ rotations' = 0
      \/ /\ accessToken # NoToken /\ accessToken \in [key : KeyPool, age : 0 .. AccessTokenTTL - 1]
         /\ accessToken' \in [key : KeyPool, age : 0 .. AccessTokenTTL - 1]
         /\ accessToken'.key = accessToken.key /\ accessToken'.age = accessToken.age + 1
         /\ rotations' = rotations
  <2>1. CASE accessToken = NoToken \/ accessToken.age + 1 >= AccessTokenTTL
    BY <2>1 DEF KeysTick
  <2>2. CASE ~(accessToken = NoToken \/ accessToken.age + 1 >= AccessTokenTTL)
    <3>1. accessToken' = [accessToken EXCEPT !.age = accessToken.age + 1]
      BY <2>2 DEF KeysTick
    <3>2. accessToken \in [key : KeyPool, age : 0 .. AccessTokenTTL - 1]
      BY <1>2, <2>2 DEF KeysTyped
    <3>3. /\ accessToken' \in [key : KeyPool, age : 0 .. AccessTokenTTL - 1]
          /\ accessToken'.key = accessToken.key /\ accessToken'.age = accessToken.age + 1
      BY <2>2, <3>1, <3>2, RotationAssumption
    <3>4. accessToken'.key # NoKey /\ NoToken.key = NoKey
      BY <3>3, RotationAssumption DEF NoToken, NoKey
    <3>5. accessToken' # NoToken
      BY <3>4
    <3> QED
      BY <2>2, <3>2, <3>3, <3>5 DEF KeysTick
  <2> QED
    BY <2>1, <2>2
<1>9. KeysTyped'
  BY <1>1, <1>2, <1>4, <1>5, <1>7, <1>8 DEF KeysTyped
<1>10. CallsKnown'
  BY <1>2, <1>4, <1>6 DEF CallsKnown, KeyCallers
<1>11. ASSUME Agree PROVE Agree'
  <2>1. \A p, q \in Pods : keyState'[p] # NoState /\ keyState'[q] # NoState => keyState'[p] = keyState'[q]
    BY <1>3, <1>4, <1>11 DEF Agree
  <2>2. \A p \in Pods : keyCall'[p]["init"].at = keyCall[p]["init"].at
    BY <1>6 DEF KeyCallers
  <2>3. accessToken = NoToken => accessToken' = NoToken
    BY <1>8
  <2>4. ASSUME NEW s \in SomeStates, s # NoState, accessToken # NoToken, accessToken' # NoToken, Accepts(s)
        PROVE  \/ Aged(s).cur = accessToken'.key
               \/ rotations' = 1 /\ Aged(s).prev = accessToken'.key /\ Aged(s).age <= accessToken'.age
    <3>1. /\ Aged(s).cur = s.cur /\ Aged(s).prev = s.prev
          /\ Aged(s).age <= s.age + 1 /\ s.age \in Nat /\ Aged(s).age \in Nat
      BY <2>4, AgedFacts
    <3>2. accessToken.age \in Nat /\ accessToken'.key = accessToken.key
          /\ accessToken'.age = accessToken.age + 1 /\ rotations' = rotations
      BY <1>8, <2>4, RotationAssumption
    <3> QED
      BY <2>4, <3>1, <3>2 DEF Accepts
  <2>5. ASSUME accessToken' # NoToken, rotations' <= 1
        PROVE  /\ \A p \in Pods : keyState'[p] # NoState => Accepts(keyState[p])
               /\ (\A p \in Pods : keyState'[p] = NoState) => Accepts(redisState) /\ redisState # NoState
               /\ accessToken # NoToken
    BY <1>4, <1>8, <1>11, <2>5 DEF Agree
  <2>6. ASSUME accessToken' # NoToken, rotations' <= 1, NEW p \in Pods, keyState'[p] # NoState
        PROVE  \/ keyState'[p].cur = accessToken'.key
               \/ /\ rotations' = 1 /\ keyState'[p].prev = accessToken'.key
                  /\ keyState'[p].age <= accessToken'.age
    BY <1>3, <1>4, <2>4, <2>5, <2>6
  <2>7. ASSUME accessToken' # NoToken, rotations' <= 1, \A p \in Pods : keyState'[p] = NoState
        PROVE  \/ redisState'.cur = accessToken'.key
               \/ /\ rotations' = 1 /\ redisState'.prev = accessToken'.key
                  /\ redisState'.age <= accessToken'.age
    BY <1>1, <1>5, <2>4, <2>5, <2>7
  <2> QED
    BY <1>4, <1>5, <1>11, <2>1, <2>2, <2>3, <2>6, <2>7 DEF Agree, Accepts
<1> QED
  BY <1>1, <1>9, <1>10, <1>11 DEF KeysInd

LEMMA StopKeeps == ASSUME KeysInd, NEW p \in Pods, PodStops(p) PROVE KeysInd'
<1>1. /\ keyState[p] # NoState /\ keyState' = [keyState EXCEPT ![p] = NoState]
      /\ keyCall' = [keyCall EXCEPT ![p] = [c \in KeyCallers |-> KeyCallIdle]]
      /\ UNCHANGED <<redisState, accessToken, rotations>>
  BY DEF PodStops, Started
<1>2. KeysTyped /\ CallsKnown
  BY DEF KeysInd
<1>3. /\ keyState' \in [Pods -> SomeStates] /\ keyState'[p] = NoState
      /\ \A q \in Pods \ {p} : keyState'[q] = keyState[q]
  BY <1>1, <1>2, StateSet, IdleCall
<1>4. /\ keyCall' \in [Pods -> [KeyCallers -> Calls]]
      /\ \A c \in KeyCallers : keyCall'[p][c].at = "idle"
      /\ \A q \in Pods \ {p} : keyCall'[q] = keyCall[q]
  BY <1>1, <1>2, IdleCall DEF KeysTyped
<1>5. \/ diverged' = TRUE
      \/ diverged = FALSE /\ diverged' = FALSE /\ redisState = keyState[p]
  BY <1>2 DEF PodStops, KeysTyped
<1>6. KeysTyped'
  BY <1>1, <1>2, <1>3, <1>4, <1>5 DEF KeysTyped
<1>7. CallsKnown'
  BY <1>2, <1>3, <1>4 DEF CallsKnown, KeyCallers
<1>8. ASSUME diverged' = FALSE PROVE Agree'
  <2>1. Agree /\ redisState = keyState[p]
    BY <1>5, <1>8 DEF KeysInd
  <2>2. \A q \in Pods : keyCall'[q]["init"].at = "idle"
    BY <1>1, <1>4, <2>1 DEF Agree, KeyCallers
  <2>3. accessToken # NoToken /\ rotations <= 1 => Accepts(redisState)
    BY <1>1, <2>1 DEF Agree
  <2> QED
    BY <1>1, <1>3, <2>1, <2>2, <2>3 DEF Agree, Accepts
<1> QED
  BY <1>6, <1>7, <1>8 DEF KeysInd

LEMMA ExpiryKeeps == ASSUME KeysInd, StateExpires PROVE KeysInd'
<1>1. /\ \A p \in Pods : keyState[p] = NoState
      /\ accessToken = NoToken /\ redisState' = NoState
      /\ UNCHANGED <<keyState, keyCall, accessToken, rotations, diverged>>
  BY DEF StateExpires, Started
<1>2. KeysTyped' /\ CallsKnown'
  BY <1>1, IdleCall DEF KeysInd, KeysTyped, CallsKnown
<1>3. Agree => Agree'
  BY <1>1 DEF Agree
<1> QED
  BY <1>1, <1>2, <1>3 DEF KeysInd

LEMMA KeysStep == KeysInd /\ [KeysNext]_keysVars => KeysInd'
<1>1. ASSUME KeysInd, UNCHANGED keysVars PROVE KeysInd'
  BY <1>1 DEF keysVars, KeysInd, KeysTyped, CallsKnown, Agree, Accepts
<1> QED
  BY <1>1, LoadsKeeps, GeneratesKeeps, RotateKeeps, ReadsKeeps, SetsKeeps, FailsKeeps, SignKeeps, TickKeeps,
     StopKeeps, ExpiryKeeps DEF KeysNext

\* A token of the gateway is accepted for its whole life by every pod that
\* serves, through one rotation and any number of restarts, as long as no pod
\* parted from Redis: for every number of pods and every token life within the
\* grace period, and in whatever order two calls of persistState write.
THEOREM RotationKeepsTokens == AccessSpec => []TokensOutliveRotation
<1>1. AccessInit => KeysInd
  <2>1. KeysInit => Agree
    BY IdleCall DEF KeysInit, Agree, KeyCallers
  <2> QED
    BY <2>1, KeysStart DEF AccessInit, KeysInd
<1>2. KeysInd /\ [AccessNext]_accessVars => KeysInd'
  BY StepOfEachRealm, KeysStep
<1>3. KeysInd => TokensOutliveRotation
  <2> SUFFICES ASSUME KeysInd, accessToken # NoToken, ~diverged, rotations <= 1,
                      NEW p \in Pods, Serving(p)
               PROVE  ParseBearer(p, accessToken)
    BY DEF TokensOutliveRotation
  <2>1. PICK s : s = keyState[p]
    OBVIOUS
  <2>2. s # NoState /\ Accepts(s)
    BY <2>1 DEF KeysInd, KeysTyped, Agree, Serving, Started
  <2>3. /\ s.age \in Nat /\ accessToken.age \in Nat /\ accessToken.age < AccessTokenTTL
        /\ accessToken.key # NoKey /\ AccessTokenTTL <= GracePeriod /\ GracePeriod \in Nat /\ AccessTokenTTL \in Nat
    BY <2>1, <2>2, RotationAssumption DEF KeysInd, KeysTyped, SomeStates, RealStates, NoKey
  <2>4. \/ parseToken(accessToken, s.cur)
        \/ IsWithinGracePeriod(s) /\ parseToken(accessToken, s.prev)
    BY <2>2, <2>3 DEF Accepts, parseToken, IsWithinGracePeriod
  <2>5. VerifyToken(s, accessToken) = "claims"
    <3>1. CASE parseToken(accessToken, s.cur)
      BY <2>2, <3>1 DEF VerifyToken
    <3>2. CASE ~parseToken(accessToken, s.cur)
      BY <2>2, <2>4, <3>2 DEF VerifyToken
    <3> QED
      BY <3>1, <3>2
  <2> QED
    BY <2>1, <2>5 DEF ParseBearer
<1> QED
  BY <1>1, <1>2, <1>3, PTL DEF AccessSpec

=============================================================================
