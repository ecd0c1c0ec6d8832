---------------------------- MODULE ServiceAuth ----------------------------
(***************************************************************************)
(* pkg/serviceauth: service tokens signed with a key that a scheduler       *)
(* rotates.  One KeyManager is shared by a TokenIssuer (Transport), a       *)
(* TokenValidator (Middleware) and a RotationScheduler, as the package's    *)
(* tests set them up; the scheduler's loop and ForceRotate are two          *)
(* goroutines.                                                              *)
(*                                                                          *)
(* Time is counted in ticks and kept as ages and as the ticks left until    *)
(* nextRotation.  One token is followed through its life.                   *)
(***************************************************************************)
EXTENDS Naturals, FiniteSetsExt

CONSTANTS
    RotationInterval,  \* in ticks, 7 days in the code
    OverlapPeriod,     \* in ticks, 24 hours
    ServiceTokenTTL    \* in ticks, at most 24 hours (NewTokenIssuer caps it)

ASSUME ServiceAuthAssumption ==
    /\ OverlapPeriod \in Nat \ {0}
    /\ ServiceTokenTTL \in 1 .. OverlapPeriod
    /\ RotationInterval \in Nat
    /\ RotationInterval > OverlapPeriod

\* Enough keys for the current, the previous, the token's and a new one.
ServiceKeys == 1 .. 4

NoServiceKey == 0

NoServiceToken == [key |-> NoServiceKey, age |-> 0]

Rotators == {"loop", "force"}

VARIABLES
    manager,       \* currentKey, previousKey and the age of currentKey.ActivatedAt
    untilRotation, \* ticks until nextRotation, 0 when it is due
    rotator,       \* what each rotator is doing
    looping,       \* the scheduler's loop runs
    available,     \* the validator's flag
    serviceToken,  \* the token that is followed
    forced         \* history: ForceRotate rotated the key during its life

serviceVars == <<manager, untilRotation, rotator, looping, available, serviceToken, forced>>

ServiceTypeOK ==
    /\ manager \in [cur : ServiceKeys, prev : ServiceKeys \cup {NoServiceKey},
                    age : 0 .. OverlapPeriod + 1]
    /\ untilRotation \in 0 .. RotationInterval
    /\ rotator \in [Rotators -> {"idle", "rotate", "record"}]
    /\ looping \in BOOLEAN
    /\ available \in BOOLEAN
    /\ serviceToken \in [key : ServiceKeys \cup {NoServiceKey}, age : 0 .. ServiceTokenTTL]
    /\ forced \in BOOLEAN

\* NewKeyManager, with or without a previous key, NewTokenValidator and
\* NewRotationScheduler; Start begins the loop.
ServiceInit ==
    /\ manager \in [cur : {1}, prev : {2, NoServiceKey}, age : {0}]
    /\ untilRotation = RotationInterval
    /\ rotator = [r \in Rotators |-> "idle"]
    /\ looping = TRUE
    /\ available = TRUE
    /\ serviceToken = NoServiceToken
    /\ forced = FALSE

defaultKeyGenerator ==
    CHOOSE k \in ServiceKeys : k \notin {manager.cur, manager.prev, serviceToken.key}

-----------------------------------------------------------------------------
(* RotationScheduler *)

\* rotationLoop: a check of the ticker finds that the rotation is due.
CheckRotation ==
    /\ looping
    /\ rotator["loop"] = "idle"
    /\ untilRotation = 0
    /\ rotator' = [rotator EXCEPT !["loop"] = "rotate"]
    /\ UNCHANGED <<manager, untilRotation, looping, available, serviceToken, forced>>

ForceRotate ==
    /\ rotator["force"] = "idle"
    /\ rotator' = [rotator EXCEPT !["force"] = "rotate"]
    /\ UNCHANGED <<manager, untilRotation, looping, available, serviceToken, forced>>

\* rotate: the generator fails, the error is logged or returned.
RotateFails(r) ==
    /\ rotator[r] = "rotate"
    /\ rotator' = [rotator EXCEPT ![r] = "idle"]
    /\ UNCHANGED <<manager, untilRotation, looping, available, serviceToken, forced>>

\* rotate: RotateKey under the manager's lock ...
RotateKey(r) ==
    /\ rotator[r] = "rotate"
    /\ manager' = [cur |-> defaultKeyGenerator, prev |-> manager.cur, age |-> 0]
    /\ rotator' = [rotator EXCEPT ![r] = "record"]
    /\ forced' = (forced \/ (r = "force" /\ serviceToken # NoServiceToken))
    /\ UNCHANGED <<untilRotation, looping, available, serviceToken>>

\* Variant: a rotation that leaves nextRotation where it was.
RecordNothing(r) ==
    /\ rotator[r] = "record"
    /\ rotator' = [rotator EXCEPT ![r] = "idle"]
    /\ UNCHANGED <<manager, untilRotation, looping, available, serviceToken, forced>>

\* ... and the times under the scheduler's lock afterwards.
RecordRotation(r) ==
    /\ rotator[r] = "record"
    /\ untilRotation' = RotationInterval
    /\ rotator' = [rotator EXCEPT ![r] = "idle"]
    /\ UNCHANGED <<manager, looping, available, serviceToken, forced>>

\* Stop cancels the context; the loop returns at its next select.
StopLoop ==
    /\ looping
    /\ rotator["loop"] = "idle"
    /\ looping' = FALSE
    /\ UNCHANGED <<manager, untilRotation, rotator, available, serviceToken, forced>>

-----------------------------------------------------------------------------
(* TokenIssuer and TokenValidator *)

\* RoundTrip issues a fresh token for an outgoing request.
IssueToken ==
    /\ serviceToken = NoServiceToken
    /\ serviceToken' = [key |-> manager.cur, age |-> 0]
    /\ forced' = FALSE
    /\ UNCHANGED <<manager, untilRotation, rotator, looping, available>>

SetAvailable ==
    /\ available' = ~available
    /\ UNCHANGED <<manager, untilRotation, rotator, looping, serviceToken, forced>>

ValidationKeys ==
    {manager.cur} \cup
        (IF manager.prev # NoServiceKey /\ manager.age <= OverlapPeriod THEN {manager.prev} ELSE {})

parseServiceToken(t, k) == t.key = k /\ t.age < ServiceTokenTTL

\* ValidateToken, and with it Middleware: 403 on every error.
ValidateToken(t) ==
    IF ~available
    THEN "ErrAuthUnavailable"
    ELSE IF \E k \in ValidationKeys : parseServiceToken(t, k) THEN "claims" ELSE "ErrTokenInvalid"

ServiceTick ==
    /\ manager' = [manager EXCEPT !.age = Min({@ + 1, OverlapPeriod + 1})]
    /\ untilRotation' = IF untilRotation = 0 THEN 0 ELSE untilRotation - 1
    /\ serviceToken' = IF serviceToken = NoServiceToken \/ serviceToken.age + 1 >= ServiceTokenTTL
                       THEN NoServiceToken
                       ELSE [serviceToken EXCEPT !.age = @ + 1]
    /\ UNCHANGED <<rotator, looping, available, forced>>

ServiceNext ==
    \/ CheckRotation
    \/ ForceRotate
    \/ \E r \in Rotators : RotateFails(r) \/ RotateKey(r) \/ RecordRotation(r)
    \/ StopLoop
    \/ IssueToken
    \/ SetAvailable
    \/ ServiceTick

-----------------------------------------------------------------------------

\* serviceauth.go:3 "automatic key rotation ... with a 24h overlap period": a
\* token is accepted for its whole life as long as the subsystem is available
\* and nobody calls ForceRotate meanwhile, however the loop's check, RotateKey
\* and the update of nextRotation fall between the ticks.
OverlapCoversTokens ==
    serviceToken # NoServiceToken /\ available /\ ~forced => ValidateToken(serviceToken) = "claims"

=============================================================================
