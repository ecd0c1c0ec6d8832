---------------------------- MODULE KeyRotation ----------------------------
(***************************************************************************)
(* pkg/auth/key_rotation.go: the KeyRotationManager of every gateway pod.   *)
(* A manager keeps the current and the previous signing key in memory,      *)
(* rotates them under its lock, and afterwards writes a copy to one Redis   *)
(* key, from which a restarted pod takes its state.                         *)
(*                                                                          *)
(* Keys are numbers taken from a pool; a key nobody holds any more may be   *)
(* generated again, which keeps the state finite.  Time is counted in ticks *)
(* and kept as the age of a rotation and the age of the token.  One token   *)
(* is followed through its life.                                            *)
(***************************************************************************)
EXTENDS Naturals, FiniteSets, FiniteSetsExt

CONSTANTS
    Pods,           \* the pods that run a manager
    KeyPool,        \* the keys generateKey can return, positive numbers
    GracePeriod,    \* in ticks: how long the previous key is accepted
    AccessTokenTTL  \* in ticks: the life of a token

\* jwt.go:11 and key_rotation.go:27 are both 15 minutes.
ASSUME RotationAssumption ==
    /\ IsFiniteSet(Pods)
    /\ KeyPool \subseteq Nat \ {0}
    /\ GracePeriod \in Nat \ {0}
    /\ AccessTokenTTL \in 1 .. GracePeriod

VARIABLES
    keyState,      \* per pod: the manager's state, NoState before Initialize
    keyCall,       \* per pod and caller: the persistState under way
    redisState,    \* the state under jwt:key_rotation:state
    accessToken,   \* the token that is followed
    rotations,     \* history: rotations since it was signed, capped at 2
    diverged       \* history: a pod and Redis have parted (see Diverges)

keysVars == <<keyState, keyCall, redisState, accessToken, rotations, diverged>>

NoKey == 0

NoState == [cur |-> NoKey, prev |-> NoKey, age |-> 0]

NoToken == [key |-> NoKey, age |-> 0]

\* Rotate is called by the loop and may be called by hand; Initialize also
\* persists what it generated.
KeyCallers == {"init", "loop", "manual"}

KeyCallIdle == [at |-> "idle", snapshot |-> NoState]

KeyStates == [cur : KeyPool \cup {NoKey}, prev : KeyPool \cup {NoKey}, age : 0 .. GracePeriod + 1]

\* The state of keys, persistence calls and the token.
KeysTypeOK ==
    /\ keyState \in [Pods -> KeyStates]
    /\ keyCall \in [Pods -> [KeyCallers -> [at : {"idle", "read", "set"}, snapshot : KeyStates]]]
    /\ redisState \in KeyStates
    /\ accessToken \in [key : KeyPool \cup {NoKey}, age : 0 .. AccessTokenTTL]
    /\ rotations \in 0 .. 2
    /\ diverged \in BOOLEAN

KeysInit ==
    /\ keyState = [p \in Pods |-> NoState]
    /\ keyCall = [p \in Pods |-> [c \in KeyCallers |-> KeyCallIdle]]
    /\ redisState = NoState
    /\ accessToken = NoToken
    /\ rotations = 0
    /\ diverged = FALSE

HeldStates ==
    {redisState} \cup {keyState[p] : p \in Pods}
        \cup {keyCall[p][c].snapshot : p \in Pods, c \in KeyCallers}

\* generateKey: a key nobody has.
FreshKeys ==
    KeyPool \ ({accessToken.key} \cup UNION {{s.cur, s.prev} : s \in HeldStates})

generateKey == CHOOSE k \in FreshKeys : \A other \in FreshKeys : k <= other

Started(p) == keyState[p] # NoState

Others(p) == {q \in Pods \ {p} : Started(q)}

\* A pod serves once Initialize has returned.
Serving(p) == Started(p) /\ keyCall[p]["init"].at = "idle"

-----------------------------------------------------------------------------
(* Initialize *)

\* Redis has a state: the pod takes it.
InitializeLoads(p) ==
    /\ ~Started(p)
    /\ redisState # NoState
    /\ keyState' = [keyState EXCEPT ![p] = redisState]
    /\ diverged' = (diverged \/ \E q \in Others(p) : keyState[q] # redisState)
    /\ UNCHANGED <<keyCall, redisState, accessToken, rotations>>

\* Redis has none, or loadState failed: a fresh key, and then persistState.
InitializeGenerates(p) ==
    /\ ~Started(p)
    /\ FreshKeys # {}
    /\ keyState' = [keyState EXCEPT ![p] = [NoState EXCEPT !.cur = generateKey]]
    /\ keyCall' = [keyCall EXCEPT ![p]["init"].at = "read"]
    /\ diverged' = (diverged \/ redisState # NoState \/ Others(p) # {})
    /\ UNCHANGED <<redisState, accessToken, rotations>>

-----------------------------------------------------------------------------
(* Rotate and persistState *)

\* Variant: a rotation that forgets the key it replaces.
RotateForgets(p, c) ==
    /\ c # "init"
    /\ Serving(p)
    /\ keyCall[p][c].at = "idle"
    /\ FreshKeys # {}
    /\ keyState' = [keyState EXCEPT ![p] = [NoState EXCEPT !.cur = generateKey]]
    /\ keyCall' = [keyCall EXCEPT ![p][c].at = "read"]
    /\ rotations' = Min({rotations + 1, 2})
    /\ diverged' = (diverged \/ Others(p) # {})
    /\ UNCHANGED <<redisState, accessToken>>

\* Rotate, up to the unlock: the current key becomes the previous one.
Rotate(p, c) ==
    /\ c # "init"
    /\ Serving(p)
    /\ keyCall[p][c].at = "idle"
    /\ FreshKeys # {}
    /\ keyState' = [keyState EXCEPT ![p] =
           [cur |-> generateKey, prev |-> keyState[p].cur, age |-> 0]]
    /\ keyCall' = [keyCall EXCEPT ![p][c].at = "read"]
    /\ rotations' = Min({rotations + 1, 2})
    /\ diverged' = (diverged \/ Others(p) # {})
    /\ UNCHANGED <<redisState, accessToken>>

\* persistState reads the state under the read lock ...
persistReads(p, c) ==
    /\ keyCall[p][c].at = "read"
    /\ keyCall' = [keyCall EXCEPT ![p][c] = [at |-> "set", snapshot |-> keyState[p]]]
    /\ UNCHANGED <<keyState, redisState, accessToken, rotations, diverged>>

\* ... and writes it later: two calls may write in either order.
persistSets(p, c) ==
    /\ keyCall[p][c].at = "set"
    /\ redisState' = keyCall[p][c].snapshot
    /\ keyCall' = [keyCall EXCEPT ![p][c] = KeyCallIdle]
    /\ UNCHANGED <<keyState, accessToken, rotations, diverged>>

\* The write fails.  The loop ignores the error; Initialize returns it, and
\* the pod does not come up.
persistFails(p, c) ==
    /\ keyCall[p][c].at = "set"
    /\ keyCall' = [keyCall EXCEPT ![p][c] = KeyCallIdle]
    /\ keyState' = IF c = "init" THEN [keyState EXCEPT ![p] = NoState] ELSE keyState
    /\ UNCHANGED <<redisState, accessToken, rotations, diverged>>

-----------------------------------------------------------------------------
(* Tokens *)

\* SignToken, by a pod that serves.
SignToken(p) ==
    /\ Serving(p)
    /\ accessToken = NoToken
    /\ accessToken' = [key |-> keyState[p].cur, age |-> 0]
    /\ rotations' = 0
    /\ UNCHANGED <<keyState, keyCall, redisState, diverged>>

\* parseToken: the signature matches and the token has not expired.
parseToken(t, k) == t.key = k /\ t.age < AccessTokenTTL

IsWithinGracePeriod(s) == s.prev # NoKey /\ s.age <= GracePeriod

VerifyToken(s, t) ==
    CASE s = NoState                                             -> "ErrKeyRotationNotInitialized"
      [] s # NoState /\ parseToken(t, s.cur)                     -> "claims"
      [] s # NoState /\ ~parseToken(t, s.cur)
           /\ IsWithinGracePeriod(s) /\ parseToken(t, s.prev)    -> "claims"
      [] s # NoState /\ ~parseToken(t, s.cur) /\ s.prev # NoKey
           /\ ~IsWithinGracePeriod(s) /\ t.key = s.prev          -> "ErrGracePeriodExpired"
      [] OTHER                                                   -> "ErrNoValidKey"

\* ParseBearer of the gateway, for a token that nobody revoked.
ParseBearer(p, t) == VerifyToken(keyState[p], t) = "claims"

-----------------------------------------------------------------------------
(* Time and failures *)

Aged(s) == IF s = NoState THEN s ELSE [s EXCEPT !.age = Min({s.age + 1, GracePeriod + 1})]

KeysTick ==
    /\ keyState' = [p \in Pods |-> Aged(keyState[p])]
    /\ redisState' = Aged(redisState)
    /\ keyCall' = [p \in Pods |-> [c \in KeyCallers |->
           [keyCall[p][c] EXCEPT !.snapshot = Aged(@)]]]
    /\ accessToken' = IF accessToken = NoToken \/ accessToken.age + 1 >= AccessTokenTTL
                      THEN NoToken
                      ELSE [accessToken EXCEPT !.age = @ + 1]
    /\ rotations' = IF accessToken' = NoToken THEN 0 ELSE rotations
    /\ UNCHANGED diverged

\* The pod is stopped or dies.
PodStops(p) ==
    /\ Started(p)
    /\ keyState' = [keyState EXCEPT ![p] = NoState]
    /\ keyCall' = [keyCall EXCEPT ![p] = [c \in KeyCallers |-> KeyCallIdle]]
    /\ diverged' = (diverged \/ redisState # keyState[p])
    /\ UNCHANGED <<redisState, accessToken, rotations>>

\* The TTL of three rotation intervals: it runs out only when no pod has
\* rotated for days, long after the last token.
StateExpires ==
    /\ \A p \in Pods : ~Started(p)
    /\ accessToken = NoToken
    /\ redisState # NoState
    /\ redisState.age > GracePeriod
    /\ redisState' = NoState
    /\ UNCHANGED <<keyState, keyCall, accessToken, rotations, diverged>>

KeysNext ==
    \/ \E p \in Pods :
          \/ InitializeLoads(p)
          \/ InitializeGenerates(p)
          \/ SignToken(p)
          \/ PodStops(p)
          \/ \E c \in KeyCallers :
                Rotate(p, c) \/ persistReads(p, c) \/ persistSets(p, c) \/ persistFails(p, c)
    \/ KeysTick
    \/ StateExpires

-----------------------------------------------------------------------------

\* key_rotation.go:86 "ensures zero failed authentication requests during the
\* rotation window": as long as no pod parted from Redis (a second pod that
\* rotates on its own, a pod that stops before its state is written, a load
\* that fails), a token is accepted for its whole life by every pod that
\* serves, through one rotation and through any number of restarts.
TokensOutliveRotation ==
    accessToken # NoToken /\ ~diverged /\ rotations <= 1 =>
        \A p \in Pods : Serving(p) => ParseBearer(p, accessToken)

=============================================================================
