---------------------------- MODULE UserSessions ----------------------------
(***************************************************************************)
(* user-service: Register, Login, Refresh and Logout of one user, and the   *)
(* administrator's operations on the account.  Every database statement is  *)
(* a step of its own, because no call but Register opens a transaction: the *)
(* calls of several devices interleave between them.                        *)
(*                                                                          *)
(* user_sessions is its number of rows.  A refresh token is 0 when it is    *)
(* revoked, expired or not issued, and otherwise valid; the number it has   *)
(* then is history and names the login it goes back to.  A token that is    *)
(* not valid and that no call holds may be generated again.                 *)
(***************************************************************************)
EXTENDS Naturals, FiniteSets, FiniteSetsExt

CONSTANTS
    Devices,           \* the callers; each has at most one request under way
    RefreshTokens,     \* the rows of refresh_tokens
    MaxSessions,       \* cfg.Security.MaxSessions
    MaxSessionErrors   \* bound: failures of statements on user_sessions

ASSUME SessionsAssumption ==
    /\ IsFiniteSet(Devices)
    /\ IsFiniteSet(RefreshTokens)
    /\ MaxSessions \in Nat \ {0}
    /\ MaxSessionErrors \in Nat

VARIABLES
    account,        \* "none", "active", "banned" or "deleted"
    sessions,       \* rows in user_sessions
    refreshToken,   \* the login each refresh token goes back to, 0 if not valid
    device,         \* the request of each device
    split,          \* history: the logins of which a token was spent twice
    sessionErrors   \* failures so far

sessionVars == <<account, sessions, refreshToken, device, split, sessionErrors>>

\* One login may be under way on every device beside those that have a token.
Logins == 1 .. Cardinality(RefreshTokens) + Cardinality(Devices)

NoRequest == [at |-> "idle", n |-> 0, tokens |-> {}, login |-> 0]

UserSessionsTypeOK ==
    /\ account \in {"none", "active", "banned", "deleted"}
    /\ sessions \in Nat
    /\ refreshToken \in [RefreshTokens -> Logins \cup {0}]
    /\ device \in [Devices -> [at : {"idle", "count", "trim", "create", "issue",
                                      "revoke", "find", "logout"},
                               n : Nat, tokens : SUBSET RefreshTokens, login : Logins \cup {0}]]
    /\ split \subseteq Logins
    /\ sessionErrors \in 0 .. MaxSessionErrors

SessionsInit ==
    /\ account = "none"
    /\ sessions = 0
    /\ refreshToken = [t \in RefreshTokens |-> 0]
    /\ device = [d \in Devices |-> NoRequest]
    /\ split = {}
    /\ sessionErrors = 0

\* The tokens FindValid returns.
Valid == {t \in RefreshTokens : refreshToken[t] # 0}

Revoked(ts) == [t \in RefreshTokens |-> IF t \in ts THEN 0 ELSE refreshToken[t]]

LiveLogins == {refreshToken[t] : t \in Valid} \cup {device[d].login : d \in Devices}

NewLogin == Min(Logins \ LiveLogins)

Begin(d, request) ==
    /\ device[d].at = "idle"
    /\ device' = [device EXCEPT ![d] = request]
    \* a login's number is given again once nothing of it is left
    /\ split' = split \cap LiveLogins

Step(d, at) == device' = [device EXCEPT ![d].at = at]

-----------------------------------------------------------------------------
(* Register and Login, up to issueTokens *)

\* One transaction creates the user and the wallet; a second registration of
\* the address is refused by the unique index, also after a soft delete.
Register(d) ==
    /\ account = "none"
    /\ account' = "active"
    /\ Begin(d, [NoRequest EXCEPT !.at = "count", !.login = NewLogin])
    /\ UNCHANGED <<sessions, refreshToken, sessionErrors>>

Login(d) ==
    /\ account = "active"
    /\ Begin(d, [NoRequest EXCEPT !.at = "count", !.login = NewLogin])
    /\ UNCHANGED <<account, sessions, refreshToken, sessionErrors>>

-----------------------------------------------------------------------------
(* issueTokens with a client address: EnsureSessionLimit and Create *)

AfterCount(n) == IF n >= MaxSessions THEN "trim" ELSE "create"

\* Variant: a count that leaves room for one session too many.
CountByUserLate(d) ==
    /\ device[d].at = "count"
    /\ device' = [device EXCEPT
           ![d].at = IF sessions > MaxSessions THEN "trim" ELSE "create", ![d].n = sessions]
    /\ UNCHANGED <<account, sessions, refreshToken, split, sessionErrors>>

CountByUser(d) ==
    /\ device[d].at = "count"
    /\ device' = [device EXCEPT ![d].at = AfterCount(sessions), ![d].n = sessions]
    /\ UNCHANGED <<account, sessions, refreshToken, split, sessionErrors>>

\* DeleteOldest, once per turn of the loop over the count a device has read.
\* Statements that overlap pick the same oldest row and remove it once.
DeleteOldest(ds) ==
    /\ ds # {}
    /\ \A d \in ds : device[d].at = "trim"
    /\ sessions' = IF sessions = 0 THEN 0 ELSE sessions - 1
    /\ device' = [d \in Devices |->
           IF d \in ds
           THEN [device[d] EXCEPT !.at = AfterCount(device[d].n - 1), !.n = @ - 1]
           ELSE device[d]]
    /\ UNCHANGED <<account, refreshToken, split, sessionErrors>>

CreateSession(d) ==
    /\ device[d].at = "create"
    /\ sessions' = sessions + 1
    /\ device' = [device EXCEPT ![d].at = "issue", ![d].n = 0]
    /\ UNCHANGED <<account, refreshToken, split, sessionErrors>>

\* issueTokens ignores the errors of both: a failed EnsureSessionLimit goes on
\* with Create, a failed Create with the tokens.
SessionStatementFails(d) ==
    /\ device[d].at \in {"count", "trim", "create"}
    /\ sessionErrors < MaxSessionErrors
    /\ sessionErrors' = sessionErrors + 1
    /\ device' = [device EXCEPT
           ![d].at = IF device[d].at = "create" THEN "issue" ELSE "create", ![d].n = 0]
    /\ UNCHANGED <<account, sessions, refreshToken, split>>

FreshRefreshTokens == RefreshTokens \ (Valid \cup UNION {device[d].tokens : d \in Devices})

GenerateRefreshToken == CHOOSE t \in FreshRefreshTokens : TRUE

\* The access token, which no table keeps, and a new refresh token.
IssueRefreshToken(d) ==
    /\ device[d].at = "issue"
    /\ FreshRefreshTokens # {}
    /\ refreshToken' = [refreshToken EXCEPT ![GenerateRefreshToken] = device[d].login]
    /\ device' = [device EXCEPT ![d] = NoRequest]
    /\ UNCHANGED <<account, sessions, split, sessionErrors>>

-----------------------------------------------------------------------------
(* Refresh: FindValid, Revoke, FindByID, and issueTokens without a session *)

Refresh(d) ==
    /\ \E t \in Valid :
          Begin(d, [NoRequest EXCEPT !.at = "revoke", !.tokens = {t}, !.login = refreshToken[t]])
    /\ UNCHANGED <<account, sessions, refreshToken, sessionErrors>>

\* Variant: a refresh that leaves the old token valid.
RevokeNothing(d) ==
    /\ device[d].at = "revoke"
    /\ Step(d, "find")
    /\ UNCHANGED <<account, sessions, refreshToken, split, sessionErrors>>

\* Revoke is an unconditional UPDATE: a call that comes second also goes on.
Revoke(d) ==
    /\ device[d].at = "revoke"
    /\ refreshToken' = Revoked(device[d].tokens)
    /\ split' = IF device[d].tokens \subseteq Valid THEN split ELSE split \cup {device[d].login}
    /\ Step(d, "find")
    /\ UNCHANGED <<account, sessions, sessionErrors>>

\* FindByID skips deleted users; is_active is not looked at.
FindByID(d) ==
    /\ device[d].at = "find"
    /\ device' = [device EXCEPT ![d] =
           IF account = "deleted" THEN NoRequest ELSE [@ EXCEPT !.at = "issue", !.tokens = {}]]
    /\ UNCHANGED <<account, sessions, refreshToken, split, sessionErrors>>

-----------------------------------------------------------------------------
(* Logout and the rest *)

\* Logout of the refresh token: FindValid ...
Logout(d) ==
    /\ \E t \in Valid : Begin(d, [NoRequest EXCEPT !.at = "logout", !.tokens = {t}])
    /\ UNCHANGED <<account, sessions, refreshToken, sessionErrors>>

\* ... and Revoke.  user_sessions keeps its row.
LogoutRevokes(d) ==
    /\ device[d].at = "logout"
    /\ refreshToken' = Revoked(device[d].tokens)
    /\ device' = [device EXCEPT ![d] = NoRequest]
    /\ UNCHANGED <<account, sessions, split, sessionErrors>>

\* A statement that is not ignored fails, the client goes away or the pod dies.
RequestFails(d) ==
    /\ device[d].at # "idle"
    /\ device' = [device EXCEPT ![d] = NoRequest]
    /\ UNCHANGED <<account, sessions, refreshToken, split, sessionErrors>>

\* expires_at passes.
RefreshTokenExpires ==
    /\ \E t \in Valid : refreshToken' = Revoked({t})
    /\ UNCHANGED <<account, sessions, device, split, sessionErrors>>

\* BanUser, UnbanUser and DeleteUser of the administrator.
SetActive ==
    /\ \/ account = "active" /\ account' = "banned"
       \/ account = "banned" /\ account' = "active"
    /\ UNCHANGED <<sessions, refreshToken, device, split, sessionErrors>>

SoftDelete ==
    /\ account \in {"active", "banned"}
    /\ account' = "deleted"
    /\ UNCHANGED <<sessions, refreshToken, device, split, sessionErrors>>

SessionsNext ==
    \/ \E d \in Devices :
          \/ Register(d) \/ Login(d)
          \/ CountByUser(d) \/ CreateSession(d) \/ SessionStatementFails(d)
          \/ IssueRefreshToken(d)
          \/ Refresh(d) \/ Revoke(d) \/ FindByID(d)
          \/ Logout(d) \/ LogoutRevokes(d)
          \/ RequestFails(d)
    \/ \E ds \in SUBSET Devices : DeleteOldest(ds)
    \/ RefreshTokenExpires
    \/ SetActive
    \/ SoftDelete

-----------------------------------------------------------------------------

\* session_repository.go:53 "removes oldest session if user exceeds
\* maxSessions": the count and the insert are separate statements, so each
\* concurrent login and each failed statement may add one row to the limit,
\* but rows never pile up from one race to the next.
SessionsBounded ==
    sessions <= MaxSessions + (Cardinality(Devices) - 1) + sessionErrors

\* A login has at most one valid refresh token, however refreshes, logouts and
\* failures interleave, unless two refreshes read the same token before either
\* of them revoked it.
OneTokenPerLogin ==
    \A t, u \in Valid : t # u /\ refreshToken[t] = refreshToken[u] => refreshToken[t] \in split

=============================================================================
