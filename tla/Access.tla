------------------------------- MODULE Access -------------------------------
(***************************************************************************)
(* Who may call: the signing keys of the gateway's pods, the service tokens *)
(* between services, and the sessions and refresh tokens of user-service.   *)
(* They share no state: user-service signs with a secret of its own and     *)
(* service tokens have their own keys.  One of them, `realm`, runs in a     *)
(* behaviour and the others stay as they began.                             *)
(***************************************************************************)
EXTENDS KeyRotation, ServiceAuth, UserSessions

VARIABLE realm

accessVars == <<keysVars, serviceVars, sessionVars, realm>>

Realms == {"keys", "services", "users"}

AccessInit ==
    /\ realm \in Realms
    /\ KeysInit /\ ServiceInit /\ SessionsInit
    /\ realm # "services" => manager.prev = NoServiceKey

\* Only the variables of `realm` may change.
OtherRealmsStay ==
    /\ realm # "keys" => UNCHANGED keysVars
    /\ realm # "services" => UNCHANGED serviceVars
    /\ realm # "users" => UNCHANGED sessionVars
    /\ UNCHANGED realm

AccessNext ==
    \/ realm = "keys" /\ KeysNext /\ OtherRealmsStay
    \/ realm = "services" /\ ServiceNext /\ OtherRealmsStay
    \/ realm = "users" /\ SessionsNext /\ OtherRealmsStay

AccessSpec == AccessInit /\ [][AccessNext]_accessVars

\* Nothing is claimed of pods that have parted from Redis: the search stops
\* there.
Undivided == ~diverged

=============================================================================
