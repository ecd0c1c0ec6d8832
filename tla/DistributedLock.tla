-------------------------- MODULE DistributedLock ---------------------------
(***************************************************************************)
(* The Redis lock of pkg/lock.  An attempt takes a fencing token with INCR   *)
(* and then tries SET NX in a second command; Release and Extend are Lua     *)
(* scripts that compare owner and token.  A key that was not extended ages   *)
(* (past the extension threshold) and then expires.                          *)
(***************************************************************************)
EXTENDS Naturals

CONSTANTS
    LockClients,
    RetryCount,     \* attempts of Acquire after the first
    MaxToken,       \* bound on the fencing counter
    Nobody

ASSUME LockAssumption ==
    /\ RetryCount \in Nat /\ MaxToken \in Nat \ {0}
    /\ Nobody \notin LockClients

VARIABLES
    lockKey,        \* lock:<key>: owner and fencing token, or Nobody's
    lockAged,       \* is the TTL of the key past ExtendThreshold?
    fencingCounter, \* lock:fencing_counter:<key>
    client,         \* client -> where it is, its token and its attempts
    expired         \* history: clients whose TTL passed since they got the lock

lockVars == <<lockKey, lockAged, fencingCounter, client, expired>>

NoLock == [owner |-> Nobody, token |-> 0]

LockTypeOK ==
    /\ lockKey \in [owner : LockClients \cup {Nobody}, token : 0 .. MaxToken]
    /\ lockAged \in BOOLEAN
    /\ fencingCounter \in 0 .. MaxToken
    /\ client \in [LockClients -> [pc : {"idle", "try", "setnx", "held"},
                                   token : 0 .. MaxToken, attempt : 0 .. RetryCount]]
    /\ expired \subseteq LockClients

IdleClient == [pc |-> "idle", token |-> 0, attempt |-> 0]

LockInit ==
    /\ lockKey = NoLock /\ lockAged = FALSE
    /\ fencingCounter = 0
    /\ client = [c \in LockClients |-> IdleClient]
    /\ expired = {}

Owns(c) == lockKey = [owner |-> c, token |-> client[c].token]

-----------------------------------------------------------------------------
AcquireLockStart(c) ==
    /\ client[c].pc = "idle"
    /\ client' = [client EXCEPT ![c] = [IdleClient EXCEPT !.pc = "try"]]
    /\ UNCHANGED <<lockKey, lockAged, fencingCounter, expired>>

\* tryAcquire, first half: INCR.
TakeToken(c) ==
    /\ client[c].pc = "try"
    /\ fencingCounter < MaxToken
    /\ fencingCounter' = fencingCounter + 1
    /\ client' = [client EXCEPT ![c].pc = "setnx", ![c].token = fencingCounter + 1]
    /\ UNCHANGED <<lockKey, lockAged, expired>>

\* A refused or failed attempt is repeated RetryCount times.
Again(c) ==
    client' = [client EXCEPT ![c] =
        IF @.attempt < RetryCount
        THEN [pc |-> "try", token |-> @.token, attempt |-> @.attempt + 1]
        ELSE IdleClient]

\* tryAcquire, second half: SET NX.
SetNX(c) ==
    /\ client[c].pc = "setnx"
    /\ IF lockKey = NoLock
       THEN /\ lockKey' = [owner |-> c, token |-> client[c].token]
            /\ lockAged' = FALSE
            /\ client' = [client EXCEPT ![c].pc = "held"]
            /\ expired' = expired \ {c}
       ELSE Again(c) /\ UNCHANGED <<lockKey, lockAged, expired>>
    /\ UNCHANGED fencingCounter

\* A Redis command fails.  A SET whose answer is lost leaves a key nobody knows
\* to be its own: the next attempt has another token.
AcquireFails(c) ==
    /\ client[c].pc \in {"try", "setnx"}
    /\ \/ UNCHANGED <<lockKey, lockAged>>
       \/ /\ client[c].pc = "setnx" /\ lockKey = NoLock
          /\ lockKey' = [owner |-> c, token |-> client[c].token]
          /\ lockAged' = FALSE
    /\ Again(c)
    /\ UNCHANGED <<fencingCounter, expired>>

\* The context ends while Acquire waits for its next attempt.
AcquireCancelled(c) ==
    /\ client[c].pc = "try" /\ client[c].attempt > 0
    /\ client' = [client EXCEPT ![c] = IdleClient]
    /\ UNCHANGED <<lockKey, lockAged, fencingCounter, expired>>

\* Variant: DEL without the comparison of owner and token.
ReleaseLockUnchecked(c) ==
    /\ client[c].pc = "held"
    /\ lockKey' = NoLock
    /\ client' = [client EXCEPT ![c] = IdleClient]
    /\ UNCHANGED <<lockAged, fencingCounter, expired>>

\* Release: deletes the key of this owner and token, otherwise reports that the
\* lock is gone or somebody else's.
ReleaseLockKey(c) ==
    /\ client[c].pc = "held"
    /\ lockKey' = IF Owns(c) THEN NoLock ELSE lockKey
    /\ client' = [client EXCEPT ![c] = IdleClient]
    /\ UNCHANGED <<lockAged, fencingCounter, expired>>

\* The script of Release fails: the client is done, the key stays until its TTL.
ReleaseFails(c) ==
    /\ client[c].pc = "held"
    /\ client' = [client EXCEPT ![c] = IdleClient]
    /\ UNCHANGED <<lockKey, lockAged, fencingCounter, expired>>

\* Extend: a new TTL for the key of this owner and token; the client of a lock
\* that expired or changed hands gets an error and gives up.
ExtendLock(c) ==
    /\ client[c].pc = "held"
    /\ IF Owns(c)
       THEN lockAged' = FALSE /\ UNCHANGED client
       ELSE client' = [client EXCEPT ![c] = IdleClient] /\ UNCHANGED lockAged
    /\ UNCHANGED <<lockKey, fencingCounter, expired>>

\* ShouldExtend becomes true; a client that does not extend loses the key.
LockAges ==
    /\ lockKey # NoLock /\ ~lockAged
    /\ lockAged' = TRUE
    /\ UNCHANGED <<lockKey, fencingCounter, client, expired>>

TTLPasses ==
    /\ lockKey # NoLock /\ lockAged
    /\ lockAged' = FALSE
    /\ lockKey' = NoLock
    /\ expired' = expired \cup {lockKey.owner}
    /\ UNCHANGED <<fencingCounter, client>>

LockNext ==
    \/ \E c \in LockClients :
          \/ AcquireLockStart(c) \/ TakeToken(c) \/ SetNX(c) \/ AcquireFails(c)
          \/ AcquireCancelled(c) \/ ReleaseLockKey(c) \/ ReleaseFails(c) \/ ExtendLock(c)
    \/ LockAges \/ TTLPasses

-----------------------------------------------------------------------------
\* A client that was given the lock and whose TTL has not passed owns the key,
\* whatever clients that lost the lock still do (release it, extend it, try
\* again): hence two such clients never exist.
HolderOwnsKey ==
    \A c \in LockClients : (client[c].pc = "held" /\ c \notin expired) => Owns(c)
=============================================================================
