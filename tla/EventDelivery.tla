--------------------------- MODULE EventDelivery ---------------------------
(***************************************************************************)
(* What the outbox pattern promises (ADR-003): an event is delivered only   *)
(* if the business transaction that wrote it committed, and it stays        *)
(* delivered.                                                               *)
(***************************************************************************)
CONSTANT Events

VARIABLES
    committed,  \* events whose business transaction committed
    delivered   \* events some consumer can read

vars == <<committed, delivered>>

Init == committed = {} /\ delivered = {}

Commit(e) ==
    /\ committed' = committed \cup {e}
    /\ UNCHANGED delivered

Deliver(e) ==
    /\ e \in committed
    /\ delivered' = delivered \cup {e}
    /\ UNCHANGED committed

Next == \E e \in Events : Commit(e) \/ Deliver(e)

Safety == Init /\ [][Next]_vars
=============================================================================
