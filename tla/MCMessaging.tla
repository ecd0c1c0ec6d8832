---------------------------- MODULE MCMessaging -----------------------------
(***************************************************************************)
(* Messaging for TLC.  The members of the consumer group, and the pods of   *)
(* the readers, are interchangeable: no definition tells one from another,  *)
(* and only invariants are checked.                                         *)
(***************************************************************************)
EXTENDS Messaging, TLC

Interchangeable == Permutations(Members) \cup Permutations(Pods)

=============================================================================
