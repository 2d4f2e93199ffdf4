---------------------------- MODULE MCSyncControl ----------------------------
(* SyncControl on small instances. *)
EXTENDS SyncControl

\* A clock that agrees, and one that is further behind than the policy allows.
SmallOffsets == {-2, 0}
=============================================================================
