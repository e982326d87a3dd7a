---------------------------- MODULE EventStorageMC ----------------------------
(***************************************************************************)
(* Instance of EventStorage for TLC: the event of preemption and another.  *)
(***************************************************************************)
EXTENDS EventStorage
=============================================================================
