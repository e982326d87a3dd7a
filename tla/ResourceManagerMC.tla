-------------------------- MODULE ResourceManagerMC --------------------------
(***************************************************************************)
(* Instances of ResourceManager for TLC.                                   *)
(***************************************************************************)
EXTENDS ResourceManager

\* No reactive message; one that outweighs the machines of low importance.
MCLevels == {NoPriority, 18}
=============================================================================
