----------------------- MODULE StateMachinesStorageMC -----------------------
(***************************************************************************)
(* Instances of StateMachinesStorage for TLC.                              *)
(***************************************************************************)
EXTENDS StateMachinesStorage

\* No buffer holds a message; one does, below or above a machine of low
\* importance; one does, above everything but a vital machine.
MCLevels == {NoPriority, 3, 17, 20}

MCImportances == {void_msg, low, vital}
=============================================================================
