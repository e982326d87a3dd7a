-------------------------- MODULE ReactiveBuffersMC --------------------------
(***************************************************************************)
(* Instances of ReactiveBuffers for TLC.                                   *)
(***************************************************************************)
EXTENDS ReactiveBuffers

\* The two ends of the order, an importance in between and a void message.
MCImportances == {void_msg, low, 2, vital}

\* The columns that the documented order tells apart, and inhibit.
MCFocuses == {inhibit, 2, atomic}

\* A byte below and one above every priority of the table.
MCOutside == {-128, 127}
=============================================================================
