----------------------------- MODULE Priorities -----------------------------
(***************************************************************************)
(* The priority of a message in a buffer: the importance of the message    *)
(* (importance_priority_t) crossed with the focus of the buffer            *)
(* (focus_priority_t), looked up in the table of PriorityHolder.  A void   *)
(* message and an inhibited buffer have the value -1, which indexes no row *)
(* and no column: the callers must test for them first.                    *)
(***************************************************************************)
EXTENDS Integers, Sequences

void_msg == -1
low      == 0
vital    == 4
inhibit    == -1
background == 0
atomic     == 4

Importances == void_msg .. vital
Focuses     == inhibit .. atomic

\* One row per importance from low to vital, one column per focus from
\* background to atomic.
priorities ==
  << <<0, 1, 2, 3, 16>>,
     <<4, 5, 6, 7, 17>>,
     <<8, 9, 10, 11, 18>>,
     <<12, 13, 14, 15, 19>>,
     <<20, 21, 22, 23, 24>> >>

\* Mutant: the table is read by columns.
PriorityTransposed(imp, foc) == priorities[foc + 1][imp + 1]

Priority(imp, foc) == priorities[imp + 1][foc + 1]

\* The value that both scans of the buffers and of the waiting machines start
\* from: every entry of the table exceeds it.
NoPriority == -100
=============================================================================
