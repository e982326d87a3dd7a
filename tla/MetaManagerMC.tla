--------------------------- MODULE MetaManagerMC ---------------------------
(***************************************************************************)
(* Instances of MetaManager for TLC.                                       *)
(***************************************************************************)
EXTENDS MetaManager

Meta(p, t, d, s) ==
  [priority |-> p, timeout |-> t, begin_dead_line |-> d, subs |-> s]

\* Two kinds of machines that share a resource; the one that outweighs the other has a
\* timeout and a begin deadline.
MCFew == {Meta(0, FALSE, FALSE, {1, 2}), Meta(1, TRUE, TRUE, {2})}

\* Machines that share one resource, and one that shares them all.
MCShared ==
  {Meta(p, FALSE, FALSE, s) : p \in {0, 1}, s \in {{1, 2}, {2, 3}}}
    \cup {Meta(1, FALSE, FALSE, {1, 2, 3})}
=============================================================================
