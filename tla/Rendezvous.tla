----------------------------- MODULE Rendezvous -----------------------------
(***************************************************************************)
(* What the barriers of a meta state machine promise: the parties of a     *)
(* meeting are called once all of them have arrived, and never before.     *)
(* Meetings are held again and again: to be called again, everybody must   *)
(* arrive again.                                                           *)
(***************************************************************************)
CONSTANTS Parties, Meetings

VARIABLES
  members,  \* the parties enlisted for each meeting
  arrived,  \* those that have arrived since it was last held
  called    \* the meetings each party was called to and has not been told of yet

vars == <<members, arrived, called>>

Init ==
  /\ members = [m \in Meetings |-> {}]
  /\ arrived = [m \in Meetings |-> {}]
  /\ called = [p \in Parties |-> {}]

\* A party is enlisted for some meetings, before anybody has arrived.
Enlist(p) ==
  /\ \A m \in Meetings : arrived[m] = {}
  /\ \E some \in SUBSET Meetings :
       members' = [m \in Meetings |-> members[m] \cup (IF m \in some THEN {p} ELSE {})]
  /\ UNCHANGED <<arrived, called>>

Wait(p, m) ==
  /\ p \in members[m]
  /\ arrived[m] \cup {p} # members[m]
  /\ arrived' = [arrived EXCEPT ![m] = @ \cup {p}]
  /\ UNCHANGED <<members, called>>

\* The last one arrives.
Meet(p, m) ==
  /\ p \in members[m]
  /\ arrived[m] \cup {p} = members[m]
  /\ arrived' = [arrived EXCEPT ![m] = {}]
  /\ called' = [q \in Parties |-> called[q] \cup (IF q \in members[m] THEN {m} ELSE {})]
  /\ UNCHANGED members

Hear(p) ==
  /\ \E rest \in SUBSET called[p] : called' = [called EXCEPT ![p] = rest]
  /\ UNCHANGED <<members, arrived>>

Next ==
  \E p \in Parties :
    Enlist(p) \/ Hear(p) \/ \E m \in Meetings : Wait(p, m) \/ Meet(p, m)

Spec == Init /\ [][Next]_vars
=============================================================================
