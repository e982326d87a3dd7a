----------------------------- MODULE RunContract -----------------------------
(***************************************************************************)
(* What the runner of state machines promises to the resource manager.     *)
(*                                                                         *)
(* A run begins in the initial state of its machine, moves from state to   *)
(* state and is over when it has none: a run that had a state announces    *)
(* its end once.  Preemptions posted before the run has begun are          *)
(* dropped; one that is posted afterwards ends the run.                    *)
(***************************************************************************)
EXTENDS Naturals

CONSTANTS
  States,    \* the states of the machines that are not end states
  NoState,   \* the null state: no machine, or one that is over
  MaxRuns    \* bound on the number of runs

VARIABLES
  phase,       \* "idle", "begin", "running", "over" or "ended"
  state,       \* current state of the machine
  new_state_,  \* the state has changed since it was last asked for
  preempted,   \* a preemption was posted and not consumed
  ok,          \* ros::ok()
  run,         \* number of runs started
  finals       \* how many times the end of each run was announced

contract == <<phase, state, new_state_, preempted, ok, run, finals>>

Init ==
  /\ phase = "idle"
  /\ state = NoState
  /\ new_state_ = FALSE
  /\ preempted = FALSE
  /\ ok = TRUE
  /\ run = 0
  /\ finals = [r \in 1 .. MaxRuns |-> 0]

Start(s) ==
  /\ phase = "idle" /\ run < MaxRuns
  /\ phase' = "begin"
  /\ state' = s
  /\ new_state_' = TRUE
  /\ run' = run + 1
  /\ UNCHANGED <<preempted, ok, finals>>

Post ==
  /\ preempted' = TRUE
  /\ UNCHANGED <<phase, state, new_state_, ok, run, finals>>

\* The thread of the run has begun: what was posted before is dropped.
Begin ==
  /\ phase = "begin"
  /\ phase' = IF state = NoState THEN "over" ELSE "running"
  /\ preempted' = FALSE
  /\ UNCHANGED <<state, new_state_, ok, run, finals>>

Announce ==
  /\ state' = NoState
  /\ new_state_' = TRUE
  /\ finals' = [finals EXCEPT ![run] = @ + 1]
  /\ UNCHANGED <<ok, run>>

\* The machine missed its begin deadline.
DeadLine ==
  /\ phase = "begin"
  /\ phase' = "ended"
  /\ preempted' = FALSE
  /\ Announce

Move(s) ==
  /\ phase = "running"
  /\ s # state
  /\ state' = s
  /\ new_state_' = TRUE
  /\ UNCHANGED <<phase, preempted, ok, run, finals>>

\* The run reaches an end state or a timeout.
Finish ==
  /\ phase = "running"
  /\ phase' = "over"
  /\ UNCHANGED preempted
  /\ Announce

Preempt ==
  /\ phase = "running"
  /\ preempted
  /\ phase' = "over"
  /\ preempted' = FALSE
  /\ Announce

\* The node is shut down: the run is over without a word.
Abandon ==
  /\ phase = "running"
  /\ ~ ok
  /\ phase' = "over"
  /\ UNCHANGED <<state, new_state_, preempted, ok, run, finals>>

Exit ==
  /\ phase = "over"
  /\ phase' = "ended"
  /\ state' = NoState
  /\ new_state_' = TRUE
  /\ UNCHANGED <<preempted, ok, run, finals>>

Join ==
  /\ phase = "ended"
  /\ phase' = "idle"
  /\ UNCHANGED <<state, new_state_, preempted, ok, run, finals>>

\* The resource manager has seen that the state changed.
Seen ==
  /\ new_state_' = FALSE
  /\ UNCHANGED <<phase, state, preempted, ok, run, finals>>

Shutdown ==
  /\ ok' = FALSE
  /\ UNCHANGED <<phase, state, new_state_, preempted, run, finals>>

\* A run that was preempted or whose node is shut down is over soon.
Obey == (preempted \/ ~ ok) /\ (Preempt \/ Finish \/ Abandon)

Runner == Begin \/ DeadLine \/ (\E s \in States : Move(s)) \/ Finish \/ Obey \/ Exit

Next ==
  \/ \E s \in States \cup {NoState} : Start(s)
  \/ Post \/ Runner \/ Join \/ Seen \/ Shutdown

\* A run begins, obeys and exits; nothing obliges a machine to end by itself.
Fairness ==
  /\ WF_contract(Begin \/ DeadLine)
  /\ WF_contract(Obey)
  /\ WF_contract(Exit)

Spec == Init /\ [][Next]_contract /\ Fairness
=============================================================================
