------------------------ MODULE StateMachinesStorage ------------------------
(***************************************************************************)
(* The storage of the state machines that wait to be executed.             *)
(*                                                                         *)
(* Two threads use it: the ROS callbacks ("spin") register machines and    *)
(* cancel them, the main loop takes the next machine (pop), asks whether   *)
(* one should preempt the running one (poppable) and drops those whose     *)
(* begin deadline has passed (clean).  Every operation but clean holds     *)
(* mutex_ throughout and is one step; clean takes no lock, so each of its  *)
(* accesses to the vector is a step, and one outside of the vector is      *)
(* undefined behaviour, where the model stops.                             *)
(***************************************************************************)
EXTENDS Priorities, FiniteSets

CONSTANTS
  SentImportances,  \* the importances clients give to machines
  Deadlines,        \* the begin deadlines clients give, 0 for none
  Levels,           \* the priorities the buffers may have when pop is called
  MaxMachines,      \* bound on the number of machines
  MaxTime,          \* bound on the clock
  None              \* no machine

ASSUME SentAssumption == SentImportances \subseteq Importances
ASSUME DeadlinesAssumption == Deadlines \subseteq Nat
ASSUME LevelsAssumption == Levels \subseteq Int
ASSUME BoundsAssumption == MaxMachines \in Nat /\ MaxTime \in Nat
ASSUME NoneAssumption == None \notin Nat

VARIABLES
  states_storage_,   \* the vector of waiting machines
  unpoppable_,       \* the next poppable() answers no
  _stateMachinesId,  \* id of the next machine to register
  now,               \* clock
  running,           \* id of the machine the main loop runs, or None
  pc, i,             \* control of clean() and its index
  doomed,            \* the id clean() has just announced
  undefined,         \* an access outside of the vector or of the table occurred
  started,           \* history: the ids that were started, in order
  announced          \* history: the ids announced as past their deadline

vars == <<states_storage_, unpoppable_, _stateMachinesId, now, running, pc, i,
          doomed, undefined, started, announced>>

Machines == [id : Nat, imp : Importances, begin_dead_line : Nat]

Init ==
  /\ states_storage_ = <<>>
  /\ unpoppable_ = FALSE
  /\ _stateMachinesId = 0
  /\ now = 1
  /\ running = None
  /\ pc = "idle"
  /\ i = 1
  /\ doomed = None
  /\ undefined = FALSE
  /\ started = <<>>
  /\ announced = {}

Positions == 1 .. Len(states_storage_)

isTooLate(m) == m.begin_dead_line # 0 /\ m.begin_dead_line < now

\* The positions kept by an erase, in increasing order.
Increasing(kept) ==
  {p \in [1 .. Cardinality(kept) -> kept] :
     \A a, b \in 1 .. Cardinality(kept) : a < b => p[a] < p[b]}

\* The vector once everything but the kept positions has been erased.
Keep(kept) ==
  \E p \in Increasing(kept) :
    states_storage_' = [k \in 1 .. Cardinality(kept) |-> states_storage_[p[k]]]

\* Mutant: the last of those with the highest importance.
IsMostImportantLast(k) ==
  \A j \in Positions :
    \/ states_storage_[j].imp < states_storage_[k].imp
    \/ states_storage_[j].imp = states_storage_[k].imp /\ j <= k

\* The position pop and poppable consider: the first of those with the highest
\* importance.
IsMostImportant(k) ==
  \A j \in Positions :
    \/ states_storage_[j].imp < states_storage_[k].imp
    \/ states_storage_[j].imp = states_storage_[k].imp /\ k <= j
-----------------------------------------------------------------------------
(***************************************************************************)
(* The service callbacks.                                                  *)
(***************************************************************************)

\* _serviceCallback: the machine is pushed under a fresh id.
push(imp, dead_line) ==
  /\ ~ undefined
  /\ _stateMachinesId < MaxMachines
  /\ states_storage_' = Append(states_storage_,
       [id |-> _stateMachinesId, imp |-> imp, begin_dead_line |-> dead_line])
  /\ _stateMachinesId' = _stateMachinesId + 1
  /\ UNCHANGED <<unpoppable_, now, running, pc, i, doomed, undefined, started,
                 announced>>

\* stateMachineCancel: remove erases the machines whose id is greater than the
\* requested one, and the cancellation is acknowledged when there was one.
remove(id) ==
  LET gone == {k \in Positions : states_storage_[k].id > id} IN
  /\ ~ undefined
  /\ gone # {}
  /\ Keep(Positions \ gone)
  /\ UNCHANGED <<unpoppable_, _stateMachinesId, now, running, pc, i, doomed, undefined,
                 started, announced>>
-----------------------------------------------------------------------------
(***************************************************************************)
(* The main loop.                                                          *)
(***************************************************************************)

\* Mutant: the machine is returned and stays in the vector.
popKeeps(priority) ==
  /\ ~ undefined
  /\ pc = "idle"
  /\ running = None
  /\ \E k \in Positions :
       /\ IsMostImportant(k)
       /\ IF states_storage_[k].imp = void_msg
          THEN undefined' = TRUE /\ UNCHANGED <<running, unpoppable_, started>>
          ELSE /\ Priority(states_storage_[k].imp, atomic) >= priority
               /\ running' = states_storage_[k].id
               /\ started' = Append(started, states_storage_[k].id)
               /\ unpoppable_' = TRUE
               /\ UNCHANGED undefined
  /\ UNCHANGED <<states_storage_, _stateMachinesId, now, pc, i, doomed, announced>>

\* pop(priority) while nothing runs, and setUnpoppable when it yields a machine.
\* A void machine has no row in the table.
pop(priority) ==
  /\ ~ undefined
  /\ pc = "idle"
  /\ running = None
  /\ \E k \in Positions :
       /\ IsMostImportant(k)
       /\ IF states_storage_[k].imp = void_msg
          THEN /\ undefined' = TRUE
               /\ UNCHANGED <<states_storage_, running, unpoppable_, started>>
          ELSE /\ Priority(states_storage_[k].imp, atomic) >= priority
               /\ Keep(Positions \ {k})
               /\ running' = states_storage_[k].id
               /\ started' = Append(started, states_storage_[k].id)
               /\ unpoppable_' = TRUE
               /\ UNCHANGED undefined
  /\ UNCHANGED <<_stateMachinesId, now, pc, i, doomed, announced>>

\* poppable(priority) while a machine runs: the first call after a pop is refused.
\* The others look up the most important machine that waits; their answer changes
\* nothing here.
poppable ==
  /\ ~ undefined
  /\ pc = "idle"
  /\ running # None
  /\ IF unpoppable_
     THEN unpoppable_' = FALSE /\ UNCHANGED undefined
     ELSE /\ UNCHANGED unpoppable_
          /\ undefined' = \E k \in Positions :
               IsMostImportant(k) /\ states_storage_[k].imp = void_msg
  /\ UNCHANGED <<states_storage_, _stateMachinesId, now, running, pc, i, doomed,
                 started, announced>>

\* The run ends, preempted or not, and its thread is joined.
RunEnds ==
  /\ ~ undefined
  /\ pc = "idle"
  /\ running # None
  /\ running' = None
  /\ UNCHANGED <<states_storage_, unpoppable_, _stateMachinesId, now, pc, i,
                 doomed, undefined, started, announced>>

\* Mutant: the loop begins one position too early.
CleanBeginEarly ==
  /\ ~ undefined
  /\ pc = "idle"
  /\ pc' = "test"
  /\ i' = 0
  /\ UNCHANGED <<states_storage_, unpoppable_, _stateMachinesId, now, running,
                 doomed, undefined, started, announced>>

\* clean(): for(size_t i = 0; ...
CleanBegin ==
  /\ ~ undefined
  /\ pc = "idle"
  /\ pc' = "test"
  /\ i' = 1
  /\ UNCHANGED <<states_storage_, unpoppable_, _stateMachinesId, now, running,
                 doomed, undefined, started, announced>>

\* ... i < size() ...
CleanSize ==
  /\ ~ undefined
  /\ pc = "test"
  /\ pc' = IF i \in Positions THEN "late" ELSE "idle"
  /\ UNCHANGED <<states_storage_, unpoppable_, _stateMachinesId, now, running, i,
                 doomed, undefined, started, announced>>

\* Mutant: the first machine in time ends the loop.
CleanTestStops ==
  /\ ~ undefined
  /\ pc = "late"
  /\ IF i \notin Positions THEN undefined' = TRUE /\ pc' = pc
     ELSE /\ pc' = IF isTooLate(states_storage_[i]) THEN "announce" ELSE "idle"
          /\ UNCHANGED undefined
  /\ UNCHANGED <<states_storage_, unpoppable_, _stateMachinesId, now, running, i,
                 doomed, started, announced>>

\* ... isTooLate() of the machine that is at i by now ...
CleanTest ==
  /\ ~ undefined
  /\ pc = "late"
  /\ IF i \notin Positions THEN undefined' = TRUE /\ UNCHANGED <<pc, i>>
     ELSE IF isTooLate(states_storage_[i]) THEN pc' = "announce" /\ UNCHANGED <<i, undefined>>
     ELSE pc' = "test" /\ i' = i + 1 /\ UNCHANGED undefined
  /\ UNCHANGED <<states_storage_, unpoppable_, _stateMachinesId, now, running,
                 doomed, started, announced>>

\* ... getId() of the machine at i, whose end is published ...
CleanAnnounce ==
  /\ ~ undefined
  /\ pc = "announce"
  /\ IF i \in Positions
     THEN /\ pc' = "erase"
          /\ doomed' = states_storage_[i].id
          /\ announced' = announced \cup {states_storage_[i].id}
          /\ UNCHANGED undefined
     ELSE undefined' = TRUE /\ UNCHANGED <<pc, doomed, announced>>
  /\ UNCHANGED <<states_storage_, unpoppable_, _stateMachinesId, now, running, i,
                 started>>

\* Mutant: the machine announced is not erased.
CleanEraseForgets ==
  /\ ~ undefined
  /\ pc = "erase"
  /\ pc' = "test"
  /\ i' = i + 1
  /\ doomed' = None
  /\ UNCHANGED <<states_storage_, unpoppable_, _stateMachinesId, now, running,
                 undefined, started, announced>>

\* ... erase(begin() + i).
CleanErase ==
  /\ ~ undefined
  /\ pc = "erase"
  /\ IF i \in Positions
     THEN /\ pc' = "test"
          /\ Keep(Positions \ {i})
          /\ doomed' = None
          /\ UNCHANGED undefined
     ELSE undefined' = TRUE /\ UNCHANGED <<pc, states_storage_, doomed>>
  /\ UNCHANGED <<unpoppable_, _stateMachinesId, now, running, i, started,
                 announced>>

Clean == CleanBegin \/ CleanSize \/ CleanTest \/ CleanAnnounce \/ CleanErase

Tick ==
  /\ ~ undefined
  /\ now < MaxTime
  /\ now' = now + 1
  /\ UNCHANGED <<states_storage_, unpoppable_, _stateMachinesId, running, pc, i,
                 doomed, undefined, started, announced>>

Next ==
  \/ \E imp \in SentImportances, dead_line \in Deadlines : push(imp, dead_line)
  \/ \E id \in 0 .. MaxMachines - 1 : remove(id)
  \/ \E priority \in Levels : pop(priority)
  \/ poppable \/ RunEnds \/ Clean \/ Tick

\* The main loop calls clean() again and again, and its steps do not block.
Spec == Init /\ [][Next]_vars /\ WF_vars(Clean)
-----------------------------------------------------------------------------
(***************************************************************************)
(* Properties.                                                             *)
(***************************************************************************)

\* Type invariant.
TypeOK ==
  /\ states_storage_ \in Seq(Machines)
  /\ unpoppable_ \in BOOLEAN
  /\ _stateMachinesId \in 0 .. MaxMachines
  /\ now \in Nat
  /\ running \in Nat \cup {None}
  /\ pc \in {"idle", "test", "late", "announce", "erase"}
  /\ i \in Nat \ {0}
  /\ doomed \in Nat \cup {None}
  /\ undefined \in BOOLEAN
  /\ started \in Seq(Nat)
  /\ announced \subseteq Nat

\* The machines wait in the order of their registration, whatever was erased.
IdsAscend ==
  /\ \A k \in Positions : states_storage_[k].id < _stateMachinesId
  /\ \A j, k \in Positions : j < k => states_storage_[j].id < states_storage_[k].id

\* A machine is started at most once and waits no more afterwards.
StartedOnce ==
  /\ \A a, b \in DOMAIN started : started[a] = started[b] => a = b
  /\ \A a \in DOMAIN started, k \in Positions : started[a] # states_storage_[k].id

\* A machine whose end was announced for its deadline is never started, although
\* clean() looks it up by an index that the service callbacks do not respect.
DeadNeverStarts == \A a \in DOMAIN started : started[a] \notin announced

\* The machine that starts is the one with the highest importance among all those
\* that wait and, among these, the one registered first.
StartsInOrder ==
  [][\A k \in Positions :
       Len(started') > Len(started)
         /\ states_storage_[k].id = started'[Len(started')]
       => \A j \in Positions :
            \/ states_storage_[j].imp < states_storage_[k].imp
            \/ /\ states_storage_[j].imp = states_storage_[k].imp
               /\ states_storage_[j].id >= states_storage_[k].id]_vars

\* A machine that waits past its deadline is dropped in the end.
Waits(id) == \E k \in Positions : states_storage_[k].id = id
WaitsTooLate(id) ==
  \E k \in Positions : states_storage_[k].id = id /\ isTooLate(states_storage_[k])
LateIsDropped ==
  \A id \in 0 .. MaxMachines - 1 : WaitsTooLate(id) ~> (undefined \/ ~ Waits(id))
=============================================================================
