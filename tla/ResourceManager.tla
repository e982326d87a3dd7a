--------------------------- MODULE ResourceManager ---------------------------
(***************************************************************************)
(* The main loop of a resource manager with everything it drives.          *)
(*                                                                         *)
(* The loop starts the best waiting machine when none runs, posts a        *)
(* preemption when a better one waits or when another buffer takes over,   *)
(* joins the runs that are over, feeds the buffer of the state machine,    *)
(* publishes from the best buffer and starts and stops the artificial      *)
(* life.  The ROS callbacks register and cancel machines and write the     *)
(* reactive buffers meanwhile.  The run is the one of RunContract, which   *)
(* StateMachineRunner implements; the reactive buffers, whose arbitration  *)
(* is the matter of ReactiveBuffers, are summed up by the priority of the  *)
(* best of them, and the walk of clean(), the matter of                    *)
(* StateMachinesStorage, is one step.                                      *)
(***************************************************************************)
EXTENDS Priorities, FiniteSets

CONSTANTS
  Plain, Wildcards,  \* states of the machines; the name of a wildcard begins with '_'
  NoState,           \* no state
  SentImportances,   \* the importances clients give to machines
  SentDeadLines,     \* whether they give them a begin deadline
  Levels,            \* the priorities the best reactive buffer may have
  None,              \* no machine
  MaxMachines, MaxWrites   \* bounds on the machines and on the reactive messages

States == Plain \cup Wildcards
Ids == 0 .. MaxMachines - 1
Buffers == {"state_machine", "reactive", "artificial_life"}

ASSUME StatesAssumption == NoState \notin States
ASSUME SentAssumption ==
  SentImportances \subseteq low .. vital /\ SentDeadLines \subseteq BOOLEAN
ASSUME LevelsAssumption == Levels \subseteq {NoPriority} \cup 0 .. 24
ASSUME NoneAssumption == None \notin Nat
ASSUME BoundsAssumption == MaxMachines \in Nat /\ MaxWrites \in Nat

VARIABLES
  waiting,            \* the ids in the storage
  importance,         \* importance of each registered machine
  dead_line,          \* the machines that have a begin deadline
  _stateMachinesId,   \* id of the next machine to register
  unpoppable_,
  phase, state, new_state_, preempted, ok, run, finals,   \* the run
  _activeStateMachine,
  sm,                 \* the machine whose data the buffer state_machine holds
  reactive, writes,   \* priority of the best reactive buffer, and its changes
  al, al_new,         \* artificial_life_running, and its buffer was not published
  pc, level, res, found,  \* control and local variables of the main loop
  active_buffer,
  early,              \* history: the ids whose cancellation was acknowledged before they ran
  wandered            \* history: the active machine was in a wildcard state

storage == <<waiting, importance, dead_line, _stateMachinesId>>
runVars == <<phase, state, new_state_, preempted, ok, run, finals>>
loopVars == <<level, res, found, active_buffer>>
life == <<al, al_new>>
history == <<early, wandered>>
vars == <<storage, unpoppable_, runVars, _activeStateMachine, sm, reactive, writes, life,
          pc, loopVars, history>>

Run == INSTANCE RunContract WITH MaxRuns <- MaxMachines

Init ==
  /\ waiting = {}
  /\ importance = [m \in Ids |-> low]
  /\ dead_line = {}
  /\ _stateMachinesId = 0
  /\ unpoppable_ = FALSE
  /\ Run!Init
  /\ _activeStateMachine = None
  /\ sm = None
  /\ reactive = NoPriority /\ writes = 0
  /\ al = FALSE /\ al_new = TRUE
  /\ pc = "top" /\ level = NoPriority /\ res = FALSE /\ found = "artificial_life"
  /\ active_buffer = "none"
  /\ early = {} /\ wandered = FALSE

isWildcardState == state \in Wildcards

PriorityOf(m) == Priority(importance[m], atomic)

\* The priority of each buffer that competes; the artificial life always does.
BufferPriority(b) ==
  CASE b = "state_machine" -> IF sm = None THEN NoPriority ELSE PriorityOf(sm)
    [] b = "reactive" -> reactive
    [] b = "artificial_life" -> Priority(low, background)

HighestPriority ==
  CHOOSE p \in {BufferPriority(b) : b \in Buffers} :
    \A b \in Buffers : BufferPriority(b) <= p

\* Mutant: the artificial life does not compete.
MorePriorityNone ==
  IF sm # None /\ PriorityOf(sm) >= reactive THEN "state_machine"
  ELSE IF reactive # NoPriority THEN "reactive"
  ELSE "none"

\* The first buffer with the highest priority.
MorePriority ==
  IF BufferPriority("state_machine") = HighestPriority THEN "state_machine"
  ELSE IF BufferPriority("reactive") = HighestPriority THEN "reactive"
  ELSE "artificial_life"

\* The first registered of the most important machines that wait.
IsMostImportant(m) ==
  /\ m \in waiting
  /\ \A n \in waiting :
       \/ importance[n] < importance[m]
       \/ importance[n] = importance[m] /\ m <= n

\* _stateMachineMutex is free.
Unlocked == pc \in {"top", "scan", "publish", "clean", "last", "done"}
-----------------------------------------------------------------------------
(***************************************************************************)
(* The main loop.  From "top" to "scan" it holds _stateMachineMutex.       *)
(***************************************************************************)

\* No machine runs: the storage is asked for one if it is not empty.
TopIdle ==
  /\ pc = "top" /\ ok
  /\ _activeStateMachine = None
  /\ IF waiting = {}
     THEN pc' = "isNew" /\ UNCHANGED level
     ELSE pc' = "pop" /\ level' = HighestPriority
  /\ UNCHANGED <<storage, unpoppable_, runVars, _activeStateMachine, sm, reactive, writes,
                 life, res, found, active_buffer, history>>

\* Mutant: the machine stays in the storage.
PopKeeps ==
  /\ pc = "pop"
  /\ \E m \in waiting :
       /\ IsMostImportant(m)
       /\ IF PriorityOf(m) >= level
          THEN /\ unpoppable_' = TRUE
               /\ _activeStateMachine' = m
               /\ \E s \in States \cup {NoState} : Run!Start(s)
               /\ wandered' = isWildcardState'
               /\ pc' = "top"
          ELSE /\ pc' = "isNew"
               /\ UNCHANGED <<unpoppable_, _activeStateMachine, runVars,
                              wandered>>
  /\ UNCHANGED <<storage, sm, reactive, writes, life, loopVars, early>>

\* Mutant: poppable() is not told that the data of the machine is yet to come.
PopUnguarded ==
  /\ pc = "pop"
  /\ \E m \in waiting :
       /\ IsMostImportant(m)
       /\ IF PriorityOf(m) >= level
          THEN /\ waiting' = waiting \ {m}
               /\ _activeStateMachine' = m
               /\ \E s \in States \cup {NoState} : Run!Start(s)
               /\ wandered' = isWildcardState'
               /\ pc' = "top"
          ELSE /\ pc' = "isNew"
               /\ UNCHANGED <<waiting, _activeStateMachine, runVars,
                              wandered>>
  /\ UNCHANGED <<importance, dead_line, _stateMachinesId, unpoppable_, sm, reactive, writes,
                 life, loopVars, early>>

\* pop(level) and the start of the machine it yields.
Pop ==
  /\ pc = "pop"
  /\ \E m \in waiting :
       /\ IsMostImportant(m)
       /\ IF PriorityOf(m) >= level
          THEN /\ waiting' = waiting \ {m}
               /\ unpoppable_' = TRUE
               /\ _activeStateMachine' = m
               /\ \E s \in States \cup {NoState} : Run!Start(s)
               /\ wandered' = isWildcardState'
               /\ pc' = "top"
          ELSE /\ pc' = "isNew"
               /\ UNCHANGED <<waiting, unpoppable_, _activeStateMachine, runVars,
                              wandered>>
  /\ UNCHANGED <<importance, dead_line, _stateMachinesId, sm, reactive, writes, life,
                 loopVars, early>>

\* A machine runs: the artificial life follows its wildcard states.
TopRunning ==
  /\ pc = "top" /\ ok
  /\ _activeStateMachine # None
  /\ pc' = "test"
  /\ al' = isWildcardState
  /\ al_new' = (al_new \/ (isWildcardState /\ ~ al))
  /\ UNCHANGED <<storage, unpoppable_, runVars, _activeStateMachine, sm, reactive, writes,
                 loopVars, history>>

\* runing()
Test ==
  /\ pc = "test"
  /\ IF state = NoState
     THEN pc' = "join" /\ UNCHANGED level
     ELSE pc' = "poppable" /\ level' = HighestPriority
  /\ UNCHANGED <<storage, unpoppable_, runVars, _activeStateMachine, sm, reactive, writes,
                 life, res, found, active_buffer, history>>

Join ==
  /\ pc = "join"
  /\ Run!Join
  /\ _activeStateMachine' = None
  /\ pc' = "top"
  /\ wandered' = FALSE
  /\ UNCHANGED <<storage, unpoppable_, sm, reactive, writes, life, loopVars, early>>

\* Mutant: unpoppable_ is not reset.
PoppableNever ==
  /\ pc = "poppable"
  /\ IF ~ unpoppable_ /\ \E m \in waiting : IsMostImportant(m) /\ PriorityOf(m) > level
     THEN Run!Post /\ pc' = "top"
     ELSE pc' = "isNew" /\ UNCHANGED runVars
  /\ UNCHANGED <<storage, unpoppable_, _activeStateMachine, sm, reactive, writes, life,
                 loopVars, history>>

\* poppable(level): a better machine preempts the one that runs.
Poppable ==
  /\ pc = "poppable"
  /\ IF unpoppable_
     THEN /\ unpoppable_' = FALSE
          /\ pc' = "isNew"
          /\ UNCHANGED runVars
     ELSE /\ UNCHANGED unpoppable_
          /\ IF \E m \in waiting : IsMostImportant(m) /\ PriorityOf(m) > level
             THEN Run!Post /\ pc' = "top"
             ELSE pc' = "isNew" /\ UNCHANGED runVars
  /\ UNCHANGED <<storage, _activeStateMachine, sm, reactive, writes, life, loopVars,
                 history>>

IsNewStateRead ==
  /\ pc = "isNew"
  /\ pc' = "seen"
  /\ res' = new_state_
  /\ UNCHANGED <<storage, unpoppable_, runVars, _activeStateMachine, sm, reactive, writes,
                 life, level, found, active_buffer, history>>

IsNewStateWrite ==
  /\ pc = "seen"
  /\ pc' = "data"
  /\ Run!Seen
  /\ UNCHANGED <<storage, unpoppable_, _activeStateMachine, sm, reactive, writes, life,
                 loopVars, history>>

\* Mutant: the data of the last machine is kept once no machine runs.
SetStateMachineDataKeeps ==
  /\ pc = "data"
  /\ pc' = IF _activeStateMachine # None /\ isWildcardState /\ al_new THEN "clone" ELSE "scan"
  /\ sm' = IF _activeStateMachine = None \/ isWildcardState \/ ~ res THEN sm
           ELSE IF state = NoState THEN None
           ELSE _activeStateMachine
  /\ UNCHANGED <<storage, unpoppable_, runVars, _activeStateMachine, reactive, writes, life,
                 loopVars, history>>

\* setStateMachineData.  In a wildcard state the data is the one of the artificial
\* life, when it has some that was not published.
SetStateMachineData ==
  /\ pc = "data"
  /\ pc' = IF _activeStateMachine # None /\ isWildcardState /\ al_new THEN "clone" ELSE "scan"
  /\ sm' = IF _activeStateMachine = None THEN None
           ELSE IF isWildcardState \/ ~ res THEN sm
           ELSE IF state = NoState THEN None
           ELSE _activeStateMachine
  /\ UNCHANGED <<storage, unpoppable_, runVars, _activeStateMachine, reactive, writes, life,
                 loopVars, history>>

\* The state is asked for again: there is no data for a machine that is over, and the
\* null pointer is followed.
CloneArtificialLife ==
  /\ pc = "clone"
  /\ IF state = NoState
     THEN pc' = "crashed" /\ UNCHANGED <<sm, al_new>>
     ELSE /\ pc' = "scan"
          /\ sm' = _activeStateMachine
          /\ al_new' = FALSE
  /\ UNCHANGED <<storage, unpoppable_, runVars, _activeStateMachine, reactive, writes, al,
                 loopVars, history>>

GetMorePriority ==
  /\ pc = "scan"
  /\ pc' = "publish"
  /\ found' = MorePriority
  /\ UNCHANGED <<storage, unpoppable_, runVars, _activeStateMachine, sm, reactive, writes,
                 life, level, res, active_buffer, history>>

\* The message of the buffer is published.  When the buffer is not the active one, the
\* machine that runs is preempted, and the artificial life stopped or started.
Publish ==
  /\ pc = "publish"
  /\ pc' = "clean"
  /\ active_buffer' = found
  /\ IF found # active_buffer
     THEN /\ IF found # "state_machine" /\ _activeStateMachine # None
             THEN Run!Post ELSE UNCHANGED runVars
          /\ al' = (found = "artificial_life")
          /\ al_new' = IF found = "artificial_life" THEN ~ al ELSE al_new
     ELSE /\ UNCHANGED <<runVars, al>>
          /\ al_new' = (al_new /\ found # "artificial_life")
  /\ UNCHANGED <<storage, unpoppable_, _activeStateMachine, sm, reactive, writes, level, res,
                 found, history>>

\* Every eleventh iteration, clean() drops the machines past their begin deadline.
Clean ==
  /\ pc = "clean"
  /\ pc' = "top"
  /\ \E late \in SUBSET (waiting \cap dead_line) : waiting' = waiting \ late
  /\ UNCHANGED <<importance, dead_line, _stateMachinesId, unpoppable_, runVars,
                 _activeStateMachine, sm, reactive, writes, life, loopVars,
                 history>>

\* Mutant: the thread of the run is not joined.
StopWithoutJoin ==
  /\ pc = "top" /\ ~ ok
  /\ al' = FALSE
  /\ pc' = "done"
  /\ UNCHANGED <<storage, unpoppable_, runVars, _activeStateMachine, sm, reactive, writes,
                 al_new, loopVars, history>>

\* The node is shut down: the artificial life is stopped and the run joined.
Stop ==
  /\ pc = "top" /\ ~ ok
  /\ al' = FALSE
  /\ IF _activeStateMachine = None
     THEN pc' = "done" /\ UNCHANGED runVars
     ELSE pc' = "last" /\ Run!Post
  /\ UNCHANGED <<storage, unpoppable_, _activeStateMachine, sm, reactive, writes, al_new,
                 loopVars, history>>

LastJoin ==
  /\ pc = "last"
  /\ Run!Join
  /\ pc' = "done"
  /\ UNCHANGED <<storage, unpoppable_, _activeStateMachine, sm, reactive, writes, life,
                 loopVars, history>>

Main == TopIdle \/ Pop \/ TopRunning \/ Test \/ Join \/ Poppable \/ IsNewStateRead
          \/ IsNewStateWrite \/ SetStateMachineData \/ CloneArtificialLife
          \/ GetMorePriority \/ Publish \/ Clean \/ Stop \/ LastJoin
-----------------------------------------------------------------------------
(***************************************************************************)
(* The ROS callbacks, the run and the artificial life.                     *)
(***************************************************************************)
Alive == pc # "crashed"

\* _serviceCallback
Register(imp, late) ==
  /\ Alive
  /\ _stateMachinesId < MaxMachines
  /\ _stateMachinesId' = _stateMachinesId + 1
  /\ waiting' = waiting \cup {_stateMachinesId}
  /\ importance' = [importance EXCEPT ![_stateMachinesId] = imp]
  /\ dead_line' = IF late THEN dead_line \cup {_stateMachinesId} ELSE dead_line
  /\ UNCHANGED <<unpoppable_, runVars, _activeStateMachine, sm, reactive, writes, life, pc,
                 loopVars, history>>

\* stateMachineCancel: the storage erases the machines of greater id; when there is none
\* and the machine is the active one, it is preempted.
Cancel(id) ==
  LET gone == {m \in waiting : m > id} IN
  /\ Unlocked
  /\ id < _stateMachinesId
  /\ waiting' = waiting \ gone
  /\ IF gone = {} /\ _activeStateMachine = id THEN Run!Post ELSE UNCHANGED runVars
  /\ early' = IF /\ gone # {} \/ _activeStateMachine = id
                 /\ id \in waiting \/ (_activeStateMachine = id /\ phase = "begin")
              THEN early \cup {id} ELSE early
  /\ UNCHANGED <<importance, dead_line, _stateMachinesId, unpoppable_, _activeStateMachine,
                 sm, reactive, writes, life, pc, loopVars, wandered>>

\* The priority of the best reactive buffer changes.
React(priority) ==
  /\ Alive
  /\ writes < MaxWrites
  /\ writes' = writes + 1
  /\ reactive' = priority
  /\ UNCHANGED <<storage, unpoppable_, runVars, _activeStateMachine, sm, life, pc,
                 loopVars, history>>

Spin ==
  \/ \E imp \in SentImportances, late \in SentDeadLines : Register(imp, late)
  \/ \E id \in Ids : Cancel(id)
  \/ \E priority \in Levels : React(priority)

\* The steps of the run, the rest being left alone.
OfRun(A) ==
  /\ Alive
  /\ A
  /\ wandered' = (wandered \/ isWildcardState')
  /\ UNCHANGED <<storage, unpoppable_, _activeStateMachine, sm, reactive, writes, life, pc,
                 loopVars, early>>

RunBegins == OfRun(Run!Begin \/ (_activeStateMachine \in dead_line /\ Run!DeadLine))
RunGoesOn == OfRun((\E s \in States : Run!Move(s)) \/ Run!Finish)
RunObeys == OfRun(Run!Obey)
RunExits == OfRun(Run!Exit)

RunSteps == RunBegins \/ RunGoesOn \/ RunObeys \/ RunExits

\* inLoop() of the artificial life stores new data.
InLoop ==
  /\ Alive
  /\ al
  /\ al_new' = TRUE
  /\ UNCHANGED <<storage, unpoppable_, runVars, _activeStateMachine, sm, reactive, writes,
                 al, pc, loopVars, history>>

Shutdown ==
  /\ Alive
  /\ Run!Shutdown
  /\ UNCHANGED <<storage, unpoppable_, _activeStateMachine, sm, reactive, writes, life, pc,
                 loopVars, history>>

Next == Main \/ Spin \/ RunSteps \/ InLoop \/ Shutdown

\* The main loop polls without end, and its steps block only for the join.  The run is
\* the one of the contract: it begins, obeys and exits; it may go on forever.
Fairness ==
  /\ WF_vars(Main)
  /\ WF_vars(RunBegins)
  /\ WF_vars(RunObeys)
  /\ WF_vars(RunExits)

Spec == Init /\ [][Next]_vars /\ Fairness
-----------------------------------------------------------------------------
(***************************************************************************)
(* Properties.                                                             *)
(***************************************************************************)

Machines == Ids \cup {None}

\* Type invariant.
TypeOK ==
  /\ waiting \subseteq Ids /\ dead_line \subseteq Ids
  /\ importance \in [Ids -> low .. vital]
  /\ _stateMachinesId \in 0 .. MaxMachines
  /\ unpoppable_ \in BOOLEAN
  /\ phase \in {"idle", "begin", "running", "over", "ended"}
  /\ state \in States \cup {NoState} /\ new_state_ \in BOOLEAN
  /\ preempted \in BOOLEAN /\ ok \in BOOLEAN
  /\ run \in 0 .. MaxMachines /\ finals \in [1 .. MaxMachines -> Nat]
  /\ _activeStateMachine \in Machines /\ sm \in Machines
  /\ reactive \in {NoPriority} \cup 0 .. 24 /\ writes \in 0 .. MaxWrites
  /\ al \in BOOLEAN /\ al_new \in BOOLEAN
  /\ pc \in {"top", "pop", "test", "join", "poppable", "isNew", "seen", "data", "clone",
             "scan", "publish", "clean", "last", "done", "crashed"}
  /\ level \in {NoPriority} \cup 0 .. 24 /\ res \in BOOLEAN /\ found \in Buffers
  /\ active_buffer \in Buffers \cup {"none"}
  /\ early \subseteq Ids /\ wandered \in BOOLEAN

\* The machine that runs is the active one, it waits no more, and every machine that was
\* started before is over: a machine is popped only once the last one is joined.
OneMachineRuns ==
  /\ (phase = "idle") = (_activeStateMachine = None \/ pc = "done")
  /\ _activeStateMachine \notin waiting
  /\ pc = "pop" => phase = "idle" /\ waiting # {}

\* Unless it was in a wildcard state, whose data depends on the artificial life, what
\* is published for the state machines is the data of the machine that runs: never the
\* data of one that is over, although its buffer is left as it is when it is joined.
PublishesItsOwnData ==
  pc = "publish" /\ found = "state_machine" /\ ~ wandered => sm = _activeStateMachine

\* The machine that runs is preempted for the sake of a waiting one only if this one is
\* more important: the data of a machine is in its buffer before poppable() compares
\* with it.  One that was in a wildcard state may have no data to compare with.
OnlyBetterPreempts ==
  [][pc = "poppable" /\ pc' = "top" /\ ~ wandered =>
       \E m \in waiting : importance[m] > importance[_activeStateMachine]]_vars

\* The machine that runs gives way to a more important one, whatever becomes of the
\* preemptions posted while its thread had not begun.
Deserves(w) == w \in waiting /\ reactive < PriorityOf(w)
Better(m, w) == /\ _activeStateMachine = m
                /\ Deserves(w)
                /\ importance[w] > importance[m]
BetterIsServed ==
  \A m \in Ids : \A w \in Ids \ {m} : Better(m, w) ~> (~ Better(m, w) \/ ~ ok \/ ~ Alive)

\* A manager without a machine starts the one that waits, even when the data of the
\* last one, still in the buffer, outweighs it.
IdleIsServed ==
  \A w \in Ids :
    Deserves(w) /\ _activeStateMachine = None
      ~> (~ Deserves(w) \/ _activeStateMachine # None \/ ~ ok \/ ~ Alive)

\* A node that is shut down stops: the thread of the run and the one of the artificial
\* life are joined, wherever they and the main loop were.
ShutdownEnds == ~ ok ~> (pc = "done" /\ phase = "idle" /\ ~ al) \/ ~ Alive

\* "cancel it before it starts. check it is not executed": a machine whose cancellation
\* was acknowledged before its run had begun is on its way to its end once it has.
CancelledIsNotExecuted ==
  phase = "running" /\ _activeStateMachine \in early => preempted
=============================================================================
