------------------------ MODULE ResourceManagerProofs ------------------------
(***************************************************************************)
(* Proofs about ResourceManager, for any number of machines and of         *)
(* reactive messages, any states and any importances.                      *)
(***************************************************************************)
EXTENDS ResourceManager, TLAPS

USE StatesAssumption, SentAssumption, LevelsAssumption, NoneAssumption, BoundsAssumption

-----------------------------------------------------------------------------
(***************************************************************************)
(* The priorities.                                                         *)
(***************************************************************************)

Values == {NoPriority} \cup 0 .. 24

\* Under the focus atomic the priority grows with the importance.
LEMMA AtomicGrows ==
  /\ \A imp \in low .. vital : Priority(imp, atomic) \in 16 .. 24
  /\ \A a, b \in low .. vital : Priority(a, atomic) > Priority(b, atomic) => a > b
<1>1. \A imp \in low .. vital : imp \in {0, 1, 2, 3, 4}
  BY DEF low, vital
<1>2. /\ Priority(0, atomic) = 16 /\ Priority(1, atomic) = 17 /\ Priority(2, atomic) = 18
      /\ Priority(3, atomic) = 19 /\ Priority(4, atomic) = 24
  BY DEF Priority, priorities, atomic
<1> QED
  BY <1>1, <1>2

LEMMA BufferValues ==
  ASSUME TypeOK
  PROVE  /\ \A b \in Buffers : BufferPriority(b) \in Values
         /\ BufferPriority("artificial_life") = 0
         /\ sm # None => BufferPriority("state_machine") = PriorityOf(sm)
         /\ sm = None => BufferPriority("state_machine") = NoPriority
<1>1. Priority(low, background) = 0
  BY DEF Priority, priorities, low, background
<1>2. ASSUME sm # None PROVE PriorityOf(sm) \in 16 .. 24
  <2>1. importance[sm] \in low .. vital
    BY <1>2 DEF TypeOK, Machines
  <2> QED BY <2>1, AtomicGrows DEF PriorityOf
<1>3. reactive \in Values
  BY DEF TypeOK, Values
<1> QED
  BY <1>1, <1>2, <1>3 DEF BufferPriority, Buffers, Values

\* The value of the buffer that wins is the greatest.
LEMMA HighestIsHighest ==
  ASSUME TypeOK
  PROVE  /\ HighestPriority \in Values
         /\ \A b \in Buffers : BufferPriority(b) <= HighestPriority
<1> DEFINE P == {BufferPriority(b) : b \in Buffers}
<1>1. \A b \in Buffers : BufferPriority(b) \in Int
  BY BufferValues DEF Values, NoPriority
<1>2. \E b \in Buffers : \A c \in Buffers : BufferPriority(c) <= BufferPriority(b)
  <2> DEFINE x == BufferPriority("state_machine")
             y == BufferPriority("reactive")
             z == BufferPriority("artificial_life")
  <2>1. x \in Int /\ y \in Int /\ z \in Int
    BY <1>1 DEF Buffers
  <2>2. \/ y <= x /\ z <= x /\ x <= x
        \/ x <= y /\ z <= y /\ y <= y
        \/ x <= z /\ y <= z /\ z <= z
    <3> HIDE DEF x, y, z
    <3> QED BY <2>1
  <2>3. CASE y <= x /\ z <= x /\ x <= x
    <3>1. \A c \in Buffers : BufferPriority(c) <= BufferPriority("state_machine")
      BY <2>3 DEF Buffers
    <3> QED BY <3>1 DEF Buffers
  <2>4. CASE x <= y /\ z <= y /\ y <= y
    <3>1. \A c \in Buffers : BufferPriority(c) <= BufferPriority("reactive")
      BY <2>4 DEF Buffers
    <3> QED BY <3>1 DEF Buffers
  <2>5. CASE x <= z /\ y <= z /\ z <= z
    <3>1. \A c \in Buffers : BufferPriority(c) <= BufferPriority("artificial_life")
      BY <2>5 DEF Buffers
    <3> QED BY <3>1 DEF Buffers
  <2> QED BY <2>2, <2>3, <2>4, <2>5
<1>3. \E p \in P : \A b \in Buffers : BufferPriority(b) <= p
  BY <1>2
<1>4. HighestPriority \in P /\ \A b \in Buffers : BufferPriority(b) <= HighestPriority
  BY <1>3 DEF HighestPriority
<1> QED
  BY <1>4, BufferValues

\* The buffer of the state machines wins only with a message.
LEMMA WinnerHasMessage ==
  ASSUME TypeOK, MorePriority = "state_machine"
  PROVE  sm # None
<1>1. BufferPriority("state_machine") = HighestPriority
  BY DEF MorePriority
<1>2. BufferPriority("artificial_life") <= HighestPriority
  BY HighestIsHighest DEF Buffers
<1>3. BufferPriority("state_machine") # NoPriority
  BY <1>1, <1>2, BufferValues DEF NoPriority
<1> QED
  BY <1>3, BufferValues

-----------------------------------------------------------------------------
(***************************************************************************)
(* The run, as its contract has it.                                        *)
(***************************************************************************)

RunType ==
  /\ phase \in {"idle", "begin", "running", "over", "ended"}
  /\ state \in States \cup {NoState} /\ new_state_ \in BOOLEAN
  /\ preempted \in BOOLEAN /\ ok \in BOOLEAN
  /\ run \in 0 .. MaxMachines /\ finals \in [1 .. MaxMachines -> Nat]

\* A state is left for good when the run is over.
RunInv ==
  /\ phase \in {"idle", "ended"} => state = NoState
  /\ phase = "running" => state # NoState

LEMMA AnnounceType ==
  ASSUME RunType, Run!Announce
  PROVE  /\ state' = NoState /\ new_state_' = TRUE /\ UNCHANGED <<ok, run>>
         /\ finals' \in [1 .. MaxMachines -> Nat]
<1> DEFINE D == 1 .. MaxMachines
<1>1. finals \in [D -> Nat] /\ \A r \in D : finals[r] + 1 \in Nat
  BY DEF RunType
<1>2. finals' = [finals EXCEPT ![run] = finals[run] + 1]
  BY DEF Run!Announce
<1>3. finals' \in [D -> Nat]
  <2> HIDE DEF D
  <2> QED BY <1>1, <1>2
<1> QED
  BY <1>3 DEF Run!Announce

LEMMA RunKeeps ==
  ASSUME RunType, RunInv, [Run!Next]_runVars
  PROVE  RunType' /\ RunInv'
<1> USE DEF RunType, RunInv
<1>1. ASSUME NEW s \in States \cup {NoState}, Run!Start(s)
      PROVE  RunType' /\ RunInv'
  BY <1>1 DEF Run!Start
<1>2. CASE Run!Post \/ Run!Join \/ Run!Seen \/ Run!Shutdown \/ UNCHANGED runVars
  BY <1>2 DEF Run!Post, Run!Join, Run!Seen, Run!Shutdown, runVars
<1>3. CASE Run!Begin \/ Run!Abandon \/ Run!Exit
  BY <1>3 DEF Run!Begin, Run!Abandon, Run!Exit
<1>4. CASE Run!DeadLine
  BY <1>4, AnnounceType DEF Run!DeadLine
<1>5. CASE Run!Finish
  BY <1>5, AnnounceType DEF Run!Finish
<1>6. CASE Run!Preempt
  BY <1>6, AnnounceType DEF Run!Preempt
<1>7. ASSUME NEW s \in States, Run!Move(s)
      PROVE  RunType' /\ RunInv'
  BY <1>7 DEF Run!Move
<1> QED
  BY <1>1, <1>2, <1>3, <1>4, <1>5, <1>6, <1>7 DEF Run!Next, Run!Runner, Run!Obey

\* The manager drives the run by what the contract allows.
LEMMA RunOnly ==
  ASSUME Next
  PROVE  [Run!Next]_runVars
<1>1. CASE TopIdle \/ TopRunning \/ Test \/ IsNewStateRead \/ SetStateMachineData
             \/ CloneArtificialLife \/ GetMorePriority \/ Clean
  BY <1>1 DEF TopIdle, TopRunning, Test, IsNewStateRead, SetStateMachineData,
              CloneArtificialLife, GetMorePriority, Clean
<1>2. CASE Pop
  BY <1>2 DEF Pop, Run!Next
<1>3. CASE Join \/ LastJoin \/ IsNewStateWrite
  BY <1>3 DEF Join, LastJoin, IsNewStateWrite, Run!Next
<1>4. CASE Poppable
  BY <1>4 DEF Poppable, Run!Next
<1>5. CASE Publish
  BY <1>5 DEF Publish, Run!Next
<1>6. CASE Stop
  BY <1>6 DEF Stop, Run!Next
<1>7. CASE Spin
  <2>1. ASSUME NEW id \in Ids, Cancel(id)
        PROVE  [Run!Next]_runVars
    BY <2>1 DEF Cancel, Run!Next
  <2>2. ASSUME NEW imp \in SentImportances, NEW late \in SentDeadLines, Register(imp, late)
        PROVE  [Run!Next]_runVars
    BY <2>2 DEF Register
  <2>3. ASSUME NEW priority \in Levels, React(priority)
        PROVE  [Run!Next]_runVars
    BY <2>3 DEF React
  <2> QED BY <1>7, <2>1, <2>2, <2>3 DEF Spin
<1>8. CASE RunSteps
  BY <1>8 DEF RunSteps, RunBegins, RunGoesOn, RunObeys, RunExits, OfRun,
              Run!Next, Run!Runner
<1>9. CASE InLoop \/ Shutdown
  BY <1>9 DEF InLoop, Shutdown, Run!Next
<1> QED
  BY <1>1, <1>2, <1>3, <1>4, <1>5, <1>6, <1>7, <1>8, <1>9 DEF Next, Main

-----------------------------------------------------------------------------
(***************************************************************************)
(* Type correctness.                                                       *)
(***************************************************************************)

StorageType ==
  /\ waiting \subseteq Ids /\ dead_line \subseteq Ids
  /\ importance \in [Ids -> low .. vital]
  /\ _stateMachinesId \in 0 .. MaxMachines

LoopType ==
  /\ unpoppable_ \in BOOLEAN
  /\ _activeStateMachine \in Machines /\ sm \in Machines
  /\ reactive \in Values /\ writes \in 0 .. MaxWrites
  /\ al \in BOOLEAN /\ al_new \in BOOLEAN
  /\ pc \in {"top", "pop", "test", "join", "poppable", "isNew", "seen", "data", "clone",
             "scan", "publish", "clean", "last", "done", "crashed"}
  /\ level \in Values /\ res \in BOOLEAN /\ found \in Buffers
  /\ active_buffer \in Buffers \cup {"none"}
  /\ early \subseteq Ids /\ wandered \in BOOLEAN

LEMMA TypeParts == TypeOK <=> StorageType /\ RunType /\ LoopType
BY DEF TypeOK, StorageType, RunType, LoopType, Values

LEMMA TypePartsNext == StorageType' /\ RunType' /\ LoopType' => TypeOK'
BY DEF TypeOK, StorageType, RunType, LoopType, Values

LEMMA TypeInit == Init => TypeOK
<1> SUFFICES ASSUME Init PROVE TypeOK
  OBVIOUS
<1>1. StorageType
  BY DEF Init, StorageType, Ids, low, vital
<1>2. RunType
  <2>1. finals \in [1 .. MaxMachines -> Nat]
    BY DEF Init, Run!Init
  <2>2. run \in 0 .. MaxMachines
    BY DEF Init, Run!Init
  <2>3. /\ phase = "idle" /\ state = NoState /\ new_state_ = FALSE
        /\ preempted = FALSE /\ ok = TRUE
    BY DEF Init, Run!Init
  <2> QED BY <2>1, <2>2, <2>3 DEF RunType
<1>3. LoopType
  <2>1. reactive \in Values /\ level \in Values /\ writes \in 0 .. MaxWrites
    BY DEF Init, Values
  <2>2. /\ unpoppable_ \in BOOLEAN /\ al \in BOOLEAN /\ al_new \in BOOLEAN
        /\ res \in BOOLEAN /\ wandered \in BOOLEAN /\ early \subseteq Ids
    BY DEF Init
  <2>3. /\ _activeStateMachine \in Machines /\ sm \in Machines /\ pc = "top"
        /\ found \in Buffers /\ active_buffer \in Buffers \cup {"none"}
    BY DEF Init, Machines, Buffers
  <2> QED BY <2>1, <2>2, <2>3 DEF LoopType
<1> QED
  BY <1>1, <1>2, <1>3, TypeParts

LEMMA TypeStep ==
  ASSUME TypeOK, RunInv, [Next]_vars
  PROVE  TypeOK'
<1> USE TypeParts
<1>1. RunType'
  <2>1. UNCHANGED vars => UNCHANGED runVars
    BY DEF vars
  <2> QED BY <2>1, RunOnly, RunKeeps
<1> SUFFICES StorageType' /\ LoopType'
  BY <1>1, TypePartsNext
<1>2. CASE TopIdle \/ Test
  <2>1. StorageType'
    BY <1>2 DEF TopIdle, Test, storage, StorageType
  <2>2. LoopType'
    BY <1>2, HighestIsHighest DEF TopIdle, Test, LoopType, life, history
  <2> QED BY <2>1, <2>2
<1>3. CASE Pop
  <2>1. StorageType'
    BY <1>3 DEF Pop, StorageType
  <2>2. wandered' \in BOOLEAN
    <3>1. wandered' = wandered \/ wandered' = isWildcardState'
      BY <1>3 DEF Pop
    <3>2. isWildcardState' \in BOOLEAN
      BY DEF isWildcardState
    <3> QED BY <3>1, <3>2 DEF LoopType
  <2>3. LoopType'
    BY <1>3, <2>2 DEF Pop, LoopType, StorageType, Machines, life, loopVars
  <2> QED BY <2>1, <2>3
<1>4. CASE TopRunning
  <2>1. StorageType'
    BY <1>4 DEF TopRunning, storage, StorageType
  <2>2. al' \in BOOLEAN /\ al_new' \in BOOLEAN
    BY <1>4 DEF TopRunning, LoopType, isWildcardState
  <2>3. LoopType'
    BY <1>4, <2>2 DEF TopRunning, LoopType, loopVars, history
  <2> QED BY <2>1, <2>3
<1>5. CASE Join \/ Poppable \/ LastJoin
  BY <1>5 DEF Join, Poppable, LastJoin, storage, StorageType, LoopType, Machines, life,
              loopVars, history
<1>6. CASE IsNewStateRead \/ IsNewStateWrite
  BY <1>6 DEF IsNewStateRead, IsNewStateWrite, storage, StorageType, LoopType, RunType,
              life, loopVars, history
<1>7. CASE SetStateMachineData \/ CloneArtificialLife
  BY <1>7 DEF SetStateMachineData, CloneArtificialLife, storage, StorageType, LoopType,
              Machines, life, loopVars, history
<1>8. CASE GetMorePriority
  <2>1. MorePriority \in Buffers
    BY DEF MorePriority, Buffers
  <2> QED
    BY <1>8, <2>1 DEF GetMorePriority, storage, StorageType, LoopType, life, history
<1>9. CASE Publish
  <2>1. StorageType'
    BY <1>9 DEF Publish, storage, StorageType
  <2>2. al' \in BOOLEAN /\ al_new' \in BOOLEAN
    BY <1>9 DEF Publish, LoopType
  <2>3. LoopType'
    BY <1>9, <2>2 DEF Publish, LoopType, history
  <2> QED BY <2>1, <2>3
<1>10. CASE Clean
  BY <1>10 DEF Clean, StorageType, LoopType, life, loopVars, history
<1>11. CASE Stop
  BY <1>11 DEF Stop, storage, StorageType, LoopType, loopVars, history
<1>12. ASSUME NEW imp \in SentImportances, NEW late \in SentDeadLines, Register(imp, late)
       PROVE  StorageType' /\ LoopType'
  <2>1. _stateMachinesId \in Ids /\ _stateMachinesId' \in 0 .. MaxMachines
    BY <1>12 DEF Register, StorageType, Ids
  <2>2. imp \in low .. vital
    BY SentAssumption
  <2>3. importance' \in [Ids -> low .. vital]
    BY <1>12, <2>1, <2>2 DEF Register, StorageType
  <2>4. waiting' \subseteq Ids /\ dead_line' \subseteq Ids
    BY <1>12, <2>1 DEF Register, StorageType
  <2>5. LoopType'
    BY <1>12 DEF Register, LoopType, life, loopVars, history
  <2> QED BY <2>1, <2>3, <2>4, <2>5 DEF StorageType
<1>13. ASSUME NEW id \in Ids, Cancel(id)
       PROVE  StorageType' /\ LoopType'
  BY <1>13 DEF Cancel, StorageType, LoopType, life, loopVars
<1>14. ASSUME NEW priority \in Levels, React(priority)
       PROVE  StorageType' /\ LoopType'
  <2>1. priority \in Values
    BY LevelsAssumption DEF Values
  <2>2. writes' \in 0 .. MaxWrites
    BY <1>14 DEF React, LoopType
  <2> QED
    BY <1>14, <2>1, <2>2 DEF React, storage, StorageType, LoopType, life, loopVars, history
<1>15. CASE RunSteps
  <2>1. /\ UNCHANGED <<storage, unpoppable_, _activeStateMachine, sm, reactive, writes,
                       life, pc, loopVars, early>>
        /\ wandered' = (wandered \/ isWildcardState')
    BY <1>15 DEF RunSteps, RunBegins, RunGoesOn, RunObeys, RunExits, OfRun
  <2>2. wandered' \in BOOLEAN
    BY <2>1
  <2> QED BY <2>1, <2>2 DEF storage, StorageType, LoopType, life, loopVars
<1>16. CASE InLoop \/ Shutdown
  BY <1>16 DEF InLoop, Shutdown, storage, StorageType, LoopType, life, loopVars, history
<1>17. CASE UNCHANGED vars
  BY <1>17 DEF vars, storage, StorageType, LoopType, life, loopVars, history
<1> QED
  BY <1>2, <1>3, <1>4, <1>5, <1>6, <1>7, <1>8, <1>9, <1>10, <1>11, <1>12, <1>13, <1>14,
     <1>15, <1>16, <1>17 DEF Next, Main, Spin

-----------------------------------------------------------------------------
(***************************************************************************)
(* One machine at a time.                                                  *)
(***************************************************************************)

\* The ids of the machines that wait and of the active one have been given already.
ControlInv ==
  /\ OneMachineRuns
  /\ pc = "pop" => _activeStateMachine = None
  /\ pc \in {"test", "join", "poppable", "last"} => _activeStateMachine # None
  /\ \A m \in waiting : m < _stateMachinesId
  /\ _activeStateMachine # None => _activeStateMachine < _stateMachinesId

\* What the run does by itself: it neither starts nor is joined, a machine without a
\* state gets none, and a state that was not seen is not forgotten.
LEMMA RunByItself ==
  ASSUME RunInv, RunSteps
  PROVE  /\ UNCHANGED <<waiting, importance, _stateMachinesId, unpoppable_,
                        _activeStateMachine, sm, pc, level, res, found>>
         /\ wandered' = (wandered \/ isWildcardState')
         /\ phase # "idle" /\ phase' # "idle"
         /\ state = NoState => state' = NoState
         /\ new_state_ => new_state_'
<1>1. /\ UNCHANGED <<storage, unpoppable_, _activeStateMachine, sm, pc, loopVars>>
      /\ wandered' = (wandered \/ isWildcardState')
  BY DEF RunSteps, RunBegins, RunGoesOn, RunObeys, RunExits, OfRun
<1>2. \/ Run!Begin \/ Run!DeadLine \/ Run!Finish \/ Run!Obey \/ Run!Exit
      \/ \E s \in States : Run!Move(s)
  BY DEF RunSteps, RunBegins, RunGoesOn, RunObeys, RunExits, OfRun
<1>3. /\ phase # "idle" /\ phase' # "idle"
      /\ state = NoState => state' = NoState
      /\ new_state_ => new_state_'
  BY <1>2 DEF Run!Begin, Run!DeadLine, Run!Finish, Run!Obey, Run!Exit, Run!Move,
              Run!Announce, Run!Preempt, Run!Abandon, RunInv
<1> QED
  BY <1>1, <1>3 DEF storage, loopVars

LEMMA ControlStep ==
  ASSUME TypeOK, RunInv, ControlInv, [Next]_vars
  PROVE  ControlInv'
<1> USE DEF ControlInv, OneMachineRuns
<1>1. CASE TopIdle \/ TopRunning \/ Test
  BY <1>1 DEF TopIdle, TopRunning, Test, storage, runVars
<1>2. CASE Pop
  <2>1. PICK m \in waiting :
          IF PriorityOf(m) >= level
          THEN /\ waiting' = waiting \ {m}
               /\ _activeStateMachine' = m
               /\ \E s \in States \cup {NoState} : Run!Start(s)
               /\ pc' = "top"
          ELSE pc' = "isNew" /\ UNCHANGED <<waiting, _activeStateMachine, runVars>>
    BY <1>2 DEF Pop
  <2>2. _stateMachinesId' = _stateMachinesId /\ pc = "pop"
    BY <1>2 DEF Pop
  <2>3. m # None
    BY DEF TypeOK, Ids
  <2>4. CASE PriorityOf(m) >= level
    <3>1. phase' = "begin"
      BY <2>1, <2>4 DEF Run!Start
    <3> QED BY <2>1, <2>2, <2>3, <2>4, <3>1
  <2>5. CASE ~ (PriorityOf(m) >= level)
    BY <2>1, <2>2, <2>5 DEF runVars
  <2> QED BY <2>4, <2>5
<1>3. CASE Join
  <2>1. /\ pc' = "top" /\ phase' = "idle" /\ _activeStateMachine' = None
        /\ UNCHANGED <<waiting, _stateMachinesId>>
    BY <1>3 DEF Join, Run!Join, storage
  <2>2. None \notin waiting
    <3>1. Ids \subseteq Nat
      BY DEF Ids
    <3>2. waiting \subseteq Ids
      BY DEF TypeOK
    <3> QED BY <3>1, <3>2, NoneAssumption
  <2> QED BY <2>1, <2>2
<1>4. CASE Poppable
  BY <1>4 DEF Poppable, Run!Post, storage, runVars
<1>5. CASE IsNewStateRead \/ IsNewStateWrite
  BY <1>5 DEF IsNewStateRead, IsNewStateWrite, Run!Seen, storage, runVars
<1>6. CASE SetStateMachineData \/ CloneArtificialLife \/ GetMorePriority
  BY <1>6 DEF SetStateMachineData, CloneArtificialLife, GetMorePriority, storage, runVars
<1>7. CASE Publish
  BY <1>7 DEF Publish, Run!Post, storage, runVars
<1>8. CASE Clean
  BY <1>8 DEF Clean, runVars
<1>9. CASE Stop
  BY <1>9 DEF Stop, Run!Post, storage, runVars
<1>10. CASE LastJoin
  BY <1>10 DEF LastJoin, Run!Join, storage
<1>11. ASSUME NEW imp \in SentImportances, NEW late \in SentDeadLines, Register(imp, late)
       PROVE  ControlInv'
  <2>1. /\ waiting' = waiting \cup {_stateMachinesId}
        /\ _stateMachinesId' = _stateMachinesId + 1
        /\ UNCHANGED <<pc, phase, _activeStateMachine>>
    BY <1>11 DEF Register, runVars
  <2>2. waiting \subseteq Nat /\ _stateMachinesId \in Nat
    BY DEF TypeOK, Ids
  <2>3. _activeStateMachine = None \/ _activeStateMachine \in Nat
    BY DEF TypeOK, Machines, Ids
  <2>4. \A m \in waiting' : m < _stateMachinesId + 1
    BY <2>1, <2>2
  <2>5. _activeStateMachine # _stateMachinesId
    BY <2>2, <2>3
  <2>6. _activeStateMachine # None => _activeStateMachine < _stateMachinesId + 1
    BY <2>2, <2>3
  <2> QED BY <2>1, <2>4, <2>5, <2>6
<1>12. ASSUME NEW id \in Ids, Cancel(id)
       PROVE  ControlInv'
  BY <1>12 DEF Cancel, Unlocked, Run!Post, runVars
<1>13. ASSUME NEW priority \in Levels, React(priority)
       PROVE  ControlInv'
  BY <1>13 DEF React, storage, runVars
<1>14. CASE RunSteps
  BY <1>14, RunByItself
<1>15. CASE InLoop \/ Shutdown
  BY <1>15 DEF InLoop, Shutdown, Run!Shutdown, storage, runVars
<1>16. CASE UNCHANGED vars
  BY <1>16 DEF vars, storage, runVars
<1> QED
  BY <1>1, <1>2, <1>3, <1>4, <1>5, <1>6, <1>7, <1>8, <1>9, <1>10, <1>11, <1>12, <1>13,
     <1>14, <1>15, <1>16 DEF Next, Main, Spin

-----------------------------------------------------------------------------
(***************************************************************************)
(* The data in the buffer of the state machines.                           *)
(***************************************************************************)

\* The buffer holds the data of the active machine, or nothing once this one is over.
Stored ==
  sm = _activeStateMachine \/ (sm = None /\ state = NoState)

\* The data of the active machine is stored, or its state is not seen yet: from the
\* second call of poppable() on, and whenever something is published, it is stored.
DataInv ==
  /\ _activeStateMachine # None /\ ~ wandered =>
       /\ pc \in {"seen", "data"} => res \/ Stored
       /\ pc \in {"clone", "scan", "publish", "clean"} => Stored
       /\ pc \in {"top", "test", "join", "poppable", "isNew"} => new_state_ \/ Stored
       /\ pc \in {"top", "test", "join", "poppable"} /\ ~ unpoppable_ => Stored
       /\ ~ isWildcardState
  /\ pc \in {"scan", "publish"} /\ _activeStateMachine = None => sm = None
  /\ pc = "publish" /\ found = "state_machine" => sm # None
  /\ pc = "poppable" /\ ~ unpoppable_ /\ ~ wandered
       => level >= PriorityOf(_activeStateMachine)

LEMMA DataStep ==
  ASSUME TypeOK, RunInv, ControlInv, DataInv, [Next]_vars
  PROVE  DataInv'
<1> USE DEF DataInv, Stored, isWildcardState, PriorityOf
<1>1. CASE TopIdle \/ TopRunning
  BY <1>1 DEF TopIdle, TopRunning, storage, runVars, history, loopVars
<1>2. CASE Pop
  <2>1. pc' \in {"top", "isNew"} /\ pc = "pop"
    BY <1>2 DEF Pop
  <2>2. CASE pc' = "isNew"
    BY <1>2, <2>1, <2>2 DEF Pop, ControlInv
  <2>3. CASE pc' = "top"
    <3>1. PICK s \in States \cup {NoState} : Run!Start(s)
      BY <1>2, <2>3 DEF Pop
    <3>2. /\ new_state_' = TRUE /\ unpoppable_' = TRUE
          /\ wandered' = isWildcardState'
      BY <1>2, <2>3, <3>1 DEF Pop, Run!Start
    <3> QED BY <2>3, <3>2
  <2> QED BY <2>1, <2>2, <2>3
<1>3. CASE Test
  <2>1. CASE state = NoState
    BY <1>3, <2>1 DEF Test, storage, runVars, history
  <2>2. CASE state # NoState
    <3>1. /\ pc = "test" /\ pc' = "poppable" /\ level' = HighestPriority
          /\ UNCHANGED <<importance, unpoppable_, state, new_state_, _activeStateMachine,
                         sm, wandered>>
      BY <1>3, <2>2 DEF Test, storage, runVars, history
    <3>2. ASSUME ~ unpoppable_, ~ wandered
          PROVE  HighestPriority >= PriorityOf(_activeStateMachine)
      <4>1. sm = _activeStateMachine /\ sm # None
        BY <2>2, <3>1, <3>2 DEF ControlInv
      <4>2. BufferPriority("state_machine") = PriorityOf(sm)
        BY <4>1, BufferValues
      <4>3. BufferPriority("state_machine") <= HighestPriority
        BY HighestIsHighest DEF Buffers
      <4>4. BufferPriority("state_machine") \in Int /\ HighestPriority \in Int
        BY BufferValues, HighestIsHighest DEF Buffers, Values, NoPriority
      <4> HIDE DEF PriorityOf
      <4> QED BY <4>1, <4>2, <4>3, <4>4
    <3> QED BY <3>1, <3>2
  <2> QED BY <2>1, <2>2
<1>4. CASE Join
  BY <1>4 DEF Join
<1>5. CASE Poppable
  <2>1. UNCHANGED <<state, new_state_, _activeStateMachine, sm, wandered>>
    BY <1>5 DEF Poppable, Run!Post, runVars, history
  <2>2. /\ pc = "poppable"
        /\ pc' = "isNew" \/ (pc' = "top" /\ ~ unpoppable_ /\ ~ unpoppable_')
    BY <1>5 DEF Poppable
  <2> QED BY <2>1, <2>2
<1>6. CASE IsNewStateRead
  BY <1>6 DEF IsNewStateRead, runVars, history
<1>7. CASE IsNewStateWrite
  BY <1>7 DEF IsNewStateWrite, Run!Seen, loopVars, history
<1>8. CASE SetStateMachineData
  BY <1>8 DEF SetStateMachineData, runVars, history
<1>9. CASE CloneArtificialLife
  BY <1>9 DEF CloneArtificialLife, runVars, history, TypeOK
<1>10. CASE GetMorePriority
  BY <1>10, WinnerHasMessage DEF GetMorePriority, runVars, history
<1>11. CASE Publish
  BY <1>11 DEF Publish, Run!Post, runVars, history
<1>12. CASE Clean
  BY <1>12 DEF Clean, runVars, history
<1>13. CASE Stop \/ LastJoin
  <2>1. pc' \in {"last", "done"} /\ UNCHANGED <<state, _activeStateMachine, wandered>>
    BY <1>13 DEF Stop, LastJoin, Run!Post, Run!Join, runVars, history
  <2>2. pc = "top" \/ pc = "last"
    BY <1>13 DEF Stop, LastJoin
  <2> QED BY <2>1, <2>2
<1>14. ASSUME NEW imp \in SentImportances, NEW late \in SentDeadLines, Register(imp, late)
       PROVE  DataInv'
  <2>1. UNCHANGED <<unpoppable_, state, new_state_, _activeStateMachine, sm, pc, level, res,
                    found, wandered>>
    BY <1>14 DEF Register, runVars, loopVars, history
  <2>2. ASSUME _activeStateMachine # None
        PROVE  importance'[_activeStateMachine] = importance[_activeStateMachine]
    <3>1. _activeStateMachine \in Ids /\ _activeStateMachine < _stateMachinesId
      BY <2>2 DEF TypeOK, Machines, ControlInv
    <3>2. _activeStateMachine # _stateMachinesId
      BY <3>1 DEF TypeOK, Ids
    <3>3. importance' = [importance EXCEPT ![_stateMachinesId] = imp]
      BY <1>14 DEF Register
    <3> QED BY <3>1, <3>2, <3>3 DEF TypeOK
  <2> QED BY <2>1, <2>2 DEF ControlInv
<1>15. ASSUME NEW id \in Ids, Cancel(id)
       PROVE  DataInv'
  <2>1. UNCHANGED <<importance, unpoppable_, state, new_state_, _activeStateMachine, sm, pc,
                    level, res, found, wandered>>
    BY <1>15 DEF Cancel, Run!Post, runVars, loopVars
  <2> QED BY <2>1
<1>16. ASSUME NEW priority \in Levels, React(priority)
       PROVE  DataInv'
  BY <1>16 DEF React, storage, runVars, loopVars, history
<1>17. CASE RunSteps
  <2>1. /\ UNCHANGED <<importance, unpoppable_, _activeStateMachine, sm, pc, level, res,
                       found>>
        /\ wandered' = (wandered \/ isWildcardState')
        /\ state = NoState => state' = NoState
        /\ new_state_ => new_state_'
    BY <1>17, RunByItself
  <2> QED BY <2>1
<1>18. CASE InLoop \/ Shutdown
  BY <1>18 DEF InLoop, Shutdown, Run!Shutdown, storage, runVars, loopVars, history
<1>19. CASE UNCHANGED vars
  BY <1>19 DEF vars, storage, runVars, loopVars, history
<1> QED
  BY <1>1, <1>2, <1>3, <1>4, <1>5, <1>6, <1>7, <1>8, <1>9, <1>10, <1>11, <1>12, <1>13,
     <1>14, <1>15, <1>16, <1>17, <1>18, <1>19 DEF Next, Main, Spin

-----------------------------------------------------------------------------
(***************************************************************************)
(* The theorems.                                                           *)
(***************************************************************************)

IInv == TypeOK /\ RunInv /\ ControlInv /\ DataInv

LEMMA IInvInit == Init => IInv
<1> SUFFICES ASSUME Init PROVE IInv
  OBVIOUS
<1>1. TypeOK
  BY TypeInit
<1>2. RunInv
  BY DEF Init, Run!Init, RunInv
<1>3. ControlInv
  BY DEF Init, Run!Init, ControlInv, OneMachineRuns
<1>4. DataInv
  BY DEF Init, DataInv
<1> QED
  BY <1>1, <1>2, <1>3, <1>4 DEF IInv

LEMMA IInvStep == IInv /\ [Next]_vars => IInv'
<1> SUFFICES ASSUME IInv, [Next]_vars PROVE IInv'
  OBVIOUS
<1>1. TypeOK /\ RunInv /\ ControlInv /\ DataInv /\ RunType
  BY TypeParts DEF IInv
<1>2. UNCHANGED vars => UNCHANGED runVars
  BY DEF vars
<1>3. RunInv'
  BY <1>1, <1>2, RunOnly, RunKeeps
<1>4. TypeOK' /\ ControlInv' /\ DataInv'
  BY <1>1, TypeStep, ControlStep, DataStep
<1> QED
  BY <1>3, <1>4 DEF IInv

LEMMA IInvHolds == Spec => []IInv
BY IInvInit, IInvStep, PTL DEF Spec

\* The variables of the manager keep their types.
THEOREM ManagerTypeCorrect == Spec => []TypeOK
<1>1. IInv => TypeOK
  BY DEF IInv
<1> QED
  BY <1>1, IInvHolds, PTL

\* At most one machine runs, it is the active one and does not wait any more.
THEOREM OneMachineCorrect == Spec => []OneMachineRuns
<1>1. IInv => OneMachineRuns
  BY DEF IInv, ControlInv
<1> QED
  BY <1>1, IInvHolds, PTL

\* The data of a machine that is over is never published, unless wildcard states are
\* involved.
THEOREM OwnDataCorrect == Spec => []PublishesItsOwnData
<1>1. IInv => PublishesItsOwnData
  BY DEF IInv, DataInv, Stored, PublishesItsOwnData
<1> QED
  BY <1>1, IInvHolds, PTL

\* A machine that never was in a wildcard state is preempted by poppable() only for a
\* more important one.
THEOREM BetterPreemptsCorrect == Spec => OnlyBetterPreempts
<1> DEFINE A == pc = "poppable" /\ pc' = "top" /\ ~ wandered =>
                  \E m \in waiting : importance[m] > importance[_activeStateMachine]
<1>1. ASSUME IInv, [Next]_vars
      PROVE  A
  <2> SUFFICES ASSUME pc = "poppable", pc' = "top", ~ wandered
               PROVE  \E m \in waiting : importance[m] > importance[_activeStateMachine]
    OBVIOUS
  <2>1. Poppable
    <3>1. CASE Main
      BY <3>1 DEF Main, TopIdle, Pop, TopRunning, Test, Join, IsNewStateRead,
                  IsNewStateWrite, SetStateMachineData, CloneArtificialLife,
                  GetMorePriority, Publish, Clean, Stop, LastJoin
    <3>2. CASE Spin \/ InLoop \/ Shutdown \/ UNCHANGED vars
      BY <3>2 DEF Spin, Register, Cancel, React, InLoop, Shutdown, vars
    <3>3. CASE RunSteps
      BY <1>1, <3>3, RunByItself DEF IInv
    <3> QED BY <1>1, <3>1, <3>2, <3>3 DEF Next
  <2>2. ~ unpoppable_ /\ \E m \in waiting : PriorityOf(m) > level
    BY <2>1 DEF Poppable
  <2>3. PICK m \in waiting : PriorityOf(m) > level
    BY <2>2
  <2>4. level >= PriorityOf(_activeStateMachine) /\ _activeStateMachine # None
    BY <1>1, <2>2 DEF IInv, DataInv, ControlInv
  <2>5. /\ importance[m] \in low .. vital
        /\ importance[_activeStateMachine] \in low .. vital
    BY <1>1, <2>4 DEF IInv, TypeOK, Machines
  <2>6. /\ PriorityOf(m) \in Int /\ PriorityOf(_activeStateMachine) \in Int
        /\ level \in Int
    BY <1>1, <2>5, AtomicGrows DEF IInv, TypeOK, PriorityOf, NoPriority
  <2>7. PriorityOf(m) > PriorityOf(_activeStateMachine)
    <3> HIDE DEF PriorityOf
    <3> QED BY <2>3, <2>4, <2>6
  <2> QED BY <2>5, <2>7, AtomicGrows DEF PriorityOf
<1>2. IInv /\ [Next]_vars => [A]_vars
  <2> HIDE DEF A
  <2> QED BY <1>1
<1>3. Spec => [][A]_vars
  <2> HIDE DEF A
  <2> QED BY <1>2, IInvHolds, PTL DEF Spec
<1> QED
  BY <1>3, Zenon DEF OnlyBetterPreempts

\* The manager starts, preempts, sees and joins the runs only as their contract lets it,
\* the contract StateMachineRunner keeps: a run is never started before the last one is
\* joined, nor joined before it has exited.
THEOREM ManagerKeepsContract ==
  Spec => Run!Init /\ [][Run!Next]_(Run!contract)
<1>1. Init => Run!Init
  BY DEF Init
<1>2. [Next]_vars => [Run!Next]_(Run!contract)
  <2>1. UNCHANGED vars => UNCHANGED runVars
    BY DEF vars
  <2>2. runVars = Run!contract /\ runVars' = Run!contract'
    BY DEF runVars, Run!contract
  <2> QED BY <2>1, <2>2, RunOnly
<1> QED
  BY <1>1, <1>2, PTL DEF Spec
=============================================================================
