---------------------- MODULE StateMachineRunnerProofs ----------------------
(***************************************************************************)
(* Proofs about StateMachineRunner, for any machine, any timeouts and      *)
(* deadlines and any number of runs and events.                            *)
(***************************************************************************)
EXTENDS StateMachineRunner, TLAPS

USE TransitionsAssumption, StatesAssumption, EventsAssumption, TimesAssumption,
    BoundsAssumption

Kinds == {"pass_on_event", "pass_on_duration", "timeout", "wait", "wait_synchro",
          "global_timeout", "preampt", "dead_line", "none"}

-----------------------------------------------------------------------------
(***************************************************************************)
(* The turn of a state.                                                    *)
(***************************************************************************)

LEMMA TransitionFacts ==
  ASSUME NEW s \in States, NEW k \in DOMAIN Transitions[s]
  PROVE  /\ Transitions[s][k].next \in States
         /\ Target(Transitions[s][k].next) \in States \cup {NoState}
<1> DEFINE T == [regexs : Seq(SUBSET RunEvents),
                 duration : Nat \cup {Never}, time_out : Nat \cup {Never},
                 synchro : BOOLEAN, next : States]
<1>1. Transitions[s] \in Seq(T)
  BY TransitionsAssumption
<1>2. Transitions[s][k].next \in States
  <2>1. Transitions[s][k] \in T
    <3> HIDE DEF T
    <3> QED BY <1>1
  <2> QED BY <2>1
<1> QED
  BY <1>2 DEF Target

LEMMA EvaluateKinds ==
  ASSUME NEW k, NEW event
  PROVE  evaluate(k, event) \in {"timeout", "pass_on_duration", "pass_on_event", "wait"}
BY DEF evaluate

\* What a turn yields: a state or none, and a kind of transition; a change on
\* events comes from a transition whose regular expressions are all validated.
LEMMA OutcomeFacts ==
  ASSUME state \in States, NEW event, NEW o \in Outcomes(event)
  PROVE  /\ o[1] \in States \cup {NoState}
         /\ o[2] \in Kinds
         /\ o[1] # state /\ o[2] = "pass_on_event" =>
              \E k \in DOMAIN Transitions[state] :
                /\ Target(Transitions[state][k].next) = o[1]
                /\ evaluate(k, event) = "pass_on_event"
<1> DEFINE deciding == {k \in DOMAIN Transitions[state] : Decides(k, event)}
<1>1. CASE endState(state)
  BY <1>1 DEF Outcomes, Kinds
<1>2. CASE ~ endState(state) /\ deciding = {}
  <2>1. o = <<state, Waiting(state)>>
    BY <1>2 DEF Outcomes
  <2> QED BY <2>1 DEF Waiting, Kinds
<1>3. CASE ~ endState(state) /\ deciding # {}
  <2>1. PICK k \in DOMAIN Transitions[state] :
          o = <<IF evaluate(k, event) = "timeout" THEN NoState
                ELSE Target(Transitions[state][k].next), evaluate(k, event)>>
    BY <1>3 DEF Outcomes
  <2>2. o[2] = evaluate(k, event)
    BY <2>1
  <2>3. o[1] = IF evaluate(k, event) = "timeout" THEN NoState
               ELSE Target(Transitions[state][k].next)
    BY <2>1
  <2>4. o[2] \in Kinds
    BY <2>2, EvaluateKinds DEF Kinds
  <2>5. o[1] \in States \cup {NoState}
    BY <2>3, TransitionFacts
  <2> QED BY <2>2, <2>3, <2>4, <2>5
<1> QED
  BY <1>1, <1>2, <1>3

ValidatedOK(v) ==
  /\ DOMAIN v = States
  /\ \A s \in States :
       /\ DOMAIN v[s] = DOMAIN Transitions[s]
       /\ \A k \in DOMAIN Transitions[s] : v[s][k] \subseteq DOMAIN Transitions[s][k].regexs

\* What the rest of the proofs needs of a turn.
LEMMA RunOnceFacts ==
  ASSUME TypeOK, state \in States, NEW event \in RunEvents \cup {NoEvent}, runOnce(event)
  PROVE  /\ state' \in States \cup {NoState} /\ transition' \in Kinds
         /\ ValidatedOK(validated')
         /\ heard' \in [States -> SUBSET RunEvents]
         /\ entered' \in {entered, now}
         /\ \/ state' # state /\ setNewState /\ publishState(state')
            \/ state' = state /\ UNCHANGED <<new_state_, raced, finals>>
         /\ state' # state /\ transition' = "pass_on_event" =>
              \E k \in DOMAIN Transitions[state] :
                /\ Target(Transitions[state][k].next) = state'
                /\ evaluate(k, event) = "pass_on_event"
<1>1. PICK outcome \in Outcomes(event) :
        /\ state' = outcome[1]
        /\ transition' = outcome[2]
        /\ IF outcome[1] # state
           THEN /\ setNewState
                /\ publishState(outcome[1])
                /\ entered' = IF outcome[1] = NoState THEN entered ELSE now
           ELSE UNCHANGED <<new_state_, raced, finals, entered>>
  BY DEF runOnce
<1>2. /\ state' \in States \cup {NoState} /\ transition' \in Kinds
      /\ state' # state /\ transition' = "pass_on_event" =>
              \E k \in DOMAIN Transitions[state] :
                /\ Target(Transitions[state][k].next) = state'
                /\ evaluate(k, event) = "pass_on_event"
  BY <1>1, OutcomeFacts
<1>3. ValidatedOK(validated')
  <2>1. validated' = [validated EXCEPT ![state] = ValidatedBy(event)]
    BY DEF runOnce
  <2>2. DOMAIN ValidatedBy(event) = DOMAIN Transitions[state]
    BY DEF ValidatedBy
  <2>3. ASSUME NEW k \in DOMAIN Transitions[state]
        PROVE  ValidatedBy(event)[k] \subseteq DOMAIN Transitions[state][k].regexs
    <3>1. ValidatedBy(event)[k] \in {Validated(k, event), validated[state][k]}
      BY DEF ValidatedBy
    <3>2. validated[state][k] \subseteq DOMAIN Transitions[state][k].regexs
      BY DEF TypeOK
    <3> QED BY <3>1, <3>2 DEF Validated
  <2>4. ValidatedOK(validated)
    BY DEF TypeOK, ValidatedOK
  <2>5. DOMAIN validated' = States
    BY <2>1, <2>4 DEF ValidatedOK
  <2>6. validated'[state] = ValidatedBy(event)
    BY <2>1, <2>4 DEF ValidatedOK
  <2>7. \A s \in States \ {state} : validated'[s] = validated[s]
    BY <2>1, <2>4 DEF ValidatedOK
  <2> QED BY <2>2, <2>3, <2>4, <2>5, <2>6, <2>7 DEF ValidatedOK
<1>4. heard' \in [States -> SUBSET RunEvents]
  BY DEF runOnce, TypeOK
<1>5. entered' \in {entered, now}
  BY <1>1
<1>6. \/ state' # state /\ setNewState /\ publishState(state')
      \/ state' = state /\ UNCHANGED <<new_state_, raced, finals>>
  BY <1>1
<1> QED
  BY <1>2, <1>3, <1>4, <1>5, <1>6

-----------------------------------------------------------------------------
(***************************************************************************)
(* Type correctness.                                                       *)
(***************************************************************************)

MachineType ==
  /\ state \in States \cup {NoState} /\ transition \in Kinds
  /\ new_state_ \in BOOLEAN /\ raced \in BOOLEAN
  /\ finals \in [1 .. MaxRuns -> Nat]
ClockType ==
  /\ time_out_ \in Nat \cup {Never} /\ begin_dead_line_ \in Nat
  /\ start_time \in 0 .. now /\ entered \in 0 .. now /\ now \in Nat
HeardType == ValidatedOK(validated) /\ heard \in [States -> SUBSET RunEvents]
QueueType == mailbox \in Seq(Messages) /\ batch \in Seq(Messages)
ControlType ==
  /\ pc \in {"idle", "begin", "loop", "events", "exit", "ended"}
  /\ pc = "events" => batch # <<>> /\ state # NoState
  /\ main \in {"loop", "join", "read", "write", "show", "store", "clone", "crashed"}
  /\ res \in BOOLEAN /\ ok \in BOOLEAN
  /\ shown \in States \cup {NoState}
CountType == run \in 0 .. MaxRuns /\ sent \in 0 .. MaxEvents /\ proper \subseteq 1 .. MaxRuns

LEMMA TypeParts ==
  TypeOK <=> /\ MachineType /\ ClockType /\ HeardType /\ QueueType /\ ControlType
             /\ CountType
BY DEF TypeOK, MachineType, ClockType, HeardType, QueueType, ControlType, CountType,
       ValidatedOK, Kinds

LEMMA TypePartsNext ==
  MachineType' /\ ClockType' /\ HeardType' /\ QueueType' /\ ControlType' /\ CountType'
    => TypeOK'
BY DEF TypeOK, MachineType, ClockType, HeardType, QueueType, ControlType, CountType,
       ValidatedOK, Kinds

LEMMA FinalsType ==
  ASSUME finals \in [1 .. MaxRuns -> Nat], NEW s, publishState(s)
  PROVE  finals' \in [1 .. MaxRuns -> Nat]
<1> DEFINE D == 1 .. MaxRuns
<1>1. finals \in [D -> Nat] /\ \A r \in D : finals[r] + 1 \in Nat
  OBVIOUS
<1>2. finals' = finals \/ finals' = [finals EXCEPT ![run] = finals[run] + 1]
  BY DEF publishState
<1>3. [finals EXCEPT ![run] = finals[run] + 1] \in [D -> Nat]
  <2> HIDE DEF D
  <2> QED BY <1>1
<1> QED
  BY <1>1, <1>2, <1>3

\* The state changes, if at all, by the end of the machine, of the run or of a turn.
LEMMA EndType ==
  ASSUME MachineType, NEW why \in Kinds, End(why)
  PROVE  MachineType'
<1>1. finals' \in [1 .. MaxRuns -> Nat]
  BY FinalsType DEF MachineType, End
<1>2. new_state_' \in BOOLEAN /\ raced' \in BOOLEAN
  BY DEF MachineType, End, setNewState
<1> QED
  BY <1>1, <1>2 DEF MachineType, End

LEMMA TurnType ==
  ASSUME TypeOK, state \in States, NEW event \in RunEvents \cup {NoEvent}, runOnce(event)
  PROVE  MachineType'
<1>1. finals' \in [1 .. MaxRuns -> Nat]
  <2>1. finals \in [1 .. MaxRuns -> Nat]
    BY DEF TypeOK
  <2>2. finals' = finals \/ publishState(state')
    BY RunOnceFacts
  <2> QED BY <2>1, <2>2, FinalsType
<1>2. new_state_' \in BOOLEAN /\ raced' \in BOOLEAN
  BY RunOnceFacts DEF TypeOK, setNewState
<1> QED
  BY <1>1, <1>2, RunOnceFacts DEF MachineType

LEMMA NoneValidatedOK == ValidatedOK(NoneValidated)
BY DEF ValidatedOK, NoneValidated

\* An iteration begins in a state of the machine.
LEMMA IteratesInState ==
  TypeOK /\ Iterates => state \in States
BY DEF TypeOK, Iterates

\* The event in hand.
LEMMA HeadEvent ==
  TypeOK /\ pc = "events" =>
    state \in States /\ Head(batch).name \in RunEvents /\ Tail(batch) \in Seq(Messages)
<1> SUFFICES ASSUME TypeOK, pc = "events"
             PROVE  /\ state \in States /\ Head(batch).name \in RunEvents
                    /\ Tail(batch) \in Seq(Messages)
  OBVIOUS
<1>1. batch \in Seq(Messages) /\ batch # <<>> /\ state \in States
  BY DEF TypeOK
<1>2. Head(batch) \in Messages /\ Tail(batch) \in Seq(Messages)
  BY <1>1
<1> QED
  BY <1>1, <1>2 DEF Messages

LEMMA TypeInit == Init => TypeOK
<1> SUFFICES ASSUME Init PROVE TypeOK
  OBVIOUS
<1>1. MachineType
  BY DEF Init, MachineType, Kinds
<1>2. ClockType
  BY DEF Init, ClockType
<1>3. HeardType
  BY NoneValidatedOK DEF Init, HeardType
<1>4. QueueType
  BY DEF Init, QueueType
<1>5. ControlType
  BY DEF Init, ControlType
<1>6. CountType
  BY DEF Init, CountType
<1> QED
  BY <1>1, <1>2, <1>3, <1>4, <1>5, <1>6, TypeParts

LEMMA TypeRunner ==
  ASSUME TypeOK, Runner
  PROVE  TypeOK'
<1> USE TypeParts
<1> SUFFICES MachineType' /\ ClockType' /\ HeardType' /\ QueueType' /\ ControlType'
             /\ CountType'
  BY TypePartsNext
<1>1. CASE RunBegin
  <2>1. MachineType'
    BY <1>1, EndType DEF RunBegin, Kinds, MachineType, internal
  <2>2. ClockType'
    BY <1>1 DEF RunBegin, ClockType
  <2>3. HeardType'
    BY <1>1 DEF RunBegin, HeardType
  <2>4. QueueType' /\ CountType'
    BY <1>1 DEF RunBegin, QueueType, CountType
  <2>5. ControlType'
    BY <1>1 DEF RunBegin, ControlType, mainVars
  <2> QED BY <2>1, <2>2, <2>3, <2>4, <2>5
<1>2. CASE LoopEnds
  BY <1>2 DEF LoopEnds, MachineType, ClockType, HeardType, QueueType, ControlType,
              CountType, internal, clocks, mainVars
<1>3. CASE GlobalTimeout
  <2>1. MachineType'
    BY <1>3, EndType DEF GlobalTimeout, Kinds
  <2> QED
    BY <1>3, <2>1 DEF GlobalTimeout, ClockType, HeardType, QueueType, ControlType,
                      CountType, clocks, mainVars
<1>4. CASE Preempt
  <2>1. MachineType'
    BY <1>4, EndType DEF Preempt, Kinds
  <2> QED
    BY <1>4, <2>1 DEF Preempt, ClockType, HeardType, QueueType, ControlType,
                      CountType, clocks, mainVars
<1>5. CASE RunOnceNoEvent
  <2>1. state \in States /\ runOnce(NoEvent) /\ pc = "loop"
    BY <1>5, IteratesInState DEF RunOnceNoEvent, Iterates
  <2>2. MachineType'
    BY <2>1, TurnType
  <2>3. HeardType'
    BY <2>1, RunOnceFacts DEF HeardType
  <2>4. ClockType'
    BY <1>5, <2>1, RunOnceFacts DEF RunOnceNoEvent, ClockType
  <2> QED
    BY <1>5, <2>1, <2>2, <2>3, <2>4
    DEF RunOnceNoEvent, QueueType, ControlType, CountType, mainVars
<1>6. CASE TakeEvents
  <2>1. MachineType' /\ ClockType' /\ HeardType'
    BY <1>6 DEF TakeEvents, MachineType, ClockType, HeardType, internal, clocks
  <2>2. QueueType' /\ CountType'
    BY <1>6 DEF TakeEvents, QueueType, CountType
  <2>3. ControlType'
    BY <1>6 DEF TakeEvents, Iterates, ControlType, internal, mainVars
  <2> QED BY <2>1, <2>2, <2>3
<1>7. CASE HandleEvent
  <2> DEFINE event == Head(batch).name
  <2>2. event \in RunEvents /\ Tail(batch) \in Seq(Messages)
    BY <1>7, HeadEvent DEF HandleEvent
  <2>3. state \in States /\ runOnce(event)
    BY <1>7, HeadEvent DEF HandleEvent
  <2> HIDE DEF event
  <2>4. MachineType'
    BY <2>2, <2>3, TurnType
  <2>5. HeardType'
    BY <2>2, <2>3, RunOnceFacts DEF HeardType
  <2>6. ClockType'
    <3>1. entered' \in {entered, now}
      BY <2>2, <2>3, RunOnceFacts
    <3>2. UNCHANGED <<time_out_, begin_dead_line_, start_time, now>>
      BY <1>7 DEF HandleEvent
    <3> QED BY <3>1, <3>2 DEF ClockType
  <2>7. QueueType' /\ CountType'
    <3>1. mailbox' = mailbox /\ (batch' = <<>> \/ batch' = Tail(batch))
      BY <1>7 DEF HandleEvent
    <3>2. run' = run /\ sent' = sent /\ proper' = proper
      BY <1>7 DEF HandleEvent
    <3>3. <<>> \in Seq(Messages)
      OBVIOUS
    <3>4. QueueType'
      BY <2>2, <3>1, <3>3, Zenon DEF QueueType
    <3> QED BY <3>2, <3>4 DEF CountType
  <2>8. ControlType'
    BY <1>7 DEF HandleEvent, ControlType, mainVars
  <2> QED BY <2>4, <2>5, <2>6, <2>7, <2>8
<1>8. CASE RunExit
  <2>1. MachineType'
    BY <1>8 DEF RunExit, MachineType, setNewState, Kinds
  <2> QED
    BY <1>8, <2>1 DEF RunExit, ClockType, HeardType, QueueType, ControlType,
                      CountType, clocks, mainVars
<1> QED
  BY <1>1, <1>2, <1>3, <1>4, <1>5, <1>6, <1>7, <1>8 DEF Runner

LEMMA TypeStep ==
  ASSUME TypeOK, [Next]_vars
  PROVE  TypeOK'
<1> USE TypeParts
<1>1. CASE Runner
  BY <1>1, TypeRunner
<1>2. CASE Main
  <2>1. UNCHANGED <<internal, clocks, validated, mailbox, batch, now, ok, run, sent,
                    finals, heard, proper>>
    BY <1>2 DEF Main, MainTest, MainJoin, IsNewStateRead, IsNewStateWrite,
                SetStateMachineData, StoreStateData, CloneArtificialLife
  <2>2. ClockType' /\ HeardType' /\ QueueType' /\ CountType'
    BY <2>1 DEF ClockType, HeardType, QueueType, CountType, clocks
  <2>3. MachineType'
    <3>1. new_state_' \in BOOLEAN /\ raced' \in BOOLEAN
      BY <1>2 DEF Main, MainTest, MainJoin, IsNewStateRead, IsNewStateWrite,
                  SetStateMachineData, StoreStateData, CloneArtificialLife, MachineType
    <3> QED BY <2>1, <3>1 DEF MachineType, internal
  <2>4. ControlType'
    <3>1. CASE MainTest \/ MainJoin
      BY <2>1, <3>1 DEF MainTest, MainJoin, ControlType, internal
    <3>2. CASE IsNewStateRead \/ IsNewStateWrite
      BY <2>1, <3>2 DEF IsNewStateRead, IsNewStateWrite, ControlType, MachineType, internal
    <3>3. CASE SetStateMachineData
      BY <2>1, <3>3 DEF SetStateMachineData, ControlType, MachineType, internal
    <3>4. CASE StoreStateData
      BY <2>1, <3>4 DEF StoreStateData, ControlType, MachineType, internal
    <3>5. CASE CloneArtificialLife
      BY <2>1, <3>5 DEF CloneArtificialLife, ControlType, MachineType, internal
    <3> QED BY <1>2, <3>1, <3>2, <3>3, <3>4, <3>5 DEF Main
  <2> QED BY <2>2, <2>3, <2>4, TypePartsNext
<1>3. CASE Tick
  <2>1. ClockType'
    BY <1>3 DEF Tick, ClockType, clocks
  <2>2. MachineType' /\ HeardType' /\ QueueType' /\ ControlType' /\ CountType'
    BY <1>3 DEF Tick, MachineType, HeardType, QueueType, ControlType, CountType, internal,
                mainVars
  <2> QED BY <2>1, <2>2, TypePartsNext
<1>4. CASE Shutdown
  <2>1. MachineType' /\ ClockType' /\ HeardType'
    BY <1>4 DEF Shutdown, MachineType, ClockType, HeardType, internal, clocks
  <2>2. QueueType' /\ CountType'
    BY <1>4 DEF Shutdown, QueueType, CountType
  <2>3. ControlType'
    BY <1>4 DEF Shutdown, ControlType, internal, mainVars
  <2> QED BY <2>1, <2>2, <2>3, TypePartsNext
<1>5. ASSUME NEW s \in Initials, NEW time_out \in TimeOuts, NEW dead_line \in DeadLines,
             setInitialState(s, time_out, dead_line)
      PROVE  TypeOK'
  <2>1. MachineType'
    BY <1>5 DEF setInitialState, setNewState, MachineType, Kinds
  <2>2. ClockType'
    BY <1>5 DEF setInitialState, ClockType
  <2>3. HeardType'
    BY <1>5, NoneValidatedOK DEF setInitialState, HeardType
  <2>4. QueueType' /\ CountType'
    BY <1>5 DEF setInitialState, QueueType, CountType
  <2>5. ControlType'
    BY <1>5 DEF setInitialState, ControlType, mainVars
  <2> QED BY <2>1, <2>2, <2>3, <2>4, <2>5, TypePartsNext
<1>6. ASSUME NEW event \in RunEvents, addEvent(event)
      PROVE  TypeOK'
  <2>1. [name |-> event, run |-> run] \in Messages
    BY DEF Messages, CountType
  <2>2. QueueType' /\ CountType'
    BY <1>6, <2>1 DEF addEvent, QueueType, CountType
  <2>3. MachineType' /\ ClockType' /\ HeardType' /\ ControlType'
    BY <1>6 DEF addEvent, MachineType, ClockType, HeardType,
                ControlType, internal, clocks, mainVars
  <2> QED BY <2>2, <2>3, TypePartsNext
<1>7. CASE UNCHANGED vars
  <2>1. MachineType' /\ ClockType' /\ HeardType'
    BY <1>7 DEF vars, MachineType, ClockType, HeardType, internal, clocks
  <2>2. QueueType' /\ CountType'
    BY <1>7 DEF vars, QueueType, CountType
  <2>3. ControlType'
    BY <1>7 DEF vars, ControlType, internal, mainVars
  <2> QED BY <2>1, <2>2, <2>3, TypePartsNext
<1> QED
  BY <1>1, <1>2, <1>3, <1>4, <1>5, <1>6, <1>7 DEF Next

-----------------------------------------------------------------------------
(***************************************************************************)
(* Events of earlier runs.                                                 *)
(***************************************************************************)

\* Between two iterations no event is held, so the drop at the beginning of a run
\* drops all of them.
StaleInv == StaleNeverActs /\ (pc # "events" => batch = <<>>)

LEMMA StaleRunner ==
  ASSUME TypeOK, StaleInv, Runner
  PROVE  StaleInv'
<1> USE DEF StaleInv, StaleNeverActs
<1>1. CASE RunBegin
  BY <1>1 DEF RunBegin
<1>2. CASE LoopEnds \/ GlobalTimeout \/ RunExit
  BY <1>2 DEF LoopEnds, GlobalTimeout, RunExit, Iterates
<1>3. CASE Preempt
  BY <1>3 DEF Preempt, Iterates
<1>4. CASE RunOnceNoEvent
  BY <1>4 DEF RunOnceNoEvent
<1>5. CASE TakeEvents
  BY <1>5 DEF TakeEvents, Iterates
<1>6. CASE HandleEvent
  <2>1. batch \in Seq(Messages) /\ batch # <<>> /\ pc = "events"
    BY <1>6 DEF HandleEvent, TypeOK
  <2>2. \A e \in DOMAIN Tail(batch) : e + 1 \in DOMAIN batch /\ Tail(batch)[e] = batch[e + 1]
    BY <2>1
  <2>3. mailbox' = mailbox /\ run' = run
    BY <1>6 DEF HandleEvent
  <2>4. \/ batch' = <<>> /\ pc' = "loop"
        \/ batch' = Tail(batch) /\ pc' = "events"
    BY <1>6 DEF HandleEvent
  <2>5. \A e \in DOMAIN batch' : batch'[e].run = run
    BY <2>1, <2>2, <2>4
  <2> QED BY <2>1, <2>3, <2>4, <2>5
<1> QED
  BY <1>1, <1>2, <1>3, <1>4, <1>5, <1>6 DEF Runner

LEMMA StaleStep ==
  ASSUME TypeOK, StaleInv, [Next]_vars
  PROVE  StaleInv'
<1>1. CASE Runner
  BY <1>1, StaleRunner
<1> USE DEF StaleInv, StaleNeverActs
<1>2. CASE Main
  BY <1>2 DEF Main, MainTest, MainJoin, IsNewStateRead, IsNewStateWrite,
              SetStateMachineData, StoreStateData, CloneArtificialLife
<1>3. CASE Tick \/ Shutdown \/ UNCHANGED vars
  BY <1>3 DEF Tick, Shutdown, vars
<1>4. ASSUME NEW s \in Initials, NEW time_out \in TimeOuts, NEW dead_line \in DeadLines,
             setInitialState(s, time_out, dead_line)
      PROVE  StaleInv'
  BY <1>4 DEF setInitialState
<1>5. ASSUME NEW event \in RunEvents, addEvent(event)
      PROVE  StaleInv'
  <2> DEFINE m == [name |-> event, run |-> run]
  <2>1. mailbox \in Seq(Messages) /\ m \in Messages
    BY DEF TypeOK, Messages
  <2>2. mailbox' = Append(mailbox, m) /\ UNCHANGED <<pc, batch, run>>
    BY <1>5 DEF addEvent
  <2>3. m.run = run
    OBVIOUS
  <2> HIDE DEF m
  <2>4. \A e \in DOMAIN mailbox' : mailbox'[e] = m \/ (e \in DOMAIN mailbox /\ mailbox'[e] = mailbox[e])
    BY <2>1, <2>2
  <2> QED BY <2>2, <2>3, <2>4
<1> QED
  BY <1>1, <1>2, <1>3, <1>4, <1>5 DEF Next

-----------------------------------------------------------------------------
(***************************************************************************)
(* The end of a run is announced once.                                     *)
(***************************************************************************)

\* A run is silent as long as its machine has a state, and unless it began without
\* one or the node is shut down it has spoken once the state is gone.
FinalsInv ==
  /\ \A r \in 1 .. MaxRuns : r > run => finals[r] = 0
  /\ \A r \in 1 .. run : finals[r] <= 1
  /\ \A r \in proper : r <= run /\ (ok /\ (r < run \/ pc = "idle") => finals[r] = 1)
  /\ pc \in {"idle", "ended"} => state = NoState
  /\ pc # "idle" => run >= 1
  /\ pc # "idle" /\ (state # NoState \/ pc = "begin") => finals[run] = 0
  /\ ok /\ pc \notin {"idle", "begin"} /\ state = NoState /\ run \in proper
       => finals[run] = 1
  /\ pc = "begin" /\ state = NoState => run \notin proper
  /\ ok /\ pc = "exit" => state = NoState

LEMMA Announced ==
  ASSUME TypeOK, run >= 1, publishState(NoState)
  PROVE  /\ finals'[run] = finals[run] + 1
         /\ \A r \in 1 .. MaxRuns : r # run => finals'[r] = finals[r]
BY DEF TypeOK, publishState

\* The last state is left with the announcement.
LEMMA FinalsEnd ==
  ASSUME TypeOK, FinalsInv, pc # "idle", state # NoState \/ pc = "begin",
         state' = NoState, publishState(NoState), pc' \in {"loop", "events", "exit", "ended"},
         UNCHANGED <<run, proper, ok>>
  PROVE  FinalsInv'
<1>1. run \in 1 .. MaxRuns /\ finals[run] = 0
  BY DEF FinalsInv, TypeOK
<1>2. /\ finals'[run] = 1
      /\ \A r \in 1 .. MaxRuns : r # run => finals'[r] = finals[r]
  BY <1>1, Announced
<1>3. proper \subseteq 1 .. MaxRuns /\ run \in 0 .. MaxRuns
  BY DEF TypeOK
<1>4. \A r \in 1 .. MaxRuns : r > run => finals'[r] = 0
  BY <1>1, <1>2 DEF FinalsInv
<1>5. \A r \in 1 .. run : finals'[r] <= 1
  BY <1>1, <1>2 DEF FinalsInv
<1>6. \A r \in proper : r <= run /\ (ok /\ r < run => finals'[r] = 1)
  BY <1>1, <1>2, <1>3 DEF FinalsInv
<1> QED
  BY <1>1, <1>2, <1>4, <1>5, <1>6 DEF FinalsInv

\* A turn announces the end when it comes to it, and says nothing otherwise.
LEMMA FinalsTurn ==
  ASSUME TypeOK, FinalsInv, pc \in {"loop", "events"}, state \in States,
         NEW event \in RunEvents \cup {NoEvent}, runOnce(event),
         pc' \in {"loop", "events"}, UNCHANGED <<run, proper, ok>>
  PROVE  FinalsInv'
<1>1. CASE state' = NoState
  <2>1. publishState(NoState)
    BY <1>1, RunOnceFacts
  <2> QED BY <1>1, <2>1, FinalsEnd
<1>2. CASE state' # NoState
  <2>1. finals' = finals
    BY <1>2, RunOnceFacts DEF publishState
  <2> QED BY <1>2, <2>1 DEF FinalsInv
<1> QED
  BY <1>1, <1>2

LEMMA FinalsStep ==
  ASSUME TypeOK, FinalsInv, [Next]_vars
  PROVE  FinalsInv'
<1>1. CASE RunBegin
  <2>1. CASE pc' = "ended"
    BY <1>1, <2>1, FinalsEnd DEF RunBegin, End
  <2>2. CASE pc' # "ended"
    BY <1>1, <2>2 DEF RunBegin, FinalsInv, internal
  <2> QED BY <2>1, <2>2
<1>2. CASE LoopEnds
  BY <1>2 DEF LoopEnds, FinalsInv, internal
<1>3. CASE GlobalTimeout
  BY <1>3, FinalsEnd DEF GlobalTimeout, Iterates, End
<1>4. CASE Preempt
  BY <1>4, FinalsEnd DEF Preempt, Iterates, End
<1>5. CASE RunOnceNoEvent
  BY <1>5, IteratesInState, FinalsTurn DEF RunOnceNoEvent, Iterates
<1>6. CASE TakeEvents
  BY <1>6 DEF TakeEvents, Iterates, FinalsInv, internal
<1>7. CASE HandleEvent
  BY <1>7, HeadEvent, FinalsTurn DEF HandleEvent
<1>8. CASE RunExit
  BY <1>8 DEF RunExit, FinalsInv
<1>9. CASE Main
  <2>1. CASE MainJoin
    <3>1. pc = "ended" /\ pc' = "idle" /\ UNCHANGED <<state, run, proper, ok, finals>>
      BY <2>1 DEF MainJoin, internal
    <3>2. \A r \in proper : r < run \/ r = run
      BY DEF FinalsInv, TypeOK
    <3> QED BY <3>1, <3>2 DEF FinalsInv
  <2>2. CASE ~ MainJoin
    <3>1. UNCHANGED <<state, run, proper, ok, finals, pc>>
      BY <1>9, <2>2 DEF Main, MainTest, IsNewStateRead, IsNewStateWrite,
                        SetStateMachineData, StoreStateData, CloneArtificialLife, internal
    <3> QED BY <3>1 DEF FinalsInv
  <2> QED BY <2>1, <2>2
<1>10. CASE Tick \/ Shutdown \/ UNCHANGED vars
  BY <1>10 DEF Tick, Shutdown, vars, FinalsInv, internal
<1>11. ASSUME NEW s \in Initials, NEW time_out \in TimeOuts, NEW dead_line \in DeadLines,
              setInitialState(s, time_out, dead_line)
       PROVE  FinalsInv'
  <2>1. /\ pc = "idle" /\ pc' = "begin" /\ run < MaxRuns /\ run' = run + 1
        /\ proper' = IF s = NoState THEN proper ELSE proper \cup {run + 1}
        /\ state' = s /\ finals' = finals /\ ok' = ok
    BY <1>11 DEF setInitialState
  <2>2. run \in 0 .. MaxRuns /\ proper \subseteq 1 .. MaxRuns
    BY DEF TypeOK
  <2>3. finals[run + 1] = 0 /\ \A r \in 1 .. MaxRuns : r > run + 1 => finals[r] = 0
    BY <2>1, <2>2 DEF FinalsInv
  <2>4. \A r \in 1 .. run + 1 : finals[r] <= 1
    BY <2>2, <2>3 DEF FinalsInv
  <2>5. \A r \in proper : r <= run /\ (ok => finals[r] = 1)
    BY <2>1 DEF FinalsInv
  <2>6. run + 1 \notin proper
    BY <2>2, <2>5
  <2>7. \A r \in proper' : r <= run + 1 /\ (ok /\ r < run + 1 => finals[r] = 1)
    BY <2>1, <2>2, <2>5
  <2> QED BY <2>1, <2>2, <2>3, <2>4, <2>6, <2>7 DEF FinalsInv
<1>12. ASSUME NEW event \in RunEvents, addEvent(event)
       PROVE  FinalsInv'
  BY <1>12 DEF addEvent, FinalsInv, internal
<1> QED
  BY <1>1, <1>2, <1>3, <1>4, <1>5, <1>6, <1>7, <1>8, <1>9, <1>10, <1>11, <1>12
  DEF Next, Runner

-----------------------------------------------------------------------------
(***************************************************************************)
(* The main loop sees the new states.                                      *)
(***************************************************************************)

\* A change that comes between the two accesses of isNewState to new_state_ is one
\* that its answer did not tell of, and one that comes once the main loop has found
\* a wildcard state is still to be told.
ShownInv ==
  /\ NewStateIsShown
  /\ main = "write" /\ ~ res /\ new_state_ => raced
  /\ main = "clone" /\ state \notin Wildcards => new_state_

LEMMA ShownSet ==
  ASSUME ShownInv, setNewState, UNCHANGED <<main, res>>
  PROVE  ShownInv'
<1>1. new_state_' = TRUE /\ raced' = (main = "write" /\ ~ res)
  BY DEF setNewState
<1> QED
  BY <1>1 DEF ShownInv, NewStateIsShown

LEMMA ShownTurn ==
  ASSUME TypeOK, ShownInv, pc # "idle", state \in States,
         NEW event \in RunEvents \cup {NoEvent}, runOnce(event),
         UNCHANGED mainVars
  PROVE  ShownInv'
<1>1. setNewState \/ UNCHANGED <<state, new_state_, raced>>
  BY RunOnceFacts
<1>2. CASE setNewState
  BY <1>2, ShownSet DEF mainVars
<1>3. CASE UNCHANGED <<state, new_state_, raced>>
  BY <1>3 DEF ShownInv, NewStateIsShown, mainVars
<1> QED
  BY <1>1, <1>2, <1>3

LEMMA ShownStep ==
  ASSUME TypeOK, ShownInv, [Next]_vars
  PROVE  ShownInv'
<1>1. CASE RunBegin
  <2>1. CASE setNewState
    BY <1>1, <2>1, ShownSet DEF RunBegin, mainVars
  <2>2. CASE ~ setNewState
    BY <1>1, <2>2 DEF RunBegin, End, ShownInv, NewStateIsShown, mainVars, internal
  <2> QED BY <2>1, <2>2
<1>2. CASE GlobalTimeout \/ Preempt \/ RunExit
  BY <1>2, ShownSet DEF GlobalTimeout, Preempt, RunExit, End, mainVars
<1>3. CASE LoopEnds \/ TakeEvents
  BY <1>3 DEF LoopEnds, TakeEvents, Iterates, ShownInv, NewStateIsShown, mainVars, internal
<1>4. CASE RunOnceNoEvent
  BY <1>4, IteratesInState, ShownTurn DEF RunOnceNoEvent, Iterates
<1>5. CASE HandleEvent
  BY <1>5, HeadEvent, ShownTurn DEF HandleEvent
<1>6. CASE Main
  <2> USE DEF ShownInv, NewStateIsShown
  <2>1. CASE MainTest
    BY <2>1 DEF MainTest, internal
  <2>2. CASE MainJoin
    BY <2>2 DEF MainJoin, internal
  <2>3. CASE IsNewStateRead
    BY <2>3 DEF IsNewStateRead, internal
  <2>4. CASE IsNewStateWrite
    BY <2>4 DEF IsNewStateWrite, internal
  <2>5. CASE SetStateMachineData
    BY <2>5 DEF SetStateMachineData, internal
  <2>6. CASE StoreStateData
    BY <2>6 DEF StoreStateData, internal
  <2>7. CASE CloneArtificialLife
    BY <2>7 DEF CloneArtificialLife, internal
  <2> QED BY <1>6, <2>1, <2>2, <2>3, <2>4, <2>5, <2>6, <2>7 DEF Main
<1>7. CASE Tick \/ Shutdown \/ UNCHANGED vars
  BY <1>7 DEF Tick, Shutdown, vars, ShownInv, NewStateIsShown, internal, mainVars
<1>8. ASSUME NEW s \in Initials, NEW time_out \in TimeOuts, NEW dead_line \in DeadLines,
             setInitialState(s, time_out, dead_line)
      PROVE  ShownInv'
  BY <1>8, ShownSet DEF setInitialState, mainVars
<1>9. ASSUME NEW event \in RunEvents, addEvent(event)
      PROVE  ShownInv'
  BY <1>9 DEF addEvent, ShownInv, NewStateIsShown, internal, mainVars
<1> QED
  BY <1>1, <1>2, <1>3, <1>4, <1>5, <1>6, <1>7, <1>8, <1>9 DEF Next, Runner

-----------------------------------------------------------------------------
(***************************************************************************)
(* A state is left on what it heard.                                       *)
(***************************************************************************)

\* A regular expression is validated by an event the state was given.
HeardInv ==
  \A s \in States : \A k \in DOMAIN Transitions[s] : \A r \in validated[s][k] :
    Transitions[s][k].regexs[r] \cap heard[s] # {}

LEMMA HeardTurn ==
  ASSUME TypeOK, HeardInv, state \in States, NEW event \in RunEvents \cup {NoEvent},
         runOnce(event)
  PROVE  /\ HeardInv'
         /\ event # NoEvent => \A k \in DOMAIN Transitions[state] :
              \A r \in Validated(k, event) :
                Transitions[state][k].regexs[r] \cap heard'[state] # {}
<1>1. /\ validated' = [validated EXCEPT ![state] = ValidatedBy(event)]
      /\ heard' = [heard EXCEPT ![state] = IF event = NoEvent THEN heard[state]
                                           ELSE heard[state] \cup {event}]
  BY DEF runOnce
<1>2. heard \in [States -> SUBSET RunEvents] /\ DOMAIN validated = States
  BY DEF TypeOK
<1>3. /\ heard[state] \subseteq heard'[state]
      /\ event # NoEvent => event \in heard'[state]
      /\ \A s \in States \ {state} : heard'[s] = heard[s]
  BY <1>1, <1>2
<1>4. /\ validated'[state] = ValidatedBy(event)
      /\ \A s \in States \ {state} : validated'[s] = validated[s]
  BY <1>1, <1>2
<1>5. ASSUME NEW k \in DOMAIN Transitions[state], NEW r \in validated[state][k]
      PROVE  Transitions[state][k].regexs[r] \cap heard'[state] # {}
  <2>1. Transitions[state][k].regexs[r] \cap heard[state] # {}
    BY <1>5 DEF HeardInv
  <2> QED BY <1>3, <2>1
<1>6. ASSUME event # NoEvent, NEW k \in DOMAIN Transitions[state],
             NEW r \in Validated(k, event)
      PROVE  Transitions[state][k].regexs[r] \cap heard'[state] # {}
  <2>1. CASE r \in validated[state][k]
    BY <1>5, <2>1
  <2>2. CASE event \in Transitions[state][k].regexs[r]
    BY <1>3, <1>6, <2>2
  <2> QED BY <2>1, <2>2 DEF Validated
<1>7. ASSUME NEW k \in DOMAIN Transitions[state], NEW r \in validated'[state][k]
      PROVE  Transitions[state][k].regexs[r] \cap heard'[state] # {}
  <2>1. \/ validated'[state][k] = validated[state][k]
        \/ event # NoEvent /\ validated'[state][k] = Validated(k, event)
    BY <1>4 DEF ValidatedBy
  <2> QED BY <1>5, <1>6, <1>7, <2>1
<1>8. HeardInv'
  <2> SUFFICES ASSUME NEW s \in States, NEW k \in DOMAIN Transitions[s],
                      NEW r \in validated'[s][k]
               PROVE  Transitions[s][k].regexs[r] \cap heard'[s] # {}
    BY DEF HeardInv
  <2>1. CASE s = state
    BY <1>7, <2>1
  <2>2. CASE s # state
    BY <1>3, <1>4, <2>2 DEF HeardInv
  <2> QED BY <2>1, <2>2
<1> QED
  BY <1>6, <1>8

\* Only a turn gives an event to a state or validates a regular expression.
LEMMA OtherSteps ==
  ASSUME TypeOK, [Next]_vars
  PROVE  \/ UNCHANGED <<validated, heard>> /\ (state' = state \/ transition' # "pass_on_event")
         \/ validated' = NoneValidated /\ transition' = "none"
         \/ \E event \in RunEvents \cup {NoEvent} : state \in States /\ runOnce(event)
<1>1. CASE RunBegin \/ LoopEnds \/ GlobalTimeout \/ Preempt \/ TakeEvents \/ RunExit
  BY <1>1 DEF RunBegin, LoopEnds, GlobalTimeout, Preempt, TakeEvents, RunExit, End, internal
<1>2. CASE RunOnceNoEvent
  BY <1>2, IteratesInState DEF RunOnceNoEvent
<1>3. CASE HandleEvent
  BY <1>3, HeadEvent DEF HandleEvent
<1>4. CASE Main
  BY <1>4 DEF Main, MainTest, MainJoin, IsNewStateRead, IsNewStateWrite,
              SetStateMachineData, StoreStateData, CloneArtificialLife, internal
<1>5. CASE Tick \/ Shutdown \/ UNCHANGED vars
  BY <1>5 DEF Tick, Shutdown, vars, internal
<1>6. ASSUME NEW s \in Initials, NEW time_out \in TimeOuts, NEW dead_line \in DeadLines,
             setInitialState(s, time_out, dead_line)
      PROVE  validated' = NoneValidated /\ transition' = "none"
  BY <1>6 DEF setInitialState
<1>7. ASSUME NEW event \in RunEvents, addEvent(event)
      PROVE  UNCHANGED <<validated, heard, state>>
  BY <1>7 DEF addEvent, internal
<1> QED
  BY <1>1, <1>2, <1>3, <1>4, <1>5, <1>6, <1>7 DEF Next, Runner

LEMMA HeardStep ==
  ASSUME TypeOK, HeardInv, [Next]_vars
  PROVE  HeardInv'
<1>1. CASE UNCHANGED <<validated, heard>>
  BY <1>1 DEF HeardInv
<1>2. CASE validated' = NoneValidated
  BY <1>2 DEF HeardInv, NoneValidated
<1> QED
  BY <1>1, <1>2, OtherSteps, HeardTurn

-----------------------------------------------------------------------------
(***************************************************************************)
(* The theorems.                                                           *)
(***************************************************************************)

IInv == TypeOK /\ StaleInv /\ FinalsInv /\ ShownInv /\ HeardInv

LEMMA IInvInit == Init => IInv
<1> SUFFICES ASSUME Init PROVE IInv
  OBVIOUS
<1>1. TypeOK
  BY TypeInit
<1>2. StaleInv
  BY DEF Init, StaleInv, StaleNeverActs
<1>3. FinalsInv
  BY DEF Init, FinalsInv
<1>4. ShownInv
  BY DEF Init, ShownInv, NewStateIsShown
<1>5. HeardInv
  BY DEF Init, HeardInv, NoneValidated
<1> QED
  BY <1>1, <1>2, <1>3, <1>4, <1>5 DEF IInv

LEMMA IInvStep == IInv /\ [Next]_vars => IInv'
<1> SUFFICES ASSUME IInv, [Next]_vars PROVE IInv'
  OBVIOUS
<1> QED
  BY TypeStep, StaleStep, FinalsStep, ShownStep, HeardStep, Zenon DEF IInv

LEMMA IInvHolds == Spec => []IInv
BY IInvInit, IInvStep, PTL DEF Spec

\* The variables of the runner keep their types.
THEOREM RunnerTypeCorrect == Spec => []TypeOK
<1>1. IInv => TypeOK
  BY DEF IInv
<1> QED
  BY <1>1, IInvHolds, PTL

\* No event added before a run began is ever in the hands of that run.
THEOREM StaleCorrect == Spec => []StaleNeverActs
<1>1. IInv => StaleNeverActs
  BY DEF IInv, StaleInv
<1> QED
  BY <1>1, IInvHolds, PTL

\* The end of a run is announced at most once and, unless the node is shut down or
\* the machine had no known initial state, exactly once.
THEOREM FinalStatusCorrect == Spec => []OneFinalStatus
<1>1. IInv => OneFinalStatus
  <2> SUFFICES ASSUME IInv, NEW r \in 1 .. run
               PROVE  /\ finals[r] <= 1
                      /\ r \in proper /\ ok /\ (r < run \/ pc \in {"idle", "ended"})
                           => finals[r] = 1
    BY DEF OneFinalStatus
  <2>1. r < run \/ r = run
    BY DEF IInv, TypeOK
  <2> QED BY <2>1 DEF IInv, FinalsInv
<1> QED
  BY <1>1, IInvHolds, PTL

\* A state that is not a wildcard and whose data the main loop has not stored is going
\* to be seen, unless it was entered between the two accesses of an isNewState that
\* answered no, whatever the wildcard states in between made of its answers.
THEOREM NewStateCorrect == Spec => []NewStateIsShown
<1>1. IInv => NewStateIsShown
  BY DEF IInv, ShownInv
<1> QED
  BY <1>1, IInvHolds, PTL

\* A state is left on events only for a transition whose regular expressions all
\* matched events of the run given to that state.
THEOREM LeftWhenHeardCorrect == Spec => LeftWhenHeard
<1> DEFINE A == transition' = "pass_on_event" /\ state' # state =>
                  \E k \in DOMAIN Transitions[state] :
                    LET t == Transitions[state][k] IN
                    /\ Target(t.next) = state'
                    /\ t.regexs # <<>>
                    /\ \A r \in DOMAIN t.regexs : t.regexs[r] \cap heard'[state] # {}
<1>1. ASSUME IInv, [Next]_vars
      PROVE  A
  <2> SUFFICES ASSUME transition' = "pass_on_event", state' # state
               PROVE  \E k \in DOMAIN Transitions[state] :
                        LET t == Transitions[state][k] IN
                        /\ Target(t.next) = state'
                        /\ t.regexs # <<>>
                        /\ \A r \in DOMAIN t.regexs : t.regexs[r] \cap heard'[state] # {}
    OBVIOUS
  <2>1. PICK event \in RunEvents \cup {NoEvent} : state \in States /\ runOnce(event)
    BY <1>1, OtherSteps DEF IInv
  <2>2. PICK k \in DOMAIN Transitions[state] :
          /\ Target(Transitions[state][k].next) = state'
          /\ evaluate(k, event) = "pass_on_event"
    BY <1>1, <2>1, RunOnceFacts DEF IInv
  <2>3. /\ event # NoEvent
        /\ Transitions[state][k].regexs # <<>>
        /\ Validated(k, event) = DOMAIN Transitions[state][k].regexs
    BY <2>2 DEF evaluate
  <2>4. \A r \in DOMAIN Transitions[state][k].regexs :
          Transitions[state][k].regexs[r] \cap heard'[state] # {}
    BY <1>1, <2>1, <2>3, HeardTurn DEF IInv
  <2> QED BY <2>2, <2>3, <2>4
<1>2. IInv /\ [Next]_vars => [A]_vars
  <2> HIDE DEF A
  <2> QED BY <1>1
<1>3. Spec => [][A]_vars
  <2> HIDE DEF A
  <2> QED BY <1>2, IInvHolds, PTL DEF Spec
<1> QED
  BY <1>3, Zenon DEF LeftWhenHeard

-----------------------------------------------------------------------------
(***************************************************************************)
(* The contract with the resource manager.                                 *)
(***************************************************************************)

LEMMA TurnKeepsContract ==
  ASSUME TypeOK, pc \in {"loop", "events"}, state \in States,
         NEW event \in RunEvents \cup {NoEvent}, runOnce(event),
         pc' \in {"loop", "events"}, UNCHANGED <<mailbox, ok, run>>
  PROVE  [Contract!Next]_(Contract!contract)
<1>1. phase = "running" /\ phase' = IF state' = NoState THEN "over" ELSE "running"
  <2>1. phase = "running"
    BY DEF phase
  <2>2. CASE state' = NoState
    BY <2>1, <2>2 DEF phase
  <2>3. CASE state' # NoState
    BY <2>1, <2>3 DEF phase
  <2> QED BY <2>1, <2>2, <2>3
<1>2. PreemptionIn(mailbox)' = PreemptionIn(mailbox)
  BY DEF PreemptionIn
<1>3. CASE state' = state /\ UNCHANGED <<new_state_, raced, finals>>
  BY <1>1, <1>2, <1>3 DEF Contract!contract
<1>4. CASE state' # state /\ setNewState /\ publishState(state')
  <2>1. CASE state' = NoState
    <3>1. Contract!Finish
      BY <1>1, <1>2, <1>4, <2>1 DEF Contract!Finish, Contract!Announce, setNewState,
                                    publishState
    <3> QED BY <3>1 DEF Contract!Next, Contract!Runner
  <2>2. CASE state' # NoState
    <3>1. state' \in States
      BY <2>2, RunOnceFacts
    <3>2. Contract!Move(state')
      BY <1>1, <1>2, <1>4, <2>2 DEF Contract!Move, setNewState, publishState
    <3> QED BY <3>1, <3>2 DEF Contract!Next, Contract!Runner
  <2> QED BY <2>1, <2>2
<1> QED
  BY <1>3, <1>4, RunOnceFacts

\* An event adds a preemption to the mailbox or changes nothing that matters.
LEMMA AddEventKeepsContract ==
  ASSUME TypeOK, NEW event \in RunEvents, addEvent(event)
  PROVE  [Contract!Next]_(Contract!contract)
<1> DEFINE m == [name |-> event, run |-> run]
<1>1. /\ mailbox' = Append(mailbox, m) /\ mailbox \in Seq(Messages) /\ m \in Messages
      /\ UNCHANGED <<pc, state, new_state_, ok, run, finals>>
  BY DEF addEvent, internal, TypeOK, Messages
<1>2. phase' = phase
  BY <1>1 DEF phase
<1>3. PreemptionIn(mailbox)' \in BOOLEAN /\ PreemptionIn(mailbox) \in BOOLEAN
  BY DEF PreemptionIn
<1>4. PreemptionIn(mailbox) => PreemptionIn(mailbox)'
  <2>1. \A e \in DOMAIN mailbox : e \in DOMAIN mailbox' /\ mailbox'[e] = mailbox[e]
    <3> HIDE DEF m
    <3> QED BY <1>1
  <2> QED BY <2>1 DEF PreemptionIn
<1>5. CASE PreemptionIn(mailbox)'
  <2>1. PreemptionIn(mailbox)' = TRUE
    BY <1>3, <1>5
  <2>2. Contract!Post
    BY <1>1, <1>2, <2>1 DEF Contract!Post
  <2> QED BY <2>2 DEF Contract!Next
<1>6. CASE ~ PreemptionIn(mailbox)'
  <2>1. PreemptionIn(mailbox)' = PreemptionIn(mailbox)
    BY <1>3, <1>4, <1>6
  <2> QED BY <1>1, <1>2, <2>1 DEF Contract!contract
<1> QED
  BY <1>5, <1>6

LEMMA RunnerKeepsContract ==
  ASSUME TypeOK, Runner
  PROVE  [Contract!Next]_(Contract!contract)
<1>0. PreemptionIn(<<>>) = FALSE
  BY DEF PreemptionIn
<1>1. CASE RunBegin
  <2>1. /\ PreemptionIn(mailbox)' = FALSE /\ phase = "begin" /\ UNCHANGED <<ok, run>>
    BY <1>0, <1>1 DEF RunBegin, PreemptionIn, phase
  <2>2. CASE End("dead_line") /\ pc' = "ended"
    <3>1. phase' = "ended"
      BY <2>2 DEF phase
    <3>2. Contract!DeadLine
      BY <2>1, <2>2, <3>1 DEF Contract!DeadLine, Contract!Announce, End, setNewState,
                              publishState
    <3> QED BY <3>2 DEF Contract!Next, Contract!Runner
  <2>3. CASE pc' = "loop" /\ UNCHANGED <<internal, new_state_, finals, raced>>
    <3>1. UNCHANGED <<state, new_state_, finals>>
      BY <2>3 DEF internal
    <3>2. phase' = IF state = NoState THEN "over" ELSE "running"
      BY <2>3, <3>1 DEF phase
    <3>3. Contract!Begin
      BY <2>1, <3>1, <3>2 DEF Contract!Begin
    <3> QED BY <3>3 DEF Contract!Next, Contract!Runner
  <2> QED BY <1>1, <2>2, <2>3 DEF RunBegin
<1>2. CASE LoopEnds
  <2>1. /\ UNCHANGED <<state, new_state_, finals, ok, run, mailbox>>
        /\ pc = "loop" /\ pc' = "exit" /\ (state = NoState \/ ~ ok)
    BY <1>2 DEF LoopEnds, internal
  <2>2. PreemptionIn(mailbox)' = PreemptionIn(mailbox) /\ phase' = "over"
    BY <2>1 DEF PreemptionIn, phase
  <2>3. CASE state = NoState
    <3>1. phase = "over"
      BY <2>1, <2>3 DEF phase
    <3> QED BY <2>1, <2>2, <3>1 DEF Contract!contract
  <2>4. CASE state # NoState
    <3>1. phase = "running"
      BY <2>1, <2>4 DEF phase
    <3>2. Contract!Abandon
      BY <2>1, <2>2, <2>4, <3>1 DEF Contract!Abandon
    <3>3. Contract!Obey
      BY <2>1, <2>4, <3>2 DEF Contract!Obey
    <3> QED BY <3>3 DEF Contract!Next, Contract!Runner
  <2> QED BY <2>3, <2>4
<1>3. CASE GlobalTimeout
  <2>1. phase = "running" /\ phase' = "over"
    BY <1>3 DEF GlobalTimeout, Iterates, phase
  <2>2. PreemptionIn(mailbox)' = PreemptionIn(mailbox) /\ UNCHANGED <<ok, run>>
    BY <1>3 DEF GlobalTimeout, PreemptionIn
  <2>3. Contract!Finish
    BY <1>3, <2>1, <2>2 DEF GlobalTimeout, End, setNewState, publishState,
                            Contract!Finish, Contract!Announce
  <2> QED BY <2>3 DEF Contract!Next, Contract!Runner
<1>4. CASE Preempt
  <2>1. phase = "running" /\ phase' = "over"
    BY <1>4 DEF Preempt, Iterates, phase
  <2>2. /\ PreemptionIn(mailbox) = TRUE /\ PreemptionIn(mailbox)' = FALSE
        /\ UNCHANGED <<ok, run>>
    BY <1>0, <1>4 DEF Preempt, PreemptionIn
  <2>3. Contract!Preempt
    BY <1>4, <2>1, <2>2 DEF Preempt, End, setNewState, publishState,
                            Contract!Preempt, Contract!Announce
  <2>4. Contract!Obey
    BY <2>2, <2>3 DEF Contract!Obey
  <2> QED BY <2>4 DEF Contract!Next, Contract!Runner
<1>5. CASE RunOnceNoEvent
  BY <1>5, IteratesInState, TurnKeepsContract DEF RunOnceNoEvent, Iterates
<1>6. CASE TakeEvents
  <2>1. /\ UNCHANGED <<state, new_state_, finals, ok, run>>
        /\ pc = "loop" /\ pc' = "events" /\ state # NoState
        /\ PreemptionIn(mailbox) = FALSE /\ PreemptionIn(mailbox)' = FALSE
    BY <1>0, <1>6 DEF TakeEvents, Iterates, internal, PreemptionIn
  <2>2. phase' = phase
    BY <2>1 DEF phase
  <2> QED BY <2>1, <2>2 DEF Contract!contract
<1>7. CASE HandleEvent
  BY <1>7, HeadEvent, TurnKeepsContract DEF HandleEvent
<1>8. CASE RunExit
  <2>1. phase = "over" /\ phase' = "ended"
    BY <1>8 DEF RunExit, phase
  <2>2. PreemptionIn(mailbox)' = PreemptionIn(mailbox) /\ UNCHANGED <<ok, run, finals>>
    BY <1>8 DEF RunExit, PreemptionIn
  <2>3. Contract!Exit
    BY <1>8, <2>1, <2>2 DEF RunExit, setNewState, Contract!Exit
  <2> QED BY <2>3 DEF Contract!Next, Contract!Runner
<1> QED
  BY <1>1, <1>2, <1>3, <1>4, <1>5, <1>6, <1>7, <1>8 DEF Runner

\* Every step of the runner is a step of its contract or a stutter.
LEMMA ContractStep ==
  ASSUME TypeOK, [Next]_vars
  PROVE  [Contract!Next]_(Contract!contract)
<1>1. CASE Runner
  BY <1>1, RunnerKeepsContract
<1>2. CASE MainJoin
  <2>1. phase = "ended" /\ phase' = "idle"
    BY <1>2 DEF MainJoin, phase
  <2>2. Contract!Join
    BY <1>2, <2>1 DEF MainJoin, internal, PreemptionIn, Contract!Join
  <2> QED BY <2>2 DEF Contract!Next
<1>3. CASE IsNewStateWrite
  <2>1. phase' = phase
    BY <1>3 DEF IsNewStateWrite, internal, phase
  <2>2. Contract!Seen
    BY <1>3, <2>1 DEF IsNewStateWrite, internal, PreemptionIn, Contract!Seen
  <2> QED BY <2>2 DEF Contract!Next
<1>4. CASE \/ MainTest \/ IsNewStateRead \/ SetStateMachineData \/ StoreStateData
           \/ CloneArtificialLife \/ Tick \/ UNCHANGED vars
  <2>1. UNCHANGED <<pc, state, new_state_, mailbox, ok, run, finals>>
    BY <1>4 DEF MainTest, IsNewStateRead, SetStateMachineData, StoreStateData,
                CloneArtificialLife, Tick, vars, internal
  <2> QED BY <2>1 DEF phase, PreemptionIn, Contract!contract
<1>5. CASE Shutdown
  <2>1. UNCHANGED <<pc, state, new_state_, mailbox, run, finals>> /\ ok' = FALSE
    BY <1>5 DEF Shutdown, internal
  <2>2. Contract!Shutdown
    BY <2>1 DEF phase, PreemptionIn, Contract!Shutdown
  <2> QED BY <2>2 DEF Contract!Next
<1>6. ASSUME NEW s \in Initials, NEW time_out \in TimeOuts, NEW dead_line \in DeadLines,
             setInitialState(s, time_out, dead_line)
      PROVE  [Contract!Next]_(Contract!contract)
  <2>1. s \in States \cup {NoState}
    BY StatesAssumption
  <2>2. phase = "idle" /\ phase' = "begin"
    BY <1>6 DEF setInitialState, phase
  <2>3. Contract!Start(s)
    BY <1>6, <2>2 DEF setInitialState, setNewState, PreemptionIn, Contract!Start
  <2> QED BY <2>1, <2>3 DEF Contract!Next
<1>7. ASSUME NEW event \in RunEvents, addEvent(event)
      PROVE  [Contract!Next]_(Contract!contract)
  BY <1>7, AddEventKeepsContract
<1> QED
  BY <1>1, <1>2, <1>3, <1>4, <1>5, <1>6, <1>7 DEF Next, Main

\* The runner implements the safety part of its contract: a run begins, moves, is
\* preempted, abandoned or finished, announces its end and exits as the resource
\* manager expects.
THEOREM ContractRefined ==
  Spec => Contract!Init /\ [][Contract!Next]_(Contract!contract)
<1>1. Init => Contract!Init
  BY DEF Init, Contract!Init, phase, PreemptionIn
<1>2. IInv /\ [Next]_vars => [Contract!Next]_(Contract!contract)
  BY ContractStep DEF IInv
<1> QED
  BY <1>1, <1>2, IInvHolds, PTL DEF Spec
=============================================================================
