------------------------- MODULE StateMachineRunner -------------------------
(***************************************************************************)
(* The thread that runs a state machine.                                   *)
(*                                                                         *)
(* The main loop of the resource manager starts a run, joins it, and asks  *)
(* at every iteration whether the state is a new one, to show its data.    *)
(* Every thread adds events, the preemption among them; the thread of the  *)
(* run takes them all at once at every iteration, under the lock of the    *)
(* internal state, and hands them one by one to the current state.         *)
(* new_state_ has no lock: isNewState is two steps.                        *)
(***************************************************************************)
EXTENDS Naturals, Sequences

CONSTANTS
  States,       \* the states of the machine
  Wildcards,    \* those whose name begins with '_'
  NoState,      \* a null pointer to a state
  Transitions,  \* the transitions of each state, in the order of the message
  Initials,     \* the initial states a client may ask for, NoState when unknown
  TimeOuts,     \* the timeouts of the machines, Never for none
  DeadLines,    \* the begin deadlines of the machines, 0 for none
  Never,        \* a duration of -1
  Events,       \* the events other than preamted
  preamted,     \* "__preamted__"
  NoEvent,      \* the empty string
  MaxRuns, MaxEvents, MaxTime   \* bounds on the runs, the events and the clock

RunEvents == Events \cup {preamted}

\* A regular expression is the set of the events it matches; synchro tells that
\* one of them begins with "__synchro__".
ASSUME TransitionsAssumption ==
  /\ DOMAIN Transitions = States
  /\ \A s \in States :
       Transitions[s] \in Seq([regexs : Seq(SUBSET RunEvents),
                               duration : Nat \cup {Never}, time_out : Nat \cup {Never},
                               synchro : BOOLEAN, next : States])
ASSUME StatesAssumption ==
  /\ NoState \notin States /\ Initials \subseteq States \cup {NoState}
  /\ Wildcards \subseteq States
ASSUME EventsAssumption == preamted \notin Events /\ NoEvent \notin RunEvents
ASSUME TimesAssumption ==
  Never \notin Nat /\ TimeOuts \subseteq Nat \cup {Never} /\ DeadLines \subseteq Nat
ASSUME BoundsAssumption == MaxRuns \in Nat /\ MaxEvents \in Nat /\ MaxTime \in Nat

VARIABLES
  state, transition,         \* internal_state_
  new_state_,
  time_out_, begin_dead_line_,
  start_time, entered,       \* when the run and its state began
  validated,                 \* regexs_validation_ of the transitions of each state
  mailbox,                   \* the events not taken, each with the run it was added in
  pc, batch,                 \* control of run() and the events of its iteration
  main, res,                 \* control of the main loop, and the result of isNewState
  shown,                     \* the state whose data the main loop has stored, if any
  now, ok,                   \* clock and ros::ok()
  run, sent,                 \* history: number of runs and of events
  finals,                    \* history: how many times each run announced its end
  proper,                    \* history: the runs that began in a known state
  heard,                     \* history: the events given to each state in the run
  raced                      \* history: the state was entered inside of an isNewState
                             \* that answers no

internal == <<state, transition>>
clocks == <<time_out_, begin_dead_line_, start_time, entered>>
mainVars == <<main, res, shown>>
vars == <<internal, new_state_, clocks, validated, mailbox, pc, batch, mainVars, now,
          ok, run, sent, finals, proper, heard, raced>>

NoneValidated == [s \in States |-> [k \in DOMAIN Transitions[s] |-> {}]]

Init ==
  /\ state = NoState /\ transition = "none"
  /\ new_state_ = FALSE
  /\ time_out_ = Never /\ begin_dead_line_ = 0
  /\ start_time = 0 /\ entered = 0
  /\ validated = NoneValidated
  /\ mailbox = <<>>
  /\ pc = "idle" /\ batch = <<>>
  /\ main = "loop" /\ res = FALSE /\ shown = NoState
  /\ now = 1 /\ ok = TRUE
  /\ run = 0 /\ sent = 0
  /\ finals = [r \in 1 .. MaxRuns |-> 0]
  /\ proper = {}
  /\ heard = [s \in States |-> {}]
  /\ raced = FALSE

\* internal_state_mutex_ is free.
Unlocked == pc # "events"
-----------------------------------------------------------------------------
(***************************************************************************)
(* The transitions.                                                        *)
(***************************************************************************)

endState(s) == Transitions[s] = <<>>

Reached(bound, elapsed) == bound # Never /\ elapsed >= bound

\* The regular expressions of transition k of the state validated so far.
Validated(k, event) ==
  validated[state][k] \cup
    {r \in DOMAIN Transitions[state][k].regexs : event \in Transitions[state][k].regexs[r]}

\* Mutant: one of the regular expressions is enough.
evaluateAny(k, event) ==
  LET t == Transitions[state][k] IN
  IF Reached(t.time_out, now - entered) THEN "timeout"
  ELSE IF Reached(t.duration, now - entered) THEN "pass_on_duration"
  ELSE IF event # NoEvent /\ Validated(k, event) # {} THEN "pass_on_event"
  ELSE "wait"

\* evaluate() of transition k of the current state.
evaluate(k, event) ==
  LET t == Transitions[state][k] IN
  IF Reached(t.time_out, now - entered) THEN "timeout"
  ELSE IF Reached(t.duration, now - entered) THEN "pass_on_duration"
  ELSE IF /\ event # NoEvent
          /\ t.regexs # <<>>
          /\ Validated(k, event) = DOMAIN t.regexs
       THEN "pass_on_event"
  ELSE "wait"

\* The loop of update() ends at the first transition that does not wait.
Decides(k, event) ==
  /\ evaluate(k, event) # "wait"
  /\ \A j \in 1 .. k - 1 : evaluate(j, event) = "wait"

Evaluated(k, event) == \A j \in 1 .. k - 1 : evaluate(j, event) = "wait"

Target(s) == IF endState(s) THEN NoState ELSE s

Waiting(s) ==
  IF \E k \in DOMAIN Transitions[s] : Transitions[s][k].synchro
  THEN "wait_synchro" ELSE "wait"

\* What update() makes of the event: the next state and the kind of transition.
Outcomes(event) ==
  IF endState(state) THEN {<<NoState, "none">>}
  ELSE LET deciding == {k \in DOMAIN Transitions[state] : Decides(k, event)} IN
       IF deciding = {} THEN {<<state, Waiting(state)>>}
       ELSE {<<IF evaluate(k, event) = "timeout"
               THEN NoState ELSE Target(Transitions[state][k].next),
               evaluate(k, event)>> : k \in deciding}

\* The regular expressions of the transitions that update() came to evaluate.
ValidatedBy(event) ==
  [k \in DOMAIN Transitions[state] |->
     IF event # NoEvent /\ Evaluated(k, event)
          /\ evaluate(k, event) \in {"wait", "pass_on_event"}
     THEN Validated(k, event) ELSE validated[state][k]]
-----------------------------------------------------------------------------
(***************************************************************************)
(* Publications and changes of the state.                                  *)
(***************************************************************************)

\* publishState_: only the announcement of an end is recorded.
publishState(s) ==
  finals' = IF s = NoState THEN [finals EXCEPT ![run] = @ + 1] ELSE finals

setNewState ==
  /\ new_state_' = TRUE
  /\ raced' = (main = "write" /\ ~ res)

End(why) ==
  /\ state' = NoState
  /\ transition' = why
  /\ setNewState
  /\ publishState(NoState)

\* runOnceNoEvent and the body of runOnceWithEvents: the event is given to the
\* current state, and a change of state or of its condition is published.
runOnce(event) ==
  /\ \E outcome \in Outcomes(event) :
       LET next == outcome[1] IN
       /\ state' = next
       /\ transition' = outcome[2]
       /\ IF next # state
          THEN /\ setNewState
               /\ publishState(next)
               /\ entered' = IF next = NoState THEN entered ELSE now
          ELSE UNCHANGED <<new_state_, raced, finals, entered>>
  /\ validated' = [validated EXCEPT ![state] = ValidatedBy(event)]
  /\ heard' = [heard EXCEPT ![state] = IF event = NoEvent THEN @ ELSE @ \cup {event}]
-----------------------------------------------------------------------------
(***************************************************************************)
(* The thread of the run.                                                  *)
(***************************************************************************)

\* Mutant: the events added before are kept.
RunBeginKeepsEvents ==
  /\ pc = "begin"
  /\ entered' = IF state = NoState THEN entered ELSE now
  /\ start_time' = now
  /\ IF begin_dead_line_ # 0 /\ begin_dead_line_ < now
     THEN pc' = "ended" /\ End("dead_line")
     ELSE pc' = "loop" /\ UNCHANGED <<internal, new_state_, finals, raced>>
  /\ UNCHANGED <<time_out_, begin_dead_line_, validated, mailbox, batch, mainVars, now, ok,
                 run, sent, heard, proper>>

\* startState() of the initial state, then getEvents() drops what was added before
\* and the begin deadline is tested.
RunBegin ==
  /\ pc = "begin"
  /\ entered' = IF state = NoState THEN entered ELSE now
  /\ mailbox' = <<>>
  /\ start_time' = now
  /\ IF begin_dead_line_ # 0 /\ begin_dead_line_ < now
     THEN pc' = "ended" /\ End("dead_line")
     ELSE pc' = "loop" /\ UNCHANGED <<internal, new_state_, finals, raced>>
  /\ UNCHANGED <<time_out_, begin_dead_line_, validated, batch, mainVars, now, ok, run,
                 sent, heard, proper>>

\* while((state != nullptr) && ros::ok()) ends.
LoopEnds ==
  /\ pc = "loop"
  /\ state = NoState \/ ~ ok
  /\ pc' = "exit"
  /\ UNCHANGED <<internal, new_state_, clocks, validated, mailbox, batch, mainVars, now,
                 ok, run, sent, finals, heard, raced, proper>>

Iterates == pc = "loop" /\ state # NoState /\ ok

TimedOut == Reached(time_out_, now - start_time)

GlobalTimeout ==
  /\ Iterates
  /\ TimedOut
  /\ pc' = "exit"
  /\ End("global_timeout")
  /\ UNCHANGED <<clocks, validated, mailbox, batch, mainVars, now, ok, run, sent, heard,
                 proper>>

PreemptionIn(events) == \E e \in DOMAIN events : events[e].name = preamted

\* Mutant: the preemption is announced, but the loop goes on.
PreemptGoesOn ==
  /\ Iterates
  /\ ~ TimedOut
  /\ PreemptionIn(mailbox)
  /\ mailbox' = <<>>
  /\ transition' = "preampt"
  /\ publishState(NoState)
  /\ UNCHANGED <<state, new_state_, raced, clocks, validated, pc, batch, mainVars, now, ok,
                 run, sent, heard, proper>>

\* Mutant: the end of a preempted machine is not announced.
PreemptSilently ==
  /\ Iterates
  /\ ~ TimedOut
  /\ PreemptionIn(mailbox)
  /\ mailbox' = <<>>
  /\ pc' = "exit"
  /\ UNCHANGED <<internal, new_state_, raced, clocks, validated, batch, mainVars, now, ok,
                 run, sent, finals, heard, proper>>

Preempt ==
  /\ Iterates
  /\ ~ TimedOut
  /\ PreemptionIn(mailbox)
  /\ mailbox' = <<>>
  /\ pc' = "exit"
  /\ End("preampt")
  /\ UNCHANGED <<clocks, validated, batch, mainVars, now, ok, run, sent, heard, proper>>

RunOnceNoEvent ==
  /\ Iterates
  /\ ~ TimedOut
  /\ mailbox = <<>>
  /\ runOnce(NoEvent)
  /\ UNCHANGED <<time_out_, begin_dead_line_, start_time, mailbox, pc, batch, mainVars,
                 now, ok, run, sent, proper>>

TakeEvents ==
  /\ Iterates
  /\ ~ TimedOut
  /\ mailbox # <<>>
  /\ ~ PreemptionIn(mailbox)
  /\ batch' = mailbox
  /\ mailbox' = <<>>
  /\ pc' = "events"
  /\ UNCHANGED <<internal, new_state_, clocks, validated, mainVars, now, ok, run, sent,
                 finals, heard, raced, proper>>

\* Mutant: the events that follow the end of the machine are handed to it.
HandleEventAfterEnd ==
  /\ pc = "events"
  /\ runOnce(Head(batch).name)
  /\ batch' = Tail(batch)
  /\ pc' = IF Tail(batch) = <<>> THEN "loop" ELSE "events"
  /\ UNCHANGED <<time_out_, begin_dead_line_, start_time, mailbox, mainVars, now, ok, run,
                 sent, proper>>

\* One turn of runOnceWithEvents: what follows the end of the machine is dropped.
HandleEvent ==
  /\ pc = "events"
  /\ runOnce(Head(batch).name)
  /\ IF Tail(batch) = <<>> \/ state' = NoState
     THEN batch' = <<>> /\ pc' = "loop"
     ELSE batch' = Tail(batch) /\ pc' = "events"
  /\ UNCHANGED <<time_out_, begin_dead_line_, start_time, mailbox, mainVars, now, ok, run,
                 sent, proper>>

\* Mutant: every exit is announced.
RunExitAnnounces ==
  /\ pc = "exit"
  /\ pc' = "ended"
  /\ End("none")
  /\ UNCHANGED <<clocks, validated, mailbox, batch, mainVars, now, ok, run, sent, heard,
                 proper>>

RunExit ==
  /\ pc = "exit"
  /\ pc' = "ended"
  /\ state' = NoState
  /\ transition' = "none"
  /\ setNewState
  /\ UNCHANGED <<clocks, validated, mailbox, batch, mainVars, now, ok, run, sent, finals,
                 heard, proper>>

Runner == RunBegin \/ LoopEnds \/ GlobalTimeout \/ Preempt \/ RunOnceNoEvent
            \/ TakeEvents \/ HandleEvent \/ RunExit
-----------------------------------------------------------------------------
(***************************************************************************)
(* The main loop of the resource manager, as far as it uses the runner.    *)
(***************************************************************************)

\* Mutant: the initial state is not a new one.
setInitialStateUnseen(s, time_out, dead_line) ==
  /\ main = "loop" /\ pc = "idle"
  /\ run < MaxRuns
  /\ run' = run + 1
  /\ proper' = IF s = NoState THEN proper ELSE proper \cup {run'}
  /\ state' = s
  /\ transition' = "none"
  /\ time_out_' = time_out
  /\ begin_dead_line_' = dead_line
  /\ validated' = NoneValidated
  /\ heard' = [x \in States |-> {}]
  /\ pc' = "begin"
  /\ UNCHANGED <<new_state_, raced, start_time, entered, mailbox, batch, mainVars, now, ok,
                 sent, finals>>

\* setInitialState, setTimeout, setDeadLine of a machine just popped, and its thread.
setInitialState(s, time_out, dead_line) ==
  /\ main = "loop" /\ pc = "idle"
  /\ run < MaxRuns
  /\ run' = run + 1
  /\ proper' = IF s = NoState THEN proper ELSE proper \cup {run'}
  /\ state' = s
  /\ transition' = "none"
  /\ setNewState
  /\ time_out_' = time_out
  /\ begin_dead_line_' = dead_line
  /\ validated' = NoneValidated
  /\ heard' = [x \in States |-> {}]
  /\ pc' = "begin"
  /\ UNCHANGED <<start_time, entered, mailbox, batch, mainVars, now, ok, sent, finals>>

\* runing() answers no: the thread is joined; otherwise the iteration goes on.
MainTest ==
  /\ main = "loop"
  /\ Unlocked
  /\ main' = IF pc # "idle" /\ state = NoState THEN "join" ELSE "read"
  /\ UNCHANGED <<internal, new_state_, clocks, validated, mailbox, pc, batch, res, shown,
                 now, ok, run, sent, finals, heard, raced, proper>>

MainJoin ==
  /\ main = "join"
  /\ pc = "ended"
  /\ pc' = "idle"
  /\ main' = "loop"
  /\ UNCHANGED <<internal, new_state_, clocks, validated, mailbox, batch, res, shown, now,
                 ok, run, sent, finals, heard, raced, proper>>

\* isNewState(): bool res = new_state_; ...
IsNewStateRead ==
  /\ main = "read"
  /\ main' = "write"
  /\ res' = new_state_
  /\ UNCHANGED <<internal, new_state_, clocks, validated, mailbox, pc, batch, shown, now,
                 ok, run, sent, finals, heard, raced, proper>>

\* ... new_state_ = false.
IsNewStateWrite ==
  /\ main = "write"
  /\ main' = "show"
  /\ new_state_' = FALSE
  /\ UNCHANGED <<internal, clocks, validated, mailbox, pc, batch, res, shown, now, ok,
                 run, sent, finals, heard, raced, proper>>

\* setStateMachineData: no data without a machine, the data of the artificial life, if
\* it has some that was not published, in a wildcard state, and the data of the state
\* when it is a new one in any other.
SetStateMachineData ==
  /\ main = "show"
  /\ Unlocked
  /\ \/ /\ pc = "idle"
        /\ main' = "loop" /\ shown' = NoState
     \/ /\ pc # "idle" /\ state \in Wildcards
        /\ main' \in {"loop", "clone"}
        /\ UNCHANGED shown
     \/ /\ pc # "idle" /\ state \notin Wildcards
        /\ main' = IF res THEN "store" ELSE "loop"
        /\ UNCHANGED shown
  /\ UNCHANGED <<internal, new_state_, clocks, validated, mailbox, pc, batch, res, now,
                 ok, run, sent, finals, heard, raced, proper>>

\* The state is asked for again, and the data of that one is stored.
StoreStateData ==
  /\ main = "store"
  /\ Unlocked
  /\ main' = "loop"
  /\ shown' = state
  /\ raced' = FALSE
  /\ UNCHANGED <<internal, new_state_, clocks, validated, mailbox, pc, batch, res, now,
                 ok, run, sent, finals, heard, proper>>

\* So it is for the importance of the data of the artificial life: of a machine that is
\* over there is none, and the null pointer is followed.
CloneArtificialLife ==
  /\ main = "clone"
  /\ Unlocked
  /\ IF state = NoState THEN main' = "crashed" /\ UNCHANGED shown
                        ELSE main' = "loop" /\ shown' = NoState
  /\ UNCHANGED <<internal, new_state_, clocks, validated, mailbox, pc, batch, res, now,
                 ok, run, sent, finals, heard, raced, proper>>

Main == \/ MainTest \/ MainJoin \/ IsNewStateRead \/ IsNewStateWrite
        \/ SetStateMachineData \/ StoreStateData \/ CloneArtificialLife

\* The process has not crashed.
Alive == main # "crashed"
-----------------------------------------------------------------------------
\* Any thread adds an event, whether a machine runs or not.
addEvent(event) ==
  /\ sent < MaxEvents
  /\ sent' = sent + 1
  /\ mailbox' = Append(mailbox, [name |-> event, run |-> run])
  /\ UNCHANGED <<internal, new_state_, clocks, validated, pc, batch, mainVars, now, ok,
                 run, finals, heard, raced, proper>>

Tick ==
  /\ now < MaxTime
  /\ now' = now + 1
  /\ UNCHANGED <<internal, new_state_, clocks, validated, mailbox, pc, batch, mainVars,
                 ok, run, sent, finals, heard, raced, proper>>

Shutdown ==
  /\ ok
  /\ ok' = FALSE
  /\ UNCHANGED <<internal, new_state_, clocks, validated, mailbox, pc, batch, mainVars,
                 now, run, sent, finals, heard, raced, proper>>

Next ==
  /\ Alive
  /\ \/ Runner \/ Main \/ Tick \/ Shutdown
     \/ \E s \in Initials, time_out \in TimeOuts, dead_line \in DeadLines :
          setInitialState(s, time_out, dead_line)
     \/ \E event \in RunEvents : addEvent(event)

\* Both loops poll without end, and none of their steps blocks but for the lock of
\* the internal state, which the run gives back, and for the join.
Fairness == WF_vars(Alive /\ Runner) /\ WF_vars(Main)

Spec == Init /\ [][Next]_vars /\ Fairness
-----------------------------------------------------------------------------
(***************************************************************************)
(* Properties.                                                             *)
(***************************************************************************)

Messages == [name : RunEvents, run : 0 .. MaxRuns]

\* Type invariant.
TypeOK ==
  /\ state \in States \cup {NoState}
  /\ transition \in {"pass_on_event", "pass_on_duration", "timeout", "wait", "wait_synchro",
                     "global_timeout", "preampt", "dead_line", "none"}
  /\ new_state_ \in BOOLEAN
  /\ time_out_ \in Nat \cup {Never} /\ begin_dead_line_ \in Nat
  /\ start_time \in 0 .. now /\ entered \in 0 .. now
  /\ DOMAIN validated = States
  /\ \A s \in States :
       /\ DOMAIN validated[s] = DOMAIN Transitions[s]
       /\ \A k \in DOMAIN Transitions[s] :
            validated[s][k] \subseteq DOMAIN Transitions[s][k].regexs
  /\ mailbox \in Seq(Messages) /\ batch \in Seq(Messages)
  /\ pc \in {"idle", "begin", "loop", "events", "exit", "ended"}
  /\ pc = "events" => batch # <<>> /\ state # NoState
  /\ main \in {"loop", "join", "read", "write", "show", "store", "clone", "crashed"}
  /\ res \in BOOLEAN /\ shown \in States \cup {NoState}
  /\ now \in Nat /\ ok \in BOOLEAN
  /\ run \in 0 .. MaxRuns /\ sent \in 0 .. MaxEvents
  /\ finals \in [1 .. MaxRuns -> Nat] /\ proper \subseteq 1 .. MaxRuns
  /\ heard \in [States -> SUBSET RunEvents]
  /\ raced \in BOOLEAN

\* A client that waits for the result of its machine learns of its end once: the end
\* of a run is announced at most once and, unless the node is shut down, has been
\* when its thread is joined, provided the machine had a known initial state.
OneFinalStatus ==
  \A r \in 1 .. run :
    /\ finals[r] <= 1
    /\ r \in proper /\ ok /\ (r < run \/ pc \in {"idle", "ended"}) => finals[r] = 1

\* No event added before a run began, the preemption of an earlier machine above
\* all, ever reaches the machine of that run.
StaleNeverActs ==
  pc \in {"loop", "events"} =>
    /\ \A e \in DOMAIN mailbox : mailbox[e].run = run
    /\ \A e \in DOMAIN batch : batch[e].run = run

\* The main loop has stored the data of the current state, is about to, or will be
\* told to: a state escapes it only when it was entered between the two accesses of
\* an isNewState that answered no.  Nothing of a wildcard state is to be stored: its
\* data is the artificial life's, and isNewState is asked in vain.
NewStateIsShown ==
  pc # "idle" /\ state \notin Wildcards /\ state # shown =>
    new_state_ \/ (res /\ main \in {"write", "show", "store"}) \/ raced

\* A state is left on events only towards the target of a transition each of whose
\* regular expressions matched an event given to that state during the run.
LeftWhenHeard ==
  [][transition' = "pass_on_event" /\ state' # state =>
       \E k \in DOMAIN Transitions[state] :
         LET t == Transitions[state][k] IN
         /\ Target(t.next) = state'
         /\ t.regexs # <<>>
         /\ \A r \in DOMAIN t.regexs : t.regexs[r] \cap heard'[state] # {}]_vars

\* A run that must end does: preempted once it has begun, past its timeout, shut down
\* or without a state, whatever its machine and the other events.
MustEnd ==
  /\ pc \in {"loop", "events"}
  /\ PreemptionIn(mailbox) \/ TimedOut \/ ~ ok \/ state = NoState
RunEnds == MustEnd ~> pc \in {"ended", "idle"}

\* The runner keeps the contract on which the resource manager relies.
phase ==
  CASE pc \in {"idle", "begin", "ended"} -> pc
    [] pc \in {"loop", "events"} /\ state # NoState -> "running"
    [] OTHER -> "over"
Contract == INSTANCE RunContract WITH preempted <- PreemptionIn(mailbox)
ImplementsContract == Contract!Spec
=============================================================================
