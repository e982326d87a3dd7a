--------------------------- MODULE ReactiveBuffers ---------------------------
(***************************************************************************)
(* The arbitration between the buffers of a resource manager.              *)
(*                                                                         *)
(* A buffer holds at most one message.  The thread that runs the ROS       *)
(* callbacks ("spin") writes the reactive inputs and the focus of their    *)
(* buffers, the artificial life thread writes its own buffer, and the main *)
(* loop writes the buffer of the state machine, scans all the buffers for  *)
(* the one with the highest priority, publishes its message and makes it   *)
(* the active buffer.  Buffers have no lock: every read and write of a     *)
(* field is a step of its own here.                                        *)
(***************************************************************************)
EXTENDS Priorities

CONSTANTS
  NInputs,          \* number of reactive inputs
  SentImportances,  \* the importances a client gives its messages
  SetFocuses,       \* the focuses a client gives the buffers
  OutsideTable,     \* the bytes a lookup outside the table may return
  MaxWrites,        \* bound on the writes of all the threads
  NoData            \* a null message pointer

ASSUME NInputsAssumption == NInputs \in Nat
ASSUME SentAssumption == SentImportances \subseteq Importances
ASSUME FocusAssumption == SetFocuses \subseteq Focuses
ASSUME OutsideAssumption == OutsideTable \subseteq -128 .. 127
ASSUME MaxWritesAssumption == MaxWrites \in Nat
ASSUME NoDataAssumption == NoData \notin Importances

\* The buffers in the order of their names: "state_machine", the reactive
\* inputs as declared, "artificial_life".
SM == 1
AL == NInputs + 2
Buffers == 1 .. AL
ReactiveInputs == 2 .. NInputs + 1
None == 0

VARIABLES
  data,               \* importance of the message of each buffer, or NoData
  focus,              \* focus of each buffer
  has_been_published, \* flag of each buffer
  storing,            \* buffers whose setData stored data_ and not the flag yet
  pc,                 \* control of the main loop
  i,                  \* position of the scan of getMorePriority
  found, max_priority,\* its two local variables
  is_new,             \* argument computed for publish()
  active_buffer,      \* buffer the main loop publishes from
  writes,             \* number of writes so far
  dirty,              \* history: the buffers written since the scan began
  unseen,             \* history: the message was never published as new nor, if it
                      \* is of the artificial life, given to the state machine
  overlapped          \* history: its setData overlapped a publication of the buffer

mainVars == <<pc, i, found, max_priority, is_new, active_buffer>>
vars == <<data, focus, has_been_published, storing, mainVars, writes, dirty,
          unseen, overlapped>>

Init ==
  /\ data = [b \in Buffers |-> IF b = AL THEN low ELSE NoData]
  /\ focus = [b \in Buffers |-> IF b = SM THEN atomic ELSE background]
  /\ has_been_published = [b \in Buffers |-> b # AL]
  /\ storing = {}
  /\ pc = "begin"
  /\ i = 1
  /\ found = None
  /\ max_priority = NoPriority
  /\ is_new = FALSE
  /\ active_buffer = None
  /\ writes = 0
  /\ dirty = {}
  /\ unseen = [b \in Buffers |-> b = AL]
  /\ overlapped = [b \in Buffers |-> FALSE]
-----------------------------------------------------------------------------
(***************************************************************************)
(* What the arbitration promises.  A buffer competes when it holds a       *)
(* message, neither void nor in an inhibited buffer.  The winner has the   *)
(* highest priority and, among equals, comes first in the order of names.  *)
(***************************************************************************)
Competes(b) == data[b] # NoData /\ focus[b] >= 0 /\ data[b] >= 0

PriorityOf(b) == Priority(data[b], focus[b])

Beats(b, c) == \/ PriorityOf(b) > PriorityOf(c)
               \/ PriorityOf(b) = PriorityOf(c) /\ b <= c

IsWinner(b, among) ==
  \/ b = None /\ \A c \in among : ~ Competes(c)
  \/ /\ b \in among /\ Competes(b)
     /\ \A c \in among : Competes(c) => Beats(b, c)
-----------------------------------------------------------------------------
(***************************************************************************)
(* Writers.                                                                *)
(***************************************************************************)

\* The main loop is between its test of the flag of b and its call of
\* published() on b, or between the copy of the message of the artificial life
\* for the state machine and the call of published() that follows.
Publishing(b) == \/ found = b /\ pc \in {"publish", "mark"}
                 \/ b = AL /\ pc = "cloned"

\* The scan of getMorePriority is disturbed by a write of b.
Disturb(b) ==
  dirty' = IF pc \in {"scan", "compare"} THEN dirty \cup {b} ELSE dirty

\* First half of setData: the message is replaced.
StoreData(b, msg) ==
  /\ writes < MaxWrites
  /\ writes' = writes + 1
  /\ data' = [data EXCEPT ![b] = msg]
  /\ storing' = storing \cup {b}
  /\ unseen' = [unseen EXCEPT ![b] = msg # NoData]
  /\ overlapped' = [overlapped EXCEPT ![b] = Publishing(b)]
  /\ Disturb(b)
  /\ UNCHANGED <<focus, has_been_published>>

\* Second half of setData: the flag is cleared.
StoreFlag(b) ==
  /\ b \in storing
  /\ storing' = storing \ {b}
  /\ has_been_published' = [has_been_published EXCEPT ![b] = FALSE]
  /\ overlapped' = [overlapped EXCEPT ![b] = @ \/ Publishing(b)]
  /\ UNCHANGED <<data, focus, writes, dirty, unseen>>

\* _subscriberCallback: callbacks run one at a time, so a message is accepted
\* when the previous one has been stored.
_subscriberCallback(b, imp) ==
  /\ storing \cap ReactiveInputs = {}
  /\ StoreData(b, imp)
  /\ UNCHANGED mainVars

_subscriberCallbackEnd(b) == StoreFlag(b) /\ UNCHANGED mainVars

\* prioritiesCallback assigns the listed buffers one after the other: a step
\* is the assignment of one of them.
prioritiesCallback(b, foc) ==
  /\ storing \cap ReactiveInputs = {}
  /\ writes < MaxWrites
  /\ writes' = writes + 1
  /\ focus' = [focus EXCEPT ![b] = foc]
  /\ Disturb(b)
  /\ UNCHANGED <<data, has_been_published, storing, mainVars, unseen, overlapped>>

\* init() and inLoop() of an artificial life: a new message of low importance.
inLoop ==
  /\ AL \notin storing
  /\ StoreData(AL, low)
  /\ UNCHANGED mainVars

inLoopEnd == StoreFlag(AL) /\ UNCHANGED mainVars
-----------------------------------------------------------------------------
(***************************************************************************)
(* The main loop of ResourceManager::run, from setStateMachineData on.     *)
(***************************************************************************)

\* A new message (or none) in the buffer of the state machine.  Only the main
\* loop looks at that buffer: both halves of setData are one step.
SetStateMachineBuffer(msg) ==
  /\ data' = [data EXCEPT ![SM] = msg]
  /\ has_been_published' = [has_been_published EXCEPT ![SM] = FALSE]
  /\ overlapped' = [overlapped EXCEPT ![SM] = FALSE]

\* setStateMachineData leaves the buffer of the state machine alone, stores the
\* data of the current state (or none), or finds a wildcard state and a message
\* of the artificial life that was not published.
setStateMachineData ==
  /\ pc = "begin"
  /\ \/ /\ pc' = "scan"
        /\ UNCHANGED <<data, has_been_published, unseen, overlapped, writes>>
     \/ \E msg \in SentImportances \cup {NoData} :
          /\ pc' = "scan"
          /\ writes < MaxWrites
          /\ writes' = writes + 1
          /\ SetStateMachineBuffer(msg)
          /\ unseen' = [unseen EXCEPT ![SM] = msg # NoData]
     \/ /\ ~ has_been_published[AL]
        /\ writes < MaxWrites
        /\ writes' = writes + 1
        /\ pc' = "clone"
        /\ UNCHANGED <<data, has_been_published, unseen, overlapped>>
  /\ UNCHANGED <<focus, storing, i, found, max_priority, is_new, active_buffer, dirty>>

\* The message the artificial life holds by now is copied, with the importance of
\* the state, ...
CloneArtificialLife ==
  /\ pc = "clone"
  /\ pc' = "cloned"
  /\ \E imp \in SentImportances : SetStateMachineBuffer(imp)
  /\ unseen' = [unseen EXCEPT ![SM] = TRUE, ![AL] = FALSE]
  /\ UNCHANGED <<focus, storing, i, found, max_priority, is_new, active_buffer,
                 writes, dirty>>

\* Mutant: the copy is marked as published, instead of what it was made from.
MarkTheCopy ==
  /\ pc = "cloned"
  /\ pc' = "scan"
  /\ has_been_published' = [has_been_published EXCEPT ![SM] = TRUE]
  /\ UNCHANGED <<data, focus, storing, i, found, max_priority, is_new, active_buffer,
                 writes, dirty, unseen, overlapped>>

\* ... and _artificialLifeBuffer->published().
MarkCloned ==
  /\ pc = "cloned"
  /\ pc' = "scan"
  /\ has_been_published' = [has_been_published EXCEPT ![AL] = TRUE]
  /\ UNCHANGED <<data, focus, storing, i, found, max_priority, is_new, active_buffer,
                 writes, dirty, unseen, overlapped>>

\* getMorePriority tests the buffer at i ...
ScanTest ==
  /\ pc = "scan"
  /\ i <= AL
  /\ IF Competes(i) THEN pc' = "compare" /\ i' = i
                    ELSE pc' = "scan" /\ i' = i + 1
  /\ UNCHANGED <<data, focus, has_been_published, storing, found, max_priority,
                 is_new, active_buffer, writes, dirty, unseen, overlapped>>

\* ... then reads its message and its focus again.  When either has become -1
\* the lookup is out of the bounds of the table: it returns the byte that happens to be there.
LookedUp == IF Competes(i) THEN {PriorityOf(i)} ELSE OutsideTable

\* Mutants: the last of equals wins; the index is incremented twice.
ScanCompareLast ==
  /\ pc = "compare"
  /\ pc' = "scan"
  /\ i' = i + 1
  /\ \E tmp \in LookedUp :
       IF tmp >= max_priority
       THEN found' = i /\ max_priority' = tmp
       ELSE UNCHANGED <<found, max_priority>>
  /\ UNCHANGED <<data, focus, has_been_published, storing, is_new,
                 active_buffer, writes, dirty, unseen, overlapped>>

ScanCompareTwice ==
  /\ pc = "compare"
  /\ pc' = "scan"
  /\ i' = i + 2
  /\ \E tmp \in LookedUp :
       IF tmp > max_priority
       THEN found' = i /\ max_priority' = tmp
       ELSE UNCHANGED <<found, max_priority>>
  /\ UNCHANGED <<data, focus, has_been_published, storing, is_new,
                 active_buffer, writes, dirty, unseen, overlapped>>

ScanCompare ==
  /\ pc = "compare"
  /\ pc' = "scan"
  /\ i' = i + 1
  /\ \E tmp \in LookedUp :
       IF tmp > max_priority
       THEN found' = i /\ max_priority' = tmp
       ELSE UNCHANGED <<found, max_priority>>
  /\ UNCHANGED <<data, focus, has_been_published, storing, is_new,
                 active_buffer, writes, dirty, unseen, overlapped>>

\* The scan is over, and its local variables with it.  An empty result ends the
\* iteration; the message of another buffer than the active one is new, and one
\* whose flag is down.
TestFlag ==
  /\ pc = "scan"
  /\ i > AL
  /\ i' = 1
  /\ max_priority' = NoPriority
  /\ dirty' = {}
  /\ IF found = None
     THEN pc' = "begin" /\ is_new' = is_new
     ELSE /\ pc' = "publish"
          /\ is_new' = (found # active_buffer \/ ~ has_been_published[found])
  /\ UNCHANGED <<data, focus, has_been_published, storing, found, active_buffer,
                 writes, unseen, overlapped>>

\* buff->operator()()->publish(is_new), on the message the buffer holds now.
Publish ==
  /\ pc = "publish"
  /\ pc' = "mark"
  /\ unseen' = [unseen EXCEPT ![found] = @ /\ ~ is_new]
  /\ UNCHANGED <<data, focus, has_been_published, storing, i, found,
                 max_priority, is_new, active_buffer, writes, dirty, overlapped>>

\* Mutant: the first active buffer remains the active one.
MarkWithoutSwitch ==
  /\ pc = "mark"
  /\ pc' = "begin"
  /\ found' = None
  /\ is_new' = FALSE
  /\ has_been_published' = [has_been_published EXCEPT ![found] = TRUE]
  /\ active_buffer' = IF active_buffer = None THEN found ELSE active_buffer
  /\ UNCHANGED <<data, focus, storing, i, max_priority, writes, dirty, unseen,
                 overlapped>>

\* buff->published(), then the switch to another active buffer.
Mark ==
  /\ pc = "mark"
  /\ pc' = "begin"
  /\ found' = None
  /\ is_new' = FALSE
  /\ has_been_published' = [has_been_published EXCEPT ![found] = TRUE]
  /\ active_buffer' = found
  /\ UNCHANGED <<data, focus, storing, i, max_priority, writes, dirty, unseen,
                 overlapped>>

Main == \/ setStateMachineData \/ CloneArtificialLife \/ MarkCloned
        \/ ScanTest \/ ScanCompare \/ TestFlag \/ Publish \/ Mark

Spin == \E b \in ReactiveInputs :
          \/ \E imp \in SentImportances : _subscriberCallback(b, imp)
          \/ _subscriberCallbackEnd(b)
          \/ \E foc \in SetFocuses : prioritiesCallback(b, foc)

ArtificialLife == inLoop \/ inLoopEnd

Next == Main \/ Spin \/ ArtificialLife

\* The main loop never blocks and a setData that has begun ends; nothing obliges
\* a client to send a message.
Fairness ==
  /\ WF_vars(Main)
  /\ WF_vars(\E b \in ReactiveInputs : _subscriberCallbackEnd(b))
  /\ WF_vars(inLoopEnd)

Spec == Init /\ [][Next]_vars /\ Fairness
-----------------------------------------------------------------------------
(***************************************************************************)
(* Properties.                                                             *)
(***************************************************************************)

\* Type invariant.
TypeOK ==
  /\ data \in [Buffers -> Importances \cup {NoData}]
  /\ focus \in [Buffers -> Focuses]
  /\ has_been_published \in [Buffers -> BOOLEAN]
  /\ storing \subseteq Buffers \ {SM}
  /\ pc \in {"begin", "clone", "cloned", "scan", "compare", "publish", "mark"}
  /\ i \in 1 .. AL + 1
  /\ found \in Buffers \cup {None}
  /\ max_priority \in -128 .. 127
  /\ is_new \in BOOLEAN
  /\ active_buffer \in Buffers \cup {None}
  /\ writes \in 0 .. MaxWrites
  /\ dirty \subseteq Buffers
  /\ unseen \in [Buffers -> BOOLEAN]
  /\ overlapped \in [Buffers -> BOOLEAN]

ScanIsOver == pc = "scan" /\ i > AL

\* Whatever is written during a scan of getMorePriority, the buffer it returns
\* was itself written meanwhile, or it is the competing buffer of highest priority
\* among those that were not, the first declared among equals (none when none of
\* them competes): a write can change the election only in favour of its buffer.
ScanFindsWinner ==
  ScanIsOver => found \in dirty \/ IsWinner(found, Buffers \ dirty)

\* The order the tests of the led manager describe: a vital message preempts any
\* other (vitalPreemptsAny), short of it an atomic buffer wins over the others
\* (fullFocusPreempt), and among buffers that are not atomic the importance of
\* the message decides whatever the focuses (reactiveInputMsgImportancePreempt).
VitalPreemptsAny ==
  \A b \in Buffers : Competes(b) /\ data[b] = vital => data[found] = vital

FullFocusPreempts ==
  \A b \in Buffers :
    /\ Competes(b) /\ focus[b] = atomic
    /\ \A c \in Buffers : Competes(c) => data[c] < vital
    => focus[found] = atomic

ImportancePreempts ==
  \A b \in Buffers :
    Competes(b) /\ data[b] > data[found] => focus[found] = atomic

DocumentedOrder ==
  ScanIsOver /\ dirty = {} /\ found # None =>
    VitalPreemptsAny /\ FullFocusPreempts /\ ImportancePreempts

\* A message marked as published was published as new, or was given to the state
\* machine by the artificial life, unless its setData ran between the test of the
\* flag and the call of published() on its buffer, or between the copy of the
\* artificial life's message and published(): these two windows are the only ways
\* a message can be lost.
LostOnlyInTheWindow ==
  \A b \in Buffers :
    unseen[b] /\ has_been_published[b] => b \in storing \/ overlapped[b]

\* Once the clients are quiet, the main loop publishes from the winner, and has
\* published its message as new unless one of those windows got it.
ActiveSettles ==
  <>[](\A b \in Buffers : IsWinner(b, Buffers) =>
         active_buffer = b /\ (unseen[b] => overlapped[b]))
=============================================================================
