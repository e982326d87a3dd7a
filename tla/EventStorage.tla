----------------------------- MODULE EventStorage -----------------------------
(***************************************************************************)
(* The double fifo through which the services, the plugins and the main    *)
(* loop hand events to the thread that runs a state machine.  queue_choice *)
(* tells the fifo that receives; getEvents swaps the fifos, hands out a    *)
(* copy of the one that was receiving and empties it only at the next      *)
(* call.  mutex_ is held from the first to the last access of each         *)
(* operation, so an operation is one step.                                 *)
(***************************************************************************)
EXTENDS Naturals, Sequences

CONSTANTS Events, MaxEvents

ASSUME MaxEventsAssumption == MaxEvents \in Nat

VARIABLES
  fifo_1, fifo_2, queue_choice,
  batch,         \* the copy returned by the last getEvents
  sent, taken    \* history: all the events added, and how many were returned

vars == <<fifo_1, fifo_2, queue_choice, batch, sent, taken>>

Init ==
  /\ fifo_1 = <<>>
  /\ fifo_2 = <<>>
  /\ queue_choice = TRUE
  /\ batch = <<>>
  /\ sent = <<>>
  /\ taken = 0

\* Mutant: the event goes to the fifo handed out last.
addEventRetired(event) ==
  /\ Len(sent) < MaxEvents
  /\ IF queue_choice
     THEN fifo_2' = Append(fifo_2, event) /\ UNCHANGED fifo_1
     ELSE fifo_1' = Append(fifo_1, event) /\ UNCHANGED fifo_2
  /\ sent' = Append(sent, event)
  /\ UNCHANGED <<queue_choice, batch, taken>>

addEvent(event) ==
  /\ Len(sent) < MaxEvents
  /\ IF queue_choice
     THEN fifo_1' = Append(fifo_1, event) /\ UNCHANGED fifo_2
     ELSE fifo_2' = Append(fifo_2, event) /\ UNCHANGED fifo_1
  /\ sent' = Append(sent, event)
  /\ UNCHANGED <<queue_choice, batch, taken>>

\* Mutant: the fifo that will receive is not emptied.
getEventsFull ==
  /\ batch' = IF queue_choice THEN fifo_1 ELSE fifo_2
  /\ queue_choice' = ~ queue_choice
  /\ taken' = taken + Len(batch')
  /\ UNCHANGED <<fifo_1, fifo_2, sent>>

getEvents ==
  /\ IF queue_choice
     THEN fifo_2' = <<>> /\ batch' = fifo_1 /\ UNCHANGED fifo_1
     ELSE fifo_1' = <<>> /\ batch' = fifo_2 /\ UNCHANGED fifo_2
  /\ queue_choice' = ~ queue_choice
  /\ taken' = taken + Len(batch')
  /\ UNCHANGED sent

Next == (\E event \in Events : addEvent(event)) \/ getEvents

\* The loop of the runner calls getEvents at every iteration.
Spec == Init /\ [][Next]_vars /\ WF_vars(getEvents)
-----------------------------------------------------------------------------
(***************************************************************************)
(* Properties.                                                             *)
(***************************************************************************)

receiving == IF queue_choice THEN fifo_1 ELSE fifo_2
retired == IF queue_choice THEN fifo_2 ELSE fifo_1

\* Type invariant.
TypeOK ==
  /\ fifo_1 \in Seq(Events)
  /\ fifo_2 \in Seq(Events)
  /\ queue_choice \in BOOLEAN
  /\ batch \in Seq(Events)
  /\ sent \in Seq(Events)
  /\ taken \in 0 .. MaxEvents

\* The receiving fifo holds the events not handed out yet, in order, and the
\* other one still holds the batch handed out last: the swap of getEvents loses
\* nothing only because that one is emptied before it receives again.
FifosHoldTheRest ==
  /\ receiving = SubSeq(sent, taken + 1, Len(sent))
  /\ retired = batch

\* The double fifo is a mailbox.
Abstract == INSTANCE Mailbox
ImplementsMailbox == Abstract!Spec
=============================================================================
