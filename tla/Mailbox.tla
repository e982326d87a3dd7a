------------------------------- MODULE Mailbox -------------------------------
(***************************************************************************)
(* What the runner of a state machine expects of its events: every receipt *)
(* yields, in the order they were sent, exactly the events sent since the  *)
(* previous receipt.  No event is lost, repeated or overtaken.             *)
(***************************************************************************)
EXTENDS Naturals, Sequences

CONSTANTS
  Events,     \* the events that may be sent
  MaxEvents   \* bound on the number of events sent

VARIABLES
  sent,   \* every event sent so far
  taken,  \* how many of them have been received
  batch   \* the result of the last receipt

mailbox == <<sent, taken, batch>>

Init == sent = <<>> /\ taken = 0 /\ batch = <<>>

Send(e) ==
  /\ Len(sent) < MaxEvents
  /\ sent' = Append(sent, e)
  /\ UNCHANGED <<taken, batch>>

Receive ==
  /\ batch' = SubSeq(sent, taken + 1, Len(sent))
  /\ taken' = Len(sent)
  /\ UNCHANGED sent

Next == (\E e \in Events : Send(e)) \/ Receive

\* The receiver polls forever.
Spec == Init /\ [][Next]_mailbox /\ WF_mailbox(Receive)
=============================================================================
