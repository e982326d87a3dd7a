------------------------- MODULE StateMachineClient -------------------------
(***************************************************************************)
(* A client of a manager: the thread of the application sends machines,    *)
(* waits for their end and cancels them; a thread of the client receives   *)
(* the statuses of all the machines of the manager and keeps the state of  *)
(* the one sent last.  Nothing protects what the two threads share.        *)
(*                                                                         *)
(* StateMachineClient and MetaStateMachineClient follow the same protocol: *)
(* of the state they keep, waitForResult only tests whether it is the one  *)
(* of a machine that is over, an empty name for the first, end() for the   *)
(* second.  They differ in what it says before any machine is sent.        *)
(***************************************************************************)
EXTENDS Integers, Sequences

CONSTANTS
  NoId,          \* the id before any machine is sent
  None,          \* no status
  MaxMachines,   \* bound on the machines registered
  MaxStatuses    \* bound on the statuses on their way that announce no end

Ids == 0 .. MaxMachines - 1

ASSUME NoIdAssumption == NoId \notin Nat
ASSUME NoneAssumption == None \notin [id : Ids, final : BOOLEAN]
ASSUME BoundsAssumption == MaxMachines \in Nat /\ MaxStatuses \in Nat

VARIABLES
  main,      \* where the thread of the application is
  id_, ended,  \* the id kept, and whether the state kept is an end
  answer,    \* the id the service has answered to send()
  spinning, pending,  \* the other thread, and the status it is about to keep
  machines,  \* what has become of every machine registered at the manager
  channel,   \* the statuses on their way to the client
  stale,     \* history: a status of an earlier machine was about to be kept ...
  missed     \* ... or the end of this one had already been heard, at the end of send()

client == <<main, id_, ended, answer>>
thread == <<spinning, pending>>
server == <<machines, channel>>
vars == <<client, thread, server, stale, missed>>

Init ==
  /\ main = "idle"
  /\ id_ = NoId /\ answer = NoId
  /\ ended \in BOOLEAN  \* TRUE for the first client, FALSE for the second
  /\ spinning = TRUE /\ pending = None
  /\ machines = <<>> /\ channel = <<>>
  /\ stale = FALSE /\ missed = FALSE
-----------------------------------------------------------------------------
(***************************************************************************)
(* The manager.  The ids are given in the order of the registrations.      *)
(***************************************************************************)
What(i) == machines[i + 1]
Registered == {i \in Ids : i < Len(machines)}
Ending(i) == [id |-> i, final |-> TRUE]
InChannel(m) == \E k \in DOMAIN channel : channel[k] = m

Register == machines' = Append(machines, "waiting")

OtherRegisters ==
  /\ Len(machines) < MaxMachines
  /\ Register
  /\ UNCHANGED <<client, thread, channel, stale, missed>>

Start(i) ==
  /\ What(i) = "waiting"
  /\ \A j \in Registered : What(j) # "running"
  /\ machines' = [machines EXCEPT ![i + 1] = "running"]
  /\ UNCHANGED <<client, thread, channel, stale, missed>>

Publish(i) ==
  /\ What(i) = "running"
  /\ Len(channel) < MaxStatuses
  /\ channel' = Append(channel, [id |-> i, final |-> FALSE])
  /\ UNCHANGED <<client, thread, machines, stale, missed>>

\* A machine that runs ends; one that waits is dropped once it is too late.
End(i) ==
  /\ What(i) \in {"running", "waiting"}
  /\ machines' = [machines EXCEPT ![i + 1] = "over"]
  /\ channel' = Append(channel, Ending(i))
  /\ UNCHANGED <<client, thread, stale, missed>>

\* remove(): the machines that wait with a larger id are erased, without a status.
Remove(i) ==
  machines' = [k \in DOMAIN machines |->
                 IF machines[k] = "waiting" /\ k - 1 > i THEN "erased" ELSE machines[k]]

OtherCancels(i) ==
  /\ Remove(i)
  /\ UNCHANGED <<client, thread, channel, stale, missed>>
-----------------------------------------------------------------------------
(***************************************************************************)
(* The thread of the application.                                          *)
(***************************************************************************)
\* send(): the service has registered the machine ...
send ==
  /\ main = "idle"
  /\ Len(machines) < MaxMachines
  /\ answer' = Len(machines)
  /\ Register
  /\ main' = "answered"
  /\ UNCHANGED <<id_, ended, thread, channel, stale, missed>>

\* ... its id is kept ...
KeepId ==
  /\ main = "answered"
  /\ id_' = answer
  /\ main' = "known"
  /\ UNCHANGED <<ended, answer, thread, server, stale, missed>>

HeardEnd(i) == What(i) = "over" /\ ~ InChannel(Ending(i)) /\ pending # Ending(i)

\* ... and only then the state is reset, to one that is no end.
ResetState ==
  /\ main = "known"
  /\ ended' = FALSE
  /\ main' = "idle"
  /\ stale' = (pending # None /\ pending.id # id_)
  /\ missed' = HeardEnd(id_)
  /\ UNCHANGED <<id_, answer, thread, server>>

\* Mutant: the state is reset before the wait.
waitForResultAfterReset ==
  /\ main = "idle"
  /\ main' = "waiting" /\ ended' = FALSE
  /\ UNCHANGED <<id_, answer, thread, server, stale, missed>>

waitForResult ==
  /\ main = "idle"
  /\ main' = "waiting"
  /\ UNCHANGED <<id_, ended, answer, thread, server, stale, missed>>

\* The loop polls the state.  The time it compares to the timeout is always 0.
ResultIsThere ==
  /\ main = "waiting"
  /\ ended
  /\ main' = "idle"
  /\ UNCHANGED <<id_, ended, answer, thread, server, stale, missed>>

\* cancel() asks nobody when no machine was sent; what the cancellation does to the
\* machine that runs is to end it, which it may do at any time.
cancel ==
  /\ main = "idle"
  /\ id_ # NoId
  /\ Remove(id_)
  /\ UNCHANGED <<client, thread, channel, stale, missed>>

\* The destructor tells the other thread to stop ...
Destruct ==
  /\ main = "idle"
  /\ main' = "joining"
  /\ UNCHANGED <<id_, ended, answer, thread, server, stale, missed>>

\* Mutant: it is not joined.
DestroyAtOnce ==
  /\ main = "joining"
  /\ main' = "destroyed"
  /\ UNCHANGED <<id_, ended, answer, thread, server, stale, missed>>

\* ... and joins it.
Join ==
  /\ main = "joining"
  /\ ~ spinning
  /\ main' = "destroyed"
  /\ UNCHANGED <<id_, ended, answer, thread, server, stale, missed>>
-----------------------------------------------------------------------------
(***************************************************************************)
(* The other thread.                                                       *)
(***************************************************************************)
Receive ==
  /\ spinning /\ pending = None
  /\ channel # <<>>
  /\ channel' = Tail(channel)

\* Mutant: the statuses of all the machines are taken.
statusCallbackOfAll ==
  /\ Receive
  /\ pending' = Head(channel)
  /\ UNCHANGED <<client, spinning, machines, stale, missed>>

\* statusCallback(): the id is compared ...
statusCallback ==
  /\ Receive
  /\ pending' = IF Head(channel).id = id_ THEN Head(channel) ELSE None
  /\ UNCHANGED <<client, spinning, machines, stale, missed>>

\* ... and the state kept.
KeepState ==
  /\ pending # None
  /\ ended' = pending.final
  /\ pending' = None
  /\ UNCHANGED <<main, id_, answer, spinning, server, stale, missed>>

\* spinThread() leaves between two callbacks.
SpinEnds ==
  /\ main = "joining"
  /\ spinning /\ pending = None
  /\ spinning' = FALSE
  /\ UNCHANGED <<client, pending, server, stale, missed>>
-----------------------------------------------------------------------------
Application ==
  send \/ KeepId \/ ResetState \/ waitForResult \/ ResultIsThere \/ cancel \/ Destruct \/ Join
Spin == statusCallback \/ KeepState \/ SpinEnds
Manager ==
  OtherRegisters \/ \E i \in Registered : Start(i) \/ Publish(i) \/ End(i) \/ OtherCancels(i)

Next == Application \/ Spin \/ Manager

Spec == Init /\ [][Next]_vars

\* The threads of the client run; nobody is forced to send, to wait or to end.
FairSpec ==
  /\ Spec
  /\ WF_vars(KeepId) /\ WF_vars(ResetState) /\ WF_vars(ResultIsThere) /\ WF_vars(Join)
  /\ WF_vars(statusCallback) /\ WF_vars(KeepState)
-----------------------------------------------------------------------------
Status == [id : Ids, final : BOOLEAN]

\* Type invariant; and the thread of a destroyed client is over.
TypeOK ==
  /\ main \in {"idle", "answered", "known", "waiting", "joining", "destroyed"}
  /\ id_ \in Ids \cup {NoId} /\ answer \in Ids \cup {NoId}
  /\ ended \in BOOLEAN
  /\ spinning \in BOOLEAN /\ pending \in Status \cup {None}
  /\ machines \in Seq({"waiting", "running", "over", "erased"})
  /\ Len(machines) <= MaxMachines
  /\ channel \in Seq(Status)
  /\ stale \in BOOLEAN /\ missed \in BOOLEAN
  /\ main = "destroyed" => ~ spinning /\ pending = None

\* The state read as an end is the end of the machine sent last: whatever the statuses of
\* other machines and of earlier ones, they do not end its wait, but for the one that was
\* compared to the former id and is kept after send() has returned.
EndIsReal ==
  main \in {"idle", "waiting"} /\ id_ # NoId /\ ended /\ ~ stale => What(id_) = "over"

\* One who waits for a machine that ends is told, unless the end came before send() had
\* returned: it is dropped before the id is kept, and forgotten before the state is reset.
\* A machine that another client erased never ends.
WaitEnds ==
  (main = "waiting" /\ id_ # NoId /\ ~ missed /\ What(id_) = "over") ~> main # "waiting"
=============================================================================
