---------------------- MODULE StateMachineClientProofs ----------------------
(***************************************************************************)
(* Proofs about StateMachineClient, for any number of machines and of      *)
(* statuses on their way.                                                  *)
(***************************************************************************)
EXTENDS StateMachineClient, SequenceTheorems, TLAPS

USE NoIdAssumption, NoneAssumption, BoundsAssumption DEF Ids

Whats == {"waiting", "running", "over", "erased"}

\* The ids kept are those of registered machines, and a thread that has stopped holds
\* nothing.
IdsKnown ==
  /\ ~ spinning => pending = None
  /\ id_ # NoId => id_ < Len(machines)
  /\ main \in {"answered", "known"} => answer # NoId /\ answer < Len(machines)
  /\ main = "known" => id_ = answer

\* An end is announced once the machine is over.
Announced(m) == m.id < Len(machines) /\ (m.final => What(m.id) = "over")
EndsAnnounced ==
  /\ \A k \in DOMAIN channel : Announced(channel[k])
  /\ pending # None => Announced(pending)

\* Outside send(), the status about to be kept is of the machine sent last.
PendingIsOfLast ==
  main \in {"idle", "waiting"} /\ pending # None /\ ~ stale => pending.id = id_

IInv == TypeOK /\ IdsKnown /\ EndsAnnounced /\ PendingIsOfLast /\ EndIsReal

-----------------------------------------------------------------------------
(***************************************************************************)
(* The machines of the manager.                                            *)
(***************************************************************************)

LEMMA RegisterAppends ==
  ASSUME TypeOK, Len(machines) < MaxMachines, Register
  PROVE  /\ machines' \in Seq(Whats) /\ Len(machines') = Len(machines) + 1
         /\ \A k \in 1 .. Len(machines) : machines'[k] = machines[k]
BY AppendProperties DEF TypeOK, Register, Whats

LEMMA RemoveKeepsLength ==
  ASSUME TypeOK, NEW i, Remove(i)
  PROVE  /\ machines' \in Seq(Whats) /\ Len(machines') = Len(machines)
         /\ \A k \in 1 .. Len(machines) : machines[k] = "over" => machines'[k] = "over"
<1>1. machines \in Seq(Whats) /\ DOMAIN machines = 1 .. Len(machines)
      /\ Len(machines) \in Nat
  BY DEF TypeOK, Whats
<1>2. machines' = [k \in 1 .. Len(machines) |->
                     IF machines[k] = "waiting" /\ k - 1 > i THEN "erased" ELSE machines[k]]
  BY <1>1 DEF Remove
<1>3. \A k \in 1 .. Len(machines) : machines[k] \in Whats
  BY <1>1
<1>4. machines' \in [1 .. Len(machines) -> Whats]
  BY <1>2, <1>3 DEF Whats
<1> QED
  BY <1>1, <1>2, <1>4

\* What becomes of the machines never takes an end back.
Lasts ==
  /\ Len(machines') \in Nat /\ Len(machines) \in Nat
  /\ Len(machines') >= Len(machines)
  /\ \A k \in 1 .. Len(machines) : machines[k] = "over" => machines'[k] = "over"

LEMMA MachinesLast ==
  ASSUME TypeOK, [Next]_vars
  PROVE  /\ machines' \in Seq(Whats) /\ Len(machines') <= MaxMachines
         /\ Lasts
<1>0. machines \in Seq(Whats) /\ Len(machines) \in Nat /\ Len(machines) <= MaxMachines
  BY DEF TypeOK, Whats
<1>1. CASE UNCHANGED machines
  BY <1>0, <1>1 DEF Lasts
<1>2. CASE Len(machines) < MaxMachines /\ Register
  BY <1>0, <1>2, RegisterAppends DEF Lasts
<1>3. CASE \E i : Remove(i)
  BY <1>0, <1>3, RemoveKeepsLength DEF Lasts
<1>4. ASSUME NEW i \in Registered, NEW w \in Whats, What(i) # "over",
             machines' = [machines EXCEPT ![i + 1] = w]
      PROVE  /\ machines' \in Seq(Whats) /\ Len(machines') <= MaxMachines
             /\ Lasts
  <2>1. i + 1 \in 1 .. Len(machines) /\ machines[i + 1] # "over"
    BY <1>0, <1>4 DEF Registered, What
  <2> QED BY <1>0, <1>4, <2>1 DEF Lasts
<1>5. \/ UNCHANGED machines
      \/ Len(machines) < MaxMachines /\ Register
      \/ \E i : Remove(i)
      \/ \E i \in Registered : \E w \in Whats :
           What(i) # "over" /\ machines' = [machines EXCEPT ![i + 1] = w]
  BY DEF Next, Application, Spin, Manager, send, KeepId, ResetState, waitForResult,
         ResultIsThere, cancel, Destruct, Join, statusCallback, Receive, KeepState, SpinEnds,
         OtherRegisters, Start, Publish, End, OtherCancels, vars, server, Whats
<1> QED BY <1>1, <1>2, <1>3, <1>4, <1>5

-----------------------------------------------------------------------------
(***************************************************************************)
(* Type correctness, and the ids.                                          *)
(***************************************************************************)

LEMMA Typed ==
  ASSUME TypeOK, IdsKnown, [Next]_vars
  PROVE  TypeOK' /\ IdsKnown'
<1>0. /\ machines' \in Seq(Whats) /\ Len(machines') <= MaxMachines
      /\ Lasts
  BY MachinesLast
<1>1. channel' \in Seq(Status) /\ (pending' # pending => pending' \in Status \cup {None})
  <2>0. channel \in Seq(Status)
    BY DEF TypeOK
  <2>1. CASE UNCHANGED <<channel, pending>>
    BY <2>0, <2>1
  <2>2. CASE \E m \in Status : channel' = Append(channel, m) /\ UNCHANGED pending
    BY <2>0, <2>2, AppendProperties
  <2>3. CASE statusCallback
    <3>1. channel # <<>> /\ channel' = Tail(channel)
      BY <2>3 DEF statusCallback, Receive
    <3>2. Head(channel) \in Status /\ Tail(channel) \in Seq(Status)
      BY <2>0, <3>1, HeadTailProperties
    <3> QED BY <2>3, <3>1, <3>2 DEF statusCallback
  <2>4. CASE KeepState
    BY <2>0, <2>4 DEF KeepState, server
  <2>5. ASSUME NEW i \in Registered, Publish(i) \/ End(i)
        PROVE  \E m \in Status : channel' = Append(channel, m) /\ UNCHANGED pending
    <3>1. Ending(i) \in Status /\ [id |-> i, final |-> FALSE] \in Status
      BY DEF Registered, Ending, Status
    <3> QED BY <2>5, <3>1 DEF Publish, End, thread
  <2>6. \/ UNCHANGED <<channel, pending>>
        \/ statusCallback \/ KeepState
        \/ \E i \in Registered : Publish(i) \/ End(i)
    BY DEF Next, Application, Spin, Manager, send, KeepId, ResetState, waitForResult,
           ResultIsThere, cancel, Destruct, Join, SpinEnds,
           OtherRegisters, Start, OtherCancels, vars, server, thread
  <2> QED BY <2>1, <2>2, <2>3, <2>4, <2>5, <2>6
<1>2. /\ main' \in {"idle", "answered", "known", "waiting", "joining", "destroyed"}
      /\ id_' \in Ids \cup {NoId} /\ answer' \in Ids \cup {NoId}
      /\ spinning' \in BOOLEAN /\ stale' \in BOOLEAN /\ missed' \in BOOLEAN
      /\ (main' = "destroyed" => ~ spinning' /\ pending' = None)
      /\ IdsKnown'
  <2> USE <1>0 DEF TypeOK, IdsKnown, Lasts
  <2>1. CASE send
    <3>1. Len(machines') = Len(machines) + 1 /\ Len(machines) \in Ids
      BY <2>1, RegisterAppends DEF send
    <3>2. /\ answer' = Len(machines) /\ main' = "answered"
          /\ UNCHANGED <<id_, spinning, pending, stale, missed>>
      BY <2>1 DEF send, thread
    <3> HIDE DEF Ids
    <3>3. id_ # NoId => id_ < Len(machines')
      BY <3>1, <3>2 DEF Ids
    <3>4. answer' # NoId /\ answer' < Len(machines')
      BY <3>1, <3>2 DEF Ids
    <3> QED BY <3>1, <3>2, <3>3, <3>4
  <2>2. CASE KeepId
    BY <2>2 DEF KeepId, thread, server
  <2>3. CASE ResetState
    <3>1. missed' \in BOOLEAN /\ stale' \in BOOLEAN
      BY <2>3, Zenon DEF ResetState, HeardEnd
    <3> QED BY <2>3, <3>1 DEF ResetState, thread, server
  <2>4. CASE waitForResult \/ ResultIsThere \/ Destruct
    <3>1. /\ UNCHANGED <<id_, answer, spinning, pending, stale, missed, machines>>
          /\ main' \in {"idle", "waiting", "joining"}
      BY <2>4 DEF waitForResult, ResultIsThere, Destruct, thread, server
    <3>2. IdsKnown'
      BY <3>1
    <3> HIDE DEF Lasts, IdsKnown, Ids
    <3> QED BY <3>1, <3>2
  <2>5. CASE Join
    BY <2>5 DEF Join, thread, server
  <2>6. CASE Spin
    BY <2>6 DEF Spin, statusCallback, Receive, KeepState, SpinEnds, client, server
  <2>7. CASE cancel \/ Manager
    <3>1. UNCHANGED <<main, id_, answer, spinning, pending, stale, missed>>
      BY <2>7 DEF cancel, Manager, OtherRegisters, Start, Publish, End, OtherCancels, client, thread
    <3>2. /\ id_ # NoId => id_ < Len(machines')
          /\ main \in {"answered", "known"} => answer # NoId /\ answer < Len(machines')
      OBVIOUS
    <3>3. IdsKnown'
      BY <3>1, <3>2
    <3> HIDE DEF Lasts, IdsKnown, Ids
    <3> QED BY <3>1, <3>3
  <2>8. CASE UNCHANGED vars
    BY <2>8 DEF vars, client, thread, server
  <2> QED
    BY <2>1, <2>2, <2>3, <2>4, <2>5, <2>6, <2>7, <2>8 DEF Next, Application
<1>3. ended' \in BOOLEAN
  <2> USE DEF TypeOK
  <2>1. CASE KeepState
    BY <2>1 DEF KeepState, Status
  <2>2. CASE ~ KeepState
    BY <2>2 DEF Next, Application, Spin, Manager, send, KeepId, ResetState, waitForResult,
           ResultIsThere, cancel, Destruct, Join, statusCallback, SpinEnds,
           OtherRegisters, Start, Publish, End, OtherCancels, vars, client
  <2> QED BY <2>1, <2>2
<1>4. pending' \in Status \cup {None}
  BY <1>1 DEF TypeOK
<1> QED
  BY <1>0, <1>1, <1>2, <1>3, <1>4 DEF TypeOK, Whats

-----------------------------------------------------------------------------
(***************************************************************************)
(* The ends.                                                               *)
(***************************************************************************)

\* What was announced stays so.
LEMMA AnnouncedLasts ==
  ASSUME TypeOK, Lasts, NEW m \in Status, Announced(m)
  PROVE  m.id < Len(machines') /\ (m.final => machines'[m.id + 1] = "over")
BY DEF Lasts, Announced, What, Status

LEMMA EndsStayAnnounced ==
  ASSUME TypeOK, EndsAnnounced, [Next]_vars
  PROVE  EndsAnnounced'
<1>0. Lasts
  BY MachinesLast
<1>1. /\ channel \in Seq(Status) /\ DOMAIN channel = 1 .. Len(channel) /\ Len(channel) \in Nat
      /\ \A k \in 1 .. Len(channel) : channel[k] \in Status /\ Announced(channel[k])
      /\ pending # None => pending \in Status /\ Announced(pending)
  BY DEF TypeOK, EndsAnnounced
<1> DEFINE Still(m) == m.id < Len(machines') /\ (m.final => machines'[m.id + 1] = "over")
<1>2. /\ \A k \in 1 .. Len(channel) : Still(channel[k])
      /\ pending # None => Still(pending)
  BY <1>0, <1>1, AnnouncedLasts
<1> SUFFICES /\ \A k \in DOMAIN channel' : Still(channel'[k])
             /\ pending' # None => Still(pending')
  BY DEF EndsAnnounced, Announced, What
<1>3. CASE UNCHANGED <<channel, pending>>
  BY <1>1, <1>2, <1>3
<1>4. CASE statusCallback
  <2>1. channel # <<>> /\ channel' = Tail(channel)
        /\ pending' \in {Head(channel), None}
    BY <1>4 DEF statusCallback, Receive
  <2>2. /\ Len(channel') = Len(channel) - 1 /\ DOMAIN channel' = 1 .. Len(channel')
        /\ \A k \in 1 .. Len(channel') : channel'[k] = channel[k + 1]
        /\ Head(channel) = channel[1] /\ Len(channel) >= 1
    BY <1>1, <2>1, HeadTailProperties
  <2> HIDE DEF Still
  <2> QED BY <1>1, <1>2, <2>1, <2>2
<1>5. CASE KeepState
  <2>1. UNCHANGED channel /\ pending' = None
    BY <1>5 DEF KeepState, server
  <2> QED BY <1>1, <1>2, <2>1
<1>6. ASSUME NEW i \in Registered, Publish(i) \/ End(i)
      PROVE  /\ \A k \in DOMAIN channel' : Still(channel'[k])
             /\ pending' # None => Still(pending')
  <2>1. PICK m \in Status : channel' = Append(channel, m) /\ UNCHANGED pending /\ Still(m)
    <3>1. Ending(i) \in Status /\ [id |-> i, final |-> FALSE] \in Status
      BY DEF Registered, Ending, Status
    <3>2. CASE Publish(i)
      BY <1>0, <1>6, <3>1, <3>2 DEF Publish, thread, Registered, Lasts
    <3>3. CASE End(i)
      <4>1. machines'[i + 1] = "over" /\ i < Len(machines')
        BY <1>0, <3>3 DEF End, Registered, Lasts, TypeOK
      <4> QED BY <3>1, <3>3, <4>1 DEF End, thread, Ending
    <3> QED BY <1>6, <3>2, <3>3
  <2>2. /\ Len(channel') = Len(channel) + 1 /\ DOMAIN channel' = 1 .. Len(channel')
        /\ \A k \in 1 .. Len(channel) : channel'[k] = channel[k]
        /\ channel'[Len(channel) + 1] = m
    BY <1>1, <2>1, AppendProperties
  <2> HIDE DEF Still
  <2> QED BY <1>1, <1>2, <2>1, <2>2
<1>7. \/ UNCHANGED <<channel, pending>>
      \/ statusCallback \/ KeepState
      \/ \E i \in Registered : Publish(i) \/ End(i)
  BY DEF Next, Application, Spin, Manager, send, KeepId, ResetState, waitForResult,
         ResultIsThere, cancel, Destruct, Join, SpinEnds,
         OtherRegisters, Start, OtherCancels, vars, server, thread
<1> QED BY <1>3, <1>4, <1>5, <1>6, <1>7

LEMMA PendingStaysOfLast ==
  ASSUME TypeOK, PendingIsOfLast, [Next]_vars
  PROVE  PendingIsOfLast'
<1>1. CASE ResetState
  BY <1>1 DEF ResetState, PendingIsOfLast, thread
<1>2. CASE statusCallback
  BY <1>2 DEF statusCallback, PendingIsOfLast, client
<1>3. CASE KeepState
  BY <1>3 DEF KeepState, PendingIsOfLast
<1>4. CASE ~ ResetState /\ ~ statusCallback /\ ~ KeepState
  <2>1. /\ UNCHANGED <<pending, stale>>
        /\ \/ main' \notin {"idle", "waiting"}
           \/ UNCHANGED id_ /\ main \in {"idle", "waiting"}
    BY <1>4 DEF Next, Application, Spin, Manager, send, KeepId, waitForResult,
         ResultIsThere, cancel, Destruct, Join, SpinEnds,
         OtherRegisters, Start, Publish, End, OtherCancels, vars, client, thread
  <2> QED BY <2>1 DEF PendingIsOfLast
<1> QED BY <1>1, <1>2, <1>3, <1>4

LEMMA EndStaysReal ==
  ASSUME TypeOK, IdsKnown, EndsAnnounced, PendingIsOfLast, EndIsReal, [Next]_vars
  PROVE  EndIsReal'
<1>0. Lasts
  BY MachinesLast
<1>1. CASE ResetState
  BY <1>1 DEF ResetState, EndIsReal
<1>2. CASE KeepState
  <2> SUFFICES ASSUME main \in {"idle", "waiting"}, id_ # NoId, pending.final, ~ stale
               PROVE  What(id_) = "over"
    BY <1>2 DEF KeepState, EndIsReal, server, What
  <2>1. pending # None /\ pending.id = id_
    BY <1>2 DEF KeepState, PendingIsOfLast
  <2> QED BY <2>1 DEF EndsAnnounced, Announced
<1>3. CASE ~ ResetState /\ ~ KeepState
  <2>1. /\ UNCHANGED <<ended, stale>>
        /\ \/ main' \notin {"idle", "waiting"}
           \/ UNCHANGED id_ /\ main \in {"idle", "waiting"}
    BY <1>3 DEF Next, Application, Spin, Manager, send, KeepId, waitForResult,
         ResultIsThere, cancel, Destruct, Join, statusCallback, SpinEnds,
         OtherRegisters, Start, Publish, End, OtherCancels, vars, client
  <2>2. id_ # NoId /\ What(id_) = "over" => machines'[id_ + 1] = "over"
    BY <1>0 DEF TypeOK, IdsKnown, Lasts, What
  <2> QED BY <2>1, <2>2 DEF EndIsReal, What
<1> QED BY <1>1, <1>2, <1>3

LEMMA InitIInv == Init => IInv
<1> SUFFICES ASSUME Init PROVE IInv
  OBVIOUS
<1>1. /\ machines \in Seq({"waiting", "running", "over", "erased"})
      /\ channel \in Seq(Status)
      /\ Len(machines) = 0 /\ DOMAIN channel = {}
  BY EmptySeq DEF Init
<1>2. TypeOK
  <2>1. /\ Len(machines) <= MaxMachines
        /\ main # "destroyed"
    BY <1>1 DEF Init
  <2> QED BY <1>1, <2>1, Zenon DEF Init, TypeOK
<1>3. IdsKnown /\ EndsAnnounced /\ PendingIsOfLast /\ EndIsReal
  BY <1>1 DEF Init, IdsKnown, EndsAnnounced, PendingIsOfLast, EndIsReal
<1> QED
  BY <1>2, <1>3 DEF IInv

LEMMA Invariance == Spec => []IInv
<1>1. IInv /\ [Next]_vars => IInv'
  BY Typed, EndsStayAnnounced, PendingStaysOfLast, EndStaysReal DEF IInv
<1> QED
  BY InitIInv, <1>1, PTL DEF Spec

\* The state of the client is well typed, and a destroyed client runs no callback any more
\* (the destructor of StateMachineClient joins its thread).
THEOREM ClientTyped == Spec => []TypeOK
BY Invariance, PTL DEF IInv

\* What waitForResult takes for the end is the end of the machine sent last, unless a status
\* of an earlier one was under way in statusCallback at the end of send().
THEOREM ClientEndIsReal == Spec => []EndIsReal
BY Invariance, PTL DEF IInv
=============================================================================
