-------------------------- MODULE EventStorageProofs --------------------------
(***************************************************************************)
(* The double fifo implements a mailbox, for every set of events and every *)
(* bound on their number.                                                  *)
(***************************************************************************)
EXTENDS EventStorage, Integers, SequenceTheorems, TLAPS

(***************************************************************************)
(* Lemmas about the part of a sequence that follows a position.            *)
(***************************************************************************)

\* What follows position n of a sequence is extended by an Append.
LEMMA RestOfAppend ==
  ASSUME NEW S, NEW s \in Seq(S), NEW e \in S, NEW n \in 0 .. Len(s)
  PROVE  SubSeq(Append(s, e), n + 1, Len(Append(s, e)))
           = Append(SubSeq(s, n + 1, Len(s)), e)
<1> DEFINE a == Append(s, e)
           l == SubSeq(a, n + 1, Len(a))
           r == Append(SubSeq(s, n + 1, Len(s)), e)
<1>1. a \in Seq(S) /\ Len(a) = Len(s) + 1
  OBVIOUS
<1>2. l \in Seq(S) /\ r \in Seq(S)
  BY <1>1
<1>3. Len(l) = Len(s) + 1 - n /\ Len(r) = Len(s) + 1 - n
  BY <1>1
<1>4. ASSUME NEW k \in 1 .. Len(l) PROVE l[k] = r[k]
  BY <1>1, <1>3, <1>4
<1> QED
  BY <1>2, <1>3, <1>4, SeqEqual

\* Nothing follows the end of a sequence.
LEMMA RestAtEnd ==
  ASSUME NEW S, NEW s \in Seq(S)
  PROVE  SubSeq(s, Len(s) + 1, Len(s)) = <<>>
OBVIOUS

-----------------------------------------------------------------------------
(***************************************************************************)
(* The inductive invariant.                                                *)
(***************************************************************************)

IInv ==
  /\ TypeOK
  /\ taken <= Len(sent) /\ Len(sent) <= MaxEvents
  /\ FifosHoldTheRest

LEMMA IInvInit == Init => IInv
<1> SUFFICES ASSUME Init PROVE IInv
  OBVIOUS
<1>1. TypeOK
  BY MaxEventsAssumption DEF Init, TypeOK
<1>2. taken <= Len(sent) /\ Len(sent) <= MaxEvents
  BY MaxEventsAssumption DEF Init
<1>3. FifosHoldTheRest
  BY DEF Init, FifosHoldTheRest, receiving, retired
<1> QED
  BY <1>1, <1>2, <1>3 DEF IInv

LEMMA AddEventStep ==
  ASSUME IInv, NEW event \in Events, addEvent(event)
  PROVE  IInv'
<1> USE DEF IInv, TypeOK
<1>1. sent' \in Seq(Events) /\ Len(sent') = Len(sent) + 1
  BY DEF addEvent
<1>2. taken' <= Len(sent') /\ Len(sent') <= MaxEvents
  BY <1>1, MaxEventsAssumption DEF addEvent
<1>3. TypeOK'
  <2>1. Append(fifo_1, event) \in Seq(Events) /\ Append(fifo_2, event) \in Seq(Events)
    OBVIOUS
  <2>2. fifo_1' \in Seq(Events) /\ fifo_2' \in Seq(Events)
    BY <2>1, Zenon DEF addEvent
  <2>3. UNCHANGED <<queue_choice, batch, taken>>
    BY DEF addEvent
  <2> QED BY <1>1, <2>2, <2>3
<1>4. receiving' = Append(receiving, event)
  BY DEF addEvent, receiving
<1>5. receiving' = SubSeq(sent', taken' + 1, Len(sent'))
  <2>1. sent' = Append(sent, event) /\ taken' = taken
    BY DEF addEvent
  <2>2. taken \in 0 .. Len(sent)
    OBVIOUS
  <2>3. SubSeq(Append(sent, event), taken + 1, Len(Append(sent, event)))
          = Append(SubSeq(sent, taken + 1, Len(sent)), event)
    BY <2>2, RestOfAppend
  <2>4. receiving = SubSeq(sent, taken + 1, Len(sent))
    BY DEF FifosHoldTheRest
  <2> QED BY <1>4, <2>1, <2>3, <2>4
<1>6. retired' = batch'
  BY DEF addEvent, retired, FifosHoldTheRest
<1> QED
  BY <1>2, <1>3, <1>5, <1>6 DEF FifosHoldTheRest

LEMMA GetEventsStep ==
  ASSUME IInv, getEvents
  PROVE  IInv' /\ Abstract!Receive
<1> USE DEF IInv, TypeOK
<1>1. batch' = SubSeq(sent, taken + 1, Len(sent))
  BY DEF getEvents, receiving, FifosHoldTheRest
<1>2. Len(batch') = Len(sent) - taken
  BY <1>1
<1>3. taken' = Len(sent) /\ sent' = sent
  BY <1>2 DEF getEvents
<1>4. TypeOK'
  <2>1. /\ fifo_1' \in Seq(Events) /\ fifo_2' \in Seq(Events)
        /\ batch' \in Seq(Events)
    <3>1. <<>> \in Seq(Events)
      OBVIOUS
    <3> QED BY <3>1, Zenon DEF getEvents
  <2>2. queue_choice' \in BOOLEAN
    BY DEF getEvents
  <2>3. taken' \in 0 .. MaxEvents
    BY <1>3, MaxEventsAssumption
  <2> QED BY <1>3, <2>1, <2>2, <2>3
<1>5. receiving' = <<>>
  BY DEF getEvents, receiving
<1>6. receiving' = SubSeq(sent', taken' + 1, Len(sent'))
  BY <1>3, <1>5, RestAtEnd
<1>7. retired' = batch'
  BY DEF getEvents, retired
<1> QED
  BY <1>1, <1>3, <1>4, <1>6, <1>7 DEF FifosHoldTheRest, Abstract!Receive

LEMMA IInvStep == IInv /\ [Next]_vars => IInv'
<1> SUFFICES ASSUME IInv, [Next]_vars PROVE IInv'
  OBVIOUS
<1>1. CASE Next
  BY <1>1, AddEventStep, GetEventsStep DEF Next
<1>2. CASE UNCHANGED vars
  BY <1>2 DEF vars, IInv, TypeOK, FifosHoldTheRest, receiving, retired
<1> QED
  BY <1>1, <1>2

\* EventStorage: whatever is added and taken, the fifos are sequences of events.
THEOREM FifosTyped == Spec => []TypeOK
<1>1. IInv => TypeOK
  BY DEF IInv
<1> QED
  BY <1>1, IInvInit, IInvStep, PTL DEF Spec

\* EventStorage: the receiving fifo always holds exactly the events not handed
\* out yet, in order, and the retired one the last batch.
THEOREM FifosCorrect == Spec => []FifosHoldTheRest
<1>1. IInv => FifosHoldTheRest
  BY DEF IInv
<1> QED
  BY <1>1, IInvInit, IInvStep, PTL DEF Spec

\* Every step of the double fifo is a step of the mailbox: each getEvents hands
\* out exactly the events added since the previous one, in their order.
THEOREM MailboxRefined ==
  Spec => Abstract!Init /\ [][Abstract!Next]_(Abstract!mailbox)
<1>1. Init => Abstract!Init
  BY DEF Init, Abstract!Init
<1>2. ASSUME IInv, [Next]_vars
      PROVE  [Abstract!Next]_(Abstract!mailbox)
  <2>1. ASSUME NEW event \in Events, addEvent(event)
        PROVE  Abstract!Send(event)
    BY <2>1 DEF addEvent, Abstract!Send
  <2>2. CASE getEvents
    BY <1>2, <2>2, GetEventsStep DEF Abstract!Next
  <2>3. CASE UNCHANGED vars
    BY <2>3 DEF vars, Abstract!mailbox
  <2> QED
    BY <1>2, <2>1, <2>2, <2>3 DEF Next, Abstract!Next
<1> QED
  BY <1>1, <1>2, IInvInit, IInvStep, PTL DEF Spec
=============================================================================
