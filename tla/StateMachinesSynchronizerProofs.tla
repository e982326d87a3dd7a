------------------- MODULE StateMachinesSynchronizerProofs -------------------
(***************************************************************************)
(* Proofs about StateMachinesSynchronizer, for any number of resources,    *)
(* any machines and any names.                                             *)
(***************************************************************************)
EXTENDS StateMachinesSynchronizer, FiniteSetTheorems, SequenceTheorems, TLAPS

States_ == States \cup {NotSent, Ended}
Kinds == {"none", "pass", "wait", "wait_synchro"}
Relays == [resource : Resources, names : Seq(Names)]

-----------------------------------------------------------------------------
(***************************************************************************)
(* Lists.                                                                  *)
(***************************************************************************)

\* A name is in a list as often as it has places there.
LEMMA TimesCounts ==
  ASSUME NEW S, NEW list \in Seq(S), NEW x
  PROVE  Times(x, list) \in Nat /\ (Times(x, list) > 0 <=> In(x, list))
<1> DEFINE places == {k \in DOMAIN list : list[k] = x}
<1>1. DOMAIN list = 1 .. Len(list) /\ Len(list) \in Nat
  OBVIOUS
<1>2. IsFiniteSet(1 .. Len(list))
  BY <1>1, FS_Interval
<1>3. IsFiniteSet(places)
  BY <1>1, <1>2, FS_Subset
<1>4. Cardinality(places) \in Nat /\ (Cardinality(places) = 0 <=> places = {})
  BY <1>3, FS_CardinalityType, FS_EmptySet
<1>5. places # {} <=> In(x, list)
  BY DEF In
<1> QED
  BY <1>4, <1>5 DEF Times

\* What copies are, and what a list extended by copies holds.
LEMMA CopiesAre ==
  ASSUME NEW S, NEW x \in S, NEW T, NEW list \in Seq(T), NEW y,
         NEW copies, copies = Copies(x, Times(y, list))
  PROVE  /\ copies \in Seq(S) /\ Len(copies) = Times(y, list)
         /\ \A k \in 1 .. Len(copies) : copies[k] = x
<1>1. PICK times \in Nat : times = Times(y, list)
  BY TimesCounts
<1>2. copies = [k \in 1 .. times |-> x]
  BY <1>1 DEF Copies
<1> QED
  BY <1>1, <1>2

LEMMA Extended ==
  ASSUME NEW S, NEW x, NEW list \in Seq(S), NEW copies \in Seq(S),
         \A k \in 1 .. Len(copies) : copies[k] = x
  PROVE  /\ list \o copies \in Seq(S)
         /\ Len(list \o copies) = Len(list) + Len(copies)
         /\ \A k \in 1 .. Len(list) : (list \o copies)[k] = list[k]
         /\ \A k \in Len(list) + 1 .. Len(list) + Len(copies) : (list \o copies)[k] = x
<1>1. /\ list \o copies \in Seq(S) /\ Len(list \o copies) = Len(list) + Len(copies)
      /\ Len(list) \in Nat /\ Len(copies) \in Nat
      /\ \A k \in 1 .. Len(list) + Len(copies) :
           (list \o copies)[k] = IF k <= Len(list) THEN list[k] ELSE copies[k - Len(list)]
  BY ConcatProperties
<1>2. \A k \in Len(list) + 1 .. Len(list) + Len(copies) : (list \o copies)[k] = x
  <2> TAKE k \in Len(list) + 1 .. Len(list) + Len(copies)
  <2>1. k - Len(list) \in 1 .. Len(copies) /\ k \in 1 .. Len(list) + Len(copies)
    BY <1>1
  <2>2. (list \o copies)[k] = copies[k - Len(list)]
    BY <1>1, <2>1
  <2> QED BY <2>1, <2>2
<1> QED
  BY <1>1, <1>2

\* The same for places that are free.
LEMMA ExtendedOff ==
  ASSUME NEW list \in Seq(BOOLEAN), NEW copies \in Seq(BOOLEAN),
         \A k \in 1 .. Len(copies) : ~ copies[k]
  PROVE  /\ list \o copies \in Seq(BOOLEAN)
         /\ Len(list \o copies) = Len(list) + Len(copies)
         /\ \A k \in 1 .. Len(list) : (list \o copies)[k] = list[k]
         /\ \A k \in Len(list) + 1 .. Len(list) + Len(copies) : ~ (list \o copies)[k]
<1>1. /\ list \o copies \in Seq(BOOLEAN) /\ Len(list \o copies) = Len(list) + Len(copies)
      /\ Len(list) \in Nat /\ Len(copies) \in Nat
      /\ \A k \in 1 .. Len(list) + Len(copies) :
           (list \o copies)[k] = IF k <= Len(list) THEN list[k] ELSE copies[k - Len(list)]
  BY ConcatProperties
<1>2. \A k \in Len(list) + 1 .. Len(list) + Len(copies) : ~ (list \o copies)[k]
  <2> TAKE k \in Len(list) + 1 .. Len(list) + Len(copies)
  <2>1. k - Len(list) \in 1 .. Len(copies) /\ k \in 1 .. Len(list) + Len(copies)
    BY <1>1
  <2>2. (list \o copies)[k] = copies[k - Len(list)]
    BY <1>1, <2>1
  <2> QED BY <2>1, <2>2
<1> QED
  BY <1>1, <1>2

-----------------------------------------------------------------------------
(***************************************************************************)
(* The barriers.                                                           *)
(***************************************************************************)

BarriersType ==
  /\ synchros_ \in [Names -> Seq(Resources)]
  /\ activations_ \in [Names -> Seq(BOOLEAN)]
  /\ \A n \in Names : Len(activations_[n]) = Len(synchros_[n])

LEMMA Lists ==
  ASSUME BarriersType, NEW n \in Names
  PROVE  /\ Len(synchros_[n]) \in Nat
         /\ DOMAIN synchros_[n] = 1 .. Len(synchros_[n])
         /\ DOMAIN activations_[n] = 1 .. Len(synchros_[n])
         /\ \A k \in 1 .. Len(synchros_[n]) :
              synchros_[n][k] \in Resources /\ activations_[n][k] \in BOOLEAN
<1>1. synchros_[n] \in Seq(Resources) /\ activations_[n] \in Seq(BOOLEAN)
  BY DEF BarriersType
<1>2. Len(activations_[n]) = Len(synchros_[n])
  BY DEF BarriersType
<1> QED
  BY <1>1, <1>2

\* insert() adds a place, still free, for every transition that listens to the name.
LEMMA Inserts ==
  ASSUME BarriersType, NEW r \in Resources, NEW names \in Seq(Names), Insert(r, names)
  PROVE  /\ BarriersType'
         /\ \A n \in Names :
              /\ Len(synchros_[n]) \in Nat
              /\ Len(synchros_'[n]) = Len(synchros_[n]) + Times(n, names)
              /\ \A k \in 1 .. Len(synchros_[n]) :
                   /\ synchros_'[n][k] = synchros_[n][k]
                   /\ activations_'[n][k] = activations_[n][k]
              /\ \A k \in Len(synchros_[n]) + 1 .. Len(synchros_'[n]) :
                   synchros_'[n][k] = r /\ ~ activations_'[n][k]
<1>1. ASSUME NEW n \in Names
      PROVE  /\ synchros_'[n] \in Seq(Resources) /\ activations_'[n] \in Seq(BOOLEAN)
             /\ Len(activations_'[n]) = Len(synchros_'[n])
             /\ Len(synchros_[n]) \in Nat
             /\ Len(synchros_'[n]) = Len(synchros_[n]) + Times(n, names)
             /\ \A k \in 1 .. Len(synchros_[n]) :
                  /\ synchros_'[n][k] = synchros_[n][k]
                  /\ activations_'[n][k] = activations_[n][k]
             /\ \A k \in Len(synchros_[n]) + 1 .. Len(synchros_'[n]) :
                  synchros_'[n][k] = r /\ ~ activations_'[n][k]
  <2>1. Times(n, names) \in Nat
    BY TimesCounts
  <2>2. /\ synchros_'[n] = synchros_[n] \o Copies(r, Times(n, names))
        /\ activations_'[n] = activations_[n] \o Copies(FALSE, Times(n, names))
    BY <1>1 DEF Insert
  <2>3. /\ synchros_[n] \in Seq(Resources) /\ activations_[n] \in Seq(BOOLEAN)
        /\ Len(activations_[n]) = Len(synchros_[n]) /\ Len(synchros_[n]) \in Nat
    BY Lists DEF BarriersType
  <2>5. PICK rs, falses :
          rs = Copies(r, Times(n, names)) /\ falses = Copies(FALSE, Times(n, names))
    OBVIOUS
  <2>6. /\ rs \in Seq(Resources) /\ Len(rs) = Times(n, names)
        /\ \A k \in 1 .. Len(rs) : rs[k] = r
    BY <2>5, CopiesAre
  <2>7. /\ falses \in Seq(BOOLEAN) /\ Len(falses) = Times(n, names)
        /\ \A k \in 1 .. Len(falses) : ~ falses[k]
    BY <2>5, CopiesAre
  <2>8. /\ synchros_'[n] \in Seq(Resources)
        /\ Len(synchros_'[n]) = Len(synchros_[n]) + Len(rs)
        /\ \A k \in 1 .. Len(synchros_[n]) : synchros_'[n][k] = synchros_[n][k]
        /\ \A k \in Len(synchros_[n]) + 1 .. Len(synchros_[n]) + Len(rs) :
             synchros_'[n][k] = r
    <3>1. PICK list, longer : list = synchros_[n] /\ longer = synchros_'[n]
      OBVIOUS
    <3>2. list \in Seq(Resources) /\ longer = list \o rs
      BY <2>2, <2>3, <2>5, <3>1
    <3>3. r \in Resources
      OBVIOUS
    <3>4. /\ longer \in Seq(Resources) /\ Len(longer) = Len(list) + Len(rs)
          /\ \A k \in 1 .. Len(list) : longer[k] = list[k]
          /\ \A k \in Len(list) + 1 .. Len(list) + Len(rs) : longer[k] = r
      BY ONLY <2>6, <3>2, <3>3, Extended
    <3> QED BY <3>1, <3>4
  <2>9. /\ activations_'[n] \in Seq(BOOLEAN)
        /\ Len(activations_'[n]) = Len(activations_[n]) + Len(falses)
        /\ \A k \in 1 .. Len(activations_[n]) : activations_'[n][k] = activations_[n][k]
        /\ \A k \in Len(activations_[n]) + 1 .. Len(activations_[n]) + Len(falses) :
             ~ activations_'[n][k]
    <3>1. PICK list, longer : list = activations_[n] /\ longer = activations_'[n]
      OBVIOUS
    <3>2. list \in Seq(BOOLEAN) /\ longer = list \o falses
      BY <2>2, <2>3, <2>5, <3>1
    <3>4. /\ longer \in Seq(BOOLEAN) /\ Len(longer) = Len(list) + Len(falses)
          /\ \A k \in 1 .. Len(list) : longer[k] = list[k]
          /\ \A k \in Len(list) + 1 .. Len(list) + Len(falses) : ~ longer[k]
      BY ONLY <2>7, <3>2, ExtendedOff
    <3> QED BY <3>1, <3>4
  <2> QED BY <2>1, <2>3, <2>6, <2>7, <2>8, <2>9
<1>2. synchros_' \in [Names -> Seq(Resources)] /\ activations_' \in [Names -> Seq(BOOLEAN)]
  <2>1. DOMAIN synchros_' = Names /\ DOMAIN activations_' = Names
    BY DEF Insert
  <2>2. /\ synchros_' = [n \in Names |-> synchros_'[n]]
        /\ activations_' = [n \in Names |-> activations_'[n]]
    BY DEF Insert
  <2> QED BY <1>1, <2>1, <2>2
<1> QED
  BY <1>1, <1>2 DEF BarriersType

\* activate() fills the places of the resource; once all are filled they are freed and
\* every place is sent the event.
Filled(n, r, k) == activations_[n][k] \/ synchros_[n][k] = r
Sent(n, q) == events[q] \o Copies(n, Times(q, synchros_[n]))

LEMMA Activates ==
  ASSUME BarriersType, UNCHANGED synchros_, events \in [Resources -> Seq(Events)],
         NEW n \in Names, NEW r \in Resources, activate(n, r)
  PROVE  /\ BarriersType'
         /\ \A m \in Names \ {n} : activations_'[m] = activations_[m]
         /\ \/ /\ \E k \in 1 .. Len(synchros_[n]) : ~ Filled(n, r, k)
               /\ \A k \in 1 .. Len(synchros_[n]) : activations_'[n][k] = Filled(n, r, k)
               /\ events' = events
            \/ /\ \A k \in 1 .. Len(synchros_[n]) : Filled(n, r, k)
               /\ \A k \in 1 .. Len(synchros_[n]) : ~ activations_'[n][k]
               /\ synchros_[n] # <<>>
               /\ events' = [q \in Resources |-> Sent(n, q)]
            \/ /\ synchros_[n] = <<>>
               /\ UNCHANGED <<activations_, events>>
<1> DEFINE reached == [k \in 1 .. Len(synchros_[n]) |-> Filled(n, r, k)]
           off == [k \in 1 .. Len(synchros_[n]) |-> FALSE]
           open == \A k \in 1 .. Len(synchros_[n]) : reached[k]
<1>1. /\ Len(synchros_[n]) \in Nat
      /\ DOMAIN synchros_[n] = 1 .. Len(synchros_[n])
      /\ \A k \in 1 .. Len(synchros_[n]) : activations_[n][k] \in BOOLEAN
  BY Lists
<1>2. /\ reached \in Seq(BOOLEAN) /\ Len(reached) = Len(synchros_[n])
      /\ off \in Seq(BOOLEAN) /\ Len(off) = Len(synchros_[n])
      /\ \A k \in 1 .. Len(synchros_[n]) : ~ off[k] /\ reached[k] = Filled(n, r, k)
  <2>1. \A k \in 1 .. Len(synchros_[n]) : Filled(n, r, k) \in BOOLEAN
    BY DEF Filled
  <2>2. PICK len \in Nat : len = Len(synchros_[n])
    BY <1>1
  <2> QED BY <2>1, <2>2
<1>3. CASE synchros_[n] = <<>>
  <2>1. UNCHANGED <<activations_, events>>
    BY <1>3 DEF activate
  <2> QED BY <1>3, <2>1 DEF BarriersType
<1>4. CASE synchros_[n] # <<>>
  <2>1. DOMAIN reached = DOMAIN synchros_[n] /\ Off(reached) = off
    BY <1>1 DEF Off
  <2>2. reached = [k \in DOMAIN synchros_[n] |-> activations_[n][k] \/ synchros_[n][k] = r]
    BY <1>1 DEF Filled
  <2>3. /\ activations_' =
              [activations_ EXCEPT ![n] = IF open THEN off ELSE reached]
        /\ events' = [q \in Resources |-> IF open THEN Sent(n, q) ELSE events[q]]
    BY <1>1, <1>4, <2>1, <2>2 DEF activate, Sent
  <2> HIDE DEF reached, off, open
  <2>4. /\ activations_' \in [Names -> Seq(BOOLEAN)]
        /\ activations_'[n] = IF open THEN off ELSE reached
        /\ \A m \in Names \ {n} : activations_'[m] = activations_[m]
    BY <1>2, <2>3 DEF BarriersType
  <2>5. BarriersType'
    BY <1>2, <2>4 DEF BarriersType
  <2>6. CASE open
    <3>1. events' = [q \in Resources |-> Sent(n, q)]
      BY <2>3, <2>6
    <3>2. \A k \in 1 .. Len(synchros_[n]) : Filled(n, r, k)
      BY <1>2, <2>6 DEF open
    <3> QED BY <1>2, <1>4, <2>4, <2>5, <2>6, <3>1, <3>2
  <2>7. CASE ~ open
    <3>1. events' = [q \in Resources |-> events[q]]
      BY <2>3, <2>7
    <3>2. events' = events
      BY <3>1
    <3>3. \E k \in 1 .. Len(synchros_[n]) : ~ Filled(n, r, k)
      BY <1>2, <2>7 DEF open
    <3> QED BY <1>2, <2>4, <2>5, <2>7, <3>2, <3>3
  <2> QED BY <2>6, <2>7
<1> QED BY <1>3, <1>4

-----------------------------------------------------------------------------
(***************************************************************************)
(* Type correctness.                                                       *)
(***************************************************************************)

MachinesType ==
  /\ state \in [Resources -> States_]
  /\ transition_state_ \in [Resources -> Kinds]
  /\ validated \in [Resources -> [States -> Seq(SUBSET Nat)]]
  /\ \A r \in Resources : \A s \in States :
       /\ DOMAIN validated[r][s] = DOMAIN Machines[r][s].transitions
       /\ \A k \in DOMAIN validated[r][s] :
            validated[r][s][k] \subseteq DOMAIN Machines[r][s].transitions[k].regexs

MessagesType ==
  /\ statuses \in [Resources -> Seq(Status)]
  /\ events \in [Resources -> Seq(Events)]
  /\ node \in Relays \cup {None}

RecordsType ==
  /\ registered \in 0 .. N
  /\ _status \in BOOLEAN /\ cancelled \in BOOLEAN
  /\ state_name \in [Resources -> States_]
  /\ sending \in Resources \cup {None} /\ running_id_ \subseteq Resources
  /\ others \in 0 .. MaxOthers
  /\ unheard \subseteq Resources

LEMMA TypeParts == TypeOK <=> BarriersType /\ MachinesType /\ MessagesType /\ RecordsType
BY DEF TypeOK, BarriersType, MachinesType, MessagesType, RecordsType, States_, Kinds, Relays

\* The machine of a resource, seen from one of its states.
Transition == [regexs : Seq(Events), timed : BOOLEAN, next : States]

LEMMA MachineOf ==
  ASSUME NEW r \in Resources, NEW s \in States
  PROVE  /\ Machines[r][s].transitions \in Seq(Transition)
         /\ Machines[r][s].synchro_names_ \in Seq(Names)
         /\ Len(Machines[r][s].transitions) \in Nat
         /\ DOMAIN Machines[r][s].transitions = 1 .. Len(Machines[r][s].transitions)
         /\ \A k \in DOMAIN Machines[r][s].transitions :
              Machines[r][s].transitions[k].next \in States
         /\ \A k \in DOMAIN Machines[r][s].transitions :
              Machines[r][s].transitions[k].regexs \in Seq(Events)
<1>1. Machines[r][s] \in [transitions : Seq(Transition), synchro_names_ : Seq(Names)]
  BY MachinesAssumption DEF Transition
<1>2. Machines[r][s].transitions \in Seq(Transition)
  BY <1>1
<1>3. \A k \in DOMAIN Machines[r][s].transitions :
        Machines[r][s].transitions[k] \in Transition
  BY <1>2
<1> QED
  BY <1>1, <1>2, <1>3 DEF Transition

LEMMA TargetIsState ==
  ASSUME NEW r \in Resources, Runs(r), NEW k \in 0 .. Len(Transitions(r))
  PROVE  Target(r, k) \in States \cup {Ended}
<1>1. k # 0 => k \in DOMAIN Transitions(r)
  BY MachineOf DEF Runs, Transitions
<1> QED
  BY <1>1, MachineOf DEF Runs, Transitions, Target

LEMMA UpdateTyped ==
  ASSUME MachinesType, MessagesType, NEW r \in Resources, Runs(r), NEW event, update(r, event)
  PROVE  MachinesType' /\ statuses' \in [Resources -> Seq(Status)]
<1>0. state[r] \in States
  BY DEF Runs
<1>1. PICK elapsed \in SUBSET Timed(r), k \in 0 .. Len(Transitions(r)) :
        /\ state' = [state EXCEPT ![r] = Target(r, k)]
        /\ transition_state_' = [transition_state_ EXCEPT ![r] = Kind(r, k)]
        /\ validated' = [validated EXCEPT ![r][state[r]] = Hearing(r, k, event, elapsed)]
        /\ \/ publishState(r, Target(r, k), <<>>)
           \/ publishState(r, Target(r, k), Announced(r, Kind(r, k)))
           \/ UNCHANGED statuses
  BY DEF update
<1>2. Target(r, k) \in States \cup {Ended}
  BY TargetIsState
<1>3. state' \in [Resources -> States_] /\ transition_state_' \in [Resources -> Kinds]
  BY <1>1, <1>2 DEF MachinesType, States_, Kinds, Kind
<1>4. /\ Hearing(r, k, event, elapsed) \in Seq(SUBSET Nat)
      /\ DOMAIN Hearing(r, k, event, elapsed) = DOMAIN Transitions(r)
      /\ \A j \in DOMAIN Transitions(r) :
           Hearing(r, k, event, elapsed)[j] \subseteq DOMAIN Transitions(r)[j].regexs
  <2> DEFINE H == Hearing(r, k, event, elapsed)
  <2>1. PICK len \in Nat : DOMAIN Transitions(r) = 1 .. len
    BY <1>0, MachineOf DEF Transitions
  <2>2. DOMAIN H = 1 .. len
    BY <2>1 DEF Hearing
  <2>3. ASSUME NEW j \in 1 .. len
        PROVE  H[j] \subseteq DOMAIN Transitions(r)[j].regexs /\ H[j] \in SUBSET Nat
    <3>1. validated[r][state[r]][j] \subseteq DOMAIN Transitions(r)[j].regexs
      BY <1>0, <2>1, <2>3 DEF MachinesType, Transitions
    <3>2. Validated(r, j, event) \subseteq DOMAIN Transitions(r)[j].regexs
      BY <3>1 DEF Validated
    <3>3. H[j] \in {Validated(r, j, event), validated[r][state[r]][j]}
      BY <2>1, <2>3 DEF Hearing
    <3>4. H[j] \subseteq DOMAIN Transitions(r)[j].regexs
      BY <3>1, <3>2, <3>3
    <3>5. Transitions(r)[j].regexs \in Seq(Events)
      BY <1>0, <2>1, MachineOf DEF Transitions
    <3>6. DOMAIN Transitions(r)[j].regexs \subseteq Nat
      BY <3>5
    <3> QED BY <3>4, <3>6
  <2>4. H = [j \in 1 .. len |-> H[j]]
    BY <2>1 DEF Hearing
  <2> HIDE DEF H
  <2>5. H \in Seq(SUBSET Nat)
    BY <2>3, <2>4
  <2> QED BY <2>1, <2>2, <2>3, <2>5 DEF H
<1>5. /\ validated' \in [Resources -> [States -> Seq(SUBSET Nat)]]
      /\ \A q \in Resources : \A s \in States :
           validated'[q][s] = IF q = r /\ s = state[r] THEN Hearing(r, k, event, elapsed)
                              ELSE validated[q][s]
  BY <1>0, <1>1, <1>4 DEF MachinesType
<1>6. MachinesType'
  <2>1. ASSUME NEW q \in Resources, NEW s \in States
        PROVE  /\ DOMAIN validated'[q][s] = DOMAIN Machines[q][s].transitions
               /\ \A j \in DOMAIN validated'[q][s] :
                    validated'[q][s][j] \subseteq DOMAIN Machines[q][s].transitions[j].regexs
    <3>1. CASE q = r /\ s = state[r]
      <4>1. validated'[q][s] = Hearing(r, k, event, elapsed)
        BY <1>5, <3>1
      <4>2. Transitions(r) = Machines[q][s].transitions
        BY <3>1 DEF Transitions
      <4> QED BY <1>4, <4>1, <4>2
    <3>2. CASE ~ (q = r /\ s = state[r])
      <4>1. validated'[q][s] = validated[q][s]
        BY <1>5, <3>2
      <4> QED BY <4>1 DEF MachinesType
    <3> QED BY <3>1, <3>2
  <2> QED BY <1>3, <1>5, <2>1 DEF MachinesType
<1>7. statuses' \in [Resources -> Seq(Status)]
  <2>1. Announced(r, Kind(r, k)) \in Seq(Names) /\ <<>> \in Seq(Names)
    BY <1>0, MachineOf DEF Announced
  <2>2. \A names \in Seq(Names) : [state |-> Target(r, k), names |-> names] \in Status
    BY <1>2 DEF Status
  <2>3. \A m \in Status : Append(statuses[r], m) \in Seq(Status)
    BY DEF MessagesType
  <2> QED BY <1>1, <2>1, <2>2, <2>3 DEF MessagesType, publishState
<1> QED BY <1>6, <1>7

\* What a barrier that opens adds to the events of everybody.
LEMMA SentTyped ==
  ASSUME BarriersType, MessagesType, NEW n \in Names, NEW q \in Resources
  PROVE  /\ Sent(n, q) \in Seq(Events)
         /\ Len(Sent(n, q)) = Len(events[q]) + Times(q, synchros_[n])
         /\ \A k \in 1 .. Len(events[q]) : Sent(n, q)[k] = events[q][k]
         /\ \A k \in Len(events[q]) + 1 .. Len(Sent(n, q)) : Sent(n, q)[k] = n
<1>1. PICK list, sent, calls :
        list = events[q] /\ sent = Sent(n, q) /\ calls = Copies(n, Times(q, synchros_[n]))
  OBVIOUS
<1>2. /\ list \in Seq(Events) /\ sent = list \o calls /\ Len(list) \in Nat
  BY <1>1 DEF MessagesType, Sent
<1>3. calls \in Seq(Events) /\ Len(calls) = Times(q, synchros_[n])
      /\ \A k \in 1 .. Len(calls) : calls[k] = n
  <2>1. n \in Events /\ synchros_[n] \in Seq(Resources)
    BY DEF Events, BarriersType
  <2> QED BY <1>1, <2>1, CopiesAre
<1>4. /\ sent \in Seq(Events) /\ Len(sent) = Len(list) + Len(calls)
      /\ \A k \in 1 .. Len(list) : sent[k] = list[k]
      /\ \A k \in Len(list) + 1 .. Len(list) + Len(calls) : sent[k] = n
  BY ONLY <1>2, <1>3, Extended
<1> QED
  BY <1>1, <1>3, <1>4

\* The names a relay is left with once its first name is dealt with.
LEMMA NamesLeft ==
  ASSUME MessagesType, node # None, node.names # <<>>
  PROVE  /\ node.resource \in Resources /\ node.names \in Seq(Names)
         /\ Head(node.names) \in Names
         /\ Tail(node.names) \in Seq(Names)
         /\ Parts[Head(node.names)] \o Tail(node.names) \in Seq(Names)
<1>1. node.resource \in Resources /\ node.names \in Seq(Names)
  BY DEF MessagesType, Relays
<1>2. Head(node.names) \in Names /\ Tail(node.names) \in Seq(Names)
  BY <1>1, HeadTailProperties
<1>3. Parts[Head(node.names)] \in Seq(Names)
  BY <1>2, PartsAssumption
<1> QED BY <1>1, <1>2, <1>3, ConcatProperties

LEMMA InitTyped == Init => TypeOK
<1> SUFFICES ASSUME Init PROVE TypeOK
  OBVIOUS
<1>1. BarriersType
  BY DEF Init, BarriersType
<1>2. MachinesType
  <2>1. ASSUME NEW r \in Resources, NEW s \in States
        PROVE  /\ NoneValidated(r)[s] \in Seq(SUBSET Nat)
               /\ DOMAIN NoneValidated(r)[s] = DOMAIN Machines[r][s].transitions
               /\ \A k \in DOMAIN NoneValidated(r)[s] : NoneValidated(r)[s][k] = {}
    <3>1. NoneValidated(r)[s] = [k \in DOMAIN Machines[r][s].transitions |-> {}]
      BY DEF NoneValidated
    <3>2. PICK len \in Nat : DOMAIN Machines[r][s].transitions = 1 .. len
      BY MachineOf
    <3>3. PICK none : none = NoneValidated(r)[s]
      OBVIOUS
    <3>4. none = [k \in 1 .. len |-> {}]
      BY <3>1, <3>2, <3>3
    <3>5. none \in Seq(SUBSET Nat) /\ DOMAIN none = 1 .. len
          /\ \A k \in 1 .. len : none[k] = {}
      BY ONLY <3>4, len \in Nat
    <3> QED BY <3>2, <3>3, <3>5
  <2>2. \A r \in Resources : NoneValidated(r) = [s \in States |-> NoneValidated(r)[s]]
    BY DEF NoneValidated
  <2>3. \A r \in Resources : NoneValidated(r) \in [States -> Seq(SUBSET Nat)]
    BY <2>1, <2>2
  <2>4. /\ state = [r \in Resources |-> NotSent]
        /\ transition_state_ = [r \in Resources |-> "none"]
        /\ validated = [r \in Resources |-> NoneValidated(r)]
    BY DEF Init
  <2> QED BY <2>1, <2>3, <2>4 DEF MachinesType, States_, Kinds
<1>3. MessagesType
  BY DEF Init, MessagesType
<1>4. RecordsType
  <2>1. 0 \in 0 .. N /\ 0 \in 0 .. MaxOthers
    BY NAssumption, EventsAssumption
  <2> QED BY <2>1 DEF Init, RecordsType, States_
<1> QED BY <1>1, <1>2, <1>3, <1>4, TypeParts

LEMMA StepTyped ==
  ASSUME TypeOK, [Next]_vars
  PROVE  TypeOK'
<1>0. BarriersType /\ MachinesType /\ MessagesType /\ RecordsType
  BY TypeParts
<1> USE <1>0
<1> SUFFICES BarriersType' /\ MachinesType' /\ MessagesType' /\ RecordsType'
  BY DEF TypeOK, BarriersType, MachinesType, MessagesType, RecordsType, States_, Kinds,
         Relays
<1> DEFINE SameBarriers == UNCHANGED barriers
           SameMachines == UNCHANGED machines
           SameMessages == UNCHANGED <<statuses, events, node>>
<1>a. SameBarriers => BarriersType'
  BY DEF barriers, BarriersType
<1>b. SameMachines => MachinesType'
  BY DEF machines, MachinesType
<1>c. SameMessages => MessagesType'
  BY DEF MessagesType
<1>1. CASE RegisterNext
  <2>1. registered + 1 \in Resources
    BY <1>1 DEF RegisterNext
  <2>2. ASSUME Insert(registered + 1, Extracted[registered + 1])
        PROVE  BarriersType'
    BY <2>1, <2>2, Inserts, ExtractedAssumption
  <2>3. BarriersType'
    BY <1>1, <1>a, <2>2 DEF RegisterNext
  <2>4. registered + 1 \in 0 .. N
    BY <2>1, NAssumption DEF Resources
  <2>5. RecordsType'
    BY <1>1, <2>1, <2>4 DEF RegisterNext, RecordsType, holders
  <2> QED BY <1>1, <1>b, <1>c, <2>3, <2>5 DEF RegisterNext
<1>2. CASE SendReturns
  <2>1. RecordsType'
    BY <1>2 DEF SendReturns, RecordsType, records
  <2> QED BY <1>2, <1>a, <1>b, <1>c, <2>1 DEF SendReturns
<1>3. CASE stateMachineCancel
  <2>1. RecordsType'
    BY <1>3 DEF stateMachineCancel, RecordsType, holders
  <2> QED BY <1>3, <1>a, <1>b, <1>c, <2>1 DEF stateMachineCancel
<1>4. ASSUME NEW r \in Resources, SendCall(r)
      PROVE  BarriersType' /\ MachinesType' /\ MessagesType' /\ RecordsType'
  <2>1. RecordsType'
    BY <1>4 DEF SendCall, RecordsType, records
  <2>2. MachinesType'
    BY <1>4, MachinesAssumption DEF SendCall, MachinesType, States_
  <2> QED BY <1>4, <1>a, <1>c, <2>1, <2>2 DEF SendCall
<1>5. ASSUME NEW r \in Resources, RunOnce(r)
      PROVE  BarriersType' /\ MachinesType' /\ MessagesType' /\ RecordsType'
  <2>1. RecordsType'
    BY <1>5 DEF RunOnce, RecordsType, records, holders
  <2>2. MachinesType' /\ statuses' \in [Resources -> Seq(Status)]
    BY <1>5, UpdateTyped DEF RunOnce
  <2>3. events' \in [Resources -> Seq(Events)]
    <3>1. events[r] \in Seq(Events)
      BY DEF MessagesType
    <3>2. events[r] # <<>> => Tail(events[r]) \in Seq(Events)
      BY <3>1, HeadTailProperties
    <3> QED BY <1>5, <3>2 DEF RunOnce, MessagesType
  <2>4. MessagesType'
    BY <1>5, <2>2, <2>3 DEF RunOnce, MessagesType
  <2> QED BY <1>5, <1>a, <2>1, <2>2, <2>4 DEF RunOnce
<1>6. ASSUME NEW r \in Resources, Abort(r)
      PROVE  BarriersType' /\ MachinesType' /\ MessagesType' /\ RecordsType'
  <2>1. RecordsType'
    BY <1>6 DEF Abort, RecordsType, records, holders
  <2>2. MachinesType'
    BY <1>6 DEF Abort, MachinesType, States_
  <2>3. Append(statuses[r], [state |-> Ended, names |-> <<>>]) \in Seq(Status)
    <3>1. statuses[r] \in Seq(Status)
      BY DEF MessagesType
    <3>2. <<>> \in Seq(Names)
      OBVIOUS
    <3>3. [state |-> Ended, names |-> <<>>] \in Status
      BY <3>2 DEF Status
    <3> QED BY <3>1, <3>3
  <2>4. MessagesType'
    BY <1>6, <2>3 DEF Abort, MessagesType, publishState
  <2> QED BY <1>6, <1>a, <2>1, <2>2, <2>4 DEF Abort
<1>7. ASSUME NEW r \in Resources, NEW event \in Others, Happens(r, event)
      PROVE  BarriersType' /\ MachinesType' /\ MessagesType' /\ RecordsType'
  <2>1. RecordsType'
    BY <1>7, EventsAssumption DEF Happens, RecordsType, records, holders
  <2>2. Append(events[r], event) \in Seq(Events)
    BY DEF MessagesType, Events
  <2>3. MessagesType'
    BY <1>7, <2>2 DEF Happens, MessagesType
  <2> QED BY <1>7, <1>a, <1>b, <2>1, <2>3 DEF Happens
<1>8. ASSUME NEW r \in Resources, Relay(r)
      PROVE  BarriersType' /\ MachinesType' /\ MessagesType' /\ RecordsType'
  <2>1. BarriersType'
    BY <1>8 DEF Relay, BarriersType, reset
  <2>2. /\ Tail(statuses[r]) \in Seq(Status)
        /\ Head(statuses[r]).state \in States_ /\ Head(statuses[r]).names \in Seq(Names)
    <3>1. statuses[r] \in Seq(Status) /\ statuses[r] # <<>>
      BY <1>8 DEF Relay, MessagesType
    <3>2. Head(statuses[r]) \in Status /\ Tail(statuses[r]) \in Seq(Status)
      BY <3>1, HeadTailProperties
    <3> QED BY <3>2 DEF Status, States_
  <2>3. MessagesType'
    BY <1>8, <2>2 DEF Relay, MessagesType, Relays
  <2>4. RecordsType'
    BY <1>8, <2>2 DEF Relay, RecordsType
  <2> QED BY <1>8, <1>b, <2>1, <2>3, <2>4 DEF Relay
<1>9. CASE Activate
  <2>1. RecordsType'
    BY <1>9 DEF Activate, RecordsType, records, holders
  <2>2. node # None /\ node.names # <<>>
    BY <1>9 DEF Activate
  <2>3. node' \in Relays
    BY <1>9, <2>2, NamesLeft DEF Activate, MessagesType, Relays
  <2>4. BarriersType' /\ events' \in [Resources -> Seq(Events)]
    <3>1. CASE activate(Head(node.names), node.resource)
      <4>1. UNCHANGED synchros_ /\ events \in [Resources -> Seq(Events)]
        BY <1>9 DEF Activate, MessagesType
      <4>2. Head(node.names) \in Names /\ node.resource \in Resources
        BY <2>2, NamesLeft
      <4> DEFINE n == Head(node.names)
      <4>3. BarriersType' /\ (events' = events \/ events' = [q \in Resources |-> Sent(n, q)])
        BY <3>1, <4>1, <4>2, Activates
      <4> QED BY <4>1, <4>2, <4>3, SentTyped
    <3>2. CASE UNCHANGED <<activations_, events>>
      BY <1>9, <3>2 DEF Activate, BarriersType, MessagesType
    <3> QED BY <1>9, <3>1, <3>2 DEF Activate
  <2> QED BY <1>9, <1>b, <2>1, <2>3, <2>4 DEF Activate, MessagesType
<1>10. CASE EndRelay
  <2>1. RecordsType'
    BY <1>10 DEF EndRelay, RecordsType
  <2>2. MessagesType'
    BY <1>10 DEF EndRelay, MessagesType
  <2> QED BY <1>10, <1>a, <1>b, <2>1, <2>2 DEF EndRelay
<1>11. CASE UNCHANGED vars
  BY <1>11 DEF vars, barriers, records, holders, machines, BarriersType, MachinesType,
               MessagesType, RecordsType
<1> QED
  BY <1>1, <1>2, <1>3, <1>4, <1>5, <1>6, <1>7, <1>8, <1>9, <1>10, <1>11 DEF Next, Node

\* Every place in the list of a barrier has its activation at every moment, and the
\* conditions met in a machine are always conditions of its transitions.
THEOREM SynchronizerTyped == Spec => []TypeOK
<1>1. Init => TypeOK
  BY InitTyped
<1>2. TypeOK /\ [Next]_vars => TypeOK'
  BY StepTyped
<1> QED BY <1>1, <1>2, PTL DEF Spec
-----------------------------------------------------------------------------
(***************************************************************************)
(* What the barriers keep.                                                 *)
(***************************************************************************)

\* All the places of a resource at a barrier are filled together, and never all places.
SamePlaces ==
  \A n \in Names : \A j, k \in 1 .. Len(synchros_[n]) :
    synchros_[n][j] = synchros_[n][k] => (activations_[n][j] <=> activations_[n][k])
NotFull ==
  \A n \in Names :
    synchros_[n] = <<>> \/ \E k \in 1 .. Len(synchros_[n]) : ~ activations_[n][k]

Free == \A n \in Names : \A k \in 1 .. Len(synchros_[n]) : ~ activations_[n][k]

LEMMA FreeKeeps ==
  ASSUME BarriersType', Free'
  PROVE  SamePlaces' /\ NotFull'
<1>1. ASSUME NEW n \in Names
      PROVE  synchros_'[n] = <<>> \/ \E k \in 1 .. Len(synchros_'[n]) : ~ activations_'[n][k]
  <2>1. synchros_'[n] \in Seq(Resources)
    BY DEF BarriersType
  <2>2. synchros_'[n] = <<>> \/ 1 \in 1 .. Len(synchros_'[n])
    BY <2>1, EmptySeq
  <2> QED BY <2>2 DEF Free
<1> QED BY <1>1 DEF Free, SamePlaces, NotFull

\* Every place that a registration adds is free.
LEMMA FreeAfter ==
  ASSUME BarriersType, Free, RegisterNext
  PROVE  Free'
<1>1. registered + 1 \in Resources
  BY DEF RegisterNext
<1>2. ASSUME Insert(registered + 1, Extracted[registered + 1]) PROVE Free'
  <2> SUFFICES ASSUME NEW n \in Names, NEW k \in 1 .. Len(synchros_'[n])
               PROVE  ~ activations_'[n][k]
    BY DEF Free
  <2>1. Extracted[registered + 1] \in Seq(Names)
    BY <1>1, ExtractedAssumption
  <2>2. /\ Len(synchros_[n]) \in Nat
        /\ \A j \in 1 .. Len(synchros_[n]) : activations_'[n][j] = activations_[n][j]
        /\ \A j \in Len(synchros_[n]) + 1 .. Len(synchros_'[n]) : ~ activations_'[n][j]
    BY <1>1, <1>2, <2>1, Inserts
  <2>3. k \in 1 .. Len(synchros_[n]) \/ k \in Len(synchros_[n]) + 1 .. Len(synchros_'[n])
    BY <2>2
  <2>4. \A j \in 1 .. Len(synchros_[n]) : ~ activations_[n][j]
    BY DEF Free
  <2> QED BY <2>2, <2>3, <2>4
<1>3. ASSUME UNCHANGED barriers PROVE Free'
  BY <1>3 DEF Free, barriers
<1> QED BY <1>2, <1>3 DEF RegisterNext

\* Who is listed at a barrier, and who has reached it.
LEMMA Places ==
  ASSUME BarriersType, NEW n \in Names, NEW q
  PROVE  /\ q \in Listed(n) <=> \E k \in 1 .. Len(synchros_[n]) : synchros_[n][k] = q
         /\ q \in Reached(n) <=>
              \E k \in 1 .. Len(synchros_[n]) : activations_[n][k] /\ synchros_[n][k] = q
         /\ q \in Listed(n) => q \in Resources
BY Lists DEF Listed, Reached

LEMMA PlacesAfter ==
  ASSUME BarriersType', NEW n \in Names, NEW q
  PROVE  /\ q \in Listed(n)' <=> \E k \in 1 .. Len(synchros_'[n]) : synchros_'[n][k] = q
         /\ q \in Reached(n)' <=>
              \E k \in 1 .. Len(synchros_'[n]) : activations_'[n][k] /\ synchros_'[n][k] = q
<1>1. DOMAIN synchros_'[n] = 1 .. Len(synchros_'[n])
  BY DEF BarriersType
<1> QED BY <1>1 DEF Listed, Reached

\* A resource that has reached a barrier fills all its places.
LEMMA ReachedFills ==
  ASSUME BarriersType, SamePlaces, NEW n \in Names, NEW k \in 1 .. Len(synchros_[n])
  PROVE  synchros_[n][k] \in Reached(n) <=> activations_[n][k]
<1>1. ASSUME synchros_[n][k] \in Reached(n) PROVE activations_[n][k]
  <2>1. PICK j \in 1 .. Len(synchros_[n]) :
          activations_[n][j] /\ synchros_[n][j] = synchros_[n][k]
    BY <1>1, Places
  <2> QED BY <2>1 DEF SamePlaces
<1> QED BY <1>1, Places

LEMMA ReachedListed ==
  ASSUME BarriersType, SamePlaces, NotFull, NEW n \in Names
  PROVE  /\ Reached(n) \subseteq Listed(n)
         /\ Listed(n) # {} => \E q \in Listed(n) : q \notin Reached(n)
<1>1. Reached(n) \subseteq Listed(n)
  BY Places
<1>2. ASSUME Listed(n) # {} PROVE \E q \in Listed(n) : q \notin Reached(n)
  <2>1. synchros_[n] # <<>>
    BY <1>2 DEF Listed
  <2>2. PICK k \in 1 .. Len(synchros_[n]) : ~ activations_[n][k]
    BY <2>1 DEF NotFull
  <2>3. synchros_[n][k] \in Listed(n)
    BY Places
  <2>4. synchros_[n][k] \notin Reached(n)
    BY <2>2, ReachedFills
  <2> QED BY <2>3, <2>4
<1> QED BY <1>1, <1>2

\* What an activation does to a barrier: the resource waits there, or everybody meets;
\* a resource that is not listed changes nothing.
LEMMA ActivateMeets ==
  ASSUME BarriersType, SamePlaces, NotFull, UNCHANGED synchros_,
         events \in [Resources -> Seq(Events)],
         NEW n \in Names, NEW r \in Resources, activate(n, r)
  PROVE  /\ SamePlaces' /\ NotFull'
         /\ \A m \in Names : Listed(m)' = Listed(m)
         /\ \A m \in Names \ {n} : Reached(m)' = Reached(m)
         /\ \/ /\ r \in Listed(n) /\ Reached(n) \cup {r} # Listed(n)
               /\ Reached(n)' = Reached(n) \cup {r}
               /\ events' = events
            \/ /\ r \in Listed(n) /\ Reached(n) \cup {r} = Listed(n)
               /\ Reached(n)' = {}
               /\ events' = [q \in Resources |-> Sent(n, q)]
            \/ /\ r \notin Listed(n)
               /\ Reached(n)' = Reached(n)
               /\ events' = events
<1>1. /\ BarriersType'
      /\ \A m \in Names \ {n} : activations_'[m] = activations_[m]
      /\ synchros_' = synchros_
  BY Activates
<1>2. \A m \in Names : Listed(m)' = Listed(m)
  BY <1>1 DEF Listed
<1>3. \A m \in Names \ {n} : Reached(m)' = Reached(m)
  BY <1>1 DEF Reached
<1>4. ASSUME \A j, k \in 1 .. Len(synchros_[n]) :
               synchros_[n][j] = synchros_[n][k] =>
                 (activations_'[n][j] <=> activations_'[n][k])
      PROVE  SamePlaces'
  BY <1>1, <1>4 DEF SamePlaces
<1>5. ASSUME \/ synchros_[n] = <<>>
             \/ \E k \in 1 .. Len(synchros_[n]) : ~ activations_'[n][k]
      PROVE  NotFull'
  <2> SUFFICES ASSUME NEW m \in Names
               PROVE  \/ synchros_[m] = <<>>
                      \/ \E k \in 1 .. Len(synchros_[m]) : ~ activations_'[m][k]
    BY <1>1 DEF NotFull
  <2>1. CASE m = n
    BY <1>5, <2>1
  <2>2. CASE m # n
    BY <1>1, <2>2 DEF NotFull
  <2> QED BY <2>1, <2>2
<1>6. CASE /\ \E k \in 1 .. Len(synchros_[n]) : ~ Filled(n, r, k)
           /\ \A k \in 1 .. Len(synchros_[n]) : activations_'[n][k] = Filled(n, r, k)
           /\ events' = events
  <2>1. SamePlaces'
    BY <1>4, <1>6 DEF Filled, SamePlaces
  <2>2. NotFull'
    BY <1>5, <1>6
  <2>3. \A q : q \in Reached(n)' <=> q \in Reached(n) \/ (q = r /\ r \in Listed(n))
    <3> TAKE q
    <3>1. q \in Reached(n)' <=>
            \E k \in 1 .. Len(synchros_[n]) : Filled(n, r, k) /\ synchros_[n][k] = q
      BY <1>1, <1>6, PlacesAfter
    <3>2. q \in Reached(n) <=>
            \E k \in 1 .. Len(synchros_[n]) : activations_[n][k] /\ synchros_[n][k] = q
      BY Places
    <3>3. r \in Listed(n) <=> \E k \in 1 .. Len(synchros_[n]) : synchros_[n][k] = r
      BY Places
    <3> QED BY <3>1, <3>2, <3>3 DEF Filled
  <2>4. Reached(n) \cup {r} # Listed(n)
    <3>1. PICK k \in 1 .. Len(synchros_[n]) : ~ Filled(n, r, k)
      BY <1>6
    <3>2. synchros_[n][k] \in Listed(n) /\ synchros_[n][k] # r
      BY <3>1, Places DEF Filled
    <3>3. synchros_[n][k] \notin Reached(n)
      BY <3>1, ReachedFills DEF Filled
    <3> QED BY <3>2, <3>3
  <2> QED BY <1>2, <1>3, <1>6, <2>1, <2>2, <2>3, <2>4
<1>7. CASE /\ \A k \in 1 .. Len(synchros_[n]) : Filled(n, r, k)
           /\ \A k \in 1 .. Len(synchros_[n]) : ~ activations_'[n][k]
           /\ synchros_[n] # <<>>
           /\ events' = [q \in Resources |-> Sent(n, q)]
  <2>1. SamePlaces'
    BY <1>4, <1>7
  <2>2. PICK k \in 1 .. Len(synchros_[n]) : ~ activations_[n][k]
    BY <1>7 DEF NotFull
  <2>3. NotFull'
    BY <1>5, <1>7, <2>2
  <2>4. r \in Listed(n)
    BY <1>7, <2>2, Places DEF Filled
  <2>5. Reached(n) \cup {r} = Listed(n)
    <3>1. Reached(n) \subseteq Listed(n)
      BY ReachedListed
    <3>2. ASSUME NEW q \in Listed(n), q # r PROVE q \in Reached(n)
      <4>1. PICK j \in 1 .. Len(synchros_[n]) : synchros_[n][j] = q
        BY <3>2, Places
      <4>2. activations_[n][j]
        BY <1>7, <3>2, <4>1 DEF Filled
      <4> QED BY <4>1, <4>2, Places
    <3> QED BY <2>4, <3>1, <3>2
  <2>6. Reached(n)' = {}
    BY <1>1, <1>7, PlacesAfter
  <2> QED BY <1>2, <1>3, <1>7, <2>1, <2>3, <2>4, <2>5, <2>6
<1>8. CASE synchros_[n] = <<>> /\ UNCHANGED <<activations_, events>>
  <2>1. SamePlaces' /\ NotFull'
    BY <1>1, <1>8 DEF SamePlaces, NotFull
  <2>2. r \notin Listed(n) /\ Reached(n)' = Reached(n)
    BY <1>1, <1>8 DEF Listed, Reached
  <2> QED BY <1>2, <1>3, <1>8, <2>1, <2>2
<1> QED
  BY <1>6, <1>7, <1>8, Activates
-----------------------------------------------------------------------------
(***************************************************************************)
(* The inductive invariant.                                                *)
(***************************************************************************)

\* Nothing happens before everybody is registered.
NotBegun ==
  registered # N =>
    /\ \A r \in Resources : state[r] = NotSent /\ statuses[r] = <<>> /\ events[r] = <<>>
    /\ node = None
    /\ Free

\* A machine that is not sent has no state of its transitions.
Fresh == \A r \in Resources : state[r] = NotSent => transition_state_[r] = "none"

\* What a machine waits for is on its way: in a status, in the relay, at the barrier, or
\* coming back as an event.
Told(r, n) == \E k \in DOMAIN statuses[r] : In(n, statuses[r][k].names)
Relayed(r, n) == node # None /\ node.resource = r /\ In(n, node.names)
OnItsWay(r, n) == Told(r, n) \/ Relayed(r, n) \/ r \in Reached(n) \/ In(n, events[r])
Announces ==
  \A n \in Names : \A r \in Listed(n) :
    Simple(n) /\ WaitsFor(r, n) /\ r \notin unheard => OnItsWay(r, n)

SynInv == TypeOK /\ NotBegun /\ Fresh /\ SamePlaces /\ NotFull /\ Announces

\* A list, once an element is taken from its front, added at its end, or a list before it.
LEMMA InLists ==
  ASSUME NEW S, NEW list \in Seq(S), NEW x
  PROVE  /\ In(x, list) <=> \E k \in 1 .. Len(list) : list[k] = x
         /\ list # <<>> /\ In(x, list) => x = Head(list) \/ In(x, Tail(list))
         /\ \A y \in S : In(x, list) \/ x = y => In(x, Append(list, y))
         /\ \A front \in Seq(S) : In(x, front) \/ In(x, list) => In(x, front \o list)
<1>1. DOMAIN list = 1 .. Len(list) /\ Len(list) \in Nat
  OBVIOUS
<1>2. In(x, list) <=> \E k \in 1 .. Len(list) : list[k] = x
  BY <1>1 DEF In
<1>3. ASSUME list # <<>>, In(x, list), x # Head(list) PROVE In(x, Tail(list))
  <2>1. PICK k \in 1 .. Len(list) : list[k] = x
    BY <1>2, <1>3
  <2>2. /\ Tail(list) \in Seq(S) /\ Len(Tail(list)) = Len(list) - 1
        /\ \A j \in 1 .. Len(list) - 1 : Tail(list)[j] = list[j + 1]
        /\ Head(list) = list[1]
    BY <1>3
  <2>3. k - 1 \in 1 .. Len(list) - 1 /\ (k - 1) + 1 = k
    BY <1>1, <1>3, <2>1, <2>2
  <2>4. Tail(list)[k - 1] = x
    BY <2>1, <2>2, <2>3
  <2>5. DOMAIN Tail(list) = 1 .. Len(list) - 1
    BY <2>2
  <2> QED BY <2>3, <2>4, <2>5 DEF In
<1>4. ASSUME NEW y \in S, In(x, list) \/ x = y PROVE In(x, Append(list, y))
  <2>1. /\ DOMAIN Append(list, y) = 1 .. Len(list) + 1
        /\ \A k \in 1 .. Len(list) : Append(list, y)[k] = list[k]
        /\ Append(list, y)[Len(list) + 1] = y
    BY <1>1
  <2>2. CASE In(x, list)
    <3>1. PICK k \in 1 .. Len(list) : list[k] = x
      BY <1>2, <2>2
    <3> QED BY <1>1, <2>1, <3>1 DEF In
  <2>3. CASE x = y
    BY <1>1, <2>1, <2>3 DEF In
  <2> QED BY <1>4, <2>2, <2>3
<1>5. ASSUME NEW front \in Seq(S), In(x, front) \/ In(x, list) PROVE In(x, front \o list)
  <2>1. /\ Len(front) \in Nat /\ DOMAIN front = 1 .. Len(front)
        /\ DOMAIN (front \o list) = 1 .. Len(front) + Len(list)
        /\ \A k \in 1 .. Len(front) + Len(list) : (front \o list)[k] =
             IF k <= Len(front) THEN front[k] ELSE list[k - Len(front)]
    BY ConcatProperties
  <2>2. CASE In(x, front)
    <3>1. PICK k \in 1 .. Len(front) : front[k] = x
      BY <2>1, <2>2 DEF In
    <3> QED BY <1>1, <2>1, <3>1 DEF In
  <2>3. CASE In(x, list)
    <3>1. PICK k \in 1 .. Len(list) : list[k] = x
      BY <1>2, <2>3
    <3>2. k + Len(front) \in 1 .. Len(front) + Len(list)
          /\ ~ (k + Len(front) <= Len(front)) /\ (k + Len(front)) - Len(front) = k
      BY <1>1, <2>1, <3>1
    <3>3. (front \o list)[k + Len(front)] = x
      BY <2>1, <3>1, <3>2
    <3> QED BY <2>1, <3>2, <3>3 DEF In
  <2> QED BY <1>5, <2>2, <2>3
<1> QED BY <1>2, <1>3, <1>4, <1>5

\* The names announced by some status on its way.
LEMMA ToldIs ==
  ASSUME NEW r, NEW n
  PROVE  Told(r, n) <=> \E m : In(m, statuses[r]) /\ In(n, m.names)
BY DEF Told, In

LEMMA ToldIsAfter ==
  ASSUME NEW r, NEW n
  PROVE  Told(r, n)' <=> \E m : In(m, statuses'[r]) /\ In(n, m.names)
BY DEF Told, In

\* A machine that still waits after a turn of its runner waited already, or has just
\* announced what it waits for; and the event was another one.
LEMMA StillWaits ==
  ASSUME MachinesType, MessagesType, NEW r \in Resources, NEW n \in Names, NEW event,
         Runs(r), update(r, event), WaitsFor(r, n)'
  PROVE  /\ event # n
         /\ \/ WaitsFor(r, n) /\ (Told(r, n) => Told(r, n)')
            \/ Told(r, n)'
<1>0. state[r] \in States
  BY DEF Runs
<1>1. PICK elapsed \in SUBSET Timed(r), k \in 0 .. Len(Transitions(r)) :
        /\ state' = [state EXCEPT ![r] = Target(r, k)]
        /\ transition_state_' = [transition_state_ EXCEPT ![r] = Kind(r, k)]
        /\ validated' = [validated EXCEPT ![r][state[r]] = Hearing(r, k, event, elapsed)]
        /\ IF Target(r, k) # state[r] THEN publishState(r, Target(r, k), <<>>)
           ELSE IF Kind(r, k) # transition_state_[r]
           THEN publishState(r, Target(r, k), Announced(r, Kind(r, k)))
           ELSE UNCHANGED statuses
  BY DEF update
<1>2. Kind(r, k) = "wait_synchro" /\ k = 0
  BY <1>1 DEF WaitsFor, MachinesType, Kind
<1>3. Target(r, k) = state[r] /\ state' = state
  <2>1. Target(r, k) \in States
    BY <1>1 DEF WaitsFor, Runs, MachinesType
  <2>2. Target(r, k) = state[r]
    BY <1>2, <2>1, StatesAssumption DEF Target
  <2> QED BY <1>1, <2>2 DEF MachinesType
<1>4. validated'[r][state[r]] = Hearing(r, k, event, elapsed)
  BY <1>0, <1>1 DEF MachinesType
<1>5a. PICK j \in DOMAIN Transitions(r) : \E x \in DOMAIN Transitions(r)[j].regexs :
         Transitions(r)[j].regexs[x] = n /\ x \notin Hearing(r, k, event, elapsed)[j]
  BY <1>3, <1>4 DEF WaitsFor, Transitions
<1>5. PICK x \in DOMAIN Transitions(r)[j].regexs :
        Transitions(r)[j].regexs[x] = n /\ x \notin Hearing(r, k, event, elapsed)[j]
  BY <1>5a
<1>6. Hearing(r, k, event, elapsed)[j] =
        IF event # NoEvent THEN Validated(r, j, event) ELSE validated[r][state[r]][j]
  BY <1>2, <1>5 DEF Hearing
<1>7. event # n
  <2>1. ASSUME event = n PROVE FALSE
    <3>1. event # NoEvent
      BY <2>1, EventsAssumption DEF Events
    <3>2. x \in Validated(r, j, event)
      BY <1>5, <2>1 DEF Validated
    <3> QED BY <1>5, <1>6, <3>1, <3>2
  <2> QED BY <2>1
<1>8. x \notin validated[r][state[r]][j]
  BY <1>5, <1>6 DEF Validated
<1>9. CASE transition_state_[r] = "wait_synchro"
  <2>1. WaitsFor(r, n)
    BY <1>0, <1>5, <1>8, <1>9 DEF WaitsFor, Runs
  <2>2. UNCHANGED statuses
    BY <1>1, <1>2, <1>3, <1>9
  <2> QED BY <1>7, <2>1, <2>2 DEF Told
<1>10. CASE transition_state_[r] # "wait_synchro"
  <2> DEFINE names == Machines[r][state[r]].synchro_names_
             message == [state |-> state[r], names |-> names]
  <2>1. statuses' = [statuses EXCEPT ![r] = Append(@, message)]
    BY <1>1, <1>2, <1>3, <1>10 DEF publishState, Announced
  <2>2. In(n, names)
    <3>1. Listens(r, state[r], n)
      <4>1. DOMAIN Transitions(r)[j].regexs # {} /\ In(n, Transitions(r)[j].regexs)
        BY <1>5 DEF In
      <4> QED BY <1>5, <4>1 DEF Listens, Transitions
    <3> QED BY <1>0, <3>1, MachinesAssumption
  <2>3. statuses[r] \in Seq(Status) /\ message \in Status
    <3>1. names \in Seq(Names)
      BY <1>0, MachineOf
    <3> QED BY <1>0, <3>1 DEF MessagesType, Status
  <2>4. statuses'[r] = Append(statuses[r], message)
    BY <2>1 DEF MessagesType
  <2>5. In(message, statuses'[r])
    BY <2>3, <2>4, InLists
  <2>6. Told(r, n)'
    BY <2>2, <2>5, ToldIsAfter
  <2> QED BY <1>7, <2>6
<1> QED BY <1>9, <1>10
LEMMA InitInv == Init => SynInv
<1> SUFFICES ASSUME Init PROVE SynInv
  OBVIOUS
<1>1. TypeOK
  BY InitTyped
<1>2. Free
  BY DEF Init, Free
<1>3. SamePlaces /\ NotFull
  BY DEF Init, SamePlaces, NotFull
<1>4. NotBegun
  BY <1>2 DEF Init, NotBegun
<1>5. Fresh
  BY DEF Init, Fresh
<1>6. Announces
  BY DEF Init, Announces, Listed
<1> QED BY <1>1, <1>3, <1>4, <1>5, <1>6 DEF SynInv

\* Before the end of the registration nothing can happen but the next one.
LEMMA BegunAfter ==
  ASSUME TypeOK, NotBegun, [Next]_vars
  PROVE  NotBegun'
<1>0. BarriersType /\ MachinesType /\ MessagesType
  BY TypeParts
<1> USE <1>0
<1>1. CASE RegisterNext
  <2>1. registered + 1 \in Resources /\ registered # N
    BY <1>1, NAssumption DEF RegisterNext, Resources
  <2>2. UNCHANGED <<state, statuses, events, node>>
    BY <1>1 DEF RegisterNext, machines
  <2>3. Free'
    BY <1>1, <2>1, FreeAfter DEF NotBegun
  <2> QED BY <2>1, <2>2, <2>3 DEF NotBegun
<1>2. ASSUME ~ RegisterNext, registered # N
      PROVE  UNCHANGED <<state, statuses, events, node, barriers>>
  <2>1. \A r \in Resources : state[r] = NotSent /\ statuses[r] = <<>> /\ ~ Runs(r)
    BY <1>2, StatesAssumption DEF NotBegun, Runs
  <2>2. node = None
    BY <1>2 DEF NotBegun
  <2>3. CASE SendReturns
    BY <2>3 DEF SendReturns, machines
  <2>4. CASE stateMachineCancel
    BY <2>4 DEF stateMachineCancel, machines
  <2>5. \A r \in Resources : ~ SendCall(r) /\ ~ RunOnce(r) /\ ~ Abort(r) /\ ~ Relay(r)
    BY <1>2, <2>1 DEF SendCall, RunOnce, Abort, Relay
  <2>6. \A r \in Resources : \A event \in Others : ~ Happens(r, event)
    BY <2>1 DEF Happens
  <2>7. ~ Activate /\ ~ EndRelay
    BY <2>2 DEF Activate, EndRelay
  <2>8. CASE UNCHANGED vars
    BY <2>8 DEF vars, machines
  <2> QED BY <1>2, <2>3, <2>4, <2>5, <2>6, <2>7, <2>8 DEF Next, Node
<1>3. ASSUME ~ RegisterNext PROVE registered' = registered
  BY <1>3 DEF Next, Node, SendReturns, stateMachineCancel, SendCall, RunOnce, Abort, Happens,
              Relay, Activate, EndRelay, vars, records
<1>4. CASE ~ RegisterNext
  BY <1>2, <1>3, <1>4 DEF NotBegun, Free, barriers
<1> QED BY <1>1, <1>4

LEMMA FreshAfter ==
  ASSUME TypeOK, Fresh, [Next]_vars
  PROVE  Fresh'
<1>0. MachinesType
  BY TypeParts
<1> USE <1>0
<1>1. ASSUME NEW r \in Resources, RunOnce(r) PROVE Fresh'
  <2>1. PICK k \in 0 .. Len(Transitions(r)) :
          /\ state' = [state EXCEPT ![r] = Target(r, k)]
          /\ transition_state_' = [transition_state_ EXCEPT ![r] = Kind(r, k)]
    BY <1>1 DEF RunOnce, update
  <2>2. Target(r, k) # NotSent
    BY <1>1, TargetIsState, StatesAssumption DEF RunOnce
  <2> QED BY <2>1, <2>2 DEF Fresh, MachinesType
<1>2. ASSUME NEW r \in Resources, SendCall(r) \/ Abort(r) PROVE Fresh'
  <2>1. state' = [state EXCEPT ![r] = Initial[r]] \/ state' = [state EXCEPT ![r] = Ended]
    BY <1>2 DEF SendCall, Abort
  <2>2. Initial[r] # NotSent /\ Ended # NotSent
    BY StatesAssumption, MachinesAssumption
  <2>3. transition_state_' = transition_state_
    BY <1>2 DEF SendCall, Abort
  <2> QED BY <2>1, <2>2, <2>3 DEF Fresh, MachinesType
<1>3. ASSUME UNCHANGED machines PROVE Fresh'
  BY <1>3 DEF Fresh, machines
<1>4. CASE UNCHANGED vars
  BY <1>3, <1>4 DEF vars
<1> QED
  BY <1>1, <1>2, <1>3, <1>4 DEF Next, Node, RegisterNext, SendReturns, stateMachineCancel,
     Happens, Relay, Activate, EndRelay

\* Only an activation and the registration touch the barriers.
LEMMA SameBarriers ==
  ASSUME [Next]_vars, ~ RegisterNext, ~ Activate
  PROVE  UNCHANGED barriers
<1>1. CASE UNCHANGED vars
  BY <1>1 DEF vars
<1>2. CASE \E r \in Resources : Relay(r)
  BY <1>2 DEF Relay, barriers, reset
<1> QED
  BY <1>1, <1>2 DEF Next, Node, SendReturns, stateMachineCancel, SendCall, RunOnce, Abort,
     Happens, EndRelay

LEMMA PlacesKept ==
  ASSUME SynInv, [Next]_vars
  PROVE  SamePlaces' /\ NotFull'
<1>0. BarriersType /\ MessagesType /\ TypeOK'
  BY TypeParts, StepTyped DEF SynInv
<1> USE <1>0 DEF SynInv
<1>1. CASE RegisterNext
  <2>1. Free
    BY <1>1, NAssumption DEF RegisterNext, Resources, NotBegun
  <2>2. Free'
    BY <1>1, <2>1, FreeAfter
  <2>3. BarriersType'
    BY DEF TypeOK, BarriersType
  <2> QED BY <2>2, <2>3, FreeKeeps
<1>2. CASE Activate
  <2>1. node # None /\ node.names # <<>>
    BY <1>2 DEF Activate
  <2>2. Head(node.names) \in Names /\ node.resource \in Resources
    BY <2>1, NamesLeft
  <2>3. CASE activate(Head(node.names), node.resource)
    <3>1. UNCHANGED synchros_ /\ events \in [Resources -> Seq(Events)]
      BY <1>2 DEF Activate, MessagesType
    <3> QED BY <2>2, <2>3, <3>1, ActivateMeets
  <2>4. CASE UNCHANGED barriers
    BY <2>4 DEF barriers, SamePlaces, NotFull
  <2> QED BY <1>2, <2>3, <2>4 DEF Activate, barriers
<1>3. CASE ~ RegisterNext /\ ~ Activate
  <2>1. UNCHANGED barriers
    BY <1>3, SameBarriers
  <2> QED BY <2>1 DEF barriers, SamePlaces, NotFull
<1> QED BY <1>1, <1>2, <1>3
\* A relay keeps its resource while it goes through its names.
LEMMA RelayStays ==
  ASSUME MessagesType, node # None, NEW names \in Seq(Names),
         node' = [node EXCEPT !.names = names]
  PROVE  node' # None /\ node'.resource = node.resource /\ node'.names = names
<1>1. node \in Relays
  BY DEF MessagesType
<1>2. node' \in Relays /\ node'.resource = node.resource /\ node'.names = names
  BY <1>1 DEF Relays
<1> QED BY <1>2, NoneAssumption DEF Relays

LEMMA RelayBegins ==
  ASSUME MessagesType, NEW r \in Resources, statuses[r] # <<>>
  PROVE  [resource |-> r, names |-> Head(statuses[r]).names] # None
<1>1. statuses[r] \in Seq(Status)
  BY DEF MessagesType
<1>2. Head(statuses[r]) \in Status
  BY <1>1, HeadTailProperties
<1>3. [resource |-> r, names |-> Head(statuses[r]).names]
        \in [resource : Resources, names : Seq(Names)]
  BY <1>2 DEF Status
<1> QED BY <1>3, NoneAssumption

\* A relay, whether its status is ignored or not, forgets no name.
LEMMA RelayKeeps ==
  ASSUME TypeOK, NEW r \in Resources, Relay(r), NEW q \in Resources, NEW n \in Names,
         OnItsWay(q, n), q \notin unheard'
  PROVE  OnItsWay(q, n)'
<1>0. MessagesType
  BY TypeParts
<1>1. /\ statuses' = [statuses EXCEPT ![r] = Tail(@)] /\ statuses[r] # <<>>
      /\ UNCHANGED <<synchros_, activations_, events>>
  BY DEF Relay, reset
<1>2. q \in Reached(n) => q \in Reached(n)'
  BY <1>1 DEF Reached
<1>3. In(n, events[q]) => In(n, events[q])'
  BY <1>1 DEF In
<1>4. ASSUME Relayed(q, n) PROVE OnItsWay(q, n)'
  <2>1. UNCHANGED node
    BY <1>4 DEF Relay, Relayed
  <2> QED BY <1>4, <2>1 DEF OnItsWay, Relayed, In
<1>5. ASSUME Told(q, n), q # r PROVE Told(q, n)'
  <2>1. statuses'[q] = statuses[q]
    BY <1>0, <1>1, <1>5 DEF MessagesType
  <2> QED BY <1>5, <2>1 DEF Told
<1>6. ASSUME Told(q, n), q = r PROVE OnItsWay(q, n)'
  <2>1. PICK m : In(m, statuses[r]) /\ In(n, m.names)
    BY <1>6, ToldIs
  <2>2. statuses[r] \in Seq(Status) /\ statuses'[r] = Tail(statuses[r])
    BY <1>0, <1>1 DEF MessagesType
  <2>3. m = Head(statuses[r]) \/ In(m, statuses'[r])
    BY <1>1, <2>1, <2>2, InLists
  <2>4. CASE In(m, statuses'[r])
    BY <1>6, <2>1, <2>4, ToldIsAfter DEF OnItsWay
  <2>5. CASE m = Head(statuses[r])
    <3>1. In(n, Head(statuses[r]).names) /\ Head(statuses[r]).names # <<>>
      BY <2>1, <2>5 DEF In
    <3>2. CASE r \notin running_id_ \/ ~ _status
      BY <1>6, <3>1, <3>2 DEF Relay
    <3>3. CASE ~ (r \notin running_id_ \/ ~ _status)
      <4>1. node' = [resource |-> r, names |-> Head(statuses[r]).names]
        BY <3>3 DEF Relay
      <4>2. node' # None
        BY <1>0, <1>1, <4>1, RelayBegins
      <4> QED BY <1>6, <3>1, <4>1, <4>2 DEF OnItsWay, Relayed, In
    <3> QED BY <3>2, <3>3
  <2> QED BY <2>3, <2>4, <2>5
<1> QED
  BY <1>2, <1>3, <1>4, <1>5, <1>6 DEF OnItsWay

\* Activating a barrier moves a name to the places filled, or to the events.
LEMMA ActivateKeeps ==
  ASSUME SynInv, Activate, NEW q \in Resources, NEW n \in Names, q \in Listed(n), Simple(n),
         OnItsWay(q, n)
  PROVE  OnItsWay(q, n)'
<1>0. BarriersType /\ MessagesType
  BY TypeParts DEF SynInv
<1>1. UNCHANGED <<synchros_, statuses>> /\ node # None /\ node.names # <<>>
  BY DEF Activate
<1>2. PICK first, rest, r : first = Head(node.names) /\ rest = Tail(node.names)
                            /\ r = node.resource
  OBVIOUS
<1>3. /\ first \in Names /\ rest \in Seq(Names) /\ r \in Resources
      /\ node.names \in Seq(Names) /\ Parts[first] \in Seq(Names)
  BY <1>0, <1>1, <1>2, NamesLeft, PartsAssumption
<1>4. Told(q, n) => Told(q, n)'
  BY <1>1 DEF Told
<1>5. Relayed(q, n) => q = r /\ (n = first \/ In(n, rest))
  BY <1>1, <1>2, <1>3, InLists DEF Relayed
<1>6. CASE ~ Simple(first)
  <2>1. UNCHANGED <<activations_, events>> /\ node' = [node EXCEPT !.names = Parts[first] \o rest]
    BY <1>2, <1>6 DEF Activate
  <2>2. ASSUME Relayed(q, n) PROVE Relayed(q, n)'
    <3>1. In(n, Parts[first] \o rest)
      BY <1>3, <1>5, <1>6, <2>2, InLists
    <3>2. Parts[first] \o rest \in Seq(Names)
      BY <1>3, ConcatProperties
    <3>3. node' # None /\ node'.resource = node.resource /\ node'.names = Parts[first] \o rest
      BY <1>0, <1>1, <2>1, <3>2, RelayStays
    <3> QED BY <2>2, <3>1, <3>3 DEF Relayed
  <2> QED BY <1>1, <1>4, <2>1, <2>2 DEF OnItsWay, Reached, In
<1>7. CASE Simple(first)
  <2>1. activate(first, r) /\ node' = [node EXCEPT !.names = rest]
    BY <1>2, <1>7 DEF Activate
  <2>2. events \in [Resources -> Seq(Events)]
    BY <1>0 DEF MessagesType
  <2>3. /\ \A m \in Names \ {first} : Reached(m)' = Reached(m)
        /\ \/ /\ q = r /\ n = first => q \in Reached(n)'
              /\ n = first => Reached(n) \subseteq Reached(n)'
              /\ events' = events
           \/ events' = [p \in Resources |-> Sent(first, p)]
    BY <1>0, <1>1, <1>3, <2>1, <2>2, ActivateMeets DEF SynInv
  <2>4. ASSUME In(n, rest), q = r PROVE Relayed(q, n)'
    <3>1. node' # None /\ node'.resource = node.resource /\ node'.names = rest
      BY <1>0, <1>1, <1>3, <2>1, RelayStays
    <3> QED BY <1>2, <2>4, <3>1 DEF Relayed
  <2>5. CASE events' = events /\ (n = first => Reached(n) \subseteq Reached(n)')
             /\ (q = r /\ n = first => q \in Reached(n)')
    BY <1>4, <1>5, <2>3, <2>4, <2>5 DEF OnItsWay, In
  <2>6. CASE events' = [p \in Resources |-> Sent(first, p)]
    <3>1. events'[q] = events[q] \o Copies(first, Times(q, synchros_[first]))
      BY <2>6 DEF Sent
    <3>2. PICK calls : calls = Copies(first, Times(q, synchros_[first]))
      OBVIOUS
    <3>3. synchros_[first] \in Seq(Resources) /\ first \in Events
      BY <1>0, <1>3 DEF BarriersType, Events
    <3>4. /\ calls \in Seq(Events) /\ Len(calls) = Times(q, synchros_[first])
          /\ \A k \in 1 .. Len(calls) : calls[k] = first
      BY <3>2, <3>3, CopiesAre
    <3>5. events[q] \in Seq(Events) /\ events'[q] = events[q] \o calls
      BY <2>2, <3>1, <3>2
    <3>6. ASSUME In(n, events[q]) \/ In(n, calls) PROVE In(n, events'[q])
      <4>1. PICK list, longer : list = events[q] /\ longer = events'[q]
        OBVIOUS
      <4>2. list \in Seq(Events) /\ longer = list \o calls /\ (In(n, list) \/ In(n, calls))
        BY <3>5, <3>6, <4>1
      <4>3. In(n, longer)
        BY ONLY <3>4, <4>2, InLists
      <4> QED BY <4>1, <4>3
    <3>7. ASSUME n = first PROVE In(n, events'[q])
      <4>1. In(q, synchros_[first])
        BY <1>0, <3>7, Places, Lists DEF In
      <4>2. Times(q, synchros_[first]) \in Nat /\ Times(q, synchros_[first]) > 0
        BY <3>3, <4>1, TimesCounts
      <4>3. 1 \in 1 .. Len(calls)
        BY <3>4, <4>2
      <4>4. In(n, calls)
        BY <3>4, <3>7, <4>3, InLists
      <4> QED BY <3>6, <4>4
    <3> QED BY <1>4, <1>5, <2>3, <2>4, <3>6, <3>7 DEF OnItsWay, In
  <2> QED BY <2>3, <2>5, <2>6
<1> QED BY <1>6, <1>7
LEMMA ListedAfter ==
  ASSUME BarriersType', NEW n \in Names, NEW r \in Listed(n)'
  PROVE  r \in Resources
<1>1. synchros_'[n] \in Seq(Resources)
  BY DEF BarriersType
<1> QED BY <1>1 DEF Listed

\* A turn of one runner leaves the other machines alone.
LEMMA UpdateOthers ==
  ASSUME MachinesType, MessagesType, NEW q \in Resources, NEW event, Runs(q),
         update(q, event), NEW r \in Resources, r # q
  PROVE  /\ state'[r] = state[r] /\ transition_state_'[r] = transition_state_[r]
         /\ validated'[r] = validated[r] /\ statuses'[r] = statuses[r]
<1>1. PICK elapsed \in SUBSET Timed(q), k \in 0 .. Len(Transitions(q)) :
        /\ state' = [state EXCEPT ![q] = Target(q, k)]
        /\ transition_state_' = [transition_state_ EXCEPT ![q] = Kind(q, k)]
        /\ validated' = [validated EXCEPT ![q][state[q]] = Hearing(q, k, event, elapsed)]
        /\ \/ publishState(q, Target(q, k), <<>>)
           \/ publishState(q, Target(q, k), Announced(q, Kind(q, k)))
           \/ UNCHANGED statuses
  BY DEF update
<1> QED BY <1>1 DEF MachinesType, MessagesType, publishState

LEMMA AnnouncesKept ==
  ASSUME SynInv, [Next]_vars
  PROVE  Announces'
<1>0. /\ BarriersType /\ MachinesType /\ MessagesType /\ RecordsType
      /\ BarriersType' /\ TypeOK' /\ TypeOK
  <2>1. TypeOK /\ TypeOK'
    BY StepTyped DEF SynInv
  <2> QED BY <2>1, TypeParts DEF TypeOK, BarriersType
<1> SUFFICES ASSUME NEW n \in Names, NEW r \in Listed(n)', Simple(n), WaitsFor(r, n)',
                    r \notin unheard'
             PROVE  OnItsWay(r, n)'
  BY DEF Announces, Simple
<1>1. r \in Resources
  BY <1>0, ListedAfter
<1>2. ~ RegisterNext
  <2>1. ASSUME RegisterNext PROVE FALSE
    <3>1. state[r] = NotSent /\ UNCHANGED state
      BY <1>1, <2>1, NAssumption
         DEF RegisterNext, Resources, SynInv, NotBegun, machines
    <3> QED BY <3>1, StatesAssumption DEF WaitsFor, Runs
  <2> QED BY <2>1
<1>3. UNCHANGED synchros_ /\ r \in Listed(n)
  <2>1. UNCHANGED synchros_
    BY <1>2, SameBarriers DEF Activate, barriers
  <2> QED BY <2>1 DEF Listed
<1>4. ASSUME WaitsFor(r, n), r \notin unheard PROVE OnItsWay(r, n)
  BY <1>3, <1>4 DEF SynInv, Announces
<1>5. ASSUME state'[r] = state[r], transition_state_'[r] = transition_state_[r],
             validated'[r] = validated[r]
      PROVE  WaitsFor(r, n)
  BY <1>5 DEF WaitsFor, Runs, Transitions
<1>6. ASSUME OnItsWay(r, n), UNCHANGED <<synchros_, activations_, node>>,
             Told(r, n) => Told(r, n)', In(n, events[r]) => In(n, events[r])'
      PROVE  OnItsWay(r, n)'
  BY <1>6 DEF OnItsWay, Relayed, Reached, In
<1>7. CASE SendReturns \/ stateMachineCancel \/ UNCHANGED vars
  <2>1. UNCHANGED <<synchros_, activations_, node, statuses, events, machines, unheard>>
    BY <1>7 DEF SendReturns, stateMachineCancel, vars, barriers
  <2> QED BY <1>4, <1>5, <1>6, <2>1 DEF Told, In, machines
<1>8. ASSUME NEW q \in Resources, SendCall(q) PROVE OnItsWay(r, n)'
  <2>1. UNCHANGED <<synchros_, activations_, node, statuses, events, unheard,
                    transition_state_, validated>>
    BY <1>8 DEF SendCall, barriers
  <2>2. r # q
    <3>1. transition_state_[q] = "none"
      BY <1>8 DEF SendCall, SynInv, Fresh
    <3> QED BY <2>1, <3>1 DEF WaitsFor
  <2>3. state'[r] = state[r]
    BY <1>0, <1>1, <1>8, <2>2 DEF SendCall, MachinesType
  <2> QED BY <1>4, <1>5, <1>6, <2>1, <2>3 DEF Told, In
<1>9. ASSUME NEW q \in Resources, RunOnce(q) PROVE OnItsWay(r, n)'
  <2> DEFINE event == IF events[q] = <<>> THEN NoEvent ELSE Head(events[q])
  <2>1. /\ UNCHANGED <<synchros_, activations_, node, unheard>>
        /\ Runs(q) /\ update(q, event)
        /\ events' = [events EXCEPT ![q] =
              IF @ = <<>> \/ state'[q] = Ended THEN <<>> ELSE Tail(@)]
    BY <1>9 DEF RunOnce, barriers
  <2>2. CASE r # q
    <3>1. /\ state'[r] = state[r] /\ transition_state_'[r] = transition_state_[r]
          /\ validated'[r] = validated[r] /\ statuses'[r] = statuses[r]
          /\ events'[r] = events[r]
      BY <1>0, <1>1, <2>1, <2>2, UpdateOthers DEF MessagesType
    <3> QED BY <1>4, <1>5, <1>6, <2>1, <3>1 DEF Told, In
  <2>3. CASE r = q
    <3>1. /\ event # n
          /\ \/ WaitsFor(r, n) /\ (Told(r, n) => Told(r, n)')
             \/ Told(r, n)'
      BY <1>0, <2>1, <2>3, StillWaits
    <3>2. state'[r] # Ended
      BY StatesAssumption DEF WaitsFor, Runs
    <3>3. ASSUME In(n, events[r]) PROVE In(n, events'[r])
      <4>1. events[r] # <<>> /\ events[r] \in Seq(Events)
        BY <1>0, <1>1, <3>3 DEF In, MessagesType
      <4>2. events'[r] = Tail(events[r]) /\ event = Head(events[r])
        BY <1>0, <2>1, <2>3, <3>2, <4>1 DEF MessagesType
      <4> QED BY <3>1, <3>3, <4>1, <4>2, InLists
    <3>4. CASE Told(r, n)'
      BY <3>4 DEF OnItsWay
    <3>5. CASE WaitsFor(r, n) /\ (Told(r, n) => Told(r, n)')
      <4>1. In(n, events[r]) => In(n, events[r])'
        BY <3>3 DEF In
      <4> QED BY <1>4, <1>6, <2>1, <3>5, <4>1
    <3> QED BY <3>1, <3>4, <3>5
  <2> QED BY <2>2, <2>3
<1>10. ASSUME NEW q \in Resources, Abort(q) PROVE OnItsWay(r, n)'
  <2>1. /\ UNCHANGED <<synchros_, activations_, node, unheard, transition_state_, validated>>
        /\ state' = [state EXCEPT ![q] = Ended]
        /\ events' = [events EXCEPT ![q] = <<>>]
        /\ \E m : statuses' = [statuses EXCEPT ![q] = m]
    BY <1>10 DEF Abort, barriers, publishState
  <2>2. r # q
    BY <1>0, <2>1, StatesAssumption DEF WaitsFor, Runs, MachinesType
  <2>3. state'[r] = state[r] /\ events'[r] = events[r] /\ statuses'[r] = statuses[r]
    BY <1>0, <1>1, <2>1, <2>2 DEF MachinesType, MessagesType
  <2> QED BY <1>4, <1>5, <1>6, <2>1, <2>3 DEF Told, In
<1>11. ASSUME NEW q \in Resources, NEW event \in Others, Happens(q, event)
       PROVE  OnItsWay(r, n)'
  <2>1. /\ UNCHANGED <<synchros_, activations_, node, unheard, machines, statuses>>
        /\ events' = [events EXCEPT ![q] = Append(@, event)]
    BY <1>11 DEF Happens, barriers
  <2>2. ASSUME In(n, events[r]) PROVE In(n, events'[r])
    <3>1. event \in Events /\ events[r] \in Seq(Events)
      BY <1>0, <1>1 DEF Events, MessagesType
    <3>2. events'[r] = events[r] \/ events'[r] = Append(events[r], event)
      BY <1>0, <1>1, <2>1 DEF MessagesType
    <3>3. PICK list, longer : list = events[r] /\ longer = events'[r]
      OBVIOUS
    <3>4. /\ list \in Seq(Events) /\ In(n, list)
          /\ longer = list \/ longer = Append(list, event)
      BY <2>2, <3>1, <3>2, <3>3
    <3>5. event \in Events
      BY <3>1
    <3>6. \A y \in Events : In(n, list) \/ n = y => In(n, Append(list, y))
      BY ONLY <3>4, InLists
    <3>7. In(n, longer)
      BY ONLY <3>4, <3>5, <3>6
    <3> QED BY <3>3, <3>7
  <2>3. In(n, events[r]) => In(n, events[r])'
    BY <2>2 DEF In
  <2> QED BY <1>4, <1>5, <1>6, <2>1, <2>3 DEF Told, machines
<1>12. ASSUME NEW q \in Resources, Relay(q) PROVE OnItsWay(r, n)'
  <2>1. UNCHANGED machines /\ unheard \subseteq unheard'
    BY <1>12 DEF Relay
  <2>2. OnItsWay(r, n)
    BY <1>4, <1>5, <2>1 DEF machines
  <2> QED BY <1>0, <1>1, <1>12, <2>2, RelayKeeps
<1>13. CASE Activate
  <2>1. UNCHANGED <<machines, unheard>>
    BY <1>13 DEF Activate
  <2>2. OnItsWay(r, n)
    BY <1>4, <1>5, <2>1 DEF machines
  <2> QED BY <1>1, <1>3, <1>13, <2>2, ActivateKeeps
<1>14. CASE EndRelay
  <2>1. UNCHANGED <<machines, unheard, synchros_, activations_, statuses, events>>
    BY <1>14 DEF EndRelay, barriers
  <2>2. OnItsWay(r, n)
    BY <1>4, <1>5, <2>1 DEF machines
  <2>3. ~ Relayed(r, n)
    BY <1>14 DEF EndRelay, Relayed, In
  <2> QED BY <2>1, <2>2, <2>3 DEF OnItsWay, Told, Reached, In
<1> QED
  BY <1>2, <1>7, <1>8, <1>9, <1>10, <1>11, <1>12, <1>13, <1>14 DEF Next, Node
LEMMA SynInvHolds == Spec => []SynInv
<1>1. Init => SynInv
  BY InitInv
<1>2. SynInv /\ [Next]_vars => SynInv'
  BY StepTyped, BegunAfter, FreshAfter, PlacesKept, AnnouncesKept DEF SynInv
<1> QED BY <1>1, <1>2, PTL DEF Spec

\* No meeting is missed, whatever the machines listen to and however they are delayed:
\* when all who are listed at a barrier wait for it and nothing is on its way, each of
\* them has reached it, which activate() never leaves so.
THEOREM NoMeetingIsMissed == Spec => []NoMissedMeeting
<1>1. SynInv => NoMissedMeeting
  <2> SUFFICES ASSUME SynInv, NEW n \in Names, Simple(n), AllWait(n), node = None,
                      \A r \in Listed(n) : Settled(r)
               PROVE  FALSE
    BY DEF NoMissedMeeting
  <2>1. BarriersType
    BY TypeParts DEF SynInv
  <2>2. PICK r \in Listed(n) : r \notin Reached(n)
    BY <2>1, ReachedListed DEF AllWait, SynInv
  <2>3. OnItsWay(r, n)
    BY DEF AllWait, SynInv, Announces
  <2>4. ~ Told(r, n) /\ ~ In(n, events[r])
    BY DEF Settled, Told, In
  <2>5. ~ Relayed(r, n)
    BY DEF Relayed
  <2> QED BY <2>2, <2>3, <2>4, <2>5 DEF OnItsWay
<1> QED BY <1>1, SynInvHolds, PTL

-----------------------------------------------------------------------------
(***************************************************************************)
(* The barriers implement the rendezvous.                                  *)
(***************************************************************************)

\* Events a machine loses can only take it closer to having heard of its meetings.
LEMMA Hears ==
  ASSUME BarriersType, MessagesType, NEW r \in Resources, UNCHANGED barriers,
         events' \in [Resources -> Seq(Events)],
         \A q \in Resources \ {r} : events'[q] = events[q],
         CalledTo(r)' \subseteq CalledTo(r)
  PROVE  R!Hear(r)
<1>1. \A n \in Names : Listed(n)' = Listed(n) /\ Reached(n)' = Reached(n)
  BY DEF Listed, Reached, barriers
<1>2. \A q \in Resources \ {r} : CalledTo(q)' = CalledTo(q)
  BY DEF CalledTo
<1>3. PICK rest \in SUBSET CalledTo(r) : rest = CalledTo(r)'
  OBVIOUS
<1>4. [q \in Resources |-> CalledTo(q)]' =
        [[q \in Resources |-> CalledTo(q)] EXCEPT ![r] = rest]
  BY <1>2, <1>3
<1> QED
  BY <1>1, <1>3, <1>4 DEF R!Hear
\* The calls of a meeting.
LEMMA Calls ==
  ASSUME BarriersType, MessagesType, NEW n \in Names, NEW q \in Resources,
         events'[q] = Sent(n, q)
  PROVE  CalledTo(q)' = CalledTo(q) \cup (IF q \in Listed(n) THEN {n} ELSE {})
<1>1. PICK list, longer, times :
        list = events[q] /\ longer = events'[q] /\ times = Times(q, synchros_[n])
  OBVIOUS
<1>2. synchros_[n] \in Seq(Resources)
  BY DEF BarriersType
<1>3. times \in Nat /\ (times > 0 <=> q \in Listed(n))
  <2>1. times \in Nat /\ (times > 0 <=> In(q, synchros_[n]))
    BY <1>1, <1>2, TimesCounts
  <2> QED BY <2>1 DEF In, Listed
<1>4. /\ list \in Seq(Events) /\ longer \in Seq(Events) /\ Len(longer) = Len(list) + times
      /\ \A k \in 1 .. Len(list) : longer[k] = list[k]
      /\ \A k \in Len(list) + 1 .. Len(longer) : longer[k] = n
  BY <1>1, SentTyped DEF MessagesType
<1>5. /\ CalledTo(q) = {list[k] : k \in DOMAIN list} \cap Names
      /\ CalledTo(q)' = {longer[k] : k \in DOMAIN longer} \cap Names
  BY <1>1 DEF CalledTo
<1>6. /\ DOMAIN list = 1 .. Len(list) /\ DOMAIN longer = 1 .. Len(longer)
      /\ Len(list) \in Nat
  BY <1>4
<1>7. ASSUME NEW x \in CalledTo(q) PROVE x \in CalledTo(q)'
  <2>1. PICK k \in 1 .. Len(list) : x = list[k] /\ x \in Names
    BY <1>5, <1>6
  <2>2. k \in 1 .. Len(longer) /\ longer[k] = x
    BY <1>3, <1>4, <1>6, <2>1
  <2> QED BY <1>5, <1>6, <2>1, <2>2
<1>8. ASSUME NEW x \in CalledTo(q)', x \notin CalledTo(q) PROVE x = n /\ q \in Listed(n)
  <2>1. PICK k \in 1 .. Len(longer) : x = longer[k] /\ x \in Names
    BY <1>5, <1>6
  <2>2. k \notin 1 .. Len(list)
    BY <1>4, <1>5, <1>6, <1>8, <2>1
  <2>3. k \in Len(list) + 1 .. Len(longer) /\ times > 0
    BY <1>3, <1>4, <1>6, <2>1, <2>2
  <2> QED BY <1>3, <1>4, <2>1, <2>3
<1>9. ASSUME q \in Listed(n) PROVE n \in CalledTo(q)'
  <2>1. Len(longer) \in Len(list) + 1 .. Len(longer) /\ Len(longer) \in 1 .. Len(longer)
    BY <1>3, <1>4, <1>6, <1>9
  <2>2. longer[Len(longer)] = n
    BY <1>4, <2>1
  <2> QED BY <1>5, <1>6, <2>1, <2>2
<1> QED BY <1>7, <1>8, <1>9

\* The registration of a machine enlists its resource.
LEMMA Enlists ==
  ASSUME SynInv, RegisterNext
  PROVE  R!Enlist(registered + 1) \/ UNCHANGED R!vars
<1>0. BarriersType
  BY TypeParts DEF SynInv
<1>1. registered + 1 \in Resources /\ Free
  BY NAssumption DEF RegisterNext, Resources, SynInv, NotBegun
<1>2. \A n \in Names : Reached(n) = {}
  BY <1>0, <1>1, Places DEF Free
<1>3. UNCHANGED events
  BY DEF RegisterNext
<1>4. CASE UNCHANGED barriers
  BY <1>3, <1>4 DEF R!vars, Listed, Reached, CalledTo, barriers
<1>5. CASE Insert(registered + 1, Extracted[registered + 1])
  <2> DEFINE r == registered + 1
             names == Extracted[r]
             some == {n \in Names : Times(n, names) > 0}
  <2>0. names \in Seq(Names)
    BY <1>1, ExtractedAssumption
  <2>1. BarriersType' /\ Free'
    BY <1>0, <1>1, <1>5, <2>0, Inserts, FreeAfter
  <2>2. \A n \in Names : Reached(n)' = {}
    BY <2>1, PlacesAfter DEF Free
  <2>3. ASSUME NEW n \in Names
        PROVE  Listed(n)' = Listed(n) \cup (IF n \in some THEN {r} ELSE {})
    <3>1. PICK old, new, times :
            old = Len(synchros_[n]) /\ new = Len(synchros_'[n]) /\ times = Times(n, names)
      OBVIOUS
    <3>2. /\ old \in Nat /\ new = old + times /\ times \in Nat
          /\ \A k \in 1 .. old : synchros_'[n][k] = synchros_[n][k]
          /\ \A k \in old + 1 .. new : synchros_'[n][k] = r
      BY <1>0, <1>1, <1>5, <2>0, <3>1, Inserts, TimesCounts
    <3>3. \A q : /\ q \in Listed(n) <=> \E k \in 1 .. old : synchros_[n][k] = q
                 /\ q \in Listed(n)' <=> \E k \in 1 .. new : synchros_'[n][k] = q
      BY <1>0, <2>1, <3>1, Places, PlacesAfter
    <3>4. n \in some <=> times > 0
      BY <3>1
    <3> HIDE DEF some, names, r
    <3>5. \A q \in Listed(n) : q \in Listed(n)'
      <4> TAKE q \in Listed(n)
      <4>1. PICK k \in 1 .. old : synchros_[n][k] = q
        BY <3>3
      <4>2. k \in 1 .. new /\ synchros_'[n][k] = q
        BY <3>2, <4>1
      <4> QED BY <3>3, <4>2
    <3>6. \A q \in Listed(n)' : q \in Listed(n) \/ (q = r /\ n \in some)
      <4> TAKE q \in Listed(n)'
      <4>1. PICK k \in 1 .. new : synchros_'[n][k] = q
        BY <3>3
      <4>2. CASE k \in 1 .. old
        BY <3>2, <3>3, <4>1, <4>2
      <4>3. CASE k \notin 1 .. old
        <5>1. k \in old + 1 .. new /\ times > 0
          BY <3>2, <4>1, <4>3
        <5> QED BY <3>2, <3>4, <4>1, <5>1
      <4> QED BY <4>2, <4>3
    <3>7. n \in some => r \in Listed(n)'
      <4>1. ASSUME times > 0 PROVE new \in old + 1 .. new /\ new \in 1 .. new
        BY <3>2, <4>1
      <4> QED BY <3>2, <3>3, <3>4, <4>1
    <3> QED BY <3>5, <3>6, <3>7
  <2>4. some \in SUBSET Names
    OBVIOUS
  <2>5. [n \in Names |-> Listed(n)]' =
          [n \in Names |-> Listed(n) \cup (IF n \in some THEN {r} ELSE {})]
    BY <2>3
  <2>6. UNCHANGED [n \in Names |-> Reached(n)]
    BY <1>2, <2>2
  <2>7. UNCHANGED [q \in Resources |-> CalledTo(q)]
    BY <1>3 DEF CalledTo
  <2> HIDE DEF some, r
  <2>8. R!Enlist(r)
    BY <1>2, <2>4, <2>5, <2>6, <2>7 DEF R!Enlist
  <2> QED BY <2>8 DEF r
<1> QED
  BY <1>4, <1>5 DEF RegisterNext

\* The activation of a barrier is an arrival: the resource waits, or everybody is called.
LEMMA Meets ==
  ASSUME SynInv, Activate
  PROVE  \/ UNCHANGED R!vars
         \/ \E r \in Resources : \E n \in Names : R!Wait(r, n) \/ R!Meet(r, n)
<1>0. BarriersType /\ MessagesType
  BY TypeParts DEF SynInv
<1>1. UNCHANGED synchros_ /\ node # None /\ node.names # <<>>
  BY DEF Activate
<1>2. PICK n \in Names, r \in Resources : n = Head(node.names) /\ r = node.resource
  BY <1>0, <1>1, NamesLeft
<1>3. CASE UNCHANGED <<activations_, events>>
  BY <1>1, <1>3 DEF R!vars, Listed, Reached, CalledTo
<1>4. CASE activate(n, r)
  <2>0. events \in [Resources -> Seq(Events)]
    BY <1>0 DEF MessagesType
  <2>1. /\ \A m \in Names : Listed(m)' = Listed(m)
        /\ \A m \in Names \ {n} : Reached(m)' = Reached(m)
        /\ \/ /\ r \in Listed(n) /\ Reached(n) \cup {r} # Listed(n)
              /\ Reached(n)' = Reached(n) \cup {r}
              /\ events' = events
           \/ /\ r \in Listed(n) /\ Reached(n) \cup {r} = Listed(n)
              /\ Reached(n)' = {}
              /\ events' = [q \in Resources |-> Sent(n, q)]
           \/ /\ r \notin Listed(n)
              /\ Reached(n)' = Reached(n)
              /\ events' = events
    BY <1>0, <1>1, <1>4, <2>0, ActivateMeets DEF SynInv
  <2>2. UNCHANGED [m \in Names |-> Listed(m)]
    BY <2>1
  <2>3. ASSUME NEW S, Reached(n)' = S
        PROVE  [m \in Names |-> Reached(m)]' =
                 [[m \in Names |-> Reached(m)] EXCEPT ![n] = S]
    BY <2>1, <2>3
  <2>4. ASSUME events' = events PROVE UNCHANGED [q \in Resources |-> CalledTo(q)]
    BY <2>4 DEF CalledTo
  <2>5. CASE /\ r \in Listed(n) /\ Reached(n) \cup {r} # Listed(n)
             /\ Reached(n)' = Reached(n) \cup {r}
             /\ events' = events
    <3>1. R!Wait(r, n)
      BY <2>2, <2>3, <2>4, <2>5 DEF R!Wait
    <3> QED BY <3>1
  <2>6. CASE /\ r \in Listed(n) /\ Reached(n) \cup {r} = Listed(n)
             /\ Reached(n)' = {}
             /\ events' = [q \in Resources |-> Sent(n, q)]
    <3>1. \A q \in Resources :
            CalledTo(q)' = CalledTo(q) \cup (IF q \in Listed(n) THEN {n} ELSE {})
      BY <1>0, <2>6, Calls
    <3>2. [q \in Resources |-> CalledTo(q)]' =
            [q \in Resources |-> CalledTo(q) \cup (IF q \in Listed(n) THEN {n} ELSE {})]
      BY <3>1
    <3>3. R!Meet(r, n)
      BY <2>2, <2>3, <2>6, <3>2 DEF R!Meet
    <3> QED BY <3>3
  <2>7. CASE r \notin Listed(n) /\ Reached(n)' = Reached(n) /\ events' = events
    <3>1. UNCHANGED [m \in Names |-> Reached(m)]
      BY <2>1, <2>7
    <3> QED BY <2>2, <2>4, <2>7, <3>1 DEF R!vars
  <2> QED BY <2>1, <2>5, <2>6, <2>7
<1> QED BY <1>2, <1>3, <1>4 DEF Activate

LEMMA StepMeets ==
  ASSUME SynInv, [Next]_vars
  PROVE  [R!Next]_R!vars
<1>0. BarriersType /\ MessagesType
  BY TypeParts DEF SynInv
<1>t. events' \in [Resources -> Seq(Events)]
  BY StepTyped DEF SynInv, TypeOK
<1>1. CASE RegisterNext
  <2>1. registered + 1 \in Resources
    BY <1>1 DEF RegisterNext
  <2> QED BY <1>1, <2>1, Enlists DEF R!Next
<1>2. CASE Activate
  BY <1>2, Meets DEF R!Next
<1>3. ASSUME ~ RegisterNext, ~ Activate PROVE UNCHANGED barriers
  BY <1>3, SameBarriers
<1>4. ASSUME UNCHANGED <<barriers, events>> PROVE UNCHANGED R!vars
  BY <1>4 DEF R!vars, barriers, Listed, Reached, CalledTo
<1>5. ASSUME NEW r \in Resources, UNCHANGED barriers,
             \/ events' = [events EXCEPT ![r] = <<>>]
             \/ events' = [events EXCEPT ![r] = Tail(@)] /\ events[r] # <<>>
             \/ \E event \in Others : events' = [events EXCEPT ![r] = Append(@, event)]
      PROVE  R!Hear(r)
  <2>1. \A q \in Resources \ {r} : events'[q] = events[q]
    BY <1>0, <1>5 DEF MessagesType
  <2>2. PICK list, longer : list = events[r] /\ longer = events'[r]
    OBVIOUS
  <2>3. /\ list \in Seq(Events)
        /\ \/ longer = <<>>
           \/ longer = Tail(list) /\ list # <<>>
           \/ \E event \in Others : longer = Append(list, event)
    BY <1>0, <1>5, <2>2 DEF MessagesType
  <2>4. \A x \in Names : In(x, longer) => In(x, list)
    <3> SUFFICES ASSUME NEW x \in Names, In(x, longer) PROVE In(x, list)
      OBVIOUS
    <3>1. CASE longer = <<>>
      BY <3>1 DEF In
    <3>2. CASE longer = Tail(list) /\ list # <<>>
      <4>1. /\ Len(list) \in Nat /\ DOMAIN list = 1 .. Len(list)
            /\ DOMAIN longer = 1 .. Len(list) - 1
            /\ \A k \in 1 .. Len(list) - 1 : longer[k] = list[k + 1]
        BY <2>3, <3>2
      <4>2. PICK k \in 1 .. Len(list) - 1 : longer[k] = x
        BY <4>1 DEF In
      <4>3. k + 1 \in 1 .. Len(list)
        BY <4>1
      <4> QED BY <4>1, <4>2, <4>3 DEF In
    <3>3. CASE \E event \in Others : longer = Append(list, event)
      <4>1. PICK event \in Others : longer = Append(list, event)
        BY <3>3
      <4>2. x # event
        BY EventsAssumption
      <4>3. /\ Len(list) \in Nat /\ DOMAIN list = 1 .. Len(list)
            /\ DOMAIN longer = 1 .. Len(list) + 1
            /\ \A k \in 1 .. Len(list) : longer[k] = list[k]
            /\ longer[Len(list) + 1] = event
        BY <2>3, <4>1
      <4>4. PICK k \in 1 .. Len(list) + 1 : longer[k] = x
        BY <4>3 DEF In
      <4>5. k \in 1 .. Len(list)
        BY <4>2, <4>3, <4>4
      <4> QED BY <4>3, <4>4, <4>5 DEF In
    <3> QED BY <2>3, <3>1, <3>2, <3>3
  <2>5. CalledTo(r)' \subseteq CalledTo(r)
    BY <2>2, <2>4 DEF CalledTo, In
  <2> QED BY <1>0, <1>t, <1>5, <2>1, <2>5, Hears
<1>6. ASSUME NEW r \in Resources, RunOnce(r) PROVE R!Hear(r)
  <2>1. UNCHANGED barriers
    BY <1>6 DEF RunOnce
  <2>2. \/ events' = [events EXCEPT ![r] = <<>>]
        \/ events' = [events EXCEPT ![r] = Tail(@)] /\ events[r] # <<>>
    BY <1>6 DEF RunOnce
  <2> QED BY <1>5, <2>1, <2>2
<1>7. ASSUME NEW r \in Resources, Abort(r) PROVE R!Hear(r)
  BY <1>5, <1>7 DEF Abort
<1>8. ASSUME NEW r \in Resources, NEW event \in Others, Happens(r, event) PROVE R!Hear(r)
  BY <1>5, <1>8 DEF Happens
<1>9. ASSUME \/ SendReturns \/ stateMachineCancel \/ EndRelay \/ UNCHANGED vars
             \/ \E r \in Resources : SendCall(r) \/ Relay(r)
      PROVE  UNCHANGED <<barriers, events>>
  BY <1>9 DEF SendReturns, stateMachineCancel, EndRelay, vars, SendCall, Relay, reset,
              barriers
<1> QED
  BY <1>1, <1>2, <1>4, <1>6, <1>7, <1>8, <1>9 DEF Next, Node, R!Next

\* Those listed at a barrier are called when all of them have announced it since it last
\* opened: every step of the node and of the machines is one of the rendezvous, or none.
THEOREM BarriersMeet == Spec => ImplementsRendezvous
<1>1. Init => R!Init
  <2> SUFFICES ASSUME Init PROVE R!Init
    OBVIOUS
  <2>1. /\ \A n \in Names : Listed(n) = {} /\ Reached(n) = {}
        /\ \A r \in Resources : CalledTo(r) = {}
    BY DEF Init, Listed, Reached, CalledTo
  <2> QED BY <2>1 DEF R!Init
<1>2. SynInv /\ [Next]_vars => [R!Next]_R!vars
  BY StepMeets
<1> QED
  BY <1>1, <1>2, SynInvHolds, PTL DEF Spec, R!Spec, ImplementsRendezvous
=============================================================================
