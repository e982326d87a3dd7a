--------------------- MODULE StateMachinesStorageProofs ---------------------
(***************************************************************************)
(* Proofs about StateMachinesStorage, for any number of machines, any      *)
(* importances and any deadlines.                                          *)
(***************************************************************************)
EXTENDS StateMachinesStorage, FiniteSetTheorems, WellFoundedInduction, TLAPS

(***************************************************************************)
(* A nonempty set of naturals has a least element.                         *)
(***************************************************************************)

LessThan == {ss \in Nat \X Nat : ss[1] < ss[2]}

LEMMA LessThanWellFounded == IsWellFoundedOn(LessThan, Nat)
BY NatLessThanWellFounded, Zenon DEF OpToRel, LessThan

LEMMA LeastNatural ==
  ASSUME NEW S, S \subseteq Nat, S # {}
  PROVE  \E x \in S : \A y \in S : x <= y
<1>1. PICK x \in S : \A y \in S : ~ (<<y, x>> \in LessThan)
  BY WFMin, LessThanWellFounded, Zenon
<1>2. \A y \in S : ~ (y < x)
  BY <1>1 DEF LessThan
<1> QED
  BY <1>2

(***************************************************************************)
(* Erasing from the vector.                                                *)
(***************************************************************************)

\* An increasing map of 1 .. n into itself moves nothing.
LEMMA IncreasingIsIdentity ==
  ASSUME NEW n \in Nat, NEW p \in [1 .. n -> 1 .. n],
         \A a, b \in 1 .. n : a < b => p[a] < p[b]
  PROVE  \A k \in 1 .. n : p[k] = k
<1>1. \A k \in 1 .. n : p[k] >= k
  <2> DEFINE Bad == {k \in 1 .. n : p[k] < k}
  <2> SUFFICES ASSUME Bad # {} PROVE FALSE
    OBVIOUS
  <2>0. Bad \subseteq Nat
    OBVIOUS
  <2>1. PICK k \in Bad : \A j \in Bad : k <= j
    <3> HIDE DEF Bad
    <3> QED BY <2>0, LeastNatural
  <2>2. k > 1
    BY <2>1
  <2>3. k - 1 \in 1 .. n /\ k - 1 \notin Bad
    BY <2>1, <2>2
  <2>4. p[k - 1] >= k - 1 /\ p[k - 1] < p[k]
    BY <2>1, <2>3
  <2> QED BY <2>1, <2>3, <2>4
<1>2. \A k \in 1 .. n : p[k] <= k
  <2> DEFINE Bad == {d \in Nat : \E k \in 1 .. n : d = n - k /\ p[k] > k}
  <2> SUFFICES ASSUME Bad # {} PROVE FALSE
    <3>1. ASSUME NEW k \in 1 .. n, p[k] > k PROVE n - k \in Bad
      <4>1. n - k \in Nat
        OBVIOUS
      <4> QED BY <3>1, <4>1
    <3>2. \A k \in 1 .. n : p[k] \in 1 .. n
      OBVIOUS
    <3>3. Bad = {} => \A k \in 1 .. n : ~ (p[k] > k)
      <4> HIDE DEF Bad
      <4> QED BY <3>1
    <3> HIDE DEF Bad
    <3> QED BY <3>2, <3>3
  <2>1. PICK d \in Bad : \A e \in Bad : d <= e
    <3>1. Bad \subseteq Nat
      OBVIOUS
    <3> HIDE DEF Bad
    <3> QED BY <3>1, LeastNatural
  <2>2. PICK k \in 1 .. n : d = n - k /\ p[k] > k
    OBVIOUS
  <2>3. k < n
    BY <2>2
  <2>4. k + 1 \in 1 .. n /\ p[k] < p[k + 1]
    BY <2>3
  <2>5. p[k + 1] > k + 1
    BY <2>2, <2>4
  <2>6. n - (k + 1) \in Bad
    <3>1. n - (k + 1) \in Nat
      BY <2>4
    <3> QED BY <2>4, <2>5, <3>1
  <2>7. d <= n - (k + 1)
    BY <2>1, <2>6
  <2> QED BY <2>2, <2>7
<1> QED
  BY <1>1, <1>2

\* What an erase leaves: the machines at the kept positions, in their order.
LEMMA KeepFacts ==
  ASSUME states_storage_ \in Seq(Machines), NEW kept \in SUBSET Positions, Keep(kept)
  PROVE  \E n \in Nat : \E p \in [1 .. n -> kept] :
           /\ n = Cardinality(kept)
           /\ states_storage_' \in Seq(Machines)
           /\ Len(states_storage_') = n
           /\ \A a, b \in 1 .. n : a < b => p[a] < p[b]
           /\ \A k \in 1 .. n : states_storage_'[k] = states_storage_[p[k]]
<1>1. Cardinality(kept) \in Nat
  <2>1. Len(states_storage_) \in Nat
    OBVIOUS
  <2>2. IsFiniteSet(Positions)
    BY <2>1, FS_Interval DEF Positions
  <2> QED BY <2>2, FS_Subset, FS_CardinalityType
<1>2. PICK n \in Nat : n = Cardinality(kept)
  BY <1>1
<1>3. PICK p \in [1 .. n -> kept] :
        /\ \A a, b \in 1 .. n : a < b => p[a] < p[b]
        /\ states_storage_' = [k \in 1 .. n |-> states_storage_[p[k]]]
  BY <1>2 DEF Keep, Increasing
<1>4. ASSUME NEW k \in 1 .. n PROVE states_storage_[p[k]] \in Machines
  <2>1. p[k] \in 1 .. Len(states_storage_)
    BY <1>3 DEF Positions
  <2> QED BY <2>1
<1>5. states_storage_' \in Seq(Machines) /\ Len(states_storage_') = n
  <2>1. states_storage_' \in [1 .. n -> Machines]
    BY <1>3, <1>4
  <2> QED BY <2>1
<1>6. \A k \in 1 .. n : states_storage_'[k] = states_storage_[p[k]]
  BY <1>3
<1> QED
  BY <1>2, <1>3, <1>5, <1>6

\* Erasing everything after position n leaves the first n machines in place.
LEMMA KeepPrefix ==
  ASSUME states_storage_ \in Seq(Machines), NEW n \in Nat, n <= Len(states_storage_),
         Keep(1 .. n)
  PROVE  /\ states_storage_' \in Seq(Machines)
         /\ Len(states_storage_') = n
         /\ \A k \in 1 .. n : states_storage_'[k] = states_storage_[k]
<1>1. 1 .. n \in SUBSET Positions
  BY DEF Positions
<1>2. PICK m \in Nat : \E p \in [1 .. m -> 1 .. n] :
           /\ m = Cardinality(1 .. n)
           /\ states_storage_' \in Seq(Machines)
           /\ Len(states_storage_') = m
           /\ \A a, b \in 1 .. m : a < b => p[a] < p[b]
           /\ \A k \in 1 .. m : states_storage_'[k] = states_storage_[p[k]]
  BY <1>1, KeepFacts
<1>3. m = n
  BY <1>2, FS_Interval
<1>4. PICK p \in [1 .. n -> 1 .. n] :
           /\ states_storage_' \in Seq(Machines)
           /\ Len(states_storage_') = n
           /\ \A a, b \in 1 .. n : a < b => p[a] < p[b]
           /\ \A k \in 1 .. n : states_storage_'[k] = states_storage_[p[k]]
  BY <1>2, <1>3
<1>5. \A k \in 1 .. n : p[k] = k
  BY <1>4, IncreasingIsIdentity
<1> QED
  BY <1>4, <1>5

-----------------------------------------------------------------------------
(***************************************************************************)
(* The inductive invariant.  Besides the properties it says that a machine *)
(* that was announced and still waits is the one under the index of        *)
(* clean(), which is about to erase it.                                    *)
(***************************************************************************)

AnnouncedWaitsAtIndex ==
  \A k \in Positions :
    states_storage_[k].id \in announced => pc = "erase" /\ k = i

KnownIds ==
  /\ \A a \in DOMAIN started : started[a] < _stateMachinesId
  /\ \A id \in announced : id < _stateMachinesId

IInv == /\ TypeOK /\ IdsAscend /\ KnownIds
        /\ StartedOnce /\ DeadNeverStarts /\ AnnouncedWaitsAtIndex

USE BoundsAssumption, NoneAssumption

LEMMA IInvInit == Init => IInv
<1> SUFFICES ASSUME Init PROVE IInv
  OBVIOUS
<1>1. Positions = {} /\ DOMAIN started = {}
  BY DEF Init, Positions
<1>2. TypeOK
  <2>1. states_storage_ \in Seq(Machines) /\ started \in Seq(Nat)
    BY DEF Init
  <2>2. /\ _stateMachinesId \in 0 .. MaxMachines /\ now \in Nat
        /\ i \in Nat \ {0}
    BY DEF Init
  <2>3. /\ unpoppable_ \in BOOLEAN /\ undefined \in BOOLEAN
        /\ pc \in {"idle", "test", "late", "announce", "erase"}
        /\ running \in Nat \cup {None} /\ doomed \in Nat \cup {None}
        /\ announced \subseteq Nat
    BY DEF Init
  <2> QED BY <2>1, <2>2, <2>3 DEF TypeOK
<1> QED
  BY <1>1, <1>2
  DEF IInv, IdsAscend, KnownIds, StartedOnce, DeadNeverStarts,
      AnnouncedWaitsAtIndex, Init

\* Erasing keeps the order, and what waits afterwards waited before.
LEMMA KeepInv ==
  ASSUME TypeOK, IdsAscend, NEW kept \in SUBSET Positions, Keep(kept),
         _stateMachinesId' = _stateMachinesId
  PROVE  /\ states_storage_' \in Seq(Machines)
         /\ IdsAscend'
         /\ \A k \in Positions' : \E j \in kept : states_storage_'[k] = states_storage_[j]
<1>1. states_storage_ \in Seq(Machines)
  BY DEF TypeOK
<1>2. PICK n \in Nat : \E p \in [1 .. n -> kept] :
           /\ n = Cardinality(kept)
           /\ states_storage_' \in Seq(Machines)
           /\ Len(states_storage_') = n
           /\ \A a, b \in 1 .. n : a < b => p[a] < p[b]
           /\ \A k \in 1 .. n : states_storage_'[k] = states_storage_[p[k]]
  BY <1>1, KeepFacts
<1>3. PICK p \in [1 .. n -> kept] :
           /\ states_storage_' \in Seq(Machines)
           /\ Len(states_storage_') = n
           /\ \A a, b \in 1 .. n : a < b => p[a] < p[b]
           /\ \A k \in 1 .. n : states_storage_'[k] = states_storage_[p[k]]
  BY <1>2
<1>4. Positions' = 1 .. n
  BY <1>3 DEF Positions
<1>5. \A k \in 1 .. n : p[k] \in kept /\ p[k] \in Positions
  OBVIOUS
<1>6. IdsAscend'
  <2>1. \A k \in Positions : states_storage_[k].id < _stateMachinesId
    BY DEF IdsAscend
  <2>2. \A j, k \in Positions : j < k => states_storage_[j].id < states_storage_[k].id
    BY DEF IdsAscend
  <2>3. \A k \in 1 .. n : states_storage_'[k].id < _stateMachinesId'
    BY <1>3, <1>5, <2>1
  <2>4. \A j, k \in 1 .. n : j < k => states_storage_'[j].id < states_storage_'[k].id
    BY <1>3, <1>5, <2>2
  <2> QED BY <1>4, <2>3, <2>4 DEF IdsAscend
<1>7. \A k \in Positions' : \E j \in kept : states_storage_'[k] = states_storage_[j]
  BY <1>3, <1>4, <1>5
<1> QED
  BY <1>3, <1>6, <1>7

\* Since the machines wait in the order of their ids, remove erases a suffix.
LEMMA RemoveKeepsPrefix ==
  ASSUME TypeOK, IdsAscend, NEW id \in Int,
         NEW gone, gone = {k \in Positions : states_storage_[k].id > id}, gone # {}
  PROVE  \E n \in Nat : n <= Len(states_storage_) /\ Positions \ gone = 1 .. n
<1>1. Len(states_storage_) \in Nat /\ Positions = 1 .. Len(states_storage_)
  BY DEF TypeOK, Positions
<1>2. \A k \in Positions : states_storage_[k].id \in Nat
  <2>1. \A k \in Positions : states_storage_[k] \in Machines
    BY DEF TypeOK, Positions
  <2> QED BY <2>1 DEF Machines
<1>3. gone \subseteq Nat
  BY <1>1
<1>4. PICK g \in gone : \A k \in gone : g <= k
  BY <1>3, LeastNatural
<1>5. g \in Positions /\ states_storage_[g].id > id
  OBVIOUS
<1>6. \A k \in Positions : g <= k => k \in gone
  <2> SUFFICES ASSUME NEW k \in Positions, g < k PROVE states_storage_[k].id > id
    BY <1>1, <1>5
  <2>1. states_storage_[g].id < states_storage_[k].id
    BY <1>5 DEF IdsAscend
  <2> QED BY <1>2, <1>5, <2>1
<1>7. Positions \ gone = 1 .. g - 1
  <2>1. \A k \in Positions : k \in gone <=> g <= k
    BY <1>4, <1>6
  <2> QED BY <1>1, <1>5, <2>1
<1>8. g - 1 \in Nat /\ g - 1 <= Len(states_storage_)
  BY <1>1, <1>5
<1> QED
  BY <1>7, <1>8

-----------------------------------------------------------------------------
(***************************************************************************)
(* The steps.                                                              *)
(***************************************************************************)

LEMMA PushStep ==
  ASSUME IInv, NEW imp \in SentImportances, NEW dead_line \in Deadlines,
         push(imp, dead_line)
  PROVE  IInv'
<1> DEFINE m == [id |-> _stateMachinesId, imp |-> imp, begin_dead_line |-> dead_line]
<1> USE DEF IInv
<1>1. m \in Machines
  BY SentAssumption, DeadlinesAssumption DEF Machines, TypeOK
<1>2. /\ states_storage_ \in Seq(Machines)
      /\ states_storage_' = Append(states_storage_, m)
      /\ _stateMachinesId' = _stateMachinesId + 1 /\ _stateMachinesId \in Nat
  BY DEF push, TypeOK
<1>3. /\ states_storage_' \in Seq(Machines)
      /\ Positions' = Positions \cup {Len(states_storage_) + 1}
      /\ Len(states_storage_) + 1 \notin Positions
      /\ \A k \in Positions : states_storage_'[k] = states_storage_[k]
      /\ states_storage_'[Len(states_storage_) + 1] = m
  <2> HIDE DEF m
  <2> QED BY <1>1, <1>2 DEF Positions
<1>4. UNCHANGED <<unpoppable_, now, running, pc, i, doomed, undefined, started,
                  announced>>
  BY DEF push
<1>5. TypeOK'
  <2>1. _stateMachinesId' \in 0 .. MaxMachines
    BY <1>2 DEF push, TypeOK
  <2> QED BY <1>3, <1>4, <2>1 DEF TypeOK
<1>6. IdsAscend'
  <2>1. \A k \in Positions : states_storage_[k].id \in Nat /\ k < Len(states_storage_) + 1
    <3>1. \A k \in Positions : states_storage_[k] \in Machines /\ k < Len(states_storage_) + 1
      BY <1>2 DEF Positions
    <3> QED BY <3>1 DEF Machines
  <2>2. \A k \in Positions : states_storage_'[k].id < _stateMachinesId
    BY <1>3 DEF IdsAscend
  <2>3. states_storage_'[Len(states_storage_) + 1].id = _stateMachinesId
    BY <1>3
  <2>4. \A k \in Positions' : states_storage_'[k].id < _stateMachinesId'
    <3>1. \A k \in Positions : states_storage_'[k].id < _stateMachinesId + 1
      <4> SUFFICES ASSUME NEW k \in Positions
                   PROVE  states_storage_'[k].id < _stateMachinesId + 1
        OBVIOUS
      <4> DEFINE x == states_storage_'[k].id
      <4>1. x \in Nat
        BY <1>3, <2>1
      <4>2. x < _stateMachinesId
        BY <2>2
      <4> HIDE DEF x
      <4>3. x < _stateMachinesId + 1
        BY <1>2, <4>1, <4>2
      <4> QED BY <4>3 DEF x
    <3>2. states_storage_'[Len(states_storage_) + 1].id < _stateMachinesId + 1
      BY <1>2, <2>3
    <3> HIDE DEF m
    <3> QED BY <1>2, <1>3, <3>1, <3>2
  <2>5. \A j, k \in Positions' : j < k => states_storage_'[j].id < states_storage_'[k].id
    <3> SUFFICES ASSUME NEW j \in Positions', NEW k \in Positions', j < k
                 PROVE  states_storage_'[j].id < states_storage_'[k].id
      OBVIOUS
    <3>1. CASE k \in Positions
      <4>1. j \in Positions
        BY <1>2, <1>3, <2>1, <3>1 DEF Positions
      <4> QED BY <1>3, <3>1, <4>1 DEF IdsAscend
    <3>2. CASE k = Len(states_storage_) + 1
      <4>1. j \in Positions
        BY <1>3, <3>2
      <4> QED BY <2>2, <2>3, <3>2, <4>1
    <3> QED BY <1>3, <3>1, <3>2
  <2> QED BY <2>4, <2>5 DEF IdsAscend
<1>7. KnownIds'
  <2>1. \A a \in DOMAIN started : started[a] \in Nat
    BY DEF TypeOK
  <2>2. \A id \in announced : id \in Nat
    BY DEF TypeOK
  <2>3. \A n \in Nat : n < _stateMachinesId => n < _stateMachinesId'
    BY <1>2
  <2>4. started' = started /\ announced' = announced
    BY <1>4
  <2> HIDE DEF m
  <2> QED BY <2>1, <2>2, <2>3, <2>4 DEF KnownIds
<1>8. StartedOnce'
  <2>1. started' = started
    BY <1>4
  <2>2. \A a, b \in DOMAIN started : started[a] = started[b] => a = b
    BY DEF StartedOnce
  <2>3. ASSUME NEW a \in DOMAIN started, NEW k \in Positions'
        PROVE  started[a] # states_storage_'[k].id
    <3>1. CASE k \in Positions
      <4>1. states_storage_'[k] = states_storage_[k]
        BY <1>3, <3>1
      <4> QED BY <3>1, <4>1 DEF StartedOnce
    <3>2. CASE k = Len(states_storage_) + 1
      <4>1. states_storage_'[k].id = _stateMachinesId
        BY <1>3, <3>2
      <4>2. started[a] \in Nat /\ started[a] < _stateMachinesId
        BY DEF KnownIds, TypeOK
      <4>3. started[a] # _stateMachinesId
        BY <1>2, <4>2
      <4> QED BY <4>1, <4>3, Zenon
    <3> QED BY <1>3, <3>1, <3>2
  <2> HIDE DEF m
  <2> QED BY <2>1, <2>2, <2>3 DEF StartedOnce
<1>9. DeadNeverStarts'
  BY <1>4 DEF DeadNeverStarts
<1>10. AnnouncedWaitsAtIndex'
  <2>1. announced' = announced /\ pc' = pc /\ i' = i
    BY <1>4
  <2>2. _stateMachinesId \notin announced
    <3>1. \A id \in announced : id < _stateMachinesId
      BY DEF KnownIds
    <3>2. ~ (_stateMachinesId < _stateMachinesId)
      BY <1>2
    <3> QED BY <3>1, <3>2, Zenon
  <2>3. ASSUME NEW k \in Positions', states_storage_'[k].id \in announced
        PROVE  pc = "erase" /\ k = i
    <3>1. CASE k \in Positions
      <4>1. states_storage_'[k] = states_storage_[k]
        BY <1>3, <3>1
      <4> QED BY <2>3, <3>1, <4>1 DEF AnnouncedWaitsAtIndex
    <3>2. CASE k = Len(states_storage_) + 1
      <4>1. states_storage_'[k].id = _stateMachinesId
        BY <1>3, <3>2
      <4> QED BY <2>2, <2>3, <4>1, Zenon
    <3> QED BY <1>3, <3>1, <3>2
  <2> HIDE DEF m
  <2> QED BY <2>1, <2>3 DEF AnnouncedWaitsAtIndex
<1> QED
  BY <1>5, <1>6, <1>7, <1>8, <1>9, <1>10

LEMMA RemoveStep ==
  ASSUME IInv, NEW id \in Nat, remove(id)
  PROVE  IInv'
<1> DEFINE gone == {k \in Positions : states_storage_[k].id > id}
<1> USE DEF IInv
<1>1. gone # {} /\ Keep(Positions \ gone)
  BY DEF remove
<1>2. UNCHANGED <<unpoppable_, _stateMachinesId, now, running, pc, i, doomed,
                  undefined, started, announced>>
  BY DEF remove
<1>3. PICK n \in Nat : n <= Len(states_storage_) /\ Positions \ gone = 1 .. n
  <2>1. gone = {k \in Positions : states_storage_[k].id > id} /\ id \in Int
    OBVIOUS
  <2> HIDE DEF gone
  <2> QED BY <1>1, <2>1, RemoveKeepsPrefix
<1>4. /\ states_storage_' \in Seq(Machines)
      /\ Len(states_storage_') = n
      /\ \A k \in 1 .. n : states_storage_'[k] = states_storage_[k]
  BY <1>1, <1>3, KeepPrefix DEF TypeOK
<1>5. Positions' = 1 .. n /\ 1 .. n \subseteq Positions
  BY <1>3, <1>4 DEF Positions
<1>6. TypeOK'
  BY <1>2, <1>4 DEF TypeOK
<1>7. IdsAscend'
  BY <1>2, <1>4, <1>5 DEF IdsAscend
<1>8. KnownIds' /\ DeadNeverStarts'
  BY <1>2 DEF KnownIds, DeadNeverStarts
<1>9. StartedOnce'
  BY <1>2, <1>4, <1>5 DEF StartedOnce
<1>10. AnnouncedWaitsAtIndex'
  BY <1>2, <1>4, <1>5 DEF AnnouncedWaitsAtIndex
<1> QED
  BY <1>6, <1>7, <1>8, <1>9, <1>10

LEMMA PopStep ==
  ASSUME IInv, NEW priority, pop(priority)
  PROVE  IInv'
<1> USE DEF IInv
<1>1. PICK k \in Positions :
        /\ IsMostImportant(k)
        /\ IF states_storage_[k].imp = void_msg
           THEN /\ undefined' = TRUE
                /\ UNCHANGED <<states_storage_, running, unpoppable_, started>>
           ELSE /\ Priority(states_storage_[k].imp, atomic) >= priority
                /\ Keep(Positions \ {k})
                /\ running' = states_storage_[k].id
                /\ started' = Append(started, states_storage_[k].id)
                /\ unpoppable_' = TRUE
                /\ UNCHANGED undefined
  BY DEF pop
<1>2. /\ pc = "idle"
      /\ UNCHANGED <<_stateMachinesId, now, pc, i, doomed, announced>>
  BY DEF pop
<1>3. CASE states_storage_[k].imp = void_msg
  <2>1. UNCHANGED <<states_storage_, running, unpoppable_, started>> /\ undefined' = TRUE
    BY <1>1, <1>3
  <2> QED BY <1>2, <2>1 DEF TypeOK, IdsAscend, KnownIds, StartedOnce, DeadNeverStarts,
                            AnnouncedWaitsAtIndex, Positions
<1>4. CASE states_storage_[k].imp # void_msg
  <2> DEFINE id == states_storage_[k].id
  <2>1. /\ Keep(Positions \ {k}) /\ running' = id
        /\ started' = Append(started, id) /\ unpoppable_' = TRUE
        /\ UNCHANGED undefined
    BY <1>1, <1>4
  <2>2. /\ states_storage_' \in Seq(Machines) /\ IdsAscend'
        /\ \A a \in Positions' : \E j \in Positions \ {k} :
             states_storage_'[a] = states_storage_[j]
    BY <1>2, <2>1, KeepInv
  <2>3. id \in Nat /\ id < _stateMachinesId
    <3>1. states_storage_[k] \in Machines
      BY DEF TypeOK, Positions
    <3> QED BY <3>1 DEF Machines, IdsAscend
  <2>4. \A j \in Positions \ {k} : states_storage_[j].id # id
    <3> SUFFICES ASSUME NEW j \in Positions \ {k} PROVE states_storage_[j].id # id
      OBVIOUS
    <3>1. j < k \/ k < j
      BY DEF Positions, TypeOK
    <3>2. states_storage_[j] \in Machines
      BY DEF TypeOK, Positions
    <3>3. states_storage_[j].id \in Nat
      BY <3>2 DEF Machines
    <3> QED BY <2>3, <3>1, <3>3 DEF IdsAscend
  <2>5. id \notin announced
    BY <1>2 DEF AnnouncedWaitsAtIndex
  <2>6. /\ started' \in Seq(Nat) /\ DOMAIN started' = DOMAIN started \cup {Len(started) + 1}
        /\ Len(started) + 1 \notin DOMAIN started
        /\ \A a \in DOMAIN started : started'[a] = started[a]
        /\ started'[Len(started) + 1] = id
    <3> HIDE DEF id
    <3> QED BY <2>1, <2>3 DEF TypeOK
  <2>7. \A a \in DOMAIN started : started[a] # id
    BY DEF StartedOnce
  <2> HIDE DEF id
  <2>8. TypeOK'
    BY <1>2, <2>1, <2>2, <2>3, <2>6 DEF TypeOK
  <2>9. KnownIds'
    BY <1>2, <2>3, <2>6 DEF KnownIds
  <2>10. StartedOnce'
    <3>1. \A a, b \in DOMAIN started' : started'[a] = started'[b] => a = b
      BY <2>6, <2>7 DEF StartedOnce
    <3>2. \A a \in DOMAIN started', c \in Positions' : started'[a] # states_storage_'[c].id
      BY <2>2, <2>4, <2>6 DEF StartedOnce
    <3> QED BY <3>1, <3>2 DEF StartedOnce
  <2>11. DeadNeverStarts'
    BY <1>2, <2>5, <2>6 DEF DeadNeverStarts
  <2>12. AnnouncedWaitsAtIndex'
    BY <1>2, <2>2 DEF AnnouncedWaitsAtIndex
  <2> QED BY <2>2, <2>8, <2>9, <2>10, <2>11, <2>12
<1> QED
  BY <1>3, <1>4

LEMMA CleanStep ==
  ASSUME IInv, Clean
  PROVE  IInv'
<1> USE DEF IInv
<1>1. CASE CleanBegin \/ CleanSize \/ CleanTest
  <2>1. /\ pc # "erase" /\ i' \in Nat \ {0}
        /\ pc' \in {"idle", "test", "late", "announce"} /\ undefined' \in BOOLEAN
        /\ UNCHANGED <<states_storage_, unpoppable_, _stateMachinesId, now, running,
                       doomed, started, announced>>
    <3>1. CASE CleanBegin
      BY <3>1 DEF CleanBegin, TypeOK
    <3>2. CASE CleanSize
      BY <3>2 DEF CleanSize, TypeOK
    <3>3. CASE CleanTest
      <4>1. /\ pc = "late" /\ pc' \in {"late", "announce", "test"}
            /\ i' = i \/ i' = i + 1
            /\ UNCHANGED <<states_storage_, unpoppable_, _stateMachinesId, now, running,
                           doomed, started, announced>>
        BY <3>3 DEF CleanTest
      <4>2. i' \in Nat \ {0}
        BY <4>1 DEF TypeOK
      <4>3. undefined' = TRUE \/ undefined' = undefined
        BY <3>3 DEF CleanTest
      <4>4. undefined' \in BOOLEAN
        BY <4>3, Zenon DEF TypeOK
      <4> QED BY <4>1, <4>2, <4>4
    <3> QED BY <1>1, <3>1, <3>2, <3>3
  <2>2. Positions' = Positions
    BY <2>1 DEF Positions
  <2> QED BY <2>1, <2>2 DEF TypeOK, IdsAscend, KnownIds, StartedOnce, DeadNeverStarts,
                            AnnouncedWaitsAtIndex
<1>2. CASE CleanAnnounce
  <2>1. /\ pc = "announce"
        /\ UNCHANGED <<states_storage_, unpoppable_, _stateMachinesId, now, running, i,
                       started>>
        /\ Positions' = Positions
    BY <1>2 DEF CleanAnnounce, Positions
  <2>2. CASE i \notin Positions
    <3>1. undefined' = TRUE /\ UNCHANGED <<pc, doomed, announced>>
      BY <1>2, <2>2 DEF CleanAnnounce
    <3> QED BY <2>1, <3>1 DEF TypeOK, IdsAscend, KnownIds, StartedOnce, DeadNeverStarts,
                              AnnouncedWaitsAtIndex
  <2>3. CASE i \in Positions
    <3>1. /\ pc' = "erase" /\ doomed' = states_storage_[i].id
          /\ announced' = announced \cup {states_storage_[i].id}
          /\ UNCHANGED undefined
      BY <1>2, <2>3 DEF CleanAnnounce
    <3>2. states_storage_[i].id \in Nat /\ states_storage_[i].id < _stateMachinesId
      <4>1. states_storage_[i] \in Machines
        BY <2>3 DEF TypeOK, Positions
      <4> QED BY <2>3, <4>1 DEF Machines, IdsAscend
    <3>3. \A k \in Positions : states_storage_[k].id \notin announced
      BY <2>1 DEF AnnouncedWaitsAtIndex
    <3>4. \A k \in Positions : states_storage_[k].id = states_storage_[i].id => k = i
      <4> SUFFICES ASSUME NEW k \in Positions, k # i
                   PROVE  states_storage_[k].id # states_storage_[i].id
        OBVIOUS
      <4>1. k < i \/ i < k
        BY <2>3 DEF Positions, TypeOK
      <4>2. states_storage_[k] \in Machines
        BY DEF TypeOK, Positions
      <4>3. states_storage_[k].id \in Nat
        BY <4>2 DEF Machines
      <4> QED BY <2>3, <3>2, <4>1, <4>3 DEF IdsAscend
    <3>5. AnnouncedWaitsAtIndex'
      BY <2>1, <3>1, <3>3, <3>4 DEF AnnouncedWaitsAtIndex
    <3>6. DeadNeverStarts'
      BY <2>1, <2>3, <3>1 DEF DeadNeverStarts, StartedOnce
    <3>7. TypeOK'
      BY <2>1, <3>1, <3>2 DEF TypeOK
    <3> QED BY <2>1, <3>1, <3>2, <3>5, <3>6, <3>7 DEF IdsAscend, KnownIds, StartedOnce
  <2> QED BY <2>2, <2>3
<1>3. CASE CleanErase
  <2>1. /\ pc = "erase"
        /\ UNCHANGED <<unpoppable_, _stateMachinesId, now, running, i, started,
                       announced>>
    BY <1>3 DEF CleanErase
  <2>2. CASE i \notin Positions
    <3>1. undefined' = TRUE /\ UNCHANGED <<pc, states_storage_, doomed>>
      BY <1>3, <2>2 DEF CleanErase
    <3> QED BY <2>1, <3>1 DEF TypeOK, IdsAscend, KnownIds, StartedOnce, DeadNeverStarts,
                              AnnouncedWaitsAtIndex, Positions
  <2>3. CASE i \in Positions
    <3>1. /\ pc' = "test" /\ Keep(Positions \ {i}) /\ doomed' = None
          /\ UNCHANGED undefined
      BY <1>3, <2>3 DEF CleanErase
    <3>2. /\ states_storage_' \in Seq(Machines) /\ IdsAscend'
          /\ \A a \in Positions' : \E j \in Positions \ {i} :
               states_storage_'[a] = states_storage_[j]
      BY <2>1, <3>1, KeepInv
    <3>3. AnnouncedWaitsAtIndex'
      BY <2>1, <3>2 DEF AnnouncedWaitsAtIndex
    <3>4. StartedOnce'
      BY <2>1, <3>2 DEF StartedOnce
    <3>5. TypeOK'
      BY <2>1, <3>1, <3>2 DEF TypeOK
    <3> QED BY <2>1, <3>2, <3>3, <3>4, <3>5 DEF KnownIds, DeadNeverStarts
  <2> QED BY <2>2, <2>3
<1> QED
  BY <1>1, <1>2, <1>3 DEF Clean

LEMMA IInvStep == IInv /\ [Next]_vars => IInv'
<1> SUFFICES ASSUME IInv, [Next]_vars PROVE IInv'
  OBVIOUS
<1>1. CASE poppable \/ RunEnds \/ Tick \/ UNCHANGED vars
  <2>1. /\ UNCHANGED <<states_storage_, _stateMachinesId, pc, i, doomed, started,
                       announced>>
        /\ Positions' = Positions
    BY <1>1 DEF poppable, RunEnds, Tick, vars, Positions
  <2>2. running' \in Nat \cup {None} /\ now' \in Nat
    <3>1. running' \in {running, None}
      BY <1>1 DEF poppable, RunEnds, Tick, vars
    <3>2. now' = now \/ now' = now + 1
      BY <1>1 DEF poppable, RunEnds, Tick, vars
    <3> QED BY <3>1, <3>2 DEF IInv, TypeOK
  <2>3. unpoppable_' \in BOOLEAN
    BY <1>1, Zenon DEF poppable, RunEnds, Tick, vars, IInv, TypeOK
  <2>4. undefined' \in BOOLEAN
    <3>1. CASE poppable
      BY <3>1, Zenon DEF poppable, IInv, TypeOK
    <3>2. CASE RunEnds \/ Tick \/ UNCHANGED vars
      BY <3>2, Zenon DEF RunEnds, Tick, vars, IInv, TypeOK
    <3> QED BY <1>1, <3>1, <3>2
  <2> QED BY <2>1, <2>2, <2>3, <2>4
      DEF IInv, TypeOK, IdsAscend, KnownIds, StartedOnce, DeadNeverStarts,
          AnnouncedWaitsAtIndex
<1>2. 0 .. MaxMachines - 1 \subseteq Nat
  OBVIOUS
<1> QED
  BY <1>1, <1>2, PushStep, RemoveStep, PopStep, CleanStep DEF Next

\* StateMachinesStorage: types, and the machines wait in the order of their registration
\* whatever push, remove, pop and clean() did.
THEOREM StorageTyped == Spec => [](TypeOK /\ IdsAscend)
<1>1. IInv => TypeOK /\ IdsAscend
  BY DEF IInv
<1> QED
  BY <1>1, IInvInit, IInvStep, PTL DEF Spec

\* pop starts a machine at most once, and leaves it nowhere among those that wait.
THEOREM StartedOnceCorrect == Spec => []StartedOnce
<1>1. IInv => StartedOnce
  BY DEF IInv
<1> QED
  BY <1>1, IInvInit, IInvStep, PTL DEF Spec

\* No machine starts once clean() has announced its end, although clean() is not locked.
THEOREM StorageCorrect == Spec => []DeadNeverStarts
<1>1. IInv => DeadNeverStarts
  BY DEF IInv
<1> QED
  BY <1>1, IInvInit, IInvStep, PTL DEF Spec

\* pop starts the machine with the highest importance among all that wait and,
\* among these, the one registered first.
THEOREM StartOrderCorrect == Spec => StartsInOrder
<1> DEFINE A == \A k \in Positions :
       Len(started') > Len(started)
         /\ states_storage_[k].id = started'[Len(started')]
       => \A j \in Positions :
            \/ states_storage_[j].imp < states_storage_[k].imp
            \/ /\ states_storage_[j].imp = states_storage_[k].imp
               /\ states_storage_[j].id >= states_storage_[k].id
<1>1. ASSUME IInv, Next
      PROVE  A
  <2> SUFFICES ASSUME NEW k \in Positions, NEW j \in Positions,
                      Len(started') > Len(started),
                      states_storage_[k].id = started'[Len(started')]
               PROVE  \/ states_storage_[j].imp < states_storage_[k].imp
                      \/ /\ states_storage_[j].imp = states_storage_[k].imp
                         /\ states_storage_[j].id >= states_storage_[k].id
    OBVIOUS
  <2>1. started \in Seq(Nat) /\ Len(started) \in Nat
    BY <1>1 DEF IInv, TypeOK
  <2>2. started' # started
    BY <2>1
  <2>3. PICK priority \in Levels : pop(priority)
    BY <1>1, <2>2 DEF Next, push, remove, poppable, RunEnds, Clean, CleanBegin,
                      CleanSize, CleanTest, CleanAnnounce, CleanErase, Tick
  <2>4. PICK p \in Positions :
          IsMostImportant(p) /\ started' = Append(started, states_storage_[p].id)
    BY <2>2, <2>3 DEF pop
  <2>5. \A q \in Positions : states_storage_[q].id \in Nat /\ q \in Nat
    <3>1. \A q \in Positions : states_storage_[q] \in Machines /\ q \in Nat
      BY <1>1 DEF IInv, TypeOK, Positions
    <3> QED BY <3>1 DEF Machines
  <2>6. started'[Len(started')] = states_storage_[p].id
    <3>1. states_storage_[p].id \in Nat
      BY <2>5
    <3> QED BY <2>1, <2>4, <3>1
  <2>7. k = p
    <3>1. states_storage_[k].id = states_storage_[p].id
      BY <2>6
    <3>2. ~ (k < p) /\ ~ (p < k)
      BY <1>1, <2>5, <3>1 DEF IInv, IdsAscend
    <3> QED BY <2>5, <3>2
  <2>8. CASE states_storage_[j].imp < states_storage_[k].imp
    BY <2>8
  <2>9. CASE states_storage_[j].imp = states_storage_[k].imp /\ k <= j
    <3>1. k = j \/ k < j
      BY <2>5, <2>9
    <3>2. CASE k = j
      BY <2>5, <2>9, <3>2
    <3>3. CASE k < j
      BY <1>1, <2>5, <2>9, <3>3 DEF IInv, IdsAscend
    <3> QED BY <3>1, <3>2, <3>3
  <2> QED BY <2>4, <2>7, <2>8, <2>9 DEF IsMostImportant
<1>2. IInv /\ [Next]_vars => [A]_vars
  <2> HIDE DEF A
  <2> QED BY <1>1
<1>3. Spec => [][A]_vars
  <2> HIDE DEF A
  <2> QED BY <1>2, IInvInit, IInvStep, PTL DEF Spec
<1> QED
  BY <1>3, Zenon DEF StartsInOrder
=============================================================================
