------------------------ MODULE ReactiveBuffersProofs ------------------------
(***************************************************************************)
(* Proofs about ReactiveBuffers, for every number of reactive inputs and   *)
(* every choice of importances and focuses.                                *)
(***************************************************************************)
EXTENDS ReactiveBuffers, TLAPS

(***************************************************************************)
(* The entries of the table, and the order between them.                   *)
(***************************************************************************)

\* PriorityHolder: every importance and focus that is neither void nor inhibit
\* has an entry, between 0 and 24.
LEMMA TableRange ==
  ASSUME NEW m \in 0 .. 4, NEW f \in 0 .. 4
  PROVE  Priority(m, f) \in 0 .. 24
<1>1. m \in {0, 1, 2, 3, 4} /\ f \in {0, 1, 2, 3, 4}
  OBVIOUS
<1> QED
  BY <1>1 DEF Priority, priorities

\* The order of the table: the vital row exceeds the others, short of it the
\* atomic column exceeds the others, and elsewhere a higher importance wins.
LEMMA TableOrder ==
  ASSUME NEW m \in 0 .. 4, NEW f \in 0 .. 4, NEW n \in 0 .. 4, NEW g \in 0 .. 4
  PROVE  /\ m = 4 /\ n < 4 => Priority(m, f) > Priority(n, g)
         /\ m < 4 /\ n < 4 /\ f = 4 /\ g < 4 => Priority(m, f) > Priority(n, g)
         /\ m > n /\ g < 4 => Priority(m, f) > Priority(n, g)
<1>1. /\ m \in {0, 1, 2, 3, 4} /\ f \in {0, 1, 2, 3, 4}
      /\ n \in {0, 1, 2, 3, 4} /\ g \in {0, 1, 2, 3, 4}
  OBVIOUS
<1> QED
  BY <1>1 DEF Priority, priorities

\* A competing buffer has a priority that any scan starting from NoPriority sees.
LEMMA CompetingPriority ==
  ASSUME TypeOK, NEW b \in Buffers, Competes(b)
  PROVE  /\ data[b] \in 0 .. 4 /\ focus[b] \in 0 .. 4
         /\ PriorityOf(b) \in 0 .. 24
<1>1. data[b] \in 0 .. 4 /\ focus[b] \in 0 .. 4
  BY DEF TypeOK, Competes, Importances, Focuses, void_msg, vital, inhibit, atomic
<1> QED
  BY <1>1, TableRange DEF PriorityOf

-----------------------------------------------------------------------------
(***************************************************************************)
(* Type correctness.                                                       *)
(***************************************************************************)

USE NInputsAssumption DEF Buffers, ReactiveInputs, SM, AL, None

\* The values a lookup yields are bytes.
LEMMA LookedUpType ==
  ASSUME TypeOK, i \in Buffers
  PROVE  LookedUp \subseteq -128 .. 127
<1>1. CASE Competes(i)
  <2>1. PriorityOf(i) \in 0 .. 24
    BY <1>1, CompetingPriority
  <2> QED BY <1>1, <2>1 DEF LookedUp
<1>2. CASE ~ Competes(i)
  BY <1>2, OutsideAssumption DEF LookedUp
<1> QED BY <1>1, <1>2

\* The control of the scan stays within the buffers.
ControlOK ==
  /\ pc = "compare" => i <= AL
  /\ pc \in {"publish", "mark"} => found \in Buffers

\* Init => IInv and IInv /\ [Next]_vars => IInv' for the types and the control.
LEMMA TypeStep ==
  ASSUME TypeOK, ControlOK, [Next]_vars
  PROVE  TypeOK' /\ ControlOK'
<1> USE MaxWritesAssumption
<1>1. CASE setStateMachineData
  <2>1. data' \in [Buffers -> Importances \cup {NoData}]
    BY <1>1, SentAssumption DEF setStateMachineData, SetStateMachineBuffer, TypeOK
  <2>2. /\ has_been_published' \in [Buffers -> BOOLEAN]
        /\ unseen' \in [Buffers -> BOOLEAN]
        /\ overlapped' \in [Buffers -> BOOLEAN]
    <3>1. CASE UNCHANGED <<has_been_published, unseen, overlapped>>
      BY <3>1 DEF TypeOK
    <3>2. ASSUME NEW msg \in SentImportances \cup {NoData}, SetStateMachineBuffer(msg),
                 unseen' = [unseen EXCEPT ![SM] = msg # NoData]
          PROVE  /\ has_been_published' \in [Buffers -> BOOLEAN]
                 /\ unseen' \in [Buffers -> BOOLEAN]
                 /\ overlapped' \in [Buffers -> BOOLEAN]
      BY <3>2 DEF SetStateMachineBuffer, TypeOK
    <3> QED BY <1>1, <3>1, <3>2 DEF setStateMachineData
  <2>3. writes' \in 0 .. MaxWrites
    BY <1>1 DEF setStateMachineData, TypeOK
  <2>4. /\ pc' \in {"begin", "clone", "cloned", "scan", "compare", "publish", "mark"}
        /\ ControlOK'
    BY <1>1 DEF setStateMachineData, ControlOK
  <2> QED BY <1>1, <2>1, <2>2, <2>3, <2>4 DEF setStateMachineData, TypeOK
<1>12. CASE CloneArtificialLife
  <2>1. data' \in [Buffers -> Importances \cup {NoData}]
    BY <1>12, SentAssumption DEF CloneArtificialLife, SetStateMachineBuffer, TypeOK
  <2>2. /\ has_been_published' \in [Buffers -> BOOLEAN]
        /\ unseen' \in [Buffers -> BOOLEAN]
        /\ overlapped' \in [Buffers -> BOOLEAN]
    BY <1>12 DEF CloneArtificialLife, SetStateMachineBuffer, TypeOK
  <2> QED BY <1>12, <2>1, <2>2 DEF CloneArtificialLife, TypeOK, ControlOK
<1>13. CASE MarkCloned
  BY <1>13 DEF MarkCloned, TypeOK, ControlOK
<1>2. CASE ScanTest
  BY <1>2 DEF ScanTest, TypeOK, ControlOK
<1>3. CASE ScanCompare
  <2>1. i \in Buffers
    BY <1>3 DEF ControlOK, TypeOK, ScanCompare
  <2>2. LookedUp \subseteq -128 .. 127
    BY <2>1, LookedUpType
  <2>3. found' \in Buffers \cup {None} /\ max_priority' \in -128 .. 127
    <3>1. PICK tmp \in LookedUp :
            IF tmp > max_priority
            THEN found' = i /\ max_priority' = tmp
            ELSE UNCHANGED <<found, max_priority>>
      BY <1>3 DEF ScanCompare
    <3>2. tmp \in -128 .. 127 /\ max_priority \in -128 .. 127 /\ found \in Buffers \cup {None}
      BY <2>2 DEF TypeOK
    <3> QED BY <2>1, <3>1, <3>2
  <2>4. /\ pc' = "scan" /\ i' \in 1 .. AL + 1
        /\ UNCHANGED <<data, focus, has_been_published, storing, is_new, active_buffer,
                       writes, dirty, unseen, overlapped>>
    BY <1>3, <2>1 DEF ScanCompare
  <2>5. TypeOK'
    BY <2>3, <2>4 DEF TypeOK
  <2> QED BY <2>4, <2>5 DEF ControlOK
<1>4. CASE TestFlag
  <2>1. /\ i' = 1 /\ max_priority' = -100 /\ dirty' = {}
        /\ UNCHANGED <<data, focus, has_been_published, storing, found, active_buffer,
                       writes, unseen, overlapped>>
    BY <1>4 DEF TestFlag, NoPriority
  <2>2. /\ is_new' \in BOOLEAN
        /\ pc' \in {"begin", "publish"}
        /\ pc' = "publish" => found # None
    BY <1>4 DEF TestFlag, TypeOK
  <2> QED BY <2>1, <2>2 DEF TypeOK, ControlOK
<1>5. CASE Publish
  BY <1>5 DEF Publish, TypeOK, ControlOK
<1>6. CASE Mark
  BY <1>6 DEF Mark, TypeOK, ControlOK
<1>7. ASSUME NEW b \in ReactiveInputs, NEW imp \in SentImportances,
             _subscriberCallback(b, imp)
      PROVE  TypeOK' /\ ControlOK'
  BY <1>7, SentAssumption
  DEF _subscriberCallback, StoreData, Disturb, Publishing, mainVars, TypeOK, ControlOK
<1>8. ASSUME NEW b \in Buffers, StoreFlag(b), UNCHANGED mainVars
      PROVE  TypeOK' /\ ControlOK'
  BY <1>8 DEF StoreFlag, Publishing, mainVars, TypeOK, ControlOK
<1>9. ASSUME NEW b \in ReactiveInputs, NEW foc \in SetFocuses,
             prioritiesCallback(b, foc)
      PROVE  TypeOK' /\ ControlOK'
  BY <1>9, FocusAssumption
  DEF prioritiesCallback, Disturb, Publishing, mainVars, TypeOK, ControlOK
<1>10. CASE inLoop
  BY <1>10 DEF inLoop, StoreData, Disturb, Publishing, mainVars, TypeOK, ControlOK,
               Importances, void_msg, vital, low
<1>11. CASE UNCHANGED vars
  BY <1>11 DEF vars, mainVars, TypeOK, ControlOK
<1> QED
  BY <1>1, <1>2, <1>3, <1>4, <1>5, <1>6, <1>7, <1>8, <1>9, <1>10, <1>11,
     <1>12, <1>13
  DEF Next, Main, Spin, ArtificialLife, _subscriberCallbackEnd, inLoopEnd

LEMMA TypeInit == Init => TypeOK /\ ControlOK
<1> SUFFICES ASSUME Init PROVE TypeOK /\ ControlOK
  OBVIOUS
<1>1. low \in Importances /\ atomic \in Focuses /\ background \in Focuses
  BY DEF Importances, Focuses, void_msg, vital, inhibit, atomic, background, low
<1>2. max_priority \in -128 .. 127
  BY DEF Init, NoPriority
<1>3. /\ data \in [Buffers -> Importances \cup {NoData}]
      /\ focus \in [Buffers -> Focuses]
  BY <1>1 DEF Init
<1>4. /\ has_been_published \in [Buffers -> BOOLEAN]
      /\ unseen \in [Buffers -> BOOLEAN]
      /\ overlapped \in [Buffers -> BOOLEAN]
  BY DEF Init
<1>5. /\ i \in 1 .. AL + 1
      /\ writes \in 0 .. MaxWrites
  BY MaxWritesAssumption DEF Init
<1>6. /\ storing \subseteq Buffers \ {SM}
      /\ pc \in {"begin", "clone", "cloned", "scan", "compare", "publish", "mark"}
      /\ found \in Buffers \cup {None}
      /\ active_buffer \in Buffers \cup {None}
      /\ is_new \in BOOLEAN /\ dirty \subseteq Buffers
      /\ ControlOK
  BY DEF Init, ControlOK
<1> QED
  BY <1>2, <1>3, <1>4, <1>5, <1>6 DEF TypeOK

\* Every variable keeps its type, and the index of the scan and the buffer being
\* published stay among the buffers.
THEOREM TypeCorrect == Spec => [](TypeOK /\ ControlOK)
BY TypeInit, TypeStep, PTL DEF Spec

-----------------------------------------------------------------------------
(***************************************************************************)
(* The scan of getMorePriority.                                            *)
(***************************************************************************)

\* The inductive strengthening: no buffer before i that was left alone exceeds the
\* highest priority so far, and if found was left alone it is the winner among
\* those, with that priority; between two scans the local variables are reset.
ScanInv ==
  /\ pc \in {"scan", "compare"} =>
       /\ \A c \in (1 .. i - 1) \ dirty : Competes(c) => PriorityOf(c) <= max_priority
       /\ found \notin dirty =>
            /\ IsWinner(found, (1 .. i - 1) \ dirty)
            /\ max_priority = IF found = None THEN NoPriority ELSE PriorityOf(found)
       /\ pc = "compare" => i \in dirty \/ Competes(i)
  /\ pc \notin {"scan", "compare"} => i = 1 /\ max_priority = NoPriority /\ dirty = {}
  /\ pc \in {"begin", "clone", "cloned"} => found = None

\* A step of another thread that writes nothing but buffers it enters in dirty
\* preserves the invariant.
LEMMA ScanDisturbed ==
  ASSUME TypeOK, ControlOK, ScanInv,
         UNCHANGED <<pc, i, found, max_priority>>,
         dirty \subseteq dirty',
         pc \notin {"scan", "compare"} => dirty' = dirty,
         pc \in {"scan", "compare"} =>
           \A c \in Buffers \ dirty' : data'[c] = data[c] /\ focus'[c] = focus[c]
  PROVE  ScanInv'
<1>1. CASE pc \notin {"scan", "compare"}
  BY <1>1 DEF ScanInv
<1>2. CASE pc \in {"scan", "compare"}
  <2>1. \A c \in Buffers \ dirty' : /\ Competes(c)' <=> Competes(c)
                                    /\ PriorityOf(c)' = PriorityOf(c)
    BY <1>2 DEF Competes, PriorityOf
  <2>2. /\ i \in 1 .. AL + 1 /\ 1 .. i - 1 \subseteq Buffers
        /\ found \in Buffers \cup {None}
    BY DEF TypeOK
  <2>3. \A c \in (1 .. i - 1) \ dirty' : Competes(c)' => PriorityOf(c)' <= max_priority
    BY <1>2, <2>1, <2>2 DEF ScanInv
  <2>4. ASSUME found \notin dirty'
        PROVE  /\ IsWinner(found, (1 .. i - 1) \ dirty)'
               /\ max_priority' = IF found = None THEN NoPriority ELSE PriorityOf(found)'
    <3>1. /\ IsWinner(found, (1 .. i - 1) \ dirty)
          /\ max_priority = IF found = None THEN NoPriority ELSE PriorityOf(found)
      BY <1>2, <2>4 DEF ScanInv
    <3>2. \A c \in (1 .. i - 1) \ dirty' :
            /\ c \in (1 .. i - 1) \ dirty
            /\ Competes(c)' <=> Competes(c)
            /\ PriorityOf(c)' = PriorityOf(c)
      BY <2>1, <2>2
    <3>3. CASE found = None
      BY <3>1, <3>2, <3>3 DEF IsWinner
    <3>4. CASE found # None
      <4>1. found \in (1 .. i - 1) \ dirty' /\ Competes(found)
        BY <2>4, <3>1, <3>4 DEF IsWinner
      <4>2. \A c \in (1 .. i - 1) \ dirty' : Competes(c)' => Beats(found, c)'
        BY <3>1, <3>2, <3>4, <4>1 DEF IsWinner, Beats
      <4> QED BY <3>1, <3>2, <3>4, <4>1, <4>2 DEF IsWinner
    <3> QED BY <3>3, <3>4
  <2>5. pc' = "compare" => i' \in dirty' \/ Competes(i)'
    <3> SUFFICES ASSUME pc = "compare", i \notin dirty'
                 PROVE  Competes(i)'
      OBVIOUS
    <3>1. i \in Buffers \ dirty' /\ Competes(i)
      BY <2>2 DEF ControlOK, ScanInv
    <3>2. Competes(i) <=> data[i] # NoData /\ focus[i] >= 0 /\ data[i] >= 0
      BY DEF Competes
    <3> QED BY <1>2, <3>1, <3>2 DEF Competes
  <2> QED BY <1>2, <2>3, <2>4, <2>5 DEF ScanInv
<1> QED BY <1>1, <1>2

LEMMA ScanStep ==
  ASSUME TypeOK, ControlOK, ScanInv, [Next]_vars
  PROVE  ScanInv'
<1>1. CASE setStateMachineData
  BY <1>1 DEF setStateMachineData, ScanInv, IsWinner
<1>2. CASE CloneArtificialLife
  BY <1>2 DEF CloneArtificialLife, ScanInv
<1>3. CASE MarkCloned
  BY <1>3 DEF MarkCloned, ScanInv, IsWinner
<1>4. CASE ScanTest
  <2>1. UNCHANGED <<data, focus, found, max_priority, dirty>>
    BY <1>4 DEF ScanTest
  <2>2. /\ pc = "scan" /\ i \in 1 .. AL /\ found \in Buffers \cup {None}
        /\ \A c \in (1 .. i - 1) \ dirty : Competes(c) => PriorityOf(c) <= max_priority
        /\ found \notin dirty =>
             /\ IsWinner(found, (1 .. i - 1) \ dirty)
             /\ max_priority = IF found = None THEN NoPriority ELSE PriorityOf(found)
    BY <1>4 DEF ScanTest, ScanInv, TypeOK
  <2>3. CASE Competes(i)
    <3>1. pc' = "compare" /\ i' = i
      BY <1>4, <2>3 DEF ScanTest
    <3> QED BY <2>1, <2>2, <2>3, <3>1
         DEF ScanInv, IsWinner, Competes, Beats, PriorityOf
  <2>4. CASE ~ Competes(i)
    <3>1. pc' = "scan" /\ i' = i + 1
      BY <1>4, <2>4 DEF ScanTest
    <3>2. 1 .. i' - 1 = (1 .. i - 1) \cup {i}
      BY <2>2, <3>1
    <3>3. \A c \in (1 .. i' - 1) \ dirty : Competes(c) => c \in (1 .. i - 1) \ dirty
      BY <2>4, <3>2
    <3>4. found \notin dirty => IsWinner(found, (1 .. i' - 1) \ dirty)
      BY <2>2, <3>2, <3>3 DEF IsWinner
    <3> QED BY <2>1, <2>2, <3>1, <3>3, <3>4
         DEF ScanInv, IsWinner, Competes, Beats, PriorityOf
  <2> QED BY <2>3, <2>4
<1>5. CASE ScanCompare
  <2> DEFINE Before == (1 .. i - 1) \ dirty
             Upto == (1 .. i) \ dirty
  <2>1. /\ pc = "compare" /\ i \in Buffers
        /\ \A c \in Before : Competes(c) => PriorityOf(c) <= max_priority
        /\ found \notin dirty =>
             /\ IsWinner(found, Before)
             /\ max_priority = IF found = None THEN NoPriority ELSE PriorityOf(found)
        /\ i \in dirty \/ Competes(i)
    BY <1>5 DEF ScanCompare, ScanInv, ControlOK, TypeOK
  <2>2. PICK tmp \in LookedUp :
          IF tmp > max_priority
          THEN found' = i /\ max_priority' = tmp
          ELSE UNCHANGED <<found, max_priority>>
    BY <1>5 DEF ScanCompare
  <2>3. pc' = "scan" /\ i' = i + 1 /\ UNCHANGED <<data, focus, dirty>>
    BY <1>5 DEF ScanCompare
  <2>4. /\ tmp \in -128 .. 127 /\ max_priority \in -128 .. 127
        /\ found \in Buffers \cup {None}
    BY <2>1, <2>2, LookedUpType DEF TypeOK
  <2>5. \A b \in Buffers : Competes(b) => PriorityOf(b) \in 0 .. 24
    BY CompetingPriority
  <2>6. /\ 1 .. i' - 1 = 1 .. i
        /\ Upto \subseteq Buffers /\ Before \subseteq Buffers /\ Before \subseteq Upto
        /\ \A c \in Upto : c \in Before \/ (c = i /\ i \notin dirty)
    <3>1. i' - 1 = i /\ i \in 1 .. AL
      BY <2>1, <2>3
    <3>2. \A c \in 1 .. i : c \in 1 .. i - 1 \/ c = i
      BY <3>1
    <3>3. 1 .. i \subseteq Buffers /\ 1 .. i - 1 \subseteq 1 .. i
      BY <3>1
    <3>4. 1 .. i' - 1 = 1 .. i
      BY <3>1
    <3>5. /\ Upto \subseteq Buffers /\ Before \subseteq Buffers /\ Before \subseteq Upto
          /\ \A c \in Upto : c \in Before \/ (c = i /\ i \notin dirty)
      <4> HIDE DEF Buffers
      <4> QED BY <3>2, <3>3
    <3> QED BY <3>4, <3>5
  <2>7. i \notin dirty => Competes(i) /\ tmp = PriorityOf(i)
    BY <2>1, <2>2 DEF LookedUp
  <2>8. \A c \in Upto : Competes(c) => PriorityOf(c) <= max_priority'
    <3>1. tmp <= max_priority' /\ max_priority <= max_priority' /\ max_priority' \in Int
      BY <2>2, <2>4
    <3> QED
      <4> SUFFICES ASSUME NEW c \in Upto, Competes(c)
                   PROVE  PriorityOf(c) <= max_priority'
        OBVIOUS
      <4>1. PriorityOf(c) \in 0 .. 24
        BY <2>5, <2>6
      <4>2. PriorityOf(c) <= max_priority \/ PriorityOf(c) = tmp
        BY <2>1, <2>6, <2>7
      <4> QED BY <2>4, <3>1, <4>1, <4>2
  <2>9. ASSUME found' \notin dirty
        PROVE  /\ IsWinner(found', Upto)
               /\ max_priority' = IF found' = None THEN NoPriority
                                                   ELSE PriorityOf(found')
    <3>1. CASE tmp > max_priority
      <4>1. found' = i /\ max_priority' = PriorityOf(i) /\ Competes(i) /\ i \in Upto
        BY <2>1, <2>2, <2>7, <2>9, <3>1
      <4>2. ASSUME NEW c \in Before, Competes(c)
            PROVE  PriorityOf(i) > PriorityOf(c)
        <5>1. /\ PriorityOf(c) \in 0 .. 24 /\ PriorityOf(i) \in 0 .. 24
              /\ PriorityOf(c) <= max_priority /\ PriorityOf(i) > max_priority
          BY <2>1, <2>2, <2>5, <2>6, <3>1, <4>1, <4>2
        <5> QED BY <2>4, <5>1
      <4>3. Beats(i, i) /\ \A c \in Before : Competes(c) => Beats(i, c)
        BY <4>2, <2>1 DEF Beats
      <4> QED BY <2>1, <2>6, <4>1, <4>3 DEF IsWinner
    <3>2. CASE ~ (tmp > max_priority)
      <4>1. UNCHANGED <<found, max_priority>>
        BY <2>2, <3>2
      <4>2. /\ IsWinner(found, Before)
            /\ max_priority = IF found = None THEN NoPriority ELSE PriorityOf(found)
        BY <2>1, <2>9, <4>1
      <4>3. CASE i \in dirty
        <5>1. Upto = Before
          BY <2>1, <4>3
        <5> QED BY <4>1, <4>2, <5>1
      <4>4. CASE i \notin dirty
        <5>1. /\ found \in Before /\ Competes(found) /\ max_priority = PriorityOf(found)
              /\ \A c \in Before : Competes(c) => Beats(found, c)
          BY <2>1, <2>4, <2>5, <2>7, <3>2, <4>2, <4>4 DEF IsWinner, NoPriority
        <5>2. /\ found \in Upto /\ found <= i
              /\ PriorityOf(i) \in 0 .. 24 /\ PriorityOf(found) \in 0 .. 24
          BY <2>1, <2>5, <2>7, <4>4, <5>1
        <5>3. Beats(found, i)
          BY <2>7, <3>2, <4>4, <5>1, <5>2 DEF Beats
        <5> QED BY <2>1, <2>6, <4>1, <5>1, <5>2, <5>3 DEF IsWinner
      <4> QED BY <4>3, <4>4
    <3> QED BY <3>1, <3>2
  <2> HIDE DEF Before, Upto
  <2>10. (1 .. i' - 1) \ dirty' = Upto
    BY <2>3, <2>6 DEF Upto
  <2> QED BY <2>3, <2>8, <2>9, <2>10 DEF ScanInv, IsWinner, Competes, Beats, PriorityOf
<1>6. CASE TestFlag
  BY <1>6 DEF TestFlag, ScanInv
<1>7. CASE Publish
  BY <1>7 DEF Publish, ScanInv
<1>8. CASE Mark
  BY <1>8 DEF Mark, ScanInv
<1>9. ASSUME NEW b \in Buffers,
             \E msg : StoreData(b, msg) /\ UNCHANGED mainVars
      PROVE  ScanInv'
  BY <1>9, ScanDisturbed DEF StoreData, Disturb, mainVars, TypeOK
<1>10. ASSUME NEW b \in Buffers, StoreFlag(b), UNCHANGED mainVars
       PROVE  ScanInv'
  BY <1>10, ScanDisturbed DEF StoreFlag, mainVars
<1>11. ASSUME NEW b \in ReactiveInputs, NEW foc, prioritiesCallback(b, foc)
       PROVE  ScanInv'
  BY <1>11, ScanDisturbed DEF prioritiesCallback, Disturb, mainVars, TypeOK
<1>12. CASE UNCHANGED vars
  BY <1>12, ScanDisturbed DEF vars, mainVars
<1> QED
  BY <1>1, <1>2, <1>3, <1>4, <1>5, <1>6, <1>7, <1>8, <1>9, <1>10, <1>11, <1>12
  DEF Next, Main, Spin, ArtificialLife, _subscriberCallback, _subscriberCallbackEnd,
      inLoop, inLoopEnd

\* Whatever the threads write during the scan, getMorePriority returns a buffer
\* written meanwhile, or the competing buffer of highest priority among the others,
\* the first declared among equals.
THEOREM ScanCorrect == Spec => []ScanFindsWinner
<1>1. Init => ScanInv
  BY DEF Init, ScanInv
<1>2. TypeOK /\ ControlOK /\ ScanInv => ScanFindsWinner
  <2> SUFFICES ASSUME TypeOK, ScanInv, ScanIsOver, found \notin dirty
               PROVE  IsWinner(found, Buffers \ dirty)
    BY DEF ScanFindsWinner
  <2>1. i = AL + 1 /\ 1 .. i - 1 = Buffers
    BY DEF TypeOK, ScanIsOver
  <2> QED BY <2>1 DEF ScanInv, ScanIsOver
<1> QED
  BY <1>1, <1>2, ScanStep, TypeCorrect, PTL DEF Spec

\* The order the tests of the led manager describe holds of every undisturbed
\* scan: it follows from ScanFindsWinner and from the table alone.
THEOREM DocumentedOrderCorrect == Spec => []DocumentedOrder
<1>1. ASSUME TypeOK, ScanFindsWinner
      PROVE  DocumentedOrder
  <2> SUFFICES ASSUME ScanIsOver, dirty = {}, found # None
               PROVE  VitalPreemptsAny /\ FullFocusPreempts /\ ImportancePreempts
    BY DEF DocumentedOrder
  <2>1. /\ found \in Buffers /\ Competes(found)
        /\ \A b \in Buffers : Competes(b) => Beats(found, b)
    <3>1. Buffers \ dirty = Buffers /\ found \notin dirty
      OBVIOUS
    <3> QED BY <1>1, <3>1 DEF ScanFindsWinner, IsWinner
  <2>2. \A b \in Buffers : Competes(b) => data[b] \in 0 .. 4 /\ focus[b] \in 0 .. 4
    BY <1>1, CompetingPriority
  <2>3. ASSUME NEW b \in Buffers, Competes(b)
        PROVE  ~ (PriorityOf(b) > PriorityOf(found))
    <3>1. PriorityOf(b) \in 0 .. 24 /\ PriorityOf(found) \in 0 .. 24
      BY <1>1, <2>1, <2>3, CompetingPriority
    <3> QED BY <2>1, <2>3, <3>1 DEF Beats
  <2>4. VitalPreemptsAny
    <3> SUFFICES ASSUME NEW b \in Buffers, Competes(b), data[b] = 4, data[found] # 4
                 PROVE  FALSE
      BY DEF VitalPreemptsAny, vital
    <3>1. PriorityOf(b) > PriorityOf(found)
      BY <2>1, <2>2, TableOrder DEF PriorityOf
    <3> QED BY <2>3, <3>1
  <2>5. FullFocusPreempts
    <3> SUFFICES ASSUME NEW b \in Buffers, Competes(b), focus[b] = 4, focus[found] # 4,
                        \A c \in Buffers : Competes(c) => data[c] < 4
                 PROVE  FALSE
      BY DEF FullFocusPreempts, atomic, vital
    <3>1. PriorityOf(b) > PriorityOf(found)
      BY <2>1, <2>2, TableOrder DEF PriorityOf
    <3> QED BY <2>3, <3>1
  <2>6. ImportancePreempts
    <3> SUFFICES ASSUME NEW b \in Buffers, Competes(b), data[b] > data[found],
                        focus[found] # 4
                 PROVE  FALSE
      BY DEF ImportancePreempts, atomic
    <3>1. PriorityOf(b) > PriorityOf(found)
      BY <2>1, <2>2, TableOrder DEF PriorityOf
    <3> QED BY <2>3, <3>1
  <2> QED BY <2>4, <2>5, <2>6
<1> QED
  BY <1>1, TypeCorrect, ScanCorrect, PTL

-----------------------------------------------------------------------------
(***************************************************************************)
(* The flag has_been_published.                                            *)
(***************************************************************************)

\* A message of b that was neither published as new nor given to the state machine
\* has its setData under way, or overlapped one of the two windows.
Accounted(b) == unseen[b] => b \in storing \/ overlapped[b]

\* The inductive strengthening: the buffer under publication is accounted for
\* unless its message is about to be published as new, and so is the artificial
\* life's once its message has been copied.
FlagInv ==
  /\ LostOnlyInTheWindow
  /\ pc = "publish" /\ ~ is_new => Accounted(found)
  /\ pc = "mark" => Accounted(found)
  /\ pc = "cloned" => Accounted(AL)

LEMMA FlagStep ==
  ASSUME TypeOK, ControlOK, FlagInv, [Next]_vars
  PROVE  FlagInv'
<1> USE DEF FlagInv, LostOnlyInTheWindow, Accounted
<1>1. CASE setStateMachineData
  BY <1>1 DEF setStateMachineData, SetStateMachineBuffer, TypeOK
<1>10. CASE CloneArtificialLife
  BY <1>10 DEF CloneArtificialLife, SetStateMachineBuffer, TypeOK
<1>11. CASE MarkCloned
  BY <1>11 DEF MarkCloned, TypeOK
<1>2. CASE ScanTest \/ ScanCompare
  BY <1>2 DEF ScanTest, ScanCompare, TypeOK
<1>3. CASE TestFlag
  <2>1. CASE found = None
    BY <1>3, <2>1 DEF TestFlag
  <2>2. CASE found # None
    <3>1. found \in Buffers
      BY <2>2 DEF TypeOK
    <3>2. pc' = "publish" /\ (~ is_new' => has_been_published[found])
      BY <1>3, <2>2 DEF TestFlag
    <3> QED BY <1>3, <3>1, <3>2 DEF TestFlag
  <2> QED BY <2>1, <2>2
<1>4. CASE Publish
  <2>1. found \in Buffers
    BY <1>4 DEF Publish, ControlOK
  <2> QED BY <1>4, <2>1 DEF Publish, TypeOK
<1>5. CASE Mark
  <2>1. found \in Buffers
    BY <1>5 DEF Mark, ControlOK
  <2> QED BY <1>5, <2>1 DEF Mark, TypeOK
<1>6. ASSUME NEW b \in Buffers, NEW msg, StoreData(b, msg), UNCHANGED mainVars
      PROVE  FlagInv'
  BY <1>6 DEF StoreData, Publishing, mainVars, TypeOK
<1>7. ASSUME NEW b \in Buffers, StoreFlag(b), UNCHANGED mainVars
      PROVE  FlagInv'
  BY <1>7 DEF StoreFlag, Publishing, mainVars, TypeOK
<1>8. ASSUME NEW b \in ReactiveInputs, NEW foc, prioritiesCallback(b, foc)
      PROVE  FlagInv'
  BY <1>8 DEF prioritiesCallback, mainVars
<1>9. CASE UNCHANGED vars
  BY <1>9 DEF vars, mainVars
<1> QED
  BY <1>1, <1>2, <1>3, <1>4, <1>5, <1>6, <1>7, <1>8, <1>9,
     <1>10, <1>11
  DEF Next, Main, Spin, ArtificialLife, _subscriberCallback, _subscriberCallbackEnd,
      inLoop, inLoopEnd

\* A message that is marked as published without having been published as new
\* had its setData overlap the publication of its buffer, or the copy of a message
\* of the artificial life; every other one was published or given to the state
\* machine.
THEOREM FlagCorrect == Spec => []LostOnlyInTheWindow
<1>1. Init => FlagInv
  BY DEF Init, FlagInv, LostOnlyInTheWindow, Accounted
<1>2. FlagInv => LostOnlyInTheWindow
  BY DEF FlagInv
<1> QED
  BY <1>1, <1>2, FlagStep, TypeCorrect, PTL DEF Spec
=============================================================================
