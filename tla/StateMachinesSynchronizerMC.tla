--------------------- MODULE StateMachinesSynchronizerMC ---------------------
(***************************************************************************)
(* An instance of StateMachinesSynchronizer for TLC: two resources.        *)
(***************************************************************************)
EXTENDS StateMachinesSynchronizer

CONSTANTS s1, s2, end,  \* the states; end has no transition
          a, b, ab,     \* the synchronisations; the name of the last is "a_b"
          o             \* another event

MCNames == {a, b, ab}
MCParts == [n \in MCNames |-> IF n = ab THEN <<a, b>> ELSE <<n>>]

On(regexs, next) == [regexs |-> regexs, timed |-> FALSE, next |-> next]
After(next) == [regexs |-> <<>>, timed |-> TRUE, next |-> next]
State(transitions, names) == [transitions |-> transitions, synchro_names_ |-> names]

Machine(first, second) ==
  [s \in States |->
     IF s = s1 THEN first ELSE IF s = s2 THEN second ELSE State(<<>>, <<>>)]

\* The first resource goes round, meeting at a and then at b.  The second listens twice to
\* a, the first time together with another event; then it waits for b, or for the name with
\* an underscore, and may tire of it.
MCMachines ==
  <<Machine(State(<<On(<<a>>, s2)>>, <<a>>),
            State(<<On(<<b>>, s1)>>, <<b>>)),
    Machine(State(<<On(<<a, o>>, end), On(<<a>>, s2)>>, <<a, a>>),
            State(<<On(<<ab>>, end), On(<<b>>, end), After(end)>>, <<ab, b>>))>>

MCInitial == [r \in 1 .. 2 |-> s1]
MCExtracted == <<<<a, b>>, <<a, a, ab, b>>>>
-----------------------------------------------------------------------------
(***************************************************************************)
(* The machines above, and what is extracted of them, are what the         *)
(* builders, the generated manager and its registration make of the calls  *)
(* of a client.                                                            *)
(***************************************************************************)
B == INSTANCE StateStorage WITH Alphabet <- <<end, s1, s2>>, Names <- MCNames

AddOn(states_, name, regexs, next) == B!AddTransition(states_, name, next, FALSE, regexs)
AddAfter(states_, name, next) == B!AddTransition(states_, name, next, TRUE, <<>>)

Blank == B!AddState(B!AddState(B!AddState(B!NoStates, s1, 1), s2, 2), end, 3)
FirstBuilt == AddOn(AddOn(Blank, s1, <<a>>, s2), s2, <<b>>, s1)
SecondBuilt ==
  AddOn(AddOn(AddAfter(AddOn(AddOn(Blank, s2, <<ab>>, end), s2, <<b>>, end), s2, end),
              s1, <<a, o>>, end), s1, <<a>>, s2)
Lists == <<<<B!StatesMsg(FirstBuilt)>>, <<B!StatesMsg(SecondBuilt)>>>>

ASSUME MachinesAreBuilt ==
  \A r \in 1 .. 2 :
    /\ LET Stored(s) == B!_serviceCallback(Lists[r]).states_[s] IN
       \A s \in States :
         /\ Stored(s).transitions = MCMachines[r][s].transitions
         /\ Stored(s).synchro_names_ = MCMachines[r][s].synchro_names_
    /\ B!_extractCallback(Lists[r]) = MCExtracted[r]

\* Messages of one or two types of data, with up to two transitions from a state and one
\* from another, which may name the same state in both types, or no state at all.
Calls == {s1, s2, end} \X {<<>>, <<a>>, <<a, o>>, <<b, a, b>>}
Described(calls, second) ==
  LET Add(states_, c) == AddOn(states_, s1, c[2], c[1])
      start == B!AddState(B!AddState(B!NoStates, s1, 1), s1, 2)
      first == B!StatesMsg(B!FoldLeft(Add, start, calls))
      Other(s) == B!StatesMsg(AddOn(B!AddState(B!NoStates, s, 4), s, second[2], second[1]))
  IN {<<first>>} \cup {<<first, Other(s)>> : s \in {s1, s2}}

ASSUME EverythingIsStored ==
  \A calls \in {<<>>} \cup {<<c>> : c \in Calls} \cup Calls \X Calls : \A second \in Calls :
    \A lists \in Described(calls, second) : B!StoredAsDescribed(lists)
=============================================================================
