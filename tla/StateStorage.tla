---------------------------- MODULE StateStorage ----------------------------
(***************************************************************************)
(* How a machine is made, from the calls of the client that describes it   *)
(* to the storage of its states that the runner goes through:              *)
(*                                                                         *)
(*   - the builders of the client collect the states of each type of data  *)
(*     in a map, and give them in the order of their names;                *)
(*   - the generated manager extracts data and transitions of the message; *)
(*   - the registration enters them in the storage, where the states that  *)
(*     are only the target of a transition are partially defined;          *)
(*   - another service extracts the names of its synchronisations.         *)
(***************************************************************************)
EXTENDS SequencesExt

CONSTANTS
  Alphabet,  \* the names of states, in their order
  Names      \* the expressions that begin with __synchro__, without it

In(x, list) == \E k \in DOMAIN list : list[k] = x
-----------------------------------------------------------------------------
(***************************************************************************)
(* The builders.  The second state of a name is ignored.                   *)
(***************************************************************************)
NoStates == <<>>

AddState(states_, name, data) ==
  IF name \in DOMAIN states_ THEN states_
  ELSE states_ @@ (name :> [id |-> name, data |-> data, transitions |-> <<>>])

AddTransition(states_, name, to, timed, regexs) ==
  [states_ EXCEPT ![name].transitions =
     Append(@, [id |-> name, next |-> to, timed |-> timed, regexs |-> regexs])]

StatesMsg(states_) ==
  LET names == SelectSeq(Alphabet, LAMBDA s : s \in DOMAIN states_) IN
  [k \in DOMAIN names |-> states_[names[k]]]
-----------------------------------------------------------------------------
(***************************************************************************)
(* The extraction.  A message has one list of states for each type of      *)
(* data; the last type that names a state gives its data.                  *)
(***************************************************************************)
stateFromMsg(lists) ==
  FoldLeft(LAMBDA datas, x : (x.id :> x.data) @@ datas, <<>>, FlattenSeq(lists))

transitionFromMsg(lists) ==
  LET all == FlattenSeq(lists) IN
  FlattenSeq([k \in DOMAIN all |-> all[k].transitions])

SynchroNames(regexs) == SelectSeq(regexs, LAMBDA x : x \in Names)

_extractCallback(lists) ==
  LET all == transitionFromMsg(lists) IN
  FlattenSeq([k \in DOMAIN all |-> SynchroNames(all[k].regexs)])
-----------------------------------------------------------------------------
(***************************************************************************)
(* The storage.                                                            *)
(***************************************************************************)
Empty == [states_ |-> <<>>, datas_ |-> <<>>]

addState(storage, id, partially_defined) ==
  IF id \notin DOMAIN storage.states_
  THEN [storage EXCEPT !.states_ = @ @@
          (id :> [partially_defined_ |-> partially_defined,
                  transitions |-> <<>>, synchro_names_ |-> <<>>])]
  ELSE IF partially_defined THEN storage
  ELSE [storage EXCEPT !.states_[id].partially_defined_ = FALSE]

addData(storage, id, data) ==
  [addState(storage, id, TRUE) EXCEPT !.datas_ = (id :> data) @@ @]

setTransition(state, t) ==
  [state EXCEPT
     !.transitions = Append(@, [regexs |-> t.regexs, timed |-> t.timed, next |-> t.next]),
     !.synchro_names_ = @ \o SynchroNames(t.regexs)]

addTransition(storage, t) ==
  [addState(addState(storage, t.id, TRUE), t.next, TRUE)
     EXCEPT !.states_[t.id] = setTransition(@, t)]

\* The states with their data first, then all the transitions.
_serviceCallback(lists) ==
  LET datas == stateFromMsg(lists)
      names == SelectSeq(Alphabet, LAMBDA s : s \in DOMAIN datas)
      defined == FoldLeft(LAMBDA storage, s : addData(addState(storage, s, FALSE), s, datas[s]),
                          Empty, names) IN
  FoldLeft(addTransition, defined, transitionFromMsg(lists))
-----------------------------------------------------------------------------
\* What is stored is what was described: every state that is named, those with data
\* defined, each with its transitions in the order of the calls, and no state that a
\* transition leads to is missing.  The names extracted for the barriers are those that
\* the states will announce, as many times.
StoredAsDescribed(lists) ==
  LET storage == _serviceCallback(lists)
      all == FlattenSeq(lists)
      transitions == transitionFromMsg(lists)
      described == {all[k].id : k \in DOMAIN all}
      targets == {transitions[k].next : k \in DOMAIN transitions}
      From(s) == SelectSeq(transitions, LAMBDA t : t.id = s)
      Times(n, list) == Cardinality({k \in DOMAIN list : list[k] = n}) IN
  /\ DOMAIN storage.states_ = described \cup targets
  /\ DOMAIN storage.datas_ = described
  /\ \A s \in DOMAIN storage.states_ :
       LET state == storage.states_[s] IN
       /\ state.partially_defined_ <=> s \notin described
       /\ Len(state.transitions) = Len(From(s))
       /\ \A k \in DOMAIN state.transitions :
            /\ state.transitions[k].next = From(s)[k].next
            /\ state.transitions[k].regexs = From(s)[k].regexs
            /\ state.transitions[k].timed = From(s)[k].timed
  /\ \A n \in Names :
       LET Announced(s) == Times(n, storage.states_[s].synchro_names_) IN
       Times(n, _extractCallback(lists)) = MapThenSumSet(Announced, DOMAIN storage.states_)
=============================================================================
