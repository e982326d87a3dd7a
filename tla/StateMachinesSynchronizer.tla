---------------------- MODULE StateMachinesSynchronizer ----------------------
(***************************************************************************)
(* The barriers of one meta state machine, from the states that wait for   *)
(* them to the events that open them.                                      *)
(*                                                                         *)
(* A state whose transitions listen to synchronisations announces their    *)
(* names when its machine begins to wait.  The status goes through the     *)
(* client and the holder of the resource to publishStatus of the node,     *)
(* which activates the barrier of each name; once everybody listed there   *)
(* has, the event of the synchronisation is sent to all of them.  The      *)
(* lists are made at the registration, from what the manager of each       *)
(* resource extracts of its machine.                                       *)
(*                                                                         *)
(* Every resource runs on its own: statuses and events are delivered in    *)
(* order, each resource's at its own pace, and statuses are relayed one at *)
(* a time, under the mutex of the node.  A machine may end at any moment,  *)
(* preempted, cancelled or timed out.                                      *)
(***************************************************************************)
EXTENDS Integers, Sequences, FiniteSets

CONSTANTS
  N,         \* number of resources
  States,    \* the states of their machines
  Names,     \* the names of synchronisations
  Parts,     \* what a name is split into at its underscores
  Others,    \* the other events
  NoEvent,   \* the empty string
  Machines,  \* the states of the machine of each resource
  Initial,   \* its initial state
  Extracted, \* the names its manager extracts of it, in the order of its transitions
  NotSent,   \* the state of a machine that is not started
  Ended,     \* the empty name, of the state of a machine that is over
  None,      \* no resource, no relay
  MaxOthers  \* bound on the other events

Resources == 1 .. N

\* A regular expression is the event it matches, a synchronisation being its name.
Events == Names \cup Others

In(x, list) == \E k \in DOMAIN list : list[k] = x
Listens(r, s, n) ==
  \E k \in DOMAIN Machines[r][s].transitions : In(n, Machines[r][s].transitions[k].regexs)
Simple(n) == Parts[n] = <<n>>

ASSUME NAssumption == N \in Nat \ {0}
ASSUME PartsAssumption ==
  /\ Parts \in [Names -> Seq(Names)]
  /\ \A n \in Names : \A p \in Names : In(p, Parts[n]) => Simple(p)
ASSUME EventsAssumption ==
  Names \cap Others = {} /\ NoEvent \notin Events /\ MaxOthers \in Nat
ASSUME StatesAssumption == {NotSent, Ended} \cap States = {} /\ NotSent # Ended
ASSUME NoneAssumption ==
  /\ None \notin Nat
  /\ None \notin [resource : Resources, names : Seq(Names)]

\* synchro_names_ is what setTransition collects of the transitions of the state.
ASSUME MachinesAssumption ==
  /\ Machines \in [Resources -> [States ->
       [transitions : Seq([regexs : Seq(Events), timed : BOOLEAN, next : States]),
        synchro_names_ : Seq(Names)]]]
  /\ \A r \in Resources : \A s \in States : \A n \in Names :
       In(n, Machines[r][s].synchro_names_) <=> Listens(r, s, n)
  /\ Initial \in [Resources -> States]
ASSUME ExtractedAssumption ==
  /\ Extracted \in [Resources -> Seq(Names)]
  /\ \A r \in Resources : \A n \in Names :
       In(n, Extracted[r]) <=> \E s \in States : Listens(r, s, n)

VARIABLES
  registered,            \* the resources whose machine was inserted: 1 .. registered
  synchros_,             \* the resources listed at each barrier
  activations_,          \* whether each of them has reached it
  _status, state_name,   \* whether the node knows the machine, and the states it was told
  cancelled,             \* the machine is not sent any more
  sending,               \* the resource whose machine is being sent, or None
  running_id_,           \* the resources whose holder knows that the machine runs
  state, transition_state_, validated,  \* of the machine of each resource
  statuses, events,      \* messages on their way from and to each resource
  node,                  \* the relay that holds the mutex of the node, or None
  others,                \* number of other events so far
  unheard                \* history: the resources an announcement of which was ignored

barriers == <<synchros_, activations_>>
records == <<registered, _status, state_name, cancelled>>
holders == <<sending, running_id_>>
machines == <<state, transition_state_, validated>>
vars == <<barriers, records, holders, machines, statuses, events, node, others, unheard>>

NoneValidated(r) == [s \in States |-> [k \in DOMAIN Machines[r][s].transitions |-> {}]]

Init ==
  /\ registered = 0
  /\ synchros_ = [n \in Names |-> <<>>] /\ activations_ = [n \in Names |-> <<>>]
  /\ _status = FALSE /\ state_name = [r \in Resources |-> NotSent] /\ cancelled = FALSE
  /\ sending = None /\ running_id_ = {}
  /\ state = [r \in Resources |-> NotSent]
  /\ transition_state_ = [r \in Resources |-> "none"]
  /\ validated = [r \in Resources |-> NoneValidated(r)]
  /\ statuses = [r \in Resources |-> <<>>] /\ events = [r \in Resources |-> <<>>]
  /\ node = None
  /\ others = 0
  /\ unheard = {}
-----------------------------------------------------------------------------
(***************************************************************************)
(* Registration, dispatch and cancellation.                                *)
(***************************************************************************)
Times(x, list) == Cardinality({k \in DOMAIN list : list[k] = x})
Copies(x, times) == [k \in 1 .. times |-> x]

\* Mutant: a barrier has one activation for all.
InsertOneActivation(r, names) ==
  /\ synchros_' = [n \in Names |-> synchros_[n] \o Copies(r, Times(n, names))]
  /\ activations_' = [n \in Names |-> IF In(n, names) THEN <<FALSE>> ELSE activations_[n]]

\* insert(): a resource is listed once for every transition that listens to the name.
Insert(r, names) ==
  /\ synchros_' = [n \in Names |-> synchros_[n] \o Copies(r, Times(n, names))]
  /\ activations_' = [n \in Names |-> activations_[n] \o Copies(FALSE, Times(n, names))]

\* The turn of the next resource in registerMetaStateMachine.  When the service of its
\* manager fails, getSynchros answers that there are none, and nobody is told.
RegisterNext ==
  LET r == registered + 1 IN
  /\ r \in Resources
  /\ registered' = r
  /\ _status' = TRUE
  /\ \/ Insert(r, Extracted[r]) /\ UNCHANGED unheard
     \/ UNCHANGED barriers /\ unheard' = unheard \cup {r}
  /\ UNCHANGED <<state_name, cancelled, holders, machines, statuses, events, node, others>>

\* send() by the dispatch, up to the start of the machine at its manager ...
SendCall(r) ==
  /\ registered = N
  /\ ~ cancelled /\ sending = None
  /\ state[r] = NotSent
  /\ sending' = r
  /\ state' = [state EXCEPT ![r] = Initial[r]]
  /\ UNCHANGED <<barriers, records, running_id_, transition_state_, validated, statuses,
                 events, node, others, unheard>>

\* ... and its end, once the answer is in.
SendReturns ==
  /\ sending # None
  /\ running_id_' = running_id_ \cup {sending}
  /\ sending' = None
  /\ UNCHANGED <<barriers, records, machines, statuses, events, node, others, unheard>>

\* stateMachineCancel forgets the status; the machines go on: done is true from the start
\* and no holder is asked.  It is served by the thread of the registration, after it.
stateMachineCancel ==
  /\ registered = N
  /\ _status
  /\ node = None
  /\ _status' = FALSE
  /\ UNCHANGED <<barriers, registered, state_name, cancelled, holders, machines, statuses,
                 events, node, others, unheard>>
-----------------------------------------------------------------------------
(***************************************************************************)
(* The machine of a resource.                                              *)
(***************************************************************************)
Runs(r) == state[r] \in States
Transitions(r) == Machines[r][state[r]].transitions

\* The expressions of transition k validated once the event is heard.
Validated(r, k, event) ==
  validated[r][state[r]][k]
    \cup {x \in DOMAIN Transitions(r)[k].regexs : Transitions(r)[k].regexs[x] = event}

\* The transitions whose duration may have elapsed.
Timed(r) == {k \in DOMAIN Transitions(r) : Transitions(r)[k].timed}

Passes(r, k, event, elapsed) ==
  \/ k \in elapsed
  \/ /\ event # NoEvent
     /\ Transitions(r)[k].regexs # <<>>
     /\ Validated(r, k, event) = DOMAIN Transitions(r)[k].regexs

\* The transition taken is the first that passes, 0 when none does.
Taken(r, k, event, elapsed) ==
  /\ k # 0 => Passes(r, k, event, elapsed)
  /\ \A j \in DOMAIN Transitions(r) : k = 0 \/ j < k => ~ Passes(r, j, event, elapsed)

\* The event is heard by the transitions evaluated before one is taken, and by this one
\* unless its duration has elapsed.
Hearing(r, k, event, elapsed) ==
  [j \in DOMAIN Transitions(r) |->
     IF event # NoEvent /\ (k = 0 \/ j < k \/ (j = k /\ j \notin elapsed))
     THEN Validated(r, j, event) ELSE validated[r][state[r]][j]]

Target(r, k) ==
  LET s == IF k = 0 THEN state[r] ELSE Transitions(r)[k].next IN
  IF Machines[r][s].transitions = <<>> THEN Ended ELSE s

\* A state that nothing makes leave waits, for its synchronisations if it has some.
Kind(r, k) ==
  IF k # 0 THEN "pass"
  ELSE IF Machines[r][state[r]].synchro_names_ = <<>> THEN "wait" ELSE "wait_synchro"

Announced(r, kind) ==
  IF kind = "wait_synchro" THEN Machines[r][state[r]].synchro_names_ ELSE <<>>

publishState(r, s, names) ==
  statuses' = [statuses EXCEPT ![r] = Append(@, [state |-> s, names |-> names])]

\* update(), and the publication of what it changed.
update(r, event) ==
  \E elapsed \in SUBSET Timed(r) : \E k \in 0 .. Len(Transitions(r)) :
    LET next == Target(r, k)
        kind == Kind(r, k) IN
    /\ Taken(r, k, event, elapsed)
    /\ state' = [state EXCEPT ![r] = next]
    /\ transition_state_' = [transition_state_ EXCEPT ![r] = kind]
    /\ validated' = [validated EXCEPT ![r][state[r]] = Hearing(r, k, event, elapsed)]
    /\ IF next # state[r] THEN publishState(r, next, <<>>)
       ELSE IF kind # transition_state_[r] THEN publishState(r, next, Announced(r, kind))
       ELSE UNCHANGED statuses

\* One turn of the loop of the runner; the events that follow the end are dropped.
RunOnce(r) ==
  /\ Runs(r)
  /\ update(r, IF events[r] = <<>> THEN NoEvent ELSE Head(events[r]))
  /\ events' = [events EXCEPT ![r] =
       IF @ = <<>> \/ state'[r] = Ended THEN <<>> ELSE Tail(@)]
  /\ UNCHANGED <<barriers, records, holders, node, others, unheard>>

\* The machine is preempted, or ends by its timeout, its deadline or the one of a state.
\* The cancellation of the others that may follow is an Abort of each.
Abort(r) ==
  /\ Runs(r)
  /\ state' = [state EXCEPT ![r] = Ended]
  /\ publishState(r, Ended, <<>>)
  /\ events' = [events EXCEPT ![r] = <<>>]
  /\ UNCHANGED <<barriers, records, holders, transition_state_, validated, node, others,
                 unheard>>

\* Another event reaches the machine.
Happens(r, event) ==
  /\ Runs(r)
  /\ others < MaxOthers
  /\ others' = others + 1
  /\ events' = [events EXCEPT ![r] = Append(@, event)]
  /\ UNCHANGED <<barriers, records, holders, machines, statuses, node, unheard>>
-----------------------------------------------------------------------------
(***************************************************************************)
(* The node.                                                               *)
(***************************************************************************)
Off(list) == [k \in DOMAIN list |-> FALSE]

\* Mutant: the activations themselves are reset.
resetAll(lists) == [n \in Names |-> Off(lists[n])]

\* reset(): the loop fills copies of the activations.
reset(lists) == lists

\* A status reaches the holder, which ignores it as long as send() has not returned, and
\* publishStatus, which ignores it when the node has forgotten the machine.
Relay(r) ==
  LET status == Head(statuses[r])
      ignored == r \notin running_id_ \/ ~ _status IN
  /\ statuses[r] # <<>>
  /\ r \in running_id_ => node = None
  /\ statuses' = [statuses EXCEPT ![r] = Tail(@)]
  /\ IF ignored
     THEN /\ unheard' = IF status.names = <<>> THEN unheard ELSE unheard \cup {r}
          /\ running_id_' = IF status.state = Ended THEN running_id_ \ {r} ELSE running_id_
          /\ UNCHANGED <<activations_, state_name, node>>
     ELSE /\ node' = [resource |-> r, names |-> status.names]
          /\ state_name' = [state_name EXCEPT ![r] = status.state]
          /\ activations_' =
               IF state_name[r] = status.state THEN activations_ ELSE reset(activations_)
          /\ UNCHANGED <<running_id_, unheard>>
  /\ UNCHANGED <<synchros_, registered, _status, cancelled, sending, machines, events,
                 others>>

\* Mutant: the barrier is not closed again.
activateForGood(n, r) ==
  LET reached == [k \in DOMAIN synchros_[n] |-> activations_[n][k] \/ synchros_[n][k] = r]
      open == \A k \in DOMAIN reached : reached[k] IN
  IF synchros_[n] = <<>> THEN UNCHANGED <<activations_, events>>
  ELSE /\ activations_' = [activations_ EXCEPT ![n] = reached]
       /\ events' = [q \in Resources |->
            IF open THEN events[q] \o Copies(n, Times(q, synchros_[n])) ELSE events[q]]

\* Mutant: a place is tested before it is filled.
activateLate(n, r) ==
  LET reached == [k \in DOMAIN synchros_[n] |-> activations_[n][k] \/ synchros_[n][k] = r]
      open == \A k \in DOMAIN reached : activations_[n][k] IN
  IF synchros_[n] = <<>> THEN UNCHANGED <<activations_, events>>
  ELSE /\ activations_' =
            [activations_ EXCEPT ![n] = IF open THEN Off(reached) ELSE reached]
       /\ events' = [q \in Resources |->
            IF open THEN events[q] \o Copies(n, Times(q, synchros_[n])) ELSE events[q]]

\* activate(): the event is sent once for every place in the list.
activate(n, r) ==
  LET reached == [k \in DOMAIN synchros_[n] |-> activations_[n][k] \/ synchros_[n][k] = r]
      open == \A k \in DOMAIN reached : reached[k] IN
  IF synchros_[n] = <<>> THEN UNCHANGED <<activations_, events>>
  ELSE /\ activations_' =
            [activations_ EXCEPT ![n] = IF open THEN Off(reached) ELSE reached]
       /\ events' = [q \in Resources |->
            IF open THEN events[q] \o Copies(n, Times(q, synchros_[n])) ELSE events[q]]

\* publishStatus activates the barrier of each name, once getSynchros has split it.
Activate ==
  LET n == Head(node.names) IN
  /\ node # None /\ node.names # <<>>
  /\ IF Simple(n)
     THEN activate(n, node.resource) /\ node' = [node EXCEPT !.names = Tail(@)]
     ELSE /\ node' = [node EXCEPT !.names = Parts[n] \o Tail(@)]
          /\ UNCHANGED <<activations_, events>>
  /\ UNCHANGED <<synchros_, records, holders, machines, statuses, others, unheard>>

\* The end of publishStatus, with removeStatusIfNeeded, and of stateMachineStatus.
EndRelay ==
  LET over == \A r \in Resources : state_name[r] = Ended IN
  /\ node # None /\ node.names = <<>>
  /\ node' = None
  /\ _status' = (_status /\ ~ over)
  /\ cancelled' = (cancelled \/ over)
  /\ running_id_' = IF state_name[node.resource] = Ended
                    THEN running_id_ \ {node.resource} ELSE running_id_
  /\ UNCHANGED <<barriers, registered, state_name, sending, machines, statuses, events,
                 others, unheard>>
-----------------------------------------------------------------------------
Node == (\E r \in Resources : Relay(r)) \/ Activate \/ EndRelay

Next ==
  \/ RegisterNext \/ SendReturns \/ stateMachineCancel
  \/ \E r \in Resources : SendCall(r) \/ RunOnce(r) \/ Abort(r)
  \/ \E r \in Resources : \E event \in Others : Happens(r, event)
  \/ Node

Spec == Init /\ [][Next]_vars

\* The runners poll, and the threads that relay the statuses run: publishStatus is not
\* frozen in a cancellation, which is the matter of MetaManager.
FairSpec ==
  /\ Spec
  /\ WF_vars(SendReturns)
  /\ \A r \in Resources : WF_vars(RunOnce(r)) /\ WF_vars(Relay(r))
  /\ WF_vars(Activate) /\ WF_vars(EndRelay)
-----------------------------------------------------------------------------
Status == [state : States \cup {Ended}, names : Seq(Names)]

\* Type invariant: every place in a list has its activation.
TypeOK ==
  /\ registered \in 0 .. N
  /\ synchros_ \in [Names -> Seq(Resources)]
  /\ activations_ \in [Names -> Seq(BOOLEAN)]
  /\ \A n \in Names : Len(activations_[n]) = Len(synchros_[n])
  /\ _status \in BOOLEAN /\ cancelled \in BOOLEAN
  /\ state_name \in [Resources -> States \cup {NotSent, Ended}]
  /\ sending \in Resources \cup {None} /\ running_id_ \subseteq Resources
  /\ state \in [Resources -> States \cup {NotSent, Ended}]
  /\ transition_state_ \in [Resources -> {"none", "pass", "wait", "wait_synchro"}]
  /\ validated \in [Resources -> [States -> Seq(SUBSET Nat)]]
  /\ \A r \in Resources : \A s \in States :
       /\ DOMAIN validated[r][s] = DOMAIN Machines[r][s].transitions
       /\ \A k \in DOMAIN validated[r][s] :
            validated[r][s][k] \subseteq DOMAIN Machines[r][s].transitions[k].regexs
  /\ statuses \in [Resources -> Seq(Status)]
  /\ events \in [Resources -> Seq(Events)]
  /\ node \in [resource : Resources, names : Seq(Names)] \cup {None}
  /\ others \in 0 .. MaxOthers
  /\ unheard \subseteq Resources

\* The barriers implement the rendezvous: those listed at one are called when all of
\* them have announced it since it last opened, whatever the order in which statuses
\* arrive, and how often a machine listens to it or left the state that waited for it.
Reached(n) == {synchros_[n][k] : k \in {j \in DOMAIN synchros_[n] : activations_[n][j]}}
Listed(n) == {synchros_[n][k] : k \in DOMAIN synchros_[n]}
CalledTo(r) == {events[r][k] : k \in DOMAIN events[r]} \cap Names

R == INSTANCE Rendezvous WITH
       Parties <- Resources,
       Meetings <- Names,
       members <- [n \in Names |-> Listed(n)],
       arrived <- [n \in Names |-> Reached(n)],
       called <- [r \in Resources |-> CalledTo(r)]
ImplementsRendezvous == R!Spec

\* A machine that is still to hear of n in its state.
WaitsFor(r, n) ==
  /\ Runs(r)
  /\ transition_state_[r] = "wait_synchro"
  /\ \E k \in DOMAIN Transitions(r) : \E x \in DOMAIN Transitions(r)[k].regexs :
       Transitions(r)[k].regexs[x] = n /\ x \notin validated[r][state[r]][k]

\* No meeting is missed: it never happens that all those listed at a barrier have
\* announced it and wait for it, with no message left on the way.  Three things break
\* the promise: a status ignored because send() had not returned or the client had
\* cancelled the machine, a list that could not be extracted, a name with an underscore.
Settled(r) == statuses[r] = <<>> /\ events[r] = <<>>
AllWait(n) ==
  /\ Listed(n) # {}
  /\ \A r \in Listed(n) : WaitsFor(r, n) /\ r \notin unheard
NoMissedMeeting ==
  \A n \in Names :
    Simple(n) /\ AllWait(n) /\ node = None => \E r \in Listed(n) : ~ Settled(r)

\* When all those listed at a barrier wait for it, this does not last: at least one of them
\* hears of the meeting, leaves, or has an announcement ignored (it is then unheard).  Not
\* that all of them go on: an activation left from a former meeting may stand for one who
\* then waits again.
MeetingHappens ==
  \A n \in Names : Simple(n) =>
    (AllWait(n) ~> ~ AllWait(n))
=============================================================================
