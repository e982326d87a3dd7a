---------------------------- MODULE MetaManager ----------------------------
(***************************************************************************)
(* The synchronizer: meta state machines, made of one sub machine per      *)
(* resource, are selected and executed together on their resources.        *)
(*                                                                         *)
(* Thread 0 is the loop of StateMachinesManager.  Thread r is the thread   *)
(* of the callbacks of the client of resource r: it receives the statuses  *)
(* of what runs there and relays them through publishStatus, which may     *)
(* cancel the meta machine.  It receives them while the loop sends, too:   *)
(* an end that comes before send() has kept the id of the machine and      *)
(* reset the state is lost.  Clients register and cancel from a thread of  *)
(* their own.  Three kinds of locks are modelled: the mutex of the manager *)
(* (taken by the loop from "constraints" to "sleep" and by registrations), *)
(* the one of the generated node (node) and those of the holders (lock).   *)
(*                                                                         *)
(* Machines are numbered from 1 and resources by their order of            *)
(* declaration.  Durations and deadlines are only there or not; when there *)
(* they may be over at any moment.  An access to an element that is not    *)
(* there sets undefined, where the model stops.                            *)
(***************************************************************************)
EXTENDS Integers, Sequences, FiniteSets, SequencesExt

CONSTANTS
  N,         \* number of resources
  Sent,      \* what clients send: priority, has a timeout, a begin deadline, resources
  Statuses,  \* what the statuses say that resources send of their own accord
  MaxMetas,  \* bound on the number of meta machines
  None       \* no machine, no thread

ASSUME NAssumption == N \in Nat \ {0}
ASSUME MaxMetasAssumption == MaxMetas \in Nat
ASSUME NoneAssumption == None \notin Nat

Resources == 1 .. N
Metas == [priority : Int, timeout : BOOLEAN, begin_dead_line : BOOLEAN,
          subs : (SUBSET Resources) \ {{}}]

ASSUME SentAssumption == Sent \subseteq Metas

Threads == 0 .. N
Loop == 0
Ids == 1 .. MaxMetas

\* What a status says: a state was entered; or the sub machine ended, by itself or with
\* the event "preampt" or, when its last state was left by the timeout, "timeout".
Events == {"entered", "end", "aborted"}
Final == {"end", "aborted"}

ASSUME StatusesAssumption == Statuses \subseteq Events

VARIABLES
  metas,             \* the headers registered so far, with their resources (subs)
  _status,           \* the meta machines the node knows, and for each of them
  told,              \* the resources that announced the end of their sub machine
  state_machines_,   \* ids of the sub machines of each holder
  running_id_,       \* the sub machine each holder has sent, or None
  state_,            \* the state each client keeps: a name, or none once ended
  last,              \* the last status of the machine sent: due, told, or lost in send()
  lock,              \* owner of the mutex of each holder while it waits for a result
  thread, event,     \* control of the threads of the clients, and their status
  node,              \* owner of the mutex of the node while it cancels
  work,              \* the cancellation each thread is at: a machine and a holder
  headers_, sm_start_time_, running_ids_,
  ids_, done_, preempt_,  \* lists of candidates and flags of the selection
  pc, i, visit,      \* control of the loop, its index, the headers not yet visited
  undefined

holders == <<state_machines_, running_id_, state_, last, lock>>
relays == <<_status, told, thread, event, node>>
records == <<headers_, sm_start_time_, running_ids_>>
selection == <<ids_, done_, preempt_>>
vars == <<metas, holders, relays, work, records, selection, pc, i, visit, undefined>>

NoWork == [id |-> None, at |-> 0]

Init ==
  /\ metas = <<>>
  /\ _status = {} /\ told = [id \in Ids |-> {}]
  /\ state_machines_ = [r \in Resources |-> {}]
  /\ running_id_ = [r \in Resources |-> None]
  /\ state_ = [r \in Resources |-> "none"]
  /\ last = [r \in Resources |-> "told"]
  /\ lock = [r \in Resources |-> None]
  /\ thread = [r \in Resources |-> "idle"]
  /\ event = [r \in Resources |-> "end"]
  /\ node = None
  /\ work = [t \in Threads |-> NoWork]
  /\ headers_ = {} /\ sm_start_time_ = {} /\ running_ids_ = {}
  /\ ids_ = [r \in Resources |-> <<>>]
  /\ done_ = [r \in Resources |-> FALSE]
  /\ preempt_ = [r \in Resources |-> FALSE]
  /\ pc = "sleep" /\ i = 1 /\ visit = {}
  /\ undefined = FALSE

Priority(id) == metas[id].priority
-----------------------------------------------------------------------------
(***************************************************************************)
(* What the manager asks a holder.                                         *)
(***************************************************************************)

\* A machine goes before the first one it outweighs, and to the front when it outweighs
\* none.
InsertPriority(list, id) ==
  LET lighter == {k \in DOMAIN list : Priority(id) > Priority(list[k])}
  IN  InsertAt(list, IF lighter = {} THEN 1 ELSE Min(lighter), id)

\* The machines of the holder, inserted in the order of their ids.
getIdsPerPriorities(r) ==
  LET list[id \in 0 .. Len(metas)] ==
        IF id = 0 THEN <<>>
        ELSE IF id \in state_machines_[r] THEN InsertPriority(list[id - 1], id)
        ELSE list[id - 1]
  IN  list[Len(metas)]

\* Mutant: an equal machine may take the place.
canReplaceEqual(r, id) ==
  running_id_[r] # None => Priority(id) >= Priority(running_id_[r])

canReplace(r, id) ==
  running_id_[r] # None => Priority(id) > Priority(running_id_[r])

\* canReplace follows the iterators of machines the holder does not have any more.
Dangling(r, id) ==
  running_id_[r] # None /\ ~ {id, running_id_[r]} \subseteq state_machines_[r]
-----------------------------------------------------------------------------
(***************************************************************************)
(* StateMachinesManager::cancel(id), by the loop or by publishStatus: one  *)
(* holder after the other, then the records of the manager.                *)
(***************************************************************************)
Erase(t, r) ==
  /\ state_machines_' = [state_machines_ EXCEPT ![r] = @ \ {work[t].id}]
  /\ work' = [work EXCEPT ![t].at = @ + 1]

\* holder->cancel(id) takes the mutex of the holder.  When the machine runs there its
\* manager is asked to cancel it and the thread keeps the mutex until the result is in.
CancelHolder(t) ==
  LET r == work[t].at IN
  /\ r \in Resources
  /\ lock[r] = None
  /\ IF running_id_[r] = work[t].id /\ state_[r] = "name"
     THEN lock' = [lock EXCEPT ![r] = t] /\ UNCHANGED <<state_machines_, work>>
     ELSE Erase(t, r) /\ UNCHANGED lock
  /\ UNCHANGED <<metas, running_id_, state_, last, relays, records, selection, pc, i,
                 visit, undefined>>

\* waitForResult has seen the end.
ResultIsIn(t) ==
  LET r == work[t].at IN
  /\ r \in Resources
  /\ lock[r] = t /\ state_[r] = "none"
  /\ lock' = [lock EXCEPT ![r] = None]
  /\ Erase(t, r)
  /\ UNCHANGED <<metas, running_id_, state_, last, relays, records, selection, pc, i,
                 visit, undefined>>

\* A list once the machines ids are erased from it.
Erased(list, ids) ==
  LET kept[k \in 0 .. Len(list)] ==
        IF k = 0 THEN <<>>
        ELSE IF list[k] \in ids THEN kept[k - 1] ELSE Append(kept[k - 1], list[k])
  IN  kept[Len(list)]

Without(lists, ids) == [r \in Resources |-> Erased(lists[r], ids)]

\* removeSm, once every holder has been asked.
removeSm(t) ==
  /\ work[t].at = N + 1
  /\ ids_' = Without(ids_, {work[t].id})
  /\ headers_' = headers_ \ {work[t].id}
  /\ sm_start_time_' = sm_start_time_ \ {work[t].id}
  /\ UNCHANGED <<done_, preempt_, running_ids_>>
-----------------------------------------------------------------------------
(***************************************************************************)
(* The generated node: the services.                                       *)
(***************************************************************************)

\* registerMetaStateMachine, between halt() and realease(): not while the loop is at work.
registerMetaStateMachine(meta) ==
  LET id == Len(metas) + 1 IN
  /\ pc = "sleep"
  /\ id <= MaxMetas
  /\ metas' = Append(metas, meta)
  /\ state_machines_' = [r \in Resources |->
       IF r \in meta.subs THEN state_machines_[r] \cup {id} ELSE state_machines_[r]]
  /\ _status' = _status \cup {id}
  /\ headers_' = headers_ \cup {id}
  /\ UNCHANGED <<running_id_, state_, last, lock, told, thread, event, node, work,
                 sm_start_time_, running_ids_, selection, pc, i, visit, undefined>>

\* The status of a machine is erased, with what it said.
Forget(id) ==
  /\ _status' = _status \ {id}
  /\ told' = [told EXCEPT ![id] = {}]

\* stateMachineCancel: "done || cancel" never cancels, so it only forgets the status,
\* under no lock: a relay of this machine that is under way follows a dead iterator.
stateMachineCancel(id) ==
  /\ id \in _status
  /\ Forget(id)
  /\ undefined' = (node # None /\ work[node].id = id)
  /\ UNCHANGED <<metas, holders, thread, event, node, work, records, selection, pc, i,
                 visit>>
-----------------------------------------------------------------------------
(***************************************************************************)
(* The threads of the clients.                                             *)
(***************************************************************************)

\* Mutant: the id is kept when send() is over.
UnkeptInSend(r) == pc \in {"called", "kept", "sent"} /\ i = r

\* The manager of resource r has answered to send(), but the client has not kept the id.
Unkept(r) == pc = "called" /\ i = r

\* Nor has it reset the state: the end is lost if it is told now.
TooEarly(r) == pc \in {"called", "kept"} /\ i = r

\* statusCallback, for a status of the machine sent to resource r: it is dropped as long
\* as the id is not kept, and noted otherwise.  Then stateMachineStatus reads running_id_:
\* only while the holder still believes that nothing runs may it change in between.
statusCallback(r, e) ==
  /\ thread[r] = "idle"
  /\ last[r] = "due"
  /\ last' = [last EXCEPT ![r] = IF e \notin Final THEN "due"
                                ELSE IF TooEarly(r) THEN "lost" ELSE "told"]
  /\ IF Unkept(r) THEN UNCHANGED <<state_, thread, event>>
     ELSE /\ state_' = [state_ EXCEPT ![r] = IF e \in Final THEN "none" ELSE "name"]
          /\ thread' = [thread EXCEPT
                          ![r] = IF running_id_[r] = None THEN "noted" ELSE "relay"]
          /\ event' = [event EXCEPT ![r] = e]
  /\ UNCHANGED <<metas, state_machines_, running_id_, lock, _status, told, node, work,
                 records, selection, pc, i, visit, undefined>>

\* A status noted while the holder believed that nothing runs is relayed unless it still
\* does.
RelayStatus(r) ==
  /\ thread[r] = "noted"
  /\ IF running_id_[r] = None
     THEN /\ thread' = [thread EXCEPT ![r] = "idle"]
          /\ event' = [event EXCEPT ![r] = "end"]
     ELSE thread' = [thread EXCEPT ![r] = "relay"] /\ UNCHANGED event
  /\ UNCHANGED <<metas, holders, _status, told, node, work, records, selection, pc, i,
                 visit, undefined>>

\* Mutant: every status is taken for the last one.
RelayedAsLast(r) ==
  /\ thread' = [thread EXCEPT ![r] = "erase"]
  /\ event' = [event EXCEPT ![r] = "end"]

\* After the last status of a machine, stateMachineStatus takes the mutex of the holder.
Relayed(r) ==
  /\ thread' = [thread EXCEPT ![r] = IF event[r] \in Final THEN "erase" ELSE "idle"]
  /\ event' = [event EXCEPT ![r] = "end"]

AllTold(id, ended) == ended[id] = metas[id].subs

\* publishStatus, under the mutex of the node, which it keeps while it cancels: because
\* of the event, or because every sub machine has announced its end.
publishStatus(r) ==
  LET id == running_id_[r] IN
  /\ thread[r] = "relay"
  /\ node = None
  /\ told' = IF id \in _status /\ event[r] \in Final
             THEN [told EXCEPT ![id] = @ \cup {r}] ELSE told
  /\ IF id \in _status /\ (event[r] = "aborted" \/ AllTold(id, told'))
     THEN /\ node' = r
          /\ thread' = [thread EXCEPT ![r] = "cancel"]
          /\ work' = [work EXCEPT ![r] = [id |-> id, at |-> 1]]
          /\ UNCHANGED event
     ELSE Relayed(r) /\ UNCHANGED <<node, work>>
  /\ UNCHANGED <<metas, holders, _status, records, selection, pc, i, visit, undefined>>

\* removeStatusIfNeeded, and the end of publishStatus.
removeStatusIfNeeded(r) ==
  /\ thread[r] = "cancel"
  /\ removeSm(r)
  /\ IF AllTold(work[r].id, told) THEN Forget(work[r].id) ELSE UNCHANGED <<_status, told>>
  /\ node' = None
  /\ work' = [work EXCEPT ![r] = NoWork]
  /\ Relayed(r)
  /\ UNCHANGED <<metas, holders, pc, i, visit, undefined>>

\* The end of stateMachineStatus for the last status of a machine.
stateMachineStatus(r) ==
  /\ thread[r] = "erase"
  /\ lock[r] = None
  /\ state_machines_' = [state_machines_ EXCEPT ![r] = @ \ {running_id_[r]}]
  /\ running_id_' = [running_id_ EXCEPT ![r] = None]
  /\ thread' = [thread EXCEPT ![r] = "idle"]
  /\ UNCHANGED <<metas, state_, last, lock, _status, told, event, node, work, records,
                 selection, pc, i, visit, undefined>>
-----------------------------------------------------------------------------
(***************************************************************************)
(* The loop of the manager: the constraints.                               *)
(***************************************************************************)
Wake ==
  /\ pc = "sleep"
  /\ pc' = "constraints"
  /\ visit' = headers_
  /\ UNCHANGED <<metas, holders, relays, work, records, selection, i, undefined>>

\* The machines whose timeout or begin deadline may be over.
Constrained(id) ==
  IF id \in running_ids_ THEN metas[id].timeout /\ id \in sm_start_time_
  ELSE metas[id].begin_dead_line

\* One turn of applyConstraints, in the order of the ids.
applyConstraints ==
  LET left == visit \cap headers_
      id == Min(left) IN
  /\ pc = "constraints"
  /\ left # {}
  /\ visit' = left \ {id}
  /\ \/ UNCHANGED <<pc, work>>
     \/ /\ Constrained(id)
        /\ pc' = "late"
        /\ work' = [work EXCEPT ![Loop] = [id |-> id, at |-> 0]]
  /\ UNCHANGED <<metas, holders, relays, records, selection, i, undefined>>

\* publishTimeoutStatus or publishBDLStatus: the status cancels the machine under the
\* mutex of the node when the node knows it; otherwise applyConstraints does.
publishLateStatus ==
  /\ pc = "late"
  /\ node = None
  /\ node' = IF work[Loop].id \in _status THEN Loop ELSE None
  /\ work' = [work EXCEPT ![Loop].at = 1]
  /\ pc' = "cancel"
  /\ UNCHANGED <<metas, holders, _status, told, thread, event, records, selection, i,
                 visit, undefined>>

\* The loop then goes on from the header that was just erased, wherever that leads.
LateIsRemoved ==
  /\ pc = "cancel"
  /\ removeSm(Loop)
  /\ Forget(work[Loop].id)
  /\ node' = IF node = Loop THEN None ELSE node
  /\ work' = [work EXCEPT ![Loop] = NoWork]
  /\ pc' = "constraints"
  /\ undefined' \in BOOLEAN
  /\ UNCHANGED <<metas, holders, thread, event, i, visit>>
-----------------------------------------------------------------------------
(***************************************************************************)
(* The loop of the manager: the selection.                                 *)
(***************************************************************************)

\* getIdsPerPriorities takes the mutex of each holder.
Unlocked == \A r \in Resources : lock[r] = None
Nothing == [r \in Resources |-> FALSE]

init ==
  /\ pc = "constraints"
  /\ visit \cap headers_ = {}
  /\ Unlocked
  /\ ids_' = [r \in Resources |-> getIdsPerPriorities(r)]
  /\ done_' = Nothing
  /\ preempt_' = Nothing
  /\ pc' = "select"
  /\ i' = 1
  /\ UNCHANGED <<metas, holders, relays, work, records, visit, undefined>>

\* The next turn of the for loop, which isDone() follows.
NextTurn ==
  /\ i' = IF i = N THEN 1 ELSE i + 1
  /\ pc' = IF i = N /\ \A r \in Resources : done_'[r] THEN "dispatch" ELSE "select"

AheadOn(r, id) == ids_[r] # <<>> /\ Head(ids_[r]) = id

\* On every other resource that lists the machine it comes first, and nothing runs there
\* that it may not replace.
isSelectable(owner, id) ==
  \A r \in Resources \ {owner} :
    id \in ToSet(ids_[r]) => AheadOn(r, id) /\ (canReplace(r, id) \/ preempt_[r])

\* The machines the turn asks canReplace about.
Consulted(id) ==
  {r \in Resources : IF r = i THEN ~ preempt_[r] ELSE AheadOn(r, id)}

\* Mutant: the others are given up on this resource only.
CleanOneHere(lists, done, r) ==
  IF done[r] /\ lists[r] # <<>>
  THEN [lists EXCEPT ![r] = <<Head(lists[r])>>]
  ELSE lists

\* Resource r keeps the first of its list, and gives the others up for all.
CleanOne(lists, done, r) ==
  IF done[r] /\ lists[r] # <<>>
  THEN [Without(lists, ToSet(Tail(lists[r]))) EXCEPT ![r] = <<Head(lists[r])>>]
  ELSE lists

\* One resource after the other.
clean(lists, done) ==
  LET after[r \in 0 .. N] ==
        IF r = 0 THEN lists ELSE CleanOne(after[r - 1], done, r)
  IN  after[N]

selectSm(id) ==
  /\ done_' = [r \in Resources |-> done_[r] \/ id \in ToSet(ids_[r])]
  /\ ids_' = clean(ids_, done_')
  /\ NextTurn
  /\ UNCHANGED preempt_

\* Mutant: the resource whose turn it is keeps the machine.
removeSmFromOthers(id) ==
  /\ ids_' = [Without(ids_, {id}) EXCEPT ![i] = ids_[i]]
  /\ UNCHANGED <<done_, preempt_>>
  /\ NextTurn

removeSmFromSelection(id) ==
  /\ ids_' = Without(ids_, {id})
  /\ UNCHANGED <<done_, preempt_>>
  /\ NextTurn

NoCandidate ==
  /\ pc = "select"
  /\ ids_[i] = <<>> \/ done_[i]
  /\ done_' = [done_ EXCEPT ![i] = TRUE]
  /\ NextTurn
  /\ UNCHANGED <<metas, holders, relays, work, records, ids_, preempt_, visit, undefined>>

\* The first candidate of a resource that is not done: selected with all its resources,
\* or removed from them, unless it is to replace the running machine: this one is marked
\* and the selection starts again without it.
Candidate ==
  LET id == Head(ids_[i])
      to_take == (preempt_[i] \/ canReplace(i, id)) /\ isSelectable(i, id) IN
  /\ pc = "select"
  /\ ids_[i] # <<>> /\ ~ done_[i]
  /\ UNCHANGED <<metas, holders, relays, work, records, visit>>
  /\ IF \E r \in Consulted(id) : Dangling(r, id)
     THEN undefined' = TRUE /\ UNCHANGED <<selection, pc, i>>
     ELSE /\ UNCHANGED undefined
          /\ \/ to_take /\ (preempt_[i] \/ running_id_[i] = None) /\ selectSm(id)
             \/ ~ to_take /\ removeSmFromSelection(id)
             \/ /\ to_take /\ ~ preempt_[i] /\ running_id_[i] # None
                /\ preempt_' = [preempt_ EXCEPT ![i] = TRUE]
                /\ pc' = "reinit"
                /\ UNCHANGED <<ids_, done_, i>>

\* The machines to replace, which run where a resource was marked.
Preempted == {running_id_[r] : r \in {q \in Resources : preempt_[q]}} \ {None}

\* The lists are made again without them, and the other resources they run on are marked.
reinit ==
  /\ pc = "reinit"
  /\ Unlocked
  /\ ids_' = Without([r \in Resources |-> getIdsPerPriorities(r)], Preempted)
  /\ done_' = Nothing
  /\ preempt_' = [r \in Resources |-> preempt_[r] \/ running_id_[r] \in Preempted]
  /\ NextTurn
  /\ UNCHANGED <<metas, holders, relays, work, records, visit, undefined>>
-----------------------------------------------------------------------------
(***************************************************************************)
(* The loop of the manager: the machines to run are the heads of ids_.     *)
(***************************************************************************)

\* Mutant: one resource too many.
NextResourcePast ==
  IF i > N THEN pc' = "sleep" /\ i' = 1 ELSE pc' = "dispatch" /\ i' = i + 1

NextResource ==
  IF i = N THEN pc' = "sleep" /\ i' = 1 ELSE pc' = "dispatch" /\ i' = i + 1

\* Nothing to start on resource i.
Skip ==
  /\ pc = "dispatch"
  /\ ids_[i] # <<>> => running_id_[i] = Head(ids_[i])
  /\ NextResource
  /\ UNCHANGED <<metas, holders, relays, work, records, selection, visit, undefined>>

\* The machine that runs is cancelled first.
Replace ==
  /\ pc = "dispatch"
  /\ ids_[i] # <<>> /\ running_id_[i] \notin {None, Head(ids_[i])}
  /\ work' = [work EXCEPT ![Loop] = [id |-> running_id_[i], at |-> 1]]
  /\ pc' = "replace"
  /\ UNCHANGED <<metas, holders, relays, records, selection, i, visit, undefined>>

ReplacedIsRemoved ==
  /\ pc = "replace"
  /\ removeSm(Loop)
  /\ work' = [work EXCEPT ![Loop].at = 0]
  /\ pc' = "preempted"
  /\ UNCHANGED <<metas, holders, relays, i, visit, undefined>>

\* publishPreemptStatus: the machine is cancelled again, to no effect, and forgotten.
publishPreemptStatus ==
  /\ pc = "preempted"
  /\ node = None
  /\ Forget(work[Loop].id)
  /\ work' = [work EXCEPT ![Loop] = NoWork]
  /\ pc' = "send"
  /\ UNCHANGED <<metas, holders, thread, event, node, records, selection, i, visit,
                 undefined>>

\* send(), up to the answer of the manager of the resource: it has the machine, or the
\* call fails, which nobody looks at.  A holder that is busy, or has the machine no more,
\* sends nothing.
SendCall ==
  /\ \/ pc = "dispatch" /\ running_id_[i] = None
     \/ pc = "send"
  /\ IF ids_[i] = <<>>
     THEN pc = "send" /\ undefined' = TRUE /\ UNCHANGED <<last, work, pc>>
     ELSE LET id == Head(ids_[i])
              free == running_id_[i] = None /\ id \in state_machines_[i] IN
          /\ work' = [work EXCEPT ![Loop] = [id |-> IF free THEN id ELSE None, at |-> 0]]
          /\ \/ free /\ last' = [last EXCEPT ![i] = "due"] /\ pc' = "called"
             \/ UNCHANGED last /\ pc' = "sent"
          /\ UNCHANGED undefined
  /\ UNCHANGED <<metas, state_machines_, running_id_, state_, lock, relays, records,
                 selection, i, visit>>

\* The client keeps the id it was answered ...
KeepId ==
  /\ pc = "called"
  /\ pc' = "kept"
  /\ UNCHANGED <<metas, holders, relays, work, records, selection, i, visit, undefined>>

\* ... and then resets the state, whatever was noted since.
ResetState ==
  /\ pc = "kept"
  /\ state_' = [state_ EXCEPT ![i] = "name"]
  /\ pc' = "sent"
  /\ UNCHANGED <<metas, state_machines_, running_id_, last, lock, relays, work, records,
                 selection, i, visit, undefined>>

\* The end of the send() of the holder, and the records of the manager, whatever the
\* manager of the resource answered.
SendReturns ==
  /\ pc = "sent"
  /\ IF work[Loop].id = None THEN UNCHANGED running_id_
     ELSE running_id_' = [running_id_ EXCEPT ![i] = work[Loop].id]
  /\ IF ids_[i] = <<>>
     THEN undefined' = TRUE /\ UNCHANGED <<records, pc, i>>
     ELSE /\ sm_start_time_' = sm_start_time_ \cup {Head(ids_[i])}
          /\ running_ids_' = running_ids_ \cup {Head(ids_[i])}
          /\ NextResource
          /\ UNCHANGED <<headers_, undefined>>
  /\ work' = [work EXCEPT ![Loop] = NoWork]
  /\ UNCHANGED <<metas, state_machines_, state_, last, lock, relays, selection, visit>>
-----------------------------------------------------------------------------
Cancels(t) == CancelHolder(t) \/ ResultIsIn(t)

Manager ==
  /\ ~ undefined
  /\ \/ Wake \/ applyConstraints \/ publishLateStatus \/ LateIsRemoved
     \/ init \/ NoCandidate \/ Candidate \/ reinit
     \/ Skip \/ Replace \/ ReplacedIsRemoved \/ publishPreemptStatus
     \/ SendCall \/ KeepId \/ ResetState \/ SendReturns
     \/ Cancels(Loop)

Client(r) ==
  /\ ~ undefined
  /\ \/ RelayStatus(r) \/ publishStatus(r) \/ removeStatusIfNeeded(r)
     \/ stateMachineStatus(r) \/ Cancels(r)

\* A machine whose manager was asked to cancel it ends, if it has not ended yet.
Obeys(r) ==
  ~ undefined /\ lock[r] # None /\ statusCallback(r, "aborted")

Resource(r) ==
  \/ ~ undefined /\ \E e \in Statuses : statusCallback(r, e)
  \/ Obeys(r)

Services ==
  /\ ~ undefined
  /\ \/ \E meta \in Sent : registerMetaStateMachine(meta)
     \/ \E id \in Ids : stateMachineCancel(id)

Next ==
  \/ Manager
  \/ \E r \in Resources : Client(r)
  \/ \E r \in Resources : Resource(r)
  \/ Services

Spec == Init /\ [][Next]_vars

\* The threads run; what is cancelled ends, after the statuses that come before its last.
FairSpec ==
  /\ Spec
  /\ WF_vars(Manager)
  /\ \A r \in Resources : WF_vars(Client(r)) /\ SF_vars(Obeys(r))
-----------------------------------------------------------------------------
Maybe(S) == S \cup {None}

\* Type invariant.
TypeOK ==
  /\ metas \in Seq(Metas) /\ Len(metas) <= MaxMetas
  /\ _status \subseteq Ids /\ told \in [Ids -> SUBSET Resources]
  /\ state_machines_ \in [Resources -> SUBSET (1 .. Len(metas))]
  /\ running_id_ \in [Resources -> Maybe(1 .. Len(metas))]
  /\ state_ \in [Resources -> {"name", "none"}]
  /\ last \in [Resources -> {"due", "told", "lost"}]
  /\ lock \in [Resources -> Maybe(Threads)]
  /\ thread \in [Resources -> {"idle", "noted", "relay", "cancel", "erase"}]
  /\ event \in [Resources -> Events]
  /\ node \in Maybe(Threads)
  /\ work \in [Threads -> [id : Maybe(1 .. Len(metas)), at : 0 .. N + 1]]
  /\ headers_ \cup sm_start_time_ \cup running_ids_ \subseteq 1 .. Len(metas)
  /\ ids_ \in [Resources -> Seq(1 .. Len(metas))]
  /\ done_ \in [Resources -> BOOLEAN] /\ preempt_ \in [Resources -> BOOLEAN]
  /\ pc \in {"sleep", "constraints", "late", "cancel", "select", "reinit", "dispatch",
             "replace", "preempted", "send", "called", "kept", "sent"}
  /\ i \in Resources /\ visit \subseteq Ids /\ undefined \in BOOLEAN

\* A meta machine is selected on all of its resources or on none: when the selection is
\* over, the machine elected on a resource is the one elected on every other resource
\* that still has a sub machine of it, whatever ran, ended or was marked meanwhile.
SelectedOnAll ==
  [][pc = "select" /\ pc' = "dispatch" =>
       \A r, q \in Resources :
         ids_'[r] # <<>> /\ Head(ids_'[r]) \in state_machines_[r] \cap state_machines_[q]
           => ids_'[q] # <<>> /\ Head(ids_'[q]) = Head(ids_'[r])]_vars

\* The selection ends: a turn at a resource that is not done marks one more machine to
\* replace, which starts the selection again but happens once per resource, or brings it
\* nearer to the end: no list grows, no resource has to be done again, and some list is
\* shorter or some resource done.
Marked(preempt) == {r \in Resources : preempt[r]}
NearerToTheEnd ==
  /\ \A r \in Resources : Len(ids_'[r]) <= Len(ids_[r]) /\ (done_[r] => done_'[r])
  /\ \E r \in Resources : Len(ids_'[r]) < Len(ids_[r]) \/ (done_'[r] /\ ~ done_[r])
SelectionProgresses ==
  [][/\ NoCandidate \/ Candidate \/ reinit => Marked(preempt_) \subseteq Marked(preempt_')
     /\ (NoCandidate \/ Candidate) /\ ~ done_[i] /\ ~ undefined' =>
          Marked(preempt_) # Marked(preempt_') \/ NearerToTheEnd]_vars

\* "if machine st_id can preempt_ the one running", otherwise "the one running is more
\* important": a machine that runs is cancelled to make room only if one that outweighs
\* it was registered on one of its resources.  The machine that takes its place may be
\* another: the lists are made again, and their heads are not compared any more.
Outweighed(sm) ==
  \E id \in DOMAIN metas :
    metas[id].subs \cap metas[sm].subs # {} /\ Priority(id) > Priority(sm)
ReplacedForBetter ==
  [][pc = "dispatch" /\ pc' = "replace" => Outweighed(running_id_[i])]_vars

\* A thread that is to take the mutex of holder r.
WantsHolder(t, r) ==
  \/ work[t].at = r
  \/ t = Loop /\ pc \in {"constraints", "reinit"}
  \/ t = r /\ thread[t] = "erase"

\* Who waits for whom: for the last status that the thread of a client cannot deliver,
\* being busy with another; for the mutex of a holder; for the mutex of the node.
Waits(t, u) ==
  \/ \E r \in Resources : lock[r] = t /\ last[r] = "due" /\ thread[r] # "idle" /\ u = r
  \/ \E r \in Resources : lock[r] = u /\ u # t /\ WantsHolder(t, r)
  \/ node = u /\ IF t = Loop THEN pc \in {"late", "preempted"} ELSE thread[t] = "relay"

Deadlocked ==
  \E stuck \in (SUBSET Threads) \ {{}} : \A t \in stuck : \E u \in stuck : Waits(t, u)

\* The threads wait for each other only when one of them cancels within publishStatus,
\* under the mutex of the node: the cancellations of the loop, which wait for results
\* under the mutex of a holder, are harmless by themselves, as nobody needs this mutex to
\* note the result.
FreezesInPublishStatus == Deadlocked => node # None

\* Somebody waits for an end that was told before send() had kept the id, or between that
\* and the reset of the state: it was dropped, or overwritten.
Missed == \E r \in Resources : lock[r] # None /\ last[r] = "lost"

\* The loop comes back from the constraints, the selection and the dispatch, with all
\* their waits for results, unless the threads are deadlocked in this way or the end that
\* somebody waits for was lost in send(): nothing else can stop it.
RoundEnds == pc = "constraints" ~> (pc = "sleep" \/ Deadlocked \/ Missed \/ undefined)
=============================================================================
