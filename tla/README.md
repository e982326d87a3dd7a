# A TLA+ model of resource_management

This directory models the two ROS packages of the repository in TLA+:
`resource_management`, which decides from moment to moment what a robot resource (a head, an
arm, a LED) shows, and `resource_synchronizer`, which runs *meta* state machines over several
such resources. TLC checks the models on small instances, and TLAPS proves the results listed
under *What is proved* for every value of the constants. Paths are relative to the repository;
`RM/` stands for `resource_management/`, `INC/` for
`resource_management/include/resource_management/`, `RS/` for `resource_synchronizer/`.

## The system

### Threads of a resource manager

| thread | code | what it does |
|---|---|---|
| main loop | `INC/ResourceManager.h:213-350` | starts, preempts and joins machines, feeds the buffer of the state machine, elects a buffer, publishes, starts and stops the artificial life, cleans the storage |
| callbacks ("spin") | one thread, `RM/led_manager_test/src/led_manager_test.cpp:133-137` | registration, cancellation, reactive messages, priorities of the buffers |
| run | one at a time, `RM/src/state_machine/StateMachineRunner.cpp:25-107` | the current state machine |
| artificial life | at most one, `INC/artificial_life/ArtificialLife.h:29-36` | feeds its own buffer |
| plugins | `RM/src/plugins/EventsPluginStr.cpp` | add events |

### Threads of a synchronizer

| thread | code | what it does |
|---|---|---|
| loop | `RS/src/StateMachinesManager.cpp:34-120` | constraints, selection and dispatch of the meta machines, under the mutex of the manager |
| one per client | `RM/.../API/StateMachineClient.h:184-195` | delivers the statuses of one resource to its holder, which relays them through `publishStatus` of the node |
| services | `RS/synchronizer_generator/template_resource_synchronizer.cpp:74-82` | registration and cancellation |

### Components

| component | state | operations | interacts with |
|---|---|---|---|
| priority table (`message_storage/PriorityHolder.h`, `MessagePriority.h`, `BufferPriority.h`) | none | importance x focus -> priority | the arbitration, the storage |
| reactive buffers (`ReactiveBuffer.cpp`, `ReactiveBufferStorage.cpp`, `ReactiveInputs.h`) | message, flag "has been published" and focus of each buffer; no lock | `setData`, `published`, `setPriority`, `getMorePriority`, `getHighestPriority` | written by callbacks, artificial life and main loop; scanned by the main loop |
| event storage (`EventStorage.cpp`) | two fifos and a switch | `addEvent`, `getEvents` | every thread adds, the run takes |
| storage of waiting machines (`StateMachinesStorage.cpp`, `StateMachines.h`, `StateStorage.cpp`) | vector of machines, `unpoppable_` | `push`, `pop`, `poppable`, `remove`, `clean` (without the lock) | callbacks push and remove; main loop does the rest |
| runner, states, transitions (`StateMachineRunner.cpp`, `StateMachineState.cpp`, `StateMachineTransition.cpp`) | internal state (locked), `new_state_` (not locked), validations of the expressions | `run`, `setInitialState`, `isNewState`, `runing`, `update`, `evaluate` | main loop starts, asks, preempts and joins; statuses to the clients |
| main loop (`ResourceManager.h`) | active machine, active buffer, whether run and artificial life exist | see above | everything |
| client (`API/StateMachineClient.h`) | id, last status | `send`, `cancel`, `waitForResult`, status callback | services and topic of a manager |
| holder (`RS/include/.../StateMachinesHolder.h`) | sub machines of one resource, the running one | `insert`, `send`, `cancel`, `getIdsPerPriorities`, `canReplace`, status callback | a client; the manager of meta machines |
| manager of meta machines (`RS/src/StateMachinesManager.cpp`) | headers, start times, scratch of the selection | selection and dispatch every 10 ms, constraints | the holders |
| barriers (`RS/src/synchronizer/`) | who has reached each synchronisation | `activate`, `reset` | events to the resources |
| synchronizer node (`RS/synchronizer_generator/template_resource_synchronizer.cpp`) | status of each meta machine | registration, cancellation, relay of statuses | the three above, the clients |

The rest is generators (text substitution), message definitions and demonstration programs:
`PROJECT.json` lists them as not modelled.

### What is hard, and what makes each component correct

* **Arbitration.** Messages and focuses change while they are scanned; the scan tests a buffer
  and then reads it again; the flag of publication is set by one thread and cleared by another.
  An undisturbed scan must elect the best competing buffer, the first among equals; a message
  must not be marked as published without having been; once clients are quiet the manager must
  settle. In a wildcard state the main loop copies the message of the artificial life and marks it.
* **Events.** The fifos must neither lose, repeat nor reorder events.
* **Storage.** `clean()` walks the vector without the lock; a machine must start once, in order
  of importance and registration, never after its end was announced.
* **Runner.** Five ways to end race with each other; preemptions of an earlier run lie in the
  fifo when the next one starts; `isNewState` is two unlocked accesses. The end must be
  announced once, stale events must be harmless, no state may escape the main loop, a run that
  must end does.
* **Main loop.** A machine is in the storage, active, running and shown, in four places that
  change at different times, and the run ends whenever it likes. One machine runs at a time,
  only its data is published for it, only a better one preempts it, a better one is always
  served although preemptions may be dropped, and shutdown ends with every thread joined.
* **Synchronizer.** A machine must be selected on all its resources or on none, and the
  selection must end although every replacement starts it again. The loop and the threads of the
  clients wait for mutexes and for statuses which other threads deliver: who may wait for whom
  decides whether the loop comes back. Statuses may arrive before the send returns; records are
  erased while they are used.
* **Barriers.** The machines announce the synchronisations they wait for, at their own pace, and
  may leave the state, come back to it or end before the announcement is relayed. A barrier must
  open when all those listed there have announced it, not before, and nobody may be left behind.
* **Client.** Two threads share an id and a state without a lock. A wait must end when the machine
  sent last has ended, and for no other reason.

## The modules

| module | models | correspondence |
|---|---|---|
| `Priorities` | the priority table | `Priority(imp, foc)` is `priorities_[imp][foc]`; the row and the column -1 are not in the table |
| `ReactiveBuffers` | buffers and arbitration, field by field | `StoreData`/`StoreFlag` are the two stores of `setData`; `ScanTest`/`ScanCompare` the two reads of each turn of `getMorePriority`; `TestFlag`, `Publish`, `Mark` the end of the iteration; `setStateMachineData` is its middle, with `CloneArtificialLife` and `MarkCloned` for a wildcard state; `_subscriberCallback`, `prioritiesCallback`, `inLoop` the other threads |
| `Mailbox` | abstract specification of the event storage: a receipt yields everything sent since the last one, in order | |
| `EventStorage` | the two fifos | `addEvent`, `getEvents`, each under its lock, so one step each |
| `StateMachinesStorage` | the vector of waiting machines with its users | one action per locked operation; `CleanBegin`, `CleanSize`, `CleanTest`, `CleanAnnounce`, `CleanErase` are the unlocked accesses of `clean()`; an access outside of the vector sets `undefined` and stops the model |
| `RunContract` | abstract specification of a run: `Start`, `Begin`, `Move`, `Finish`, `Preempt`, `Abandon`, `DeadLine`, `Exit`, `Join` | what the main loop may rely on |
| `StateMachineRunner` | the thread of the run with the main loop's use of it | `RunBegin` is everything before the loop of `run()`; `GlobalTimeout`, `Preempt`, `RunOnceNoEvent`, `TakeEvents` one iteration, under its lock; `HandleEvent` one turn of `runOnceWithEvents`; `RunExit` the last block; `evaluate`, `Outcomes`, `ValidatedBy` are `evaluate()` and `update()`; `IsNewStateRead`, `IsNewStateWrite`, `SetStateMachineData` and then `StoreStateData` or `CloneArtificialLife` are the main loop's use of a state |
| `ResourceManager` | the main loop with the callbacks, composed with `RunContract` (`Run == INSTANCE RunContract`) | `pc` is the place in `run()`: `TopIdle`, `Pop`, `TopRunning`, `Test`, `Join`, `Poppable`, `IsNewStateRead`, `IsNewStateWrite`, `SetStateMachineData`, `CloneArtificialLife`, `GetMorePriority`, `Publish`, `Clean`, `Stop`, `LastJoin` in the order of the code |
| `MetaManager` | the synchronizer: the loop of `StateMachinesManager` with the holders, the clients' threads and the services of the generated node | thread 0 is the loop, thread r delivers the statuses of resource r. `pc` is the place in `run()`: `applyConstraints`, `publishLateStatus`, `LateIsRemoved`; `init`, then one `NoCandidate`, `Candidate` or `reinit` per turn of the selection; `Skip`, `Replace`, `SendCall`, `KeepId`, `ResetState`, `SendReturns` per resource of the dispatch, the middle ones being the accesses of the client's `send()`. `statusCallback`, `RelayStatus`, `publishStatus`, `removeStatusIfNeeded`, `stateMachineStatus` are a status on its way. `CancelHolder`, `ResultIsIn` and `removeSm` are `cancel(id)`, by the loop or within `publishStatus` |
| `Rendezvous` | abstract specification of the barriers: the parties of a meeting are called when all of them have arrived, and to be called again all must arrive again | `Enlist`, `Wait`, `Meet`, `Hear` |
| `StateMachinesSynchronizer` | the barriers of one meta machine, with the machines that announce them, the relay of the statuses by holders and node, and the events that open them | `RegisterNext` is the turn of one resource in `registerMetaStateMachine`; `SendCall`, `SendReturns` are `send()` of the holder; `RunOnce` one turn of the runner with `update`, `Abort` any end that is not a transition; `Relay`, `Activate`, `EndRelay` are `stateMachineStatus` and `publishStatus`, name by name |
| `StateMachineClient` | a client of a manager, for both classes of clients | `send`, `KeepId`, `ResetState` are the accesses of `send()`; `waitForResult`, `ResultIsThere`, `cancel`, `Destruct`, `Join` the rest of the application's thread; `statusCallback`, `KeepState`, `SpinEnds` the other one; the manager is summed up by what becomes of each machine |
| `StateStorage` | operators, no state: the message the builders make of a client's calls, what the generated manager extracts of it, the storage the registration makes of that | `AddState`, `AddTransition`, `StatesMsg`; `stateFromMsg`, `transitionFromMsg`, `_extractCallback`; `addState`, `addData`, `addTransition`, `_serviceCallback`. `StoredAsDescribed` is the reference definition |
| `*MC` | instances for TLC | |
| `*Proofs` | theorems | |

`ResourceManager` relies on the other modules as follows. The run is the abstract one;
`StateMachineRunner` is checked to implement it (`ImplementsContract`). The arbitration between
the reactive buffers is the matter of `ReactiveBuffers`; here they are summed up by the priority
of the best one, which callbacks change at any time. The walk of `clean()` is the matter of
`StateMachinesStorage`; here it is one step that drops some machines with a deadline. The walk
of `remove()` is kept, as it decides which machine runs: it erases the ids *greater* than the
one cancelled, and answers that it found it.

`StateMachinesSynchronizer` takes the machines and the names extracted of them as constants, of
which it assumes that the names of a state are those its transitions listen to
(`MachinesAssumption`) and that the names extracted are those of all the states
(`ExtractedAssumption`). `StateStorage` is why: `StateMachinesSynchronizerMC` assumes, and TLC
evaluates, that the machines of the instance are what the builders and the registration make of a
client's calls (`MachinesAreBuilt`), and that everything described is stored and extracted, over
all messages of one or two types of data with up to two transitions from a state, one from
another, and four lists of expressions (`EverythingIsStored`).

### Abstractions, module by module

* Messages are their importance, or none (`NoData`); names of buffers are their positions in
  the order of declaration, on which ties depend.
* A lookup outside of the priority table yields any of `OutsideTable`, a constant.
* An event is a model value and a regular expression the set of the events it matches.
  `preamted` is the event `__preamted__` of the code.
* Times are small naturals; `Never` is the duration -1 and the deadline 0 is none, as in the
  code. In `ResourceManager` a deadline may pass at any moment.
* In `StateMachineRunner` the statuses are reduced to the announcements of an end (`finals`). The
  test `ros::ok()` of the loop is made in the same step as the iteration it admits: between
  the two the code can only be overtaken by a shutdown, which leads to the states reached when
  the shutdown comes just after the iteration.
* In `ResourceManager` every state of a machine has data. A state that a transition declares and
  nobody gave data to would leave the buffer empty (`getStateData` returns null); likewise the
  artificial life always has a message, which its constructor stores
  (`RM/led_manager_test/src/ArtificialLife.cpp:9-17`).
* In `ReactiveBuffers` a state of a machine is its data or a wildcard, whichever it is at each of the
  questions `setStateMachineData` asks.
* In `MetaManager` the client of a holder is reduced to `state_` and to what becomes of the last
  status of the machine it was sent (`last`): still due, told, or lost because it was told before
  `send()` had kept the id or reset the state. Statuses come from the answer of the manager
  of the resource on (`called`). `stateMachineStatus` reads `running_id_` once to decide and again to fill the
  status; as the loop alone sets it when it is -1, and the thread of the client alone resets it,
  only the first reading may find it changed (`RelayStatus`).
* In `MetaManager` a turn of the selection, with the few unlocked reads of the holders it makes, is
  one step, and so are `init()` and the beginning of `reinit()`, which wait until every holder is
  unlocked. The cancellation of a machine that the same thread has just cancelled changes nothing
  and is left out. Timeouts and deadlines may be over at any moment. Ids start at 1. A registration
  lists at least one resource. `std::map` accesses that race (`_status`, `state_machines_`) are
  modelled by what they return; an element erased while it is used sets `undefined`, where the
  model stops (in `LateIsRemoved` it may or may not, as the freed node of the map may still lead
  to the next one). A resource sends statuses only about the machine it was given last.
* In `StateMachinesSynchronizer` a regular expression is the event it matches, and a
  synchronisation its name. A duration may have elapsed at any turn. `Parts` splits a name at its
  underscores. A status that ends the meta machine cancels the others in `publishStatus`; here they may
  end or be sent at any moment all the same, and the relay does not wait for them, which is the
  matter of `MetaManager`. Topics are delivered in order, at any pace. Each resource is sent its machine once.
  The erasure of `_status` by `stateMachineCancel`, which takes no lock, is left out while
  `publishStatus` uses the record: what that does is undefined.
* In `StateMachineClient` the state kept is whether it is an end: an empty name for
  `StateMachineClient`, `end()` for `MetaStateMachineClient`, where every status carries the states
  of all the resources and the last event is empty but for a global end. A send that fails changes
  nothing. The strings and vectors that the two threads access at once are taken to be written and
  read as a whole. The limit of the topic, 100 statuses, the shutdown (`ros::ok()`) and a manager
  that restarts with ids from 0 are not modelled. `spinThread` leaves with `terminate_mutex_`
  locked, which nobody takes afterwards.
* A null pointer followed by `setStateMachineData` (the machine ends between the test of the
  wildcard and the lookup of its data, `ResourceManager.h:393-398`) is the control value
  `crashed` of `ResourceManager` and `StateMachineRunner`, where the models stop; the liveness properties except it.

## The runs

| run | question | bounds |
|---|---|---|
| `ReactiveBuffers` | election, disturbed or not, order of the tests, loss only in the two windows of `published()`, settling | 2 reactive inputs, 4 importances, 3 focuses, 3 writes: enough for two callbacks to disturb one scan, and for a write during another's publication |
| `EventStorage` | the fifos implement the mailbox | 2 events, 5 sends: more than two swaps of the fifos |
| `StateMachinesStorage` | order, single start, no start after the announcement, late machines dropped | 3 machines, so that an erasure shifts a machine past another; 2 instants |
| `StateMachineRunner` | one end per run, stale events, new states shown, all the expressions heard | 2 runs of the same runner, with and without something new of the artificial life in the wildcard state, 3 events, 2 instants; a machine of three states with a loop, a duration, a timeout and a synchronisation, and unknown initial states. Three events and a duration are enough to leave a state with one expression validated, return and leave it on the other |
| `StateMachineRunnerLive` | runs end; `RunContract` implemented, with its fairness | 1 run, 2 events, 2 instants, initial states that are final or unknown, no wildcard state |
| `ResourceManager` | one machine, its own data, better ones only | 2 machines of low or vital importance with a deadline that may pass at any moment, cancelled or not, an ordinary and a wildcard state, one reactive message |
| `ResourceManagerLive` | better machines are served, idle managers start machines, shutdown ends | 2 machines without deadline, ordinary states |
| `ResourceManagerCancel` | violated: see *Disagreements* | 2 machines |
| `MetaManager` | where the threads may block each other, and that the loop otherwise comes back | 2 resources, 2 machines that share one, the more important one with a timeout and a begin deadline, every kind of status, before, during and after `send()`: two threads that cancel, one that waits for the other's status |
| `MetaSelection` | all resources or none; the selection ends; a machine is replaced for the sake of a better one | 3 resources, 3 machines on the pairs {1, 2}, {2, 3} or on all, two priorities: chains of conflicts, replacements of a machine that runs on several resources. Resources send no status of their own; cancelled machines end |
| `StateMachinesSynchronizer` | the barriers implement the rendezvous; no meeting is missed; those who all wait for each other do not do so for ever | 2 resources, three names, one of them composed of the two others. One machine goes round two barriers; the other listens twice to the first name, once with another event, and may give up the second: enough for an activation that comes after the barrier has opened, for one left from a former visit, and for a machine that ends between its announcement and the relay. 1 other event |
| `StateMachineClient` | a wait ends for the machine sent last, and it does end | 4 machines, sent by this client or by others, 2 statuses on their way beside the ends: a status of a former machine, one of another client and the end of the last one at once |

`CHECK_DEADLOCK FALSE` is given where the system really stops: the storage after an undefined
access, the resource manager and the runner when the node is shut down or has crashed, the synchronizer after an
undefined access or when its threads are deadlocked, the machines of the barriers when all are
over, and the client once it is destroyed.

The bounds `MaxWrites`, `MaxEvents`, `MaxMachines`, `MaxMetas`, `MaxRuns`, `MaxOthers`, `MaxStatuses`
and `MaxTime` are guards of the
actions of the environment (clients, clock); nothing of the code is bounded by them, except that
`setStateMachineData` counts as a write of its buffer in `ReactiveBuffers`.

Every property of a passing run has a mutant in the module of the code it speaks of (operators
preceded by a comment that begins with *Mutant*): a plausible mistake under which TLC finds the
property violated.

### Fairness

* The main loop polls without end and blocks only for locks held for a bounded time and for the
  join, so `WF(Main)`; likewise the thread of a run, `WF(Runner)`, and the second half of a
  `setData` that has begun.
* Clients, events, the clock and the shutdown get no fairness, and neither does a machine: in
  `RunContract` nothing obliges a run to end by itself. It begins, obeys a preemption or a
  shutdown, and exits: weak fairness of these three, which `StateMachineRunner` is shown to
  provide by `ImplementsContract`.
* In `MetaManager` the loop and the clients' threads run: `WF(Manager)`, `WF(Client(r))`. A sub machine
  that its manager was asked to cancel ends, which is what `RunEnds` shows of the manager; finitely
  many statuses may come before the last one, so `SF(Obeys(r))`: the thread of the client is busy
  again and again, and the last status is delivered between two of them. This supposes that
  a cancellation is effective, which *Disagreements* shows not to be so for a machine that waits
  or has just been popped; `RoundEnds` is about the synchronizer, whose managers it takes to obey.
  An end that was told and lost in `send()` is not told again: `Obeys` is enabled only while one
  is due, and `RoundEnds` excepts the waits for a lost one (`Missed`).
* In `StateMachinesSynchronizer` the runners poll and the threads that relay the statuses run:
  `WF(RunOnce(r))`, `WF(Relay(r))`, `WF(Activate)`, `WF(EndRelay)`, `WF(SendReturns)`. Nothing obliges the loop to send a machine, a
  machine to be aborted or another event to happen. `WF(EndRelay)` supposes that
  `publishStatus` is not frozen in a cancellation, as `FreezesInPublishStatus` says it may be.
* In `StateMachineClient` the two threads run; nobody is obliged to send, to wait, to cancel or to
  end a machine.

## Disagreements between the code and what is said of it

A machine cancelled before it starts may be executed although the cancellation was acknowledged
(`CancelledIsNotExecuted`), where the tests of the LED manager, in the list of those still to write, say "send 1 state
machine send a second and cancel it before it starts. check it is not executed."
(`RM/led_manager_test/test/test.cpp:440`). There are two ways:

1. `remove(id)` erases the machines with a *greater* id (`StateMachinesStorage.cpp:92`): the
   cancelled machine waits on and starts; those erased are never told of.
2. A cancellation acknowledged between the pop and the start of the thread posts a preemption that
   the first `getEvents()` drops (`StateMachineRunner.cpp:30`).

Other behaviours show in the models, and the properties are stated around them:

* `ReactiveBufferStorage.cpp:63` reads again what lines 59 and 61 tested, so a callback in
  between makes the lookup leave the table (`OutsideTable` is what it finds). `ScanFindsWinner` says
  of such a scan that it elects a buffer that was written meanwhile, or the best of the others.
* A message is marked as published without having been when it is stored between the test of the flag
  and `published()` (`ResourceManager.h:290-294`), and, for the artificial life, between the copy made
  of its message for a wildcard state and the `published()` that follows (397-400): what is marked is then
  not what was copied. The copy need not be shown either, if another buffer is elected.
  `LostOnlyInTheWindow` says that there is no third way.
* `isNewState` is asked before the wildcard is tested: in a wildcard state the answer is used up, and
  nothing of the state is stored unless the artificial life has something new. `NewStateIsShown` speaks
  of the other states.
* `clean()` announces one machine and may erase another, or none, when a cancellation shifts the
  vector in between (`CleanErase`).
* The data of a machine that missed its begin deadline while it was popped may be stored before
  its thread tests the deadline (`shown` in `StateMachineRunner`).
* A machine of importance VOID is accepted and looked up in row -1 of the table (`undefined` of
  `StateMachinesStorage`).
* `publishStatus` cancels under the mutex of the node, and waits for the end of the sub machines
  that still run. It never waits for the resource whose status it relays: a state that times out
  ends its machine, and that end was noted by the client before it was relayed. But the thread of
  another resource may wait for the mutex of the node with a status in its hands, and will not note
  the end that is waited for: both wait for ever. `FreezesInPublishStatus` shows that this is the only
  way the threads block each other: the cancellations of the loop and the registrations cannot.
  (`node`, in the models, is the mutex held during such a cancellation.)
* A holder that cancels a machine whose end was lost in `send()` waits for ever, with its mutex
  (`StateMachinesHolder.h:111-115`), and the loop with it: `Missed`. `RoundEnds` says that this and the
  deadlock above are the only ways the loop may stay away.
* A meta machine that outweighs none of the others of its resource goes to the front of the list
  (`StateMachinesHolder.h:151`). It may therefore take the place that a third one, better than
  both, made free, although it is less important than the machine it replaces: `ReplacedForBetter` says
  that somebody better is there, not that it is the one that gets the place.
* A meta machine cancelled by its client goes on: `done || cancel(...)` never cancels
  (`stateMachineCancel`).
* That cancellation also forgets the statuses, so the announcements of the machine are ignored from
  then on and its barriers do not open any more (`unheard` of `StateMachinesSynchronizer`). They are
  ignored likewise before `send()` has noted that the machine runs.
* `reset()` fills copies of the activations (`StateMachineSynchroHolder.cpp:59`) and does nothing. That is
  as well: were they reset, a machine that changes its state would drop the announcements of
  those who wait (the mutant of `NoMissedMeeting`). But a machine that left a state without its meeting
  is still counted at the barrier. `ImplementsRendezvous` is stated of the announcements made since
  the barrier last opened, whether or not those who made them still wait.
* A machine that listens to a name in two transitions of one state announces it twice; the second
  activation may come after the barrier has opened and counts for the next meeting. Such an
  activation can open a barrier without one who waits there again; `MeetingHappens` therefore says
  that of those who wait together *somebody* goes on or is called, and not that all do.
* Names are joined and split at `_` (`template_resource_synchronizer.cpp:160`): a name with an underscore
  activates the barriers of its parts, and its own never. `NoMissedMeeting` and `MeetingHappens` speak of
  simple names.
* A failed call of `extract_synchro__` is taken for no synchronisations
  (`StateMachinesHolder.h:199`): the resource is not listed, and the barrier opens for the others
  without it.
* The expressions of a transition validated in one visit of a state count for the next visit, so a
  machine may leave a barrier it returns to by hearing the other event only.
* `waitForResult` compares the time 0 with the timeout (`StateMachineClient.h:137-140`): it never
  times out. A wait before any machine was sent returns at once for `StateMachineClient`, whose
  name is empty, and never for `MetaStateMachineClient`.
* `send()` keeps the id and then resets the state. An end that comes before the id is kept is
  dropped, one kept before the reset is forgotten, and the wait that follows does not end (`missed`
  in `WaitEnds`). A status compared to the former id may be kept afterwards (`stale` in `EndIsReal`).
* The builders ignore the second state of a name; a state named in two types of data has the data of
  the last and the transitions of both.
* The last status of a sub machine may come after `send()` of the client and before that of the holder
  has noted that the machine runs; it is not relayed, and the holder then refuses every other machine until this one is cancelled (`SendCall`, `SendReturns`).
* The artificial life may stay the active buffer while it is stopped (the machine ends between
  `ResourceManager.h:264` and `283`), and in a wildcard state whose artificial life has nothing new
  the buffer keeps the data of the last machine, or none. `PublishesItsOwnData` and
  `OnlyBetterPreempts` therefore except the machines that were in a wildcard state (`wandered`).

## What is proved

* **`ReactiveBuffersProofs`**, for every number of inputs, every set of importances and
  focuses clients may send and every byte found outside of the table: type correctness
  (`TypeCorrect`), the election (`ScanCorrect`), the documented order (`DocumentedOrderCorrect`) and
  the window of loss (`FlagCorrect`). The election is not inductive by itself: the invariant
  `ScanInv` says that `found` is a buffer written during the scan or the winner *among the others
  before `i`*, and `max_priority` its priority. The documented order follows from the election and
  three facts on the table (`TableOrder`). The windows of loss need that the buffer about to be marked is
  accounted for, at both places that mark one (`FlagInv`).
* **`EventStorageProofs`**: types (`FifosTyped`); the receiving fifo holds exactly the events not handed out
  (`FifosCorrect`), from which every step of the double fifo is a step or a stutter of `Mailbox`
  (`MailboxRefined`).
* **`StateMachinesStorageProofs`**, for every number of machines: `StorageTyped` (types and ascending ids),
  `StartedOnceCorrect`, `StorageCorrect` (no start after the announcement) and `StartOrderCorrect`. The invariant adds that
  the ids started or announced were registered and are not among the waiting ones, except the
  announced machine `clean()` has yet to erase, which waits at the index `i`
  (`AnnouncedWaitsAtIndex`): only removals of later machines can happen in between, so
  it cannot start. The lemmas on `Keep` say what an erasure by an increasing selection of
  positions preserves.

* **`StateMachineRunnerProofs`**, for every machine, timeout, deadline, number of runs and of events:
  `RunnerTypeCorrect`, `StaleCorrect`, `FinalStatusCorrect`, `NewStateCorrect`, `LeftWhenHeardCorrect`, and
  `ContractRefined`: every step is a step or a stutter of `RunContract`. The invariant has one part
  per property. *Stale events*: between two iterations no event is held (`batch`), so the drop
  at the beginning of a run drops all of them. *The final status*: a run is silent as long as its
  machine has a state, and once the state is gone it has spoken, unless it began without one or the
  node is shut down (`FinalsInv`). *New states*: if `isNewState` is about to answer no and the flag is up
  again, the change came between its two accesses; only states that are wildcards are excepted,
  whichever these are (`ShownInv`). *Expressions*: one that is validated matched an event the state
  was given (`HeardInv`). `OutcomeFacts` and `RunOnceFacts` say once what a turn of a state does.
* **`ResourceManagerProofs`**, for any number of machines and reactive messages: `ManagerTypeCorrect`,
  `OneMachineCorrect`, `OwnDataCorrect`, `BetterPreemptsCorrect` and `ManagerKeepsContract` (the manager drives
  the runs only by steps of `RunContract`, so the two results on the contract fit together).
  The invariant `DataInv` follows the data of the active machine along the loop: until it is
  *stored* (in the buffer, or nothing there because the machine is over), the news of its state
  is in `new_state_` or, between the two accesses of `isNewState` and the use of the answer, in `res`;
  once `unpoppable_` is down it is stored. So `level`, which `poppable()` compares with, is at least the
  priority of the active machine (`HighestIsHighest`), and under the focus ATOMIC a greater priority
  means a greater importance (`AtomicGrows`). `RunInv` says of the contract that a state, once
  lost, is lost for good.

* **`StateMachinesSynchronizerProofs`**, for every number of resources, every machine, every name and
  number of other events: `SynchronizerTyped`, `NoMeetingIsMissed` and `BarriersMeet`. That no meeting is
  missed rests on `Announces`: a machine that waits for a name, and
  whose announcements were all heard, has the name on its way in a status or in the names `publishStatus` is
  going through, is counted at its places of the barrier (`SamePlaces`: all the places of one
  resource are activated together), or has the event coming back. All of them cannot be counted, as
  a barrier that is full has opened and closed (`NotFull`); so somebody has a message on the way. `NotBegun` and
  `Fresh` say that nothing is announced before the lists are complete and each holder knows its machine.
  `BarriersMeet` follows with a lemma per action: most of them only hear.
* **`StateMachineClientProofs`**, for every number of machines and statuses: `ClientTyped` and
  `ClientEndIsReal`. The invariant says that a machine whose end is on its way, or about to be kept,
  is over (`EndsAnnounced`), and that outside `send()` what is about to be kept is of the machine sent
  last, unless it is stale (`PendingIsOfLast`).

* **`MetaManagerProofs`**, for any number of resources, meta machines, priorities and statuses:
  `MetaTypeCorrect`, `SelectionComesToAnEnd`, `DeadlocksInPublishStatus`, `ElectedTogether` and
  `ReplacedIfOutweighed`. The lists of the selection are computed by recursion (`getIdsPerPriorities`
  inserts machine after machine, `Erased` removes element after element, `clean` goes from resource to
  resource). The functions are recursive, on `0 .. n`; `RecursionExists` shows once that such a function
  exists, and `InductionTo`, from the well-foundedness of the naturals, that what holds of 0 and is kept
  holds up to `n`, for a *set* of naturals, which the provers can instantiate. `ErasedFacts`, `IdsFacts` and
  `CleanCoherent` say what the three operations return.
  - *The selection ends*: each of its steps shortens a list or is done with one more resource, and undoes
    nothing (`NearerToTheEnd`), except the preemption for which it starts again.
  - *The locks* (`LocksCorrect`): who has the mutex of a holder is cancelling there (`LocksInWork`); the
    loop cancels only in its constraints and replacements (`LoopWork`), a client only with the mutex of
    the node (`ClientWork`); a last status is noted before it is relayed (`Relays`); and what is due,
    or noted while the holder believes that nothing runs, is of a machine being sent (`Sending`). If the mutex of the
    node is free, then, a client can wait for the loop only, with the last status of its machine
    in its hands, and the loop for a status only, which that one has had (`NoDeadlockOutside`).
  - *All or none* (`SelectionCoherent`): neither property is inductive. While the selection lasts the
    lists are `Coherent`: none has a machine twice; a machine in one list is in the list of every resource that
    has it; what a resource that is done elected comes first wherever it is listed. A
    resource that is done has one machine left at most (`Short`), so at the end what is first here is first
    everywhere. Removals keep this because a machine leaves all lists at once, and because
    `clean` takes from a list only what cannot be elected there and takes it away elsewhere too.
  - *Replaced for a better one*: what runs where a resource is marked for preemption (`Marks`), and what the
    machine elected for a resource is still to replace (`Elections`), shares a resource with a machine
    of higher priority: the candidate for whose sake it was marked.

  Each of these parts was checked by TLC on the instances of `MetaManager` and `MetaSelection`
  before it was proved.

They assume the constants' assumptions only. Every invariant and every action property of the runs that
pass is a theorem. `StoredAsDescribed` is no property of a run: TLC evaluates it over bounded messages, as
an assumption of `StateMachinesSynchronizerMC` (`EverythingIsStored`), and it is not proved. What rests on fairness (`ActiveSettles`, `LateIsDropped`,
`RunEnds`, `BetterIsServed`, `IdleIsServed`, `ShutdownEnds`, `RoundEnds`, `MeetingHappens`, `WaitEnds`, the fairness part of `ImplementsContract` and of the
mailbox) is model-checked only: the prover has no rule for it.

## Not modelled yet, and the plan

In this order:

1. The synchronizer over `RunContract`: the statuses a resource sends are chosen freely in
   `MetaManager`, and the machines of `StateMachinesSynchronizer` are those of `StateMachineRunner` without
   its threads and clocks.
2. What the abstract specifications imply, as theorems on `Mailbox`, `RunContract` and `Rendezvous`.
3. `StoredAsDescribed`: a theorem for every message, by the same induction over a set as in
   `MetaManagerProofs`.

Left out for good: regular expressions themselves, the content of messages, ROS transport inside one
manager (services are calls, topics are not lost between threads of one node), parameters,
generators, demonstration programs, the shutdown of a synchronizer (its node calls `stop()` of the manager
once `ros::spin()` has returned, `template_resource_synchronizer.cpp:80`, and the loop leaves at its next turn,
`StateMachinesManager.cpp:43`, if it is not frozen), and what nobody calls: `cancel()` of a holder without
an id, `erase` of the barriers.
