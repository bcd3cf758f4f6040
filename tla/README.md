# Verification of hsm.rs

TLA+ specifications of the hierarchical state machine library in `src/` (crate
`stateforward_hsm`), the TLC configurations that check them on small machines, and TLAPS
proofs of what matters most for every machine. Line numbers are those of the modelled commit.

| file | what it is |
| --- | --- |
| `EventQueue.tla` | the queue of one machine, as operators on a record of two sequences |
| `Runtime.tla` | the protocol between the threads that use one machine, and the drain loop |
| `Mailbox.tla` | what that protocol promises for each event (abstract; `Runtime` refines it) |
| `Hierarchy.tla` | names as a tree, and the path a transition takes through it |
| `Interpreter.tla` | what one event does to the machine: selection, exit, effect, entry |
| `Nesting.tla` | what entering and leaving states promises (abstract; `Interpreter` refines it) |
| `Tasks.tla` | activities and timers, and the process-wide tables their contexts are keys of |
| `Fleet.tla` | several machines under several contexts: registration, fan-outs, groups |
| `Builder.tla` | what each element of a definition adds to the model |
| `Lifecycle.tla` | what happens to a whole model: renaming, embedding, finalizing |
| `Validation.tla` | what the default validator accepts |
| `Definition.tla` | a definition, element by element, and its redefinitions; composes the three above |
| `MC<M>.tla`, `*.cfg` | the instances TLC is given |
| `RuntimeProofs.tla`, `ConservationProofs.tla`, `InterpreterProofs.tla`, `TasksProofs.tla`, `FleetProofs.tla`, `DefinitionProofs.tla`, `NumberingProofs.tla` | proofs |
| `Filtering.tla` | what is left of a sequence, as a function the proofs can reason about |
| `SequenceFacts.tla` | lemmas on natural numbers and on filtering that the proofs share |
| `PROJECT.json` | components, runs, mutants, the map from definitions to lines, findings, hazards, theorems |

`tlc -config <run>.cfg MC<M>.tla` repeats a run of module `M`, `tlapm <M>Proofs.tla` a proof.

## 1. The system

A *model* (states, pseudostates, transitions, behaviours, constraints) is built by macros or
builder calls, finalized into lookup tables, and validated. A *machine* (`HSM<T>`) is a
handle on a model, a user instance and the run-time state; clones share everything. Callers
hand events to a machine; one of them *drains* the queue and *interprets* each event against
the tables; behaviours called on the way may hand in events themselves.

| component | state | operations | correct when |
| --- | --- | --- | --- |
| event queue (`queue.rs`) | completion stack, regular deque or a user's `RuntimeQueue` | `push_with_context`, `prepend_regular`, `pop_with_context`, `len`, `clear_with_context` | completions first and newest first, regular events in order, none lost |
| runtime (`hsm_impl.rs` 105-128, 257-365, 403-414, 568-952, 1080-1193, 1904-1937) | queue, `deferred_events`, `current_state`, attributes; the process-wide `ACTIVE_DRAINS`, `ACTIVE_OPERATIONS`, `PENDING_REENTRANT_EVENTS` | `dispatch`, `set`, `call`, `start`, `stop`, `restart`, `drain_queue`, requeue and replay of deferred events, flush of set-aside events, the guard's drop | one event at a time and to completion, each accepted event run once or parked by an active state, depth counters balanced, calls return |
| interpreter (`hsm_impl.rs` 954-1078, 1195-1662, 1792-1902) | `current_state`, `shallow_history`, `deep_history`, `state_contexts` | `process_single_event`, `execute_transition`, `enter_state`, `exit_state`, choice, entry and exit points, history, final states | innermost handler first; entered states are exactly those around the current one; history restores what was left; activities live with their state; every event ends |
| tables and paths (`model.rs`, `path.rs`, `element.rs`) | transition, deferral, history tables; transition paths | `build_*_table`, `calculate_transition_paths`, `dirname`, `lca`, `is_ancestor_or_equal`, rebasing | exit path leads from the source to just below the common ancestor, entry path from there to the target |
| validation (`model_validation.rs`) | none | `validate_model` | everything the interpreter takes for granted is refused otherwise |
| lifecycle (`model_lifecycle.rs`) | the model's members | `define`, `redefine_as`, `finalize_model`: targets, completion and source lists, kinds, observations; choice of hooks | names still resolve after renaming and embedding; finalizing twice changes nothing; the last hook wins |
| builders and DSL (`builder.rs`, `dsl.rs`) | the stack of open elements, the members | one `Partial` element each | what is declared is listed once and in order, and found by the name it is given |
| timers and activities (`hsm_impl.rs` 130-172, 1664-1790, 1939-1996, `behavior_context.rs`) | spawned tasks, `RUNNING_ACTIVITIES`, per-state contexts, the thread-local abort flag | spawn, fire, cancel, completion notification | a task can be cancelled as long as it runs, winds down afterwards, leaves nothing in the tables; done and cancelled are not both reported |
| contexts and registry (`context.rs`, `context_runtime.rs`) | cancellation flag, deadline; machines by context key and id | register, unregister, current, `dispatch_all`, `dispatch_to`, patterns | a machine in a state is found; a fan-out reaches all or says so |
| group (`group.rs`) | member list | dispatch, set, call, start, stop, restart, snapshot | each operation reaches every member or reports an error; nobody waits for ever |
| kinds (`kind.rs`) | dynamic id counter | `make_kind`, `is_kind` | `is_kind` is reachability over bases |
| events (`event.rs`) | none | constructors, trigger names | names and kinds as the tables expect |
| macros, function-call surface (`macros.rs`, `macro_builders.rs`, `api.rs`) | none | expand to DSL and method calls | surface syntax for the same model |
| configuration, snapshots, errors (`runtime.rs`, `error.rs`), binaries | none of their own | plain data; drivers | - |

How they interact. Callers and the runtime share the queue, the deferred records, the current
state and three process-wide maps, each behind its own lock that is released between any two
steps. The runtime awaits the interpreter, the interpreter awaits behaviours, and behaviours
call back into the runtime (nested `dispatch`, `call` set aside until the drain flushes).
Activities and timers are tasks of their own that enter the runtime like any caller and are
cancelled through the context their state was entered with. Start and stop register and
unregister the machine with its context.

What is hard to test: the interleavings of threads between two locks (a drain that ends while
somebody pushes; a guard dropped while somebody sets an event aside; stop or start in the
middle of a drain); state cloned before an await and written back after it; deferral, replay
and re-deferral chasing each other; dropped futures and aborting behaviours that leave a
protocol half way; the exit and entry paths of inherited transitions through submachine
boundaries; histories several transitions old. `PROJECT.json` lists each as a hazard at its
line, with the properties that watch it or the reason why none does yet.

## 2. Runtime

### Model and code

A thread (`Threads`) is a task or OS thread in one of the machine's functions, and `pc` says
where; a step is what the code does under one lock, so threads interleave exactly where the
code lets go of a lock. `currentState`, `queue`, `deferredEvents` are the fields of that name;
`activeDrain`, `activeOperations`, `pendingReentrant` are this machine's entries in the
process-wide maps; `seen`, `popped`, `taken`, `source`, `local`, `carry` are the locals of one thread
(the clone of `current_state`, the event in `drain_queue`, the record found for it, the source of the last transition,
the local `deferred_events`, the events `flush_reentrant_events` has taken). `fate` and
`stopped` are history variables: no step reads them, except that `fate` keeps an event from being
sent twice.

| actions | code |
| --- | --- |
| `Dispatch`, `Set`, `Call`, `Admit` | 568-690, 799-832: the entry points and `is_inactive`'s two reads |
| `BeginOperation`, `OperationReenters`, `EndOperation`, `LeaveFlush`, `DispatchCall` | `execute_operation_by_name` and `call_with_args`: depth, flush by the outermost operation, then the call event |
| `ActivityDispatches`, `SetAside` | an activity's operation that dispatches between awaits; what is set aside of the events handed in (615, 844) |
| `Route`, `RouteOperation`, `QueueReentrantEvent`, `PushHeld` | `dispatch_queued_borrowed` |
| `BeginDrain`, `Pop`, `TakeDeferredEvent`, `KeepDeferred`, `SelectState`, `Ignore`, `Defer`, `DeferredOwner`, `Transit`, `PushFinal`, `Fail` | `drain_queue` around one event |
| `BeginBehavior`, `EndBehavior`, `BehaviorDispatches` | behaviours that are named operations, and those that dispatch |
| `DropExited`, `PushDeferred`, `RecordDeferred`, `TakeReentrant`, `FlushReentrant` | requeueing of deferrals after a transition or at the end, and the flush |
| `ReleaseDrain`, `WipeReentrant` | `DrainGuard::drop`, its two locks |
| `AbandonDrain`, `AbandonOperation`, `AbandonStop` | the future a caller awaits is dropped |
| `Start`, `AdmitStart`, `Activate`, `Stop`, `StopReads`, `ExitDispatches`, `StopExits`, `ClearQueue`, `ClearDeferred`, `SwitchOff`, `Restart` | 257-365 |

What an event does to the machine is left open here: it may be ignored, deferred (if the
defer lists say so), fail, or move the machine to any state. The interpreter is the subject
of section 3. Simplifications: a behaviour is one operation at most per event; a nested call that
itself drains is played by another thread; observers, attribute values and payloads are left out.

The exit behaviours that `stop` runs (316-321) may be named operations (`BeginOperation` at `Stopping`), may dispatch and
wait for the drain they cause (`ExitDispatches`), and their caller may drop its future; no drain is their own, so what they
hand in is processed by the machine that is being stopped.

Behaviours and operations use the context they are given. An activity's carries the mark that `running_activity` reads until
`execute_operation_by_name` returns (1934), also while the operation that ends drains: what an activity or a behaviour
in its drain *sets* is set aside and what it *calls* is queued (615, 844), for everybody else it is the other way round. `SetAside`
says which. An activity that ends is taken to be alone with its context (`mark_activity`); what two activities of one state
do to their marks is `Tasks`' subject.

### Properties

* `DrainExclusive`, `StateStable`: no two events at once; the clone an event is selected in is
  still the current state when its result is written back.
* `Conserved`: an accepted event is in exactly one of queue, drain, deferral list, set-aside
  list, flush or a thread's hand, and a settled one is nowhere.
* `OperationsCounted`: `ACTIVE_OPERATIONS` is the number of running operations.
* `NothingStranded`, `ReentrantKept`, `Settles`: after the calls have returned every event is settled or
  parked by an active state; no set-aside event is thrown away; the same as liveness. `CallsReturn`: every call ends.
* `RunToCompletion` is `Mailbox!Spec` under `Status`: offered, refused, waiting, running, handled or lost,
  one running at a time, and lost only where `Losable` allows it: with `start`, `stop`, `restart`, abandoned futures or
  failing exit points any event may be lost, otherwise only calls, an activity's changes, and
  events that a state inside a submachine deferred. What that leaves differs by run: in `shared` the change may not be lost,
  and no plain event but `work`, which `inner` defers; in `activity` the plain event, deferred by `busy`, may not be lost,
  calls and changes may; in `lifecycle` everything may, and the property says that an event is run at most once, one
  at a time, and not before it is given back.

### Runs

The machine has a submachine state `busy`, a child `inner`, `ready` and the final state `end`; `inner` defers
`work` and `busy` defers `set`; in `activity` and `lifecycle` it is `busy` that defers `work`.

| run | instance | result |
| --- | --- | --- |
| `sequential` | one thread, all entry points but abandonment, four events | `TypeOK`, `Conserved`, `NothingStranded`, `ReentrantKept`, `Settles` pass, 506 703 states |
| `shared` | two threads, dispatch, set, call and nested ones, three events | `DrainExclusive`, `OperationsCounted`, `StateStable`, `RunToCompletion`, `CallsReturn` pass, 167 001 states |
| `activity` | a caller and an activity, three events | `RunToCompletion` passes, 445 149 states |
| `lifecycle` | two symmetric threads, start, stop, call, a failing exit point, abandonment | `Conserved`, `RunToCompletion` pass, 859 203 states |
| `stop_race` | a dispatch and a stop | `StaysStopped` violated: the transition under way writes its state after stop |

The violation is a finding. What does not hold, and where the runs therefore do not check it:

* `NothingStranded` with two threads: an event pushed between another drain's last pop and the drop of its
  guard (906, 938) stays in the queue after `dispatch().await` has returned `Ok`, until somebody else drains.
  `RunToCompletion` promises such an event only that it may wait.
* `ReentrantKept` with two threads: a call set aside after the last flush is thrown away by
  `DrainGuard::drop` (181, 845-851). `Losable` lets calls be lost.
* Both with one thread whose drain a failing exit point ends, or that drops its future: the guard goes, with what was set
  aside, while the queue is not empty. `SingleCaller` says that there is one caller and neither happens; it is the
  hypothesis under which both are proved, and TLC evaluates it on the run with one thread.
* Two deferred events of one name: records and popped events are matched by name (918-922, 1154), so the wrong
  record may be kept back and one of the events lost. `DeferredApart` says that a model has no two such events; it is
  true of the instances, where TLC evaluates it, and a hypothesis of the proofs that follow an event through its deferrals.

Bounds. Each event instance is handed in once and there are three or four: every queue then holds up to that
many, which is enough for two to be deferred, one to be running and one to arrive. The races found need
two threads, and at each point of the protocol only "nobody" or "somebody else" holds the
drain, so a third thread repeats what the second can do; the proofs do not
bound the threads. `MaxQueued` = 1 keeps `start` from piling up initial events that no one
has drained. `CHECK_DEADLOCK FALSE` is set where all events may be used up and nothing is left
to do, which is how those runs end; where starting and stopping is possible deadlock is checked.

Fairness. `FairSpec` is weak fairness of `Proceeds(t)` for each thread: a thread inside one of the machine's
functions, holding no lock across an await, is scheduled again, and behaviours return. Nothing is assumed
of `Invokes(t)`, which is the environment. Liveness is checked without abandonment, since dropping a future
is how a caller takes fairness away.

## 3. Interpreter

### Model and code

`Hierarchy` has names as a tree: `Dirname`, `IsAncestorOrEqual`, `Lca` and `CalculatePath` are
`path.rs` and `calculate_path_static`, for names of single-byte characters. In `Interpreter`
an event's processing is a sequence of steps, one guard, behaviour or list of effects
each:

| pc | steps | code |
| --- | --- | --- |
| `idle` | `Dispatch`, `Complete`, `Start`, `Stop` | an event of the queue, the final event, the initial event, stop |
| `select` | `GuardTrue`, `GuardFalse`, `Outwards` | 954-1063: candidates of the state, its initial vertex, the defer list, then the parent |
| `exit` | `ExitState`, `Effect` | 1218-1382: `Execute` puts the path together, remembers history, then states are left, effects run, entry points rewrite the entry path |
| `enter` | `EnterState`, `EnterPseudostate`, `NothingToEnter` | 1384-1469, 1556-1649 |
| `pseudo` | `PseudoTrue`, `PseudoFalse`, `PseudoInternal`, `PseudoExhausted` | choices, entry and exit points, histories without a memory |
| `stop` | `StopExits`, `StopClears` | 301-335 |

Each of these has an `...Aborts` twin where a behaviour or a guard may panic or ask for an
abort: the transition is given up where it stands (`Ok(None)`). The recursion of
`execute_transition` and `enter_state` is always in tail position, so one frame
(`transition`, `exits`, `enters`, `target`, `result`) stands for the whole stack. `shallow` and
`deep` are restricted to the states with a history vertex, the only entries ever read.
`active`, `live`, `lastLeaf` and `refused` are history variables.
`ModelValid` says of the model what `validate_model` makes sure of; it is an assumption that
TLC evaluates on each instance. `TransitionTable` lists a vertex's own transitions by event name
(`build_transition_table`); the code has one list for a state and all states around it and picks from it at
each level those whose source is the level's state or its initial vertex, which is what `Candidates` puts together.
Three more definitions, `WaysOn`, `Completed` and `WaysBack`, are hypotheses of theorems and say what validation does not
(section 7). Left out are the second name a call event is looked up by (958-966: one more name between the two of `LookupNames`, tried in the
same way), observers and the contents of events. Deferred events are `Runtime`'s subject: here an event that is deferred is over, and comes back
as any event may come; the final event, which a state can defer with `AnyEvent` only, does not come back.

### Properties

* `Configuration`: between events the states entered and not left are the current state and
  those around it. `Nested` (`Nesting!Spec`) says it of every step on the way: a state is entered inside its
  active parent and beside no sibling, and left after its children. An exit path and an entry path
  come from different computations (table, current state, boundary, history) and must meet.
* `HistoryFaithful`: a state with a history that is not active remembers the leaf it was left in, or
  its child towards it.
* `ContextsOfActive`: activities run in exactly one context while their state is active.
* `InnermostFirst`: what fires is preceded by no state further in that could take or defer the
  event, and at its own level by no better name.
* `Terminates`: every event's processing ends.
* `TypeOK` includes that the machine never rests in a pseudostate.

### Runs

The machine has a composite `box` with children `b1` and `b2` (around `b21`, `b22`), a choice and both
histories, a submachine `drive` with `d1`, `d2`, a final state, an entry point `warm` and an exit point
`hatch`, and a state `idle`. Every state has a guarded transition to every vertex that validation lets
it target, so all pairs of source and target, inherited ones included, are taken from all leaves
and with all memories; `work` is handled or deferred at several levels and `AnyEvent` at two.

| run | instance | result |
| --- | --- | --- |
| `interpreter` | ten sources, sixteen targets, behaviours return | all properties pass, 9 571 states |
| `interpreter_aborts` | six sources, seven targets, anything may abort, the exit point may be unhandled | `HistoryFaithful`, `Terminates` pass, 54 668 states |
| `activity_leak` | three targets, entry behaviours may abort | `ActivitiesEnd` violated: a state entered before the abort keeps its activities |

Three things the instance leaves out. A transition to a history vertex does not remember what it leaves (1297): were
there a history within `b2` too, a transition from `b21` to the history of `box` would leave `b2` without
a memory of `b21`, and the history of `b2` would restore an older state. A transition out of a pseudostate remembers nothing, as `build_history_table` has no entry for
one: a machine can rest in a composite state (a transition from `b21` to `b2` leaves it there, 1399), and when the choice
were inside `b2` instead of `box`, a transition from `b2` to it and on to `idle` would leave `box` with the memory of `b21`. TLC finds
both when the vertex is moved. `WaysBack` excludes these and nothing else: a transition that remembers nothing where it may leave a
state with a history has a target from which entry ends inside that state (`Settles`), and `HistoryFaithful` is a theorem of
the machines for which it holds (section 7). And a transition to the
machine itself leaves every state and returns the root, which `is_inactive` takes for a machine that is not started (1399); `Transit`
of `Runtime` has it.

Bounds. Depth three gives an inherited transition two levels to climb and a path with two states on each
side; submachine and composite are siblings, so boundaries are crossed both ways. `AbortBound` = 2: a behaviour aborts
only while no state has two live contexts, so a leak can be left behind and met again. The names, guards and
history are finite; nothing else is bounded.

Fairness. `WF_vars(Step)`: guards and behaviours return and the drain loop goes on; which event comes is free.
`Terminates` depends on the model: validation accepts an initial transition to its own owner
and cycles of choices, which enter for ever; the instance has none (listed as a hazard).

## 4. Tasks

### Model and code

One machine that goes from state to state, and the tasks its states' entries spawn. A context lives at an
address (`Keys`), which is free again when the last clone is dropped; `ACTIVE_ACTIVITIES`,
`RUNNING_ACTIVITIES` and `CONTEXT_REGISTRIES` (`active`, `running`, `registered`) are keyed by it and outlive it.
Which states a transition leaves and enters is simplified to one of each, since `Interpreter` has that question. Three
things are left out, for which the component counts as partly modelled: `stop` (301-335), which leaves the states and clears
`state_contexts`; transitions that a behaviour gives up half way; and a panic in the synchronous part of a named operation
(1921-1924), which leaves the mark and poisons the lock of the instance. `Interpreter` has the first two.

| actions | code (`hsm_impl.rs`) |
| --- | --- |
| `EnterState`, `StartActivity`, `StartTimer`, `AllStarted` | 1420-1447, 1730-1760, 1939-1973: `enter_state`: a context, activities, then timers |
| `CancelContext`, `ReadMark`, `CancelActivities` | 1792-1808 and 124-172: `exit_state`; of the activities taken off the list, the one that is marked as running is not reported |
| `TimerWakes`, `TimerFires`, `TimerReturns` | 1762-1788: sleep, flag, dispatch, and once more for `every` |
| `ActivityBegins`, `OperationLooks`, `BeginActivity`, `ActivityReturns`, `EndActivity`, `ActivityUnregisters`, `ActivityPanics`, `ActivityFinishes`, `ActivityDone` | 1904-1996, 130-160: the task of an activity, a plain function or a named operation |
| `ActivityDispatches` | `dispatch_from_context` in an activity |
| `TakeEvent`, `Select`, `EndDrain`, `ReleaseDrain`, `Invoke` | the drain, whose queue is found empty (938) before it is given up (180), and users |

### Properties and run

* `NoGhosts`: an address whose context is gone has no activity listed or marked, and no registration but one a timer or
  a panic left behind, so that the next context there inherits nothing of the former's activities.
* `ReportedOnce`: done and cancelled are not both reported, though the end of an activity races the exit.
* `Cancellable`: a task that is not cancelled runs under the context the machine keeps for its state. An entry without
  an exit, the main way to break this, comes from a transition given up half way, which this model does not have: there
  `ActivitiesEnd` of section 3 tells, and is violated.
* `FindsMachine`: a running activity finds its machine, unless another activity of the same state has ended (or
  not begun): all share one registration and the first to end takes it back (1953).
* `TasksWindDown`: under a cancelled context each step brings a task nearer to its end.

`tasks` has a state with a plain activity and a named operation, one with an `every` timer, one without either,
two addresses, panics and aborts. Two addresses are one for the state being left and one for the state
being entered, and the first is taken again after that (2 393 534 states). `TasksAssumption` has a state start each
of its bodies once, which section 6 shows two elements of one name can spoil; `MaxQueued` = 1 keeps timers from filling the queue.
Addresses are symmetric. No fairness is assumed and no liveness stated: how long an activity runs is its own affair.

What the model shows and no property forbids: a time event still in the queue when its state is left and
entered again fires the new entry's transition early (time events are told apart by name); timers and panicking
activities leave their registration behind, where the next context at that address finds it.

## 5. Fleet

### Model and code

Machines, contexts and clients. `registry` is `CONTEXT_REGISTRIES`; a client has a stack of frames, one
for each call it is in, as behaviours make calls of their own. A frame is a fan-out or group call with the
machines it still has to serve, or a single call, which has one.

| actions | code |
| --- | --- |
| `Registered`, `Unregistered` | `register_context_machine`, `unregister_context_machine` (`context_runtime.rs` 68-98) |
| `Invoke`, `CallFromBehavior` with `FanOut`, `ToCurrent`, `GroupDispatch`, `GroupStart`, `GroupStop`, `GroupRestart` | `dispatch_all`, `dispatch_to`, `dispatch_from_context`, `group.rs`: which machines, in which order, and what is checked first |
| `PassOver`, `Dispatch` | a group leaves out members that are not started (`group.rs` 200), then `dispatch` looks again for itself (804) |
| `DispatchQueued`, `RegisterToDrain`, `JoinDrain`, `TakeEvent`, `Process`, `EndDrain`, `ReleaseDrain`, `FailDrain` | push, registration, and the drain, each lock a step: the queue is found empty (938) before the drain is given up (180) |
| `StartChecks`, `Activate`, `Enlist`, `Withdraw`, `RestartChecks`, `StopBegins`, `SwitchOff`, `StopUnregisters` | `start` (257-280), which sets the state, registers, queues and drains, and takes the registration back on an error; `restart`, `stop` |
| `Cancel` | `Context::cancel` |

`dispatch_to` compares its patterns with the id of a machine (`Id`, empty for many), the registry goes by `Name`, which is the name
of the model where the id is empty.

### Properties and runs

* `Findable`: a started machine that is in a state is registered under its own context, whatever was stopped,
  restarted or dispatched with other contexts.
* `ReachesAllStarted`: a fan-out that returned `Ok` has reached every machine that was in a state when it
  began, although others are stopped, restarted and draining meanwhile.
* `CallsEnd`: every call returns, though behaviours fan out to their own machine and across. A dispatch to a machine
  that is draining is queued and does not wait, which is why.

`fleet` has two machines with one context, one of them without an id, a second context, a client that makes two calls that start,
stop or restart, one that dispatches, and one nested fan-out by id (368 001 states). One machine can be served before the
other, and the nested call shows a machine that is reached from its own behaviour and a behaviour that meets another client's
drain: were either to wait, `CallsEnd` would be violated, and two calls that wait for each other are two such waits. With one
call of each client and two nested fan-outs to both machines (199 190 states) the property holds as well. Calls are bounded by `MaxCalls`; a fan-out cannot
be starved by others' dispatches for ever because these are finite, so `CallsEnd` says nothing of an endless
stream of dispatches to one machine, which does keep the client that drains it. Fairness: `WF_vars(Step(c))`, clients are scheduled
and behaviours return.

`Findable` and `ReachesAllStarted` rest on who starts and stops what (`OneController`): each machine is started, stopped and restarted
by one client and by no behaviour. `stop` clears the state, then unregisters (301-335); if somebody else starts
the machine in between, the late half of the stop takes back the new registration, and the machine is in a state
and not found. TLC finds this as soon as a second client of the instance starts machines. `NamesApart` excludes
machines that replace each other in the registry. Both are evaluated with the instance and are hypotheses of the proofs.

What the model shows and no property forbids: a `start` that fails (274-277) takes the registration back
though the machine may be in a state; a machine dispatched to through another context stays registered there after it is
stopped with its own; `current` is whichever machine of the context was registered last, by a drain as well
as by a start; a restart that races another client's drain leaves the machine off; machines without an
id are registered by model name, so that namesakes replace each other (the names of the instance differ); the context
given to `dispatch` has nothing to do with that of activities, so that cancelling it does not cancel them.
`get`, `set` and `call` from contexts and groups, and wildcard patterns, are left out.

## 6. Definition

### Model and code

A model is a record of members by name, as in `model.rs`; names are sequences. `Builder` has one operator per
`Partial` element of `builder.rs`, `Lifecycle` `rebase`, the embedding of a submachine and
the steps of `finalize_model`, `Validation` one operator per rule of `validate_model`. `Definition` applies
elements one after the other to the innermost open one, then finalizes, redefines or embeds. Only what names,
lists and kinds depend on is kept: functions are model values, expressions of timers and attributes have no value.

| actions | code |
| --- | --- |
| `DeclareVertex`, `DeclareTransition`, `DeclareMember`, `Close` | `PartialElement::apply` of each element |
| `Finalize` | `finalize_model`, preceded by the validator and followed by the finalizer that were chosen |
| `RedefineAs` | `redefine_as`: `rebase`, then more elements |
| `SubmachineState` | `PartialSubmachineState`, with `rewrite_submachine_references` |

### Properties and runs

* `ReferencesResolve`: what a finalized model lists is a member of the right kind.
* `ListedBySource`: each transition is listed once, by its source.
* `RedefineChangesNothing`: finalizing once more, under a new name, gives the same model.
* `ObservedOnce`: each behaviour and transition is preceded by one call of every different observation of it.
* `LastHookWins`: of several validators and finalizers the last one declared runs.
* `OperationsSurvive`, `EmbeddingKeepsValid`: what refers to an operation or attribute does so after renaming and
  embedding; a valid machine may be embedded.
* `RunsEachOnce`: a state lists no behaviour twice. `twice` shows that it does with two `entry!` elements: the
  second overwrites the first and runs twice (`builder.rs` 730-751, a finding).

`definition` starts from four small machines (an observed operation; call, set and timer triggers with an operation for a guard; choice,
history and connection points; one still open), applies any two elements before or after one redefinition or
embedding into two surroundings, and finalizes (122 266 states). Names, lists and rewriting concern pairs
of elements, hence two. Definitions end, so deadlock is not checked; there is no liveness. `MaxNumber` = 30 bounds the
numbers in names, more than the instance uses. The code sorts names as strings, and `InOrder` puts numbers of up to two digits in that order
(`transition_10` before `transition_2`); a hook's number the code parses and compares as such (`model_lifecycle.rs` 129-166).

What the model shows or leaves out: `resolve_model_reference` looks in the direct owner and the root only;
the validator refuses operations of inner states; what behaviours and guards call is rewritten where it names an operation, triggers and observations also where they name an attribute; embedding rewrites triggers but not the deferral lists of states; an embedded
observation of everything observes the whole machine around it; an observation of full names is not
rebased, so a renaming can make it match; embedded hooks compete with those of the machine around them;
transitions declared at the root with a source that comes later are listed last; an `initial` that is
declared again leaves the guard or effect of the former without an owner, which the validator refuses; an entry or
exit behaviour of the root is listed nowhere; an attribute or operation with the name of a state overwrites the state
(the names of the instance are disjoint). Transitions with a name of the user's (`builder.rs` 402-406) are left out, as every constructor of the library
leaves the name empty (`builder.rs` 1486, `dsl.rs` 235, `macro_builders.rs` 75, `macros.rs` 60). Where the code takes the first exit point in the order of
strings, `ResolveExitPointSource` takes any: names are not ordered in the model.

## 7. Proofs

All theorems are for arbitrary constants that satisfy the named assumptions, hence any number of
threads, events and states.

* `RuntimeProofs!TypeCorrect`: `Spec => []TypeOK`. `TypeOK` is not inductive: `PushHeld` queues
  `held[t]`, and that it is an event and not `None` depends on where `t` is. The invariant is
  `TypeInv`, `TypeOK` and, for each thread, `Loaded`: at the labels where a thread has an event in hand,
  `held` or `popped` is one. The proof goes action by action and uses lemmas on what the queue operators
  return. `FilterType` is proved by choosing a least counterexample
  (`SetInduction`, `LeastElement`), since induction theorems with an operator argument cannot be used.
* `RuntimeProofs!DrainsExclude`: `Spec => []DrainExclusive`, for threads that dispatch, set, call,
  start, stop and drop futures. All but a few actions leave alone who is inside the drain
  (`SameHolders`, lemma `OtherSteps`); the rest are `BeginDrain`, which needs the key to be free, and
  `ReleaseDrain`, through which failure and abandonment go too.
* `RuntimeProofs!StateStays`: where the API has neither start, stop nor restart, `Spec => []StateStable`.
  `StableInv` adds to `DrainExclusive` that no thread is at a label of the lifecycle; only `Transit` then
  writes the state, and it is inside the drain. The `stop_race` run shows that the restriction is needed.
* `ConservationProofs!OperationsAreCounted`: for finitely many threads, none of which drops its future, `Spec =>
  []OperationsCounted`. `OperationsInv` adds that an activity that dispatches stays in the drain and returns to its operation;
  the four actions that begin or end an operation move the count by one (`OneOperation`), the others leave both sides
  alone (`NoOperation`). Dropped futures do break it: `AbandonOperation` leaves `begin_operation` without its end.
* `ConservationProofs!NothingStrandedAlone` and `ReentrantKeptAlone`: under `SingleCaller` (the first with `DeferredApart`)
  `Spec => []NothingStranded` and `Spec => []ReentrantKept`, for any model, events and entry points, restarts included. The
  invariant `Aloof` says where something may be set aside (`FlushAhead`: a flush is still to come), that the deferrals of a
  drain are of active states except between a transition and their return to the queue (`Collected`), and that outside a
  drain everything in the queue is `Parked`. It uses `DrainExclusive` (whoever is alone always gets the
  drain), `OperationsCounted` (its operation is the last to end, hence flushes) and `ConservedInv` (an open event that is in
  no one's hands is in the queue).
* `ConservationProofs!EventsConserved`: where deferred events are told apart by their names, `Spec => []Conserved`, with
  any entry points, abandonment included. `Conserved` counts places; the invariant `ConservedInv` says where an event is:
  - `Kept`: exactly one keeper (`Keepers`) has it, once, and it has one if and only if it is not settled;
  - `Hands`: a thread has nothing left in `held`, `popped` or `carry` at the labels where it takes something up, which
    would otherwise be overwritten and lost;
  - `DeferralsInv`: records name what their owners defer, from which with `DeferredApart` the record that
    `take_deferred_event` finds by name is the one of the event popped (`RecordsApart`).
  Most actions pass one event on, and one lemma for each way of doing so (`TakesUp`, `GivesUp`, `SetsAside`,
  `Queues`, `Finishes`, `DefersIt`, `Discards`) serves several; clearing, wiping, flushing and
  requeueing handle many events and have lemmas of their own. `KeptCounts` gets from `Kept` to the count.
* `ConservationProofs!RunsToCompletion`: the runtime implements `Mailbox` under `Status`. `PromiseInv` adds `ReasonsInv`
  to `ConservedInv` (only calls and an activity's changes are set aside; an event is deferred because a state defers it), which is
  what `Losable` needs, and `StableInv` where nobody starts or stops the machine, so that what is dropped on leaving
  a state had been deferred inside a submachine. `StepImplements` has one case per action.
* `FleetProofs`: `FleetTyped`, and with `NamesApart` and `OneController` both `MachinesFound` (`Findable`) and `FanOutsReach`
  (`ReachesAllStarted`). The invariant `FleetInv` is `Recorded` (a machine counted as started is registered, in a
  state or not), `Withdrawn` (whoever is about to unregister one has counted it as stopped before, and since only its
  controller starts it, it stays so) and `Sound` for every frame on a client's stack, also those below the top:
  what it is due to reach is reached or still to be served, or it no longer ends in `Ok`.
* `InterpreterProofs`, for every hierarchy and all transitions that `ModelValid` admits:
  - `InnermostTakes`: `Spec => InnermostFirst`, with no hypothesis. `SInv` says of an event under way that the first so many
    candidates of `selecting` were refused and `rest` is what follows (`Tried`), and of the states further in that each
    refused the event and does not defer it. `OwnFacts` gets from the filtered table back to the transitions.
  - `InterpreterTyped`: `[]TypeOK`, hence the machine rests in no pseudostate, under `WaysOn`. Validation accepts models
    in which it does: an initial vertex may be a transition's target, and all transitions of a history may be guarded in a
    state without an initial transition (with an initial vertex that has none, too: 911 only refuses a second). `WaysOn` excludes these, and transitions of states for the initial event.
  - `ActiveAreAround` (`Configuration`), `OneContextEach` (`ContextsOfActive`), `ImplementsNesting` (`Nested`), under `WaysOn` and
    `Completed`: no behaviour aborts and no exit point is without an unguarded way out. Otherwise a transition is given up half
    way and the active states are not those around the current state, which the `activity_leak` run shows.
  - `ActiveChain`: what `Nesting` allows keeps active states closed under parents and without siblings (`NestedChain`), hence
    the interpreter does at every step.
  - `HistoriesFaithful` (`HistoryFaithful`), under `WaysOn` and `WaysBack`, whether or not behaviours abort. The memory is written when
    a state's transition is taken, for all that surrounds the current state, and what is left becomes known only on arrival, choices,
    entry points, initial transitions and histories later. `MemoryInv` bridges the two: a state around the current one has it as its
    last leaf; any other is `Faithful`; and while a transition is under way each state around the current one is `Faithful` too, or the
    transition is `Heading` inside it. `InitialQuiet` (an initial transition leaves nothing, so it rewrites no memory), `Unremembered`
    (which transitions write none) and `SettlesOnward` (entry goes on inside) carry it from step to step; that the first to fire is a
    transition of `selecting`, a state around the current one, it takes from `SInv`.

  None of these invariants is inductive. `IInv` adds `Where`, which gives for every `pc` a position `pos` in the tree such that the
  active states are those around it (`At`), and says that what is left of the path leads up from it (`Climbing`) or down
  from it (`Descending`) to the result; `Legal`, that a transition under consideration applies where the machine is;
  `LeadsOn`, that a pseudostate still has a way on; `Remembers`, that a memory lies strictly inside its state; and `Counted`. TLC checked
  `IInv` and `MemoryInv` on both instances. Under it are lemmas on the tree (`CommonAncestor`, `Linear`), on the recursive functions of
  `Hierarchy` (`LcaIs`: `Lca` is where two names' ancestors meet; `BelowType`, `BelowJoins`, `DownHead`, `DownJoins`: a path is a
  chain of parents, and paths compose) and on `PathFrom` and `ThroughBoundary` (`PathTaken`: whatever table, current state and
  boundary contribute, the path goes up to one ancestor and down to the target). Their inductions go over the ancestors of
  a name, a finite set (`TreeInduction`, by the least depth at which it would fail). Each action has a lemma `...Keeps`.
  `MCInterpreter` assumes `WaysOn`, `WaysBack` and, where nothing aborts, `Completed`, so TLC evaluates all hypotheses on every run.

* `TasksProofs` proves everything section 4 states, for any number of states, activities, timers and addresses. None of
  it is inductive; `TasksInv` is the conjunction of
  - `Held`: at most one state has a context, and which one follows from where the machine is in a transition (`Holder`);
    `Fresh`: nothing that is still to be started has a task; `Labelled`: timers and activities keep to their labels;
  - `Listed`, `Marked`, `Registered`: what each table has of an address is owed to a context in use or to a task that
    will take it back. `TablesClean` (`NoGhosts`) follows, as a free address has neither;
  - `Owned`, `Open`, `OneOwner`: a task not cancelled belongs to the state whose context it has, such a context is not
    cancelled, and the tasks under one address are of one state. `TasksCancellable` (`Cancellable`) follows, and with
    `MachineStarts` that nothing starts under a cancelled context, of which `TasksEnd` (`TasksWindDown`) needs
    to be sure;
  - `Unreported`: an activity is listed, or about to be reported, or reported, never two of them, and no list has
    repetitions: `TasksReportedOnce` (`ReportedOnce`);
  - `Shared`: an activity that has lost the registration lost it to one that has ended and is not still to be
    started: `TasksFindMachine` (`FindsMachine`).
  Steps of tasks are summed up by what they do to the tables (`TaskMoves`, `TasksAndTables`, `TasksAndReports`,
  `TasksAndRegistration`), steps of the machine by `MachineKeepsTasks` and `MachineStarts`. `RemoveFirstRange` says
  what `finish_activity` leaves of a list.

* `DefinitionProofs`: `TypeCorrect` (`TypeOK`) and `NamesResolve` (`ReferencesResolve`), for any machines a definition starts
  from or is embedded in, any user names, paths, events and functions, and any number of elements and redefinitions. Neither
  is inductive, least of all during a definition: an element may write over another, and an embedding writes over whatever the
  machine around it has inside the boundary. `WellFormed` says what every model under construction keeps:
  - `IsElement`, `Suits`: an element has the fields of its variant, and a value that suits each: lists of behaviours have
    behaviours that are members right below their owner, lists of transitions have transitions, an initial is an initial, a guard
    a constraint;
  - `NamedAs`: the last segment of a name tells the sort of the element. This is what makes writing over harmless: a name that is
    given again is given to an element of the same sort, so whatever referred to it still refers to one (`PutFits`);
  - the stack of open elements is a path from the machine, and everything is below the machine.

  The hypothesis `WellNamed` is `Naming`, that the names the builders make up (`.initial`, `transition_3`, `entry_1`, `guard`, `observe_1_event_go`, ...)
  are told from each other and from those of the user, and that the machines given are well-formed. It is needed: the
  library does not refuse a state called `guard`, and an attribute called `entry` would take the place of a behaviour that its
  state still lists. `MCDefinition` assumes it with the numbers up to `MaxNumber`, and TLC evaluates it. TLC also checked
  `WellFormed` as an invariant of the instance before the proof. The operators have a lemma each
  (`...Fits`): an element that is put, edited, extended or removed (`PutFits`, `ExtendFits`, `ChangedFits`, `RemovedFits`), a model renamed (`RebaseFits`,
  from `Moved` being injective below the old root), embedded (`SubmachineFits`) and finalized step by step (`ResolveFits`, `CompletionFits`,
  `SourcesFit`, `KindsFit`, `ApplyFits`). The behaviours that observations add are named after what they
  observe, so they collide with nothing and are what the lists say (`AddedName`, `ObservedElementFits`).

* `NumberingProofs!LastHooksRun`: `Spec => []LastHookWins`, for the same definitions as `DefinitionProofs`. The code counts the hooks
  of a kind to name the next one and counts them again to find the last, so the theorem rests on the numbers having no gap
  (`HooksNumbered`, part of `HookInv`), which no other element disturbs: what a hook is named tells it from everything else
  (`UnlikeHooks`), renaming moves the machine's own hooks with it (`RebasedHooks`), embedding leaves those of the inner machine below
  the boundary (`EmbeddedHooks`), and finalizing neither adds nor removes one (`FinalizedHooks`). `HooksFewEnough` says that the
  machines a definition starts from have such hooks and that these and the elements still to come fit in `MaxNumber`, the bound on the
  numbers the model's selection reads; `MCDefinition` assumes it of its machines, and TLC checked `HookInv` before the proof.

* `NumberingProofs!SourcesList`: `Spec => []ListedBySource`. What is declared twice takes the place of what was there, a transition may
  change its source while it is open, and embedding lays one machine over another; yet no list has a transition twice or one of another
  source. The invariant `ListInv` is
  - `Listing`: a list has no repetitions and only transitions whose source is the vertex that has it; those of pseudostates are right
    below them; a numbered transition has a number below the count of structural members, so the next number is free. Operations are
    named apart from vertices, otherwise one could take the place of a member that is counted and the count would fall;
  - `OpenApart`: nothing is opened inside a transition, and no list has one that is open, so that its source may change;
  - `Complete` of a finalized model: every transition is in the list of its source.

  Most elements keep all of this because they keep the states, pseudostates and transitions with their lists and sources (`SameStructure`;
  `...KeepStructure`). The others have lemmas of their own: new vertices (`VertexListed`, `OpenPointListed`), transitions (`TransitionListed`), other sources
  (`SourceListed`) and what closing lists (`PointClosed`, `TransitionClosed`). Finalizing lists the rest (`SourcesRegistered`); renaming maps
  lists and sources alike (`RebasedListed`); embedding keeps both machines' structure side by side, below the boundary and outside it
  (`EmbeddedStructure`), and the count covers either. `WellListed` asks for `Listing` and `OpenApart` of the machines a definition starts
  from or is embedded in, for names of operations that are no names of vertices (the library does not refuse them, and an operation declared
  after a state of its name replaces the state), and that the machine around has nothing inside the state `Submachine` before. A new, empty machine satisfies it;
  `MCDefinition` assumes it of its machines, and TLC checked `ListInv` as an invariant of the instance before the proof.

Only model-checked:
* liveness (`CallsReturn`, `Settles`, `Terminates`, `CallsEnd`), which needs fairness and `ENABLED`;
* of `Definition`, what counts or compares whole models: `ObservedOnce`, `RedefineChangesNothing`, `EmbeddingKeepsValid`,
  `OperationsSurvive`. The first counts the behaviours that observations add; the others need the whole of `finalize_model`, of the rewriting
  of references or of the validator once more on a model that has been through it.

## 8. Not modelled, and the plan

| part | why |
| --- | --- |
| kinds (`kind.rs`) | 64-bit packings of constants, computed once; the models use the kinds themselves. The counter of dynamic kinds is 8 bits wide and could be exhausted; nothing in the library makes one |
| macros, `api.rs` | they expand to the DSL functions and method calls |
| configuration, snapshots, errors | plain data |
| conformance driver, benchmark | drive the library |
| a user's `RuntimeQueue` | its operations may fail, in ways the user decides; a failing pop gives error events |
| the abort flag's thread (`behavior_context.rs` 45), the instance lock (1921) | the models have tasks and no worker threads, and no instance |
| strings: normalisation of paths, wildcard patterns, names with multi-byte characters | names are sequences of model values |

Next in order: `OperationsSurvive` and `ObservedOnce` as theorems. Then a `RuntimeQueue` that fails, and worker threads with the abort flag
and the instance lock.
