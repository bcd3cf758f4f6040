-------------------------------- MODULE Tasks --------------------------------
(***************************************************************************)
(* The tasks a machine spawns when it enters a state: activities and the   *)
(* timers of its after, at and every transitions.  They run under a        *)
(* context of their own, made for this entry, which leaving the state      *)
(* cancels.  Three process-wide tables are keyed by the context's address: *)
(* ACTIVE_ACTIVITIES, RUNNING_ACTIVITIES and CONTEXT_REGISTRIES.  An       *)
(* address is free again when the last clone of its context is dropped,    *)
(* and the tables outlive it.                                              *)
(*                                                                         *)
(* A step is what happens between two points where another task may run:   *)
(* one lock, one atomic flag, one await.  The machine's own steps are      *)
(* those of the drain that is under way (one at a time, see Runtime).  A   *)
(* transition leaves one state and enters one; which states transitions    *)
(* leave and enter is the subject of Interpreter.                          *)
(***************************************************************************)
EXTENDS Naturals, Sequences, FiniteSets, SequencesExt

CONSTANTS
  States,
  Activities,   \* behaviours run as activities, by the id they report with
  Operations,   \* those that are named operations; the others are functions
  Timers,       \* transitions with a timer, by the name of their time event
  Repeating,    \* those of kind every
  Owner,        \* the state an activity or a timer belongs to
  Starts,       \* per state its activities, then its timers, as they are started
  Target,       \* the state a timer's transition goes to, its own for a self-transition
  Wishes,       \* the states that users and activities dispatch events to go to
  Keys,         \* addresses a context can have
  Caller,       \* whoever uses the machine
  Faults,       \* what may go wrong in a body: "panic", "abort"
  MaxQueued,    \* a bound: users, activities and every timers wait while so many are queued
  Off, None

Bodies == Activities \cup Timers

TaskIds == Bodies \X Keys

TimerLabels == {"asleep", "fires", "sent"}
ActivityLabels == {"spawned", "looks", "marks", "runs", "runs marked", "unregisters",
                   "gives up", "finishes", "checks"}
Running == {"runs", "runs marked"}
Ended == {None, "finishes", "checks"}
MachineLabels == {"idle", "release", "select", "cancel", "read mark", "collect", "enter", "start"}

\* A time event carries who dispatched it; any other event takes the machine to a state.
Events == [timer : Timers, key : Keys] \cup [to : States]

\* Starts has the state's own bodies, each once.  (Definition!RunsEachOnce is about models that
\* list one twice.)
ASSUME TasksAssumption ==
  /\ Operations \subseteq Activities /\ Repeating \subseteq Timers
  /\ Activities \cap Timers = {}
  /\ Owner \in [Bodies -> States]
  /\ Starts \in [States -> Seq(Bodies)]
  /\ \A s \in States : /\ Range(Starts[s]) = {b \in Bodies : Owner[b] = s}
                        /\ IsInjective(Starts[s])
  /\ Target \in [Timers -> States] /\ Wishes \subseteq States
  /\ Faults \subseteq {"panic", "abort"}
  /\ Off \notin States
  /\ None \notin Keys \cup States \cup TaskIds \cup Events
  /\ None \notin TimerLabels \cup ActivityLabels
  /\ Caller \notin Keys \cup TaskIds
  /\ MaxQueued \in Nat

VARIABLES
  cancelled,      \* Context::cancelled, per address
  stateContexts,  \* HSM::state_contexts
  active,         \* ACTIVE_ACTIVITIES: what is listed under an address
  running,        \* RUNNING_ACTIVITIES: the activity marked under an address
  registered,     \* CONTEXT_REGISTRIES: the addresses the machine is found under
  pc,             \* per task where it is, None where there is none
  queue,          \* time events, and events Go(s) that take the machine to s
  drainer,        \* the task whose dispatch drains the queue, or None
  current,        \* HSM::current_state
  machine,        \* where the drain is in a transition, with its locals
  \* history
  reports,        \* per activity's task, how often its end was reported
  unowned         \* addresses where a registration was left behind by a timer or a panic

vars == <<cancelled, stateContexts, active, running, registered, pc, queue, drainer,
          current, machine, reports, unowned>>

Live == {k \in Keys : \/ \E s \in States : stateContexts[s] = k
                      \/ \E b \in Bodies : pc[<<b, k>>] # None
                      \/ machine.key = k}

Free == Keys \ Live

Init ==
  /\ cancelled = [k \in Keys |-> FALSE]
  /\ stateContexts = [s \in States |-> None]
  /\ active = [k \in Keys |-> <<>>]
  /\ running = [k \in Keys |-> None]
  /\ registered = {}
  /\ pc = [i \in TaskIds |-> None]
  /\ queue = <<>>
  /\ drainer = None
  /\ current = Off
  /\ machine = [at |-> "idle", event |-> None, key |-> None, mark |-> None,
                todo |-> <<>>, goal |-> Off]
  /\ reports = [i \in Activities \X Keys |-> 0]
  /\ unowned = {}

-----------------------------------------------------------------------------
(***************************************************************************)
(* The tables                                                              *)
(***************************************************************************)

Goto(i, label) == pc' = [pc EXCEPT ![i] = label]

RegisterActivity(a, k) == active' = [active EXCEPT ![k] = Append(@, a)]

\* Mutant of FinishActivity: it looks and takes nothing off.
FinishLooksOnly(a, k) == active' = active

\* finish_activity, whose result is whether the activity was still listed.
FinishActivity(a, k) == active' = [active EXCEPT ![k] = RemoveFirst(@, a)]

\* Mutant of RegisterMachine: the machine is not found under the context.
RegisterNothing(k) == registered' = registered

RegisterMachine(k) == registered' = registered \cup {k}

UnregisterMachine(k) ==
  /\ registered' = registered \ {k}
  /\ unowned' = unowned \ {k}

Reported(told, k) == reports' = [i \in DOMAIN reports |->
  IF i[1] \in told /\ i[2] = k THEN reports[i] + 1 ELSE reports[i]]

Room == Len(queue) < MaxQueued

\* dispatch of event e by task i: it drains unless somebody else does.
Dispatch(i, e) ==
  /\ queue' = Append(queue, e)
  /\ drainer' = IF drainer = None THEN i ELSE drainer

-----------------------------------------------------------------------------
(***************************************************************************)
(* A timer's task                                                          *)
(***************************************************************************)

\* The sleep ends, and the flag is read once more.
TimerWakes(i) ==
  /\ pc[i] = "asleep"
  /\ i[1] \in Repeating => Room \/ cancelled[i[2]]
  /\ Goto(i, IF cancelled[i[2]] THEN None ELSE "fires")
  /\ UNCHANGED <<cancelled, stateContexts, active, running, registered, queue, drainer,
                 current, machine, reports, unowned>>

\* Mutant of TimerEvent: the event does not say who dispatched it.
TimerEventUnnamed(i) == [timer |-> i[1], key |-> Caller]

TimerEvent(i) == [timer |-> i[1], key |-> i[2]]

TimerFires(i) ==
  /\ pc[i] = "fires"
  /\ Dispatch(i, TimerEvent(i))
  /\ Goto(i, "sent")
  /\ UNCHANGED <<cancelled, stateContexts, active, running, registered, current, machine,
                 reports, unowned>>

\* Mutant of Again: the flag is not read after dispatch.
AgainRegardless(i) == i[1] \in Repeating

Again(i) == i[1] \in Repeating /\ ~cancelled[i[2]]

\* dispatch returns: at once, or after the drain that this task runs itself.  An every
\* timer looks at the flag, works out its delay anew, which may abort, and sleeps again.
TimerReturns(i) ==
  /\ pc[i] = "sent" /\ drainer # i
  /\ \/ Goto(i, IF Again(i) THEN "asleep" ELSE None)
     \/ "abort" \in Faults /\ Goto(i, None)
  /\ UNCHANGED <<cancelled, stateContexts, active, running, registered, queue, drainer,
                 current, machine, reports, unowned>>

-----------------------------------------------------------------------------
(***************************************************************************)
(* An activity's task                                                      *)
(***************************************************************************)

ActivityBegins(i) ==
  /\ pc[i] = "spawned"
  /\ RegisterMachine(i[2])
  /\ Goto(i, IF i[1] \in Operations THEN "looks" ELSE "runs")
  /\ UNCHANGED <<cancelled, stateContexts, active, running, queue, drainer, current, machine,
                 reports, unowned>>

\* execute_operation_by_name: is_active_activity, then begin_activity.
OperationLooks(i) ==
  /\ pc[i] = "looks"
  /\ Goto(i, IF i[1] \in Range(active[i[2]]) THEN "marks" ELSE "runs")
  /\ UNCHANGED <<cancelled, stateContexts, active, running, registered, queue, drainer,
                 current, machine, reports, unowned>>

BeginActivity(i) ==
  /\ pc[i] = "marks"
  /\ running' = [running EXCEPT ![i[2]] = i[1]]
  /\ Goto(i, "runs marked")
  /\ UNCHANGED <<cancelled, stateContexts, active, registered, queue, drainer, current,
                 machine, reports, unowned>>

\* dispatch_from_context, which needs the registration.
ActivityDispatches(i) ==
  /\ pc[i] \in Running /\ drainer # i
  /\ i[2] \in registered /\ Room
  /\ \E s \in Wishes : Dispatch(i, [to |-> s])
  /\ UNCHANGED <<cancelled, stateContexts, active, running, registered, pc, current, machine,
                 reports, unowned>>

\* What a body that has returned does next.  An operation that panicked or asked for an
\* abort has not completed: it is not taken off the list.
Completed(i, completed) == Goto(i, IF completed THEN "finishes" ELSE None)

MayFail(i) == IF i[1] \in Operations /\ Faults # {} THEN BOOLEAN ELSE {TRUE}

\* The body returns and, unless it is marked, the registration is taken back.
ActivityReturns(i) ==
  /\ pc[i] = "runs" /\ drainer # i
  /\ \E completed \in MayFail(i) : Completed(i, completed)
  /\ UnregisterMachine(i[2])
  /\ UNCHANGED <<cancelled, stateContexts, active, running, queue, drainer, current, machine,
                 reports>>

\* Mutant of Unmark: an operation that fails keeps its mark.
UnmarkCompleted(k, completed) ==
  running' = [running EXCEPT ![k] = IF completed THEN None ELSE @]

Unmark(k, completed) == running' = [running EXCEPT ![k] = None]

\* A marked operation removes the mark first: end_activity.
EndActivity(i) ==
  /\ pc[i] = "runs marked" /\ drainer # i
  /\ \E completed \in MayFail(i) :
       /\ Unmark(i[2], completed)
       /\ Goto(i, IF completed THEN "unregisters" ELSE "gives up")
  /\ UNCHANGED <<cancelled, stateContexts, active, registered, queue, drainer, current,
                 machine, reports, unowned>>

ActivityUnregisters(i) ==
  /\ pc[i] \in {"unregisters", "gives up"}
  /\ UnregisterMachine(i[2])
  /\ Completed(i, pc[i] = "unregisters")
  /\ UNCHANGED <<cancelled, stateContexts, active, running, queue, drainer, current, machine,
                 reports>>

\* A panic in an activity that is a function ends its task on the spot.
ActivityPanics(i) ==
  /\ "panic" \in Faults
  /\ pc[i] = "runs" /\ drainer # i /\ i[1] \notin Operations
  /\ Goto(i, None)
  /\ unowned' = unowned \cup ({i[2]} \cap registered)
  /\ UNCHANGED <<cancelled, stateContexts, active, running, registered, queue, drainer,
                 current, machine, reports>>

ActivityFinishes(i) ==
  /\ pc[i] = "finishes"
  /\ FinishActivity(i[1], i[2])
  /\ Goto(i, IF i[1] \in Range(active[i[2]]) THEN "checks" ELSE None)
  /\ UNCHANGED <<cancelled, stateContexts, running, registered, queue, drainer, current,
                 machine, reports, unowned>>

\* is_cancelled, and activity_done.
ActivityDone(i) ==
  /\ pc[i] = "checks"
  /\ Reported(IF cancelled[i[2]] THEN {} ELSE {i[1]}, i[2])
  /\ Goto(i, None)
  /\ UNCHANGED <<cancelled, stateContexts, active, running, registered, queue, drainer,
                 current, machine, unowned>>

-----------------------------------------------------------------------------
(***************************************************************************)
(* The machine                                                             *)
(***************************************************************************)

Self == <<active, running, registered, pc, reports, unowned>>

\* A state without tasks has no context.
Plain(s) == s = Off \/ Starts[s] = <<>>

TakeEvent ==
  /\ machine.at = "idle" /\ drainer # None
  /\ queue # <<>>
  /\ machine' = [machine EXCEPT !.at = "select", !.event = Head(queue)]
  /\ queue' = Tail(queue)
  /\ UNCHANGED <<cancelled, stateContexts, drainer, current, Self>>

\* The queue is found empty ...
EndDrain ==
  /\ machine.at = "idle" /\ drainer # None
  /\ queue = <<>>
  /\ machine' = [machine EXCEPT !.at = "release"]
  /\ UNCHANGED <<cancelled, stateContexts, queue, drainer, current, Self>>

\* ... and the drain is given up: what was queued in between waits for the next one.
ReleaseDrain ==
  /\ machine.at = "release"
  /\ drainer' = None
  /\ machine' = [machine EXCEPT !.at = "idle"]
  /\ UNCHANGED <<cancelled, stateContexts, queue, current, Self>>

IsTimeEvent(e) == e \in [timer : Timers, key : Keys]

\* Mutant of Leaves: a self-transition does not leave its state.
LeavesOnlyForAnother(goal) == ~Plain(current) /\ goal # current

Leaves(goal) == ~Plain(current)

\* Time events are told apart by name: whoever dispatched it, the state's transition fires.
Select ==
  /\ machine.at = "select"
  /\ LET e == machine.event
         goal == IF IsTimeEvent(e) THEN Target[e.timer] ELSE e.to
         fires == IsTimeEvent(e) => Owner[e.timer] = current
     IN machine' = IF fires
                   THEN [machine EXCEPT !.at = IF Leaves(goal) THEN "cancel" ELSE "enter",
                                        !.goal = goal]
                   ELSE [machine EXCEPT !.at = "idle", !.event = None]
  /\ UNCHANGED <<cancelled, stateContexts, queue, drainer, current, Self>>

\* exit_state: the context leaves the table and is cancelled ...
CancelContext ==
  /\ machine.at = "cancel"
  /\ LET k == stateContexts[current]
     IN /\ cancelled' = [cancelled EXCEPT ![k] = TRUE]
        /\ machine' = [machine EXCEPT !.at = "read mark", !.key = k]
  /\ stateContexts' = [stateContexts EXCEPT ![current] = None]
  /\ UNCHANGED <<queue, drainer, current, Self>>

\* ... the mark is read ...
ReadMark ==
  /\ machine.at = "read mark"
  /\ machine' = [machine EXCEPT !.at = "collect", !.mark = running[machine.key]]
  /\ UNCHANGED <<cancelled, stateContexts, queue, drainer, current, Self>>

\* ... and cancel_activities takes the whole list, of which each activity but the marked
\* one is reported as cancelled.
CancelActivities ==
  /\ machine.at = "collect"
  /\ active' = [active EXCEPT ![machine.key] = <<>>]
  /\ Reported(Range(active[machine.key]) \ {machine.mark}, machine.key)
  /\ machine' = [machine EXCEPT !.at = "enter", !.key = None, !.mark = None]
  /\ UNCHANGED <<cancelled, stateContexts, running, registered, pc, queue, drainer,
                 current, unowned>>

\* The state is written when the whole transition has been carried out.
Arrive ==
  /\ current' = machine.goal
  /\ machine' = [machine EXCEPT !.at = "idle", !.event = None, !.key = None, !.goal = Off]

\* enter_state of a state without tasks.
EnterPlain ==
  /\ machine.at = "enter" /\ Plain(machine.goal)
  /\ Arrive
  /\ UNCHANGED <<cancelled, stateContexts, queue, drainer, Self>>

\* Context::new at any free address.
EnterState ==
  /\ machine.at = "enter" /\ ~Plain(machine.goal)
  /\ \E k \in Free :
       /\ cancelled' = [cancelled EXCEPT ![k] = FALSE]
       /\ stateContexts' = [stateContexts EXCEPT ![machine.goal] = k]
       /\ machine' = [machine EXCEPT !.at = "start", !.todo = Starts[machine.goal], !.key = k]
       /\ reports' = [i \in DOMAIN reports |-> IF i[2] = k THEN 0 ELSE reports[i]]
  /\ UNCHANGED <<active, running, registered, pc, queue, drainer, current, unowned>>

StartActivity ==
  /\ machine.at = "start" /\ machine.todo # <<>>
  /\ Head(machine.todo) \in Activities
  /\ LET a == Head(machine.todo)
     IN /\ RegisterActivity(a, machine.key)
        /\ pc' = [pc EXCEPT ![<<a, machine.key>>] = "spawned"]
  /\ machine' = [machine EXCEPT !.todo = Tail(@)]
  /\ UNCHANGED <<cancelled, stateContexts, running, registered, queue, drainer, current,
                 reports, unowned>>

\* A delay whose function asks for an abort starts no task; the registration stays.
StartTimer ==
  /\ machine.at = "start" /\ machine.todo # <<>>
  /\ Head(machine.todo) \in Timers
  /\ RegisterMachine(machine.key)
  /\ unowned' = unowned \cup {machine.key}
  /\ \/ pc' = [pc EXCEPT ![<<Head(machine.todo), machine.key>>] = "asleep"]
     \/ "abort" \in Faults /\ UNCHANGED pc
  /\ machine' = [machine EXCEPT !.todo = Tail(@)]
  /\ UNCHANGED <<cancelled, stateContexts, active, running, queue, drainer, current,
                 reports>>

AllStarted ==
  /\ machine.at = "start" /\ machine.todo = <<>>
  /\ Arrive
  /\ UNCHANGED <<cancelled, stateContexts, queue, drainer, Self>>

-----------------------------------------------------------------------------

\* The user starts the machine, or dispatches an event that takes it to some state.
Invoke ==
  /\ drainer = None
  /\ \E s \in Wishes : Dispatch(Caller, [to |-> s])
  /\ UNCHANGED <<cancelled, stateContexts, current, machine, Self>>

TimerStep(i) == TimerWakes(i) \/ TimerFires(i) \/ TimerReturns(i)

ActivityStep(i) == \/ ActivityBegins(i) \/ OperationLooks(i) \/ BeginActivity(i)
                   \/ ActivityUnregisters(i) \/ ActivityFinishes(i) \/ ActivityDone(i)

Returns(i) == ActivityReturns(i) \/ EndActivity(i)

MachineStep == \/ TakeEvent \/ EndDrain \/ ReleaseDrain \/ Select \/ CancelContext \/ ReadMark
               \/ CancelActivities \/ EnterPlain \/ EnterState
               \/ StartActivity \/ StartTimer \/ AllStarted

Next ==
  \/ \E i \in TaskIds : \/ TimerStep(i) \/ ActivityStep(i)
                        \/ ActivityDispatches(i) \/ Returns(i) \/ ActivityPanics(i)
  \/ MachineStep
  \/ Invoke

Spec == Init /\ [][Next]_vars

-----------------------------------------------------------------------------
(***************************************************************************)
(* Properties                                                              *)
(***************************************************************************)

TypeOK ==
  /\ cancelled \in [Keys -> BOOLEAN]
  /\ stateContexts \in [States -> Keys \cup {None}]
  /\ active \in [Keys -> Seq(Activities)]
  /\ running \in [Keys -> Activities \cup {None}]
  /\ registered \subseteq Keys
  /\ pc \in [TaskIds -> TimerLabels \cup ActivityLabels \cup {None}]
  /\ queue \in Seq(Events)
  /\ drainer \in TaskIds \cup {Caller, None}
  /\ current \in States \cup {Off}
  /\ machine \in [at : MachineLabels, event : Events \cup {None}, key : Keys \cup {None},
                  mark : Activities \cup {None}, todo : Seq(Bodies), goal : States \cup {Off}]
  /\ reports \in [Activities \X Keys -> Nat]
  /\ unowned \subseteq Keys

(***************************************************************************)
(* The process-wide tables hold nothing of a context that no longer        *)
(* exists, which the next context at its address would inherit: activities *)
(* are listed before they are spawned and taken off by whoever comes first *)
(* of the task and exit_state, marks are set and removed by one task.  The *)
(* registration is left behind by timers, which never take it back, and by *)
(* activities that panic.                                                  *)
(***************************************************************************)
NoGhosts ==
  \A k \in Free : active[k] = <<>> /\ running[k] = None /\ (k \in registered => k \in unowned)

(***************************************************************************)
(* activity_done and activity_cancelled are not both reported of one run   *)
(* of an activity, though its end races the exit of its state.             *)
(***************************************************************************)
ReportedOnce == \A i \in Activities \X Keys : reports[i] <= 1

(***************************************************************************)
(* A task that has not been cancelled still can be: its context is the one *)
(* the machine keeps for a state, and between transitions that is the      *)
(* state the machine is in.                                                *)
(***************************************************************************)
Cancellable ==
  /\ \A i \in TaskIds : pc[i] # None /\ ~cancelled[i[2]] =>
       \E s \in States : stateContexts[s] = i[2] /\ Owner[i[1]] = s
  /\ machine.at \in {"idle", "release"} => \A s \in States : stateContexts[s] # None => s = current

(***************************************************************************)
(* An activity that runs finds the machine from its context, unless        *)
(* another activity of the state has ended (or not begun): the first to    *)
(* end takes back the registration they share.                             *)
(***************************************************************************)
FindsMachine ==
  \A a \in Activities, k \in Keys :
    pc[<<a, k>>] \in Running /\ k \notin registered =>
      \E b \in Activities \ {a} : Owner[b] = Owner[a] /\ pc[<<b, k>>] \in Ended

(***************************************************************************)
(* The tasks of a state that was left wind down: each step brings them     *)
(* nearer to their end.  A repeating timer does not go round again, though *)
(* its context may have been cancelled by the drain that its own dispatch  *)
(* runs.                                                                   *)
(***************************************************************************)
Distance ==
  [label \in TimerLabels \cup ActivityLabels \cup {None} |->
     CASE label \in {None} -> 0
       [] label \in {"checks", "gives up", "sent"} -> 1
       [] label \in {"finishes", "fires"} -> 2
       [] label \in {"unregisters", "asleep"} -> 3
       [] label \in Running -> 4
       [] label = "marks" -> 5
       [] label = "looks" -> 6
       [] label = "spawned" -> 7]

TasksWindDown ==
  [][\A i \in TaskIds : cancelled[i[2]] /\ pc'[i] # pc[i] /\ cancelled'[i[2]]
       => Distance[pc'[i]] < Distance[pc[i]]]_vars

=============================================================================
