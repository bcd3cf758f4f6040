------------------------------ MODULE Runtime -------------------------------
(***************************************************************************)
(* One machine of hsm_impl.rs shared by several threads: dispatch, set,    *)
(* call, activities, start, stop and restart, and the drain loop that      *)
(* takes events off the queue and runs them to completion.                 *)
(*                                                                         *)
(* A step is what happens under one lock (active_drains, queue,            *)
(* pending_reentrant_events, active_operations, deferred_events,           *)
(* current_state) or one behaviour's effect on them, so the threads        *)
(* interleave exactly where the code lets go of a lock.  What an event     *)
(* does to the machine is left open: the event is ignored, deferred,       *)
(* refused with an error, or moves the machine to some state.              *)
(*                                                                         *)
(* A behaviour or an operation that dispatches is inside its caller's      *)
(* await; a nested call that itself drains is played by another thread.    *)
(***************************************************************************)
EXTENDS EventQueue, FiniteSets

CONSTANTS
  Threads,       \* callers: tasks or OS threads using this machine
  Activities,    \* the threads that run an activity's operation
  Events,        \* event instances, each handed to the machine at most once
  Calls,         \* those of kind CALL_EVENT, made by call
  Changes,       \* those of kind CHANGE_EVENT, made by set
  Failing,       \* those that may run into an unhandled exit point
  Name,          \* the name (and qualified name, and kind) of each event
  InitialEvent,  \* initial_event() and final_event(), any number of them
  FinalEvent,
  States,        \* qualified names of the model's states
  FinalStates,
  Root,          \* the machine's own name: current_state before the first entry
  Off,           \* the empty current_state of a machine that is not started
  Ancestors,     \* is_ancestor_or_equal: the states that enclose a state
  Defers,        \* <<state, name>>: the defer lists
  Submachines,   \* the states of kind SUBMACHINE_STATE
  Api,           \* the entry points the environment uses
  MaxQueued,     \* a bound: nobody starts while this many completions are queued
  None

Vertices == States \cup {Root, Off}

AllEvents == Events \cup {InitialEvent, FinalEvent}

Fates == {"unsent", "open", "refused", "handled", "failed", "dropped", "cleared", "wiped",
          "abandoned"}

\* "reentrant" and "operation": behaviours and operations hand in events, and
\* behaviours are named operations; "abandon": a caller drops the future it was awaiting.
Entrances == {"dispatch", "set", "call", "activity", "start", "stop", "restart",
              "reentrant", "operation", "abandon"}

ASSUME RuntimeAssumption ==
  /\ Calls \cup Changes \cup Failing \subseteq Events
  /\ (Calls \cup Changes) \cap Completions = {} /\ Calls \cap Changes = {}
  /\ {InitialEvent, FinalEvent} \subseteq Completions
  /\ {InitialEvent, FinalEvent} \cap Events = {}
  /\ None \notin AllEvents
  /\ Activities \subseteq Threads
  /\ FinalStates \subseteq States /\ Root \notin States
  /\ Off \notin States \cup {Root}
  /\ Ancestors \in [Vertices -> SUBSET (States \cup {Root})]
  /\ Ancestors[Off] = {} /\ Ancestors[Root] = {Root}
  /\ Submachines \subseteq States /\ MaxQueued \in Nat
  /\ Api \subseteq Entrances
  /\ {"set", "abandon"} \subseteq Api => FALSE  \* set drains in a thread nobody can drop

\* take_deferred_event finds a record by the event's name (hsm_impl.rs:1154).  It
\* is the event's own record if deferred events are told apart by their names;
\* the proofs that follow an event through its deferrals start from that.
DeferredApart ==
  \A e, f \in AllEvents :
    Name[e] = Name[f] /\ (\E a \in States \cup {Root} : <<a, Name[e]>> \in Defers) => e = f

\* One caller and nobody beside it: no activity, no future dropped half way, no error
\* that ends a drain early.
SingleCaller ==
  /\ \E t \in Threads : Threads = {t}
  /\ Activities = {} /\ Failing = {} /\ "abandon" \notin Api

VARIABLES
  \* shared by every clone of the machine
  queue,             \* HSM::queue
  activeDrain,       \* the machine's key is in ACTIVE_DRAINS
  pendingReentrant,  \* PENDING_REENTRANT_EVENTS, the machine's entry
  activeOperations,  \* ACTIVE_OPERATIONS, the machine's depth
  deferredEvents,    \* HSM::deferred_events
  currentState,      \* HSM::current_state
  \* of one thread
  pc,                \* where it is
  next,              \* where it goes when the drain or the stop it is in returns
  held,              \* the event it was called with, until it is queued
  seen,              \* its last clone of current_state
  popped,            \* drain_queue: the event being processed
  taken,             \* drain_queue: the deferral record found for it
  source,            \* drain_queue: the source of the transition just taken
  local,             \* drain_queue: the local deferred_events
  carry,             \* flush_reentrant_events: the events taken from pending
  \* history
  fate,              \* what became of each event
  stopped            \* a stop completed and no start began since

shared == <<queue, activeDrain, pendingReentrant, activeOperations,
            deferredEvents, currentState>>
own == <<pc, next, held, seen, popped, taken, source, local, carry>>
vars == <<shared, own, fate, stopped>>

Record == [event : AllEvents, owner : States \cup {Root}]

Init ==
  /\ queue = EmptyQueue
  /\ activeDrain = FALSE
  /\ pendingReentrant = <<>>
  /\ activeOperations = 0
  /\ deferredEvents = <<>>
  /\ currentState \in States \cup {Off}
  /\ pc = [t \in Threads |-> "idle"]
  /\ next = [t \in Threads |-> "idle"]
  /\ held = [t \in Threads |-> None]
  /\ seen = [t \in Threads |-> Off]
  /\ popped = [t \in Threads |-> None]
  /\ taken = [t \in Threads |-> None]
  /\ source = [t \in Threads |-> Root]
  /\ local = [t \in Threads |-> <<>>]
  /\ carry = [t \in Threads |-> <<>>]
  /\ fate = [e \in Events |-> "unsent"]
  /\ stopped = FALSE

-----------------------------------------------------------------------------

Goto(t, label) == pc' = [pc EXCEPT ![t] = label]

Settle(E, f) == fate' = [e \in Events |-> IF e \in E THEN f ELSE fate[e]]

Elements(s) == {s[i] : i \in DOMAIN s}

Unsent(E) == {e \in E : fate[e] = "unsent"}

\* Where stop's exit behaviours run, for a stop and for the stop of a restart.
Stopping == {"stopping", "restarting"}

\* is_inactive, its two reads: seen is the first, active_drains the second.
Inactive(t) == ~activeDrain /\ seen[t] \in {Off, Root}

(***************************************************************************)
(* Entry points                                                            *)
(***************************************************************************)

\* dispatch, set or call with event e, up to is_inactive's first read.
Enter(t, e, label) ==
  /\ label \in Api
  /\ pc[t] = "idle" /\ t \notin Activities
  /\ seen' = [seen EXCEPT ![t] = currentState]
  /\ held' = [held EXCEPT ![t] = e]
  /\ next' = [next EXCEPT ![t] = "idle"]
  /\ Settle({e}, "open")
  /\ Goto(t, label)
  /\ UNCHANGED <<shared, popped, taken, source, local, carry, stopped>>

Dispatch(t) == \E e \in Unsent(Events \ (Calls \cup Changes)) : Enter(t, e, "dispatch")

Set(t) == \E e \in Unsent(Changes) : Enter(t, e, "set")

Call(t) == \E e \in Unsent(Calls) : Enter(t, e, "call")

\* is_inactive's second read: an inactive machine refuses, the caller gets Err.
Admit(t) ==
  \E step \in {<<"dispatch", "route">>, <<"set", "push">>, <<"call", "operate">>} :
    /\ pc[t] = step[1]
    /\ IF Inactive(t)
       THEN /\ Settle({held[t]}, "refused")
            /\ held' = [held EXCEPT ![t] = None]
            /\ Goto(t, "idle")
       ELSE Goto(t, step[2]) /\ UNCHANGED <<held, fate>>
    /\ UNCHANGED <<shared, next, seen, popped, taken, source, local, carry, stopped>>

(***************************************************************************)
(* execute_operation_by_name, for call and for an activity                 *)
(***************************************************************************)

\* A call's operation, an activity's, or that of an exit behaviour run by stop.
BeginOperation(t) ==
  /\ \/ pc[t] = "operate"
     \/ pc[t] = "idle" /\ t \in Activities /\ "activity" \in Api
     \/ pc[t] \in Stopping /\ "operation" \in Api
  /\ activeOperations' = activeOperations + 1
  /\ next' = IF pc[t] \in Stopping THEN [next EXCEPT ![t] = pc[t]] ELSE next
  /\ Goto(t, "body")
  /\ UNCHANGED <<queue, activeDrain, pendingReentrant, deferredEvents, currentState,
                 held, seen, popped, taken, source, local, carry, fate, stopped>>

\* Mutant of Ended: the machine's entry goes with the first operation to end.
EndedForAll == 0

\* end_operation: nothing to count down if the machine has no entry.
Ended == IF activeOperations = 0 THEN 0 ELSE activeOperations - 1

\* Mutant of SetAside: what is handed in during an event is set aside, whatever it is.
SetAsideAll(t) == Events

\* What is set aside of the events that thread t's operations and behaviours hand in.
\* They use the context they are given, an activity's while it runs and while it
\* drains after its end: running_activity(ctx) is Some for an activity until
\* execute_operation_by_name returns, so its set is set aside and its call is not.
SetAside(t) == IF t \in Activities THEN Changes ELSE Calls

\* In the body of an operation: queue_reentrant_event.
OperationReenters(t) ==
  /\ pc[t] = "body" /\ "reentrant" \in Api
  /\ activeDrain \/ currentState \notin {Off, Root}
  /\ \E e \in Unsent(SetAside(t)) :
       /\ pendingReentrant' = Append(pendingReentrant, e)
       /\ Settle({e}, "open")
  /\ UNCHANGED <<queue, activeDrain, activeOperations, deferredEvents, currentState, own,
                 stopped>>

\* In the body of an activity, a dispatch or a call.
ActivityDispatches(t) ==
  /\ pc[t] = "body" /\ t \in Activities /\ "reentrant" \in Api
  /\ activeDrain \/ currentState \notin {Off, Root}
  /\ \E e \in Unsent(Events \ SetAside(t)) :
       /\ held' = [held EXCEPT ![t] = e]
       /\ Settle({e}, "open")
  /\ next' = [next EXCEPT ![t] = "body"]
  /\ Goto(t, "push")
  /\ UNCHANGED <<shared, seen, popped, taken, source, local, carry, stopped>>

\* A call whose operation aborted or panicked ends without its event; stop goes on.
EndOperation(t) ==
  /\ pc[t] = "body"
  /\ activeOperations' = Ended
  /\ \E ok \in BOOLEAN :
       LET after == IF next[t] \in Stopping THEN next[t]
                    ELSE IF ok /\ t \notin Activities THEN "again" ELSE "idle"
       IN  /\ next' = [next EXCEPT ![t] = after]
           /\ Goto(t, IF Ended = 0 THEN "operated" ELSE after)
           /\ Settle(IF ok THEN {} ELSE {held[t]}, "refused")
           /\ held' = IF ok THEN held ELSE [held EXCEPT ![t] = None]
  /\ UNCHANGED <<queue, activeDrain, pendingReentrant, deferredEvents, currentState,
                 seen, popped, taken, source, local, carry, stopped>>

\* Mutant of LeaveFlush: the flush is left to the next drain.
LeaveToNextDrain(t) ==
  /\ pc[t] = "operated"
  /\ Goto(t, next[t])
  /\ UNCHANGED <<shared, next, held, seen, popped, taken, source, local, carry, fate,
                 stopped>>

\* The outermost operation flushes unless a drain will.
LeaveFlush(t) ==
  /\ pc[t] = "operated"
  /\ Goto(t, IF activeDrain THEN next[t] ELSE "takeOperation")
  /\ UNCHANGED <<shared, next, held, seen, popped, taken, source, local, carry, fate,
                 stopped>>

\* call dispatches the call event afterwards, through is_inactive again.
DispatchCall(t) ==
  /\ pc[t] = "again"
  /\ seen' = [seen EXCEPT ![t] = currentState]
  /\ next' = [next EXCEPT ![t] = "idle"]
  /\ Goto(t, "dispatch")
  /\ UNCHANGED <<shared, held, popped, taken, source, local, carry, fate, stopped>>

(***************************************************************************)
(* dispatch_queued_borrowed                                                *)
(***************************************************************************)

\* Mutant of Route: the event is moved out before it is queued.
RouteMoved(t) ==
  /\ pc[t] = "route"
  /\ held' = [held EXCEPT ![t] = None]
  /\ Goto(t, "push")
  /\ UNCHANGED <<shared, next, seen, popped, taken, source, local, carry, fate, stopped>>

\* A call event during a drain or an operation is set aside.
Route(t) ==
  /\ pc[t] = "route"
  /\ Goto(t, IF held[t] \notin Calls THEN "push"
             ELSE IF activeDrain THEN "setAside" ELSE "routeOperation")
  /\ UNCHANGED <<shared, next, held, seen, popped, taken, source, local, carry, fate,
                 stopped>>

RouteOperation(t) ==
  /\ pc[t] = "routeOperation"
  /\ Goto(t, IF activeOperations > 0 THEN "setAside" ELSE "push")
  /\ UNCHANGED <<shared, next, held, seen, popped, taken, source, local, carry, fate,
                 stopped>>

QueueReentrantEvent(t) ==
  /\ pc[t] = "setAside"
  /\ pendingReentrant' = Append(pendingReentrant, held[t])
  /\ held' = [held EXCEPT ![t] = None]
  /\ Goto(t, next[t])
  /\ UNCHANGED <<queue, activeDrain, activeOperations, deferredEvents, currentState,
                 next, seen, popped, taken, source, local, carry, fate, stopped>>

PushHeld(t) ==
  /\ pc[t] = "push"
  /\ queue' = Push(queue, held[t])
  /\ held' = [held EXCEPT ![t] = None]
  /\ Goto(t, "drain")
  /\ UNCHANGED <<activeDrain, pendingReentrant, activeOperations, deferredEvents,
                 currentState, next, seen, popped, taken, source, local, carry, fate,
                 stopped>>

(***************************************************************************)
(* drain_queue                                                             *)
(***************************************************************************)

\* Mutant of Free: the set is not consulted.
FreeAlways == TRUE

\* The machine's key is not in ACTIVE_DRAINS.
Free == ~activeDrain

\* begin_drain: whoever does not get the guard returns Ok at once.
BeginDrain(t) ==
  /\ pc[t] = "drain"
  /\ IF Free
     THEN activeDrain' = TRUE /\ Goto(t, "pop")
     ELSE Goto(t, next[t]) /\ UNCHANGED activeDrain
  /\ UNCHANGED <<queue, pendingReentrant, activeOperations, deferredEvents, currentState,
                 next, held, seen, popped, taken, source, local, carry, fate, stopped>>

\* Mutant of Pop: the drain ends without requeue_all_deferred_events.
PopForgetful(t) ==
  /\ pc[t] = "pop"
  /\ IF queue = EmptyQueue
     THEN Goto(t, "release") /\ UNCHANGED <<queue, popped>>
     ELSE /\ popped' = [popped EXCEPT ![t] = Front(queue)]
          /\ queue' = Rest(queue)
          /\ Goto(t, "match")
  /\ UNCHANGED <<activeDrain, pendingReentrant, activeOperations, deferredEvents,
                 currentState, next, held, seen, taken, source, local, carry, fate,
                 stopped>>

Pop(t) ==
  /\ pc[t] = "pop"
  /\ IF queue = EmptyQueue
     THEN Goto(t, "requeueAll") /\ UNCHANGED <<queue, popped>>
     ELSE /\ popped' = [popped EXCEPT ![t] = Front(queue)]
          /\ queue' = Rest(queue)
          /\ Goto(t, "match")
  /\ UNCHANGED <<activeDrain, pendingReentrant, activeOperations, deferredEvents,
                 currentState, next, held, seen, taken, source, local, carry, fate,
                 stopped>>

\* The records take_deferred_event can answer for e: those of an event of its name.
Matching(e) == {i \in DOMAIN deferredEvents : Name[deferredEvents[i].event] = Name[e]}

Without(s, i) == SubSeq(s, 1, i - 1) \o SubSeq(s, i + 1, Len(s))

\* take_deferred_event: the record found first leaves the list.
TakeDeferredEvent(t) ==
  /\ pc[t] = "match"
  /\ \/ /\ Matching(popped[t]) = {}
        /\ Goto(t, "select")
        /\ UNCHANGED <<deferredEvents, taken>>
     \/ \E i \in Matching(popped[t]) :
          /\ \A j \in Matching(popped[t]) : i <= j
          /\ deferredEvents' = Without(deferredEvents, i)
          /\ taken' = [taken EXCEPT ![t] = deferredEvents[i]]
          /\ Goto(t, "matched")
  /\ UNCHANGED <<queue, activeDrain, pendingReentrant, activeOperations, currentState,
                 next, held, seen, popped, source, local, carry, fate, stopped>>

\* deferred_owner_still_active, of current_state as it is now: then the record
\* (not the event popped) is kept back and the event is not processed.
KeepDeferred(t) ==
  /\ pc[t] = "matched"
  /\ IF taken[t].owner \in Ancestors[currentState]
     THEN /\ local' = [local EXCEPT ![t] = Append(@, taken[t])]
          /\ popped' = [popped EXCEPT ![t] = None]
          /\ Goto(t, "pop")
     ELSE Goto(t, "select") /\ UNCHANGED <<popped, local>>
  /\ taken' = [taken EXCEPT ![t] = None]
  /\ UNCHANGED <<shared, next, held, seen, source, carry, fate, stopped>>

\* process_single_event clones current_state once, before any behaviour runs.
SelectState(t) ==
  /\ pc[t] = "select"
  /\ seen' = [seen EXCEPT ![t] = currentState]
  /\ Goto(t, "run")
  /\ UNCHANGED <<shared, next, held, popped, taken, source, local, carry, fate, stopped>>

\* Guards and behaviours run only where a transition may be found: for a machine
\* that has not entered a state, that is the initial event.
Reacts(t) == seen[t] \in States \/ (seen[t] = Root /\ popped[t] = InitialEvent)

\* A behaviour that is a named operation, run for the event: the operation
\* counts as active while it lasts, and leaves flushing to the drain.  One per
\* event: no other effect shows how many there are.
BeginBehavior(t) ==
  /\ pc[t] = "run" /\ Reacts(t) /\ "operation" \in Api
  /\ activeOperations' = activeOperations + 1
  /\ Goto(t, "behave")
  /\ UNCHANGED <<queue, activeDrain, pendingReentrant, deferredEvents, currentState,
                 next, held, seen, popped, taken, source, local, carry, fate, stopped>>

EndBehavior(t) ==
  /\ pc[t] = "behave"
  /\ activeOperations' = Ended
  /\ Goto(t, "decide")
  /\ UNCHANGED <<queue, activeDrain, pendingReentrant, deferredEvents, currentState,
                 next, held, seen, popped, taken, source, local, carry, fate, stopped>>

\* A guard or behaviour that runs for the event dispatches, sets or calls: the
\* drain is its own, so the event is queued or set aside and nothing is awaited.
\* Its context is the drain's, which is the activity's if an activity drains.
BehaviorDispatches(t) ==
  /\ pc[t] \in {"run", "behave"} /\ Reacts(t) /\ "reentrant" \in Api
  /\ \E e \in Unsent(Events) :
       /\ IF e \in SetAside(t)
          THEN pendingReentrant' = Append(pendingReentrant, e) /\ UNCHANGED queue
          ELSE queue' = Push(queue, e) /\ UNCHANGED pendingReentrant
       /\ Settle({e}, "open")
  /\ UNCHANGED <<activeDrain, activeOperations, deferredEvents, currentState, own,
                 stopped>>

\* The caller drops its future while a behaviour in its drain is waiting: what
\* drain_queue held is gone, DrainGuard::drop runs, and end_operation does not.
AbandonDrain(t) ==
  /\ pc[t] \in {"run", "behave"} /\ Reacts(t) /\ "abandon" \in Api /\ t \notin Activities
  /\ Settle({popped[t], held[t]} \cup {r.event : r \in Elements(local[t])}, "abandoned")
  /\ popped' = [popped EXCEPT ![t] = None]
  /\ held' = [held EXCEPT ![t] = None]
  /\ local' = [local EXCEPT ![t] = <<>>]
  /\ next' = [next EXCEPT ![t] = "idle"]
  /\ Goto(t, "release")
  /\ UNCHANGED <<shared, seen, taken, source, carry, stopped>>

\* The caller of an operation drops its future: begin_operation is not undone.
AbandonOperation(t) ==
  /\ pc[t] = "body" /\ "abandon" \in Api /\ t \notin Activities
  /\ Settle({held[t]}, "abandoned")
  /\ held' = [held EXCEPT ![t] = None]
  /\ next' = [next EXCEPT ![t] = "idle"]
  /\ Goto(t, "idle")
  /\ UNCHANGED <<shared, seen, popped, taken, source, local, carry, stopped>>

\* The states whose defer list names e, seen from state s; the innermost decides.
Deferring(s, e) == {a \in Ancestors[s] : <<a, Name[e]>> \in Defers}

Innermost(S) == {a \in S : \A b \in S : b \in Ancestors[a]}

\* EventOutcome::Processed: nothing handles the event, or a behaviour aborted.
Ignore(t) ==
  /\ pc[t] \in {"run", "decide"}
  /\ Settle({popped[t]}, "handled")
  /\ popped' = [popped EXCEPT ![t] = None]
  /\ Goto(t, "take")
  /\ UNCHANGED <<shared, next, held, seen, taken, source, local, carry, stopped>>

\* EventOutcome::Deferred.
Defer(t) ==
  /\ pc[t] \in {"run", "decide"}
  /\ Deferring(seen[t], popped[t]) # {}
  /\ Goto(t, "owner")
  /\ UNCHANGED <<shared, next, held, seen, popped, taken, source, local, carry, fate,
                 stopped>>

\* deferred_owner reads current_state anew; no owner, and the event is dropped.
DeferredOwner(t) ==
  /\ pc[t] = "owner"
  /\ LET owners == Deferring(currentState, popped[t])
     IN  \/ /\ owners = {}
            /\ Settle({popped[t]}, "dropped")
            /\ UNCHANGED local
         \/ \E owner \in Innermost(owners) :
              /\ local' = [local EXCEPT ![t] =
                             Append(@, [event |-> popped[t], owner |-> owner])]
              /\ UNCHANGED fate
  /\ popped' = [popped EXCEPT ![t] = None]
  /\ Goto(t, "take")
  /\ UNCHANGED <<shared, next, held, seen, taken, source, carry, stopped>>

\* EventOutcome::Transition: the state execute_transition worked out from the
\* clone is written back.
Transit(t) ==
  /\ pc[t] \in {"run", "decide"} /\ Reacts(t)
  /\ \E s \in States \cup {Root} :
       /\ currentState' = s
       /\ Goto(t, IF s \in FinalStates /\ s # seen[t] THEN "final" ELSE "requeue")
  /\ \E a \in Ancestors[seen[t]] : source' = [source EXCEPT ![t] = a]
  /\ Settle({popped[t]}, "handled")
  /\ popped' = [popped EXCEPT ![t] = None]
  /\ UNCHANGED <<queue, activeDrain, pendingReentrant, activeOperations, deferredEvents,
                 next, held, seen, taken, local, carry, stopped>>

PushFinal(t) ==
  /\ pc[t] = "final"
  /\ queue' = Push(queue, FinalEvent)
  /\ Goto(t, "requeue")
  /\ UNCHANGED <<activeDrain, pendingReentrant, activeOperations, deferredEvents,
                 currentState, next, held, seen, popped, taken, source, local, carry,
                 fate, stopped>>

\* The error of an unhandled exit point leaves drain_queue through `?`.
Fail(t) ==
  /\ pc[t] \in {"run", "decide"} /\ popped[t] \in Failing /\ seen[t] \in States
  /\ Settle({popped[t]} \cup {r.event : r \in Elements(local[t])}, "failed")
  /\ popped' = [popped EXCEPT ![t] = None]
  /\ local' = [local EXCEPT ![t] = <<>>]
  /\ Goto(t, "release")
  /\ UNCHANGED <<shared, next, held, seen, taken, source, carry, stopped>>

\* Mutant of Exited: the owner itself is looked at, without the dirname.
ExitedOrOwner(owner, s) == {a \in Ancestors[owner] : a \in Submachines \ Ancestors[s]}

\* deferred_event_survives: the innermost submachine state around the owner
\* that is no longer active decides; the event outlives it only if a
\* transition from inside it left it.
Exited(owner, s) == {a \in Ancestors[owner] \ {owner} : a \in Submachines \ Ancestors[s]}

Survives(owner, s, src) ==
  \A a \in Innermost(Exited(owner, s)) : a \in Ancestors[src] \ {src}

\* requeue_deferred_events reads current_state once more and drops the rest.
DropExited(t) ==
  /\ pc[t] = "requeue"
  /\ LET kept == {r \in Elements(local[t]) : Survives(r.owner, currentState, source[t])}
     IN  /\ local' = [local EXCEPT ![t] = Filter(@, kept)]
         /\ Settle({r.event : r \in Elements(local[t]) \ kept}, "dropped")
  /\ source' = [source EXCEPT ![t] = Root]
  /\ Goto(t, "replay")
  /\ UNCHANGED <<shared, next, held, seen, popped, taken, carry, stopped>>

\* push_deferred_records after a transition, and when the queue has run dry:
\* first the events, to the back of the queue, then the records.
PushDeferred(t) ==
  \E step \in {<<"replay", "record">>, <<"requeueAll", "recordAll">>} :
    /\ pc[t] = step[1]
    /\ queue' = PushAll(queue, AllEvents, [i \in DOMAIN local[t] |-> local[t][i].event])
    /\ Goto(t, step[2])
    /\ UNCHANGED <<activeDrain, pendingReentrant, activeOperations, deferredEvents,
                   currentState, next, held, seen, popped, taken, source, local, carry,
                   fate, stopped>>

\* Mutant of RecordDeferred: what is still deferred is tried again at once.
RecordAndPop(t) ==
  /\ pc[t] \in {"record", "recordAll"}
  /\ deferredEvents' = deferredEvents \o local[t]
  /\ Goto(t, IF pc[t] = "record" THEN "take" ELSE IF local[t] = <<>> THEN "release" ELSE "pop")
  /\ local' = [local EXCEPT ![t] = <<>>]
  /\ UNCHANGED <<queue, activeDrain, pendingReentrant, activeOperations, currentState,
                 next, held, seen, popped, taken, source, carry, fate, stopped>>

RecordDeferred(t) ==
  \E step \in {<<"record", "take">>, <<"recordAll", "release">>} :
    /\ pc[t] = step[1]
    /\ deferredEvents' = deferredEvents \o local[t]
    /\ local' = [local EXCEPT ![t] = <<>>]
    /\ Goto(t, step[2])
    /\ UNCHANGED <<queue, activeDrain, pendingReentrant, activeOperations, currentState,
                   next, held, seen, popped, taken, source, carry, fate, stopped>>

\* Mutant of TakeReentrant: only an operation flushes, not the drain.
TakeByOperation(t) ==
  /\ pc[t] \in {"take", "takeOperation"}
  /\ IF pc[t] = "take"
     THEN Goto(t, "pop") /\ UNCHANGED <<carry, pendingReentrant>>
     ELSE /\ carry' = [carry EXCEPT ![t] = pendingReentrant]
          /\ pendingReentrant' = <<>>
          /\ Goto(t, "flushOperation")
  /\ UNCHANGED <<queue, activeDrain, activeOperations, deferredEvents, currentState,
                 next, held, seen, popped, taken, source, local, fate, stopped>>

\* flush_reentrant_events, by the drain after an event or by an operation that
\* ends: first all of pending, then the queue.
TakeReentrant(t) ==
  \E step \in {<<"take", "flush", "pop">>,
               <<"takeOperation", "flushOperation", next[t]>>} :
    /\ pc[t] = step[1]
    /\ Goto(t, IF pendingReentrant = <<>> THEN step[3] ELSE step[2])
    /\ carry' = [carry EXCEPT ![t] = pendingReentrant]
    /\ pendingReentrant' = <<>>
    /\ UNCHANGED <<queue, activeDrain, activeOperations, deferredEvents, currentState,
                   next, held, seen, popped, taken, source, local, fate, stopped>>

FlushReentrant(t) ==
  \E step \in {<<"flush", "pop">>, <<"flushOperation", "drain">>} :
    /\ pc[t] = step[1]
    /\ queue' = PushAll(queue, AllEvents, carry[t])
    /\ carry' = [carry EXCEPT ![t] = <<>>]
    /\ Goto(t, step[2])
    /\ UNCHANGED <<activeDrain, pendingReentrant, activeOperations, deferredEvents,
                   currentState, next, held, seen, popped, taken, source, local, fate,
                   stopped>>

\* DrainGuard::drop, under two locks: whatever was set aside since the last
\* flush goes with the second.
ReleaseDrain(t) ==
  /\ pc[t] = "release"
  /\ activeDrain' = FALSE
  /\ Goto(t, "wipe")
  /\ UNCHANGED <<queue, pendingReentrant, activeOperations, deferredEvents, currentState,
                 next, held, seen, popped, taken, source, local, carry, fate, stopped>>

WipeReentrant(t) ==
  /\ pc[t] = "wipe"
  /\ Settle(Elements(pendingReentrant), "wiped")
  /\ pendingReentrant' = <<>>
  /\ Goto(t, next[t])
  /\ UNCHANGED <<queue, activeDrain, activeOperations, deferredEvents, currentState,
                 next, held, seen, popped, taken, source, local, carry, stopped>>

(***************************************************************************)
(* start, stop, restart                                                    *)
(***************************************************************************)

Start(t) ==
  /\ \/ /\ pc[t] = "idle" /\ t \notin Activities /\ "start" \in Api
        /\ Len(queue.completion) < MaxQueued
     \/ pc[t] = "start"
  /\ seen' = [seen EXCEPT ![t] = currentState]
  /\ next' = [next EXCEPT ![t] = "idle"]
  /\ Goto(t, "starting")
  /\ UNCHANGED <<shared, held, popped, taken, source, local, carry, fate, stopped>>

AdmitStart(t) ==
  /\ pc[t] = "starting"
  /\ Goto(t, IF Inactive(t) THEN "activate" ELSE "idle")
  /\ UNCHANGED <<shared, next, held, seen, popped, taken, source, local, carry, fate,
                 stopped>>

Activate(t) ==
  /\ pc[t] = "activate"
  /\ currentState' = Root
  /\ held' = [held EXCEPT ![t] = InitialEvent]
  /\ stopped' = FALSE
  /\ Goto(t, "push")
  /\ UNCHANGED <<queue, activeDrain, pendingReentrant, activeOperations, deferredEvents,
                 next, seen, popped, taken, source, local, carry, fate>>

\* restart refuses a machine that is not in a state, then stops and starts it.
Restart(t) ==
  /\ pc[t] = "idle" /\ t \notin Activities /\ "restart" \in Api
  /\ currentState \in States
  /\ next' = [next EXCEPT ![t] = "start"]
  /\ Goto(t, "stop")
  /\ UNCHANGED <<shared, held, seen, popped, taken, source, local, carry, fate, stopped>>

Stop(t) ==
  /\ pc[t] = "idle" /\ t \notin Activities /\ "stop" \in Api
  /\ next' = [next EXCEPT ![t] = "idle"]
  /\ Goto(t, "stop")
  /\ UNCHANGED <<shared, held, seen, popped, taken, source, local, carry, fate, stopped>>

\* stop does nothing to a machine that is not in a state.
StopReads(t) ==
  /\ pc[t] = "stop"
  /\ Goto(t, IF currentState \notin States THEN next[t]
             ELSE IF next[t] = "start" THEN "restarting" ELSE "stopping")
  /\ UNCHANGED <<shared, next, held, seen, popped, taken, source, local, carry, fate,
                 stopped>>

\* An exit behaviour that stop runs hands in an event: no drain is its own.
ExitDispatches(t) ==
  /\ pc[t] \in Stopping /\ "reentrant" \in Api
  /\ activeDrain \/ currentState \notin {Off, Root}
  /\ \E e \in Unsent(Events) :
       /\ held' = [held EXCEPT ![t] = e]
       /\ Settle({e}, "open")
  /\ next' = [next EXCEPT ![t] = pc[t]]
  /\ Goto(t, "route")
  /\ UNCHANGED <<shared, seen, popped, taken, source, local, carry, stopped>>

\* The last exit behaviour has returned.
StopExits(t) ==
  \E step \in {<<"stopping", "idle">>, <<"restarting", "start">>} :
    /\ pc[t] = step[1]
    /\ next' = [next EXCEPT ![t] = step[2]]
    /\ Goto(t, "clearQueue")
    /\ UNCHANGED <<shared, held, seen, popped, taken, source, local, carry, fate,
                   stopped>>

\* The caller drops its future while an exit behaviour is waiting.
AbandonStop(t) ==
  /\ pc[t] \in Stopping /\ "abandon" \in Api
  /\ next' = [next EXCEPT ![t] = "idle"]
  /\ Goto(t, "idle")
  /\ UNCHANGED <<shared, held, seen, popped, taken, source, local, carry, fate, stopped>>

ClearQueue(t) ==
  /\ pc[t] = "clearQueue"
  /\ Settle(Elements(queue.completion) \cup Elements(queue.regular), "cleared")
  /\ queue' = EmptyQueue
  /\ Goto(t, "clearDeferred")
  /\ UNCHANGED <<activeDrain, pendingReentrant, activeOperations, deferredEvents,
                 currentState, next, held, seen, popped, taken, source, local, carry,
                 stopped>>

ClearDeferred(t) ==
  /\ pc[t] = "clearDeferred"
  /\ deferredEvents' = <<>>
  /\ Goto(t, "off")
  /\ UNCHANGED <<queue, activeDrain, pendingReentrant, activeOperations, currentState,
                 next, held, seen, popped, taken, source, local, carry, fate, stopped>>

SwitchOff(t) ==
  /\ pc[t] = "off"
  /\ currentState' = Off
  /\ stopped' = TRUE
  /\ Goto(t, next[t])
  /\ UNCHANGED <<queue, activeDrain, pendingReentrant, activeOperations, deferredEvents,
                 next, held, seen, popped, taken, source, local, carry, fate>>

-----------------------------------------------------------------------------

\* A thread inside one of the machine's own functions, which goes on by itself.
Proceeds(t) ==
  \/ Admit(t) \/ (pc[t] = "operate" /\ BeginOperation(t)) \/ EndOperation(t)
  \/ LeaveFlush(t) \/ DispatchCall(t)
  \/ Route(t) \/ RouteOperation(t) \/ QueueReentrantEvent(t) \/ PushHeld(t)
  \/ BeginDrain(t) \/ Pop(t) \/ TakeDeferredEvent(t) \/ KeepDeferred(t)
  \/ SelectState(t)
  \/ EndBehavior(t)
  \/ Ignore(t) \/ Defer(t) \/ DeferredOwner(t) \/ Transit(t) \/ PushFinal(t) \/ Fail(t)
  \/ DropExited(t) \/ PushDeferred(t) \/ RecordDeferred(t) \/ TakeReentrant(t) \/ FlushReentrant(t)
  \/ ReleaseDrain(t) \/ WipeReentrant(t)
  \/ (pc[t] = "start" /\ Start(t)) \/ AdmitStart(t) \/ Activate(t)
  \/ StopReads(t) \/ StopExits(t) \/ ClearQueue(t) \/ ClearDeferred(t) \/ SwitchOff(t)

\* What the environment, the behaviours and the operations choose to do.
Invokes(t) ==
  \/ Dispatch(t) \/ Set(t) \/ Call(t) \/ (pc[t] # "operate" /\ BeginOperation(t))
  \/ OperationReenters(t) \/ ActivityDispatches(t) \/ BehaviorDispatches(t)
  \/ ExitDispatches(t) \/ BeginBehavior(t)
  \/ AbandonDrain(t) \/ AbandonOperation(t) \/ AbandonStop(t)
  \/ (pc[t] = "idle" /\ Start(t)) \/ Stop(t) \/ Restart(t)

Next == \E t \in Threads : Proceeds(t) \/ Invokes(t)

Spec == Init /\ [][Next]_vars

\* Behaviours and operations terminate, and a thread that holds no lock is
\* scheduled again.
FairSpec == Spec /\ \A t \in Threads : WF_vars(Proceeds(t))

-----------------------------------------------------------------------------
(***************************************************************************)
(* Properties                                                              *)
(***************************************************************************)

\* The labels at which a thread holds the DrainGuard.
Processing == {"run", "behave", "decide", "owner"}

InDrain == Processing \cup {"pop", "match", "matched", "select", "final", "requeue", "replay",
                           "record", "requeueAll", "recordAll", "take", "flush", "release"}

Labels == InDrain \cup
  {"idle", "dispatch", "set", "call", "operate", "body", "operated", "takeOperation",
   "flushOperation", "again", "route", "routeOperation", "setAside", "push", "drain",
   "wipe", "start", "starting", "activate", "stop", "stopping", "restarting",
   "clearQueue", "clearDeferred", "off"}

TypeOK ==
  /\ queue \in QueueOf(AllEvents)
  /\ activeDrain \in BOOLEAN
  /\ pendingReentrant \in Seq(Events)
  /\ activeOperations \in Nat
  /\ deferredEvents \in Seq(Record)
  /\ currentState \in Vertices
  /\ pc \in [Threads -> Labels]
  /\ next \in [Threads -> {"idle", "again", "body", "start"} \cup Stopping]
  /\ held \in [Threads -> AllEvents \cup {None}]
  /\ seen \in [Threads -> Vertices]
  /\ popped \in [Threads -> AllEvents \cup {None}]
  /\ taken \in [Threads -> Record \cup {None}]
  /\ source \in [Threads -> Vertices]
  /\ local \in [Threads -> Seq(Record)]
  /\ carry \in [Threads -> Seq(Events)]
  /\ fate \in [Events -> Fates]
  /\ stopped \in BOOLEAN

\* At most one thread is between begin_drain and the drop of its guard, and the
\* key is in ACTIVE_DRAINS exactly while one is: no two events are ever
\* processed at once (hsm_impl.rs:731-739, 178-183).
DrainExclusive ==
  /\ activeDrain <=> \E t \in Threads : pc[t] \in InDrain
  /\ \A t, u \in Threads : pc[t] \in InDrain /\ pc[u] \in InDrain => t = u

\* Where event e is: the thread it was passed to, the queue, the set-aside
\* events, a flush under way, the event being processed, the drain's deferrals.
At(e, s) == {i \in DOMAIN s : s[i] = e}

Pushed == {"record", "recordAll"}

Places(e) ==
  ({"held"} \X {t \in Threads : held[t] = e} \X {0})
  \cup ({"popped"} \X {t \in Threads : popped[t] = e} \X {0})
  \cup ({"completion"} \X {None} \X At(e, queue.completion))
  \cup ({"regular"} \X {None} \X At(e, queue.regular))
  \cup ({"pending"} \X {None} \X At(e, pendingReentrant))
  \cup (UNION {{"carry"} \X {t} \X At(e, carry[t]) : t \in Threads})
  \cup (UNION {{"local"} \X {t} \X {i \in DOMAIN local[t] : local[t][i].event = e} :
                 t \in {u \in Threads : pc[u] \notin Pushed}})

Copies(e) == Cardinality(Places(e))

\* An event the machine has accepted and not yet settled is in one place, and a
\* settled one is nowhere: nothing is lost or run twice on the way through
\* queue, drain, deferral and flush.
Conserved == \A e \in Events : Copies(e) = IF fate[e] = "open" THEN 1 ELSE 0

\* The depth of ACTIVE_OPERATIONS is the number of operations that are running:
\* were it ever short of its zero, every later call event would be set aside and
\* no operation would flush (hsm_impl.rs:745-769).
OperationsCounted ==
  activeOperations =
    Cardinality({t \in Threads : pc[t] = "body" \/ next[t] = "body"})
    + Cardinality({t \in Threads : pc[t] = "behave"})

\* While an event is processed, the state it was selected in stays the current
\* one: the clone taken by process_single_event is not stale when the result is
\* written back (hsm_impl.rs:955, 1022).
StateStable ==
  \A t \in Threads : pc[t] \in Processing => seen[t] = currentState

\* Once stop has returned the machine stays off until a start, as
\* tests/dispatch_results_test.rs has it after Stop.
StaysStopped == stopped => currentState = Off

\* An event in the queue that is waiting for its deferral to end.
Parked(e) ==
  \E i \in DOMAIN deferredEvents :
    deferredEvents[i].event = e /\ deferredEvents[i].owner \in Ancestors[currentState]

\* When every call has returned, each event the machine accepted has been
\* settled, or is deferred by an active state.
Quiet == \A t \in Threads : pc[t] = "idle"

NothingStranded == Quiet => \A e \in Events : fate[e] = "open" => Parked(e)

\* Events set aside for the end of the running event are not thrown away.
ReentrantKept == \A e \in Events : fate[e] # "wiped"

-----------------------------------------------------------------------------
(***************************************************************************)
(* Refinement                                                              *)
(***************************************************************************)

Running(e) == \E t \in Threads : popped[t] = e /\ pc[t] \in Processing

Status ==
  [e \in Events |->
     IF fate[e] = "open"
     THEN IF \E t \in Threads : held[t] = e THEN "offered"
          ELSE IF Running(e) THEN "running" ELSE "waiting"
     ELSE IF fate[e] \in {"failed", "dropped", "cleared", "wiped", "abandoned"} THEN "lost"
          ELSE fate[e]]

\* What each entry point may cost an accepted event: events set aside go with
\* the guard, a stop discards the queue, an error and a dropped future discard
\* what the drain had deferred, leaving a submachine what it had deferred; and a
\* start that races another resets the state that was to defer an event.
Inside == {a \in States : (Ancestors[a] \ {a}) \cap Submachines # {}}

Losable ==
  IF Api \cap {"start", "stop", "restart", "abandon"} # {} \/ Failing # {} THEN Events
  ELSE {e \in Events : \/ e \in Calls
                       \/ "activity" \in Api /\ e \in Changes
                       \/ \E a \in Inside : <<a, Name[e]>> \in Defers}

Contract == INSTANCE Mailbox WITH status <- Status

\* The runtime keeps the mailbox's promise: one event at a time, each run once,
\* and a plain dispatch or set is never lost while the machine is not stopped.
RunToCompletion == Contract!Spec

-----------------------------------------------------------------------------
(***************************************************************************)
(* Liveness                                                                *)
(***************************************************************************)

\* Every call of the machine's functions returns: drains end, deferral and
\* replay do not chase each other (hsm_impl.rs:911-951).
CallsReturn == \A t \in Threads : pc[t] # "idle" ~> pc[t] = "idle"

\* An accepted event is settled, or comes to wait for the state that defers it.
Settles == \A e \in Events : fate[e] = "open" ~> (fate[e] # "open" \/ Parked(e))
=============================================================================
