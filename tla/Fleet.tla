-------------------------------- MODULE Fleet --------------------------------
(***************************************************************************)
(* Machines that share contexts: the registry under which a context finds  *)
(* its machines (CONTEXT_REGISTRIES), the fan-outs dispatch_all and        *)
(* dispatch_to, dispatch_from_context, and groups.  A fan-out or a group   *)
(* serves its machines one after the other and awaits each; in between,    *)
(* other tasks start, stop and restart machines, and the behaviour that an *)
(* event runs may itself fan out to the context, back to the machine it    *)
(* belongs to included.                                                    *)
(*                                                                         *)
(* Of a machine only whether it is in a state, its queue and its drain are *)
(* kept; the steps inside dispatch, drain_queue and stop are Runtime's.    *)
(***************************************************************************)
EXTENDS Naturals, Sequences, FiniteSets, SequencesExt

CONSTANTS
  Machines, Contexts,
  Names,       \* what machines are registered by
  Name,        \* per machine its id or, if that is empty, its name
  Id,          \* per machine its id, None if that is empty
  Precedes,    \* pairs of machines whose ids are in order
  Home,        \* per machine the context it was made with
  Cancellable, \* contexts that somebody may cancel
  Groups,      \* sequences of machines, with_members having flattened them
  Clients,     \* tasks that use the machines
  Offers,      \* per client the calls it makes: [verb, ctx, over], over as in Calls
  Nested,      \* calls that behaviours make
  MaxNested,   \* a bound on these
  MaxCalls,    \* a bound on the calls of each client
  MaxQueued,   \* a bound: clients dispatch only while queues are shorter
  None

SingleVerbs == {"dispatch", "start", "stop", "restart"}

\* Calls on one machine, on the context's machines of some ids (those that the patterns given
\* match, which may match the empty one; none given are all), on its current machine, and on
\* a group.
Calls == [verb : SingleVerbs, ctx : Contexts, over : Machines]
           \cup [verb : {"fan out"}, ctx : Contexts, over : SUBSET (Names \cup {None})]
           \cup [verb : {"to current"}, ctx : Contexts, over : {None}]
           \cup [verb : {"group dispatch", "group start", "group stop", "group restart"},
                 ctx : Contexts, over : Groups]

ASSUME FleetAssumption ==
  /\ Name \in [Machines -> Names] /\ Home \in [Machines -> Contexts]
  /\ \A m \in Machines : Id[m] \in {Name[m], None}
  /\ Precedes \subseteq Machines \X Machines
  /\ \A g \in Groups : g \in Seq(Machines)
  /\ Cancellable \subseteq Contexts
  /\ \A c \in Clients : Offers[c] \subseteq Calls
  /\ Nested \subseteq Calls
  /\ MaxNested \in Nat /\ MaxCalls \in [Clients -> Nat] /\ MaxQueued \in Nat
  /\ None \notin Names \cup Machines \cup Clients
  /\ IsFiniteSet(Machines)

Lifecycle(call) == call.verb \in {"start", "stop", "restart", "group start", "group stop",
                                  "group restart"}

\* The machines a lifecycle call is on.
On(call) ==
  {m \in Machines : \/ call.over = m
                    \/ call.over \in Groups /\ m \in Range(call.over)}

\* Two machines never go by one name.
NamesApart == \A m, n \in Machines : Name[m] = Name[n] => m = n

\* Each machine is started, stopped and restarted by one client at most, and
\* not by behaviours.  (A stop that another's start overtakes takes back the
\* registration of the machine just started: hsm_impl.rs 301-335.)
OneController ==
  /\ \A call \in Nested : ~Lifecycle(call)
  /\ \E controller \in [Machines -> Clients \cup {None}] :
       \A c \in Clients : \A call \in Offers[c] :
         Lifecycle(call) => \A m \in On(call) : controller[m] = c

VARIABLES
  state,      \* "" when stopped, "root" when the machine is in no state, "in" else
  queue,      \* per machine its queued events: "init", "event"
  drainer,    \* per machine the client that drains it, or None
  registry,   \* per context: [current, machines], machines by name
  cancelled,  \* the contexts that are cancelled
  frames,     \* per client its calls under way, each made by a behaviour of the one below
  nested,     \* how many calls behaviours have made
  made,       \* how many each client has made
  started     \* history: machines started without an error, and not stopped since

vars == <<state, queue, drainer, registry, cancelled, frames, nested, made, started>>

NoMachines == [n \in Names |-> None]

Init ==
  /\ state = [m \in Machines |-> ""]
  /\ queue = [m \in Machines |-> <<>>]
  /\ drainer = [m \in Machines |-> None]
  /\ registry = [k \in Contexts |-> [current |-> None, machines |-> NoMachines]]
  /\ cancelled = {}
  /\ frames = [c \in Clients |-> <<>>]
  /\ nested = 0
  /\ made = [c \in Clients |-> 0]
  /\ started = {}

-----------------------------------------------------------------------------
(***************************************************************************)
(* The registry                                                            *)
(***************************************************************************)

\* Mutant of Registered: the current machine is kept itself, not by name.
RegisteredHandle(r, k, m) ==
  [r EXCEPT ![k] = [current |-> m, machines |-> [@.machines EXCEPT ![Name[m]] = m]]]

\* register_context_machine: the last one registered is current; a namesake is replaced.
Registered(r, k, m) ==
  [r EXCEPT ![k] = [current |-> Name[m], machines |-> [@.machines EXCEPT ![Name[m]] = m]]]

\* Mutant of Unregistered: the context's entry goes with its current machine.
UnregisteredAll(r, k, m) ==
  [r EXCEPT ![k] = IF @.current = Name[m]
                   THEN [current |-> None, machines |-> NoMachines]
                   ELSE [@ EXCEPT !.machines[Name[m]] = None]]

\* unregister_context_machine: whoever has the name goes.
Unregistered(r, k, m) ==
  [r EXCEPT ![k] = [current  |-> IF @.current = Name[m] THEN None ELSE @.current,
                    machines |-> [@.machines EXCEPT ![Name[m]] = None]]]

\* Machines sorted by id.
Sorted(S) == {s \in SetToSeqs(S) : \A i, j \in DOMAIN s : i < j /\ <<s[j], s[i]>> \in Precedes
                                                         => <<s[i], s[j]>> \in Precedes}

-----------------------------------------------------------------------------

Draining(m) == drainer[m] # None

IsInactive(m) == ~Draining(m) /\ state[m] # "in"

\* Mutant of CanReceiveDispatch: a machine that drains is passed over.
CanReceiveIdle(m) == ~Draining(m) /\ state[m] = "in"

CanReceiveDispatch(m) == ~IsInactive(m) \/ Draining(m)

Top(c) == Last(frames[c])

Busy(c) == frames[c] # <<>>

Machine(c) == Head(Top(c).todo)

SetTop(c, f) == frames' = [frames EXCEPT ![c] = Append(Front(@), f)]

At(c, at) == Busy(c) /\ Top(c).at = at /\ Top(c).todo # <<>>

Goto(c, at) == SetTop(c, [Top(c) EXCEPT !.at = at])

\* The machine is done with, the next one is served.
Served(f) == [f EXCEPT !.at = "next", !.todo = Tail(@)]

Next1(c) == SetTop(c, Served(Top(c)))

\* `?': the machines that are left are not served.
Refused(c) == SetTop(c, [Top(c) EXCEPT !.at = "next", !.todo = <<>>, !.event = None,
                                   !.source = "", !.result = "error"])

\* A call: what it does to each of which machines, and for a fan-out the machines that
\* are in a state when it begins.
Frame(call, verb, todo) ==
  [verb |-> verb, ctx |-> call.ctx, todo |-> todo, at |-> "next", result |-> "ok",
   event |-> None, source |-> "",
   skips |-> call.verb = "group dispatch", reached |-> {},
   due |-> IF call.verb = "fan out"
           THEN {m \in started : /\ Home[m] = call.ctx /\ state[m] = "in"
                                 /\ call.over = {} \/ Id[m] \in call.over}
           ELSE {}]

\* The frame that each kind of call begins with; one that is refused at once has none.

OnMachine(call) == {Frame(call, call.verb, <<m>>) : m \in Machines \cap {call.over}}

FanOut(call) ==
  LET asked == {m \in Machines : /\ registry[call.ctx].machines[Name[m]] = m
                                 /\ CanReceiveDispatch(m)
                                 /\ call.over = {} \/ Id[m] \in call.over}
  IN  {Frame(call, "dispatch", s) : s \in Sorted(asked)}

ToCurrent(call) ==
  LET r == registry[call.ctx]
      current == {n \in Names : r.current = n /\ r.machines[n] # None}
  IN  {Frame(call, "dispatch", <<r.machines[n]>>) : n \in current}

GroupDispatch(call) == {Frame(call, "dispatch", call.over)}

GroupStart(call) ==
  IF \E m \in Range(call.over) : ~IsInactive(m) THEN {} ELSE {Frame(call, "start", call.over)}

GroupStop(call) == {Frame(call, "stop", call.over)}

GroupRestart(call) == {Frame(call, "restart", call.over)}

Frames(call) ==
  CASE call.verb \in SingleVerbs     -> OnMachine(call)
    [] call.verb = "fan out"        -> FanOut(call)
    [] call.verb = "to current"     -> ToCurrent(call)
    [] call.verb = "group dispatch" -> GroupDispatch(call)
    [] call.verb = "group start"    -> GroupStart(call)
    [] call.verb = "group stop"     -> GroupStop(call)
    [] call.verb = "group restart"  -> GroupRestart(call)

Push(c, f) == frames' = [frames EXCEPT ![c] = Append(@, f)]

Invoke(c) ==
  /\ ~Busy(c)
  /\ made[c] < MaxCalls[c]
  /\ made' = [made EXCEPT ![c] = @ + 1]
  /\ \E call \in Offers[c] :
       /\ call.verb \in {"dispatch"} => Len(queue[call.over]) < MaxQueued
       /\ \E f \in Frames(call) : Push(c, f)
  /\ UNCHANGED <<state, queue, drainer, registry, cancelled, nested, started>>

\* All served, or given up: the caller goes on.
Return(c) ==
  /\ Busy(c) /\ Top(c).todo = <<>>
  /\ frames' = [frames EXCEPT ![c] = Front(@)]
  /\ UNCHANGED <<state, queue, drainer, registry, cancelled, nested, made, started>>

Cancel(k) ==
  /\ k \notin cancelled
  /\ cancelled' = cancelled \cup {k}
  /\ UNCHANGED <<state, queue, drainer, registry, frames, nested, made, started>>

-----------------------------------------------------------------------------
(***************************************************************************)
(* dispatch                                                                *)
(***************************************************************************)

\* A group passes over members that are not started ...
PassOver(c) ==
  /\ At(c, "next") /\ Top(c).verb = "dispatch" /\ Top(c).skips
  /\ IF IsInactive(Machine(c)) THEN Next1(c) ELSE Goto(c, "check")
  /\ UNCHANGED <<state, queue, drainer, registry, cancelled, nested, made, started>>

\* ... which dispatch itself refuses.
Dispatch(c) ==
  /\ \/ At(c, "next") /\ Top(c).verb = "dispatch" /\ ~Top(c).skips
     \/ At(c, "check")
  /\ IF IsInactive(Machine(c)) THEN Refused(c) ELSE Goto(c, "push")
  /\ UNCHANGED <<state, queue, drainer, registry, cancelled, nested, made, started>>

\* dispatch_queued, of the initial event by start: the event is queued ...
DispatchQueued(c) ==
  /\ At(c, "push")
  /\ LET f == Top(c)
         m == Machine(c)
     IN /\ queue' = [queue EXCEPT ![m] = Append(@, IF f.verb = "dispatch" THEN "event" ELSE "init")]
        /\ SetTop(c, [f EXCEPT !.at = "register", !.reached = @ \cup {m}])
  /\ UNCHANGED <<state, drainer, registry, cancelled, nested, made, started>>

\* ... drain_queue registers the machine under the context it is called with ...
RegisterToDrain(c) ==
  /\ At(c, "register")
  /\ LET m == Machine(c)
     IN registry' = Registered(registry, IF Top(c).verb = "dispatch" THEN Top(c).ctx ELSE Home[m], m)
  /\ Goto(c, "begin")
  /\ UNCHANGED <<state, queue, drainer, cancelled, nested, made, started>>

\* Mutant of BeginDrain: who finds the machine draining waits its turn.
WaitToDrain(c, m) ==
  /\ ~Draining(m)
  /\ drainer' = [drainer EXCEPT ![m] = c]
  /\ Goto(c, "drain")

\* ... and who finds the machine draining is done with it.
BeginDrain(c, m) ==
  /\ drainer' = [drainer EXCEPT ![m] = IF Draining(m) THEN @ ELSE c]
  /\ IF Draining(m) THEN Next1(c) ELSE Goto(c, "drain")

JoinDrain(c) ==
  /\ At(c, "begin")
  /\ BeginDrain(c, Machine(c))
  /\ UNCHANGED <<state, queue, registry, cancelled, nested, made, started>>

TakeEvent(c) ==
  /\ At(c, "drain")
  /\ LET m == Machine(c)
     IN /\ queue[m] # <<>>
        /\ queue' = [queue EXCEPT ![m] = Tail(@)]
        /\ SetTop(c, [Top(c) EXCEPT !.at = "process", !.event = Head(queue[m]),
                                    !.source = state[m]])
  /\ UNCHANGED <<state, drainer, registry, cancelled, nested, made, started>>

\* The state that the event leads to from the one it was taken in.  The initial event takes
\* the machine to a state, or does not when a behaviour aborts.
Process(c) ==
  /\ At(c, "process")
  /\ LET f == Top(c)
     IN \/ UNCHANGED state
        \/ /\ \/ f.source = "in"
              \/ f.source = "root" /\ f.event = "init"
           /\ state' = [state EXCEPT ![Machine(c)] = "in"]
  /\ SetTop(c, [Top(c) EXCEPT !.at = "drain", !.event = None, !.source = ""])
  /\ UNCHANGED <<queue, drainer, registry, cancelled, nested, made, started>>

\* Its behaviours, and those that stop runs, make calls of their own.
CallFromBehavior(c) ==
  /\ At(c, "process") \/ At(c, "exit")
  /\ nested < MaxNested
  /\ nested' = nested + 1
  /\ \E call \in Nested : \E f \in Frames(call) : Push(c, f)
  /\ UNCHANGED <<state, queue, drainer, registry, cancelled, made, started>>

\* The queue is found empty ...
EndDrain(c) ==
  /\ At(c, "drain") /\ queue[Machine(c)] = <<>>
  /\ Goto(c, "release")
  /\ UNCHANGED <<state, queue, drainer, registry, cancelled, nested, made, started>>

\* ... and the drain given up: what was queued in between waits for the next one.
ReleaseDrain(c) ==
  /\ At(c, "release")
  /\ drainer' = [drainer EXCEPT ![Machine(c)] = None]
  /\ Next1(c)
  /\ UNCHANGED <<state, queue, registry, cancelled, nested, made, started>>

\* An exit point that nothing leaves: the drain ends with an error, whoever queued the event
\* that led there ...
FailDrain(c) ==
  /\ At(c, "process")
  /\ drainer' = [drainer EXCEPT ![Machine(c)] = None]
  /\ IF Top(c).verb = "dispatch" THEN Refused(c) ELSE Goto(c, "withdraw")
  /\ UNCHANGED <<state, queue, registry, cancelled, nested, made, started>>

\* ... and a start that made the drain takes its registration back.
Withdraw(c) ==
  /\ At(c, "withdraw")
  /\ LET m == Machine(c)
     IN /\ registry' = Unregistered(registry, Home[m], m)
        /\ started' = started \ {m}
  /\ Refused(c)
  /\ UNCHANGED <<state, queue, drainer, cancelled, nested, made>>

-----------------------------------------------------------------------------
(***************************************************************************)
(* start, stop, restart                                                    *)
(***************************************************************************)

StartChecks(c) ==
  /\ \/ At(c, "next") /\ Top(c).verb = "start"
     \/ At(c, "start")
  /\ IF IsInactive(Machine(c)) THEN Goto(c, "activate") ELSE Refused(c)
  /\ UNCHANGED <<state, queue, drainer, registry, cancelled, nested, made, started>>

Activate(c) ==
  /\ At(c, "activate")
  /\ state' = [state EXCEPT ![Machine(c)] = "root"]
  /\ Goto(c, "enlist")
  /\ UNCHANGED <<queue, drainer, registry, cancelled, nested, made, started>>

\* start registers the machine under its own context before it queues the initial event.
Enlist(c) ==
  /\ At(c, "enlist")
  /\ LET m == Machine(c)
     IN /\ registry' = Registered(registry, Home[m], m)
        /\ started' = started \cup {m}
  /\ Goto(c, "push")
  /\ UNCHANGED <<state, queue, drainer, cancelled, nested, made>>

\* restart wants a machine that is in a state.
RestartChecks(c) ==
  /\ At(c, "next") /\ Top(c).verb = "restart"
  /\ IF state[Machine(c)] = "in" THEN Goto(c, "stop") ELSE Refused(c)
  /\ UNCHANGED <<state, queue, drainer, registry, cancelled, nested, made, started>>

\* After stop a restart goes on with start.
Stopped(c) == IF Top(c).verb = "restart" THEN Goto(c, "start") ELSE Next1(c)

\* stop does nothing under a cancelled context, or to a machine that is in no state.
StopBegins(c) ==
  /\ \/ At(c, "next") /\ Top(c).verb = "stop"
     \/ At(c, "stop")
  /\ LET m == Machine(c)
         k == Top(c).ctx
     IN IF k \in cancelled \/ state[m] # "in"
        THEN Stopped(c) /\ UNCHANGED registry
        ELSE Goto(c, "exit") /\ registry' = Registered(registry, k, m)
  /\ UNCHANGED <<state, queue, drainer, cancelled, nested, made, started>>

SwitchOff(c) ==
  /\ At(c, "exit")
  /\ queue' = [queue EXCEPT ![Machine(c)] = <<>>]
  /\ state' = [state EXCEPT ![Machine(c)] = ""]
  /\ started' = started \ {Machine(c)}
  /\ Goto(c, "unregister")
  /\ UNCHANGED <<drainer, registry, cancelled, nested, made>>

StopUnregisters(c) ==
  /\ At(c, "unregister")
  /\ LET m == Machine(c)
     IN registry' = Unregistered(Unregistered(registry, Home[m], m), Top(c).ctx, m)
  /\ Stopped(c)
  /\ UNCHANGED <<state, queue, drainer, cancelled, nested, made, started>>

-----------------------------------------------------------------------------

Step(c) == \/ Return(c) \/ PassOver(c) \/ Dispatch(c) \/ DispatchQueued(c)
           \/ RegisterToDrain(c) \/ JoinDrain(c) \/ TakeEvent(c) \/ Process(c)
           \/ EndDrain(c) \/ ReleaseDrain(c) \/ FailDrain(c) \/ Withdraw(c)
           \/ StartChecks(c) \/ Activate(c) \/ Enlist(c) \/ RestartChecks(c)
           \/ StopBegins(c) \/ SwitchOff(c) \/ StopUnregisters(c)

Next ==
  \/ \E c \in Clients : Invoke(c) \/ Step(c) \/ CallFromBehavior(c)
  \/ \E k \in Cancellable : Cancel(k)

\* A task that can go on does: tasks are scheduled, and behaviours return.
Fairness == \A c \in Clients : WF_vars(Step(c))

Spec == Init /\ [][Next]_vars /\ Fairness

-----------------------------------------------------------------------------
(***************************************************************************)
(* Properties                                                              *)
(***************************************************************************)

Steps == {"next", "check", "push", "register", "begin", "drain", "process", "release", "withdraw",
          "start", "activate", "enlist", "stop", "exit", "unregister"}

FrameType == [verb : SingleVerbs, ctx : Contexts, todo : Seq(Machines), at : Steps,
              event : {"init", "event", None}, source : {"", "root", "in"},
              result : {"ok", "error"}, skips : BOOLEAN,
              reached : SUBSET Machines, due : SUBSET Machines]

TypeOK ==
  /\ state \in [Machines -> {"", "root", "in"}]
  /\ queue \in [Machines -> Seq({"init", "event"})]
  /\ drainer \in [Machines -> Clients \cup {None}]
  /\ registry \in [Contexts -> [current  : Names \cup {None},
                                machines : [Names -> Machines \cup {None}]]]
  /\ cancelled \subseteq Contexts
  /\ frames \in [Clients -> Seq(FrameType)]
  /\ nested \in 0 .. MaxNested
  /\ made \in [Clients -> Nat] /\ \A c \in Clients : made[c] <= MaxCalls[c]
  /\ started \subseteq Machines

(***************************************************************************)
(* A machine that was started and is in a state is found under the context *)
(* it was made with, whatever contexts it is used, stopped and restarted   *)
(* with and whatever becomes of the other machines there                   *)
(* (context_runtime.rs 68-98).                                             *)
(***************************************************************************)
Findable ==
  \A m \in started : state[m] = "in" => registry[Home[m]].machines[Name[m]] = m

(***************************************************************************)
(* A fan-out that returns Ok has reached every machine of the context that *)
(* was in a state when it began ("dispatch_all_reaches_all_started_        *)
(* instances", tests/context_fanout_test.rs 201), though others stop and   *)
(* restart them while it waits.                                            *)
(***************************************************************************)
ReachesAllStarted ==
  \A c \in Clients :
    Busy(c) /\ Top(c).todo = <<>> /\ Top(c).result = "ok" => Top(c).due \subseteq Top(c).reached

(***************************************************************************)
(* Every call returns: behaviours may fan out to the machine they belong   *)
(* to, and machines to one another, and none waits for the other, since a  *)
(* dispatch to a machine that drains only queues.                          *)
(***************************************************************************)
CallsEnd == \A c \in Clients : Busy(c) ~> ~Busy(c)

=============================================================================
