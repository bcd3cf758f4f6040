---------------------------- MODULE Interpreter -----------------------------
(***************************************************************************)
(* What one event does to the machine (hsm_impl.rs, process_single_event   *)
(* and execute_transition): selection from the innermost active state      *)
(* outwards, exit, effect and entry along the transition's path, initial   *)
(* transitions, choices, entry and exit points, history, final states and  *)
(* behaviours that abort; and start and stop.                              *)
(*                                                                         *)
(* A step is one guard, one behaviour or one list of effects.  Every call  *)
(* that the code makes from the end of entering a state (to an initial     *)
(* transition, or out of a pseudostate) is its last, so one frame is       *)
(* enough: transition, exits, enters, target, result.                      *)
(***************************************************************************)
EXTENDS Hierarchy, Filtering

CONSTANTS
  Kind,          \* the kind of each vertex
  Initial,       \* the initial vertex of each state, or Nothing
  Outgoing,      \* vertex.transitions, in their order: source, target or Nothing, whether
                 \* there is a guard, the state it was declared in, the events' names
  Defers,        \* the defer list of each state
  Timed,         \* the states with activities or timers
  EventNames,    \* of the events dispatched
  AnyEvent, InitialEvent, FinalEvent,
  AbortBound,    \* behaviours panic or ask for an abort as long as every state has
                 \* fewer live contexts than this
  Off            \* the empty current_state of a machine that is not started

Kinds == {"initial", "choice", "shallow", "deep", "entry", "exit",
          "state", "submachine", "final"}

States == {v \in Vertices : Kind[v] \in {"state", "submachine", "final"}}

Pseudostates == Vertices \ States

Regions == States \cup {Root}

\* The states whose entry in shallow_history, or in deep_history, is ever read.
Shallows == {Parent[v] : v \in {w \in Vertices : Kind[w] = "shallow"}}
Deeps == {Parent[v] : v \in {w \in Vertices : Kind[w] = "deep"}}
Recalled == Shallows \cup Deeps

AllNames == EventNames \cup {AnyEvent, InitialEvent, FinalEvent}

Transitions == UNION {ToSet(Outgoing[v]) : v \in Names}

(***************************************************************************)
(* What validate_model makes sure of before a machine starts               *)
(***************************************************************************)

OfKind(v, k) == v \in Vertices /\ Kind[v] = k

IsHistory(v) == OfKind(v, "shallow") \/ OfKind(v, "deep")

InitialOf(s) == IF Initial[s] = Nothing THEN <<>> ELSE Outgoing[Initial[s]]

\* enclosing_submachine_boundary: the innermost submachine state around v.
Boundary(v) ==
  LET around == {s \in Ancestors[v] \ {v} : OfKind(s, "submachine")}
  IN  IF around = {} THEN Nothing ELSE CHOOSE s \in around : around \subseteq Ancestors[s]

Inside(boundary, v) == boundary = Nothing \/ boundary \in Ancestors[v]

\* validate_submachine_boundary: only exit and entry points cross one.
BoundaryRespected(t) ==
  LET from == Boundary(t.source)
      to   == Boundary(t.target)
  IN  \/ OfKind(t.source, "exit")
      \/ /\ Inside(from, t.owner)
         /\ to = from \/ (to # Nothing /\ Inside(from, to))
         /\ to = from \/ Inside(to, t.owner) \/ OfKind(t.target, "entry")

\* validate_entry_point_target.
EntryPointTarget(t) ==
  OfKind(t.target, "entry") /\ t.source # Root =>
    /\ OfKind(Parent[t.target], "submachine")
    /\ \/ OfKind(t.source, "exit") \/ t.source = Parent[t.target]
       \/ Parent[t.target] \notin Ancestors[t.source]

\* A composite state that is a target has an initial transition.
Composite(s) == \E c \in States : Parent[c] = s

ValidTransition(t) ==
  /\ t.target = Nothing => ~\E k \in {"initial", "choice", "shallow", "deep", "entry"} :
                              OfKind(t.source, k)
  /\ t.target # Nothing => BoundaryRespected(t) /\ EntryPointTarget(t)
  /\ (t.target \in States /\ Composite(t.target)) => Initial[t.target] # Nothing
  /\ t.source \in Regions => t.events # {}
  /\ t.source \in Pseudostates =>
       t.events = IF OfKind(t.source, "initial") THEN {InitialEvent} ELSE {}
  /\ (\E k \in {"initial", "shallow", "deep", "entry"} : OfKind(t.source, k)) =>
       Parent[t.source] \in Ancestors[t.target]
  /\ OfKind(t.source, "exit") => Boundary(t.source) # Nothing

ValidVertex(v) ==
  LET out == Outgoing[v]
  IN  CASE Kind[v] = "initial" -> Len(out) <= 1 /\ \A i \in DOMAIN out : ~out[i].guarded
        [] Kind[v] = "entry"   -> Len(out) = 1 /\ ~out[1].guarded
                                  /\ ~OfKind(out[1].target, "entry")
                                  /\ ~OfKind(out[1].target, "exit")
        [] Kind[v] = "choice"  -> out # <<>>
                                  /\ \A i \in DOMAIN out : out[i].guarded <=> i < Len(out)
        [] Kind[v] \in {"shallow", "deep"} ->
             /\ Parent[v] # Root /\ out # <<>>
             /\ \A w \in Vertices : Kind[w] = Kind[v] /\ Parent[w] = Parent[v] => w = v
        [] Kind[v] = "final"   -> out = <<>> /\ Defers[v] = {} /\ v \notin Timed
                                  /\ Initial[v] = Nothing /\ ~Composite(v)
        [] OTHER -> TRUE

ASSUME InterpreterAssumption ==
  /\ Kind \in [Vertices -> Kinds]
  /\ Initial \in [Regions -> Vertices \cup {Nothing}] /\ Initial[Root] # Nothing
  /\ \A s \in Regions : Initial[s] # Nothing => OfKind(Initial[s], "initial") /\ Parent[Initial[s]] = s
  /\ \A v \in Vertices : Parent[v] \in Regions
  /\ DOMAIN Outgoing = Names /\ \A v \in Names : Outgoing[v] \in Seq(ToSet(Outgoing[v]))
  /\ \A v \in Names : \A t \in ToSet(Outgoing[v]) :
       /\ DOMAIN t = {"source", "target", "guarded", "owner", "events"}
       /\ t.source = v /\ t.owner \in Names /\ t.target \in Names \cup {Nothing}
       /\ t.guarded \in BOOLEAN
       /\ t.events \subseteq EventNames \cup {AnyEvent, InitialEvent, FinalEvent}
  /\ Defers \in [Regions -> SUBSET (EventNames \cup {AnyEvent})] /\ Defers[Root] = {}
  /\ Timed \subseteq States /\ AbortBound \in Nat
  /\ Off \notin Names \cup {Nothing}
  /\ InitialEvent # FinalEvent /\ AnyEvent \notin {InitialEvent, FinalEvent}
  /\ {InitialEvent, FinalEvent, AnyEvent} \cap EventNames = {}

ASSUME ModelValid ==
  /\ \A t \in Transitions : ValidTransition(t)
  /\ \A v \in Vertices : ValidVertex(v)

(***************************************************************************)
(* What validate_model lets pass, and the proofs need                      *)
(***************************************************************************)

\* A machine comes to rest in a pseudostate that leads nowhere: an initial vertex
\* that is a target, or a history whose transitions are all guarded in a state
\* without an initial transition (its initial vertex may have none, too).  And only initial transitions are taken by the
\* initial event.
WaysOn ==
  /\ \A t \in Transitions : ~OfKind(t.target, "initial")
                          /\ (InitialEvent \in t.events => OfKind(t.source, "initial"))
  /\ \A v \in Vertices : Kind[v] \in {"shallow", "deep"} =>
       InitialOf(Parent[v]) # <<>> \/ \E t \in ToSet(Outgoing[v]) : ~t.guarded

\* A transition is given up half way: a behaviour aborts, or an exit point has no
\* transition that leads out of its submachine whatever the guards say.
Completed ==
  /\ AbortBound = 0
  /\ \A v \in Vertices : Kind[v] = "exit" =>
       \E t \in ToSet(Outgoing[v]) : ~t.guarded /\ t.target # Nothing

\* The vertices inside a state.
Beneath(r) == {v \in Vertices : r \in Ancestors[v] /\ v # r}

\* Where the entry of a vertex may go on to: along the initial transition of a state,
\* along those of a pseudostate, or to what a history remembers or falls back on.
Onward(v) ==
  IF v \in States THEN {t.target : t \in ToSet(InitialOf(v))}
  ELSE ({t.target : t \in ToSet(Outgoing[v])} \ {Nothing})
         \cup IF ~IsHistory(v) THEN {}
              ELSE {t.target : t \in ToSet(InitialOf(Parent[v]))} \cup {s \in States : Parent[s] = Parent[v]}

\* The vertices whose entry ends inside r, whatever the guards say.
Settles(r) == UNION {S \in SUBSET Beneath(r) : \A v \in S : Onward(v) \subseteq S}

\* A state is left without being remembered.  The interpreter remembers what is left
\* once, when it takes the transition of a state: not when the target is a history, not
\* when nothing is left as yet, and not when a pseudostate leads on.  What such a transition
\* may leave it comes back to; and no initial transition enters its own state again.
WaysBack ==
  /\ \A s \in Regions : Initial[s] # Nothing => s \notin {t.target : t \in ToSet(InitialOf(s))}
  /\ \A t \in Transitions, r \in Recalled :
       /\ t.source \in Regions
       /\ \/ IsHistory(t.target) /\ (r \in Ancestors[t.source] \/ t.source \in Ancestors[r])
          \/ t.target \in Beneath(t.source) /\ r \in Ancestors[t.source] \ {t.source}
       => t.target \in Settles(r)

VARIABLES
  currentState,  \* HSM::current_state
  shallow,       \* HSM::shallow_history, Nothing where there is no entry
  deep,          \* HSM::deep_history
  contexts,      \* the keys of HSM::state_contexts
  completion,    \* final_event() is in the queue
  \* of the event being processed
  pc,
  names,         \* lookup_names
  selecting,     \* selection_state
  rest,          \* transitions whose guards are still to be evaluated
  vertex,        \* the pseudostate they leave
  transition,    \* the one being executed, or None
  exits, enters, \* what is left of its path
  target,        \* the vertex whose entry is the default entry
  result,        \* the state to return when nothing is left to enter
  \* history
  active,        \* states entered and not exited since
  live,          \* contexts of each state that are not cancelled
  lastLeaf,      \* the last current state inside each state
  refused        \* transitions whose guard was false for this event

machine == <<currentState, shallow, deep, contexts, completion>>
frame == <<transition, exits, enters, target, result>>
vars == <<machine, pc, names, selecting, rest, vertex, frame, active, live, lastLeaf, refused>>

None == [source |-> Root, target |-> Nothing, guarded |-> FALSE, owner |-> Root, events |-> {}]

\* What process_single_event keeps in its own variables is gone when it returns.
Return ==
  /\ pc' = "idle"
  /\ names' = <<>> /\ selecting' = Nothing /\ rest' = <<>> /\ vertex' = Nothing
  /\ transition' = None /\ exits' = <<>> /\ enters' = <<>>
  /\ target' = Nothing /\ result' = Nothing
  /\ refused' = {}

Init ==
  /\ currentState = Off
  /\ shallow = [s \in Shallows |-> Nothing]
  /\ deep = [s \in Deeps |-> Nothing]
  /\ contexts = {}
  /\ completion = FALSE
  /\ pc = "idle"
  /\ names = <<>> /\ selecting = Nothing /\ rest = <<>> /\ vertex = Nothing
  /\ transition = None /\ exits = <<>> /\ enters = <<>>
  /\ target = Nothing /\ result = Nothing
  /\ active = {}
  /\ live = [s \in Timed |-> 0]
  /\ lastLeaf = [s \in Recalled |-> Nothing]
  /\ refused = {}

(***************************************************************************)
(* Outcomes                                                                *)
(***************************************************************************)

MayAbort == AbortBound > 0 /\ \A s \in Timed : live[s] < AbortBound

\* Ok(None), EventOutcome::Deferred or an error: the machine's state is kept.
Keep ==
  /\ Return
  /\ UNCHANGED <<currentState, shallow, deep, completion, lastLeaf>>

\* Ok(Some(s)): written back; arriving in a final state queues the final event.
Arrive(s) ==
  /\ Return
  /\ currentState' = s
  /\ completion' = (completion \/ (s # currentState /\ OfKind(s, "final")))
  /\ lastLeaf' = [r \in Recalled |-> IF r \in Ancestors[s] \ {s} THEN s ELSE lastLeaf[r]]

(***************************************************************************)
(* execute_transition                                                      *)
(***************************************************************************)

\* finalize_transition_kinds.
Internal(t) == t.target = Nothing

\* calculate_transition_paths: the one path of t computed in advance, and the
\* vertex it starts from.
PathKey(t) == IF ~Internal(t) /\ InitialEvent \in t.events THEN Dirname(t.source) ELSE t.source

Path == [from \in Names |-> [to \in Names |-> CalculatePath(from, to)]]

BasePath(t) ==
  IF Internal(t) THEN [exit |-> <<>>, enter |-> <<>>] ELSE Path[PathKey(t)][t.target]

\* A transition of an ancestor leaves what is below its source first.
Applies(from, t) == from = PathKey(t) \/ IsAncestorOrEqual(t.source, from)

PathFrom(from, t) ==
  IF from = PathKey(t) \/ Internal(t) THEN BasePath(t)
  ELSE [BasePath(t) EXCEPT !.exit = Below(t.source, from) \o @]

\* Mutant of ThroughBoundary: the submachine is left and not entered again.
BoundaryLeftOnly(t, path) ==
  LET boundary == Dirname(t.target)
  IN  IF /\ OfKind(t.target, "entry") /\ OfKind(boundary, "submachine")
         /\ IsAncestorOrEqual(boundary, t.source) /\ ~Contains(path.exit, boundary)
      THEN [path EXCEPT !.exit = Append(@, boundary)]
      ELSE path

\* entry_point_reentry_boundary: a submachine entered through an entry point
\* from inside is left and entered again.
ThroughBoundary(t, path) ==
  LET boundary == Dirname(t.target)
  IN  IF /\ OfKind(t.target, "entry") /\ OfKind(boundary, "submachine")
         /\ IsAncestorOrEqual(boundary, t.source)
      THEN [exit  |-> IF Contains(path.exit, boundary) THEN path.exit
                      ELSE Append(path.exit, boundary),
            enter |-> IF Contains(path.enter, boundary) THEN path.enter
                      ELSE <<boundary>> \o path.enter]
      ELSE path

\* build_history_table: from leaf upwards, each ancestor's child on the way.
ChildTowards(s, leaf) == CHOOSE c \in Ancestors[leaf] : Parent[c] = s

\* Mutant of RememberHistory: deep history is as shallow as the other.
RememberChild(leaf) ==
  LET above == IF leaf \in States THEN (Ancestors[leaf] \ {leaf}) \cap States ELSE {}
  IN  /\ shallow' = [s \in Shallows |-> IF s \in above THEN ChildTowards(s, leaf) ELSE shallow[s]]
      /\ deep' = [s \in Deeps |-> IF s \in above THEN ChildTowards(s, leaf) ELSE deep[s]]

RememberHistory(leaf) ==
  LET above == IF leaf \in States THEN (Ancestors[leaf] \ {leaf}) \cap States ELSE {}
  IN  /\ shallow' = [s \in Shallows |-> IF s \in above THEN ChildTowards(s, leaf) ELSE shallow[s]]
      /\ deep' = [s \in Deeps |-> IF s \in above THEN leaf ELSE deep[s]]

\* execute_transition(from, t) up to its first await.
Execute(from, t) ==
  IF ~Applies(from, t) THEN Keep
  ELSE \E path \in {ThroughBoundary(t, PathFrom(from, t))} :
         /\ transition' = t
         /\ exits' = Filter(path.exit, States)
         /\ enters' = Filter(path.enter, Vertices)
         /\ target' = t.target /\ result' = t.target
         /\ pc' = "exit"
         /\ names' = <<>> /\ selecting' = Nothing /\ rest' = <<>> /\ vertex' = Nothing
         /\ refused' = {}
         /\ IF path.exit # <<>> /\ ~IsHistory(t.target)
            THEN RememberHistory(from) ELSE UNCHANGED <<shallow, deep>>
         /\ UNCHANGED <<currentState, completion, lastLeaf>>

(***************************************************************************)
(* process_single_event: selection                                         *)
(***************************************************************************)

DeferredIn(s, name) == {name, AnyEvent} \cap Defers[s] # {}

\* A transition of s that was declared above s yields to the deferral of s,
\* unless s is a top level state.
Precedes(t, s, name) ==
  \/ s \in Ancestors[t.owner] \/ Dirname(s) = Root
  \/ ~DeferredIn(s, name)

\* build_transition_table, where each vertex keeps to its own transitions.
TransitionTable ==
  [v \in Names |-> [n \in AllNames |-> Filter(Outgoing[v], {t \in Transitions : n \in t.events})]]

\* The transitions looked at while s is selection_state: for each name in turn,
\* those of the state, then those of its initial vertex.
Candidates(s, ns) ==
  LET own(n) == Filter(TransitionTable[s][n], {t \in Transitions : Precedes(t, s, n)})
      ini(n) == IF Initial[s] = Nothing THEN <<>> ELSE TransitionTable[Initial[s]][n]
      of(n)  == IF s # Root THEN own(n) \o ini(n)
                ELSE IF currentState = Root THEN ini(n) ELSE own(n)
  IN  of(ns[1]) \o IF Len(ns) = 1 THEN <<>> ELSE of(ns[2])

LookupNames(e) == IF e = AnyEvent THEN <<e>> ELSE <<e, AnyEvent>>

Select(e) ==
  /\ pc' = "select"
  /\ names' = LookupNames(e)
  /\ UNCHANGED <<shallow, deep, contexts, frame, active, live, lastLeaf, vertex, refused>>

\* An event handed to a machine that is in a state; completion events first.
Dispatch ==
  /\ pc = "idle" /\ currentState \in States /\ ~completion
  /\ \E e \in EventNames : Select(e)
  /\ selecting' = currentState
  /\ rest' = Candidates(currentState, names')
  /\ UNCHANGED <<currentState, completion>>

Complete ==
  /\ pc = "idle" /\ completion
  /\ completion' = FALSE
  /\ Select(FinalEvent)
  /\ selecting' = currentState
  /\ rest' = Candidates(currentState, names')
  /\ UNCHANGED currentState

Start ==
  /\ pc = "idle" /\ currentState \in {Off, Root}
  /\ currentState' = Root
  /\ Select(InitialEvent)
  /\ selecting' = Root
  /\ rest' = InitialOf(Root)
  /\ UNCHANGED completion

\* A guard may be true or false; without one it is true.
GuardTrue ==
  /\ pc = "select" /\ rest # <<>>
  /\ Execute(currentState, Head(rest))
  /\ UNCHANGED <<contexts, active, live>>

GuardFalse ==
  /\ pc = "select" /\ rest # <<>> /\ Head(rest).guarded
  /\ rest' = Tail(rest)
  /\ refused' = refused \cup {Head(rest)}
  /\ UNCHANGED <<machine, pc, names, selecting, vertex, frame, active, live, lastLeaf>>

GuardAborts ==
  /\ pc = "select" /\ rest # <<>> /\ Head(rest).guarded /\ MayAbort
  /\ Keep
  /\ UNCHANGED <<contexts, active, live>>

DeferredHere == \E i \in DOMAIN names : DeferredIn(selecting, names[i])

\* Mutant of Outwards: a state's defer list is looked at after its parent's transitions.
OutwardsUndeferred ==
  /\ pc = "select" /\ rest = <<>>
  /\ IF selecting = Root
     THEN Keep /\ UNCHANGED <<contexts, active, live>>
     ELSE /\ selecting' = Dirname(selecting)
          /\ rest' = Candidates(Dirname(selecting), names)
          /\ UNCHANGED <<machine, pc, names, vertex, frame, active, live, lastLeaf, refused>>

\* No transition of selection_state fires: the event is deferred there, or its
\* parent is next, or nothing handles it.
Outwards ==
  /\ pc = "select" /\ rest = <<>>
  /\ IF DeferredHere \/ selecting = Root
     THEN Keep /\ UNCHANGED <<contexts, active, live>>
     ELSE /\ selecting' = Dirname(selecting)
          /\ rest' = Candidates(Dirname(selecting), names)
          /\ UNCHANGED <<machine, pc, names, vertex, frame, active, live, lastLeaf, refused>>

(***************************************************************************)
(* Exit and effect                                                         *)
(***************************************************************************)

\* Mutant of Cancel: the context is forgotten and not cancelled.
Forget(s) == contexts' = contexts \ {s} /\ UNCHANGED live

\* exit_state: the state's context is cancelled, then its exit behaviours run.
Cancel(s) ==
  /\ contexts' = contexts \ {s}
  /\ live' = [r \in Timed |-> IF r = s /\ s \in contexts THEN live[r] - 1 ELSE live[r]]

ExitState ==
  /\ pc = "exit" /\ exits # <<>>
  /\ exits' = Tail(exits)
  /\ active' = active \ {Head(exits)}
  /\ Cancel(Head(exits))
  /\ UNCHANGED <<currentState, shallow, deep, completion, pc, names, selecting, rest, vertex,
                 transition, enters, target, result, lastLeaf, refused>>

ExitAborts ==
  /\ pc = "exit" /\ exits # <<>> /\ MayAbort
  /\ active' = active \ {Head(exits)}
  /\ Cancel(Head(exits))
  /\ Keep

\* The effects, and for an entry point those of its only transition; what is
\* entered then is the path to the submachine and on to that transition's target.
Effect ==
  /\ pc = "exit" /\ exits = <<>>
  /\ IF Internal(transition) THEN Arrive(currentState) /\ UNCHANGED <<shallow, deep>>
     ELSE /\ IF OfKind(transition.target, "entry")
             THEN LET inner == Outgoing[transition.target][1].target
                      path  == Path[Dirname(transition.target)][inner]
                  IN  /\ enters' = Front(enters) \o Filter(path.enter, Vertices)
                      /\ target' = inner /\ result' = inner
             ELSE UNCHANGED <<enters, target, result>>
          /\ pc' = "enter"
          /\ UNCHANGED <<currentState, shallow, deep, completion, names, selecting, rest, vertex,
                         transition, exits, lastLeaf, refused>>
  /\ UNCHANGED <<contexts, active, live>>

EffectAborts ==
  /\ pc = "exit" /\ exits = <<>> /\ MayAbort
  /\ Keep
  /\ UNCHANGED <<contexts, active, live>>

(***************************************************************************)
(* Entry                                                                   *)
(***************************************************************************)

\* The entry behaviours of s have run: its activities and timers start with a
\* new context, which replaces the one registered for s.
Open(s) ==
  /\ active' = active \cup {s}
  /\ contexts' = contexts \cup ({s} \cap Timed)
  /\ live' = [r \in Timed |-> IF r = s THEN live[r] + 1 ELSE live[r]]

EnterState ==
  /\ pc = "enter" /\ enters # <<>> /\ Head(enters) \in States
  /\ LET s == Head(enters)
     IN  /\ Open(s)
         /\ IF s # target
            THEN /\ enters' = Tail(enters)
                 /\ UNCHANGED <<currentState, shallow, deep, completion, pc, names, selecting,
                                rest, vertex, transition, exits, target, result, lastLeaf,
                                refused>>
            ELSE IF InitialOf(s) = <<>>
            THEN Arrive(s) /\ UNCHANGED <<shallow, deep>>
            ELSE Execute(s, Head(InitialOf(s)))

EnterAborts ==
  /\ pc = "enter" /\ enters # <<>> /\ Head(enters) \in States /\ MayAbort
  /\ Keep
  /\ UNCHANGED <<contexts, active, live>>

\* The target was not among the states to enter: an ancestor of the source, or
\* what a deep history remembered.
NothingToEnter ==
  /\ pc = "enter" /\ enters = <<>>
  /\ Arrive(result)
  /\ UNCHANGED <<shallow, deep, contexts, active, live>>

\* enter_history_target: down to the remembered state; only a shallow history
\* takes its initial transition.
Recall(v, remembered) ==
  /\ enters' = Reverse(Below(Parent[v], remembered))
  /\ target' = (IF Kind[v] = "shallow" THEN remembered ELSE Nothing)
  /\ result' = remembered
  /\ UNCHANGED <<pc, rest, vertex>>

\* A pseudostate is always the last to be entered.
EnterPseudostate ==
  /\ pc = "enter" /\ enters # <<>> /\ Head(enters) \in Pseudostates
  /\ LET v == Head(enters)
         remembered == IF ~IsHistory(v) THEN Nothing
                       ELSE IF Kind[v] = "shallow" THEN shallow[Parent[v]] ELSE deep[Parent[v]]
     IN  IF remembered # Nothing THEN Recall(v, remembered)
         ELSE /\ pc' = "pseudo" /\ vertex' = v
              /\ rest' = IF OfKind(v, "initial") THEN <<>> ELSE Outgoing[v]
              /\ UNCHANGED <<enters, target, result>>
  /\ UNCHANGED <<machine, names, selecting, transition, exits, active, live, lastLeaf, refused>>

PseudoTrue ==
  /\ pc = "pseudo" /\ rest # <<>> /\ ~Internal(Head(rest))
  /\ Execute(vertex, Head(rest))
  /\ UNCHANGED <<contexts, active, live>>

\* Mutant of PseudoInternal: the loop does not go on.
PseudoAgain ==
  /\ pc = "pseudo" /\ rest # <<>> /\ Internal(Head(rest))
  /\ UNCHANGED vars

\* enter_connection_point goes on after an internal transition's effects.
PseudoInternal ==
  /\ pc = "pseudo" /\ rest # <<>> /\ Internal(Head(rest))
  /\ rest' = Tail(rest)
  /\ UNCHANGED <<machine, pc, names, selecting, vertex, frame, active, live, lastLeaf, refused>>

PseudoFalse ==
  /\ pc = "pseudo" /\ rest # <<>> /\ Head(rest).guarded
  /\ rest' = Tail(rest)
  /\ UNCHANGED <<machine, pc, names, selecting, vertex, frame, active, live, lastLeaf, refused>>

PseudoAborts ==
  /\ pc = "pseudo" /\ rest # <<>> /\ MayAbort
  /\ Head(rest).guarded \/ Internal(Head(rest))
  /\ Keep
  /\ UNCHANGED <<contexts, active, live>>

\* Mutant of PseudoExhausted: a history does not fall back.
NoFallback ==
  /\ pc = "pseudo" /\ rest = <<>>
  /\ IF OfKind(vertex, "exit") THEN Keep ELSE Arrive(vertex) /\ UNCHANGED <<shallow, deep>>
  /\ UNCHANGED <<contexts, active, live>>

\* Mutant of PseudoExhausted: an exit point waits for a guard to become true.
ExitPointWaits ==
  /\ pc = "pseudo" /\ rest = <<>>
  /\ IF OfKind(vertex, "exit") THEN UNCHANGED vars
     ELSE IF IsHistory(vertex) /\ InitialOf(Parent[vertex]) # <<>>
     THEN Execute(Parent[vertex], Head(InitialOf(Parent[vertex])))
     ELSE Arrive(vertex) /\ UNCHANGED <<shallow, deep>>
  /\ UNCHANGED <<contexts, active, live>>

\* No way out: an error for an exit point; a history falls back on the initial
\* transition of its state; any other pseudostate becomes the current state.
PseudoExhausted ==
  /\ pc = "pseudo" /\ rest = <<>>
  /\ IF OfKind(vertex, "exit") THEN Keep
     ELSE IF IsHistory(vertex) /\ InitialOf(Parent[vertex]) # <<>>
     THEN Execute(Parent[vertex], Head(InitialOf(Parent[vertex])))
     ELSE Arrive(vertex) /\ UNCHANGED <<shallow, deep>>
  /\ UNCHANGED <<contexts, active, live>>

(***************************************************************************)
(* stop                                                                    *)
(***************************************************************************)

\* active_exit_path; what the exit behaviours answer does not matter.
Stop ==
  /\ pc = "idle" /\ currentState \notin {Off, Root}
  /\ pc' = "stop"
  /\ exits' = Filter(Below(Root, currentState), States)
  /\ UNCHANGED <<machine, names, selecting, rest, vertex, transition, enters, target, result,
                 active, live, lastLeaf, refused>>

StopExits ==
  /\ pc = "stop" /\ exits # <<>>
  /\ exits' = Tail(exits)
  /\ active' = active \ {Head(exits)}
  /\ Cancel(Head(exits))
  /\ UNCHANGED <<currentState, shallow, deep, completion, pc, names, selecting, rest, vertex,
                 transition, enters, target, result, lastLeaf, refused>>

\* The queue, history, contexts and state are cleared.
StopClears ==
  /\ pc = "stop" /\ exits = <<>>
  /\ Return
  /\ currentState' = Off
  /\ shallow' = [s \in Shallows |-> Nothing] /\ deep' = [s \in Deeps |-> Nothing]
  /\ contexts' = {} /\ completion' = FALSE
  /\ lastLeaf' = [s \in Recalled |-> Nothing]
  /\ UNCHANGED <<active, live>>

-----------------------------------------------------------------------------

\* Everything an event's processing does by itself.
Step ==
  \/ GuardTrue \/ GuardFalse \/ GuardAborts \/ Outwards
  \/ ExitState \/ ExitAborts \/ Effect \/ EffectAborts
  \/ EnterState \/ EnterAborts \/ NothingToEnter \/ EnterPseudostate
  \/ PseudoTrue \/ PseudoInternal \/ PseudoFalse \/ PseudoAborts \/ PseudoExhausted
  \/ Complete \/ StopExits \/ StopClears

Next == Step \/ Dispatch \/ Start \/ Stop

Spec == Init /\ [][Next]_vars

\* Guards and behaviours return, and the drain loop goes on.
FairSpec == Spec /\ WF_vars(Step)

-----------------------------------------------------------------------------
(***************************************************************************)
(* Properties                                                              *)
(***************************************************************************)

OrNothing(S) == S \cup {Nothing}

\* Types; and between events the machine is off, at its root, or in a state, never
\* in a pseudostate, from which no event would lead out (hsm_impl.rs:1477-1505).
TypeOK ==
  /\ currentState \in Regions \cup {Off}
  /\ shallow \in [Shallows -> OrNothing(States)] /\ deep \in [Deeps -> OrNothing(States)]
  /\ contexts \subseteq Timed
  /\ completion \in BOOLEAN
  /\ pc \in {"idle", "select", "exit", "enter", "pseudo", "stop"}
  /\ names \in Seq(EventNames \cup {AnyEvent, InitialEvent, FinalEvent})
  /\ selecting \in OrNothing(Names) /\ vertex \in OrNothing(Pseudostates)
  /\ rest \in Seq(Transitions) /\ refused \subseteq Transitions
  /\ transition \in Transitions \cup {None}
  /\ exits \in Seq(States) /\ enters \in Seq(Vertices)
  /\ target \in OrNothing(Names) /\ result \in OrNothing(Names)
  /\ active \subseteq States
  /\ live \in [Timed -> Nat]
  /\ lastLeaf \in [Recalled -> OrNothing(States)]

Within(s) == IF s \in States THEN Ancestors[s] \ {Root} ELSE {}

\* Between events the states that were entered and not left are the current state
\* and those around it: the exit paths that execute_transition puts together from
\* the table and from the current state meet its entry paths.
Configuration == pc = "idle" => active = Within(currentState)

StateParent == [s \in States |-> Parent[s]]

Entered == INSTANCE Nesting WITH Parent <- StateParent

\* On the way, too, a state is entered only inside its parent and beside no
\* sibling, and left only after its children, through choices, entry and exit
\* points and histories.
Nested == Entered!Spec

\* A state with a history vertex that is not active remembers the state it was
\* left in (hsm_impl.rs:1282-1284, 1651-1662).
HistoryFaithful ==
  pc = "idle" =>
    \A s \in Recalled \ Within(currentState) :
      /\ s \in Deeps => deep[s] = lastLeaf[s]
      /\ s \in Shallows /\ lastLeaf[s] # Nothing => shallow[s] = ChildTowards(s, lastLeaf[s])

\* The activities and timers of a state run exactly while it is active, in one
\* context (hsm_impl.rs:1427-1436, 1795-1796).
ContextsOfActive == \A s \in Timed : live[s] = IF s \in active THEN 1 ELSE 0

\* Activities run only in the states the machine is in, as README.md has it.
ActivitiesEnd == pc = "idle" => \A s \in Timed : live[s] > 0 => s \in Within(currentState)

\* The guards of all transitions of s for the event of that name were false.
Refusing(s, name) == \A u \in ToSet(Outgoing[s]) : name \in u.events => u \in refused

\* An event is taken by the innermost active state that can take it: no state
\* further in has a transition for it whose guard was not false, or defers it;
\* and a transition for any event fires after those for the event's own name.
InnermostTaken ==
  pc = "select" /\ pc' = "exit" =>
    LET t == Head(rest)
    IN  /\ \A s \in Ancestors[currentState] \ Ancestors[t.source], i \in DOMAIN names :
             Refusing(s, names[i]) /\ ~DeferredIn(s, names[i])
        /\ \A i \in DOMAIN names :
             (\A j \in 1 .. i : names[j] \notin t.events) =>
               \A u \in ToSet(Outgoing[t.source]) :
                 names[i] \in u.events /\ Precedes(u, t.source, names[i]) => u \in refused

InnermostFirst == [][InnermostTaken]_vars

\* Every event's processing ends.
Terminates == pc # "idle" ~> pc = "idle"
=============================================================================
