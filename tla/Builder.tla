------------------------------ MODULE Builder -------------------------------
(***************************************************************************)
(* What each element of a definition does to the model under construction  *)
(* (builder.rs): the model's members by qualified name, and the stack of   *)
(* the elements that are open.  A qualified name is the sequence of its    *)
(* segments, the empty one standing for the empty string; the name of an   *)
(* event, of a call or of an attribute is one too.                         *)
(***************************************************************************)
EXTENDS Integers, SequencesExt

None == <<>>

Call == "hsm_call:"            \* the prefix of a call's event name

InitialEvent == <<"hsm/initial">>

FinalEvent == <<"hsm/final">>

\* A name segment made of a stem and a number; the first of several has no number.
Numbered(stem, i) == stem \o "_" \o ToString(i)

Nth(stem, i) == IF i = 1 THEN stem ELSE Numbered(stem, i - 1)

States == {"state", "final", "submachine"}

Pseudostates == {"initial", "choice", "entry_point", "exit_point", "shallow_history", "deep_history"}

Roles == {"entry", "exit", "activity", "effect"}

\* The list of a state or of a transition that holds its behaviours of a role.
List(role) == IF role = "activity" THEN "activities" ELSE role

NewState(kind) ==
  [is |-> "state", kind |-> kind, transitions |-> <<>>, initial |-> None,
   entry |-> <<>>, exit |-> <<>>, activities |-> <<>>, deferred |-> <<>>]

NewVertex(kind) == [is |-> "vertex", kind |-> kind, transitions |-> <<>>]

NewTransition(source, events) ==
  [is |-> "transition", kind |-> "unset", source |-> source, target |-> None,
   guard |-> None, effect |-> <<>>, events |-> events]

\* A function of the user, the call of an operation, or (observes # None) a generated observation.
NewBehavior(role, function) ==
  [is |-> "behavior", role |-> role, function |-> function, operation |-> None,
   observes |-> None, occurrence |-> "none"]

NewConstraint(operation, timed) == [is |-> "constraint", operation |-> operation, timed |-> timed]

NewOperation(kind) == [is |-> "operation", kind |-> kind]

NewAttribute == [is |-> "attribute"]

NewObservation(observer, targets) == [is |-> "observation", observer |-> observer, targets |-> targets]

NewHook(kind, does) == [is |-> kind, does |-> does]

-----------------------------------------------------------------------------
(* The model and its stack *)

NewModel(root) ==
  [root |-> root, initial |-> None, members |-> <<>>, attributes |-> {}, stack |-> <<root>>]

Is(m, q, variant) == q \in DOMAIN m.members /\ m.members[q].is = variant

IsState(m, q) == Is(m, q, "state")

IsTransition(m, q) == Is(m, q, "transition")

\* get_vertex: a state is a vertex too, the machine itself is not among the members.
HasKind(m, q, kinds) == (IsState(m, q) \/ Is(m, q, "vertex")) /\ m.members[q].kind \in kinds

IsVertex(m, q) == HasKind(m, q, States \cup Pseudostates)

BehaviorLists == {"entry", "exit", "activities", "effect"}

\* A behaviour is attached when a list of its owner has it.
IsListed(m, b) ==
  /\ Front(b) \in DOMAIN m.members
  /\ \E field \in DOMAIN m.members[Front(b)] \cap BehaviorLists : Contains(m.members[Front(b)][field], b)

Members(m, variant) == {q \in DOMAIN m.members : m.members[q].is = variant}

Top(m) == Last(m.stack)

Push(m, q) == [m EXCEPT !.stack = Append(@, q)]

Pop(m) == [m EXCEPT !.stack = Front(@)]

\* The members of f and those of g, the ones of f where both have a name.
Overlay(f, g) == [q \in DOMAIN f \cup DOMAIN g |-> IF q \in DOMAIN f THEN f[q] ELSE g[q]]

Put(m, q, element) == [m EXCEPT !.members = Overlay([p \in {q} |-> element], @)]

Edit(m, q, field, value) == [m EXCEPT !.members[q][field] = value]

Extend(m, q, field, value) == Edit(m, q, field, m.members[q][field] \o value)

\* The number in the name of the next transition: it counts what has such a name.
StructuralMemberCount(m) ==
  1 + Cardinality(Members(m, "state") \cup Members(m, "vertex") \cup Members(m, "transition"))

-----------------------------------------------------------------------------
(* References.  A path goes some segments up and then down; one that goes up *)
(* further than any name is long is an absolute one.                         *)

ResolveRelativePath(base, path) == SubSeq(base, 1, Len(base) - path.up) \o path.down

\* The innermost open state, to which the endpoints of a transition are relative.
TransitionEndpointContext(m) ==
  LET open == {i \in DOMAIN m.stack : m.stack[i] = m.root \/ IsState(m, m.stack[i])}
  IN  m.stack[Max(open)]

\* The name of an operation, seen from the owner of what is open or else from the machine.
ResolveModelReference(m, name) ==
  LET owner == IF IsTransition(m, Top(m)) THEN Front(Top(m)) ELSE Top(m)
      local == Append(owner, name)
  IN  IF local \in DOMAIN m.members THEN local ELSE Append(m.root, name)

\* The exit point of a boundary: its own one of that name, or one further inside.
ResolveExitPointSource(m, boundary, name) ==
  LET found == {q \in Members(m, "vertex") : /\ m.members[q].kind = "exit_point"
                                              /\ Last(q) = name /\ IsPrefix(boundary, q)}
      direct == Append(boundary, name)
  IN  IF direct \in found \/ found = {} THEN direct ELSE CHOOSE q \in found : TRUE

-----------------------------------------------------------------------------
(* States and pseudostates *)

PartialState(m, name) ==
  LET q == Append(Top(m), name)
  IN  Push(IF IsState(m, q) THEN m ELSE Put(m, q, NewState("state")), q)

PartialFinalState(m, name) == Put(m, Append(Top(m), name), NewState("final"))

PartialChoice(m, name) ==
  LET q == Append(Top(m), name) IN Push(Put(m, q, NewVertex("choice")), q)

\* A pseudostate and the only transition it declares, both left open.
OpenPoint(m, name, kind, events) ==
  LET q == Append(Top(m), name)
      t == Append(q, "transition")
  IN  Push(Push(Put(Put(m, q, NewVertex(kind)), t, NewTransition(q, events)), q), t)

PartialInitial(m) ==
  LET q == Append(Top(m), ".initial")
      opened == OpenPoint(m, ".initial", "initial", <<InitialEvent>>)
  IN  IF IsState(m, Top(m)) THEN Edit(opened, Top(m), "initial", q)
      ELSE IF Top(m) = m.root THEN [opened EXCEPT !.initial = q] ELSE opened

\* An entry or exit point with elements has a transition, one without has none.
AddConnectionPointVertex(m, name, kind, elements) ==
  IF elements THEN OpenPoint(m, name, kind, <<>>) ELSE Put(m, Append(Top(m), name), NewVertex(kind))

PartialHistory(m, name, kind, elements) ==
  IF elements THEN OpenPoint(m, name, kind, <<>>) ELSE Put(m, Append(Top(m), name), NewVertex(kind))

\* The end of an initial, of a point or of a history: its vertex lists the transition.
ClosePoint(m) == Pop(Pop(Extend(m, Front(Top(m)), "transitions", <<Top(m)>>)))

-----------------------------------------------------------------------------
(* Transitions *)

PartialTransition(m) ==
  LET t == Append(Top(m), Numbered("transition", StructuralMemberCount(m)))
  IN  Push(Put(m, t, NewTransition(Top(m), <<>>)), t)

\* A transition of the machine comes after the machine's others and before the source's own.
SourceTransitionInsertIndex(m, source, owner) ==
  LET own == {i \in DOMAIN m.members[source].transitions :
                Front(m.members[source].transitions[i]) # owner}
  IN  IF own = {} THEN Len(m.members[source].transitions) + 1 ELSE Min(own)

\* The end of a transition: its source lists it, if that is already declared.
CloseTransition(m) ==
  LET t      == Top(m)
      owner  == Front(t)
      source == m.members[t].source
      first  == /\ owner = m.root /\ source # owner
                /\ ~(HasKind(m, source, {"exit_point"}) /\ m.members[t].guard = None)
      index  == IF first THEN SourceTransitionInsertIndex(m, source, owner)
                ELSE Len(m.members[source].transitions) + 1
  IN  Pop(IF ~IsVertex(m, source) THEN m
          ELSE Edit(m, source, "transitions", InsertAt(m.members[source].transitions, index, t)))

PartialSource(m, path) ==
  Edit(m, Top(m), "source", ResolveRelativePath(TransitionEndpointContext(m), path))

PartialTarget(m, path) ==
  Edit(m, Top(m), "target", ResolveRelativePath(TransitionEndpointContext(m), path))

PartialTrigger(m, event) == Extend(m, Top(m), "events", <<event>>)

PartialOnCall(m, name) == Extend(m, Top(m), "events", << <<Call>> \o ResolveModelReference(m, name) >>)

PartialOnSet(m, name) ==
  LET event    == Append(m.root, name)
      listened == Extend(m, Top(m), "events", <<event>>)
  IN  IF event \in m.attributes THEN listened
      ELSE Put([listened EXCEPT !.attributes = @ \cup {event}], event, NewAttribute)

\* Inside a transition, a point is not declared: the target is the entry point of the boundary ...
SelectEntryPoint(m, name) ==
  LET t == m.members[Top(m)]
  IN  Edit(m, Top(m), "target", Append(IF t.target = None THEN t.source ELSE t.target, name))

\* ... and the source is its exit point.
SelectExitPoint(m, name) ==
  Edit(m, Top(m), "source", ResolveExitPointSource(m, m.members[Top(m)].source, name))

PartialGuard(m) ==
  LET q == Append(Top(m), "guard") IN Edit(Put(m, q, NewConstraint(None, FALSE)), Top(m), "guard", q)

PartialGuardOperationRef(m, name) ==
  LET q == Append(Top(m), "guard")
  IN  Edit(Put(m, q, NewConstraint(ResolveModelReference(m, name), FALSE)), Top(m), "guard", q)

TimerEvent(timer) == <<"hsm_timer_" \o timer>>

\* after, at and every: the constraint holds the delay and is the guard when there is none.
PartialTimer(m, timer) ==
  LET q      == Append(Top(m), timer)
      moment == Append(Top(m), IF timer = "at" THEN "timepoint" ELSE "duration")
      timed  == Extend(Put(m, q, NewConstraint(None, TRUE)), Top(m), "events",
                       <<moment, TimerEvent(timer)>>)
  IN  IF m.members[Top(m)].guard = None THEN Edit(timed, Top(m), "guard", q) ELSE timed

-----------------------------------------------------------------------------
(* Behaviours, operations, attributes, observations and hooks *)

\* Behaviours of the open element; where that has no list of the role, nothing lists them.
Attach(m, role, segments, behaviors) ==
  LET names == [i \in DOMAIN segments |-> Append(Top(m), segments[i])]
      added == [m EXCEPT !.members =
                  Overlay([q \in ToSet(names) |-> behaviors[CHOOSE i \in DOMAIN names : names[i] = q]], @)]
  IN  IF Top(m) \in DOMAIN m.members /\ List(role) \in DOMAIN m.members[Top(m)]
      THEN Extend(added, Top(m), List(role), names) ELSE added

\* The functions of one entry, exit, activity or effect element, numbered from the first.
PartialFunctions(m, role, functions) ==
  Attach(m, role, [i \in DOMAIN functions |-> Nth(role, i)],
         [i \in DOMAIN functions |-> NewBehavior(role, functions[i])])

\* The name of a behaviour that calls an operation.
Calling(role, name) == role \o "_" \o name

PartialBehaviorOperation(m, role, name) ==
  Attach(m, role, <<Calling(role, name)>>,
         <<[NewBehavior("none", "none") EXCEPT !.operation = ResolveModelReference(m, name)]>>)

PartialDefer(m, event) == Extend(m, Top(m), "deferred", <<event>>)

PartialOperation(m, name) == Put(m, Append(Top(m), name), NewOperation("action"))

PartialGuardOperation(m, name) == Put(m, Append(Top(m), name), NewOperation("guard"))

PartialAttribute(m, name) ==
  LET q == Append(Top(m), name) IN Put([m EXCEPT !.attributes = @ \cup {q}], q, NewAttribute)

\* The first free number for an observation, a validator or a finalizer of the machine.
UniqueModelHookName(m, prefix) ==
  Append(m.root, Numbered(prefix, CHOOSE i \in 0 .. Cardinality(DOMAIN m.members) :
    /\ Append(m.root, Numbered(prefix, i)) \notin DOMAIN m.members
    /\ \A j \in 0 .. i - 1 : Append(m.root, Numbered(prefix, j)) \in DOMAIN m.members))

PartialObserve(m, observer, targets) ==
  Put(m, UniqueModelHookName(m, "observation"), NewObservation(observer, targets))

PartialValidator(m, does) == Put(m, UniqueModelHookName(m, "validator"), NewHook("validator", does))

PartialFinalizer(m, does) == Put(m, UniqueModelHookName(m, "finalizer"), NewHook("finalizer", does))
=============================================================================
