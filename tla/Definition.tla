----------------------------- MODULE Definition -----------------------------
(***************************************************************************)
(* A machine's definition from its first element to its last redefinition  *)
(* (model_lifecycle.rs, define, redefine_as; dsl.rs): elements are applied *)
(* one after the other to the innermost open one, then the model is        *)
(* finalized; a finalized model is redefined, under its own name or a new  *)
(* one, or becomes a state of another machine, and more elements follow.   *)
(***************************************************************************)
EXTENDS Lifecycle, Validation

CONSTANTS
  Skeletons,      \* models under construction that a definition starts from
  Surroundings,   \* models under construction that a finalized one is embedded in
  Roots,          \* names a model is redefined as
  Submachine,     \* the name of the state that embeds a machine
  StateNames, FinalNames, PointNames, OperationNames, AttributeNames,
  Paths,          \* the sources and targets of transitions, relative to a state
  Events,         \* names of the events of triggers and deferrals
  Functions,      \* functions of the user
  Observers,      \* functions of observations
  Observables,    \* behaviours and transitions an observation names, below the machine
  HookResults,    \* what a validator answers
  Elements,       \* bound: elements applied to one model
  Rounds          \* bound: definitions and redefinitions of one model

Segment == STRING

\* A qualified name, or the name of an event.
Name == Seq(Segment)

IsRoot(q) == q \in Name /\ q # None /\ Head(q) # Call

ASSUME DefinitionAssumption ==
  /\ Rounds \in Nat \ {0} /\ Elements \in Nat
  /\ \A s \in Surroundings : s.stack = <<s.root>>
  /\ \A root \in Roots : IsRoot(root)
  /\ \A path \in Paths : path.up \in Nat /\ path.down \in Name
  /\ \A q \in Events \cup Observables : q \in Name

VARIABLES
  m,       \* the model
  phase,   \* "declaring", "defined", or "panicked"
  round,   \* the definition, then each redefinition
  left,    \* elements that may still be applied
  ran      \* the hooks that the last finalization chose

vars == <<m, phase, round, left, ran>>

Init ==
  /\ m \in Skeletons
  /\ phase = "declaring" /\ round = 1 /\ left = Elements
  /\ ran = [validator |-> None, finalizer |-> None]

-----------------------------------------------------------------------------
(* Where an element is given.  An element given elsewhere is not refused by  *)
(* the code, but has no meaning.                                             *)

InRegion == Top(m) = m.root \/ IsState(m, Top(m))

InTransition == IsTransition(m, Top(m))

\* A transition element of its own, not the one of an initial, a point or a history.
InOwnTransition == InTransition /\ Last(Top(m)) # "transition"

Apply(applied) ==
  /\ phase = "declaring" /\ left > 0
  /\ m' = applied
  /\ left' = left - 1
  /\ UNCHANGED <<phase, round, ran>>

State(name) == InRegion /\ Apply(PartialState(m, name))

Final(name) == InRegion /\ Apply(PartialFinalState(m, name))

Choice(name) == InRegion /\ Apply(PartialChoice(m, name))

Initial == InRegion /\ Apply(PartialInitial(m))

ConnectionPoint(name, kind, elements) ==
  /\ InRegion
  /\ Apply(AddConnectionPointVertex(m, name, kind, elements))

History(name, kind, elements) == InRegion /\ Apply(PartialHistory(m, name, kind, elements))

\* In a state, in the machine, or as a branch of a choice.
Transition == ~InTransition /\ Apply(PartialTransition(m))

Source(path) == InOwnTransition /\ Apply(PartialSource(m, path))

Target(path) == InTransition /\ Apply(PartialTarget(m, path))

On(event) == InOwnTransition /\ Apply(PartialTrigger(m, event))

OnCall(name) == InOwnTransition /\ Apply(PartialOnCall(m, name))

OnSet(name) == InOwnTransition /\ Apply(PartialOnSet(m, name))

Timer(timer) == InOwnTransition /\ Apply(PartialTimer(m, timer))

Guard == InTransition /\ Apply(PartialGuard(m))

GuardOperationRef(name) == InTransition /\ Apply(PartialGuardOperationRef(m, name))

ToEntryPoint(name) == InTransition /\ Apply(SelectEntryPoint(m, name))

FromExitPoint(name) == InOwnTransition /\ Apply(SelectExitPoint(m, name))

\* Entry, exit and activity belong to a state, an effect to a transition.
Fits(role) == IF role = "effect" THEN InTransition ELSE InRegion

Behaviors(role, functions) == Fits(role) /\ Apply(PartialFunctions(m, role, functions))

BehaviorOperation(role, name) == Fits(role) /\ Apply(PartialBehaviorOperation(m, role, name))

Operation(name) == InRegion /\ Apply(PartialOperation(m, name))

GuardOperation(name) == InRegion /\ Apply(PartialGuardOperation(m, name))

Attribute(name) == InRegion /\ Apply(PartialAttribute(m, name))

ObserveAll(observer) == InRegion /\ Apply(PartialObserve(m, observer, {}))

\* By full name, or by the name of an event.
ObserveNamed(observer) ==
  /\ InRegion
  /\ \E target \in {m.root \o q : q \in Observables} \cup Events :
       Apply(PartialObserve(m, observer, {target}))

Validator(does) == InRegion /\ Apply(PartialValidator(m, does))

Finalizer == InRegion /\ Apply(PartialFinalizer(m, "finalizes"))

\* Outside a state there is nothing to defer in: the definition panics.
Defer(event) ==
  \/ IsState(m, Top(m)) /\ Apply(PartialDefer(m, event))
  \/ /\ phase = "declaring" /\ left > 0 /\ Top(m) = m.root
     /\ phase' = "panicked"
     /\ UNCHANGED <<m, round, left, ran>>

\* The last element of the innermost open one has been applied.
Close ==
  /\ phase = "declaring" /\ Len(m.stack) > 1
  /\ m' = IF ~InTransition THEN Pop(m) ELSE IF InOwnTransition THEN CloseTransition(m) ELSE ClosePoint(m)
  /\ UNCHANGED <<phase, round, left, ran>>

-----------------------------------------------------------------------------
(* The end of a definition, and what follows it *)

Chosen(kind) == IF SelectedHooks(m, kind) = {} THEN {None} ELSE SelectedHooks(m, kind)

\* A validator that refuses panics before the model is observed and its tables are built.
Finalize ==
  /\ phase = "declaring" /\ m.stack = <<m.root>>
  /\ \E validator \in Chosen("validator"), finalizer \in Chosen("finalizer") :
       IF validator # None /\ m.members[validator].does = "rejects"
       THEN phase' = "panicked" /\ UNCHANGED <<m, ran>>
       ELSE /\ phase' = "defined"
            /\ m' = FinalizeModel(m)
            /\ ran' = [validator |-> validator, finalizer |-> finalizer]
  /\ UNCHANGED <<round, left>>

Again(model) ==
  /\ phase = "defined" /\ round < Rounds
  /\ m' = model
  /\ phase' = "declaring"
  /\ round' = round + 1
  /\ UNCHANGED <<left, ran>>

RedefineAs(root) == Again(Rebase(m, root))

SubmachineState(around) == Again(PartialSubmachineState(around, Submachine, m))

DeclareVertex ==
  \/ \E name \in StateNames : State(name)
  \/ \E name \in FinalNames : Final(name)
  \/ Initial
  \/ \E name \in PointNames :
       \/ Choice(name)
       \/ \E elements \in BOOLEAN :
            \/ \E kind \in {"entry_point", "exit_point"} : ConnectionPoint(name, kind, elements)
            \/ \E kind \in Histories : History(name, kind, elements)

DeclareTransition ==
  \/ Transition
  \/ \E path \in Paths : Source(path) \/ Target(path)
  \/ \E event \in Events : On(event) \/ Defer(event)
  \/ \E name \in OperationNames : OnCall(name) \/ GuardOperationRef(name)
  \/ \E name \in AttributeNames : OnSet(name)
  \/ \E timer \in {"after", "at", "every"} : Timer(timer)
  \/ Guard
  \/ \E name \in PointNames : ToEntryPoint(name) \/ FromExitPoint(name)

DeclareMember ==
  \/ \E role \in Roles :
       \/ \E functions \in {<<f>> : f \in Functions} \cup {<<f, g>> : f, g \in Functions} : Behaviors(role, functions)
       \/ \E name \in OperationNames : BehaviorOperation(role, name)
  \/ \E name \in OperationNames : Operation(name) \/ GuardOperation(name)
  \/ \E name \in AttributeNames : Attribute(name)
  \/ \E observer \in Observers : ObserveAll(observer) \/ ObserveNamed(observer)
  \/ \E does \in HookResults : Validator(does)
  \/ Finalizer

Next ==
  \/ DeclareVertex \/ DeclareTransition \/ DeclareMember
  \/ Close \/ Finalize
  \/ \E root \in Roots : RedefineAs(root)
  \/ \E around \in Surroundings : SubmachineState(around)

Spec == Init /\ [][Next]_vars

-----------------------------------------------------------------------------
(* Well-formed models: what the proofs show of every model under             *)
(* construction.                                                             *)

Hooks == {"observation", "validator", "finalizer"}

\* What a name ends with tells what it is the name of, if the user keeps off the segments
\* that the builders make up; N: the numbers in names.
Segments(N, sort) ==
  LET transitions == {"transition"} \cup {Numbered("transition", i) : i \in N}
      behaviors   == {Nth(role, i) : role \in Roles, i \in N \ {0}}
                       \cup {Calling(role, name) : role \in Roles, name \in OperationNames}
  IN  CASE sort = "initial"    -> {".initial"}
        [] sort = "transition" -> transitions
        [] sort = "behavior"   -> behaviors
        [] sort = "generated"  -> {Observing(i, occurrence, segment) :
                                     i \in N \ {0}, occurrence \in {"behavior", "event"},
                                     segment \in transitions \cup behaviors}
        [] sort = "constraint" -> {"guard", "after", "at", "every"}
        [] sort \in Hooks      -> {Numbered(sort, i) : i \in N}

Sorts == {"initial", "transition", "behavior", "generated", "constraint"} \cup Hooks

Sort(element) ==
  IF element.is = "vertex" /\ element.kind = "initial" THEN "initial"
  ELSE IF element.is = "behavior" /\ element.observes # None THEN "generated"
  ELSE IF element.is \in Sorts THEN element.is ELSE "user"

NamedAs(N, segment, sort) ==
  IF sort = "user" THEN \A other \in Sorts : segment \notin Segments(N, other) ELSE segment \in Segments(N, sort)

VertexNames == StateNames \cup FinalNames \cup PointNames \cup {Submachine}

\* No segment has two readings, and one stem's differ by their numbers.
Naming(N) ==
  /\ \A sort \in Sorts : \A s \in Segments(N, sort) : s \in Segment
  /\ \A sort, other \in Sorts : sort # other => Segments(N, sort) \cap Segments(N, other) = {}
  /\ \A s \in VertexNames \cup OperationNames \cup AttributeNames : s \in Segment /\ NamedAs(N, s, "user")
  /\ VertexNames \cap AttributeNames = {}
  /\ \A s \in {Call, "duration", "timepoint"} : s \in Segment
  /\ \A q \in {InitialEvent, FinalEvent} \cup {TimerEvent(timer) : timer \in {"after", "at", "every"}} : q \in Name
  /\ \A stem \in Hooks \cup {"transition"}, i, j \in N : Numbered(stem, i) = Numbered(stem, j) => i = j
  /\ \A i \in N : Numbered("transition", i) # "transition"

Fields(variant) ==
  CASE variant = "state"       -> DOMAIN NewState("state")
    [] variant = "vertex"      -> DOMAIN NewVertex("initial")
    [] variant = "transition"  -> DOMAIN NewTransition(None, <<>>)
    [] variant = "behavior"    -> DOMAIN NewBehavior("none", "none")
    [] variant = "constraint"  -> DOMAIN NewConstraint(None, FALSE)
    [] variant = "operation"   -> DOMAIN NewOperation("action")
    [] variant = "attribute"   -> DOMAIN NewAttribute
    [] variant = "observation" -> DOMAIN NewObservation("none", {})
    [] variant \in {"validator", "finalizer"} -> DOMAIN NewHook("validator", "accepts")

Variants == {"state", "vertex", "transition", "behavior", "constraint", "operation", "attribute"} \cup Hooks

IsElement(e) ==
  e.is \in Variants /\ DOMAIN e = Fields(e.is) /\ e = [field \in DOMAIN e |-> e[field]]

HasSort(model, q, sort) == q \in DOMAIN model.members /\ Sort(model.members[q]) = sort

\* A value of a field of the element q.  What q lists and refers to is there: behaviours of
\* its own, transitions, an initial, a guard.
Suits(model, q, field, value) ==
  /\ field \in References => value \in Name
  /\ field \in ReferenceLists => value \in Seq(Name)
  /\ field = "targets" => \A p \in value : p \in Name
  /\ field \in BehaviorLists => \A b \in ToSet(value) : Is(model, b, "behavior") /\ Front(b) = q
  /\ field = "transitions" => \A t \in ToSet(value) : IsTransition(model, t)
  /\ field = "initial" => value = None \/ HasSort(model, value, "initial")
  /\ field = "guard" => value = None \/ Is(model, value, "constraint")

\* The pseudostate that lists a transition "transition" is not the machine.
IsMember(N, model, q, e) ==
  /\ q \in Name /\ IsStrictPrefix(model.root, q)
  /\ IsElement(e) /\ \A field \in DOMAIN e : Suits(model, q, field, e[field])
  /\ NamedAs(N, Last(q), Sort(e))
  /\ e.is \in {"state", "vertex"} => Last(q) \notin AttributeNames
  /\ Last(q) = "transition" => Front(q) # model.root

WellFormed(N, model) ==
  /\ model = [root |-> model.root, initial |-> model.initial, members |-> model.members,
              attributes |-> model.attributes, stack |-> model.stack]
  /\ IsRoot(model.root)
  /\ model.initial = None \/ HasSort(model, model.initial, "initial")
  /\ IsFiniteSet(DOMAIN model.members) /\ model.members = [q \in DOMAIN model.members |-> model.members[q]]
  /\ \A q \in DOMAIN model.members : IsMember(N, model, q, model.members[q])
  /\ \A q \in model.attributes : q \in Name /\ IsStrictPrefix(model.root, q) /\ Last(q) \in AttributeNames
  /\ model.stack \in Seq(Name) /\ model.stack # <<>> /\ model.stack[1] = model.root
  /\ \A i \in 2 .. Len(model.stack) :
       model.stack[i] \in DOMAIN model.members /\ Front(model.stack[i]) = model.stack[i - 1]

\* The validators and the finalizers of the machine itself are numbered from 0 without a gap,
\* and `room` more of them still get numbers that their selection reads.
HooksNumbered(N, model, room) ==
  \A kind \in {"validator", "finalizer"} : \E n \in N :
    /\ n + room <= MaxNumber + 1
    /\ \A i \in N : Append(model.root, Numbered(kind, i)) \in DOMAIN model.members <=> i < n

\* The states and pseudostates, and with them the transitions.
Vertices(model) == Members(model, "state") \cup Members(model, "vertex")

Structure(model) == Vertices(model) \cup Members(model, "transition")

\* What operations are called, the user's and those of the machines given.
OperationSegments ==
  OperationNames \cup {Last(q) : q \in UNION {Members(s, "operation") : s \in Skeletons \cup Surroundings}}

\* A vertex lists transitions of its own, each once.  Those of the pseudostates are of the one
\* around them, the others have numbers that were counted; no operation is named as a vertex,
\* and none takes the place of one that is counted.
Listing(N, model) ==
  /\ \A v \in Vertices(model) :
       /\ model.members[v].kind \in States \cup Pseudostates
       /\ IsInjective(model.members[v].transitions)
       /\ \A t \in ToSet(model.members[v].transitions) : model.members[t].source = v
       /\ Last(v) \notin OperationSegments
  /\ \A t \in Members(model, "transition") :
       /\ Last(t) = "transition" => model.members[t].source = Front(t)
       /\ \A i \in N : Last(t) = Numbered("transition", i) => i < StructuralMemberCount(model)
  /\ \A q \in Members(model, "operation") : Last(q) \in OperationSegments

\* Nothing is opened inside a transition, and nothing lists one that is open.
OpenApart(model) ==
  /\ \A i \in 1 .. Len(model.stack) - 1 : ~IsTransition(model, model.stack[i])
  /\ IsTransition(model, Top(model)) =>
       \A v \in Vertices(model) : Top(model) \notin ToSet(model.members[v].transitions)

-----------------------------------------------------------------------------
(* Properties *)

\* Every open element is declared and inside the one that was opened before it (the
\* stack of define), and every member is below the machine's name (rebase).
TypeOK ==
  /\ phase \in {"declaring", "defined", "panicked"}
  /\ round \in 1 .. Rounds /\ left \in 0 .. Elements
  /\ \A q \in DOMAIN m.members : IsStrictPrefix(m.root, q)
  /\ m.stack[1] = m.root
  /\ \A i \in 2 .. Len(m.stack) : m.stack[i] \in DOMAIN m.members /\ IsStrictPrefix(m.stack[i - 1], m.stack[i])

Lists(q) == {field \in DOMAIN m.members[q] : field \in BehaviorLists}

\* What a finalized model lists is a member of the right kind, whatever was declared
\* twice, renamed, embedded or generated in between (set_member overwrites; rebase,
\* rewrite_submachine_references and remove_generated_observation_behaviors rename and
\* remove): the interpreter looks these names up and skips the ones it does not find.
ReferencesResolve ==
  phase = "defined" =>
    /\ m.initial = None \/ HasKind(m, m.initial, {"initial"})
    /\ \A q \in DOMAIN m.members :
         /\ \A field \in Lists(q) : \A b \in ToSet(m.members[q][field]) : Is(m, b, "behavior")
         /\ IsVertex(m, q) => \A t \in ToSet(m.members[q].transitions) : IsTransition(m, t)
         /\ IsState(m, q) => m.members[q].initial = None \/ HasKind(m, m.members[q].initial, {"initial"})
         /\ IsTransition(m, q) => m.members[q].guard = None \/ Is(m, m.members[q].guard, "constraint")

\* Every transition of a finalized model is listed once, by its source and by no other
\* vertex (PartialTransition and register_transition_sources both list it): listed twice
\* it would be tried twice, listed by another vertex it would leave a state it is not of.
ListedBySource ==
  phase = "defined" =>
    \A t \in Members(m, "transition"), v \in Members(m, "state") \cup Members(m, "vertex") :
      Cardinality({i \in DOMAIN m.members[v].transitions : m.members[v].transitions[i] = t})
        = IF m.members[t].source = v THEN 1 ELSE 0

\* Redefining a finalized model without an element gives the same model, up to its name,
\* and one that is as valid (redefine_as with no elements: rebase, then finalize_model).
RedefineChangesNothing ==
  phase = "defined" => \A root \in Roots :
    /\ FinalizeModel(Rebase(m, root)) = Rebase(m, root)
    /\ ValidateModel(Rebase(m, root)) = ValidateModel(m)

Generated(source, occurrence) ==
  {g \in DOMAIN m.members : /\ IsGenerated(m, g) /\ m.members[g].observes = source
                            /\ m.members[g].occurrence = occurrence}

Place(list, q) == Min({i \in DOMAIN list : list[i] = q} \cup {Len(list) + 1})

\* Each behaviour that something lists is preceded by exactly one call of every different
\* observation that matches it, each transition runs those that match it before all else,
\* and nothing is observed twice after a redefinition or in an embedded machine
\* (apply_observations, remove_generated_observation_behaviors).
ObservedOnce ==
  phase = "defined" =>
    /\ \A b \in Members(m, "behavior") :
         ~IsGenerated(m, b) /\ IsListed(m, b) =>
           /\ Cardinality(Generated(b, "behavior"))
                = Cardinality({m.members[o] : o \in {o \in Members(m, "observation") : ObservationMatchesBehavior(m, o, b)}})
           /\ \A field \in Lists(Front(b)), g \in Generated(b, "behavior") :
                Contains(m.members[Front(b)][field], b)
                  => LET list == m.members[Front(b)][field]
                     IN  /\ Place(list, g) < Place(list, b)
                         /\ \A i \in Place(list, g) .. Place(list, b) - 1 : m.members[list[i]].observes = b
    /\ \A t \in Members(m, "transition") :
         /\ Cardinality(Generated(t, "event"))
              = Cardinality({m.members[o] : o \in {o \in Members(m, "observation") : ObservationMatchesTransition(m, o, t)}})
         /\ \A g \in Generated(t, "event") : Place(m.members[t].effect, g) <= Cardinality(Generated(t, "event"))
    /\ \A g \in DOMAIN m.members : IsGenerated(m, g) =>
         Cardinality({x \in {<<field, i>> : field \in BehaviorLists, i \in 1 .. 12} :
                        /\ x[1] \in Lists(Front(g)) /\ x[2] \in DOMAIN m.members[Front(g)][x[1]]
                        /\ m.members[Front(g)][x[1]][x[2]] = g}) = 1

\* The validator and the finalizer that run are the last ones declared, those of a
\* redefinition before those of the model it redefines (selected_model_validator,
\* selected_model_finalizer, unique_model_hook_name), as long as no embedded machine has one.
LastHookWins ==
  phase = "defined" => \A kind \in {"validator", "finalizer"} :
    (\A q \in Members(m, kind) : Front(q) = m.root) /\ Members(m, kind) # {}
      => ran[kind] = Append(m.root, Numbered(kind, Cardinality(Members(m, kind)) - 1))

\* What refers to an operation that is not there, or to something else.
Dangling(model) ==
  {q \in DOMAIN model.members :
     \/ /\ model.members[q].is \in {"behavior", "constraint"} /\ model.members[q].operation # None
        /\ ~Is(model, model.members[q].operation, "operation")
     \/ /\ model.members[q].is = "transition"
        /\ \E e \in ToSet(model.members[q].events) : Head(e) = Call /\ ~Is(model, Tail(e), "operation")}

\* The transitions that wait for an attribute to be set.
Listening(model) ==
  {t \in Members(model, "transition") : \E e \in ToSet(model.members[t].events) : e \in model.attributes}

\* A behaviour, a guard or a trigger that names an operation or an attribute still does when
\* the model gets another name or becomes a state of another machine, whose operations and
\* attributes they then are (rebase_reference, submachine_operation_rewrites,
\* rewrite_submachine_references).
OperationsSurvive ==
  [][round' # round =>
       /\ Dangling(m) = {} => Dangling(m') = {}
       /\ Cardinality(Listening(m)) = Cardinality(Listening(m'))]_vars

\* A machine that only starts in its state Submachine, the state itself not declared.
StartingIn ==
  ClosePoint(PartialTarget(PartialInitial(NewModel(<<"p">>)), [up |-> 0, down |-> <<Submachine>>]))

\* A valid machine can be the state of such a machine.
EmbeddingKeepsValid ==
  phase = "defined" /\ ValidateModel(m) =>
    ValidateModel(FinalizeModel(Pop(PartialSubmachineState(StartingIn, Submachine, m))))

\* Every behaviour of a state or of a transition is listed once: given twice, as by two
\* entry elements of one state, the second function runs twice and the first one never.
RunsEachOnce ==
  phase = "defined" =>
    \A q \in DOMAIN m.members : \A field \in Lists(q) : IsInjective(m.members[q][field])
=============================================================================
