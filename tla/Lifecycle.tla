----------------------------- MODULE Lifecycle ------------------------------
(***************************************************************************)
(* What happens to a whole model (model_lifecycle.rs, model.rs): moving it *)
(* under another name, embedding it as the state of another one, and       *)
(* finalizing it, the tables of the interpreter left out.                  *)
(***************************************************************************)
EXTENDS Builder, Filtering

MaxNumber == 30   \* bound: the numbers in names

\* The number at the end of a name with this stem, 0 when it has none.
Number(q, stem) == Max({0} \cup {i \in 0 .. MaxNumber : Last(q) = Numbered(stem, i)})

\* The place of a number among the strings of digits: 1, 10, ..., 19, 2, 20 and so on.
DigitOrder(i) == IF i < 10 THEN 11 * i ELSE 11 * (i \div 10) + 1 + (i % 10)

\* The place of a name in the order of its list: the code sorts names as strings.
Rank(q, stem) == Len(q) * 100 + DigitOrder(Number(q, stem))

InOrder(names, stem) ==
  CHOOSE list \in [1 .. Cardinality(names) -> names] :
    \A i, j \in DOMAIN list : i < j => list[i] # list[j] /\ Rank(list[i], stem) <= Rank(list[j], stem)

MapSeq(Op(_), seq) == [i \in DOMAIN seq |-> Op(seq[i])]

-----------------------------------------------------------------------------
(* Moving a model *)

References == {"initial", "source", "target", "guard", "operation", "observes"}

\* Mutant of ReferenceLists: the effects of transitions keep their names.
ReferenceListsOfStates == {"transitions", "entry", "exit", "activities", "deferred", "events"}

ReferenceLists == {"transitions", "entry", "exit", "activities", "deferred", "effect", "events"}

\* Mutant of Moved: only the name of the machine itself changes.
MovedWhole(q, old, new) == IF q = old THEN new ELSE q

Moved(q, old, new) == IF IsPrefix(old, q) THEN new \o SubSeq(q, Len(old) + 1, Len(q)) ELSE q

\* A name that begins with the old root, or the name of a call to one.
RebaseReference(q, old, new) ==
  IF q # None /\ Head(q) = Call THEN <<Call>> \o Moved(Tail(q), old, new) ELSE Moved(q, old, new)

\* An element whose references, lists of references and observed names are replaced.
RebaseReferences(element, old, new) ==
  LET to(q) == RebaseReference(q, old, new)
  IN  [field \in DOMAIN element |->
         IF field \in References THEN to(element[field])
         ELSE IF field \in ReferenceLists THEN MapSeq(to, element[field])
         ELSE IF field = "targets" THEN {to(q) : q \in element[field]}
         ELSE element[field]]

\* The members under new names; two never get the same one.
Renamed(members, to) ==
  [q \in Range(to) |-> members[CHOOSE p \in DOMAIN members : to[p] = q]]

Rebase(m, new) ==
  LET to      == [q \in DOMAIN m.members |-> RebaseReference(q, m.root, new)]
      members == [q \in DOMAIN m.members |-> RebaseReferences(m.members[q], m.root, new)]
  IN  [m EXCEPT !.root = new, !.initial = RebaseReference(@, m.root, new), !.stack = <<new>>,
                !.attributes = {RebaseReference(q, m.root, new) : q \in @},
                !.members = Renamed(members, to)]

\* The operations and attributes of an embedded machine become those of the machine around it.
Lifted(q, boundary, root) == root \o SubSeq(q, Len(boundary) + 1, Len(q))

RewriteSubmachineEventReference(q, operations, attributes, boundary, root) ==
  IF q # None /\ Head(q) = Call
    THEN IF Tail(q) \in operations THEN <<Call>> \o Lifted(Tail(q), boundary, root) ELSE q
    ELSE IF q \in operations \cup attributes THEN Lifted(q, boundary, root) ELSE q

\* What behaviours and guards call is an operation, never an attribute.
RewriteSubmachineOperationReference(q, operations, boundary, root) ==
  RewriteSubmachineEventReference(q, operations, {}, boundary, root)

\* Mutant of RewriteSubmachineReferences: the triggers of transitions are forgotten.
RewriteBehaviors(element, operations, attributes, boundary, root) ==
  IF "operation" \notin DOMAIN element THEN element
  ELSE [element EXCEPT
          !.operation = RewriteSubmachineOperationReference(@, operations, boundary, root)]

\* Mutant of RewriteSubmachineReferences: the calls of operations are forgotten.
RewriteTriggers(element, operations, attributes, boundary, root) ==
  LET to(q) == RewriteSubmachineEventReference(q, operations, attributes, boundary, root)
  IN  IF "events" \in DOMAIN element THEN [element EXCEPT !.events = MapSeq(to, @)] ELSE element

\* Transitions, behaviours, observations and constraints follow; what a state defers does not.
RewriteSubmachineReferences(element, operations, attributes, boundary, root) ==
  LET to(q) == RewriteSubmachineEventReference(q, operations, attributes, boundary, root)
  IN  [field \in DOMAIN element |->
         IF field = "events" THEN MapSeq(to, element[field])
         ELSE IF field = "operation"
           THEN RewriteSubmachineOperationReference(element[field], operations, boundary, root)
         ELSE IF field = "targets" THEN {to(q) : q \in element[field]}
         ELSE element[field]]

PartialSubmachineState(m, name, machine) ==
  LET boundary   == Append(Top(m), name)
      child      == Rebase(machine, boundary)
      operations == Members(child, "operation")
      to == [q \in DOMAIN child.members |->
               RewriteSubmachineEventReference(q, operations, child.attributes, boundary, m.root)]
      members == [q \in DOMAIN child.members |->
                    RewriteSubmachineReferences(child.members[q], operations, child.attributes, boundary, m.root)]
      state   == [NewState("submachine") EXCEPT !.initial = child.initial]
  IN  Push([m EXCEPT !.members = Overlay(Renamed(members, to), Put(m, boundary, state).members),
                     !.attributes = @ \cup {Lifted(q, boundary, m.root) : q \in child.attributes}],
           boundary)

-----------------------------------------------------------------------------
(* The steps of finalize_model *)

IsGenerated(m, q) == Is(m, q, "behavior") /\ m.members[q].observes # None

\* Mutant of RemoveGeneratedObservationBehaviors: they stay in the lists.
RemoveMembersOnly(m) ==
  [m EXCEPT !.members = [q \in {q \in DOMAIN m.members : ~IsGenerated(m, q)} |-> m.members[q]]]

RemoveGeneratedObservationBehaviors(m) ==
  LET own == {q \in DOMAIN m.members : ~IsGenerated(m, q)}
      kept(list) == Filter(list, {q \in ToSet(list) : ~IsGenerated(m, q)})
  IN  [m EXCEPT !.members = [q \in own |->
         [field \in DOMAIN m.members[q] |->
            IF field \in BehaviorLists THEN kept(m.members[q][field]) ELSE m.members[q][field]]]]

HasEndpoint(m, q) == q = m.root \/ q \in DOMAIN m.members

\* A target that is missing beside its source is looked for under the machine.
ResolvedTarget(m, t) ==
  LET source  == m.members[t].source
      target  == m.members[t].target
      context == IF source = m.root \/ IsState(m, source) THEN source ELSE Front(source)
      fallback == m.root \o SubSeq(target, Len(context) + 1, Len(target))
  IN  IF /\ target # None /\ ~HasEndpoint(m, target)
         /\ context # None /\ IsPrefix(context, target) /\ target # context
         /\ HasEndpoint(m, fallback)
      THEN fallback ELSE target

ResolveTransitionTargets(m) ==
  [m EXCEPT !.members = [q \in DOMAIN @ |->
     IF IsTransition(m, q) THEN [@[q] EXCEPT !.target = ResolvedTarget(m, q)] ELSE @[q]]]

\* A transition of a state that names no event waits for the state's completion.
RegisterCompletionTransitions(m) ==
  [m EXCEPT !.members = [q \in DOMAIN @ |->
     IF IsTransition(m, q) /\ @[q].events = <<>> /\ HasKind(m, @[q].source, States)
     THEN [@[q] EXCEPT !.events = <<FinalEvent>>] ELSE @[q]]]

\* Mutant of RegisterTransitionSources: what is listed already is not left out.
RegisterAllSources(m) ==
  [m EXCEPT !.members = [q \in DOMAIN @ |->
     IF IsVertex(m, q)
     THEN [@[q] EXCEPT !.transitions = @ \o InOrder({t \in Members(m, "transition") : m.members[t].source = q}, "transition")]
     ELSE @[q]]]

\* Every transition that its source does not list yet is listed after the others.
RegisterTransitionSources(m) ==
  LET unlisted(v) == {t \in Members(m, "transition") :
                        m.members[t].source = v /\ ~Contains(m.members[v].transitions, t)}
      all(v) == m.members[v].transitions \o InOrder(unlisted(v), "transition")
  IN  [m EXCEPT !.members = [q \in DOMAIN @ |->
         IF IsVertex(m, q) THEN [@[q] EXCEPT !.transitions = all(q)] ELSE @[q]]]

TransitionKind(t) ==
  IF t.target = t.source THEN "self"
  ELSE IF t.target = None THEN "internal"
  ELSE IF IsPrefix(t.source, t.target) THEN "local" ELSE "external"

FinalizeTransitionKinds(m) ==
  [m EXCEPT !.members = [q \in DOMAIN @ |->
     IF IsTransition(m, q) THEN [@[q] EXCEPT !.kind = TransitionKind(m.members[q])] ELSE @[q]]]

-----------------------------------------------------------------------------
(* Observations: each one puts a behaviour of its own before what it observes. *)

\* Mutant of AppliedObservations: equal observations are all applied.
AllObservations(m) == InOrder(Members(m, "observation"), "observation")

\* The observations in order, an equal one (same observer, same targets) left out.
AppliedObservations(m) ==
  LET all == InOrder(Members(m, "observation"), "observation")
      repeats(i) == \E j \in 1 .. i - 1 : m.members[all[j]] = m.members[all[i]]
  IN  Filter(all, {all[i] : i \in {i \in DOMAIN all : ~repeats(i)}})

ObservationMatchesBehavior(m, o, b) ==
  m.members[o].targets = {} \/ b \in m.members[o].targets

ObservationMatchesTransition(m, o, t) ==
  \/ m.members[o].targets = {}
  \/ t \in m.members[o].targets
  \/ \E i \in DOMAIN m.members[t].events : m.members[t].events[i] \in m.members[o].targets

\* The name of what the i-th observation adds to an owner: unlike any other's.
Observing(i, occurrence, segment) == Numbered("observe", i) \o "_" \o occurrence \o "_" \o segment

ObservationBehaviorName(owner, i, occurrence, source) ==
  Append(owner, Observing(i, occurrence, Last(source)))

NewObservationBehavior(m, o, occurrence, source) ==
  [NewBehavior("none", m.members[o].observer) EXCEPT !.observes = source, !.occurrence = occurrence]

\* The observations that match, by place, and what they add before a behaviour b ...
BehaviorObservers(m, b) ==
  LET applied == AppliedObservations(m)
      matching == Filter([i \in DOMAIN applied |-> i], {i \in DOMAIN applied : ObservationMatchesBehavior(m, applied[i], b)})
  IN  MapSeq(LAMBDA i : ObservationBehaviorName(Front(b), i, "behavior", b), matching)

\* ... and for a transition t: before its effects and before what observes those.
EventObservers(m, t) ==
  LET applied == AppliedObservations(m)
      matching == Filter([i \in DOMAIN applied |-> i], {i \in DOMAIN applied : ObservationMatchesTransition(m, applied[i], t)})
  IN  MapSeq(LAMBDA i : ObservationBehaviorName(t, i, "event", t), matching)

\* A list of behaviours, each with its observers before its first place.
Observed(m, list) ==
  LET first(i) == \A j \in 1 .. i - 1 : list[j] # list[i]
  IN  FlattenSeq([i \in DOMAIN list |->
        IF first(i) THEN Append(BehaviorObservers(m, list[i]), list[i]) ELSE <<list[i]>>])

ObservedElement(m, q) ==
  [field \in DOMAIN m.members[q] |->
     IF field = "effect" THEN EventObservers(m, q) \o Observed(m, m.members[q].effect)
     ELSE IF field \in BehaviorLists THEN Observed(m, m.members[q][field])
     ELSE m.members[q][field]]

\* The behaviours that observations add, by name.
ObservationBehaviors(m) ==
  LET applied   == AppliedObservations(m)
      behaviors == {x \in (DOMAIN applied) \X Members(m, "behavior") :
                      ObservationMatchesBehavior(m, applied[x[1]], x[2]) /\ IsListed(m, x[2])}
      events    == {x \in (DOMAIN applied) \X Members(m, "transition") :
                      ObservationMatchesTransition(m, applied[x[1]], x[2])}
      added(x, occurrence, owner) == ObservationBehaviorName(owner, x[1], occurrence, x[2])
      behavior(x, occurrence) == NewObservationBehavior(m, applied[x[1]], occurrence, x[2])
  IN  Overlay([q \in {added(x, "behavior", Front(x[2])) : x \in behaviors} |->
                 behavior(CHOOSE x \in behaviors : added(x, "behavior", Front(x[2])) = q, "behavior")],
              [q \in {added(x, "event", x[2]) : x \in events} |->
                 behavior(CHOOSE x \in events : added(x, "event", x[2]) = q, "event")])

ApplyObservations(m) ==
  [m EXCEPT !.members = Overlay(ObservationBehaviors(m), [q \in DOMAIN @ |->
     IF @[q].is \in {"state", "transition"} THEN ObservedElement(m, q) ELSE @[q]])]

\* finalize_model, the hooks and the tables of the interpreter left out.
FinalizeModel(m) ==
  ApplyObservations(FinalizeTransitionKinds(RegisterTransitionSources(RegisterCompletionTransitions(
    ResolveTransitionTargets(RemoveGeneratedObservationBehaviors(m))))))

-----------------------------------------------------------------------------
(* Hooks: the one with the greatest number, and any of several that have it. *)

\* Mutant of SelectedHooks: the first one declared.
FirstHooks(m, kind) ==
  {q \in Members(m, kind) : \A p \in Members(m, kind) : Number(p, kind) >= Number(q, kind)}

SelectedHooks(m, kind) ==
  {q \in Members(m, kind) : \A p \in Members(m, kind) : Number(p, kind) <= Number(q, kind)}
=============================================================================
