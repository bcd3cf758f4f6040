-------------------------- MODULE NumberingProofs --------------------------
(***************************************************************************)
(* What rests on the numbers a definition gives to what it adds: those of  *)
(* the hooks have no gap, so the last one declared is the one selected;    *)
(* those of transitions are free when they are given out, so nothing lists *)
(* a transition before it is closed, and its source lists it once.         *)
(***************************************************************************)
EXTENDS DefinitionProofs

-----------------------------------------------------------------------------
(* The hooks: their numbers have no gap, and the last one is selected. *)

\* The kinds of hooks of which the last one runs.
HookKinds == {"validator", "finalizer"}

\* The name of a validator or of a finalizer of a machine.
NamesHook(root, q) == \E kind \in HookKinds, i \in Nat : q = Append(root, Numbered(kind, i))

\* The machine has the validators and the finalizers that it had.
SameHooks(model, other) ==
  /\ {"root", "members"} \subseteq DOMAIN other
  /\ other.root = model.root
  /\ \A q : NamesHook(model.root, q) => (q \in DOMAIN other.members <=> q \in DOMAIN model.members)

\* What is of another sort is not named as a hook.
LEMMA UnlikeHooks ==
  ASSUME Naming(Nat), NEW r \in Name, NEW p \in Name, NEW x \in Segment,
         NEW sort \in Sorts \cup {"user"}, sort \notin HookKinds, NamedAs(Nat, x, sort)
  PROVE  ~NamesHook(r, Append(p, x))
<1> SUFFICES ASSUME NEW kind \in HookKinds, NEW i \in Nat, Append(p, x) = Append(r, Numbered(kind, i))
             PROVE  FALSE
  BY DEF NamesHook
<1>1. kind \in Hooks /\ kind \in Sorts \cup {"user"}
  BY DEF HookKinds, Hooks, Sorts
<1> DEFINE y == Numbered(kind, i)
<1>2. NamedAs(Nat, y, kind)
  BY <1>1, MadeUp
<1>3. y \in Segment
  BY <1>1, <1>2, SegmentType DEF Sorts
<1> HIDE DEF y
<1>4. x = y
  <2>1. Append(p, x) = Append(r, y)
    BY DEF y
  <2>2. Last(Append(p, x)) = x /\ Last(Append(r, y)) = y
    BY <1>3, AppendName
  <2>3. QED BY <2>1, <2>2
<1>5. QED BY <1>1, <1>2, <1>4, SortDecides

\* A well-formed model has its own hooks.
LEMMA SameAtFirst ==
  ASSUME NEW model, WellFormed(Nat, model)
  PROVE  SameHooks(model, model)
  BY DEF SameHooks, WellFormed

\* What changes no names keeps the hooks, and a new member does that is none.
LEMMA SameAfter ==
  ASSUME NEW model, NEW other, SameHooks(model, other)
  PROVE  /\ \A q, field, value : SameHooks(model, Edit(other, q, field, value))
         /\ \A q, field, value : SameHooks(model, Extend(other, q, field, value))
         /\ \A q : SameHooks(model, Push(other, q))
         /\ SameHooks(model, Pop(other))
         /\ \A initial : SameHooks(model, [other EXCEPT !.initial = initial])
         /\ \A attributes : SameHooks(model, [other EXCEPT !.attributes = attributes])
         /\ \A q, e : ~NamesHook(model.root, q) => SameHooks(model, Put(other, q, e))
<1>1. ASSUME NEW q, NEW field, NEW value PROVE SameHooks(model, Edit(other, q, field, value))
  BY DEF SameHooks, Edit
<1>2. ASSUME NEW q, NEW field, NEW value PROVE SameHooks(model, Extend(other, q, field, value))
  BY <1>1 DEF Extend
<1>3. ASSUME NEW q PROVE SameHooks(model, Push(other, q))
  BY DEF SameHooks, Push
<1>4. SameHooks(model, Pop(other))
  BY DEF SameHooks, Pop
<1>5. ASSUME NEW initial PROVE SameHooks(model, [other EXCEPT !.initial = initial])
  BY DEF SameHooks
<1>6. ASSUME NEW attributes PROVE SameHooks(model, [other EXCEPT !.attributes = attributes])
  BY DEF SameHooks
<1>7. ASSUME NEW q, NEW e, ~NamesHook(model.root, q) PROVE SameHooks(model, Put(other, q, e))
  <2> DEFINE g == Overlay([p \in {q} |-> e], other.members)
             n == Put(other, q, e)
  <2>1. DOMAIN g = DOMAIN other.members \cup {q}
    BY DEF Overlay
  <2>2. n = [other EXCEPT !.members = g]
    BY DEF Put
  <2> HIDE DEF g, n
  <2>3. n.members = g /\ n.root = other.root /\ {"root", "members"} \subseteq DOMAIN n
    BY <2>2 DEF SameHooks
  <2>4. SameHooks(model, n)
    BY <1>7, <2>1, <2>3 DEF SameHooks
  <2>5. QED BY <2>4 DEF n
<1>8. QED BY <1>1, <1>2, <1>3, <1>4, <1>5, <1>6, <1>7

\* What the innermost open element contains and what the builders or the user name so.
LEMMA InTop ==
  ASSUME Naming(Nat), NEW model, WellFormed(Nat, model)
  PROVE  /\ Top(model) \in Name /\ model.root \in Name
         /\ \A p \in Name, x \in VertexNames \cup OperationNames \cup AttributeNames :
              ~NamesHook(model.root, Append(p, x)) /\ Append(p, x) \in Name
         /\ \A p \in Name, x \in {".initial", "transition", "guard", "after", "at", "every"} :
              ~NamesHook(model.root, Append(p, x)) /\ Append(p, x) \in Name
         /\ \A p \in Name, i \in Nat :
              ~NamesHook(model.root, Append(p, Numbered("transition", i)))
         /\ \A p \in Name : \A x : NamedAs(Nat, x, "behavior") => ~NamesHook(model.root, Append(p, x))
<1>1. Top(model) \in Name /\ model.root \in Name
  BY TopOf, Parts
<1>2. ASSUME NEW p \in Name, NEW x, NEW sort \in Sorts, sort \notin HookKinds, NamedAs(Nat, x, sort)
      PROVE  ~NamesHook(model.root, Append(p, x)) /\ Append(p, x) \in Name
  <2>1. x \in Segment
    BY <1>2, SegmentType
  <2>2. QED BY <1>1, <1>2, <2>1, UnlikeHooks, AppendName
<1>3. {"initial", "transition", "constraint", "behavior"} \subseteq Sorts \ HookKinds /\ "user" \notin HookKinds
  BY DEF Sorts, Hooks, HookKinds
<1>4. ASSUME NEW p \in Name, NEW x \in VertexNames \cup OperationNames \cup AttributeNames
      PROVE  ~NamesHook(model.root, Append(p, x)) /\ Append(p, x) \in Name
  <2>1. x \in Segment /\ NamedAs(Nat, x, "user")
    BY UserSegments
  <2>2. QED BY <1>1, <1>3, <2>1, UnlikeHooks, AppendName
<1>5. ASSUME NEW p \in Name, NEW x \in {".initial", "transition", "guard", "after", "at", "every"}
      PROVE  ~NamesHook(model.root, Append(p, x)) /\ Append(p, x) \in Name
  <2>1. NamedAs(Nat, x, "initial") \/ NamedAs(Nat, x, "transition") \/ NamedAs(Nat, x, "constraint")
    BY MadeUp
  <2>2. QED BY <1>2, <1>3, <2>1
<1>6. ASSUME NEW p \in Name, NEW i \in Nat PROVE ~NamesHook(model.root, Append(p, Numbered("transition", i)))
  BY <1>2, <1>3, MadeUp
<1>7. ASSUME NEW p \in Name, NEW x, NamedAs(Nat, x, "behavior") PROVE ~NamesHook(model.root, Append(p, x))
  BY <1>2, <1>3, <1>7
<1>8. QED BY <1>1, <1>4, <1>5, <1>6, <1>7

\* States and pseudostates.
LEMMA VerticesAreNoHooks ==
  ASSUME Naming(Nat), NEW model, WellFormed(Nat, model)
  PROVE  /\ \A name \in VertexNames : /\ SameHooks(model, PartialState(model, name))
                                      /\ SameHooks(model, PartialFinalState(model, name))
                                      /\ SameHooks(model, PartialChoice(model, name))
         /\ \A name \in VertexNames : \A kind, elements :
              /\ SameHooks(model, AddConnectionPointVertex(model, name, kind, elements))
              /\ SameHooks(model, PartialHistory(model, name, kind, elements))
         /\ SameHooks(model, PartialInitial(model))
<1>1. SameHooks(model, model)
  BY SameAtFirst
<1>2. ASSUME NEW name \in VertexNames, NEW e PROVE SameHooks(model, Put(model, Append(Top(model), name), e))
  BY <1>1, InTop, SameAfter
<1>3. ASSUME NEW name \in VertexNames \cup {".initial"}, NEW kind, NEW events
      PROVE  SameHooks(model, OpenPoint(model, name, kind, events))
  <2> DEFINE q == Append(Top(model), name)
             t == Append(q, "transition")
             a == Put(model, q, NewVertex(kind))
             b == Put(a, t, NewTransition(q, events))
  <2>1. q \in Name /\ ~NamesHook(model.root, q)
    BY InTop
  <2> HIDE DEF q
  <2>2. ~NamesHook(model.root, t)
    BY <2>1, InTop
  <2> HIDE DEF t
  <2>3. SameHooks(model, a)
    BY <1>1, <2>1, SameAfter
  <2> HIDE DEF a
  <2>4. SameHooks(model, b)
    BY <2>2, <2>3, SameAfter
  <2> HIDE DEF b
  <2>5. SameHooks(model, Push(Push(b, q), t))
    BY <2>4, SameAfter
  <2>6. QED BY <2>5 DEF OpenPoint, b, a, t, q
<1>4. ASSUME NEW name \in VertexNames
      PROVE  /\ SameHooks(model, PartialState(model, name)) /\ SameHooks(model, PartialFinalState(model, name))
             /\ SameHooks(model, PartialChoice(model, name))
  BY <1>1, <1>2, SameAfter DEF PartialState, PartialFinalState, PartialChoice
<1>5. ASSUME NEW name \in VertexNames, NEW kind, NEW elements
      PROVE  /\ SameHooks(model, AddConnectionPointVertex(model, name, kind, elements))
             /\ SameHooks(model, PartialHistory(model, name, kind, elements))
  BY <1>2, <1>3 DEF AddConnectionPointVertex, PartialHistory
<1>6. SameHooks(model, PartialInitial(model))
  <2> DEFINE opened == OpenPoint(model, ".initial", "initial", <<InitialEvent>>)
  <2>1. SameHooks(model, opened)
    BY <1>3
  <2> HIDE DEF opened
  <2>2. QED BY <2>1, SameAfter DEF PartialInitial, opened
<1>7. QED BY <1>4, <1>5, <1>6

\* Transitions, where one opens, and what is declared in one.
LEMMA TransitionsAreNoHooks ==
  ASSUME Naming(Nat), NEW model, WellFormed(Nat, model)
  PROVE  /\ SameHooks(model, PartialTransition(model))
         /\ \A path : SameHooks(model, PartialSource(model, path)) /\ SameHooks(model, PartialTarget(model, path))
         /\ \A event : SameHooks(model, PartialTrigger(model, event)) /\ SameHooks(model, PartialDefer(model, event))
         /\ \A name : SameHooks(model, PartialOnCall(model, name))
         /\ \A name \in AttributeNames : SameHooks(model, PartialOnSet(model, name))
         /\ \A name : SameHooks(model, SelectEntryPoint(model, name)) /\ SameHooks(model, SelectExitPoint(model, name))
         /\ SameHooks(model, ClosePoint(model)) /\ SameHooks(model, CloseTransition(model)) /\ SameHooks(model, Pop(model))
<1>1. SameHooks(model, model)
  BY SameAtFirst
<1>2. SameHooks(model, PartialTransition(model))
  <2>1. StructuralMemberCount(model) \in Nat
    BY MemberCount
  <2> DEFINE t == Append(Top(model), Numbered("transition", StructuralMemberCount(model)))
  <2>2. ~NamesHook(model.root, t)
    BY <2>1, InTop
  <2> HIDE DEF t
  <2>3. SameHooks(model, Push(Put(model, t, NewTransition(Top(model), <<>>)), t))
    BY <1>1, <2>2, SameAfter
  <2>4. QED BY <2>3 DEF PartialTransition, t
<1>3. ASSUME NEW name \in AttributeNames PROVE SameHooks(model, PartialOnSet(model, name))
  <2> DEFINE event    == Append(model.root, name)
             listened == Extend(model, Top(model), "events", <<event>>)
             n        == [listened EXCEPT !.attributes = listened.attributes \cup {event}]
  <2>1. ~NamesHook(model.root, event)
    BY InTop
  <2> HIDE DEF event
  <2>2. SameHooks(model, listened)
    BY <1>1, SameAfter
  <2> HIDE DEF listened
  <2>3. SameHooks(model, n)
    BY <2>2, SameAfter
  <2>4. PartialOnSet(model, name) = IF event \in model.attributes THEN listened ELSE Put(n, event, NewAttribute)
    BY DEF PartialOnSet, event, listened
  <2> HIDE DEF n
  <2>5. SameHooks(model, Put(n, event, NewAttribute))
    BY <2>1, <2>3, SameAfter
  <2>6. QED BY <2>2, <2>4, <2>5
<1>4. SameHooks(model, ClosePoint(model)) /\ SameHooks(model, CloseTransition(model)) /\ SameHooks(model, Pop(model))
  <2>1. \A q, field, value : SameHooks(model, Pop(Edit(model, q, field, value)))
    BY <1>1, SameAfter
  <2>2. SameHooks(model, CloseTransition(model)) /\ SameHooks(model, Pop(model))
    BY <1>1, <2>1, SameAfter DEF CloseTransition
  <2>3. \A q, field, value : SameHooks(model, Pop(Pop(Extend(model, q, field, value))))
    BY <1>1, SameAfter
  <2>4. QED BY <2>2, <2>3 DEF ClosePoint
<1>5. QED BY <1>1, <1>2, <1>3, <1>4, SameAfter
       DEF PartialSource, PartialTarget, PartialTrigger, PartialDefer, PartialOnCall, SelectEntryPoint, SelectExitPoint

\* Guards and timers.
LEMMA GuardsAreNoHooks ==
  ASSUME Naming(Nat), NEW model, WellFormed(Nat, model)
  PROVE  /\ SameHooks(model, PartialGuard(model))
         /\ \A name : SameHooks(model, PartialGuardOperationRef(model, name))
         /\ \A timer \in {"after", "at", "every"} : SameHooks(model, PartialTimer(model, timer))
<1>1. SameHooks(model, model)
  BY SameAtFirst
<1>2. ASSUME NEW x \in {"guard", "after", "at", "every"}, NEW e
      PROVE  SameHooks(model, Put(model, Append(Top(model), x), e))
  BY <1>1, InTop, SameAfter
<1>3. SameHooks(model, PartialGuard(model)) /\ \A name : SameHooks(model, PartialGuardOperationRef(model, name))
  BY <1>2, SameAfter DEF PartialGuard, PartialGuardOperationRef
<1>4. ASSUME NEW timer \in {"after", "at", "every"} PROVE SameHooks(model, PartialTimer(model, timer))
  <2> DEFINE q      == Append(Top(model), timer)
             moment == Append(Top(model), IF timer = "at" THEN "timepoint" ELSE "duration")
             put    == Put(model, q, NewConstraint(None, TRUE))
             timed  == Extend(put, Top(model), "events", <<moment, TimerEvent(timer)>>)
  <2>1. SameHooks(model, put)
    BY <1>2
  <2> HIDE DEF put, moment
  <2>2. SameHooks(model, timed)
    BY <2>1, SameAfter
  <2> HIDE DEF timed, q
  <2>3. PartialTimer(model, timer) =
          IF model.members[Top(model)].guard = None THEN Edit(timed, Top(model), "guard", q) ELSE timed
    BY DEF PartialTimer, timed, put, moment, q
  <2>4. QED BY <2>2, <2>3, SameAfter
<1>5. QED BY <1>3, <1>4

\* Behaviours of the innermost open element.
LEMMA AttachedAreNoHooks ==
  ASSUME Naming(Nat), NEW model, WellFormed(Nat, model), NEW role, NEW segments, NEW behaviors,
         \A i \in DOMAIN segments : NamedAs(Nat, segments[i], "behavior")
  PROVE  SameHooks(model, Attach(model, role, segments, behaviors))
<1> DEFINE names == [i \in DOMAIN segments |-> Append(Top(model), segments[i])]
           f == [q \in ToSet(names) |-> behaviors[CHOOSE i \in DOMAIN names : names[i] = q]]
           g == Overlay(f, model.members)
           added == [model EXCEPT !.members = g]
<1>1. \A q \in ToSet(names) : ~NamesHook(model.root, q)
  <2>1. \A i \in DOMAIN names : ~NamesHook(model.root, names[i])
    BY InTop
  <2> HIDE DEF names
  <2>2. QED BY <2>1 DEF ToSet
<1>2. Attach(model, role, segments, behaviors) =
        IF Top(model) \in DOMAIN model.members /\ List(role) \in DOMAIN model.members[Top(model)]
        THEN Extend(added, Top(model), List(role), names) ELSE added
  BY DEF Attach
<1> HIDE DEF names
<1>3. DOMAIN g = DOMAIN model.members \cup ToSet(names)
  BY DEF Overlay
<1> HIDE DEF g
<1>4. SameHooks(model, model)
  BY SameAtFirst
<1>5. added.members = g /\ added.root = model.root /\ {"root", "members"} \subseteq DOMAIN added
  BY <1>4 DEF SameHooks
<1> HIDE DEF added
<1>6. SameHooks(model, added)
  BY <1>1, <1>3, <1>5 DEF SameHooks
<1>7. QED BY <1>2, <1>6, SameAfter

\* Behaviours, operations, attributes and observations.
LEMMA MembersAreNoHooks ==
  ASSUME Naming(Nat), NEW model, WellFormed(Nat, model)
  PROVE  /\ \A role \in Roles, functions \in Seq(Functions) : SameHooks(model, PartialFunctions(model, role, functions))
         /\ \A role \in Roles, name \in OperationNames : SameHooks(model, PartialBehaviorOperation(model, role, name))
         /\ \A name \in OperationNames : /\ SameHooks(model, PartialOperation(model, name))
                                         /\ SameHooks(model, PartialGuardOperation(model, name))
         /\ \A name \in AttributeNames : SameHooks(model, PartialAttribute(model, name))
         /\ \A observer, targets : SameHooks(model, PartialObserve(model, observer, targets))
<1>1. SameHooks(model, model)
  BY SameAtFirst
<1>2. ASSUME NEW role \in Roles, NEW functions \in Seq(Functions)
      PROVE  SameHooks(model, PartialFunctions(model, role, functions))
  <2> DEFINE segments == [i \in DOMAIN functions |-> Nth(role, i)]
  <2>1. DOMAIN functions \subseteq Nat \ {0}
    OBVIOUS
  <2>2. \A i \in DOMAIN segments : NamedAs(Nat, segments[i], "behavior")
    BY <2>1, MadeUp
  <2> DEFINE behaviors == [i \in DOMAIN functions |-> NewBehavior(role, functions[i])]
  <2>3. PartialFunctions(model, role, functions) = Attach(model, role, segments, behaviors)
    BY DEF PartialFunctions
  <2> HIDE DEF segments, behaviors
  <2>4. QED BY <2>2, <2>3, AttachedAreNoHooks
<1>3. ASSUME NEW role \in Roles, NEW name \in OperationNames
      PROVE  SameHooks(model, PartialBehaviorOperation(model, role, name))
  <2> DEFINE segments == <<Calling(role, name)>>
             behaviors == <<[NewBehavior("none", "none") EXCEPT !.operation = ResolveModelReference(model, name)]>>
  <2>1. NamedAs(Nat, Calling(role, name), "behavior")
    BY MadeUp
  <2>2. DOMAIN segments = {1} /\ segments[1] = Calling(role, name)
    OBVIOUS
  <2>3. PartialBehaviorOperation(model, role, name) = Attach(model, role, segments, behaviors)
    BY DEF PartialBehaviorOperation
  <2> HIDE DEF segments, behaviors
  <2>4. \A i \in DOMAIN segments : NamedAs(Nat, segments[i], "behavior")
    BY <2>1, <2>2
  <2>5. QED BY <2>3, <2>4, AttachedAreNoHooks
<1>4. ASSUME NEW name \in OperationNames \cup AttributeNames, NEW e
      PROVE  /\ ~NamesHook(model.root, Append(Top(model), name))
             /\ SameHooks(model, Put(model, Append(Top(model), name), e))
  BY <1>1, InTop, SameAfter
<1>5. ASSUME NEW name \in AttributeNames PROVE SameHooks(model, PartialAttribute(model, name))
  <2> DEFINE q == Append(Top(model), name)
             n == [model EXCEPT !.attributes = model.attributes \cup {q}]
  <2>1. SameHooks(model, n)
    BY <1>1, SameAfter
  <2>2. PartialAttribute(model, name) = Put(n, q, NewAttribute)
    BY DEF PartialAttribute
  <2>3. ~NamesHook(model.root, q)
    BY <1>4
  <2> HIDE DEF n, q
  <2>4. QED BY <2>1, <2>2, <2>3, SameAfter
<1>6. ASSUME NEW observer, NEW targets PROVE SameHooks(model, PartialObserve(model, observer, targets))
  <2>1. "observation" \in Hooks /\ "observation" \in Sorts /\ "observation" \notin HookKinds
    BY DEF Hooks, Sorts, HookKinds
  <2>2. PICK i \in Nat : UniqueModelHookName(model, "observation") = Append(model.root, Numbered("observation", i))
    BY <2>1, HookNumber
  <2> DEFINE x == Numbered("observation", i)
  <2>3. NamedAs(Nat, x, "observation") /\ x \in Segment
    BY <2>1, MadeUp, SegmentType
  <2>4. UniqueModelHookName(model, "observation") = Append(model.root, x)
    BY <2>2
  <2> HIDE DEF x
  <2>5. ~NamesHook(model.root, Append(model.root, x))
    BY <2>1, <2>3, InTop, UnlikeHooks
  <2>6. QED BY <1>1, <2>4, <2>5, SameAfter DEF PartialObserve
<1>7. QED BY <1>2, <1>3, <1>4, <1>5, <1>6 DEF PartialOperation, PartialGuardOperation

\* The machine has n validators or finalizers, numbered from 0.
Numbers(model, kind, n) ==
  \A i \in Nat : Append(model.root, Numbered(kind, i)) \in DOMAIN model.members <=> i < n

\* One more, with the next number; those of the other kind stay.
LEMMA HookAdded ==
  ASSUME Naming(Nat), NEW model, WellFormed(Nat, model), NEW kind \in HookKinds, NEW e
  PROVE  LET other == Put(model, UniqueModelHookName(model, kind), e)
         IN  /\ \A n \in Nat : Numbers(model, kind, n) => Numbers(other, kind, n + 1)
             /\ \A rest \in HookKinds \ {kind}, n \in Nat : Numbers(model, rest, n) => Numbers(other, rest, n)
<1> DEFINE q == UniqueModelHookName(model, kind)
           g == Overlay([p \in {q} |-> e], model.members)
           other == Put(model, q, e)
<1>1. kind \in Hooks /\ \A rest \in HookKinds : rest \in Hooks /\ rest \in Sorts \cup {"user"} /\ rest \in Sorts
  BY DEF HookKinds, Hooks, Sorts
<1>2. PICK k \in Nat : /\ q = Append(model.root, Numbered(kind, k))
                       /\ Append(model.root, Numbered(kind, k)) \notin DOMAIN model.members
                       /\ \A j \in 0 .. k - 1 : Append(model.root, Numbered(kind, j)) \in DOMAIN model.members
  BY <1>1, HookNumber
<1>3. other.root = model.root /\ DOMAIN other.members = DOMAIN model.members \cup {q}
  <2>1. DOMAIN g = DOMAIN model.members \cup {q}
    BY DEF Overlay
  <2>2. other = [model EXCEPT !.members = g] /\ {"root", "members"} \subseteq DOMAIN model
    BY DEF Put, WellFormed
  <2> HIDE DEF g, other
  <2>3. QED BY <2>1, <2>2
<1> HIDE DEF q, other
<1>4. ASSUME NEW rest \in HookKinds, NEW i \in Nat
      PROVE  Append(model.root, Numbered(rest, i)) = q <=> rest = kind /\ i = k
  <2> DEFINE x == Numbered(rest, i)
             y == Numbered(kind, k)
  <2>1. /\ NamedAs(Nat, x, rest) /\ NamedAs(Nat, y, kind) /\ x \in Segment /\ y \in Segment
        /\ model.root \in Name
    BY <1>1, MadeUp, SegmentType, Parts
  <2>2. rest = kind => (x = y <=> i = k)
    BY <1>1 DEF Naming
  <2>3. q = Append(model.root, y)
    BY <1>2
  <2> HIDE DEF x, y
  <2>4. Append(model.root, x) = q <=> x = y
    <3>1. Last(Append(model.root, x)) = x /\ Last(Append(model.root, y)) = y
      BY <2>1, AppendName
    <3>2. QED BY <2>3, <3>1
  <2>5. x = y => rest = kind
    BY <1>1, <2>1, SortDecides
  <2>6. QED BY <2>2, <2>4, <2>5 DEF x
<1>5. ASSUME NEW n \in Nat, Numbers(model, kind, n) PROVE Numbers(other, kind, n + 1)
  <2>1. ~(k < n) /\ \A j \in 0 .. k - 1 : j < n
    <3>1. \A i \in Nat : Append(model.root, Numbered(kind, i)) \in DOMAIN model.members <=> i < n
      BY <1>5 DEF Numbers
    <3>2. \A j \in 0 .. k - 1 : j \in Nat
      OBVIOUS
    <3>3. QED BY <1>2, <3>1, <3>2
  <2>2. k = n
    <3>1. k - 1 \in 0 .. k - 1 \/ k = 0
      OBVIOUS
    <3>2. k = 0 \/ k - 1 < n
      BY <2>1, <3>1
    <3>3. QED BY <2>1, <3>2
  <2>3. ASSUME NEW i \in Nat PROVE Append(other.root, Numbered(kind, i)) \in DOMAIN other.members <=> i < n + 1
    <3>1. Append(model.root, Numbered(kind, i)) \in DOMAIN model.members <=> i < n
      BY <1>5 DEF Numbers
    <3>2. Append(model.root, Numbered(kind, i)) = q <=> i = n
      BY <1>4, <2>2
    <3>3. i < n + 1 <=> (i < n \/ i = n)
      OBVIOUS
    <3>4. QED BY <1>3, <3>1, <3>2, <3>3
  <2>4. QED BY <2>3 DEF Numbers
<1>6. ASSUME NEW rest \in HookKinds \ {kind}, NEW n \in Nat, Numbers(model, rest, n) PROVE Numbers(other, rest, n)
  BY <1>3, <1>4, <1>6 DEF Numbers
<1>7. QED BY <1>5, <1>6 DEF other, q

\* rebase: the hooks follow.
LEMMA RebasedHooks ==
  ASSUME Naming(Nat), NEW model, WellFormed(Nat, model), NEW new, IsRoot(new),
         NEW kind \in HookKinds, NEW n \in Nat, Numbers(model, kind, n)
  PROVE  Numbers(Rebase(model, new), kind, n)
<1> DEFINE root == model.root
           D == DOMAIN model.members
           to == [q \in D |-> RebaseReference(q, root, new)]
           members == [q \in D |-> RebaseReferences(model.members[q], root, new)]
           r == Renamed(members, to)
           other == Rebase(model, new)
<1>1. other.root = new /\ other.members = r
  <2>1. other = [model EXCEPT !.root = new, !.initial = RebaseReference(@, root, new), !.stack = <<new>>,
                !.attributes = {RebaseReference(q, root, new) : q \in @}, !.members = r]
    BY DEF Rebase
  <2>2. {"root", "members"} \subseteq DOMAIN model
    BY DEF WellFormed
  <2> HIDE DEF other, r
  <2>3. QED BY <2>1, <2>2
<1> HIDE DEF other
<1>2. root \in Name /\ root # None /\ Head(root) # Call /\ new \in Name /\ new # None /\ IsFiniteSet(D)
  BY Parts DEF IsRoot
<1>3. DOMAIN members = D /\ to = [q \in DOMAIN members |-> to[q]]
  OBVIOUS
<1>4. \A q \in D : to[q] = RebaseReference(q, root, new)
  OBVIOUS
<1> HIDE DEF members, to
<1>5. DOMAIN r = {to[p] : p \in D}
  <2>1. /\ \A q \in DOMAIN r : \E p \in DOMAIN members : to[p] = q
        /\ \A p \in DOMAIN members : to[p] \in DOMAIN r
    BY <1>2, <1>3, RenamedMembers
  <2> HIDE DEF r
  <2>2. QED BY <1>3, <2>1
<1> HIDE DEF r
<1>6. ASSUME NEW q \in D
      PROVE  /\ q \in Name /\ Last(to[q]) = Last(q) /\ Last(q) \in Segment /\ q = Append(Front(q), Last(q))
             /\ to[q] \in Name /\ to[q] = Append(Front(to[q]), Last(q))
             /\ Front(to[q]) = new <=> Front(q) = root
  <2>1. q \in Name /\ q # None /\ IsStrictPrefix(root, q) /\ IsPrefix(root, q)
    BY Parts DEF IsStrictPrefix
  <2>2. to[q] = Lifted(q, root, new)
    BY <1>2, <1>4, <2>1, RebasedName
  <2>3. /\ to[q] \in Name /\ to[q] # None /\ Last(to[q]) = Last(q) /\ Front(to[q]) = Lifted(Front(q), root, new)
    BY <1>2, <2>1, <2>2, LiftedBelow
  <2>4. Front(q) \in Name /\ IsPrefix(root, Front(q))
    BY <1>2, <2>1, FrontBelow
  <2>5. Front(to[q]) = new <=> Front(q) = root
    BY <1>2, <2>3, <2>4, LiftedRoot
  <2>6. Last(q) \in Segment /\ q = Append(Front(q), Last(q)) /\ to[q] = Append(Front(to[q]), Last(to[q]))
    BY <2>1, <2>3, FrontName
  <2>7. QED BY <2>1, <2>3, <2>5, <2>6
<1>7. ASSUME NEW i \in Nat PROVE Append(new, Numbered(kind, i)) \in DOMAIN r <=> i < n
  <2> DEFINE x == Numbered(kind, i)
  <2>1. x \in Segment
    BY MadeUp, SegmentType DEF HookKinds, Hooks, Sorts
  <2>2. Append(root, x) \in D <=> i < n
    BY DEF Numbers
  <2> HIDE DEF x
  <2>3. /\ Front(Append(root, x)) = root /\ Last(Append(root, x)) = x
        /\ Front(Append(new, x)) = new /\ Last(Append(new, x)) = x
    BY <1>2, <2>1, AppendName
  <2>4. ASSUME Append(root, x) \in D PROVE Append(new, x) \in DOMAIN r
    <3>1. to[Append(root, x)] = Append(new, x)
      BY <1>6, <2>3, <2>4
    <3>2. QED BY <1>5, <2>4, <3>1
  <2>5. ASSUME Append(new, x) \in DOMAIN r PROVE Append(root, x) \in D
    <3>1. PICK p \in D : to[p] = Append(new, x)
      BY <1>5, <2>5
    <3>2. Last(p) = x /\ Front(p) = root
      BY <1>6, <2>3, <3>1
    <3>3. QED BY <1>6, <3>2
  <2>6. QED BY <2>2, <2>4, <2>5 DEF x
<1>8. QED BY <1>1, <1>7 DEF Numbers, other

\* partial_submachine_state: the hooks of the embedded machine are none of the one around it.
LEMMA EmbeddedHooks ==
  ASSUME Naming(Nat), NEW model, WellFormed(Nat, model), model.stack = <<model.root>>,
         NEW machine, WellFormed(Nat, machine)
  PROVE  SameHooks(model, PartialSubmachineState(model, Submachine, machine))
<1> DEFINE root       == model.root
           boundary   == Append(root, Submachine)
           child      == Rebase(machine, boundary)
           operations == Members(child, "operation")
           D  == DOMAIN child.members
           to == [q \in D |-> RewriteSubmachineEventReference(q, operations, child.attributes, boundary, root)]
           members == [q \in D |-> RewriteSubmachineReferences(child.members[q], operations, child.attributes, boundary, root)]
           state   == [NewState("submachine") EXCEPT !.initial = child.initial]
           r == Renamed(members, to)
           put == Put(model, boundary, state)
           g == Overlay(r, put.members)
           A == model.attributes \cup {Lifted(q, boundary, root) : q \in child.attributes}
           named == [model EXCEPT !.members = g, !.attributes = A]
<1>1. /\ root \in Name /\ root # None /\ Head(root) # Call /\ Top(model) = root /\ Submachine \in Segment
      /\ ~NamesHook(root, boundary)
  <2>1. Submachine \in VertexNames
    BY DEF VertexNames
  <2>2. Submachine \in Segment
    BY <2>1, UserSegments
  <2>3. root \in Name /\ root # None /\ Head(root) # Call /\ Top(model) = root
    BY Parts, TopOf
  <2>4. QED BY <2>1, <2>2, <2>3, InTop
<1>2. boundary \in Name /\ boundary # None /\ IsStrictPrefix(root, boundary) /\ IsRoot(boundary)
  <2>1. boundary \in Name /\ boundary # None /\ IsStrictPrefix(root, boundary)
    BY <1>1, AppendName, AppendBelow, PrefixReflexive
  <2> HIDE DEF boundary
  <2>2. Head(boundary) # Call
    BY <1>1, <2>1, HeadBelow DEF IsStrictPrefix
  <2>3. QED BY <2>1, <2>2 DEF IsRoot
<1>3. WellFormed(Nat, child) /\ child.root = boundary
  <2> HIDE DEF boundary
  <2> QED BY <1>2, RebaseFits
<1> HIDE DEF child
<1>4. PartialSubmachineState(model, Submachine, machine) = Push(named, boundary)
  BY <1>1 DEF PartialSubmachineState, child
<1>5. DOMAIN members = D /\ to = [q \in DOMAIN members |-> to[q]] /\ IsFiniteSet(D)
  BY <1>3, Parts
<1>6. \A q \in D : to[q] = RewriteSubmachineEventReference(q, operations, child.attributes, boundary, root)
  OBVIOUS
<1> HIDE DEF members, to, boundary
<1>7. ASSUME NEW q \in D PROVE ~NamesHook(root, to[q])
  <2>1. q \in Name /\ q # None /\ IsStrictPrefix(boundary, q) /\ NamedAs(Nat, Last(q), Sort(child.members[q]))
    BY <1>3, Parts
  <2>2. Head(q) # Call
    BY <1>2, <2>1, HeadBelow DEF IsStrictPrefix, IsRoot
  <2>3. CASE q \in operations \cup child.attributes
    <3>1. to[q] = Lifted(q, boundary, root)
      BY <1>6, <2>2, <2>3 DEF RewriteSubmachineEventReference
    <3>2. to[q] \in Name /\ to[q] # None /\ Last(to[q]) = Last(q)
      BY <1>1, <1>2, <2>1, <3>1, LiftedBelow
    <3>3. Sort(child.members[q]) = "user"
      BY <1>3, <2>3, OnlyDeclarationsMove
    <3>4. /\ Front(to[q]) \in Name /\ Last(to[q]) \in Segment /\ to[q] = Append(Front(to[q]), Last(to[q]))
          /\ NamedAs(Nat, Last(to[q]), "user") /\ "user" \notin HookKinds
      BY <2>1, <3>2, <3>3, FrontName DEF HookKinds
    <3>5. QED BY <1>1, <3>4, UnlikeHooks
  <2>4. CASE q \notin operations \cup child.attributes
    <3>1. to[q] = q
      BY <1>6, <2>2, <2>4 DEF RewriteSubmachineEventReference
    <3>2. Front(q) # root
      BY <1>1, <2>1, DeepBelow DEF boundary
    <3>3. ASSUME NEW kind \in HookKinds, NEW i \in Nat PROVE q # Append(root, Numbered(kind, i))
      <4>1. Numbered(kind, i) \in Segment
        BY MadeUp, SegmentType DEF HookKinds, Hooks, Sorts
      <4>2. Front(Append(root, Numbered(kind, i))) = root
        BY <1>1, <4>1, AppendName
      <4>3. QED BY <3>2, <4>2
    <3>4. QED BY <3>1, <3>3 DEF NamesHook
  <2>5. QED BY <2>3, <2>4
<1>8. \A q \in DOMAIN r : ~NamesHook(root, q)
  <2>1. \A q \in DOMAIN r : \E p \in DOMAIN members : to[p] = q
    BY <1>5, RenamedMembers
  <2> HIDE DEF r
  <2>2. QED BY <1>5, <1>7, <2>1
<1> HIDE DEF r, A
<1>9. SameHooks(model, put)
  BY <1>1, SameAtFirst, SameAfter
<1> HIDE DEF put
<1>10. DOMAIN g = DOMAIN r \cup DOMAIN put.members
  BY DEF Overlay
<1> HIDE DEF g
<1>11. named.members = g /\ named.root = root /\ {"root", "members"} \subseteq DOMAIN named
  BY DEF WellFormed
<1> HIDE DEF named
<1>12. SameHooks(model, named)
  BY <1>8, <1>9, <1>10, <1>11 DEF SameHooks
<1>13. QED BY <1>4, <1>12, SameAfter

\* The same validators and finalizers, those of embedded machines too.
AllHooks(model, other) ==
  /\ other.root = model.root
  /\ \A kind \in HookKinds : Members(other, kind) = Members(model, kind)

\* What was there is of the sort it was; what is new and what is gone is no hook.
LEMMA HooksStay ==
  ASSUME Naming(Nat), NEW model, WellFormed(Nat, model), NEW other, WellFormed(Nat, other),
         other.stack = model.stack,
         \A q \in DOMAIN model.members \ DOMAIN other.members : model.members[q].is \notin HookKinds,
         \A q \in DOMAIN other.members \ DOMAIN model.members : other.members[q].is \notin HookKinds
  PROVE  AllHooks(model, other)
<1>1. other.root = model.root
  BY DEF WellFormed
<1>2. ASSUME NEW kind \in HookKinds, NEW q \in DOMAIN model.members, q \in DOMAIN other.members
      PROVE  other.members[q].is = kind <=> model.members[q].is = kind
  <2>1. kind \in Hooks
    BY DEF HookKinds, Hooks
  <2>2. Sort(other.members[q]) = Sort(model.members[q])
    <3>1. /\ NamedAs(Nat, Last(q), Sort(other.members[q])) /\ Sort(other.members[q]) \in Sorts \cup {"user"}
          /\ NamedAs(Nat, Last(q), Sort(model.members[q])) /\ Sort(model.members[q]) \in Sorts \cup {"user"}
      BY <1>2, Parts
    <3>2. QED BY <3>1, SortDecides
  <2>3. other.members[q].is \in Variants /\ model.members[q].is \in Variants
    BY <1>2, Parts
  <2>4. QED BY <2>1, <2>2, <2>3, SortIs
<1>3. QED BY <1>1, <1>2 DEF AllHooks, Members

\* apply_observations adds behaviours and removes nothing.
LEMMA AppliedMembers ==
  ASSUME NEW model, WellFormed(Nat, model)
  PROVE  LET other == ApplyObservations(model)
         IN  /\ DOMAIN model.members \subseteq DOMAIN other.members
             /\ \A q \in DOMAIN other.members \ DOMAIN model.members : other.members[q].is = "behavior"
<1> DEFINE OB == ObservationBehaviors(model)
           h  == [q \in DOMAIN model.members |->
                    IF model.members[q].is \in {"state", "transition"} THEN ObservedElement(model, q) ELSE model.members[q]]
           G  == Overlay(OB, h)
           other == ApplyObservations(model)
<1>1. other = [model EXCEPT !.members = G]
  BY DEF ApplyObservations
<1>2. \A q \in DOMAIN OB : \E i, x, occurrence :
        /\ Adds(model, i, x, occurrence, q)
        /\ OB[q] = NewObservationBehavior(model, AppliedObservations(model)[i], occurrence, x)
  BY AddedMembers
<1> HIDE DEF OB
<1>3. \A q \in DOMAIN OB : OB[q].is = "behavior"
  BY <1>2 DEF NewObservationBehavior, NewBehavior
<1>4. DOMAIN h = DOMAIN model.members
  OBVIOUS
<1> HIDE DEF h
<1>5. DOMAIN G = DOMAIN OB \cup DOMAIN model.members /\ \A q \in DOMAIN OB : G[q] = OB[q]
  BY <1>4 DEF Overlay
<1> HIDE DEF G, other
<1>6. other.members = G
  BY <1>1 DEF WellFormed
<1>7. QED BY <1>3, <1>5, <1>6 DEF other

\* finalize_model: observing and building the tables neither adds nor removes a hook.
LEMMA FinalizedHooks ==
  ASSUME Naming(Nat), NEW model, WellFormed(Nat, model), model.stack = <<model.root>>
  PROVE  AllHooks(model, FinalizeModel(model))
<1> DEFINE a == RemoveGeneratedObservationBehaviors(model)
           b == ResolveTransitionTargets(a)
           c == RegisterCompletionTransitions(b)
           d == RegisterTransitionSources(c)
           e == FinalizeTransitionKinds(d)
           f == ApplyObservations(e)
           Plain(n) == \A q \in DOMAIN n.members : Sort(n.members[q]) # "generated"
<1>1. FinalizeModel(model) = f
  BY DEF FinalizeModel
<1>2. ASSUME NEW n, NEW other, Keeps(n, other), DOMAIN other.members = DOMAIN n.members, Plain(n) PROVE Plain(other)
  BY <1>2 DEF Keeps, HasSort
<1>3. "behavior" \notin HookKinds
  BY DEF HookKinds
<1>4. WellFormed(Nat, a) /\ Plain(a) /\ a.stack = model.stack /\ AllHooks(model, a)
  <2> DEFINE own == {q \in DOMAIN model.members : ~IsGenerated(model, q)}
             kept(list) == Filter(list, {q \in ToSet(list) : ~IsGenerated(model, q)})
             g == [q \in own |-> [field \in DOMAIN model.members[q] |->
                     IF field \in BehaviorLists THEN kept(model.members[q][field]) ELSE model.members[q][field]]]
  <2>1. a = [model EXCEPT !.members = g]
    BY DEF RemoveGeneratedObservationBehaviors
  <2>2. DOMAIN g = own
    OBVIOUS
  <2>3. WellFormed(Nat, a) /\ Plain(a)
    BY RemovedFits
  <2> HIDE DEF a, g, Plain
  <2>4. a.members = g /\ a.stack = model.stack
    BY <2>1 DEF WellFormed
  <2>5. \A q \in DOMAIN model.members \ DOMAIN a.members : model.members[q].is \notin HookKinds
    BY <1>3, <2>2, <2>4 DEF IsGenerated, Is
  <2>6. \A q \in DOMAIN a.members \ DOMAIN model.members : a.members[q].is \notin HookKinds
    BY <2>2, <2>4
  <2>7. QED BY <2>3, <2>4, <2>5, <2>6, HooksStay
<1> HIDE DEF a, Plain
<1>5. ASSUME NEW n, WellFormed(Nat, n), n.stack = model.stack, AllHooks(model, n),
             NEW other, WellFormed(Nat, other), other.stack = n.stack, DOMAIN other.members = DOMAIN n.members
      PROVE  other.stack = model.stack /\ AllHooks(model, other)
  BY <1>5, HooksStay DEF AllHooks
<1>6. WellFormed(Nat, b) /\ Plain(b) /\ b.stack = model.stack /\ AllHooks(model, b)
  BY <1>2, <1>4, <1>5, ResolveFits
<1> HIDE DEF b
<1>7. WellFormed(Nat, c) /\ Plain(c) /\ c.stack = model.stack /\ AllHooks(model, c)
  BY <1>2, <1>5, <1>6, CompletionFits
<1> HIDE DEF c
<1>8. WellFormed(Nat, d) /\ Plain(d) /\ d.stack = model.stack /\ AllHooks(model, d)
  BY <1>2, <1>5, <1>7, SourcesFit
<1> HIDE DEF d
<1>9. WellFormed(Nat, e) /\ Plain(e) /\ e.stack = model.stack /\ AllHooks(model, e)
  BY <1>2, <1>5, <1>8, KindsFit
<1> HIDE DEF e
<1>10. WellFormed(Nat, f) /\ f.stack = model.stack
  BY <1>9, ApplyFits DEF Plain
<1>11. AllHooks(e, f)
  <2>1. /\ \A q \in DOMAIN e.members \ DOMAIN f.members : e.members[q].is \notin HookKinds
        /\ \A q \in DOMAIN f.members \ DOMAIN e.members : f.members[q].is \notin HookKinds
    BY <1>3, <1>9, AppliedMembers
  <2>2. QED BY <1>9, <1>10, <2>1, HooksStay
<1>12. QED BY <1>1, <1>9, <1>11 DEF AllHooks

\* The hooks of the machine itself are those that are named so.
LEMMA HooksByName ==
  ASSUME Naming(Nat), NEW model, WellFormed(Nat, model), NEW kind \in HookKinds
  PROVE  /\ \A i \in Nat : Append(model.root, Numbered(kind, i)) \in DOMAIN model.members
                             <=> Append(model.root, Numbered(kind, i)) \in Members(model, kind)
         /\ \A q \in Members(model, kind) : Front(q) = model.root =>
              \E i \in Nat : q = Append(model.root, Numbered(kind, i))
<1>1. kind \in Hooks /\ kind \in Sorts /\ kind \in Sorts \cup {"user"} /\ kind # "user"
  BY DEF HookKinds, Hooks, Sorts
<1>2. ASSUME NEW i \in Nat, Append(model.root, Numbered(kind, i)) \in DOMAIN model.members
      PROVE  Append(model.root, Numbered(kind, i)) \in Members(model, kind)
  <2> DEFINE x == Numbered(kind, i)
             q == Append(model.root, x)
  <2>1. NamedAs(Nat, x, kind) /\ x \in Segment /\ model.root \in Name
    BY <1>1, MadeUp, SegmentType, Parts
  <2>2. q \in DOMAIN model.members
    BY <1>2
  <2> HIDE DEF x
  <2>3. Last(q) = x
    BY <2>1, AppendName
  <2> HIDE DEF q
  <2>4. /\ NamedAs(Nat, Last(q), Sort(model.members[q])) /\ Sort(model.members[q]) \in Sorts \cup {"user"}
        /\ model.members[q].is \in Variants
    BY <2>2, Parts
  <2>5. Sort(model.members[q]) = kind
    BY <1>1, <2>1, <2>3, <2>4, SortDecides
  <2>6. model.members[q].is = kind
    BY <1>1, <2>4, <2>5, SortIs
  <2>7. q \in Members(model, kind)
    BY <2>2, <2>6 DEF Members
  <2>8. QED BY <2>7 DEF q, x
<1>3. ASSUME NEW q \in Members(model, kind), Front(q) = model.root
      PROVE  \E i \in Nat : q = Append(model.root, Numbered(kind, i))
  <2>1. q \in DOMAIN model.members /\ model.members[q].is = kind
    BY DEF Members
  <2>2. /\ q \in Name /\ q # None /\ NamedAs(Nat, Last(q), Sort(model.members[q]))
        /\ model.members[q].is \in Variants
    BY <2>1, Parts
  <2>3. Sort(model.members[q]) = kind
    BY <1>1, <2>1, <2>2, SortIs
  <2>4. Segments(Nat, kind) = {Numbered(kind, i) : i \in Nat}
    BY <1>1 DEF Segments, Hooks
  <2>5. PICK i \in Nat : Last(q) = Numbered(kind, i)
    BY <1>1, <2>2, <2>3, <2>4 DEF NamedAs
  <2>6. q = Append(Front(q), Last(q))
    BY <2>2, FrontName
  <2>7. QED BY <1>3, <2>5, <2>6
<1>4. QED BY <1>2, <1>3 DEF Members

\* The same hooks, the same numbers.
LEMMA AllNumbers ==
  ASSUME Naming(Nat), NEW model, WellFormed(Nat, model), NEW other, WellFormed(Nat, other), AllHooks(model, other),
         NEW kind \in HookKinds, NEW n \in Nat, Numbers(model, kind, n)
  PROVE  Numbers(other, kind, n)
<1>1. other.root = model.root /\ Members(other, kind) = Members(model, kind)
  BY DEF AllHooks
<1>2. ASSUME NEW i \in Nat PROVE Append(other.root, Numbered(kind, i)) \in DOMAIN other.members <=> i < n
  BY <1>1, HooksByName DEF Numbers
<1>3. QED BY <1>2 DEF Numbers

\* The number at the end of the name of a hook.
LEMMA NumberOfHook ==
  ASSUME Naming(Nat), NEW root \in Name, NEW kind \in HookKinds, NEW i \in 0 .. MaxNumber
  PROVE  Number(Append(root, Numbered(kind, i)), kind) = i
<1> DEFINE x == Numbered(kind, i)
           q == Append(root, x)
           T == {0} \cup {j \in 0 .. MaxNumber : Last(q) = Numbered(kind, j)}
<1>1. kind \in Hooks /\ kind \in Sorts /\ MaxNumber \in Nat /\ i \in Nat
  BY DEF HookKinds, Hooks, Sorts, MaxNumber
<1>2. x \in Segment
  BY <1>1, MadeUp, SegmentType
<1>3. Last(q) = x
  <2> HIDE DEF x
  <2> QED BY <1>2, AppendName
<1> HIDE DEF q
<1>4. \A j \in 0 .. MaxNumber : Last(q) = Numbered(kind, j) <=> j = i
  <2> TAKE j \in 0 .. MaxNumber
  <2>1. j \in Nat
    BY <1>1
  <2>2. Numbered(kind, i) = Numbered(kind, j) => i = j
    BY <1>1, <2>1 DEF Naming
  <2>3. QED BY <1>3, <2>2
<1>5. T = {0, i}
  BY <1>1, <1>4
<1>6. Number(q, kind) = Max(T)
  BY DEF Number
<1> HIDE DEF T
<1>7. Max(T) \in T /\ \A j \in T : Max(T) >= j
  <2>1. i \in T /\ \A j \in T : i >= j
    BY <1>1, <1>5
  <2>2. QED BY <2>1 DEF Max
<1>8. Max(T) = i
  BY <1>1, <1>5, <1>7
<1>9. QED BY <1>6, <1>8 DEF q, x

\* The last of n hooks is the one that is selected, when none is embedded.
LEMMA LastSelected ==
  ASSUME Naming(Nat), NEW model, WellFormed(Nat, model), NEW kind \in HookKinds,
         NEW n \in Nat, n <= MaxNumber + 1, Numbers(model, kind, n),
         Members(model, kind) # {}, \A q \in Members(model, kind) : Front(q) = model.root
  PROVE  /\ Cardinality(Members(model, kind)) = n
         /\ SelectedHooks(model, kind) = {Append(model.root, Numbered(kind, n - 1))}
<1> DEFINE Hook(i) == Append(model.root, Numbered(kind, i))
           S == Members(model, kind)
           I == 0 .. n - 1
<1>1. kind \in Hooks /\ kind \in Sorts /\ MaxNumber \in Nat /\ model.root \in Name
  BY Parts DEF HookKinds, Hooks, Sorts, MaxNumber
<1>2. \A i \in I : i \in Nat /\ i \in 0 .. MaxNumber
  BY <1>1
<1>3. \A i \in I : Hook(i) \in S
  <2> TAKE i \in I
  <2>1. i \in Nat /\ i < n
    OBVIOUS
  <2>2. QED BY <2>1, HooksByName DEF Numbers
<1>4. ASSUME NEW q \in S PROVE \E i \in I : q = Hook(i)
  <2>1. PICK i \in Nat : q = Hook(i)
    BY HooksByName
  <2>2. q \in DOMAIN model.members
    BY DEF Members
  <2>3. i < n
    BY <2>1, <2>2 DEF Numbers
  <2>4. i \in I
    BY <2>3
  <2>5. QED BY <2>1, <2>4
<1>5. \A i \in I : Number(Hook(i), kind) = i
  BY <1>1, <1>2, NumberOfHook
<1> HIDE DEF Hook, S
<1>6. n # 0 /\ n - 1 \in I
  <2>1. I # {}
    BY <1>4 DEF S
  <2>2. QED BY <2>1
<1>7. Cardinality(S) = n
  <2> DEFINE f == [i \in I |-> Hook(i)]
  <2>1. \A i \in I : f[i] = Hook(i)
    OBVIOUS
  <2>2. f \in [I -> S]
    BY <1>3
  <2>3. IsFiniteSet(I) /\ Cardinality(I) = n
    BY <1>6, FS_Interval
  <2> HIDE DEF f, I
  <2>4. \A i, j \in I : f[i] = f[j] => i = j
    BY <1>5, <2>1
  <2>5. \A q \in S : \E i \in I : f[i] = q
    BY <1>4, <2>1
  <2>6. f \in Bijection(I, S)
    BY <2>2, <2>4, <2>5 DEF Bijection, Injection, Surjection, IsInjective
  <2>7. ExistsBijection(I, S)
    BY <2>6 DEF ExistsBijection
  <2>8. QED BY <2>3, <2>7, FS_Bijection
<1>8. SelectedHooks(model, kind) = {Hook(n - 1)}
  <2>1. SelectedHooks(model, kind) = {q \in S : \A p \in S : Number(p, kind) <= Number(q, kind)}
    BY DEF SelectedHooks, S
  <2>2. ASSUME NEW q \in S PROVE (\A p \in S : Number(p, kind) <= Number(q, kind)) <=> q = Hook(n - 1)
    <3>1. PICK i \in I : q = Hook(i)
      BY <1>4
    <3>2. Number(q, kind) = i
      BY <1>5, <3>1
    <3>3. ASSUME q = Hook(n - 1) PROVE \A p \in S : Number(p, kind) <= Number(q, kind)
      <4>1. i = n - 1
        BY <1>5, <1>6, <3>2, <3>3
      <4>2. ASSUME NEW p \in S PROVE Number(p, kind) <= Number(q, kind)
        <5>1. PICK j \in I : p = Hook(j)
          BY <1>4
        <5>2. Number(p, kind) = j
          BY <1>5, <5>1
        <5>3. QED BY <3>2, <4>1, <5>2
      <4>3. QED BY <4>2
    <3>4. ASSUME \A p \in S : Number(p, kind) <= Number(q, kind) PROVE q = Hook(n - 1)
      <4>1. n - 1 <= i
        BY <1>3, <1>5, <1>6, <3>2, <3>4
      <4>2. i = n - 1
        BY <1>6, <4>1
      <4>3. QED BY <3>1, <4>2
    <3>5. QED BY <3>3, <3>4
  <2>3. Hook(n - 1) \in S
    BY <1>3, <1>6
  <2> HIDE DEF I
  <2>4. QED BY <2>1, <2>2, <2>3
<1>9. QED BY <1>7, <1>8 DEF Hook, S

\* The hooks are numbered one after the other, few enough for the elements that are left;
\* those that ran were selected from the ones that a finalized model has.
HookInv ==
  /\ HooksNumbered(Nat, m, left)
  /\ phase = "defined" => \A kind \in HookKinds : ran[kind] \in Chosen(kind)

\* What a definition starts from or surrounds has its hooks numbered so.
HooksFewEnough == \A s \in Skeletons \cup Surroundings : HooksNumbered(Nat, s, Elements)

\* The numbers of the hooks of a kind.
LEMMA NumberedHooks ==
  ASSUME NEW model, NEW room
  PROVE  HooksNumbered(Nat, model, room)
           <=> \A kind \in HookKinds : \E n \in Nat : n + room <= MaxNumber + 1 /\ Numbers(model, kind, n)
  BY DEF HooksNumbered, HookKinds, Numbers

\* An element that is no hook.
LEMMA ApplyNoHook ==
  ASSUME Counters, HookInv, NEW applied, Apply(applied), SameHooks(m, applied)
  PROVE  HookInv'
<1>1. /\ m' = applied /\ left' = left - 1 /\ left \in Nat /\ phase' = "declaring" /\ MaxNumber \in Nat
  BY DefinitionAssumption DEF Counters, Apply, MaxNumber
<1>2. ASSUME NEW kind \in HookKinds PROVE \E n \in Nat : n + left' <= MaxNumber + 1 /\ Numbers(m', kind, n)
  <2>1. PICK n \in Nat : n + left <= MaxNumber + 1 /\ Numbers(m, kind, n)
    BY NumberedHooks DEF HookInv
  <2>2. n + left' <= MaxNumber + 1
    BY <1>1, <2>1
  <2>3. Numbers(applied, kind, n)
    BY <2>1 DEF Numbers, SameHooks, NamesHook
  <2>4. QED BY <1>1, <2>2, <2>3
<1>3. HooksNumbered(Nat, m', left')
  BY <1>2, NumberedHooks
<1>4. QED BY <1>1, <1>3 DEF HookInv

\* A validator or a finalizer.
LEMMA ApplyHook ==
  ASSUME Naming(Nat), WellFormed(Nat, m), Counters, HookInv, NEW kind \in HookKinds, NEW e,
         Apply(Put(m, UniqueModelHookName(m, kind), e))
  PROVE  HookInv'
<1>1. /\ m' = Put(m, UniqueModelHookName(m, kind), e)
      /\ left' = left - 1 /\ left \in Nat /\ phase' = "declaring" /\ MaxNumber \in Nat
  BY DefinitionAssumption DEF Counters, Apply, MaxNumber
<1>2. ASSUME NEW rest \in HookKinds PROVE \E n \in Nat : n + left' <= MaxNumber + 1 /\ Numbers(m', rest, n)
  <2>1. PICK n \in Nat : n + left <= MaxNumber + 1 /\ Numbers(m, rest, n)
    BY NumberedHooks DEF HookInv
  <2>2. CASE rest = kind
    <3>1. Numbers(m', rest, n + 1)
      BY <1>1, <2>1, <2>2, HookAdded
    <3>2. n + 1 \in Nat /\ (n + 1) + left' <= MaxNumber + 1
      BY <1>1, <2>1
    <3>3. QED BY <3>1, <3>2
  <2>3. CASE rest # kind
    <3>1. Numbers(m', rest, n)
      BY <1>1, <2>1, <2>3, HookAdded
    <3>2. n + left' <= MaxNumber + 1
      BY <1>1, <2>1
    <3>3. QED BY <3>1, <3>2
  <2>4. QED BY <2>2, <2>3
<1>3. HooksNumbered(Nat, m', left')
  BY <1>2, NumberedHooks
<1>4. QED BY <1>1, <1>3 DEF HookInv

\* Every element keeps the numbers of the hooks.
LEMMA DeclareHooks ==
  ASSUME Naming(Nat), WellFormed(Nat, m), Counters, HookInv,
         DeclareVertex \/ DeclareTransition \/ DeclareMember
  PROVE  HookInv'
<1>1. CASE DeclareVertex
  <2>1. ASSUME NEW name \in VertexNames, NEW elements, NEW kind,
               \/ State(name) \/ Final(name) \/ Choice(name)
               \/ ConnectionPoint(name, kind, elements) \/ History(name, kind, elements)
        PROVE  HookInv'
    BY <2>1, VerticesAreNoHooks, ApplyNoHook DEF State, Final, Choice, ConnectionPoint, History
  <2>2. CASE Initial
    BY <2>2, VerticesAreNoHooks, ApplyNoHook DEF Initial
  <2>3. StateNames \subseteq VertexNames /\ FinalNames \subseteq VertexNames /\ PointNames \subseteq VertexNames
    BY DEF VertexNames
  <2>4. QED BY <1>1, <2>1, <2>2, <2>3 DEF DeclareVertex
<1>2. CASE DeclareTransition
  <2>1. CASE Transition \/ Guard
    BY <2>1, TransitionsAreNoHooks, GuardsAreNoHooks, ApplyNoHook DEF Transition, Guard
  <2>2. ASSUME NEW x, \/ Source(x) \/ Target(x) \/ On(x) \/ OnCall(x) \/ GuardOperationRef(x)
                      \/ ToEntryPoint(x) \/ FromExitPoint(x)
        PROVE  HookInv'
    BY <2>2, TransitionsAreNoHooks, GuardsAreNoHooks, ApplyNoHook
       DEF Source, Target, On, OnCall, GuardOperationRef, ToEntryPoint, FromExitPoint
  <2>3. ASSUME NEW event, Defer(event) PROVE HookInv'
    <3>1. CASE Apply(PartialDefer(m, event))
      BY <3>1, TransitionsAreNoHooks, ApplyNoHook
    <3>2. CASE phase' = "panicked" /\ UNCHANGED <<m, round, left, ran>>
      BY <3>2 DEF HookInv
    <3>3. QED BY <2>3, <3>1, <3>2 DEF Defer
  <2>4. ASSUME NEW name \in AttributeNames, OnSet(name) PROVE HookInv'
    BY <2>4, TransitionsAreNoHooks, ApplyNoHook DEF OnSet
  <2>5. ASSUME NEW timer \in {"after", "at", "every"}, Timer(timer) PROVE HookInv'
    BY <2>5, GuardsAreNoHooks, ApplyNoHook DEF Timer
  <2>6. \/ Transition \/ Guard
        \/ \E path \in Paths : Source(path) \/ Target(path)
        \/ \E event \in Events : On(event) \/ Defer(event)
        \/ \E name \in OperationNames : OnCall(name) \/ GuardOperationRef(name)
        \/ \E name \in AttributeNames : OnSet(name)
        \/ \E timer \in {"after", "at", "every"} : Timer(timer)
        \/ \E name \in PointNames : ToEntryPoint(name) \/ FromExitPoint(name)
    BY <1>2 DEF DeclareTransition
  <2>7. QED BY <2>1, <2>2, <2>3, <2>4, <2>5, <2>6
<1>3. CASE DeclareMember
  <2>1. ASSUME NEW role \in Roles, NEW functions \in {<<f>> : f \in Functions} \cup {<<f, g>> : f, g \in Functions},
               Behaviors(role, functions)
        PROVE  HookInv'
    <3>1. functions \in Seq(Functions)
      <4>1. CASE functions \in {<<f>> : f \in Functions}
        <5>1. PICK f \in Functions : functions = <<f>>
          BY <4>1
        <5>2. QED BY <5>1
      <4>2. CASE functions \in {<<f, g>> : f, g \in Functions}
        <5>1. PICK f \in Functions, g \in Functions : functions = <<f, g>>
          BY <4>2
        <5>2. QED BY <5>1
      <4>3. QED BY <4>1, <4>2
    <3>2. QED BY <2>1, <3>1, MembersAreNoHooks, ApplyNoHook DEF Behaviors
  <2>2. ASSUME NEW name \in OperationNames, NEW role \in Roles, BehaviorOperation(role, name)
        PROVE  HookInv'
    BY <2>2, MembersAreNoHooks, ApplyNoHook DEF BehaviorOperation
  <2>a. ASSUME NEW name \in OperationNames, Operation(name) \/ GuardOperation(name) PROVE HookInv'
    BY <2>a, MembersAreNoHooks, ApplyNoHook DEF Operation, GuardOperation
  <2>3. ASSUME NEW name \in AttributeNames, Attribute(name) PROVE HookInv'
    BY <2>3, MembersAreNoHooks, ApplyNoHook DEF Attribute
  <2>4. ASSUME NEW observer, ObserveAll(observer) \/ ObserveNamed(observer) PROVE HookInv'
    <3>1. PICK targets : Apply(PartialObserve(m, observer, targets))
      BY <2>4 DEF ObserveAll, ObserveNamed
    <3>2. QED BY <3>1, MembersAreNoHooks, ApplyNoHook
  <2>5. ASSUME NEW does, Validator(does) PROVE HookInv'
    BY <2>5, ApplyHook DEF Validator, PartialValidator, HookKinds
  <2>6. CASE Finalizer
    BY <2>6, ApplyHook DEF Finalizer, PartialFinalizer, HookKinds
  <2>7. CASE \E role \in Roles :
               \/ \E functions \in {<<f>> : f \in Functions} \cup {<<f, g>> : f, g \in Functions} :
                    Behaviors(role, functions)
               \/ \E name \in OperationNames : BehaviorOperation(role, name)
    BY <2>1, <2>2, <2>7
  <2>8. CASE \/ \E name \in OperationNames : Operation(name) \/ GuardOperation(name)
             \/ \E name \in AttributeNames : Attribute(name)
             \/ \E observer \in Observers : ObserveAll(observer) \/ ObserveNamed(observer)
             \/ \E does \in HookResults : Validator(does)
    BY <2>a, <2>3, <2>4, <2>5, <2>8
  <2>9. QED BY ONLY <1>3, <2>6, <2>7, <2>8 DEF DeclareMember
<1>4. QED BY <1>1, <1>2, <1>3

\* The end of an element and of a definition, and what follows it.
LEMMA LifecycleHooks ==
  ASSUME WellNamed, HooksFewEnough, WellFormed(Nat, m), Counters, HookInv,
         \/ Close \/ Finalize
         \/ \E root \in Roots : RedefineAs(root)
         \/ \E around \in Surroundings : SubmachineState(around)
  PROVE  HookInv'
<1>1. Naming(Nat) /\ \A s \in Surroundings : WellFormed(Nat, s)
  BY DEF WellNamed
<1>2. ASSUME NEW other, m' = other, UNCHANGED left, phase' = "declaring",
             \A kind \in HookKinds, n \in Nat : Numbers(m, kind, n) => Numbers(other, kind, n)
      PROVE  HookInv'
  <2>1. HooksNumbered(Nat, m', left')
    BY <1>2, NumberedHooks DEF HookInv
  <2>2. QED BY <1>2, <2>1 DEF HookInv
<1>3. CASE Close
  <2>1. phase' = "declaring" /\ UNCHANGED left
        /\ m' \in {Pop(m), CloseTransition(m), ClosePoint(m)}
    BY <1>3 DEF Close
  <2>2. SameHooks(m, m')
    BY <1>1, <2>1, TransitionsAreNoHooks
  <2>3. \A kind \in HookKinds, n \in Nat : Numbers(m, kind, n) => Numbers(m', kind, n)
    BY <2>2 DEF Numbers, SameHooks, NamesHook
  <2>4. QED BY <1>2, <2>1, <2>3
<1>4. CASE Finalize
  <2>1. CASE phase' = "panicked" /\ UNCHANGED <<m, left>>
    BY <2>1 DEF HookInv
  <2>2. CASE ~(phase' = "panicked" /\ UNCHANGED <<m, left>>)
    <3>1. PICK validator \in Chosen("validator"), finalizer \in Chosen("finalizer") :
            /\ m' = FinalizeModel(m) /\ UNCHANGED left
            /\ ran' = [validator |-> validator, finalizer |-> finalizer]
      BY <1>4, <2>2 DEF Finalize
    <3>2. m.stack = <<m.root>>
      BY <1>4 DEF Finalize
    <3>3. AllHooks(m, m') /\ WellFormed(Nat, m')
      BY <1>1, <3>1, <3>2, FinalizedHooks, FinalizeFits
    <3>4. HooksNumbered(Nat, m', left')
      <4>1. \A kind \in HookKinds, n \in Nat : Numbers(m, kind, n) => Numbers(m', kind, n)
        BY <1>1, <3>3, AllNumbers
      <4>2. QED BY <3>1, <4>1, NumberedHooks DEF HookInv
    <3>5. ASSUME NEW kind \in HookKinds PROVE Chosen(kind)' = Chosen(kind)
      BY <3>3 DEF Chosen, SelectedHooks, AllHooks
    <3>6. \A kind \in HookKinds : ran'[kind] \in Chosen(kind)'
      BY <3>1, <3>5 DEF HookKinds
    <3>7. QED BY <3>4, <3>6 DEF HookInv
  <2>3. QED BY <2>1, <2>2
<1>5. ASSUME NEW root \in Roots, RedefineAs(root) PROVE HookInv'
  <2>1. m' = Rebase(m, root) /\ IsRoot(root) /\ phase' = "declaring" /\ UNCHANGED left
    BY <1>5, DefinitionAssumption DEF RedefineAs, Again
  <2>2. \A kind \in HookKinds, n \in Nat : Numbers(m, kind, n) => Numbers(m', kind, n)
    BY <1>1, <2>1, RebasedHooks
  <2>3. QED BY <1>2, <2>1, <2>2
<1>6. ASSUME NEW around \in Surroundings, SubmachineState(around) PROVE HookInv'
  <2>1. /\ m' = PartialSubmachineState(around, Submachine, m) /\ around.stack = <<around.root>>
        /\ phase' = "declaring" /\ UNCHANGED left
    BY <1>6, DefinitionAssumption DEF SubmachineState, Again
  <2>2. SameHooks(around, m')
    BY <1>1, <2>1, EmbeddedHooks
  <2>3. left \in Nat /\ left <= Elements /\ Elements \in Nat /\ MaxNumber \in Nat
    BY DefinitionAssumption DEF Counters, MaxNumber
  <2>4. ASSUME NEW kind \in HookKinds PROVE \E n \in Nat : n + left' <= MaxNumber + 1 /\ Numbers(m', kind, n)
    <3>1. PICK n \in Nat : n + Elements <= MaxNumber + 1 /\ Numbers(around, kind, n)
      BY NumberedHooks DEF HooksFewEnough
    <3>2. n + left' <= MaxNumber + 1
      BY <2>1, <2>3, <3>1
    <3>3. Numbers(m', kind, n)
      BY <2>2, <3>1 DEF Numbers, SameHooks, NamesHook
    <3>4. QED BY <3>2, <3>3
  <2>5. HooksNumbered(Nat, m', left')
    BY <2>4, NumberedHooks
  <2>6. QED BY <2>1, <2>5 DEF HookInv
<1>7. QED BY <1>3, <1>4, <1>5, <1>6

\* The validator and the finalizer that a definition runs are the last ones declared, however
\* many there are and whatever was declared, redefined and finalized in between: the numbers
\* that name them have no gap, and the machine around another one keeps its own.
THEOREM LastHooksRun ==
  ASSUME WellNamed, HooksFewEnough
  PROVE  Spec => []LastHookWins
<1>1. Init => HookInv
  BY DEF Init, HookInv, HooksFewEnough
<1>2. ModelInv /\ HookInv /\ [Next]_vars => HookInv'
  <2> SUFFICES ASSUME ModelInv, HookInv, [Next]_vars PROVE HookInv'
    OBVIOUS
  <2>1. Naming(Nat) /\ WellFormed(Nat, m) /\ Counters
    BY DEF WellNamed, ModelInv
  <2>2. CASE Next
    BY <2>1, <2>2, DeclareHooks, LifecycleHooks DEF Next
  <2>3. CASE UNCHANGED vars
    BY <2>3 DEF vars, HookInv, Chosen
  <2>4. QED BY <2>2, <2>3
<1>3. ModelInv /\ HookInv => LastHookWins
  <2> SUFFICES ASSUME ModelInv, HookInv, phase = "defined", NEW kind \in HookKinds,
                      \A q \in Members(m, kind) : Front(q) = m.root, Members(m, kind) # {}
               PROVE  ran[kind] = Append(m.root, Numbered(kind, Cardinality(Members(m, kind)) - 1))
    BY DEF LastHookWins, HookKinds
  <2>1. Naming(Nat) /\ WellFormed(Nat, m) /\ left \in Nat /\ MaxNumber \in Nat
    BY DefinitionAssumption DEF WellNamed, ModelInv, Counters, MaxNumber
  <2>2. PICK n \in Nat : n + left <= MaxNumber + 1 /\ Numbers(m, kind, n)
    BY NumberedHooks DEF HookInv
  <2>3. n <= MaxNumber + 1
    BY <2>1, <2>2
  <2>4. /\ Cardinality(Members(m, kind)) = n
        /\ SelectedHooks(m, kind) = {Append(m.root, Numbered(kind, n - 1))}
    BY <2>1, <2>2, <2>3, LastSelected
  <2>5. ran[kind] \in SelectedHooks(m, kind)
    BY <2>4 DEF HookInv, Chosen
  <2>6. QED BY <2>4, <2>5
<1>4. QED BY <1>1, <1>2, <1>3, ModelInvariant, PTL DEF Spec

-----------------------------------------------------------------------------
(* The structure of a model: its vertices and transitions, and what lists them. *)

\* What a definition starts from lists its transitions so; operations have names of their own,
\* and the state that embeds a machine has nothing inside before.
WellListed ==
  /\ VertexNames \cap OperationSegments = {}
  /\ \A s \in Skeletons \cup Surroundings : Listing(Nat, s) /\ OpenApart(s)
  /\ \A s \in Surroundings : \A q \in DOMAIN s.members : ~IsStrictPrefix(Append(s.root, Submachine), q)

Structural == {"state", "vertex", "transition"}

\* The fields of a structural member that say where its transitions belong.
Placing(e) == IF e.is = "transition" THEN {"source"} ELSE {"kind", "transitions"}

\* The same states, pseudostates and transitions, with the same lists and sources, and no
\* operation but those that are named as one.
SameStructure(model, other) ==
  /\ other.stack = model.stack /\ "members" \in DOMAIN other
  /\ \A q \in DOMAIN other.members : "is" \in DOMAIN other.members[q]
  /\ Structure(other) = Structure(model)
  /\ \A q \in Structure(model) :
       /\ other.members[q].is = model.members[q].is
       /\ DOMAIN other.members[q] = DOMAIN model.members[q]
       /\ \A field \in Placing(model.members[q]) \cap DOMAIN model.members[q] :
            other.members[q][field] = model.members[q][field]
  /\ \A q \in Members(other, "operation") : q \in Members(model, "operation") \/ Last(q) \in OperationSegments

\* What is in the structure of a model.
LEMMA InStructure ==
  ASSUME NEW model, NEW q
  PROVE  /\ q \in Structure(model) <=> q \in DOMAIN model.members /\ model.members[q].is \in Structural
         /\ q \in Vertices(model) <=> q \in DOMAIN model.members /\ model.members[q].is \in {"state", "vertex"}
         /\ q \in Members(model, "transition") <=> IsTransition(model, q)
         /\ q \in Members(model, "operation") <=> q \in DOMAIN model.members /\ model.members[q].is = "operation"
         /\ q \in Structure(model) <=> q \in Vertices(model) \/ IsTransition(model, q)
  BY DEF Structure, Vertices, Members, IsTransition, Is, Structural

\* The fields that a member of the structure has.
LEMMA StructureFields ==
  ASSUME NEW model, WellFormed(Nat, model)
  PROVE  /\ \A q \in DOMAIN model.members : "is" \in DOMAIN model.members[q]
         /\ \A v \in Vertices(model) :
              /\ v \in DOMAIN model.members /\ v \in Name /\ v # None /\ {"kind", "transitions"} \subseteq DOMAIN model.members[v]
              /\ "source" \notin DOMAIN model.members[v]
              /\ model.members[v].transitions \in Seq(Name)
              /\ \A t \in ToSet(model.members[v].transitions) : IsTransition(model, t)
         /\ \A t : IsTransition(model, t) =>
              /\ t \in DOMAIN model.members /\ t \in Name /\ t # None /\ "source" \in DOMAIN model.members[t]
              /\ "transitions" \notin DOMAIN model.members[t]
              /\ model.members[t].source \in Name /\ t \notin Vertices(model)
              /\ NamedAs(Nat, Last(t), "transition")
<1>1. ASSUME NEW q \in DOMAIN model.members
      PROVE  /\ q \in Name /\ q # None /\ DOMAIN model.members[q] = Fields(model.members[q].is)
             /\ model.members[q].is \in Variants
             /\ NamedAs(Nat, Last(q), Sort(model.members[q]))
             /\ \A field \in DOMAIN model.members[q] : Suits(model, q, field, model.members[q][field])
  <2>1. IsElement(model.members[q]) /\ \A field \in DOMAIN model.members[q] : Suits(model, q, field, model.members[q][field])
    BY DEF WellFormed, IsMember
  <2>2. QED BY <2>1, Parts DEF IsElement
<1>2. ASSUME NEW q \in DOMAIN model.members PROVE "is" \in DOMAIN model.members[q]
  <2>1. \A variant \in Variants : "is" \in Fields(variant)
    BY FieldsOf DEF Variants, Hooks
  <2>2. QED BY <1>1, <2>1
<1>3. ASSUME NEW v \in Vertices(model)
      PROVE  /\ v \in DOMAIN model.members /\ v \in Name /\ v # None /\ {"kind", "transitions"} \subseteq DOMAIN model.members[v]
             /\ "source" \notin DOMAIN model.members[v]
             /\ model.members[v].transitions \in Seq(Name)
             /\ \A t \in ToSet(model.members[v].transitions) : IsTransition(model, t)
  <2>1. v \in DOMAIN model.members /\ model.members[v].is \in {"state", "vertex"}
    BY InStructure
  <2>2. {"kind", "transitions"} \subseteq DOMAIN model.members[v] /\ "source" \notin DOMAIN model.members[v]
    BY <1>1, <2>1, FieldsOf
  <2>3. Suits(model, v, "transitions", model.members[v].transitions)
    BY <1>1, <2>1, <2>2
  <2>4. QED BY <1>1, <2>1, <2>2, <2>3 DEF Suits, ReferenceLists
<1>4. ASSUME NEW t, IsTransition(model, t)
      PROVE  /\ t \in DOMAIN model.members /\ t \in Name /\ t # None /\ "source" \in DOMAIN model.members[t]
             /\ "transitions" \notin DOMAIN model.members[t]
             /\ model.members[t].source \in Name /\ t \notin Vertices(model)
             /\ NamedAs(Nat, Last(t), "transition")
  <2>1. t \in DOMAIN model.members /\ model.members[t].is = "transition"
    BY <1>4 DEF IsTransition, Is
  <2>2. "source" \in DOMAIN model.members[t] /\ "transitions" \notin DOMAIN model.members[t]
    BY <1>1, <2>1, FieldsOf
  <2>3. Suits(model, t, "source", model.members[t].source)
    BY <1>1, <2>1, <2>2
  <2>4. Sort(model.members[t]) = "transition"
    BY <1>1, <2>1, SortIs
  <2>5. QED BY <1>1, <2>1, <2>2, <2>3, <2>4, InStructure DEF Suits, References
<1>5. QED BY <1>2, <1>3, <1>4

\* A well-formed model has its own structure.
LEMMA StructureAtFirst ==
  ASSUME NEW model, WellFormed(Nat, model)
  PROVE  SameStructure(model, model)
<1>1. "members" \in DOMAIN model
  BY DEF WellFormed
<1>2. QED BY <1>1, StructureFields DEF SameStructure

\* What the members of another model must be for its structure to be the same.
LEMMA StructureStays ==
  ASSUME NEW model, NEW other, SameStructure(model, other), NEW n, n.stack = other.stack, "members" \in DOMAIN n,
         \A q \in Structure(model) :
           /\ q \in DOMAIN n.members /\ n.members[q].is = other.members[q].is
           /\ DOMAIN n.members[q] = DOMAIN other.members[q]
           /\ \A field \in Placing(other.members[q]) \cap DOMAIN other.members[q] :
                n.members[q][field] = other.members[q][field],
         \A q \in DOMAIN n.members : "is" \in DOMAIN n.members[q],
         \A q \in DOMAIN n.members \ Structure(model) :
           /\ n.members[q].is \notin Structural
           /\ n.members[q].is = "operation" => Last(q) \in OperationSegments \/ q \in Members(other, "operation")
  PROVE  SameStructure(model, n)
<1>1. Structure(n) = Structure(model)
  <2>1. ASSUME NEW q \in Structure(model) PROVE q \in Structure(n)
    <3>1. q \in Structure(other)
      BY DEF SameStructure
    <3>2. QED BY <3>1, InStructure
  <2>2. ASSUME NEW q \in Structure(n) PROVE q \in Structure(model)
    BY InStructure
  <2>3. QED BY <2>1, <2>2
<1>2. ASSUME NEW q \in Members(n, "operation") PROVE q \in Members(model, "operation") \/ Last(q) \in OperationSegments
  <2>1. q \in DOMAIN n.members /\ n.members[q].is = "operation"
    BY InStructure
  <2>2. q \notin Structure(model)
    BY <1>1, <2>1, InStructure DEF Structural
  <2>3. Last(q) \in OperationSegments \/ q \in Members(other, "operation")
    BY <2>1, <2>2
  <2>4. QED BY <2>3 DEF SameStructure
<1>3. ASSUME NEW q \in Structure(model)
      PROVE  /\ n.members[q].is = model.members[q].is
             /\ DOMAIN n.members[q] = DOMAIN model.members[q]
             /\ \A field \in Placing(model.members[q]) \cap DOMAIN model.members[q] :
                  n.members[q][field] = model.members[q][field]
  <2>1. other.members[q].is = model.members[q].is /\ DOMAIN other.members[q] = DOMAIN model.members[q]
    BY DEF SameStructure
  <2>2. Placing(model.members[q]) = Placing(other.members[q])
    BY <2>1 DEF Placing
  <2>3. \A field \in Placing(model.members[q]) \cap DOMAIN model.members[q] :
          other.members[q][field] = model.members[q][field]
    BY DEF SameStructure
  <2>4. QED BY <2>1, <2>2, <2>3
<1>4. n.stack = model.stack
  BY DEF SameStructure
<1>5. QED BY <1>1, <1>2, <1>3, <1>4 DEF SameStructure

\* New members that are not of the structure, in the place of none that is.
LEMMA StructureUnder ==
  ASSUME NEW model, NEW other, SameStructure(model, other), NEW f,
         \A q \in DOMAIN f : /\ q \notin Structure(model)
                             /\ "is" \in DOMAIN f[q] /\ f[q].is \notin Structural
                             /\ f[q].is = "operation" => Last(q) \in OperationSegments
  PROVE  SameStructure(model, [other EXCEPT !.members = Overlay(f, @)])
<1> DEFINE g == Overlay(f, other.members)
           n == [other EXCEPT !.members = g]
<1>1. /\ DOMAIN g = DOMAIN f \cup DOMAIN other.members
      /\ \A q \in DOMAIN f : g[q] = f[q]
      /\ \A q \in DOMAIN other.members \ DOMAIN f : g[q] = other.members[q]
  BY DEF Overlay
<1> HIDE DEF g
<1>2. "members" \in DOMAIN other
  BY DEF SameStructure
<1>3. n.members = g /\ n.stack = other.stack /\ "members" \in DOMAIN n
  BY <1>2
<1> HIDE DEF n
<1>4. \A q \in Structure(model) : q \in DOMAIN other.members \ DOMAIN f
  <2> TAKE q \in Structure(model)
  <2>1. q \in Structure(other)
    BY DEF SameStructure
  <2>2. QED BY <2>1, InStructure
<1>5. \A q \in DOMAIN g : "is" \in DOMAIN g[q]
  BY <1>1 DEF SameStructure
<1>6. ASSUME NEW q \in DOMAIN g \ Structure(model)
      PROVE  /\ g[q].is \notin Structural
             /\ g[q].is = "operation" => Last(q) \in OperationSegments \/ q \in Members(other, "operation")
  <2>1. CASE q \in DOMAIN f
    BY <1>1, <2>1
  <2>2. CASE q \notin DOMAIN f
    <3>1. q \in DOMAIN other.members /\ g[q] = other.members[q]
      BY <1>1, <2>2
    <3>2. q \notin Structure(other)
      BY DEF SameStructure
    <3>3. QED BY <3>1, <3>2, InStructure
  <2>3. QED BY <2>1, <2>2
<1>7. SameStructure(model, n)
  BY <1>1, <1>3, <1>4, <1>5, <1>6, StructureStays
<1>8. QED BY <1>7 DEF n, g

\* What changes neither lists nor sources keeps the structure.
LEMMA StructureAfter ==
  ASSUME NEW model, NEW other, SameStructure(model, other)
  PROVE  /\ \A q, field, value : field \notin {"is", "kind", "transitions", "source"} =>
              SameStructure(model, Edit(other, q, field, value))
         /\ \A q, field, value : field \notin {"is", "kind", "transitions", "source"} =>
              SameStructure(model, Extend(other, q, field, value))
         /\ \A initial : SameStructure(model, [other EXCEPT !.initial = initial])
         /\ \A attributes : SameStructure(model, [other EXCEPT !.attributes = attributes])
         /\ \A q, e : /\ q \notin Structure(model)
                      /\ "is" \in DOMAIN e /\ e.is \notin Structural
                      /\ e.is = "operation" => Last(q) \in OperationSegments
                      => SameStructure(model, Put(other, q, e))
<1>1. ASSUME NEW q, NEW field, NEW value, field \notin {"is", "kind", "transitions", "source"}
      PROVE SameStructure(model, Edit(other, q, field, value))
  <2> DEFINE n == Edit(other, q, field, value)
  <2>1. /\ "members" \in DOMAIN other /\ \A p \in DOMAIN other.members : "is" \in DOMAIN other.members[p]
        /\ \A p \in Structure(model) : p \in Structure(other)
    BY DEF SameStructure
  <2>2. /\ n.stack = other.stack /\ "members" \in DOMAIN n /\ DOMAIN n.members = DOMAIN other.members
        /\ \A p \in DOMAIN other.members :
             /\ DOMAIN n.members[p] = DOMAIN other.members[p]
             /\ \A a \in DOMAIN other.members[p] : a # field => n.members[p][a] = other.members[p][a]
    BY <2>1 DEF Edit
  <2> HIDE DEF n
  <2>3. \A p \in DOMAIN other.members : n.members[p].is = other.members[p].is
    BY <1>1, <2>1, <2>2
  <2>4. \A p \in Structure(model) : p \in DOMAIN other.members /\ field \notin Placing(other.members[p])
    BY <1>1, <2>1, InStructure DEF Placing
  <2>5. ASSUME NEW p \in DOMAIN n.members \ Structure(model)
        PROVE  /\ n.members[p].is \notin Structural
               /\ n.members[p].is = "operation" => Last(p) \in OperationSegments \/ p \in Members(other, "operation")
    <3>1. p \notin Structure(other)
      BY DEF SameStructure
    <3>2. QED BY <2>2, <2>3, <3>1, InStructure
  <2>6. SameStructure(model, n)
    BY <2>1, <2>2, <2>3, <2>4, <2>5, StructureStays
  <2>7. QED BY <2>6 DEF n
<1>2. ASSUME NEW q, NEW field, NEW value, field \notin {"is", "kind", "transitions", "source"}
      PROVE SameStructure(model, Extend(other, q, field, value))
  BY <1>1, <1>2 DEF Extend
<1>3. ASSUME NEW initial PROVE SameStructure(model, [other EXCEPT !.initial = initial])
  <2> DEFINE n == [other EXCEPT !.initial = initial]
  <2>1. n.stack = other.stack /\ n.members = other.members /\ ("members" \in DOMAIN other => "members" \in DOMAIN n)
    OBVIOUS
  <2> HIDE DEF n
  <2>2. SameStructure(model, n)
    BY <2>1 DEF SameStructure, Structure, Vertices, Members
  <2>3. QED BY <2>2 DEF n
<1>4. ASSUME NEW attributes PROVE SameStructure(model, [other EXCEPT !.attributes = attributes])
  <2> DEFINE n == [other EXCEPT !.attributes = attributes]
  <2>1. n.stack = other.stack /\ n.members = other.members /\ ("members" \in DOMAIN other => "members" \in DOMAIN n)
    OBVIOUS
  <2> HIDE DEF n
  <2>2. SameStructure(model, n)
    BY <2>1 DEF SameStructure, Structure, Vertices, Members
  <2>3. QED BY <2>2 DEF n
<1>5. ASSUME NEW q, NEW e, q \notin Structure(model), "is" \in DOMAIN e, e.is \notin Structural,
             e.is = "operation" => Last(q) \in OperationSegments
      PROVE  SameStructure(model, Put(other, q, e))
  <2> DEFINE f == [p \in {q} |-> e]
  <2>1. DOMAIN f = {q} /\ f[q] = e
    OBVIOUS
  <2>2. Put(other, q, e) = [other EXCEPT !.members = Overlay(f, @)]
    BY DEF Put
  <2> HIDE DEF f
  <2>3. QED BY <1>5, <2>1, <2>2, StructureUnder
<1>6. QED BY <1>1, <1>2, <1>3, <1>4, <1>5

\* The same structure, the same lists.
LEMMA ListingKept ==
  ASSUME NEW model, WellFormed(Nat, model), Listing(Nat, model), NEW other, SameStructure(model, other)
  PROVE  Listing(Nat, other)
<1>1. /\ Vertices(other) = Vertices(model) /\ Members(other, "transition") = Members(model, "transition")
      /\ StructuralMemberCount(other) = StructuralMemberCount(model)
  <2>1. \A q : q \in Structure(other) <=> q \in Structure(model)
    BY DEF SameStructure
  <2>2. \A q \in Structure(model) : other.members[q].is = model.members[q].is
    BY DEF SameStructure
  <2>3. \A q : q \in Vertices(other) <=> q \in Vertices(model)
    BY <2>1, <2>2, InStructure DEF Structural
  <2>4. \A q : q \in Members(other, "transition") <=> q \in Members(model, "transition")
    BY <2>1, <2>2, InStructure DEF Structural, Members
  <2>5. Structure(other) = Structure(model)
    BY DEF SameStructure
  <2>6. QED BY <2>3, <2>4, <2>5 DEF StructuralMemberCount, Structure, Vertices
<1>2. ASSUME NEW v \in Vertices(model)
      PROVE  other.members[v].kind = model.members[v].kind /\ other.members[v].transitions = model.members[v].transitions
  <2>1. v \in Structure(model) /\ model.members[v].is # "transition"
    BY InStructure
  <2>2. {"kind", "transitions"} \subseteq DOMAIN model.members[v]
    BY StructureFields
  <2>3. QED BY <2>1, <2>2 DEF SameStructure, Placing
<1>3. ASSUME NEW t \in Members(model, "transition") PROVE other.members[t].source = model.members[t].source
  <2>1. IsTransition(model, t)
    BY InStructure
  <2>2. t \in Structure(model) /\ model.members[t].is = "transition" /\ "source" \in DOMAIN model.members[t]
    BY <2>1, InStructure, StructureFields DEF IsTransition, Is
  <2>3. QED BY <2>2 DEF SameStructure, Placing
<1>4. ASSUME NEW v \in Vertices(other)
      PROVE  /\ other.members[v].kind \in States \cup Pseudostates
             /\ IsInjective(other.members[v].transitions)
             /\ \A t \in ToSet(other.members[v].transitions) : other.members[t].source = v
             /\ Last(v) \notin OperationSegments
  <2>1. \A t \in ToSet(model.members[v].transitions) : t \in Members(model, "transition")
    BY <1>1, StructureFields, InStructure
  <2>2. QED BY <1>1, <1>2, <1>3, <2>1 DEF Listing
<1>5. ASSUME NEW t \in Members(other, "transition")
      PROVE  /\ Last(t) = "transition" => other.members[t].source = Front(t)
             /\ \A i \in Nat : Last(t) = Numbered("transition", i) => i < StructuralMemberCount(other)
  BY <1>1, <1>3 DEF Listing
<1>6. ASSUME NEW q \in Members(other, "operation") PROVE Last(q) \in OperationSegments
  BY DEF Listing, SameStructure
<1>7. QED BY <1>4, <1>5, <1>6 DEF Listing

\* Nothing is opened or closed.
LEMMA OpenKept ==
  ASSUME NEW model, WellFormed(Nat, model), OpenApart(model), NEW other, SameStructure(model, other)
  PROVE  OpenApart(other)
<1>1. /\ \A q : IsTransition(other, q) <=> IsTransition(model, q)
      /\ \A v : v \in Vertices(other) <=> v \in Vertices(model)
  <2>1. \A q : q \in Structure(other) <=> q \in Structure(model)
    BY DEF SameStructure
  <2>2. \A q \in Structure(model) : other.members[q].is = model.members[q].is
    BY DEF SameStructure
  <2>3. \A q : q \in Vertices(other) <=> q \in Vertices(model)
    BY <2>1, <2>2, InStructure DEF Structural
  <2>4. ASSUME NEW q PROVE IsTransition(other, q) <=> IsTransition(model, q)
    <3>1. /\ IsTransition(model, q) <=> q \in Structure(model) /\ model.members[q].is = "transition"
          /\ IsTransition(other, q) <=> q \in Structure(other) /\ other.members[q].is = "transition"
      BY InStructure DEF IsTransition, Is, Structural
    <3>2. QED BY <2>1, <2>2, <3>1
  <2>5. QED BY <2>3, <2>4
<1>2. \A v \in Vertices(model) : other.members[v].transitions = model.members[v].transitions
  <2> TAKE v \in Vertices(model)
  <2>1. v \in Structure(model) /\ model.members[v].is # "transition"
    BY InStructure
  <2>2. {"kind", "transitions"} \subseteq DOMAIN model.members[v]
    BY StructureFields
  <2>3. QED BY <2>1, <2>2 DEF SameStructure, Placing
<1>3. other.stack = model.stack /\ Top(other) = Top(model)
  BY DEF SameStructure, Top
<1>4. QED BY <1>1, <1>2, <1>3 DEF OpenApart

\* What a structural member is called.
LEMMA StructureNamed ==
  ASSUME Naming(Nat), NEW model, WellFormed(Nat, model), Listing(Nat, model),
         NEW q \in Structure(model), NEW sort \in Sorts \cup {"user"}, NamedAs(Nat, Last(q), sort)
  PROVE  /\ sort \in {"user", "initial", "transition"}
         /\ IsTransition(model, q) <=> sort = "transition"
         /\ Last(q) \notin AttributeNames
         /\ Last(q) \notin OperationSegments \/ sort # "user"
<1>1. q \in DOMAIN model.members /\ model.members[q].is \in Structural
  BY InStructure
<1>2. /\ Sort(model.members[q]) \in Sorts \cup {"user"} /\ model.members[q].is \in Variants
      /\ NamedAs(Nat, Last(q), Sort(model.members[q]))
  BY <1>1, Parts
<1>3. Sort(model.members[q]) = sort
  BY <1>2, SortDecides
<1>4. sort \in {"user", "initial", "transition"}
  BY <1>1, <1>3 DEF Sort, Structural, Sorts, Hooks
<1>5. IsTransition(model, q) <=> sort = "transition"
  BY <1>1, <1>2, <1>3, SortIs DEF IsTransition, Is
<1>6. Last(q) \notin AttributeNames
  <2>1. CASE IsTransition(model, q)
    <3>1. \A x \in AttributeNames : NamedAs(Nat, x, "user")
      BY UserSegments
    <3>2. QED BY <1>5, <2>1, <3>1, SortDecides DEF Sorts, Hooks
  <2>2. CASE ~IsTransition(model, q)
    <3>1. model.members[q].is \in {"state", "vertex"}
      BY <1>1, <2>2 DEF Structural, IsTransition, Is
    <3>2. QED BY <1>1, <3>1 DEF WellFormed, IsMember
  <2>3. QED BY <2>1, <2>2
<1>7. Last(q) \notin OperationSegments \/ sort # "user"
  BY <1>5, InStructure DEF Listing
<1>8. QED BY <1>4, <1>5, <1>6, <1>7

\* Names that no structural member has.
LEMMA NamesOutside ==
  ASSUME Naming(Nat), NEW model, WellFormed(Nat, model), Listing(Nat, model), NEW p \in Name
  PROVE  /\ \A sort \in Sorts \ {"initial", "transition"} : \A x : NamedAs(Nat, x, sort) => Append(p, x) \notin Structure(model)
         /\ \A x \in OperationNames : Append(p, x) \notin Structure(model) /\ Last(Append(p, x)) \in OperationSegments
         /\ \A x \in AttributeNames : Append(p, x) \notin Structure(model)
         /\ \A x \in {"guard", "after", "at", "every"} : Append(p, x) \notin Structure(model)
<1>1. ASSUME NEW sort \in Sorts \ {"initial", "transition"}, NEW x, NamedAs(Nat, x, sort)
      PROVE  Append(p, x) \notin Structure(model)
  <2>1. x \in Segment
    BY <1>1, SegmentType
  <2>2. Last(Append(p, x)) = x
    BY <2>1, AppendName
  <2>3. sort # "user"
    BY DEF Sorts, Hooks
  <2>4. QED BY <1>1, <2>2, <2>3, StructureNamed
<1>2. ASSUME NEW x \in OperationNames PROVE Append(p, x) \notin Structure(model) /\ Last(Append(p, x)) \in OperationSegments
  <2>1. x \in Segment /\ NamedAs(Nat, x, "user")
    BY UserSegments
  <2>2. Last(Append(p, x)) = x
    BY <2>1, AppendName
  <2>3. x \in OperationSegments
    BY DEF OperationSegments
  <2>4. QED BY <2>1, <2>2, <2>3, StructureNamed
<1>3. ASSUME NEW x \in AttributeNames PROVE Append(p, x) \notin Structure(model)
  <2>1. x \in Segment /\ NamedAs(Nat, x, "user")
    BY UserSegments
  <2>2. Last(Append(p, x)) = x
    BY <2>1, AppendName
  <2>3. QED BY <2>1, <2>2, StructureNamed
<1>4. "constraint" \in Sorts \ {"initial", "transition"}
  BY DEF Sorts
<1>5. QED BY <1>1, <1>2, <1>3, <1>4, MadeUp

\* What is declared in a transition.
LEMMA TransitionsKeepStructure ==
  ASSUME Naming(Nat), NEW model, WellFormed(Nat, model), Listing(Nat, model)
  PROVE  /\ \A path : SameStructure(model, PartialTarget(model, path))
         /\ \A event : SameStructure(model, PartialTrigger(model, event)) /\ SameStructure(model, PartialDefer(model, event))
         /\ \A name : SameStructure(model, PartialOnCall(model, name))
         /\ \A name \in AttributeNames : SameStructure(model, PartialOnSet(model, name))
         /\ \A name : SameStructure(model, SelectEntryPoint(model, name))
<1>1. SameStructure(model, model)
  BY StructureAtFirst
<1>2. ASSUME NEW name \in AttributeNames PROVE SameStructure(model, PartialOnSet(model, name))
  <2> DEFINE event    == Append(model.root, name)
             listened == Extend(model, Top(model), "events", <<event>>)
             n        == [listened EXCEPT !.attributes = listened.attributes \cup {event}]
  <2>1. event \notin Structure(model)
    BY NamesOutside, Parts
  <2> HIDE DEF event
  <2>2. SameStructure(model, listened)
    BY <1>1, StructureAfter
  <2> HIDE DEF listened
  <2>3. SameStructure(model, n)
    BY <2>2, StructureAfter
  <2>4. PartialOnSet(model, name) = IF event \in model.attributes THEN listened ELSE Put(n, event, NewAttribute)
    BY DEF PartialOnSet, event, listened
  <2> HIDE DEF n
  <2>5. "is" \in DOMAIN NewAttribute /\ NewAttribute.is = "attribute" /\ "attribute" \notin Structural
    BY DEF NewAttribute, Structural
  <2>6. SameStructure(model, Put(n, event, NewAttribute))
    BY <2>1, <2>3, <2>5, StructureAfter
  <2>7. QED BY <2>2, <2>4, <2>6
<1>3. QED BY <1>1, <1>2, StructureAfter
       DEF PartialTarget, PartialTrigger, PartialDefer, PartialOnCall, SelectEntryPoint

\* Guards and timers.
LEMMA GuardsKeepStructure ==
  ASSUME Naming(Nat), NEW model, WellFormed(Nat, model), Listing(Nat, model)
  PROVE  /\ SameStructure(model, PartialGuard(model))
         /\ \A name : SameStructure(model, PartialGuardOperationRef(model, name))
         /\ \A timer \in {"after", "at", "every"} : SameStructure(model, PartialTimer(model, timer))
<1>1. SameStructure(model, model) /\ Top(model) \in Name
  BY StructureAtFirst, TopOf
<1>2. ASSUME NEW x \in {"guard", "after", "at", "every"}, NEW operation, NEW timed
      PROVE  SameStructure(model, Put(model, Append(Top(model), x), NewConstraint(operation, timed)))
  <2> DEFINE e == NewConstraint(operation, timed)
  <2>1. "is" \in DOMAIN e /\ e.is = "constraint" /\ "constraint" \notin Structural
    BY DEF NewConstraint, Structural
  <2> HIDE DEF e
  <2>2. Append(Top(model), x) \notin Structure(model)
    BY <1>1, NamesOutside
  <2>3. SameStructure(model, Put(model, Append(Top(model), x), e))
    BY <1>1, <2>1, <2>2, StructureAfter
  <2>4. QED BY <2>3 DEF e
<1>3. SameStructure(model, PartialGuard(model)) /\ \A name : SameStructure(model, PartialGuardOperationRef(model, name))
  BY <1>2, StructureAfter DEF PartialGuard, PartialGuardOperationRef
<1>4. ASSUME NEW timer \in {"after", "at", "every"} PROVE SameStructure(model, PartialTimer(model, timer))
  <2> DEFINE q      == Append(Top(model), timer)
             moment == Append(Top(model), IF timer = "at" THEN "timepoint" ELSE "duration")
             put    == Put(model, q, NewConstraint(None, TRUE))
             timed  == Extend(put, Top(model), "events", <<moment, TimerEvent(timer)>>)
  <2>1. SameStructure(model, put)
    BY <1>2
  <2> HIDE DEF put, moment
  <2>2. SameStructure(model, timed)
    BY <2>1, StructureAfter
  <2> HIDE DEF timed, q
  <2>3. PartialTimer(model, timer) =
          IF model.members[Top(model)].guard = None THEN Edit(timed, Top(model), "guard", q) ELSE timed
    BY DEF PartialTimer, timed, put, moment, q
  <2>4. QED BY <2>2, <2>3, StructureAfter
<1>5. QED BY <1>3, <1>4

\* Behaviours of the innermost open element.
LEMMA AttachedKeepStructure ==
  ASSUME Naming(Nat), NEW model, WellFormed(Nat, model), Listing(Nat, model), NEW role \in Roles, NEW segments, NEW behaviors,
         \A i \in DOMAIN segments : /\ NamedAs(Nat, segments[i], "behavior")
                                    /\ "is" \in DOMAIN behaviors[i] /\ behaviors[i].is = "behavior"
  PROVE  SameStructure(model, Attach(model, role, segments, behaviors))
<1> DEFINE names == [i \in DOMAIN segments |-> Append(Top(model), segments[i])]
           f == [q \in ToSet(names) |-> behaviors[CHOOSE i \in DOMAIN names : names[i] = q]]
           added == [model EXCEPT !.members = Overlay(f, @)]
<1>1. Top(model) \in Name /\ "behavior" \in Sorts \ {"initial", "transition"} /\ "behavior" \notin Structural
  BY TopOf DEF Sorts, Structural
<1>2. \A i \in DOMAIN names : names[i] \notin Structure(model)
  BY <1>1, NamesOutside
<1>3. Attach(model, role, segments, behaviors) =
        IF Top(model) \in DOMAIN model.members /\ List(role) \in DOMAIN model.members[Top(model)]
        THEN Extend(added, Top(model), List(role), names) ELSE added
  BY DEF Attach
<1>4. DOMAIN names = DOMAIN segments /\ DOMAIN f = ToSet(names)
  OBVIOUS
<1>5. ASSUME NEW q \in ToSet(names) PROVE q \notin Structure(model) /\ "is" \in DOMAIN f[q] /\ f[q].is = "behavior"
  <2>1. \E i \in DOMAIN names : names[i] = q
    BY DEF ToSet
  <2> DEFINE j == CHOOSE i \in DOMAIN names : names[i] = q
  <2>2. j \in DOMAIN names /\ names[j] = q
    BY <2>1
  <2>3. f[q] = behaviors[j]
    OBVIOUS
  <2> HIDE DEF j, f
  <2>4. q \notin Structure(model)
    BY <1>2, <2>2
  <2> HIDE DEF names
  <2>5. QED BY <1>4, <2>2, <2>3, <2>4
<1> HIDE DEF f, names
<1>6. SameStructure(model, model)
  BY StructureAtFirst
<1>7. SameStructure(model, added)
  BY <1>1, <1>4, <1>5, <1>6, StructureUnder
<1> HIDE DEF added
<1>8. List(role) \notin {"is", "kind", "transitions", "source"}
  BY DEF List, Roles
<1>9. QED BY <1>3, <1>7, <1>8, StructureAfter

\* Behaviours, operations, attributes, observations and hooks.
LEMMA MembersKeepStructure ==
  ASSUME Naming(Nat), NEW model, WellFormed(Nat, model), Listing(Nat, model)
  PROVE  /\ \A role \in Roles, functions \in Seq(Functions) : SameStructure(model, PartialFunctions(model, role, functions))
         /\ \A role \in Roles, name \in OperationNames : SameStructure(model, PartialBehaviorOperation(model, role, name))
         /\ \A name \in OperationNames : /\ SameStructure(model, PartialOperation(model, name))
                                         /\ SameStructure(model, PartialGuardOperation(model, name))
         /\ \A name \in AttributeNames : SameStructure(model, PartialAttribute(model, name))
         /\ \A observer, targets : SameStructure(model, PartialObserve(model, observer, targets))
         /\ \A does : SameStructure(model, PartialValidator(model, does)) /\ SameStructure(model, PartialFinalizer(model, does))
<1>1. SameStructure(model, model) /\ Top(model) \in Name
  BY StructureAtFirst, TopOf
<1>2. ASSUME NEW role \in Roles, NEW functions \in Seq(Functions)
      PROVE  SameStructure(model, PartialFunctions(model, role, functions))
  <2> DEFINE segments == [i \in DOMAIN functions |-> Nth(role, i)]
             behaviors == [i \in DOMAIN functions |-> NewBehavior(role, functions[i])]
  <2>1. DOMAIN functions \subseteq Nat \ {0}
    OBVIOUS
  <2>2. \A i \in DOMAIN segments : NamedAs(Nat, segments[i], "behavior")
    BY <2>1, MadeUp
  <2>3. \A i \in DOMAIN segments : "is" \in DOMAIN behaviors[i] /\ behaviors[i].is = "behavior"
    BY DEF NewBehavior
  <2>4. PartialFunctions(model, role, functions) = Attach(model, role, segments, behaviors)
    BY DEF PartialFunctions
  <2> HIDE DEF segments, behaviors
  <2>5. QED BY <2>2, <2>3, <2>4, AttachedKeepStructure
<1>3. ASSUME NEW role \in Roles, NEW name \in OperationNames
      PROVE  SameStructure(model, PartialBehaviorOperation(model, role, name))
  <2> DEFINE e == [NewBehavior("none", "none") EXCEPT !.operation = ResolveModelReference(model, name)]
             segments == <<Calling(role, name)>>
             behaviors == <<e>>
  <2>1. NamedAs(Nat, Calling(role, name), "behavior")
    BY MadeUp
  <2>2. DOMAIN segments = {1} /\ segments[1] = Calling(role, name)
    OBVIOUS
  <2>3. "is" \in DOMAIN e /\ e.is = "behavior"
    BY DEF NewBehavior
  <2>4. PartialBehaviorOperation(model, role, name) = Attach(model, role, segments, behaviors)
    BY DEF PartialBehaviorOperation
  <2> HIDE DEF segments, e
  <2>5. behaviors[1] = e
    OBVIOUS
  <2> HIDE DEF behaviors
  <2>6. \A i \in DOMAIN segments : NamedAs(Nat, segments[i], "behavior") /\ "is" \in DOMAIN behaviors[i] /\ behaviors[i].is = "behavior"
    BY <2>1, <2>2, <2>3, <2>5
  <2>7. QED BY <2>4, <2>6, AttachedKeepStructure
<1>4. ASSUME NEW name \in OperationNames, NEW kind
      PROVE  SameStructure(model, Put(model, Append(Top(model), name), NewOperation(kind)))
  <2> DEFINE e == NewOperation(kind)
  <2>1. "is" \in DOMAIN e /\ e.is = "operation" /\ "operation" \notin Structural
    BY DEF NewOperation, Structural
  <2> HIDE DEF e
  <2>2. Append(Top(model), name) \notin Structure(model) /\ Last(Append(Top(model), name)) \in OperationSegments
    BY <1>1, NamesOutside
  <2>3. SameStructure(model, Put(model, Append(Top(model), name), e))
    BY <1>1, <2>1, <2>2, StructureAfter
  <2>4. QED BY <2>3 DEF e
<1>5. ASSUME NEW name \in AttributeNames PROVE SameStructure(model, PartialAttribute(model, name))
  <2> DEFINE q == Append(Top(model), name)
             n == [model EXCEPT !.attributes = model.attributes \cup {q}]
  <2>1. SameStructure(model, n)
    BY <1>1, StructureAfter
  <2>2. PartialAttribute(model, name) = Put(n, q, NewAttribute)
    BY DEF PartialAttribute
  <2>3. q \notin Structure(model)
    BY <1>1, NamesOutside
  <2>4. "is" \in DOMAIN NewAttribute /\ NewAttribute.is = "attribute" /\ "attribute" \notin Structural
    BY DEF NewAttribute, Structural
  <2> HIDE DEF n, q
  <2>5. QED BY <2>1, <2>2, <2>3, <2>4, StructureAfter
<1>6. ASSUME NEW prefix \in Hooks, NEW e, "is" \in DOMAIN e, e.is = prefix
      PROVE  SameStructure(model, Put(model, UniqueModelHookName(model, prefix), e))
  <2>1. prefix \in Sorts \ {"initial", "transition"} /\ prefix \notin Structural /\ prefix # "operation"
    BY DEF Hooks, Sorts, Structural
  <2>2. PICK i \in Nat : UniqueModelHookName(model, prefix) = Append(model.root, Numbered(prefix, i))
    BY HookNumber
  <2>3. NamedAs(Nat, Numbered(prefix, i), prefix)
    BY MadeUp
  <2>4. UniqueModelHookName(model, prefix) \notin Structure(model)
    BY <2>1, <2>2, <2>3, NamesOutside, Parts
  <2>5. QED BY <1>1, <1>6, <2>1, <2>4, StructureAfter
<1>7. /\ \A observer, targets : "is" \in DOMAIN NewObservation(observer, targets) /\ NewObservation(observer, targets).is = "observation"
      /\ \A kind, does : "is" \in DOMAIN NewHook(kind, does) /\ NewHook(kind, does).is = kind
  BY DEF NewObservation, NewHook
<1>8. {"observation", "validator", "finalizer"} = Hooks
  BY DEF Hooks
<1>9. /\ \A observer, targets : SameStructure(model, PartialObserve(model, observer, targets))
      /\ \A does : SameStructure(model, PartialValidator(model, does)) /\ SameStructure(model, PartialFinalizer(model, does))
  BY <1>6, <1>7, <1>8 DEF PartialObserve, PartialValidator, PartialFinalizer
<1>10. QED BY <1>2, <1>3, <1>4, <1>5, <1>9 DEF PartialOperation, PartialGuardOperation

-----------------------------------------------------------------------------
(* Elements that change it. *)

\* A model with one member more, or another one in its place.
LEMMA PutShape ==
  ASSUME NEW model, WellFormed(Nat, model), NEW q, NEW e
  PROVE  LET n == Put(model, q, e)
         IN  /\ n.stack = model.stack /\ Top(n) = Top(model)
             /\ DOMAIN n.members = DOMAIN model.members \cup {q}
             /\ n.members[q] = e
             /\ \A p \in DOMAIN model.members \ {q} : n.members[p] = model.members[p]
<1> DEFINE g == Overlay([p \in {q} |-> e], model.members)
           n == Put(model, q, e)
<1>1. n = [model EXCEPT !.members = g]
  BY DEF Put
<1>2. /\ DOMAIN g = DOMAIN model.members \cup {q} /\ g[q] = e
      /\ \A p \in DOMAIN model.members \ {q} : g[p] = model.members[p]
  BY DEF Overlay
<1> HIDE DEF g, n
<1>3. n.members = g /\ n.stack = model.stack
  BY <1>1 DEF WellFormed
<1>4. Top(n) = Top(model)
  BY <1>3 DEF Top
<1>5. QED BY <1>2, <1>3, <1>4 DEF n

\* With more members the numbers of new transitions grow.
LEMMA CountGrows ==
  ASSUME NEW model, WellFormed(Nat, model), NEW other, WellFormed(Nat, other),
         Structure(model) \subseteq Structure(other)
  PROVE  /\ StructuralMemberCount(model) \in Nat /\ StructuralMemberCount(other) \in Nat
         /\ StructuralMemberCount(model) <= StructuralMemberCount(other)
         /\ Structure(model) # Structure(other) => StructuralMemberCount(model) < StructuralMemberCount(other)
<1> DEFINE S == Structure(model)
           T == Structure(other)
<1>1. StructuralMemberCount(model) = 1 + Cardinality(S) /\ StructuralMemberCount(other) = 1 + Cardinality(T)
  BY DEF StructuralMemberCount, Structure, Vertices
<1>2. IsFiniteSet(S) /\ IsFiniteSet(T)
  <2>1. IsFiniteSet(DOMAIN model.members) /\ IsFiniteSet(DOMAIN other.members)
    BY Parts
  <2>2. S \in SUBSET DOMAIN model.members /\ T \in SUBSET DOMAIN other.members
    BY DEF Structure, Vertices, Members
  <2> HIDE DEF S, T
  <2>3. QED BY <2>1, <2>2, FS_Subset
<1>3. S \in SUBSET T
  OBVIOUS
<1> HIDE DEF S, T
<1>4. Cardinality(S) \in Nat /\ Cardinality(T) \in Nat
  BY <1>2, FS_CardinalityType
<1>5. Cardinality(S) <= Cardinality(T) /\ (Cardinality(S) = Cardinality(T) => S = T)
  BY <1>2, <1>3, FS_Subset
<1>6. QED BY <1>1, <1>4, <1>5 DEF S, T

\* A new vertex lists nothing yet.
LEMMA PutVertexListed ==
  ASSUME NEW model, WellFormed(Nat, model), Listing(Nat, model), OpenApart(model), ~IsTransition(model, Top(model)),
         NEW q, NEW e, e.is \in {"state", "vertex"}, e.kind \in States \cup Pseudostates, e.transitions = <<>>,
         Last(q) \notin OperationSegments, WellFormed(Nat, Put(model, q, e))
  PROVE  LET n == Put(model, q, e)
         IN  Listing(Nat, n) /\ OpenApart(n) /\ ~IsTransition(n, Top(n)) /\ ~IsTransition(n, q)
<1> DEFINE n == Put(model, q, e)
<1>1. /\ n.stack = model.stack /\ Top(n) = Top(model)
      /\ DOMAIN n.members = DOMAIN model.members \cup {q} /\ n.members[q] = e
      /\ \A p \in DOMAIN model.members \ {q} : n.members[p] = model.members[p]
  BY PutShape
<1>2. WellFormed(Nat, n)
  OBVIOUS
<1> HIDE DEF n
<1>3. \A p \in Structure(model) : p \in Structure(n)
  BY <1>1, InStructure DEF Structural
<1>4. \A p : IsTransition(n, p) => IsTransition(model, p) /\ n.members[p] = model.members[p]
  BY <1>1 DEF IsTransition, Is
<1>5. ASSUME NEW v \in Vertices(n), v # q PROVE v \in Vertices(model) /\ n.members[v] = model.members[v]
  <2>1. v \in DOMAIN n.members /\ n.members[v].is \in {"state", "vertex"}
    BY InStructure
  <2>2. v \in DOMAIN model.members /\ n.members[v] = model.members[v]
    BY <1>1, <1>5, <2>1
  <2>3. QED BY <2>1, <2>2, InStructure
<1>6. /\ StructuralMemberCount(model) \in Nat /\ StructuralMemberCount(n) \in Nat
      /\ StructuralMemberCount(model) <= StructuralMemberCount(n)
  BY <1>2, <1>3, CountGrows
<1>7. ToSet(<<>>) = {} /\ IsInjective(<<>>)
  BY DEF ToSet, IsInjective
<1>8. ASSUME NEW v \in Vertices(n)
      PROVE  /\ n.members[v].kind \in States \cup Pseudostates
             /\ IsInjective(n.members[v].transitions)
             /\ \A t \in ToSet(n.members[v].transitions) : n.members[t].source = v
             /\ Last(v) \notin OperationSegments
  <2>1. CASE v = q
    BY <1>1, <1>7, <2>1
  <2>2. CASE v # q
    <3>1. v \in Vertices(model) /\ n.members[v] = model.members[v]
      BY <1>5, <2>2
    <3>2. \A t \in ToSet(n.members[v].transitions) : n.members[t] = model.members[t]
      BY <1>2, <1>4, StructureFields
    <3>3. QED BY <3>1, <3>2 DEF Listing
  <2>3. QED BY <2>1, <2>2
<1>9. ASSUME NEW t \in Members(n, "transition")
      PROVE  /\ Last(t) = "transition" => n.members[t].source = Front(t)
             /\ \A i \in Nat : Last(t) = Numbered("transition", i) => i < StructuralMemberCount(n)
  <2>1. t \in Members(model, "transition") /\ n.members[t] = model.members[t]
    BY <1>4, InStructure
  <2>2. \A i \in Nat : Last(t) = Numbered("transition", i) => i < StructuralMemberCount(model)
    BY <2>1 DEF Listing
  <2>3. QED BY <1>6, <2>1, <2>2 DEF Listing
<1>10. \A p \in Members(n, "operation") : Last(p) \in OperationSegments
  <2> TAKE p \in Members(n, "operation")
  <2>1. p \in Members(model, "operation")
    BY <1>1, InStructure
  <2>2. QED BY <2>1 DEF Listing
<1>11. Listing(Nat, n)
  BY <1>8, <1>9, <1>10 DEF Listing
<1>12. ~IsTransition(n, Top(n)) /\ OpenApart(n) /\ ~IsTransition(n, q)
  BY <1>1, <1>4 DEF OpenApart, IsTransition, Is
<1>13. QED BY <1>11, <1>12 DEF n

\* A new transition that nothing lists.
LEMMA PutTransitionListed ==
  ASSUME NEW model, WellFormed(Nat, model), Listing(Nat, model), OpenApart(model), ~IsTransition(model, Top(model)),
         NEW t, NEW e, e.is = "transition", Last(t) = "transition" => e.source = Front(t),
         \A v \in Vertices(model) : t \notin ToSet(model.members[v].transitions),
         t \in DOMAIN model.members => IsTransition(model, t), Top(model) # t,
         \A i \in 1 .. Len(model.stack) - 1 : model.stack[i] # t,
         WellFormed(Nat, Put(model, t, e)),
         \A i \in Nat : Last(t) = Numbered("transition", i) => i < StructuralMemberCount(Put(model, t, e))
  PROVE  LET n == Put(model, t, e)
         IN  /\ Listing(Nat, n) /\ OpenApart(n) /\ ~IsTransition(n, Top(n))
             /\ \A v \in Vertices(n) : t \notin ToSet(n.members[v].transitions)
<1> DEFINE n == Put(model, t, e)
<1>1. /\ n.stack = model.stack /\ Top(n) = Top(model)
      /\ DOMAIN n.members = DOMAIN model.members \cup {t} /\ n.members[t] = e
      /\ \A p \in DOMAIN model.members \ {t} : n.members[p] = model.members[p]
  BY PutShape
<1>2. /\ WellFormed(Nat, n)
      /\ \A i \in Nat : Last(t) = Numbered("transition", i) => i < StructuralMemberCount(n)
  OBVIOUS
<1> HIDE DEF n
<1>3. \A p \in Structure(model) : p \in Structure(n)
  BY <1>1, InStructure DEF Structural
<1>4. /\ \A p : IsTransition(n, p) => p = t \/ (IsTransition(model, p) /\ n.members[p] = model.members[p])
      /\ \A v \in Vertices(n) : v \in Vertices(model) /\ n.members[v] = model.members[v]
  <2>1. ASSUME NEW p, IsTransition(n, p), p # t PROVE IsTransition(model, p) /\ n.members[p] = model.members[p]
    BY <1>1, <2>1 DEF IsTransition, Is
  <2>2. ASSUME NEW v \in Vertices(n) PROVE v \in Vertices(model) /\ n.members[v] = model.members[v]
    <3>1. v \in DOMAIN n.members /\ n.members[v].is \in {"state", "vertex"}
      BY InStructure
    <3>2. v \in DOMAIN model.members /\ n.members[v] = model.members[v]
      BY <1>1, <3>1
    <3>3. QED BY <3>1, <3>2, InStructure
  <2>3. QED BY <2>1, <2>2
<1>5. /\ StructuralMemberCount(model) \in Nat /\ StructuralMemberCount(n) \in Nat
      /\ StructuralMemberCount(model) <= StructuralMemberCount(n)
  BY <1>2, <1>3, CountGrows
<1>6. \A v \in Vertices(n) : t \notin ToSet(n.members[v].transitions)
  BY <1>4
<1>7. ASSUME NEW v \in Vertices(n)
      PROVE  /\ n.members[v].kind \in States \cup Pseudostates
             /\ IsInjective(n.members[v].transitions)
             /\ \A p \in ToSet(n.members[v].transitions) : n.members[p].source = v
             /\ Last(v) \notin OperationSegments
  <2>1. v \in Vertices(model) /\ n.members[v] = model.members[v]
    BY <1>4
  <2>2. \A p \in ToSet(n.members[v].transitions) : n.members[p] = model.members[p]
    BY <1>2, <1>4, <1>6, StructureFields
  <2>3. QED BY <2>1, <2>2 DEF Listing
<1>8. ASSUME NEW p \in Members(n, "transition")
      PROVE  /\ Last(p) = "transition" => n.members[p].source = Front(p)
             /\ \A i \in Nat : Last(p) = Numbered("transition", i) => i < StructuralMemberCount(n)
  <2>1. CASE p = t
    BY <1>1, <1>2, <2>1
  <2>2. CASE p # t
    <3>1. p \in Members(model, "transition") /\ n.members[p] = model.members[p]
      BY <1>4, <2>2, InStructure
    <3>2. \A i \in Nat : Last(p) = Numbered("transition", i) => i < StructuralMemberCount(model)
      BY <3>1 DEF Listing
    <3>3. QED BY <1>5, <3>1, <3>2 DEF Listing
  <2>3. QED BY <2>1, <2>2
<1>9. \A p \in Members(n, "operation") : Last(p) \in OperationSegments
  <2> TAKE p \in Members(n, "operation")
  <2>1. p \in Members(model, "operation")
    BY <1>1, InStructure
  <2>2. QED BY <2>1 DEF Listing
<1>10. Listing(Nat, n)
  BY <1>7, <1>8, <1>9 DEF Listing
<1>11. ~IsTransition(n, Top(n)) /\ OpenApart(n)
  BY <1>1, <1>4 DEF OpenApart
<1>12. QED BY <1>6, <1>10, <1>11 DEF n

\* Opening an element inside one that is no transition.
LEMMA PushApart ==
  ASSUME NEW model, WellFormed(Nat, model), Listing(Nat, model), OpenApart(model), ~IsTransition(model, Top(model)),
         NEW q, IsTransition(model, q) => \A v \in Vertices(model) : q \notin ToSet(model.members[v].transitions)
  PROVE  LET n == Push(model, q)
         IN  Listing(Nat, n) /\ OpenApart(n) /\ n.members = model.members /\ Top(n) = q
<1> DEFINE n == Push(model, q)
           k == Len(model.stack)
<1>1. model.stack \in Seq(Name) /\ k \in Nat \ {0} /\ Top(model) = model.stack[k]
  BY TopOf DEF WellFormed
<1>2. n.members = model.members /\ n.stack = Append(model.stack, q)
  BY DEF Push, WellFormed
<1>3. Len(n.stack) = k + 1 /\ n.stack[k + 1] = q /\ \A i \in 1 .. k : n.stack[i] = model.stack[i]
  BY <1>1, <1>2
<1> HIDE DEF n
<1>4. Top(n) = q
  <2>1. Last(n.stack) = n.stack[Len(n.stack)]
    BY DEF Last
  <2>2. QED BY <1>3, <2>1 DEF Top
<1>5. /\ Vertices(n) = Vertices(model) /\ \A p : IsTransition(n, p) <=> IsTransition(model, p)
      /\ Members(n, "transition") = Members(model, "transition") /\ Members(n, "operation") = Members(model, "operation")
      /\ StructuralMemberCount(n) = StructuralMemberCount(model)
  BY <1>2 DEF Vertices, Members, IsTransition, Is, StructuralMemberCount
<1>6. Listing(Nat, n)
  BY <1>2, <1>5 DEF Listing
<1>7. \A i \in 1 .. Len(n.stack) - 1 : ~IsTransition(n, n.stack[i])
  <2> TAKE i \in 1 .. Len(n.stack) - 1
  <2>1. i \in 1 .. k /\ n.stack[i] = model.stack[i] /\ (i = k \/ i \in 1 .. k - 1)
    BY <1>1, <1>3
  <2>2. QED BY <1>1, <1>5, <2>1 DEF OpenApart
<1>8. OpenApart(n)
  BY <1>2, <1>4, <1>5, <1>7 DEF OpenApart
<1>9. QED BY <1>2, <1>4, <1>6, <1>8 DEF n

\* Closing the innermost open element.
LEMMA PopApart ==
  ASSUME NEW model, WellFormed(Nat, model), Listing(Nat, model), Len(model.stack) > 1,
         \A i \in 1 .. Len(model.stack) - 1 : ~IsTransition(model, model.stack[i])
  PROVE  LET n == Pop(model)
         IN  /\ Listing(Nat, n) /\ OpenApart(n) /\ ~IsTransition(n, Top(n)) /\ n.members = model.members
             /\ \A i \in 1 .. Len(n.stack) - 1 : ~IsTransition(n, n.stack[i])
<1> DEFINE n == Pop(model)
           k == Len(model.stack)
<1>1. model.stack \in Seq(Name) /\ k \in Nat \ {0}
  BY TopOf DEF WellFormed
<1>2. n.members = model.members /\ n.stack = Front(model.stack)
  BY DEF Pop, WellFormed
<1>3. Len(n.stack) = k - 1 /\ \A i \in 1 .. k - 1 : n.stack[i] = model.stack[i]
  BY <1>1, <1>2 DEF Front
<1> HIDE DEF n
<1>4. Top(n) = model.stack[k - 1] /\ k - 1 \in 1 .. k - 1
  <2>1. Last(n.stack) = n.stack[Len(n.stack)]
    BY DEF Last
  <2>2. k - 1 \in 1 .. k - 1
    BY <1>1
  <2>3. QED BY <1>3, <2>1, <2>2 DEF Top
<1>5. /\ Vertices(n) = Vertices(model) /\ \A p : IsTransition(n, p) <=> IsTransition(model, p)
      /\ Members(n, "transition") = Members(model, "transition") /\ Members(n, "operation") = Members(model, "operation")
      /\ StructuralMemberCount(n) = StructuralMemberCount(model)
  BY <1>2 DEF Vertices, Members, IsTransition, Is, StructuralMemberCount
<1>6. Listing(Nat, n)
  BY <1>2, <1>5 DEF Listing
<1>7. \A i \in 1 .. Len(n.stack) - 1 : ~IsTransition(n, n.stack[i])
  <2> TAKE i \in 1 .. Len(n.stack) - 1
  <2>1. i \in 1 .. k - 1
    BY <1>1, <1>3
  <2>2. QED BY <1>3, <1>5, <2>1
<1>8. ~IsTransition(n, Top(n))
  BY <1>4, <1>5
<1>9. QED BY <1>2, <1>6, <1>7, <1>8 DEF n, OpenApart

\* A well-formed model that lists its transitions as it must, none of them open or listed.
Listed(model) == WellFormed(Nat, model) /\ Listing(Nat, model) /\ OpenApart(model)

\* Operations are named by the user.
LEMMA OperationsByUser ==
  ASSUME WellNamed
  PROVE  /\ \A x \in OperationSegments : NamedAs(Nat, x, "user")
         /\ ".initial" \notin OperationSegments
<1>1. Naming(Nat) /\ \A s \in Skeletons \cup Surroundings : WellFormed(Nat, s)
  BY DEF WellNamed
<1>2. ASSUME NEW s \in Skeletons \cup Surroundings, NEW q \in Members(s, "operation") PROVE NamedAs(Nat, Last(q), "user")
  <2>1. q \in DOMAIN s.members /\ s.members[q].is = "operation"
    BY InStructure
  <2>2. Sort(s.members[q]) = "user"
    BY <2>1 DEF Sort, Sorts, Hooks
  <2>3. QED BY <1>1, <2>1, <2>2, Parts
<1>3. ASSUME NEW x \in OperationSegments PROVE NamedAs(Nat, x, "user")
  <2>1. CASE x \in OperationNames
    BY <1>1, <2>1, UserSegments
  <2>2. CASE x \in {Last(q) : q \in UNION {Members(s, "operation") : s \in Skeletons \cup Surroundings}}
    <3>1. PICK s \in Skeletons \cup Surroundings : \E q \in Members(s, "operation") : x = Last(q)
      BY <2>2
    <3>2. QED BY <1>2, <3>1
  <2>3. QED BY <2>1, <2>2 DEF OperationSegments
<1>4. QED BY <1>1, <1>3, UserIsNotMadeUp

\* A name that the builders give to a transition is the name of no other member, and of no
\* element that is open while no transition is.
LEMMA NameOfTransition ==
  ASSUME Naming(Nat), NEW model, Listed(model), NEW p \in Name, IsPrefix(model.root, p),
         NEW x, NamedAs(Nat, x, "transition")
  PROVE  /\ Append(p, x) \in DOMAIN model.members => IsTransition(model, Append(p, x))
         /\ ~IsTransition(model, Top(model)) =>
              Top(model) # Append(p, x) /\ \A i \in 1 .. Len(model.stack) - 1 : model.stack[i] # Append(p, x)
<1> DEFINE t == Append(p, x)
<1>1. x \in Segment /\ t \in Name /\ Last(t) = x
  BY SegmentType, AppendName DEF Sorts
<1>2. IsStrictPrefix(model.root, t)
  BY <1>1, AppendBelow, Parts DEF Listed
<1>3. t # model.root
  BY <1>2 DEF IsStrictPrefix
<1>4. t \in DOMAIN model.members => IsTransition(model, t)
  <2> SUFFICES ASSUME t \in DOMAIN model.members PROVE IsTransition(model, t)
    OBVIOUS
  <2>1. /\ Sort(model.members[t]) \in Sorts \cup {"user"} /\ NamedAs(Nat, x, Sort(model.members[t]))
        /\ model.members[t].is \in Variants
    BY <1>1, Parts DEF Listed
  <2>2. Sort(model.members[t]) = "transition"
    BY <2>1, SortDecides DEF Sorts
  <2>3. QED BY <2>1, <2>2, SortIs DEF IsTransition, Is
<1> HIDE DEF t
<1>5. ASSUME ~IsTransition(model, Top(model)), NEW i \in 1 .. Len(model.stack) PROVE model.stack[i] # t
  <2>1. Len(model.stack) \in Nat \ {0} /\ Top(model) = model.stack[Len(model.stack)]
    BY TopOf DEF Listed
  <2>2. ~IsTransition(model, model.stack[i])
    <3>1. i = Len(model.stack) \/ i \in 1 .. Len(model.stack) - 1
      BY <2>1
    <3>2. QED BY <1>5, <2>1, <3>1 DEF Listed, OpenApart
  <2>3. i = 1 \/ i \in 2 .. Len(model.stack)
    BY <2>1
  <2>4. model.stack[i] = model.root \/ model.stack[i] \in DOMAIN model.members
    BY <2>3 DEF Listed, WellFormed
  <2>5. QED BY <1>3, <1>4, <2>2, <2>4
<1>6. Len(model.stack) \in Nat \ {0} /\ Top(model) = model.stack[Len(model.stack)]
  BY TopOf DEF Listed
<1>7. QED BY <1>4, <1>5, <1>6 DEF t

\* The machine itself is no transition, and a state is none.
LEMMA RegionIsNoTransition ==
  ASSUME NEW model, WellFormed(Nat, model)
  PROVE  Top(model) = model.root \/ IsState(model, Top(model)) => ~IsTransition(model, Top(model))
<1>1. model.root \notin DOMAIN model.members
  BY Parts DEF IsStrictPrefix
<1>2. QED BY <1>1 DEF IsTransition, IsState, Is

\* A new pseudostate.
LEMMA VertexListed ==
  ASSUME WellNamed, WellListed, NEW model, Listed(model), ~IsTransition(model, Top(model)),
         NEW name, NEW kind \in Pseudostates,
         \/ name \in PointNames /\ kind # "initial"
         \/ name = ".initial" /\ kind = "initial"
  PROVE  LET q     == Append(Top(model), name)
             other == Put(model, q, NewVertex(kind))
         IN  /\ Listed(other) /\ ~IsTransition(other, Top(other)) /\ Top(other) = Top(model)
             /\ ~IsTransition(other, q) /\ other.members[q] = NewVertex(kind) /\ other.root = model.root
             /\ q \in Name /\ IsPrefix(model.root, q) /\ q # model.root
<1> DEFINE q     == Append(Top(model), name)
           other == Put(model, q, NewVertex(kind))
<1>1. Naming(Nat)
  BY DEF WellNamed
<1>2. /\ WellFormed(Nat, other) /\ Alike(model, other) /\ Top(other) = Top(model) /\ q \in Name
      /\ other.stack = model.stack /\ q \in DOMAIN other.members
  BY <1>1, VertexFits DEF Listed
<1>3. NewVertex(kind).is = "vertex" /\ NewVertex(kind).kind = kind /\ NewVertex(kind).transitions = <<>>
  BY DEF NewVertex
<1>4. other.members[q] = NewVertex(kind)
  BY PutShape DEF Listed
<1>5. Last(q) = name /\ name \notin OperationSegments
  <2>1. name \in Segment
    BY <1>1, UserSegments, MadeUp, SegmentType DEF VertexNames, Sorts
  <2>2. Top(model) \in Name
    BY TopOf DEF Listed
  <2>3. name \notin OperationSegments
    BY OperationsByUser DEF WellListed, VertexNames
  <2>4. QED BY <2>1, <2>2, <2>3, AppendName
<1>6. Listing(Nat, other) /\ OpenApart(other) /\ ~IsTransition(other, Top(other)) /\ ~IsTransition(other, q)
  <2> HIDE DEF q
  <2>1. Last(q) \notin OperationSegments
    BY <1>5
  <2>2. QED BY <1>2, <1>3, <2>1, PutVertexListed DEF Listed
<1>7. IsPrefix(model.root, q) /\ q # model.root /\ other.root = model.root
  <2>1. IsStrictPrefix(other.root, q) /\ other.root = model.root
    BY <1>2, Parts DEF Alike
  <2>2. QED BY <2>1 DEF IsStrictPrefix
<1>8. QED BY <1>2, <1>4, <1>6, <1>7 DEF Listed

\* A state or a final state.
LEMMA StatesListed ==
  ASSUME WellNamed, WellListed, NEW model, Listed(model), ~IsTransition(model, Top(model))
  PROVE  /\ \A name \in StateNames : Listed(PartialState(model, name))
         /\ \A name \in FinalNames : Listed(PartialFinalState(model, name))
<1>1. Naming(Nat) /\ Top(model) \in Name /\ WellFormed(Nat, model)
  BY TopOf DEF WellNamed, Listed
<1>2. ASSUME NEW name \in VertexNames PROVE Last(Append(Top(model), name)) \notin OperationSegments
  <2>1. name \in Segment
    BY <1>1, UserSegments
  <2>2. QED BY <1>1, <2>1, AppendName DEF WellListed
<1>3. ASSUME NEW kind \in {"state", "final"}
      PROVE  NewState(kind).is = "state" /\ NewState(kind).kind \in States \cup Pseudostates /\ NewState(kind).transitions = <<>>
  BY DEF NewState, States
<1>4. ASSUME NEW name \in StateNames PROVE Listed(PartialState(model, name))
  <2> DEFINE q == Append(Top(model), name)
             n == Put(model, q, NewState("state"))
  <2>1. WellFormed(Nat, PartialState(model, name))
    BY <1>1, StateFits
  <2>2. CASE IsState(model, q)
    <3>1. PartialState(model, name) = Push(model, q)
      BY <2>2 DEF PartialState
    <3>2. ~IsTransition(model, q)
      BY <2>2 DEF IsState, IsTransition, Is
    <3>3. QED BY <1>1, <2>1, <3>1, <3>2, PushApart DEF Listed
  <2>3. CASE ~IsState(model, q)
    <3>1. PartialState(model, name) = Push(n, q)
      BY <2>3 DEF PartialState
    <3>2. WellFormed(Nat, n)
      <4>1. /\ IsElement(NewState("state")) /\ NewState("state").is = "state" /\ Sort(NewState("state")) = "user"
            /\ \A other : \A field \in DOMAIN NewState("state") : Suits(other, q, field, NewState("state")[field])
        BY NewStateFits DEF States
      <4>2. name \in Segment /\ NamedAs(Nat, name, "user") /\ name # "transition"
        BY <1>1, UserSegments, UserIsNotMadeUp DEF VertexNames
      <4>3. name \notin AttributeNames
        BY <1>1 DEF Naming, VertexNames
      <4>4. QED BY <1>1, <4>1, <4>2, <4>3, PutInTop
    <3>3. Last(q) \notin OperationSegments
      BY <1>2 DEF VertexNames
    <3> HIDE DEF q
    <3>4. Listing(Nat, n) /\ OpenApart(n) /\ ~IsTransition(n, Top(n)) /\ ~IsTransition(n, q)
      BY <1>1, <1>3, <3>2, <3>3, PutVertexListed DEF Listed
    <3> HIDE DEF n
    <3>5. Listing(Nat, Push(n, q)) /\ OpenApart(Push(n, q))
      BY <3>2, <3>4, PushApart
    <3>6. QED BY <2>1, <3>1, <3>5 DEF Listed
  <2>4. QED BY <2>2, <2>3
<1>5. ASSUME NEW name \in FinalNames PROVE Listed(PartialFinalState(model, name))
  <2> DEFINE q == Append(Top(model), name)
  <2>1. WellFormed(Nat, Put(model, q, NewState("final"))) /\ PartialFinalState(model, name) = Put(model, q, NewState("final"))
    BY <1>1, FinalFits DEF PartialFinalState
  <2>2. Last(q) \notin OperationSegments
    BY <1>2 DEF VertexNames
  <2> HIDE DEF q
  <2>3. QED BY <1>1, <1>3, <2>1, <2>2, PutVertexListed DEF Listed
<1>6. QED BY <1>4, <1>5

\* A pseudostate that is left open, and the transition inside it.
LEMMA OpenPointListed ==
  ASSUME WellNamed, WellListed, NEW model, Listed(model), ~IsTransition(model, Top(model)),
         NEW name, NEW kind \in Pseudostates, NEW events \in Seq(Name),
         \/ name \in PointNames /\ kind # "initial"
         \/ name = ".initial" /\ kind = "initial"
  PROVE  Listed(OpenPoint(model, name, kind, events))
<1> DEFINE q  == Append(Top(model), name)
           t  == Append(q, "transition")
           e  == NewTransition(q, events)
           n1 == Put(model, q, NewVertex(kind))
           n2 == Put(n1, t, e)
           n3 == Push(n2, q)
<1>1. Naming(Nat) /\ WellFormed(Nat, model) /\ WellFormed(Nat, OpenPoint(model, name, kind, events))
  BY OpenPointFits DEF WellNamed, Listed
<1>2. OpenPoint(model, name, kind, events) = Push(n3, t)
  BY DEF OpenPoint
<1>3. /\ Listed(n1) /\ ~IsTransition(n1, Top(n1)) /\ Top(n1) = Top(model)
      /\ ~IsTransition(n1, q) /\ n1.members[q] = NewVertex(kind) /\ n1.root = model.root
      /\ q \in Name /\ IsPrefix(model.root, q) /\ q # model.root
  BY VertexListed
<1>a. Front(q) = Top(model) /\ q \in DOMAIN n1.members
  BY <1>1, VertexFits
<1>4. t \in Name /\ Last(t) = "transition" /\ Front(t) = q /\ t # q /\ "transition" \in Segment
  <2>1. "transition" \in Segment
    BY <1>1, MadeUp, SegmentType DEF Sorts
  <2>2. Len(t) = Len(q) + 1 /\ Len(q) \in Nat /\ t \in Name /\ Last(t) = "transition" /\ Front(t) = q
    BY <1>3, <2>1, AppendName, NameType
  <2>3. QED BY <2>1, <2>2
<1>5. e.is = "transition" /\ e.source = q
  BY DEF NewTransition
<1> HIDE DEF n1
<1>6. WellFormed(Nat, n2)
  <2>1. /\ IsElement(e) /\ Sort(e) = "transition"
        /\ \A other : \A field \in DOMAIN e : Suits(other, t, field, e[field])
    BY <1>3, NewTransitionFits
  <2>2. NamedAs(Nat, "transition", Sort(e)) /\ "transition" \in Segment
    BY <1>4, <2>1, MadeUp
  <2> HIDE DEF e, q
  <2>3. QED BY <1>1, <1>3, <1>5, <2>1, <2>2, PutFits DEF Listed
<1>7. \A v \in Vertices(n1) : t \notin ToSet(n1.members[v].transitions)
  <2> SUFFICES ASSUME NEW v \in Vertices(n1), t \in ToSet(n1.members[v].transitions) PROVE FALSE
    OBVIOUS
  <2>1. IsTransition(n1, t)
    BY <1>3, StructureFields DEF Listed
  <2>2. n1.members[t].source = v /\ n1.members[t].source = Front(t)
    BY <1>3, <1>4, <2>1, InStructure DEF Listed, Listing
  <2>3. n1.members[v].transitions = <<>>
    <3>1. v = q
      BY <1>4, <2>2
    <3>2. NewVertex(kind).transitions = <<>>
      BY DEF NewVertex
    <3>3. QED BY <1>3, <3>1, <3>2
  <2>4. QED BY <2>3 DEF ToSet
<1>8. /\ t \in DOMAIN n1.members => IsTransition(n1, t)
      /\ Top(n1) # t /\ \A i \in 1 .. Len(n1.stack) - 1 : n1.stack[i] # t
  BY <1>1, <1>3, MadeUp, NameOfTransition
<1>9. \A i \in Nat : Last(t) # Numbered("transition", i)
  BY <1>1, <1>4 DEF Naming
<1> HIDE DEF e, t
<1>10. /\ Listing(Nat, n2) /\ OpenApart(n2) /\ ~IsTransition(n2, Top(n2))
       /\ \A v \in Vertices(n2) : t \notin ToSet(n2.members[v].transitions)
  <2> HIDE DEF q
  <2>1. QED BY <1>3, <1>4, <1>5, <1>6, <1>7, <1>8, <1>9, PutTransitionListed DEF Listed
<1>11. /\ DOMAIN n2.members = DOMAIN n1.members \cup {t} /\ n2.members[q] = n1.members[q] /\ Top(n2) = Top(n1)
       /\ n2.members[t] = e
  BY <1>3, <1>4, <1>a, PutShape DEF Listed
<1>12. ~IsTransition(n2, q) /\ q \in DOMAIN n2.members /\ t \in DOMAIN n2.members
  BY <1>3, <1>a, <1>11 DEF IsTransition, Is
<1> HIDE DEF n2
<1>13. Listing(Nat, n3) /\ OpenApart(n3) /\ n3.members = n2.members /\ Top(n3) = q
  BY <1>6, <1>10, <1>12, PushApart
<1>14. WellFormed(Nat, n3)
  <2> HIDE DEF q
  <2>1. QED BY <1>3, <1>6, <1>a, <1>11, <1>12, PushFits
<1> HIDE DEF n3, q
<1>15. ~IsTransition(n3, Top(n3)) /\ \A v \in Vertices(n3) : t \notin ToSet(n3.members[v].transitions)
  BY <1>10, <1>12, <1>13 DEF IsTransition, Is, Vertices, Members
<1>16. Listing(Nat, Push(n3, t)) /\ OpenApart(Push(n3, t))
  BY <1>13, <1>14, <1>15, PushApart
<1>17. QED BY <1>1, <1>2, <1>16 DEF Listed

\* Choices, points, histories and initials.
LEMMA PointsListed ==
  ASSUME WellNamed, WellListed, NEW model, Listed(model), ~IsTransition(model, Top(model))
  PROVE  /\ \A name \in PointNames : Listed(PartialChoice(model, name))
         /\ \A name \in PointNames, kind \in Pseudostates \ {"initial"}, elements \in BOOLEAN :
              /\ Listed(AddConnectionPointVertex(model, name, kind, elements))
              /\ Listed(PartialHistory(model, name, kind, elements))
         /\ Listed(PartialInitial(model))
<1>1. Naming(Nat) /\ WellFormed(Nat, model)
  BY DEF WellNamed, Listed
<1>2. ASSUME NEW name \in PointNames PROVE Listed(PartialChoice(model, name))
  <2> DEFINE q == Append(Top(model), name)
             n == Put(model, q, NewVertex("choice"))
  <2>1. /\ Listed(n) /\ ~IsTransition(n, Top(n)) /\ ~IsTransition(n, q)
    BY VertexListed DEF Pseudostates
  <2>2. WellFormed(Nat, PartialChoice(model, name)) /\ PartialChoice(model, name) = Push(n, q)
    BY <1>1, ChoiceFits DEF PartialChoice
  <2> HIDE DEF n, q
  <2>3. QED BY <2>1, <2>2, PushApart DEF Listed
<1>3. ASSUME NEW name \in PointNames, NEW kind \in Pseudostates \ {"initial"}, NEW elements \in BOOLEAN
      PROVE  /\ Listed(AddConnectionPointVertex(model, name, kind, elements))
             /\ Listed(PartialHistory(model, name, kind, elements))
  <2>1. <<>> \in Seq(Name)
    OBVIOUS
  <2>2. Listed(OpenPoint(model, name, kind, <<>>))
    BY <2>1, OpenPointListed
  <2>3. Listed(Put(model, Append(Top(model), name), NewVertex(kind)))
    BY VertexListed
  <2>4. QED BY <2>2, <2>3 DEF AddConnectionPointVertex, PartialHistory
<1>4. Listed(PartialInitial(model))
  <2> DEFINE q == Append(Top(model), ".initial")
             n == OpenPoint(model, ".initial", "initial", <<InitialEvent>>)
  <2>1. <<InitialEvent>> \in Seq(Name)
    BY <1>1 DEF Naming
  <2>2. Listed(n)
    BY <2>1, OpenPointListed DEF Pseudostates
  <2>3. WellFormed(Nat, PartialInitial(model))
    BY <1>1, InitialFits
  <2>4. PartialInitial(model) \in {n, Edit(n, Top(model), "initial", q), [n EXCEPT !.initial = q]}
    BY DEF PartialInitial
  <2> HIDE DEF n, q
  <2>5. SameStructure(n, PartialInitial(model))
    BY <2>2, <2>4, StructureAtFirst, StructureAfter DEF Listed
  <2>6. QED BY <2>2, <2>3, <2>5, ListingKept, OpenKept DEF Listed
<1>5. QED BY <1>2, <1>3, <1>4

\* A new transition: its number is one that no other has.
LEMMA TransitionListed ==
  ASSUME WellNamed, WellListed, NEW model, Listed(model), ~IsTransition(model, Top(model))
  PROVE  Listed(PartialTransition(model))
<1> DEFINE k == StructuralMemberCount(model)
           x == Numbered("transition", k)
           t == Append(Top(model), x)
           e == NewTransition(Top(model), <<>>)
           n == Put(model, t, e)
<1>1. Naming(Nat) /\ WellFormed(Nat, model) /\ k \in Nat /\ Top(model) \in Name /\ IsPrefix(model.root, Top(model))
  BY MemberCount, TopOf DEF WellNamed, Listed
<1>2. WellFormed(Nat, PartialTransition(model)) /\ PartialTransition(model) = Push(n, t)
  BY <1>1, TransitionFits DEF PartialTransition
<1>3. NamedAs(Nat, x, "transition") /\ x \in Segment /\ x # "transition"
  BY <1>1, MadeUp, SegmentType DEF Naming, Sorts
<1>4. t \in Name /\ Last(t) = x
  BY <1>1, <1>3, AppendName
<1>5. e.is = "transition" /\ e.source \in Name
  BY <1>1 DEF NewTransition
<1>6. /\ t \in DOMAIN model.members => IsTransition(model, t)
      /\ Top(model) # t /\ \A i \in 1 .. Len(model.stack) - 1 : model.stack[i] # t
  BY <1>1, <1>3, NameOfTransition
<1>7. ~IsTransition(model, t) /\ t \notin DOMAIN model.members
  <2>1. ASSUME IsTransition(model, t) PROVE FALSE
    <3>1. t \in Members(model, "transition")
      BY <2>1, InStructure
    <3>2. k < k
      BY <1>1, <1>4, <3>1 DEF Listed, Listing
    <3>3. QED BY <1>1, <3>2
  <2>2. QED BY <1>6, <2>1
<1>8. \A v \in Vertices(model) : t \notin ToSet(model.members[v].transitions)
  BY <1>1, <1>7, StructureFields
<1>9. WellFormed(Nat, n)
  <2>1. /\ IsElement(e) /\ Sort(e) = "transition"
        /\ \A other : \A field \in DOMAIN e : Suits(other, t, field, e[field])
    <3>1. <<>> \in Seq(Name)
      OBVIOUS
    <3>2. QED BY <1>1, <3>1, NewTransitionFits
  <2> HIDE DEF e, x, k
  <2>2. QED BY <1>1, <1>3, <1>5, <2>1, PutInTop
<1>10. /\ n.stack = model.stack /\ Top(n) = Top(model)
       /\ DOMAIN n.members = DOMAIN model.members \cup {t} /\ n.members[t] = e
       /\ \A p \in DOMAIN model.members \ {t} : n.members[p] = model.members[p]
  <2> HIDE DEF e, t, x, k
  <2>1. QED BY <1>1, PutShape
<1> HIDE DEF n, e, t
<1>11. k < StructuralMemberCount(n)
  <2>1. \A p \in Structure(model) : p \in Structure(n)
    BY <1>7, <1>10, InStructure
  <2>2. t \in Structure(n) /\ t \notin Structure(model)
    BY <1>5, <1>7, <1>10, InStructure DEF Structural
  <2>3. QED BY <1>1, <1>9, <2>1, <2>2, CountGrows
<1> HIDE DEF k
<1>12. \A i \in Nat : Last(t) = Numbered("transition", i) => i < StructuralMemberCount(n)
  <2> TAKE i \in Nat
  <2>1. Last(t) = Numbered("transition", i) => i = k
    BY <1>1, <1>4 DEF Naming
  <2>2. QED BY <1>11, <2>1
<1>13. Last(t) # "transition"
  BY <1>3, <1>4
<1> USE DEF n
<1>14. /\ Listing(Nat, n) /\ OpenApart(n) /\ ~IsTransition(n, Top(n))
       /\ \A v \in Vertices(n) : t \notin ToSet(n.members[v].transitions)
  BY <1>5, <1>6, <1>8, <1>9, <1>12, <1>13, PutTransitionListed DEF Listed
<1> HIDE DEF n
<1>15. Listing(Nat, Push(n, t)) /\ OpenApart(Push(n, t))
  BY <1>9, <1>14, PushApart
<1>16. QED BY <1>2, <1>15 DEF Listed

\* The same members, with the same sources and kinds; the lists may differ.
SamePlaces(model, n) ==
  /\ n.stack = model.stack /\ DOMAIN n.members = DOMAIN model.members
  /\ \A q \in DOMAIN model.members :
       /\ n.members[q].is = model.members[q].is
       /\ model.members[q].is \in {"state", "vertex"} => n.members[q].kind = model.members[q].kind
       /\ model.members[q].is = "transition" => n.members[q].source = model.members[q].source

\* The structure of such a model.
LEMMA SamePlacesSame ==
  ASSUME NEW model, NEW n, SamePlaces(model, n)
  PROVE  /\ Vertices(n) = Vertices(model) /\ Structure(n) = Structure(model) /\ Top(n) = Top(model)
         /\ \A p : IsTransition(n, p) <=> IsTransition(model, p)
         /\ Members(n, "transition") = Members(model, "transition") /\ Members(n, "operation") = Members(model, "operation")
         /\ StructuralMemberCount(n) = StructuralMemberCount(model)
<1>1. \A variant : Members(n, variant) = Members(model, variant)
  BY DEF SamePlaces, Members
<1>2. \A p : IsTransition(n, p) <=> IsTransition(model, p)
  BY DEF SamePlaces, IsTransition, Is
<1>3. Vertices(n) = Vertices(model) /\ Structure(n) = Structure(model)
  BY <1>1 DEF Vertices, Structure
<1>4. StructuralMemberCount(n) = StructuralMemberCount(model)
  BY <1>1 DEF StructuralMemberCount
<1>5. Top(n) = Top(model)
  BY DEF SamePlaces, Top
<1>6. QED BY <1>1, <1>2, <1>3, <1>4, <1>5

\* New lists, each of transitions of the one that lists them.
LEMMA ListsReplaced ==
  ASSUME NEW model, Listing(Nat, model), NEW n, SamePlaces(model, n),
         \A v \in Vertices(model) :
           /\ IsInjective(n.members[v].transitions)
           /\ \A t \in ToSet(n.members[v].transitions) : IsTransition(model, t) /\ model.members[t].source = v
  PROVE  Listing(Nat, n)
<1>1. /\ Vertices(n) = Vertices(model)
      /\ Members(n, "transition") = Members(model, "transition") /\ Members(n, "operation") = Members(model, "operation")
      /\ StructuralMemberCount(n) = StructuralMemberCount(model)
  BY SamePlacesSame
<1>2. \A t : IsTransition(model, t) => n.members[t].source = model.members[t].source
  BY DEF SamePlaces, IsTransition, Is
<1>3. ASSUME NEW v \in Vertices(n)
      PROVE  /\ n.members[v].kind \in States \cup Pseudostates
             /\ IsInjective(n.members[v].transitions)
             /\ \A t \in ToSet(n.members[v].transitions) : n.members[t].source = v
             /\ Last(v) \notin OperationSegments
  <2>1. v \in DOMAIN model.members /\ model.members[v].is \in {"state", "vertex"}
    BY <1>1, InStructure
  <2>2. n.members[v].kind = model.members[v].kind
    BY <2>1 DEF SamePlaces
  <2>3. QED BY <1>1, <1>2, <2>2 DEF Listing
<1>4. ASSUME NEW t \in Members(n, "transition")
      PROVE  /\ Last(t) = "transition" => n.members[t].source = Front(t)
             /\ \A i \in Nat : Last(t) = Numbered("transition", i) => i < StructuralMemberCount(n)
  <2>1. t \in Members(model, "transition") /\ n.members[t].source = model.members[t].source
    BY <1>1, <1>2, InStructure
  <2>2. QED BY <1>1, <2>1 DEF Listing
<1>5. \A q \in Members(n, "operation") : Last(q) \in OperationSegments
  BY <1>1 DEF Listing
<1>6. QED BY <1>3, <1>4, <1>5 DEF Listing

\* Another list for one vertex.
LEMMA ListEdited ==
  ASSUME NEW model, WellFormed(Nat, model), Listing(Nat, model), NEW v, NEW list,
         v \in Vertices(model) =>
           IsInjective(list) /\ \A t \in ToSet(list) : IsTransition(model, t) /\ model.members[t].source = v
  PROVE  LET n == Edit(model, v, "transitions", list)
         IN  Listing(Nat, n) /\ SamePlaces(model, n)
<1> DEFINE n == Edit(model, v, "transitions", list)
<1>1. /\ n.stack = model.stack /\ DOMAIN n.members = DOMAIN model.members
      /\ \A q \in DOMAIN model.members :
           /\ \A field : field # "transitions" => n.members[q][field] = model.members[q][field]
           /\ q # v => n.members[q] = model.members[q]
           /\ q = v /\ "transitions" \in DOMAIN model.members[q] => n.members[q].transitions = list
  <2> DEFINE g == [model.members EXCEPT ![v]["transitions"] = list]
  <2>1. n = [model EXCEPT !.members = g]
    BY DEF Edit
  <2>2. n.stack = model.stack /\ n.members = g
    BY <2>1 DEF WellFormed
  <2>3. DOMAIN g = DOMAIN model.members
    OBVIOUS
  <2>4. ASSUME NEW q \in DOMAIN model.members
        PROVE  /\ \A field : field # "transitions" => g[q][field] = model.members[q][field]
               /\ q # v => g[q] = model.members[q]
               /\ q = v /\ "transitions" \in DOMAIN model.members[q] => g[q].transitions = list
    <3>1. g[q] = IF q = v THEN [model.members[q] EXCEPT !["transitions"] = list] ELSE model.members[q]
      OBVIOUS
    <3>2. model.members[q] = [field \in DOMAIN model.members[q] |-> model.members[q][field]]
      BY DEF WellFormed, IsMember, IsElement
    <3>3. ASSUME q = v, NEW field, field # "transitions"
          PROVE [model.members[q] EXCEPT !["transitions"] = list][field] = model.members[q][field]
      BY <3>2, <3>3
    <3>4. QED BY <3>1, <3>2, <3>3
  <2> HIDE DEF g, n
  <2>5. QED BY <2>2, <2>3, <2>4
<1> HIDE DEF n
<1>2. SamePlaces(model, n)
  BY <1>1 DEF SamePlaces
<1>3. ASSUME NEW w \in Vertices(model)
      PROVE  /\ IsInjective(n.members[w].transitions)
             /\ \A t \in ToSet(n.members[w].transitions) : IsTransition(model, t) /\ model.members[t].source = w
  <2>1. w \in DOMAIN model.members /\ "transitions" \in DOMAIN model.members[w]
    BY StructureFields
  <2>2. CASE w = v
    BY <1>1, <2>1, <2>2
  <2>3. CASE w # v
    <3>1. n.members[w].transitions = model.members[w].transitions
      BY <1>1, <2>1, <2>3
    <3>2. \A t \in ToSet(model.members[w].transitions) : IsTransition(model, t)
      BY StructureFields
    <3>3. QED BY <3>1, <3>2 DEF Listing
  <2>4. QED BY <2>2, <2>3
<1>4. QED BY <1>2, <1>3, ListsReplaced DEF n

\* Where the elements of two lists are in the one made of both.
LEMMA Joined ==
  ASSUME NEW E, NEW s \in Seq(E), NEW t \in Seq(E)
  PROVE  /\ s \o t \in Seq(E) /\ Len(s \o t) = Len(s) + Len(t) /\ DOMAIN (s \o t) = 1 .. Len(s) + Len(t)
         /\ \A i \in 1 .. Len(s) : (s \o t)[i] = s[i]
         /\ \A i \in 1 .. Len(t) : (s \o t)[Len(s) + i] = t[i]
<1>1. /\ s \o t \in Seq(E) /\ Len(s \o t) = Len(s) + Len(t) /\ Len(s) \in Nat /\ Len(t) \in Nat
      /\ \A i \in 1 .. Len(s) + Len(t) : (s \o t)[i] = IF i <= Len(s) THEN s[i] ELSE t[i - Len(s)]
  BY ConcatProperties
<1>2. DOMAIN (s \o t) = 1 .. Len(s) + Len(t)
  BY <1>1
<1>3. \A i \in 1 .. Len(s) : (s \o t)[i] = s[i]
  BY <1>1
<1>4. ASSUME NEW i \in 1 .. Len(t) PROVE (s \o t)[Len(s) + i] = t[i]
  <2>1. Len(s) + i \in 1 .. Len(s) + Len(t) /\ ~(Len(s) + i <= Len(s)) /\ Len(s) + i - Len(s) = i
    BY <1>1
  <2> DEFINE j == Len(s) + i
  <2>2. (s \o t)[j] = IF j <= Len(s) THEN s[j] ELSE t[j - Len(s)]
    BY <1>1, <2>1
  <2>3. QED BY <2>1, <2>2
<1>5. QED BY <1>1, <1>2, <1>3, <1>4

\* A list with one element put in, one that it did not have.
LEMMA InsertedOnce ==
  ASSUME NEW s \in Seq(Name), IsInjective(s), NEW x \in Name, x \notin ToSet(s), NEW i \in 1 .. Len(s) + 1
  PROVE  /\ IsInjective(InsertAt(s, i, x))
         /\ \A y \in ToSet(InsertAt(s, i, x)) : y = x \/ y \in ToSet(s)
<1> DEFINE k == Len(s)
           r == InsertAt(s, i, x)
           from(j) == IF j < i THEN j ELSE j - 1
<1>1. k \in Nat /\ i \in Nat /\ DOMAIN s = 1 .. k /\ i >= 1 /\ i <= k + 1
  OBVIOUS
<1>2. /\ DOMAIN r = 1 .. k + 1
      /\ \A j \in 1 .. k + 1 : r[j] = IF j = i THEN x ELSE s[from(j)]
  <2> DEFINE a == SubSeq(s, 1, i - 1)
             b == SubSeq(s, i, k)
  <2>1. /\ a \in Seq(Name) /\ Len(a) = i - 1 /\ \A j \in 1 .. i - 1 : a[j] = s[j]
        /\ b \in Seq(Name) /\ Len(b) = k - i + 1 /\ \A j \in 1 .. k - i + 1 : b[j] = s[i + j - 1]
    <3>1. a \in Seq(Name) /\ b \in Seq(Name)
      BY <1>1, SomeElements
    <3>2. Len(a) = i - 1 /\ \A j \in 1 .. i - 1 : a[j] = s[j]
      BY <1>1
    <3>3. Len(b) = k - i + 1 /\ \A j \in 1 .. k - i + 1 : b[j] = s[i + j - 1]
      BY <1>1
    <3>4. QED BY <3>1, <3>2, <3>3
  <2>2. r = (a \o <<x>>) \o b
    BY DEF InsertAt
  <2> HIDE DEF a, b, r, k
  <2> DEFINE c == a \o <<x>>
  <2>3. /\ c \in Seq(Name) /\ Len(c) = i /\ \A j \in 1 .. i : c[j] = IF j = i THEN x ELSE s[j]
    <3>1. <<x>> \in Seq(Name) /\ Len(<<x>>) = 1 /\ <<x>>[1] = x
      OBVIOUS
    <3>2. /\ c \in Seq(Name) /\ Len(c) = Len(a) + 1 /\ \A j \in 1 .. Len(a) : c[j] = a[j]
          /\ c[Len(a) + 1] = x
      <4> DEFINE d == <<x>>
      <4>1. a \in Seq(Name) /\ d \in Seq(Name) /\ Len(d) = 1 /\ d[1] = x
        BY <2>1, <3>1
      <4> HIDE DEF d
      <4>a. a \in Seq(Name) /\ d \in Seq(Name)
        BY <4>1
      <4>2. /\ a \o d \in Seq(Name) /\ Len(a \o d) = Len(a) + Len(d)
            /\ \A j \in 1 .. Len(a) : (a \o d)[j] = a[j]
            /\ \A j \in 1 .. Len(d) : (a \o d)[Len(a) + j] = d[j]
        BY <4>a, Joined
      <4>3. c = a \o d
        BY DEF d
      <4>4. 1 \in 1 .. Len(d)
        BY <4>1
      <4> HIDE DEF c
      <4>5. QED BY <4>1, <4>2, <4>3, <4>4
    <3> HIDE DEF c
    <3>3. \A j \in 1 .. i : j = i \/ j \in 1 .. i - 1
      BY <1>1
    <3>4. QED BY <1>1, <2>1, <3>2, <3>3
  <2> HIDE DEF c
  <2>4. /\ r \in Seq(Name) /\ Len(r) = k + 1
        /\ \A j \in 1 .. i : r[j] = c[j]
        /\ \A j \in 1 .. k - i + 1 : r[i + j] = b[j]
    <3>1. r = c \o b
      BY <2>2 DEF c
    <3>2. /\ r \in Seq(Name) /\ Len(r) = Len(c) + Len(b)
          /\ \A j \in 1 .. Len(c) : r[j] = c[j]
          /\ \A j \in 1 .. Len(b) : r[Len(c) + j] = b[j]
      <4>1. c \in Seq(Name) /\ b \in Seq(Name)
        BY <2>1, <2>3
      <4>2. /\ c \o b \in Seq(Name) /\ Len(c \o b) = Len(c) + Len(b)
            /\ \A j \in 1 .. Len(c) : (c \o b)[j] = c[j]
            /\ \A j \in 1 .. Len(b) : (c \o b)[Len(c) + j] = b[j]
        BY <4>1, Joined
      <4>3. QED BY <3>1, <4>2
    <3>3. QED BY <1>1, <2>1, <2>3, <3>2
  <2>5. ASSUME NEW j \in 1 .. k + 1 PROVE r[j] = IF j = i THEN x ELSE s[from(j)]
    <3>1. CASE j <= i
      BY <1>1, <2>3, <2>4, <3>1
    <3>2. CASE ~(j <= i)
      <4>1. j - i \in 1 .. k - i + 1 /\ i + (j - i) = j /\ i + (j - i) - 1 = j - 1
        BY <1>1, <3>2
      <4>2. r[j] = b[j - i] /\ b[j - i] = s[j - 1]
        BY <2>1, <2>4, <4>1
      <4>3. QED BY <1>1, <3>2, <4>2
    <3>3. QED BY <3>1, <3>2
  <2>6. DOMAIN r = 1 .. k + 1
    BY <2>4
  <2>7. QED BY <2>5, <2>6
<1> HIDE DEF r, k
<1>3. \A j \in 1 .. k + 1 : j # i => from(j) \in 1 .. k
  BY <1>1
<1>4. \A p, j \in 1 .. k + 1 : p # i /\ j # i /\ from(p) = from(j) => p = j
  BY <1>1
<1> HIDE DEF from
<1>5. \A j \in 1 .. k : s[j] # x /\ s[j] \in ToSet(s)
  BY <1>1 DEF ToSet
<1>6. ASSUME NEW p \in DOMAIN r, NEW j \in DOMAIN r, r[p] = r[j] PROVE p = j
  <2>1. p \in 1 .. k + 1 /\ j \in 1 .. k + 1
    BY <1>2
  <2>2. CASE p = i \/ j = i
    BY <1>2, <1>3, <1>5, <1>6, <2>1, <2>2
  <2>3. CASE p # i /\ j # i
    <3>1. s[from(p)] = s[from(j)]
      BY <1>2, <1>6, <2>1, <2>3
    <3>2. from(p) = from(j)
      BY <1>1, <1>3, <2>1, <2>3, <3>1 DEF IsInjective
    <3>3. QED BY <1>4, <2>1, <2>3, <3>2
  <2>4. QED BY <2>2, <2>3
<1>7. ASSUME NEW y \in ToSet(r) PROVE y = x \/ y \in ToSet(s)
  <2>1. PICK j \in 1 .. k + 1 : y = r[j]
    BY <1>2 DEF ToSet
  <2>2. QED BY <1>2, <1>3, <1>5, <2>1
<1>8. IsInjective(r)
  BY <1>6 DEF IsInjective
<1>9. QED BY <1>7, <1>8 DEF r

\* Another source for the open transition, which nothing lists.
LEMMA SourceListed ==
  ASSUME NEW model, Listed(model), IsTransition(model, Top(model)), Last(Top(model)) # "transition", NEW value,
         WellFormed(Nat, Edit(model, Top(model), "source", value))
  PROVE  Listed(Edit(model, Top(model), "source", value))
<1> DEFINE t == Top(model)
           n == Edit(model, t, "source", value)
<1>1. /\ n.stack = model.stack /\ DOMAIN n.members = DOMAIN model.members
      /\ \A q \in DOMAIN model.members \ {t} : n.members[q] = model.members[q]
      /\ n.members[t].is = "transition"
  <2>1. t \in DOMAIN model.members /\ model.members[t].is = "transition" /\ "source" \in DOMAIN model.members[t]
    BY StructureFields DEF IsTransition, Is, Listed
  <2>2. n.stack = model.stack
    BY DEF Edit, Listed, WellFormed
  <2>3. "members" \in DOMAIN model
    BY DEF Listed, WellFormed
  <2> HIDE DEF t
  <2>4. QED BY <2>1, <2>2, <2>3, StructureFields DEF Edit, Listed
<1>2. /\ t \in DOMAIN model.members /\ model.members[t].is = "transition"
      /\ WellFormed(Nat, n) /\ WellFormed(Nat, model) /\ Listing(Nat, model) /\ OpenApart(model) /\ Last(t) # "transition"
  BY DEF IsTransition, Is, Listed
<1> HIDE DEF n
<1>3. \A variant : Members(n, variant) = Members(model, variant)
  <2>1. \A q \in DOMAIN model.members : n.members[q].is = model.members[q].is
    BY <1>1, <1>2
  <2>2. QED BY <1>1, <2>1 DEF Members
<1>4. \A p : IsTransition(n, p) <=> IsTransition(model, p)
  BY <1>1, <1>2 DEF IsTransition, Is
<1>5. /\ Vertices(n) = Vertices(model) /\ Members(n, "transition") = Members(model, "transition")
      /\ Members(n, "operation") = Members(model, "operation")
      /\ StructuralMemberCount(n) = StructuralMemberCount(model) /\ Top(n) = t
  <2>1. Vertices(n) = Vertices(model)
    BY <1>3 DEF Vertices
  <2>2. StructuralMemberCount(n) = StructuralMemberCount(model)
    <3>1. /\ Members(n, "state") = Members(model, "state") /\ Members(n, "vertex") = Members(model, "vertex")
          /\ Members(n, "transition") = Members(model, "transition")
      BY <1>3
    <3>2. QED BY ONLY <3>1 DEF StructuralMemberCount
  <2>3. Top(n) = t
    BY <1>1 DEF Top
  <2>4. QED BY <1>3, <2>1, <2>2, <2>3
<1>6. \A v \in Vertices(model) : /\ n.members[v] = model.members[v]
                                 /\ \A p \in ToSet(model.members[v].transitions) : n.members[p] = model.members[p]
  <2> TAKE v \in Vertices(model)
  <2>1. v \in DOMAIN model.members /\ v # t
    BY <1>2, InStructure
  <2>2. t \notin ToSet(model.members[v].transitions)
    BY <1>2 DEF OpenApart
  <2>3. \A p \in ToSet(model.members[v].transitions) : p \in DOMAIN model.members
    BY <1>2, StructureFields
  <2>4. QED BY <1>1, <2>1, <2>2, <2>3
<1>7. \A p \in Members(model, "transition") : p # t => n.members[p] = model.members[p]
  BY <1>1, InStructure DEF IsTransition, Is
<1> HIDE DEF t
<1>8. Listing(Nat, n)
  <2>1. ASSUME NEW v \in Vertices(n)
        PROVE  /\ n.members[v].kind \in States \cup Pseudostates
               /\ IsInjective(n.members[v].transitions)
               /\ \A p \in ToSet(n.members[v].transitions) : n.members[p].source = v
               /\ Last(v) \notin OperationSegments
    BY <1>2, <1>5, <1>6 DEF Listing
  <2>2. ASSUME NEW p \in Members(n, "transition")
        PROVE  /\ Last(p) = "transition" => n.members[p].source = Front(p)
               /\ \A i \in Nat : Last(p) = Numbered("transition", i) => i < StructuralMemberCount(n)
    BY <1>2, <1>5, <1>7 DEF Listing
  <2>3. \A q \in Members(n, "operation") : Last(q) \in OperationSegments
    BY <1>2, <1>5 DEF Listing
  <2>4. QED BY <2>1, <2>2, <2>3 DEF Listing
<1>9. OpenApart(n)
  BY <1>1, <1>2, <1>4, <1>5, <1>6 DEF OpenApart, t
<1>10. QED BY <1>2, <1>8, <1>9 DEF Listed, n, t

\* A list with one more element at its end, one that it did not have.
LEMMA AppendedOnce ==
  ASSUME NEW s \in Seq(Name), IsInjective(s), NEW x \in Name, x \notin ToSet(s)
  PROVE  /\ IsInjective(s \o <<x>>)
         /\ \A y \in ToSet(s \o <<x>>) : y = x \/ y \in ToSet(s)
<1> DEFINE d == <<x>>
           r == s \o d
           k == Len(s)
<1>1. d \in Seq(Name) /\ Len(d) = 1 /\ d[1] = x /\ k \in Nat /\ DOMAIN s = 1 .. k
  OBVIOUS
<1>2. d \in Seq(Name)
  BY <1>1
<1> HIDE DEF d
<1>3. /\ DOMAIN r = 1 .. Len(s) + Len(d)
      /\ \A i \in 1 .. Len(s) : r[i] = s[i]
      /\ \A i \in 1 .. Len(d) : r[Len(s) + i] = d[i]
  BY <1>2, Joined
<1> HIDE DEF r
<1>4. /\ DOMAIN r = 1 .. k + 1 /\ \A i \in 1 .. k : r[i] = s[i]
      /\ r[k + 1] = x
  BY <1>1, <1>3
<1>5. \A i \in 1 .. k : s[i] # x /\ s[i] \in ToSet(s)
  BY <1>1 DEF ToSet
<1>6. \A i \in 1 .. k + 1 : i = k + 1 \/ i \in 1 .. k
  BY <1>1
<1> HIDE DEF k
<1>7. \A i, j \in DOMAIN r : r[i] = r[j] => i = j
  BY <1>1, <1>4, <1>5, <1>6 DEF IsInjective
<1>8. ASSUME NEW y \in ToSet(r) PROVE y = x \/ y \in ToSet(s)
  <2>1. PICK i \in DOMAIN r : y = r[i]
    BY DEF ToSet
  <2>2. QED BY <1>4, <1>5, <1>6, <2>1
<1>9. IsInjective(r)
  BY <1>7 DEF IsInjective
<1>10. QED BY <1>8, <1>9 DEF r, d

\* The end of an element that is no transition.
LEMMA ElementClosed ==
  ASSUME NEW model, Listed(model), Len(model.stack) > 1
  PROVE  Listed(Pop(model))
<1>1. WellFormed(Nat, Pop(model))
  BY PopFits DEF Listed
<1>2. Listing(Nat, Pop(model)) /\ OpenApart(Pop(model))
  BY PopApart DEF Listed, OpenApart
<1>3. QED BY <1>1, <1>2 DEF Listed

\* The open transition is in no list: its source can have it.
LEMMA TransitionInList ==
  ASSUME NEW model, Listed(model), IsTransition(model, Top(model)), NEW v \in Vertices(model),
         model.members[Top(model)].source = v
  PROVE  \A list :
           \/ list = model.members[v].transitions \o <<Top(model)>>
           \/ \E i \in 1 .. Len(model.members[v].transitions) + 1 :
                list = InsertAt(model.members[v].transitions, i, Top(model))
           => IsInjective(list) /\ \A t \in ToSet(list) : IsTransition(model, t) /\ model.members[t].source = v
<1> SUFFICES ASSUME NEW list,
                    \/ list = model.members[v].transitions \o <<Top(model)>>
                    \/ \E i \in 1 .. Len(model.members[v].transitions) + 1 :
                         list = InsertAt(model.members[v].transitions, i, Top(model))
             PROVE  IsInjective(list) /\ \A t \in ToSet(list) : IsTransition(model, t) /\ model.members[t].source = v
  OBVIOUS
<1> DEFINE old == model.members[v].transitions
           x == Top(model)
<1>1. old \in Seq(Name) /\ x \in Name
  BY StructureFields, TopOf DEF Listed
<1>2. IsInjective(old) /\ x \notin ToSet(old)
  BY DEF Listed, Listing, OpenApart
<1>3. \A t \in ToSet(old) : IsTransition(model, t) /\ model.members[t].source = v
  BY StructureFields DEF Listed, Listing
<1>4. \/ list = old \o <<x>> \/ \E i \in 1 .. Len(old) + 1 : list = InsertAt(old, i, x)
  OBVIOUS
<1>5. IsTransition(model, x) /\ model.members[x].source = v
  OBVIOUS
<1> HIDE DEF old, x
<1>6. IsInjective(list) /\ \A y \in ToSet(list) : y = x \/ y \in ToSet(old)
  <2>1. CASE list = old \o <<x>>
    BY <1>1, <1>2, <2>1, AppendedOnce
  <2>2. CASE \E i \in 1 .. Len(old) + 1 : list = InsertAt(old, i, x)
    BY <1>1, <1>2, <2>2, InsertedOnce
  <2>3. QED BY <1>4, <2>1, <2>2
<1>7. QED BY <1>3, <1>5, <1>6

\* What follows once the open transition is in the list of its source.
LEMMA Relisted ==
  ASSUME NEW model, Listed(model), NEW n, WellFormed(Nat, n), Listing(Nat, n), SamePlaces(model, n), Len(model.stack) > 1
  PROVE  /\ Listed(Pop(n))
         /\ Len(Pop(n).stack) > 1 => Listed(Pop(Pop(n)))
<1>1. Len(n.stack) > 1 /\ \A i \in 1 .. Len(n.stack) - 1 : ~IsTransition(n, n.stack[i])
  BY SamePlacesSame DEF SamePlaces, Listed, OpenApart
<1>2. WellFormed(Nat, Pop(n)) /\ Listing(Nat, Pop(n)) /\ OpenApart(Pop(n))
  BY <1>1, PopFits, PopApart
<1>3. QED BY <1>2, ElementClosed DEF Listed

\* The end of a pseudostate.
LEMMA PointClosed ==
  ASSUME NEW model, Listed(model), IsTransition(model, Top(model)), Last(Top(model)) = "transition"
  PROVE  Listed(ClosePoint(model))
<1> DEFINE t == Top(model)
           v == Front(t)
           list == model.members[v].transitions \o <<t>>
           n == Edit(model, v, "transitions", list)
<1>1. ClosePoint(model) = Pop(Pop(n))
  BY DEF ClosePoint, Extend
<1>2. WellFormed(Nat, model) /\ Listing(Nat, model)
  BY DEF Listed
<1>3. model.members[t].source = v
  BY <1>2, InStructure DEF Listing
<1>4. v \in Vertices(model) => IsInjective(list) /\ \A p \in ToSet(list) : IsTransition(model, p) /\ model.members[p].source = v
  <2> SUFFICES ASSUME v \in Vertices(model)
               PROVE  IsInjective(list) /\ \A p \in ToSet(list) : IsTransition(model, p) /\ model.members[p].source = v
    OBVIOUS
  <2>1. list = model.members[v].transitions \o <<Top(model)>> /\ model.members[Top(model)].source = v
    BY <1>3
  <2> HIDE DEF list, v, t
  <2>2. \/ list = model.members[v].transitions \o <<Top(model)>>
        \/ \E i \in 1 .. Len(model.members[v].transitions) + 1 :
             list = InsertAt(model.members[v].transitions, i, Top(model))
    BY <2>1
  <2>3. model.members[Top(model)].source = v
    BY <2>1
  <2>4. \A l : (\/ l = model.members[v].transitions \o <<Top(model)>>
               \/ \E i \in 1 .. Len(model.members[v].transitions) + 1 :
                    l = InsertAt(model.members[v].transitions, i, Top(model)))
              => IsInjective(l) /\ \A p \in ToSet(l) : IsTransition(model, p) /\ model.members[p].source = v
    BY ONLY <2>3, TransitionInList, Listed(model), IsTransition(model, Top(model)), v \in Vertices(model)
  <2>5. QED BY ONLY <2>2, <2>4
<1>5. WellFormed(Nat, n) /\ n.stack = model.stack
  <2>1. t \in Name
    BY <1>2, TopOf
  <2>2. Suits(model, v, "transitions", <<t>>)
    <3> HIDE DEF t
    <3>1. <<t>> \in Seq(Name) /\ ToSet(<<t>>) = {t} /\ IsTransition(model, t)
      BY <2>1 DEF ToSet, t
    <3>2. QED BY <3>1 DEF Suits, References, ReferenceLists, BehaviorLists
  <2>3. "transitions" \in ReferenceLists /\ n = Extend(model, v, "transitions", <<t>>)
    BY DEF ReferenceLists, Extend
  <2> HIDE DEF n, v, t
  <2>4. QED BY <1>2, <2>2, <2>3, ExtendFits
<1> HIDE DEF v, t, list
<1>6. Listing(Nat, n) /\ SamePlaces(model, n)
  BY <1>2, <1>4, ListEdited
<1>7. Len(n.stack) > 2 /\ Len(n.stack) \in Nat
  BY <1>2, <1>5, PointIsOpen, TopOf
<1> HIDE DEF n
<1>8. Len(Pop(n).stack) > 1
  BY <1>5, <1>7, PopFits
<1>9. QED BY <1>1, <1>5, <1>6, <1>7, <1>8, Relisted

\* The end of a transition.
LEMMA TransitionClosed ==
  ASSUME NEW model, Listed(model), IsTransition(model, Top(model))
  PROVE  Listed(CloseTransition(model))
<1> DEFINE t      == Top(model)
           owner  == Front(t)
           source == model.members[t].source
           old    == model.members[source].transitions
           first  == /\ owner = model.root /\ source # owner
                     /\ ~(HasKind(model, source, {"exit_point"}) /\ model.members[t].guard = None)
           index  == IF first THEN SourceTransitionInsertIndex(model, source, owner) ELSE Len(old) + 1
           list   == InsertAt(old, index, t)
           n      == IF ~IsVertex(model, source) THEN model ELSE Edit(model, source, "transitions", list)
<1>1. CloseTransition(model) = Pop(n)
  BY DEF CloseTransition
<1>2. WellFormed(Nat, model) /\ Listing(Nat, model) /\ Len(model.stack) > 1
  BY OpenMember DEF Listed, IsTransition, Is
<1>3. CASE ~IsVertex(model, source)
  <2>1. CloseTransition(model) = Pop(model)
    BY <1>1, <1>3
  <2>2. QED BY <1>2, <2>1, ElementClosed
<1>4. CASE IsVertex(model, source)
  <2>1. source \in Vertices(model) /\ old \in Seq(Name)
    BY <1>2, <1>4, ListOfVertex DEF IsVertex, HasKind, IsState, Is, Vertices, Members
  <2>2. index \in 1 .. Len(old) + 1
    <3>1. CASE ~first
      <4>1. index = Len(old) + 1
        BY <3>1
      <4>2. Len(old) \in Nat
        BY <2>1
      <4> HIDE DEF old, index
      <4>3. QED BY <4>1, <4>2
    <3>2. CASE first
      <4> DEFINE own == {i \in DOMAIN old : Front(old[i]) # owner}
      <4>1. index = IF own = {} THEN Len(old) + 1 ELSE Min(own)
        BY <3>2 DEF SourceTransitionInsertIndex
      <4>2. own \in SUBSET (1 .. Len(old)) /\ Len(old) \in Nat
        <5> HIDE DEF old, owner
        <5>1. QED BY <2>1
      <4> HIDE DEF own, old, index
      <4>3. own \in SUBSET Nat
        BY <4>2
      <4>4. own # {} => Min(own) \in own
        BY <4>3, MinIn
      <4>5. QED BY <4>1, <4>2, <4>4
    <3>3. QED BY <3>1, <3>2
  <2> HIDE DEF index
  <2>3. IsInjective(list) /\ \A p \in ToSet(list) : IsTransition(model, p) /\ model.members[p].source = source
    <3>1. \E i \in 1 .. Len(model.members[source].transitions) + 1 :
            list = InsertAt(model.members[source].transitions, i, Top(model))
      BY <2>2
    <3> DEFINE v == model.members[Top(model)].source
    <3>2. source = v
      OBVIOUS
    <3> HIDE DEF list, old, first, source, owner, t, v
    <3>3. v \in Vertices(model)
      BY <2>1, <3>2
    <3>4. model.members[Top(model)].source = v
      BY DEF v
    <3> HIDE DEF v
    <3>5. \A l : (\/ l = model.members[v].transitions \o <<Top(model)>>
                 \/ \E i \in 1 .. Len(model.members[v].transitions) + 1 :
                      l = InsertAt(model.members[v].transitions, i, Top(model)))
                => IsInjective(l) /\ \A p \in ToSet(l) : IsTransition(model, p) /\ model.members[p].source = v
      BY <3>3, <3>4, TransitionInList
    <3>6. QED BY ONLY <3>1, <3>2, <3>5
  <2>4. Pop(n) = CloseTransition(model) /\ n = Edit(model, source, "transitions", list)
    BY <1>1, <1>4
  <2> HIDE DEF list, n
  <2>5. WellFormed(Nat, n)
    <3>1. \A p \in ToSet(list) : p \in Name
      BY <1>2, <2>3, StructureFields
    <3>2. list \in Seq(Name)
      <4>1. t \in Name
        BY <1>2, TopOf
      <4> HIDE DEF t, old
      <4>2. QED BY <2>1, <2>2, <4>1, InsertedType DEF list
    <3>3. Suits(model, source, "transitions", list)
      BY <2>3, <3>2 DEF Suits, References, ReferenceLists, BehaviorLists
    <3> HIDE DEF t, old, source
    <3>4. QED BY <1>2, <2>4, <3>3, EditFits
  <2>6. Listing(Nat, n) /\ SamePlaces(model, n)
    <3> HIDE DEF t, old, source
    <3>1. QED BY <1>2, <2>3, <2>4, ListEdited
  <2>7. QED BY <1>2, <2>4, <2>5, <2>6, Relisted
<1>5. QED BY <1>3, <1>4

-----------------------------------------------------------------------------
(* Finalizing keeps it and completes the lists. *)

\* A step of finalize_model that changes other fields, or removes other members.
LEMMA OtherFields ==
  ASSUME NEW model, WellFormed(Nat, model), NEW g,
         DOMAIN g \subseteq DOMAIN model.members, Structure(model) \subseteq DOMAIN g,
         \A q \in DOMAIN g :
           /\ DOMAIN g[q] = DOMAIN model.members[q]
           /\ \A field \in DOMAIN model.members[q] :
                field \in Placing(model.members[q]) \cup {"is"} => g[q][field] = model.members[q][field]
  PROVE  SameStructure(model, [model EXCEPT !.members = g])
<1> DEFINE n == [model EXCEPT !.members = g]
<1>1. n.members = g /\ n.stack = model.stack /\ "members" \in DOMAIN n
  BY DEF WellFormed
<1>2. SameStructure(model, model) /\ \A q \in DOMAIN model.members : "is" \in DOMAIN model.members[q]
  BY StructureAtFirst, StructureFields
<1> HIDE DEF n
<1>3. \A q \in DOMAIN g : "is" \in DOMAIN g[q] /\ g[q].is = model.members[q].is
  BY <1>2
<1>4. \A q \in DOMAIN g \ Structure(model) :
        /\ g[q].is \notin Structural
        /\ g[q].is = "operation" => q \in Members(model, "operation")
  BY <1>3, InStructure
<1>5. \A q \in Structure(model) :
        /\ q \in DOMAIN g /\ g[q].is = model.members[q].is
        /\ DOMAIN g[q] = DOMAIN model.members[q]
        /\ \A field \in Placing(model.members[q]) \cap DOMAIN model.members[q] : g[q][field] = model.members[q][field]
  BY <1>3, InStructure
<1>6. SameStructure(model, n)
  BY <1>1, <1>2, <1>3, <1>4, <1>5, StructureStays
<1>7. QED BY <1>6 DEF n

\* Another value in one field.
LEMMA FieldChanged ==
  ASSUME NEW e, IsElement(e), NEW field, NEW value
  PROVE  LET d == [e EXCEPT ![field] = value]
         IN  DOMAIN d = DOMAIN e /\ \A a \in DOMAIN e : a # field => d[a] = e[a]
<1>1. e = [a \in DOMAIN e |-> e[a]]
  BY DEF IsElement
<1>2. QED BY <1>1

\* Targets, completions and kinds.
LEMMA TransitionFieldsChange ==
  ASSUME NEW model, WellFormed(Nat, model)
  PROVE  /\ SameStructure(model, ResolveTransitionTargets(model))
         /\ SameStructure(model, RegisterCompletionTransitions(model))
         /\ SameStructure(model, FinalizeTransitionKinds(model))
<1> DEFINE M == model.members
<1>1. \A q \in DOMAIN M : IsElement(M[q])
  BY Parts
<1>2. \A q : IsTransition(model, q) => M[q].is = "transition" /\ Placing(M[q]) = {"source"}
  BY DEF IsTransition, Is, Placing
<1>3. \A q : Structure(model) \subseteq DOMAIN M
  BY InStructure
<1>4. ASSUME NEW g, DOMAIN g = DOMAIN M, NEW field \in {"target", "events", "kind"},
             \A q \in DOMAIN M : g[q] = M[q] \/ (IsTransition(model, q) /\ \E value : g[q] = [M[q] EXCEPT ![field] = value])
      PROVE  SameStructure(model, [model EXCEPT !.members = g])
  <2>1. ASSUME NEW q \in DOMAIN g
        PROVE  /\ DOMAIN g[q] = DOMAIN M[q]
               /\ \A a \in DOMAIN M[q] : a \in Placing(M[q]) \cup {"is"} => g[q][a] = M[q][a]
    <3>1. CASE g[q] = M[q]
      BY <3>1
    <3>2. CASE IsTransition(model, q) /\ \E value : g[q] = [M[q] EXCEPT ![field] = value]
      <4>1. PICK value : g[q] = [M[q] EXCEPT ![field] = value]
        BY <3>2
      <4>2. DOMAIN g[q] = DOMAIN M[q] /\ \A a \in DOMAIN M[q] : a # field => g[q][a] = M[q][a]
        BY <1>1, <1>4, <4>1, FieldChanged
      <4>3. QED BY <1>2, <3>2, <4>2
    <3>3. QED BY <1>4, <3>1, <3>2
  <2>2. QED BY <1>3, <1>4, <2>1, OtherFields
<1>5. SameStructure(model, ResolveTransitionTargets(model))
  <2> DEFINE g == [q \in DOMAIN M |-> IF IsTransition(model, q) THEN [M[q] EXCEPT !.target = ResolvedTarget(model, q)] ELSE M[q]]
  <2>1. ResolveTransitionTargets(model) = [model EXCEPT !.members = g]
    BY DEF ResolveTransitionTargets
  <2>2. \A q \in DOMAIN M : g[q] = M[q] \/ (IsTransition(model, q) /\ \E value : g[q] = [M[q] EXCEPT !["target"] = value])
    OBVIOUS
  <2>3. DOMAIN g = DOMAIN M
    OBVIOUS
  <2> HIDE DEF g
  <2>4. QED BY <1>4, <2>1, <2>2, <2>3
<1>6. SameStructure(model, RegisterCompletionTransitions(model))
  <2> DEFINE g == [q \in DOMAIN M |->
                     IF IsTransition(model, q) /\ M[q].events = <<>> /\ HasKind(model, M[q].source, States)
                     THEN [M[q] EXCEPT !.events = <<FinalEvent>>] ELSE M[q]]
  <2>1. RegisterCompletionTransitions(model) = [model EXCEPT !.members = g]
    BY DEF RegisterCompletionTransitions
  <2>2. \A q \in DOMAIN M : g[q] = M[q] \/ (IsTransition(model, q) /\ \E value : g[q] = [M[q] EXCEPT !["events"] = value])
    OBVIOUS
  <2>3. DOMAIN g = DOMAIN M
    OBVIOUS
  <2> HIDE DEF g
  <2>4. QED BY <1>4, <2>1, <2>2, <2>3
<1>7. SameStructure(model, FinalizeTransitionKinds(model))
  <2> DEFINE g == [q \in DOMAIN M |-> IF IsTransition(model, q) THEN [M[q] EXCEPT !.kind = TransitionKind(M[q])] ELSE M[q]]
  <2>1. FinalizeTransitionKinds(model) = [model EXCEPT !.members = g]
    BY DEF FinalizeTransitionKinds
  <2>2. \A q \in DOMAIN M : g[q] = M[q] \/ (IsTransition(model, q) /\ \E value : g[q] = [M[q] EXCEPT !["kind"] = value])
    OBVIOUS
  <2>3. DOMAIN g = DOMAIN M
    OBVIOUS
  <2> HIDE DEF g
  <2>4. QED BY <1>4, <2>1, <2>2, <2>3
<1>8. QED BY <1>5, <1>6, <1>7

\* What observations added is removed.
LEMMA RemovedKeepsStructure ==
  ASSUME NEW model, WellFormed(Nat, model)
  PROVE  SameStructure(model, RemoveGeneratedObservationBehaviors(model))
<1> DEFINE M == model.members
           own == {q \in DOMAIN M : ~IsGenerated(model, q)}
           kept(list) == Filter(list, {q \in ToSet(list) : ~IsGenerated(model, q)})
           g == [q \in own |-> [field \in DOMAIN M[q] |-> IF field \in BehaviorLists THEN kept(M[q][field]) ELSE M[q][field]]]
<1>1. RemoveGeneratedObservationBehaviors(model) = [model EXCEPT !.members = g]
  BY DEF RemoveGeneratedObservationBehaviors
<1>2. DOMAIN g = own /\ own \subseteq DOMAIN M
  OBVIOUS
<1>3. Structure(model) \subseteq own
  BY InStructure DEF IsGenerated, Is, Structural
<1>4. \A q : \A field \in Placing(M[q]) \cup {"is"} : field \notin BehaviorLists
  BY DEF Placing, BehaviorLists
<1>5. ASSUME NEW q \in own
      PROVE  /\ DOMAIN g[q] = DOMAIN M[q]
             /\ \A field \in DOMAIN M[q] : field \in Placing(M[q]) \cup {"is"} => g[q][field] = M[q][field]
  <2> HIDE DEF kept, own, M
  <2>1. QED BY <1>4
<1> HIDE DEF g
<1>6. QED BY <1>1, <1>2, <1>3, <1>5, OtherFields

\* What observations add.
LEMMA AppliedKeepsStructure ==
  ASSUME Naming(Nat), NEW model, WellFormed(Nat, model), Listing(Nat, model),
         \A p \in DOMAIN model.members : Sort(model.members[p]) # "generated"
  PROVE  SameStructure(model, ApplyObservations(model))
<1> DEFINE M == model.members
           OB == ObservationBehaviors(model)
           h  == [q \in DOMAIN M |-> IF M[q].is \in {"state", "transition"} THEN ObservedElement(model, q) ELSE M[q]]
           n  == [model EXCEPT !.members = h]
<1>1. ApplyObservations(model) = [model EXCEPT !.members = Overlay(OB, h)]
  BY DEF ApplyObservations
<1>2. ASSUME NEW q \in DOMAIN OB
      PROVE  q \notin Structure(model) /\ "is" \in DOMAIN OB[q] /\ OB[q].is = "behavior"
  <2>1. PICK i, x, occurrence :
          /\ Adds(model, i, x, occurrence, q)
          /\ OB[q] = NewObservationBehavior(model, AppliedObservations(model)[i], occurrence, x)
    BY AddedMembers
  <2>2. q \in Name /\ IsStrictPrefix(model.root, q) /\ NamedAs(Nat, Last(q), "generated")
    BY <2>1, AddedName
  <2>3. Front(q) \in Name /\ q = Append(Front(q), Last(q))
    <3>1. q # None
      BY <2>2, FrontBelow, Parts
    <3>2. QED BY <2>2, <3>1, FrontName
  <2>4. Append(Front(q), Last(q)) \notin Structure(model)
    BY <2>2, <2>3, NamesOutside DEF Sorts
  <2>5. "is" \in DOMAIN OB[q] /\ OB[q].is = "behavior"
    <3> HIDE DEF OB
    <3>1. QED BY <2>1 DEF NewObservationBehavior, NewBehavior
  <2>6. QED BY <2>3, <2>4, <2>5
<1>3. SameStructure(model, n)
  <2>1. ASSUME NEW q \in DOMAIN h
        PROVE  /\ DOMAIN h[q] = DOMAIN M[q]
               /\ \A field \in DOMAIN M[q] : field \in Placing(M[q]) \cup {"is"} => h[q][field] = M[q][field]
    <3>1. \A field \in Placing(M[q]) \cup {"is"} : field \notin BehaviorLists /\ field # "effect"
      BY DEF Placing, BehaviorLists
    <3>2. h[q] = IF M[q].is \in {"state", "transition"} THEN ObservedElement(model, q) ELSE M[q]
      OBVIOUS
    <3> HIDE DEF h
    <3>3. QED BY <3>1, <3>2 DEF ObservedElement
  <2>2. DOMAIN h = DOMAIN M /\ Structure(model) \subseteq DOMAIN M
    BY InStructure
  <2> HIDE DEF h
  <2>3. QED BY <2>1, <2>2, OtherFields
<1>4. n.members = h /\ [n EXCEPT !.members = Overlay(OB, @)] = [model EXCEPT !.members = Overlay(OB, h)]
  <2> HIDE DEF OB, h
  <2>1. n.members = h
    BY DEF WellFormed
  <2>2. QED BY <2>1
<1> HIDE DEF OB, h, n
<1>5. SameStructure(model, [n EXCEPT !.members = Overlay(OB, @)])
  BY <1>2, <1>3, StructureUnder DEF Structural
<1>6. QED BY <1>1, <1>4, <1>5

\* Every transition of a vertex is in its list.
Complete(model) ==
  \A t \in Members(model, "transition") :
    model.members[t].source \in Vertices(model) => t \in ToSet(model.members[model.members[t].source].transitions)

\* It stays so while the structure does.
LEMMA CompleteKept ==
  ASSUME NEW model, WellFormed(Nat, model), Complete(model), NEW other, SameStructure(model, other)
  PROVE  Complete(other)
<1> SUFFICES ASSUME NEW t \in Members(other, "transition"), other.members[t].source \in Vertices(other)
             PROVE  t \in ToSet(other.members[other.members[t].source].transitions)
  BY DEF Complete
<1>1. \A q \in Structure(model) :
        /\ q \in DOMAIN other.members /\ q \in DOMAIN model.members /\ other.members[q].is = model.members[q].is
        /\ \A field \in Placing(model.members[q]) \cap DOMAIN model.members[q] :
             other.members[q][field] = model.members[q][field]
  BY InStructure DEF SameStructure
<1>2. t \in Structure(model)
  <2>1. t \in Structure(other)
    BY InStructure
  <2>2. QED BY <2>1 DEF SameStructure
<1>3. IsTransition(model, t) /\ t \in Members(model, "transition")
  BY <1>1, <1>2, InStructure DEF IsTransition, Is
<1>4. other.members[t].source = model.members[t].source
  <2>1. "source" \in DOMAIN model.members[t] /\ model.members[t].is = "transition"
    BY <1>3, StructureFields DEF IsTransition, Is
  <2>2. "source" \in Placing(model.members[t])
    BY <2>1 DEF Placing
  <2>3. QED BY <1>1, <1>2, <2>1, <2>2
<1> DEFINE v == model.members[t].source
<1>5. v \in Vertices(model) /\ v \in Structure(model)
  <2> HIDE DEF v
  <2>1. v \in Vertices(other)
    BY <1>4 DEF v
  <2>2. v \in Structure(model)
    <3>1. v \in Structure(other)
      BY <2>1, InStructure
    <3>2. QED BY <3>1 DEF SameStructure
  <2>3. QED BY <1>1, <2>1, <2>2, InStructure
<1>6. other.members[v].transitions = model.members[v].transitions
  <2> HIDE DEF v
  <2>1. "transitions" \in DOMAIN model.members[v] /\ model.members[v].is # "transition"
    BY <1>5, StructureFields, InStructure
  <2>2. "transitions" \in Placing(model.members[v])
    BY <2>1 DEF Placing
  <2>3. QED BY <1>1, <1>5, <2>1, <2>2
<1>7. QED BY <1>3, <1>4, <1>5, <1>6 DEF Complete

\* A list and, after it, others that it did not have.
LEMMA JoinedOnce ==
  ASSUME NEW s \in Seq(Name), NEW t \in Seq(Name), IsInjective(s), IsInjective(t),
         \A x \in ToSet(t) : x \notin ToSet(s)
  PROVE  /\ IsInjective(s \o t)
         /\ \A x \in ToSet(s) \cup ToSet(t) : x \in ToSet(s \o t)
<1> DEFINE r == s \o t
           a == Len(s)
           b == Len(t)
<1>1. /\ DOMAIN r = 1 .. a + b
      /\ \A i \in 1 .. a : r[i] = s[i]
      /\ \A i \in 1 .. b : r[a + i] = t[i]
  BY Joined
<1>2. a \in Nat /\ b \in Nat /\ DOMAIN s = 1 .. a /\ DOMAIN t = 1 .. b
  OBVIOUS
<1> HIDE DEF r, a, b
<1>3. ASSUME NEW i \in 1 .. a + b
      PROVE  \/ i \in 1 .. a /\ r[i] = s[i] /\ r[i] \in ToSet(s)
             \/ i - a \in 1 .. b /\ r[i] = t[i - a] /\ r[i] \in ToSet(t)
  <2>1. CASE i <= a
    <3>1. i \in 1 .. a
      BY <1>2, <2>1
    <3>2. QED BY <1>1, <1>2, <3>1 DEF ToSet
  <2>2. CASE ~(i <= a)
    <3>1. i - a \in 1 .. b /\ a + (i - a) = i
      BY <1>2, <2>2
    <3>2. r[i] = t[i - a]
      BY <1>1, <3>1
    <3>3. QED BY <1>2, <3>1, <3>2 DEF ToSet
  <2>3. QED BY <2>1, <2>2
<1>4. ASSUME NEW i \in DOMAIN r, NEW j \in DOMAIN r, r[i] = r[j] PROVE i = j
  <2>1. i \in 1 .. a + b /\ j \in 1 .. a + b
    BY <1>1
  <2>2. CASE i \in 1 .. a /\ j \in 1 .. a /\ r[i] = s[i] /\ r[j] = s[j]
    BY <1>2, <1>4, <2>2 DEF IsInjective
  <2>3. CASE i - a \in 1 .. b /\ j - a \in 1 .. b /\ r[i] = t[i - a] /\ r[j] = t[j - a]
    <3>1. i - a = j - a
      BY <1>2, <1>4, <2>3 DEF IsInjective
    <3>2. QED BY <1>2, <2>1, <3>1
  <2>4. QED BY <1>3, <1>4, <2>1, <2>2, <2>3
<1>5. ASSUME NEW x \in ToSet(s) PROVE x \in ToSet(r)
  <2>1. PICK i \in 1 .. a : x = s[i]
    BY <1>2 DEF ToSet
  <2>2. i \in 1 .. a + b
    BY <1>2
  <2>3. QED BY <1>1, <2>1, <2>2 DEF ToSet
<1>6. ASSUME NEW x \in ToSet(t) PROVE x \in ToSet(r)
  <2>1. PICK i \in 1 .. b : x = t[i]
    BY <1>2 DEF ToSet
  <2>2. a + i \in 1 .. a + b
    BY <1>2
  <2>3. QED BY <1>1, <2>1, <2>2 DEF ToSet
<1>7. IsInjective(r)
  BY <1>4 DEF IsInjective
<1>8. QED BY <1>5, <1>6, <1>7 DEF r

\* register_transition_sources: afterwards every list is complete, and has nothing twice.
LEMMA SourcesRegistered ==
  ASSUME NEW model, WellFormed(Nat, model), Listing(Nat, model)
  PROVE  LET n == RegisterTransitionSources(model)
         IN  SamePlaces(model, n) /\ Listing(Nat, n) /\ Complete(n)
<1> DEFINE M == model.members
           unlisted(v) == {t \in Members(model, "transition") : M[t].source = v /\ ~Contains(M[v].transitions, t)}
           all(v) == M[v].transitions \o InOrder(unlisted(v), "transition")
           g == [q \in DOMAIN M |-> IF IsVertex(model, q) THEN [M[q] EXCEPT !.transitions = all(q)] ELSE M[q]]
           n == RegisterTransitionSources(model)
<1>1. n = [model EXCEPT !.members = g]
  BY DEF RegisterTransitionSources
<1>2. DOMAIN g = DOMAIN M
  OBVIOUS
<1>3. \A q \in DOMAIN M : g[q] = IF IsVertex(model, q) THEN [M[q] EXCEPT !.transitions = all(q)] ELSE M[q]
  OBVIOUS
<1> HIDE DEF g, n
<1>4. n.stack = model.stack /\ n.members = g
  BY <1>1 DEF WellFormed
<1>5. \A v \in Vertices(model) : IsVertex(model, v)
  BY InStructure DEF Listing, IsVertex, HasKind, IsState, Is
<1>6. ASSUME NEW v \in Vertices(model)
      PROVE  /\ IsInjective(all(v))
             /\ \A t \in ToSet(all(v)) : IsTransition(model, t) /\ M[t].source = v
             /\ \A t \in Members(model, "transition") : M[t].source = v => t \in ToSet(all(v))
  <2> DEFINE U   == unlisted(v)
             old == M[v].transitions
             new == InOrder(U, "transition")
  <2>1. /\ old \in Seq(Name) /\ IsInjective(old)
        /\ \A t \in ToSet(old) : IsTransition(model, t) /\ M[t].source = v
    BY StructureFields DEF Listing
  <2>2. /\ U \in SUBSET Name /\ IsFiniteSet(U)
        /\ \A t \in U : IsTransition(model, t) /\ M[t].source = v /\ t \notin ToSet(old)
        /\ \A t \in Members(model, "transition") : M[t].source = v => t \in U \/ t \in ToSet(old)
    <3>1. \A t : Contains(old, t) <=> t \in ToSet(old)
      <4> HIDE DEF old
      <4>1. QED BY DEF Contains, ToSet
    <3>2. \A t \in U : t \in Members(model, "transition") /\ M[t].source = v /\ ~Contains(old, t)
      OBVIOUS
    <3>3. \A t \in Members(model, "transition") : M[t].source = v => t \in U \/ Contains(old, t)
      OBVIOUS
    <3> HIDE DEF U, old
    <3>4. U \in SUBSET DOMAIN M /\ IsFiniteSet(DOMAIN M) /\ \A q \in DOMAIN M : q \in Name
      BY <3>2, Parts, InStructure DEF IsTransition, Is
    <3>5. IsFiniteSet(U)
      BY <3>4, FS_Subset
    <3>6. QED BY <3>1, <3>2, <3>3, <3>4, <3>5, InStructure
  <2>3. all(v) = old \o new
    OBVIOUS
  <2> HIDE DEF U, old, all
  <2>4. /\ new \in Seq(U) /\ \A t \in U : \E i \in DOMAIN new : new[i] = t
        /\ \A i, j \in DOMAIN new : new[i] = new[j] => i = j
    BY <2>2, InOrderType
  <2> HIDE DEF new
  <2>5. /\ \A t \in ToSet(new) : t \in U
        /\ \A t \in U : t \in ToSet(new)
        /\ IsInjective(new)
    BY <2>4, ElementsIn DEF ToSet, IsInjective
  <2>6. new \in Seq(Name)
    BY <2>2, <2>4, <2>5, InElements
  <2>7. /\ IsInjective(old \o new)
        /\ \A x \in ToSet(old) \cup ToSet(new) : x \in ToSet(old \o new)
    BY <2>1, <2>2, <2>5, <2>6, JoinedOnce
  <2>8. \A x \in ToSet(old \o new) : x \in ToSet(old) \cup ToSet(new)
    BY <2>1, <2>6, ConcatElements
  <2>9. QED BY <2>1, <2>2, <2>3, <2>5, <2>7, <2>8
<1> HIDE DEF all
<1>7. ASSUME NEW q \in DOMAIN M
      PROVE  /\ \A field \in DOMAIN M[q] : field # "transitions" => g[q][field] = M[q][field]
             /\ DOMAIN g[q] = DOMAIN M[q]
             /\ q \in Vertices(model) => g[q].transitions = all(q)
  <2>1. M[q] = [field \in DOMAIN M[q] |-> M[q][field]]
    BY DEF WellFormed, IsMember, IsElement
  <2>2. q \in Vertices(model) => "transitions" \in DOMAIN M[q]
    BY StructureFields
  <2> HIDE DEF M
  <2>3. QED BY <1>3, <1>5, <2>1, <2>2
<1>8. SamePlaces(model, n)
  <2>1. ASSUME NEW q \in DOMAIN M
        PROVE  /\ "is" \in DOMAIN M[q]
               /\ M[q].is \in {"state", "vertex"} => "kind" \in DOMAIN M[q]
               /\ M[q].is = "transition" => "source" \in DOMAIN M[q]
    BY StructureFields, InStructure DEF IsTransition, Is
  <2>2. QED BY <1>2, <1>4, <1>7, <2>1 DEF SamePlaces
<1>9. \A v \in Vertices(model) : n.members[v].transitions = all(v)
  BY <1>4, <1>7, InStructure
<1>10. Listing(Nat, n)
  BY <1>6, <1>8, <1>9, ListsReplaced
<1>11. Complete(n)
  <2>1. Vertices(n) = Vertices(model) /\ Members(n, "transition") = Members(model, "transition")
    BY <1>8, SamePlacesSame
  <2>2. \A t \in Members(model, "transition") : n.members[t].source = M[t].source
    BY <1>8, InStructure DEF SamePlaces, IsTransition, Is
  <2>3. QED BY <1>6, <1>9, <2>1, <2>2 DEF Complete
<1>12. QED BY <1>8, <1>10, <1>11 DEF n

\* A finalized model lists its transitions as it must, and all of them.
LEMMA FinalizedListed ==
  ASSUME Naming(Nat), NEW model, Listed(model), model.stack = <<model.root>>
  PROVE  Listed(FinalizeModel(model)) /\ Complete(FinalizeModel(model))
<1> DEFINE a == RemoveGeneratedObservationBehaviors(model)
           b == ResolveTransitionTargets(a)
           c == RegisterCompletionTransitions(b)
           d == RegisterTransitionSources(c)
           e == FinalizeTransitionKinds(d)
           f == ApplyObservations(e)
           Plain(n) == \A q \in DOMAIN n.members : Sort(n.members[q]) # "generated"
<1>1. FinalizeModel(model) = f /\ WellFormed(Nat, model) /\ WellFormed(Nat, f)
  BY FinalizeFits DEF FinalizeModel, Listed
<1>2. ASSUME NEW n, NEW other, Keeps(n, other), DOMAIN other.members = DOMAIN n.members, Plain(n) PROVE Plain(other)
  BY <1>2 DEF Keeps, HasSort
<1>3. WellFormed(Nat, a) /\ Plain(a) /\ a.stack = model.stack /\ Listing(Nat, a)
  <2>1. WellFormed(Nat, a) /\ Plain(a)
    BY <1>1, RemovedFits
  <2>2. SameStructure(model, a)
    BY <1>1, RemovedKeepsStructure
  <2> HIDE DEF a, Plain
  <2>3. QED BY <1>1, <2>1, <2>2, ListingKept DEF Listed, SameStructure
<1> HIDE DEF a, Plain
<1>4. WellFormed(Nat, b) /\ Plain(b) /\ b.stack = model.stack /\ Listing(Nat, b)
  BY <1>2, <1>3, ResolveFits, TransitionFieldsChange, ListingKept
<1> HIDE DEF b
<1>5. WellFormed(Nat, c) /\ Plain(c) /\ c.stack = model.stack /\ Listing(Nat, c)
  BY <1>2, <1>4, CompletionFits, TransitionFieldsChange, ListingKept
<1> HIDE DEF c
<1>6. WellFormed(Nat, d) /\ Plain(d) /\ d.stack = model.stack /\ Listing(Nat, d) /\ Complete(d)
  BY <1>2, <1>5, SourcesFit, SourcesRegistered
<1> HIDE DEF d
<1>7. WellFormed(Nat, e) /\ Plain(e) /\ e.stack = model.stack /\ Listing(Nat, e) /\ Complete(e)
  BY <1>2, <1>6, KindsFit, TransitionFieldsChange, ListingKept, CompleteKept
<1> HIDE DEF e
<1>8. Listing(Nat, f) /\ Complete(f) /\ f.stack = model.stack
  <2>1. SameStructure(e, f)
    BY <1>7, AppliedKeepsStructure DEF Plain
  <2> HIDE DEF f
  <2>2. QED BY <1>7, <2>1, ListingKept, CompleteKept DEF SameStructure
<1> HIDE DEF f
<1>9. OpenApart(f)
  <2>1. Len(f.stack) = 1
    BY <1>8
  <2>2. ~IsTransition(f, Top(f))
    BY <1>1, <2>1, TopOf, RegionIsNoTransition
  <2>3. QED BY <2>1, <2>2 DEF OpenApart
<1>10. QED BY <1>1, <1>8, <1>9 DEF Listed

-----------------------------------------------------------------------------
(* A machine under another name, or in another machine. *)

\* The members of a model that was moved: each one under its new name.
LEMMA RebasedMembers ==
  ASSUME Naming(Nat), NEW model, WellFormed(Nat, model), NEW new, IsRoot(new)
  PROVE  LET other == Rebase(model, new)
             new_(q) == Lifted(q, model.root, new)
         IN  /\ other.stack = <<new>> /\ other.root = new
             /\ DOMAIN other.members = {new_(q) : q \in DOMAIN model.members}
             /\ \A q \in DOMAIN model.members :
                  /\ new_(q) = RebaseReference(q, model.root, new)
                  /\ other.members[new_(q)] = RebaseReferences(model.members[q], model.root, new)
                  /\ Last(new_(q)) = Last(q)
             /\ \A p, q \in DOMAIN model.members : new_(p) = new_(q) => p = q
<1> DEFINE root == model.root
           D == DOMAIN model.members
           to == [q \in D |-> RebaseReference(q, root, new)]
           members == [q \in D |-> RebaseReferences(model.members[q], root, new)]
           r == Renamed(members, to)
           other == Rebase(model, new)
<1>1. other.root = new /\ other.members = r /\ other.stack = <<new>>
  <2>1. other = [model EXCEPT !.root = new, !.initial = RebaseReference(@, root, new), !.stack = <<new>>,
                !.attributes = {RebaseReference(q, root, new) : q \in @}, !.members = r]
    BY DEF Rebase
  <2>2. {"root", "members", "stack"} \subseteq DOMAIN model
    BY DEF WellFormed
  <2> HIDE DEF other, r
  <2>3. QED BY <2>1, <2>2
<1> HIDE DEF other
<1>2. root \in Name /\ root # None /\ Head(root) # Call /\ new \in Name /\ new # None /\ IsFiniteSet(D)
  BY Parts DEF IsRoot
<1>3. DOMAIN members = D /\ to = [q \in DOMAIN members |-> to[q]]
  OBVIOUS
<1>4. \A q \in D : to[q] = RebaseReference(q, root, new) /\ members[q] = RebaseReferences(model.members[q], root, new)
  OBVIOUS
<1> HIDE DEF members, to
<1>5. /\ \A q \in DOMAIN r : \E p \in D : to[p] = q /\ r[q] = members[p]
      /\ \A p \in D : to[p] \in DOMAIN r
  <2>1. /\ \A q \in DOMAIN r : \E p \in DOMAIN members : to[p] = q /\ r[q] = members[p]
        /\ \A p \in DOMAIN members : to[p] \in DOMAIN r
    <3>1. IsFiniteSet(DOMAIN members) /\ to = [p \in DOMAIN members |-> to[p]]
      BY <1>2, <1>3
    <3>2. QED BY <3>1, RenamedMembers
  <2> HIDE DEF r
  <2>2. QED BY <1>3, <2>1
<1> HIDE DEF r
<1>6. ASSUME NEW q \in D
      PROVE  /\ q \in Name /\ IsPrefix(root, q) /\ to[q] = Lifted(q, root, new)
             /\ Last(Lifted(q, root, new)) = Last(q)
  <2>1. q \in Name /\ q # None /\ IsStrictPrefix(root, q) /\ IsPrefix(root, q)
    BY Parts DEF IsStrictPrefix
  <2>2. to[q] = Lifted(q, root, new)
    BY <1>2, <1>4, <2>1, RebasedName
  <2>3. QED BY <1>2, <2>1, <2>2, LiftedBelow
<1>7. \A p, q \in D : Lifted(p, root, new) = Lifted(q, root, new) => p = q
  BY <1>2, <1>6, LiftedInjective
<1>8. DOMAIN r = {Lifted(q, root, new) : q \in D}
  BY <1>5, <1>6
<1>9. ASSUME NEW q \in D PROVE r[Lifted(q, root, new)] = members[q]
  <2>1. PICK p \in D : to[p] = Lifted(q, root, new) /\ r[Lifted(q, root, new)] = members[p]
    BY <1>5, <1>6
  <2>2. QED BY <1>6, <1>7, <2>1
<1>10. QED BY <1>1, <1>4, <1>6, <1>7, <1>8, <1>9 DEF other

\* What becomes of a vertex and of a transition.
LEMMA RebasedPlacing ==
  ASSUME Naming(Nat), NEW model, WellFormed(Nat, model), NEW new, IsRoot(new), NEW q \in DOMAIN model.members
  PROVE  LET e == model.members[q]
             d == RebaseReferences(e, model.root, new)
         IN  /\ d.is = e.is
             /\ q \in Vertices(model) =>
                  /\ d.kind = e.kind /\ DOMAIN d.transitions = DOMAIN e.transitions
                  /\ \A i \in DOMAIN e.transitions : d.transitions[i] = RebaseReference(e.transitions[i], model.root, new)
             /\ IsTransition(model, q) => d.source = RebaseReference(e.source, model.root, new)
<1> DEFINE e == model.members[q]
           d == RebaseReferences(e, model.root, new)
           to(p) == RebaseReference(p, model.root, new)
<1>1. "is" \in DOMAIN e
  BY StructureFields
<1>2. q \in Vertices(model) => {"kind", "transitions"} \subseteq DOMAIN e
  BY StructureFields
<1>3. IsTransition(model, q) => "source" \in DOMAIN e
  BY StructureFields
<1> HIDE DEF e
<1>4. \A field \in DOMAIN e :
        d[field] = IF field \in References THEN to(e[field])
                   ELSE IF field \in ReferenceLists THEN MapSeq(to, e[field])
                   ELSE IF field = "targets" THEN {to(p) : p \in e[field]}
                   ELSE e[field]
  BY DEF RebaseReferences
<1> HIDE DEF d
<1>5. d.is = e.is
  BY <1>1, <1>4 DEF References, ReferenceLists
<1>6. ASSUME q \in Vertices(model)
      PROVE  /\ d.kind = e.kind /\ DOMAIN d.transitions = DOMAIN e.transitions
             /\ \A i \in DOMAIN e.transitions : d.transitions[i] = to(e.transitions[i])
  <2>1. d.kind = e.kind
    BY <1>2, <1>4, <1>6 DEF References, ReferenceLists
  <2>2. d.transitions = MapSeq(to, e.transitions)
    BY <1>2, <1>4, <1>6 DEF References, ReferenceLists
  <2>3. QED BY <2>1, <2>2 DEF MapSeq
<1>7. ASSUME IsTransition(model, q) PROVE d.source = to(e.source)
  BY <1>3, <1>4, <1>7 DEF References
<1>8. QED BY <1>5, <1>6, <1>7 DEF d, e

\* Names apart and as many: the structure of one model under other names.
LEMMA AsMany ==
  ASSUME NEW model, WellFormed(Nat, model), NEW other, WellFormed(Nat, other), NEW f, DOMAIN f = Structure(model), f = [q \in DOMAIN f |-> f[q]],
         \A q \in Structure(model) : f[q] \in Structure(other),
         \A p, q \in Structure(model) : f[p] = f[q] => p = q
  PROVE  /\ StructuralMemberCount(model) \in Nat /\ StructuralMemberCount(other) \in Nat
         /\ StructuralMemberCount(model) <= StructuralMemberCount(other)
<1> DEFINE S == Structure(model)
           T == Structure(other)
<1>1. StructuralMemberCount(model) = 1 + Cardinality(S) /\ StructuralMemberCount(other) = 1 + Cardinality(T)
  BY DEF StructuralMemberCount, Structure, Vertices
<1>2. IsFiniteSet(S) /\ IsFiniteSet(T)
  <2>1. IsFiniteSet(DOMAIN model.members) /\ IsFiniteSet(DOMAIN other.members)
    BY Parts
  <2>2. S \in SUBSET DOMAIN model.members /\ T \in SUBSET DOMAIN other.members
    BY DEF Structure, Vertices, Members
  <2> HIDE DEF S, T
  <2>3. QED BY <2>1, <2>2, FS_Subset
<1>3. f \in Injection(S, T)
  <2>1. f \in [S -> T]
    OBVIOUS
  <2>2. \A p, q \in S : f[p] = f[q] => p = q
    OBVIOUS
  <2> HIDE DEF S, T
  <2>3. QED BY <2>1, <2>2 DEF Injection, IsInjective
<1> HIDE DEF S, T
<1>4. Cardinality(S) <= Cardinality(T)
  BY <1>2, <1>3, FS_Injection
<1>5. Cardinality(S) \in Nat /\ Cardinality(T) \in Nat
  BY <1>2, FS_CardinalityType
<1>6. QED BY <1>1, <1>4, <1>5

\* A model under another name lists its transitions as it did.
LEMMA RebasedListed ==
  ASSUME Naming(Nat), NEW model, WellFormed(Nat, model), Listing(Nat, model), NEW new, IsRoot(new)
  PROVE  Listed(Rebase(model, new))
<1> DEFINE root == model.root
           D == DOMAIN model.members
           L(q) == Lifted(q, root, new)
           R(q) == RebaseReference(q, root, new)
           E(q) == RebaseReferences(model.members[q], root, new)
           other == Rebase(model, new)
<1>1. WellFormed(Nat, other) /\ other.stack = <<new>> /\ other.root = new
  BY RebaseFits
<1>2. /\ DOMAIN other.members = {L(q) : q \in D}
      /\ \A q \in D : L(q) = R(q) /\ other.members[L(q)] = E(q) /\ Last(L(q)) = Last(q)
      /\ \A p, q \in D : L(p) = L(q) => p = q
  BY RebasedMembers
<1>3. \A q \in D : /\ E(q).is = model.members[q].is
                   /\ q \in Vertices(model) =>
                        /\ E(q).kind = model.members[q].kind /\ DOMAIN E(q).transitions = DOMAIN model.members[q].transitions
                        /\ \A i \in DOMAIN model.members[q].transitions :
                             E(q).transitions[i] = R(model.members[q].transitions[i])
                   /\ IsTransition(model, q) => E(q).source = R(model.members[q].source)
  BY RebasedPlacing
<1>4. /\ root \in Name /\ root # None /\ Head(root) # Call /\ new \in Name
      /\ \A q \in D : q \in Name /\ q # None /\ IsStrictPrefix(root, q)
  BY Parts DEF IsRoot
<1> HIDE DEF other, E, L, R
<1>5. ASSUME NEW q \in DOMAIN other.members
      PROVE  \E p \in D : q = L(p) /\ other.members[q] = E(p) /\ other.members[q].is = model.members[p].is
  BY <1>2, <1>3
<1>6. \A v \in Vertices(other) : \E p \in Vertices(model) : v = L(p) /\ other.members[v] = E(p)
  BY <1>5, InStructure
<1>7. \A t \in Members(other, "transition") : \E p \in Members(model, "transition") : t = L(p) /\ other.members[t] = E(p)
  BY <1>5, InStructure DEF IsTransition, Is
<1>8. \A p \in Members(model, "transition") : p \in D /\ IsTransition(model, p)
  BY InStructure DEF IsTransition, Is
<1>9. ASSUME NEW v \in Vertices(other)
      PROVE  /\ other.members[v].kind \in States \cup Pseudostates
             /\ IsInjective(other.members[v].transitions)
             /\ \A t \in ToSet(other.members[v].transitions) : other.members[t].source = v
             /\ Last(v) \notin OperationSegments
  <2>1. PICK p \in Vertices(model) : v = L(p) /\ other.members[v] = E(p)
    BY <1>6
  <2> DEFINE old == model.members[p].transitions
             now == other.members[v].transitions
  <2>2. p \in D
    BY InStructure
  <2>3. /\ model.members[p].kind \in States \cup Pseudostates /\ IsInjective(old)
        /\ \A t \in ToSet(old) : t \in D /\ IsTransition(model, t) /\ model.members[t].source = p
        /\ Last(p) \notin OperationSegments
    BY <2>2, StructureFields DEF Listing
  <2>4. \A i \in DOMAIN old : old[i] \in ToSet(old)
    BY DEF ToSet
  <2>5. DOMAIN now = DOMAIN old /\ \A i \in DOMAIN old : now[i] = R(old[i])
    BY <1>3, <2>1, <2>2
  <2> HIDE DEF old, now
  <2>6. \A i \in DOMAIN old : old[i] \in D /\ now[i] = L(old[i])
    BY <1>2, <2>3, <2>4, <2>5
  <2>7. IsInjective(now)
    <3>1. \A i, j \in DOMAIN now : now[i] = now[j] => i = j
      BY <1>2, <2>3, <2>5, <2>6 DEF IsInjective
    <3>2. QED BY <3>1 DEF IsInjective
  <2>8. ASSUME NEW t \in ToSet(now) PROVE other.members[t].source = v
    <3>1. PICK i \in DOMAIN old : t = L(old[i])
      BY <2>5, <2>6 DEF ToSet
    <3>2. old[i] \in D /\ IsTransition(model, old[i]) /\ model.members[old[i]].source = p
      BY <2>3, <2>4
    <3>3. other.members[t].source = R(p)
      BY <1>2, <1>3, <3>1, <3>2
    <3>4. QED BY <1>2, <2>1, <2>2, <3>3
  <2>9. other.members[v].kind \in States \cup Pseudostates /\ Last(v) \notin OperationSegments
    BY <1>2, <1>3, <2>1, <2>2, <2>3
  <2>10. QED BY <2>7, <2>8, <2>9 DEF now
<1>10. StructuralMemberCount(model) \in Nat /\ StructuralMemberCount(other) \in Nat
       /\ StructuralMemberCount(model) <= StructuralMemberCount(other)
  <2> DEFINE S == Structure(model)
             f == [q \in S |-> L(q)]
  <2>1. DOMAIN f = S /\ f = [q \in DOMAIN f |-> f[q]] /\ \A q \in S : f[q] = L(q)
    OBVIOUS
  <2> HIDE DEF f
  <2>2. \A q \in S : q \in D /\ f[q] \in Structure(other)
    BY <1>2, <1>3, <2>1, InStructure
  <2>3. \A p, q \in S : f[p] = f[q] => p = q
    BY <1>2, <2>1, <2>2
  <2>4. QED BY <1>1, <2>1, <2>2, <2>3, AsMany
<1>11. ASSUME NEW t \in Members(other, "transition")
       PROVE  /\ Last(t) = "transition" => other.members[t].source = Front(t)
              /\ \A i \in Nat : Last(t) = Numbered("transition", i) => i < StructuralMemberCount(other)
  <2>1. PICK p \in Members(model, "transition") : t = L(p) /\ other.members[t] = E(p)
    BY <1>7
  <2>2. p \in D /\ IsTransition(model, p) /\ Last(t) = Last(p) /\ other.members[t].source = R(model.members[p].source)
    BY <1>2, <1>3, <1>8, <2>1
  <2>3. ASSUME Last(t) = "transition" PROVE other.members[t].source = Front(t)
    <3>1. other.members[t].source = R(Front(p))
      BY <2>1, <2>2, <2>3 DEF Listing
    <3>2. Front(p) \in Name /\ IsPrefix(root, Front(p))
      BY <1>4, <2>2, FrontBelow
    <3>3. R(Front(p)) = Lifted(Front(p), root, new)
      BY <1>4, <3>2, RebasedName DEF R
    <3>4. Front(L(p)) = Lifted(Front(p), root, new)
      BY <1>4, <2>2, LiftedBelow DEF L
    <3>5. QED BY <2>1, <3>1, <3>3, <3>4
  <2>4. ASSUME NEW i \in Nat, Last(t) = Numbered("transition", i) PROVE i < StructuralMemberCount(other)
    <3>1. i < StructuralMemberCount(model)
      BY <2>2, <2>4 DEF Listing
    <3>2. QED BY <1>10, <3>1
  <2>5. QED BY <2>3, <2>4
<1>12. ASSUME NEW q \in Members(other, "operation") PROVE Last(q) \in OperationSegments
  <2>1. q \in DOMAIN other.members /\ other.members[q].is = "operation"
    BY InStructure
  <2>2. PICK p \in D : q = L(p) /\ model.members[p].is = "operation"
    BY <1>5, <2>1
  <2>3. p \in Members(model, "operation")
    BY <2>2, InStructure
  <2>4. QED BY <1>2, <2>2, <2>3 DEF Listing
<1>13. Listing(Nat, other)
  BY <1>9, <1>11, <1>12 DEF Listing
<1>14. OpenApart(other)
  <2>1. Len(other.stack) = 1
    BY <1>1
  <2>2. ~IsTransition(other, Top(other))
    BY <1>1, <2>1, TopOf, RegionIsNoTransition
  <2>3. QED BY <2>1, <2>2 DEF OpenApart
<1>15. QED BY <1>1, <1>13, <1>14 DEF Listed, other

\* The state that embeds a machine has no transitions yet.
LEMMA EmbeddingPlace ==
  ASSUME NEW initial
  PROVE  LET e == [NewState("submachine") EXCEPT !.initial = initial]
         IN  e.is = "state" /\ e.kind \in States \cup Pseudostates /\ e.transitions = <<>>
<1>1. LET d == NewState("submachine")
      IN  /\ {"is", "kind", "transitions"} \subseteq DOMAIN d
          /\ d.is = "state" /\ d.kind = "submachine" /\ d.transitions = <<>>
  BY DEF NewState
<1> DEFINE d == NewState("submachine")
           e == [d EXCEPT !.initial = initial]
<1> HIDE DEF d
<1>2. /\ {"is", "kind", "transitions"} \subseteq DOMAIN d
      /\ d.is = "state" /\ d.kind = "submachine" /\ d.transitions = <<>>
  BY <1>1 DEF d
<1>3. e.is = d.is /\ e.kind = d.kind /\ e.transitions = d.transitions
  BY <1>2
<1>4. QED BY <1>2, <1>3 DEF d, States

\* Rewriting an element leaves where its transitions belong.
LEMMA RewrittenPlacing ==
  ASSUME NEW e, NEW operations, NEW attributes, NEW boundary, NEW root
  PROVE  LET d == RewriteSubmachineReferences(e, operations, attributes, boundary, root)
         IN  DOMAIN d = DOMAIN e /\ \A field \in DOMAIN e : field \in Placing(e) \cup {"is"} => d[field] = e[field]
  BY DEF RewriteSubmachineReferences, Placing

\* Two open elements.
LEMMA TwoOpen ==
  ASSUME NEW E, NEW a \in E, NEW b \in E
  PROVE  LET s == Append(<<a>>, b) IN Len(s) = 2 /\ s[1] = a /\ Last(s) = b
<1> DEFINE d == <<a>>
           s == Append(d, b)
<1>1. Len(s) = 2
  OBVIOUS
<1>2. s[1] = a
  OBVIOUS
<1>3. s[2] = b
  OBVIOUS
<1> HIDE DEF s
<1>4. QED BY <1>1, <1>2, <1>3 DEF Last, s

\* The members of a machine with another one in it: those of the machine inside, its operations
\* and attributes moved, over those of the one around, and the state between them.
LEMMA EmbeddedMembers ==
  ASSUME Naming(Nat), NEW model, WellFormed(Nat, model), model.stack = <<model.root>>,
         NEW machine, WellFormed(Nat, machine)
  PROVE  LET boundary == Append(model.root, Submachine)
             child    == Rebase(machine, boundary)
             moves    == Members(child, "operation") \cup child.attributes
             new      == [q \in DOMAIN child.members |-> IF q \in moves THEN Lifted(q, boundary, model.root) ELSE q]
             inner    == [q \in DOMAIN child.members |->
                            RewriteSubmachineReferences(child.members[q], Members(child, "operation"),
                                                        child.attributes, boundary, model.root)]
             state    == [NewState("submachine") EXCEPT !.initial = child.initial]
             n        == PartialSubmachineState(model, Submachine, machine)
         IN  /\ IsRoot(boundary) /\ boundary # model.root /\ n.stack = Append(<<model.root>>, boundary) /\ Top(n) = boundary
             /\ DOMAIN n.members = {new[q] : q \in DOMAIN child.members} \cup {boundary} \cup DOMAIN model.members
             /\ \A q \in DOMAIN child.members :
                  \E p \in DOMAIN child.members : new[p] = new[q] /\ n.members[new[q]] = inner[p]
             /\ \A q \in DOMAIN n.members \ {new[q] : q \in DOMAIN child.members} :
                  n.members[q] = IF q = boundary THEN state ELSE model.members[q]
<1> DEFINE root       == model.root
           boundary   == Append(root, Submachine)
           child      == Rebase(machine, boundary)
           operations == Members(child, "operation")
           moves      == operations \cup child.attributes
           D  == DOMAIN child.members
           new == [q \in D |-> IF q \in moves THEN Lifted(q, boundary, root) ELSE q]
           to == [q \in D |-> RewriteSubmachineEventReference(q, operations, child.attributes, boundary, root)]
           members == [q \in D |-> RewriteSubmachineReferences(child.members[q], operations, child.attributes, boundary, root)]
           state   == [NewState("submachine") EXCEPT !.initial = child.initial]
           r == Renamed(members, to)
           put == Put(model, boundary, state)
           g == Overlay(r, put.members)
           A == model.attributes \cup {Lifted(q, boundary, root) : q \in child.attributes}
           named == [model EXCEPT !.members = g, !.attributes = A]
           n == PartialSubmachineState(model, Submachine, machine)
<1>1. root \in Name /\ root # None /\ Head(root) # Call /\ Top(model) = root /\ Submachine \in Segment
  <2>1. Submachine \in Segment
    BY UserSegments DEF VertexNames
  <2>2. QED BY <2>1, Parts, TopOf
<1>2. boundary \in Name /\ boundary # None /\ IsStrictPrefix(root, boundary) /\ IsRoot(boundary) /\ boundary # root
  <2>1. boundary \in Name /\ boundary # None /\ IsStrictPrefix(root, boundary)
    BY <1>1, AppendName, AppendBelow, PrefixReflexive
  <2> HIDE DEF boundary
  <2>2. Head(boundary) # Call
    BY <1>1, <2>1, HeadBelow DEF IsStrictPrefix
  <2>3. QED BY <2>1, <2>2 DEF IsRoot, IsStrictPrefix
<1>3. WellFormed(Nat, child) /\ child.root = boundary
  <2> HIDE DEF boundary
  <2> QED BY <1>2, RebaseFits
<1> HIDE DEF child
<1>4. n = Push(named, boundary)
  BY <1>1 DEF PartialSubmachineState, child
<1>5. DOMAIN members = D /\ to = [q \in DOMAIN members |-> to[q]] /\ IsFiniteSet(D)
  BY <1>3, Parts
<1>6. \A q \in D : /\ to[q] = RewriteSubmachineEventReference(q, operations, child.attributes, boundary, root)
                   /\ new[q] = IF q \in moves THEN Lifted(q, boundary, root) ELSE q
  OBVIOUS
<1> HIDE DEF members, to, new, boundary
<1>7. ASSUME NEW q \in D PROVE to[q] = new[q]
  <2>1. q \in Name /\ q # None /\ IsStrictPrefix(boundary, q)
    BY <1>3, Parts
  <2>2. Head(q) # Call
    BY <1>2, <2>1, HeadBelow DEF IsStrictPrefix, IsRoot
  <2>3. QED BY <1>6, <2>2 DEF RewriteSubmachineEventReference
<1>8. /\ \A q \in DOMAIN r : \E p \in D : to[p] = q /\ r[q] = members[p]
      /\ \A p \in D : to[p] \in DOMAIN r
  <2>1. IsFiniteSet(DOMAIN members)
    BY <1>5
  <2>2. /\ IsFiniteSet(DOMAIN r) /\ r = [q \in DOMAIN r |-> r[q]]
        /\ \A q \in DOMAIN r : \E p \in DOMAIN members : to[p] = q /\ r[q] = members[p]
        /\ \A p \in DOMAIN members : to[p] \in DOMAIN r
    BY <1>5, <2>1, RenamedMembers
  <2> HIDE DEF r
  <2>3. QED BY <1>5, <2>2
<1> HIDE DEF r, A, state
<1>9. DOMAIN r = {new[q] : q \in D}
  BY <1>7, <1>8
<1>10. /\ DOMAIN put.members = DOMAIN model.members \cup {boundary} /\ put.members[boundary] = state
       /\ \A p \in DOMAIN model.members \ {boundary} : put.members[p] = model.members[p]
  BY PutShape
<1> HIDE DEF put
<1>11. /\ DOMAIN g = DOMAIN r \cup DOMAIN put.members
       /\ \A q \in DOMAIN r : g[q] = r[q]
       /\ \A q \in DOMAIN put.members \ DOMAIN r : g[q] = put.members[q]
  BY DEF Overlay
<1> HIDE DEF g
<1>12. named.members = g /\ named.stack = <<root>> /\ {"members", "stack"} \subseteq DOMAIN named
  BY DEF WellFormed
<1> HIDE DEF named, n
<1>13. n.members = g /\ n.stack = Append(<<root>>, boundary)
  BY <1>4, <1>12 DEF Push
<1>14. Top(n) = boundary
  BY <1>1, <1>2, <1>13, TwoOpen DEF Top
<1>15. ASSUME NEW q \in D PROVE \E p \in D : new[p] = new[q] /\ n.members[new[q]] = members[p]
  BY <1>7, <1>8, <1>11, <1>13
<1>16. ASSUME NEW q \in DOMAIN n.members \ DOMAIN r PROVE n.members[q] = IF q = boundary THEN state ELSE model.members[q]
  BY <1>10, <1>11, <1>13
<1>17. DOMAIN n.members = DOMAIN r \cup {boundary} \cup DOMAIN model.members
  BY <1>10, <1>11, <1>13
<1>18. QED
  <2> HIDE DEF D
  <2> QED BY <1>2, <1>9, <1>13, <1>14, <1>15, <1>16, <1>17 DEF n, D, new, members, child, boundary, state

\* What the structure of the two machines becomes: it stays where it is, but for the state
\* between them, and is all the structure there is.
LEMMA EmbeddedStructure ==
  ASSUME WellNamed, WellListed, NEW model, Listed(model), model.stack = <<model.root>>,
         \A q \in DOMAIN model.members : ~IsStrictPrefix(Append(model.root, Submachine), q),
         NEW machine, WellFormed(Nat, machine), Listing(Nat, machine)
  PROVE  LET boundary == Append(model.root, Submachine)
             child    == Rebase(machine, boundary)
             n        == PartialSubmachineState(model, Submachine, machine)
             same(p, q) == /\ q \in DOMAIN n.members /\ n.members[q].is = p.members[q].is
                           /\ DOMAIN n.members[q] = DOMAIN p.members[q]
                           /\ \A field \in Placing(p.members[q]) \cap DOMAIN p.members[q] :
                                n.members[q][field] = p.members[q][field]
         IN  /\ Listed(child) /\ ~IsTransition(n, model.root)
             /\ n.stack = Append(<<model.root>>, boundary) /\ Top(n) = boundary
             /\ \A q \in Structure(child) : q # boundary /\ same(child, q)
             /\ \A q \in Structure(model) \ {boundary} : same(model, q)
             /\ ~IsTransition(model, boundary) /\ Last(boundary) \notin OperationSegments
             /\ boundary \in DOMAIN n.members /\ n.members[boundary].is = "state"
             /\ n.members[boundary].kind \in States \cup Pseudostates /\ n.members[boundary].transitions = <<>>
             /\ Structure(n) \subseteq Structure(child) \cup Structure(model) \cup {boundary}
             /\ \A q \in Members(n, "operation") : Last(q) \in OperationSegments
<1> DEFINE root     == model.root
           boundary == Append(root, Submachine)
           child    == Rebase(machine, boundary)
           M        == child.members
           D        == DOMAIN M
           moves    == Members(child, "operation") \cup child.attributes
           new      == [q \in D |-> IF q \in moves THEN Lifted(q, boundary, root) ELSE q]
           inner    == [q \in D |-> RewriteSubmachineReferences(M[q], Members(child, "operation"), child.attributes, boundary, root)]
           state    == [NewState("submachine") EXCEPT !.initial = child.initial]
           n        == PartialSubmachineState(model, Submachine, machine)
           moved    == {new[q] : q \in D}
<1>1. Naming(Nat) /\ WellFormed(Nat, model) /\ Listing(Nat, model)
  BY DEF WellNamed, Listed
<1>2. /\ IsRoot(boundary) /\ boundary # root /\ n.stack = Append(<<root>>, boundary) /\ Top(n) = boundary
      /\ DOMAIN n.members = moved \cup {boundary} \cup DOMAIN model.members
      /\ \A q \in D : \E p \in D : new[p] = new[q] /\ n.members[new[q]] = inner[p]
      /\ \A q \in DOMAIN n.members \ moved : n.members[q] = IF q = boundary THEN state ELSE model.members[q]
  BY <1>1, EmbeddedMembers
<1>3. /\ root \in Name /\ root # None /\ Submachine \in Segment /\ Last(boundary) = Submachine /\ boundary \in Name
      /\ NamedAs(Nat, Submachine, "user") /\ Submachine \notin OperationSegments /\ Submachine \notin AttributeNames
  <2>1. Submachine \in VertexNames
    BY DEF VertexNames
  <2>2. Submachine \in Segment /\ NamedAs(Nat, Submachine, "user")
    BY <1>1, <2>1, UserSegments
  <2>3. Submachine \notin OperationSegments /\ Submachine \notin AttributeNames
    BY <1>1, <2>1 DEF WellListed, Naming
  <2>4. root \in Name /\ root # None
    BY <1>1, Parts
  <2>5. QED BY <2>2, <2>3, <2>4, AppendName
<1>4. Listed(child) /\ child.root = boundary
  <2> HIDE DEF boundary
  <2>1. Listed(child)
    BY <1>1, <1>2, RebasedListed
  <2>2. child.root = boundary
    BY <1>1, <1>2, RebaseFits
  <2>3. QED BY <2>1, <2>2
<1>5. state.is = "state" /\ state.kind \in States \cup Pseudostates /\ state.transitions = <<>>
  BY EmbeddingPlace
<1>6. /\ \A q \in D : new[q] = IF q \in moves THEN Lifted(q, boundary, root) ELSE q
      /\ \A q \in D : inner[q] = RewriteSubmachineReferences(M[q], Members(child, "operation"), child.attributes, boundary, root)
  OBVIOUS
<1> HIDE DEF state, n, new, inner, child
<1>7. ASSUME NEW q \in D
      PROVE  /\ q \in Name /\ IsStrictPrefix(boundary, q) /\ q # boundary
             /\ Last(new[q]) = Last(q)
             /\ q \in moves => /\ NamedAs(Nat, Last(q), "user") /\ Last(q) \in OperationSegments \cup AttributeNames
                               /\ M[q].is \in {"operation", "attribute"}
  <2>1. q \in Name /\ q # None /\ IsStrictPrefix(boundary, q) /\ NamedAs(Nat, Last(q), Sort(M[q]))
    BY <1>4, Parts DEF Listed
  <2>2. Last(new[q]) = Last(q)
    <3>1. CASE q \in moves
      <4>1. Last(Lifted(q, boundary, root)) = Last(q)
        BY <1>3, <2>1, LiftedBelow
      <4>2. QED BY <1>6, <3>1, <4>1
    <3>2. QED BY <1>6, <3>1
  <2>3. ASSUME q \in moves
        PROVE  /\ NamedAs(Nat, Last(q), "user") /\ Last(q) \in OperationSegments \cup AttributeNames
               /\ M[q].is \in {"operation", "attribute"}
    <3>1. M[q].is \in {"operation", "attribute"} /\ Sort(M[q]) = "user"
      BY <1>1, <1>4, <2>3, OnlyDeclarationsMove DEF Listed
    <3>2. CASE q \in Members(child, "operation")
      BY <1>4, <2>1, <3>1, <3>2 DEF Listed, Listing
    <3>3. CASE q \in child.attributes
      <4>1. Last(q) \in AttributeNames
        BY <1>4, <3>3 DEF Listed, WellFormed
      <4>2. QED BY <2>1, <3>1, <4>1
    <3>4. QED BY <2>3, <3>2, <3>3
  <2>4. QED BY <2>1, <2>2, <2>3 DEF IsStrictPrefix
<1>8. ASSUME NEW q \in D
      PROVE  /\ DOMAIN inner[q] = DOMAIN M[q] /\ inner[q].is = M[q].is
             /\ \A field \in Placing(M[q]) \cap DOMAIN M[q] : inner[q][field] = M[q][field]
  <2>1. "is" \in DOMAIN M[q]
    BY <1>4, StructureFields DEF Listed
  <2>2. /\ DOMAIN inner[q] = DOMAIN M[q]
        /\ \A field \in DOMAIN M[q] : field \in Placing(M[q]) \cup {"is"} => inner[q][field] = M[q][field]
    BY <1>6, RewrittenPlacing
  <2>3. inner[q]["is"] = M[q]["is"]
    BY <2>1, <2>2
  <2>4. QED BY <2>2, <2>3
<1> HIDE DEF boundary, moves, D, M
<1>9. ASSUME NEW other, WellFormed(Nat, other), Listing(Nat, other), NEW q \in Structure(other), NEW p \in D, new[p] = q
      PROVE  p \notin moves
  <2>1. SUFFICES ASSUME p \in moves PROVE FALSE
    OBVIOUS
  <2>2. NamedAs(Nat, Last(q), "user") /\ Last(q) \in OperationSegments \cup AttributeNames
    BY <1>7, <1>9, <2>1
  <2>3. Last(q) \notin OperationSegments \cup AttributeNames
    BY <1>1, <1>9, <2>2, StructureNamed
  <2>4. QED BY <2>2, <2>3
<1>10. ASSUME NEW q \in Structure(child)
       PROVE  /\ q # boundary /\ q \in DOMAIN n.members /\ n.members[q].is = M[q].is
              /\ DOMAIN n.members[q] = DOMAIN M[q]
              /\ \A field \in Placing(M[q]) \cap DOMAIN M[q] : n.members[q][field] = M[q][field]
  <2>1. q \in D /\ M[q].is \in Structural
    BY InStructure DEF D, M
  <2>2. q \notin moves
    BY <1>7, <2>1 DEF Structural
  <2>3. new[q] = q
    BY <1>6, <2>1, <2>2
  <2>4. PICK p \in D : new[p] = q /\ n.members[q] = inner[p]
    BY <1>2, <2>1, <2>3
  <2>5. p \notin moves
    BY <1>4, <1>9, <2>4 DEF Listed
  <2>6. p = q
    BY <1>6, <2>4, <2>5
  <2>7. q \in moved
    BY <2>1, <2>3
  <2>8. QED BY <1>2, <1>7, <1>8, <2>1, <2>4, <2>6, <2>7
<1>11. ASSUME NEW q \in Structure(model) \ {boundary}
       PROVE  /\ q \in DOMAIN n.members /\ n.members[q] = model.members[q] /\ q \in DOMAIN model.members
  <2>1. q \in DOMAIN model.members /\ ~IsStrictPrefix(boundary, q)
    BY InStructure DEF boundary
  <2>2. q \notin moved
    <3>1. SUFFICES ASSUME NEW p \in D, new[p] = q PROVE FALSE
      OBVIOUS
    <3>2. p \notin moves
      BY <1>1, <1>9, <3>1
    <3>3. p = q
      BY <1>6, <3>1, <3>2
    <3>4. QED BY <1>7, <2>1, <3>3
  <2>3. QED BY <1>2, <2>1, <2>2
<1>12. boundary \notin moved
  <2>1. SUFFICES ASSUME NEW p \in D, new[p] = boundary PROVE FALSE
    OBVIOUS
  <2>2. CASE p \in moves
    BY <1>3, <1>7, <2>1, <2>2 DEF boundary
  <2>3. CASE p \notin moves
    BY <1>6, <1>7, <2>1, <2>3
  <2>4. QED BY <2>2, <2>3
<1>13. boundary \in DOMAIN n.members /\ n.members[boundary] = state
  BY <1>2, <1>12
<1>14. ~IsTransition(model, boundary)
  <2>1. SUFFICES ASSUME IsTransition(model, boundary) PROVE FALSE
    OBVIOUS
  <2>2. boundary \in Structure(model) /\ NamedAs(Nat, Last(boundary), "user")
    BY <1>3, <2>1, InStructure DEF boundary
  <2>3. ~IsTransition(model, boundary)
    <3>1. "user" \in Sorts \cup {"user"} /\ "user" # "transition"
      OBVIOUS
    <3>2. QED BY <1>1, <2>2, <3>1, StructureNamed
  <2>4. QED BY <2>1, <2>3
<1>15. ASSUME NEW q \in DOMAIN n.members
       PROVE  /\ n.members[q].is \in Structural => q \in Structure(child) \cup Structure(model) \cup {boundary}
              /\ n.members[q].is = "operation" => Last(q) \in OperationSegments
  <2>1. CASE q \in moved
    <3>1. PICK a \in D : q = new[a]
      BY <2>1
    <3>2. PICK p \in D : new[p] = q /\ n.members[q] = inner[p]
      BY <1>2, <3>1
    <3>3. n.members[q].is = M[p].is /\ Last(q) = Last(p)
      BY <1>7, <1>8, <3>2
    <3>4. ASSUME M[p].is \in Structural PROVE q \in Structure(child)
      <4>1. p \notin moves
        BY <1>7, <3>4 DEF Structural
      <4>2. q = p
        BY <1>6, <3>2, <4>1
      <4>3. QED BY <3>4, <4>2, InStructure DEF D, M
    <3>5. ASSUME M[p].is = "operation" PROVE Last(q) \in OperationSegments
      <4>1. p \in Members(child, "operation")
        BY <3>5, InStructure DEF D, M
      <4>2. QED BY <1>4, <3>3, <4>1 DEF Listed, Listing
    <3>6. QED BY <3>3, <3>4, <3>5
  <2>2. CASE q \notin moved /\ q = boundary
    BY <1>5, <1>13, <2>2
  <2>3. CASE q \notin moved /\ q # boundary
    <3>1. q \in DOMAIN model.members /\ n.members[q] = model.members[q]
      BY <1>2, <2>3
    <3>2. n.members[q].is \in Structural => q \in Structure(model)
      BY <3>1, InStructure
    <3>3. n.members[q].is = "operation" => q \in Members(model, "operation")
      BY <3>1, InStructure
    <3>4. QED BY <1>1, <3>2, <3>3 DEF Listing
  <2>4. QED BY <2>1, <2>2, <2>3
<1>16. Structure(n) \subseteq Structure(child) \cup Structure(model) \cup {boundary}
  BY <1>15, InStructure
<1>17. \A q \in Members(n, "operation") : Last(q) \in OperationSegments
  BY <1>15, InStructure
<1>18. ~IsTransition(n, root)
  <2>1. SUFFICES ASSUME IsTransition(n, root) PROVE FALSE
    OBVIOUS
  <2>2. root \in Structure(child) \cup Structure(model) \cup {boundary}
    BY <1>16, <2>1, InStructure
  <2>3. root \notin DOMAIN model.members
    BY <1>1, Parts DEF IsStrictPrefix
  <2>4. root \in D
    BY <1>2, <2>2, <2>3, InStructure DEF D, M
  <2>5. IsStrictPrefix(boundary, root)
    BY <1>7, <2>4
  <2>6. IsStrictPrefix(root, root) /\ Front(root) # root
    BY <1>3, <2>5, DeepBelow DEF boundary
  <2>7. QED BY <2>6 DEF IsStrictPrefix
<1>a. Last(boundary) \notin OperationSegments
  BY <1>3
<1>19. QED BY <1>2, <1>4, <1>5, <1>10, <1>11, <1>13, <1>14, <1>16, <1>17, <1>18, <1>a DEF boundary, child, n, M

\* partial_submachine_state: both machines list their transitions as they did.
LEMMA SubmachineListed ==
  ASSUME WellNamed, WellListed, NEW model, Listed(model), model.stack = <<model.root>>,
         \A q \in DOMAIN model.members : ~IsStrictPrefix(Append(model.root, Submachine), q),
         NEW machine, WellFormed(Nat, machine), Listing(Nat, machine)
  PROVE  Listed(PartialSubmachineState(model, Submachine, machine))
<1> DEFINE root     == model.root
           boundary == Append(root, Submachine)
           child    == Rebase(machine, boundary)
           n        == PartialSubmachineState(model, Submachine, machine)
           Same(p, q) == /\ q \in DOMAIN n.members /\ n.members[q].is = p.members[q].is
                         /\ DOMAIN n.members[q] = DOMAIN p.members[q]
                         /\ \A field \in Placing(p.members[q]) \cap DOMAIN p.members[q] :
                              n.members[q][field] = p.members[q][field]
<1>1. Naming(Nat) /\ WellFormed(Nat, model) /\ Listing(Nat, model)
  BY DEF WellNamed, Listed
<1>2. WellFormed(Nat, n)
  BY <1>1, SubmachineFits
<1>3. /\ Listed(child) /\ ~IsTransition(n, root)
      /\ n.stack = Append(<<root>>, boundary) /\ Top(n) = boundary
      /\ \A q \in Structure(child) : q # boundary /\ Same(child, q)
      /\ \A q \in Structure(model) \ {boundary} : Same(model, q)
      /\ ~IsTransition(model, boundary) /\ Last(boundary) \notin OperationSegments
      /\ boundary \in DOMAIN n.members /\ n.members[boundary].is = "state"
      /\ n.members[boundary].kind \in States \cup Pseudostates /\ n.members[boundary].transitions = <<>>
      /\ Structure(n) \subseteq Structure(child) \cup Structure(model) \cup {boundary}
      /\ \A q \in Members(n, "operation") : Last(q) \in OperationSegments
  BY EmbeddedStructure
<1>4. boundary \in Vertices(n)
  BY <1>3, InStructure
<1>5. Len(n.stack) = 2 /\ n.stack[1] = root
  <2>1. root \in Name /\ Submachine \in Segment
    BY <1>1, Parts, UserSegments DEF VertexNames
  <2>2. boundary \in Name
    BY <2>1, AppendName
  <2> HIDE DEF boundary
  <2>3. QED BY <1>3, <2>1, <2>2, TwoOpen
<1> HIDE DEF n, child, boundary, Same
\* One of the two machines.
<1> DEFINE Part(p) == WellFormed(Nat, p) /\ Listing(Nat, p) /\ \A q \in Structure(p) \ {boundary} : Same(p, q)
<1>6. Part(child) /\ Part(model) /\ boundary \notin Members(child, "transition") /\ boundary \notin Members(model, "transition")
      /\ boundary \notin Structure(child)
  <2>1. boundary \notin Members(model, "transition") /\ boundary \notin Structure(child)
    BY <1>3, InStructure
  <2>2. boundary \notin Members(child, "transition")
    BY <2>1 DEF Structure
  <2>3. QED BY <1>1, <1>3, <2>1, <2>2 DEF Listed
<1>7. ASSUME NEW p, Part(p), NEW q \in Vertices(p), q # boundary
      PROVE  /\ q \in Vertices(n) /\ n.members[q].kind = p.members[q].kind
             /\ n.members[q].transitions = p.members[q].transitions
  <2>1. q \in Structure(p) /\ p.members[q].is \in {"state", "vertex"} /\ {"kind", "transitions"} \subseteq DOMAIN p.members[q]
    BY <1>7, InStructure, StructureFields
  <2>2. Same(p, q) /\ Placing(p.members[q]) = {"kind", "transitions"}
    BY <1>7, <2>1 DEF Placing
  <2>3. q \in DOMAIN n.members /\ n.members[q].is = p.members[q].is
        /\ n.members[q]["kind"] = p.members[q]["kind"] /\ n.members[q]["transitions"] = p.members[q]["transitions"]
    BY <2>1, <2>2 DEF Same
  <2>4. QED BY <2>1, <2>3, InStructure
<1>8. ASSUME NEW p, Part(p), NEW t, IsTransition(p, t), t # boundary
      PROVE  IsTransition(n, t) /\ n.members[t].source = p.members[t].source
  <2>1. t \in Structure(p) /\ p.members[t].is = "transition" /\ "source" \in DOMAIN p.members[t]
    BY <1>8, InStructure, StructureFields DEF IsTransition, Is
  <2>2. Same(p, t) /\ Placing(p.members[t]) = {"source"}
    BY <1>8, <2>1 DEF Placing
  <2>3. t \in DOMAIN n.members /\ n.members[t].is = p.members[t].is /\ n.members[t]["source"] = p.members[t]["source"]
    BY <2>1, <2>2 DEF Same
  <2>4. QED BY <2>1, <2>3 DEF IsTransition, Is
<1>9. /\ \A v \in Vertices(n) : v = boundary \/ \E p \in {child, model} : v \in Vertices(p)
      /\ \A t \in Members(n, "transition") : t # boundary /\ \E p \in {child, model} : IsTransition(p, t)
  <2>1. ASSUME NEW v \in Vertices(n), v # boundary PROVE \E p \in {child, model} : v \in Vertices(p)
    <3>1. v \in Structure(child) \cup Structure(model) /\ n.members[v].is \in {"state", "vertex"}
      BY <1>3, <2>1, InStructure
    <3>2. PICK p \in {child, model} : v \in Structure(p)
      BY <3>1
    <3>3. n.members[v].is = p.members[v].is
      BY <1>6, <2>1, <3>2 DEF Same
    <3>4. QED BY <3>1, <3>2, <3>3, InStructure
  <2>2. ASSUME NEW t \in Members(n, "transition") PROVE t # boundary /\ \E p \in {child, model} : IsTransition(p, t)
    <3>1. t \in DOMAIN n.members /\ n.members[t].is = "transition" /\ t \in Structure(n)
      BY <2>2, InStructure DEF IsTransition, Is
    <3>2. t # boundary
      BY <1>3, <3>1
    <3>3. PICK p \in {child, model} : t \in Structure(p)
      BY <1>3, <3>1, <3>2
    <3>4. n.members[t].is = p.members[t].is
      BY <1>6, <3>2, <3>3 DEF Same
    <3>5. IsTransition(p, t)
      BY <3>1, <3>3, <3>4, InStructure DEF IsTransition, Is
    <3>6. QED BY <3>2, <3>5
  <2>3. QED BY <2>1, <2>2
<1>10. ASSUME NEW p \in {child, model}
       PROVE  /\ StructuralMemberCount(p) \in Nat /\ StructuralMemberCount(n) \in Nat
              /\ StructuralMemberCount(p) <= StructuralMemberCount(n)
  <2>1. Part(p) /\ boundary \notin Members(p, "transition")
    BY <1>6
  <2>2. ASSUME NEW q \in Structure(p) PROVE q \in Structure(n)
    <3>1. CASE q = boundary
      BY <1>4, <3>1 DEF Structure
    <3>2. CASE q # boundary /\ q \in Vertices(p)
      BY <1>7, <2>1, <3>2, InStructure
    <3>3. CASE q # boundary /\ IsTransition(p, q)
      BY <1>8, <2>1, <3>3, InStructure
    <3>4. QED BY <3>1, <3>2, <3>3, InStructure
  <2>3. WellFormed(Nat, p) /\ Structure(p) \subseteq Structure(n)
    BY <2>1, <2>2
  <2>4. QED BY <1>2, <2>3, CountGrows
<1>11. ASSUME NEW v \in Vertices(n)
       PROVE  /\ n.members[v].kind \in States \cup Pseudostates
              /\ IsInjective(n.members[v].transitions)
              /\ \A t \in ToSet(n.members[v].transitions) : n.members[t].source = v
              /\ Last(v) \notin OperationSegments
  <2>1. CASE v = boundary
    <3>1. IsInjective(<<>>) /\ ToSet(<<>>) = {}
      BY DEF IsInjective, ToSet
    <3>2. QED BY <1>3, <2>1, <3>1
  <2>2. CASE v # boundary
    <3>1. PICK p \in {child, model} : v \in Vertices(p)
      BY <1>9, <2>2
    <3>2. Part(p) /\ boundary \notin Members(p, "transition")
      BY <1>6
    <3>3. /\ p.members[v].kind \in States \cup Pseudostates
          /\ IsInjective(p.members[v].transitions)
          /\ \A t \in ToSet(p.members[v].transitions) : IsTransition(p, t) /\ p.members[t].source = v
          /\ Last(v) \notin OperationSegments
      BY <3>1, <3>2, StructureFields DEF Listing
    <3>4. n.members[v].kind = p.members[v].kind /\ n.members[v].transitions = p.members[v].transitions
      BY <1>7, <2>2, <3>1, <3>2
    <3>5. ASSUME NEW t \in ToSet(p.members[v].transitions) PROVE n.members[t].source = v
      <4>1. IsTransition(p, t) /\ p.members[t].source = v /\ t # boundary
        BY <3>2, <3>3, InStructure
      <4>2. QED BY <1>8, <3>2, <4>1
    <3>6. QED BY <3>3, <3>4, <3>5
  <2>3. QED BY <2>1, <2>2
<1>12. ASSUME NEW t \in Members(n, "transition")
       PROVE  /\ Last(t) = "transition" => n.members[t].source = Front(t)
              /\ \A i \in Nat : Last(t) = Numbered("transition", i) => i < StructuralMemberCount(n)
  <2>1. t # boundary
    BY <1>9
  <2>2. PICK p \in {child, model} : IsTransition(p, t)
    BY <1>9
  <2>3. Part(p)
    BY <1>6
  <2>4. n.members[t].source = p.members[t].source /\ t \in Members(p, "transition")
    BY <1>8, <2>1, <2>2, <2>3, InStructure
  <2>5. /\ Last(t) = "transition" => p.members[t].source = Front(t)
        /\ \A i \in Nat : Last(t) = Numbered("transition", i) => i < StructuralMemberCount(p)
    BY <2>3, <2>4 DEF Listing
  <2>6. ASSUME NEW i \in Nat, Last(t) = Numbered("transition", i) PROVE i < StructuralMemberCount(n)
    <3>1. i < StructuralMemberCount(p)
      BY <2>5, <2>6
    <3>2. QED BY <1>10, <3>1
  <2>7. QED BY <2>4, <2>5, <2>6
<1>13. Listing(Nat, n)
  BY <1>3, <1>11, <1>12 DEF Listing
<1>14. OpenApart(n)
  <2>1. \A i \in 1 .. Len(n.stack) - 1 : n.stack[i] = root
    BY <1>5
  <2>2. ~IsTransition(n, Top(n))
    BY <1>3 DEF IsTransition, Is
  <2>3. QED BY <1>3, <2>1, <2>2 DEF OpenApart
<1>15. QED BY <1>2, <1>13, <1>14 DEF Listed, n

-----------------------------------------------------------------------------
(* Every step of a definition. *)

\* Every model under construction lists its transitions as it must, and a finalized one lists
\* all of them.
ListInv ==
  /\ Listing(Nat, m) /\ OpenApart(m)
  /\ phase = "defined" => Complete(m)

\* A well-formed model of the same structure.
LEMMA KeptListed ==
  ASSUME NEW model, Listed(model), NEW other, SameStructure(model, other), WellFormed(Nat, other)
  PROVE  Listed(other)
<1>1. WellFormed(Nat, model) /\ Listing(Nat, model) /\ OpenApart(model)
  BY DEF Listed
<1>2. Listing(Nat, other)
  BY <1>1, ListingKept
<1>3. OpenApart(other)
  BY <1>1, OpenKept
<1>4. QED BY <1>2, <1>3 DEF Listed

\* Vertices.
LEMMA VertexLists ==
  ASSUME WellNamed, WellListed, Listed(m), DeclareVertex
  PROVE  Listed(m') /\ phase' # "defined"
<1>1. InRegion => ~IsTransition(m, Top(m))
  BY RegionIsNoTransition DEF Listed, InRegion
<1>2. CASE \E name \in StateNames : State(name)
  <2>1. PICK name \in StateNames : InRegion /\ m' = PartialState(m, name) /\ phase' = "declaring"
    BY <1>2 DEF State, Apply
  <2>2. QED BY <1>1, <2>1, StatesListed
<1>3. CASE \E name \in FinalNames : Final(name)
  <2>1. PICK name \in FinalNames : InRegion /\ m' = PartialFinalState(m, name) /\ phase' = "declaring"
    BY <1>3 DEF Final, Apply
  <2>2. QED BY <1>1, <2>1, StatesListed
<1>4. CASE Initial
  <2>1. InRegion /\ m' = PartialInitial(m) /\ phase' = "declaring"
    BY <1>4 DEF Initial, Apply
  <2>2. QED BY <1>1, <2>1, PointsListed
<1>5. CASE \E name \in PointNames : Choice(name)
  <2>1. PICK name \in PointNames : InRegion /\ m' = PartialChoice(m, name) /\ phase' = "declaring"
    BY <1>5 DEF Choice, Apply
  <2>2. QED BY <1>1, <2>1, PointsListed
<1>6. ASSUME NEW name \in PointNames, NEW elements \in BOOLEAN, NEW kind \in {"entry_point", "exit_point"},
             ConnectionPoint(name, kind, elements)
      PROVE  Listed(m') /\ phase' # "defined"
  <2>1. InRegion /\ m' = AddConnectionPointVertex(m, name, kind, elements) /\ phase' = "declaring"
    BY <1>6 DEF ConnectionPoint, Apply
  <2>2. kind \in Pseudostates \ {"initial"}
    BY DEF Pseudostates
  <2>3. QED BY <1>1, <2>1, <2>2, PointsListed
<1>7. ASSUME NEW name \in PointNames, NEW elements \in BOOLEAN, NEW kind \in Histories,
             History(name, kind, elements)
      PROVE  Listed(m') /\ phase' # "defined"
  <2>1. InRegion /\ m' = PartialHistory(m, name, kind, elements) /\ phase' = "declaring"
    BY <1>7 DEF History, Apply
  <2>2. kind \in Pseudostates \ {"initial"}
    BY DEF Pseudostates, Histories
  <2>3. QED BY <1>1, <2>1, <2>2, PointsListed
<1>8. QED BY <1>2, <1>3, <1>4, <1>5, <1>6, <1>7 DEF DeclareVertex

\* Transitions and what is declared in one.
LEMMA TransitionLists ==
  ASSUME WellNamed, WellListed, Listed(m), DeclareTransition
  PROVE  Listed(m') /\ phase' # "defined"
<1>1. Naming(Nat) /\ WellFormed(Nat, m) /\ Listing(Nat, m)
  BY DEF WellNamed, Listed
<1>2. WellFormed(Nat, m')
  BY <1>1, TransitionStep
<1>3. ASSUME NEW applied, Apply(applied), SameStructure(m, applied) PROVE Listed(m') /\ phase' # "defined"
  <2>1. m' = applied /\ phase' = "declaring"
    BY <1>3 DEF Apply
  <2>2. QED BY <1>2, <1>3, <2>1, KeptListed
<1>4. CASE Transition
  <2>1. ~IsTransition(m, Top(m)) /\ m' = PartialTransition(m) /\ phase' = "declaring"
    BY <1>4 DEF Transition, InTransition, Apply
  <2>2. QED BY <2>1, TransitionListed
<1>5. ASSUME NEW path \in Paths, Source(path) PROVE Listed(m') /\ phase' # "defined"
  <2>1. IsTransition(m, Top(m)) /\ Last(Top(m)) # "transition" /\ m' = PartialSource(m, path) /\ phase' = "declaring"
    BY <1>5 DEF Source, InOwnTransition, InTransition, Apply
  <2>2. PICK value : m' = Edit(m, Top(m), "source", value)
    BY <2>1 DEF PartialSource
  <2>3. QED BY <1>2, <2>1, <2>2, SourceListed
<1>6. ASSUME NEW name \in PointNames, FromExitPoint(name) PROVE Listed(m') /\ phase' # "defined"
  <2>1. IsTransition(m, Top(m)) /\ Last(Top(m)) # "transition" /\ m' = SelectExitPoint(m, name) /\ phase' = "declaring"
    BY <1>6 DEF FromExitPoint, InOwnTransition, InTransition, Apply
  <2>2. PICK value : m' = Edit(m, Top(m), "source", value)
    BY <2>1 DEF SelectExitPoint
  <2>3. QED BY <1>2, <2>1, <2>2, SourceListed
<1>7. ASSUME NEW x, \/ Target(x) \/ On(x) \/ OnCall(x) \/ ToEntryPoint(x)
      PROVE  Listed(m') /\ phase' # "defined"
  <2>1. PICK applied : Apply(applied) /\ applied \in {PartialTarget(m, x), PartialTrigger(m, x), PartialOnCall(m, x), SelectEntryPoint(m, x)}
    BY <1>7 DEF Target, On, OnCall, ToEntryPoint
  <2>2. SameStructure(m, applied)
    BY <1>1, <2>1, TransitionsKeepStructure
  <2>3. QED BY <1>3, <2>1, <2>2
<1>8. ASSUME NEW event \in Events, Defer(event) PROVE Listed(m') /\ phase' # "defined"
  <2>1. CASE Apply(PartialDefer(m, event))
    BY <1>1, <1>3, <2>1, TransitionsKeepStructure
  <2>2. CASE phase' = "panicked" /\ UNCHANGED <<m, round, left, ran>>
    BY <2>2
  <2>3. QED BY <1>8, <2>1, <2>2 DEF Defer
<1>9. ASSUME NEW name \in AttributeNames, OnSet(name) PROVE Listed(m') /\ phase' # "defined"
  BY <1>1, <1>3, <1>9, TransitionsKeepStructure DEF OnSet
<1>10. ASSUME NEW x, Guard \/ GuardOperationRef(x) PROVE Listed(m') /\ phase' # "defined"
  BY <1>1, <1>3, <1>10, GuardsKeepStructure DEF Guard, GuardOperationRef
<1>11. ASSUME NEW timer \in {"after", "at", "every"}, Timer(timer) PROVE Listed(m') /\ phase' # "defined"
  BY <1>1, <1>3, <1>11, GuardsKeepStructure DEF Timer
<1>12. QED
  <2>1. \/ Transition \/ Guard
        \/ \E path \in Paths : Source(path) \/ Target(path)
        \/ \E event \in Events : On(event) \/ Defer(event)
        \/ \E name \in OperationNames : OnCall(name) \/ GuardOperationRef(name)
        \/ \E name \in AttributeNames : OnSet(name)
        \/ \E timer \in {"after", "at", "every"} : Timer(timer)
        \/ \E name \in PointNames : ToEntryPoint(name) \/ FromExitPoint(name)
    BY DEF DeclareTransition
  <2>2. QED BY <1>4, <1>5, <1>6, <1>7, <1>8, <1>9, <1>10, <1>11, <2>1

\* Behaviours, operations, attributes, observations and hooks.
LEMMA MemberLists ==
  ASSUME WellNamed, WellListed, Listed(m), DeclareMember
  PROVE  Listed(m') /\ phase' # "defined"
<1>1. Naming(Nat) /\ WellFormed(Nat, m) /\ Listing(Nat, m)
  BY DEF WellNamed, Listed
<1>2. WellFormed(Nat, m')
  BY <1>1, MemberStep
<1>3. ASSUME NEW applied, Apply(applied), SameStructure(m, applied) PROVE Listed(m') /\ phase' # "defined"
  <2>1. m' = applied /\ phase' = "declaring"
    BY <1>3 DEF Apply
  <2>2. QED BY <1>2, <1>3, <2>1, KeptListed
<1>4. ASSUME NEW role \in Roles, NEW functions \in {<<f>> : f \in Functions} \cup {<<f, g>> : f, g \in Functions},
             Behaviors(role, functions)
      PROVE  Listed(m') /\ phase' # "defined"
  <2>1. functions \in Seq(Functions)
    <3>1. CASE functions \in {<<f>> : f \in Functions}
      <4>1. PICK f \in Functions : functions = <<f>>
        BY <3>1
      <4>2. QED BY <4>1
    <3>2. CASE functions \in {<<f, g>> : f, g \in Functions}
      <4>1. PICK f \in Functions, g \in Functions : functions = <<f, g>>
        BY <3>2
      <4>2. QED BY <4>1
    <3>3. QED BY <3>1, <3>2
  <2>2. QED BY <1>1, <1>3, <1>4, <2>1, MembersKeepStructure DEF Behaviors
<1>5. ASSUME NEW name \in OperationNames, NEW role \in Roles, BehaviorOperation(role, name)
      PROVE  Listed(m') /\ phase' # "defined"
  BY <1>1, <1>3, <1>5, MembersKeepStructure DEF BehaviorOperation
<1>6. ASSUME NEW name \in OperationNames, Operation(name) \/ GuardOperation(name) PROVE Listed(m') /\ phase' # "defined"
  BY <1>1, <1>3, <1>6, MembersKeepStructure DEF Operation, GuardOperation
<1>7. ASSUME NEW name \in AttributeNames, Attribute(name) PROVE Listed(m') /\ phase' # "defined"
  BY <1>1, <1>3, <1>7, MembersKeepStructure DEF Attribute
<1>8. ASSUME NEW observer, ObserveAll(observer) \/ ObserveNamed(observer) PROVE Listed(m') /\ phase' # "defined"
  <2>1. PICK targets : Apply(PartialObserve(m, observer, targets))
    BY <1>8 DEF ObserveAll, ObserveNamed
  <2>2. QED BY <1>1, <1>3, <2>1, MembersKeepStructure
<1>9. ASSUME NEW does, Validator(does) \/ Finalizer PROVE Listed(m') /\ phase' # "defined"
  BY <1>1, <1>3, <1>9, MembersKeepStructure DEF Validator, Finalizer
<1>10. CASE \E role \in Roles :
              \/ \E functions \in {<<f>> : f \in Functions} \cup {<<f, g>> : f, g \in Functions} :
                   Behaviors(role, functions)
              \/ \E name \in OperationNames : BehaviorOperation(role, name)
  BY <1>4, <1>5, <1>10
<1>11. CASE \/ \E name \in OperationNames : Operation(name) \/ GuardOperation(name)
            \/ \E name \in AttributeNames : Attribute(name)
            \/ \E observer \in Observers : ObserveAll(observer) \/ ObserveNamed(observer)
            \/ \E does \in HookResults : Validator(does)
            \/ Finalizer
  BY <1>6, <1>7, <1>8, <1>9, <1>11
<1>12. QED BY ONLY DeclareMember, <1>10, <1>11 DEF DeclareMember

\* The end of an element and of a definition, and what follows it.
LEMMA LifecycleLists ==
  ASSUME WellNamed, WellListed, WellFormed(Nat, m), ListInv,
         \/ Close \/ Finalize
         \/ \E root \in Roots : RedefineAs(root)
         \/ \E around \in Surroundings : SubmachineState(around)
  PROVE  ListInv'
<1>1. Naming(Nat) /\ Listed(m) /\ \A s \in Surroundings : Listed(s)
  BY DEF WellNamed, WellListed, ListInv, Listed
<1>2. ASSUME Listed(m'), phase' # "defined" PROVE ListInv'
  BY <1>2 DEF Listed, ListInv
<1>3. CASE Close
  <2>1. Len(m.stack) > 1 /\ phase' # "defined"
    BY <1>3 DEF Close
  <2>2. CASE ~InTransition
    <3>1. m' = Pop(m)
      BY <1>3, <2>2 DEF Close
    <3>2. QED BY <1>1, <1>2, <2>1, <3>1, ElementClosed
  <2>3. CASE InOwnTransition
    <3>1. m' = CloseTransition(m) /\ IsTransition(m, Top(m))
      BY <1>3, <2>3 DEF Close, InOwnTransition, InTransition
    <3>2. QED BY <1>1, <1>2, <2>1, <3>1, TransitionClosed
  <2>4. CASE InTransition /\ ~InOwnTransition
    <3>1. m' = ClosePoint(m) /\ IsTransition(m, Top(m)) /\ Last(Top(m)) = "transition"
      BY <1>3, <2>4 DEF Close, InOwnTransition, InTransition
    <3>2. QED BY <1>1, <1>2, <2>1, <3>1, PointClosed
  <2>5. QED BY <2>2, <2>3, <2>4 DEF InOwnTransition
<1>4. CASE Finalize
  <2>1. CASE phase' = "panicked" /\ m' = m
    BY <1>1, <1>2, <2>1
  <2>2. CASE ~(phase' = "panicked" /\ m' = m)
    <3>1. m' = FinalizeModel(m) /\ m.stack = <<m.root>>
      BY <1>4, <2>2 DEF Finalize
    <3>2. Listed(m') /\ Complete(m')
      BY <1>1, <3>1, FinalizedListed
    <3>3. QED BY <3>2 DEF ListInv, Listed
  <2>3. QED BY <2>1, <2>2
<1>5. ASSUME NEW root \in Roots, RedefineAs(root) PROVE ListInv'
  <2>1. m' = Rebase(m, root) /\ IsRoot(root) /\ phase' = "declaring"
    BY <1>5, DefinitionAssumption DEF RedefineAs, Again
  <2>2. Listed(m')
    BY <1>1, <2>1, RebasedListed DEF ListInv
  <2>3. QED BY <1>2, <2>1, <2>2
<1>6. ASSUME NEW around \in Surroundings, SubmachineState(around) PROVE ListInv'
  <2>1. m' = PartialSubmachineState(around, Submachine, m) /\ around.stack = <<around.root>> /\ phase' = "declaring"
    BY <1>6, DefinitionAssumption DEF SubmachineState, Again
  <2>2. \A q \in DOMAIN around.members : ~IsStrictPrefix(Append(around.root, Submachine), q)
    BY DEF WellListed
  <2>3. Listed(m')
    BY <1>1, <2>1, <2>2, SubmachineListed DEF ListInv
  <2>4. QED BY <1>2, <2>1, <2>3
<1>7. QED BY <1>3, <1>4, <1>5, <1>6

\* In a list where nothing is twice, something is once or not at all.
LEMMA Occurrences ==
  ASSUME NEW list \in Seq(Name), IsInjective(list), NEW x
  PROVE  Cardinality({i \in DOMAIN list : list[i] = x}) = IF x \in ToSet(list) THEN 1 ELSE 0
<1> DEFINE places == {i \in DOMAIN list : list[i] = x}
<1>1. ToSet(list) = {list[i] : i \in DOMAIN list}
  BY DEF ToSet
<1>2. CASE x \in ToSet(list)
  <2>1. PICK i \in DOMAIN list : list[i] = x
    BY <1>1, <1>2
  <2>2. places = {i}
    BY <2>1 DEF IsInjective
  <2>3. Cardinality({i}) = 1
    BY FS_Singleton
  <2>4. QED BY <1>2, <2>2, <2>3
<1>3. CASE x \notin ToSet(list)
  <2>1. places = {}
    BY <1>1, <1>3
  <2>2. QED BY <1>3, <2>1, FS_EmptySet
<1>4. QED BY <1>2, <1>3

\* Every transition of a finalized model is listed once by its source and by no other vertex,
\* whatever was declared twice, named, renumbered, redefined or embedded in between: while it
\* is open nothing lists it, what its source lists it does only once, and the finalization
\* completes the lists.
THEOREM SourcesList ==
  ASSUME WellNamed, WellListed
  PROVE  Spec => []ListedBySource
<1>1. Init => ListInv
  BY DEF Init, ListInv, WellListed
<1>2. ModelInv /\ ListInv /\ [Next]_vars => ListInv'
  <2> SUFFICES ASSUME ModelInv, ListInv, [Next]_vars PROVE ListInv'
    OBVIOUS
  <2>1. WellFormed(Nat, m) /\ Listed(m)
    BY DEF ModelInv, ListInv, Listed
  <2>2. CASE DeclareVertex \/ DeclareTransition \/ DeclareMember
    <3>1. Listed(m') /\ phase' # "defined"
      BY <2>1, <2>2, VertexLists, TransitionLists, MemberLists
    <3>2. QED BY <3>1 DEF Listed, ListInv
  <2>3. CASE \/ Close \/ Finalize
             \/ \E root \in Roots : RedefineAs(root)
             \/ \E around \in Surroundings : SubmachineState(around)
    BY <2>1, <2>3, LifecycleLists
  <2>4. CASE UNCHANGED vars
    BY <2>4 DEF vars, ListInv
  <2>5. QED BY <2>2, <2>3, <2>4 DEF Next
<1>3. ModelInv /\ ListInv => ListedBySource
  <2> SUFFICES ASSUME ModelInv, ListInv, phase = "defined",
                      NEW t \in Members(m, "transition"), NEW v \in Members(m, "state") \cup Members(m, "vertex")
               PROVE  Cardinality({i \in DOMAIN m.members[v].transitions : m.members[v].transitions[i] = t})
                        = IF m.members[t].source = v THEN 1 ELSE 0
    BY DEF ListedBySource
  <2>1. WellFormed(Nat, m) /\ v \in Vertices(m)
    BY DEF ModelInv, Vertices
  <2>2. /\ m.members[v].transitions \in Seq(Name) /\ IsInjective(m.members[v].transitions)
        /\ t \in ToSet(m.members[v].transitions) => m.members[t].source = v
    BY <2>1, StructureFields DEF ListInv, Listing
  <2>3. m.members[t].source = v => t \in ToSet(m.members[v].transitions)
    BY <2>1 DEF ListInv, Complete
  <2>4. Cardinality({i \in DOMAIN m.members[v].transitions : m.members[v].transitions[i] = t})
          = IF t \in ToSet(m.members[v].transitions) THEN 1 ELSE 0
    BY <2>2, Occurrences
  <2>5. QED BY <2>2, <2>3, <2>4
<1>4. QED BY <1>1, <1>2, <1>3, ModelInvariant, PTL DEF Spec
=============================================================================
