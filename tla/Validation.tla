----------------------------- MODULE Validation -----------------------------
(***************************************************************************)
(* What the default validator accepts (model_validation.rs).  Every check  *)
(* is an operator on a finalized model; the first that fails is the one    *)
(* reported, which makes no difference here.                               *)
(***************************************************************************)
EXTENDS Builder

IsModelEndpoint(m, q) == q = m.root \/ IsVertex(m, q)

HasDirectChildState(m, q) == \E s \in Members(m, "state") : Front(s) = q

Histories == {"shallow_history", "deep_history"}

\* A member of the machine itself: its name has no further segment.
IsModelMemberName(m, q) == Len(q) = Len(m.root) + 1 /\ IsPrefix(m.root, q)

\* The innermost submachine state above a name.
EnclosingSubmachineBoundary(m, q) ==
  LET above == {i \in 1 .. Len(q) - 1 : HasKind(m, SubSeq(q, 1, i), {"submachine"})}
  IN  IF above = {} THEN None ELSE SubSeq(q, 1, Max(above))

-----------------------------------------------------------------------------
(* The machine and its states *)

ValidInitials(m) ==
  /\ m.initial \in DOMAIN m.members
  /\ \A s \in Members(m, "state") : m.members[s].initial \in DOMAIN m.members \cup {None}

ValidateCompositeTransitionTargets(m) ==
  \A t \in Members(m, "transition") :
    LET target == m.members[t].target
    IN  HasKind(m, target, States \ {"final"}) /\ HasDirectChildState(m, target)
          => m.members[target].initial # None

ValidateStateHistoryCardinality(m) ==
  \A s \in Members(m, "state"), kind \in Histories :
    Cardinality({v \in Members(m, "vertex") : Front(v) = s /\ m.members[v].kind = kind}) <= 1

ValidFinal(m, s) ==
  m.members[s].kind = "final" =>
    /\ \A field \in {"transitions", "entry", "exit", "activities", "deferred"} : m.members[s][field] = <<>>
    /\ m.members[s].initial = None /\ ~HasDirectChildState(m, s)

-----------------------------------------------------------------------------
(* Declarations: operations, attributes, behaviours, constraints *)

ValidateMemberOwner(m, q) == Front(q) = m.root \/ Front(q) \in DOMAIN m.members

ValidateBehaviorOwner(m, b) ==
  LET role == m.members[b].role
  IN  IF role = "none" THEN IsListed(m, b)
      ELSE /\ Front(b) \in DOMAIN m.members /\ List(role) \in DOMAIN m.members[Front(b)]
           /\ Contains(m.members[Front(b)][List(role)], b)

ValidateConstraintOwner(m, c) ==
  IsTransition(m, Front(c)) /\ (m.members[Front(c)].guard = c \/ m.members[c].timed)

\* The operation of a behaviour, of a guard or of a call.
ValidateOperationReference(m, q, kind) ==
  IsModelMemberName(m, q) /\ Is(m, q, "operation") /\ m.members[q].kind = kind

ValidMember(m, q) ==
  CASE m.members[q].is \in {"operation", "attribute"} -> IsModelMemberName(m, q)
    [] m.members[q].is = "behavior" ->
         /\ ValidateBehaviorOwner(m, q)
         /\ m.members[q].operation # None => ValidateOperationReference(m, m.members[q].operation, "action")
    [] m.members[q].is = "constraint" ->
         /\ ValidateConstraintOwner(m, q)
         /\ m.members[q].operation # None => ValidateOperationReference(m, m.members[q].operation, "guard")
    [] OTHER -> TRUE

-----------------------------------------------------------------------------
(* Transitions *)

ValidateOnCallOperations(m, t) ==
  \A i \in DOMAIN m.members[t].events :
    Head(m.members[t].events[i]) = Call
      => ValidateOperationReference(m, Tail(m.members[t].events[i]), "action")

ValidateTopLevelTransitionSource(m, t) ==
  ~(m.members[t].source = m.root /\ m.members[t].target # None /\ m.members[t].events = <<>>)

ValidateTransitionTargetOrEffect(m, t) ==
  m.members[t].target = None =>
    /\ ~HasKind(m, m.members[t].source, {"initial", "choice"} \cup Histories)
    /\ m.members[t].effect # <<>>

ValidateTransitionTrigger(m, t) ==
  m.members[t].events # <<>> \/ HasKind(m, m.members[t].source, Pseudostates)

ValidateTimerTransitionSource(m, t) ==
  (\E timer \in {"after", "at", "every"} : Is(m, Append(t, timer), "constraint"))
    => IsState(m, m.members[t].source)

ValidateInitialTransition(m, t) ==
  HasKind(m, m.members[t].source, {"initial"}) =>
    /\ IsPrefix(Front(m.members[t].source), m.members[t].target)
    /\ m.members[t].guard = None
    /\ \A i \in DOMAIN m.members[t].events : m.members[t].events[i] = InitialEvent

ValidatePseudostateTransitionTriggers(m, t) ==
  m.members[t].events # <<>> => ~HasKind(m, m.members[t].source, Pseudostates \ {"initial"})

\* The entry point of a submachine state, not entered from inside it.
ValidateEntryPointTarget(m, t) ==
  LET source   == m.members[t].source
      target   == m.members[t].target
      boundary == Front(target)
  IN  HasKind(m, target, {"entry_point"}) /\ IsVertex(m, source) /\ ~HasKind(m, source, {"entry_point"}) =>
        /\ HasKind(m, boundary, {"submachine"})
        /\ HasKind(m, source, {"exit_point"}) \/ source = boundary \/ ~IsPrefix(boundary, source)

ValidateExitPointHandler(m, t) ==
  HasKind(m, m.members[t].source, {"exit_point"}) => EnclosingSubmachineBoundary(m, m.members[t].source) # None

\* A submachine is left by its exit points and entered by its entry points, unless from within.
ValidateSubmachineBoundary(m, t) ==
  LET source == m.members[t].source
      target == m.members[t].target
      around == EnclosingSubmachineBoundary(m, source)
      into   == EnclosingSubmachineBoundary(m, target)
      exits  == HasKind(m, source, {"exit_point"})
  IN  target # None =>
        /\ around = None \/ IsPrefix(around, Front(t)) \/ exits
        /\ around = None \/ into = around \/ (into # None /\ IsPrefix(around, into)) \/ exits
        /\ \/ into = None \/ around = into \/ IsPrefix(into, Front(t))
           \/ HasKind(m, target, {"entry_point"}) \/ exits

ValidTransition(m, t) ==
  /\ IsModelEndpoint(m, m.members[t].source)
  /\ m.members[t].target = None \/ IsModelEndpoint(m, m.members[t].target)
  /\ ValidateOnCallOperations(m, t)
  /\ ValidateTopLevelTransitionSource(m, t)
  /\ ValidateTransitionTargetOrEffect(m, t)
  /\ ValidateTransitionTrigger(m, t)
  /\ ValidateTimerTransitionSource(m, t)
  /\ ValidateInitialTransition(m, t)
  /\ ValidatePseudostateTransitionTriggers(m, t)
  /\ ValidateEntryPointTarget(m, t)
  /\ ValidateExitPointHandler(m, t)
  /\ ValidateSubmachineBoundary(m, t)

-----------------------------------------------------------------------------
(* Pseudostates *)

ValidateEntryPointDeclaration(m, v) ==
  /\ Len(m.members[v].transitions) = 1
  /\ LET t == m.members[m.members[v].transitions[1]]
     IN  /\ t.guard = None /\ t.target # None
         /\ ~HasKind(m, t.target, {"entry_point", "exit_point"})
         /\ IsPrefix(Front(v), t.target)

ValidateHistoryDeclaration(m, v) ==
  /\ Front(v) # m.root /\ m.members[v].transitions # <<>>
  /\ \A t \in ToSet(m.members[v].transitions) :
       m.members[t].target = None \/ IsPrefix(Front(v), m.members[t].target)

\* The last branch of a choice has no guard, every other one has.
ValidChoice(m, v) ==
  LET branches == m.members[v].transitions
  IN  /\ branches # <<>>
      /\ \A i \in DOMAIN branches : m.members[branches[i]].guard = None <=> i = Len(branches)

ValidVertex(m, v) ==
  CASE m.members[v].kind = "initial"     -> Len(m.members[v].transitions) <= 1
    [] m.members[v].kind = "entry_point" -> ValidateEntryPointDeclaration(m, v)
    [] m.members[v].kind \in Histories   -> ValidateHistoryDeclaration(m, v)
    [] m.members[v].kind = "choice"      -> ValidChoice(m, v)
    [] OTHER                             -> TRUE

-----------------------------------------------------------------------------

ValidateModel(m) ==
  /\ Len(m.root) = 1
  /\ ValidInitials(m)
  /\ ValidateCompositeTransitionTargets(m)
  /\ \A q \in DOMAIN m.members : ValidMember(m, q) /\ ValidateMemberOwner(m, q)
  /\ ValidateStateHistoryCardinality(m)
  /\ \A t \in Members(m, "transition") : ValidTransition(m, t)
  /\ \A v \in Members(m, "vertex") : ValidVertex(m, v)
  /\ \A s \in Members(m, "state") : ValidFinal(m, s)
=============================================================================
