---------------------------- MODULE MCDefinition ----------------------------
(* Definitions that start from small machines and add an element or two. *)
EXTENDS Definition

Up(n, names) == [up |-> n, down |-> names]

Starting(model, path) == ClosePoint(PartialTarget(PartialInitial(model), path))

Go(model, path) == CloseTransition(PartialTarget(PartialTrigger(PartialTransition(model), <<"go">>), path))

InState(model, name) == PartialState(model, name)

\* An operation that state a calls on entry, an observer of everything, and a transition a -> b.
Plain ==
  LET op == PartialOperation(Starting(NewModel(<<"m">>), Up(0, <<"a">>)), "op")
      a  == PartialBehaviorOperation(InState(op, "a"), "entry", "op")
      b  == Pop(InState(Pop(Go(a, Up(1, <<"b">>))), "b"))
  IN  PartialObserve(b, "o", {})

\* State a listens to a call, to an attribute and to a timer, with a guard that is an operation.
Reacting ==
  LET ops     == PartialGuardOperation(PartialOperation(Starting(NewModel(<<"m">>), Up(0, <<"a">>)), "op"), "may")
      called  == PartialGuardOperationRef(PartialOnCall(PartialTransition(InState(ops, "a")), "op"), "may")
      set     == PartialOnSet(PartialTransition(CloseTransition(PartialTarget(called, Up(1, <<"b">>)))), "level")
      timed   == PartialTimer(PartialTransition(CloseTransition(PartialTarget(set, Up(0, <<>>)))), "after")
      machine == Pop(InState(Pop(CloseTransition(PartialTarget(timed, Up(1, <<"b">>)))), "b"))
  IN  PartialValidator(PartialObserve(machine, "o", {<<Call, "m", "op">>}), "accepts")

\* A state with a choice and a history, in a machine with an entry and an exit point.
Nested ==
  LET entered == ClosePoint(PartialTarget(AddConnectionPointVertex(Starting(NewModel(<<"m">>), Up(0, <<"a">>)),
                                                                   "x", "entry_point", TRUE), Up(0, <<"a", "b">>)))
      point   == AddConnectionPointVertex(entered, "y", "exit_point", FALSE)
      inner   == Pop(InState(Starting(InState(point, "a"), Up(0, <<"b">>)), "b"))
      history == ClosePoint(PartialTarget(PartialHistory(inner, "h", "deep_history", TRUE), Up(0, <<"b">>)))
      branch  == PartialGuard(PartialTarget(PartialTransition(PartialChoice(history, "c")), Up(1, <<"y">>)))
      last    == PartialTarget(PartialTransition(CloseTransition(branch)), Up(0, <<"b">>))
  IN  Pop(Go(Pop(CloseTransition(last)), Up(0, <<"c">>)))

\* Two states, the second one and its transition still open.
Open ==
  LET b == Pop(InState(Starting(NewModel(<<"m">>), Up(0, <<"a">>)), "b"))
  IN  PartialTrigger(PartialTransition(InState(b, "a")), <<"go">>)

MCSkeletons == {Plain, Reacting, Nested, Open}

\* A machine that starts in the embedded one, and one that enters and leaves it by its points.
MCSurroundings ==
  LET enter == PartialTrigger(PartialTransition(InState(Starting(NewModel(<<"p">>), Up(0, <<"w">>)), "w")), <<"go">>)
      w     == Pop(CloseTransition(SelectEntryPoint(PartialTarget(enter, Up(1, <<"sub">>)), "x")))
      leave == PartialSource(PartialTransition(w), Up(0, <<"sub", "y">>))
  IN  {StartingIn, CloseTransition(PartialTarget(leave, Up(0, <<"w">>)))}

MCRoots == {<<"n">>}
MCPaths == {Up(0, <<"a">>), Up(1, <<"b">>)}
MCEvents == {<<"go">>}
MCObservables == {<<"a", "entry">>}

\* What the proofs assume, up to the numbers that occur here.
ASSUME MCWellNamed ==
  /\ Naming(0 .. MaxNumber)
  /\ \A s \in Skeletons \cup Surroundings :
       /\ WellFormed(0 .. MaxNumber, s) /\ HooksNumbered(0 .. MaxNumber, s, Elements)
       /\ Listing(0 .. MaxNumber, s) /\ OpenApart(s)
  /\ VertexNames \cap OperationSegments = {}
  /\ \A s \in Surroundings : \A q \in DOMAIN s.members : ~IsStrictPrefix(Append(s.root, Submachine), q)
=============================================================================
