----------------------------- MODULE MCRuntime ------------------------------
(***************************************************************************)
(* Runtime on a machine with a submachine state, busy, that defers "set"   *)
(* and has a child, inner, that defers "work"; ready and the final state   *)
(* end are beside busy.                                                    *)
(***************************************************************************)
EXTENDS Runtime, TLC

CONSTANTS
  t1, t2,                         \* threads
  work1, go, call1, call2,        \* events
  set1, initial, final,
  root, busy, inner, ready, end, off

MCStates == {busy, inner, ready, end}

MCAncestors ==
  [v \in States \cup {root, off} |->
     (off :> {} @@ root :> {root} @@ busy :> {busy, root} @@ inner :> {inner, busy, root}
      @@ ready :> {ready, root} @@ end :> {end, root})[v]]

MCDefers == {<<inner, "work">>, <<busy, "set">>}

\* Where the machine is small: busy itself defers "work".
BusyDefers == {<<busy, "work">>}

NameOf ==
  (work1 :> "work") @@ (go :> "go") @@ (call1 :> "call1")
  @@ (call2 :> "call2") @@ (set1 :> "set") @@ (initial :> "initial") @@ (final :> "final")

MCCompletions == {initial, final}

\* No two events of the instances have one name and are both deferred.
ASSUME NamesApart == DeferredApart

\* Where an instance has one thread it is the only caller.
ASSUME CallerAlone == Cardinality(Threads) = 1 => SingleCaller

\* Two threads doing the same thing can be exchanged.
ThreadSymmetry == Permutations(Threads)
=============================================================================
