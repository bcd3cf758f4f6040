--------------------------- MODULE MCInterpreter ----------------------------
(***************************************************************************)
(* Interpreter on a machine with a composite state box (b1, and b2 around  *)
(* b21 and b22; a choice and both histories), a submachine state drive     *)
(* (d1, d2, the final state dend, an entry and an exit point) and a state  *)
(* idle beside them.  There is a guarded transition from every state to    *)
(* every vertex that validation allows it to target, with one event for    *)
(* each target, and the event work, which several levels handle or defer.  *)
(***************************************************************************)
EXTENDS Interpreter, TLC

CONSTANTS
  root, idle, box, b1, b2, b21, b22, drive, d1, d2, dend,
  rootInitial, boxInitial, b2Initial, driveInitial,
  pick, boxShallow, boxDeep, warm, hatch,
  work,
  Targets,    \* the pairs' targets
  Sources     \* and sources

MCParent ==
  (root :> Nothing) @@ (idle :> root) @@ (box :> root) @@ (b1 :> box) @@ (b2 :> box)
  @@ (b21 :> b2) @@ (b22 :> b2) @@ (drive :> root) @@ (d1 :> drive) @@ (d2 :> drive)
  @@ (dend :> drive) @@ (rootInitial :> root) @@ (boxInitial :> box) @@ (b2Initial :> b2)
  @@ (driveInitial :> drive) @@ (pick :> box) @@ (boxShallow :> box) @@ (boxDeep :> box)
  @@ (warm :> drive) @@ (hatch :> drive)

MCAncestors ==
  LET up[v \in DOMAIN MCParent] == {v} \cup (IF v = root THEN {} ELSE up[MCParent[v]])
  IN  [v \in Names |-> up[v]]

MCKind ==
  [v \in Vertices |->
     CASE v \in {rootInitial, boxInitial, b2Initial, driveInitial} -> "initial"
       [] v = drive -> "submachine" [] v = dend -> "final" [] v = pick -> "choice"
       [] v = boxShallow -> "shallow" [] v = boxDeep -> "deep"
       [] v = warm -> "entry" [] v = hatch -> "exit" [] OTHER -> "state"]

MCInitial ==
  [s \in {root, idle, box, b1, b2, b21, b22, drive, d1, d2, dend} |->
     CASE s = root -> rootInitial [] s = box -> boxInitial [] s = b2 -> b2Initial
       [] s = drive -> driveInitial [] OTHER -> Nothing]

MCDefers == [s \in DOMAIN MCInitial |-> IF s \in {b2, b22} THEN {work} ELSE {}]

T(s, v, E, g, o) == [source |-> s, target |-> v, events |-> E, guarded |-> g, owner |-> o]

\* The event that asks for v.
To(v) == <<"to", v>>

Pair(s, v) == T(s, v, {To(v)}, TRUE, s)

Pairs == {p \in Sources \X Targets : ValidTransition(Pair(p[1], p[2]))}

MCEventNames == {To(v) : v \in Targets} \cup {work}

\* The transitions beside the pairs.
Others(v) ==
  CASE v = rootInitial  -> <<T(v, idle, {InitialEvent}, FALSE, v)>>
    [] v = boxInitial   -> <<T(v, b1, {InitialEvent}, FALSE, v)>>
    [] v = b2Initial    -> <<T(v, b21, {InitialEvent}, FALSE, v)>>
    [] v = driveInitial -> <<T(v, d1, {InitialEvent}, FALSE, v)>>
    [] v = pick         -> <<T(v, b22, {}, TRUE, v), T(v, idle, {}, FALSE, v)>>
    [] v = boxShallow   -> <<T(v, b2, {}, TRUE, v)>>
    [] v = boxDeep -> <<T(v, b22, {}, FALSE, v)>>
    [] v = warm         -> <<T(v, d2, {}, FALSE, v)>>
    [] v = hatch        -> <<T(v, Nothing, {}, FALSE, drive), T(v, idle, {}, AbortBound > 0, drive)>>
    [] v = root         -> <<T(v, b21, {work}, TRUE, v)>>
    [] v = idle         -> <<T(v, Nothing, {AnyEvent}, TRUE, v), T(v, b2, {work}, TRUE, root)>>
    [] v = box          -> <<T(v, idle, {work}, TRUE, root), T(v, Nothing, {AnyEvent}, TRUE, v)>>
    [] v = b21          -> <<T(v, b22, {work}, TRUE, v), T(v, b1, {work, AnyEvent}, TRUE, b2)>>
    [] v = b22          -> <<T(v, b21, {work}, TRUE, b2)>>
    [] v = drive        -> <<T(v, idle, {FinalEvent}, TRUE, root)>>
    [] v = d1           -> <<T(v, dend, {work}, FALSE, v)>>
    [] OTHER            -> <<>>

MCOutgoing ==
  [v \in Names |->
     LET to == SelectSeq(<<root, idle, box, b1, b2, b21, b22, drive, d1, d2, dend, pick,
                           boxShallow, boxDeep, warm, hatch>>,
                         LAMBDA w : <<v, w>> \in Pairs)
     IN  Others(v) \o [i \in DOMAIN to |-> Pair(v, to[i])]]

\* The hypotheses of the theorems of InterpreterProofs hold of this machine.
ASSUME WaysOn /\ WaysBack /\ (AbortBound = 0 => Completed)
=============================================================================
