----------------------------- MODULE Hierarchy ------------------------------
(***************************************************************************)
(* The names of a model's states and pseudostates as a tree (path.rs), and *)
(* the states that a transition between two of them leaves and enters      *)
(* (model.rs, calculate_path_static).  A name is a member of Vertices, its *)
(* dirname is Parent, and a prefix of it is one of Ancestors.              *)
(***************************************************************************)
EXTENDS SequencesExt

CONSTANTS
  Vertices,   \* qualified names of the states and pseudostates
  Root,       \* the machine's own name, "/Machine"
  Nothing,    \* the empty string: dirname of the machine, target of an internal transition
  Parent,     \* dirname
  Ancestors   \* the names on the way from a name to the root, its own included

Names == Vertices \cup {Root}

NamesOrNothing == Names \cup {Nothing}

ASSUME HierarchyAssumption ==
  /\ Root \notin Vertices /\ Nothing \notin Names
  /\ Parent \in [Names -> Names \cup {Nothing}]
  /\ \A v \in Names : Parent[v] = Nothing <=> v = Root
  /\ Ancestors \in [Names -> SUBSET Names]
  /\ Ancestors[Root] = {Root}
  /\ \A v \in Names : IsFiniteSet(Ancestors[v])
  /\ \A v \in Vertices : v \notin Ancestors[Parent[v]] /\ Ancestors[v] = {v} \cup Ancestors[Parent[v]]

Dirname(v) == IF v = Nothing THEN Nothing ELSE Parent[v]

\* is_ancestor_or_equal, for names of single-byte characters.
IsAncestorOrEqual(a, d) == a = d \/ (d # Nothing /\ (a = Nothing \/ a \in Ancestors[d]))

Lca(a, b) ==
  LET lca[p \in NamesOrNothing \X NamesOrNothing] ==
        LET x == p[1] y == p[2]
        IN  IF x = y THEN Dirname(x)
            ELSE IF Nothing \in {x, y} THEN IF x = Nothing THEN y ELSE x
            ELSE IF Dirname(x) = Dirname(y) THEN Dirname(x)
            ELSE IF IsAncestorOrEqual(x, y) THEN x
            ELSE IF IsAncestorOrEqual(y, x) THEN y
            ELSE lca[<<Dirname(x), Dirname(y)>>]
  IN  lca[<<a, b>>]

\* The names from v upwards, top and what is above it left out.
Below(top, v) ==
  LET up[u \in NamesOrNothing] ==
        IF u \in {top, Nothing} THEN <<>> ELSE <<u>> \o up[Dirname(u)]
  IN  up[v]

\* Mutant of CalculatePath: leaving reaches the common ancestor and enters it again.
PathThroughAncestor(source, target) ==
  IF source = target THEN [exit |-> <<source>>, enter |-> <<target>>]
  ELSE [exit |-> Below(Dirname(Lca(source, target)), source),
        enter |-> Reverse(Below(Lca(source, target), target))]

CalculatePath(source, target) ==
  IF source = target THEN [exit |-> <<source>>, enter |-> <<target>>]
  ELSE [exit |-> Below(Lca(source, target), source),
        enter |-> Reverse(Below(Lca(source, target), target))]
=============================================================================
