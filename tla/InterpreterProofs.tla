------------------------- MODULE InterpreterProofs --------------------------
(***************************************************************************)
(* The interpreter keeps its configuration, for every hierarchy, every     *)
(* list of transitions that validation lets through and every outcome of   *)
(* the guards.                                                             *)
(***************************************************************************)
EXTENDS Interpreter, SequenceFacts, FiniteSetTheorems

-----------------------------------------------------------------------------
(***************************************************************************)
(* The tree of names                                                       *)
(***************************************************************************)

Depth(v) == Cardinality(Ancestors[v])

\* A name lies one step deeper than its parent.
LEMMA Depths ==
  /\ \A v \in Names : Depth(v) \in Nat
  /\ \A v \in Vertices : Parent[v] \in Names /\ Depth(v) = Depth(Parent[v]) + 1
<1>1. \A v \in Names : IsFiniteSet(Ancestors[v])
  BY HierarchyAssumption
<1>2. \A v \in Names : Depth(v) \in Nat
  BY <1>1, FS_CardinalityType DEF Depth
<1>3. ASSUME NEW v \in Vertices PROVE Parent[v] \in Names /\ Depth(v) = Depth(Parent[v]) + 1
  <2>1. v \in Names /\ v # Root /\ Parent[v] \in Names
    BY HierarchyAssumption DEF Names
  <2>2. Ancestors[v] = Ancestors[Parent[v]] \cup {v} /\ v \notin Ancestors[Parent[v]]
    BY HierarchyAssumption
  <2>3. IsFiniteSet(Ancestors[Parent[v]])
    BY <1>1, <2>1
  <2>4. Cardinality(Ancestors[Parent[v]] \cup {v}) = Cardinality(Ancestors[Parent[v]]) + 1
    BY <2>2, <2>3, FS_AddElement
  <2> QED
    BY <2>1, <2>2, <2>4 DEF Depth
<1> QED
  BY <1>2, <1>3

\* A set that holds the root and, with a name, those right below it holds every name.
LEMMA TreeInduction ==
  ASSUME NEW S, Root \in S, \A v \in Vertices : Parent[v] \in S => v \in S
  PROVE  \A v \in Names : v \in S
<1> SUFFICES ASSUME NEW x \in Names, x \notin S PROVE FALSE
  OBVIOUS
<1> DEFINE T == {Depth(v) : v \in {u \in Names : u \notin S}}
<1>1. T \in SUBSET Nat /\ T # {}
  BY Depths
<1>2. PICK m \in T : \A k \in T : m <= k
  <2> HIDE DEF T
  <2> QED BY <1>1, LeastElement
<1>3. PICK v \in Names : v \notin S /\ m = Depth(v)
  OBVIOUS
<1>4. v \in Vertices /\ Parent[v] \notin S
  BY <1>3 DEF Names
<1>5. Parent[v] \in Names /\ Depth(v) = Depth(Parent[v]) + 1 /\ Depth(Parent[v]) \in Nat
  BY <1>4, Depths
<1>6. Depth(Parent[v]) \in T
  BY <1>4, <1>5
<1>7. m <= Depth(Parent[v])
  BY <1>2, <1>6
<1> HIDE DEF T
<1> QED
  BY <1>3, <1>5, <1>7

\* The ancestors of a name are names, the root and itself among them.
LEMMA Above ==
  ASSUME NEW v \in Names
  PROVE  Ancestors[v] \subseteq Names /\ v \in Ancestors[v] /\ Root \in Ancestors[v]
<1>1. \A u \in Names : Ancestors[u] \subseteq Names
  BY HierarchyAssumption
<1>2. \A u \in Names : u \in Ancestors[u]
  BY HierarchyAssumption DEF Names
<1> DEFINE S == {u \in Names : Root \in Ancestors[u]}
<1>3. Root \in S
  BY HierarchyAssumption DEF Names
<1>4. \A u \in Vertices : Parent[u] \in S => u \in S
  BY HierarchyAssumption DEF Names
<1>5. \A u \in Names : u \in S
  <2> HIDE DEF S
  <2> QED BY <1>3, <1>4, TreeInduction
<1> QED
  BY <1>1, <1>2, <1>5

\* An ancestor's ancestors are ancestors.
LEMMA Transitive ==
  ASSUME NEW v \in Names, NEW u \in Ancestors[v]
  PROVE  Ancestors[u] \subseteq Ancestors[v]
<1> DEFINE S == {w \in Names : \A x \in Ancestors[w] : Ancestors[x] \subseteq Ancestors[w]}
<1>1. Root \in S
  BY HierarchyAssumption DEF Names
<1>2. ASSUME NEW w \in Vertices, Parent[w] \in S PROVE w \in S
  <2>1. w \in Names /\ Ancestors[w] = {w} \cup Ancestors[Parent[w]]
    BY HierarchyAssumption DEF Names
  <2> QED
    BY <1>2, <2>1
<1>3. \A w \in Names : w \in S
  <2> HIDE DEF S
  <2> QED BY <1>1, <1>2, TreeInduction
<1> QED
  BY <1>3

\* Nothing between a name and its parent.
LEMMA ProperAncestor ==
  ASSUME NEW v \in Names, NEW u \in Ancestors[v], u # v
  PROVE  /\ v \in Vertices /\ Parent[v] \in Names
         /\ u \in Ancestors[Parent[v]] /\ v \notin Ancestors[Parent[v]]
         /\ Ancestors[v] = {v} \cup Ancestors[Parent[v]]
BY HierarchyAssumption, Depths DEF Names

\* An ancestor is not as deep.
LEMMA Shallower ==
  ASSUME NEW v \in Names, NEW u \in Ancestors[v]
  PROVE  u \in Names /\ (u # v => Depth(u) < Depth(v)) /\ Depth(u) <= Depth(v)
<1>1. u \in Names /\ Ancestors[u] \subseteq Ancestors[v]
  BY Above, Transitive
<1>2. IsFiniteSet(Ancestors[v]) /\ Depth(u) \in Nat /\ Depth(v) \in Nat
  BY HierarchyAssumption, Depths, <1>1
<1>3. Depth(u) <= Depth(v)
  BY <1>1, <1>2, FS_Subset DEF Depth
<1>4. ASSUME u # v PROVE Depth(u) < Depth(v)
  <2>1. v \in Vertices /\ u \in Ancestors[Parent[v]] /\ Parent[v] \in Names
    BY <1>4, ProperAncestor
  <2>2. Ancestors[u] \subseteq Ancestors[Parent[v]]
    BY <2>1, Transitive
  <2>3. IsFiniteSet(Ancestors[Parent[v]]) /\ Depth(Parent[v]) \in Nat
    BY HierarchyAssumption, Depths, <2>1
  <2>4. Depth(u) <= Depth(Parent[v])
    BY <2>2, <2>3, FS_Subset DEF Depth
  <2>5. Depth(v) = Depth(Parent[v]) + 1
    BY <2>1, Depths
  <2> QED
    BY <1>2, <2>3, <2>4, <2>5
<1> QED
  BY <1>1, <1>3, <1>4

\* Names that are ancestors of one another are equal.
LEMMA Antisymmetric ==
  ASSUME NEW u \in Names, NEW v \in Names, u \in Ancestors[v], v \in Ancestors[u]
  PROVE  u = v
<1> SUFFICES ASSUME u # v PROVE FALSE
  OBVIOUS
<1>1. Depth(u) < Depth(v) /\ Depth(v) < Depth(u)
  BY Shallower
<1>2. Depth(u) \in Nat /\ Depth(v) \in Nat
  BY Depths
<1> QED
  BY <1>1, <1>2

\* Two names have a last common ancestor.
LEMMA CommonAncestor ==
  ASSUME NEW x \in Names, NEW y \in Names
  PROVE  \E c \in Names : Ancestors[c] = Ancestors[x] \cap Ancestors[y]
<1> DEFINE S == {u \in Names : \E c \in Names : Ancestors[c] = Ancestors[u] \cap Ancestors[y]}
<1>1. Root \in S
  <2>1. Root \in Names /\ Root \in Ancestors[y] /\ Ancestors[Root] = {Root}
    BY Above, HierarchyAssumption DEF Names
  <2>2. Ancestors[Root] = Ancestors[Root] \cap Ancestors[y]
    BY <2>1
  <2> QED
    BY <2>1, <2>2
<1>2. ASSUME NEW u \in Vertices, Parent[u] \in S PROVE u \in S
  <2>1. u \in Names /\ Ancestors[u] = {u} \cup Ancestors[Parent[u]]
    BY HierarchyAssumption DEF Names
  <2>2. CASE u \in Ancestors[y]
    <3>1. Ancestors[u] = Ancestors[u] \cap Ancestors[y]
      BY <2>1, <2>2, Transitive
    <3> QED
      BY <2>1, <3>1
  <2>3. CASE u \notin Ancestors[y]
    <3>1. Ancestors[u] \cap Ancestors[y] = Ancestors[Parent[u]] \cap Ancestors[y]
      BY <2>1, <2>3
    <3> QED
      BY <1>2, <2>1, <3>1
  <2> QED
    BY <2>2, <2>3
<1>3. \A u \in Names : u \in S
  <2> HIDE DEF S
  <2> QED BY <1>1, <1>2, TreeInduction
<1> QED
  BY <1>3

\* Of two ancestors of a name one is an ancestor of the other.
LEMMA Linear ==
  ASSUME NEW v \in Names, NEW x \in Ancestors[v], NEW y \in Ancestors[v]
  PROVE  x \in Ancestors[y] \/ y \in Ancestors[x]
<1> DEFINE S == {w \in Names : \A a, b \in Ancestors[w] : a \in Ancestors[b] \/ b \in Ancestors[a]}
<1>1. Root \in S
  BY HierarchyAssumption DEF Names
<1>2. ASSUME NEW w \in Vertices, Parent[w] \in S PROVE w \in S
  <2>1. w \in Names /\ Ancestors[w] = {w} \cup Ancestors[Parent[w]]
    BY HierarchyAssumption DEF Names
  <2> QED
    BY <1>2, <2>1
<1>3. \A w \in Names : w \in S
  <2> HIDE DEF S
  <2> QED BY <1>1, <1>2, TreeInduction
<1> QED
  BY <1>3

-----------------------------------------------------------------------------
(***************************************************************************)
(* lca                                                                     *)
(***************************************************************************)

Meet(x, y) == CHOOSE c \in Names : Ancestors[c] = Ancestors[x] \cap Ancestors[y]

LEMMA MeetType ==
  ASSUME NEW x \in Names, NEW y \in Names
  PROVE  Meet(x, y) \in Names /\ Ancestors[Meet(x, y)] = Ancestors[x] \cap Ancestors[y]
BY CommonAncestor DEF Meet

\* The last common ancestor, when that of u, v is also that of x, y.
LEMMA MeetSame ==
  ASSUME NEW x \in Names, NEW y \in Names, NEW c \in Names,
         Ancestors[c] = Ancestors[x] \cap Ancestors[y]
  PROVE  Meet(x, y) = c
<1>1. Meet(x, y) \in Names /\ Ancestors[Meet(x, y)] = Ancestors[c]
  BY MeetType
<1>2. c \in Ancestors[c] /\ Meet(x, y) \in Ancestors[Meet(x, y)]
  BY <1>1, Above
<1> QED
  BY <1>1, <1>2, Antisymmetric

\* The equation of the recursion of lca.
LcaOf(f, x, y) ==
  IF x = y THEN Dirname(x)
  ELSE IF Nothing \in {x, y} THEN IF x = Nothing THEN y ELSE x
  ELSE IF Dirname(x) = Dirname(y) THEN Dirname(x)
  ELSE IF IsAncestorOrEqual(x, y) THEN x
  ELSE IF IsAncestorOrEqual(y, x) THEN y
  ELSE f[<<Dirname(x), Dirname(y)>>]

\* Parents of different names that are not ancestors of one another.
LEMMA ParentsMeet ==
  ASSUME NEW x \in Names, NEW y \in Names, x \notin Ancestors[y], y \notin Ancestors[x]
  PROVE  /\ x \in Vertices /\ y \in Vertices
         /\ Parent[x] \in Names /\ Parent[y] \in Names
         /\ Ancestors[x] \cap Ancestors[y] = Ancestors[Parent[x]] \cap Ancestors[Parent[y]]
<1>1. x \in Vertices /\ y \in Vertices
  BY Above DEF Names
<1>2. /\ Ancestors[x] = {x} \cup Ancestors[Parent[x]]
      /\ Ancestors[y] = {y} \cup Ancestors[Parent[y]]
  BY <1>1, HierarchyAssumption
<1>3. Parent[x] \in Names /\ Parent[y] \in Names
  BY <1>1, Depths
<1>4. y \in Ancestors[y] /\ x \in Ancestors[x]
  BY Above
<1>5. Ancestors[x] \cap Ancestors[y] = Ancestors[Parent[x]] \cap Ancestors[Parent[y]]
  BY <1>2, <1>4
<1> QED
  BY <1>1, <1>3, <1>5

\* The names of two siblings meet in their parent.
LEMMA SiblingsMeet ==
  ASSUME NEW x \in Vertices, NEW y \in Vertices, x # y, Parent[x] = Parent[y]
  PROVE  Ancestors[x] \cap Ancestors[y] = Ancestors[Parent[x]] /\ Parent[x] \in Names
<1>1. /\ Ancestors[x] = {x} \cup Ancestors[Parent[x]] /\ x \notin Ancestors[Parent[x]]
      /\ Ancestors[y] = {y} \cup Ancestors[Parent[x]] /\ y \notin Ancestors[Parent[x]]
  BY HierarchyAssumption
<1> QED
  BY <1>1, Depths

\* Different names, the root among them, have different parents or are siblings.
LEMMA LcaOfNames ==
  ASSUME NEW f, NEW x \in Names, NEW y \in Names, x # y,
         (Parent[x] \in Names /\ Parent[y] \in Names /\ Parent[x] # Parent[y]) =>
            f[<<Parent[x], Parent[y]>>] = Meet(Parent[x], Parent[y])
  PROVE  LcaOf(f, x, y) = Meet(x, y)
<1>1. /\ Nothing \notin Names /\ Dirname(x) = Parent[x] /\ Dirname(y) = Parent[y]
      /\ IsAncestorOrEqual(x, y) <=> x \in Ancestors[y]
      /\ IsAncestorOrEqual(y, x) <=> y \in Ancestors[x]
  BY HierarchyAssumption DEF Dirname, IsAncestorOrEqual, Names
<1>2. CASE Parent[x] = Parent[y]
  <2>1. x \in Vertices /\ y \in Vertices
    BY <1>2, HierarchyAssumption DEF Names
  <2>2. Meet(x, y) = Parent[x]
    BY <1>2, <2>1, SiblingsMeet, MeetSame
  <2> QED
    BY <1>1, <1>2, <2>2 DEF LcaOf
<1>3. CASE Parent[x] # Parent[y] /\ x \in Ancestors[y]
  <2>1. Ancestors[x] = Ancestors[x] \cap Ancestors[y]
    BY <1>3, Transitive
  <2>2. Meet(x, y) = x
    BY <2>1, MeetSame
  <2> QED
    BY <1>1, <1>3, <2>2 DEF LcaOf
<1>4. CASE Parent[x] # Parent[y] /\ x \notin Ancestors[y] /\ y \in Ancestors[x]
  <2>1. Ancestors[y] = Ancestors[x] \cap Ancestors[y]
    BY <1>4, Transitive
  <2>2. Meet(x, y) = y
    BY <2>1, MeetSame
  <2> QED
    BY <1>1, <1>4, <2>2 DEF LcaOf
<1>5. CASE Parent[x] # Parent[y] /\ x \notin Ancestors[y] /\ y \notin Ancestors[x]
  <2>1. /\ Parent[x] \in Names /\ Parent[y] \in Names
        /\ Ancestors[x] \cap Ancestors[y] = Ancestors[Parent[x]] \cap Ancestors[Parent[y]]
    BY <1>5, ParentsMeet
  <2>2. Meet(x, y) = Meet(Parent[x], Parent[y])
    <3> DEFINE c == Meet(Parent[x], Parent[y])
    <3>1. c \in Names /\ Ancestors[c] = Ancestors[x] \cap Ancestors[y]
      BY <2>1, MeetType
    <3>2. \A d \in Names : Ancestors[d] = Ancestors[x] \cap Ancestors[y] => Meet(x, y) = d
      BY MeetSame
    <3> QED
      BY <3>1, <3>2
  <2>3. LcaOf(f, x, y) = f[<<Parent[x], Parent[y]>>]
    BY <1>1, <1>5 DEF LcaOf
  <2> QED
    BY <1>5, <2>1, <2>2, <2>3
<1> QED
  BY <1>2, <1>3, <1>4, <1>5

\* lca of two names: where their ancestors meet, or the parent of both.
LEMMA LcaIs ==
  ASSUME NEW a \in Names, NEW b \in Names
  PROVE  Lca(a, b) = IF a = b THEN Parent[a] ELSE Meet(a, b)
<1> DEFINE F(f) == [p \in NamesOrNothing \X NamesOrNothing |-> LcaOf(f, p[1], p[2])]
           lca == CHOOSE f : f = F(f)
           g == [p \in NamesOrNothing \X NamesOrNothing |->
                   IF p[1] = p[2] THEN Dirname(p[1])
                   ELSE IF Nothing \in {p[1], p[2]} THEN IF p[1] = Nothing THEN p[2] ELSE p[1]
                   ELSE Meet(p[1], p[2])]
<1>1. ASSUME NEW x \in NamesOrNothing, NEW y \in NamesOrNothing PROVE g[<<x, y>>] = LcaOf(g, x, y)
  <2>1. CASE x = y
    BY <2>1 DEF LcaOf
  <2>2. CASE x # y /\ Nothing \in {x, y}
    BY <2>2 DEF LcaOf
  <2>3. CASE x # y /\ Nothing \notin {x, y}
    <3>1. x \in Names /\ y \in Names /\ Nothing \notin Names
      BY <2>3, HierarchyAssumption DEF NamesOrNothing
    <3>2. \A u, v \in Names : u # v => g[<<u, v>>] = Meet(u, v)
      BY <3>1 DEF NamesOrNothing
    <3>3. (Parent[x] \in Names /\ Parent[y] \in Names /\ Parent[x] # Parent[y]) =>
            g[<<Parent[x], Parent[y]>>] = Meet(Parent[x], Parent[y])
      BY <3>2
    <3> HIDE DEF g
    <3>4. LcaOf(g, x, y) = Meet(x, y)
      BY ONLY <2>3, <3>1, <3>3, LcaOfNames
    <3> QED
      BY <2>3, <3>1, <3>2, <3>4
  <2> QED
    BY <2>1, <2>2, <2>3
<1>2. g = F(g)
  <2> HIDE DEF g
  <2>1. g = [p \in NamesOrNothing \X NamesOrNothing |-> g[p]]
    BY DEF g
  <2> QED
    BY <1>1, <2>1
<1>3. lca = F(lca)
  <2> HIDE DEF F, g
  <2> QED BY <1>2
<1>4. \A x, y \in Names : x # y => lca[<<x, y>>] = LcaOf(lca, x, y)
  <2> HIDE DEF lca
  <2> QED BY <1>3 DEF NamesOrNothing
<1> DEFINE S == {x \in Names : \A y \in Names : x # y => lca[<<x, y>>] = Meet(x, y)}
<1>5. Root \in S
  <2> HIDE DEF lca
  <2>1. Root \in Names /\ Parent[Root] = Nothing /\ Nothing \notin Names
    BY HierarchyAssumption DEF Names
  <2>2. ASSUME NEW y \in Names, Root # y PROVE lca[<<Root, y>>] = Meet(Root, y)
    <3>1. lca[<<Root, y>>] = LcaOf(lca, Root, y)
      BY <1>4, <2>1, <2>2
    <3>2. LcaOf(lca, Root, y) = Meet(Root, y)
      BY ONLY <2>1, <2>2, LcaOfNames
    <3> QED
      BY <3>1, <3>2
  <2> QED
    BY <2>1, <2>2
<1>6. ASSUME NEW x \in Vertices, Parent[x] \in S PROVE x \in S
  <2> HIDE DEF lca
  <2>1. x \in Names
    BY DEF Names
  <2>2. ASSUME NEW y \in Names, x # y PROVE lca[<<x, y>>] = Meet(x, y)
    <3>1. lca[<<x, y>>] = LcaOf(lca, x, y)
      BY <1>4, <2>1, <2>2
    <3>2. (Parent[x] \in Names /\ Parent[y] \in Names /\ Parent[x] # Parent[y]) =>
            lca[<<Parent[x], Parent[y]>>] = Meet(Parent[x], Parent[y])
      BY <1>6
    <3>3. LcaOf(lca, x, y) = Meet(x, y)
      BY ONLY <2>1, <2>2, <3>2, LcaOfNames
    <3> QED
      BY <3>1, <3>3
  <2> QED
    BY <2>1, <2>2
<1>7. \A x \in Names : x \in S
  <2> HIDE DEF S
  <2> QED BY <1>5, <1>6, TreeInduction
<1>8. Lca(a, b) = lca[<<a, b>>]
  BY DEF Lca, LcaOf
<1>9. CASE a # b
  BY <1>7, <1>8, <1>9
<1>10. CASE a = b
  <2>1. lca[<<a, b>>] = LcaOf(lca, a, b)
    <3> HIDE DEF lca
    <3> QED BY <1>3 DEF NamesOrNothing
  <2> QED
    BY <1>8, <1>10, <2>1, HierarchyAssumption DEF LcaOf, Dirname, Names
<1> QED
  BY <1>9, <1>10

-----------------------------------------------------------------------------
(***************************************************************************)
(* The way up and the way down                                             *)
(***************************************************************************)

\* A sequence whose first element is x and whose others are those of s.
LEMMA Prepended ==
  ASSUME NEW E, NEW s \in Seq(E), NEW x \in E, NEW f \in [1 .. Len(s) + 1 -> E],
         f[1] = x, \A i \in 1 .. Len(s) : f[i + 1] = s[i]
  PROVE  f = <<x>> \o s
<1>1. <<x>> \o s \in Seq(E) /\ Len(<<x>> \o s) = Len(s) + 1 /\ Len(s) \in Nat
  OBVIOUS
<1>2. \A i \in 1 .. Len(s) + 1 : (<<x>> \o s)[i] = IF i = 1 THEN x ELSE s[i - 1]
  OBVIOUS
<1>3. f \in Seq(E) /\ Len(f) = Len(s) + 1
  BY <1>1
<1>4. ASSUME NEW i \in 1 .. Len(s) + 1 PROVE f[i] = (<<x>> \o s)[i]
  <2>1. CASE i = 1
    BY <1>2, <2>1
  <2>2. CASE i # 1
    <3>1. i - 1 \in 1 .. Len(s) /\ (i - 1) + 1 = i
      BY <1>1, <2>2
    <3>2. f[(i - 1) + 1] = s[i - 1]
      BY <3>1
    <3> QED
      BY <1>2, <2>2, <3>1, <3>2
  <2> QED
    BY <2>1, <2>2
<1> QED
  BY <1>1, <1>3, <1>4

\* The ancestor of u at the depth k.
AtDepth(u, k) == CHOOSE a : a \in {b \in Ancestors[u] : Depth(b) = k}

LEMMA AtDepthUp ==
  ASSUME NEW u \in Vertices
  PROVE  /\ AtDepth(u, Depth(u)) = u
         /\ \A k : k # Depth(u) => AtDepth(u, k) = AtDepth(Parent[u], k)
<1>1. u \in Names /\ u \in Ancestors[u] /\ Ancestors[u] = {u} \cup Ancestors[Parent[u]]
  BY Above, HierarchyAssumption DEF Names
<1>2. {b \in Ancestors[u] : Depth(b) = Depth(u)} = {u}
  <2>1. \A b \in Ancestors[u] : b # u => Depth(b) < Depth(u) /\ Depth(b) \in Nat
    BY <1>1, Shallower, Depths
  <2>2. Depth(u) \in Nat
    BY <1>1, Depths
  <2>3. \A b \in Ancestors[u] : Depth(b) = Depth(u) => b = u
    BY <2>1, <2>2
  <2> QED
    BY <1>1, <2>3
<1>3. AtDepth(u, Depth(u)) = u
  BY <1>2 DEF AtDepth
<1>4. ASSUME NEW k, k # Depth(u) PROVE AtDepth(u, k) = AtDepth(Parent[u], k)
  <2>1. {b \in Ancestors[u] : Depth(b) = k} = {b \in Ancestors[Parent[u]] : Depth(b) = k}
    BY <1>1, <1>4
  <2> QED
    BY <2>1 DEF AtDepth
<1> QED
  BY <1>3, <1>4

\* Every depth from one to that of u has an ancestor of u.
LEMMA AtDepthType ==
  ASSUME NEW u \in Names, NEW k \in 1 .. Depth(u)
  PROVE  AtDepth(u, k) \in Names
<1> DEFINE S == {v \in Names : \A j \in 1 .. Depth(v) : AtDepth(v, j) \in Names}
<1>1. Root \in S
  <2>1. Root \in Names /\ Ancestors[Root] = {Root} /\ Depth(Root) = 1
    BY HierarchyAssumption, FS_Singleton DEF Names, Depth
  <2>2. {b \in Ancestors[Root] : Depth(b) = 1} = {Root}
    BY <2>1
  <2>3. AtDepth(Root, 1) = Root
    BY <2>2 DEF AtDepth
  <2>4. \A j \in 1 .. Depth(Root) : j = 1
    BY <2>1
  <2> QED
    BY <2>1, <2>3, <2>4
<1>2. ASSUME NEW v \in Vertices, Parent[v] \in S PROVE v \in S
  <2>1. /\ v \in Names /\ Parent[v] \in Names /\ Depth(v) = Depth(Parent[v]) + 1
        /\ Depth(Parent[v]) \in Nat
    BY Depths DEF Names
  <2>2. ASSUME NEW j \in 1 .. Depth(v) PROVE AtDepth(v, j) \in Names
    <3>1. CASE j = Depth(v)
      BY <2>1, <3>1, AtDepthUp
    <3>2. CASE j # Depth(v)
      <4>1. j \in 1 .. Depth(Parent[v])
        BY <2>1, <3>2
      <4> QED
        BY <1>2, <3>2, <4>1, AtDepthUp
    <3> QED
      BY <3>1, <3>2
  <2> QED
    BY <2>1, <2>2
<1>3. \A v \in Names : v \in S
  <2> HIDE DEF S
  <2> QED BY <1>1, <1>2, TreeInduction
<1> QED
  BY <1>3

\* Below climbs one name at a time.
LEMMA BelowStep ==
  ASSUME NEW top \in Names, NEW v \in Names
  PROVE  /\ v = top => Below(top, v) = <<>>
         /\ v # top /\ v \in Vertices => Below(top, v) = <<v>> \o Below(top, Parent[v])
<1> DEFINE F(f) == [u \in NamesOrNothing |->
                      IF u \in {top, Nothing} THEN <<>> ELSE <<u>> \o f[Dirname(u)]]
           up == CHOOSE f : f = F(f)
           stop(u) == IF top \in Ancestors[u] THEN Depth(top) ELSE 0
           g == [u \in NamesOrNothing |->
                   IF u = Nothing THEN <<>>
                   ELSE [i \in 1 .. Depth(u) - stop(u) |-> AtDepth(u, Depth(u) - i + 1)]]
<1>1. Nothing \notin Names /\ Depth(top) \in Nat
  BY HierarchyAssumption, Depths
<1>2. ASSUME NEW u \in Names
      PROVE  /\ Depth(u) \in Nat /\ stop(u) \in Nat /\ stop(u) <= Depth(u)
             /\ g[u] \in Seq(Names) /\ Len(g[u]) = Depth(u) - stop(u)
             /\ \A i \in 1 .. Depth(u) - stop(u) : g[u][i] = AtDepth(u, Depth(u) - i + 1)
  <2>1. Depth(u) \in Nat /\ stop(u) \in Nat /\ stop(u) <= Depth(u)
    BY <1>1, Depths, Shallower
  <2>2. g[u] = [i \in 1 .. Depth(u) - stop(u) |-> AtDepth(u, Depth(u) - i + 1)]
    BY <1>1 DEF NamesOrNothing
  <2>3. \A i \in 1 .. Depth(u) - stop(u) : AtDepth(u, Depth(u) - i + 1) \in Names
    <3> HIDE DEF stop
    <3> TAKE i \in 1 .. Depth(u) - stop(u)
    <3>1. Depth(u) - i + 1 \in 1 .. Depth(u)
      BY <2>1
    <3> QED
      BY <3>1, AtDepthType
  <2>4. Depth(u) - stop(u) \in Nat
    <3> HIDE DEF stop
    <3> QED BY <2>1
  <2> HIDE DEF g, stop
  <2>5. ASSUME NEW n \in Nat, n = Depth(u) - stop(u)
        PROVE  g[u] \in Seq(Names) /\ Len(g[u]) = n
    <3>1. g[u] \in [1 .. n -> Names]
      BY <2>2, <2>3, <2>5
    <3> QED
      BY <3>1
  <2>6. \A i \in 1 .. Depth(u) - stop(u) : g[u][i] = AtDepth(u, Depth(u) - i + 1)
    BY <2>2
  <2> QED
    BY <2>1, <2>4, <2>5, <2>6
<1>3. g[Nothing] = <<>>
  BY DEF NamesOrNothing
<1>4. ASSUME NEW u \in Vertices, u # top PROVE g[u] = <<u>> \o g[Parent[u]]
  <2> DEFINE p == Parent[u]
  <2>1. /\ u \in Names /\ p \in Names /\ Depth(u) = Depth(p) + 1 /\ u # top
        /\ Ancestors[u] = {u} \cup Ancestors[p]
    BY <1>4, Depths, HierarchyAssumption DEF Names
  <2>2. stop(u) = stop(p)
    BY <2>1
  <2>3. /\ Depth(p) \in Nat /\ stop(p) \in Nat /\ stop(p) <= Depth(p) /\ g[p] \in Seq(Names)
        /\ Len(g[p]) = Depth(p) - stop(p)
        /\ \A i \in 1 .. Depth(p) - stop(p) : g[p][i] = AtDepth(p, Depth(p) - i + 1)
    BY <1>2, <2>1
  <2>4. /\ g[u] \in Seq(Names) /\ Len(g[u]) = Depth(u) - stop(u)
        /\ \A i \in 1 .. Depth(u) - stop(u) : g[u][i] = AtDepth(u, Depth(u) - i + 1)
    BY <1>2, <2>1
  <2> HIDE DEF g, stop, p
  <2>5. Depth(u) - stop(u) = Len(g[p]) + 1
    BY <2>1, <2>2, <2>3
  <2>6. g[u] \in [1 .. Len(g[p]) + 1 -> Names]
    BY <2>4, <2>5
  <2>7. g[u][1] = u
    <3>1. 1 \in 1 .. Depth(u) - stop(u) /\ Depth(u) - 1 + 1 = Depth(u)
      BY <2>1, <2>3, <2>5
    <3>2. g[u][1] = AtDepth(u, Depth(u))
      BY <2>4, <3>1
    <3> QED
      BY <3>2, AtDepthUp
  <2>8. ASSUME NEW i \in 1 .. Len(g[p]) PROVE g[u][i + 1] = g[p][i]
    <3>1. /\ i + 1 \in 1 .. Depth(u) - stop(u) /\ i \in 1 .. Depth(p) - stop(p)
          /\ Depth(u) - (i + 1) + 1 = Depth(p) - i + 1 /\ Depth(p) - i + 1 # Depth(u)
      BY <2>1, <2>3, <2>5
    <3>2. g[u][i + 1] = AtDepth(u, Depth(p) - i + 1)
      BY <2>4, <3>1
    <3>3. AtDepth(u, Depth(p) - i + 1) = AtDepth(p, Depth(p) - i + 1)
      BY <3>1, AtDepthUp DEF p
    <3> QED
      BY <2>3, <3>1, <3>2, <3>3
  <2> QED
    BY <2>1, <2>3, <2>6, <2>7, <2>8, Prepended DEF p
<1>5. ASSUME Root # top PROVE g[Root] = <<Root>> \o g[Nothing]
  <2>1. Root \in Names /\ Ancestors[Root] = {Root} /\ Depth(Root) = 1
    BY HierarchyAssumption, FS_Singleton DEF Names, Depth
  <2>2. stop(Root) = 0
    BY <1>5, <2>1
  <2>3. /\ g[Root] \in Seq(Names) /\ Len(g[Root]) = Depth(Root) - stop(Root)
        /\ \A i \in 1 .. Depth(Root) - stop(Root) : g[Root][i] = AtDepth(Root, Depth(Root) - i + 1)
    BY <1>2, <2>1
  <2>4. AtDepth(Root, 1) = Root
    <3>1. {b \in Ancestors[Root] : Depth(b) = 1} = {Root}
      BY <2>1
    <3> QED
      BY <3>1 DEF AtDepth
  <2> HIDE DEF g, stop
  <2>5. Len(g[Root]) = 1 /\ g[Root][1] = Root
    BY <2>1, <2>2, <2>3, <2>4
  <2> QED
    BY <1>3, <2>3, <2>5
<1>6. g[top] = <<>>
  <2>1. top \in Ancestors[top]
    BY Above
  <2>2. stop(top) = Depth(top)
    BY <2>1
  <2>3. g[top] \in Seq(Names) /\ Len(g[top]) = Depth(top) - stop(top)
    BY <1>2
  <2> HIDE DEF g, stop
  <2> QED
    BY <1>1, <2>2, <2>3
<1>7. g = F(g)
  <2>1. ASSUME NEW u \in NamesOrNothing
        PROVE  g[u] = IF u \in {top, Nothing} THEN <<>> ELSE <<u>> \o g[Dirname(u)]
    <3> HIDE DEF g
    <3>1. CASE u \in {top, Nothing}
      BY <1>3, <1>6, <3>1
    <3>2. CASE u \notin {top, Nothing} /\ u = Root
      <4>1. Dirname(Root) = Nothing
        BY HierarchyAssumption DEF Dirname, Names
      <4> QED
        BY <1>5, <3>2, <4>1
    <3>3. CASE u \notin {top, Nothing} /\ u # Root
      <4>1. u \in Vertices /\ Dirname(u) = Parent[u]
        BY <3>3 DEF NamesOrNothing, Names, Dirname
      <4> QED
        BY <1>4, <3>3, <4>1
    <3> QED
      BY <3>1, <3>2, <3>3
  <2> HIDE DEF g
  <2>2. g = [u \in NamesOrNothing |-> g[u]]
    BY DEF g
  <2> QED
    BY <2>1, <2>2
<1>8. up = F(up)
  <2> HIDE DEF F, g
  <2> QED BY <1>7
<1>9. Below(top, v) = up[v] /\ Below(top, Parent[v]) = up[Parent[v]]
  BY DEF Below
<1> HIDE DEF up
<1>10. v = top => up[v] = <<>>
  BY <1>8 DEF NamesOrNothing
<1>11. ASSUME v # top, v \in Vertices PROVE up[v] = <<v>> \o up[Parent[v]]
  <2>1. v \notin {top, Nothing} /\ v \in NamesOrNothing /\ Dirname(v) = Parent[v]
    BY <1>1, <1>11 DEF NamesOrNothing, Dirname
  <2> QED
    BY <1>8, <2>1
<1> QED
  BY <1>9, <1>10, <1>11

\* From v up to just below top there are v's ancestors that are not top's.
LEMMA BelowType ==
  ASSUME NEW v \in Names, NEW top \in Ancestors[v]
  PROVE  /\ Below(top, v) \in Seq(Ancestors[v] \ Ancestors[top])
         /\ v # top => /\ v \in Vertices /\ top \in Ancestors[Parent[v]] /\ Parent[v] \in Names
                       /\ Below(top, v) # <<>> /\ Head(Below(top, v)) = v
                       /\ Tail(Below(top, v)) = Below(top, Parent[v])
<1> DEFINE Good(w) == top \in Ancestors[w] => Below(top, w) \in Seq(Ancestors[w] \ Ancestors[top])
           S == {w \in Names : Good(w)}
<1>1. top \in Names
  BY Above
<1>2. ASSUME NEW w \in Names, w = top PROVE Good(w)
  <2>1. Below(top, top) = <<>>
    BY <1>1, BelowStep
  <2> QED
    BY <1>2, <2>1
<1>3. ASSUME NEW w \in Vertices, w # top, top \in Ancestors[w]
      PROVE  /\ w \in Names /\ top \in Ancestors[Parent[w]] /\ Parent[w] \in Names
             /\ w \notin Ancestors[top] /\ w \in Ancestors[w]
             /\ Ancestors[Parent[w]] \subseteq Ancestors[w]
             /\ Below(top, w) = <<w>> \o Below(top, Parent[w])
  <2>1. w \in Names /\ w \in Ancestors[w]
    BY Above DEF Names
  <2>2. top \in Ancestors[Parent[w]] /\ Parent[w] \in Names /\ Ancestors[Parent[w]] \subseteq Ancestors[w]
    BY <1>3, <2>1, ProperAncestor
  <2>3. w \notin Ancestors[top]
    BY <1>1, <1>3, <2>1, Antisymmetric
  <2> QED
    BY <1>1, <1>3, <2>1, <2>2, <2>3, BelowStep
<1>4. Root \in S
  <2>1. Root \in Names /\ Ancestors[Root] = {Root}
    BY HierarchyAssumption DEF Names
  <2>2. CASE Root = top
    BY <1>2, <2>1, <2>2
  <2>3. CASE Root # top
    BY <2>1, <2>3
  <2> QED
    BY <2>2, <2>3
<1>5. ASSUME NEW w \in Vertices, Parent[w] \in S PROVE w \in S
  <2>1. w \in Names
    BY DEF Names
  <2>2. CASE w = top
    BY <1>2, <2>1, <2>2
  <2>3. CASE top \notin Ancestors[w]
    BY <2>1, <2>3
  <2>4. CASE w # top /\ top \in Ancestors[w]
    <3>1. Below(top, Parent[w]) \in Seq(Ancestors[Parent[w]] \ Ancestors[top])
      BY <1>3, <1>5, <2>4
    <3>2. Below(top, Parent[w]) \in Seq(Ancestors[w] \ Ancestors[top])
      <4>1. (Ancestors[Parent[w]] \ Ancestors[top]) \subseteq (Ancestors[w] \ Ancestors[top])
        BY <1>3, <2>4
      <4> QED
        BY <3>1, <4>1
    <3>3. w \in Ancestors[w] \ Ancestors[top]
      BY <1>3, <2>4
    <3>4. <<w>> \o Below(top, Parent[w]) \in Seq(Ancestors[w] \ Ancestors[top])
      BY <3>2, <3>3
    <3>5. Good(w)
      BY <1>3, <2>4, <3>4
    <3> QED
      BY <2>1, <3>5
  <2> QED
    BY <2>2, <2>3, <2>4
<1>6. \A w \in Names : w \in S
  <2> HIDE DEF S
  <2> QED BY <1>4, <1>5, TreeInduction
<1>7. Below(top, v) \in Seq(Ancestors[v] \ Ancestors[top])
  BY <1>6
<1>8. ASSUME v # top
      PROVE  /\ v \in Vertices /\ top \in Ancestors[Parent[v]] /\ Parent[v] \in Names
             /\ Below(top, v) # <<>> /\ Head(Below(top, v)) = v
             /\ Tail(Below(top, v)) = Below(top, Parent[v])
  <2>1. v \in Vertices
    BY <1>8, ProperAncestor
  <2>2. /\ top \in Ancestors[Parent[v]] /\ Parent[v] \in Names
        /\ Below(top, v) = <<v>> \o Below(top, Parent[v])
    BY <1>3, <1>8, <2>1
  <2>3. Below(top, Parent[v]) \in Seq(Ancestors[Parent[v]] \ Ancestors[top])
    BY <1>6, <2>2
  <2>4. \A t \in Seq(Ancestors[Parent[v]] \ Ancestors[top]) :
          <<v>> \o t # <<>> /\ Head(<<v>> \o t) = v /\ Tail(<<v>> \o t) = t
    OBVIOUS
  <2> QED
    BY <2>1, <2>2, <2>3, <2>4
<1> QED
  BY <1>7, <1>8

\* From v up to below m and from there up to below top.
LEMMA BelowJoins ==
  ASSUME NEW v \in Names, NEW m \in Ancestors[v], NEW top \in Ancestors[m]
  PROVE  Below(m, v) \o Below(top, m) = Below(top, v)
<1> DEFINE S == {w \in Names : m \in Ancestors[w] => Below(m, w) \o Below(top, m) = Below(top, w)}
<1>1. m \in Names /\ top \in Names
  BY Above
<1>2. Below(m, m) \o Below(top, m) = Below(top, m)
  <2>1. Below(top, m) \in Seq(Ancestors[m] \ Ancestors[top])
    BY <1>1, BelowType
  <2>2. Below(m, m) = <<>>
    BY <1>1, BelowStep
  <2> QED
    BY <2>1, <2>2
<1>3. Root \in S
  <2>1. Root \in Names /\ Ancestors[Root] = {Root}
    BY HierarchyAssumption DEF Names
  <2> QED
    BY <1>2, <2>1
<1>4. ASSUME NEW w \in Vertices, Parent[w] \in S PROVE w \in S
  <2>1. w \in Names /\ w \in Ancestors[w]
    BY Above DEF Names
  <2>2. CASE w = m
    BY <1>2, <2>1, <2>2
  <2>3. CASE m \notin Ancestors[w]
    BY <2>1, <2>3
  <2>4. CASE w # m /\ m \in Ancestors[w]
    <3>1. m \in Ancestors[Parent[w]] /\ Parent[w] \in Names
      BY <2>1, <2>4, ProperAncestor
    <3>2. Below(m, Parent[w]) \o Below(top, m) = Below(top, Parent[w])
      BY <1>4, <3>1
    <3>3. w # top
      BY <1>1, <2>1, <2>4, Antisymmetric
    <3>4. Below(m, w) = <<w>> \o Below(m, Parent[w]) /\ Below(top, w) = <<w>> \o Below(top, Parent[w])
      BY <1>1, <2>1, <2>4, <3>3, BelowStep
    <3>5. /\ Below(m, Parent[w]) \in Seq(Ancestors[Parent[w]] \ Ancestors[m])
          /\ Below(top, m) \in Seq(Ancestors[m] \ Ancestors[top])
      BY <1>1, <3>1, BelowType
    <3>6. \A E, G : \A t \in Seq(E), u \in Seq(G) : (<<w>> \o t) \o u = <<w>> \o (t \o u)
      OBVIOUS
    <3>7. (<<w>> \o Below(m, Parent[w])) \o Below(top, m) = <<w>> \o (Below(m, Parent[w]) \o Below(top, m))
      BY <3>5, <3>6
    <3> QED
      BY <2>1, <3>2, <3>4, <3>7
  <2> QED
    BY <2>2, <2>3, <2>4
<1>5. \A w \in Names : w \in S
  <2> HIDE DEF S
  <2> QED BY <1>3, <1>4, TreeInduction
<1> QED
  BY <1>5

\* The way up ends with b when it goes to just below the parent of b.
LEMMA BelowLast ==
  ASSUME NEW v \in Names, NEW b \in Ancestors[v], b # Root
  PROVE  Below(b, v) \o <<b>> = Below(Parent[b], v)
<1>1. b \in Vertices /\ b \in Names /\ Parent[b] \in Names
  BY Above, Depths DEF Names
<1>2. Parent[b] \in Ancestors[b] /\ b # Parent[b]
  BY <1>1, Above, HierarchyAssumption
<1>3. Below(Parent[b], b) = <<b>> \o Below(Parent[b], Parent[b]) /\ Below(Parent[b], Parent[b]) = <<>>
  BY <1>1, <1>2, BelowStep
<1>4. Below(Parent[b], b) = <<b>>
  BY <1>3
<1> QED
  BY <1>1, <1>2, <1>4, BelowJoins

\* The same names from the top downwards.
Down(top, v) == Reverse(Below(top, v))

\* The way down to a name is the one to its parent and the name.
LEMMA DownStep ==
  ASSUME NEW v \in Names, NEW top \in Ancestors[v]
  PROVE  /\ v = top => Down(top, v) = <<>>
         /\ v # top => Down(top, v) = Append(Down(top, Parent[v]), v)
         /\ Down(top, v) \in Seq(Ancestors[v] \ Ancestors[top])
<1>1. top \in Names
  BY Above
<1>2. v = top => Below(top, v) = <<>>
  BY <1>1, BelowStep
<1>3. Below(top, v) \in Seq(Ancestors[v] \ Ancestors[top])
  BY BelowType
<1>4. v = top => Down(top, v) = <<>>
  BY <1>2 DEF Down, Reverse
<1>5. \A E : \A t \in Seq(E) : Reverse(t) \in Seq(E)
  BY DEF Reverse
<1>6. ASSUME v # top PROVE Down(top, v) = Append(Down(top, Parent[v]), v)
  <2>1. v \in Vertices /\ top \in Ancestors[Parent[v]] /\ Parent[v] \in Names
    BY <1>6, BelowType
  <2>2. Below(top, v) = <<v>> \o Below(top, Parent[v])
    BY <1>1, <1>6, <2>1, BelowStep
  <2>3. Below(top, Parent[v]) \in Seq(Ancestors[Parent[v]] \ Ancestors[top])
    BY <2>1, BelowType
  <2>4. ASSUME NEW E, NEW t \in Seq(E)
        PROVE  Reverse(<<v>> \o t) = Append(Reverse(t), v)
    <3>1. Len(<<v>> \o t) = Len(t) + 1 /\ Len(t) \in Nat
      OBVIOUS
    <3>2. \A i \in 1 .. Len(t) + 1 : (<<v>> \o t)[i] = IF i = 1 THEN v ELSE t[i - 1]
      OBVIOUS
    <3>3. \A i \in 1 .. Len(t) + 1 :
            Reverse(<<v>> \o t)[i] = IF i = Len(t) + 1 THEN v ELSE t[Len(t) - i + 1]
      <4> TAKE i \in 1 .. Len(t) + 1
      <4>1. (Len(t) + 1) - i + 1 \in 1 .. Len(t) + 1
        BY <3>1
      <4>2. Reverse(<<v>> \o t)[i] = (<<v>> \o t)[(Len(t) + 1) - i + 1]
        BY <3>1 DEF Reverse
      <4> QED
        BY <3>1, <3>2, <4>1, <4>2
    <3>4. Reverse(t) \in Seq(E) /\ Len(Reverse(t)) = Len(t)
      BY DEF Reverse
    <3>5. \A i \in 1 .. Len(t) + 1 :
            Append(Reverse(t), v)[i] = IF i = Len(t) + 1 THEN v ELSE t[Len(t) - i + 1]
      <4> TAKE i \in 1 .. Len(t) + 1
      <4>1. Append(Reverse(t), v)[i] = IF i = Len(t) + 1 THEN v ELSE Reverse(t)[i]
        BY <3>4
      <4>2. i # Len(t) + 1 => Reverse(t)[i] = t[Len(t) - i + 1]
        BY <3>1 DEF Reverse
      <4> QED
        BY <4>1, <4>2
    <3>6. Reverse(<<v>> \o t) = [i \in 1 .. Len(t) + 1 |-> Reverse(<<v>> \o t)[i]]
      BY <3>1 DEF Reverse
    <3>7. Append(Reverse(t), v) = [i \in 1 .. Len(t) + 1 |-> Append(Reverse(t), v)[i]]
      <4>1. Append(Reverse(t), v) \in Seq(E \cup {v}) /\ Len(Append(Reverse(t), v)) = Len(t) + 1
        BY <3>1, <3>4
      <4>2. \A G : \A u \in Seq(G) : u = [i \in 1 .. Len(u) |-> u[i]]
        OBVIOUS
      <4> QED
        BY <4>1, <4>2
    <3> QED
      BY <3>3, <3>5, <3>6, <3>7
  <2> QED
    BY <2>2, <2>3, <2>4 DEF Down
<1> QED
  BY <1>3, <1>4, <1>5, <1>6 DEF Down

\* The way down begins with the child of the top that leads to the name.
LEMMA DownHead ==
  ASSUME NEW v \in Names, NEW top \in Ancestors[v], v # top
  PROVE  /\ Down(top, v) # <<>>
         /\ \E c \in Ancestors[v] : /\ c \in Vertices /\ Parent[c] = top /\ Head(Down(top, v)) = c
                                    /\ Tail(Down(top, v)) = Down(c, v)
<1> DEFINE Good(w) ==
             /\ Down(top, w) # <<>>
             /\ \E c \in Ancestors[w] : /\ c \in Vertices /\ Parent[c] = top /\ Head(Down(top, w)) = c
                                        /\ Tail(Down(top, w)) = Down(c, w)
           S == {w \in Names : top \in Ancestors[w] /\ w # top => Good(w)}
<1>1. top \in Names
  BY Above
<1>2. Root \in S
  BY HierarchyAssumption DEF Names
<1>3. ASSUME NEW w \in Vertices, Parent[w] \in S PROVE w \in S
  <2> SUFFICES ASSUME top \in Ancestors[w], w # top PROVE Good(w)
    BY DEF Names
  <2>1. w \in Names /\ w \in Ancestors[w]
    BY Above DEF Names
  <2>2. /\ top \in Ancestors[Parent[w]] /\ Parent[w] \in Names
        /\ Ancestors[w] = {w} \cup Ancestors[Parent[w]] /\ w \notin Ancestors[Parent[w]]
    BY <2>1, ProperAncestor
  <2>3. /\ Down(top, w) = Append(Down(top, Parent[w]), w)
        /\ Down(top, Parent[w]) \in Seq(Ancestors[Parent[w]] \ Ancestors[top])
    BY <2>1, <2>2, DownStep
  <2>4. CASE Parent[w] = top
    <3>1. Down(top, top) = <<>> /\ Down(w, w) = <<>>
      BY <1>1, <2>1, Above, DownStep
    <3>2. Down(top, w) = <<w>>
      BY <2>3, <2>4, <3>1
    <3> QED
      BY <2>1, <2>4, <3>1, <3>2
  <2>5. CASE Parent[w] # top
    <3>1. Down(top, Parent[w]) # <<>>
      BY <1>3, <2>2, <2>5
    <3>2. PICK c \in Ancestors[Parent[w]] :
            /\ c \in Vertices /\ Parent[c] = top /\ Head(Down(top, Parent[w])) = c
            /\ Tail(Down(top, Parent[w])) = Down(c, Parent[w])
      BY <1>3, <2>2, <2>5
    <3>3. \A E : \A t \in Seq(E) : t # <<>> =>
            /\ Append(t, w) # <<>> /\ Head(Append(t, w)) = Head(t)
            /\ Tail(Append(t, w)) = Append(Tail(t), w)
      OBVIOUS
    <3>4. Head(Down(top, w)) = c /\ Tail(Down(top, w)) = Append(Down(c, Parent[w]), w)
          /\ Down(top, w) # <<>>
      BY <2>3, <3>1, <3>2, <3>3
    <3>5. c \in Ancestors[w] /\ c # w
      BY <2>2, <3>2
    <3>6. Down(c, w) = Append(Down(c, Parent[w]), w)
      BY <2>1, <3>5, DownStep
    <3> QED
      BY <3>2, <3>4, <3>5, <3>6
  <2> QED
    BY <2>4, <2>5
<1>4. \A w \in Names : w \in S
  <2> HIDE DEF S
  <2> QED BY <1>2, <1>3, TreeInduction
<1> QED
  BY <1>4

\* Down to m and from there down to a name.
LEMMA DownJoins ==
  ASSUME NEW v \in Names, NEW m \in Ancestors[v], NEW top \in Ancestors[m]
  PROVE  Down(top, m) \o Down(m, v) = Down(top, v)
<1> DEFINE S == {w \in Names : m \in Ancestors[w] => Down(top, m) \o Down(m, w) = Down(top, w)}
<1>1. m \in Names /\ top \in Names /\ Down(top, m) \in Seq(Ancestors[m] \ Ancestors[top])
  BY Above, DownStep
<1>2. Down(top, m) \o Down(m, m) = Down(top, m)
  <2>1. Down(m, m) = <<>>
    BY <1>1, Above, DownStep
  <2> QED
    BY <1>1, <2>1
<1>3. Root \in S
  <2>1. Root \in Names /\ Ancestors[Root] = {Root}
    BY HierarchyAssumption DEF Names
  <2> QED
    BY <1>2, <2>1
<1>4. ASSUME NEW w \in Vertices, Parent[w] \in S PROVE w \in S
  <2>1. w \in Names /\ w \in Ancestors[w]
    BY Above DEF Names
  <2>2. CASE w = m
    BY <1>2, <2>1, <2>2
  <2>3. CASE m \notin Ancestors[w]
    BY <2>1, <2>3
  <2>4. CASE w # m /\ m \in Ancestors[w]
    <3>1. m \in Ancestors[Parent[w]] /\ Parent[w] \in Names
      BY <2>1, <2>4, ProperAncestor
    <3>2. Down(top, m) \o Down(m, Parent[w]) = Down(top, Parent[w])
      BY <1>4, <3>1
    <3>3. w # top /\ top \in Ancestors[w]
      BY <1>1, <2>1, <2>4, Antisymmetric, Transitive
    <3>4. /\ Down(m, w) = Append(Down(m, Parent[w]), w)
          /\ Down(top, w) = Append(Down(top, Parent[w]), w)
          /\ Down(m, Parent[w]) \in Seq(Ancestors[Parent[w]] \ Ancestors[m])
      BY <2>1, <2>4, <3>1, <3>3, DownStep
    <3>5. \A E, G : \A t \in Seq(E), u \in Seq(G) : t \o Append(u, w) = Append(t \o u, w)
      OBVIOUS
    <3>6. Down(top, m) \o Append(Down(m, Parent[w]), w) = Append(Down(top, m) \o Down(m, Parent[w]), w)
      BY <1>1, <3>4, <3>5
    <3> QED
      BY <2>1, <3>2, <3>4, <3>6
  <2> QED
    BY <2>2, <2>3, <2>4
<1>5. \A w \in Names : w \in S
  <2> HIDE DEF S
  <2> QED BY <1>3, <1>4, TreeInduction
<1> QED
  BY <1>5

\* Filtering drops what is before and after the elements in T, when these are adjacent.
LEMMA FilterMiddle ==
  ASSUME NEW E, NEW s \in Seq(E), NEW T, NEW k \in 0 .. Len(s), NEW m \in k .. Len(s),
         \A i \in 1 .. Len(s) : s[i] \in T <=> i > k /\ i <= m
  PROVE  Filter(s, T) = SubSeq(s, k + 1, m)
<1>1. PICK g \in [0 .. Len(s) -> Seq(E)] : Chain(g, s, T, Len(s)) /\ Filter(s, T) = g[Len(s)]
  BY FilterLast
<1> DEFINE S == {n \in 0 .. Len(s) : g[n] = SubSeq(s, k + 1, IF n <= m THEN n ELSE m)}
<1>2. 0 \in S
  <2>1. g[0] = <<>>
    BY <1>1 DEF Chain
  <2>2. SubSeq(s, k + 1, 0) = <<>> /\ 0 <= m
    OBVIOUS
  <2> QED
    BY <2>1, <2>2
<1>3. ASSUME NEW n \in 0 .. Len(s) - 1, n \in S PROVE n + 1 \in S
  <2>1. n + 1 \in 0 .. Len(s) /\ n + 1 # 0 /\ (n + 1) - 1 = n /\ n + 1 \in 1 .. Len(s)
    OBVIOUS
  <2>2. g[n + 1] = IF s[n + 1] \in T THEN Append(g[n], s[n + 1]) ELSE g[n]
    BY <1>1, <2>1 DEF Chain
  <2>3. CASE n + 1 > k /\ n + 1 <= m
    <3>1. g[n + 1] = Append(SubSeq(s, k + 1, n), s[n + 1])
      BY <1>3, <2>1, <2>2, <2>3
    <3>2. Append(SubSeq(s, k + 1, n), s[n + 1]) = SubSeq(s, k + 1, n + 1)
      BY <2>1, <2>3
    <3> QED
      BY <2>1, <2>3, <3>1, <3>2
  <2>4. CASE ~(n + 1 > k)
    <3>1. g[n + 1] = SubSeq(s, k + 1, n) /\ n + 1 <= m
      BY <1>3, <2>1, <2>2, <2>4
    <3>2. SubSeq(s, k + 1, n) = <<>> /\ SubSeq(s, k + 1, n + 1) = <<>>
      BY <2>1, <2>4
    <3> QED
      BY <2>1, <3>1, <3>2
  <2>5. CASE ~(n + 1 <= m)
    <3>1. g[n + 1] = g[n] /\ g[n] = SubSeq(s, k + 1, m)
      BY <1>3, <2>1, <2>2, <2>5
    <3> QED
      BY <2>1, <2>5, <3>1
  <2> QED
    BY <2>3, <2>4, <2>5
<1>4. Len(s) \in S
  <2> HIDE DEF S
  <2>1. Len(s) \in Nat
    OBVIOUS
  <2>2. \A i \in 0 .. Len(s) - 1 : i \in S => i + 1 \in S
    BY <1>3
  <2>3. \A i \in 0 .. Len(s) : i \in S
    BY ONLY <2>1, <2>2, <1>2, SetInduction
  <2> QED BY <2>1, <2>3
<1>5. g[Len(s)] = SubSeq(s, k + 1, m)
  <2>1. g[Len(s)] = SubSeq(s, k + 1, IF Len(s) <= m THEN Len(s) ELSE m)
    BY <1>4
  <2>2. (IF Len(s) <= m THEN Len(s) ELSE m) = m
    OBVIOUS
  <2> QED
    BY <2>1, <2>2
<1> QED
  BY <1>1, <1>5

\* Filtering keeps a sequence of T as it is, and drops a first element not in T.
LEMMA FilterAll ==
  ASSUME NEW T, NEW s \in Seq(T)
  PROVE  Filter(s, T) = s /\ \A x : x \notin T => Filter(<<x>> \o s, T) = s
<1>1. Len(s) \in Nat /\ SubSeq(s, 1, Len(s)) = s
  OBVIOUS
<1>2. Filter(s, T) = s
  <2>1. \A i \in 1 .. Len(s) : s[i] \in T <=> i > 0 /\ i <= Len(s)
    OBVIOUS
  <2>2. Filter(s, T) = SubSeq(s, 0 + 1, Len(s))
    <3>1. 0 \in 0 .. Len(s) /\ Len(s) \in 0 .. Len(s)
      BY <1>1
    <3> QED
      BY <2>1, <3>1, FilterMiddle
  <2> QED
    BY <1>1, <2>2
<1>3. ASSUME NEW x, x \notin T PROVE Filter(<<x>> \o s, T) = s
  <2> DEFINE t == <<x>> \o s
  <2>1. t \in Seq(T \cup {x}) /\ Len(t) = Len(s) + 1
    OBVIOUS
  <2>2. \A i \in 1 .. Len(s) + 1 : t[i] = IF i = 1 THEN x ELSE s[i - 1]
    OBVIOUS
  <2>3. \A i \in 1 .. Len(s) + 1 : i # 1 => i - 1 \in 1 .. Len(s)
    BY <1>1
  <2>4. \A i \in 1 .. Len(s) : s[i] \in T
    OBVIOUS
  <2> HIDE DEF t
  <2>5. \A i \in 1 .. Len(t) : t[i] \in T <=> i > 1 /\ i <= Len(t)
    <3> TAKE i \in 1 .. Len(t)
    <3>1. i \in Nat /\ i >= 1 /\ i \in 1 .. Len(s) + 1
      BY <1>1, <2>1
    <3> QED
      BY <1>3, <2>2, <2>3, <2>4, <3>1
  <2>6. 1 \in 0 .. Len(t) /\ Len(t) \in 1 .. Len(t)
    BY <1>1, <2>1
  <2>7. Filter(t, T) = SubSeq(t, 1 + 1, Len(t))
    BY <2>1, <2>5, <2>6, FilterMiddle
  <2>8. SubSeq(t, 1 + 1, Len(t)) = s
    <3>1. SubSeq(t, 1 + 1, Len(t)) = [i \in 1 .. Len(s) |-> t[i + 1]]
      BY <1>1, <2>1
    <3>2. \A i \in 1 .. Len(s) : t[i + 1] = s[i]
      BY <1>1, <2>2
    <3> QED
      BY <3>1, <3>2
  <2> QED
    BY <2>7, <2>8 DEF t
<1> QED
  BY <1>2, <1>3

\* Filtering drops a last element not in T.
LEMMA FilterButLast ==
  ASSUME NEW T, NEW s \in Seq(T), NEW x, x \notin T
  PROVE  Filter(s \o <<x>>, T) = s
<1> DEFINE t == s \o <<x>>
<1>1. t \in Seq(T \cup {x}) /\ Len(t) = Len(s) + 1 /\ Len(s) \in Nat
  OBVIOUS
<1>2. \A i \in 1 .. Len(s) + 1 : t[i] = IF i = Len(s) + 1 THEN x ELSE s[i]
  OBVIOUS
<1>3. \A i \in 1 .. Len(s) : s[i] \in T
  OBVIOUS
<1>4. SubSeq(t, 1, Len(s)) = s
  OBVIOUS
<1> HIDE DEF t
<1>5. \A i \in 1 .. Len(t) : t[i] \in T <=> i > 0 /\ i <= Len(s)
  BY <1>1, <1>2, <1>3
<1>6. 0 \in 0 .. Len(t) /\ Len(s) \in 0 .. Len(t)
  BY <1>1
<1>7. Filter(t, T) = SubSeq(t, 0 + 1, Len(s))
  BY <1>1, <1>5, <1>6, FilterMiddle
<1> QED
  BY <1>4, <1>7 DEF t

-----------------------------------------------------------------------------
(***************************************************************************)
(* The inductive invariant                                                 *)
(***************************************************************************)

\* The transition may be taken while from is the innermost active vertex: what it
\* leaves first leads from there up to the vertex its own path starts from.
Legal(from, t) ==
  /\ t \in Transitions /\ from \in Names /\ PathKey(t) \in Ancestors[from]
  /\ from # PathKey(t) => t.source = PathKey(t)
  /\ from \in Pseudostates => from = t.source /\ from = PathKey(t) /\ ~Internal(t)

\* The innermost state, or the root, that is active while from is left.
Ground(from) == IF from \in Pseudostates THEN Parent[from] ELSE from

\* Where transitions are never given up half way, the active states are the ones
\* around pos.
At(pos) == Completed => active = Within(pos)

Selecting ==
  /\ currentState \in Regions /\ selecting \in Ancestors[currentState] /\ At(currentState)
  /\ \/ \E e \in EventNames \cup {FinalEvent} : names = <<e, AnyEvent>>
     \/ names = <<InitialEvent, AnyEvent>> /\ currentState = Root
  /\ rest \in Seq({t \in Transitions : Legal(currentState, t)})

\* The path leads up from pos to below top, and then down to the target; a
\* submachine that is entered through an entry point is left before.
Climbing(pos, top) ==
  /\ exits = Below(top, pos) /\ enters = Down(top, transition.target)
  /\ target = transition.target /\ result = transition.target
  /\ At(pos)
  /\ OfKind(target, "entry") /\ Parent[target] # Root => top # Parent[target]

Exiting ==
  /\ transition \in Transitions
  /\ Internal(transition) => exits = <<>> /\ enters = <<>> /\ At(currentState)
  /\ ~Internal(transition) =>
       \E pos \in Regions : \E top \in Ancestors[pos] \cap Ancestors[transition.target] :
         Climbing(pos, top)

\* The path leads down from pos to the result.  Where an entry point targets its
\* own submachine, it names it twice.
Descending(pos) ==
  /\ pos \in Ancestors[result] /\ At(pos)
  /\ \/ enters = Down(pos, result)
     \/ enters = Down(pos, result) \o <<result>> /\ result # pos /\ target = result

Entering ==
  /\ exits = <<>> /\ result \in Names /\ target \in {result, Nothing}
  /\ ~OfKind(result, "initial") /\ ~OfKind(result, "entry")
  /\ target = Nothing => result \in States
  /\ \E pos \in Regions : Descending(pos)

\* A transition that leads on will be among the rest, or the initial transition
\* of the state that a history is in, or an exit point may lead nowhere.
LeadsOn(v, r) ==
  \/ Kind[v] = "exit" /\ ~Completed
  \/ IsHistory(v) /\ InitialOf(Parent[v]) # <<>>
  \/ \E i \in DOMAIN r : ~r[i].guarded /\ ~Internal(r[i])

Leaving ==
  /\ vertex \in Pseudostates /\ ~OfKind(vertex, "initial") /\ ~OfKind(vertex, "entry")
  /\ rest \in Seq(ToSet(Outgoing[vertex])) /\ LeadsOn(vertex, rest)
  /\ At(Parent[vertex])

Stopping == \E pos \in Regions : exits = Below(Root, pos) /\ At(pos)

Where ==
  /\ pc = "idle" => At(currentState)
  /\ pc = "select" => Selecting
  /\ pc = "exit" => Exiting
  /\ pc = "enter" => Entering
  /\ pc = "pseudo" => Leaving
  /\ pc = "stop" => Stopping
  /\ pc \in {"select", "exit", "enter", "pseudo"} => currentState \in Regions
  /\ completion => pc \in {"idle", "stop"} /\ currentState \in States

\* What a history remembers lies inside its state.
Remembers ==
  /\ \A s \in Shallows : shallow[s] # Nothing => Parent[shallow[s]] = s
  /\ \A s \in Deeps : deep[s] # Nothing => s \in Ancestors[deep[s]] \ {deep[s]}

\* A registered context is not cancelled, and where no transition is given up the
\* active states have one and the others none.
Counted ==
  /\ \A s \in contexts : live[s] > 0
  /\ Completed => contexts = active \cap Timed /\ ContextsOfActive

IInv == TypeOK /\ Where /\ Remembers /\ Counted

-----------------------------------------------------------------------------
(***************************************************************************)
(* Vertices and transitions                                                *)
(***************************************************************************)

\* States and pseudostates lie inside states or the root.
LEMMA Containment ==
  /\ Regions \subseteq Names /\ States \subseteq Vertices /\ Root \in Regions /\ Root \notin States
  /\ Root \notin Vertices
  /\ \A v \in Vertices : Parent[v] \in Regions
  /\ \A v \in Names : \A u \in Ancestors[v] : u # v => u \in Regions
  /\ \A s \in Regions : Ancestors[s] \subseteq Regions /\ Within(s) = Ancestors[s] \ {Root}
  /\ \A s \in Regions : \A u \in Ancestors[s] : u # Root => u \in States
  /\ \A v \in Pseudostates : v \notin Regions /\ v \in Names
<1>1. /\ Regions \subseteq Names /\ States \subseteq Vertices /\ Root \in Regions /\ Root \notin States
      /\ Root \notin Vertices
      /\ \A v \in Vertices : Parent[v] \in Regions
      /\ \A v \in Pseudostates : v \notin Regions /\ v \in Names
  BY HierarchyAssumption, InterpreterAssumption DEF Regions, States, Names, Pseudostates
<1> DEFINE S == {v \in Names : \A u \in Ancestors[v] : u # v => u \in Regions}
<1>2. Root \in S
  BY HierarchyAssumption DEF Names
<1>3. ASSUME NEW v \in Vertices, Parent[v] \in S PROVE v \in S
  <2>1. v \in Names /\ Ancestors[v] = {v} \cup Ancestors[Parent[v]] /\ Parent[v] \in Regions
    BY <1>1, HierarchyAssumption DEF Names
  <2> QED
    BY <1>3, <2>1
<1>4. \A v \in Names : v \in S
  <2> HIDE DEF S
  <2> QED BY <1>2, <1>3, TreeInduction
<1>5. \A s \in Regions : Ancestors[s] \subseteq Regions
  BY <1>1, <1>4
<1>6. \A s \in Regions : Within(s) = Ancestors[s] \ {Root}
  BY HierarchyAssumption DEF Within, Regions
<1> QED
  BY <1>1, <1>4, <1>5, <1>6 DEF Regions

\* A transition has a source, a target or none, and passed validation.
LEMMA TransitionFacts ==
  ASSUME NEW t \in Transitions
  PROVE  /\ t.source \in Names /\ t.target \in Names \cup {Nothing} /\ t.owner \in Names
         /\ t \in ToSet(Outgoing[t.source]) /\ ValidTransition(t) /\ Nothing \notin Names
<1>1. PICK v \in Names : t \in ToSet(Outgoing[v])
  BY DEF Transitions
<1>2. t.source = v /\ t.owner \in Names /\ t.target \in Names \cup {Nothing}
  BY <1>1, InterpreterAssumption
<1> QED
  BY <1>1, <1>2, ModelValid, HierarchyAssumption

\* The transitions of a vertex leave it.
LEMMA OutgoingFacts ==
  ASSUME NEW v \in Names
  PROVE  /\ Outgoing[v] \in Seq(ToSet(Outgoing[v])) /\ ToSet(Outgoing[v]) \subseteq Transitions
         /\ \A t \in ToSet(Outgoing[v]) : t.source = v
BY InterpreterAssumption DEF Transitions

\* The path of a transition starts from its source, but that of an initial
\* transition from the state around it.
LEMMA PathKeys ==
  ASSUME WaysOn, NEW t \in Transitions
  PROVE  /\ OfKind(t.source, "initial") =>
              /\ ~Internal(t) /\ PathKey(t) = Parent[t.source] /\ PathKey(t) \in Regions
              /\ PathKey(t) \in Ancestors[t.source]
         /\ ~OfKind(t.source, "initial") => PathKey(t) = t.source
<1>1. t.source \in Names /\ ValidTransition(t) /\ Nothing \notin Names
  BY TransitionFacts
<1>2. ASSUME OfKind(t.source, "initial")
      PROVE  /\ ~Internal(t) /\ PathKey(t) = Parent[t.source] /\ PathKey(t) \in Regions
             /\ PathKey(t) \in Ancestors[t.source]
  <2>1. t.source \in Vertices /\ t.source \in Pseudostates
    BY <1>2 DEF OfKind, Pseudostates, States
  <2>2. ~Internal(t)
    BY <1>1, <1>2 DEF ValidTransition, Internal
  <2>3. InitialEvent \in t.events
    BY <1>1, <1>2, <2>1 DEF ValidTransition
  <2>4. PathKey(t) = Parent[t.source]
    BY <1>1, <2>2, <2>3 DEF PathKey, Dirname
  <2>5. Parent[t.source] \in Regions /\ Parent[t.source] \in Names
    BY <2>1, Containment
  <2>6. Parent[t.source] \in Ancestors[t.source]
    BY <2>1, <2>5, Above, HierarchyAssumption
  <2> QED
    BY <2>2, <2>4, <2>5, <2>6
<1>3. ASSUME ~OfKind(t.source, "initial") PROVE PathKey(t) = t.source
  BY <1>3 DEF WaysOn, PathKey
<1> QED
  BY <1>2, <1>3

\* The initial transition of a state, if there is one, may be taken in that state.
LEMMA InitialTransition ==
  ASSUME WaysOn, NEW s \in Regions
  PROVE  InitialOf(s) # <<>> =>
           /\ Initial[s] # Nothing /\ InitialOf(s) \in Seq(Transitions) /\ Len(InitialOf(s)) = 1
           /\ Legal(s, Head(InitialOf(s)))
           /\ ~Internal(Head(InitialOf(s))) /\ ~Head(InitialOf(s)).guarded
<1>1. ASSUME InitialOf(s) # <<>> PROVE Initial[s] # Nothing
  BY <1>1 DEF InitialOf
<1>2. ASSUME InitialOf(s) # <<>>
      PROVE  /\ InitialOf(s) \in Seq(Transitions) /\ Len(InitialOf(s)) = 1
             /\ Legal(s, Head(InitialOf(s)))
             /\ ~Internal(Head(InitialOf(s))) /\ ~Head(InitialOf(s)).guarded
  <2> DEFINE v == Initial[s]
  <2>1. OfKind(v, "initial") /\ Parent[v] = s /\ v \in Vertices /\ v \in Names
    BY <1>1, <1>2, InterpreterAssumption DEF OfKind, Names
  <2>2. InitialOf(s) = Outgoing[v]
    BY <1>1, <1>2 DEF InitialOf
  <2>3. Len(Outgoing[v]) = 1 /\ ~Outgoing[v][1].guarded
    <3>1. Len(Outgoing[v]) <= 1 /\ \A i \in DOMAIN Outgoing[v] : ~Outgoing[v][i].guarded
      BY <2>1, ModelValid DEF ValidVertex, OfKind
    <3>2. Outgoing[v] \in Seq(ToSet(Outgoing[v])) /\ Outgoing[v] # <<>>
      BY <1>2, <2>1, <2>2, OutgoingFacts
    <3>3. Len(Outgoing[v]) \in Nat /\ Len(Outgoing[v]) # 0
          /\ DOMAIN Outgoing[v] = 1 .. Len(Outgoing[v])
      BY <3>2
    <3>4. \A n \in Nat : n # 0 /\ n <= 1 => n = 1
      OBVIOUS
    <3>5. Len(Outgoing[v]) = 1
      BY <3>1, <3>3, <3>4, Zenon
    <3> QED
      BY <3>1, <3>3, <3>5
  <2>4. Outgoing[v] \in Seq(Transitions) /\ Outgoing[v][1] \in ToSet(Outgoing[v])
    <3>1. Outgoing[v] \in Seq(ToSet(Outgoing[v])) /\ ToSet(Outgoing[v]) \subseteq Transitions
      BY <2>1, OutgoingFacts
    <3> QED
      BY <2>3, <3>1
  <2>5. Head(Outgoing[v]) = Outgoing[v][1] /\ Outgoing[v] # <<>>
    BY <2>3, <2>4
  <2> DEFINE t == Outgoing[v][1]
  <2>6. t \in Transitions /\ t.source = v
    BY <2>1, <2>4, OutgoingFacts
  <2>7. PathKey(t) = s /\ ~Internal(t)
    BY <2>1, <2>6, PathKeys
  <2>8. s \in Names /\ s \in Ancestors[s] /\ s \notin Pseudostates
    BY Containment, Above
  <2>9. Legal(s, t)
    BY <2>6, <2>7, <2>8 DEF Legal
  <2> QED
    BY <2>2, <2>3, <2>4, <2>5, <2>7, <2>9
<1> QED
  BY <1>1, <1>2

\* A transition out of a pseudostate that is not initial may be taken there.
LEMMA LegalOut ==
  ASSUME WaysOn, NEW v \in Pseudostates, ~OfKind(v, "initial"),
         NEW t \in ToSet(Outgoing[v]), ~Internal(t)
  PROVE  Legal(v, t)
<1>1. v \in Names /\ v \in Ancestors[v]
  BY Containment, Above
<1>2. t \in Transitions /\ t.source = v
  BY <1>1, OutgoingFacts
<1>3. PathKey(t) = v
  BY <1>2, PathKeys
<1> QED
  BY <1>1, <1>2, <1>3 DEF Legal

\* A transition of a state may be taken in every state inside.
LEMMA LegalUp ==
  ASSUME WaysOn, NEW c \in Regions, NEW s \in Ancestors[c], NEW t \in ToSet(Outgoing[s])
  PROVE  Legal(c, t)
<1>1. c \in Names /\ s \in Regions /\ s \in Names /\ c \notin Pseudostates /\ s \notin Pseudostates
  BY Containment
<1>2. t \in Transitions /\ t.source = s
  BY <1>1, OutgoingFacts
<1>3. ~OfKind(s, "initial")
  BY <1>1 DEF OfKind, Pseudostates, States
<1>4. PathKey(t) = s
  BY <1>2, <1>3, PathKeys
<1> QED
  BY <1>1, <1>2, <1>4 DEF Legal

-----------------------------------------------------------------------------
(***************************************************************************)
(* The path of a transition                                                *)
(***************************************************************************)

\* What is left from the innermost active vertex, and what is entered.
LEMMA PathParts ==
  ASSUME NEW from, NEW t, Legal(from, t), ~Internal(t)
  PROVE  /\ PathFrom(from, t).exit = Below(PathKey(t), from) \o CalculatePath(PathKey(t), t.target).exit
         /\ PathFrom(from, t).enter = CalculatePath(PathKey(t), t.target).enter
         /\ PathKey(t) \in Names /\ t.target \in Names
<1> DEFINE src == PathKey(t)
           path == CalculatePath(src, t.target)
<1>1. from \in Names /\ src \in Names /\ src \in Ancestors[from] /\ t.target \in Names
  BY Above, TransitionFacts DEF Legal, Internal
<1>2. BasePath(t) = path
  BY <1>1 DEF BasePath, Path, Internal
<1>3. path = [exit |-> path.exit, enter |-> path.enter]
  BY DEF CalculatePath
<1>4. CASE from = src
  <2>1. PathFrom(from, t) = path
    BY <1>2, <1>4 DEF PathFrom
  <2>2. Below(src, src) = <<>>
    BY <1>1, BelowStep
  <2>3. src # t.target => path.exit = Below(Lca(src, t.target), src)
    BY DEF CalculatePath
  <2>4. <<>> \o path.exit = path.exit
    <3>1. CASE src = t.target
      <4>1. path.exit = <<src>>
        BY <3>1 DEF CalculatePath
      <4>2. \A x : <<>> \o <<x>> = <<x>>
        OBVIOUS
      <4> QED BY <4>1, <4>2
    <3>2. CASE src # t.target
      <4>1. Lca(src, t.target) \in Ancestors[src]
        <5>1. Lca(src, t.target) = Meet(src, t.target)
          BY <1>1, <3>2, LcaIs
        <5>2. /\ Meet(src, t.target) \in Names
              /\ Ancestors[Meet(src, t.target)] = Ancestors[src] \cap Ancestors[t.target]
          BY <1>1, MeetType
        <5>3. Meet(src, t.target) \in Ancestors[Meet(src, t.target)]
          BY <5>2, Above
        <5> QED
          BY <5>1, <5>2, <5>3
      <4>2. Below(Lca(src, t.target), src) \in Seq(Ancestors[src] \ Ancestors[Lca(src, t.target)])
        BY <1>1, <4>1, BelowType
      <4>3. \A E : \A q \in Seq(E) : <<>> \o q = q
        OBVIOUS
      <4> QED
        BY <2>3, <3>2, <4>2, <4>3
    <3> QED
      BY <3>1, <3>2
  <2> QED
    BY <1>1, <1>4, <2>1, <2>2, <2>4
<1>5. CASE from # src
  <2>1. t.source = src
    BY <1>5 DEF Legal
  <2>2. PathFrom(from, t) = [path EXCEPT !.exit = Below(src, from) \o @]
    BY <1>2, <1>5, <2>1 DEF PathFrom
  <2> HIDE DEF path, src
  <2>3. /\ PathFrom(from, t).exit = Below(src, from) \o path.exit
        /\ PathFrom(from, t).enter = path.enter
    BY <1>3, <2>2
  <2> QED
    BY <1>1, <2>3 DEF path, src
<1> QED
  BY <1>4, <1>5

\* The meeting point of two names.
LEMMA MeetFacts ==
  ASSUME NEW x \in Names, NEW y \in Names
  PROVE  /\ Meet(x, y) \in Names /\ Meet(x, y) \in Ancestors[x] /\ Meet(x, y) \in Ancestors[y]
         /\ Ancestors[Meet(x, y)] = Ancestors[x] \cap Ancestors[y]
<1>1. Meet(x, y) \in Names /\ Ancestors[Meet(x, y)] = Ancestors[x] \cap Ancestors[y]
  BY MeetType
<1>2. Meet(x, y) \in Ancestors[Meet(x, y)]
  BY <1>1, Above
<1> QED
  BY <1>1, <1>2

\* Up from the vertex to below a common ancestor with the target, and down to the
\* target; only from the root to itself the root is left and entered.
LEMMA PathPlain ==
  ASSUME NEW from, NEW t, Legal(from, t), ~Internal(t)
  PROVE  LET path == PathFrom(from, t)
             src  == PathKey(t)
         IN  \/ /\ src # t.target
                /\ path.exit = Below(Meet(src, t.target), from)
                /\ path.enter = Down(Meet(src, t.target), t.target)
             \/ /\ src = t.target /\ src # Root
                /\ path.exit = Below(Parent[src], from)
                /\ path.enter = Down(Parent[src], src)
             \/ /\ src = t.target /\ src = Root
                /\ path.exit = Below(Root, from) \o <<Root>> /\ path.enter = <<Root>>
<1> DEFINE src == PathKey(t)
<1>1. /\ PathFrom(from, t).exit = Below(src, from) \o CalculatePath(src, t.target).exit
      /\ PathFrom(from, t).enter = CalculatePath(src, t.target).enter
      /\ src \in Names /\ t.target \in Names
  BY PathParts
<1>2. from \in Names /\ src \in Ancestors[from]
  BY DEF Legal
<1>3. CASE src # t.target
  <2>1. Lca(src, t.target) = Meet(src, t.target)
    BY <1>1, <1>3, LcaIs
  <2>2. /\ CalculatePath(src, t.target).exit = Below(Meet(src, t.target), src)
        /\ CalculatePath(src, t.target).enter = Down(Meet(src, t.target), t.target)
    BY <1>3, <2>1 DEF CalculatePath, Down
  <2>3. Meet(src, t.target) \in Ancestors[src]
    BY <1>1, MeetFacts
  <2>4. Below(src, from) \o Below(Meet(src, t.target), src) = Below(Meet(src, t.target), from)
    BY <1>2, <2>3, BelowJoins
  <2> QED
    BY <1>1, <1>3, <2>2, <2>4
<1>4. CASE src = t.target
  <2>1. CalculatePath(src, t.target).exit = <<src>> /\ CalculatePath(src, t.target).enter = <<src>>
    BY <1>4 DEF CalculatePath
  <2>2. CASE src # Root
    <3>1. Below(src, from) \o <<src>> = Below(Parent[src], from)
      BY <1>2, <2>2, BelowLast
    <3>2. src \in Vertices /\ Parent[src] \in Names /\ Parent[src] \in Ancestors[src] /\ Parent[src] # src
      <4>1. src \in Vertices
        BY <1>1, <2>2 DEF Names
      <4>2. Parent[src] \in Names /\ Parent[src] \in Ancestors[Parent[src]]
        BY <4>1, Depths, Above
      <4> QED
        BY <4>1, <4>2, HierarchyAssumption
    <3>3. Down(Parent[src], src) = Append(Down(Parent[src], Parent[src]), src)
      BY <1>1, <3>2, DownStep
    <3>4. Down(Parent[src], Parent[src]) = <<>>
      BY <3>2, Above, DownStep
    <3>5. Down(Parent[src], src) = <<src>>
      BY <3>3, <3>4
    <3> QED
      BY <1>1, <1>4, <2>1, <2>2, <3>1, <3>5
  <2>3. CASE src = Root
    BY <1>1, <1>4, <2>1, <2>3
  <2> QED
    BY <2>2, <2>3
<1> QED
  BY <1>3, <1>4

\* The path up from a vertex to below top and down to the target.
IsPath(path, from, t, top) ==
  /\ top \in Ancestors[from] /\ top \in Ancestors[t.target]
  /\ path.exit = Below(top, from) /\ path.enter = Down(top, t.target)
  /\ from \in Pseudostates => top # from

\* The path from the root to itself.
IsLoop(path, from, t) ==
  /\ t.target = Root /\ from \notin Pseudostates
  /\ path.exit = Below(Root, from) \o <<Root>> /\ path.enter = <<Root>>

LEMMA PathShape ==
  ASSUME NEW from, NEW t, Legal(from, t), ~Internal(t)
  PROVE  LET path == PathFrom(from, t)
         IN  \/ IsPath(path, from, t, Meet(PathKey(t), t.target)) /\ PathKey(t) # t.target
             \/ IsPath(path, from, t, Parent[t.target]) /\ PathKey(t) = t.target /\ t.target # Root
             \/ IsLoop(path, from, t) /\ PathKey(t) = t.target
<1> DEFINE src == PathKey(t)
           path == PathFrom(from, t)
<1>1. src \in Names /\ t.target \in Names
  BY PathParts
<1>2. /\ from \in Names /\ src \in Ancestors[from] /\ t \in Transitions
      /\ from \in Pseudostates => from = src
  BY DEF Legal
<1>3. \A u \in Ancestors[src] : u \in Ancestors[from]
  BY <1>2, Transitive
<1>4. CASE /\ src # t.target
           /\ path.exit = Below(Meet(src, t.target), from)
           /\ path.enter = Down(Meet(src, t.target), t.target)
  <2>1. Meet(src, t.target) \in Ancestors[src] /\ Meet(src, t.target) \in Ancestors[t.target]
    BY <1>1, MeetFacts
  <2>2. from \in Pseudostates => Meet(src, t.target) # from
    <3> SUFFICES ASSUME from \in Pseudostates, Meet(src, t.target) = from PROVE FALSE
      OBVIOUS
    <3>1. from \in Ancestors[t.target] /\ from # t.target
      BY <1>2, <1>4, <2>1
    <3>2. from \in Regions
      BY <1>1, <3>1, Containment
    <3> QED
      BY <3>2, Containment
  <2> QED
    BY <1>3, <1>4, <2>1, <2>2 DEF IsPath
<1>5. CASE /\ src = t.target /\ src # Root
           /\ path.exit = Below(Parent[src], from)
           /\ path.enter = Down(Parent[src], src)
  <2>1. Parent[src] \in Ancestors[src] /\ Parent[src] # src
    <3>1. src \in Vertices
      BY <1>1, <1>5 DEF Names
    <3>2. Parent[src] \in Names /\ Parent[src] \in Ancestors[Parent[src]]
      BY <3>1, Depths, Above
    <3> QED
      BY <3>1, <3>2, HierarchyAssumption
  <2> QED
    BY <1>2, <1>3, <1>5, <2>1 DEF IsPath
<1>6. CASE /\ src = t.target /\ src = Root
           /\ path.exit = Below(Root, from) \o <<Root>> /\ path.enter = <<Root>>
  <2>1. from \notin Pseudostates
    BY <1>2, <1>6, Containment
  <2> QED
    BY <1>6, <2>1 DEF IsLoop
<1> QED
  BY <1>4, <1>5, <1>6, PathPlain

\* The transition of an entry point leads to another kind of vertex.
LEMMA EntrySource ==
  ASSUME WaysOn, NEW t \in Transitions, OfKind(t.target, "entry")
  PROVE  PathKey(t) # t.target
<1>1. t.target \in Vertices /\ t.target \in Pseudostates /\ Kind[t.target] = "entry"
  BY DEF OfKind, Pseudostates, States
<1>2. CASE OfKind(t.source, "initial")
  <2>1. PathKey(t) \in Regions
    BY <1>2, PathKeys
  <2> QED
    BY <1>1, <2>1, Containment
<1>3. CASE ~OfKind(t.source, "initial")
  <2> SUFFICES ASSUME t.source = t.target PROVE FALSE
    BY <1>3, PathKeys
  <2>1. Len(Outgoing[t.target]) = 1 /\ ~OfKind(Outgoing[t.target][1].target, "entry")
    BY <1>1, ModelValid DEF ValidVertex
  <2>2. t.source \in Names /\ t \in ToSet(Outgoing[t.source])
    BY TransitionFacts
  <2>3. Outgoing[t.source] \in Seq(ToSet(Outgoing[t.source]))
    BY <2>2, OutgoingFacts
  <2>4. PICK i \in DOMAIN Outgoing[t.source] : t = Outgoing[t.source][i]
    BY <2>2 DEF ToSet
  <2>5. i = 1
    BY <2>1, <2>3
  <2> QED
    BY <2>1, <2>4, <2>5
<1> QED
  BY <1>2, <1>3

\* The ancestors of the vertex that a path starts from are ancestors of its source.
LEMMA PathKeyAbove ==
  ASSUME WaysOn, NEW t \in Transitions
  PROVE  /\ PathKey(t) \in Names /\ PathKey(t) \in Ancestors[t.source]
         /\ Ancestors[PathKey(t)] \subseteq Ancestors[t.source]
         /\ \A s \in Regions : s \in Ancestors[t.source] => s \in Ancestors[PathKey(t)]
<1>1. t.source \in Names /\ t.source \in Ancestors[t.source]
  BY TransitionFacts, Above
<1>2. CASE OfKind(t.source, "initial")
  <2>1. PathKey(t) = Parent[t.source] /\ PathKey(t) \in Regions /\ PathKey(t) \in Ancestors[t.source]
    BY <1>2, PathKeys
  <2>2. t.source \in Vertices /\ t.source \notin Regions
    BY <1>2, Containment DEF OfKind, Pseudostates, States
  <2>3. Ancestors[t.source] = {t.source} \cup Ancestors[Parent[t.source]]
    BY <2>2, HierarchyAssumption
  <2> QED
    BY <1>1, <2>1, <2>2, <2>3, Containment
<1>3. CASE ~OfKind(t.source, "initial")
  BY <1>1, <1>3, PathKeys
<1> QED
  BY <1>2, <1>3

\* A path into an entry point from inside its submachine goes around the submachine.
LEMMA PathAround ==
  ASSUME WaysOn, NEW from, NEW t, Legal(from, t), ~Internal(t), OfKind(t.target, "entry"),
         OfKind(Parent[t.target], "submachine"), IsAncestorOrEqual(Parent[t.target], t.source)
  PROVE  IsPath(ThroughBoundary(t, PathFrom(from, t)), from, t, Parent[Parent[t.target]])
<1> DEFINE src == PathKey(t)
           entry == t.target
           boundary == Parent[t.target]
           path == PathFrom(from, t)
<1>1. /\ entry \in Vertices /\ entry \in Pseudostates /\ entry \notin Regions /\ entry \in Names
      /\ boundary \in Vertices /\ boundary \in States /\ boundary \in Regions /\ boundary \in Names
      /\ boundary # Root /\ entry # boundary /\ Nothing \notin Names
  BY Containment, HierarchyAssumption DEF OfKind, Pseudostates, States, Names, Regions
<1>2. /\ t \in Transitions /\ from \in Names /\ src \in Names /\ src \in Ancestors[from]
      /\ src # entry
  BY EntrySource, PathKeyAbove DEF Legal
<1>3. boundary \in Ancestors[src]
  <2>1. t.source \in Names /\ t.source \in Ancestors[t.source]
    BY <1>2, TransitionFacts, Above
  <2>2. boundary \in Ancestors[t.source]
    BY <1>1, <2>1 DEF IsAncestorOrEqual
  <2> QED
    BY <1>1, <1>2, <2>2, PathKeyAbove
<1>4. Ancestors[entry] = {entry} \cup Ancestors[boundary] /\ boundary \in Ancestors[entry]
  BY <1>1, HierarchyAssumption, Above
<1>5. entry \notin Ancestors[src]
  BY <1>1, <1>2, Containment
<1>6. Ancestors[boundary] = Ancestors[src] \cap Ancestors[entry]
  BY <1>2, <1>3, <1>4, <1>5, Transitive
<1>7. Meet(src, entry) = boundary
  BY <1>1, <1>2, <1>6, MeetSame
<1>8. IsPath(path, from, t, boundary)
  <2>1. IsPath(path, from, t, Meet(src, entry))
    BY <1>2, PathShape
  <2> QED
    BY <1>7, <2>1
<1>9. /\ boundary \in Ancestors[from]
      /\ path.exit = Below(boundary, from) /\ path.enter = Down(boundary, entry)
  BY <1>8 DEF IsPath
<1>10. boundary \in Ancestors[boundary]
  BY <1>1, Above
<1>11. ~Contains(path.exit, boundary)
  <2>1. Below(boundary, from) \in Seq(Ancestors[from] \ Ancestors[boundary])
    BY <1>2, <1>9, BelowType
  <2> QED
    BY <1>9, <1>10, <2>1 DEF Contains
<1>12. ~Contains(path.enter, boundary) /\ path.enter = Down(boundary, entry)
  <2>1. Down(boundary, entry) \in Seq(Ancestors[entry] \ Ancestors[boundary])
    BY <1>1, <1>4, DownStep
  <2> QED
    BY <1>9, <1>10, <2>1 DEF Contains
<1>13. ThroughBoundary(t, path) = [exit |-> Append(path.exit, boundary), enter |-> <<boundary>> \o path.enter]
  <2>1. Dirname(t.target) = boundary
    BY <1>1 DEF Dirname
  <2> QED
    BY <1>11, <1>12, <2>1 DEF ThroughBoundary
<1>14. Append(path.exit, boundary) = Below(Parent[boundary], from)
  <2>1. Below(boundary, from) \in Seq(Ancestors[from] \ Ancestors[boundary])
    BY <1>2, <1>9, BelowType
  <2>2. \A E : \A q \in Seq(E) : Append(q, boundary) = q \o <<boundary>>
    OBVIOUS
  <2>3. Below(boundary, from) \o <<boundary>> = Below(Parent[boundary], from)
    BY <1>1, <1>2, <1>9, BelowLast
  <2> QED
    BY <1>9, <2>1, <2>2, <2>3
<1>15. /\ Parent[boundary] \in Names /\ Parent[boundary] \in Regions
       /\ Parent[boundary] \in Ancestors[boundary] /\ Parent[boundary] # boundary
  BY <1>1, Containment, Above, HierarchyAssumption
<1>16. <<boundary>> \o path.enter = Down(Parent[boundary], entry)
  <2>1. Down(Parent[boundary], boundary) = Append(Down(Parent[boundary], Parent[boundary]), boundary)
    BY <1>1, <1>15, DownStep
  <2>2. Down(Parent[boundary], Parent[boundary]) = <<>>
    BY <1>15, Above, DownStep
  <2>3. Down(Parent[boundary], boundary) = <<boundary>>
    BY <2>1, <2>2
  <2>4. Down(Parent[boundary], boundary) \o Down(boundary, entry) = Down(Parent[boundary], entry)
    BY <1>1, <1>4, <1>15, DownJoins
  <2> QED
    BY <1>9, <2>3, <2>4
<1>17. Parent[boundary] \in Ancestors[from] /\ Parent[boundary] \in Ancestors[entry]
  BY <1>1, <1>2, <1>4, <1>9, <1>15, Transitive
<1>18. from \in Pseudostates => Parent[boundary] # from
  BY <1>15, Containment
<1>19. /\ ThroughBoundary(t, path).exit = Below(Parent[boundary], from)
       /\ ThroughBoundary(t, path).enter = Down(Parent[boundary], entry)
  <2> HIDE DEF path, boundary
  <2> QED
    BY <1>13, <1>14, <1>16
<1> QED
  BY <1>17, <1>18, <1>19 DEF IsPath

\* The path that is taken: around the submachine or as it was computed.
LEMMA PathTaken ==
  ASSUME WaysOn, NEW from, NEW t, Legal(from, t), ~Internal(t)
  PROVE  LET path == ThroughBoundary(t, PathFrom(from, t))
         IN  \/ \E top \in Names :
                  /\ IsPath(path, from, t, top)
                  /\ OfKind(t.target, "entry") /\ Parent[t.target] # Root => top # Parent[t.target]
             \/ IsLoop(path, from, t)
<1>1. /\ t \in Transitions /\ t.target \in Names /\ Nothing \notin Names
      /\ PathKey(t) \in Names
  BY PathParts, HierarchyAssumption DEF Legal
<1>2. \/ IsPath(PathFrom(from, t), from, t, Meet(PathKey(t), t.target)) /\ PathKey(t) # t.target
      \/ IsPath(PathFrom(from, t), from, t, Parent[t.target]) /\ PathKey(t) = t.target /\ t.target # Root
      \/ IsLoop(PathFrom(from, t), from, t) /\ PathKey(t) = t.target
  BY PathShape
<1>3. CASE ~OfKind(t.target, "entry")
  <2>1. ThroughBoundary(t, PathFrom(from, t)) = PathFrom(from, t)
    BY <1>3 DEF ThroughBoundary
  <2>2. Meet(PathKey(t), t.target) \in Names
    BY <1>1, MeetFacts
  <2>3. t.target # Root => Parent[t.target] \in Names
    BY <1>1, Depths DEF Names
  <2> QED
    BY <1>2, <1>3, <2>1, <2>2, <2>3
<1>4. CASE /\ OfKind(t.target, "entry") /\ OfKind(Parent[t.target], "submachine")
           /\ IsAncestorOrEqual(Parent[t.target], t.source)
  <2>1. IsPath(ThroughBoundary(t, PathFrom(from, t)), from, t, Parent[Parent[t.target]])
    BY <1>4, PathAround
  <2>2. Parent[t.target] \in Vertices
    BY <1>4 DEF OfKind
  <2>3. Parent[Parent[t.target]] \in Names /\ Parent[Parent[t.target]] # Parent[t.target]
    BY <2>2, Depths, Above, HierarchyAssumption
  <2> QED
    BY <2>1, <2>3
<1>5. CASE /\ OfKind(t.target, "entry")
           /\ ~(/\ OfKind(Parent[t.target], "submachine")
                /\ IsAncestorOrEqual(Parent[t.target], t.source))
  <2>1. ThroughBoundary(t, PathFrom(from, t)) = PathFrom(from, t)
    BY <1>1, <1>5 DEF ThroughBoundary, Dirname
  <2>2. PathKey(t) # t.target
    BY <1>1, <1>5, EntrySource
  <2>3. IsPath(PathFrom(from, t), from, t, Meet(PathKey(t), t.target))
    BY <1>2, <2>2
  <2>4. Meet(PathKey(t), t.target) \in Names /\ Meet(PathKey(t), t.target) \in Ancestors[PathKey(t)]
    BY <1>1, MeetFacts
  <2>5. ASSUME Parent[t.target] # Root, Meet(PathKey(t), t.target) = Parent[t.target] PROVE FALSE
    <3>1. Parent[t.target] \in Ancestors[t.source]
      BY <1>1, <2>4, <2>5, PathKeyAbove
    <3>2. t.source \in Names /\ ValidTransition(t)
      BY <1>1, TransitionFacts
    <3>3. IsAncestorOrEqual(Parent[t.target], t.source)
      BY <1>1, <3>1, <3>2 DEF IsAncestorOrEqual
    <3>4. ~OfKind(Parent[t.target], "submachine")
      BY <1>5, <3>3
    <3>5. t.target # Nothing
      BY <1>1
    <3>6. t.source = Root
      BY <1>5, <3>2, <3>4, <3>5 DEF ValidTransition, EntryPointTarget
    <3> QED
      BY <2>5, <3>1, <3>6, HierarchyAssumption
  <2> QED
    BY <2>1, <2>3, <2>4, <2>5
<1> QED
  BY <1>3, <1>4, <1>5

\* The way up from a state leads through states, the way down through vertices.
LEMMA WayTypes ==
  ASSUME NEW v \in Names, NEW top \in Ancestors[v]
  PROVE  /\ Down(top, v) \in Seq(Vertices)
         /\ v \in Regions => Below(top, v) \in Seq(States)
<1>1. top \in Names /\ Root \in Ancestors[top] /\ Ancestors[v] \subseteq Names
  BY Above
<1>2. Down(top, v) \in Seq(Ancestors[v] \ Ancestors[top])
  BY DownStep
<1>3. Below(top, v) \in Seq(Ancestors[v] \ Ancestors[top])
  BY BelowType
<1>4. Ancestors[v] \ Ancestors[top] \subseteq Vertices
  BY <1>1 DEF Names
<1>5. v \in Regions => Ancestors[v] \ Ancestors[top] \subseteq States
  BY <1>1, Containment
<1>6. \A A, B : A \subseteq B => Seq(A) \subseteq Seq(B)
  OBVIOUS
<1> QED
  BY <1>2, <1>3, <1>4, <1>5, <1>6

\* execute_transition exits the states on the path and enters the vertices on it.
LEMMA PathFiltered ==
  ASSUME NEW from \in Names, NEW t, t.target \in Names, NEW path, NEW top, IsPath(path, from, t, top)
  PROVE  /\ Ground(from) \in Regions /\ top \in Ancestors[Ground(from)]
         /\ Filter(path.exit, States) = Below(top, Ground(from))
         /\ Filter(path.enter, Vertices) = Down(top, t.target)
<1>1. /\ top \in Ancestors[from] /\ top \in Ancestors[t.target] /\ top \in Names
      /\ path.exit = Below(top, from) /\ path.enter = Down(top, t.target)
  BY Above DEF IsPath
<1>2. Filter(path.enter, Vertices) = Down(top, t.target)
  BY <1>1, WayTypes, FilterAll
<1>3. CASE from \notin Pseudostates
  <2>1. from \in Regions
    BY <1>3 DEF Pseudostates, Regions, Names
  <2>2. Filter(path.exit, States) = Below(top, from)
    BY <1>1, <2>1, WayTypes, FilterAll
  <2> QED
    BY <1>1, <1>2, <1>3, <2>1, <2>2 DEF Ground
<1>4. CASE from \in Pseudostates
  <2>1. from \in Vertices /\ from \notin States /\ top # from
    BY <1>4 DEF Pseudostates, IsPath
  <2>2. Below(top, from) = <<from>> \o Below(top, Parent[from])
    BY <1>1, <2>1, BelowStep
  <2>3. Parent[from] \in Regions /\ Parent[from] \in Names
    BY <2>1, Containment
  <2>4. top \in Ancestors[Parent[from]]
    BY <1>1, <2>1, ProperAncestor
  <2>5. Filter(path.exit, States) = Below(top, Parent[from])
    BY <1>1, <2>1, <2>2, <2>3, <2>4, WayTypes, FilterAll
  <2> QED
    BY <1>2, <1>4, <2>3, <2>4, <2>5 DEF Ground
<1> QED
  BY <1>3, <1>4

LEMMA LoopFiltered ==
  ASSUME NEW from \in Names, NEW t, NEW path, IsLoop(path, from, t)
  PROVE  /\ Ground(from) \in Regions /\ Root \in Ancestors[Ground(from)] /\ Root \in Ancestors[t.target]
         /\ Filter(path.exit, States) = Below(Root, Ground(from))
         /\ Filter(path.enter, Vertices) = Down(Root, t.target)
<1>1. /\ t.target = Root /\ from \in Regions /\ Ground(from) = from
      /\ path.exit = Below(Root, from) \o <<Root>> /\ path.enter = <<Root>>
  BY DEF IsLoop, Pseudostates, Regions, Names, Ground
<1>2. Root \in Ancestors[from] /\ Root \in Ancestors[Root] /\ Root \in Names
  BY Above, Containment
<1>3. Below(Root, from) \in Seq(States) /\ Root \notin States /\ Root \notin Vertices
  BY <1>1, <1>2, WayTypes, Containment
<1>4. Filter(path.exit, States) = Below(Root, from)
  BY <1>1, <1>3, FilterButLast
<1>5. Filter(<<Root>>, Vertices) = <<>>
  <2> DEFINE none == <<>>
             one == <<Root>> \o none
  <2>1. none \in Seq(Vertices) /\ one = <<Root>>
    OBVIOUS
  <2>2. \A s \in Seq(Vertices) : Filter(<<Root>> \o s, Vertices) = s
    BY <1>3, FilterAll
  <2> HIDE DEF none
  <2>3. Filter(one, Vertices) = none
    BY <2>1, <2>2
  <2> QED
    BY <2>1, <2>3 DEF none
<1>6. Down(Root, Root) = <<>>
  BY <1>2, DownStep
<1> QED
  BY <1>1, <1>2, <1>4, <1>5, <1>6

\* Above a name its ancestors' children on the way.
LEMMA ChildTowardsType ==
  ASSUME NEW leaf \in States, NEW s \in Ancestors[leaf], s # leaf
  PROVE  ChildTowards(s, leaf) \in States /\ Parent[ChildTowards(s, leaf)] = s
<1>1. leaf \in Names /\ leaf \in Regions
  BY Containment DEF Regions, Names
<1>2. \E c \in Ancestors[leaf] : Parent[c] = s
  BY <1>1, DownHead
<1>3. ChildTowards(s, leaf) \in Ancestors[leaf] /\ Parent[ChildTowards(s, leaf)] = s
  BY <1>2 DEF ChildTowards
<1>4. s \in Names /\ Parent[Root] = Nothing /\ Nothing \notin Names
  BY <1>1, Above, HierarchyAssumption DEF Names
<1> QED
  BY <1>1, <1>3, <1>4, Containment

HistoryType == shallow \in [Shallows -> OrNothing(States)] /\ deep \in [Deeps -> OrNothing(States)]

\* What remember_history writes lies inside the state it is written for.
LEMMA RememberMoves ==
  ASSUME NEW leaf, HistoryType, Remembers, RememberHistory(leaf)
  PROVE  HistoryType' /\ Remembers'
<1> DEFINE above == IF leaf \in States THEN (Ancestors[leaf] \ {leaf}) \cap States ELSE {}
<1>1. /\ shallow' = [s \in Shallows |-> IF s \in above THEN ChildTowards(s, leaf) ELSE shallow[s]]
      /\ deep' = [s \in Deeps |-> IF s \in above THEN leaf ELSE deep[s]]
  BY DEF RememberHistory
<1>2. \A s \in above : /\ leaf \in States /\ s \in Ancestors[leaf] \ {leaf}
                       /\ ChildTowards(s, leaf) \in States /\ Parent[ChildTowards(s, leaf)] = s
  BY ChildTowardsType
<1> HIDE DEF above
<1>3. HistoryType'
  BY <1>1, <1>2 DEF HistoryType, OrNothing
<1>4. Remembers'
  BY <1>1, <1>2 DEF HistoryType, Remembers
<1> QED
  BY <1>3, <1>4

-----------------------------------------------------------------------------
(***************************************************************************)
(* Steps                                                                   *)
(***************************************************************************)

MachineType ==
  /\ currentState \in Regions \cup {Off}
  /\ HistoryType
  /\ contexts \subseteq Timed
  /\ completion \in BOOLEAN

EventType ==
  /\ pc \in {"idle", "select", "exit", "enter", "pseudo", "stop"}
  /\ names \in Seq(AllNames)
  /\ selecting \in OrNothing(Names) /\ vertex \in OrNothing(Pseudostates)
  /\ rest \in Seq(Transitions) /\ refused \subseteq Transitions
  /\ transition \in Transitions \cup {None}
  /\ exits \in Seq(States) /\ enters \in Seq(Vertices)
  /\ target \in OrNothing(Names) /\ result \in OrNothing(Names)

GhostType ==
  /\ active \subseteq States
  /\ live \in [Timed -> Nat]
  /\ lastLeaf \in [Recalled -> OrNothing(States)]

LEMMA Types == TypeOK <=> MachineType /\ EventType /\ GhostType
BY DEF TypeOK, MachineType, HistoryType, EventType, GhostType, AllNames

\* What is left when an event's processing returns.
LEMMA ReturnType ==
  ASSUME Return
  PROVE  EventType' /\ pc' = "idle"
BY DEF Return, EventType, OrNothing

\* The beginning of execute_transition.
LEMMA ExecuteMoves ==
  ASSUME WaysOn, MachineType, Remembers, NEW from, NEW t, Legal(from, t), Execute(from, t),
         Completed => active' = Within(Ground(from)),
         Internal(t) => from = currentState /\ from \in Regions
  PROVE  /\ pc' = "exit" /\ Exiting' /\ EventType' /\ HistoryType' /\ Remembers'
         /\ currentState' = currentState /\ completion' = completion /\ lastLeaf' = lastLeaf
<1>1. t \in Transitions /\ from \in Names
  BY DEF Legal
<1>2. Applies(from, t)
  <2>1. CASE from = PathKey(t)
    BY <2>1 DEF Applies
  <2>2. CASE from # PathKey(t)
    BY <1>1, <2>2, HierarchyAssumption DEF Applies, Legal, IsAncestorOrEqual
  <2> QED
    BY <2>1, <2>2
<1>3. PICK path \in {ThroughBoundary(t, PathFrom(from, t))} :
        /\ transition' = t
        /\ exits' = Filter(path.exit, States)
        /\ enters' = Filter(path.enter, Vertices)
        /\ target' = t.target /\ result' = t.target
        /\ pc' = "exit"
        /\ names' = <<>> /\ selecting' = Nothing /\ rest' = <<>> /\ vertex' = Nothing
        /\ refused' = {}
        /\ IF path.exit # <<>> /\ ~IsHistory(t.target)
           THEN RememberHistory(from) ELSE UNCHANGED <<shallow, deep>>
        /\ UNCHANGED <<currentState, completion, lastLeaf>>
  BY <1>2 DEF Execute
<1>4. HistoryType' /\ Remembers'
  <2>1. CASE RememberHistory(from)
    BY <2>1, RememberMoves DEF MachineType
  <2>2. CASE UNCHANGED <<shallow, deep>>
    BY <2>2 DEF MachineType, HistoryType, Remembers
  <2> QED
    BY <1>3, <2>1, <2>2
<1>5. t.target \in OrNothing(Names)
  BY <1>1, TransitionFacts DEF OrNothing
<1>6. exits' \in Seq(States) /\ enters' \in Seq(Vertices) /\ Exiting'
  <2>1. CASE Internal(t)
    <3>1. t.target = Nothing /\ Nothing \notin Vertices
      BY <2>1, HierarchyAssumption DEF Internal, Names
    <3>2. PathFrom(from, t) = [exit |-> <<>>, enter |-> <<>>]
      BY <2>1 DEF PathFrom, BasePath
    <3>3. path = [exit |-> <<>>, enter |-> <<>>]
      BY <1>3, <3>1, <3>2 DEF ThroughBoundary, OfKind
    <3>4. Filter(<<>>, States) = <<>> /\ Filter(<<>>, Vertices) = <<>>
      <4> DEFINE none == <<>>
      <4>1. none \in Seq(States) /\ none \in Seq(Vertices)
        OBVIOUS
      <4> HIDE DEF none
      <4>2. Filter(none, States) = none /\ Filter(none, Vertices) = none
        BY <4>1, FilterAll
      <4> QED
        BY <4>2 DEF none
    <3>5. exits' = <<>> /\ enters' = <<>>
      BY <1>3, <3>3, <3>4
    <3>6. Ground(from) = currentState
      BY <2>1, Containment DEF Ground
    <3>7. Exiting'
      BY <1>1, <1>3, <2>1, <3>5, <3>6 DEF Exiting, At, Internal
    <3> QED
      BY <3>5, <3>7
  <2>2. CASE ~Internal(t)
    <3>1. t.target \in Names /\ PathKey(t) \in Names
      BY <2>2, PathParts
    <3>2. \E top \in Ancestors[Ground(from)] \cap Ancestors[t.target] :
            /\ Ground(from) \in Regions
            /\ exits' = Below(top, Ground(from)) /\ enters' = Down(top, t.target)
            /\ OfKind(t.target, "entry") /\ Parent[t.target] # Root => top # Parent[t.target]
      <4>1. CASE IsLoop(path, from, t)
        <5>1. /\ Ground(from) \in Regions /\ Root \in Ancestors[Ground(from)] /\ Root \in Ancestors[t.target]
              /\ Filter(path.exit, States) = Below(Root, Ground(from))
              /\ Filter(path.enter, Vertices) = Down(Root, t.target)
          BY <1>1, <4>1, LoopFiltered
        <5>2. ~OfKind(t.target, "entry")
          BY <4>1, Containment DEF IsLoop, OfKind
        <5> QED
          BY <1>3, <5>1, <5>2
      <4>2. ASSUME NEW top \in Names, IsPath(path, from, t, top),
                   OfKind(t.target, "entry") /\ Parent[t.target] # Root => top # Parent[t.target]
            PROVE  \E z \in Ancestors[Ground(from)] \cap Ancestors[t.target] :
                     /\ Ground(from) \in Regions
                     /\ exits' = Below(z, Ground(from)) /\ enters' = Down(z, t.target)
                     /\ OfKind(t.target, "entry") /\ Parent[t.target] # Root => z # Parent[t.target]
        <5>1. /\ Ground(from) \in Regions /\ top \in Ancestors[Ground(from)]
              /\ Filter(path.exit, States) = Below(top, Ground(from))
              /\ Filter(path.enter, Vertices) = Down(top, t.target)
          BY <1>1, <3>1, <4>2, PathFiltered
        <5>2. top \in Ancestors[t.target]
          BY <4>2 DEF IsPath
        <5> QED
          BY <1>3, <4>2, <5>1, <5>2
      <4> QED
        BY <1>3, <2>2, <4>1, <4>2, PathTaken
    <3>3. PICK top \in Ancestors[Ground(from)] \cap Ancestors[t.target] :
            /\ Ground(from) \in Regions
            /\ exits' = Below(top, Ground(from)) /\ enters' = Down(top, t.target)
            /\ OfKind(t.target, "entry") /\ Parent[t.target] # Root => top # Parent[t.target]
      BY <3>2
    <3>4. Ground(from) \in Names
      BY <3>3, Containment
    <3>5. exits' \in Seq(States) /\ enters' \in Seq(Vertices)
      BY <3>1, <3>3, <3>4, WayTypes
    <3>6. Climbing(Ground(from), top)'
      BY <1>3, <3>3 DEF Climbing, At
    <3>7. Exiting'
      BY <1>1, <1>3, <2>2, <3>3, <3>6 DEF Exiting, Internal
    <3> QED
      BY <3>5, <3>7
  <2> QED
    BY <2>1, <2>2
<1>7. EventType'
  BY <1>1, <1>3, <1>5, <1>6 DEF EventType, OrNothing
<1> QED
  BY <1>3, <1>4, <1>6, <1>7

\* Leaving a state takes it from the active ones, entering a child adds it.
LEMMA WithinUp ==
  ASSUME NEW v \in States
  PROVE  /\ Parent[v] \in Regions /\ v \notin Within(Parent[v])
         /\ Within(v) = {v} \cup Within(Parent[v])
<1>1. v \in Vertices /\ v \in Regions /\ Parent[v] \in Regions /\ v # Root
  BY Containment DEF Regions
<1>2. Within(v) = Ancestors[v] \ {Root} /\ Within(Parent[v]) = Ancestors[Parent[v]] \ {Root}
  BY <1>1, Containment
<1> QED
  BY <1>1, <1>2, HierarchyAssumption

\* Returning without a new state.
LEMMA KeepMoves ==
  ASSUME IInv, pc \notin {"idle", "stop"}, Keep, contexts' \subseteq Timed, active' \subseteq States,
         live' \in [Timed -> Nat], Counted', Completed => active' = Within(currentState)
  PROVE  IInv'
<1>1. /\ EventType' /\ pc' = "idle"
      /\ UNCHANGED <<currentState, shallow, deep, completion, lastLeaf>>
  BY ReturnType DEF Keep
<1>2. MachineType' /\ GhostType'
  BY <1>1, Types DEF IInv, MachineType, HistoryType, GhostType
<1>3. Remembers'
  BY <1>1 DEF IInv, Remembers
<1>4. Where'
  BY <1>1 DEF IInv, Where, At
<1>5. TypeOK'
  BY <1>1, <1>2 DEF TypeOK, MachineType, HistoryType, EventType, GhostType, AllNames
<1> QED
  BY <1>3, <1>4, <1>5 DEF IInv

\* Returning with a new state.
LEMMA ArriveMoves ==
  ASSUME IInv, pc \notin {"idle", "stop"}, NEW s \in Regions, Arrive(s), UNCHANGED <<shallow, deep>>,
         contexts' \subseteq Timed, active' \subseteq States, live' \in [Timed -> Nat], Counted',
         Completed => active' = Within(s)
  PROVE  IInv'
<1>1. /\ EventType' /\ pc' = "idle" /\ currentState' = s
      /\ completion' = (completion \/ (s # currentState /\ OfKind(s, "final")))
      /\ lastLeaf' = [r \in Recalled |-> IF r \in Ancestors[s] \ {s} THEN s ELSE lastLeaf[r]]
  BY ReturnType DEF Arrive
<1>2. completion = FALSE
  BY Types DEF IInv, Where, MachineType
<1>3. lastLeaf' \in [Recalled -> OrNothing(States)]
  <2>1. \A r : r \in Ancestors[s] \ {s} => s \in States
    BY HierarchyAssumption DEF Regions
  <2>2. lastLeaf \in [Recalled -> OrNothing(States)]
    BY Types DEF IInv, GhostType
  <2> QED
    BY <1>1, <2>1, <2>2 DEF OrNothing
<1>4. MachineType' /\ GhostType'
  <2>1. HistoryType'
    BY Types DEF IInv, MachineType, HistoryType
  <2> QED
    BY <1>1, <1>2, <1>3, <2>1 DEF MachineType, GhostType
<1>5. Remembers'
  BY DEF IInv, Remembers
<1>6. completion' => s \in States
  BY <1>1, <1>2 DEF OfKind, States
<1>7. Where'
  BY <1>1, <1>6 DEF Where, At
<1>8. TypeOK'
  BY <1>1, <1>4 DEF TypeOK, MachineType, HistoryType, EventType, GhostType, AllNames
<1> QED
  BY <1>5, <1>7, <1>8 DEF IInv

\* exit_state ends the context of the state, if it has one.
LEMMA CancelCounts ==
  ASSUME IInv, NEW s \in States, Cancel(s), active' = active \ {s}
  PROVE  /\ contexts' \subseteq Timed /\ active' \subseteq States /\ live' \in [Timed -> Nat]
         /\ Counted'
<1>1. /\ contexts \subseteq Timed /\ active \subseteq States /\ live \in [Timed -> Nat]
      /\ contexts' = contexts \ {s}
      /\ live' = [r \in Timed |-> IF r = s /\ s \in contexts THEN live[r] - 1 ELSE live[r]]
  BY Types DEF IInv, MachineType, GhostType, Cancel
<1>2. \A r \in contexts : live[r] > 0
  BY DEF IInv, Counted
<1>3. live' \in [Timed -> Nat]
  BY <1>1, <1>2
<1>4. \A r \in contexts' : live'[r] > 0
  BY <1>1, <1>2
<1>5. ASSUME Completed PROVE contexts' = active' \cap Timed /\ ContextsOfActive'
  <2>1. contexts = active \cap Timed /\ \A r \in Timed : live[r] = IF r \in active THEN 1 ELSE 0
    BY <1>5 DEF IInv, Counted, ContextsOfActive
  <2> QED
    BY <1>1, <2>1 DEF ContextsOfActive
<1> QED
  BY <1>1, <1>3, <1>4, <1>5 DEF Counted

\* Entering a state opens its context.
LEMMA OpenCounts ==
  ASSUME IInv, NEW s \in States, Open(s), Completed => s \notin active
  PROVE  /\ contexts' \subseteq Timed /\ active' \subseteq States /\ live' \in [Timed -> Nat]
         /\ Counted' /\ active' = active \cup {s}
<1>1. /\ contexts \subseteq Timed /\ active \subseteq States /\ live \in [Timed -> Nat]
      /\ contexts' = contexts \cup ({s} \cap Timed) /\ active' = active \cup {s}
      /\ live' = [r \in Timed |-> IF r = s THEN live[r] + 1 ELSE live[r]]
  BY Types DEF IInv, MachineType, GhostType, Open
<1>2. \A r \in contexts : live[r] > 0
  BY DEF IInv, Counted
<1>3. live' \in [Timed -> Nat]
  BY <1>1
<1>4. \A r \in contexts' : live'[r] > 0
  BY <1>1, <1>2
<1>5. ASSUME Completed PROVE contexts' = active' \cap Timed /\ ContextsOfActive'
  <2>1. contexts = active \cap Timed /\ \A r \in Timed : live[r] = IF r \in active THEN 1 ELSE 0
    BY <1>5 DEF IInv, Counted, ContextsOfActive
  <2> QED
    BY <1>1, <1>5, <2>1 DEF ContextsOfActive
<1> QED
  BY <1>1, <1>3, <1>4, <1>5 DEF Counted

\* No context is opened or cancelled.
LEMMA SameCounts ==
  ASSUME IInv, UNCHANGED <<contexts, active, live>>
  PROVE  /\ contexts' \subseteq Timed /\ active' \subseteq States /\ live' \in [Timed -> Nat]
         /\ Counted'
BY Types DEF IInv, MachineType, GhostType, Counted, ContextsOfActive

-----------------------------------------------------------------------------
(***************************************************************************)
(* Selection preserves the invariant                                       *)
(***************************************************************************)

\* What is left of a sequence by filtering belongs to both.
LEMMA FilterOf ==
  ASSUME NEW E, NEW s \in Seq(E), NEW T
  PROVE  Filter(s, T) \in Seq(E \cap T)
<1>1. Filter(s, T) \in Seq(E)
  BY FilterType
<1>2. PICK m : Picks(m, Filter(s, T), s, T, Len(s))
  BY FilterPicks
<1>3. \A i \in 1 .. Len(Filter(s, T)) : Filter(s, T)[i] \in T
  BY <1>2 DEF Picks
<1> QED
  BY <1>1, <1>3

\* Each candidate may be taken in the current state.
LEMMA CandidatesLegal ==
  ASSUME WaysOn, currentState \in Regions, NEW s \in Ancestors[currentState],
         NEW n \in AllNames \ {InitialEvent}, NEW m \in AllNames \ {InitialEvent}
  PROVE  Candidates(s, <<n, m>>) \in Seq({t \in Transitions : Legal(currentState, t)})
<1> DEFINE L == {t \in Transitions : Legal(currentState, t)}
           own(k) == Filter(TransitionTable[s][k], {t \in Transitions : Precedes(t, s, k)})
           ini(k) == IF Initial[s] = Nothing THEN <<>> ELSE TransitionTable[Initial[s]][k]
           of(k)  == IF s # Root THEN own(k) \o ini(k)
                     ELSE IF currentState = Root THEN ini(k) ELSE own(k)
<1>1. s \in Regions /\ s \in Names
  BY Containment
<1>2. ASSUME NEW k \in AllNames \ {InitialEvent} PROVE own(k) \in Seq(L) /\ ini(k) \in Seq(L)
  <2> DEFINE fires == {t \in Transitions : k \in t.events}
  <2>1. \A v \in Names : TransitionTable[v][k] \in Seq(ToSet(Outgoing[v]) \cap fires)
    BY OutgoingFacts, FilterOf DEF TransitionTable
  <2>2. own(k) \in Seq(ToSet(Outgoing[s]) \cap fires)
    BY <1>1, <2>1, FilterType
  <2>3. ToSet(Outgoing[s]) \cap fires \subseteq L
    BY <1>1, OutgoingFacts, LegalUp
  <2>4. \A A, B : A \subseteq B => Seq(A) \subseteq Seq(B)
    OBVIOUS
  <2>5. own(k) \in Seq(L)
    BY <2>2, <2>3, <2>4
  <2>6. ini(k) \in Seq(L)
    <3>1. CASE Initial[s] = Nothing
      BY <3>1
    <3>2. CASE Initial[s] # Nothing
      <4>1. OfKind(Initial[s], "initial") /\ Initial[s] \in Vertices /\ Initial[s] \in Names
            /\ Initial[s] \in Pseudostates
        BY <1>1, <3>2, InterpreterAssumption DEF OfKind, Names, Pseudostates, States
      <4>2. ToSet(Outgoing[Initial[s]]) \cap fires = {}
        <5> SUFFICES ASSUME NEW t \in ToSet(Outgoing[Initial[s]]), k \in t.events PROVE FALSE
          OBVIOUS
        <5>1. t \in Transitions /\ t.source = Initial[s]
          BY <4>1, OutgoingFacts
        <5>2. ValidTransition(t)
          BY <5>1, TransitionFacts
        <5>3. t.events = {InitialEvent}
          BY <4>1, <5>1, <5>2 DEF ValidTransition
        <5> QED
          BY <5>3
      <4>3. ini(k) \in Seq({})
        BY <2>1, <3>2, <4>1, <4>2
      <4> QED
        BY <2>4, <4>3
    <3> QED
      BY <3>1, <3>2
  <2> QED
    BY <2>5, <2>6
<1>3. ASSUME NEW k \in AllNames \ {InitialEvent} PROVE of(k) \in Seq(L)
  <2> HIDE DEF own, ini, L
  <2> QED
    BY <1>2, <1>3
<1>4. Candidates(s, <<n, m>>) = of(n) \o of(m)
  <2> DEFINE ns == <<n, m>>
  <2>1. Candidates(s, ns) = of(ns[1]) \o IF Len(ns) = 1 THEN <<>> ELSE of(ns[2])
    BY Zenon DEF Candidates
  <2>2. ns[1] = n /\ ns[2] = m /\ Len(ns) # 1
    OBVIOUS
  <2> HIDE DEF of, ns
  <2>3. Candidates(s, ns) = of(n) \o of(m)
    BY <2>1, <2>2
  <2> QED
    BY <2>3 DEF ns
<1> HIDE DEF of, L
<1>5. of(n) \o of(m) \in Seq(L)
  BY <1>3
<1> QED
  BY <1>4, <1>5 DEF L

\* The names looked up for an event.
LEMMA NamesOf ==
  ASSUME NEW e \in EventNames \cup {FinalEvent, InitialEvent}
  PROVE  /\ LookupNames(e) = <<e, AnyEvent>> /\ e \in AllNames /\ AnyEvent \in AllNames
         /\ AnyEvent # InitialEvent /\ (e \in EventNames \cup {FinalEvent} => e # InitialEvent)
BY InterpreterAssumption DEF LookupNames, AllNames

\* An event is about to be matched in the state it finds the machine in.
LEMMA SelectMoves ==
  ASSUME WaysOn, IInv, pc = "idle", NEW e \in EventNames \cup {FinalEvent}, Select(e),
         currentState \in States, currentState' = currentState, completion' = FALSE,
         selecting' = currentState, rest' = Candidates(currentState, names')
  PROVE  IInv'
<1>1. names' = <<e, AnyEvent>> /\ names' \in Seq(AllNames)
  <2>1. /\ LookupNames(e) = <<e, AnyEvent>> /\ e \in AllNames /\ AnyEvent \in AllNames
        /\ e # InitialEvent /\ AnyEvent # InitialEvent
    BY NamesOf
  <2>2. names' = <<e, AnyEvent>>
    BY <2>1 DEF Select
  <2> QED
    BY <2>1, <2>2
<1>2. currentState \in Regions /\ currentState \in Names /\ currentState \in Ancestors[currentState]
  BY Containment, Above DEF Regions
<1>3. rest' \in Seq({t \in Transitions : Legal(currentState, t)})
  BY <1>1, <1>2, NamesOf, CandidatesLegal
<1>4. rest' \in Seq(Transitions)
  BY <1>3
<1>5. contexts' \subseteq Timed /\ active' \subseteq States /\ live' \in [Timed -> Nat] /\ Counted'
  BY SameCounts DEF Select
<1>6. EventType'
  BY <1>1, <1>2, <1>4, Types DEF IInv, EventType, Select, frame, OrNothing
<1>7. MachineType' /\ GhostType'
  BY <1>2, <1>5, Types DEF IInv, MachineType, HistoryType, GhostType, Select
<1>8. Remembers'
  BY DEF IInv, Remembers, Select
<1>9. Selecting'
  BY <1>1, <1>2, <1>3 DEF IInv, Where, Selecting, At, Select
<1>10. Where'
  BY <1>2, <1>9 DEF Where, Select
<1>11. TypeOK'
  BY <1>6, <1>7 DEF TypeOK, MachineType, HistoryType, EventType, GhostType, AllNames
<1> QED
  BY <1>5, <1>8, <1>10, <1>11 DEF IInv

LEMMA DispatchKeeps ==
  ASSUME WaysOn, IInv, Dispatch
  PROVE  IInv'
<1>1. completion' = FALSE
  BY Types DEF Dispatch, IInv, MachineType
<1>2. PICK e \in EventNames : Select(e)
  BY DEF Dispatch
<1> QED
  BY <1>1, <1>2, SelectMoves DEF Dispatch

LEMMA CompleteKeeps ==
  ASSUME WaysOn, IInv, Complete
  PROVE  IInv'
<1>1. currentState \in States
  BY DEF Complete, IInv, Where
<1> QED
  BY <1>1, SelectMoves DEF Complete

LEMMA StartKeeps ==
  ASSUME WaysOn, IInv, Start
  PROVE  IInv'
<1>1. names' = <<InitialEvent, AnyEvent>> /\ names' \in Seq(AllNames)
  <2>1. /\ LookupNames(InitialEvent) = <<InitialEvent, AnyEvent>>
        /\ InitialEvent \in AllNames /\ AnyEvent \in AllNames
    BY NamesOf
  <2>2. names' = <<InitialEvent, AnyEvent>>
    BY <2>1 DEF Start, Select
  <2> QED
    BY <2>1, <2>2
<1>2. Root \in Regions /\ Root \in Names /\ Root \in Ancestors[Root] /\ Root \notin States
  BY Containment, Above
<1>3. /\ rest' \in Seq(Transitions) /\ Len(rest') <= 1
      /\ rest' # <<>> => Legal(Root, Head(rest'))
  <2>1. CASE InitialOf(Root) = <<>>
    BY <2>1 DEF Start
  <2>2. CASE InitialOf(Root) # <<>>
    <3>1. /\ InitialOf(Root) \in Seq(Transitions) /\ Len(InitialOf(Root)) = 1
          /\ Legal(Root, Head(InitialOf(Root)))
      BY <1>2, <2>2, InitialTransition
    <3>2. rest' = InitialOf(Root)
      BY DEF Start
    <3>3. Len(InitialOf(Root)) <= 1
      BY <3>1
    <3> QED
      BY <3>1, <3>2, <3>3, Zenon
  <2> QED
    BY <2>1, <2>2
<1>4. rest' \in Seq({t \in Transitions : Legal(Root, t)})
  <2>1. rest' # <<>> => rest'[1] = Head(rest') /\ rest'[1] \in Transitions
    BY <1>3
  <2> DEFINE L == {t \in Transitions : Legal(Root, t)}
  <2>2. \A i \in 1 .. Len(rest') : rest'[i] \in L
    BY <1>3, <2>1
  <2> HIDE DEF L
  <2>3. ASSUME NEW s \in Seq(Transitions), NEW T, \A i \in 1 .. Len(s) : s[i] \in T
        PROVE  s \in Seq(T)
    BY <2>3
  <2>4. rest' \in Seq(L)
    BY <1>3, <2>2, <2>3
  <2> QED
    BY <2>4 DEF L
<1>5. contexts' \subseteq Timed /\ active' \subseteq States /\ live' \in [Timed -> Nat] /\ Counted'
  BY SameCounts DEF Start, Select
<1>6. completion' = FALSE
  BY <1>2, Types, InterpreterAssumption, Containment DEF Start, IInv, Where, MachineType, Regions
<1>7. At(Root)'
  <2>1. Within(currentState) = Within(Root)
    BY <1>2, InterpreterAssumption DEF Start, Within, States, Names
  <2> QED
    BY <2>1 DEF Start, Select, IInv, Where, At
<1>8. EventType'
  BY <1>1, <1>2, <1>3, Types DEF IInv, EventType, Start, Select, frame, OrNothing
<1>9. MachineType' /\ GhostType'
  BY <1>2, <1>5, <1>6, Types DEF IInv, MachineType, HistoryType, GhostType, Start, Select
<1>10. Remembers'
  BY DEF IInv, Remembers, Start, Select
<1>11. Selecting'
  BY <1>1, <1>2, <1>4, <1>7 DEF Selecting, At, Start
<1>12. Where'
  BY <1>2, <1>6, <1>11 DEF Where, Start, Select
<1>13. TypeOK'
  BY <1>8, <1>9 DEF TypeOK, MachineType, HistoryType, EventType, GhostType, AllNames
<1> QED
  BY <1>5, <1>10, <1>12, <1>13 DEF IInv

\* A transition has begun to be executed.
LEMMA ExecutedKeeps ==
  ASSUME pc' = "exit", Exiting', EventType', HistoryType', Remembers', Counted', contexts' \subseteq Timed,
         active' \subseteq States, live' \in [Timed -> Nat], GhostType,
         currentState \in Regions, completion = FALSE,
         currentState' = currentState, completion' = completion, lastLeaf' = lastLeaf
  PROVE  IInv'
<1>1. MachineType' /\ GhostType'
  BY DEF MachineType, GhostType
<1>2. TypeOK'
  BY <1>1 DEF TypeOK, MachineType, HistoryType, EventType, GhostType, AllNames
<1>3. Where'
  BY DEF Where
<1> QED
  BY <1>2, <1>3 DEF IInv

\* An action that evaluates a guard, or looks at the parent, in selection.
LEMMA GuardTrueKeeps ==
  ASSUME WaysOn, IInv, GuardTrue
  PROVE  IInv'
<1> DEFINE t == Head(rest)
<1>1. pc = "select" /\ rest # <<>> /\ Execute(currentState, t) /\ UNCHANGED <<contexts, active, live>>
  BY DEF GuardTrue
<1>2. currentState \in Regions /\ At(currentState) /\ rest \in Seq({u \in Transitions : Legal(currentState, u)})
  BY <1>1 DEF IInv, Where, Selecting
<1>3. Legal(currentState, t)
  <2> DEFINE L == {u \in Transitions : Legal(currentState, u)}
  <2> HIDE DEF L
  <2>1. rest \in Seq(L)
    BY <1>2 DEF L
  <2>2. t \in L
    BY <1>1, <2>1
  <2> QED
    BY <2>2 DEF L
<1>4. currentState \notin Pseudostates /\ Ground(currentState) = currentState
  BY <1>2, Containment DEF Ground
<1>5. MachineType /\ GhostType /\ Remembers /\ completion = FALSE
  BY <1>1, Types DEF IInv, Where, MachineType
<1> HIDE DEF t
<1>6. /\ pc' = "exit" /\ Exiting' /\ EventType' /\ HistoryType' /\ Remembers'
      /\ currentState' = currentState /\ completion' = completion /\ lastLeaf' = lastLeaf
  <2>1. Completed => active' = Within(Ground(currentState))
    BY <1>1, <1>2, <1>4 DEF At
  <2> QED
    BY <1>1, <1>2, <1>3, <1>5, <2>1, ExecuteMoves
<1>7. contexts' \subseteq Timed /\ active' \subseteq States /\ live' \in [Timed -> Nat] /\ Counted'
  BY <1>1, SameCounts
<1> QED
  BY <1>2, <1>5, <1>6, <1>7, ExecutedKeeps

LEMMA GuardFalseKeeps ==
  ASSUME WaysOn, IInv, GuardFalse
  PROVE  IInv'
<1> DEFINE L == {u \in Transitions : Legal(currentState, u)}
<1>1. /\ pc = "select" /\ rest # <<>> /\ rest' = Tail(rest) /\ refused' = refused \cup {Head(rest)}
      /\ UNCHANGED <<machine, pc, names, selecting, vertex, frame, active, live, lastLeaf>>
  BY DEF GuardFalse
<1>2. Selecting
  BY <1>1 DEF IInv, Where
<1>3. rest' \in Seq(L)
  <2>1. rest \in Seq(L)
    BY <1>2 DEF Selecting
  <2> HIDE DEF L
  <2> QED
    BY <1>1, <2>1
<1>4. rest \in Seq(Transitions) /\ refused \subseteq Transitions
  BY Types DEF IInv, EventType
<1>5. rest' \in Seq(Transitions) /\ refused' \subseteq Transitions
  BY <1>1, <1>4
<1>6. contexts' \subseteq Timed /\ active' \subseteq States /\ live' \in [Timed -> Nat] /\ Counted'
  BY <1>1, SameCounts DEF machine
<1>7. Selecting'
  BY <1>1, <1>2, <1>3 DEF Selecting, At, machine
<1>8. Where'
  BY <1>1, <1>7 DEF IInv, Where, machine
<1>9. TypeOK'
  BY <1>1, <1>5, <1>6, Types DEF IInv, TypeOK, MachineType, HistoryType, EventType, GhostType, machine, frame, AllNames
<1>10. Remembers'
  BY <1>1 DEF IInv, Remembers, machine
<1> QED
  BY <1>6, <1>8, <1>9, <1>10 DEF IInv

\* A transition is given up only where the bound on aborts allows it.
LEMMA Aborted ==
  ASSUME IInv, MayAbort
  PROVE  ~Completed
BY InterpreterAssumption DEF MayAbort, Completed

\* What is given up keeps the current state.
LEMMA GuardAbortsKeeps ==
  ASSUME IInv, GuardAborts \/ EffectAborts \/ EnterAborts \/ PseudoAborts
  PROVE  IInv'
<1>1. pc \notin {"idle", "stop"} /\ Keep /\ MayAbort /\ UNCHANGED <<contexts, active, live>>
  BY DEF GuardAborts, EffectAborts, EnterAborts, PseudoAborts
<1>2. contexts' \subseteq Timed /\ active' \subseteq States /\ live' \in [Timed -> Nat] /\ Counted'
  BY <1>1, SameCounts
<1> QED
  BY <1>1, <1>2, Aborted, KeepMoves

LEMMA ExitAbortsKeeps ==
  ASSUME IInv, ExitAborts
  PROVE  IInv'
<1>1. /\ pc = "exit" /\ exits # <<>> /\ MayAbort /\ Keep
      /\ active' = active \ {Head(exits)} /\ Cancel(Head(exits))
  BY DEF ExitAborts
<1>2. Head(exits) \in States
  BY <1>1, Types DEF IInv, EventType
<1>3. contexts' \subseteq Timed /\ active' \subseteq States /\ live' \in [Timed -> Nat] /\ Counted'
  BY <1>1, <1>2, CancelCounts
<1> QED
  BY <1>1, <1>3, Aborted, KeepMoves

LEMMA OutwardsKeeps ==
  ASSUME WaysOn, IInv, Outwards
  PROVE  IInv'
<1>1. pc = "select" /\ Selecting
  BY DEF Outwards, IInv, Where
<1>2. CASE Keep /\ UNCHANGED <<contexts, active, live>>
  <2>1. contexts' \subseteq Timed /\ active' \subseteq States /\ live' \in [Timed -> Nat] /\ Counted'
    BY <1>2, SameCounts
  <2>2. Completed => active' = Within(currentState)
    BY <1>1, <1>2 DEF Selecting, At
  <2> QED
    BY <1>1, <1>2, <2>1, <2>2, KeepMoves
<1>3. CASE /\ selecting # Root
           /\ selecting' = Dirname(selecting)
           /\ rest' = Candidates(Dirname(selecting), names)
           /\ UNCHANGED <<machine, pc, names, vertex, frame, active, live, lastLeaf, refused>>
  <2>1. currentState \in Regions /\ currentState \in Names /\ selecting \in Ancestors[currentState]
        /\ selecting \in Names /\ selecting \in Vertices /\ selecting # Nothing
    <3>1. currentState \in Regions /\ selecting \in Ancestors[currentState]
      BY <1>1 DEF Selecting
    <3>2. currentState \in Names
      BY <3>1, Containment
    <3>3. selecting \in Names
      BY <3>1, <3>2, Above
    <3> QED
      BY <1>3, <3>1, <3>2, <3>3, HierarchyAssumption DEF Names
  <2>2. Dirname(selecting) = Parent[selecting] /\ Parent[selecting] \in Ancestors[currentState]
        /\ Parent[selecting] \in Names
    <3>1. Parent[selecting] \in Names /\ Ancestors[selecting] = {selecting} \cup Ancestors[Parent[selecting]]
      BY <2>1, Depths, HierarchyAssumption
    <3>2. Parent[selecting] \in Ancestors[selecting]
      BY <3>1, Above
    <3> QED
      BY <2>1, <3>1, <3>2, Transitive DEF Dirname
  <2>3. currentState # Root
    BY <1>3, <2>1, HierarchyAssumption
  <2>4. PICK e \in EventNames \cup {FinalEvent} : names = <<e, AnyEvent>>
    BY <1>1, <2>3 DEF Selecting
  <2>5. e \in AllNames \ {InitialEvent} /\ AnyEvent \in AllNames \ {InitialEvent}
    BY <2>4, NamesOf
  <2>6. rest' \in Seq({t \in Transitions : Legal(currentState, t)})
    BY <1>3, <2>1, <2>2, <2>4, <2>5, CandidatesLegal
  <2>7. rest' \in Seq(Transitions)
    BY <2>6
  <2>8. contexts' \subseteq Timed /\ active' \subseteq States /\ live' \in [Timed -> Nat] /\ Counted'
    BY <1>3, SameCounts DEF machine
  <2>9. Selecting'
    BY <1>1, <1>3, <2>2, <2>4, <2>6 DEF Selecting, At, machine
  <2>10. Where'
    BY <1>1, <1>3, <2>9 DEF IInv, Where, machine
  <2>11. TypeOK'
    BY <1>3, <2>2, <2>7, <2>8, Types
    DEF IInv, TypeOK, MachineType, HistoryType, EventType, GhostType, machine, frame, AllNames, OrNothing
  <2>12. Remembers'
    BY <1>3 DEF IInv, Remembers, machine
  <2> QED
    BY <2>8, <2>10, <2>11, <2>12 DEF IInv
<1> QED
  BY <1>2, <1>3 DEF Outwards

-----------------------------------------------------------------------------
(***************************************************************************)
(* Exit and effect preserve the invariant                                  *)
(***************************************************************************)

\* Leaving the innermost of the states to leave.
LEMMA ExitStep ==
  ASSUME IInv, NEW pos \in Regions, NEW top \in Ancestors[pos], exits = Below(top, pos), exits # <<>>,
         At(pos), exits' = Tail(exits), active' = active \ {Head(exits)}, Cancel(Head(exits))
  PROVE  /\ pos \in States /\ Head(exits) = pos
         /\ Parent[pos] \in Regions /\ top \in Ancestors[Parent[pos]]
         /\ exits' = Below(top, Parent[pos]) /\ exits' \in Seq(States) /\ At(Parent[pos])'
         /\ contexts' \subseteq Timed /\ active' \subseteq States /\ live' \in [Timed -> Nat]
         /\ Counted'
<1>1. pos \in Names /\ top \in Names
  BY Containment, Above
<1>2. pos # top
  BY <1>1, BelowStep
<1>3. /\ pos \in Vertices /\ top \in Ancestors[Parent[pos]] /\ Parent[pos] \in Names
      /\ Head(exits) = pos /\ exits' = Below(top, Parent[pos])
  BY <1>1, <1>2, BelowType
<1>4. pos \in States
  BY <1>3, HierarchyAssumption DEF Regions
<1>5. Parent[pos] \in Regions /\ pos \notin Within(Parent[pos]) /\ Within(pos) = {pos} \cup Within(Parent[pos])
  BY <1>4, WithinUp
<1>6. exits' \in Seq(States)
  BY <1>3, <1>5, WayTypes
<1>7. At(Parent[pos])'
  BY <1>3, <1>5 DEF At
<1>8. /\ contexts' \subseteq Timed /\ active' \subseteq States /\ live' \in [Timed -> Nat]
      /\ Counted'
  BY <1>3, <1>4, CancelCounts
<1> QED
  BY <1>3, <1>4, <1>5, <1>6, <1>7, <1>8

LEMMA ExitStateKeeps ==
  ASSUME IInv, ExitState
  PROVE  IInv'
<1>1. /\ pc = "exit" /\ exits # <<>>
      /\ exits' = Tail(exits) /\ active' = active \ {Head(exits)} /\ Cancel(Head(exits))
      /\ UNCHANGED <<currentState, shallow, deep, completion, pc, names, selecting, rest, vertex,
                     transition, enters, target, result, lastLeaf, refused>>
  BY DEF ExitState
<1>2. Exiting
  BY <1>1 DEF IInv, Where
<1>3. transition \in Transitions /\ ~Internal(transition)
  BY <1>1, <1>2 DEF Exiting
<1>4. PICK pos \in Regions : \E top \in Ancestors[pos] \cap Ancestors[transition.target] : Climbing(pos, top)
  BY <1>2, <1>3 DEF Exiting
<1>5. PICK top \in Ancestors[pos] \cap Ancestors[transition.target] : Climbing(pos, top)
  BY <1>4
<1>6. exits = Below(top, pos) /\ At(pos)
  BY <1>5 DEF Climbing
<1>7. /\ Parent[pos] \in Regions /\ top \in Ancestors[Parent[pos]]
      /\ exits' = Below(top, Parent[pos]) /\ exits' \in Seq(States) /\ At(Parent[pos])'
      /\ contexts' \subseteq Timed /\ active' \subseteq States /\ live' \in [Timed -> Nat]
      /\ Counted'
  BY <1>1, <1>6, ExitStep
<1>8. Climbing(Parent[pos], top)'
  BY <1>1, <1>5, <1>7 DEF Climbing
<1>9. Exiting'
  BY <1>1, <1>3, <1>5, <1>7, <1>8 DEF Exiting, Internal
<1>10. Where'
  BY <1>1, <1>9 DEF IInv, Where
<1>11. TypeOK'
  BY <1>1, <1>7, Types DEF IInv, TypeOK, MachineType, HistoryType, EventType, GhostType, AllNames
<1>12. Remembers'
  BY <1>1 DEF IInv, Remembers
<1> QED
  BY <1>7, <1>10, <1>11, <1>12 DEF IInv

\* Beyond an entry point its transition leads into its submachine.
LEMMA EntryWay ==
  ASSUME WaysOn, NEW v, OfKind(v, "entry")
  PROVE  LET inner == Outgoing[v][1].target
         IN  /\ v \in Vertices /\ v \in Pseudostates /\ inner \in Names
             /\ ~OfKind(inner, "entry") /\ ~OfKind(inner, "initial")
             /\ Parent[v] \in Regions /\ Parent[v] \in Names /\ Parent[v] \in Ancestors[inner]
<1> DEFINE t == Outgoing[v][1]
<1>1. v \in Vertices /\ v \in Pseudostates /\ v \in Names /\ Kind[v] = "entry"
  BY DEF OfKind, Pseudostates, States, Names
<1>2. Parent[v] \in Regions /\ Parent[v] \in Names
  BY <1>1, Containment
<1>3. Len(Outgoing[v]) = 1 /\ ~OfKind(t.target, "entry")
  BY <1>1, ModelValid DEF ValidVertex
<1>4. Outgoing[v] \in Seq(ToSet(Outgoing[v]))
  BY <1>1, OutgoingFacts
<1>5. t \in ToSet(Outgoing[v])
  BY <1>3, <1>4
<1>6. t \in Transitions /\ t.source = v
  BY <1>1, <1>5, OutgoingFacts
<1>7. ValidTransition(t) /\ t.target \in Names \cup {Nothing}
  BY <1>6, TransitionFacts
<1>8. t.target # Nothing
  BY <1>6, <1>7 DEF ValidTransition
<1>9. Parent[v] \in Ancestors[t.target]
  BY <1>6, <1>7 DEF ValidTransition
<1>10. ~OfKind(t.target, "initial")
  BY <1>6 DEF WaysOn
<1> QED
  BY <1>1, <1>2, <1>3, <1>7, <1>8, <1>9, <1>10

\* The way to an entry point is the one to its submachine, and goes on from there.
LEMMA EntryPath ==
  ASSUME WaysOn, NEW v, OfKind(v, "entry"), NEW pos \in Regions, pos \in Ancestors[v],
         Parent[v] # Root => pos # Parent[v]
  PROVE  LET inner == Outgoing[v][1].target
             way   == Front(Down(pos, v)) \o Filter(Path[Dirname(v)][inner].enter, Vertices)
         IN  /\ way \in Seq(Vertices) /\ pos \in Ancestors[inner]
             /\ \/ way = Down(pos, inner)
                \/ way = Down(pos, inner) \o <<inner>> /\ inner # pos
<1> DEFINE inner == Outgoing[v][1].target
           around == Parent[v]
<1>1. /\ v \in Vertices /\ v \in Pseudostates /\ inner \in Names /\ v \in Names
      /\ around \in Regions /\ around \in Names /\ around \in Ancestors[inner]
  BY EntryWay DEF Names
<1>2. pos # v /\ pos \in Names
  BY <1>1, Containment
<1>3. pos \in Ancestors[around]
  BY <1>1, <1>2, ProperAncestor
<1>4. Down(pos, v) = Append(Down(pos, around), v)
  BY <1>1, <1>2, DownStep
<1>5. Down(pos, around) \in Seq(Vertices)
  BY <1>1, <1>3, WayTypes
<1>6. Front(Down(pos, v)) = Down(pos, around)
  <2> DEFINE s == Down(pos, around)
  <2> HIDE DEF s
  <2>1. s \in Seq(Vertices)
    BY <1>5 DEF s
  <2>2. Front(Append(s, v)) = s
    BY <1>1, <2>1 DEF Front
  <2> QED
    BY <1>4, <2>2 DEF s
<1>7. Path[Dirname(v)][inner] = CalculatePath(around, inner)
  BY <1>1, HierarchyAssumption DEF Path, Dirname, Names
<1>8. CASE around = inner
  <2>1. CalculatePath(around, inner).enter = <<inner>>
    BY <1>8 DEF CalculatePath
  <2>2. Filter(<<inner>>, Vertices) = IF inner \in Vertices THEN <<inner>> ELSE <<>>
    <3> DEFINE one == <<inner>> none == <<>>
    <3>1. inner \in Vertices => one \in Seq(Vertices)
      OBVIOUS
    <3>2. none \in Seq(Vertices) /\ <<inner>> \o none = one
      OBVIOUS
    <3> HIDE DEF none
    <3>3. inner \notin Vertices => Filter(<<inner>> \o none, Vertices) = none
      BY <3>2, FilterAll
    <3> HIDE DEF one
    <3>4. inner \in Vertices => Filter(one, Vertices) = one
      BY <3>1, FilterAll
    <3>5. inner \notin Vertices => Filter(one, Vertices) = none
      BY <3>2, <3>3
    <3> QED
      BY <3>4, <3>5 DEF one, none
  <2>3. CASE around = Root
    <3>1. pos = Root /\ inner \notin Vertices
      BY <1>3, <1>8, <2>3, HierarchyAssumption
    <3>2. Down(pos, around) = <<>>
      BY <1>1, <1>3, <2>3, <3>1, DownStep
    <3> QED
      BY <1>3, <1>5, <1>6, <1>7, <1>8, <2>1, <2>2, <3>1, <3>2
  <2>4. CASE around # Root
    <3>1. inner \in Vertices /\ inner # pos
      BY <1>1, <1>8, <2>4 DEF Names
    <3>2. Down(pos, inner) \o <<inner>> \in Seq(Vertices)
      BY <1>5, <1>8, <3>1
    <3> QED
      BY <1>3, <1>6, <1>7, <1>8, <2>1, <2>2, <3>1, <3>2
  <2> QED
    BY <2>3, <2>4
<1>9. CASE around # inner
  <2>1. Ancestors[around] \subseteq Ancestors[inner]
    BY <1>1, Transitive
  <2>2. Lca(around, inner) = around
    <3>1. Ancestors[around] = Ancestors[around] \cap Ancestors[inner]
      BY <2>1
    <3>2. Meet(around, inner) = around
      BY <1>1, <3>1, MeetSame
    <3> QED
      BY <1>1, <1>9, <3>2, LcaIs
  <2>3. CalculatePath(around, inner).enter = Down(around, inner)
    BY <1>9, <2>2 DEF CalculatePath, Down
  <2>4. Down(around, inner) \in Seq(Vertices)
    BY <1>1, WayTypes
  <2>5. Filter(Down(around, inner), Vertices) = Down(around, inner)
    BY <2>4, FilterAll
  <2>6. Down(pos, around) \o Down(around, inner) = Down(pos, inner)
    BY <1>1, <1>3, DownJoins
  <2>7. pos \in Ancestors[inner]
    BY <1>3, <2>1
  <2>8. Down(pos, inner) \in Seq(Vertices)
    BY <1>1, <2>7, WayTypes
  <2> QED
    BY <1>6, <1>7, <2>3, <2>5, <2>6, <2>7, <2>8
<1> QED
  BY <1>8, <1>9

LEMMA EffectKeeps ==
  ASSUME WaysOn, IInv, Effect
  PROVE  IInv'
<1>1. pc = "exit" /\ exits = <<>> /\ UNCHANGED <<contexts, active, live>>
  BY DEF Effect
<1>2. Exiting /\ transition \in Transitions /\ currentState \in Regions
  BY <1>1 DEF IInv, Where, Exiting
<1>3. contexts' \subseteq Timed /\ active' \subseteq States /\ live' \in [Timed -> Nat] /\ Counted'
  BY <1>1, SameCounts
<1>4. CASE Internal(transition)
  <2>1. Arrive(currentState) /\ UNCHANGED <<shallow, deep>>
    BY <1>4 DEF Effect
  <2>2. Completed => active' = Within(currentState)
    BY <1>1, <1>2, <1>4 DEF Exiting, At
  <2> QED
    BY <1>1, <1>2, <1>3, <2>1, <2>2, ArriveMoves
<1>5. CASE ~Internal(transition)
  <2> DEFINE v == transition.target
             inner == Outgoing[v][1].target
  <2>1. /\ pc' = "enter"
        /\ UNCHANGED <<currentState, shallow, deep, completion, names, selecting, rest, vertex,
                       transition, exits, lastLeaf, refused>>
        /\ IF OfKind(v, "entry")
           THEN /\ enters' = Front(enters) \o Filter(Path[Dirname(v)][inner].enter, Vertices)
                /\ target' = inner /\ result' = inner
           ELSE UNCHANGED <<enters, target, result>>
    BY <1>5 DEF Effect
  <2>2. PICK pos \in Regions : \E top \in Ancestors[pos] \cap Ancestors[v] : Climbing(pos, top)
    BY <1>2, <1>5 DEF Exiting
  <2>3. PICK top \in Ancestors[pos] \cap Ancestors[v] : Climbing(pos, top)
    BY <2>2
  <2>4. /\ exits = Below(top, pos) /\ enters = Down(top, v) /\ target = v /\ result = v /\ At(pos)
        /\ OfKind(v, "entry") /\ Parent[v] # Root => top # Parent[v]
    BY <2>3 DEF Climbing
  <2>5. pos \in Names /\ v \in Names /\ ~OfKind(v, "initial")
    BY <1>2, <1>5, TransitionFacts, Containment DEF Internal, WaysOn
  <2>6. pos = top
    BY <1>1, <2>4, <2>5, BelowType
  <2>7. At(pos)'
    BY <1>1, <2>4 DEF At
  <2> HIDE DEF v, inner
  <2>8. Entering' /\ enters' \in Seq(Vertices) /\ target' \in Names /\ result' \in Names
    <3>1. CASE OfKind(v, "entry")
      <4>1. /\ enters' \in Seq(Vertices) /\ pos \in Ancestors[inner]
            /\ \/ enters' = Down(pos, inner)
               \/ enters' = Down(pos, inner) \o <<inner>> /\ inner # pos
        BY <2>1, <2>3, <2>4, <2>6, <3>1, EntryPath DEF inner
      <4>2. inner \in Names /\ ~OfKind(inner, "entry") /\ ~OfKind(inner, "initial") /\ inner # Nothing
        BY <3>1, EntryWay, HierarchyAssumption DEF inner
      <4>3. Descending(pos)'
        BY <2>1, <2>7, <3>1, <4>1 DEF Descending
      <4> QED
        BY <1>1, <2>1, <3>1, <4>1, <4>2, <4>3 DEF Entering
    <3>2. CASE ~OfKind(v, "entry")
      <4>1. Descending(pos)'
        BY <2>1, <2>3, <2>4, <2>6, <2>7, <3>2 DEF Descending
      <4>2. v # Nothing
        BY <2>5, HierarchyAssumption
      <4>3. enters' \in Seq(Vertices)
        BY <2>1, <3>2, Types DEF IInv, EventType
      <4> QED
        BY <1>1, <2>1, <2>4, <2>5, <3>2, <4>1, <4>2, <4>3 DEF Entering
    <3> QED
      BY <3>1, <3>2
  <2>9. Where'
    BY <1>1, <2>1, <2>8 DEF IInv, Where
  <2>10. TypeOK'
    BY <1>3, <2>1, <2>8, Types
    DEF IInv, TypeOK, MachineType, HistoryType, EventType, GhostType, AllNames, OrNothing
  <2>11. Remembers'
    BY <2>1 DEF IInv, Remembers
  <2> QED
    BY <1>3, <2>9, <2>10, <2>11 DEF IInv
<1> QED
  BY <1>4, <1>5

-----------------------------------------------------------------------------
(***************************************************************************)
(* Entry preserves the invariant                                           *)
(***************************************************************************)

\* The first to be entered lies in the innermost active state, and only the result
\* is no state.
LEMMA EnterNext ==
  ASSUME NEW pos \in Regions, result \in Names, Descending(pos), enters # <<>>
  PROVE  LET s == Head(enters)
         IN  /\ s \in Vertices /\ Parent[s] = pos /\ s \in Ancestors[result]
             /\ s # result => s \in States
             /\ s # target =>
                  \/ Tail(enters) = Down(s, result)
                  \/ Tail(enters) = Down(s, result) \o <<result>> /\ result # s /\ target = result
<1> DEFINE way == Down(pos, result)
<1>1. pos \in Ancestors[result] /\ pos \in Names
  BY Containment DEF Descending
<1>2. result # pos
  BY <1>1, DownStep DEF Descending
<1>3. way # <<>> /\ way \in Seq(Vertices)
  BY <1>1, <1>2, DownHead, WayTypes
<1>4. PICK s \in Ancestors[result] : s \in Vertices /\ Parent[s] = pos /\ Head(way) = s
                                     /\ Tail(way) = Down(s, result)
  BY <1>1, <1>2, DownHead
<1>5. s # result => s \in States
  BY <1>4, Containment, HierarchyAssumption DEF Regions
<1>6. \/ enters = way
      \/ enters = way \o <<result>> /\ target = result
  BY DEF Descending
<1> HIDE DEF way
<1>7. Head(way \o <<result>>) = Head(way) /\ Tail(way \o <<result>>) = Tail(way) \o <<result>>
  <2> DEFINE E == Vertices \cup {result}
  <2>1. way \in Seq(E) /\ <<result>> \in Seq(E)
    BY <1>3
  <2> HIDE DEF E
  <2> QED
    BY <1>3, <2>1
<1> QED
  BY <1>4, <1>5, <1>6, <1>7

LEMMA EnterStateKeeps ==
  ASSUME WaysOn, IInv, EnterState
  PROVE  IInv'
<1>1. PICK s \in States : pc = "enter" /\ enters # <<>> /\ s = Head(enters) /\ Open(s)
  BY DEF EnterState
<1>2. Entering /\ currentState \in Regions /\ completion = FALSE
  BY <1>1, Types DEF IInv, Where, MachineType
<1>3. PICK pos \in Regions : Descending(pos)
  BY <1>2 DEF Entering
<1>4. /\ exits = <<>> /\ result \in Names /\ target \in {result, Nothing}
      /\ ~OfKind(result, "initial") /\ ~OfKind(result, "entry")
      /\ target = Nothing => result \in States
  BY <1>2 DEF Entering
<1>5. /\ s \in Vertices /\ Parent[s] = pos /\ s \in Ancestors[result]
      /\ s # target =>
           \/ Tail(enters) = Down(s, result)
           \/ Tail(enters) = Down(s, result) \o <<result>> /\ result # s /\ target = result
  BY <1>1, <1>3, <1>4, EnterNext
<1>6. At(pos)
  BY <1>3 DEF Descending
<1>7. s \notin Within(pos) /\ Within(s) = {s} \cup Within(pos) /\ s \in Regions /\ s # Nothing
      /\ s \in Names
  BY <1>1, <1>5, WithinUp, Containment, HierarchyAssumption DEF Regions
<1>8. /\ contexts' \subseteq Timed /\ active' \subseteq States /\ live' \in [Timed -> Nat]
      /\ Counted' /\ active' = active \cup {s}
  BY <1>1, <1>6, <1>7, OpenCounts DEF At
<1>9. Completed => active' = Within(s)
  BY <1>6, <1>7, <1>8 DEF At
<1>10. CASE s # target
  <2>1. /\ enters' = Tail(enters)
        /\ UNCHANGED <<currentState, shallow, deep, completion, pc, names, selecting, rest, vertex,
                       transition, exits, target, result, lastLeaf, refused>>
    BY <1>1, <1>10 DEF EnterState
  <2>2. Descending(s)'
    <3>1. result' = result /\ target' = target /\ enters' = Tail(enters)
      BY <2>1
    <3>2. At(s)'
      BY <1>9 DEF At
    <3> QED
      BY <1>5, <1>10, <3>1, <3>2 DEF Descending
  <2>3. Entering'
    <3>1. exits' = exits /\ result' = result /\ target' = target
      BY <2>1
    <3>2. \E q \in Regions : Descending(q)'
      BY <1>7, <2>2
    <3> QED
      BY <1>4, <3>1, <3>2 DEF Entering
  <2>4. Where'
    BY <1>1, <1>2, <2>1, <2>3 DEF Where
  <2>5. enters' \in Seq(Vertices)
    BY <1>1, <2>1, Types DEF IInv, EventType
  <2>6. TypeOK'
    BY <1>8, <2>1, <2>5, Types
    DEF IInv, TypeOK, MachineType, HistoryType, EventType, GhostType, AllNames
  <2>7. Remembers'
    BY <2>1 DEF IInv, Remembers
  <2> QED
    BY <1>8, <2>4, <2>6, <2>7 DEF IInv
<1>11. CASE s = target /\ InitialOf(s) = <<>>
  <2>1. Arrive(s) /\ UNCHANGED <<shallow, deep>>
    BY <1>1, <1>11 DEF EnterState
  <2> QED
    BY <1>1, <1>7, <1>8, <1>9, <2>1, ArriveMoves
<1>12. CASE s = target /\ InitialOf(s) # <<>>
  <2>1. Execute(s, Head(InitialOf(s)))
    BY <1>1, <1>12 DEF EnterState
  <2>2. Legal(s, Head(InitialOf(s))) /\ ~Internal(Head(InitialOf(s)))
    BY <1>7, <1>12, InitialTransition
  <2>3. Ground(s) = s
    BY <1>7, Containment DEF Ground
  <2>4. MachineType /\ GhostType /\ Remembers
    BY Types DEF IInv
  <2>5. /\ pc' = "exit" /\ Exiting' /\ EventType' /\ HistoryType' /\ Remembers'
        /\ currentState' = currentState /\ completion' = completion /\ lastLeaf' = lastLeaf
    BY <1>9, <2>1, <2>2, <2>3, <2>4, ExecuteMoves
  <2> QED
    BY <1>2, <1>8, <2>4, <2>5, ExecutedKeeps
<1> QED
  BY <1>10, <1>11, <1>12

LEMMA NothingToEnterKeeps ==
  ASSUME WaysOn, IInv, NothingToEnter
  PROVE  IInv'
<1>1. pc = "enter" /\ enters = <<>> /\ Arrive(result) /\ UNCHANGED <<shallow, deep, contexts, active, live>>
  BY DEF NothingToEnter
<1>2. Entering
  BY <1>1 DEF IInv, Where
<1>3. PICK pos \in Regions : Descending(pos)
  BY <1>2 DEF Entering
<1>4. result \in Names /\ pos \in Ancestors[result] /\ At(pos)
  BY <1>2, <1>3 DEF Entering, Descending
<1>5. result = pos
  <2> SUFFICES ASSUME result # pos PROVE FALSE
    OBVIOUS
  <2>1. Down(pos, result) # <<>> /\ Down(pos, result) \in Seq(Vertices)
    BY <1>4, DownHead, WayTypes
  <2>2. enters = Down(pos, result) \/ enters = Down(pos, result) \o <<result>>
    BY <1>3 DEF Descending
  <2> QED
    BY <1>1, <2>1, <2>2
<1>6. contexts' \subseteq Timed /\ active' \subseteq States /\ live' \in [Timed -> Nat] /\ Counted'
  BY <1>1, SameCounts
<1>7. Completed => active' = Within(result)
  BY <1>1, <1>4, <1>5 DEF At
<1> QED
  BY <1>1, <1>5, <1>6, <1>7, ArriveMoves

\* A pseudostate that is entered has a way on.
LEMMA PseudostateLeads ==
  ASSUME WaysOn, NEW v \in Pseudostates, ~OfKind(v, "initial"), ~OfKind(v, "entry")
  PROVE  LeadsOn(v, Outgoing[v])
<1>1. v \in Vertices /\ v \in Names /\ Kind[v] \in {"choice", "shallow", "deep", "exit"}
  BY InterpreterAssumption DEF Pseudostates, States, Kinds, OfKind, Names
<1>2. Outgoing[v] \in Seq(ToSet(Outgoing[v]))
  BY <1>1, OutgoingFacts
<1>3. ASSUME NEW i \in DOMAIN Outgoing[v], v \notin {w \in Vertices : Kind[w] = "exit"}
      PROVE  ~Internal(Outgoing[v][i])
  <2>1. Outgoing[v][i] \in ToSet(Outgoing[v])
    BY <1>2, <1>3
  <2>2. Outgoing[v][i] \in Transitions /\ Outgoing[v][i].source = v
    BY <1>1, <2>1, OutgoingFacts
  <2>3. ValidTransition(Outgoing[v][i])
    BY <2>2, TransitionFacts
  <2> QED
    BY <1>1, <1>3, <2>2, <2>3 DEF ValidTransition, Internal, OfKind
<1>4. CASE Kind[v] = "choice"
  <2>1. Outgoing[v] # <<>> /\ \A i \in DOMAIN Outgoing[v] : Outgoing[v][i].guarded <=> i < Len(Outgoing[v])
    BY <1>1, <1>4, ModelValid DEF ValidVertex
  <2>2. Len(Outgoing[v]) \in DOMAIN Outgoing[v] /\ ~(Len(Outgoing[v]) < Len(Outgoing[v]))
    BY <1>2, <2>1
  <2> QED
    BY <1>1, <1>3, <1>4, <2>1, <2>2 DEF LeadsOn
<1>5. CASE Kind[v] \in {"shallow", "deep"}
  <2>1. CASE InitialOf(Parent[v]) # <<>>
    BY <1>1, <1>5, <2>1 DEF LeadsOn, IsHistory, OfKind
  <2>2. CASE \E t \in ToSet(Outgoing[v]) : ~t.guarded
    <3>1. \E i \in DOMAIN Outgoing[v] : ~Outgoing[v][i].guarded
      BY <2>2 DEF ToSet
    <3> QED
      BY <1>3, <1>5, <3>1 DEF LeadsOn
  <2> QED
    BY <1>1, <1>5, <2>1, <2>2 DEF WaysOn
<1>6. CASE Kind[v] = "exit"
  <2>1. CASE ~Completed
    BY <1>6, <2>1 DEF LeadsOn
  <2>2. CASE Completed
    <3>1. \E t \in ToSet(Outgoing[v]) : ~t.guarded /\ t.target # Nothing
      BY <1>1, <1>6, <2>2 DEF Completed
    <3>2. \E i \in DOMAIN Outgoing[v] : ~Outgoing[v][i].guarded /\ ~Internal(Outgoing[v][i])
      BY <3>1 DEF ToSet, Internal
    <3> QED
      BY <3>2 DEF LeadsOn
  <2> QED
    BY <2>1, <2>2
<1> QED
  BY <1>1, <1>4, <1>5, <1>6

LEMMA EnterPseudostateKeeps ==
  ASSUME WaysOn, IInv, EnterPseudostate
  PROVE  IInv'
<1>1. PICK v \in Pseudostates : v = Head(enters)
  BY DEF EnterPseudostate
<1> DEFINE remembered == IF ~IsHistory(v) THEN Nothing
                         ELSE IF Kind[v] = "shallow" THEN shallow[Parent[v]] ELSE deep[Parent[v]]
<1>2. /\ pc = "enter" /\ enters # <<>>
      /\ UNCHANGED <<machine, names, selecting, transition, exits, active, live, lastLeaf, refused>>
      /\ IF remembered # Nothing THEN Recall(v, remembered)
         ELSE /\ pc' = "pseudo" /\ vertex' = v
              /\ rest' = IF OfKind(v, "initial") THEN <<>> ELSE Outgoing[v]
              /\ UNCHANGED <<enters, target, result>>
  BY <1>1 DEF EnterPseudostate
<1>3. Entering /\ currentState \in Regions /\ completion = FALSE
  BY <1>2, Types DEF IInv, Where, MachineType
<1>4. PICK pos \in Regions : Descending(pos)
  BY <1>3 DEF Entering
<1>5. exits = <<>> /\ result \in Names /\ ~OfKind(result, "initial") /\ ~OfKind(result, "entry") /\ At(pos)
  BY <1>3, <1>4 DEF Entering, Descending
<1>6. v \in Vertices /\ v \in Names /\ Parent[v] = pos /\ v = result /\ v \notin States
  <2>1. Head(enters) \in Vertices /\ Parent[Head(enters)] = pos /\ (Head(enters) # result => Head(enters) \in States)
    BY <1>2, <1>4, <1>5, EnterNext
  <2>2. v \notin States /\ v \in Names
    BY DEF Pseudostates, Names
  <2> QED
    BY <1>1, <2>1, <2>2
<1>7. contexts' \subseteq Timed /\ active' \subseteq States /\ live' \in [Timed -> Nat] /\ Counted'
  BY <1>2, SameCounts DEF machine
<1>8. Remembers'
  BY <1>2 DEF IInv, Remembers, machine
<1>9. CASE remembered # Nothing
  <2>1. PICK r : r = remembered
    OBVIOUS
  <2>2. r \in States /\ r \in Names /\ pos \in Ancestors[r]
    <3>1. IsHistory(v)
      BY <1>9
    <3>2. CASE Kind[v] = "shallow"
      <4>1. Parent[v] \in Shallows /\ r = shallow[pos] /\ r # Nothing
        BY <1>6, <1>9, <2>1, <3>1, <3>2 DEF Shallows
      <4>2. r \in States /\ Parent[r] = pos
        BY <1>6, <4>1, Types DEF IInv, MachineType, HistoryType, OrNothing, Remembers
      <4>3. r \in Vertices /\ r \in Names /\ pos \in Names
        BY <4>2, Containment DEF Names
      <4> QED
        BY <4>2, <4>3, Above, HierarchyAssumption
    <3>3. CASE Kind[v] # "shallow"
      <4>1. Parent[v] \in Deeps /\ r = deep[pos] /\ r # Nothing
        BY <1>6, <1>9, <2>1, <3>1, <3>3 DEF Deeps, IsHistory, OfKind
      <4>2. r \in States /\ pos \in Ancestors[r]
        BY <1>6, <4>1, Types DEF IInv, MachineType, HistoryType, OrNothing, Remembers
      <4> QED
        BY <4>2, Containment DEF Names
    <3> QED
      BY <3>2, <3>3
  <2>3. /\ enters' = Down(pos, r) /\ target' = (IF Kind[v] = "shallow" THEN r ELSE Nothing) /\ result' = r
        /\ UNCHANGED <<pc, rest, vertex>>
    BY <1>2, <1>6, <1>9, <2>1 DEF Recall, Down
  <2>4. At(pos)'
    BY <1>2, <1>5 DEF At
  <2>5. Descending(pos)'
    BY <2>2, <2>3, <2>4 DEF Descending
  <2>6. ~OfKind(r, "initial") /\ ~OfKind(r, "entry")
    BY <2>2 DEF OfKind, States
  <2>7. Entering'
    <3>1. exits' = <<>>
      BY <1>2, <1>5
    <3> QED
      BY <2>2, <2>3, <2>5, <2>6, <3>1 DEF Entering
  <2>8. Where'
    BY <1>2, <1>3, <2>3, <2>7 DEF Where, machine
  <2>9. enters' \in Seq(Vertices)
    BY <2>2, <2>3, WayTypes
  <2>10. TypeOK'
    BY <1>2, <1>7, <2>2, <2>3, <2>9, Types
    DEF IInv, TypeOK, MachineType, HistoryType, EventType, GhostType, AllNames, OrNothing, machine
  <2> QED
    BY <1>7, <1>8, <2>8, <2>10 DEF IInv
<1>10. CASE remembered = Nothing
  <2>1. /\ pc' = "pseudo" /\ vertex' = v /\ rest' = Outgoing[v]
        /\ UNCHANGED <<enters, target, result>>
    BY <1>2, <1>5, <1>6, <1>10
  <2>2. Outgoing[v] \in Seq(ToSet(Outgoing[v])) /\ ToSet(Outgoing[v]) \subseteq Transitions
    BY <1>6, OutgoingFacts
  <2>3. LeadsOn(v, Outgoing[v])
    BY <1>5, <1>6, PseudostateLeads
  <2>4. At(pos)'
    BY <1>2, <1>5 DEF At
  <2>5. Leaving'
    <3>1. ~OfKind(v, "initial") /\ ~OfKind(v, "entry")
      BY <1>5, <1>6
    <3>2. LeadsOn(vertex', rest')
      BY <2>1, <2>3
    <3>3. Completed => active' = Within(Parent[vertex'])
      BY <1>6, <2>1, <2>4 DEF At
    <3> QED
      BY <2>1, <2>2, <3>1, <3>2, <3>3 DEF Leaving, At, LeadsOn
  <2>6. Where'
    BY <1>2, <1>3, <2>1, <2>5 DEF Where, machine
  <2>7. rest' \in Seq(Transitions)
    <3>1. \A A, B : A \subseteq B => Seq(A) \subseteq Seq(B)
      OBVIOUS
    <3> QED
      BY <2>1, <2>2, <3>1
  <2>8. TypeOK'
    BY <1>2, <1>7, <2>1, <2>7, Types
    DEF IInv, TypeOK, MachineType, HistoryType, EventType, GhostType, AllNames, OrNothing, machine
  <2> QED
    BY <1>7, <1>8, <2>6, <2>8 DEF IInv
<1> QED
  BY <1>9, <1>10

-----------------------------------------------------------------------------
(***************************************************************************)
(* Leaving a pseudostate preserves the invariant                           *)
(***************************************************************************)

\* The transitions that are left of a pseudostate.
LEMMA RestOut ==
  ASSUME IInv, pc = "pseudo"
  PROVE  /\ Leaving /\ vertex \in Pseudostates /\ vertex \in Names /\ vertex \in Vertices
         /\ Parent[vertex] \in Regions
         /\ ToSet(Outgoing[vertex]) \subseteq Transitions
         /\ rest # <<>> => Head(rest) \in ToSet(Outgoing[vertex])
         /\ currentState \in Regions /\ completion = FALSE
         /\ Ground(vertex) = Parent[vertex]
         /\ Completed => active = Within(Parent[vertex])
<1>1. Leaving /\ currentState \in Regions /\ completion = FALSE
  BY Types DEF IInv, Where, MachineType
<1>2. vertex \in Pseudostates /\ rest \in Seq(ToSet(Outgoing[vertex])) /\ At(Parent[vertex])
  BY <1>1 DEF Leaving
<1>3. vertex \in Names /\ vertex \in Vertices /\ Parent[vertex] \in Regions
  BY <1>2, Containment DEF Pseudostates
<1>4. ToSet(Outgoing[vertex]) \subseteq Transitions
  BY <1>3, OutgoingFacts
<1> QED
  BY <1>1, <1>2, <1>3, <1>4 DEF Ground, At

\* A transition is taken out of a pseudostate, or a history falls back on the
\* initial transition of its state.
LEMMA PseudoExecutes ==
  ASSUME WaysOn, IInv, pc = "pseudo", NEW from, NEW t, Legal(from, t), ~Internal(t), Execute(from, t),
         Ground(from) = Parent[vertex], UNCHANGED <<contexts, active, live>>
  PROVE  IInv'
<1>1. MachineType /\ GhostType /\ Remembers /\ currentState \in Regions /\ completion = FALSE
  BY RestOut, Types DEF IInv
<1>2. Completed => active' = Within(Ground(from))
  BY RestOut
<1>3. /\ pc' = "exit" /\ Exiting' /\ EventType' /\ HistoryType' /\ Remembers'
      /\ currentState' = currentState /\ completion' = completion /\ lastLeaf' = lastLeaf
  BY <1>1, <1>2, ExecuteMoves
<1>4. contexts' \subseteq Timed /\ active' \subseteq States /\ live' \in [Timed -> Nat] /\ Counted'
  BY SameCounts
<1> QED
  BY <1>1, <1>3, <1>4, ExecutedKeeps

LEMMA PseudoTrueKeeps ==
  ASSUME WaysOn, IInv, PseudoTrue
  PROVE  IInv'
<1>1. /\ pc = "pseudo" /\ rest # <<>> /\ ~Internal(Head(rest))
      /\ Execute(vertex, Head(rest)) /\ UNCHANGED <<contexts, active, live>>
  BY DEF PseudoTrue
<1>2. vertex \in Pseudostates /\ ~OfKind(vertex, "initial") /\ Head(rest) \in ToSet(Outgoing[vertex])
      /\ Ground(vertex) = Parent[vertex]
  BY <1>1, RestOut DEF Leaving
<1>3. Legal(vertex, Head(rest))
  BY <1>1, <1>2, LegalOut
<1> QED
  BY <1>1, <1>2, <1>3, PseudoExecutes

\* A transition whose guard is false, or that is internal, is not the one that leads on.
LEMMA PseudoNextKeeps ==
  ASSUME WaysOn, IInv, PseudoInternal \/ PseudoFalse
  PROVE  IInv'
<1>1. /\ pc = "pseudo" /\ rest # <<>> /\ rest' = Tail(rest)
      /\ Head(rest).guarded \/ Internal(Head(rest))
      /\ UNCHANGED <<machine, pc, names, selecting, vertex, frame, active, live, lastLeaf, refused>>
  BY DEF PseudoInternal, PseudoFalse
<1>2. Leaving /\ currentState \in Regions /\ completion = FALSE
  BY <1>1, RestOut
<1>3. rest \in Seq(ToSet(Outgoing[vertex])) /\ LeadsOn(vertex, rest)
  BY <1>2 DEF Leaving
<1>4. rest' \in Seq(ToSet(Outgoing[vertex]))
  BY <1>1, <1>3
<1>5. LeadsOn(vertex, rest')
  <2>1. CASE \E i \in DOMAIN rest : ~rest[i].guarded /\ ~Internal(rest[i])
    <3>1. PICK i \in DOMAIN rest : ~rest[i].guarded /\ ~Internal(rest[i])
      BY <2>1
    <3>2. i # 1
      BY <1>1, <1>3, <3>1
    <3>3. i - 1 \in DOMAIN rest' /\ rest'[i - 1] = rest[i]
      BY <1>1, <1>3, <3>1, <3>2
    <3> QED
      BY <3>1, <3>3 DEF LeadsOn
  <2> QED
    BY <1>3, <2>1 DEF LeadsOn
<1>6. Leaving'
  BY <1>1, <1>2, <1>4, <1>5 DEF Leaving, LeadsOn, At
<1>7. contexts' \subseteq Timed /\ active' \subseteq States /\ live' \in [Timed -> Nat] /\ Counted'
  BY <1>1, SameCounts DEF machine
<1>8. Where'
  BY <1>1, <1>2, <1>6 DEF Where, machine
<1>9. rest' \in Seq(Transitions)
  BY <1>1, Types DEF IInv, EventType
<1>10. TypeOK'
  BY <1>1, <1>7, <1>9, Types
  DEF IInv, TypeOK, MachineType, HistoryType, EventType, GhostType, AllNames, machine, frame
<1>11. Remembers'
  BY <1>1 DEF IInv, Remembers, machine
<1> QED
  BY <1>7, <1>8, <1>10, <1>11 DEF IInv

LEMMA PseudoExhaustedKeeps ==
  ASSUME WaysOn, IInv, PseudoExhausted
  PROVE  IInv'
<1>1. pc = "pseudo" /\ rest = <<>> /\ UNCHANGED <<contexts, active, live>>
  BY DEF PseudoExhausted
<1>2. LeadsOn(vertex, rest) /\ vertex \in Vertices /\ Parent[vertex] \in Regions
  BY <1>1, RestOut DEF Leaving
<1>3. \/ Kind[vertex] = "exit" /\ ~Completed
      \/ IsHistory(vertex) /\ InitialOf(Parent[vertex]) # <<>>
  <2>1. DOMAIN rest = {}
    BY <1>1
  <2> QED
    BY <1>2, <2>1 DEF LeadsOn
<1>4. CASE OfKind(vertex, "exit")
  <2>1. Keep /\ ~Completed
    BY <1>3, <1>4 DEF PseudoExhausted, IsHistory, OfKind
  <2>2. contexts' \subseteq Timed /\ active' \subseteq States /\ live' \in [Timed -> Nat] /\ Counted'
    BY <1>1, SameCounts
  <2> QED
    BY <1>1, <2>1, <2>2, KeepMoves
<1>5. CASE ~OfKind(vertex, "exit")
  <2>1. IsHistory(vertex) /\ InitialOf(Parent[vertex]) # <<>>
    BY <1>2, <1>3, <1>5 DEF OfKind
  <2>2. /\ Legal(Parent[vertex], Head(InitialOf(Parent[vertex])))
        /\ ~Internal(Head(InitialOf(Parent[vertex])))
    BY <1>2, <2>1, InitialTransition
  <2>3. Execute(Parent[vertex], Head(InitialOf(Parent[vertex])))
    BY <1>5, <2>1, <2>2 DEF PseudoExhausted
  <2>4. Ground(Parent[vertex]) = Parent[vertex]
    BY <1>2, Containment DEF Ground
  <2> QED
    BY <1>1, <2>2, <2>3, <2>4, PseudoExecutes
<1> QED
  BY <1>4, <1>5

-----------------------------------------------------------------------------
(***************************************************************************)
(* Stopping preserves the invariant                                        *)
(***************************************************************************)

LEMMA StopKeeps ==
  ASSUME IInv, Stop
  PROVE  IInv'
<1>1. /\ pc = "idle" /\ currentState \in States /\ pc' = "stop"
      /\ exits' = Filter(Below(Root, currentState), States)
      /\ UNCHANGED <<machine, names, selecting, rest, vertex, transition, enters, target, result,
                     active, live, lastLeaf, refused>>
  BY Types DEF Stop, IInv, MachineType, Regions
<1>2. currentState \in Regions /\ currentState \in Names /\ Root \in Ancestors[currentState]
  BY <1>1, Containment, Above DEF Regions
<1>3. exits' = Below(Root, currentState) /\ exits' \in Seq(States)
  BY <1>1, <1>2, WayTypes, FilterAll
<1>4. contexts' \subseteq Timed /\ active' \subseteq States /\ live' \in [Timed -> Nat] /\ Counted'
  BY <1>1, SameCounts DEF machine
<1>5. Stopping'
  BY <1>1, <1>2, <1>3 DEF IInv, Where, Stopping, At
<1>6. Where'
  BY <1>1, <1>5 DEF IInv, Where, machine
<1>7. TypeOK'
  BY <1>1, <1>3, <1>4, Types
  DEF IInv, TypeOK, MachineType, HistoryType, EventType, GhostType, AllNames, machine
<1>8. Remembers'
  BY <1>1 DEF IInv, Remembers, machine
<1> QED
  BY <1>4, <1>6, <1>7, <1>8 DEF IInv

LEMMA StopExitsKeeps ==
  ASSUME IInv, StopExits
  PROVE  IInv'
<1>1. /\ pc = "stop" /\ exits # <<>>
      /\ exits' = Tail(exits) /\ active' = active \ {Head(exits)} /\ Cancel(Head(exits))
      /\ UNCHANGED <<currentState, shallow, deep, completion, pc, names, selecting, rest, vertex,
                     transition, enters, target, result, lastLeaf, refused>>
  BY DEF StopExits
<1>2. PICK pos \in Regions : exits = Below(Root, pos) /\ At(pos)
  BY <1>1 DEF IInv, Where, Stopping
<1>3. Root \in Ancestors[pos]
  BY Containment, Above
<1>4. /\ Parent[pos] \in Regions /\ exits' = Below(Root, Parent[pos]) /\ exits' \in Seq(States)
      /\ At(Parent[pos])'
      /\ contexts' \subseteq Timed /\ active' \subseteq States /\ live' \in [Timed -> Nat]
      /\ Counted'
  BY <1>1, <1>2, <1>3, ExitStep
<1>5. Stopping'
  BY <1>4 DEF Stopping
<1>6. Where'
  BY <1>1, <1>5 DEF IInv, Where
<1>7. TypeOK'
  BY <1>1, <1>4, Types DEF IInv, TypeOK, MachineType, HistoryType, EventType, GhostType, AllNames
<1>8. Remembers'
  BY <1>1 DEF IInv, Remembers
<1> QED
  BY <1>4, <1>6, <1>7, <1>8 DEF IInv

LEMMA StopClearsKeeps ==
  ASSUME IInv, StopClears
  PROVE  IInv'
<1>1. /\ pc = "stop" /\ exits = <<>> /\ Return /\ currentState' = Off
      /\ shallow' = [s \in Shallows |-> Nothing] /\ deep' = [s \in Deeps |-> Nothing]
      /\ contexts' = {} /\ completion' = FALSE
      /\ lastLeaf' = [s \in Recalled |-> Nothing]
      /\ UNCHANGED <<active, live>>
  BY DEF StopClears
<1>2. EventType' /\ pc' = "idle"
  BY <1>1, ReturnType
<1>3. PICK pos \in Regions : exits = Below(Root, pos) /\ At(pos)
  BY <1>1 DEF IInv, Where, Stopping
<1>4. pos = Root
  <2>1. pos \in Names /\ Root \in Ancestors[pos]
    BY Containment, Above
  <2> QED
    BY <1>1, <1>3, <2>1, BelowType
<1>5. Within(Root) = {} /\ Within(Off) = {}
  BY Containment, InterpreterAssumption DEF Within, States, Names
<1>6. Completed => active' = {}
  BY <1>1, <1>3, <1>4, <1>5 DEF At
<1>7. MachineType' /\ GhostType'
  BY <1>1, Types DEF IInv, MachineType, HistoryType, GhostType, OrNothing
<1>8. Counted'
  <2>1. Completed => ContextsOfActive'
    BY <1>1 DEF IInv, Counted, ContextsOfActive
  <2> QED
    BY <1>1, <1>6, <2>1 DEF Counted
<1>9. Where'
  BY <1>1, <1>2, <1>5, <1>6 DEF Where, At
<1>10. Remembers'
  BY <1>1 DEF Remembers
<1>11. TypeOK'
  BY <1>2, <1>7 DEF TypeOK, MachineType, HistoryType, EventType, GhostType, AllNames
<1> QED
  BY <1>8, <1>9, <1>10, <1>11 DEF IInv

-----------------------------------------------------------------------------
(***************************************************************************)
(* The theorems                                                            *)
(***************************************************************************)

LEMMA InitInv == Init => IInv
<1> SUFFICES ASSUME Init PROVE IInv
  OBVIOUS
<1>1. Within(Off) = {}
  BY InterpreterAssumption DEF Within, States, Names
<1>2. TypeOK
  <2>1. MachineType
    BY DEF Init, MachineType, HistoryType, OrNothing
  <2>2. EventType
    BY DEF Init, EventType, OrNothing
  <2>3. GhostType
    BY DEF Init, GhostType, OrNothing
  <2> QED
    BY <2>1, <2>2, <2>3, Types
<1>3. Where
  BY <1>1 DEF Init, Where, At
<1>4. Remembers
  BY DEF Init, Remembers
<1>5. Counted
  BY DEF Init, Counted, ContextsOfActive
<1> QED
  BY <1>2, <1>3, <1>4, <1>5 DEF IInv

LEMMA NextInv ==
  ASSUME WaysOn, IInv, [Next]_vars
  PROVE  IInv'
<1>1. CASE Dispatch BY <1>1, DispatchKeeps
<1>2. CASE Start BY <1>2, StartKeeps
<1>3. CASE Stop BY <1>3, StopKeeps
<1>4. CASE Complete BY <1>4, CompleteKeeps
<1>5. CASE GuardTrue BY <1>5, GuardTrueKeeps
<1>6. CASE GuardFalse BY <1>6, GuardFalseKeeps
<1>7. CASE GuardAborts \/ EffectAborts \/ EnterAborts \/ PseudoAborts BY <1>7, GuardAbortsKeeps
<1>8. CASE Outwards BY <1>8, OutwardsKeeps
<1>9. CASE ExitState BY <1>9, ExitStateKeeps
<1>10. CASE ExitAborts BY <1>10, ExitAbortsKeeps
<1>11. CASE Effect BY <1>11, EffectKeeps
<1>12. CASE EnterState BY <1>12, EnterStateKeeps
<1>13. CASE NothingToEnter BY <1>13, NothingToEnterKeeps
<1>14. CASE EnterPseudostate BY <1>14, EnterPseudostateKeeps
<1>15. CASE PseudoTrue BY <1>15, PseudoTrueKeeps
<1>16. CASE PseudoInternal \/ PseudoFalse BY <1>16, PseudoNextKeeps
<1>17. CASE PseudoExhausted BY <1>17, PseudoExhaustedKeeps
<1>18. CASE StopExits BY <1>18, StopExitsKeeps
<1>19. CASE StopClears BY <1>19, StopClearsKeeps
<1>20. CASE UNCHANGED vars
  <2>1. /\ UNCHANGED <<currentState, shallow, deep, contexts, completion>>
        /\ UNCHANGED <<pc, names, selecting, rest, vertex, transition, exits, enters, target, result>>
        /\ UNCHANGED <<active, live, lastLeaf, refused>>
    BY <1>20 DEF vars, machine, frame
  <2>2. TypeOK'
    BY <2>1 DEF IInv, TypeOK
  <2>3. Where'
    BY <2>1
    DEF IInv, Where, Selecting, Exiting, Climbing, Entering, Descending, Leaving, LeadsOn, Stopping, At
  <2>4. Remembers'
    BY <2>1 DEF IInv, Remembers
  <2>5. Counted'
    BY <2>1 DEF IInv, Counted, ContextsOfActive
  <2> QED
    BY <2>2, <2>3, <2>4, <2>5 DEF IInv
<1> QED
  BY <1>1, <1>2, <1>3, <1>4, <1>5, <1>6, <1>7, <1>8, <1>9, <1>10, <1>11, <1>12, <1>13, <1>14,
     <1>15, <1>16, <1>17, <1>18, <1>19, <1>20
  DEF Next, Step

LEMMA Invariance == ASSUME WaysOn PROVE Spec => []IInv
<1>1. Init => IInv
  BY InitInv
<1>2. IInv /\ [Next]_vars => IInv'
  BY NextInv
<1> QED
  BY <1>1, <1>2, PTL DEF Spec

\* Between events the machine is off, at its root, or in a state, never in a
\* pseudostate, and every step of an event's processing keeps to the types: in any
\* model where every pseudostate leads on, behaviours that abort included.
THEOREM InterpreterTyped == ASSUME WaysOn PROVE Spec => []TypeOK
<1>1. IInv => TypeOK
  BY DEF IInv
<1> QED
  BY <1>1, Invariance, PTL

\* Between events the states entered and not left are the current state and those
\* around it, whatever the transitions (execute_transition).
THEOREM ActiveAreAround == ASSUME WaysOn, Completed PROVE Spec => []Configuration
<1>1. IInv => Configuration
  BY DEF IInv, Where, At, Configuration
<1> QED
  BY <1>1, Invariance, PTL

\* The activities and timers of a state run exactly while it is active, in one
\* context (exit_state, enter_state).
THEOREM OneContextEach == ASSUME WaysOn, Completed PROVE Spec => []ContextsOfActive
<1>1. IInv => ContextsOfActive
  BY DEF IInv, Counted
<1> QED
  BY <1>1, Invariance, PTL

\* None of the states around a position is a child of it.
LEMMA NoChildWithin ==
  ASSUME NEW pos \in Regions, NEW r \in Within(pos)
  PROVE  r \in States /\ StateParent[r] # pos
<1>1. pos \in Names /\ r \in Ancestors[pos] /\ r # Root
  BY Containment
<1>2. r \in States /\ r \in Vertices /\ r \in Names
  BY <1>1, Containment
<1>3. ASSUME Parent[r] = pos PROVE FALSE
  <2>1. pos \in Ancestors[r] /\ pos # r
    BY <1>1, <1>2, <1>3, Above, HierarchyAssumption
  <2> QED
    BY <1>1, <1>2, <2>1, Antisymmetric
<1> QED
  BY <1>2, <1>3 DEF StateParent

\* The innermost of the states to leave has no active child.
LEMMA ExitNests ==
  ASSUME IInv, Completed, NEW pos \in Regions, NEW top \in Ancestors[pos],
         exits = Below(top, pos), exits # <<>>, At(pos), active' = active \ {Head(exits)}
  PROVE  Entered!Next
<1>1. pos \in Names /\ top \in Names
  BY Containment, Above
<1>2. pos # top
  BY <1>1, BelowStep
<1>3. pos \in States /\ Head(exits) = pos
  BY <1>1, <1>2, BelowType, HierarchyAssumption DEF Regions
<1>4. active = Within(pos) /\ pos \in active
  BY <1>3, WithinUp DEF At
<1>5. \A r \in active : StateParent[r] # pos
  BY <1>4, NoChildWithin
<1>6. Entered!Exit(pos)
  BY <1>3, <1>4, <1>5 DEF Entered!Exit
<1> QED
  BY <1>3, <1>6 DEF Entered!Next

\* Every step leaves the innermost active state, enters a child of it, or neither.
LEMMA StepNests ==
  ASSUME WaysOn, Completed, IInv, [Next]_vars
  PROVE  [Entered!Next]_active
<1>1. CASE ExitState
  <2>1. pc = "exit" /\ exits # <<>> /\ active' = active \ {Head(exits)}
    BY <1>1 DEF ExitState
  <2>2. Exiting
    BY <2>1 DEF IInv, Where
  <2>3. PICK pos \in Regions : \E top \in Ancestors[pos] \cap Ancestors[transition.target] : Climbing(pos, top)
    BY <2>1, <2>2 DEF Exiting
  <2>4. PICK top \in Ancestors[pos] : Climbing(pos, top)
    BY <2>3
  <2> QED
    BY <2>1, <2>4, ExitNests DEF Climbing
<1>2. CASE StopExits
  <2>1. pc = "stop" /\ exits # <<>> /\ active' = active \ {Head(exits)}
    BY <1>2 DEF StopExits
  <2>2. PICK pos \in Regions : exits = Below(Root, pos) /\ At(pos)
    BY <2>1 DEF IInv, Where, Stopping
  <2>3. Root \in Ancestors[pos]
    BY Containment, Above
  <2> QED
    BY <2>1, <2>2, <2>3, ExitNests
<1>3. CASE EnterState
  <2>1. PICK s \in States : pc = "enter" /\ enters # <<>> /\ s = Head(enters) /\ active' = active \cup {s}
    BY <1>3 DEF EnterState, Open
  <2>2. Entering
    BY <2>1 DEF IInv, Where
  <2>3. PICK pos \in Regions : Descending(pos)
    BY <2>2 DEF Entering
  <2>4. result \in Names
    BY <2>2 DEF Entering
  <2>5. Parent[s] = pos
    BY <2>1, <2>3, <2>4, EnterNext
  <2>6. active = Within(pos)
    BY <2>3 DEF Descending, At
  <2>7. StateParent[s] = pos /\ pos \in active \cup {Root}
    <3>1. pos \in Names /\ pos \in Ancestors[pos] /\ Within(pos) = Ancestors[pos] \ {Root}
      BY Containment, Above
    <3> QED
      BY <2>5, <2>6, <3>1 DEF StateParent
  <2>8. \A r \in active : StateParent[r] # pos
    BY <2>6, NoChildWithin
  <2>9. Entered!Enter(s)
    BY <2>1, <2>7, <2>8 DEF Entered!Enter
  <2> QED
    BY <2>9 DEF Entered!Next
<1>4. CASE ExitAborts
  <2>1. MayAbort
    BY <1>4 DEF ExitAborts
  <2> QED
    BY <2>1, Aborted
<1>5. CASE \/ GuardTrue \/ GuardFalse \/ GuardAborts \/ Outwards \/ Effect \/ EffectAborts \/ EnterAborts
           \/ NothingToEnter \/ EnterPseudostate \/ PseudoTrue \/ PseudoInternal \/ PseudoFalse
           \/ PseudoAborts \/ PseudoExhausted \/ Complete \/ StopClears \/ Dispatch \/ Start \/ Stop
  <2>1. active' = active
    BY <1>5
    DEF GuardTrue, GuardFalse, GuardAborts, Outwards, Effect, EffectAborts, EnterAborts, NothingToEnter,
        EnterPseudostate, PseudoTrue, PseudoInternal, PseudoFalse, PseudoAborts, PseudoExhausted, Complete,
        StopClears, Dispatch, Start, Stop, Select
  <2> QED
    BY <2>1
<1>6. CASE UNCHANGED vars
  BY <1>6 DEF vars
<1> QED
  BY <1>1, <1>2, <1>3, <1>4, <1>5, <1>6 DEF Next, Step

\* The interpreter implements Nesting: on the way through choices, entry and exit
\* points and histories, too, a state is entered only inside its parent and beside
\* no sibling, and left only after its children.
THEOREM ImplementsNesting == ASSUME WaysOn, Completed PROVE Spec => Nested
<1>1. Init => Entered!Init
  BY DEF Init, Entered!Init
<1>2. IInv /\ [Next]_vars => [Entered!Next]_active
  BY StepNests
<1> QED
  BY <1>1, <1>2, Invariance, PTL DEF Spec, Nested, Entered!Spec

\* Whatever Nesting allows keeps the active states closed under parents and
\* without siblings.
LEMMA NestedChain == Nested => []Entered!Chain
<1>1. Root \notin States /\ \A s \in States : StateParent[s] \in States \cup {Root}
  BY Containment DEF StateParent, Regions
<1>2. Entered!Init => Entered!Chain
  BY DEF Entered!Init, Entered!Chain
<1>3. Entered!Chain /\ [Entered!Next]_active => Entered!Chain'
  <2> SUFFICES ASSUME Entered!Chain, [Entered!Next]_active PROVE Entered!Chain'
    OBVIOUS
  <2>1. ASSUME NEW s \in States, Entered!Enter(s) PROVE Entered!Chain'
    <3>1. active' = active \cup {s} /\ StateParent[s] \in active \cup {Root}
      BY <2>1 DEF Entered!Enter
    <3>2. \A r \in active : StateParent[r] # StateParent[s]
      BY <2>1 DEF Entered!Enter
    <3> QED
      BY <3>1, <3>2 DEF Entered!Chain
  <2>2. ASSUME NEW s \in States, Entered!Exit(s) PROVE Entered!Chain'
    <3>1. active' = active \ {s} /\ \A r \in active : StateParent[r] # s
      BY <2>2 DEF Entered!Exit
    <3> QED
      BY <3>1 DEF Entered!Chain
  <2>3. CASE UNCHANGED active
    BY <2>3 DEF Entered!Chain
  <2> QED
    BY <2>1, <2>2, <2>3 DEF Entered!Next
<1> QED
  BY <1>2, <1>3, PTL DEF Nested, Entered!Spec

\* At every moment, in the middle of a transition too, the active states form one
\* chain from the root.
THEOREM ActiveChain == ASSUME WaysOn, Completed PROVE Spec => []Entered!Chain
BY ImplementsNesting, NestedChain, PTL

-----------------------------------------------------------------------------
(***************************************************************************)
(* Selection goes from the innermost active state outwards                 *)
(***************************************************************************)

\* The transitions of s looked at for an event of that name.
Own(s, name) == Filter(TransitionTable[s][name], {t \in Transitions : Precedes(t, s, name)})

LEMMA OwnFacts ==
  ASSUME NEW s \in Names, NEW n \in AllNames
  PROVE  /\ Own(s, n) \in Seq(ToSet(Outgoing[s]))
         /\ \A i \in 1 .. Len(Own(s, n)) :
              n \in Own(s, n)[i].events /\ Own(s, n)[i] \in Transitions /\ Own(s, n)[i].source = s
         /\ \A u \in ToSet(Outgoing[s]) :
              n \in u.events /\ Precedes(u, s, n) => \E i \in 1 .. Len(Own(s, n)) : Own(s, n)[i] = u
<1> DEFINE E == ToSet(Outgoing[s])
           fires == {t \in Transitions : n \in t.events}
           first == {t \in Transitions : Precedes(t, s, n)}
           table == Filter(Outgoing[s], fires)
<1>1. Outgoing[s] \in Seq(E) /\ E \subseteq Transitions /\ \A t \in E : t.source = s
  BY OutgoingFacts
<1>2. Own(s, n) = Filter(table, first)
  BY DEF Own, TransitionTable
<1>3. table \in Seq(E \cap fires)
  BY <1>1, FilterOf
<1>4. Own(s, n) \in Seq(E \cap fires)
  BY <1>2, <1>3, FilterType
<1>5. ASSUME NEW u \in E, n \in u.events, Precedes(u, s, n)
      PROVE  \E i \in 1 .. Len(Own(s, n)) : Own(s, n)[i] = u
  <2>1. u \in fires /\ u \in first
    BY <1>1, <1>5
  <2> HIDE DEF first, fires
  <2>2. PICK m : Picks(m, table, Outgoing[s], fires, Len(Outgoing[s]))
    BY <1>1, FilterPicks
  <2>3. PICK k \in 1 .. Len(Outgoing[s]) : Outgoing[s][k] = u
    BY <1>1 DEF ToSet
  <2>4. PICK j \in 1 .. Len(table) : table[j] = u
    BY <2>1, <2>2, <2>3 DEF Picks
  <2> HIDE DEF table
  <2>5. PICK q : Picks(q, Own(s, n), table, first, Len(table))
    BY <1>2, <1>3, FilterPicks
  <2> QED
    BY <2>1, <2>4, <2>5 DEF Picks
<1>6. \A i \in 1 .. Len(Own(s, n)) : Own(s, n)[i] \in E \cap fires
  BY <1>4
<1>7. Own(s, n) \in Seq(E)
  <2> HIDE DEF E, fires
  <2> QED
    BY <1>4
<1> QED
  BY <1>1, <1>5, <1>6, <1>7

\* In a state the candidates are the state's own, for the event's name first.
LEMMA CandidatesAre ==
  ASSUME currentState \in States, NEW s \in Ancestors[currentState],
         NEW n \in AllNames \ {InitialEvent}, NEW m \in AllNames \ {InitialEvent}
  PROVE  Candidates(s, <<n, m>>) = Own(s, n) \o Own(s, m)
<1> DEFINE ini(k) == IF Initial[s] = Nothing THEN <<>> ELSE TransitionTable[Initial[s]][k]
           of(k)  == IF s # Root THEN Own(s, k) \o ini(k)
                     ELSE IF currentState = Root THEN ini(k) ELSE Own(s, k)
           ns     == <<n, m>>
<1>1. s \in Regions /\ s \in Names /\ currentState # Root
  BY Containment DEF Regions
<1>2. ASSUME NEW k \in AllNames \ {InitialEvent} PROVE ini(k) = <<>>
  <2>1. CASE Initial[s] = Nothing
    BY <2>1
  <2>2. CASE Initial[s] # Nothing
    <3>1. OfKind(Initial[s], "initial") /\ Initial[s] \in Vertices /\ Initial[s] \in Names
          /\ Initial[s] \in Pseudostates
      BY <1>1, <2>2, InterpreterAssumption DEF OfKind, Names, Pseudostates, States
    <3> DEFINE fires == {t \in Transitions : k \in t.events}
    <3>2. ToSet(Outgoing[Initial[s]]) \cap fires = {}
      <4> SUFFICES ASSUME NEW t \in ToSet(Outgoing[Initial[s]]), k \in t.events PROVE FALSE
        OBVIOUS
      <4>1. t \in Transitions /\ t.source = Initial[s]
        BY <3>1, OutgoingFacts
      <4>2. ValidTransition(t)
        BY <4>1, TransitionFacts
      <4>3. t.events = {InitialEvent}
        BY <3>1, <4>1, <4>2 DEF ValidTransition
      <4> QED
        BY <4>3
    <3>3. ini(k) = Filter(Outgoing[Initial[s]], fires)
      BY <2>2, <3>1 DEF TransitionTable
    <3>4. Outgoing[Initial[s]] \in Seq(ToSet(Outgoing[Initial[s]]))
      BY <3>1, OutgoingFacts
    <3>5. ini(k) \in Seq({})
      <4> HIDE DEF ini, fires
      <4> QED
        BY <3>2, <3>3, <3>4, FilterOf
    <3> QED
      <4> HIDE DEF ini
      <4> QED
        BY <3>5
  <2> QED
    BY <2>1, <2>2
<1>3. ASSUME NEW k \in AllNames \ {InitialEvent} PROVE of(k) = Own(s, k)
  <2>1. Own(s, k) \in Seq(ToSet(Outgoing[s]))
    BY <1>1, OwnFacts
  <2>2. ini(k) = <<>>
    BY <1>2
  <2> HIDE DEF ini
  <2>3. Own(s, k) \o ini(k) = Own(s, k)
    BY <2>1, <2>2
  <2> QED
    BY <1>1, <2>3
<1>4. Candidates(s, ns) = of(ns[1]) \o IF Len(ns) = 1 THEN <<>> ELSE of(ns[2])
  BY Zenon DEF Candidates, Own
<1>5. ns[1] = n /\ ns[2] = m /\ Len(ns) # 1
  OBVIOUS
<1>6. of(n) = Own(s, n) /\ of(m) = Own(s, m)
  BY <1>3
<1> HIDE DEF of, ns
<1>7. Candidates(s, ns) = Own(s, n) \o Own(s, m)
  BY <1>4, <1>5, <1>6
<1> QED
  BY <1>7 DEF ns

\* The first k candidates of selection_state were refused, and the rest follow.
Tried(n, k) ==
  LET all == Own(selecting, n) \o Own(selecting, AnyEvent)
  IN  /\ Len(all) = k + Len(rest)
      /\ \A i \in 1 .. Len(rest) : rest[i] = all[k + i]
      /\ \A i \in 1 .. k : all[i] \in refused

\* The states inside selection_state have no transition left and do not defer.
Searching ==
  /\ currentState \in States /\ selecting \in Ancestors[currentState]
  /\ rest \in Seq(Transitions)
  /\ \E n \in EventNames \cup {FinalEvent} : names = <<n, AnyEvent>> /\ \E k \in Nat : Tried(n, k)
  /\ \A s \in Ancestors[currentState] \ Ancestors[selecting], i \in DOMAIN names :
       Refusing(s, names[i]) /\ ~DeferredIn(s, names[i])

Starting ==
  /\ currentState = Root /\ selecting = Root
  /\ names = <<InitialEvent, AnyEvent>> /\ rest = InitialOf(Root)

SInv ==
  /\ completion \in BOOLEAN
  /\ completion => currentState \in States /\ pc \in {"idle", "stop"}
  /\ pc = "select" => Starting \/ Searching

\* The search begins with the innermost active state, none of its candidates tried.
LEMMA SearchBegins ==
  ASSUME SInv, NEW n \in EventNames \cup {FinalEvent}, currentState \in States,
         currentState' = currentState, completion' = FALSE,
         names' = LookupNames(n), selecting' = currentState,
         rest' = Candidates(currentState, names'), pc' = "select"
  PROVE  SInv'
<1>1. /\ LookupNames(n) = <<n, AnyEvent>> /\ n \in AllNames \ {InitialEvent}
      /\ AnyEvent \in AllNames \ {InitialEvent}
  BY NamesOf
<1>2. currentState \in Names /\ currentState \in Ancestors[currentState]
  BY Containment, Above DEF Regions
<1> DEFINE first == Own(currentState, n)
           later == Own(currentState, AnyEvent)
<1>3. rest' = first \o later
  BY <1>1, <1>2, CandidatesAre
<1>4. first \in Seq(Transitions) /\ later \in Seq(Transitions)
  <2>1. ToSet(Outgoing[currentState]) \subseteq Transitions
    BY <1>2, OutgoingFacts
  <2>2. \A A, B : A \subseteq B => Seq(A) \subseteq Seq(B)
    OBVIOUS
  <2> QED
    BY <1>1, <1>2, <2>1, <2>2, OwnFacts
<1> HIDE DEF first, later
<1>5. first \o later \in Seq(Transitions)
  BY <1>4
<1>6. Tried(n, 0)'
  <2>1. Len(rest') = 0 + Len(rest') /\ \A i \in 1 .. Len(rest') : rest'[i] = rest'[0 + i]
    BY <1>3, <1>5
  <2>2. \A i \in 1 .. 0 : rest'[i] \in refused'
    OBVIOUS
  <2>3. Own(currentState, n) \o Own(currentState, AnyEvent) = rest'
    BY <1>3 DEF first, later
  <2> QED
    BY <2>1, <2>2, <2>3 DEF Tried
<1>7. Searching'
  BY <1>1, <1>2, <1>3, <1>5, <1>6 DEF Searching
<1> QED
  BY <1>7 DEF SInv

\* A false guard leads on to the next candidate.
LEMMA SearchGoesOn ==
  ASSUME SInv, GuardFalse
  PROVE  SInv'
<1>1. /\ pc = "select" /\ rest # <<>> /\ Head(rest).guarded
      /\ rest' = Tail(rest) /\ refused' = refused \cup {Head(rest)}
      /\ UNCHANGED <<currentState, completion, pc, names, selecting>>
  BY DEF GuardFalse, machine
<1>2. ~Starting
  <2> SUFFICES ASSUME Starting PROVE FALSE
    OBVIOUS
  <2>1. OfKind(Initial[Root], "initial") /\ Initial[Root] \in Vertices /\ rest = Outgoing[Initial[Root]]
    BY Containment, InterpreterAssumption DEF Starting, InitialOf, OfKind
  <2>2. \A i \in DOMAIN rest : ~rest[i].guarded
    BY <2>1, ModelValid DEF ValidVertex, OfKind
  <2>3. Initial[Root] \in Names
    BY <2>1 DEF Names
  <2>4. rest \in Seq(ToSet(rest))
    BY <2>1, <2>3, OutgoingFacts
  <2>5. Head(rest) = rest[1] /\ 1 \in DOMAIN rest
    BY <1>1, <2>4
  <2> QED
    BY <1>1, <2>2, <2>5
<1>3. Searching
  BY <1>1, <1>2 DEF SInv
<1>4. PICK n \in EventNames \cup {FinalEvent} : names = <<n, AnyEvent>> /\ \E k \in Nat : Tried(n, k)
  BY <1>3 DEF Searching
<1>5. PICK k \in Nat : Tried(n, k)
  BY <1>4
<1> DEFINE all == Own(selecting, n) \o Own(selecting, AnyEvent)
<1>6. /\ Len(all) = k + Len(rest)
      /\ \A i \in 1 .. Len(rest) : rest[i] = all[k + i]
      /\ \A i \in 1 .. k : all[i] \in refused
  BY <1>5 DEF Tried
<1>7. rest \in Seq(Transitions)
  BY <1>3 DEF Searching
<1>8. rest' \in Seq(Transitions) /\ Len(rest) = 1 + Len(rest') /\ Len(rest') \in Nat
      /\ Head(rest) = rest[1] /\ \A i \in 1 .. Len(rest') : rest'[i] = rest[i + 1]
  BY <1>1, <1>7
<1>9. all' = all
  BY <1>1
<1> HIDE DEF all
<1>10. Len(all) = (k + 1) + Len(rest')
  BY <1>6, <1>8
<1>11. \A i \in 1 .. Len(rest') : rest'[i] = all[(k + 1) + i]
  <2> TAKE i \in 1 .. Len(rest')
  <2>1. i + 1 \in 1 .. Len(rest) /\ k + (i + 1) = (k + 1) + i
    BY <1>8
  <2> QED
    BY <1>6, <1>8, <2>1
<1>12. \A i \in 1 .. k + 1 : all[i] \in refused'
  <2> TAKE i \in 1 .. k + 1
  <2>1. CASE i \in 1 .. k
    BY <1>1, <1>6, <2>1
  <2>2. CASE i = k + 1
    <3>1. all[i] = Head(rest)
      BY <1>6, <1>8, <2>2
    <3> QED
      BY <1>1, <3>1
  <2> QED
    BY <2>1, <2>2
<1>13. Tried(n, k + 1)'
  BY <1>9, <1>10, <1>11, <1>12 DEF Tried, all
<1>14. Searching'
  <2>1. \A s \in Ancestors[currentState] \ Ancestors[selecting], i \in DOMAIN names :
          Refusing(s, names[i])' /\ ~DeferredIn(s, names[i])
    BY <1>1, <1>3 DEF Searching, Refusing
  <2>2. k + 1 \in Nat
    OBVIOUS
  <2> QED
    BY <1>1, <1>3, <1>4, <1>8, <1>13, <2>1, <2>2 DEF Searching, Refusing
<1> QED
  BY <1>1, <1>14 DEF SInv

\* The parent is next when the state's candidates are all refused and it does not defer.
LEMMA SearchClimbs ==
  ASSUME Searching, rest = <<>>, ~DeferredHere, selecting # Root, selecting' = Dirname(selecting),
         rest' = Candidates(Dirname(selecting), names),
         UNCHANGED <<currentState, completion, pc, names, refused>>
  PROVE  Searching'
<1>1. PICK n \in EventNames \cup {FinalEvent} : names = <<n, AnyEvent>> /\ \E k \in Nat : Tried(n, k)
  BY DEF Searching
<1>2. PICK k \in Nat : Tried(n, k)
  BY <1>1
<1>3. n \in AllNames \ {InitialEvent} /\ AnyEvent \in AllNames \ {InitialEvent}
  BY NamesOf
<1>4. currentState \in States /\ currentState \in Names /\ selecting \in Ancestors[currentState]
      /\ selecting \in Names /\ selecting \in Vertices /\ selecting # Nothing
  <2>1. currentState \in States /\ selecting \in Ancestors[currentState]
    BY DEF Searching
  <2>2. currentState \in Names
    BY <2>1, Containment DEF Regions
  <2>3. selecting \in Names
    BY <2>1, <2>2, Above
  <2> QED
    BY <2>1, <2>2, <2>3, HierarchyAssumption DEF Names
<1> DEFINE up == Parent[selecting]
<1>5. Dirname(selecting) = up /\ up \in Names /\ up \in Ancestors[currentState]
      /\ Ancestors[selecting] = {selecting} \cup Ancestors[up]
  <2>1. up \in Names /\ Ancestors[selecting] = {selecting} \cup Ancestors[up]
    BY <1>4, Depths, HierarchyAssumption
  <2>2. up \in Ancestors[selecting]
    BY <2>1, Above
  <2> QED
    BY <1>4, <2>1, <2>2, Transitive DEF Dirname
<1>6. rest' = Own(up, n) \o Own(up, AnyEvent)
  BY <1>1, <1>3, <1>4, <1>5, CandidatesAre
<1>7. Own(up, n) \in Seq(Transitions) /\ Own(up, AnyEvent) \in Seq(Transitions)
  <2>1. ToSet(Outgoing[up]) \subseteq Transitions
    BY <1>5, OutgoingFacts
  <2>2. \A A, B : A \subseteq B => Seq(A) \subseteq Seq(B)
    OBVIOUS
  <2> QED
    BY <1>3, <1>5, <2>1, <2>2, OwnFacts
<1>8. rest' \in Seq(Transitions)
  <2> HIDE DEF up
  <2> QED
    BY <1>6, <1>7
<1>9. Tried(n, 0)'
  <2>1. Len(rest') = 0 + Len(rest') /\ \A i \in 1 .. Len(rest') : rest'[i] = rest'[0 + i]
    BY <1>8
  <2>2. \A i \in 1 .. 0 : rest'[i] \in refused'
    OBVIOUS
  <2> QED
    BY <1>5, <1>6, <2>1, <2>2 DEF Tried
<1>10. \A i \in DOMAIN names : Refusing(selecting, names[i]) /\ ~DeferredIn(selecting, names[i])
  <2> TAKE i \in DOMAIN names
  <2>1. ~DeferredIn(selecting, names[i])
    BY DEF DeferredHere
  <2>2. names[i] = n \/ names[i] = AnyEvent
    BY <1>1
  <2> DEFINE first == Own(selecting, n)
             later == Own(selecting, AnyEvent)
             all   == first \o later
  <2>3. first \in Seq(ToSet(Outgoing[selecting])) /\ later \in Seq(ToSet(Outgoing[selecting]))
    BY <1>3, <1>4, OwnFacts
  <2>4. \A j \in 1 .. Len(all) : all[j] \in refused
    BY <1>2 DEF Tried
  <2>5. ASSUME NEW u \in ToSet(Outgoing[selecting]), names[i] \in u.events PROVE u \in refused
    <3>1. Precedes(u, selecting, names[i])
      BY <2>1 DEF Precedes
    <3>2. \/ \E j \in 1 .. Len(first) : first[j] = u
          \/ \E j \in 1 .. Len(later) : later[j] = u
      BY <1>3, <1>4, <2>2, <2>5, <3>1, OwnFacts
    <3> HIDE DEF first, later
    <3>3. CASE \E j \in 1 .. Len(first) : first[j] = u
      BY <2>3, <2>4, <3>3
    <3>4. CASE \E j \in 1 .. Len(later) : later[j] = u
      <4>1. PICK j \in 1 .. Len(later) : later[j] = u
        BY <3>4
      <4>2. Len(first) + j \in 1 .. Len(all) /\ all[Len(first) + j] = u
        BY <2>3, <4>1
      <4> QED
        BY <2>4, <4>2
    <3> QED
      BY <3>2, <3>3, <3>4
  <2> QED
    BY <2>1, <2>5 DEF Refusing
<1>11. \A s \in Ancestors[currentState] \ Ancestors[up], i \in DOMAIN names :
         Refusing(s, names[i]) /\ ~DeferredIn(s, names[i])
  BY <1>5, <1>10 DEF Searching
<1> QED
  BY <1>1, <1>4, <1>5, <1>8, <1>9, <1>11 DEF Searching, Refusing

LEMMA SearchStep ==
  ASSUME SInv, [Next]_vars
  PROVE  SInv'
<1>1. CASE Dispatch
  <2>1. PICK e \in EventNames : Select(e)
    BY <1>1 DEF Dispatch
  <2>2. completion' = FALSE
    BY <1>1 DEF Dispatch, SInv
  <2> QED
    BY <1>1, <2>1, <2>2, SearchBegins DEF Dispatch, Select
<1>2. CASE Complete
  <2>1. currentState \in States
    BY <1>2 DEF Complete, SInv
  <2> QED
    BY <1>2, <2>1, SearchBegins DEF Complete, Select
<1>3. CASE Start
  <2>1. currentState \notin States
    BY <1>3, Containment, InterpreterAssumption DEF Start, Names
  <2>2. completion' = FALSE
    BY <1>3, <2>1 DEF Start, SInv
  <2>3. names' = <<InitialEvent, AnyEvent>>
    BY <1>3, NamesOf DEF Start, Select
  <2> QED
    BY <1>3, <2>2, <2>3 DEF SInv, Starting, Start, InitialOf
<1>4. CASE GuardFalse
  BY <1>4, SearchGoesOn
<1>5. CASE Outwards
  <2>1. pc = "select" /\ rest = <<>> /\ completion = FALSE
    BY <1>5 DEF Outwards, SInv
  <2>2. CASE DeferredHere \/ selecting = Root
    BY <1>5, <2>1, <2>2 DEF Outwards, Keep, Return, SInv
  <2>3. CASE ~DeferredHere /\ selecting # Root
    <3>1. /\ selecting' = Dirname(selecting) /\ rest' = Candidates(Dirname(selecting), names)
          /\ UNCHANGED <<currentState, completion, pc, names, refused>>
      BY <1>5, <2>3 DEF Outwards, machine
    <3>2. ~Starting
      BY <2>3 DEF Starting
    <3>3. Searching
      BY <2>1, <3>2 DEF SInv
    <3>4. Searching'
      BY <2>1, <2>3, <3>1, <3>3, SearchClimbs
    <3> QED
      BY <2>1, <3>1, <3>4 DEF SInv
  <2> QED
    BY <2>2, <2>3
<1>6. ASSUME pc \notin {"idle", "stop"}, NEW f, NEW t, Execute(f, t) PROVE SInv'
  <2>1. pc' # "select" /\ completion' = completion /\ completion = FALSE
    BY <1>6 DEF Execute, Keep, Return, SInv
  <2> QED
    BY <2>1 DEF SInv
<1>7. ASSUME pc \notin {"idle", "stop"}, NEW s, Arrive(s) PROVE SInv'
  <2>1. pc' = "idle" /\ currentState' = s
        /\ completion' = (completion \/ (s # currentState /\ OfKind(s, "final")))
    BY <1>7 DEF Arrive, Return
  <2>2. completion = FALSE
    BY <1>7 DEF SInv
  <2>3. OfKind(s, "final") => s \in States
    BY DEF OfKind, States
  <2> QED
    BY <2>1, <2>2, <2>3 DEF SInv
<1>8. ASSUME pc \notin {"idle", "stop"}, Keep PROVE SInv'
  BY <1>8 DEF Keep, Return, SInv
<1>9. ASSUME pc' # "select", pc' = pc \/ pc' = "stop" \/ pc \notin {"idle", "stop"},
             UNCHANGED <<currentState, completion>>
      PROVE  SInv'
  BY <1>9 DEF SInv
<1>10. CASE GuardTrue \/ PseudoTrue \/ PseudoExhausted \/ EnterState \/ Effect
  <2>1. CASE GuardTrue
    BY <1>6, <2>1 DEF GuardTrue
  <2>2. CASE PseudoTrue
    BY <1>6, <2>2 DEF PseudoTrue
  <2>3. CASE PseudoExhausted
    BY <1>6, <1>7, <1>8, <2>3 DEF PseudoExhausted
  <2>4. CASE EnterState
    <3>1. pc = "enter"
      BY <2>4 DEF EnterState
    <3>2. \/ UNCHANGED <<currentState, completion, pc>>
          \/ Arrive(Head(enters))
          \/ Execute(Head(enters), Head(InitialOf(Head(enters))))
      BY <2>4 DEF EnterState
    <3> QED
      BY <1>6, <1>7, <1>9, <3>1, <3>2
  <2>5. CASE Effect
    <3>1. pc = "exit"
      BY <2>5 DEF Effect
    <3>2. (pc' = "enter" /\ UNCHANGED <<currentState, completion>>) \/ Arrive(currentState)
      BY <2>5 DEF Effect
    <3> QED
      BY <1>7, <1>9, <3>1, <3>2
  <2> QED
    BY <1>10, <2>1, <2>2, <2>3, <2>4, <2>5
<1>11. CASE GuardAborts \/ ExitAborts \/ EffectAborts \/ EnterAborts \/ PseudoAborts
  BY <1>8, <1>11 DEF GuardAborts, ExitAborts, EffectAborts, EnterAborts, PseudoAborts
<1>12. CASE NothingToEnter
  BY <1>7, <1>12 DEF NothingToEnter
<1>13. CASE \/ ExitState \/ EnterPseudostate \/ PseudoInternal \/ PseudoFalse \/ StopExits \/ Stop
  BY <1>9, <1>13
  DEF ExitState, EnterPseudostate, Recall, PseudoInternal, PseudoFalse, StopExits, Stop, machine
<1>14. CASE StopClears
  BY <1>14 DEF StopClears, Return, SInv
<1>15. CASE UNCHANGED vars
  <2>1. UNCHANGED <<currentState, completion, pc, names, selecting, rest, refused>>
    BY <1>15 DEF vars, machine
  <2> QED
    BY <2>1 DEF SInv, Starting, Searching, Tried, Refusing
<1> QED
  BY <1>1, <1>2, <1>3, <1>4, <1>5, <1>10, <1>11, <1>12, <1>13, <1>14, <1>15 DEF Next, Step

\* What is refused before a candidate is taken.
LEMMA TakenInOrder ==
  ASSUME SInv, [Next]_vars
  PROVE  InnermostTaken
<1> SUFFICES ASSUME pc = "select", pc' = "exit" PROVE InnermostTaken
  BY DEF InnermostTaken
<1>1. Starting \/ Searching
  BY DEF SInv
<1>2. rest # <<>>
  <2>1. GuardTrue
    BY DEF Next, Step, Dispatch, Start, Stop, GuardFalse, GuardAborts, Outwards, Keep, Return, ExitState,
           ExitAborts, Effect, EffectAborts, EnterState, EnterAborts, NothingToEnter, EnterPseudostate,
           PseudoTrue, PseudoInternal, PseudoFalse, PseudoAborts, PseudoExhausted, Complete, StopExits,
           StopClears, vars
  <2> QED
    BY <2>1 DEF GuardTrue
<1> DEFINE t == Head(rest)
<1>3. CASE Starting
  <2>1. OfKind(Initial[Root], "initial") /\ Initial[Root] \in Vertices /\ Initial[Root] \in Names
        /\ rest = Outgoing[Initial[Root]] /\ Parent[Initial[Root]] = Root /\ Root \in Names
    BY <1>3, Containment, InterpreterAssumption DEF Starting, InitialOf, OfKind, Names
  <2>2. t \in ToSet(Outgoing[Initial[Root]])
    <3>1. rest \in Seq(ToSet(Outgoing[Initial[Root]]))
      BY <2>1, OutgoingFacts
    <3> QED
      BY <1>2, <3>1
  <2>3. t \in Transitions /\ t.source = Initial[Root]
    BY <2>1, <2>2, OutgoingFacts
  <2>4. t.events = {InitialEvent}
    BY <2>1, <2>3, TransitionFacts DEF ValidTransition, OfKind, Pseudostates, States
  <2>5. names[1] \in t.events
    BY <1>3, <2>4 DEF Starting
  <2>6. Ancestors[currentState] \subseteq Ancestors[t.source]
    BY <1>3, <2>1, <2>3, HierarchyAssumption DEF Starting
  <2>7. \A i \in DOMAIN names : 1 \in 1 .. i
    BY <1>3 DEF Starting
  <2> QED
    BY <2>5, <2>6, <2>7 DEF InnermostTaken
<1>4. CASE Searching
  <2>1. PICK n \in EventNames \cup {FinalEvent} : names = <<n, AnyEvent>> /\ \E k \in Nat : Tried(n, k)
    BY <1>4 DEF Searching
  <2>2. PICK k \in Nat : Tried(n, k)
    BY <2>1
  <2> DEFINE first == Own(selecting, n)
             later == Own(selecting, AnyEvent)
             all   == first \o later
  <2>3. /\ Len(all) = k + Len(rest)
        /\ \A i \in 1 .. Len(rest) : rest[i] = all[k + i]
        /\ \A i \in 1 .. k : all[i] \in refused
    BY <2>2 DEF Tried
  <2>4. n \in AllNames /\ AnyEvent \in AllNames
    BY NamesOf
  <2>5. currentState \in Names /\ selecting \in Names /\ rest \in Seq(Transitions)
    BY <1>4, Containment, Above DEF Searching, Regions
  <2>6. /\ first \in Seq(ToSet(Outgoing[selecting])) /\ later \in Seq(ToSet(Outgoing[selecting]))
        /\ \A i \in 1 .. Len(first) : n \in first[i].events /\ first[i].source = selecting
        /\ \A i \in 1 .. Len(later) : AnyEvent \in later[i].events /\ later[i].source = selecting
        /\ \A u \in ToSet(Outgoing[selecting]) :
             n \in u.events /\ Precedes(u, selecting, n) => \E i \in 1 .. Len(first) : first[i] = u
    BY <2>4, <2>5, OwnFacts
  <2> HIDE DEF first, later
  <2>7. k + 1 \in 1 .. Len(all) /\ t = all[k + 1]
    BY <1>2, <2>3, <2>5, <2>6
  <2>8. \/ k + 1 \in 1 .. Len(first) /\ t = first[k + 1]
        \/ /\ k + 1 > Len(first) /\ k + 1 - Len(first) \in 1 .. Len(later)
           /\ t = later[k + 1 - Len(first)]
    BY <2>6, <2>7
  <2>9. t.source = selecting
    BY <2>6, <2>8
  <2>10. \A s \in Ancestors[currentState] \ Ancestors[t.source], i \in DOMAIN names :
           Refusing(s, names[i]) /\ ~DeferredIn(s, names[i])
    BY <1>4, <2>9 DEF Searching
  <2>11. ASSUME NEW i \in DOMAIN names, \A j \in 1 .. i : names[j] \notin t.events
         PROVE  \A u \in ToSet(Outgoing[t.source]) :
                  names[i] \in u.events /\ Precedes(u, t.source, names[i]) => u \in refused
    <3>1. i \in 1 .. 2 /\ names[1] = n /\ names[2] = AnyEvent
      BY <2>1
    <3>2. n \notin t.events
      BY <2>11, <3>1
    <3>3. /\ k + 1 > Len(first) /\ k + 1 - Len(first) \in 1 .. Len(later)
          /\ t = later[k + 1 - Len(first)]
      BY <2>6, <2>8, <3>2
    <3>4. AnyEvent \in t.events
      BY <2>6, <3>3
    <3>5. i = 1
      BY <2>11, <3>1, <3>4
    <3>6. \A j \in 1 .. Len(first) : first[j] \in refused
      BY <2>3, <2>6, <3>3
    <3> QED
      BY <2>6, <2>9, <3>1, <3>5, <3>6
  <2> QED
    BY <2>10, <2>11 DEF InnermostTaken
<1> QED
  BY <1>1, <1>3, <1>4

\* An event is taken by the innermost active state that can take it, whatever
\* the model: further in every guard was false and no state defers the event, and
\* a transition for any event fires after those for the event's own name.
THEOREM InnermostTakes == Spec => InnermostFirst
<1>1. Init => SInv
  BY DEF Init, SInv
<1>2. SInv /\ [Next]_vars => SInv'
  BY SearchStep
<1>3. SInv /\ [Next]_vars => [InnermostTaken]_vars
  BY TakenInOrder
<1> QED
  BY <1>1, <1>2, <1>3, PTL DEF Spec, InnermostFirst

-----------------------------------------------------------------------------
(***************************************************************************)
(* History                                                                 *)
(***************************************************************************)

\* The states with a history vertex that are left when s is: those strictly above it.
Surrounding(s) == IF s \in States THEN (Ancestors[s] \ {s}) \cap Recalled ELSE {}

Faithful(s) ==
  /\ s \in Deeps => deep[s] = lastLeaf[s]
  /\ s \in Shallows /\ lastLeaf[s] # Nothing => shallow[s] = ChildTowards(s, lastLeaf[s])

\* What is being executed ends inside r.
Heading(r) ==
  /\ pc = "exit" => Internal(transition) \/ target \in Settles(r)
  /\ pc = "enter" => \/ target \in Settles(r)
                     \/ target = Nothing /\ result \in Beneath(r)
  /\ pc = "pseudo" => vertex \in Settles(r)

\* Only the states around the current state may hold an old memory.  On the way from one
\* state to the next such a state has been remembered, or will be in again.
MemoryInv ==
  /\ \A r \in Surrounding(currentState) : lastLeaf[r] = currentState
  /\ \A r \in Recalled \ Surrounding(currentState) : Faithful(r)
  /\ pc \in {"exit", "enter", "pseudo"} =>
       \A r \in Surrounding(currentState) : Faithful(r) \/ Heading(r)

\* History belongs to states.
LEMMA RecalledStates ==
  /\ Recalled \subseteq States /\ Shallows \subseteq Recalled /\ Deeps \subseteq Recalled
  /\ \A s : Surrounding(s) \subseteq Recalled
<1>1. ASSUME NEW v \in Vertices, Kind[v] \in {"shallow", "deep"} PROVE Parent[v] \in States
  <2>1. Parent[v] # Root
    BY <1>1, ModelValid DEF ValidVertex
  <2> QED
    BY <2>1, Containment DEF Regions
<1> QED
  BY <1>1 DEF Recalled, Shallows, Deeps, Surrounding

\* From a vertex whose entry ends inside r it goes on to such vertices only.
LEMMA SettlesOnward ==
  ASSUME NEW r, NEW v \in Settles(r)
  PROVE  v \in Beneath(r) /\ Onward(v) \subseteq Settles(r)
<1>1. PICK S \in SUBSET Beneath(r) : v \in S /\ \A u \in S : Onward(u) \subseteq S
  BY DEF Settles
<1>2. S \subseteq Settles(r)
  BY <1>1 DEF Settles
<1> QED
  BY <1>1, <1>2

\* A state that lies inside r is surrounded by it.
LEMMA BeneathSurrounds ==
  ASSUME NEW r \in Recalled, NEW s \in Beneath(r), s \in Regions
  PROVE  s \in States /\ r \in Surrounding(s)
<1>1. s \in States
  BY Containment DEF Beneath, Regions
<1> QED
  BY <1>1 DEF Beneath, Surrounding

\* A step that remembers nothing and arrives nowhere.
LEMMA MemoryKept ==
  ASSUME MemoryInv, UNCHANGED <<currentState, shallow, deep, lastLeaf>>,
         pc' \in {"exit", "enter", "pseudo"} =>
           \A r \in Surrounding(currentState) : Faithful(r) \/ Heading(r)'
  PROVE  MemoryInv'
<1>1. \A r : Faithful(r)' <=> Faithful(r)
  BY DEF Faithful
<1>2. Surrounding(currentState)' = Surrounding(currentState)
  BY DEF Surrounding
<1> QED
  BY <1>1, <1>2 DEF MemoryInv

\* Arriving in s: the states that are left then have been remembered.
LEMMA MemoryArrives ==
  ASSUME MemoryInv, GhostType, NEW s \in Regions, Arrive(s), UNCHANGED <<shallow, deep>>,
         \A r \in Surrounding(currentState) : Faithful(r) \/ r \in Surrounding(s)
  PROVE  MemoryInv'
<1>1. /\ pc' = "idle" /\ currentState' = s
      /\ lastLeaf' = [r \in Recalled |-> IF r \in Ancestors[s] \ {s} THEN s ELSE lastLeaf[r]]
  BY DEF Arrive, Return
<1>2. \A r \in Recalled : r \in Ancestors[s] \ {s} <=> r \in Surrounding(s)
  BY HierarchyAssumption DEF Surrounding, Regions
<1>3. Surrounding(currentState)' = Surrounding(s)
  BY <1>1 DEF Surrounding
<1>4. \A r \in Surrounding(s) : lastLeaf'[r] = s
  BY <1>1, <1>2, RecalledStates
<1>5. ASSUME NEW r \in Recalled \ Surrounding(s) PROVE Faithful(r)'
  <2>1. lastLeaf'[r] = lastLeaf[r]
    BY <1>1, <1>2
  <2>2. Faithful(r)
    BY DEF MemoryInv
  <2> QED
    BY <2>1, <2>2 DEF Faithful
<1> QED
  BY <1>1, <1>3, <1>4, <1>5 DEF MemoryInv

\* What execute_transition does up to its first await, to the memory too.
LEMMA ExecuteIs ==
  ASSUME NEW from, NEW t, Legal(from, t), Execute(from, t)
  PROVE  /\ pc' = "exit" /\ transition' = t /\ target' = t.target
         /\ UNCHANGED <<currentState, lastLeaf>>
         /\ IF ThroughBoundary(t, PathFrom(from, t)).exit # <<>> /\ ~IsHistory(t.target)
            THEN RememberHistory(from) ELSE UNCHANGED <<shallow, deep>>
<1>1. t \in Transitions /\ from \in Names
  BY DEF Legal
<1>2. Applies(from, t)
  BY <1>1, HierarchyAssumption DEF Applies, Legal, IsAncestorOrEqual
<1> QED
  BY <1>2 DEF Execute

\* Nothing is remembered of what is no state.
LEMMA NothingRemembered ==
  ASSUME HistoryType, NEW leaf, leaf \notin States, RememberHistory(leaf)
  PROVE  UNCHANGED <<shallow, deep>>
BY DEF RememberHistory, HistoryType

\* An initial transition leaves no state.
LEMMA InitialQuiet ==
  ASSUME WaysOn, WaysBack, NEW s \in Regions, InitialOf(s) # <<>>
  PROVE  ThroughBoundary(Head(InitialOf(s)), PathFrom(s, Head(InitialOf(s)))).exit = <<>>
<1> DEFINE t == Head(InitialOf(s))
<1>1. /\ InitialOf(s) \in Seq(Transitions) /\ Len(InitialOf(s)) = 1 /\ Legal(s, t) /\ ~Internal(t)
  BY InitialTransition
<1>2. t \in ToSet(InitialOf(s)) /\ t \in Transitions
  <2> DEFINE out == InitialOf(s)
  <2>1. out \in Seq(Transitions) /\ Len(out) = 1
    BY <1>1
  <2> HIDE DEF out
  <2>2. Head(out) = out[1] /\ 1 \in DOMAIN out
    BY <2>1
  <2>3. Head(out) \in ToSet(out) /\ Head(out) \in Transitions
    BY <2>1, <2>2 DEF ToSet
  <2> QED
    BY <2>3 DEF out
<1>3. OfKind(Initial[s], "initial") /\ Parent[Initial[s]] = s /\ InitialOf(s) = Outgoing[Initial[s]]
      /\ Initial[s] \in Names /\ Initial[s] # Nothing
  BY InitialTransition, InterpreterAssumption DEF InitialOf, OfKind, Names
<1>4. t.source = Initial[s] /\ ValidTransition(t) /\ t.target \in Names
  BY <1>1, <1>2, <1>3, OutgoingFacts, TransitionFacts DEF Internal
<1> HIDE DEF t
<1>5. PathKey(t) = s
  BY <1>2, <1>3, <1>4, PathKeys
<1>6. t.source \in Pseudostates /\ s \in Ancestors[t.target] /\ s \in Names
  BY <1>3, <1>4, Containment DEF ValidTransition, OfKind, Pseudostates, States
<1>7. t.target # s
  BY <1>2, <1>3 DEF WaysBack, t
<1>8. Meet(s, t.target) = s
  <2>1. Ancestors[s] = Ancestors[s] \cap Ancestors[t.target]
    BY <1>4, <1>6, Transitive
  <2> QED
    BY <1>4, <1>6, <2>1, MeetSame
<1>9. PathFrom(s, t).exit = Below(s, s)
  BY <1>1, <1>5, <1>7, <1>8, PathPlain
<1>10. Below(s, s) = <<>>
  BY <1>6, BelowStep
<1>11. ~( /\ OfKind(t.target, "entry") /\ OfKind(Dirname(t.target), "submachine")
          /\ IsAncestorOrEqual(Dirname(t.target), t.source) )
  <2> SUFFICES ASSUME OfKind(t.target, "entry"), IsAncestorOrEqual(Dirname(t.target), t.source)
               PROVE  FALSE
    OBVIOUS
  <2>1. t.source # Root /\ t.target \in Vertices
    BY <1>3, <1>4, Containment DEF OfKind
  <2>2. /\ OfKind(Parent[t.target], "submachine")
        /\ \/ OfKind(t.source, "exit") \/ t.source = Parent[t.target]
           \/ Parent[t.target] \notin Ancestors[t.source]
    BY <1>1, <1>4, <2>1 DEF ValidTransition, EntryPointTarget, Internal
  <2>3. ~OfKind(t.source, "exit")
    BY <1>3, <1>4 DEF OfKind
  <2>4. t.source # Parent[t.target]
    BY <1>6, <2>1, Containment
  <2>5. Parent[t.target] \in Ancestors[t.source]
    BY <1>4, <2>1, <2>4, HierarchyAssumption DEF IsAncestorOrEqual, Dirname
  <2> QED
    BY <2>2, <2>3, <2>4, <2>5
<1>12. ThroughBoundary(t, PathFrom(s, t)) = PathFrom(s, t)
  BY <1>11 DEF ThroughBoundary
<1> QED
  BY <1>9, <1>10, <1>12 DEF t

\* A transition that remembers nothing leads on.
LEMMA QuietExecution ==
  ASSUME MemoryInv, HistoryType, NEW from, NEW t, Legal(from, t), Execute(from, t),
         from \notin States \/ ThroughBoundary(t, PathFrom(from, t)).exit = <<>>,
         \A r \in Surrounding(currentState) : Faithful(r) \/ t.target \in Settles(r)
  PROVE  MemoryInv'
<1>1. /\ pc' = "exit" /\ transition' = t /\ target' = t.target
      /\ UNCHANGED <<currentState, lastLeaf>>
  BY ExecuteIs
<1>2. UNCHANGED <<shallow, deep>>
  BY ExecuteIs, NothingRemembered
<1>3. \A r \in Surrounding(currentState) : Faithful(r) \/ Heading(r)'
  BY <1>1 DEF Heading
<1> QED
  BY <1>1, <1>2, <1>3, MemoryKept

\* The candidates in a state are transitions of selection_state.
LEMMA CandidateSource ==
  ASSUME Searching, rest # <<>>
  PROVE  Head(rest).source = selecting /\ selecting \in Ancestors[currentState]
<1>1. PICK n \in EventNames \cup {FinalEvent} : names = <<n, AnyEvent>> /\ \E k \in Nat : Tried(n, k)
  BY DEF Searching
<1>2. PICK k \in Nat : Tried(n, k)
  BY <1>1
<1> DEFINE first == Own(selecting, n)
           later == Own(selecting, AnyEvent)
           all   == first \o later
<1>3. Len(all) = k + Len(rest) /\ \A i \in 1 .. Len(rest) : rest[i] = all[k + i]
  BY <1>2 DEF Tried
<1>4. n \in AllNames /\ AnyEvent \in AllNames
  BY NamesOf
<1>5. selecting \in Names /\ rest \in Seq(Transitions) /\ selecting \in Ancestors[currentState]
  BY Containment, Above DEF Searching, Regions
<1>6. /\ first \in Seq(ToSet(Outgoing[selecting])) /\ later \in Seq(ToSet(Outgoing[selecting]))
  BY <1>4, <1>5, OwnFacts
<1>7. \A t \in ToSet(Outgoing[selecting]) : t.source = selecting
  BY <1>5, OutgoingFacts
<1> HIDE DEF first, later
<1>8. all \in Seq(ToSet(Outgoing[selecting]))
  BY <1>6
<1>9. k + 1 \in 1 .. Len(all) /\ Head(rest) = all[k + 1]
  BY <1>3, <1>5
<1> QED
  BY <1>5, <1>7, <1>8, <1>9

-----------------------------------------------------------------------------
(***************************************************************************)
(* Steps preserve the memory                                               *)
(***************************************************************************)

\* A transition that is taken where nothing is left, or whose target is a history,
\* is one of WaysBack.
LEMMA Unremembered ==
  ASSUME WaysOn, WaysBack, NEW c \in States, NEW t, Legal(c, t), ~Internal(t), t.source \in Ancestors[c],
         IsHistory(t.target) \/ ThroughBoundary(t, PathFrom(c, t)).exit = <<>>,
         NEW r \in Surrounding(c)
  PROVE  t.target \in Settles(r)
<1>1. /\ c \in Regions /\ c \in Names /\ t \in Transitions
      /\ r \in Recalled /\ r \in Ancestors[c] \ {c} /\ t.source \in Regions /\ t.source \in Names
  BY Containment DEF Legal, Surrounding, Regions
<1>2. CASE IsHistory(t.target)
  BY <1>1, <1>2, Linear DEF WaysBack
<1>3. CASE ThroughBoundary(t, PathFrom(c, t)).exit = <<>>
  <2>1. PathKey(t) = t.source
    BY <1>1, PathKeys, Containment DEF OfKind, Pseudostates, States, Regions
  <2>2. t.target \in Names
    BY <1>1, TransitionFacts DEF Internal
  <2> DEFINE path == PathFrom(c, t)
  <2>3. path.exit \in Seq(Names) => path.exit = <<>>
    <3> DEFINE out == path.exit
    <3>1. \/ ThroughBoundary(t, path).exit = out
          \/ ThroughBoundary(t, path).exit = Append(out, Dirname(t.target))
      BY DEF ThroughBoundary
    <3> HIDE DEF out
    <3>2. ASSUME out \in Seq(Names) PROVE Append(out, Dirname(t.target)) # <<>>
      BY <3>2
    <3> QED
      BY <1>3, <3>1, <3>2 DEF out
  <2>4. CASE IsPath(path, c, t, Meet(t.source, t.target)) /\ t.source # t.target
    <3> DEFINE top == Meet(t.source, t.target)
    <3>1. top \in Ancestors[c] /\ path.exit = Below(top, c)
      BY <2>4 DEF IsPath
    <3>2. Below(top, c) \in Seq(Ancestors[c] \ Ancestors[top]) /\ (c # top => Below(top, c) # <<>>)
      BY <1>1, <3>1, BelowType
    <3>3. path.exit \in Seq(Names)
      <4>1. Ancestors[c] \ Ancestors[top] \subseteq Names
        BY <1>1, Above
      <4>2. \A A, B : A \subseteq B => Seq(A) \subseteq Seq(B)
        OBVIOUS
      <4> QED
        BY <3>1, <3>2, <4>1, <4>2
    <3>4. c = top
      BY <2>3, <3>1, <3>2, <3>3
    <3>5. c \in Ancestors[t.source] /\ c \in Ancestors[t.target]
      BY <1>1, <2>2, <3>4, MeetFacts
    <3>6. t.source = c
      BY <1>1, <3>5, Antisymmetric
    <3>7. t.target \in Beneath(t.source)
      BY <2>2, <2>4, <3>5, <3>6, ProperAncestor DEF Beneath
    <3> QED
      BY <1>1, <3>6, <3>7 DEF WaysBack
  <2>5. CASE IsPath(path, c, t, Parent[t.target]) /\ t.source = t.target /\ t.target # Root
    <3> DEFINE top == Parent[t.target]
    <3>1. top \in Ancestors[c] /\ path.exit = Below(top, c)
      BY <2>5 DEF IsPath
    <3>2. Below(top, c) \in Seq(Ancestors[c] \ Ancestors[top]) /\ (c # top => Below(top, c) # <<>>)
      BY <1>1, <3>1, BelowType
    <3>3. path.exit \in Seq(Names)
      <4>1. Ancestors[c] \ Ancestors[top] \subseteq Names
        BY <1>1, Above
      <4>2. \A A, B : A \subseteq B => Seq(A) \subseteq Seq(B)
        OBVIOUS
      <4> QED
        BY <3>1, <3>2, <4>1, <4>2
    <3>4. c = top
      BY <2>3, <3>1, <3>2, <3>3
    <3> QED
      BY <2>2, <2>5, <3>4, HierarchyAssumption DEF Names
  <2>6. CASE IsLoop(path, c, t)
    <3>1. path.exit = Below(Root, c) \o <<Root>> /\ Root \in Ancestors[c]
      BY <1>1, <2>6, Above DEF IsLoop
    <3> DEFINE up == Below(Root, c)
    <3>2. up \in Seq(Ancestors[c] \ Ancestors[Root])
      BY <1>1, <3>1, BelowType
    <3>3. Ancestors[c] \ Ancestors[Root] \subseteq Names /\ Root \in Names
      BY <1>1, Above, Containment
    <3> HIDE DEF up
    <3>4. up \in Seq(Names)
      <4>1. \A A, B : A \subseteq B => Seq(A) \subseteq Seq(B)
        OBVIOUS
      <4> QED
        BY <3>2, <3>3, <4>1
    <3>5. up \o <<Root>> \in Seq(Names) /\ up \o <<Root>> # <<>>
      BY <3>3, <3>4
    <3> QED
      BY <2>3, <3>1, <3>5 DEF up
  <2> QED
    BY <1>1, <2>1, <2>4, <2>5, <2>6, PathShape
<1> QED
  BY <1>2, <1>3

LEMMA GuardTrueRemembers ==
  ASSUME WaysOn, WaysBack, IInv, SInv, MemoryInv, GuardTrue
  PROVE  MemoryInv'
<1> DEFINE t == Head(rest) c == currentState
<1>1. pc = "select" /\ rest # <<>> /\ Execute(c, t)
  BY DEF GuardTrue
<1>2. currentState \in Regions /\ rest \in Seq({u \in Transitions : Legal(currentState, u)})
  BY <1>1 DEF IInv, Where, Selecting
<1>3. Legal(c, t)
  <2> DEFINE L == {u \in Transitions : Legal(currentState, u)}
  <2> HIDE DEF L
  <2>1. rest \in Seq(L)
    BY <1>2 DEF L
  <2>2. t \in L
    BY <1>1, <2>1
  <2> QED
    BY <2>2 DEF L
<1>4. HistoryType
  BY Types DEF IInv, MachineType
<1>5. CASE c \notin States
  <2>1. Surrounding(c) = {}
    BY <1>5 DEF Surrounding
  <2> HIDE DEF t
  <2> QED
    BY <1>1, <1>3, <1>4, <1>5, <2>1, QuietExecution
<1>6. CASE c \in States
  <2>1. Searching
    BY <1>1, <1>6, Containment DEF SInv, Starting
  <2>2. t.source \in Ancestors[c]
    BY <1>1, <2>1, CandidateSource
  <2> HIDE DEF t
  <2> DEFINE remembering == /\ ThroughBoundary(t, PathFrom(c, t)).exit # <<>>
                            /\ ~IsHistory(t.target)
  <2>3. /\ pc' = "exit" /\ transition' = t /\ target' = t.target
        /\ UNCHANGED <<currentState, lastLeaf>>
        /\ IF remembering THEN RememberHistory(c) ELSE UNCHANGED <<shallow, deep>>
    BY <1>1, <1>3, ExecuteIs
  <2>4. CASE ~remembering
    <3>1. \A r \in Surrounding(c) : Internal(t) \/ t.target \in Settles(r)
      BY <1>3, <1>6, <2>2, <2>4, Unremembered
    <3>2. \A r \in Surrounding(c) : Heading(r)'
      BY <2>3, <3>1 DEF Heading, Internal
    <3> QED
      BY <2>3, <2>4, <3>2, MemoryKept
  <2>5. CASE remembering
    <3> DEFINE above == (Ancestors[c] \ {c}) \cap States
    <3>1. /\ shallow' = [s \in Shallows |-> IF s \in above THEN ChildTowards(s, c) ELSE shallow[s]]
          /\ deep' = [s \in Deeps |-> IF s \in above THEN c ELSE deep[s]]
      BY <1>6, <2>3, <2>5 DEF RememberHistory
    <3>2. Surrounding(c) = above \cap Recalled
      BY <1>6, RecalledStates DEF Surrounding
    <3> HIDE DEF above
    <3>3. Surrounding(currentState)' = Surrounding(c)
      BY <2>3 DEF Surrounding
    <3>4. \A r \in Surrounding(c) : lastLeaf'[r] = c
      BY <2>3 DEF MemoryInv
    <3>5. ASSUME NEW r \in Surrounding(c) PROVE Faithful(r)'
      BY <3>1, <3>2, <3>4, <3>5 DEF Faithful
    <3>6. ASSUME NEW r \in Recalled \ Surrounding(c) PROVE Faithful(r)'
      <4>1. r \notin above /\ Faithful(r) /\ lastLeaf'[r] = lastLeaf[r]
        BY <2>3, <3>2 DEF MemoryInv
      <4>2. (r \in Shallows => shallow'[r] = shallow[r]) /\ (r \in Deeps => deep'[r] = deep[r])
        BY <3>1, <4>1
      <4> QED
        BY <4>1, <4>2 DEF Faithful
    <3> QED
      BY <2>3, <3>3, <3>4, <3>5, <3>6 DEF MemoryInv
  <2> QED
    BY <2>4, <2>5
<1> QED
  BY <1>5, <1>6

\* Beyond an entry point and an initial transition the way leads on inside r.
LEMMA OnwardEntry ==
  ASSUME WaysOn, NEW v, OfKind(v, "entry")
  PROVE  Outgoing[v][1].target \in Onward(v)
<1>1. v \in Vertices /\ v \notin States /\ v \in Names /\ Kind[v] = "entry" /\ Outgoing[v][1].target # Nothing
  BY EntryWay, HierarchyAssumption DEF OfKind, States, Names
<1>2. Len(Outgoing[v]) = 1 /\ Outgoing[v] \in Seq(ToSet(Outgoing[v]))
  BY <1>1, ModelValid, OutgoingFacts DEF ValidVertex
<1>3. Outgoing[v][1] \in ToSet(Outgoing[v])
  BY <1>2
<1> QED
  BY <1>1, <1>3 DEF Onward

LEMMA OnwardInitial ==
  ASSUME WaysOn, NEW s \in Regions, InitialOf(s) # <<>>
  PROVE  /\ s \in States => Head(InitialOf(s)).target \in Onward(s)
         /\ \A v \in Vertices : IsHistory(v) /\ Parent[v] = s => Head(InitialOf(s)).target \in Onward(v)
<1> DEFINE out == InitialOf(s)
<1>1. out \in Seq(Transitions) /\ Len(out) = 1
  BY InitialTransition
<1>2. \A v : IsHistory(v) => v \notin States
  BY DEF IsHistory, OfKind, States
<1> HIDE DEF out
<1>3. Head(out) \in ToSet(out)
  <2>1. Head(out) = out[1] /\ 1 \in DOMAIN out
    BY <1>1
  <2> QED
    BY <2>1 DEF ToSet
<1> QED
  BY <1>2, <1>3 DEF Onward, out

LEMMA EffectRemembers ==
  ASSUME WaysOn, IInv, MemoryInv, Effect
  PROVE  MemoryInv'
<1>1. pc = "exit" /\ exits = <<>>
  BY DEF Effect
<1>2. Exiting /\ transition \in Transitions /\ currentState \in Regions /\ GhostType
  BY <1>1, Types DEF IInv, Where, Exiting
<1>3. CASE Internal(transition)
  <2>1. Arrive(currentState) /\ UNCHANGED <<shallow, deep>>
    BY <1>3 DEF Effect
  <2> QED
    BY <1>2, <2>1, MemoryArrives
<1>4. CASE ~Internal(transition)
  <2> DEFINE v == transition.target
             inner == Outgoing[v][1].target
  <2>1. /\ pc' = "enter" /\ UNCHANGED <<currentState, shallow, deep, lastLeaf>>
        /\ IF OfKind(v, "entry") THEN target' = inner ELSE target' = target
    BY <1>4 DEF Effect
  <2>2. target = v
    BY <1>2, <1>4 DEF Exiting, Climbing
  <2> HIDE DEF v, inner
  <2>3. OfKind(v, "entry") => inner \in Onward(v)
    BY OnwardEntry DEF inner
  <2>4. ASSUME NEW r \in Surrounding(currentState), ~Faithful(r) PROVE Heading(r)'
    <3>1. v \in Settles(r)
      BY <1>1, <1>4, <2>2, <2>4 DEF MemoryInv, Heading
    <3>2. target' \in Settles(r)
      BY <2>1, <2>2, <2>3, <3>1, SettlesOnward
    <3> QED
      BY <2>1, <3>2 DEF Heading
  <2> QED
    BY <2>1, <2>4, MemoryKept
<1> QED
  BY <1>3, <1>4

LEMMA EnterStateRemembers ==
  ASSUME WaysOn, WaysBack, IInv, MemoryInv, EnterState
  PROVE  MemoryInv'
<1>1. PICK s \in States : pc = "enter" /\ enters # <<>> /\ s = Head(enters)
  BY DEF EnterState
<1>2. GhostType /\ HistoryType /\ s \in Regions /\ s \in Vertices /\ s # Nothing
  BY Types, Containment, HierarchyAssumption DEF IInv, MachineType, Regions, Names
<1>3. CASE s # target
  <2>1. UNCHANGED <<currentState, shallow, deep, lastLeaf, pc, transition, target, result, vertex>>
    BY <1>1, <1>3 DEF EnterState
  <2>2. \A r : Heading(r)' <=> Heading(r)
    BY <2>1 DEF Heading, Internal
  <2> QED
    BY <1>1, <2>1, <2>2, MemoryKept DEF MemoryInv
<1>4. ASSUME s = target, NEW r \in Surrounding(currentState), ~Faithful(r)
      PROVE  s \in Settles(r) /\ r \in Recalled
  BY <1>1, <1>2, <1>4, RecalledStates DEF MemoryInv, Heading
<1>5. CASE s = target /\ InitialOf(s) = <<>>
  <2>1. Arrive(s) /\ UNCHANGED <<shallow, deep>>
    BY <1>1, <1>5 DEF EnterState
  <2>2. \A r \in Surrounding(currentState) : Faithful(r) \/ r \in Surrounding(s)
    BY <1>2, <1>4, <1>5, SettlesOnward, BeneathSurrounds
  <2> QED
    BY <1>2, <2>1, <2>2, MemoryArrives
<1>6. CASE s = target /\ InitialOf(s) # <<>>
  <2> DEFINE t == Head(InitialOf(s))
  <2>1. Execute(s, t)
    BY <1>1, <1>6 DEF EnterState
  <2>2. Legal(s, t)
    BY <1>2, <1>6, InitialTransition
  <2>3. ThroughBoundary(t, PathFrom(s, t)).exit = <<>>
    BY <1>2, <1>6, InitialQuiet
  <2>4. t.target \in Onward(s)
    BY <1>2, <1>6, OnwardInitial
  <2> HIDE DEF t
  <2>5. \A r \in Surrounding(currentState) : Faithful(r) \/ t.target \in Settles(r)
    BY <1>4, <1>6, <2>4, SettlesOnward
  <2> QED
    BY <1>2, <2>1, <2>2, <2>3, <2>5, QuietExecution
<1> QED
  BY <1>3, <1>5, <1>6

LEMMA NothingToEnterRemembers ==
  ASSUME IInv, MemoryInv, NothingToEnter
  PROVE  MemoryInv'
<1>1. pc = "enter" /\ enters = <<>> /\ Arrive(result) /\ UNCHANGED <<shallow, deep>>
  BY DEF NothingToEnter
<1>2. Entering /\ GhostType
  BY <1>1, Types DEF IInv, Where
<1>3. PICK pos \in Regions : Descending(pos)
  BY <1>2 DEF Entering
<1>4. result \in Names /\ pos \in Ancestors[result] /\ target \in {result, Nothing}
  BY <1>2, <1>3 DEF Entering, Descending
<1>5. result \in Regions
  <2> SUFFICES ASSUME result # pos PROVE FALSE
    BY <1>3
  <2>1. Down(pos, result) # <<>> /\ Down(pos, result) \in Seq(Vertices)
    BY <1>4, DownHead, WayTypes
  <2>2. enters = Down(pos, result) \/ enters = Down(pos, result) \o <<result>>
    BY <1>3 DEF Descending
  <2> QED
    BY <1>1, <2>1, <2>2
<1>6. ASSUME NEW r \in Surrounding(currentState), ~Faithful(r) PROVE r \in Surrounding(result)
  <2>1. r \in Recalled /\ (target \in Settles(r) \/ result \in Beneath(r))
    BY <1>1, <1>6, RecalledStates DEF MemoryInv, Heading
  <2>2. result \in Beneath(r)
    <3>1. CASE target = result
      BY <2>1, <3>1, SettlesOnward
    <3>2. CASE target = Nothing
      <4>1. Nothing \notin Beneath(r)
        BY HierarchyAssumption DEF Beneath, Names
      <4> QED
        BY <2>1, <3>2, <4>1, SettlesOnward
    <3> QED
      BY <1>4, <3>1, <3>2
  <2> QED
    BY <1>5, <2>1, <2>2, BeneathSurrounds
<1> QED
  BY <1>1, <1>2, <1>5, <1>6, MemoryArrives

LEMMA EnterPseudostateRemembers ==
  ASSUME WaysOn, IInv, MemoryInv, EnterPseudostate
  PROVE  MemoryInv'
<1>1. PICK v \in Pseudostates : v = Head(enters)
  BY DEF EnterPseudostate
<1> DEFINE remembered == IF ~IsHistory(v) THEN Nothing
                         ELSE IF Kind[v] = "shallow" THEN shallow[Parent[v]] ELSE deep[Parent[v]]
<1>2. /\ pc = "enter" /\ enters # <<>> /\ UNCHANGED <<currentState, shallow, deep, lastLeaf>>
      /\ IF remembered # Nothing THEN Recall(v, remembered) ELSE pc' = "pseudo" /\ vertex' = v
  BY <1>1 DEF EnterPseudostate, machine
<1>3. Entering /\ Remembers /\ HistoryType
  BY <1>2, Types DEF IInv, Where, MachineType
<1>4. PICK pos \in Regions : Descending(pos)
  BY <1>3 DEF Entering
<1>5. v \in Vertices /\ v \in Names /\ v \notin States /\ v = result /\ Parent[v] \in Names /\ v # Nothing
  BY <1>1, <1>2, <1>3, <1>4, EnterNext, Depths, HierarchyAssumption DEF Entering, Pseudostates, Names
<1>6. target = v
  BY <1>3, <1>5 DEF Entering
<1>7. ASSUME NEW r \in Surrounding(currentState), ~Faithful(r)
      PROVE  v \in Settles(r) /\ v \in Beneath(r) /\ Onward(v) \subseteq Settles(r)
  BY <1>2, <1>5, <1>6, <1>7, SettlesOnward DEF MemoryInv, Heading
<1>8. CASE remembered = Nothing
  <2>1. \A r \in Surrounding(currentState) : Faithful(r) \/ Heading(r)'
    BY <1>2, <1>7, <1>8 DEF Heading
  <2> QED
    BY <1>2, <2>1, MemoryKept
<1>9. CASE remembered # Nothing /\ Kind[v] = "shallow"
  <2> DEFINE q == shallow[Parent[v]]
  <2>1. IsHistory(v) /\ Parent[v] \in Shallows /\ q = remembered
    BY <1>5, <1>9 DEF Shallows
  <2>2. q \in States /\ Parent[q] = Parent[v]
    BY <1>3, <1>9, <2>1 DEF HistoryType, OrNothing, Remembers
  <2>3. q \in Onward(v)
    BY <1>5, <2>1, <2>2 DEF Onward
  <2>4. pc' = "enter" /\ target' = q
    BY <1>2, <1>9, <2>1 DEF Recall
  <2>5. \A r \in Surrounding(currentState) : Faithful(r) \/ Heading(r)'
    BY <1>7, <2>3, <2>4 DEF Heading
  <2> QED
    BY <1>2, <2>5, MemoryKept
<1>10. CASE remembered # Nothing /\ Kind[v] # "shallow"
  <2> DEFINE q == deep[Parent[v]]
  <2>1. IsHistory(v) /\ Parent[v] \in Deeps /\ q = remembered
    BY <1>5, <1>10 DEF Deeps, IsHistory, OfKind
  <2>2. q \in States /\ Parent[v] \in Ancestors[q] \ {q}
    BY <1>3, <1>10, <2>1 DEF HistoryType, OrNothing, Remembers
  <2>3. pc' = "enter" /\ target' = Nothing /\ result' = q
    BY <1>2, <1>10, <2>1 DEF Recall
  <2>4. q \in Names /\ q \in Vertices
    BY <2>2, Containment DEF Names
  <2> HIDE DEF q
  <2>5. ASSUME NEW r \in Surrounding(currentState), ~Faithful(r) PROVE q \in Beneath(r)
    <3>1. r \in Ancestors[v] /\ r # v
      BY <1>7, <2>5 DEF Beneath
    <3>2. r \in Ancestors[Parent[v]] /\ r \in Names
      BY <1>5, <3>1, ProperAncestor, Above
    <3>3. r \in Ancestors[q]
      BY <2>2, <2>4, <3>2, Transitive
    <3>4. r # q
      BY <1>5, <2>2, <3>2, Antisymmetric
    <3> QED
      BY <2>4, <3>3, <3>4 DEF Beneath
  <2>6. \A r \in Surrounding(currentState) : Faithful(r) \/ Heading(r)'
    BY <2>3, <2>5 DEF Heading
  <2> QED
    BY <1>2, <2>6, MemoryKept
<1> QED
  BY <1>8, <1>9, <1>10

\* A transition out of a pseudostate, or the initial one that a history falls back on.
LEMMA PseudoRemembers ==
  ASSUME WaysOn, WaysBack, IInv, MemoryInv, PseudoTrue \/ PseudoExhausted
  PROVE  MemoryInv'
<1>1. pc = "pseudo"
  BY DEF PseudoTrue, PseudoExhausted
<1>2. /\ Leaving /\ vertex \in Pseudostates /\ vertex \in Vertices /\ vertex \in Names /\ vertex \notin States
      /\ Parent[vertex] \in Regions /\ HistoryType
  BY <1>1, RestOut, Types DEF IInv, MachineType, Pseudostates
<1>3. ASSUME NEW from, NEW t, Legal(from, t), Execute(from, t), t.target \in Onward(vertex),
             from \notin States \/ ThroughBoundary(t, PathFrom(from, t)).exit = <<>>
      PROVE  MemoryInv'
  <2>1. \A r \in Surrounding(currentState) : Faithful(r) \/ t.target \in Settles(r)
    BY <1>1, <1>3, SettlesOnward DEF MemoryInv, Heading
  <2> QED
    BY <1>2, <1>3, <2>1, QuietExecution
<1>4. CASE PseudoTrue
  <2> DEFINE t == Head(rest)
  <2>1. rest # <<>> /\ ~Internal(t) /\ Execute(vertex, t)
    BY <1>4 DEF PseudoTrue
  <2>2. t \in ToSet(Outgoing[vertex])
    BY <1>1, <2>1, RestOut
  <2> HIDE DEF t
  <2>3. Legal(vertex, t)
    BY <1>2, <2>1, <2>2, LegalOut DEF Leaving
  <2>4. t.target \in Onward(vertex)
    BY <1>2, <2>1, <2>2 DEF Onward, Internal
  <2> QED
    BY <1>2, <1>3, <2>1, <2>3, <2>4
<1>5. CASE PseudoExhausted
  <2>1. rest = <<>>
    BY <1>5 DEF PseudoExhausted
  <2>2. CASE OfKind(vertex, "exit")
    <3>1. Keep
      BY <1>5, <2>2 DEF PseudoExhausted
    <3>2. pc' = "idle" /\ UNCHANGED <<currentState, shallow, deep, lastLeaf>>
      BY <3>1 DEF Keep, Return
    <3> QED
      BY <3>2, MemoryKept
  <2>3. CASE ~OfKind(vertex, "exit")
    <3> DEFINE s == Parent[vertex] t == Head(InitialOf(s))
    <3>1. IsHistory(vertex) /\ InitialOf(s) # <<>>
      <4>1. DOMAIN rest = {}
        BY <2>1
      <4> QED
        BY <1>2, <2>3, <4>1 DEF Leaving, LeadsOn, OfKind
    <3>2. Legal(s, t)
      BY <1>2, <3>1, InitialTransition
    <3>3. Execute(s, t)
      BY <1>5, <2>3, <3>1, <3>2 DEF PseudoExhausted
    <3>4. ThroughBoundary(t, PathFrom(s, t)).exit = <<>>
      BY <1>2, <3>1, InitialQuiet
    <3>5. t.target \in Onward(vertex)
      BY <1>2, <3>1, <3>2, OnwardInitial
    <3> HIDE DEF s, t
    <3> QED
      BY <1>3, <3>2, <3>3, <3>4, <3>5
  <2> QED
    BY <2>2, <2>3
<1> QED
  BY <1>4, <1>5

\* Whoever starts has nothing to remember, and stopping forgets everything.
LEMMA StartRemembers ==
  ASSUME MemoryInv, Start
  PROVE  MemoryInv'
<1>1. /\ currentState \in {Off, Root} /\ currentState' = Root /\ pc' = "select"
      /\ UNCHANGED <<shallow, deep, lastLeaf>>
  BY DEF Start, Select
<1>2. Surrounding(currentState) = {} /\ Surrounding(currentState)' = {}
  BY <1>1, Containment, InterpreterAssumption DEF Surrounding, Names
<1>3. \A r : Faithful(r)' <=> Faithful(r)
  BY <1>1 DEF Faithful
<1> QED
  BY <1>1, <1>2, <1>3 DEF MemoryInv

LEMMA StopClearsRemembers ==
  ASSUME StopClears
  PROVE  MemoryInv'
<1>1. /\ currentState' = Off /\ pc' = "idle"
      /\ shallow' = [s \in Shallows |-> Nothing] /\ deep' = [s \in Deeps |-> Nothing]
      /\ lastLeaf' = [s \in Recalled |-> Nothing]
  BY DEF StopClears, Return
<1>2. Surrounding(currentState)' = {}
  BY <1>1, Containment, InterpreterAssumption DEF Surrounding, Names
<1>3. \A r \in Recalled : Faithful(r)'
  BY <1>1 DEF Faithful
<1> QED
  BY <1>1, <1>2, <1>3 DEF MemoryInv

LEMMA InitMemory == Init => MemoryInv
<1> SUFFICES ASSUME Init PROVE MemoryInv
  OBVIOUS
<1>1. Surrounding(currentState) = {}
  BY Containment, InterpreterAssumption DEF Init, Surrounding, Names
<1>2. \A r \in Recalled : Faithful(r)
  BY DEF Init, Faithful
<1> QED
  BY <1>1, <1>2 DEF Init, MemoryInv

LEMMA NextMemory ==
  ASSUME WaysOn, WaysBack, IInv, SInv, MemoryInv, [Next]_vars
  PROVE  MemoryInv'
<1>1. ASSUME pc' \notin {"exit", "enter", "pseudo"}, UNCHANGED <<currentState, shallow, deep, lastLeaf>>
      PROVE  MemoryInv'
  BY <1>1, MemoryKept
<1>2. ASSUME pc' = pc, UNCHANGED <<currentState, shallow, deep, lastLeaf, transition, target, result, vertex>>
      PROVE  MemoryInv'
  <2>1. \A r : Heading(r)' <=> Heading(r)
    BY <1>2 DEF Heading, Internal
  <2> QED
    BY <1>2, <2>1, MemoryKept DEF MemoryInv
<1>3. CASE Dispatch \/ Complete
  BY <1>1, <1>3 DEF Dispatch, Complete, Select
<1>4. CASE Start
  BY <1>4, StartRemembers
<1>5. CASE GuardTrue
  BY <1>5, GuardTrueRemembers
<1>6. CASE Keep
  BY <1>1, <1>6 DEF Keep, Return
<1>7. CASE GuardAborts \/ ExitAborts \/ EffectAborts \/ EnterAborts \/ PseudoAborts
  BY <1>6, <1>7 DEF GuardAborts, ExitAborts, EffectAborts, EnterAborts, PseudoAborts
<1>8. CASE Outwards
  BY <1>2, <1>6, <1>8 DEF Outwards, machine, frame
<1>9. CASE GuardFalse \/ PseudoInternal \/ PseudoFalse
  BY <1>2, <1>9 DEF GuardFalse, PseudoInternal, PseudoFalse, machine, frame
<1>10. CASE ExitState \/ StopExits
  BY <1>2, <1>10 DEF ExitState, StopExits
<1>11. CASE Effect
  BY <1>11, EffectRemembers
<1>12. CASE EnterState
  BY <1>12, EnterStateRemembers
<1>13. CASE NothingToEnter
  BY <1>13, NothingToEnterRemembers
<1>14. CASE EnterPseudostate
  BY <1>14, EnterPseudostateRemembers
<1>15. CASE PseudoTrue \/ PseudoExhausted
  BY <1>15, PseudoRemembers
<1>16. CASE Stop
  BY <1>1, <1>16 DEF Stop, machine
<1>17. CASE StopClears
  BY <1>17, StopClearsRemembers
<1>18. CASE UNCHANGED vars
  BY <1>2, <1>18 DEF vars, machine, frame
<1> QED
  BY <1>3, <1>4, <1>5, <1>7, <1>8, <1>9, <1>10, <1>11, <1>12, <1>13, <1>14, <1>15, <1>16, <1>17, <1>18
  DEF Next, Step

\* Between events a state with a history vertex that is not active remembers the state
\* it was left in (remember_history, enter_history_target), in any model where what is
\* left unremembered is come back to: behaviours that abort, and exit points that lead
\* nowhere, included.
THEOREM HistoriesFaithful == ASSUME WaysOn, WaysBack PROVE Spec => []HistoryFaithful
<1>1. Init => SInv /\ MemoryInv
  BY InitMemory DEF Init, SInv
<1>2. IInv /\ SInv /\ MemoryInv /\ [Next]_vars => SInv' /\ MemoryInv'
  BY SearchStep, NextMemory
<1>3. MemoryInv => HistoryFaithful
  <2>1. Surrounding(currentState) \subseteq Within(currentState)
    BY RecalledStates, Containment DEF Surrounding, Within
  <2> QED
    BY <2>1 DEF MemoryInv, HistoryFaithful, Faithful
<1> QED
  BY <1>1, <1>2, <1>3, Invariance, PTL DEF Spec
=============================================================================
