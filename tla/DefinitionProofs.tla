-------------------------- MODULE DefinitionProofs --------------------------
(***************************************************************************)
(* Every model that a definition goes through is well-formed, for any      *)
(* machines it starts from, elements, redefinitions and embeddings, as     *)
(* long as what the builders name is told from what the user names: first  *)
(* the operators on names and models, then one lemma per element and per   *)
(* step of the lifecycle, then the actions and the theorems.               *)
(***************************************************************************)
EXTENDS Definition, SequenceFacts, SequenceTheorems, FiniteSetTheorems

-----------------------------------------------------------------------------
(* Names *)

\* A name has a length and segments that are strings.
LEMMA NameType ==
  ASSUME NEW q \in Name
  PROVE  /\ q \in Seq(Segment) /\ Len(q) \in Nat /\ DOMAIN q = 1 .. Len(q)
         /\ \A i \in 1 .. Len(q) : q[i] \in Segment
         /\ Len(q) = 0 <=> q = None
  BY EmptySeq DEF Name, None

\* Two names with the same segments are the same.
LEMMA SameSegments ==
  ASSUME NEW s \in Name, NEW t \in Name, Len(s) = Len(t), \A i \in 1 .. Len(s) : s[i] = t[i]
  PROVE  s = t
  BY SeqEqual DEF Name

\* The first segments of a name.
LEMMA FirstSegments ==
  ASSUME NEW q \in Name, NEW n \in 0 .. Len(q)
  PROVE  /\ SubSeq(q, 1, n) \in Name /\ Len(SubSeq(q, 1, n)) = n
         /\ \A i \in 1 .. n : SubSeq(q, 1, n)[i] = q[i]
<1>1. Len(q) \in Nat /\ \A i \in 1 .. n : q[i] \in Segment
  BY NameType
<1>2. 1 \in Int /\ n \in Int
  BY <1>1
<1>3. /\ SubSeq(q, 1, n) \in Seq(Segment)
      /\ Len(SubSeq(q, 1, n)) = IF 1 <= n THEN n - 1 + 1 ELSE 0
      /\ \A i \in 1 .. n - 1 + 1 : SubSeq(q, 1, n)[i] = q[1 + i - 1]
  BY <1>1, <1>2, SubSeqProperties
<1>4. n - 1 + 1 = n /\ \A i \in 1 .. n : 1 + i - 1 = i
  BY <1>1
<1>5. QED BY <1>1, <1>3, <1>4 DEF Name

\* One name is a prefix of another one when it is its first segments.
LEMMA PrefixSegments ==
  ASSUME NEW s \in Name, NEW t \in Name
  PROVE  IsPrefix(s, t) <=> Len(s) <= Len(t) /\ \A i \in 1 .. Len(s) : s[i] = t[i]
<1>1. Len(s) \in Nat /\ Len(t) \in Nat
  BY NameType
<1>2. SubSeq(s, 1, Len(s)) = s
  BY SubSeqFull DEF Name
<1>3. ASSUME Len(s) <= Len(t)
      PROVE  /\ SubSeq(t, 1, Len(s)) \in Name /\ Len(SubSeq(t, 1, Len(s))) = Len(s)
             /\ \A i \in 1 .. Len(s) : SubSeq(t, 1, Len(s))[i] = t[i]
  <2>1. Len(s) \in 0 .. Len(t)
    BY <1>1, <1>3
  <2>2. QED BY <2>1, FirstSegments
<1>4. ASSUME Len(s) <= Len(t), \A i \in 1 .. Len(s) : s[i] = t[i]
      PROVE  s = SubSeq(t, 1, Len(s))
  <2> DEFINE u == SubSeq(t, 1, Len(s))
  <2>1. u \in Name /\ Len(u) = Len(s) /\ \A i \in 1 .. Len(s) : u[i] = t[i]
    BY <1>3, <1>4
  <2> HIDE DEF u
  <2>2. \A i \in 1 .. Len(s) : s[i] = u[i]
    BY <1>4, <2>1
  <2>3. s = u
    BY <2>1, <2>2, SameSegments
  <2>4. QED BY <2>3 DEF u
<1>5. QED BY <1>2, <1>3, <1>4 DEF IsPrefix

\* A name and one segment more.
LEMMA AppendName ==
  ASSUME NEW q \in Name, NEW x \in Segment
  PROVE  /\ Append(q, x) \in Name /\ Append(q, x) # None
         /\ Front(Append(q, x)) = q /\ Last(Append(q, x)) = x
         /\ Len(Append(q, x)) = Len(q) + 1
         /\ \A i \in 1 .. Len(q) : Append(q, x)[i] = q[i]
<1> DEFINE a == Append(q, x)
<1> USE DEF Name
<1>a. a \in Seq(Segment)
  BY AppendProperties
<1>b. a # <<>>
  BY AppendProperties
<1>c. Len(a) = Len(q) + 1 /\ \A i \in 1 .. Len(q) : a[i] = q[i]
  OBVIOUS
<1>d. a[Len(q) + 1] = x
  OBVIOUS
<1>1. /\ a \in Seq(Segment) /\ a # <<>> /\ Len(a) = Len(q) + 1
      /\ \A i \in 1 .. Len(q) : a[i] = q[i]
      /\ a[Len(q) + 1] = x
  BY <1>a, <1>b, <1>c, <1>d
<1> HIDE DEF Name
<1>2. Len(q) \in Nat
  BY NameType
<1>3. a \in Name
  BY <1>1 DEF Name
<1> HIDE DEF a
<1>4. Len(q) \in 0 .. Len(a) /\ Len(a) - 1 = Len(q)
  BY <1>1, <1>2
<1>5. SubSeq(a, 1, Len(q)) = q
  <2> DEFINE u == SubSeq(a, 1, Len(q))
  <2>1. u \in Name /\ Len(u) = Len(q) /\ \A i \in 1 .. Len(q) : u[i] = a[i]
    BY <1>3, <1>4, FirstSegments
  <2> HIDE DEF u
  <2>2. \A i \in 1 .. Len(u) : u[i] = q[i]
    BY <1>1, <2>1
  <2>3. u = q
    BY <2>1, <2>2, SameSegments
  <2>4. QED BY <2>3 DEF u
<1>6. Front(a) = q /\ Last(a) = x
  BY <1>1, <1>4, <1>5 DEF Front, Last
<1>7. QED BY <1>1, <1>3, <1>6 DEF a, None

\* A name that is not empty is its front and its last segment.
LEMMA FrontName ==
  ASSUME NEW q \in Name, q # None
  PROVE  /\ Front(q) \in Name /\ Last(q) \in Segment /\ q = Append(Front(q), Last(q))
         /\ Len(Front(q)) = Len(q) - 1 /\ Len(q) \in Nat \ {0}
<1>1. PICK s \in Seq(Segment), x \in Segment : q = Append(s, x)
  BY SequenceEmptyOrAppend DEF Name, None
<1>2. s \in Name
  BY <1>1 DEF Name
<1>3. Front(q) = s /\ Last(q) = x /\ Len(q) = Len(s) + 1
  BY <1>1, <1>2, AppendName
<1>4. Len(s) \in Nat
  BY <1>2, NameType
<1>5. q = Append(Front(q), Last(q))
  BY <1>1, <1>3
<1>6. Len(Front(q)) = Len(q) - 1 /\ Len(q) \in Nat \ {0}
  BY <1>3, <1>4
<1>7. QED BY <1>1, <1>2, <1>3, <1>5, <1>6

\* A name begins with itself.
LEMMA PrefixReflexive ==
  ASSUME NEW q \in Name
  PROVE  IsPrefix(q, q)
  BY NameType, PrefixSegments

\* What a name begins with begins with what that begins with.
LEMMA PrefixTransitive ==
  ASSUME NEW r \in Name, NEW s \in Name, NEW t \in Name, IsPrefix(r, s), IsPrefix(s, t)
  PROVE  IsPrefix(r, t)
<1>1. Len(r) \in Nat /\ Len(s) \in Nat /\ Len(t) \in Nat
  BY NameType
<1>2. /\ Len(r) <= Len(s) /\ \A i \in 1 .. Len(r) : r[i] = s[i]
      /\ Len(s) <= Len(t) /\ \A i \in 1 .. Len(s) : s[i] = t[i]
  BY PrefixSegments
<1>3. Len(r) <= Len(t) /\ \A i \in 1 .. Len(r) : r[i] = t[i]
  BY <1>1, <1>2
<1>4. QED BY <1>3, PrefixSegments

\* A strict prefix is shorter, and the other way round.
LEMMA StrictlyBelow ==
  ASSUME NEW r \in Name, NEW q \in Name, IsPrefix(r, q)
  PROVE  IsStrictPrefix(r, q) <=> Len(r) < Len(q)
<1>1. Len(r) \in Nat /\ Len(q) \in Nat /\ Len(r) <= Len(q) /\ \A i \in 1 .. Len(r) : r[i] = q[i]
  BY NameType, PrefixSegments
<1>2. ASSUME Len(r) = Len(q) PROVE r = q
  BY <1>1, <1>2, SameSegments
<1>3. QED BY <1>1, <1>2 DEF IsStrictPrefix

\* What is appended to a name below r is below r.
LEMMA AppendBelow ==
  ASSUME NEW r \in Name, NEW q \in Name, NEW x \in Segment, IsPrefix(r, q)
  PROVE  IsStrictPrefix(r, Append(q, x))
<1> DEFINE a == Append(q, x)
<1>1. a \in Name /\ Len(a) = Len(q) + 1 /\ \A i \in 1 .. Len(q) : a[i] = q[i]
  BY AppendName
<1> HIDE DEF a
<1>2. Len(r) \in Nat /\ Len(q) \in Nat /\ Len(r) <= Len(q) /\ \A i \in 1 .. Len(r) : r[i] = q[i]
  BY NameType, PrefixSegments
<1>3. Len(r) <= Len(a) /\ Len(r) < Len(a) /\ \A i \in 1 .. Len(r) : r[i] = a[i]
  BY <1>1, <1>2
<1>4. IsPrefix(r, a)
  BY <1>1, <1>3, PrefixSegments
<1>5. IsStrictPrefix(r, a)
  BY <1>1, <1>3, <1>4, StrictlyBelow
<1>6. QED BY <1>5 DEF a

\* The front of a name strictly below r is r or strictly below it.
LEMMA FrontBelow ==
  ASSUME NEW r \in Name, NEW q \in Name, IsStrictPrefix(r, q)
  PROVE  q # None /\ Front(q) \in Name /\ IsPrefix(r, Front(q)) /\ Len(r) < Len(q)
<1>1. IsPrefix(r, q) /\ Len(r) \in Nat /\ Len(q) \in Nat /\ Len(r) < Len(q)
  BY NameType, StrictlyBelow DEF IsStrictPrefix
<1>2. q # None
  BY <1>1, NameType
<1> DEFINE f == Front(q)
<1>3. f \in Name /\ Last(q) \in Segment /\ q = Append(f, Last(q)) /\ Len(f) = Len(q) - 1
  BY <1>2, FrontName
<1>4. \A i \in 1 .. Len(f) : q[i] = f[i]
  <2> DEFINE a == Append(f, Last(q))
  <2>1. \A i \in 1 .. Len(f) : a[i] = f[i]
    <3> HIDE DEF f
    <3> QED BY <1>3, AppendName
  <2>2. q = a
    BY <1>3
  <2> HIDE DEF a, f
  <2> QED BY <2>1, <2>2
<1> HIDE DEF f
<1>5. Len(r) <= Len(f) /\ \A i \in 1 .. Len(r) : r[i] = f[i]
  BY <1>1, <1>3, <1>4, PrefixSegments
<1>6. IsPrefix(r, f)
  BY <1>3, <1>5, PrefixSegments
<1>7. QED BY <1>1, <1>2, <1>3, <1>6 DEF f

\* The segments of a name that is moved from below r to below n.
LEMMA LiftedSegments ==
  ASSUME NEW r \in Name, NEW q \in Name, NEW n \in Name, IsPrefix(r, q)
  PROVE  /\ Lifted(q, r, n) \in Name /\ Len(Lifted(q, r, n)) = Len(n) + (Len(q) - Len(r))
         /\ \A i \in 1 .. Len(n) : Lifted(q, r, n)[i] = n[i]
         /\ \A i \in 1 .. Len(q) - Len(r) : Lifted(q, r, n)[Len(n) + i] = q[Len(r) + i]
<1> DEFINE rest == SubSeq(q, Len(r) + 1, Len(q))
<1>1. Len(r) \in Nat /\ Len(q) \in Nat /\ Len(n) \in Nat /\ Len(r) <= Len(q)
  BY NameType, PrefixSegments
<1>2. rest \in Seq(Segment) /\ Len(rest) = Len(q) - Len(r) /\ \A i \in 1 .. Len(q) - Len(r) : rest[i] = q[Len(r) + i]
  <2>1. \A i \in Len(r) + 1 .. Len(q) : q[i] \in Segment
    BY <1>1, NameType
  <2>2. Len(r) + 1 \in Int /\ Len(q) \in Int
    BY <1>1
  <2>3. /\ rest \in Seq(Segment)
        /\ Len(rest) = IF Len(r) + 1 <= Len(q) THEN Len(q) - (Len(r) + 1) + 1 ELSE 0
        /\ \A i \in 1 .. Len(q) - (Len(r) + 1) + 1 : rest[i] = q[Len(r) + 1 + i - 1]
    BY <2>1, <2>2, SubSeqProperties
  <2> HIDE DEF rest
  <2>4. Len(rest) = Len(q) - Len(r)
    BY <1>1, <2>3
  <2>5. ASSUME NEW i \in 1 .. Len(q) - Len(r) PROVE rest[i] = q[Len(r) + i]
    <3>1. i \in 1 .. Len(q) - (Len(r) + 1) + 1 /\ Len(r) + 1 + i - 1 = Len(r) + i
      BY <1>1
    <3>2. rest[i] = q[Len(r) + 1 + i - 1]
      BY <2>3, <3>1
    <3>3. QED BY <3>1, <3>2
  <2>6. QED BY <2>3, <2>4, <2>5
<1> HIDE DEF rest
<1>3. n \in Seq(Segment)
  BY DEF Name
<1>4. /\ n \o rest \in Seq(Segment) /\ Len(n \o rest) = Len(n) + Len(rest)
      /\ \A i \in 1 .. Len(n) + Len(rest) : (n \o rest)[i] = IF i <= Len(n) THEN n[i] ELSE rest[i - Len(n)]
  BY <1>2, <1>3, ConcatProperties
<1> DEFINE w == n \o rest
<1>5. w = Lifted(q, r, n)
  BY DEF Lifted, rest
<1> HIDE DEF w
<1>6. w \in Name /\ Len(w) = Len(n) + (Len(q) - Len(r))
  BY <1>2, <1>4 DEF w, Name
<1>7. \A i \in 1 .. Len(n) : w[i] = n[i]
  <2> TAKE i \in 1 .. Len(n)
  <2>1. i \in 1 .. Len(n) + Len(rest) /\ i <= Len(n)
    BY <1>1, <1>2
  <2>2. QED BY <1>4, <2>1 DEF w
<1>8. \A i \in 1 .. Len(q) - Len(r) : w[Len(n) + i] = q[Len(r) + i]
  <2> TAKE i \in 1 .. Len(q) - Len(r)
  <2>1. Len(n) + i \in 1 .. Len(n) + Len(rest) /\ ~(Len(n) + i <= Len(n)) /\ Len(n) + i - Len(n) = i
    BY <1>1, <1>2
  <2>2. w[Len(n) + i] = rest[Len(n) + i - Len(n)]
    BY <1>4, <2>1 DEF w
  <2>3. QED BY <1>2, <2>1, <2>2
<1>9. QED BY <1>5, <1>6, <1>7, <1>8

\* A name strictly below r that is moved to below n is strictly below n and ends as before.
LEMMA LiftedBelow ==
  ASSUME NEW r \in Name, NEW q \in Name, NEW n \in Name, IsStrictPrefix(r, q)
  PROVE  /\ Lifted(q, r, n) \in Name /\ IsStrictPrefix(n, Lifted(q, r, n)) /\ Lifted(q, r, n) # None
         /\ Last(Lifted(q, r, n)) = Last(q) /\ Front(Lifted(q, r, n)) = Lifted(Front(q), r, n)
<1> DEFINE w == Lifted(q, r, n)
           f == Lifted(Front(q), r, n)
<1>1. /\ Len(r) \in Nat /\ Len(q) \in Nat /\ Len(n) \in Nat /\ Len(r) < Len(q)
      /\ IsPrefix(r, q) /\ q # None /\ Front(q) \in Name /\ IsPrefix(r, Front(q))
  BY NameType, FrontBelow DEF IsStrictPrefix
<1>2. Last(q) \in Segment /\ Len(Front(q)) = Len(q) - 1 /\ \A i \in 1 .. Len(q) - 1 : Front(q)[i] = q[i]
  <2>1. Last(q) \in Segment /\ Len(Front(q)) = Len(q) - 1 /\ q = Append(Front(q), Last(q))
    BY <1>1, FrontName
  <2>2. \A i \in 1 .. Len(Front(q)) : Append(Front(q), Last(q))[i] = Front(q)[i]
    BY <1>1, <2>1, AppendName
  <2>3. QED BY <2>1, <2>2
<1>3. /\ w \in Name /\ Len(w) = Len(n) + (Len(q) - Len(r))
      /\ \A i \in 1 .. Len(n) : w[i] = n[i]
      /\ \A i \in 1 .. Len(q) - Len(r) : w[Len(n) + i] = q[Len(r) + i]
  BY <1>1, LiftedSegments
<1>4. /\ f \in Name /\ Len(f) = Len(n) + (Len(Front(q)) - Len(r))
      /\ \A i \in 1 .. Len(n) : f[i] = n[i]
      /\ \A i \in 1 .. Len(Front(q)) - Len(r) : f[Len(n) + i] = Front(q)[Len(r) + i]
  BY <1>1, LiftedSegments
<1> HIDE DEF w, f
<1>5. IsPrefix(n, w)
  <2>1. Len(n) <= Len(w) /\ \A i \in 1 .. Len(n) : n[i] = w[i]
    BY <1>1, <1>3
  <2>2. QED BY <1>3, <2>1, PrefixSegments
<1>6. IsStrictPrefix(n, w) /\ w # None
  <2>1. Len(n) < Len(w)
    BY <1>1, <1>3
  <2>2. QED BY <1>1, <1>3, <1>5, <2>1, StrictlyBelow, NameType
<1>7. Last(w) = Last(q)
  <2>1. Len(q) - Len(r) \in 1 .. Len(q) - Len(r)
    BY <1>1
  <2>2. w[Len(n) + (Len(q) - Len(r))] = q[Len(r) + (Len(q) - Len(r))]
    BY <1>3, <2>1
  <2>3. Len(r) + (Len(q) - Len(r)) = Len(q)
    BY <1>1
  <2>4. QED BY <1>3, <2>2, <2>3 DEF Last
<1>8. Front(w) = f
  <2>1. Front(w) \in Name /\ Len(Front(w)) = Len(w) - 1 /\ \A i \in 1 .. Len(w) - 1 : Front(w)[i] = w[i]
    <3>1. Front(w) \in Name /\ Last(w) \in Segment /\ Len(Front(w)) = Len(w) - 1 /\ w = Append(Front(w), Last(w))
      BY <1>3, <1>6, FrontName
    <3>2. \A i \in 1 .. Len(Front(w)) : Append(Front(w), Last(w))[i] = Front(w)[i]
      BY <3>1, AppendName
    <3>3. QED BY <3>1, <3>2
  <2>2. Len(Front(w)) = Len(f)
    BY <1>1, <1>2, <1>3, <1>4, <2>1
  <2>3. ASSUME NEW i \in 1 .. Len(f) PROVE Front(w)[i] = f[i]
    <3>1. Front(w)[i] = w[i]
      BY <2>1, <2>2, <1>1, <1>3, <1>4
    <3>2. CASE i \in 1 .. Len(n)
      BY <1>3, <1>4, <3>1, <3>2
    <3>3. CASE ~(i \in 1 .. Len(n))
      <4> DEFINE j == i - Len(n)
      <4>1. j \in 1 .. Len(q) - Len(r) /\ j \in 1 .. Len(Front(q)) - Len(r) /\ i = Len(n) + j /\ Len(r) + j \in 1 .. Len(q) - 1
        BY <1>1, <1>2, <1>3, <1>4, <3>3
      <4> HIDE DEF j
      <4>2. w[i] = q[Len(r) + j] /\ f[i] = Front(q)[Len(r) + j]
        BY <1>3, <1>4, <4>1
      <4>3. QED BY <1>2, <3>1, <4>1, <4>2
    <3>4. QED BY <3>2, <3>3
  <2>4. QED BY <1>4, <2>1, <2>2, <2>3, SameSegments
<1>9. QED BY <1>3, <1>6, <1>7, <1>8 DEF w, f

\* Two names below r are not moved to the same name.
LEMMA LiftedInjective ==
  ASSUME NEW r \in Name, NEW p \in Name, NEW q \in Name, NEW n \in Name, IsPrefix(r, p), IsPrefix(r, q),
         Lifted(p, r, n) = Lifted(q, r, n)
  PROVE  p = q
<1> DEFINE v == Lifted(p, r, n)
           w == Lifted(q, r, n)
<1>1. /\ Len(r) \in Nat /\ Len(p) \in Nat /\ Len(q) \in Nat /\ Len(n) \in Nat /\ Len(r) <= Len(p) /\ Len(r) <= Len(q)
      /\ \A i \in 1 .. Len(r) : p[i] = r[i] /\ q[i] = r[i]
  BY NameType, PrefixSegments
<1>2. Len(v) = Len(n) + (Len(p) - Len(r)) /\ \A i \in 1 .. Len(p) - Len(r) : v[Len(n) + i] = p[Len(r) + i]
  BY LiftedSegments
<1>3. Len(w) = Len(n) + (Len(q) - Len(r)) /\ \A i \in 1 .. Len(q) - Len(r) : w[Len(n) + i] = q[Len(r) + i]
  BY LiftedSegments
<1> HIDE DEF v, w
<1>4. v = w
  BY DEF v, w
<1>5. Len(p) = Len(q)
  BY <1>1, <1>2, <1>3, <1>4
<1>6. ASSUME NEW i \in 1 .. Len(p) PROVE p[i] = q[i]
  <2>1. CASE i \in 1 .. Len(r)
    BY <1>1, <2>1
  <2>2. CASE ~(i \in 1 .. Len(r))
    <3> DEFINE j == i - Len(r)
    <3>1. j \in 1 .. Len(p) - Len(r) /\ j \in 1 .. Len(q) - Len(r) /\ i = Len(r) + j
      BY <1>1, <1>5, <2>2
    <3> HIDE DEF j
    <3>2. QED BY <1>2, <1>3, <1>4, <3>1
  <2>3. QED BY <2>1, <2>2
<1>7. QED BY <1>5, <1>6, SameSegments

-----------------------------------------------------------------------------
(* Sorts and elements *)

\* A segment tells the sort of what is named so.
LEMMA SortDecides ==
  ASSUME Naming(Nat), NEW x, NEW s \in Sorts \cup {"user"}, NEW t \in Sorts \cup {"user"},
         NamedAs(Nat, x, s), NamedAs(Nat, x, t)
  PROVE  s = t
<1>1. "user" \notin Sorts
  BY DEF Sorts, Hooks
<1>2. \A sort, other \in Sorts : sort # other => Segments(Nat, sort) \cap Segments(Nat, other) = {}
  BY DEF Naming
<1>3. CASE s # "user" /\ t # "user"
  BY <1>1, <1>2, <1>3 DEF NamedAs
<1>4. CASE s = "user" /\ t # "user"
  BY <1>1, <1>4 DEF NamedAs
<1>5. CASE s # "user" /\ t = "user"
  BY <1>1, <1>5 DEF NamedAs
<1>6. QED BY <1>3, <1>4, <1>5

\* The names that the user gives are of no other sort.
LEMMA UserSegments ==
  ASSUME Naming(Nat), NEW x \in VertexNames \cup OperationNames \cup AttributeNames
  PROVE  x \in Segment /\ NamedAs(Nat, x, "user")
  BY DEF Naming

\* A segment of another sort is a string.
LEMMA SegmentType ==
  ASSUME Naming(Nat), NEW s \in Sorts, NEW x, NamedAs(Nat, x, s)
  PROVE  x \in Segment
<1>1. s # "user"
  BY DEF Sorts, Hooks
<1>2. QED BY <1>1 DEF Naming, NamedAs

\* The segments that the builders make up.
LEMMA MadeUp ==
  /\ NamedAs(Nat, ".initial", "initial")
  /\ NamedAs(Nat, "transition", "transition")
  /\ \A i \in Nat : NamedAs(Nat, Numbered("transition", i), "transition")
  /\ \A x \in {"guard", "after", "at", "every"} : NamedAs(Nat, x, "constraint")
  /\ \A kind \in Hooks, i \in Nat : NamedAs(Nat, Numbered(kind, i), kind)
  /\ \A role \in Roles, i \in Nat \ {0} : NamedAs(Nat, Nth(role, i), "behavior")
  /\ \A role \in Roles, name \in OperationNames : NamedAs(Nat, Calling(role, name), "behavior")
<1>1. Segments(Nat, "initial") = {".initial"} /\ Segments(Nat, "constraint") = {"guard", "after", "at", "every"}
  BY DEF Segments, Hooks
<1>2. Segments(Nat, "transition") = {"transition"} \cup {Numbered("transition", i) : i \in Nat}
  BY DEF Segments, Hooks
<1>3. Segments(Nat, "behavior") = {Nth(role, i) : role \in Roles, i \in Nat \ {0}}
                       \cup {Calling(role, name) : role \in Roles, name \in OperationNames}
  BY DEF Segments, Hooks
<1>4. ASSUME NEW kind \in Hooks PROVE Segments(Nat, kind) = {Numbered(kind, i) : i \in Nat} /\ kind # "user"
  BY DEF Segments, Hooks
<1>5. QED BY <1>1, <1>2, <1>3, <1>4 DEF NamedAs

\* What an observation adds is named after a transition or a behaviour.
LEMMA MadeUpObserving ==
  ASSUME NEW i \in Nat \ {0}, NEW occurrence \in {"behavior", "event"}, NEW x,
         NamedAs(Nat, x, "transition") \/ NamedAs(Nat, x, "behavior")
  PROVE  NamedAs(Nat, Observing(i, occurrence, x), "generated")
<1> DEFINE T == {"transition"} \cup {Numbered("transition", k) : k \in Nat}
           B == {Nth(role, k) : role \in Roles, k \in Nat \ {0}}
                       \cup {Calling(role, name) : role \in Roles, name \in OperationNames}
<1>1. Segments(Nat, "transition") = T /\ Segments(Nat, "behavior") = B
  BY DEF Segments, Hooks
<1>2. Segments(Nat, "generated") = {Observing(k, o, s) : k \in Nat \ {0}, o \in {"behavior", "event"}, s \in T \cup B}
  BY DEF Segments, Hooks
<1> HIDE DEF T, B
<1>3. x \in T \cup B
  BY <1>1 DEF NamedAs
<1>4. Observing(i, occurrence, x) \in Segments(Nat, "generated")
  BY <1>2, <1>3
<1>5. QED BY <1>4 DEF NamedAs

\* The sort of an element tells its variant.
LEMMA SortIs ==
  ASSUME NEW e, e.is \in Variants
  PROVE  /\ Sort(e) \in Sorts \cup {"user"}
         /\ e.is = "behavior" <=> Sort(e) \in {"behavior", "generated"}
         /\ e.is = "transition" <=> Sort(e) = "transition"
         /\ e.is = "constraint" <=> Sort(e) = "constraint"
         /\ \A kind \in Hooks : e.is = kind <=> Sort(e) = kind
         /\ Sort(e) = "initial" <=> e.is = "vertex" /\ e.kind = "initial"
         /\ Sort(e) = "generated" <=> e.is = "behavior" /\ e.observes # None
  BY DEF Sort, Sorts, Variants, Hooks

\* What a segment of one of the first three sorts names.
LEMMA IsOfSort ==
  ASSUME NEW model, NEW q, \A p \in DOMAIN model.members : model.members[p].is \in Variants
  PROVE  /\ Is(model, q, "behavior") <=> HasSort(model, q, "behavior") \/ HasSort(model, q, "generated")
         /\ IsTransition(model, q) <=> HasSort(model, q, "transition")
         /\ Is(model, q, "constraint") <=> HasSort(model, q, "constraint")
<1>1. CASE q \in DOMAIN model.members
  BY <1>1, SortIs DEF Is, IsTransition, HasSort
<1>2. CASE q \notin DOMAIN model.members
  BY <1>2 DEF Is, IsTransition, HasSort
<1>3. QED BY <1>1, <1>2

\* The fields of the variants.
LEMMA FieldsOf ==
  /\ Fields("state") = {"is", "kind", "transitions", "initial", "entry", "exit", "activities", "deferred"}
  /\ Fields("vertex") = {"is", "kind", "transitions"}
  /\ Fields("transition") = {"is", "kind", "source", "target", "guard", "effect", "events"}
  /\ Fields("behavior") = {"is", "role", "function", "operation", "observes", "occurrence"}
  /\ Fields("constraint") = {"is", "operation", "timed"}
  /\ Fields("operation") = {"is", "kind"} /\ Fields("attribute") = {"is"}
  /\ Fields("observation") = {"is", "observer", "targets"}
  /\ Fields("validator") = {"is", "does"} /\ Fields("finalizer") = {"is", "does"}
<1>1. Fields("state") = {"is", "kind", "transitions", "initial", "entry", "exit", "activities", "deferred"}
  BY DEF Fields, NewState
<1>2. Fields("vertex") = {"is", "kind", "transitions"}
  BY DEF Fields, NewVertex
<1>3. Fields("transition") = {"is", "kind", "source", "target", "guard", "effect", "events"}
  BY DEF Fields, NewTransition
<1>4. Fields("behavior") = {"is", "role", "function", "operation", "observes", "occurrence"}
  BY DEF Fields, NewBehavior
<1>5. Fields("constraint") = {"is", "operation", "timed"}
  BY DEF Fields, NewConstraint
<1>6. Fields("operation") = {"is", "kind"} /\ Fields("attribute") = {"is"}
  BY DEF Fields, NewOperation, NewAttribute
<1>7. Fields("observation") = {"is", "observer", "targets"}
  BY DEF Fields, NewObservation
<1>8. Fields("validator") = {"is", "does"} /\ Fields("finalizer") = {"is", "does"}
  BY DEF Fields, NewHook
<1>9. QED BY <1>1, <1>2, <1>3, <1>4, <1>5, <1>6, <1>7, <1>8

\* A field that holds no name may hold anything.
LEMMA PlainSuits ==
  ASSUME NEW model, NEW q, NEW value,
         NEW field \in {"is", "kind", "role", "function", "occurrence", "timed", "observer", "does"}
  PROVE  Suits(model, q, field, value)
  BY DEF Suits, References, ReferenceLists, BehaviorLists

\* Every list may be empty and every reference may be None.
LEMMA EmptySuits ==
  ASSUME NEW model, NEW q, NEW field, field # "targets"
  PROVE  Suits(model, q, field, <<>>)
<1>1. <<>> \in Name /\ <<>> \in Seq(Name) /\ ToSet(<<>>) = {}
  BY DEF Name, ToSet
<1>2. QED BY <1>1 DEF Suits, None

\* A reference that need not resolve may be any name, and a list of events any names.
LEMMA NameSuits ==
  ASSUME NEW model, NEW q, NEW value \in Name, NEW field \in {"source", "target", "operation", "observes"}
  PROVE  Suits(model, q, field, value)
  BY DEF Suits, References, ReferenceLists, BehaviorLists

\* Triggers and deferrals are names, and nothing else is asked of them.
LEMMA EventsSuit ==
  ASSUME NEW model, NEW q, NEW value \in Seq(Name), NEW field \in {"events", "deferred"}
  PROVE  Suits(model, q, field, value)
  BY DEF Suits, References, ReferenceLists, BehaviorLists

\* The targets of an observation are names, whether or not anything has them.
LEMMA TargetsSuit ==
  ASSUME NEW model, NEW q, NEW value, \A p \in value : p \in Name
  PROVE  Suits(model, q, "targets", value)
  BY DEF Suits, References, ReferenceLists, BehaviorLists

\* A new state lists nothing.
LEMMA NewStateFits ==
  ASSUME NEW model, NEW q, NEW kind \in States
  PROVE  LET e == NewState(kind)
         IN  /\ IsElement(e) /\ e.is = "state" /\ e.kind = kind /\ Sort(e) = "user"
             /\ \A field \in DOMAIN e : Suits(model, q, field, e[field])
<1> DEFINE e == NewState(kind)
<1>1. /\ DOMAIN e = Fields("state") /\ e.is = "state" /\ e.kind = kind
      /\ e = [field \in DOMAIN e |-> e[field]]
  BY FieldsOf DEF NewState
<1>2. \A field \in DOMAIN e : field \in {"is", "kind"} \/ (e[field] = <<>> /\ field # "targets")
  BY DEF NewState, None
<1> HIDE DEF e
<1>3. IsElement(e) /\ Sort(e) = "user"
  BY <1>1 DEF IsElement, Variants, Sort, Sorts, Hooks
<1>4. \A field \in DOMAIN e : Suits(model, q, field, e[field])
  BY <1>2, PlainSuits, EmptySuits
<1>5. QED BY <1>1, <1>3, <1>4 DEF e

\* A new pseudostate lists nothing; only an initial one is an initial.
LEMMA NewVertexFits ==
  ASSUME NEW model, NEW q, NEW kind
  PROVE  LET e == NewVertex(kind)
         IN  /\ IsElement(e) /\ e.is = "vertex" /\ e.kind = kind
             /\ Sort(e) = IF kind = "initial" THEN "initial" ELSE "user"
             /\ \A field \in DOMAIN e : Suits(model, q, field, e[field])
<1> DEFINE e == NewVertex(kind)
<1>1. /\ DOMAIN e = Fields("vertex") /\ e.is = "vertex" /\ e.kind = kind
      /\ e = [field \in DOMAIN e |-> e[field]]
  BY FieldsOf DEF NewVertex
<1>2. \A field \in DOMAIN e : field \in {"is", "kind"} \/ (e[field] = <<>> /\ field # "targets")
  BY DEF NewVertex
<1> HIDE DEF e
<1>3. IsElement(e) /\ Sort(e) = IF kind = "initial" THEN "initial" ELSE "user"
  BY <1>1 DEF IsElement, Variants, Sort, Sorts, Hooks
<1>4. \A field \in DOMAIN e : Suits(model, q, field, e[field])
  BY <1>2, PlainSuits, EmptySuits
<1>5. QED BY <1>1, <1>3, <1>4 DEF e

\* A new transition has neither guard nor effect.
LEMMA NewTransitionFits ==
  ASSUME NEW model, NEW q, NEW source \in Name, NEW events \in Seq(Name)
  PROVE  LET e == NewTransition(source, events)
         IN  /\ IsElement(e) /\ e.is = "transition" /\ Sort(e) = "transition"
             /\ \A field \in DOMAIN e : Suits(model, q, field, e[field])
<1> DEFINE e == NewTransition(source, events)
<1>1. /\ DOMAIN e = Fields("transition") /\ e.is = "transition"
      /\ e = [field \in DOMAIN e |-> e[field]]
  BY FieldsOf DEF NewTransition
<1>2. \A field \in DOMAIN e :
        \/ field \in {"is", "kind"} \/ (e[field] = <<>> /\ field # "targets")
        \/ (field = "source" /\ e[field] = source) \/ (field = "events" /\ e[field] = events)
  <2>1. /\ e["source"] = source /\ e["events"] = events
        /\ e["target"] = <<>> /\ e["guard"] = <<>> /\ e["effect"] = <<>>
    BY DEF NewTransition, None
  <2>2. DOMAIN e = {"is", "kind", "source", "target", "guard", "effect", "events"}
    BY <1>1, FieldsOf
  <2> HIDE DEF e
  <2>3. QED BY <2>1, <2>2
<1> HIDE DEF e
<1>3. IsElement(e) /\ Sort(e) = "transition"
  BY <1>1 DEF IsElement, Variants, Sort, Sorts, Hooks
<1>4. \A field \in DOMAIN e : Suits(model, q, field, e[field])
  BY <1>2, PlainSuits, EmptySuits, NameSuits, EventsSuit
<1>5. QED BY <1>1, <1>3, <1>4 DEF e

\* A new behaviour refers to no operation and observes nothing.
LEMMA NewBehaviorFits ==
  ASSUME NEW model, NEW q, NEW role, NEW function
  PROVE  LET e == NewBehavior(role, function)
         IN  /\ IsElement(e) /\ e.is = "behavior" /\ Sort(e) = "behavior"
             /\ \A field \in DOMAIN e : Suits(model, q, field, e[field])
<1> DEFINE e == NewBehavior(role, function)
<1>1. /\ DOMAIN e = Fields("behavior") /\ e.is = "behavior" /\ e.observes = None
      /\ e = [field \in DOMAIN e |-> e[field]]
  BY FieldsOf DEF NewBehavior
<1>2. \A field \in DOMAIN e :
        field \in {"is", "role", "function", "occurrence"} \/ (e[field] = <<>> /\ field # "targets")
  BY DEF NewBehavior, None
<1> HIDE DEF e
<1>3. IsElement(e) /\ Sort(e) = "behavior"
  BY <1>1 DEF IsElement, Variants, Sort, Sorts, Hooks
<1>4. \A field \in DOMAIN e : Suits(model, q, field, e[field])
  BY <1>2, PlainSuits, EmptySuits
<1>5. QED BY <1>1, <1>3, <1>4 DEF e

\* The call of an operation.
LEMMA NewCallFits ==
  ASSUME NEW model, NEW q, NEW operation \in Name
  PROVE  LET e == [NewBehavior("none", "none") EXCEPT !.operation = operation]
         IN  /\ IsElement(e) /\ e.is = "behavior" /\ Sort(e) = "behavior"
             /\ \A field \in DOMAIN e : Suits(model, q, field, e[field])
<1> DEFINE e == [NewBehavior("none", "none") EXCEPT !.operation = operation]
<1>1. /\ DOMAIN e = Fields("behavior") /\ e.is = "behavior" /\ e.observes = None
      /\ e = [field \in DOMAIN e |-> e[field]]
  BY FieldsOf DEF NewBehavior
<1>2. \A field \in DOMAIN e :
        \/ field \in {"is", "role", "function", "occurrence"} \/ (e[field] = <<>> /\ field # "targets")
        \/ (field = "operation" /\ e[field] = operation)
  BY DEF NewBehavior, None
<1> HIDE DEF e
<1>3. IsElement(e) /\ Sort(e) = "behavior"
  BY <1>1 DEF IsElement, Variants, Sort, Sorts, Hooks
<1>4. \A field \in DOMAIN e : Suits(model, q, field, e[field])
  BY <1>2, PlainSuits, EmptySuits, NameSuits
<1>5. QED BY <1>1, <1>3, <1>4 DEF e

\* A new constraint is one, whatever operation it calls.
LEMMA NewConstraintFits ==
  ASSUME NEW model, NEW q, NEW operation \in Name, NEW timed
  PROVE  LET e == NewConstraint(operation, timed)
         IN  /\ IsElement(e) /\ e.is = "constraint" /\ Sort(e) = "constraint"
             /\ \A field \in DOMAIN e : Suits(model, q, field, e[field])
<1> DEFINE e == NewConstraint(operation, timed)
<1>1. /\ DOMAIN e = Fields("constraint") /\ e.is = "constraint"
      /\ e = [field \in DOMAIN e |-> e[field]]
  BY FieldsOf DEF NewConstraint
<1>2. \A field \in DOMAIN e : field \in {"is", "timed"} \/ (field = "operation" /\ e[field] = operation)
  <2>1. e["operation"] = operation
    BY DEF NewConstraint
  <2>2. DOMAIN e = {"is", "operation", "timed"}
    BY <1>1, FieldsOf
  <2> HIDE DEF e
  <2>3. QED BY <2>1, <2>2
<1> HIDE DEF e
<1>3. IsElement(e) /\ Sort(e) = "constraint"
  BY <1>1 DEF IsElement, Variants, Sort, Sorts, Hooks
<1>4. \A field \in DOMAIN e : Suits(model, q, field, e[field])
  BY <1>2, PlainSuits, NameSuits
<1>5. QED BY <1>1, <1>3, <1>4 DEF e

\* A new operation or attribute refers to nothing, and the user named it.
LEMMA NewDeclarationFits ==
  ASSUME NEW model, NEW q, NEW e, NEW kind, e \in {NewOperation(kind), NewAttribute}
  PROVE  /\ IsElement(e) /\ e.is \in {"operation", "attribute"} /\ Sort(e) = "user"
         /\ \A field \in DOMAIN e : Suits(model, q, field, e[field])
<1>1. /\ DOMAIN e = Fields(e.is) /\ e.is \in {"operation", "attribute"}
      /\ e = [field \in DOMAIN e |-> e[field]] /\ \A field \in DOMAIN e : field \in {"is", "kind"}
  BY FieldsOf DEF NewOperation, NewAttribute
<1>2. IsElement(e) /\ Sort(e) = "user"
  BY <1>1 DEF IsElement, Variants, Sort, Sorts, Hooks
<1>3. QED BY <1>1, <1>2, PlainSuits

\* A new validator or finalizer refers to nothing.
LEMMA NewHookFits ==
  ASSUME NEW model, NEW q, NEW kind \in {"validator", "finalizer"}, NEW does
  PROVE  LET e == NewHook(kind, does)
         IN  /\ IsElement(e) /\ e.is = kind /\ Sort(e) = kind
             /\ \A field \in DOMAIN e : Suits(model, q, field, e[field])
<1> DEFINE e == NewHook(kind, does)
<1>1. /\ DOMAIN e = Fields(kind) /\ e.is = kind
      /\ e = [field \in DOMAIN e |-> e[field]] /\ \A field \in DOMAIN e : field \in {"is", "does"}
  BY FieldsOf DEF NewHook
<1> HIDE DEF e
<1>2. IsElement(e) /\ Sort(e) = kind
  BY <1>1 DEF IsElement, Variants, Sort, Sorts, Hooks
<1>3. QED BY <1>1, <1>2, PlainSuits DEF e

\* A new observation has names for targets.
LEMMA NewObservationFits ==
  ASSUME NEW model, NEW q, NEW observer, NEW targets, \A p \in targets : p \in Name
  PROVE  LET e == NewObservation(observer, targets)
         IN  /\ IsElement(e) /\ e.is = "observation" /\ Sort(e) = "observation"
             /\ \A field \in DOMAIN e : Suits(model, q, field, e[field])
<1> DEFINE e == NewObservation(observer, targets)
<1>1. /\ DOMAIN e = Fields("observation") /\ e.is = "observation"
      /\ e = [field \in DOMAIN e |-> e[field]]
  BY FieldsOf DEF NewObservation
<1>2. \A field \in DOMAIN e : field \in {"is", "observer"} \/ (field = "targets" /\ e[field] = targets)
  <2>1. e["targets"] = targets
    BY DEF NewObservation
  <2>2. DOMAIN e = {"is", "observer", "targets"}
    BY <1>1, FieldsOf
  <2> HIDE DEF e
  <2>3. QED BY <2>1, <2>2
<1> HIDE DEF e
<1>3. IsElement(e) /\ Sort(e) = "observation"
  BY <1>1 DEF IsElement, Variants, Sort, Sorts, Hooks
<1>4. \A field \in DOMAIN e : Suits(model, q, field, e[field])
  BY <1>2, PlainSuits, TargetsSuit
<1>5. QED BY <1>1, <1>3, <1>4 DEF e

-----------------------------------------------------------------------------
(* Well-formed models *)

\* Every member is still there and has the sort it had.
Keeps(model, other) ==
  \A q \in DOMAIN model.members : HasSort(other, q, Sort(model.members[q]))

\* What suits an element still does when members are kept.
LEMMA SuitsKept ==
  ASSUME NEW model, NEW other, Keeps(model, other),
         \A p \in DOMAIN model.members : model.members[p].is \in Variants,
         \A p \in DOMAIN other.members : other.members[p].is \in Variants,
         NEW q, NEW field, NEW value, Suits(model, q, field, value)
  PROVE  Suits(other, q, field, value)
<1>1. ASSUME NEW p, NEW sort, HasSort(model, p, sort) PROVE HasSort(other, p, sort)
  BY <1>1 DEF HasSort, Keeps
<1>2. ASSUME NEW p
      PROVE  /\ Is(model, p, "behavior") => Is(other, p, "behavior")
             /\ IsTransition(model, p) => IsTransition(other, p)
             /\ Is(model, p, "constraint") => Is(other, p, "constraint")
  BY <1>1, IsOfSort
<1>3. QED BY <1>1, <1>2 DEF Suits

\* The parts of a well-formed model.
LEMMA Parts ==
  ASSUME NEW model, WellFormed(Nat, model)
  PROVE  /\ model.root \in Name /\ model.root # None /\ Head(model.root) # Call
         /\ IsFiniteSet(DOMAIN model.members)
         /\ \A q \in DOMAIN model.members :
              /\ q \in Name /\ q # None /\ IsStrictPrefix(model.root, q)
              /\ IsElement(model.members[q]) /\ model.members[q].is \in Variants
              /\ Sort(model.members[q]) \in Sorts \cup {"user"}
              /\ NamedAs(Nat, Last(q), Sort(model.members[q]))
<1>1. model.root \in Name /\ model.root # None /\ Head(model.root) # Call /\ IsFiniteSet(DOMAIN model.members)
  BY DEF WellFormed, IsRoot
<1>2. ASSUME NEW q \in DOMAIN model.members
      PROVE  /\ q \in Name /\ q # None /\ IsStrictPrefix(model.root, q)
             /\ IsElement(model.members[q]) /\ model.members[q].is \in Variants
             /\ Sort(model.members[q]) \in Sorts \cup {"user"}
             /\ NamedAs(Nat, Last(q), Sort(model.members[q]))
  <2>1. IsMember(Nat, model, q, model.members[q])
    BY DEF WellFormed
  <2>2. /\ q \in Name /\ IsStrictPrefix(model.root, q)
        /\ IsElement(model.members[q]) /\ model.members[q].is \in Variants
        /\ NamedAs(Nat, Last(q), Sort(model.members[q]))
    BY <2>1 DEF IsMember, IsElement
  <2>3. q # None
    BY <1>1, <2>2, FrontBelow
  <2>4. QED BY <2>2, <2>3, SortIs
<1>3. QED BY <1>1, <1>2

\* Members that fit are added, or put in the place of others.
LEMMA Overlaid ==
  ASSUME Naming(Nat), NEW model, WellFormed(Nat, model), NEW f, IsFiniteSet(DOMAIN f),
         NEW other, other = [model EXCEPT !.members = Overlay(f, @)],
         \A q \in DOMAIN f : IsMember(Nat, other, q, f[q])
  PROVE  WellFormed(Nat, other) /\ Keeps(model, other)
<1> DEFINE g == Overlay(f, model.members)
<1>1. other = [root |-> model.root, initial |-> model.initial, members |-> g,
               attributes |-> model.attributes, stack |-> model.stack]
  BY DEF WellFormed
<1>2. /\ other.root = model.root /\ other.initial = model.initial /\ other.members = g
      /\ other.attributes = model.attributes /\ other.stack = model.stack
  BY <1>1
<1>3. /\ DOMAIN g = DOMAIN f \cup DOMAIN model.members
      /\ \A q \in DOMAIN g : g[q] = IF q \in DOMAIN f THEN f[q] ELSE model.members[q]
      /\ g = [q \in DOMAIN g |-> g[q]]
  BY DEF Overlay
<1> HIDE DEF g
<1>4. \A q \in DOMAIN g : g[q].is \in Variants
  <2> TAKE q \in DOMAIN g
  <2>1. CASE q \in DOMAIN f
    BY <1>3, <2>1 DEF IsMember, IsElement
  <2>2. CASE q \notin DOMAIN f
    BY <1>3, <2>2, Parts
  <2>3. QED BY <2>1, <2>2
<1>5. Keeps(model, other)
  <2> SUFFICES ASSUME NEW q \in DOMAIN model.members PROVE q \in DOMAIN g /\ Sort(g[q]) = Sort(model.members[q])
    BY <1>2 DEF Keeps, HasSort
  <2>1. CASE q \notin DOMAIN f
    BY <1>3, <2>1
  <2>2. CASE q \in DOMAIN f
    <3>1. NamedAs(Nat, Last(q), Sort(f[q])) /\ f[q].is \in Variants
      BY <2>2 DEF IsMember, IsElement
    <3>2. Sort(f[q]) \in Sorts \cup {"user"}
      BY <3>1, SortIs
    <3>3. NamedAs(Nat, Last(q), Sort(model.members[q])) /\ Sort(model.members[q]) \in Sorts \cup {"user"}
      BY Parts
    <3>4. Sort(f[q]) = Sort(model.members[q])
      BY <3>1, <3>2, <3>3, SortDecides
    <3>5. QED BY <1>3, <2>2, <3>4
  <2>3. QED BY <2>1, <2>2
<1>6. ASSUME NEW q \in DOMAIN g PROVE IsMember(Nat, other, q, g[q])
  <2>1. CASE q \in DOMAIN f
    BY <1>3, <2>1
  <2>2. CASE q \notin DOMAIN f
    <3>1. q \in DOMAIN model.members /\ g[q] = model.members[q]
      BY <1>3, <2>2
    <3>2. IsMember(Nat, model, q, g[q])
      BY <3>1 DEF WellFormed
    <3>3. \A field \in DOMAIN g[q] : Suits(other, q, field, g[q][field])
      <4> TAKE field \in DOMAIN g[q]
      <4>1. Suits(model, q, field, g[q][field])
        BY <3>2 DEF IsMember
      <4>2. /\ \A p \in DOMAIN model.members : model.members[p].is \in Variants
            /\ \A p \in DOMAIN other.members : other.members[p].is \in Variants
        BY <1>2, <1>4, Parts
      <4>3. QED BY <1>5, <4>1, <4>2, SuitsKept
    <3>4. QED BY <1>2, <3>2, <3>3 DEF IsMember
  <2>3. QED BY <2>1, <2>2
<1>7. IsFiniteSet(DOMAIN g)
  <2>1. IsFiniteSet(DOMAIN model.members)
    BY Parts
  <2>2. IsFiniteSet(DOMAIN f \cup DOMAIN model.members)
    BY <2>1, FS_Union
  <2>3. QED BY <1>3, <2>2
<1>8. other.initial = None \/ HasSort(other, other.initial, "initial")
  BY <1>2, <1>5 DEF WellFormed, HasSort, Keeps
<1>9. \A i \in 2 .. Len(other.stack) :
        other.stack[i] \in DOMAIN other.members /\ Front(other.stack[i]) = other.stack[i - 1]
  BY <1>2, <1>3 DEF WellFormed
<1>10. QED
  <2>1. /\ IsRoot(other.root)
        /\ \A q \in other.attributes : q \in Name /\ IsStrictPrefix(other.root, q) /\ Last(q) \in AttributeNames
        /\ other.stack \in Seq(Name) /\ other.stack # <<>> /\ other.stack[1] = other.root
    BY <1>2 DEF WellFormed
  <2>2. other.members = [q \in DOMAIN other.members |-> other.members[q]] /\ IsFiniteSet(DOMAIN other.members)
    BY <1>2, <1>3, <1>7
  <2>3. \A q \in DOMAIN other.members : IsMember(Nat, other, q, other.members[q])
    BY <1>2, <1>6
  <2>4. other = [root |-> other.root, initial |-> other.initial, members |-> other.members,
                 attributes |-> other.attributes, stack |-> other.stack]
    BY <1>1, <1>2
  <2>5. QED BY <1>5, <1>8, <1>9, <2>1, <2>2, <2>3, <2>4 DEF WellFormed

\* The members are changed but keep their names and sorts.
LEMMA Replaced ==
  ASSUME NEW model, WellFormed(Nat, model), NEW g, DOMAIN g = DOMAIN model.members,
         g = [q \in DOMAIN g |-> g[q]],
         NEW other, other = [model EXCEPT !.members = g],
         \A q \in DOMAIN g : /\ IsElement(g[q]) /\ g[q].is = model.members[q].is
                             /\ Sort(g[q]) = Sort(model.members[q])
                             /\ \A field \in DOMAIN g[q] : Suits(model, q, field, g[q][field])
  PROVE  WellFormed(Nat, other) /\ Keeps(model, other)
<1>1. other = [root |-> model.root, initial |-> model.initial, members |-> g,
               attributes |-> model.attributes, stack |-> model.stack]
  BY DEF WellFormed
<1>2. /\ other.root = model.root /\ other.initial = model.initial /\ other.members = g
      /\ other.attributes = model.attributes /\ other.stack = model.stack
  BY <1>1
<1>3. \A q \in DOMAIN g : g[q].is \in Variants
  BY DEF IsElement
<1>4. Keeps(model, other)
  BY <1>2 DEF Keeps, HasSort
<1>5. ASSUME NEW q \in DOMAIN g PROVE IsMember(Nat, other, q, g[q])
  <2>1. IsMember(Nat, model, q, model.members[q])
    BY DEF WellFormed
  <2>2. \A field \in DOMAIN g[q] : Suits(other, q, field, g[q][field])
    BY <1>2, <1>3, <1>4, Parts, SuitsKept
  <2>3. QED BY <1>2, <2>1, <2>2 DEF IsMember
<1>6. other.initial = None \/ HasSort(other, other.initial, "initial")
  BY <1>2, <1>4 DEF WellFormed, HasSort, Keeps
<1>7. \A i \in 2 .. Len(other.stack) :
        other.stack[i] \in DOMAIN other.members /\ Front(other.stack[i]) = other.stack[i - 1]
  BY <1>2 DEF WellFormed
<1>8. /\ IsRoot(other.root)
      /\ \A q \in other.attributes : q \in Name /\ IsStrictPrefix(other.root, q) /\ Last(q) \in AttributeNames
      /\ other.stack \in Seq(Name) /\ other.stack # <<>> /\ other.stack[1] = other.root
  BY <1>2 DEF WellFormed
<1>9. other.members = [q \in DOMAIN other.members |-> other.members[q]] /\ IsFiniteSet(DOMAIN other.members)
  BY <1>2, Parts
<1>10. other = [root |-> other.root, initial |-> other.initial, members |-> other.members,
                attributes |-> other.attributes, stack |-> other.stack]
  BY <1>1, <1>2
<1>11. QED BY <1>2, <1>4, <1>5, <1>6, <1>7, <1>8, <1>9, <1>10 DEF WellFormed

\* Everything but the members and the stack is the same.
Alike(model, other) ==
  other.root = model.root /\ other.initial = model.initial /\ other.attributes = model.attributes

\* The innermost open element is the machine or a member.
LEMMA TopOf ==
  ASSUME NEW model, WellFormed(Nat, model)
  PROVE  /\ Top(model) \in Name /\ IsPrefix(model.root, Top(model))
         /\ Top(model) = model.root \/ Top(model) \in DOMAIN model.members
         /\ Len(model.stack) \in Nat \ {0} /\ Top(model) = model.stack[Len(model.stack)]
         /\ Len(model.stack) = 1 => Top(model) = model.root
<1>1. /\ model.root \in Name /\ model.stack \in Seq(Name) /\ model.stack # <<>> /\ model.stack[1] = model.root
      /\ \A i \in 2 .. Len(model.stack) : model.stack[i] \in DOMAIN model.members
  BY DEF WellFormed, IsRoot
<1>2. Len(model.stack) \in Nat \ {0}
  BY <1>1, EmptySeq
<1>3. Top(model) = model.stack[Len(model.stack)]
  BY DEF Top, Last
<1>4. CASE Len(model.stack) = 1
  BY <1>1, <1>2, <1>3, <1>4, PrefixReflexive
<1>5. CASE Len(model.stack) # 1
  <2>1. Len(model.stack) \in 2 .. Len(model.stack)
    <3> DEFINE n == Len(model.stack)
    <3>1. n \in Nat \ {0} /\ n # 1
      BY <1>2, <1>5
    <3> HIDE DEF n
    <3>2. n \in 2 .. n
      BY <3>1
    <3>3. QED BY <3>2 DEF n
  <2>2. Top(model) \in DOMAIN model.members
    BY <1>1, <1>3, <2>1
  <2>3. Top(model) \in Name /\ IsStrictPrefix(model.root, Top(model))
    BY <2>2, Parts
  <2>4. QED BY <1>2, <1>3, <1>5, <2>2, <2>3 DEF IsStrictPrefix
<1>6. QED BY <1>4, <1>5

\* A new member below the machine.
LEMMA PutFits ==
  ASSUME Naming(Nat), NEW model, WellFormed(Nat, model), NEW p \in Name, IsPrefix(model.root, p),
         NEW x \in Segment, NEW e, IsElement(e), NamedAs(Nat, x, Sort(e)),
         e.is \in {"state", "vertex"} => x \notin AttributeNames,
         x = "transition" => p # model.root,
         \A field \in DOMAIN e : Suits(Put(model, Append(p, x), e), Append(p, x), field, e[field])
  PROVE  LET other == Put(model, Append(p, x), e)
         IN  /\ WellFormed(Nat, other) /\ Keeps(model, other) /\ Alike(model, other) /\ other.stack = model.stack
             /\ DOMAIN other.members = DOMAIN model.members \cup {Append(p, x)}
             /\ other.members[Append(p, x)] = e
             /\ \A q \in DOMAIN model.members : q # Append(p, x) => other.members[q] = model.members[q]
<1> DEFINE q == Append(p, x)
           f == [b \in {q} |-> e]
           other == Put(model, q, e)
<1>1. q \in Name /\ q # None /\ Front(q) = p /\ Last(q) = x /\ IsStrictPrefix(model.root, q)
  BY Parts, AppendName, AppendBelow
<1>2. other = [model EXCEPT !.members = Overlay(f, @)]
  BY DEF Put
<1>3. /\ other.root = model.root /\ other.initial = model.initial /\ other.attributes = model.attributes
      /\ other.stack = model.stack /\ other.members = Overlay(f, model.members)
  BY <1>2 DEF WellFormed
<1>4. DOMAIN f = {q} /\ f[q] = e /\ IsFiniteSet(DOMAIN f)
  BY FS_Singleton
<1>5. IsMember(Nat, other, q, e)
  <2> HIDE DEF other, q
  <2>1. \A field \in DOMAIN e : Suits(other, q, field, e[field])
    BY DEF other, q
  <2>2. QED BY <1>1, <1>3, <2>1 DEF IsMember
<1> HIDE DEF other, f, q
<1>6. WellFormed(Nat, other) /\ Keeps(model, other)
  BY <1>2, <1>4, <1>5, Overlaid
<1>7. /\ DOMAIN other.members = DOMAIN model.members \cup {q} /\ other.members[q] = e
      /\ \A b \in DOMAIN model.members : b # q => other.members[b] = model.members[b]
  BY <1>3, <1>4 DEF Overlay
<1>8. QED BY <1>3, <1>6, <1>7 DEF Alike, other, q

\* A field gets another value that suits it.
LEMMA EditFits ==
  ASSUME NEW model, WellFormed(Nat, model), NEW q, NEW field, NEW value,
         field \notin {"is", "kind", "observes"},
         q \in DOMAIN model.members /\ field \in DOMAIN model.members[q] => Suits(model, q, field, value)
  PROVE  LET other == Edit(model, q, field, value)
         IN  /\ WellFormed(Nat, other) /\ Keeps(model, other) /\ Alike(model, other) /\ other.stack = model.stack
             /\ DOMAIN other.members = DOMAIN model.members
             /\ \A p \in DOMAIN model.members : other.members[p].is = model.members[p].is
<1> DEFINE g == [model.members EXCEPT ![q][field] = value]
           other == Edit(model, q, field, value)
<1>1. other = [model EXCEPT !.members = g]
  BY DEF Edit
<1>2. /\ other.root = model.root /\ other.initial = model.initial /\ other.attributes = model.attributes
      /\ other.stack = model.stack /\ other.members = g
  BY <1>1 DEF WellFormed
<1>3. /\ DOMAIN g = DOMAIN model.members /\ g = [p \in DOMAIN g |-> g[p]]
      /\ \A p \in DOMAIN model.members : p # q => g[p] = model.members[p]
      /\ q \in DOMAIN model.members => g[q] = [model.members[q] EXCEPT ![field] = value]
  OBVIOUS
<1> HIDE DEF g
<1>4. ASSUME NEW p \in DOMAIN g
      PROVE  /\ IsElement(g[p]) /\ g[p].is = model.members[p].is /\ Sort(g[p]) = Sort(model.members[p])
             /\ \A a \in DOMAIN g[p] : Suits(model, p, a, g[p][a])
  <2> DEFINE e == model.members[p]
  <2>1. IsElement(e) /\ \A a \in DOMAIN e : Suits(model, p, a, e[a])
    BY <1>3 DEF WellFormed, IsMember
  <2> HIDE DEF e
  <2>2. CASE p # q
    BY <1>3, <2>1, <2>2 DEF e
  <2>3. CASE p = q
    <3>1. g[p] = [e EXCEPT ![field] = value]
      BY <1>3, <2>3 DEF e
    <3> DEFINE d == [e EXCEPT ![field] = value]
    <3>2. e = [a \in DOMAIN e |-> e[a]] /\ DOMAIN e = Fields(e.is)
      BY <2>1 DEF IsElement
    <3>3. /\ DOMAIN d = DOMAIN e /\ d = [a \in DOMAIN d |-> d[a]]
          /\ \A a \in DOMAIN e : a # field => d[a] = e[a]
          /\ field \in DOMAIN e => d[field] = value
      BY <3>2
    <3> HIDE DEF d
    <3>4. "is" \in DOMAIN e /\ ("kind" \in DOMAIN e \/ e.is # "vertex") /\ ("observes" \in DOMAIN e \/ e.is # "behavior")
      BY <2>1, <3>2, FieldsOf DEF IsElement, Variants, Hooks
    <3>5. d["is"] = e["is"] /\ (e.is = "vertex" => d["kind"] = e["kind"]) /\ (e.is = "behavior" => d["observes"] = e["observes"])
      BY <3>3, <3>4
    <3>6. d.is = e.is /\ (e.is = "vertex" => d.kind = e.kind) /\ (e.is = "behavior" => d.observes = e.observes)
      BY <3>5
    <3>7. Sort(d) = Sort(e)
      BY <3>6 DEF Sort
    <3>8. IsElement(d)
      BY <2>1, <3>3, <3>6 DEF IsElement
    <3>9. \A a \in DOMAIN d : Suits(model, p, a, d[a])
      BY <1>3, <2>1, <2>3, <3>3 DEF e
    <3>10. QED BY <3>1, <3>6, <3>7, <3>8, <3>9 DEF d, e
  <2>4. QED BY <2>2, <2>3
<1> HIDE DEF other
<1>5. WellFormed(Nat, other) /\ Keeps(model, other)
  BY <1>1, <1>3, <1>4, Replaced
<1>6. QED BY <1>2, <1>3, <1>4, <1>5 DEF Alike, other

\* A list gets more of what suits it.
LEMMA ExtendFits ==
  ASSUME NEW model, WellFormed(Nat, model), NEW q, NEW field \in ReferenceLists, NEW value,
         Suits(model, q, field, value)
  PROVE  LET other == Extend(model, q, field, value)
         IN  /\ WellFormed(Nat, other) /\ Keeps(model, other) /\ Alike(model, other) /\ other.stack = model.stack
             /\ DOMAIN other.members = DOMAIN model.members
             /\ \A p \in DOMAIN model.members : other.members[p].is = model.members[p].is
<1>1. field \notin {"is", "kind", "observes", "initial", "guard", "targets"} /\ field \notin References
  BY DEF ReferenceLists, References
<1> DEFINE old == model.members[q][field]
<1>2. ASSUME q \in DOMAIN model.members, field \in DOMAIN model.members[q]
      PROVE  Suits(model, q, field, old \o value)
  <2>1. Suits(model, q, field, old)
    BY <1>2 DEF WellFormed, IsMember
  <2>2. old \in Seq(Name) /\ value \in Seq(Name)
    BY <2>1 DEF Suits
  <2> HIDE DEF old
  <2>3. old \o value \in Seq(Name)
    BY <2>2
  <2>4. ASSUME NEW x \in ToSet(old \o value) PROVE x \in ToSet(old) \cup ToSet(value)
    <3>1. /\ DOMAIN (old \o value) = 1 .. Len(old) + Len(value) /\ Len(old) \in Nat /\ Len(value) \in Nat
          /\ DOMAIN old = 1 .. Len(old) /\ DOMAIN value = 1 .. Len(value)
      BY <2>2
    <3>2. PICK i \in 1 .. Len(old) + Len(value) : x = (old \o value)[i]
      BY <3>1 DEF ToSet
    <3>3. CASE i <= Len(old)
      <4>1. x = old[i] /\ i \in DOMAIN old
        BY <2>2, <3>1, <3>2, <3>3
      <4>2. QED BY <4>1 DEF ToSet
    <3>4. CASE ~(i <= Len(old))
      <4>1. x = value[i - Len(old)] /\ i - Len(old) \in DOMAIN value
        BY <2>2, <3>1, <3>2, <3>4
      <4>2. QED BY <4>1 DEF ToSet
    <3>5. QED BY <3>3, <3>4
  <2>5. QED BY <1>1, <2>1, <2>3, <2>4 DEF Suits
<1> HIDE DEF old
<1>3. Extend(model, q, field, value) = Edit(model, q, field, old \o value)
  BY DEF Extend, old
<1>4. QED BY <1>1, <1>2, <1>3, EditFits

\* A member right inside the innermost open element is opened.
LEMMA PushFits ==
  ASSUME NEW model, WellFormed(Nat, model), NEW q \in DOMAIN model.members, Front(q) = Top(model)
  PROVE  LET other == Push(model, q)
         IN  /\ WellFormed(Nat, other) /\ Alike(model, other) /\ other.members = model.members
             /\ other.stack = Append(model.stack, q) /\ Top(other) = q
<1> DEFINE other == Push(model, q)
           k == Append(model.stack, q)
<1>1. other = [root |-> model.root, initial |-> model.initial, members |-> model.members,
               attributes |-> model.attributes, stack |-> k]
  <2>1. model = [root |-> model.root, initial |-> model.initial, members |-> model.members,
                 attributes |-> model.attributes, stack |-> model.stack]
    BY DEF WellFormed
  <2>2. other = [model EXCEPT !.stack = k]
    BY DEF Push
  <2> HIDE DEF k, other
  <2>3. QED BY <2>1, <2>2
<1>2. /\ other.root = model.root /\ other.initial = model.initial /\ other.members = model.members
      /\ other.attributes = model.attributes /\ other.stack = k
  BY <1>1
<1>3. model.stack \in Seq(Name) /\ q \in Name /\ Len(model.stack) \in Nat \ {0} /\ model.stack[Len(model.stack)] = Top(model)
  BY Parts, TopOf DEF WellFormed
<1>4. /\ k \in Seq(Name) /\ Len(k) = Len(model.stack) + 1 /\ k[Len(model.stack) + 1] = q
      /\ \A i \in 1 .. Len(model.stack) : k[i] = model.stack[i]
  BY <1>3
<1>5. k # <<>>
  BY <1>3, <1>4, EmptySeq
<1> HIDE DEF k, other
<1>6. \A i \in 2 .. Len(k) : k[i] \in DOMAIN model.members /\ Front(k[i]) = k[i - 1]
  <2> TAKE i \in 2 .. Len(k)
  <2>1. CASE i = Len(k)
    BY <1>3, <1>4, <2>1
  <2>2. CASE i # Len(k)
    <3>1. i \in 2 .. Len(model.stack) /\ i \in 1 .. Len(model.stack) /\ i - 1 \in 1 .. Len(model.stack)
      BY <1>3, <1>4, <2>2
    <3>2. model.stack[i] \in DOMAIN model.members /\ Front(model.stack[i]) = model.stack[i - 1]
      BY <3>1 DEF WellFormed
    <3>3. QED BY <1>4, <3>1, <3>2
  <2>3. QED BY <2>1, <2>2
<1>7. k[1] = model.root
  BY <1>3, <1>4 DEF WellFormed
<1>8. \A p \in DOMAIN other.members : IsMember(Nat, other, p, other.members[p])
  <2> TAKE p \in DOMAIN other.members
  <2>1. IsMember(Nat, model, p, model.members[p])
    BY <1>2 DEF WellFormed
  <2>2. QED BY <1>2, <2>1 DEF IsMember, Suits, Is, IsTransition, HasSort
<1>9. WellFormed(Nat, other)
  <2>1. IsRoot(other.root) /\ (other.initial = None \/ HasSort(other, other.initial, "initial"))
    BY <1>2 DEF WellFormed, HasSort
  <2>2. /\ \A p \in other.attributes : p \in Name /\ IsStrictPrefix(other.root, p) /\ Last(p) \in AttributeNames
        /\ IsFiniteSet(DOMAIN other.members) /\ other.members = [p \in DOMAIN other.members |-> other.members[p]]
    BY <1>2 DEF WellFormed
  <2>3. other = [root |-> other.root, initial |-> other.initial, members |-> other.members,
                 attributes |-> other.attributes, stack |-> other.stack]
    BY <1>1, <1>2
  <2>4. QED BY <1>2, <1>4, <1>5, <1>6, <1>7, <1>8, <2>1, <2>2, <2>3 DEF WellFormed
<1>10. Top(other) = q
  BY <1>2, <1>4 DEF Top, Last
<1>11. QED BY <1>2, <1>9, <1>10 DEF Alike, other, k

\* The innermost open element is closed.
LEMMA PopFits ==
  ASSUME NEW model, WellFormed(Nat, model), Len(model.stack) > 1
  PROVE  LET other == Pop(model)
         IN  /\ WellFormed(Nat, other) /\ Alike(model, other) /\ other.members = model.members
             /\ other.stack = Front(model.stack) /\ Len(other.stack) = Len(model.stack) - 1
             /\ Top(other) = Front(Top(model))
<1> DEFINE other == Pop(model)
           k == Front(model.stack)
<1>1. other = [root |-> model.root, initial |-> model.initial, members |-> model.members,
               attributes |-> model.attributes, stack |-> k]
  BY DEF WellFormed, Pop
<1>2. /\ other.root = model.root /\ other.initial = model.initial /\ other.members = model.members
      /\ other.attributes = model.attributes /\ other.stack = k
  BY <1>1
<1>3. model.stack \in Seq(Name) /\ Len(model.stack) \in Nat \ {0} /\ model.stack[Len(model.stack)] = Top(model)
  BY TopOf DEF WellFormed
<1>4. k \in Seq(Name) /\ Len(k) = Len(model.stack) - 1 /\ \A i \in 1 .. Len(k) : k[i] = model.stack[i]
  BY <1>3 DEF Front
<1>5. k # <<>>
  BY <1>3, <1>4, EmptySeq
<1> HIDE DEF k, other
<1>6. \A i \in 2 .. Len(model.stack) : model.stack[i] \in DOMAIN model.members /\ Front(model.stack[i]) = model.stack[i - 1]
  BY DEF WellFormed
<1>7. \A i \in 2 .. Len(k) : k[i] \in DOMAIN model.members /\ Front(k[i]) = k[i - 1]
  <2> TAKE i \in 2 .. Len(k)
  <2>1. i \in 2 .. Len(model.stack) /\ i \in 1 .. Len(k) /\ i - 1 \in 1 .. Len(k)
    BY <1>3, <1>4
  <2>2. QED BY <1>4, <1>6, <2>1
<1>8. k[1] = model.root
  BY <1>3, <1>4 DEF WellFormed
<1>9. \A p \in DOMAIN other.members : IsMember(Nat, other, p, other.members[p])
  <2> TAKE p \in DOMAIN other.members
  <2>1. IsMember(Nat, model, p, model.members[p])
    BY <1>2 DEF WellFormed
  <2>2. QED BY <1>2, <2>1 DEF IsMember, Suits, Is, IsTransition, HasSort
<1>10. WellFormed(Nat, other)
  <2>1. IsRoot(other.root) /\ (other.initial = None \/ HasSort(other, other.initial, "initial"))
    BY <1>2 DEF WellFormed, HasSort
  <2>2. /\ \A p \in other.attributes : p \in Name /\ IsStrictPrefix(other.root, p) /\ Last(p) \in AttributeNames
        /\ IsFiniteSet(DOMAIN other.members) /\ other.members = [p \in DOMAIN other.members |-> other.members[p]]
    BY <1>2 DEF WellFormed
  <2>3. other = [root |-> other.root, initial |-> other.initial, members |-> other.members,
                 attributes |-> other.attributes, stack |-> other.stack]
    BY <1>1, <1>2
  <2>4. QED BY <1>2, <1>4, <1>5, <1>7, <1>8, <1>9, <2>1, <2>2, <2>3 DEF WellFormed
<1>11. Top(other) = Front(Top(model))
  <2>1. Len(model.stack) \in 2 .. Len(model.stack) /\ Len(k) \in 1 .. Len(k)
    BY <1>3, <1>4
  <2>2. k[Len(k)] = model.stack[Len(model.stack) - 1] /\ Front(model.stack[Len(model.stack)]) = model.stack[Len(model.stack) - 1]
    BY <1>4, <1>6, <2>1
  <2>3. QED BY <1>2, <1>3, <2>2 DEF Top, Last
<1>12. QED BY <1>2, <1>4, <1>10, <1>11 DEF Alike, other, k

-----------------------------------------------------------------------------
(* The elements of a definition: states and pseudostates *)

\* A path behind a name is a name.
LEMMA ConcatName ==
  ASSUME NEW p \in Name, NEW q \in Name
  PROVE  p \o q \in Name
  BY ConcatProperties DEF Name

\* The greatest of some numbers up to n.
LEMMA MaxIn ==
  ASSUME NEW n \in Nat, NEW S \in SUBSET (1 .. n), S # {}
  PROVE  Max(S) \in S
<1> DEFINE T == {j \in Nat : n - j \in S}
<1>1. T \in SUBSET Nat /\ T # {}
  <2>1. PICK i \in S : TRUE
    OBVIOUS
  <2>2. n - i \in Nat /\ n - (n - i) = i
    OBVIOUS
  <2>3. QED BY <2>1, <2>2
<1>2. PICK l \in T : \A k \in T : l <= k
  <2> HIDE DEF T
  <2> QED BY <1>1, LeastElement
<1>3. \A j \in S : n - l >= j
  <2> TAKE j \in S
  <2>1. n - j \in Nat /\ n - (n - j) = j
    OBVIOUS
  <2>2. l <= n - j
    BY <1>2, <2>1
  <2>3. QED BY <2>2
<1>4. QED BY <1>3 DEF Max

\* The least of some numbers is one of them.
LEMMA MinIn ==
  ASSUME NEW S \in SUBSET Nat, S # {}
  PROVE  Min(S) \in S
<1>1. \E l \in S : \A k \in S : l <= k
  BY LeastElement
<1>2. QED BY <1>1 DEF Min

\* A new member of the innermost open element.
LEMMA PutInTop ==
  ASSUME Naming(Nat), NEW model, WellFormed(Nat, model), NEW x \in Segment, NEW e, IsElement(e),
         NEW sort, Sort(e) = sort, NamedAs(Nat, x, sort),
         e.is \in {"state", "vertex"} => x \notin AttributeNames,
         x = "transition" => Top(model) # model.root,
         \A other : \A field \in DOMAIN e : Suits(other, Append(Top(model), x), field, e[field])
  PROVE  LET q     == Append(Top(model), x)
             other == Put(model, q, e)
         IN  /\ WellFormed(Nat, other) /\ Keeps(model, other) /\ Alike(model, other)
             /\ other.stack = model.stack /\ Top(other) = Top(model)
             /\ DOMAIN other.members = DOMAIN model.members \cup {q}
             /\ other.members[q] = e /\ HasSort(other, q, sort)
             /\ \A p \in DOMAIN model.members : p # q => other.members[p] = model.members[p]
             /\ q \in Name /\ Front(q) = Top(model) /\ Last(q) = x
<1> DEFINE q     == Append(Top(model), x)
           other == Put(model, q, e)
<1>1. Top(model) \in Name /\ IsPrefix(model.root, Top(model))
  BY TopOf
<1>2. q \in Name /\ Front(q) = Top(model) /\ Last(q) = x
  BY <1>1, AppendName
<1>3. NamedAs(Nat, x, Sort(e)) /\ \A field \in DOMAIN e : Suits(Put(model, q, e), q, field, e[field])
  OBVIOUS
<1>4. /\ WellFormed(Nat, other) /\ Keeps(model, other) /\ Alike(model, other) /\ other.stack = model.stack
      /\ DOMAIN other.members = DOMAIN model.members \cup {q}
      /\ other.members[q] = e
      /\ \A p \in DOMAIN model.members : p # q => other.members[p] = model.members[p]
  BY <1>1, <1>3, PutFits
<1> HIDE DEF other, q
<1>5. Top(other) = Top(model) /\ HasSort(other, q, sort)
  BY <1>4 DEF Top, HasSort
<1>6. QED BY <1>2, <1>4, <1>5 DEF other, q

\* Names of the user are not those that the builders make up.
LEMMA UserIsNotMadeUp ==
  ASSUME Naming(Nat), NEW x, NamedAs(Nat, x, "user")
  PROVE  x # "transition" /\ x # ".initial"
  BY MadeUp, SortDecides DEF Sorts, Hooks

\* partial_state: a state that is there is opened again.
LEMMA StateFits ==
  ASSUME Naming(Nat), NEW model, WellFormed(Nat, model), NEW name \in StateNames
  PROVE  WellFormed(Nat, PartialState(model, name))
<1> DEFINE q == Append(Top(model), name)
           e == NewState("state")
           n == IF IsState(model, q) THEN model ELSE Put(model, q, e)
<1>1. name \in Segment /\ NamedAs(Nat, name, "user") /\ name \notin AttributeNames /\ name # "transition"
  BY UserSegments, UserIsNotMadeUp DEF VertexNames, Naming
<1>2. Front(q) = Top(model)
  BY <1>1, TopOf, AppendName
<1>3. WellFormed(Nat, n) /\ n.stack = model.stack /\ q \in DOMAIN n.members
  <2>1. CASE IsState(model, q)
    BY <2>1 DEF IsState, Is
  <2>2. CASE ~IsState(model, q)
    <3>1. IsElement(e) /\ Sort(e) = "user" /\ \A other : \A a \in DOMAIN e : Suits(other, q, a, e[a])
      BY NewStateFits DEF States
    <3> HIDE DEF e
    <3>2. LET other == Put(model, q, e)
          IN  /\ WellFormed(Nat, other) /\ other.stack = model.stack
              /\ DOMAIN other.members = DOMAIN model.members \cup {q}
      BY <1>1, <3>1, PutInTop
    <3>3. QED BY <2>2, <3>2 DEF e
  <2>3. QED BY <2>1, <2>2
<1>4. PartialState(model, name) = Push(n, q)
  BY DEF PartialState
<1> HIDE DEF n, q
<1>5. Top(n) = Top(model)
  BY <1>3 DEF Top
<1>6. QED BY <1>2, <1>3, <1>4, <1>5, PushFits

\* partial_final_state
LEMMA FinalFits ==
  ASSUME Naming(Nat), NEW model, WellFormed(Nat, model), NEW name \in FinalNames
  PROVE  WellFormed(Nat, PartialFinalState(model, name))
<1> DEFINE q == Append(Top(model), name)
           e == NewState("final")
<1>1. name \in Segment /\ NamedAs(Nat, name, "user") /\ name \notin AttributeNames /\ name # "transition"
  BY UserSegments, UserIsNotMadeUp DEF VertexNames, Naming
<1>2. IsElement(e) /\ Sort(e) = "user" /\ \A other : \A a \in DOMAIN e : Suits(other, q, a, e[a])
  BY NewStateFits DEF States
<1> HIDE DEF e
<1>3. WellFormed(Nat, Put(model, q, e))
  BY <1>1, <1>2, PutInTop
<1>4. QED BY <1>3 DEF PartialFinalState, e

\* A vertex of the innermost open element, named by the user or the initial one.
LEMMA VertexFits ==
  ASSUME Naming(Nat), NEW model, WellFormed(Nat, model), NEW name, NEW kind,
         \/ name \in PointNames /\ kind # "initial"
         \/ name = ".initial" /\ kind = "initial"
  PROVE  LET q     == Append(Top(model), name)
             other == Put(model, q, NewVertex(kind))
         IN  /\ WellFormed(Nat, other) /\ Keeps(model, other) /\ Alike(model, other)
             /\ other.stack = model.stack /\ Top(other) = Top(model) /\ q \in DOMAIN other.members
             /\ HasSort(other, q, IF kind = "initial" THEN "initial" ELSE "user")
             /\ q \in Name /\ Front(q) = Top(model)
<1> DEFINE q == Append(Top(model), name)
           e == NewVertex(kind)
           sort == IF kind = "initial" THEN "initial" ELSE "user"
<1>1. name \in Segment /\ NamedAs(Nat, name, sort) /\ name \notin AttributeNames /\ name # "transition"
  <2>1. CASE name \in PointNames /\ kind # "initial"
    BY <2>1, UserSegments, UserIsNotMadeUp DEF VertexNames, Naming
  <2>2. CASE name = ".initial" /\ kind = "initial"
    <3>1. NamedAs(Nat, name, "initial") /\ "initial" \in Sorts
      BY <2>2, MadeUp DEF Sorts
    <3>2. name \in Segment
      BY <3>1, SegmentType
    <3>3. name \notin AttributeNames
      BY <2>2, UserSegments, UserIsNotMadeUp
    <3>4. QED BY <2>2, <3>1, <3>2, <3>3
  <2>3. QED BY <2>1, <2>2
<1>2. IsElement(e) /\ Sort(e) = sort /\ \A other : \A a \in DOMAIN e : Suits(other, q, a, e[a])
  BY NewVertexFits
<1> HIDE DEF e, sort
<1>3. LET other == Put(model, q, e)
      IN  /\ WellFormed(Nat, other) /\ Keeps(model, other) /\ Alike(model, other)
          /\ other.stack = model.stack /\ Top(other) = Top(model)
          /\ DOMAIN other.members = DOMAIN model.members \cup {q}
          /\ HasSort(other, q, sort)
          /\ q \in Name /\ Front(q) = Top(model)
  BY <1>1, <1>2, PutInTop
<1>4. QED BY <1>3 DEF e, sort

\* partial_choice
LEMMA ChoiceFits ==
  ASSUME Naming(Nat), NEW model, WellFormed(Nat, model), NEW name \in PointNames
  PROVE  WellFormed(Nat, PartialChoice(model, name))
<1> DEFINE q == Append(Top(model), name)
           n == Put(model, q, NewVertex("choice"))
<1>1. WellFormed(Nat, n) /\ Top(n) = Top(model) /\ q \in DOMAIN n.members /\ Front(q) = Top(model)
  BY VertexFits
<1> HIDE DEF n, q
<1>2. WellFormed(Nat, Push(n, q))
  BY <1>1, PushFits
<1>3. QED BY <1>2 DEF PartialChoice, n, q

\* A pseudostate and its transition are opened.
LEMMA OpenPointFits ==
  ASSUME Naming(Nat), NEW model, WellFormed(Nat, model), NEW name, NEW kind, NEW events \in Seq(Name),
         \/ name \in PointNames /\ kind # "initial"
         \/ name = ".initial" /\ kind = "initial"
  PROVE  LET q     == Append(Top(model), name)
             other == OpenPoint(model, name, kind, events)
         IN  /\ WellFormed(Nat, other) /\ Keeps(model, other) /\ Alike(model, other)
             /\ HasSort(other, q, IF kind = "initial" THEN "initial" ELSE "user")
             /\ q \in Name
<1> DEFINE q == Append(Top(model), name)
           t == Append(q, "transition")
           e == NewTransition(q, events)
           n1 == Put(model, q, NewVertex(kind))
           n2 == Push(Put(n1, t, e), q)
<1>1. /\ WellFormed(Nat, n1) /\ Keeps(model, n1) /\ Alike(model, n1)
      /\ n1.stack = model.stack /\ Top(n1) = Top(model) /\ q \in DOMAIN n1.members
      /\ HasSort(n1, q, IF kind = "initial" THEN "initial" ELSE "user")
      /\ q \in Name /\ Front(q) = Top(model)
  BY VertexFits
<1> DEFINE p1 == Put(n1, t, e)
<1> HIDE DEF q, n1
<1>2. q # None /\ IsStrictPrefix(n1.root, q) /\ n1.root \in Name
  BY <1>1, Parts
<1>3. IsPrefix(n1.root, q) /\ q # n1.root
  BY <1>2 DEF IsStrictPrefix
<1>4. IsElement(e) /\ e.is = "transition" /\ Sort(e) = "transition" /\ \A a \in DOMAIN e : Suits(p1, t, a, e[a])
  BY <1>1, NewTransitionFits
<1>5. "transition" \in Segment /\ NamedAs(Nat, "transition", "transition")
  BY MadeUp, SegmentType DEF Sorts
<1> HIDE DEF e
<1>6. /\ WellFormed(Nat, p1) /\ Keeps(n1, p1) /\ Alike(n1, p1) /\ p1.stack = n1.stack
      /\ DOMAIN p1.members = DOMAIN n1.members \cup {t}
  BY <1>1, <1>3, <1>4, <1>5, PutFits
<1>7. Top(p1) = Top(model) /\ t \in Name /\ Front(t) = q
  BY <1>1, <1>5, <1>6, AppendName DEF Top
<1> HIDE DEF p1, t
<1>8. WellFormed(Nat, n2) /\ Alike(p1, n2) /\ n2.members = p1.members /\ Top(n2) = q
  BY <1>1, <1>6, <1>7, PushFits DEF p1
<1> HIDE DEF n2
<1>9. WellFormed(Nat, Push(n2, t)) /\ Alike(n2, Push(n2, t)) /\ Push(n2, t).members = n2.members
  BY <1>6, <1>7, <1>8, PushFits
<1>10. OpenPoint(model, name, kind, events) = Push(n2, t)
  BY DEF OpenPoint, n2, p1, t, e, n1, q
<1>11. Keeps(model, Push(n2, t)) /\ HasSort(Push(n2, t), q, IF kind = "initial" THEN "initial" ELSE "user")
  BY <1>1, <1>6, <1>8, <1>9 DEF Keeps, HasSort
<1>12. Alike(model, Push(n2, t))
  BY <1>1, <1>6, <1>8, <1>9 DEF Alike
<1>13. QED BY <1>1, <1>9, <1>10, <1>11, <1>12 DEF q

\* The machine's initial pseudostate is named.
LEMMA InitialNamed ==
  ASSUME NEW model, WellFormed(Nat, model), NEW q, HasSort(model, q, "initial")
  PROVE  WellFormed(Nat, [model EXCEPT !.initial = q])
<1> DEFINE other == [model EXCEPT !.initial = q]
<1>1. model = [root |-> model.root, initial |-> model.initial, members |-> model.members,
               attributes |-> model.attributes, stack |-> model.stack]
  BY DEF WellFormed
<1>2. other = [root |-> model.root, initial |-> q, members |-> model.members,
               attributes |-> model.attributes, stack |-> model.stack]
  BY <1>1
<1>3. /\ other.root = model.root /\ other.initial = q /\ other.members = model.members
      /\ other.attributes = model.attributes /\ other.stack = model.stack
  BY <1>2
<1> HIDE DEF other
<1>4. \A p \in DOMAIN other.members : IsMember(Nat, other, p, other.members[p])
  <2> TAKE p \in DOMAIN other.members
  <2>1. IsMember(Nat, model, p, model.members[p])
    BY <1>3 DEF WellFormed
  <2>2. QED BY <1>3, <2>1 DEF IsMember, Suits, Is, IsTransition, HasSort
<1>5. HasSort(other, other.initial, "initial")
  BY <1>3 DEF HasSort
<1>6. \A i \in 2 .. Len(other.stack) :
        other.stack[i] \in DOMAIN other.members /\ Front(other.stack[i]) = other.stack[i - 1]
  BY <1>3 DEF WellFormed
<1>7. /\ IsRoot(other.root)
      /\ IsFiniteSet(DOMAIN other.members) /\ other.members = [p \in DOMAIN other.members |-> other.members[p]]
      /\ \A p \in other.attributes : p \in Name /\ IsStrictPrefix(other.root, p) /\ Last(p) \in AttributeNames
      /\ other.stack \in Seq(Name) /\ other.stack # <<>> /\ other.stack[1] = other.root
  BY <1>3 DEF WellFormed
<1>8. other = [root |-> other.root, initial |-> other.initial, members |-> other.members,
               attributes |-> other.attributes, stack |-> other.stack]
  BY <1>2, <1>3
<1>9. WellFormed(Nat, other)
  BY <1>4, <1>5, <1>6, <1>7, <1>8 DEF WellFormed
<1>10. QED BY <1>9 DEF other

\* partial_initial
LEMMA InitialFits ==
  ASSUME Naming(Nat), NEW model, WellFormed(Nat, model)
  PROVE  WellFormed(Nat, PartialInitial(model))
<1> DEFINE q == Append(Top(model), ".initial")
           n == OpenPoint(model, ".initial", "initial", <<InitialEvent>>)
<1>1. <<InitialEvent>> \in Seq(Name)
  <2>1. InitialEvent \in Name
    BY DEF Naming
  <2>2. QED BY <2>1
<1>2. WellFormed(Nat, n) /\ HasSort(n, q, "initial") /\ q \in Name
  BY <1>1, OpenPointFits
<1>3. /\ PartialInitial(model) = IF IsState(model, Top(model)) THEN Edit(n, Top(model), "initial", q)
                                 ELSE IF Top(model) = model.root THEN [n EXCEPT !.initial = q] ELSE n
  BY DEF PartialInitial
<1> HIDE DEF n, q
<1>4. Suits(n, Top(model), "initial", q)
  BY <1>2 DEF Suits, References, ReferenceLists, BehaviorLists
<1>5. WellFormed(Nat, Edit(n, Top(model), "initial", q))
  BY <1>2, <1>4, EditFits
<1>6. WellFormed(Nat, [n EXCEPT !.initial = q])
  BY <1>2, InitialNamed
<1>7. QED BY <1>2, <1>3, <1>5, <1>6

\* add_connection_point_vertex and partial_history
LEMMA PointFits ==
  ASSUME Naming(Nat), NEW model, WellFormed(Nat, model), NEW name \in PointNames,
         NEW kind, kind # "initial", NEW elements \in BOOLEAN
  PROVE  /\ WellFormed(Nat, AddConnectionPointVertex(model, name, kind, elements))
         /\ WellFormed(Nat, PartialHistory(model, name, kind, elements))
<1>1. <<>> \in Seq(Name)
  OBVIOUS
<1>2. WellFormed(Nat, OpenPoint(model, name, kind, <<>>))
  BY <1>1, OpenPointFits
<1>3. WellFormed(Nat, Put(model, Append(Top(model), name), NewVertex(kind)))
  BY VertexFits
<1>4. QED BY <1>2, <1>3 DEF AddConnectionPointVertex, PartialHistory

\* An open transition "transition" is inside a pseudostate, which is inside something else.
LEMMA PointIsOpen ==
  ASSUME NEW model, WellFormed(Nat, model), IsTransition(model, Top(model)), Last(Top(model)) = "transition"
  PROVE  Len(model.stack) > 2
<1>1. Top(model) \in DOMAIN model.members
  BY DEF IsTransition, Is
<1>2. Front(Top(model)) # model.root
  BY <1>1 DEF WellFormed, IsMember
<1> DEFINE n == Len(model.stack)
<1>3. n \in Nat \ {0} /\ Top(model) = model.stack[n] /\ model.stack[1] = model.root
  BY TopOf DEF WellFormed
<1>4. n # 1
  <2>1. IsStrictPrefix(model.root, Top(model))
    BY <1>1, Parts
  <2>2. QED BY <1>3, <2>1 DEF IsStrictPrefix
<1>5. n # 2
  <2>1. \A i \in 2 .. n : Front(model.stack[i]) = model.stack[i - 1]
    BY DEF WellFormed
  <2> HIDE DEF n
  <2>2. ASSUME n = 2 PROVE FALSE
    <3>1. 2 \in 2 .. n
      BY <2>2
    <3>2. Front(model.stack[2]) = model.stack[2 - 1]
      BY <2>1, <3>1
    <3>3. QED BY <1>2, <1>3, <2>2, <3>2
  <2>3. QED BY <2>2
<1>6. QED
  <2> HIDE DEF n
  <2>1. n > 2
    BY <1>3, <1>4, <1>5
  <2>2. QED BY <2>1 DEF n

\* The end of a pseudostate: its vertex lists the transition.
LEMMA ClosePointFits ==
  ASSUME NEW model, WellFormed(Nat, model), IsTransition(model, Top(model)), Last(Top(model)) = "transition"
  PROVE  WellFormed(Nat, ClosePoint(model))
<1> DEFINE t == Top(model)
           n == Extend(model, Front(t), "transitions", <<t>>)
<1>1. t \in Name /\ IsTransition(model, t)
  BY TopOf
<1>2. Suits(model, Front(t), "transitions", <<t>>)
  <2> HIDE DEF t
  <2>1. <<t>> \in Seq(Name) /\ ToSet(<<t>>) = {t}
    BY <1>1 DEF ToSet
  <2>2. QED BY <1>1, <2>1 DEF Suits, References, ReferenceLists, BehaviorLists
<1> HIDE DEF t
<1>3. "transitions" \in ReferenceLists
  BY DEF ReferenceLists
<1>4. WellFormed(Nat, n) /\ n.stack = model.stack
  BY <1>2, <1>3, ExtendFits
<1> HIDE DEF n
<1>5. Len(n.stack) > 2 /\ Len(n.stack) \in Nat
  BY <1>4, PointIsOpen, TopOf
<1>6. WellFormed(Nat, Pop(n)) /\ Len(Pop(n).stack) = Len(n.stack) - 1
  BY <1>4, <1>5, PopFits
<1>7. WellFormed(Nat, Pop(Pop(n)))
  BY <1>5, <1>6, PopFits
<1>8. QED BY <1>7 DEF ClosePoint, n, t

-----------------------------------------------------------------------------
(* The elements of a definition: transitions *)

\* A sequence has its elements in a set, or has none elsewhere.
LEMMA ElementsIn ==
  ASSUME NEW E, NEW s \in Seq(E), NEW x \in ToSet(s)
  PROVE  x \in E
  BY DEF ToSet

\* A sequence whose elements are in T is one of T.
LEMMA InElements ==
  ASSUME NEW E, NEW s \in Seq(E), NEW T, \A x \in ToSet(s) : x \in T
  PROVE  s \in Seq(T)
<1>1. DOMAIN s = 1 .. Len(s) /\ Len(s) \in Nat
  OBVIOUS
<1>2. \A i \in 1 .. Len(s) : s[i] \in T
  BY <1>1 DEF ToSet
<1>3. s = [i \in 1 .. Len(s) |-> s[i]]
  BY <1>1
<1>4. QED BY <1>1, <1>2, <1>3

\* Some of the elements of a sequence.
LEMMA SomeElements ==
  ASSUME NEW E, NEW s \in Seq(E), NEW a \in Int, NEW b \in Int, 1 <= a, b <= Len(s)
  PROVE  SubSeq(s, a, b) \in Seq(E)
<1>1. \A i \in a .. b : s[i] \in E
  OBVIOUS
<1>2. QED BY <1>1, SubSeqProperties

\* Some segments of a name.
LEMMA SomeSegments ==
  ASSUME NEW q \in Name, NEW a \in Int, NEW b \in Int, 1 <= a, b <= Len(q)
  PROVE  SubSeq(q, a, b) \in Name
  BY SomeElements DEF Name

\* What is inserted in a list is in the list.
LEMMA InsertedType ==
  ASSUME NEW E, NEW s \in Seq(E), NEW x \in E, NEW i \in 1 .. Len(s) + 1
  PROVE  InsertAt(s, i, x) \in Seq(E)
<1>1. Len(s) \in Nat /\ Len(s) \in Int /\ i \in Int /\ i - 1 \in Int /\ 1 <= i /\ i - 1 <= Len(s)
  OBVIOUS
<1>2. SubSeq(s, 1, i - 1) \in Seq(E) /\ SubSeq(s, i, Len(s)) \in Seq(E)
  BY <1>1, SomeElements
<1>3. <<x>> \in Seq(E)
  OBVIOUS
<1>4. QED BY <1>2, <1>3, ConcatProperties DEF InsertAt

\* An open member is inside something.
LEMMA OpenMember ==
  ASSUME NEW model, WellFormed(Nat, model), Top(model) \in DOMAIN model.members
  PROVE  Len(model.stack) > 1
<1>1. Len(model.stack) \in Nat \ {0} /\ (Len(model.stack) = 1 => Top(model) = model.root)
  BY TopOf
<1>2. Top(model) # model.root
  BY Parts DEF IsStrictPrefix
<1> DEFINE n == Len(model.stack)
<1>3. n \in Nat \ {0} /\ n # 1
  BY <1>1, <1>2
<1> HIDE DEF n
<1>4. n > 1
  BY <1>3
<1>5. QED BY <1>4 DEF n

\* The number of a new transition.
LEMMA MemberCount ==
  ASSUME NEW model, WellFormed(Nat, model)
  PROVE  StructuralMemberCount(model) \in Nat
<1> DEFINE S == Members(model, "state") \cup Members(model, "vertex") \cup Members(model, "transition")
<1>1. S \in SUBSET DOMAIN model.members /\ IsFiniteSet(DOMAIN model.members)
  BY Parts DEF Members
<1> HIDE DEF S
<1>2. Cardinality(S) \in Nat
  BY <1>1, FS_Subset, FS_CardinalityType
<1>3. QED BY <1>2 DEF StructuralMemberCount, S

\* partial_transition
LEMMA TransitionFits ==
  ASSUME Naming(Nat), NEW model, WellFormed(Nat, model)
  PROVE  WellFormed(Nat, PartialTransition(model))
<1> DEFINE x == Numbered("transition", StructuralMemberCount(model))
           e == NewTransition(Top(model), <<>>)
           t == Append(Top(model), x)
           n == Put(model, t, e)
<1>1. NamedAs(Nat, x, "transition") /\ x \in Segment
  BY MemberCount, MadeUp, SegmentType DEF Sorts
<1>2. x # "transition"
  BY MemberCount DEF Naming
<1>3. Top(model) \in Name /\ <<>> \in Seq(Name)
  BY TopOf
<1>4. /\ IsElement(e) /\ e.is = "transition" /\ Sort(e) = "transition"
      /\ \A other : \A a \in DOMAIN e : Suits(other, t, a, e[a])
  BY <1>3, NewTransitionFits
<1>5. PartialTransition(model) = Push(n, t)
  BY DEF PartialTransition
<1> HIDE DEF e, x
<1>6. WellFormed(Nat, n) /\ Top(n) = Top(model) /\ DOMAIN n.members = DOMAIN model.members \cup {t} /\ Front(t) = Top(model)
  BY <1>1, <1>2, <1>4, PutInTop
<1> HIDE DEF n, t
<1>7. QED BY <1>5, <1>6, PushFits

\* A vertex lists transitions.
LEMMA ListOfVertex ==
  ASSUME NEW model, WellFormed(Nat, model), NEW v, IsVertex(model, v)
  PROVE  /\ v \in DOMAIN model.members /\ "transitions" \in DOMAIN model.members[v]
         /\ Suits(model, v, "transitions", model.members[v].transitions)
         /\ model.members[v].transitions \in Seq(Name)
<1>1. v \in DOMAIN model.members /\ model.members[v].is \in {"state", "vertex"}
  BY DEF IsVertex, HasKind, IsState, Is
<1>2. IsElement(model.members[v]) /\ \A field \in DOMAIN model.members[v] : Suits(model, v, field, model.members[v][field])
  BY <1>1 DEF WellFormed, IsMember
<1>3. "transitions" \in DOMAIN model.members[v]
  BY <1>1, <1>2, FieldsOf DEF IsElement
<1>4. Suits(model, v, "transitions", model.members[v].transitions)
  BY <1>2, <1>3
<1>5. QED BY <1>1, <1>3, <1>4 DEF Suits, ReferenceLists

\* The end of a transition: its source lists it.
LEMMA CloseTransitionFits ==
  ASSUME NEW model, WellFormed(Nat, model), IsTransition(model, Top(model))
  PROVE  WellFormed(Nat, CloseTransition(model))
<1> DEFINE t      == Top(model)
           owner  == Front(t)
           source == model.members[t].source
           first  == /\ owner = model.root /\ source # owner
                     /\ ~(HasKind(model, source, {"exit_point"}) /\ model.members[t].guard = None)
           index  == IF first THEN SourceTransitionInsertIndex(model, source, owner)
                     ELSE Len(model.members[source].transitions) + 1
           list   == InsertAt(model.members[source].transitions, index, t)
           n      == IF ~IsVertex(model, source) THEN model ELSE Edit(model, source, "transitions", list)
<1>1. CloseTransition(model) = Pop(n)
  BY DEF CloseTransition
<1>2. t \in Name /\ IsTransition(model, t)
  BY TopOf
<1>3. WellFormed(Nat, n) /\ n.stack = model.stack
  <2>1. CASE ~IsVertex(model, source)
    BY <2>1
  <2>2. CASE IsVertex(model, source)
    <3> DEFINE old == model.members[source].transitions
    <3>1. old \in Seq(Name) /\ Suits(model, source, "transitions", old)
      BY <2>2, ListOfVertex
    <3>2. index \in 1 .. Len(old) + 1
      <4>1. CASE ~first
        <5>1. index = Len(old) + 1
          BY <4>1
        <5>2. Len(old) \in Nat
          BY <3>1
        <5> HIDE DEF old, index
        <5>3. QED BY <5>1, <5>2
      <4>2. CASE first
        <5> DEFINE own == {i \in DOMAIN old : Front(old[i]) # owner}
        <5>1. index = IF own = {} THEN Len(old) + 1 ELSE Min(own)
          BY <4>2 DEF SourceTransitionInsertIndex
        <5>2. own \in SUBSET (1 .. Len(old)) /\ Len(old) \in Nat
          BY <3>1
        <5> HIDE DEF own, old, index
        <5>3. own \in SUBSET Nat
          BY <5>2
        <5>4. own # {} => Min(own) \in own
          BY <5>3, MinIn
        <5>5. QED BY <5>1, <5>2, <5>4
      <4>3. QED BY <4>1, <4>2
    <3> HIDE DEF index
    <3> DEFINE T == {p \in Name : IsTransition(model, p)}
    <3>3. old \in Seq(T) /\ t \in T
      <4>1. \A p \in ToSet(old) : p \in T
        <5> HIDE DEF t, owner, source, first, list, n
        <5>1. \A p \in ToSet(old) : IsTransition(model, p)
          BY <3>1 DEF Suits
        <5>2. \A p \in ToSet(old) : p \in Name
          BY <3>1, ElementsIn
        <5>3. QED BY <5>1, <5>2
      <4>2. QED BY <1>2, <3>1, <4>1, InElements
    <3>4. list = InsertAt(old, index, t)
      OBVIOUS
    <3> HIDE DEF old, list, T
    <3>5. list \in Seq(T)
      BY <3>2, <3>3, <3>4, InsertedType
    <3>6. list \in Seq(Name) /\ \A p \in ToSet(list) : IsTransition(model, p)
      <4>1. \A p \in ToSet(list) : p \in T
        BY <3>5, ElementsIn
      <4>2. \A p \in T : p \in Name /\ IsTransition(model, p)
        BY DEF T
      <4>3. \A p \in ToSet(list) : p \in Name /\ IsTransition(model, p)
        BY <4>1, <4>2
      <4>4. list \in Seq(Name)
        BY <3>5, <4>3, InElements
      <4>5. QED BY <4>3, <4>4
    <3>7. Suits(model, source, "transitions", list)
      BY <3>6 DEF Suits, References, BehaviorLists
    <3> HIDE DEF source
    <3>8. LET other == Edit(model, source, "transitions", list) IN WellFormed(Nat, other) /\ other.stack = model.stack
      BY <3>7, EditFits
    <3>9. n = Edit(model, source, "transitions", list)
      BY <2>2 DEF list, source
    <3>10. QED BY <3>8, <3>9
  <2>3. QED BY <2>1, <2>2
<1>4. Len(model.stack) > 1
  BY OpenMember DEF IsTransition, Is
<1> HIDE DEF n
<1>5. QED BY <1>1, <1>3, <1>4, PopFits

\* A path leads from a name to a name.
LEMMA ResolvedName ==
  ASSUME NEW base \in Name, NEW path, path.up \in Nat, path.down \in Name
  PROVE  ResolveRelativePath(base, path) \in Name
<1>1. Len(base) \in Nat
  BY NameType
<1>2. Len(base) - path.up \in Int /\ Len(base) - path.up <= Len(base) /\ 1 \in Int /\ 1 <= 1
  BY <1>1
<1>3. SubSeq(base, 1, Len(base) - path.up) \in Name
  BY <1>2, SomeSegments
<1>4. QED BY <1>3, ConcatName DEF ResolveRelativePath

\* The innermost open state or the machine has a name.
LEMMA ContextName ==
  ASSUME NEW model, WellFormed(Nat, model)
  PROVE  TransitionEndpointContext(model) \in Name
<1> DEFINE open == {i \in DOMAIN model.stack : model.stack[i] = model.root \/ IsState(model, model.stack[i])}
           n == Len(model.stack)
<1>1. model.stack \in Seq(Name) /\ n \in Nat \ {0} /\ model.stack[1] = model.root /\ DOMAIN model.stack = 1 .. n
  BY TopOf DEF WellFormed
<1>2. TransitionEndpointContext(model) = model.stack[Max(open)]
  BY DEF TransitionEndpointContext
<1>3. 1 \in open /\ open \in SUBSET (1 .. n)
  BY <1>1
<1> HIDE DEF open, n
<1>4. Max(open) \in 1 .. n
  BY <1>1, <1>3, MaxIn
<1>5. model.stack[Max(open)] \in Name
  BY <1>1, <1>4
<1>6. QED BY <1>2, <1>5

\* A reference to an operation is a name.
LEMMA OperationName ==
  ASSUME NEW model, WellFormed(Nat, model), NEW name \in Segment
  PROVE  ResolveModelReference(model, name) \in Name
<1>1. Top(model) \in Name /\ model.root \in Name
  BY TopOf, Parts
<1>2. IsTransition(model, Top(model)) => Front(Top(model)) \in Name
  <2>1. IsTransition(model, Top(model)) => Top(model) # None
    BY Parts DEF IsTransition, Is
  <2>2. QED BY <1>1, <2>1, FrontName
<1> DEFINE owner == IF IsTransition(model, Top(model)) THEN Front(Top(model)) ELSE Top(model)
<1>3. owner \in Name
  BY <1>1, <1>2
<1>4. ResolveModelReference(model, name) = IF Append(owner, name) \in DOMAIN model.members THEN Append(owner, name) ELSE Append(model.root, name)
  BY DEF ResolveModelReference
<1> HIDE DEF owner
<1>5. Append(owner, name) \in Name /\ Append(model.root, name) \in Name
  BY <1>1, <1>3, AppendName
<1>6. QED BY <1>4, <1>5

\* partial_source and partial_target
LEMMA EndpointFits ==
  ASSUME NEW model, WellFormed(Nat, model), NEW path \in Paths
  PROVE  WellFormed(Nat, PartialSource(model, path)) /\ WellFormed(Nat, PartialTarget(model, path))
<1> DEFINE q == ResolveRelativePath(TransitionEndpointContext(model), path)
<1>1. path.up \in Nat /\ path.down \in Name
  BY DefinitionAssumption
<1>2. q \in Name
  BY <1>1, ContextName, ResolvedName
<1> HIDE DEF q
<1>3. Suits(model, Top(model), "source", q) /\ Suits(model, Top(model), "target", q)
  BY <1>2, NameSuits
<1>4. WellFormed(Nat, Edit(model, Top(model), "source", q)) /\ WellFormed(Nat, Edit(model, Top(model), "target", q))
  BY <1>3, EditFits
<1>5. QED BY <1>4 DEF PartialSource, PartialTarget, q

\* A trigger or a deferred event more.
LEMMA ListenFits ==
  ASSUME NEW model, WellFormed(Nat, model), NEW event \in Name, NEW field \in {"events", "deferred"}
  PROVE  LET other == Extend(model, Top(model), field, <<event>>)
         IN  WellFormed(Nat, other) /\ Alike(model, other) /\ other.stack = model.stack
<1>1. <<event>> \in Seq(Name)
  OBVIOUS
<1>2. Suits(model, Top(model), field, <<event>>) /\ field \in ReferenceLists
  BY <1>1, EventsSuit DEF ReferenceLists
<1>3. QED BY <1>2, ExtendFits

\* partial_trigger and partial_defer
LEMMA TriggerFits ==
  ASSUME NEW model, WellFormed(Nat, model), NEW event \in Events
  PROVE  WellFormed(Nat, PartialTrigger(model, event)) /\ WellFormed(Nat, PartialDefer(model, event))
<1>1. event \in Name
  BY DefinitionAssumption
<1>2. QED BY <1>1, ListenFits DEF PartialTrigger, PartialDefer

\* partial_on_call
LEMMA OnCallFits ==
  ASSUME Naming(Nat), NEW model, WellFormed(Nat, model), NEW name \in OperationNames
  PROVE  WellFormed(Nat, PartialOnCall(model, name))
<1> DEFINE event == <<Call>> \o ResolveModelReference(model, name)
<1>1. Call \in Segment /\ name \in Segment
  BY DEF Naming
<1>2. <<Call>> \in Name
  BY <1>1 DEF Name
<1>3. event \in Name
  BY <1>1, <1>2, OperationName, ConcatName
<1> HIDE DEF event
<1>4. WellFormed(Nat, Extend(model, Top(model), "events", <<event>>))
  BY <1>3, ListenFits
<1>5. QED BY <1>4 DEF PartialOnCall, event

\* Other attributes are known by name.
LEMMA AttributesNamed ==
  ASSUME NEW model, WellFormed(Nat, model), NEW S,
         \A q \in S : q \in Name /\ IsStrictPrefix(model.root, q) /\ Last(q) \in AttributeNames
  PROVE  LET other == [model EXCEPT !.attributes = @ \cup S]
         IN  /\ WellFormed(Nat, other) /\ other.root = model.root /\ other.stack = model.stack
             /\ other.members = model.members
<1> DEFINE s == model.attributes \cup S
           other == [model EXCEPT !.attributes = s]
<1>1. model = [root |-> model.root, initial |-> model.initial, members |-> model.members,
               attributes |-> model.attributes, stack |-> model.stack]
  BY DEF WellFormed
<1>2. other = [root |-> model.root, initial |-> model.initial, members |-> model.members,
               attributes |-> s, stack |-> model.stack]
  <2> HIDE DEF s
  <2> QED BY <1>1
<1>3. /\ other.root = model.root /\ other.initial = model.initial /\ other.members = model.members
      /\ other.attributes = s /\ other.stack = model.stack
  BY <1>2
<1>a. other = [model EXCEPT !.attributes = @ \cup S]
  OBVIOUS
<1> HIDE DEF other
<1>4. \A b \in DOMAIN other.members : IsMember(Nat, other, b, other.members[b])
  <2> TAKE b \in DOMAIN other.members
  <2>1. IsMember(Nat, model, b, model.members[b])
    BY <1>3 DEF WellFormed
  <2>2. QED BY <1>3, <2>1 DEF IsMember, Suits, Is, IsTransition, HasSort
<1>5. other.initial = None \/ HasSort(other, other.initial, "initial")
  BY <1>3 DEF HasSort, WellFormed
<1>6. \A i \in 2 .. Len(other.stack) :
        other.stack[i] \in DOMAIN other.members /\ Front(other.stack[i]) = other.stack[i - 1]
  BY <1>3 DEF WellFormed
<1>b. \A b \in other.attributes : b \in Name /\ IsStrictPrefix(other.root, b) /\ Last(b) \in AttributeNames
  <2>1. \A b \in model.attributes : b \in Name /\ IsStrictPrefix(model.root, b) /\ Last(b) \in AttributeNames
    BY DEF WellFormed
  <2>2. QED BY <1>3, <2>1
<1>7. /\ IsRoot(other.root)
      /\ IsFiniteSet(DOMAIN other.members) /\ other.members = [b \in DOMAIN other.members |-> other.members[b]]
      /\ other.stack \in Seq(Name) /\ other.stack # <<>> /\ other.stack[1] = other.root
  BY <1>3 DEF WellFormed
<1>8. other = [root |-> other.root, initial |-> other.initial, members |-> other.members,
               attributes |-> other.attributes, stack |-> other.stack]
  BY <1>2, <1>3
<1>9. WellFormed(Nat, other)
  BY <1>4, <1>5, <1>6, <1>7, <1>8, <1>b DEF WellFormed
<1>10. QED BY <1>3, <1>9, <1>a

\* Another attribute is.
LEMMA AttributeNamed ==
  ASSUME Naming(Nat), NEW model, WellFormed(Nat, model), NEW p \in Name, IsPrefix(model.root, p),
         NEW name \in AttributeNames
  PROVE  LET other == [model EXCEPT !.attributes = @ \cup {Append(p, name)}]
         IN  /\ WellFormed(Nat, other) /\ other.root = model.root /\ other.stack = model.stack
             /\ other.members = model.members
<1> DEFINE q == Append(p, name)
<1>1. q \in Name /\ IsStrictPrefix(model.root, q) /\ Last(q) \in AttributeNames
  BY Parts, UserSegments, AppendName, AppendBelow
<1> HIDE DEF q
<1>2. \A b \in {q} : b \in Name /\ IsStrictPrefix(model.root, b) /\ Last(b) \in AttributeNames
  BY <1>1
<1>3. LET other == [model EXCEPT !.attributes = @ \cup {q}]
      IN  /\ WellFormed(Nat, other) /\ other.root = model.root /\ other.stack = model.stack
          /\ other.members = model.members
  BY <1>2, AttributesNamed
<1>4. QED BY <1>3 DEF q

\* The declaration of an operation or of an attribute.
LEMMA DeclarationFits ==
  ASSUME Naming(Nat), NEW model, WellFormed(Nat, model), NEW p \in Name, IsPrefix(model.root, p),
         NEW name \in OperationNames \cup AttributeNames,
         NEW e, NEW kind, e \in {NewOperation(kind), NewAttribute}
  PROVE  WellFormed(Nat, Put(model, Append(p, name), e))
<1>1. name \in Segment /\ NamedAs(Nat, name, "user") /\ name # "transition"
  BY UserSegments, UserIsNotMadeUp
<1>2. /\ IsElement(e) /\ e.is \in {"operation", "attribute"} /\ Sort(e) = "user"
      /\ \A other, q : \A field \in DOMAIN e : Suits(other, q, field, e[field])
  BY NewDeclarationFits
<1>3. QED BY <1>1, <1>2, PutFits

\* partial_attribute, partial_operation and partial_guard_operation
LEMMA DeclaredFits ==
  ASSUME Naming(Nat), NEW model, WellFormed(Nat, model)
  PROVE  /\ \A name \in AttributeNames : WellFormed(Nat, PartialAttribute(model, name))
         /\ \A name \in OperationNames :
              WellFormed(Nat, PartialOperation(model, name)) /\ WellFormed(Nat, PartialGuardOperation(model, name))
<1>1. Top(model) \in Name /\ IsPrefix(model.root, Top(model))
  BY TopOf
<1>2. ASSUME NEW name \in AttributeNames PROVE WellFormed(Nat, PartialAttribute(model, name))
  <2> DEFINE q == Append(Top(model), name)
             n == [model EXCEPT !.attributes = @ \cup {q}]
  <2>1. WellFormed(Nat, n) /\ n.root = model.root
    BY <1>1, AttributeNamed
  <2>2. PartialAttribute(model, name) = Put(n, q, NewAttribute)
    BY DEF PartialAttribute
  <2> HIDE DEF n
  <2>3. QED BY <1>1, <2>1, <2>2, DeclarationFits
<1>3. ASSUME NEW name \in OperationNames
      PROVE  WellFormed(Nat, PartialOperation(model, name)) /\ WellFormed(Nat, PartialGuardOperation(model, name))
  BY <1>1, DeclarationFits DEF PartialOperation, PartialGuardOperation
<1>4. QED BY <1>2, <1>3

\* partial_on_set
LEMMA OnSetFits ==
  ASSUME Naming(Nat), NEW model, WellFormed(Nat, model), NEW name \in AttributeNames
  PROVE  WellFormed(Nat, PartialOnSet(model, name))
<1> DEFINE event == Append(model.root, name)
           listened == Extend(model, Top(model), "events", <<event>>)
           n == [listened EXCEPT !.attributes = @ \cup {event}]
<1>1. model.root \in Name /\ IsPrefix(model.root, model.root) /\ event \in Name
  BY Parts, PrefixReflexive, UserSegments, AppendName
<1>2. WellFormed(Nat, listened) /\ listened.root = model.root
  <2> HIDE DEF event
  <2>1. WellFormed(Nat, listened) /\ Alike(model, listened)
    BY <1>1, ListenFits
  <2>2. QED BY <2>1 DEF Alike
<1>3. PartialOnSet(model, name) = IF event \in model.attributes THEN listened ELSE Put(n, event, NewAttribute)
  BY DEF PartialOnSet
<1> HIDE DEF listened
<1>4. WellFormed(Nat, n) /\ n.root = model.root
  BY <1>1, <1>2, AttributeNamed
<1> HIDE DEF n
<1>5. WellFormed(Nat, Put(n, event, NewAttribute))
  BY <1>1, <1>4, DeclarationFits
<1>6. QED BY <1>2, <1>3, <1>5

\* The source and the target of a transition are names.
LEMMA EndpointNames ==
  ASSUME NEW model, WellFormed(Nat, model), NEW t, IsTransition(model, t)
  PROVE  model.members[t].source \in Name /\ model.members[t].target \in Name /\ model.members[t].events \in Seq(Name)
<1>1. t \in DOMAIN model.members /\ model.members[t].is = "transition"
  BY DEF IsTransition, Is
<1> DEFINE e == model.members[t]
<1>2. IsElement(e) /\ e.is = "transition" /\ \A field \in DOMAIN e : Suits(model, t, field, e[field])
  BY <1>1 DEF WellFormed, IsMember
<1> HIDE DEF e
<1>3. {"source", "target", "events"} \subseteq DOMAIN e
  BY <1>2, FieldsOf DEF IsElement
<1>4. Suits(model, t, "source", e.source) /\ Suits(model, t, "target", e.target) /\ Suits(model, t, "events", e.events)
  BY <1>2, <1>3
<1>5. e.source \in Name /\ e.target \in Name /\ e.events \in Seq(Name)
  BY <1>4 DEF Suits, References, ReferenceLists
<1>6. QED BY <1>5 DEF e

\* select_entry_point and select_exit_point
LEMMA SelectFits ==
  ASSUME NEW model, WellFormed(Nat, model), IsTransition(model, Top(model)), NEW name \in Segment
  PROVE  WellFormed(Nat, SelectEntryPoint(model, name)) /\ WellFormed(Nat, SelectExitPoint(model, name))
<1> DEFINE t == model.members[Top(model)]
           inside == Append(IF t.target = None THEN t.source ELSE t.target, name)
           found == {q \in Members(model, "vertex") : /\ model.members[q].kind = "exit_point"
                                              /\ Last(q) = name /\ IsPrefix(t.source, q)}
           direct == Append(t.source, name)
           exit == IF direct \in found \/ found = {} THEN direct ELSE CHOOSE q \in found : TRUE
<1>1. t.source \in Name /\ t.target \in Name
  BY EndpointNames
<1>2. SelectEntryPoint(model, name) = Edit(model, Top(model), "target", inside)
  BY DEF SelectEntryPoint
<1>3. SelectExitPoint(model, name) = Edit(model, Top(model), "source", exit)
  BY DEF SelectExitPoint, ResolveExitPointSource
<1>4. \A q \in found : q \in Name
  BY Parts DEF Members
<1> HIDE DEF t, found
<1>5. inside \in Name /\ direct \in Name
  BY <1>1, AppendName
<1>6. exit \in Name
  BY <1>4, <1>5
<1> HIDE DEF inside, exit
<1>7. Suits(model, Top(model), "target", inside) /\ Suits(model, Top(model), "source", exit)
  BY <1>5, <1>6, NameSuits
<1>8. QED BY <1>2, <1>3, <1>7, EditFits

\* A new constraint of the open transition.
LEMMA ConstraintFits ==
  ASSUME Naming(Nat), NEW model, WellFormed(Nat, model), NEW operation \in Name, NEW timed \in BOOLEAN,
         NEW x \in {"guard", "after", "at", "every"}
  PROVE  LET q == Append(Top(model), x)
             other == Put(model, q, NewConstraint(operation, timed))
         IN  /\ WellFormed(Nat, other) /\ Alike(model, other) /\ other.stack = model.stack
             /\ Is(other, q, "constraint") /\ q \in Name
<1> DEFINE q == Append(Top(model), x)
           e == NewConstraint(operation, timed)
           other == Put(model, q, e)
<1>1. NamedAs(Nat, x, "constraint") /\ x \in Segment
  BY MadeUp, SegmentType DEF Sorts
<1>2. x # "transition"
  OBVIOUS
<1>3. /\ IsElement(e) /\ e.is = "constraint" /\ Sort(e) = "constraint"
      /\ \A n : \A a \in DOMAIN e : Suits(n, q, a, e[a])
  BY NewConstraintFits
<1> HIDE DEF e
<1>4. /\ WellFormed(Nat, other) /\ Alike(model, other) /\ other.stack = model.stack /\ q \in Name
      /\ DOMAIN other.members = DOMAIN model.members \cup {q} /\ other.members[q] = e
  BY <1>1, <1>2, <1>3, PutInTop
<1>5. Is(other, q, "constraint")
  <2> HIDE DEF other, q
  <2> QED BY <1>3, <1>4 DEF Is
<1>6. QED BY <1>4, <1>5 DEF e

\* A constraint becomes the guard of an open transition.
LEMMA GuardedFits ==
  ASSUME NEW model, WellFormed(Nat, model), NEW q \in Name, Is(model, q, "constraint")
  PROVE  WellFormed(Nat, Edit(model, Top(model), "guard", q))
<1>1. Suits(model, Top(model), "guard", q)
  BY DEF Suits, References, ReferenceLists, BehaviorLists
<1>2. QED BY <1>1, EditFits

\* partial_guard and partial_guard_operation_ref
LEMMA GuardFits ==
  ASSUME Naming(Nat), NEW model, WellFormed(Nat, model)
  PROVE  /\ WellFormed(Nat, PartialGuard(model))
         /\ \A name \in OperationNames : WellFormed(Nat, PartialGuardOperationRef(model, name))
<1> DEFINE q == Append(Top(model), "guard")
<1>1. ASSUME NEW operation \in Name
      PROVE  WellFormed(Nat, Edit(Put(model, q, NewConstraint(operation, FALSE)), Top(model), "guard", q))
  <2> DEFINE n == Put(model, q, NewConstraint(operation, FALSE))
  <2>1. WellFormed(Nat, n) /\ n.stack = model.stack /\ Is(n, q, "constraint") /\ q \in Name
    BY ConstraintFits
  <2> HIDE DEF n, q
  <2>2. WellFormed(Nat, Edit(n, Top(n), "guard", q))
    BY <2>1, GuardedFits
  <2>3. Top(n) = Top(model)
    BY <2>1 DEF Top
  <2>4. QED BY <2>2, <2>3 DEF n
<1>2. None \in Name
  BY DEF None, Name
<1>3. \A name \in OperationNames : ResolveModelReference(model, name) \in Name
  BY UserSegments, OperationName
<1>4. QED BY <1>1, <1>2, <1>3 DEF PartialGuard, PartialGuardOperationRef

\* partial_after, partial_at and partial_every
LEMMA TimerFits ==
  ASSUME Naming(Nat), NEW model, WellFormed(Nat, model), NEW timer \in {"after", "at", "every"}
  PROVE  WellFormed(Nat, PartialTimer(model, timer))
<1> DEFINE q      == Append(Top(model), timer)
           moment == Append(Top(model), IF timer = "at" THEN "timepoint" ELSE "duration")
           events == <<moment, TimerEvent(timer)>>
           n      == Put(model, q, NewConstraint(None, TRUE))
           timed  == Extend(n, Top(model), "events", events)
<1>1. None \in Name
  BY DEF None, Name
<1>2. WellFormed(Nat, n) /\ n.stack = model.stack /\ Is(n, q, "constraint") /\ q \in Name
  <2>1. timer \in {"guard", "after", "at", "every"} /\ TRUE \in BOOLEAN
    OBVIOUS
  <2>2. QED BY <1>1, <2>1, ConstraintFits
<1>3. events \in Seq(Name)
  <2>1. (IF timer = "at" THEN "timepoint" ELSE "duration") \in Segment
    BY DEF Naming
  <2>2. moment \in Name
    BY <2>1, TopOf, AppendName
  <2>3. TimerEvent(timer) \in Name
    BY DEF Naming
  <2> HIDE DEF moment
  <2>4. QED BY <2>2, <2>3
<1>4. PartialTimer(model, timer) = IF model.members[Top(model)].guard = None THEN Edit(timed, Top(model), "guard", q) ELSE timed
  BY DEF PartialTimer
<1> HIDE DEF n, events, q
<1>5. Suits(n, Top(model), "events", events) /\ "events" \in ReferenceLists
  BY <1>3, EventsSuit DEF ReferenceLists
<1>6. /\ WellFormed(Nat, timed) /\ timed.stack = n.stack /\ DOMAIN timed.members = DOMAIN n.members
      /\ \A p \in DOMAIN n.members : timed.members[p].is = n.members[p].is
  BY <1>2, <1>5, ExtendFits
<1> HIDE DEF timed
<1>7. Is(timed, q, "constraint")
  BY <1>2, <1>6 DEF Is
<1>8. Top(timed) = Top(model)
  BY <1>2, <1>6 DEF Top
<1>9. WellFormed(Nat, Edit(timed, Top(timed), "guard", q))
  BY <1>2, <1>6, <1>7, GuardedFits
<1>10. QED BY <1>4, <1>6, <1>8, <1>9

-----------------------------------------------------------------------------
(* The elements of a definition: behaviours and hooks *)

\* The elements of a sequence are finitely many.
LEMMA FiniteElements ==
  ASSUME NEW E, NEW s \in Seq(E)
  PROVE  IsFiniteSet(ToSet(s))
<1> DEFINE I == 1 .. Len(s)
           f == [i \in I |-> s[i]]
<1>1. IsFiniteSet(I)
  BY FS_Interval
<1>2. f \in Surjection(I, ToSet(s))
  BY DEF ToSet, Surjection
<1> HIDE DEF f, I
<1>3. QED BY <1>1, <1>2, FS_Surjection

\* Behaviours are attached to the innermost open element.
LEMMA AttachFits ==
  ASSUME Naming(Nat), NEW model, WellFormed(Nat, model), NEW role \in Roles,
         NEW segments, NEW n \in Nat, segments = [i \in 1 .. n |-> segments[i]],
         \A i \in 1 .. n : NamedAs(Nat, segments[i], "behavior"),
         NEW behaviors,
         \A i \in 1 .. n : /\ IsElement(behaviors[i]) /\ behaviors[i].is = "behavior" /\ Sort(behaviors[i]) = "behavior"
                           /\ \A other, q : \A a \in DOMAIN behaviors[i] : Suits(other, q, a, behaviors[i][a])
  PROVE  WellFormed(Nat, Attach(model, role, segments, behaviors))
<1> DEFINE names == [i \in DOMAIN segments |-> Append(Top(model), segments[i])]
           f == [q \in ToSet(names) |-> behaviors[CHOOSE i \in DOMAIN names : names[i] = q]]
           added == [model EXCEPT !.members = Overlay(f, @)]
<1>1. DOMAIN segments = 1 .. n
  OBVIOUS
<1>2. ASSUME NEW i \in 1 .. n
      PROVE  /\ segments[i] \in Segment /\ segments[i] # "transition"
             /\ names[i] \in Name /\ Front(names[i]) = Top(model) /\ Last(names[i]) = segments[i]
             /\ IsStrictPrefix(model.root, names[i])
  <2>1. NamedAs(Nat, segments[i], "behavior")
    OBVIOUS
  <2>2. segments[i] \in Segment
    BY <2>1, SegmentType DEF Sorts
  <2>3. segments[i] # "transition"
    BY <2>1, MadeUp, SortDecides DEF Sorts
  <2>4. names[i] = Append(Top(model), segments[i])
    BY <1>1
  <2> HIDE DEF names
  <2>5. QED BY <2>2, <2>3, <2>4, TopOf, Parts, AppendName, AppendBelow
<1>3. names \in Seq(Name) /\ DOMAIN names = 1 .. n /\ Len(names) = n
  <2>1. names = [i \in 1 .. n |-> names[i]]
    BY <1>1
  <2> HIDE DEF names
  <2>2. QED BY <1>2, <2>1
<1>4. ASSUME NEW q \in ToSet(names)
      PROVE  \E i \in 1 .. n : names[i] = q /\ f[q] = behaviors[i]
  <2>1. \E i \in DOMAIN names : names[i] = q
    <3> HIDE DEF names
    <3> QED BY DEF ToSet
  <2> DEFINE k == CHOOSE i \in DOMAIN names : names[i] = q
  <2>2. k \in DOMAIN names /\ names[k] = q
    <3> HIDE DEF names
    <3> QED BY <2>1
  <2>3. f[q] = behaviors[k]
    OBVIOUS
  <2> HIDE DEF k, names, f
  <2>4. QED BY <1>3, <2>2, <2>3
<1>5. DOMAIN f = ToSet(names) /\ IsFiniteSet(DOMAIN f)
  BY <1>3, FiniteElements
<1> HIDE DEF f, names
<1>6. ASSUME NEW q \in DOMAIN f
      PROVE  /\ IsMember(Nat, added, q, f[q]) /\ f[q].is = "behavior"
             /\ q \in Name /\ Front(q) = Top(model)
  <2>1. PICK i \in 1 .. n : names[i] = q /\ f[q] = behaviors[i]
    BY <1>4, <1>5
  <2>2. /\ q \in Name /\ Front(q) = Top(model) /\ Last(q) = segments[i] /\ IsStrictPrefix(model.root, q)
        /\ segments[i] # "transition"
    BY <1>2, <2>1
  <2>3. added.root = model.root
    BY DEF WellFormed
  <2> HIDE DEF added
  <2>4. /\ IsElement(f[q]) /\ f[q].is = "behavior" /\ Sort(f[q]) = "behavior"
        /\ \A field \in DOMAIN f[q] : Suits(added, q, field, f[q][field])
    BY <2>1
  <2>5. NamedAs(Nat, Last(q), Sort(f[q]))
    BY <2>2, <2>4
  <2>6. QED BY <2>2, <2>3, <2>4, <2>5 DEF IsMember
<1>7. /\ added.members = Overlay(f, model.members) /\ added.stack = model.stack
  BY DEF WellFormed
<1>a. added = [model EXCEPT !.members = Overlay(f, @)]
  OBVIOUS
<1>b. Attach(model, role, segments, behaviors) =
        IF Top(model) \in DOMAIN model.members /\ List(role) \in DOMAIN model.members[Top(model)]
        THEN Extend(added, Top(model), List(role), names) ELSE added
  BY DEF Attach, f, names
<1> HIDE DEF added
<1>8. WellFormed(Nat, added)
  BY <1>5, <1>6, <1>a, Overlaid
<1>9. \A q \in ToSet(names) : Is(added, q, "behavior") /\ Front(q) = Top(model)
  <2> TAKE q \in ToSet(names)
  <2>1. q \in DOMAIN f
    BY <1>5
  <2>2. q \in DOMAIN added.members /\ added.members[q] = f[q]
    BY <1>7, <2>1 DEF Overlay
  <2>3. QED BY <1>6, <2>1, <2>2 DEF Is
<1>10. Suits(added, Top(model), List(role), names) /\ List(role) \in ReferenceLists
  <2>1. List(role) \in {"entry", "exit", "activities", "effect"}
    BY DEF List, Roles
  <2>2. QED BY <1>3, <1>9, <2>1 DEF Suits, References, ReferenceLists
<1>11. WellFormed(Nat, Extend(added, Top(model), List(role), names))
  BY <1>8, <1>10, ExtendFits
<1>12. QED BY <1>8, <1>11, <1>b

\* The functions of an entry, exit, activity or effect element.
LEMMA FunctionsFit ==
  ASSUME Naming(Nat), NEW model, WellFormed(Nat, model), NEW role \in Roles,
         NEW E, NEW functions \in Seq(E)
  PROVE  WellFormed(Nat, PartialFunctions(model, role, functions))
<1> DEFINE n == Len(functions)
           segments == [i \in DOMAIN functions |-> Nth(role, i)]
           behaviors == [i \in DOMAIN functions |-> NewBehavior(role, functions[i])]
<1>1. n \in Nat /\ DOMAIN functions = 1 .. n
  OBVIOUS
<1>2. segments = [i \in 1 .. n |-> segments[i]]
  BY <1>1
<1>3. ASSUME NEW i \in 1 .. n
      PROVE  /\ NamedAs(Nat, segments[i], "behavior")
             /\ IsElement(behaviors[i]) /\ behaviors[i].is = "behavior" /\ Sort(behaviors[i]) = "behavior"
             /\ \A other, q : \A a \in DOMAIN behaviors[i] : Suits(other, q, a, behaviors[i][a])
  <2>1. i \in Nat \ {0} /\ i \in DOMAIN functions
    BY <1>1
  <2>2. segments[i] = Nth(role, i) /\ behaviors[i] = NewBehavior(role, functions[i])
    BY <2>1
  <2>3. NamedAs(Nat, Nth(role, i), "behavior")
    BY <2>1, MadeUp
  <2> HIDE DEF segments, behaviors
  <2>4. QED BY <2>2, <2>3, NewBehaviorFits
<1>4. PartialFunctions(model, role, functions) = Attach(model, role, segments, behaviors)
  BY DEF PartialFunctions
<1> HIDE DEF segments, behaviors, n
<1>5. QED BY <1>1, <1>2, <1>3, <1>4, AttachFits

\* A behaviour that calls an operation.
LEMMA BehaviorOperationFits ==
  ASSUME Naming(Nat), NEW model, WellFormed(Nat, model), NEW role \in Roles, NEW name \in OperationNames
  PROVE  WellFormed(Nat, PartialBehaviorOperation(model, role, name))
<1> DEFINE segments == <<Calling(role, name)>>
           e == [NewBehavior("none", "none") EXCEPT !.operation = ResolveModelReference(model, name)]
           behaviors == <<e>>
<1>1. segments = [i \in 1 .. 1 |-> segments[i]] /\ segments[1] = Calling(role, name) /\ behaviors[1] = e
  OBVIOUS
<1>2. NamedAs(Nat, Calling(role, name), "behavior")
  BY MadeUp
<1>3. ResolveModelReference(model, name) \in Name
  BY UserSegments, OperationName
<1>4. /\ IsElement(e) /\ e.is = "behavior" /\ Sort(e) = "behavior"
      /\ \A other, q : \A a \in DOMAIN e : Suits(other, q, a, e[a])
  BY <1>3, NewCallFits
<1>5. PartialBehaviorOperation(model, role, name) = Attach(model, role, segments, behaviors)
  BY DEF PartialBehaviorOperation
<1>a. \A i \in 1 .. 1 : i = 1
  OBVIOUS
<1> HIDE DEF segments, e, behaviors
<1>6. \A i \in 1 .. 1 : /\ NamedAs(Nat, segments[i], "behavior")
             /\ IsElement(behaviors[i]) /\ behaviors[i].is = "behavior" /\ Sort(behaviors[i]) = "behavior"
             /\ \A other, q : \A a \in DOMAIN behaviors[i] : Suits(other, q, a, behaviors[i][a])
  BY <1>1, <1>2, <1>4, <1>a
<1>7. 1 \in Nat
  OBVIOUS
<1>8. QED BY <1>1, <1>5, <1>6, <1>7, AttachFits

\* There is a free number for a hook of the machine.
LEMMA HookNumber ==
  ASSUME Naming(Nat), NEW model, WellFormed(Nat, model), NEW prefix \in Hooks
  PROVE  \E i \in Nat : /\ i <= Cardinality(DOMAIN model.members)
                        /\ UniqueModelHookName(model, prefix) = Append(model.root, Numbered(prefix, i))
                        /\ Append(model.root, Numbered(prefix, i)) \notin DOMAIN model.members
                        /\ \A j \in 0 .. i - 1 : Append(model.root, Numbered(prefix, j)) \in DOMAIN model.members
<1> DEFINE c == Cardinality(DOMAIN model.members)
           Hook(i) == Append(model.root, Numbered(prefix, i))
           free == {i \in 0 .. c : Hook(i) \notin DOMAIN model.members}
<1>1. IsFiniteSet(DOMAIN model.members) /\ c \in Nat /\ model.root \in Name
  BY Parts, FS_CardinalityType
<1>2. \A i \in Nat : Numbered(prefix, i) \in Segment
  BY MadeUp, SegmentType DEF Hooks, Sorts
<1>3. ASSUME NEW i \in Nat, NEW j \in Nat, Hook(i) = Hook(j) PROVE i = j
  <2>1. Last(Hook(i)) = Numbered(prefix, i) /\ Last(Hook(j)) = Numbered(prefix, j)
    BY <1>1, <1>2, AppendName
  <2>2. Numbered(prefix, i) = Numbered(prefix, j)
    BY <1>3, <2>1
  <2>3. QED BY <2>2 DEF Naming
<1>4. free # {}
  <2> SUFFICES ASSUME free = {} PROVE FALSE
    OBVIOUS
  <2> DEFINE f == [i \in 0 .. c |-> Hook(i)]
  <2>1. f \in [0 .. c -> DOMAIN model.members]
    OBVIOUS
  <2>2. IsFiniteSet(0 .. c) /\ Cardinality(0 .. c) = c + 1
    BY <1>1, FS_Interval
  <2>3. \A i \in 0 .. c : f[i] = Hook(i) /\ i \in Nat
    BY <1>1
  <2> HIDE DEF f, c, Hook
  <2>4. c < Cardinality(0 .. c)
    BY <1>1, <2>2
  <2>5. \E i, j \in 0 .. c : i # j /\ f[i] = f[j]
    BY <1>1, <2>1, <2>2, <2>4, FS_PigeonHole DEF c
  <2>6. QED BY <1>3, <2>3, <2>5
<1> HIDE DEF Hook
<1>5. PICK l \in free : \A k \in free : l <= k
  <2>1. free \in SUBSET Nat
    BY <1>1
  <2> HIDE DEF free
  <2>2. QED BY <1>4, <2>1, LeastElement
<1> DEFINE P(i) == Hook(i) \notin DOMAIN model.members /\ \A j \in 0 .. i - 1 : Hook(j) \in DOMAIN model.members
           n == CHOOSE i \in 0 .. c : P(i)
<1>6. l \in 0 .. c /\ P(l)
  <2>1. l \in 0 .. c /\ Hook(l) \notin DOMAIN model.members
    OBVIOUS
  <2>2. ASSUME NEW j \in 0 .. l - 1 PROVE Hook(j) \in DOMAIN model.members
    <3>1. j \in 0 .. c /\ ~(l <= j)
      BY <1>1, <2>1
    <3>2. QED BY <1>5, <3>1
  <2>3. QED BY <2>1, <2>2
<1>7. n \in 0 .. c /\ P(n)
  <2> HIDE DEF P
  <2> QED BY <1>6
<1>8. UniqueModelHookName(model, prefix) = Hook(n)
  BY DEF UniqueModelHookName, Hook
<1> HIDE DEF n
<1>9. n \in Nat /\ n <= c
  BY <1>1, <1>7
<1>10. QED BY <1>7, <1>8, <1>9 DEF Hook

\* A hook of the machine under a free name.
LEMMA HookFits ==
  ASSUME Naming(Nat), NEW model, WellFormed(Nat, model), NEW prefix \in Hooks,
         NEW e, IsElement(e), e.is = prefix, Sort(e) = prefix,
         \A other, q : \A field \in DOMAIN e : Suits(other, q, field, e[field])
  PROVE  WellFormed(Nat, Put(model, UniqueModelHookName(model, prefix), e))
<1>1. PICK i \in Nat : UniqueModelHookName(model, prefix) = Append(model.root, Numbered(prefix, i))
  BY HookNumber
<1> DEFINE x == Numbered(prefix, i)
<1>2. NamedAs(Nat, x, prefix) /\ prefix \in Sorts /\ prefix # "transition"
  BY MadeUp DEF Hooks, Sorts
<1>3. x \in Segment
  BY <1>2, SegmentType
<1>4. x # "transition"
  BY <1>2, MadeUp, SortDecides DEF Sorts
<1>5. model.root \in Name /\ IsPrefix(model.root, model.root)
  BY Parts, PrefixReflexive
<1>6. e.is \notin {"state", "vertex"}
  BY DEF Hooks
<1> HIDE DEF x
<1>7. WellFormed(Nat, Put(model, Append(model.root, x), e))
  BY <1>2, <1>3, <1>4, <1>5, <1>6, PutFits
<1>8. QED BY <1>1, <1>7 DEF x

\* partial_validator and partial_finalizer
LEMMA HooksFit ==
  ASSUME Naming(Nat), NEW model, WellFormed(Nat, model), NEW does
  PROVE  WellFormed(Nat, PartialValidator(model, does)) /\ WellFormed(Nat, PartialFinalizer(model, does))
<1>1. ASSUME NEW kind \in {"validator", "finalizer"}
      PROVE  WellFormed(Nat, Put(model, UniqueModelHookName(model, kind), NewHook(kind, does)))
  <2> DEFINE e == NewHook(kind, does)
  <2>1. /\ IsElement(e) /\ e.is = kind /\ Sort(e) = kind
        /\ \A other, q : \A field \in DOMAIN e : Suits(other, q, field, e[field])
    BY NewHookFits
  <2>2. kind \in Hooks
    BY DEF Hooks
  <2> HIDE DEF e
  <2>3. QED BY <2>1, <2>2, HookFits DEF e
<1>2. QED BY <1>1 DEF PartialValidator, PartialFinalizer

\* partial_observe
LEMMA ObserveFits ==
  ASSUME Naming(Nat), NEW model, WellFormed(Nat, model), NEW observer, NEW targets, \A p \in targets : p \in Name
  PROVE  WellFormed(Nat, PartialObserve(model, observer, targets))
<1> DEFINE e == NewObservation(observer, targets)
<1>1. /\ IsElement(e) /\ e.is = "observation" /\ Sort(e) = "observation"
      /\ \A other, q : \A field \in DOMAIN e : Suits(other, q, field, e[field])
  BY NewObservationFits
<1>2. "observation" \in Hooks
  BY DEF Hooks
<1> HIDE DEF e
<1>3. WellFormed(Nat, Put(model, UniqueModelHookName(model, "observation"), e))
  BY <1>1, <1>2, HookFits
<1>4. QED BY <1>3 DEF PartialObserve, e

-----------------------------------------------------------------------------
(* Moving a model *)

\* A name below the old root is lifted, the call of one too.
LEMMA MovedName ==
  ASSUME NEW q \in Name, NEW old \in Name, NEW new \in Name
  PROVE  /\ Moved(q, old, new) \in Name
         /\ IsPrefix(old, q) => Moved(q, old, new) = Lifted(q, old, new)
<1>1. CASE IsPrefix(old, q)
  <2>1. Moved(q, old, new) = Lifted(q, old, new)
    BY <1>1 DEF Moved, Lifted
  <2>2. QED BY <1>1, <2>1, LiftedSegments
<1>2. CASE ~IsPrefix(old, q)
  BY <1>2 DEF Moved
<1>3. QED BY <1>1, <1>2

\* The names of what a machine has begin as its own does, and not as the call of an operation.
LEMMA HeadBelow ==
  ASSUME NEW r \in Name, r # None, NEW q \in Name, IsPrefix(r, q)
  PROVE  Head(q) = Head(r) /\ q # None
<1>1. Len(r) \in Nat /\ Len(q) \in Nat /\ Len(r) # 0 /\ Len(r) <= Len(q) /\ \A i \in 1 .. Len(r) : r[i] = q[i]
  BY NameType, PrefixSegments
<1>2. 1 \in 1 .. Len(r)
  BY <1>1
<1>3. r[1] = q[1] /\ Len(q) # 0
  BY <1>1, <1>2
<1>4. q # None
  BY <1>3, NameType
<1>5. Head(q) = q[1] /\ Head(r) = r[1]
  BY DEF Name
<1>6. QED BY <1>3, <1>4, <1>5

\* A name that is not empty is its first segment and a name.
LEMMA TailName ==
  ASSUME NEW q \in Name, q # None
  PROVE  Head(q) \in Segment /\ Tail(q) \in Name /\ q = <<Head(q)>> \o Tail(q)
<1>1. q \in Seq(Segment) /\ q # <<>>
  BY DEF Name, None
<1>2. Head(q) \in Segment /\ Tail(q) \in Seq(Segment) /\ q = <<Head(q)>> \o Tail(q)
  BY <1>1
<1>3. QED BY <1>2 DEF Name

\* A reference is replaced by a name, one to what is below the old root by what it is moved to.
LEMMA RebasedName ==
  ASSUME Naming(Nat), NEW q \in Name, NEW old \in Name, old # None, Head(old) # Call, NEW new \in Name
  PROVE  /\ RebaseReference(q, old, new) \in Name
         /\ IsPrefix(old, q) => RebaseReference(q, old, new) = Lifted(q, old, new)
         /\ RebaseReference(None, old, new) = None
<1>1. Call \in Segment
  BY DEF Naming
<1>2. <<Call>> \in Name
  BY <1>1 DEF Name
<1>3. RebaseReference(q, old, new) \in Name
  <2>1. CASE q # None /\ Head(q) = Call
    <3>1. Tail(q) \in Name
      BY <2>1, TailName
    <3>2. <<Call>> \o Moved(Tail(q), old, new) \in Name
      BY <1>2, <3>1, MovedName, ConcatName
    <3>3. QED BY <2>1, <3>2 DEF RebaseReference
  <2>2. CASE ~(q # None /\ Head(q) = Call)
    BY <2>2, MovedName DEF RebaseReference
  <2>3. QED BY <2>1, <2>2
<1>4. ASSUME IsPrefix(old, q) PROVE RebaseReference(q, old, new) = Lifted(q, old, new)
  <2>1. Head(q) # Call
    BY <1>4, HeadBelow
  <2>2. RebaseReference(q, old, new) = Moved(q, old, new)
    BY <2>1 DEF RebaseReference
  <2>3. QED BY <1>4, <2>2, MovedName
<1>5. RebaseReference(None, old, new) = None
  <2>1. None \in Name /\ Len(None) = 0
    BY DEF None, Name
  <2>2. ~IsPrefix(old, None)
    BY <2>1, NameType DEF IsPrefix
  <2>3. QED BY <2>2 DEF RebaseReference, Moved
<1>6. QED BY <1>3, <1>4, <1>5

\* A name that is no empty one does not become empty.
LEMMA RebasedNotEmpty ==
  ASSUME Naming(Nat), NEW q \in Name, q # None, NEW old \in Name, NEW new \in Name, new # None
  PROVE  RebaseReference(q, old, new) # None
<1>1. CASE Head(q) = Call
  <2>1. Moved(Tail(q), old, new) \in Name /\ Call \in Segment
    BY TailName, MovedName DEF Naming
  <2> DEFINE rest == Moved(Tail(q), old, new)
  <2>0. rest \in Name
    BY <2>1
  <2>2. RebaseReference(q, old, new) = <<Call>> \o rest
    BY <1>1 DEF RebaseReference
  <2> HIDE DEF rest
  <2>3. Len(<<Call>> \o rest) = 1 + Len(rest) /\ Len(rest) \in Nat
    BY <2>0, <2>1 DEF Name
  <2>4. <<Call>> \in Name
    BY <2>1 DEF Name
  <2>5. <<Call>> \o rest \in Name
    BY <2>0, <2>4, ConcatName
  <2>6. Len(<<Call>> \o rest) # 0
    BY <2>3
  <2>7. QED BY <2>2, <2>5, <2>6, NameType
<1>2. CASE Head(q) # Call /\ IsPrefix(old, q)
  <2>1. RebaseReference(q, old, new) = Lifted(q, old, new)
    BY <1>2, MovedName DEF RebaseReference
  <2> DEFINE w == Lifted(q, old, new)
  <2>2. w \in Name /\ Len(w) = Len(new) + (Len(q) - Len(old)) /\ Len(old) <= Len(q)
    BY <1>2, LiftedSegments, PrefixSegments
  <2> HIDE DEF w
  <2>3. Len(new) \in Nat /\ Len(new) # 0 /\ Len(q) \in Nat /\ Len(old) \in Nat
    BY NameType
  <2>4. Len(w) # 0
    BY <2>2, <2>3
  <2>5. QED BY <2>1, <2>2, <2>4, NameType DEF w
<1>3. CASE Head(q) # Call /\ ~IsPrefix(old, q)
  BY <1>3 DEF RebaseReference, Moved
<1>4. QED BY <1>1, <1>2, <1>3

\* A list of which each element is replaced.
LEMMA MappedList ==
  ASSUME NEW E, NEW s \in Seq(E), NEW t, t = [i \in DOMAIN s |-> t[i]], NEW F, \A i \in DOMAIN s : t[i] \in F
  PROVE  /\ t \in Seq(F)
         /\ \A x \in ToSet(t) : \E i \in DOMAIN s : x = t[i] /\ s[i] \in ToSet(s)
<1>1. DOMAIN s = 1 .. Len(s) /\ Len(s) \in Nat
  OBVIOUS
<1>2. DOMAIN t = DOMAIN s
  OBVIOUS
<1>3. t \in Seq(F)
  BY <1>1
<1>4. QED BY <1>2, <1>3 DEF ToSet

\* What an element becomes is one of the same sort.
LEMMA RebasedElement ==
  ASSUME Naming(Nat), NEW model, NEW q, NEW e, IsElement(e),
         \A field \in DOMAIN e : Suits(model, q, field, e[field]),
         NEW old \in Name, old # None, Head(old) # Call, NEW new \in Name, new # None
  PROVE  LET d == RebaseReferences(e, old, new)
         IN  IsElement(d) /\ d.is = e.is /\ d.is \in Variants /\ Sort(d) = Sort(e) /\ DOMAIN d = DOMAIN e
<1> DEFINE d == RebaseReferences(e, old, new)
<1>1. DOMAIN d = DOMAIN e /\ d = [field \in DOMAIN d |-> d[field]]
  BY DEF RebaseReferences
<1>2. \A field \in DOMAIN e :
        /\ field \in References => d[field] = RebaseReference(e[field], old, new)
        /\ field \in {"is", "kind"} => d[field] = e[field]
  BY DEF RebaseReferences, References, ReferenceLists
<1> HIDE DEF d
<1>3. "is" \in DOMAIN e /\ ("kind" \in DOMAIN e \/ e.is # "vertex") /\ ("observes" \in DOMAIN e \/ e.is # "behavior")
  BY FieldsOf DEF IsElement, Variants, Hooks
<1>4. d["is"] = e["is"] /\ (e.is = "vertex" => d["kind"] = e["kind"])
  BY <1>2, <1>3
<1>5. e.is = "behavior" => (d["observes"] = None <=> e["observes"] = None)
  <2> SUFFICES ASSUME e.is = "behavior" PROVE d["observes"] = None <=> e["observes"] = None
    OBVIOUS
  <2>1. "observes" \in DOMAIN e /\ "observes" \in References
    BY <1>3 DEF References
  <2>2. e["observes"] \in Name
    BY <2>1 DEF Suits
  <2>3. d["observes"] = RebaseReference(e["observes"], old, new)
    BY <1>2, <2>1
  <2> DEFINE p == e["observes"]
  <2>4. p # None => RebaseReference(p, old, new) # None
    BY <2>2, RebasedNotEmpty
  <2>5. RebaseReference(None, old, new) = None
    BY <2>2, RebasedName
  <2>6. QED BY <2>3, <2>4, <2>5
<1>6. d.is = e.is /\ (e.is = "vertex" => d.kind = e.kind) /\ (e.is = "behavior" => (d.observes = None <=> e.observes = None))
  BY <1>4, <1>5
<1>7. Sort(d) = Sort(e)
  BY <1>6 DEF Sort
<1>8. IsElement(d) /\ d.is \in Variants
  BY <1>1, <1>6 DEF IsElement
<1>9. QED BY <1>1, <1>6, <1>7, <1>8 DEF d

\* What suits an element does so after it is moved.
LEMMA RebasedSuits ==
  ASSUME Naming(Nat), NEW model, WellFormed(Nat, model), NEW new \in Name, new # None, NEW other,
         \A p \in DOMAIN other.members : other.members[p].is \in Variants,
         \A p \in DOMAIN model.members :
           HasSort(other, Lifted(p, model.root, new), Sort(model.members[p])),
         NEW q \in DOMAIN model.members, NEW field \in DOMAIN model.members[q]
  PROVE  Suits(other, Lifted(q, model.root, new), field, RebaseReferences(model.members[q], model.root, new)[field])
<1> DEFINE to(p) == RebaseReference(p, model.root, new)
           lift(p) == Lifted(p, model.root, new)
           e == model.members[q]
           value == e[field]
           moved == RebaseReferences(e, model.root, new)[field]
<1>1. model.root \in Name /\ model.root # None /\ Head(model.root) # Call
  BY Parts
<1>2. Suits(model, q, field, value)
  BY DEF WellFormed, IsMember
<1>3. ASSUME NEW p \in DOMAIN model.members PROVE to(p) = lift(p) /\ p \in Name /\ IsStrictPrefix(model.root, p)
  <2>1. p \in Name /\ IsStrictPrefix(model.root, p)
    BY Parts
  <2>2. QED BY <1>1, <2>1, RebasedName DEF IsStrictPrefix
<1>4. ASSUME NEW p, NEW sort, HasSort(model, p, sort) PROVE p \in DOMAIN model.members /\ HasSort(other, to(p), sort)
  BY <1>3, <1>4 DEF HasSort
<1>5. ASSUME NEW p
      PROVE  /\ Is(model, p, "behavior") => p \in DOMAIN model.members /\ Is(other, to(p), "behavior")
             /\ IsTransition(model, p) => IsTransition(other, to(p))
             /\ Is(model, p, "constraint") => Is(other, to(p), "constraint")
  <2>1. \A b \in DOMAIN model.members : model.members[b].is \in Variants
    BY Parts
  <2>2. /\ Is(model, p, "behavior") <=> HasSort(model, p, "behavior") \/ HasSort(model, p, "generated")
        /\ IsTransition(model, p) <=> HasSort(model, p, "transition")
        /\ Is(model, p, "constraint") <=> HasSort(model, p, "constraint")
    BY <2>1, IsOfSort
  <2>3. /\ Is(other, to(p), "behavior") <=> HasSort(other, to(p), "behavior") \/ HasSort(other, to(p), "generated")
        /\ IsTransition(other, to(p)) <=> HasSort(other, to(p), "transition")
        /\ Is(other, to(p), "constraint") <=> HasSort(other, to(p), "constraint")
    BY IsOfSort
  <2> HIDE DEF to
  <2>4. QED BY <1>4, <2>2, <2>3
<1>6. \A p \in Name : to(p) \in Name
  BY <1>1, RebasedName
<1>7. to(None) = None
  <2>1. None \in Name
    BY DEF None, Name
  <2>2. QED BY <1>1, <2>1, RebasedName
<1>8. /\ field \in References => moved = to(value)
      /\ field \in ReferenceLists => moved = [i \in DOMAIN value |-> to(value[i])]
      /\ field = "targets" => moved = {to(p) : p \in value}
      /\ field \notin References \cup ReferenceLists \cup {"targets"} => moved = value
  BY DEF RebaseReferences, MapSeq, References, ReferenceLists
<1> HIDE DEF value, moved
<1>9. CASE field \in References
  <2>1. moved = to(value) /\ value \in Name
    BY <1>2, <1>8, <1>9 DEF Suits
  <2>2. moved \in Name
    BY <1>6, <2>1
  <2>3. field = "initial" => moved = None \/ HasSort(other, moved, "initial")
    <3> HIDE DEF to
    <3> QED BY <1>2, <1>4, <1>7, <2>1 DEF Suits
  <2>4. field = "guard" => moved = None \/ Is(other, moved, "constraint")
    <3> HIDE DEF to
    <3> QED BY <1>2, <1>5, <1>7, <2>1 DEF Suits
  <2>5. QED BY <1>9, <2>2, <2>3, <2>4 DEF Suits, References, ReferenceLists, BehaviorLists, moved
<1>10. CASE field \in ReferenceLists
  <2>1. moved = [i \in DOMAIN value |-> to(value[i])] /\ value \in Seq(Name)
    BY <1>2, <1>8, <1>10 DEF Suits
  <2> HIDE DEF to
  <2>2. moved = [i \in DOMAIN value |-> moved[i]] /\ \A i \in DOMAIN value : moved[i] = to(value[i]) /\ value[i] \in Name
    BY <2>1
  <2>3. /\ moved \in Seq(Name)
        /\ \A x \in ToSet(moved) : \E i \in DOMAIN value : x = moved[i] /\ value[i] \in ToSet(value)
    BY <1>6, <2>1, <2>2, MappedList
  <2>4. \A x \in ToSet(moved) : \E p \in ToSet(value) : x = to(p)
    BY <2>2, <2>3
  <2>5. ASSUME field \in BehaviorLists, NEW x \in ToSet(moved) PROVE Is(other, x, "behavior") /\ Front(x) = lift(q)
    <3>1. PICK p \in ToSet(value) : x = to(p)
      BY <2>4, <2>5
    <3>2. Is(model, p, "behavior") /\ Front(p) = q
      BY <1>2, <2>5 DEF Suits
    <3>3. p \in DOMAIN model.members /\ Is(other, to(p), "behavior")
      BY <1>5, <3>2
    <3>4. to(p) = lift(p) /\ p \in Name /\ IsStrictPrefix(model.root, p)
      BY <1>3, <3>3
    <3>5. Front(lift(p)) = lift(Front(p))
      BY <1>1, <3>4, LiftedBelow
    <3>6. QED BY <3>1, <3>2, <3>3, <3>4, <3>5
  <2>6. ASSUME field = "transitions", NEW x \in ToSet(moved) PROVE IsTransition(other, x)
    <3>1. PICK p \in ToSet(value) : x = to(p)
      BY <2>4, <2>6
    <3>2. IsTransition(model, p)
      BY <1>2, <2>6 DEF Suits
    <3>3. QED BY <1>5, <3>1, <3>2
  <2>7. field \notin References /\ field \notin {"initial", "guard", "targets"}
    BY <1>10 DEF References, ReferenceLists
  <2>8. QED BY <2>3, <2>5, <2>6, <2>7 DEF Suits, moved
<1>11. CASE field = "targets"
  <2>1. moved = {to(p) : p \in value} /\ \A p \in value : p \in Name
    BY <1>2, <1>8, <1>11 DEF Suits
  <2>2. \A p \in moved : p \in Name
    BY <1>6, <2>1
  <2>3. QED BY <1>11, <2>2 DEF Suits, References, ReferenceLists, BehaviorLists, moved
<1>12. CASE field \notin References \cup ReferenceLists \cup {"targets"}
  <2>1. field \notin BehaviorLists /\ field \notin {"transitions", "initial", "guard"}
    BY <1>12 DEF BehaviorLists, References, ReferenceLists
  <2>2. QED BY <1>12, <2>1 DEF Suits, moved
<1>13. QED BY <1>9, <1>10, <1>11, <1>12

\* Members under new names.
LEMMA RenamedMembers ==
  ASSUME NEW members, NEW to, to = [p \in DOMAIN members |-> to[p]], IsFiniteSet(DOMAIN members)
  PROVE  LET r == Renamed(members, to)
         IN  /\ IsFiniteSet(DOMAIN r) /\ r = [q \in DOMAIN r |-> r[q]]
             /\ \A q \in DOMAIN r : \E p \in DOMAIN members : to[p] = q /\ r[q] = members[p]
             /\ \A p \in DOMAIN members : to[p] \in DOMAIN r
<1> DEFINE r == Renamed(members, to)
           D == DOMAIN members
<1>1. DOMAIN to = D
  OBVIOUS
<1>2. r = [q \in Range(to) |-> members[CHOOSE p \in D : to[p] = q]]
  BY DEF Renamed
<1>3. DOMAIN r = Range(to) /\ r = [q \in DOMAIN r |-> r[q]]
  BY <1>2
<1>4. \A p \in D : to[p] \in Range(to)
  BY <1>1 DEF Range
<1>5. IsFiniteSet(Range(to))
  <2>1. to \in Surjection(D, Range(to))
    BY <1>1 DEF Surjection, Range
  <2> HIDE DEF D
  <2>2. QED BY <2>1, FS_Surjection DEF D
<1>6. ASSUME NEW q \in Range(to) PROVE \E p \in D : to[p] = q /\ r[q] = members[p]
  <2> DEFINE c == CHOOSE p \in D : to[p] = q
  <2>1. r[q] = members[c]
    BY <1>2
  <2>2. \E p \in D : to[p] = q
    BY <1>1 DEF Range
  <2>3. c \in D /\ to[c] = q
    <3> HIDE DEF D
    <3> QED BY <2>2
  <2> HIDE DEF c, D
  <2>4. QED BY <2>1, <2>3
<1> HIDE DEF r
<1>7. QED BY <1>3, <1>4, <1>5, <1>6 DEF r

\* A name that is lifted to below n: the name r itself becomes n, no other one does.
LEMMA LiftedRoot ==
  ASSUME NEW r \in Name, NEW q \in Name, NEW n \in Name, IsPrefix(r, q)
  PROVE  Lifted(q, r, n) = n <=> q = r
<1> DEFINE w == Lifted(q, r, n)
<1>1. /\ Len(r) \in Nat /\ Len(q) \in Nat /\ Len(n) \in Nat /\ Len(r) <= Len(q)
      /\ \A i \in 1 .. Len(r) : q[i] = r[i]
  BY NameType, PrefixSegments
<1>2. w \in Name /\ Len(w) = Len(n) + (Len(q) - Len(r)) /\ \A i \in 1 .. Len(n) : w[i] = n[i]
  BY LiftedSegments
<1> HIDE DEF w
<1>3. ASSUME w = n PROVE q = r
  <2>1. Len(q) = Len(r)
    BY <1>1, <1>2, <1>3
  <2>2. QED BY <1>1, <2>1, SameSegments
<1>4. ASSUME q = r PROVE w = n
  <2>1. Len(w) = Len(n)
    BY <1>1, <1>2, <1>4
  <2>2. QED BY <1>2, <2>1, SameSegments
<1>5. QED BY <1>3, <1>4 DEF w

\* rebase: a well-formed model under another name is one.
LEMMA RebaseFits ==
  ASSUME Naming(Nat), NEW model, WellFormed(Nat, model), NEW new, IsRoot(new)
  PROVE  LET other == Rebase(model, new)
         IN  /\ WellFormed(Nat, other) /\ other.root = new /\ other.stack = <<new>>
<1> DEFINE root == model.root
           M == model.members
           D == DOMAIN M
           to == [q \in D |-> RebaseReference(q, root, new)]
           members == [q \in D |-> RebaseReferences(M[q], root, new)]
           r == Renamed(members, to)
           attributes == {RebaseReference(q, root, new) : q \in model.attributes}
           initial == RebaseReference(model.initial, root, new)
           other == Rebase(model, new)
<1>1. other = [root |-> new, initial |-> initial, members |-> r, attributes |-> attributes, stack |-> <<new>>]
  <2>1. model = [root |-> model.root, initial |-> model.initial, members |-> model.members,
                 attributes |-> model.attributes, stack |-> model.stack]
    BY DEF WellFormed
  <2>2. other = [model EXCEPT !.root = new, !.initial = initial, !.stack = <<new>>,
                !.attributes = attributes, !.members = r]
    BY DEF Rebase
  <2> HIDE DEF other, initial, attributes, r
  <2>3. QED BY <2>1, <2>2
<1>2. /\ other.root = new /\ other.initial = initial /\ other.members = r
      /\ other.attributes = attributes /\ other.stack = <<new>>
  <2> HIDE DEF other, initial, attributes, r
  <2> QED BY <1>1
<1>3. /\ root \in Name /\ root # None /\ Head(root) # Call /\ IsFiniteSet(D)
      /\ new \in Name /\ new # None
  BY Parts DEF IsRoot
<1>4. ASSUME NEW q \in D
      PROVE  /\ q \in Name /\ IsStrictPrefix(root, q) /\ IsMember(Nat, model, q, M[q])
             /\ to[q] = Lifted(q, root, new) /\ members[q] = RebaseReferences(M[q], root, new)
             /\ to[q] \in Name /\ IsStrictPrefix(new, to[q]) /\ Last(to[q]) = Last(q)
             /\ Front(to[q]) = Lifted(Front(q), root, new)
  <2>1. q \in Name /\ IsStrictPrefix(root, q) /\ IsMember(Nat, model, q, M[q])
    BY Parts DEF WellFormed
  <2>2. to[q] = RebaseReference(q, root, new) /\ members[q] = RebaseReferences(M[q], root, new)
    OBVIOUS
  <2>3. to[q] = Lifted(q, root, new)
    BY <1>3, <2>1, <2>2, RebasedName DEF IsStrictPrefix
  <2> HIDE DEF to, members, r, other, attributes, initial
  <2>4. QED BY <1>3, <2>1, <2>2, <2>3, LiftedBelow
<1>5. to = [p \in DOMAIN members |-> to[p]] /\ DOMAIN members = D /\ DOMAIN to = D
  OBVIOUS
<1>6. ASSUME NEW q \in D
      PROVE  /\ IsElement(members[q]) /\ members[q].is = M[q].is /\ members[q].is \in Variants
             /\ Sort(members[q]) = Sort(M[q]) /\ DOMAIN members[q] = DOMAIN M[q]
  <2>1. IsElement(M[q]) /\ \A field \in DOMAIN M[q] : Suits(model, q, field, M[q][field])
    BY <1>4 DEF IsMember
  <2>2. members[q] = RebaseReferences(M[q], root, new)
    BY <1>4
  <2> DEFINE e == M[q]
  <2> HIDE DEF members, to, r, other, attributes, initial
  <2>3. IsElement(e) /\ \A field \in DOMAIN e : Suits(model, q, field, e[field])
    BY <2>1
  <2> HIDE DEF e
  <2>4. LET d == RebaseReferences(e, root, new)
        IN  IsElement(d) /\ d.is = e.is /\ d.is \in Variants /\ Sort(d) = Sort(e) /\ DOMAIN d = DOMAIN e
    BY <1>3, <2>3, RebasedElement
  <2>5. QED BY <2>2, <2>4 DEF e
<1> HIDE DEF to, members
<1>7. /\ IsFiniteSet(DOMAIN r) /\ r = [q \in DOMAIN r |-> r[q]]
      /\ \A q \in DOMAIN r : \E p \in D : to[p] = q /\ r[q] = members[p]
      /\ \A p \in D : to[p] \in DOMAIN r
  <2>1. IsFiniteSet(DOMAIN members)
    BY <1>3, <1>5
  <2>2. /\ IsFiniteSet(DOMAIN r) /\ r = [q \in DOMAIN r |-> r[q]]
        /\ \A q \in DOMAIN r : \E p \in DOMAIN members : to[p] = q /\ r[q] = members[p]
        /\ \A p \in DOMAIN members : to[p] \in DOMAIN r
    BY <1>5, <2>1, RenamedMembers
  <2> HIDE DEF r
  <2>3. QED BY <1>5, <2>2
<1> HIDE DEF r, other, initial, attributes
<1>8. \A q \in DOMAIN r : r[q].is \in Variants
  BY <1>6, <1>7
<1>9. ASSUME NEW p \in D PROVE HasSort(other, Lifted(p, root, new), Sort(M[p]))
  <2> DEFINE q == Lifted(p, root, new)
  <2>1. q = to[p] /\ q \in DOMAIN r /\ Last(q) = Last(p) /\ NamedAs(Nat, Last(p), Sort(M[p])) /\ Sort(M[p]) \in Sorts \cup {"user"}
    BY <1>4, <1>7, Parts
  <2> HIDE DEF q
  <2>2. PICK c \in D : to[c] = q /\ r[q] = members[c]
    BY <1>7, <2>1
  <2>3. Last(q) = Last(c) /\ NamedAs(Nat, Last(c), Sort(M[c])) /\ Sort(M[c]) \in Sorts \cup {"user"} /\ Sort(r[q]) = Sort(M[c])
    BY <1>4, <1>6, <2>2, Parts
  <2>4. Sort(M[c]) = Sort(M[p])
    BY <2>1, <2>3, SortDecides
  <2>5. QED BY <1>2, <2>1, <2>3, <2>4 DEF HasSort, q
<1>10. ASSUME NEW q \in DOMAIN r PROVE IsMember(Nat, other, q, r[q])
  <2>1. PICK p \in D : to[p] = q /\ r[q] = members[p]
    BY <1>7
  <2>2. /\ q = Lifted(p, root, new) /\ q \in Name /\ IsStrictPrefix(new, q) /\ Last(q) = Last(p)
        /\ Front(q) = Lifted(Front(p), root, new) /\ IsMember(Nat, model, p, M[p])
    BY <1>4, <2>1
  <2>3. \A field \in DOMAIN r[q] : Suits(other, q, field, r[q][field])
    <3> TAKE field \in DOMAIN r[q]
    <3>1. field \in DOMAIN M[p]
      BY <1>6, <2>1
    <3>2. Suits(other, Lifted(p, root, new), field, RebaseReferences(M[p], root, new)[field])
      BY <1>2, <1>3, <1>8, <1>9, <3>1, RebasedSuits
    <3>3. QED BY <1>4, <2>1, <2>2, <3>2
  <2>4. ASSUME Last(q) = "transition" PROVE Front(q) # new
    <3>1. Front(p) # root
      BY <2>2, <2>4 DEF IsMember
    <3>2. Front(p) \in Name /\ IsPrefix(root, Front(p))
      BY <1>3, <1>4, FrontBelow
    <3>3. QED BY <1>3, <2>2, <3>1, <3>2, LiftedRoot
  <2>5. /\ IsElement(r[q]) /\ Sort(r[q]) = Sort(M[p]) /\ r[q].is = M[p].is
    BY <1>6, <2>1
  <2>6. NamedAs(Nat, Last(q), Sort(r[q])) /\ (r[q].is \in {"state", "vertex"} => Last(q) \notin AttributeNames)
    BY <2>2, <2>5 DEF IsMember
  <2>7. QED BY <1>2, <2>2, <2>3, <2>4, <2>5, <2>6 DEF IsMember
<1>11. other.initial = None \/ HasSort(other, other.initial, "initial")
  <2>1. CASE model.initial = None
    <3>1. None \in Name
      BY DEF None, Name
    <3>2. QED BY <1>2, <1>3, <2>1, <3>1, RebasedName DEF initial
  <2>2. CASE model.initial # None
    <3>1. HasSort(model, model.initial, "initial")
      BY <2>2 DEF WellFormed
    <3>2. model.initial \in D /\ Sort(M[model.initial]) = "initial"
      BY <3>1 DEF HasSort
    <3>3. HasSort(other, Lifted(model.initial, root, new), "initial")
      BY <1>9, <3>2
    <3>4. initial = Lifted(model.initial, root, new)
      BY <1>3, <1>4, <3>2, RebasedName DEF initial, IsStrictPrefix
    <3>5. QED BY <1>2, <3>3, <3>4
  <2>3. QED BY <2>1, <2>2
<1>12. ASSUME NEW q \in attributes PROVE q \in Name /\ IsStrictPrefix(new, q) /\ Last(q) \in AttributeNames
  <2>1. PICK p \in model.attributes : q = RebaseReference(p, root, new)
    BY DEF attributes
  <2>2. p \in Name /\ IsStrictPrefix(root, p) /\ Last(p) \in AttributeNames
    BY DEF WellFormed
  <2>3. q = Lifted(p, root, new)
    BY <1>3, <2>1, <2>2, RebasedName DEF IsStrictPrefix
  <2>4. QED BY <1>3, <2>2, <2>3, LiftedBelow
<1>13. other.stack \in Seq(Name) /\ other.stack # <<>> /\ other.stack[1] = other.root /\ Len(other.stack) = 1
  BY <1>2, <1>3
<1>14. \A i \in 2 .. Len(other.stack) :
        other.stack[i] \in DOMAIN other.members /\ Front(other.stack[i]) = other.stack[i - 1]
  BY <1>13
<1>15. \A q \in DOMAIN other.members : IsMember(Nat, other, q, other.members[q])
  BY <1>2, <1>10
<1>16. \A q \in other.attributes : q \in Name /\ IsStrictPrefix(other.root, q) /\ Last(q) \in AttributeNames
  BY <1>2, <1>12
<1>17. IsFiniteSet(DOMAIN other.members) /\ other.members = [q \in DOMAIN other.members |-> other.members[q]]
  BY <1>2, <1>7
<1>18. other = [root |-> other.root, initial |-> other.initial, members |-> other.members,
                attributes |-> other.attributes, stack |-> other.stack]
  BY <1>1, <1>2
<1>19. IsRoot(other.root)
  BY <1>2
<1>20. WellFormed(Nat, other)
  BY <1>11, <1>13, <1>14, <1>15, <1>16, <1>17, <1>18, <1>19 DEF WellFormed
<1>21. QED BY <1>2, <1>20 DEF other

-----------------------------------------------------------------------------
(* Embedding a model *)

\* A name that is rewritten becomes a name; only those of operations and attributes do.
LEMMA RewrittenName ==
  ASSUME Naming(Nat), NEW boundary \in Name, NEW root \in Name, NEW operations, NEW attributes,
         \A p \in operations \cup attributes : p \in Name /\ IsPrefix(boundary, p),
         NEW q \in Name
  PROVE  RewriteSubmachineEventReference(q, operations, attributes, boundary, root) \in Name
<1> DEFINE w == RewriteSubmachineEventReference(q, operations, attributes, boundary, root)
<1>1. \A p \in operations \cup attributes : Lifted(p, boundary, root) \in Name
  BY LiftedSegments
<1>2. <<Call>> \in Name
  <2>1. Call \in Segment
    BY DEF Naming
  <2>2. QED BY <2>1 DEF Name
<1>3. CASE q # None /\ Head(q) = Call
  <2>1. CASE Tail(q) \in operations
    <3>1. <<Call>> \o Lifted(Tail(q), boundary, root) \in Name
      BY <1>1, <1>2, <2>1, ConcatName
    <3>2. QED BY <1>3, <2>1, <3>1 DEF RewriteSubmachineEventReference
  <2>2. CASE Tail(q) \notin operations
    BY <1>3, <2>2 DEF RewriteSubmachineEventReference
  <2>3. QED BY <2>1, <2>2
<1>4. CASE ~(q # None /\ Head(q) = Call)
  BY <1>1, <1>4 DEF RewriteSubmachineEventReference
<1>5. QED BY <1>3, <1>4

\* What an element becomes is one of the same sort.
LEMMA RewrittenElement ==
  ASSUME NEW e, IsElement(e), NEW operations, NEW attributes, NEW boundary, NEW root
  PROVE  LET d == RewriteSubmachineReferences(e, operations, attributes, boundary, root)
         IN  IsElement(d) /\ d.is = e.is /\ d.is \in Variants /\ Sort(d) = Sort(e) /\ DOMAIN d = DOMAIN e
<1> DEFINE d == RewriteSubmachineReferences(e, operations, attributes, boundary, root)
<1>1. DOMAIN d = DOMAIN e /\ d = [field \in DOMAIN d |-> d[field]]
  BY DEF RewriteSubmachineReferences
<1>2. \A field \in DOMAIN e : field \in {"is", "kind", "observes"} => d[field] = e[field]
  BY DEF RewriteSubmachineReferences
<1> HIDE DEF d
<1>3. "is" \in DOMAIN e /\ ("kind" \in DOMAIN e \/ e.is # "vertex") /\ ("observes" \in DOMAIN e \/ e.is # "behavior")
  BY FieldsOf DEF IsElement, Variants, Hooks
<1>4. d["is"] = e["is"] /\ (e.is = "vertex" => d["kind"] = e["kind"]) /\ (e.is = "behavior" => d["observes"] = e["observes"])
  BY <1>2, <1>3
<1>5. d.is = e.is /\ (e.is = "vertex" => d.kind = e.kind) /\ (e.is = "behavior" => d.observes = e.observes)
  BY <1>4
<1>6. Sort(d) = Sort(e)
  BY <1>5 DEF Sort
<1>7. IsElement(d) /\ d.is \in Variants
  BY <1>1, <1>5 DEF IsElement
<1>8. QED BY <1>1, <1>5, <1>6, <1>7 DEF d

\* What suits an element of the embedded machine does so around it.
LEMMA RewrittenSuits ==
  ASSUME Naming(Nat), NEW model, WellFormed(Nat, model), NEW root \in Name, NEW operations, NEW attributes,
         \A p \in operations \cup attributes : p \in Name /\ IsPrefix(model.root, p),
         NEW other, \A p \in DOMAIN other.members : other.members[p].is \in Variants,
         \A p \in DOMAIN model.members :
           Sort(model.members[p]) # "user" => HasSort(other, p, Sort(model.members[p])),
         NEW q \in DOMAIN model.members, NEW x, x = q \/ model.members[q].is \in {"operation", "attribute"},
         NEW field \in DOMAIN model.members[q]
  PROVE  Suits(other, x, field,
               RewriteSubmachineReferences(model.members[q], operations, attributes, model.root, root)[field])
<1> DEFINE to(p) == RewriteSubmachineEventReference(p, operations, attributes, model.root, root)
           called(p) == RewriteSubmachineOperationReference(p, operations, model.root, root)
           e == model.members[q]
           value == e[field]
           new == RewriteSubmachineReferences(e, operations, attributes, model.root, root)[field]
<1>1. Suits(model, q, field, value) /\ IsElement(e) /\ model.root \in Name
  BY Parts DEF WellFormed, IsMember
<1>2. /\ field = "events" => new = [i \in DOMAIN value |-> to(value[i])]
      /\ field = "operation" => new = called(value)
      /\ field = "targets" => new = {to(p) : p \in value}
      /\ field \notin {"events", "operation", "targets"} => new = value
  BY DEF RewriteSubmachineReferences, MapSeq
<1>3. \A p \in Name : to(p) \in Name /\ called(p) \in Name
  <2>1. \A p \in Name : to(p) \in Name
    BY <1>1, RewrittenName
  <2>2. \A p \in operations \cup {} : p \in Name /\ IsPrefix(model.root, p)
    OBVIOUS
  <2>3. \A p \in Name : RewriteSubmachineEventReference(p, operations, {}, model.root, root) \in Name
    BY <1>1, <2>2, RewrittenName
  <2>4. QED BY <2>1, <2>3 DEF RewriteSubmachineOperationReference
<1>4. e.is \in {"operation", "attribute"} => field \in {"is", "kind"}
  BY <1>1, FieldsOf DEF IsElement
<1> HIDE DEF to, called, new, value
<1>5. CASE field = "events"
  <2>1. value \in Seq(Name)
    BY <1>1, <1>5 DEF Suits, ReferenceLists
  <2>2. new = [i \in DOMAIN value |-> new[i]] /\ \A i \in DOMAIN value : new[i] \in Name
    BY <1>2, <1>3, <1>5, <2>1
  <2>3. new \in Seq(Name)
    BY <2>1, <2>2, MappedList
  <2>4. QED BY <1>5, <2>3, EventsSuit DEF new
<1>6. CASE field = "operation"
  <2>1. value \in Name
    BY <1>1, <1>6 DEF Suits, References
  <2>2. QED BY <1>2, <1>3, <1>6, <2>1, NameSuits DEF new
<1>7. CASE field = "targets"
  <2>1. \A p \in value : p \in Name
    BY <1>1, <1>7 DEF Suits
  <2>2. \A p \in new : p \in Name
    BY <1>2, <1>3, <1>7, <2>1
  <2>3. QED BY <1>7, <2>2, TargetsSuit DEF new
<1>8. CASE field \notin {"events", "operation", "targets"}
  <2>1. new = value
    BY <1>2, <1>8
  <2>2. CASE e.is \in {"operation", "attribute"}
    BY <1>4, <2>2, PlainSuits DEF new
  <2>3. CASE x = q
    <3>1. \A p \in DOMAIN model.members : model.members[p].is \in Variants
      BY Parts
    <3>2. ASSUME NEW p, NEW sort \in Sorts, HasSort(model, p, sort) PROVE HasSort(other, p, sort)
      <4>1. sort # "user"
        BY DEF Sorts, Hooks
      <4>2. QED BY <3>2, <4>1 DEF HasSort
    <3>3. ASSUME NEW p
          PROVE  /\ Is(model, p, "behavior") => Is(other, p, "behavior")
                 /\ IsTransition(model, p) => IsTransition(other, p)
                 /\ Is(model, p, "constraint") => Is(other, p, "constraint")
                 /\ HasSort(model, p, "initial") => HasSort(other, p, "initial")
      <4>1. {"behavior", "generated", "transition", "constraint", "initial"} \subseteq Sorts
        BY DEF Sorts
      <4>2. QED BY <3>1, <3>2, <4>1, IsOfSort
    <3>4. Suits(other, q, field, value)
      BY <1>1, <3>3 DEF Suits
    <3>5. QED BY <2>1, <2>3, <3>4 DEF new
  <2>4. QED BY <2>2, <2>3
<1>9. QED BY <1>5, <1>6, <1>7, <1>8

\* Of the embedded machine's members only operations and attributes are moved.
LEMMA OnlyDeclarationsMove ==
  ASSUME Naming(Nat), NEW model, WellFormed(Nat, model), NEW q \in DOMAIN model.members,
         q \in Members(model, "operation") \cup model.attributes
  PROVE  model.members[q].is \in {"operation", "attribute"} /\ Sort(model.members[q]) = "user"
<1> DEFINE e == model.members[q]
<1>1. /\ e.is \in Variants /\ Sort(e) \in Sorts \cup {"user"} /\ NamedAs(Nat, Last(q), Sort(e))
      /\ e.is \in {"state", "vertex"} => Last(q) \notin AttributeNames
  BY Parts DEF WellFormed, IsMember
<1>2. CASE q \in Members(model, "operation")
  BY <1>2 DEF Members, Sort, Sorts, Hooks
<1>3. CASE q \in model.attributes
  <2>1. Last(q) \in AttributeNames
    BY <1>3 DEF WellFormed
  <2>2. NamedAs(Nat, Last(q), "user")
    BY <2>1, UserSegments
  <2>3. Sort(e) = "user"
    BY <1>1, <2>2, SortDecides
  <2>4. QED BY <1>1, <2>1, <2>3 DEF Sort, Sorts, Variants, Hooks
<1>4. QED BY <1>2, <1>3

\* The state that embeds a machine starts where the machine does.
LEMMA EmbeddingState ==
  ASSUME NEW model, NEW q, NEW initial, Suits(model, q, "initial", initial)
  PROVE  LET e == [NewState("submachine") EXCEPT !.initial = initial]
         IN  /\ IsElement(e) /\ e.is = "state" /\ Sort(e) = "user"
             /\ \A field \in DOMAIN e : Suits(model, q, field, e[field])
<1> DEFINE d == NewState("submachine")
           e == [d EXCEPT !.initial = initial]
<1>1. /\ IsElement(d) /\ d.is = "state" /\ Sort(d) = "user"
      /\ \A field \in DOMAIN d : Suits(model, q, field, d[field])
  BY NewStateFits DEF States
<1>2. "initial" \in DOMAIN d /\ "is" \in DOMAIN d
  BY <1>1, FieldsOf DEF IsElement
<1>3. DOMAIN d = Fields("state") /\ d = [field \in DOMAIN d |-> d[field]]
  BY <1>1 DEF IsElement
<1> HIDE DEF d
<1>4. /\ DOMAIN e = DOMAIN d /\ e = [field \in DOMAIN e |-> e[field]] /\ e["initial"] = initial
      /\ \A field \in DOMAIN d : field # "initial" => e[field] = d[field]
  BY <1>2, <1>3
<1> HIDE DEF e
<1>5. e.is = "state"
  <2>1. e["is"] = d["is"]
    BY <1>2, <1>4
  <2>2. QED BY <1>1, <2>1
<1>6. IsElement(e) /\ Sort(e) = "user"
  BY <1>3, <1>4, <1>5 DEF IsElement, Variants, Sort, Sorts, Hooks
<1>7. \A field \in DOMAIN e : Suits(model, q, field, e[field])
  BY <1>1, <1>4
<1>8. QED BY <1>5, <1>6, <1>7 DEF e, d

\* Laying something over an overlay is laying both over what is below.
LEMMA OverlayAgain ==
  ASSUME NEW f, NEW g, NEW h
  PROVE  Overlay(f, Overlay(g, h)) = Overlay(Overlay(f, g), h)
<1>1. /\ DOMAIN Overlay(g, h) = DOMAIN g \cup DOMAIN h
      /\ \A q \in DOMAIN g \cup DOMAIN h : Overlay(g, h)[q] = IF q \in DOMAIN g THEN g[q] ELSE h[q]
  BY DEF Overlay
<1>2. /\ DOMAIN Overlay(f, g) = DOMAIN f \cup DOMAIN g
      /\ \A q \in DOMAIN f \cup DOMAIN g : Overlay(f, g)[q] = IF q \in DOMAIN f THEN f[q] ELSE g[q]
  BY DEF Overlay
<1> DEFINE a == Overlay(g, h)
           b == Overlay(f, g)
<1> HIDE DEF a, b
<1>3. Overlay(f, a) = [q \in DOMAIN f \cup DOMAIN g \cup DOMAIN h |->
                         IF q \in DOMAIN f THEN f[q] ELSE IF q \in DOMAIN g THEN g[q] ELSE h[q]]
  BY <1>1 DEF Overlay, a
<1>4. Overlay(b, h) = [q \in DOMAIN f \cup DOMAIN g \cup DOMAIN h |->
                         IF q \in DOMAIN f THEN f[q] ELSE IF q \in DOMAIN g THEN g[q] ELSE h[q]]
  BY <1>2 DEF Overlay, b
<1>5. QED BY <1>3, <1>4 DEF a, b

\* A name below one that is below r is below r, and is not right inside r.
LEMMA DeepBelow ==
  ASSUME NEW r \in Name, NEW x \in Segment, NEW q \in Name, IsStrictPrefix(Append(r, x), q)
  PROVE  IsStrictPrefix(r, q) /\ Front(q) # r
<1> DEFINE b == Append(r, x)
<1>1. b \in Name /\ Len(b) = Len(r) + 1 /\ IsStrictPrefix(r, b)
  BY AppendName, AppendBelow, PrefixReflexive
<1> HIDE DEF b
<1>2. IsStrictPrefix(b, q)
  BY DEF b
<1>3. IsPrefix(r, q)
  BY <1>1, <1>2, PrefixTransitive DEF IsStrictPrefix
<1>4. Len(r) \in Nat /\ Len(q) \in Nat /\ Len(b) < Len(q)
  BY <1>1, <1>2, NameType, StrictlyBelow DEF IsStrictPrefix
<1>5. Len(r) < Len(q)
  BY <1>1, <1>4
<1>6. IsStrictPrefix(r, q)
  BY <1>3, <1>5, StrictlyBelow
<1>7. Len(Front(q)) = Len(q) - 1
  BY <1>1, <1>2, FrontBelow, FrontName
<1>8. Front(q) # r
  BY <1>1, <1>4, <1>7
<1>9. QED BY <1>6, <1>8

\* partial_submachine_state: a well-formed machine is embedded in a well-formed one.
LEMMA SubmachineFits ==
  ASSUME Naming(Nat), NEW model, WellFormed(Nat, model), model.stack = <<model.root>>,
         NEW machine, WellFormed(Nat, machine)
  PROVE  WellFormed(Nat, PartialSubmachineState(model, Submachine, machine))
<1> DEFINE root       == model.root
           boundary   == Append(root, Submachine)
           child      == Rebase(machine, boundary)
           operations == Members(child, "operation")
           attributes == child.attributes
           M  == child.members
           D  == DOMAIN M
           to == [q \in D |-> RewriteSubmachineEventReference(q, operations, attributes, boundary, root)]
           members == [q \in D |-> RewriteSubmachineReferences(M[q], operations, attributes, boundary, root)]
           state   == [NewState("submachine") EXCEPT !.initial = child.initial]
           r == Renamed(members, to)
           s == [p \in {boundary} |-> state]
           f == Overlay(r, s)
           n == [model EXCEPT !.members = Overlay(f, @)]
           A == {Lifted(q, boundary, root) : q \in attributes}
           named == [n EXCEPT !.attributes = @ \cup A]
<1>1. /\ root \in Name /\ root # None /\ Head(root) # Call /\ Top(model) = root
      /\ Submachine \in Segment /\ NamedAs(Nat, Submachine, "user") /\ Submachine \notin AttributeNames /\ Submachine # "transition"
  <2>1. Submachine \in VertexNames
    BY DEF VertexNames
  <2>2. Submachine \in Segment /\ NamedAs(Nat, Submachine, "user")
    BY <2>1, UserSegments
  <2>3. Submachine \notin AttributeNames /\ Submachine # "transition"
    BY <2>1, <2>2, UserIsNotMadeUp DEF Naming
  <2>4. Top(model) = root
    BY TopOf
  <2>5. QED BY <2>2, <2>3, <2>4, Parts
<1>2. /\ boundary \in Name /\ boundary # None /\ Front(boundary) = root /\ Last(boundary) = Submachine
      /\ IsStrictPrefix(root, boundary) /\ IsRoot(boundary)
  <2>1. boundary \in Name /\ boundary # None /\ Front(boundary) = root /\ Last(boundary) = Submachine /\ IsStrictPrefix(root, boundary)
    BY <1>1, AppendName, AppendBelow, PrefixReflexive
  <2> HIDE DEF boundary
  <2>2. Head(boundary) # Call
    BY <1>1, <2>1, HeadBelow DEF IsStrictPrefix
  <2>3. QED BY <2>1, <2>2 DEF IsRoot
<1>3. WellFormed(Nat, child) /\ child.root = boundary
  <2> HIDE DEF boundary
  <2> QED BY <1>2, RebaseFits
<1>4. \A p \in operations \cup attributes : p \in Name /\ IsStrictPrefix(boundary, p)
  <2> HIDE DEF child, boundary
  <2>1. \A p \in operations : p \in Name /\ IsStrictPrefix(child.root, p)
    BY <1>3, Parts DEF Members
  <2>2. \A p \in attributes : p \in Name /\ IsStrictPrefix(child.root, p)
    BY <1>3 DEF WellFormed
  <2>3. QED BY <1>3, <2>1, <2>2
<1> HIDE DEF child, boundary
<1>5. PartialSubmachineState(model, Submachine, machine) = Push(named, boundary)
  <2>1. PartialSubmachineState(model, Submachine, machine) =
          Push([model EXCEPT !.members = Overlay(r, Put(model, boundary, state).members), !.attributes = @ \cup A], boundary)
    BY <1>1 DEF PartialSubmachineState, child, boundary
  <2> HIDE DEF r, state, A
  <2>2. model = [root |-> model.root, initial |-> model.initial, members |-> model.members,
                 attributes |-> model.attributes, stack |-> model.stack]
    BY DEF WellFormed
  <2>3. Put(model, boundary, state).members = Overlay(s, model.members)
    BY <2>2 DEF Put
  <2>4. Overlay(r, Overlay(s, model.members)) = Overlay(f, model.members)
    <3> HIDE DEF s
    <3> QED BY OverlayAgain DEF f
  <2> HIDE DEF f, s
  <2>5. named = [model EXCEPT !.members = Overlay(f, model.members), !.attributes = @ \cup A]
    BY <2>2
  <2> HIDE DEF n, named
  <2>6. QED BY <2>1, <2>3, <2>4, <2>5
<1>6. ASSUME NEW q \in D
      PROVE  /\ q \in Name /\ IsStrictPrefix(boundary, q) /\ IsMember(Nat, child, q, M[q]) /\ Sort(M[q]) \in Sorts \cup {"user"}
             /\ to[q] = IF q \in operations \cup attributes THEN Lifted(q, boundary, root) ELSE q
             /\ members[q] = RewriteSubmachineReferences(M[q], operations, attributes, boundary, root)
  <2>1. q \in Name /\ IsStrictPrefix(boundary, q) /\ IsMember(Nat, child, q, M[q]) /\ Sort(M[q]) \in Sorts \cup {"user"}
    BY <1>3, Parts DEF WellFormed
  <2>2. Head(q) # Call
    BY <1>2, <2>1, HeadBelow DEF IsStrictPrefix, IsRoot
  <2>3. to[q] = RewriteSubmachineEventReference(q, operations, attributes, boundary, root)
    OBVIOUS
  <2> HIDE DEF to, operations
  <2>4. to[q] = IF q \in operations \cup attributes THEN Lifted(q, boundary, root) ELSE q
    BY <2>2, <2>3 DEF RewriteSubmachineEventReference
  <2>5. QED BY <2>1, <2>4
<1>7. /\ to = [p \in DOMAIN members |-> to[p]] /\ DOMAIN members = D /\ DOMAIN to = D /\ IsFiniteSet(D)
  BY <1>3, Parts
<1> HIDE DEF to, members
<1>8. ASSUME NEW q \in D
      PROVE  /\ IsElement(members[q]) /\ members[q].is = M[q].is /\ members[q].is \in Variants
             /\ Sort(members[q]) = Sort(M[q]) /\ DOMAIN members[q] = DOMAIN M[q]
  <2> DEFINE e == M[q]
  <2>1. IsElement(e) /\ members[q] = RewriteSubmachineReferences(e, operations, attributes, boundary, root)
    BY <1>6 DEF IsMember
  <2> HIDE DEF e, operations
  <2>2. LET d == RewriteSubmachineReferences(e, operations, attributes, boundary, root)
        IN  IsElement(d) /\ d.is = e.is /\ d.is \in Variants /\ Sort(d) = Sort(e) /\ DOMAIN d = DOMAIN e
    BY <2>1, RewrittenElement
  <2>3. QED BY <2>1, <2>2 DEF e
<1>9. ASSUME NEW q \in D
      PROVE  /\ to[q] \in Name /\ IsStrictPrefix(root, to[q]) /\ Last(to[q]) = Last(q)
             /\ to[q] = q \/ (M[q].is \in {"operation", "attribute"} /\ Sort(M[q]) = "user")
             /\ to[q] = q => Front(to[q]) # root
  <2>1. CASE q \in operations \cup attributes
    <3>1. to[q] = Lifted(q, boundary, root)
      BY <1>6, <2>1
    <3>2. M[q].is \in {"operation", "attribute"} /\ Sort(M[q]) = "user"
      BY <1>3, <2>1, OnlyDeclarationsMove
    <3>3. to[q] \in Name /\ IsStrictPrefix(root, to[q]) /\ Last(to[q]) = Last(q)
      BY <1>1, <1>2, <1>6, <3>1, LiftedBelow
    <3>4. ASSUME to[q] = q PROVE Front(to[q]) # root
      BY <1>1, <1>6, <3>4, DeepBelow DEF boundary
    <3>5. QED BY <3>2, <3>3, <3>4
  <2>2. CASE q \notin operations \cup attributes
    <3>1. to[q] = q
      BY <1>6, <2>2
    <3>2. IsStrictPrefix(root, q) /\ Front(q) # root
      BY <1>1, <1>6, DeepBelow DEF boundary
    <3>3. QED BY <1>6, <3>1, <3>2
  <2>3. QED BY <2>1, <2>2
<1>10. /\ IsFiniteSet(DOMAIN r)
       /\ \A q \in DOMAIN r : \E p \in D : to[p] = q /\ r[q] = members[p]
       /\ \A p \in D : to[p] \in DOMAIN r
  <2>1. IsFiniteSet(DOMAIN members)
    BY <1>7
  <2>2. /\ IsFiniteSet(DOMAIN r) /\ r = [q \in DOMAIN r |-> r[q]]
        /\ \A q \in DOMAIN r : \E p \in DOMAIN members : to[p] = q /\ r[q] = members[p]
        /\ \A p \in DOMAIN members : to[p] \in DOMAIN r
    BY <1>7, <2>1, RenamedMembers
  <2> HIDE DEF r
  <2>3. QED BY <1>7, <2>2
<1> HIDE DEF r
<1>11. /\ DOMAIN f = DOMAIN r \cup {boundary} /\ \A q \in DOMAIN r : f[q] = r[q]
       /\ boundary \notin DOMAIN r => f[boundary] = state
       /\ IsFiniteSet(DOMAIN f)
  <2>1. DOMAIN s = {boundary} /\ s[boundary] = state
    BY DEF s
  <2> HIDE DEF s, state
  <2>2. DOMAIN f = DOMAIN r \cup {boundary} /\ \A q \in DOMAIN f : f[q] = IF q \in DOMAIN r THEN r[q] ELSE s[q]
    BY <2>1 DEF Overlay
  <2> HIDE DEF f
  <2>3. IsFiniteSet(DOMAIN f)
    <3>1. IsFiniteSet(DOMAIN r) /\ IsFiniteSet({boundary})
      BY <1>10, FS_Singleton
    <3>2. QED BY <2>2, <3>1, FS_Union
  <2>4. QED BY <2>1, <2>2, <2>3
<1>12. /\ n = [root |-> model.root, initial |-> model.initial, members |-> Overlay(f, model.members),
               attributes |-> model.attributes, stack |-> model.stack]
       /\ n.root = root /\ n.members = Overlay(f, model.members) /\ n.stack = model.stack
  <2> HIDE DEF f
  <2> QED BY DEF WellFormed
<1>a. n = [model EXCEPT !.members = Overlay(f, @)]
  OBVIOUS
<1>b. /\ DOMAIN n.members = DOMAIN f \cup DOMAIN model.members
      /\ \A q \in DOMAIN n.members : n.members[q] = IF q \in DOMAIN f THEN f[q] ELSE model.members[q]
  <2> HIDE DEF f, n
  <2> QED BY <1>12 DEF Overlay
<1> HIDE DEF f, n
<1>13. ASSUME NEW p \in D, Sort(M[p]) # "user" PROVE HasSort(n, p, Sort(M[p]))
  <2>1. to[p] = p /\ p \in DOMAIN r /\ NamedAs(Nat, Last(p), Sort(M[p]))
    BY <1>6, <1>9, <1>10, <1>13 DEF IsMember
  <2>2. PICK c \in D : to[c] = p /\ r[p] = members[c]
    BY <1>10, <2>1
  <2>3. Last(p) = Last(c) /\ NamedAs(Nat, Last(c), Sort(M[c])) /\ Sort(r[p]) = Sort(M[c])
    BY <1>6, <1>8, <1>9, <2>2 DEF IsMember
  <2>4. Sort(M[c]) = Sort(M[p])
    BY <1>6, <2>1, <2>3, SortDecides
  <2>5. p \in DOMAIN n.members /\ n.members[p] = r[p]
    BY <1>11, <1>b, <2>1
  <2>6. QED BY <2>3, <2>4, <2>5 DEF HasSort
<1>14. Suits(n, boundary, "initial", child.initial)
  <2>1. child.initial = None \/ HasSort(child, child.initial, "initial")
    BY <1>3 DEF WellFormed
  <2>2. child.initial = None \/ (child.initial \in Name /\ HasSort(n, child.initial, "initial"))
    BY <1>6, <1>13, <2>1 DEF HasSort
  <2>3. None \in Name
    BY DEF None, Name
  <2>4. QED BY <2>2, <2>3 DEF Suits, References, ReferenceLists, BehaviorLists
<1>15. /\ IsElement(state) /\ state.is = "state" /\ Sort(state) = "user"
       /\ \A field \in DOMAIN state : Suits(n, boundary, field, state[field])
  BY <1>14, EmbeddingState
<1> HIDE DEF state
<1>16. \A p \in DOMAIN n.members : n.members[p].is \in Variants
  <2> TAKE p \in DOMAIN n.members
  <2>1. CASE p \in DOMAIN r
    BY <1>8, <1>10, <1>11, <1>b, <2>1
  <2>2. CASE p \notin DOMAIN r /\ p = boundary
    BY <1>11, <1>15, <1>b, <2>2 DEF Variants
  <2>3. CASE p \notin DOMAIN r /\ p # boundary
    BY <1>11, <1>b, <2>3, Parts
  <2>4. QED BY <2>1, <2>2, <2>3
<1>17. ASSUME NEW q \in DOMAIN f PROVE IsMember(Nat, n, q, f[q])
  <2>1. CASE q \in DOMAIN r
    <3>1. PICK p \in D : to[p] = q /\ r[q] = members[p]
      BY <1>10, <2>1
    <3>2. f[q] = members[p]
      BY <1>11, <2>1, <3>1
    <3>3. q \in Name /\ IsStrictPrefix(n.root, q) /\ Last(q) = Last(p)
      BY <1>9, <1>12, <3>1
    <3>4. /\ IsElement(f[q]) /\ f[q].is = M[p].is /\ Sort(f[q]) = Sort(M[p]) /\ DOMAIN f[q] = DOMAIN M[p]
      BY <1>8, <3>2
    <3>5. NamedAs(Nat, Last(q), Sort(f[q])) /\ (f[q].is \in {"state", "vertex"} => Last(q) \notin AttributeNames)
      BY <1>6, <3>3, <3>4 DEF IsMember
    <3>6. \A field \in DOMAIN f[q] : Suits(n, q, field, f[q][field])
      <4> TAKE field \in DOMAIN f[q]
      <4>1. field \in DOMAIN M[p] /\ (q = p \/ M[p].is \in {"operation", "attribute"})
        BY <1>9, <3>1, <3>4
      <4>2. \A b \in operations \cup attributes : b \in Name /\ IsPrefix(child.root, b)
        BY <1>3, <1>4 DEF IsStrictPrefix
      <4> HIDE DEF operations
      <4>3. Suits(n, q, field, RewriteSubmachineReferences(M[p], operations, attributes, child.root, root)[field])
        BY <1>1, <1>3, <1>13, <1>16, <4>1, <4>2, RewrittenSuits
      <4>4. QED BY <1>3, <1>6, <3>2, <4>3
    <3>7. ASSUME Last(q) = "transition" PROVE Front(q) # n.root
      <4>1. to[p] = p
        <5>1. NamedAs(Nat, Last(p), "transition") /\ NamedAs(Nat, Last(p), Sort(M[p]))
          BY <1>6, <3>3, <3>7, MadeUp DEF IsMember
        <5>2. Sort(M[p]) = "transition"
          BY <1>6, <5>1, SortDecides DEF Sorts
        <5>3. QED BY <1>9, <5>2
      <4>2. QED BY <1>9, <1>12, <3>1, <4>1
    <3>8. QED BY <3>3, <3>4, <3>5, <3>6, <3>7 DEF IsMember
  <2>2. CASE q \notin DOMAIN r
    <3>1. q = boundary /\ f[q] = state
      BY <1>11, <2>2
    <3>2. QED BY <1>1, <1>2, <1>12, <1>15, <3>1 DEF IsMember
  <2>3. QED BY <2>1, <2>2
<1>18. WellFormed(Nat, n)
  BY <1>11, <1>17, <1>a, Overlaid
<1>19. \A q \in A : q \in Name /\ IsStrictPrefix(n.root, q) /\ Last(q) \in AttributeNames
  <2> TAKE q \in A
  <2>1. PICK p \in attributes : q = Lifted(p, boundary, root)
    BY DEF A
  <2>2. p \in Name /\ IsStrictPrefix(boundary, p) /\ Last(p) \in AttributeNames
    BY <1>3 DEF WellFormed
  <2>3. QED BY <1>1, <1>2, <1>12, <2>1, <2>2, LiftedBelow
<1> HIDE DEF A
<1>20. WellFormed(Nat, named) /\ named.root = n.root /\ named.stack = n.stack /\ named.members = n.members
  BY <1>18, <1>19, AttributesNamed
<1> HIDE DEF named
<1>21. boundary \in DOMAIN named.members /\ Front(boundary) = Top(named)
  BY <1>1, <1>2, <1>11, <1>12, <1>20, <1>b DEF Top
<1>22. QED BY <1>5, <1>20, <1>21, PushFits

-----------------------------------------------------------------------------
(* Filtered, joined and ordered sequences *)

\* What Filter keeps is in the set.
LEMMA FilterIn ==
  ASSUME NEW E, NEW s \in Seq(E), NEW T, NEW x \in ToSet(Filter(s, T))
  PROVE  x \in T
<1>1. Filter(s, T) \in Seq(E)
  BY FilterType
<1>2. PICK picked : Picks(picked, Filter(s, T), s, T, Len(s))
  BY FilterPicks
<1> DEFINE f == Filter(s, T)
<1>3. f \in Seq(E) /\ \A i \in 1 .. Len(f) : f[i] \in T
  BY <1>1, <1>2 DEF Picks
<1> HIDE DEF f
<1>4. \A y \in ToSet(f) : y \in T
  BY <1>3 DEF ToSet
<1>5. QED BY <1>4 DEF f

\* g[i] joins the first i sequences.
Joins(g, seqs, n) ==
  g = [i \in 1 .. n |-> IF i = 1 THEN seqs[i] ELSE g[i - 1] \o seqs[i]]

\* The sequences joined so far exist for every number of them: the least number for which they do
\* not would have a predecessor for which they do.
LEMMA JoinsExist ==
  ASSUME NEW E, NEW seqs \in Seq(Seq(E))
  PROVE  \E g \in [1 .. Len(seqs) -> Seq(E)] : Joins(g, seqs, Len(seqs))
<1> DEFINE S == {n \in 0 .. Len(seqs) : \E g \in [1 .. n -> Seq(E)] : Joins(g, seqs, n)}
<1>0. Len(seqs) \in Nat /\ \A i \in 1 .. Len(seqs) : seqs[i] \in Seq(E)
  OBVIOUS
<1>1. 0 \in S
  <2> DEFINE g == [i \in 1 .. 0 |-> <<>>]
  <2>1. g \in [1 .. 0 -> Seq(E)] /\ Joins(g, seqs, 0)
    BY DEF Joins
  <2> HIDE DEF g
  <2>2. 0 \in 0 .. Len(seqs)
    BY <1>0
  <2>3. QED BY <2>1, <2>2
<1>2. ASSUME NEW n \in 0 .. Len(seqs) - 1, n \in S PROVE n + 1 \in S
  <2>1. PICK g \in [1 .. n -> Seq(E)] : Joins(g, seqs, n)
    BY <1>2
  <2> DEFINE h == [i \in 1 .. n + 1 |-> IF i \in 1 .. n THEN g[i]
                     ELSE IF i = 1 THEN seqs[i] ELSE g[i - 1] \o seqs[i]]
  <2>2. n \in Nat /\ n + 1 \in 1 .. Len(seqs) /\ n + 1 \in 0 .. Len(seqs)
    BY <1>0
  <2>3. seqs[n + 1] \in Seq(E) /\ (n # 0 => g[n] \in Seq(E)) /\ (n # 0 => g[n] \o seqs[n + 1] \in Seq(E))
    <3>1. seqs[n + 1] \in Seq(E)
      BY <1>0, <2>2
    <3>2. n # 0 => g[n] \in Seq(E)
      BY <2>2
    <3>3. QED BY <3>1, <3>2, ConcatProperties
  <2>4. h[n + 1] = IF n = 0 THEN seqs[n + 1] ELSE g[n] \o seqs[n + 1]
    BY <2>2
  <2>5. \A i \in 1 .. n : h[i] = g[i] /\ g[i] \in Seq(E)
    BY <2>2
  <2>6. DOMAIN h = 1 .. n + 1 /\ h = [i \in 1 .. n + 1 |-> h[i]]
    OBVIOUS
  <2> HIDE DEF h
  <2>7. \A i \in 1 .. n + 1 : i \in 1 .. n \/ i = n + 1
    BY <2>2
  <2>8. h \in [1 .. n + 1 -> Seq(E)]
    <3>1. \A i \in 1 .. n + 1 : h[i] \in Seq(E)
      BY <2>3, <2>4, <2>5, <2>7
    <3>2. QED BY <2>6, <3>1
  <2>9. ASSUME NEW i \in 1 .. n + 1 PROVE h[i] = IF i = 1 THEN seqs[i] ELSE h[i - 1] \o seqs[i]
    <3>1. CASE i = n + 1
      <4>1. CASE n = 0
        BY <2>4, <3>1, <4>1
      <4>2. CASE n # 0
        <5>1. n \in 1 .. n /\ i # 1 /\ i - 1 = n
          BY <2>2, <3>1, <4>2
        <5>2. h[n] = g[n]
          BY <2>5, <5>1
        <5>3. QED BY <2>4, <3>1, <4>2, <5>1, <5>2
      <4>3. QED BY <4>1, <4>2
    <3>2. CASE i \in 1 .. n
      <4>1. g[i] = IF i = 1 THEN seqs[i] ELSE g[i - 1] \o seqs[i]
        BY <2>1, <3>2 DEF Joins
      <4>2. h[i] = g[i] /\ (i # 1 => h[i - 1] = g[i - 1])
        <5>1. i # 1 => i - 1 \in 1 .. n
          BY <2>2, <3>2
        <5>2. QED BY <2>5, <3>2, <5>1
      <4>3. QED BY <4>1, <4>2
    <3>3. QED BY <2>7, <3>1, <3>2
  <2>10. Joins(h, seqs, n + 1)
    BY <2>6, <2>9 DEF Joins
  <2>11. QED BY <2>2, <2>8, <2>10
<1>3. Len(seqs) \in S
  <2> HIDE DEF S
  <2>1. \A i \in 0 .. Len(seqs) - 1 : i \in S => i + 1 \in S
    BY <1>2
  <2>2. \A i \in 0 .. Len(seqs) : i \in S
    BY ONLY <1>0, <1>1, <2>1, SetInduction
  <2>3. QED BY <1>0, <2>2
<1>4. QED BY <1>3

\* Sequences of E are joined to a sequence of E.
LEMMA FlattenType ==
  ASSUME NEW E, NEW seqs \in Seq(Seq(E))
  PROVE  FlattenSeq(seqs) \in Seq(E)
<1> DEFINE n == Len(seqs)
           F(g) == [i \in 1 .. n |-> IF i = 1 THEN seqs[i] ELSE g[i - 1] \o seqs[i]]
           flat == CHOOSE g : g = F(g)
<1>0. n \in Nat /\ \A i \in 1 .. n : seqs[i] \in Seq(E)
  OBVIOUS
<1>1. FlattenSeq(seqs) = IF n = 0 THEN seqs ELSE flat[n]
  BY DEF FlattenSeq
<1>2. CASE n = 0
  <2>1. seqs = <<>>
    BY <1>2, EmptySeq
  <2>2. QED BY <1>1, <1>2, <2>1
<1>3. CASE n # 0
  <2>1. PICK g \in [1 .. n -> Seq(E)] : Joins(g, seqs, n)
    BY JoinsExist
  <2>2. g = F(g)
    BY <2>1 DEF Joins
  <2>3. flat = F(flat)
    <3> HIDE DEF F
    <3> QED BY <2>2
  <2> DEFINE S == {i \in 0 .. n : i # 0 => flat[i] \in Seq(E)}
  <2>4. \A i \in 1 .. n : flat[i] = IF i = 1 THEN seqs[i] ELSE flat[i - 1] \o seqs[i]
    <3> DEFINE k == flat
    <3>1. k = F(k)
      BY <2>3
    <3> HIDE DEF k
    <3>2. \A i \in 1 .. n : k[i] = IF i = 1 THEN seqs[i] ELSE k[i - 1] \o seqs[i]
      BY <3>1
    <3>3. QED BY <3>2 DEF k
  <2> HIDE DEF flat, F
  <2>5. 0 \in S
    BY <1>0
  <2>6. ASSUME NEW i \in 0 .. n - 1, i \in S PROVE i + 1 \in S
    <3>1. i + 1 \in 1 .. n /\ i + 1 \in 0 .. n /\ i + 1 # 0 /\ (i + 1) - 1 = i /\ (i + 1 = 1 <=> i = 0)
      BY <1>0
    <3>2. flat[i + 1] = IF i = 0 THEN seqs[i + 1] ELSE flat[i] \o seqs[i + 1]
      BY <2>4, <3>1
    <3>3. seqs[i + 1] \in Seq(E) /\ (i # 0 => flat[i] \in Seq(E))
      BY <1>0, <2>6, <3>1
    <3>4. flat[i + 1] \in Seq(E)
      BY <3>2, <3>3, ConcatProperties
    <3>5. QED BY <3>1, <3>4
  <2>7. n \in S
    <3> HIDE DEF S, n
    <3>1. \A i \in 0 .. n - 1 : i \in S => i + 1 \in S
      BY <2>6
    <3>2. \A i \in 0 .. n : i \in S
      BY ONLY <1>0, <2>5, <3>1, SetInduction
    <3>3. QED BY <1>0, <3>2
  <2>8. QED BY <1>1, <1>3, <2>7
<1>4. QED BY <1>2, <1>3

\* The number at the end of a name and its place in an order.
LEMMA RankType ==
  ASSUME NEW q \in Name, NEW stem
  PROVE  Number(q, stem) \in 0 .. MaxNumber /\ Rank(q, stem) \in Nat
<1> DEFINE T == {0} \cup {i \in 0 .. MaxNumber : Last(q) = Numbered(stem, i)}
           B == {l \in Nat : MaxNumber - l \in T}
<1>1. MaxNumber \in Nat /\ T \in SUBSET (0 .. MaxNumber)
  BY DEF MaxNumber
<1>2. Number(q, stem) = Max(T)
  BY DEF Number
<1>a. 0 \in T
  OBVIOUS
<1> HIDE DEF T
<1>3. B \in SUBSET Nat /\ B # {}
  <2>1. MaxNumber - MaxNumber = 0 /\ MaxNumber \in Nat
    BY <1>1
  <2>2. QED BY <1>a, <2>1
<1>4. PICK l \in B : \A k \in B : l <= k
  <2> HIDE DEF B
  <2> QED BY <1>3, LeastElement
<1>5. \A j \in T : MaxNumber - l >= j
  <2> TAKE j \in T
  <2>1. MaxNumber - j \in Nat /\ MaxNumber - (MaxNumber - j) = j
    BY <1>1
  <2>2. l <= MaxNumber - j
    BY <1>4, <2>1
  <2>3. QED BY <1>1, <2>2
<1>6. Max(T) \in T
  BY <1>5 DEF Max
<1>7. Number(q, stem) \in 0 .. MaxNumber
  BY <1>1, <1>2, <1>6
<1>8. Len(q) \in Nat
  BY NameType
<1>9. QED
  <2> DEFINE a == Len(q)
             b == Number(q, stem)
  <2>1. a \in Nat /\ b \in Nat
    BY <1>1, <1>7, <1>8
  <2>2. Rank(q, stem) = a * 100 + DigitOrder(b)
    BY DEF Rank
  <2> HIDE DEF a, b
  <2>3. DigitOrder(b) \in Nat
    BY <2>1 DEF DigitOrder
  <2>4. Rank(q, stem) \in Nat
    BY <2>1, <2>2, <2>3
  <2>5. QED BY <1>7, <2>4

\* The names of a list are different and in the order of their ranks.
Ordered(list, stem) ==
  \A i, j \in DOMAIN list : i < j => list[i] # list[j] /\ Rank(list[i], stem) <= Rank(list[j], stem)

\* Finitely many names can be put in order.
LEMMA OrderExists ==
  ASSUME NEW stem, NEW n \in Nat
  PROVE  \A names \in SUBSET Name :
           IsFiniteSet(names) /\ Cardinality(names) = n => \E list \in [1 .. n -> names] : Ordered(list, stem)
<1> DEFINE P(k) == \A names \in SUBSET Name :
             IsFiniteSet(names) /\ Cardinality(names) = k => \E list \in [1 .. k -> names] : Ordered(list, stem)
           S == {k \in 0 .. n : P(k)}
<1>1. 0 \in S
  <2>1. ASSUME NEW names PROVE \E list \in [1 .. 0 -> names] : Ordered(list, stem)
    <3> DEFINE list == [i \in 1 .. 0 |-> None]
    <3>1. list \in [1 .. 0 -> names] /\ Ordered(list, stem)
      BY DEF Ordered
    <3> HIDE DEF list
    <3>2. QED BY <3>1
  <2>2. QED BY <2>1
<1>2. ASSUME NEW k \in 0 .. n - 1, k \in S PROVE k + 1 \in S
  <2>1. P(k) /\ k \in Nat
    BY <1>2
  <2> HIDE DEF P
  <2>2. ASSUME NEW names \in SUBSET Name, IsFiniteSet(names), Cardinality(names) = k + 1
        PROVE  \E list \in [1 .. k + 1 -> names] : Ordered(list, stem)
    <3> DEFINE ranks == {r \in Nat : \E q \in names : Rank(q, stem) = r}
    <3>1. \E q \in names : TRUE
      <4>1. names # {}
        BY <2>1, <2>2, FS_EmptySet
      <4>2. QED BY <4>1
    <3>2. \A q \in names : Rank(q, stem) \in ranks
      BY RankType
    <3>3. ranks \in SUBSET Nat /\ ranks # {}
      BY <3>1, <3>2
    <3>4. PICK r \in ranks : \A b \in ranks : r <= b
      <4> HIDE DEF ranks
      <4> QED BY <3>3, LeastElement
    <3>5. PICK x \in names : Rank(x, stem) = r
      OBVIOUS
    <3>6. \A q \in names : Rank(x, stem) <= Rank(q, stem)
      BY <3>2, <3>4, <3>5
    <3> DEFINE rest == names \ {x}
    <3>7. IsFiniteSet(rest) /\ Cardinality(rest) = k /\ rest \in SUBSET Name
      <4>1. IsFiniteSet(rest) /\ Cardinality(rest) = Cardinality(names) - 1
        BY <2>2, FS_RemoveElement
      <4> DEFINE c == Cardinality(names)
                 d == Cardinality(rest)
      <4>2. d = c - 1 /\ c = k + 1
        BY <2>2, <4>1
      <4> HIDE DEF c, d
      <4>3. d = k
        BY <2>1, <4>2
      <4>4. QED BY <4>1, <4>3 DEF d
    <3>8. PICK list \in [1 .. k -> rest] : Ordered(list, stem)
      <4> HIDE DEF rest
      <4> QED BY <2>1, <3>7 DEF P
    <3> DEFINE longer == [i \in 1 .. k + 1 |-> IF i = 1 THEN x ELSE list[i - 1]]
    <3>9. \A i \in 1 .. k + 1 : i # 1 => i - 1 \in 1 .. k
      BY <2>1
    <3>10. /\ longer \in [1 .. k + 1 -> names] /\ DOMAIN longer = 1 .. k + 1
           /\ \A i \in 1 .. k + 1 : longer[i] = IF i = 1 THEN x ELSE list[i - 1]
      BY <3>9
    <3> HIDE DEF longer
    <3>11. ASSUME NEW i \in 1 .. k + 1, NEW j \in 1 .. k + 1, i < j
           PROVE  longer[i] # longer[j] /\ Rank(longer[i], stem) <= Rank(longer[j], stem)
      <4>1. j # 1 /\ j - 1 \in 1 .. k
        BY <2>1, <3>9, <3>11
      <4>2. longer[j] = list[j - 1] /\ list[j - 1] \in names /\ list[j - 1] # x
        BY <3>10, <4>1
      <4>3. CASE i = 1
        BY <3>6, <3>10, <4>2, <4>3
      <4>4. CASE i # 1
        <5>1. i - 1 \in 1 .. k /\ i - 1 < j - 1 /\ longer[i] = list[i - 1]
          BY <2>1, <3>9, <3>10, <3>11, <4>4
        <5>2. list[i - 1] # list[j - 1] /\ Rank(list[i - 1], stem) <= Rank(list[j - 1], stem)
          <6>1. DOMAIN list = 1 .. k
            OBVIOUS
          <6>2. QED BY <3>8, <4>1, <5>1, <6>1 DEF Ordered
        <5>3. QED BY <4>2, <5>1, <5>2
      <4>5. QED BY <4>3, <4>4
    <3>12. Ordered(longer, stem)
      BY <3>10, <3>11 DEF Ordered
    <3>13. QED BY <3>10, <3>12
  <2>3. P(k + 1)
    BY <2>2 DEF P
  <2>4. QED BY <2>1, <2>3
<1>3. n \in S
  <2> HIDE DEF S
  <2>1. \A k \in 0 .. n - 1 : k \in S => k + 1 \in S
    BY <1>2
  <2>2. \A k \in 0 .. n : k \in S
    BY ONLY <1>1, <2>1, SetInduction, n \in Nat
  <2>3. QED BY <2>2
<1>4. QED BY <1>3

\* The names in order are all of the names, and each once.
LEMMA InOrderType ==
  ASSUME NEW names \in SUBSET Name, IsFiniteSet(names), NEW stem
  PROVE  LET list == InOrder(names, stem)
         IN  /\ list \in Seq(names) /\ Len(list) = Cardinality(names) /\ Ordered(list, stem)
             /\ \A q \in names : \E i \in DOMAIN list : list[i] = q
             /\ \A i, j \in DOMAIN list : list[i] = list[j] => i = j
<1> DEFINE n == Cardinality(names)
           list == InOrder(names, stem)
<1>1. n \in Nat
  BY FS_CardinalityType
<1>2. \E l \in [1 .. n -> names] : Ordered(l, stem)
  BY <1>1, OrderExists
<1>3. list = CHOOSE l \in [1 .. n -> names] :
               \A i, j \in DOMAIN l : i < j => l[i] # l[j] /\ Rank(l[i], stem) <= Rank(l[j], stem)
  BY DEF InOrder
<1> HIDE DEF list
<1>4. list \in [1 .. n -> names] /\ Ordered(list, stem)
  BY <1>2, <1>3 DEF Ordered
<1>5. list \in Seq(names) /\ Len(list) = n /\ DOMAIN list = 1 .. n
  <2> HIDE DEF n
  <2> QED BY <1>1, <1>4
<1>6. \A i, j \in 1 .. n : list[i] = list[j] => i = j
  <2> TAKE i, j \in 1 .. n
  <2>1. (i < j \/ j < i) => list[i] # list[j]
    BY <1>4, <1>5 DEF Ordered
  <2> HIDE DEF n
  <2>2. i = j \/ i < j \/ j < i
    BY <1>1
  <2>3. QED BY <2>1, <2>2
<1>7. list \in Surjection(1 .. n, names)
  <2>1. list \in Injection(1 .. n, names)
    <3> HIDE DEF n
    <3> QED BY <1>4, <1>6 DEF Injection, IsInjective
  <2>2. IsFiniteSet(1 .. n) /\ Cardinality(1 .. n) = n
    BY <1>1, FS_Interval
  <2>3. QED BY <2>1, <2>2, FS_Injection
<1>8. \A q \in names : \E i \in DOMAIN list : list[i] = q
  BY <1>5, <1>7 DEF Surjection
<1>9. QED BY <1>4, <1>5, <1>6, <1>8 DEF list

-----------------------------------------------------------------------------
(* The steps of finalize_model *)

\* An element of which one field is changed.
LEMMA ChangedElement ==
  ASSUME NEW model, NEW q, NEW e, IsElement(e), \A a \in DOMAIN e : Suits(model, q, a, e[a]),
         NEW field, field \notin {"is", "observes"}, field = "kind" => e.is # "vertex",
         NEW value, field \in DOMAIN e => Suits(model, q, field, value)
  PROVE  LET d == [e EXCEPT ![field] = value]
         IN  /\ IsElement(d) /\ d.is = e.is /\ Sort(d) = Sort(e)
             /\ \A a \in DOMAIN d : Suits(model, q, a, d[a])
<1> DEFINE d == [e EXCEPT ![field] = value]
<1>1. e = [a \in DOMAIN e |-> e[a]] /\ DOMAIN e = Fields(e.is)
  BY DEF IsElement
<1>2. /\ DOMAIN d = DOMAIN e /\ d = [a \in DOMAIN d |-> d[a]]
      /\ \A a \in DOMAIN e : a # field => d[a] = e[a]
      /\ field \in DOMAIN e => d[field] = value
  BY <1>1
<1> HIDE DEF d
<1>3. "is" \in DOMAIN e /\ ("kind" \in DOMAIN e \/ e.is # "vertex") /\ ("observes" \in DOMAIN e \/ e.is # "behavior")
  BY <1>1, FieldsOf DEF IsElement, Variants, Hooks
<1>4. d["is"] = e["is"] /\ (e.is = "vertex" => d["kind"] = e["kind"]) /\ (e.is = "behavior" => d["observes"] = e["observes"])
  BY <1>2, <1>3
<1>5. d.is = e.is /\ (e.is = "vertex" => d.kind = e.kind) /\ (e.is = "behavior" => d.observes = e.observes)
  BY <1>4
<1>6. Sort(d) = Sort(e)
  BY <1>5 DEF Sort
<1>7. IsElement(d)
  BY <1>2, <1>5 DEF IsElement
<1>8. \A a \in DOMAIN d : Suits(model, q, a, d[a])
  BY <1>2
<1>9. QED BY <1>5, <1>6, <1>7, <1>8 DEF d

\* In other, one field of the elements T of the model has another value, one that suits them.
Changes(model, T, field, value, other) ==
  /\ T \in SUBSET DOMAIN model.members /\ field \notin {"is", "observes"}
  /\ \A q \in T : /\ field = "kind" => model.members[q].is # "vertex"
                  /\ field \in DOMAIN model.members[q] => Suits(model, q, field, value[q])
  /\ other = [model EXCEPT !.members =
                [q \in DOMAIN model.members |->
                   IF q \in T THEN [model.members[q] EXCEPT ![field] = value[q]] ELSE model.members[q]]]

\* One field of some of the members is changed.
LEMMA ChangedFits ==
  ASSUME NEW model, WellFormed(Nat, model), NEW T, NEW field, NEW value, NEW other,
         Changes(model, T, field, value, other)
  PROVE  /\ WellFormed(Nat, other) /\ Keeps(model, other) /\ other.stack = model.stack
         /\ DOMAIN other.members = DOMAIN model.members
<1> DEFINE g == [q \in DOMAIN model.members |->
                   IF q \in T THEN [model.members[q] EXCEPT ![field] = value[q]] ELSE model.members[q]]
<1>0. /\ T \in SUBSET DOMAIN model.members /\ field \notin {"is", "observes"}
      /\ \A q \in T : /\ field = "kind" => model.members[q].is # "vertex"
                      /\ field \in DOMAIN model.members[q] => Suits(model, q, field, value[q])
  BY DEF Changes
<1>1. DOMAIN g = DOMAIN model.members /\ g = [q \in DOMAIN g |-> g[q]]
  OBVIOUS
<1>2. ASSUME NEW q \in DOMAIN g
      PROVE  /\ IsElement(g[q]) /\ g[q].is = model.members[q].is /\ Sort(g[q]) = Sort(model.members[q])
             /\ \A a \in DOMAIN g[q] : Suits(model, q, a, g[q][a])
  <2> DEFINE e == model.members[q]
  <2>1. IsElement(e) /\ \A a \in DOMAIN e : Suits(model, q, a, e[a])
    BY <1>1 DEF WellFormed, IsMember
  <2>2. g[q] = IF q \in T THEN [e EXCEPT ![field] = value[q]] ELSE e
    BY <1>1
  <2>3. q \in T => (field = "kind" => e.is # "vertex") /\ (field \in DOMAIN e => Suits(model, q, field, value[q]))
    BY <1>0
  <2>4. QED
    <3> DEFINE v == value[q]
    <3> HIDE DEF e, v
    <3>1. CASE q \notin T
      BY <2>1, <2>2, <3>1 DEF e
    <3>2. CASE q \in T
      <4>1. g[q] = [e EXCEPT ![field] = v] /\ (field = "kind" => e.is # "vertex") /\ (field \in DOMAIN e => Suits(model, q, field, v))
        BY <2>2, <2>3, <3>2 DEF v
      <4>2. LET d == [e EXCEPT ![field] = v]
            IN  /\ IsElement(d) /\ d.is = e.is /\ Sort(d) = Sort(e)
                /\ \A a \in DOMAIN d : Suits(model, q, a, d[a])
        BY <1>0, <2>1, <4>1, ChangedElement
      <4>3. QED BY <4>1, <4>2 DEF e
    <3>3. QED BY <3>1, <3>2
<1>a. WellFormed(Nat, model) /\ other = [model EXCEPT !.members = g]
  BY DEF Changes
<1> HIDE DEF g
<1>3. WellFormed(Nat, other) /\ Keeps(model, other)
  BY ONLY <1>1, <1>2, <1>a, Replaced
<1>4. other = [root |-> model.root, initial |-> model.initial, members |-> g,
               attributes |-> model.attributes, stack |-> model.stack]
  BY <1>a DEF WellFormed
<1>5. QED BY <1>1, <1>3, <1>4

\* A transition's fields.
LEMMA TransitionOf ==
  ASSUME NEW model, WellFormed(Nat, model), NEW t, IsTransition(model, t)
  PROVE  LET e == model.members[t]
         IN  /\ t \in DOMAIN model.members /\ e.is = "transition" /\ IsElement(e) /\ DOMAIN e = Fields("transition")
             /\ e.source \in Name /\ e.target \in Name /\ e.events \in Seq(Name)
<1>1. t \in DOMAIN model.members /\ model.members[t].is = "transition"
  BY DEF IsTransition, Is
<1>2. IsElement(model.members[t]) /\ \A a \in DOMAIN model.members[t] : Suits(model, t, a, model.members[t][a])
  BY <1>1 DEF WellFormed, IsMember
<1>3. DOMAIN model.members[t] = Fields("transition")
  BY <1>1, <1>2 DEF IsElement
<1>4. {"source", "target", "events"} \subseteq DOMAIN model.members[t]
  BY <1>3, FieldsOf
<1>5. model.members[t]["source"] \in Name /\ model.members[t]["target"] \in Name /\ model.members[t]["events"] \in Seq(Name)
  BY <1>2, <1>4 DEF Suits, References, ReferenceLists
<1>6. QED BY <1>1, <1>2, <1>3, <1>5

\* resolve_transition_targets
LEMMA ResolveFits ==
  ASSUME NEW model, WellFormed(Nat, model)
  PROVE  LET other == ResolveTransitionTargets(model)
         IN  /\ WellFormed(Nat, other) /\ Keeps(model, other) /\ other.stack = model.stack
             /\ DOMAIN other.members = DOMAIN model.members
<1> DEFINE T == {q \in DOMAIN model.members : IsTransition(model, q)}
           value == [q \in T |-> ResolvedTarget(model, q)]
           g == [q \in DOMAIN model.members |->
                   IF q \in T THEN [model.members[q] EXCEPT !.target = value[q]] ELSE model.members[q]]
           other == ResolveTransitionTargets(model)
<1>1. other = [model EXCEPT !.members = g]
  <2> DEFINE h == [q \in DOMAIN model.members |->
                     IF IsTransition(model, q) THEN [model.members[q] EXCEPT !.target = ResolvedTarget(model, q)] ELSE model.members[q]]
  <2>1. other = [model EXCEPT !.members = h]
    BY DEF ResolveTransitionTargets
  <2>2. h = g
    OBVIOUS
  <2>3. QED BY <2>1, <2>2
<1>2. ASSUME NEW q \in T PROVE ResolvedTarget(model, q) \in Name
  <2> DEFINE source  == model.members[q].source
             target  == model.members[q].target
             context == IF source = model.root \/ IsState(model, source) THEN source ELSE Front(source)
             rest    == SubSeq(target, Len(context) + 1, Len(target))
             fallback == model.root \o rest
             found == /\ target # None /\ ~HasEndpoint(model, target)
                      /\ context # None /\ IsPrefix(context, target) /\ target # context
                      /\ HasEndpoint(model, fallback)
  <2>1. source \in Name /\ target \in Name /\ model.root \in Name
    BY TransitionOf, Parts
  <2>2. ResolvedTarget(model, q) = IF found THEN fallback ELSE target
    BY DEF ResolvedTarget
  <2>3. ASSUME found PROVE rest \in Name
    <3>1. context \in Name
      <4>1. Len(source) \in Nat /\ \A i \in 1 .. Len(source) : source[i] \in Segment
        BY <2>1, NameType
      <4>2. 1 \in Int /\ Len(source) - 1 \in Int /\ \A i \in 1 .. Len(source) - 1 : source[i] \in Segment
        <5> HIDE DEF source
        <5> QED BY <4>1
      <4>3. Front(source) \in Name
        <5> HIDE DEF source
        <5> QED BY <4>2, SubSeqProperties DEF Front, Name
      <4>4. QED BY <2>1, <4>3
    <3> HIDE DEF context, target
    <3>2. Len(context) \in Nat /\ Len(target) \in Nat
      BY <2>1, <3>1, NameType
    <3>3. QED BY <2>1, <3>2, SomeSegments
  <2> HIDE DEF found, rest, target
  <2>4. QED BY <2>1, <2>2, <2>3, ConcatName
<1>3. \A q \in T : /\ "target" = "kind" => model.members[q].is # "vertex"
                   /\ "target" \in DOMAIN model.members[q] => Suits(model, q, "target", value[q])
  BY <1>2, NameSuits
<1> DEFINE field == "target"
<1>4. Changes(model, T, field, value, other)
  <2>1. T \in SUBSET DOMAIN model.members /\ field \notin {"is", "observes"}
    OBVIOUS
  <2> HIDE DEF value, T, other
  <2>2. QED BY <1>1, <1>3, <2>1 DEF Changes
<1> HIDE DEF T, field, value, other
<1>5. WellFormed(Nat, other) /\ Keeps(model, other) /\ other.stack = model.stack
      /\ DOMAIN other.members = DOMAIN model.members
  BY <1>4, ChangedFits
<1>6. QED BY <1>5 DEF other

\* register_completion_transitions
LEMMA CompletionFits ==
  ASSUME Naming(Nat), NEW model, WellFormed(Nat, model)
  PROVE  LET other == RegisterCompletionTransitions(model)
         IN  /\ WellFormed(Nat, other) /\ Keeps(model, other) /\ other.stack = model.stack
             /\ DOMAIN other.members = DOMAIN model.members
<1> DEFINE T == {q \in DOMAIN model.members :
                   IsTransition(model, q) /\ model.members[q].events = <<>> /\ HasKind(model, model.members[q].source, States)}
           value == [q \in T |-> <<FinalEvent>>]
           g == [q \in DOMAIN model.members |->
                   IF q \in T THEN [model.members[q] EXCEPT !.events = value[q]] ELSE model.members[q]]
           other == RegisterCompletionTransitions(model)
<1>1. other = [model EXCEPT !.members = g]
  <2> DEFINE h == [q \in DOMAIN model.members |->
                     IF IsTransition(model, q) /\ model.members[q].events = <<>> /\ HasKind(model, model.members[q].source, States)
                     THEN [model.members[q] EXCEPT !.events = <<FinalEvent>>] ELSE model.members[q]]
  <2>1. other = [model EXCEPT !.members = h]
    BY DEF RegisterCompletionTransitions
  <2>2. h = g
    OBVIOUS
  <2>3. QED BY <2>1, <2>2
<1>2. <<FinalEvent>> \in Seq(Name)
  <2>1. FinalEvent \in Name
    BY DEF Naming
  <2>2. QED BY <2>1
<1>3. \A q \in T : /\ "events" = "kind" => model.members[q].is # "vertex"
                   /\ "events" \in DOMAIN model.members[q] => Suits(model, q, "events", value[q])
  BY <1>2, EventsSuit
<1> DEFINE field == "events"
<1>4. Changes(model, T, field, value, other)
  <2>1. T \in SUBSET DOMAIN model.members /\ field \notin {"is", "observes"}
    OBVIOUS
  <2> HIDE DEF value, T, other
  <2>2. QED BY <1>1, <1>3, <2>1 DEF Changes
<1> HIDE DEF T, field, value, other
<1>5. WellFormed(Nat, other) /\ Keeps(model, other) /\ other.stack = model.stack
      /\ DOMAIN other.members = DOMAIN model.members
  BY <1>4, ChangedFits
<1>6. QED BY <1>5 DEF other

\* finalize_transition_kinds
LEMMA KindsFit ==
  ASSUME NEW model, WellFormed(Nat, model)
  PROVE  LET other == FinalizeTransitionKinds(model)
         IN  /\ WellFormed(Nat, other) /\ Keeps(model, other) /\ other.stack = model.stack
             /\ DOMAIN other.members = DOMAIN model.members
<1> DEFINE T == {q \in DOMAIN model.members : IsTransition(model, q)}
           value == [q \in T |-> TransitionKind(model.members[q])]
           g == [q \in DOMAIN model.members |->
                   IF q \in T THEN [model.members[q] EXCEPT !.kind = value[q]] ELSE model.members[q]]
           other == FinalizeTransitionKinds(model)
<1>1. other = [model EXCEPT !.members = g]
  <2> DEFINE h == [q \in DOMAIN model.members |->
                     IF IsTransition(model, q) THEN [model.members[q] EXCEPT !.kind = TransitionKind(model.members[q])]
                     ELSE model.members[q]]
  <2>1. other = [model EXCEPT !.members = h]
    BY DEF FinalizeTransitionKinds
  <2>2. h = g
    OBVIOUS
  <2>3. QED BY <2>1, <2>2
<1>2. \A q \in T : /\ "kind" = "kind" => model.members[q].is # "vertex"
                   /\ "kind" \in DOMAIN model.members[q] => Suits(model, q, "kind", value[q])
  BY PlainSuits DEF IsTransition, Is
<1> DEFINE field == "kind"
<1>4. Changes(model, T, field, value, other)
  <2>1. T \in SUBSET DOMAIN model.members /\ field \notin {"is", "observes"}
    OBVIOUS
  <2> HIDE DEF value, T, other
  <2>2. QED BY <1>1, <1>2, <2>1 DEF Changes
<1> HIDE DEF T, field, value, other
<1>5. WellFormed(Nat, other) /\ Keeps(model, other) /\ other.stack = model.stack
      /\ DOMAIN other.members = DOMAIN model.members
  BY <1>4, ChangedFits
<1>6. QED BY <1>5 DEF other

\* What two lists have, their concatenation has, and nothing else.
LEMMA ConcatElements ==
  ASSUME NEW E, NEW s \in Seq(E), NEW t \in Seq(E)
  PROVE  s \o t \in Seq(E) /\ \A x \in ToSet(s \o t) : x \in ToSet(s) \cup ToSet(t)
<1>1. s \o t \in Seq(E)
  OBVIOUS
<1>2. ASSUME NEW x \in ToSet(s \o t) PROVE x \in ToSet(s) \cup ToSet(t)
  <2>1. /\ DOMAIN (s \o t) = 1 .. Len(s) + Len(t) /\ Len(s) \in Nat /\ Len(t) \in Nat
        /\ DOMAIN s = 1 .. Len(s) /\ DOMAIN t = 1 .. Len(t)
    OBVIOUS
  <2>2. PICK i \in 1 .. Len(s) + Len(t) : x = (s \o t)[i]
    BY <2>1 DEF ToSet
  <2>3. CASE i <= Len(s)
    <3>1. x = s[i] /\ i \in DOMAIN s
      BY <2>1, <2>2, <2>3
    <3>2. QED BY <3>1 DEF ToSet
  <2>4. CASE ~(i <= Len(s))
    <3>1. x = t[i - Len(s)] /\ i - Len(s) \in DOMAIN t
      BY <2>1, <2>2, <2>4
    <3>2. QED BY <3>1 DEF ToSet
  <2>5. QED BY <2>3, <2>4
<1>3. QED BY <1>1, <1>2

\* register_transition_sources
LEMMA SourcesFit ==
  ASSUME NEW model, WellFormed(Nat, model)
  PROVE  LET other == RegisterTransitionSources(model)
         IN  /\ WellFormed(Nat, other) /\ Keeps(model, other) /\ other.stack = model.stack
             /\ DOMAIN other.members = DOMAIN model.members
<1> DEFINE T == {q \in DOMAIN model.members : IsVertex(model, q)}
           unlisted(v) == {t \in Members(model, "transition") :
                             model.members[t].source = v /\ ~Contains(model.members[v].transitions, t)}
           value == [q \in T |-> model.members[q].transitions \o InOrder(unlisted(q), "transition")]
           g == [q \in DOMAIN model.members |->
                   IF q \in T THEN [model.members[q] EXCEPT !.transitions = value[q]] ELSE model.members[q]]
           other == RegisterTransitionSources(model)
<1>1. other = [model EXCEPT !.members = g]
  <2> DEFINE all(v) == model.members[v].transitions \o InOrder(unlisted(v), "transition")
             h == [q \in DOMAIN model.members |->
                     IF IsVertex(model, q) THEN [model.members[q] EXCEPT !.transitions = all(q)] ELSE model.members[q]]
  <2>1. other = [model EXCEPT !.members = h]
    BY DEF RegisterTransitionSources
  <2>2. h = g
    <3> DEFINE a(q) == [model.members[q] EXCEPT !.transitions = all(q)]
               b(q) == [model.members[q] EXCEPT !.transitions = value[q]]
    <3>1. \A q \in DOMAIN model.members : (q \in T <=> IsVertex(model, q))
      OBVIOUS
    <3>2. \A q \in T : value[q] = all(q)
      OBVIOUS
    <3>3. \A q \in T : a(q) = b(q)
      <4> HIDE DEF all, value, T
      <4> QED BY <3>2
    <3>4. h = [q \in DOMAIN model.members |-> IF IsVertex(model, q) THEN a(q) ELSE model.members[q]]
      BY Zenon
    <3>5. g = [q \in DOMAIN model.members |-> IF q \in T THEN b(q) ELSE model.members[q]]
      BY Zenon
    <3> HIDE DEF a, b, h, g, T
    <3> QED BY <3>1, <3>3, <3>4, <3>5
  <2>3. QED
    <3> HIDE DEF h, g, other
    <3> QED BY <2>1, <2>2
<1>2. ASSUME NEW q \in T PROVE Suits(model, q, "transitions", value[q])
  <2> DEFINE U == unlisted(q)
             old == model.members[q].transitions
             new == InOrder(U, "transition")
  <2>1. Suits(model, q, "transitions", old) /\ old \in Seq(Name)
    BY ListOfVertex
  <2>2. U \in SUBSET DOMAIN model.members /\ \A t \in U : IsTransition(model, t)
    BY DEF Members, IsTransition, Is
  <2>3. value[q] = old \o new
    OBVIOUS
  <2> HIDE DEF U, value
  <2>4. IsFiniteSet(U) /\ U \in SUBSET Name
    BY <2>2, Parts, FS_Subset
  <2>5. new \in Seq(U)
    BY <2>4, InOrderType
  <2> HIDE DEF new, old
  <2>6. (\A t \in ToSet(new) : t \in U) /\ \A t \in ToSet(new) : t \in Name
    BY <2>4, <2>5, ElementsIn
  <2>7. new \in Seq(Name)
    BY <2>5, <2>6, InElements
  <2>8. old \o new \in Seq(Name) /\ \A t \in ToSet(old \o new) : t \in ToSet(old) \cup ToSet(new)
    BY <2>1, <2>7, ConcatElements
  <2>9. \A t \in ToSet(old \o new) : IsTransition(model, t)
    BY <2>1, <2>2, <2>6, <2>8 DEF Suits
  <2>10. QED BY <2>3, <2>8, <2>9 DEF Suits, References, BehaviorLists
<1>3. \A q \in T : /\ "transitions" = "kind" => model.members[q].is # "vertex"
                   /\ "transitions" \in DOMAIN model.members[q] => Suits(model, q, "transitions", value[q])
  BY <1>2
<1> DEFINE field == "transitions"
<1>4. Changes(model, T, field, value, other)
  <2>1. T \in SUBSET DOMAIN model.members /\ field \notin {"is", "observes"}
    OBVIOUS
  <2> HIDE DEF value, T, other
  <2>2. QED BY <1>1, <1>3, <2>1 DEF Changes
<1> HIDE DEF T, field, value, other
<1>5. WellFormed(Nat, other) /\ Keeps(model, other) /\ other.stack = model.stack
      /\ DOMAIN other.members = DOMAIN model.members
  BY <1>4, ChangedFits
<1>6. QED BY <1>5 DEF other

\* remove_generated_observation_behaviors
LEMMA RemovedFits ==
  ASSUME NEW model, WellFormed(Nat, model), model.stack = <<model.root>>
  PROVE  LET other == RemoveGeneratedObservationBehaviors(model)
         IN  /\ WellFormed(Nat, other) /\ other.stack = <<other.root>>
             /\ \A q \in DOMAIN other.members : Sort(other.members[q]) # "generated"
<1> DEFINE M == model.members
           own == {q \in DOMAIN M : ~IsGenerated(model, q)}
           kept(list) == Filter(list, {q \in ToSet(list) : ~IsGenerated(model, q)})
           change(q) == [field \in DOMAIN M[q] |-> IF field \in BehaviorLists THEN kept(M[q][field]) ELSE M[q][field]]
           g == [q \in own |-> change(q)]
           other == RemoveGeneratedObservationBehaviors(model)
<1>1. other = [model EXCEPT !.members = g]
  BY DEF RemoveGeneratedObservationBehaviors
<1>2. /\ other = [root |-> model.root, initial |-> model.initial, members |-> g,
                  attributes |-> model.attributes, stack |-> model.stack]
      /\ other.root = model.root /\ other.initial = model.initial /\ other.members = g
      /\ other.attributes = model.attributes /\ other.stack = model.stack
  <2>1. model = [root |-> model.root, initial |-> model.initial, members |-> model.members,
                 attributes |-> model.attributes, stack |-> model.stack]
    BY DEF WellFormed
  <2> HIDE DEF g, other
  <2>2. QED BY <1>1, <2>1
<1>3. own \in SUBSET DOMAIN M /\ \A q \in DOMAIN M : (q \in own <=> Sort(M[q]) # "generated")
  <2>1. \A q \in DOMAIN M : M[q].is \in Variants
    BY Parts
  <2>2. \A q \in DOMAIN M : IsGenerated(model, q) <=> Sort(M[q]) = "generated"
    BY <2>1, SortIs DEF IsGenerated, Is
  <2>3. QED BY <2>2
<1>4. DOMAIN g = own /\ g = [q \in DOMAIN g |-> g[q]] /\ \A q \in own : g[q] = change(q)
  OBVIOUS
<1> HIDE DEF other, g, own
<1>5. ASSUME NEW q \in own
      PROVE  /\ DOMAIN g[q] = DOMAIN M[q] /\ IsElement(g[q]) /\ g[q].is = M[q].is /\ g[q].is \in Variants
             /\ Sort(g[q]) = Sort(M[q])
             /\ \A field \in DOMAIN M[q] : g[q][field] = IF field \in BehaviorLists THEN kept(M[q][field]) ELSE M[q][field]
  <2> DEFINE e == M[q]
             d == g[q]
  <2>1. /\ DOMAIN d = DOMAIN e /\ d = [field \in DOMAIN d |-> d[field]]
        /\ \A field \in DOMAIN e : d[field] = IF field \in BehaviorLists THEN kept(e[field]) ELSE e[field]
    <3> HIDE DEF kept
    <3> QED BY <1>4
  <2>2. IsElement(e)
    BY <1>3 DEF WellFormed, IsMember
  <2> HIDE DEF d, e, kept
  <2>3. "is" \in DOMAIN e /\ ("kind" \in DOMAIN e \/ e.is # "vertex") /\ ("observes" \in DOMAIN e \/ e.is # "behavior")
    BY <2>2, FieldsOf DEF IsElement, Variants, Hooks
  <2>4. d["is"] = e["is"] /\ (e.is = "vertex" => d["kind"] = e["kind"]) /\ (e.is = "behavior" => d["observes"] = e["observes"])
    BY <2>1, <2>3 DEF BehaviorLists
  <2>5. d.is = e.is /\ (e.is = "vertex" => d.kind = e.kind) /\ (e.is = "behavior" => d.observes = e.observes)
    BY <2>4
  <2>6. Sort(d) = Sort(e)
    BY <2>5 DEF Sort
  <2>7. IsElement(d) /\ d.is \in Variants
    BY <2>1, <2>2, <2>5 DEF IsElement
  <2>8. QED BY <2>1, <2>5, <2>6, <2>7 DEF d, e
<1>6. ASSUME NEW p, NEW sort, sort # "generated", HasSort(model, p, sort) PROVE p \in own /\ HasSort(other, p, sort)
  BY <1>2, <1>3, <1>4, <1>5, <1>6 DEF HasSort
<1>7. ASSUME NEW p
      PROVE  /\ Is(model, p, "behavior") /\ ~IsGenerated(model, p) => Is(other, p, "behavior")
             /\ IsTransition(model, p) => IsTransition(other, p)
             /\ Is(model, p, "constraint") => Is(other, p, "constraint")
  <2>1. ASSUME NEW variant, Is(model, p, variant), variant # "behavior" \/ ~IsGenerated(model, p)
        PROVE  Is(other, p, variant)
    <3>1. p \in own
      BY <2>1 DEF own, Is, IsGenerated
    <3>2. QED BY <1>2, <1>4, <1>5, <2>1, <3>1 DEF Is
  <2>2. QED BY <2>1 DEF IsTransition
<1>8. ASSUME NEW q \in own, NEW field \in DOMAIN g[q] PROVE Suits(other, q, field, g[q][field])
  <2> DEFINE value == M[q][field]
             new == g[q][field]
  <2>1. field \in DOMAIN M[q] /\ Suits(model, q, field, value)
    BY <1>3, <1>5, <1>8 DEF WellFormed, IsMember
  <2>2. new = IF field \in BehaviorLists THEN kept(value) ELSE value
    <3> HIDE DEF kept
    <3> QED BY <1>5, <2>1
  <2> HIDE DEF value, new
  <2>3. CASE field \in BehaviorLists
    <3> DEFINE T == {p \in ToSet(value) : ~IsGenerated(model, p)}
    <3>1. new = Filter(value, T) /\ field \in ReferenceLists
      BY <2>2, <2>3 DEF BehaviorLists, ReferenceLists
    <3>2. value \in Seq(Name) /\ \A b \in ToSet(value) : Is(model, b, "behavior") /\ Front(b) = q
      BY <2>1, <2>3, <3>1 DEF Suits
    <3> HIDE DEF T
    <3>3. new \in Seq(Name) /\ \A b \in ToSet(new) : b \in T
      BY <3>1, <3>2, FilterType, FilterIn
    <3>4. \A b \in ToSet(new) : Is(other, b, "behavior") /\ Front(b) = q
      BY <1>7, <3>2, <3>3 DEF T
    <3>5. field \notin References /\ field \notin {"targets", "transitions", "initial", "guard"}
      BY <2>3 DEF BehaviorLists, References
    <3>6. QED BY <3>3, <3>4, <3>5 DEF Suits, new
  <2>4. CASE field \notin BehaviorLists
    <3>1. new = value
      BY <2>2, <2>4
    <3>2. Suits(other, q, field, value)
      BY <1>6, <1>7, <2>1, <2>4 DEF Suits
    <3>3. QED BY <3>1, <3>2 DEF new
  <2>5. QED BY <2>3, <2>4
<1>9. \A q \in own : IsMember(Nat, other, q, g[q])
  <2> TAKE q \in own
  <2>1. IsMember(Nat, model, q, M[q])
    BY <1>3 DEF WellFormed
  <2>2. QED BY <1>2, <1>5, <1>8, <2>1 DEF IsMember
<1>10. other.initial = None \/ HasSort(other, other.initial, "initial")
  <2>1. model.initial = None \/ HasSort(model, model.initial, "initial")
    BY DEF WellFormed
  <2>2. QED BY <1>2, <1>6, <2>1
<1>11. IsFiniteSet(DOMAIN other.members) /\ other.members = [q \in DOMAIN other.members |-> other.members[q]]
  BY <1>2, <1>3, <1>4, Parts, FS_Subset
<1>12. /\ IsRoot(other.root) /\ other.stack = <<other.root>>
       /\ \A q \in other.attributes : q \in Name /\ IsStrictPrefix(other.root, q) /\ Last(q) \in AttributeNames
       /\ other.stack \in Seq(Name) /\ other.stack # <<>> /\ other.stack[1] = other.root
  BY <1>2 DEF WellFormed
<1>13. \A i \in 2 .. Len(other.stack) :
         other.stack[i] \in DOMAIN other.members /\ Front(other.stack[i]) = other.stack[i - 1]
  <2>1. Len(other.stack) = 1
    BY <1>12
  <2>2. QED BY <2>1
<1>14. \A q \in DOMAIN other.members : IsMember(Nat, other, q, other.members[q])
  BY <1>2, <1>4, <1>9
<1>15. other = [root |-> other.root, initial |-> other.initial, members |-> other.members,
                attributes |-> other.attributes, stack |-> other.stack]
  BY <1>2
<1>16. \A q \in DOMAIN other.members : Sort(other.members[q]) # "generated"
  BY <1>2, <1>3, <1>4, <1>5
<1>17. WellFormed(Nat, other)
  BY <1>10, <1>11, <1>12, <1>13, <1>14, <1>15 DEF WellFormed
<1>18. QED BY <1>12, <1>16, <1>17 DEF other

-----------------------------------------------------------------------------
(* What observations add *)

\* Finitely many arguments have finitely many values.
LEMMA FiniteRange ==
  ASSUME NEW f, f = [x \in DOMAIN f |-> f[x]], IsFiniteSet(DOMAIN f)
  PROVE  IsFiniteSet({f[x] : x \in DOMAIN f})
<1> DEFINE D == DOMAIN f
           R == {f[x] : x \in D}
<1>1. f \in Surjection(D, R)
  BY DEF Surjection
<1> HIDE DEF D, R
<1>2. IsFiniteSet(R)
  BY <1>1, FS_Surjection DEF D
<1>3. QED BY <1>2 DEF R, D

\* The observations that are applied, by place.
LEMMA AppliedType ==
  ASSUME NEW model, WellFormed(Nat, model)
  PROVE  LET applied == AppliedObservations(model)
         IN  /\ applied \in Seq(Members(model, "observation")) /\ applied \in Seq(Name)
             /\ DOMAIN applied \in SUBSET (Nat \ {0}) /\ IsFiniteSet(DOMAIN applied)
<1> DEFINE O == Members(model, "observation")
           all == InOrder(O, "observation")
           repeats(i) == \E j \in 1 .. i - 1 : model.members[all[j]] = model.members[all[i]]
           T == {all[i] : i \in {i \in DOMAIN all : ~repeats(i)}}
           applied == AppliedObservations(model)
<1>1. O \in SUBSET DOMAIN model.members /\ IsFiniteSet(DOMAIN model.members) /\ \A q \in DOMAIN model.members : q \in Name
  BY Parts DEF Members
<1>2. applied = Filter(all, T)
  BY DEF AppliedObservations
<1> HIDE DEF T, applied, O, all
<1>3. IsFiniteSet(O) /\ O \in SUBSET Name
  BY <1>1, FS_Subset
<1>4. all \in Seq(O)
  BY <1>3, InOrderType DEF all
<1>5. applied \in Seq(O)
  BY <1>2, <1>4, FilterType
<1>6. \A q \in ToSet(applied) : q \in Name
  BY <1>3, <1>5, ElementsIn
<1>7. applied \in Seq(Name)
  BY <1>5, <1>6, InElements
<1>8. DOMAIN applied = 1 .. Len(applied) /\ Len(applied) \in Nat
  BY <1>7
<1>9. IsFiniteSet(DOMAIN applied) /\ DOMAIN applied \in SUBSET (Nat \ {0})
  <2> DEFINE n == Len(applied)
  <2>1. DOMAIN applied = 1 .. n /\ n \in Nat
    BY <1>8
  <2> HIDE DEF n
  <2>2. QED BY <2>1, FS_Interval
<1>10. QED BY <1>5, <1>7, <1>9 DEF applied, O

\* The behaviour that an observation adds.
LEMMA NewObservingFits ==
  ASSUME NEW model, NEW o, NEW occurrence, NEW source \in Name, source # None, NEW other, NEW q
  PROVE  LET e == NewObservationBehavior(model, o, occurrence, source)
         IN  /\ IsElement(e) /\ e.is = "behavior" /\ Sort(e) = "generated"
             /\ \A field \in DOMAIN e : Suits(other, q, field, e[field])
<1> DEFINE e == NewObservationBehavior(model, o, occurrence, source)
           observer == model.members[o].observer
<1>1. e = [is |-> "behavior", role |-> "none", function |-> observer, operation |-> None,
           observes |-> source, occurrence |-> occurrence]
  <2> DEFINE b == NewBehavior("none", observer)
             c == [b EXCEPT !.observes = source]
  <2>1. e = [b EXCEPT !.observes = source, !.occurrence = occurrence]
    BY DEF NewObservationBehavior
  <2>2. b = [is |-> "behavior", role |-> "none", function |-> observer, operation |-> None,
             observes |-> None, occurrence |-> "none"]
    BY DEF NewBehavior
  <2> HIDE DEF e, b, observer
  <2>3. c = [is |-> "behavior", role |-> "none", function |-> observer, operation |-> None,
             observes |-> source, occurrence |-> "none"]
    BY <2>2
  <2>4. e = [c EXCEPT !.occurrence = occurrence]
    BY <2>1
  <2> HIDE DEF c
  <2>5. QED BY <2>3, <2>4
<1> HIDE DEF e, observer
<1>2. DOMAIN e = Fields("behavior") /\ e = [field \in DOMAIN e |-> e[field]] /\ e.is = "behavior" /\ e.observes = source
  BY <1>1, FieldsOf
<1>3. IsElement(e) /\ Sort(e) = "generated"
  BY <1>2 DEF IsElement, Variants, Sort
<1>4. ASSUME NEW field \in DOMAIN e PROVE Suits(other, q, field, e[field])
  <2>1. field \in {"is", "role", "function", "operation", "observes", "occurrence"}
    BY <1>2, FieldsOf
  <2>2. CASE field \in {"is", "role", "function", "occurrence"}
    BY <2>2, PlainSuits
  <2>3. CASE field = "operation"
    <3>1. e["operation"] = <<>>
      BY <1>1 DEF None
    <3>2. QED BY <2>3, <3>1, EmptySuits
  <2>4. CASE field = "observes"
    <3>1. e["observes"] = source
      BY <1>1
    <3>2. QED BY <2>4, <3>1, NameSuits
  <2>5. QED BY <2>1, <2>2, <2>3, <2>4
<1>5. QED BY <1>2, <1>3, <1>4 DEF e

\* q is the name of what the i-th applied observation adds for x.
Adds(model, i, x, occurrence, q) ==
  /\ i \in DOMAIN AppliedObservations(model) /\ x \in DOMAIN model.members
  /\ \/ /\ occurrence = "behavior" /\ Is(model, x, "behavior") /\ IsListed(model, x)
        /\ ObservationMatchesBehavior(model, AppliedObservations(model)[i], x)
        /\ q = ObservationBehaviorName(Front(x), i, occurrence, x)
     \/ /\ occurrence = "event" /\ IsTransition(model, x)
        /\ ObservationMatchesTransition(model, AppliedObservations(model)[i], x)
        /\ q = ObservationBehaviorName(x, i, occurrence, x)

\* What observations add: exactly the names that some observation adds, finitely many.
LEMMA AddedMembers ==
  ASSUME NEW model, WellFormed(Nat, model)
  PROVE  LET added == ObservationBehaviors(model)
         IN  /\ IsFiniteSet(DOMAIN added) /\ added = [q \in DOMAIN added |-> added[q]]
             /\ \A q, i, x, occurrence : Adds(model, i, x, occurrence, q) => q \in DOMAIN added
             /\ \A q \in DOMAIN added : \E i, x, occurrence :
                  /\ Adds(model, i, x, occurrence, q)
                  /\ added[q] = NewObservationBehavior(model, AppliedObservations(model)[i], occurrence, x)
<1> DEFINE applied   == AppliedObservations(model)
           B == {x \in (DOMAIN applied) \X Members(model, "behavior") :
                   ObservationMatchesBehavior(model, applied[x[1]], x[2]) /\ IsListed(model, x[2])}
           E == {x \in (DOMAIN applied) \X Members(model, "transition") :
                   ObservationMatchesTransition(model, applied[x[1]], x[2])}
           a(x, occurrence, owner) == ObservationBehaviorName(owner, x[1], occurrence, x[2])
           behavior(x, occurrence) == NewObservationBehavior(model, applied[x[1]], occurrence, x[2])
           nb == [x \in B |-> a(x, "behavior", Front(x[2]))]
           ne == [x \in E |-> a(x, "event", x[2])]
           RB == {nb[x] : x \in B}
           RE == {ne[x] : x \in E}
           f == [q \in RB |-> behavior(CHOOSE x \in B : nb[x] = q, "behavior")]
           g == [q \in RE |-> behavior(CHOOSE x \in E : ne[x] = q, "event")]
           added == ObservationBehaviors(model)
<1>1. added = Overlay(f, g)
  <2> DEFINE rb == {a(x, "behavior", Front(x[2])) : x \in B}
             re == {a(x, "event", x[2]) : x \in E}
             fo == [q \in rb |-> behavior(CHOOSE x \in B : a(x, "behavior", Front(x[2])) = q, "behavior")]
             go == [q \in re |-> behavior(CHOOSE x \in E : a(x, "event", x[2]) = q, "event")]
  <2>1. added = Overlay(fo, go)
    BY DEF ObservationBehaviors
  <2>2. rb = RB /\ re = RE
    <3> HIDE DEF B, E, a
    <3> QED OBVIOUS
  <2>3. fo = f
    <3> DEFINE P(q) == CHOOSE x \in B : a(x, "behavior", Front(x[2])) = q
               Q(q) == CHOOSE x \in B : nb[x] = q
    <3>1. ASSUME NEW q PROVE P(q) = Q(q)
      <4>1. \A x : (x \in B /\ a(x, "behavior", Front(x[2])) = q) <=> (x \in B /\ nb[x] = q)
        <5> HIDE DEF B, a
        <5> QED OBVIOUS
      <4>2. (CHOOSE x : x \in B /\ a(x, "behavior", Front(x[2])) = q) = (CHOOSE x : x \in B /\ nb[x] = q)
        BY <4>1
      <4>3. QED BY <4>2
    <3>2. fo = [q \in rb |-> behavior(P(q), "behavior")] /\ f = [q \in RB |-> behavior(Q(q), "behavior")]
      BY Zenon
    <3> HIDE DEF fo, f, P, Q, rb, RB, behavior
    <3>3. QED BY <2>2, <3>1, <3>2
  <2>4. go = g
    <3> DEFINE P(q) == CHOOSE x \in E : a(x, "event", x[2]) = q
               Q(q) == CHOOSE x \in E : ne[x] = q
    <3>1. ASSUME NEW q PROVE P(q) = Q(q)
      <4>1. \A x : (x \in E /\ a(x, "event", x[2]) = q) <=> (x \in E /\ ne[x] = q)
        <5> HIDE DEF E, a
        <5> QED OBVIOUS
      <4>2. (CHOOSE x : x \in E /\ a(x, "event", x[2]) = q) = (CHOOSE x : x \in E /\ ne[x] = q)
        BY <4>1
      <4>3. QED BY <4>2
    <3>2. go = [q \in re |-> behavior(P(q), "event")] /\ g = [q \in RE |-> behavior(Q(q), "event")]
      BY Zenon
    <3> HIDE DEF go, g, P, Q, re, RE, behavior
    <3>3. QED BY <2>2, <3>1, <3>2
  <2> HIDE DEF fo, go, f, g, added
  <2>5. QED BY <2>1, <2>3, <2>4
<1>2. /\ IsFiniteSet(DOMAIN applied) /\ DOMAIN applied \in SUBSET (Nat \ {0})
      /\ IsFiniteSet(DOMAIN model.members)
  BY AppliedType, Parts
<1>3. IsFiniteSet(B) /\ IsFiniteSet(E)
  <2>1. Members(model, "behavior") \in SUBSET DOMAIN model.members /\ Members(model, "transition") \in SUBSET DOMAIN model.members
    BY DEF Members
  <2>2. IsFiniteSet(Members(model, "behavior")) /\ IsFiniteSet(Members(model, "transition"))
    BY <1>2, <2>1, FS_Subset
  <2>3. IsFiniteSet((DOMAIN applied) \X Members(model, "behavior")) /\ IsFiniteSet((DOMAIN applied) \X Members(model, "transition"))
    BY <1>2, <2>2, FS_Product
  <2>4. B \in SUBSET ((DOMAIN applied) \X Members(model, "behavior")) /\ E \in SUBSET ((DOMAIN applied) \X Members(model, "transition"))
    <3> HIDE DEF applied
    <3> QED OBVIOUS
  <2> HIDE DEF B, E
  <2>5. QED BY <2>3, <2>4, FS_Subset
<1>4. /\ DOMAIN nb = B /\ nb = [x \in DOMAIN nb |-> nb[x]] /\ DOMAIN ne = E /\ ne = [x \in DOMAIN ne |-> ne[x]]
  OBVIOUS
<1>5. IsFiniteSet(RB) /\ IsFiniteSet(RE)
  <2> HIDE DEF nb, ne, B, E
  <2>1. IsFiniteSet({nb[x] : x \in DOMAIN nb}) /\ IsFiniteSet({ne[x] : x \in DOMAIN ne})
    BY <1>3, <1>4, FiniteRange
  <2>2. QED BY <1>4, <2>1
<1>6. /\ DOMAIN added = RB \cup RE
      /\ added = [q \in DOMAIN added |-> added[q]]
      /\ \A q \in DOMAIN added : added[q] = IF q \in RB THEN f[q] ELSE g[q]
  <2>1. DOMAIN f = RB /\ DOMAIN g = RE
    OBVIOUS
  <2> HIDE DEF f, g, RB, RE, added
  <2>2. QED BY <1>1, <2>1 DEF Overlay
<1>7. ASSUME NEW x \in B
      PROVE  /\ Adds(model, x[1], x[2], "behavior", nb[x])
             /\ behavior(x, "behavior") = NewObservationBehavior(model, applied[x[1]], "behavior", x[2])
  BY DEF Adds, Members, Is
<1>8. ASSUME NEW x \in E
      PROVE  /\ Adds(model, x[1], x[2], "event", ne[x])
             /\ behavior(x, "event") = NewObservationBehavior(model, applied[x[1]], "event", x[2])
  BY DEF Adds, Members, IsTransition, Is
<1>9. ASSUME NEW q \in RB
      PROVE  \E i, x, occurrence : /\ Adds(model, i, x, occurrence, q)
                                   /\ f[q] = NewObservationBehavior(model, applied[i], occurrence, x)
  <2> DEFINE c == CHOOSE x \in B : nb[x] = q
  <2>1. f[q] = behavior(c, "behavior")
    OBVIOUS
  <2>2. \E x \in B : nb[x] = q
    OBVIOUS
  <2>3. c \in B /\ nb[c] = q
    <3> HIDE DEF B, nb
    <3> QED BY <2>2
  <2> HIDE DEF c, B, nb, f, behavior, applied
  <2>4. QED BY <1>7, <2>1, <2>3
<1>10. ASSUME NEW q \in RE
       PROVE  \E i, x, occurrence : /\ Adds(model, i, x, occurrence, q)
                                    /\ g[q] = NewObservationBehavior(model, applied[i], occurrence, x)
  <2> DEFINE c == CHOOSE x \in E : ne[x] = q
  <2>1. g[q] = behavior(c, "event")
    OBVIOUS
  <2>2. \E x \in E : ne[x] = q
    OBVIOUS
  <2>3. c \in E /\ ne[c] = q
    <3> HIDE DEF E, ne
    <3> QED BY <2>2
  <2> HIDE DEF c, E, ne, g, behavior, applied
  <2>4. QED BY <1>8, <2>1, <2>3
<1>11. ASSUME NEW q, NEW i, NEW x, NEW occurrence, Adds(model, i, x, occurrence, q) PROVE q \in RB \cup RE
  <2>1. CASE occurrence = "behavior"
    <3>1. <<i, x>> \in B /\ nb[<<i, x>>] = q
      BY <1>11, <2>1 DEF Adds, Members, Is
    <3> HIDE DEF B, nb
    <3>2. QED BY <3>1
  <2>2. CASE occurrence = "event"
    <3>1. <<i, x>> \in E /\ ne[<<i, x>>] = q
      BY <1>11, <2>2 DEF Adds, Members, IsTransition, Is
    <3> HIDE DEF E, ne
    <3>2. QED BY <3>1
  <2>3. QED BY <1>11, <2>1, <2>2 DEF Adds
<1> HIDE DEF RB, RE, f, g, added
<1>12. IsFiniteSet(DOMAIN added)
  BY <1>5, <1>6, FS_Union
<1>13. \A q \in DOMAIN added : \E i, x, occurrence :
         /\ Adds(model, i, x, occurrence, q)
         /\ added[q] = NewObservationBehavior(model, applied[i], occurrence, x)
  BY <1>6, <1>9, <1>10
<1>14. QED BY <1>6, <1>11, <1>12, <1>13 DEF added

\* What an observation adds has a name of its own sort, right inside what lists it.
LEMMA AddedName ==
  ASSUME Naming(Nat), NEW model, WellFormed(Nat, model),
         \A p \in DOMAIN model.members : Sort(model.members[p]) # "generated",
         NEW i, NEW x, NEW occurrence, NEW q, Adds(model, i, x, occurrence, q)
  PROVE  /\ q \in Name /\ IsStrictPrefix(model.root, q) /\ NamedAs(Nat, Last(q), "generated")
         /\ x \in Name /\ x # None
         /\ occurrence = "behavior" => Front(q) = Front(x)
         /\ occurrence = "event" => Front(q) = x
<1>1. /\ x \in Name /\ x # None /\ IsStrictPrefix(model.root, x) /\ model.root \in Name
      /\ NamedAs(Nat, Last(x), Sort(model.members[x])) /\ i \in Nat \ {0}
  BY AppliedType, Parts DEF Adds
<1>2. Front(x) \in Name /\ IsPrefix(model.root, Front(x)) /\ IsPrefix(model.root, x)
  BY <1>1, FrontBelow DEF IsStrictPrefix
<1>3. \A p \in DOMAIN model.members : model.members[p].is \in Variants
  BY Parts
<1>4. /\ occurrence = "behavior" => Sort(model.members[x]) = "behavior"
      /\ occurrence = "event" => Sort(model.members[x]) = "transition"
  BY <1>3, SortIs DEF Adds, Is, IsTransition
<1>5. occurrence \in {"behavior", "event"}
  BY DEF Adds
<1> DEFINE segment == Observing(i, occurrence, Last(x))
<1>6. NamedAs(Nat, segment, "generated") /\ segment \in Segment
  <2>1. NamedAs(Nat, Last(x), "transition") \/ NamedAs(Nat, Last(x), "behavior")
    BY <1>1, <1>4, <1>5
  <2> DEFINE y == Last(x)
  <2> HIDE DEF y
  <2>2. NamedAs(Nat, Observing(i, occurrence, y), "generated")
    BY <1>1, <1>5, <2>1, MadeUpObserving DEF y
  <2>3. NamedAs(Nat, segment, "generated")
    BY <2>2 DEF y
  <2> HIDE DEF segment
  <2>4. QED BY <2>3, SegmentType DEF Sorts
<1>7. q = Append(IF occurrence = "behavior" THEN Front(x) ELSE x, segment)
  BY DEF Adds, ObservationBehaviorName
<1> HIDE DEF segment
<1>8. CASE occurrence = "behavior"
  BY <1>1, <1>2, <1>6, <1>7, <1>8, AppendName, AppendBelow
<1>9. CASE occurrence = "event"
  BY <1>1, <1>2, <1>6, <1>7, <1>9, AppendName, AppendBelow
<1>10. QED BY <1>5, <1>8, <1>9

\* The observers of a behaviour that something lists, and of a transition.
LEMMA ObserversType ==
  ASSUME Naming(Nat), NEW model, WellFormed(Nat, model),
         \A p \in DOMAIN model.members : Sort(model.members[p]) # "generated",
         NEW x \in DOMAIN model.members,
         NEW T, \A i, occurrence, q : Adds(model, i, x, occurrence, q) => q \in T
  PROVE  /\ Is(model, x, "behavior") /\ IsListed(model, x) => BehaviorObservers(model, x) \in Seq(T)
         /\ IsTransition(model, x) => EventObservers(model, x) \in Seq(T)
<1> DEFINE applied == AppliedObservations(model)
           places == [i \in DOMAIN applied |-> i]
           TB == {i \in DOMAIN applied : ObservationMatchesBehavior(model, applied[i], x)}
           TE == {i \in DOMAIN applied : ObservationMatchesTransition(model, applied[i], x)}
           D == DOMAIN applied
<1>1. places \in Seq(D)
  <2>1. D = 1 .. Len(applied) /\ Len(applied) \in Nat
    BY AppliedType
  <2> HIDE DEF D
  <2>2. places = [i \in D |-> i]
    BY DEF D
  <2> HIDE DEF places
  <2>3. places \in [1 .. Len(applied) -> D]
    BY <2>1, <2>2
  <2>4. QED BY <2>1, <2>3
<1> HIDE DEF places
<1>2. ASSUME NEW S, S \in SUBSET D
      PROVE  /\ Filter(places, S) \in Seq(D) /\ \A i \in DOMAIN Filter(places, S) : Filter(places, S)[i] \in S
  <2> DEFINE f == Filter(places, S)
  <2>1. f \in Seq(D) /\ \A i \in ToSet(f) : i \in S
    BY <1>1, FilterType, FilterIn
  <2> HIDE DEF f
  <2>2. \A i \in DOMAIN f : f[i] \in S
    BY <2>1 DEF ToSet
  <2>3. QED BY <2>1, <2>2 DEF f
<1>3. ASSUME Is(model, x, "behavior"), IsListed(model, x) PROVE BehaviorObservers(model, x) \in Seq(T)
  <2> DEFINE matching == Filter(places, TB)
             names == [i \in DOMAIN matching |-> ObservationBehaviorName(Front(x), matching[i], "behavior", x)]
  <2>1. BehaviorObservers(model, x) = names
    BY DEF BehaviorObservers, MapSeq, places
  <2>2. \A i \in TB : ObservationBehaviorName(Front(x), i, "behavior", x) \in T
    BY <1>3 DEF Adds
  <2>3. TB \in SUBSET D
    OBVIOUS
  <2> HIDE DEF TB
  <2>4. matching \in Seq(D) /\ \A i \in DOMAIN matching : matching[i] \in TB
    BY <1>2, <2>3
  <2> HIDE DEF matching
  <2>5. names = [i \in DOMAIN matching |-> names[i]] /\ \A i \in DOMAIN matching : names[i] \in T
    BY <2>2, <2>4
  <2> HIDE DEF names
  <2>6. names \in Seq(T)
    BY <2>4, <2>5, MappedList
  <2>7. QED BY <2>1, <2>6
<1>4. ASSUME IsTransition(model, x) PROVE EventObservers(model, x) \in Seq(T)
  <2> DEFINE matching == Filter(places, TE)
             names == [i \in DOMAIN matching |-> ObservationBehaviorName(x, matching[i], "event", x)]
  <2>1. EventObservers(model, x) = names
    BY DEF EventObservers, MapSeq, places
  <2>2. \A i \in TE : ObservationBehaviorName(x, i, "event", x) \in T
    BY <1>4 DEF Adds
  <2>3. TE \in SUBSET D
    OBVIOUS
  <2> HIDE DEF TE
  <2>4. matching \in Seq(D) /\ \A i \in DOMAIN matching : matching[i] \in TE
    BY <1>2, <2>3
  <2> HIDE DEF matching
  <2>5. names = [i \in DOMAIN matching |-> names[i]] /\ \A i \in DOMAIN matching : names[i] \in T
    BY <2>2, <2>4
  <2> HIDE DEF names
  <2>6. names \in Seq(T)
    BY <2>4, <2>5, MappedList
  <2>7. QED BY <2>1, <2>6
<1>5. QED BY <1>3, <1>4

\* A list of behaviours, each with its observers.
LEMMA ObservedType ==
  ASSUME NEW model, NEW T, NEW list \in Seq(T), \A b \in ToSet(list) : BehaviorObservers(model, b) \in Seq(T)
  PROVE  Observed(model, list) \in Seq(T)
<1> DEFINE first(i) == \A j \in 1 .. i - 1 : list[j] # list[i]
           part(i) == IF first(i) THEN Append(BehaviorObservers(model, list[i]), list[i]) ELSE <<list[i]>>
           parts == [i \in DOMAIN list |-> part(i)]
<1>1. Observed(model, list) = FlattenSeq(parts)
  BY DEF Observed
<1>2. DOMAIN list = 1 .. Len(list) /\ Len(list) \in Nat
  OBVIOUS
<1>3. ASSUME NEW i \in DOMAIN list PROVE part(i) \in Seq(T)
  <2>1. list[i] \in T /\ list[i] \in ToSet(list)
    BY DEF ToSet
  <2> HIDE DEF first
  <2>2. BehaviorObservers(model, list[i]) \in Seq(T)
    BY <2>1
  <2>3. Append(BehaviorObservers(model, list[i]), list[i]) \in Seq(T) /\ <<list[i]>> \in Seq(T)
    BY <2>1, <2>2, AppendProperties
  <2>4. QED BY <2>3
<1>4. parts = [i \in DOMAIN list |-> parts[i]] /\ \A i \in DOMAIN list : parts[i] \in Seq(T)
  <2> HIDE DEF part
  <2> QED BY <1>3
<1> HIDE DEF parts
<1>5. parts \in Seq(Seq(T))
  BY <1>4, MappedList
<1>6. QED BY <1>1, <1>5, FlattenType

\* The lists of an element whose lists have got their observers.
LEMMA ObservedElementFits ==
  ASSUME NEW model, NEW other, NEW q, IsElement(model.members[q]),
         model.members[q].is \in {"state", "transition"},
         \A field \in DOMAIN model.members[q] : Suits(other, q, field, model.members[q][field]),
         NEW T, \A b \in T : b \in Name /\ Is(other, b, "behavior") /\ Front(b) = q,
         \A field \in DOMAIN model.members[q] \cap BehaviorLists : Observed(model, model.members[q][field]) \in Seq(T),
         model.members[q].is = "transition" => EventObservers(model, q) \in Seq(T)
  PROVE  LET d == ObservedElement(model, q)
         IN  /\ IsElement(d) /\ d.is = model.members[q].is /\ Sort(d) = Sort(model.members[q])
             /\ \A field \in DOMAIN d : Suits(other, q, field, d[field])
<1> DEFINE e == model.members[q]
<1>0. /\ IsElement(e) /\ e.is \in {"state", "transition"} /\ \A field \in DOMAIN e : Suits(other, q, field, e[field])
      /\ \A field \in DOMAIN e \cap BehaviorLists : Observed(model, e[field]) \in Seq(T)
      /\ e.is = "transition" => EventObservers(model, q) \in Seq(T)
  OBVIOUS
<1> DEFINE d == ObservedElement(model, q)
<1>1. /\ DOMAIN d = DOMAIN e /\ d = [field \in DOMAIN d |-> d[field]]
      /\ \A field \in DOMAIN e :
           d[field] = IF field = "effect" THEN EventObservers(model, q) \o Observed(model, e.effect)
                      ELSE IF field \in BehaviorLists THEN Observed(model, e[field]) ELSE e[field]
  BY DEF ObservedElement
<1> HIDE DEF d, e
<1>2. "is" \in DOMAIN e /\ ("kind" \in DOMAIN e \/ e.is # "vertex") /\ e.is # "behavior"
  BY <1>0, FieldsOf DEF IsElement, Variants, Hooks
<1>3. d["is"] = e["is"] /\ (e.is = "vertex" => d["kind"] = e["kind"])
  BY <1>1, <1>2 DEF BehaviorLists
<1>4. d.is = e.is /\ (e.is = "vertex" => d.kind = e.kind)
  BY <1>3
<1>5. Sort(d) = Sort(e)
  BY <1>2, <1>4 DEF Sort
<1>6. IsElement(d)
  BY <1>0, <1>1, <1>4 DEF IsElement
<1>7. ASSUME NEW field \in DOMAIN d PROVE Suits(other, q, field, d[field])
  <2>1. CASE field \notin BehaviorLists
    <3>1. d[field] = e[field] /\ field \in DOMAIN e
      BY <1>1, <2>1 DEF BehaviorLists
    <3>2. QED BY <1>0, <3>1
  <2>2. CASE field \in BehaviorLists
    <3> DEFINE list == d[field]
    <3>1. Observed(model, e[field]) \in Seq(T)
      BY <1>0, <1>1, <2>2
    <3>2. list \in Seq(T)
      <4>1. CASE field = "effect"
        <5>1. e.is = "transition"
          BY <1>0, <1>1, <4>1, FieldsOf DEF IsElement
        <5>2. EventObservers(model, q) \in Seq(T) /\ Observed(model, e.effect) \in Seq(T)
          BY <1>0, <3>1, <4>1, <5>1
        <5>3. list = EventObservers(model, q) \o Observed(model, e.effect)
          BY <1>1, <4>1
        <5> HIDE DEF list
        <5>4. QED BY <5>2, <5>3, ConcatProperties
      <4>2. CASE field # "effect"
        BY <1>1, <2>2, <3>1, <4>2
      <4>3. QED BY <4>1, <4>2
    <3> HIDE DEF list
    <3>3. \A b \in ToSet(list) : b \in Name /\ Is(other, b, "behavior") /\ Front(b) = q
      <4>1. \A b \in ToSet(list) : b \in T
        BY <3>2, ElementsIn
      <4>2. QED BY <4>1
    <3>4. list \in Seq(Name)
      BY <3>2, <3>3, InElements
    <3>5. field \notin References /\ field \notin {"targets", "transitions", "initial", "guard"}
      BY <2>2 DEF BehaviorLists, References
    <3>6. QED BY <3>3, <3>4, <3>5 DEF Suits, list
  <2>3. QED BY <2>1, <2>2
<1>8. QED BY <1>4, <1>5, <1>6, <1>7 DEF d, e

\* apply_observations
LEMMA ApplyFits ==
  ASSUME Naming(Nat), NEW model, WellFormed(Nat, model),
         \A p \in DOMAIN model.members : Sort(model.members[p]) # "generated"
  PROVE  LET other == ApplyObservations(model)
         IN  WellFormed(Nat, other) /\ other.stack = model.stack
<1> DEFINE M  == model.members
           OB == ObservationBehaviors(model)
           n  == [model EXCEPT !.members = Overlay(OB, @)]
           h  == [q \in DOMAIN M |-> IF M[q].is \in {"state", "transition"} THEN ObservedElement(model, q) ELSE M[q]]
           G  == Overlay(OB, h)
           other == ApplyObservations(model)
<1>1. other = [model EXCEPT !.members = G]
  BY DEF ApplyObservations
<1>2. /\ IsFiniteSet(DOMAIN OB) /\ OB = [q \in DOMAIN OB |-> OB[q]]
      /\ \A q, i, x, occurrence : Adds(model, i, x, occurrence, q) => q \in DOMAIN OB
      /\ \A q \in DOMAIN OB : \E i, x, occurrence :
           /\ Adds(model, i, x, occurrence, q)
           /\ OB[q] = NewObservationBehavior(model, AppliedObservations(model)[i], occurrence, x)
  BY AddedMembers
<1> HIDE DEF OB, other
<1>3. model = [root |-> model.root, initial |-> model.initial, members |-> model.members,
               attributes |-> model.attributes, stack |-> model.stack]
  BY DEF WellFormed
<1>4. /\ n.root = model.root /\ n.members = Overlay(OB, M) /\ n.stack = model.stack
      /\ n = [model EXCEPT !.members = Overlay(OB, @)]
  BY <1>3
<1>5. other = [n EXCEPT !.members = G] /\ other.stack = model.stack
  <2> HIDE DEF G
  <2> QED BY <1>1, <1>3
<1> HIDE DEF n
<1>6. /\ DOMAIN n.members = DOMAIN OB \cup DOMAIN M
      /\ \A q \in DOMAIN n.members : n.members[q] = IF q \in DOMAIN OB THEN OB[q] ELSE M[q]
  BY <1>4 DEF Overlay
<1>7. /\ DOMAIN G = DOMAIN n.members /\ G = [q \in DOMAIN G |-> G[q]]
      /\ \A q \in DOMAIN G : G[q] = IF q \in DOMAIN OB THEN OB[q] ELSE h[q]
  <2>1. DOMAIN h = DOMAIN M
    OBVIOUS
  <2> HIDE DEF h
  <2>2. QED BY <1>6, <2>1 DEF Overlay
<1>8. \A q \in DOMAIN M : h[q] = IF M[q].is \in {"state", "transition"} THEN ObservedElement(model, q) ELSE M[q]
  OBVIOUS
<1> HIDE DEF G, h
<1>9. ASSUME NEW q \in DOMAIN OB PROVE IsMember(Nat, n, q, OB[q]) /\ OB[q].is = "behavior"
  <2>1. PICK i, x, occurrence :
          /\ Adds(model, i, x, occurrence, q)
          /\ OB[q] = NewObservationBehavior(model, AppliedObservations(model)[i], occurrence, x)
    BY <1>2
  <2>2. q \in Name /\ IsStrictPrefix(model.root, q) /\ NamedAs(Nat, Last(q), "generated") /\ x \in Name /\ x # None
    BY <2>1, AddedName
  <2> DEFINE o == AppliedObservations(model)[i]
  <2> HIDE DEF o
  <2>3. LET e == NewObservationBehavior(model, o, occurrence, x)
        IN  /\ IsElement(e) /\ e.is = "behavior" /\ Sort(e) = "generated"
            /\ \A field \in DOMAIN e : Suits(n, q, field, e[field])
    BY <2>2, NewObservingFits
  <2>4. /\ IsElement(OB[q]) /\ OB[q].is = "behavior" /\ Sort(OB[q]) = "generated"
        /\ \A field \in DOMAIN OB[q] : Suits(n, q, field, OB[q][field])
    BY <2>1, <2>3 DEF o
  <2>5. Last(q) # "transition"
    BY <2>2, MadeUp, SortDecides DEF Sorts
  <2>6. QED BY <1>4, <2>2, <2>4, <2>5 DEF IsMember
<1>10. WellFormed(Nat, n) /\ Keeps(model, n)
  BY <1>2, <1>4, <1>9, Overlaid
<1>11. /\ \A p \in DOMAIN M : M[p].is \in Variants
       /\ \A p \in DOMAIN n.members : n.members[p].is \in Variants
  BY <1>10, Parts
<1>12. \A b : Is(model, b, "behavior") => Is(n, b, "behavior")
  <2>1. ASSUME NEW b, NEW sort, HasSort(model, b, sort) PROVE HasSort(n, b, sort)
    BY <1>10, <2>1 DEF HasSort, Keeps
  <2>2. QED BY <1>11, <2>1, IsOfSort
<1>13. \A b \in DOMAIN OB : Is(n, b, "behavior")
  BY <1>6, <1>9 DEF Is
<1>14. ASSUME NEW q \in DOMAIN M, M[q].is \in {"state", "transition"}
       PROVE  LET d == ObservedElement(model, q)
              IN  /\ IsElement(d) /\ d.is = M[q].is /\ Sort(d) = Sort(M[q])
                  /\ \A field \in DOMAIN d : Suits(n, q, field, d[field])
  <2> DEFINE e == M[q]
             T == {b \in Name : Is(n, b, "behavior") /\ Front(b) = q}
  <2>1. IsElement(e) /\ \A field \in DOMAIN e : Suits(model, q, field, e[field])
    BY DEF WellFormed, IsMember
  <2>2. \A field \in DOMAIN e : Suits(n, q, field, e[field])
    BY <1>10, <1>11, <2>1, SuitsKept
  <2>3. ASSUME NEW x \in DOMAIN M, NEW i, NEW occurrence, NEW p, Adds(model, i, x, occurrence, p),
               (Is(model, x, "behavior") /\ Front(x) = q) \/ (IsTransition(model, x) /\ x = q)
        PROVE  p \in T
    <3>1. p \in DOMAIN OB /\ p \in Name
      BY <1>2, <2>3, AddedName
    <3>2. Front(p) = q
      <4>1. /\ occurrence = "behavior" => Front(p) = Front(x)
            /\ occurrence = "event" => Front(p) = x
        BY <2>3, AddedName
      <4>2. QED BY <2>3, <4>1 DEF Adds, Is, IsTransition
    <3>3. QED BY <1>13, <3>1, <3>2
  <2>4. ASSUME NEW field \in DOMAIN e \cap BehaviorLists PROVE Observed(model, e[field]) \in Seq(T)
    <3> DEFINE list == e[field]
    <3>1. list \in Seq(Name) /\ \A b \in ToSet(list) : Is(model, b, "behavior") /\ Front(b) = q
      <4>1. Suits(model, q, field, list) /\ field \in BehaviorLists /\ field \in ReferenceLists
        BY <2>1 DEF BehaviorLists, ReferenceLists
      <4>2. QED BY <4>1 DEF Suits
    <3>2. \A b \in ToSet(list) : b \in T
      <4>1. \A b \in ToSet(list) : b \in Name
        BY <3>1, ElementsIn
      <4>2. QED BY <1>12, <3>1, <4>1
    <3>3. list \in Seq(T)
      <4> HIDE DEF T, list
      <4> QED BY <3>1, <3>2, InElements
    <3>4. ASSUME NEW b \in ToSet(list) PROVE BehaviorObservers(model, b) \in Seq(T)
      <4>1. Is(model, b, "behavior") /\ Front(b) = q /\ b \in DOMAIN M
        BY <3>1 DEF Is
      <4>2. IsListed(model, b)
        <5>1. field \in DOMAIN model.members[Front(b)] \cap BehaviorLists /\ Front(b) \in DOMAIN model.members
          BY <4>1
        <5>2. Contains(model.members[Front(b)][field], b)
          <6>1. DOMAIN list = 1 .. Len(list)
            BY <3>1
          <6>2. PICK i \in 1 .. Len(list) : b = list[i]
            BY <6>1 DEF ToSet
          <6>3. QED BY <4>1, <6>2 DEF Contains
        <5>3. QED BY <5>1, <5>2 DEF IsListed
      <4>3. \A i, occurrence, p : Adds(model, i, b, occurrence, p) => p \in T
        BY <2>3, <4>1
      <4> HIDE DEF T
      <4>4. QED BY <4>1, <4>2, <4>3, ObserversType
    <3> HIDE DEF T, list
    <3>5. QED BY <3>3, <3>4, ObservedType DEF list
  <2>5. ASSUME e.is = "transition" PROVE EventObservers(model, q) \in Seq(T)
    <3>1. IsTransition(model, q)
      BY <2>5 DEF IsTransition, Is
    <3>2. \A i, occurrence, p : Adds(model, i, q, occurrence, p) => p \in T
      BY <2>3, <3>1
    <3> HIDE DEF T
    <3>3. QED BY <3>1, <3>2, ObserversType
  <2>6. \A b \in T : b \in Name /\ Is(n, b, "behavior") /\ Front(b) = q
    BY <1>14
  <2> HIDE DEF T
  <2>7. QED BY <1>14, <2>1, <2>2, <2>4, <2>5, <2>6, ObservedElementFits
<1>15. ASSUME NEW q \in DOMAIN G
       PROVE  /\ IsElement(G[q]) /\ G[q].is = n.members[q].is /\ Sort(G[q]) = Sort(n.members[q])
              /\ \A field \in DOMAIN G[q] : Suits(n, q, field, G[q][field])
  <2>1. IsMember(Nat, n, q, n.members[q])
    BY <1>7, <1>10 DEF WellFormed
  <2>2. CASE q \in DOMAIN OB \/ M[q].is \notin {"state", "transition"}
    <3>1. G[q] = n.members[q]
      BY <1>6, <1>7, <1>8, <2>2
    <3>2. QED BY <2>1, <3>1 DEF IsMember
  <2>3. CASE q \notin DOMAIN OB /\ M[q].is \in {"state", "transition"}
    <3>1. q \in DOMAIN M /\ G[q] = ObservedElement(model, q) /\ n.members[q] = M[q]
      BY <1>6, <1>7, <1>8, <2>3
    <3>2. QED BY <1>14, <2>3, <3>1
  <2>4. QED BY <2>2, <2>3
<1>16. WellFormed(Nat, other) /\ Keeps(n, other)
  BY ONLY <1>5, <1>7, <1>10, <1>15, Replaced
<1>17. QED BY <1>5, <1>16 DEF other

\* finalize_model: a well-formed model with nothing open is well-formed and has nothing open.
LEMMA FinalizeFits ==
  ASSUME Naming(Nat), NEW model, WellFormed(Nat, model), model.stack = <<model.root>>
  PROVE  WellFormed(Nat, FinalizeModel(model))
<1> DEFINE a == RemoveGeneratedObservationBehaviors(model)
           b == ResolveTransitionTargets(a)
           c == RegisterCompletionTransitions(b)
           d == RegisterTransitionSources(c)
           e == FinalizeTransitionKinds(d)
           f == ApplyObservations(e)
           Plain(n) == \A q \in DOMAIN n.members : Sort(n.members[q]) # "generated"
<1>1. FinalizeModel(model) = f
  BY DEF FinalizeModel
<1>2. ASSUME NEW n, NEW other, Keeps(n, other), DOMAIN other.members = DOMAIN n.members, Plain(n) PROVE Plain(other)
  BY <1>2 DEF Keeps, HasSort
<1>3. WellFormed(Nat, a) /\ Plain(a)
  BY RemovedFits
<1> HIDE DEF a, Plain
<1>4. WellFormed(Nat, b) /\ Plain(b)
  BY <1>2, <1>3, ResolveFits
<1> HIDE DEF b
<1>5. WellFormed(Nat, c) /\ Plain(c)
  BY <1>2, <1>4, CompletionFits
<1> HIDE DEF c
<1>6. WellFormed(Nat, d) /\ Plain(d)
  BY <1>2, <1>5, SourcesFit
<1> HIDE DEF d
<1>7. WellFormed(Nat, e) /\ Plain(e)
  BY <1>2, <1>6, KindsFit
<1> HIDE DEF e
<1>8. WellFormed(Nat, f)
  BY <1>7, ApplyFits DEF Plain
<1>9. QED BY <1>1, <1>8

-----------------------------------------------------------------------------
(* Every model under construction is well-formed. *)

\* What the builders make up is told from what the user names, and what a definition starts
\* from or surrounds is well-formed.
WellNamed ==
  /\ Naming(Nat)
  /\ \A s \in Skeletons \cup Surroundings : WellFormed(Nat, s)

\* The phase, the round and the number of elements that are left.
Counters ==
  /\ phase \in {"declaring", "defined", "panicked"}
  /\ round \in 1 .. Rounds /\ left \in 0 .. Elements

\* What holds at any moment of a definition.
ModelInv ==
  /\ Counters
  /\ WellFormed(Nat, m)

\* Vertices.
LEMMA VertexStep ==
  ASSUME WellNamed, WellFormed(Nat, m), DeclareVertex
  PROVE  WellFormed(Nat, m')
<1>1. Naming(Nat)
  BY DEF WellNamed
<1>2. CASE \E name \in StateNames : State(name)
  BY <1>1, <1>2, StateFits DEF State, Apply
<1>3. CASE \E name \in FinalNames : Final(name)
  BY <1>1, <1>3, FinalFits DEF Final, Apply
<1>4. CASE Initial
  BY <1>1, <1>4, InitialFits DEF Initial, Apply
<1>5. CASE \E name \in PointNames : Choice(name)
  BY <1>1, <1>5, ChoiceFits DEF Choice, Apply
<1>6. ASSUME NEW name \in PointNames, NEW elements \in BOOLEAN, NEW kind \in {"entry_point", "exit_point"},
             ConnectionPoint(name, kind, elements)
      PROVE  WellFormed(Nat, m')
  <2>1. kind # "initial"
    OBVIOUS
  <2>2. QED BY <1>1, <1>6, <2>1, PointFits DEF ConnectionPoint, Apply
<1>7. ASSUME NEW name \in PointNames, NEW elements \in BOOLEAN, NEW kind \in Histories,
             History(name, kind, elements)
      PROVE  WellFormed(Nat, m')
  <2>1. kind # "initial"
    BY DEF Histories
  <2>2. QED BY <1>1, <1>7, <2>1, PointFits DEF History, Apply
<1>8. QED BY <1>2, <1>3, <1>4, <1>5, <1>6, <1>7 DEF DeclareVertex

\* Transitions and what is declared in one.
LEMMA TransitionStep ==
  ASSUME WellNamed, WellFormed(Nat, m), DeclareTransition
  PROVE  WellFormed(Nat, m')
<1>1. Naming(Nat)
  BY DEF WellNamed
<1>2. CASE Transition
  BY <1>1, <1>2, TransitionFits DEF Transition, Apply
<1>3. CASE \E path \in Paths : Source(path) \/ Target(path)
  BY <1>3, EndpointFits DEF Source, Target, Apply
<1>4. CASE \E event \in Events : On(event) \/ Defer(event)
  BY <1>4, TriggerFits DEF On, Defer, Apply
<1>5. CASE \E name \in OperationNames : OnCall(name) \/ GuardOperationRef(name)
  BY <1>1, <1>5, OnCallFits, GuardFits DEF OnCall, GuardOperationRef, Apply
<1>6. CASE \E name \in AttributeNames : OnSet(name)
  BY <1>1, <1>6, OnSetFits DEF OnSet, Apply
<1>7. CASE \E timer \in {"after", "at", "every"} : Timer(timer)
  <2>1. PICK timer \in {"after", "at", "every"} : Timer(timer)
    BY <1>7
  <2>2. m' = PartialTimer(m, timer)
    BY <2>1 DEF Timer, Apply
  <2>3. QED BY <1>1, <2>2, TimerFits
<1>8. CASE Guard
  BY <1>1, <1>8, GuardFits DEF Guard, Apply
<1>9. CASE \E name \in PointNames : ToEntryPoint(name) \/ FromExitPoint(name)
  <2>1. PICK name \in PointNames : ToEntryPoint(name) \/ FromExitPoint(name)
    BY <1>9
  <2>2. name \in Segment
    BY <1>1, UserSegments DEF VertexNames
  <2>3. IsTransition(m, Top(m)) /\ m' \in {SelectEntryPoint(m, name), SelectExitPoint(m, name)}
    BY <2>1 DEF ToEntryPoint, FromExitPoint, InTransition, InOwnTransition, Apply
  <2>4. WellFormed(Nat, SelectEntryPoint(m, name)) /\ WellFormed(Nat, SelectExitPoint(m, name))
    BY <2>2, <2>3, SelectFits
  <2>5. QED BY <2>3, <2>4
<1>10. QED
  <2>1. \/ Transition \/ Guard
        \/ \E path \in Paths : Source(path) \/ Target(path)
        \/ \E event \in Events : On(event) \/ Defer(event)
        \/ \E name \in OperationNames : OnCall(name) \/ GuardOperationRef(name)
        \/ \E name \in AttributeNames : OnSet(name)
        \/ \E timer \in {"after", "at", "every"} : Timer(timer)
        \/ \E name \in PointNames : ToEntryPoint(name) \/ FromExitPoint(name)
    BY DEF DeclareTransition
  <2>2. QED BY <1>2, <1>3, <1>4, <1>5, <1>6, <1>7, <1>8, <1>9, <2>1

\* Behaviours, operations, attributes, observations and hooks.
LEMMA MemberStep ==
  ASSUME WellNamed, WellFormed(Nat, m), DeclareMember
  PROVE  WellFormed(Nat, m')
<1>1. Naming(Nat)
  BY DEF WellNamed
<1>2. ASSUME NEW role \in Roles, NEW functions \in {<<f>> : f \in Functions} \cup {<<f, g>> : f, g \in Functions},
             Behaviors(role, functions)
      PROVE  WellFormed(Nat, m')
  <2>1. functions \in Seq(Functions)
    <3>1. CASE functions \in {<<f>> : f \in Functions}
      <4>1. PICK f \in Functions : functions = <<f>>
        BY <3>1
      <4>2. QED BY <4>1
    <3>2. CASE functions \in {<<f, g>> : f, g \in Functions}
      <4>1. PICK f \in Functions, g \in Functions : functions = <<f, g>>
        BY <3>2
      <4>2. QED BY <4>1
    <3>3. QED BY <3>1, <3>2
  <2>2. QED BY <1>1, <1>2, <2>1, FunctionsFit DEF Behaviors, Apply
<1>3. ASSUME NEW role \in Roles, NEW name \in OperationNames, BehaviorOperation(role, name)
      PROVE  WellFormed(Nat, m')
  BY <1>1, <1>3, BehaviorOperationFits DEF BehaviorOperation, Apply
<1>4. ASSUME NEW name \in OperationNames, Operation(name) \/ GuardOperation(name)
      PROVE  WellFormed(Nat, m')
  BY <1>1, <1>4, DeclaredFits DEF Operation, GuardOperation, Apply
<1>5. ASSUME NEW name \in AttributeNames, Attribute(name)
      PROVE  WellFormed(Nat, m')
  BY <1>1, <1>5, DeclaredFits DEF Attribute, Apply
<1>6. ASSUME NEW observer \in Observers, ObserveAll(observer)
      PROVE  WellFormed(Nat, m')
  <2>1. m' = PartialObserve(m, observer, {})
    BY <1>6 DEF ObserveAll, Apply
  <2>2. QED BY <1>1, <2>1, ObserveFits
<1>7. ASSUME NEW observer \in Observers, ObserveNamed(observer)
      PROVE  WellFormed(Nat, m')
  <2>1. PICK target \in {m.root \o q : q \in Observables} \cup Events : m' = PartialObserve(m, observer, {target})
    BY <1>7 DEF ObserveNamed, Apply
  <2>2. target \in Name
    <3>1. m.root \in Name /\ \A q \in Events \cup Observables : q \in Name
      BY Parts, DefinitionAssumption
    <3>2. \A q \in Observables : m.root \o q \in Name
      BY <3>1, ConcatName
    <3>3. QED BY <3>1, <3>2
  <2>3. WellFormed(Nat, PartialObserve(m, observer, {target}))
    <3> DEFINE targets == {target}
    <3>1. \A p \in targets : p \in Name
      BY <2>2
    <3> HIDE DEF targets
    <3>2. WellFormed(Nat, PartialObserve(m, observer, targets))
      BY <1>1, <3>1, ObserveFits
    <3>3. QED BY <3>2 DEF targets
  <2>4. QED BY <2>1, <2>3
<1>8. ASSUME NEW does, Validator(does)
      PROVE  WellFormed(Nat, m')
  BY <1>1, <1>8, HooksFit DEF Validator, Apply
<1>9. ASSUME Finalizer
      PROVE  WellFormed(Nat, m')
  BY <1>1, <1>9, HooksFit DEF Finalizer, Apply
<1>10. QED
  BY <1>2, <1>3, <1>4, <1>5, <1>6, <1>7, <1>8, <1>9 DEF DeclareMember

\* The end of an element and of a definition, and what follows it.
LEMMA LifecycleStep ==
  ASSUME WellNamed, WellFormed(Nat, m),
         \/ Close \/ Finalize
         \/ \E root \in Roots : RedefineAs(root)
         \/ \E around \in Surroundings : SubmachineState(around)
  PROVE  WellFormed(Nat, m')
<1>1. Naming(Nat) /\ \A s \in Surroundings : WellFormed(Nat, s)
  BY DEF WellNamed
<1>2. CASE Close
  <2>1. Len(m.stack) > 1
    BY <1>2 DEF Close
  <2>2. CASE ~InTransition
    BY <1>2, <2>1, <2>2, PopFits DEF Close
  <2>3. CASE InOwnTransition
    BY <1>2, <2>3, CloseTransitionFits DEF Close, InOwnTransition, InTransition
  <2>4. CASE InTransition /\ ~InOwnTransition
    BY <1>2, <2>4, ClosePointFits DEF Close, InOwnTransition, InTransition
  <2>5. QED BY <2>2, <2>3, <2>4 DEF InOwnTransition
<1>3. CASE Finalize
  <2>1. m.stack = <<m.root>> /\ m' \in {m, FinalizeModel(m)}
    BY <1>3 DEF Finalize
  <2>2. QED BY <1>1, <2>1, FinalizeFits
<1>4. ASSUME NEW root \in Roots, RedefineAs(root) PROVE WellFormed(Nat, m')
  <2>1. m' = Rebase(m, root) /\ IsRoot(root)
    BY <1>4, DefinitionAssumption DEF RedefineAs, Again
  <2>2. QED BY <1>1, <2>1, RebaseFits
<1>5. ASSUME NEW around \in Surroundings, SubmachineState(around) PROVE WellFormed(Nat, m')
  <2>1. m' = PartialSubmachineState(around, Submachine, m) /\ around.stack = <<around.root>>
    BY <1>5, DefinitionAssumption DEF SubmachineState, Again
  <2>2. QED BY <1>1, <2>1, SubmachineFits
<1>6. QED BY <1>2, <1>3, <1>4, <1>5

\* An element that is applied uses up one of the elements that are left.
LEMMA ApplyCounts ==
  ASSUME Counters, NEW applied, Apply(applied)
  PROVE  Counters'
BY DefinitionAssumption DEF Counters, Apply

\* A new definition is another round.
LEMMA AgainCounts ==
  ASSUME Counters, NEW model, Again(model)
  PROVE  Counters'
BY DefinitionAssumption DEF Counters, Again

\* Every element keeps the counters in their ranges, also when the definition panics.
LEMMA DeclareCounts ==
  ASSUME Counters, DeclareVertex \/ DeclareTransition \/ DeclareMember
  PROVE  Counters'
<1>1. ASSUME NEW name, State(name) \/ Final(name) \/ Choice(name) PROVE Counters'
  BY <1>1, ApplyCounts DEF State, Final, Choice
<1>2. ASSUME Initial \/ Transition \/ Guard \/ Finalizer PROVE Counters'
  BY <1>2, ApplyCounts DEF Initial, Transition, Guard, Finalizer
<1>3. ASSUME NEW name, NEW elements, NEW kind, ConnectionPoint(name, kind, elements) \/ History(name, kind, elements)
      PROVE  Counters'
  BY <1>3, ApplyCounts DEF ConnectionPoint, History
<1>4. CASE DeclareVertex
  <2>1. CASE \/ \E name \in StateNames : State(name)
             \/ \E name \in FinalNames : Final(name)
             \/ \E name \in PointNames : Choice(name)
    BY <1>1, <2>1
  <2>2. CASE Initial
    BY <1>2, <2>2
  <2>3. CASE \E name \in PointNames, elements \in BOOLEAN :
               \/ \E kind \in {"entry_point", "exit_point"} : ConnectionPoint(name, kind, elements)
               \/ \E kind \in Histories : History(name, kind, elements)
    BY <1>3, <2>3
  <2>4. QED BY ONLY <1>4, <2>1, <2>2, <2>3 DEF DeclareVertex
<1>5. ASSUME NEW p, \/ Source(p) \/ Target(p) \/ On(p) \/ OnCall(p) \/ OnSet(p) \/ Timer(p)
                   \/ GuardOperationRef(p) \/ ToEntryPoint(p) \/ FromExitPoint(p)
      PROVE  Counters'
  <2>1. CASE Source(p) \/ Target(p) \/ On(p) \/ OnCall(p) \/ OnSet(p)
    BY <2>1, ApplyCounts DEF Source, Target, On, OnCall, OnSet
  <2>2. CASE Timer(p) \/ GuardOperationRef(p) \/ ToEntryPoint(p) \/ FromExitPoint(p)
    BY <2>2, ApplyCounts DEF Timer, GuardOperationRef, ToEntryPoint, FromExitPoint
  <2>3. QED BY <1>5, <2>1, <2>2
<1>6. ASSUME NEW event, Defer(event) PROVE Counters'
  <2>1. CASE Apply(PartialDefer(m, event))
    BY <2>1, ApplyCounts
  <2>2. CASE phase' = "panicked" /\ UNCHANGED <<m, round, left, ran>>
    BY <2>2 DEF Counters
  <2>3. QED BY <1>6, <2>1, <2>2 DEF Defer
<1>7. CASE DeclareTransition
  <2>1. CASE Transition \/ Guard
    BY <1>2, <2>1
  <2>2. CASE (\E event \in Events : On(event) \/ Defer(event)) \/ \E path \in Paths : Source(path) \/ Target(path)
    BY <1>5, <1>6, <2>2
  <2>3. CASE \/ \E name \in OperationNames : OnCall(name) \/ GuardOperationRef(name)
             \/ \E name \in AttributeNames : OnSet(name)
    BY <1>5, <2>3
  <2>4. CASE \/ \E timer \in {"after", "at", "every"} : Timer(timer)
             \/ \E name \in PointNames : ToEntryPoint(name) \/ FromExitPoint(name)
    BY <1>5, <2>4
  <2>5. QED BY ONLY <1>7, <2>1, <2>2, <2>3, <2>4 DEF DeclareTransition
<1>8. ASSUME NEW p, NEW q, Behaviors(p, q) \/ BehaviorOperation(p, q) PROVE Counters'
  BY <1>8, ApplyCounts DEF Behaviors, BehaviorOperation
<1>9. ASSUME NEW p, \/ Operation(p) \/ GuardOperation(p) \/ Attribute(p) \/ Validator(p)
                   \/ ObserveAll(p) \/ ObserveNamed(p)
      PROVE  Counters'
  <2>1. CASE Operation(p) \/ GuardOperation(p) \/ Attribute(p) \/ Validator(p)
    BY <2>1, ApplyCounts DEF Operation, GuardOperation, Attribute, Validator
  <2>2. CASE ObserveAll(p) \/ ObserveNamed(p)
    BY <2>2, ApplyCounts DEF ObserveAll, ObserveNamed
  <2>3. QED BY <1>9, <2>1, <2>2
<1>10. CASE DeclareMember
  <2>1. CASE \E role \in Roles :
               \/ \E functions \in {<<f>> : f \in Functions} \cup {<<f, g>> : f, g \in Functions} :
                    Behaviors(role, functions)
               \/ \E name \in OperationNames : BehaviorOperation(role, name)
    BY <1>8, <2>1
  <2>2. CASE \/ \E name \in OperationNames : Operation(name) \/ GuardOperation(name)
             \/ \E name \in AttributeNames : Attribute(name)
             \/ \E observer \in Observers : ObserveAll(observer) \/ ObserveNamed(observer)
             \/ \E does \in HookResults : Validator(does)
    BY <1>9, <2>2
  <2>3. CASE Finalizer
    BY <1>2, <2>3
  <2>4. QED BY ONLY <1>10, <2>1, <2>2, <2>3 DEF DeclareMember
<1>11. QED BY <1>4, <1>7, <1>10

\* Every step keeps the counters in their ranges.
LEMMA CounterStep ==
  ASSUME Counters, Next
  PROVE  Counters'
<1>1. CASE Close \/ Finalize
  BY <1>1 DEF Close, Finalize, Counters
<1>2. CASE (\E root \in Roots : RedefineAs(root)) \/ \E around \in Surroundings : SubmachineState(around)
  BY <1>2, AgainCounts DEF RedefineAs, SubmachineState
<1>3. QED BY <1>1, <1>2, DeclareCounts DEF Next

\* Every model that a definition goes through is well-formed.
THEOREM ModelInvariant ==
  ASSUME WellNamed
  PROVE  Spec => []ModelInv
<1>1. Init => ModelInv
  BY DefinitionAssumption DEF Init, ModelInv, Counters, WellNamed
<1>2. ModelInv /\ [Next]_vars => ModelInv'
  <2> SUFFICES ASSUME ModelInv, [Next]_vars PROVE ModelInv'
    OBVIOUS
  <2>1. CASE Next
    <3>1. WellFormed(Nat, m)
      BY DEF ModelInv
    <3>2. WellFormed(Nat, m')
      BY <2>1, <3>1, VertexStep, TransitionStep, MemberStep, LifecycleStep DEF Next
    <3>3. Counters'
      BY <2>1, CounterStep DEF ModelInv
    <3>4. QED BY <3>2, <3>3 DEF ModelInv
  <2>2. CASE UNCHANGED vars
    BY <2>2 DEF vars, ModelInv, Counters
  <2>3. QED BY <2>1, <2>2
<1>3. QED BY <1>1, <1>2, PTL DEF Spec

\* What is open is declared and inside what was opened before it, whatever the elements and
\* their order: the stack of define is the path from the machine to the innermost one, and
\* every member is below the machine, also after it was renamed or embedded.
THEOREM TypeCorrect ==
  ASSUME WellNamed
  PROVE  Spec => []TypeOK
<1>1. ModelInv => TypeOK
  <2> SUFFICES ASSUME ModelInv PROVE TypeOK
    OBVIOUS
  <2>1. WellFormed(Nat, m)
    BY DEF ModelInv
  <2>2. \A q \in DOMAIN m.members : IsStrictPrefix(m.root, q)
    BY <2>1, Parts
  <2>3. ASSUME NEW i \in 2 .. Len(m.stack)
        PROVE  m.stack[i] \in DOMAIN m.members /\ IsStrictPrefix(m.stack[i - 1], m.stack[i])
    <3> DEFINE q == m.stack[i]
    <3>1. q \in DOMAIN m.members /\ Front(q) = m.stack[i - 1]
      BY <2>1 DEF WellFormed
    <3>2. q \in Name /\ q # None
      BY <2>1, <3>1, Parts
    <3> HIDE DEF q
    <3>3. Front(q) \in Name /\ Last(q) \in Segment /\ q = Append(Front(q), Last(q))
      BY <3>2, FrontName
    <3>4. IsStrictPrefix(Front(q), q)
      BY <3>3, PrefixReflexive, AppendBelow
    <3>5. QED BY <3>1, <3>4 DEF q
  <2>4. QED BY <2>1, <2>2, <2>3 DEF ModelInv, Counters, WellFormed, TypeOK
<1>2. QED BY <1>1, ModelInvariant, PTL

\* A finalized model refers to nothing that is not there or is of another kind, however it
\* was built: whatever an element, a redefinition, an embedding or an observation writes over.
THEOREM NamesResolve ==
  ASSUME WellNamed
  PROVE  Spec => []ReferencesResolve
<1>1. ModelInv => ReferencesResolve
  <2> SUFFICES ASSUME ModelInv PROVE ReferencesResolve
    OBVIOUS
  <2>1. WellFormed(Nat, m)
    BY DEF ModelInv
  <2>2. \A q \in DOMAIN m.members : m.members[q].is \in Variants
    BY <2>1, Parts
  <2>3. ASSUME NEW q, HasSort(m, q, "initial") PROVE HasKind(m, q, {"initial"})
    BY <2>2, <2>3, SortIs DEF HasSort, HasKind, Is
  <2>4. ASSUME NEW q \in DOMAIN m.members
        PROVE  IsElement(m.members[q]) /\ \A field \in DOMAIN m.members[q] : Suits(m, q, field, m.members[q][field])
    BY <2>1 DEF WellFormed, IsMember
  <2>5. m.initial = None \/ HasKind(m, m.initial, {"initial"})
    BY <2>1, <2>3 DEF WellFormed
  <2>6. ASSUME NEW q \in DOMAIN m.members, NEW field \in Lists(q), NEW b \in ToSet(m.members[q][field])
        PROVE  Is(m, b, "behavior")
    BY <2>4, <2>6 DEF Lists, Suits
  <2>7. ASSUME NEW q \in DOMAIN m.members, IsVertex(m, q), NEW t \in ToSet(m.members[q].transitions)
        PROVE  IsTransition(m, t)
    BY <2>1, <2>7, ListOfVertex DEF Suits
  <2>8. ASSUME NEW q \in DOMAIN m.members, IsState(m, q)
        PROVE  m.members[q].initial = None \/ HasKind(m, m.members[q].initial, {"initial"})
    <3>1. "initial" \in DOMAIN m.members[q]
      <4>1. m.members[q].is = "state"
        BY <2>8 DEF IsState, Is
      <4>2. DOMAIN m.members[q] = Fields("state")
        BY <2>4, <4>1 DEF IsElement
      <4>3. QED BY <4>2, FieldsOf
    <3>2. Suits(m, q, "initial", m.members[q].initial)
      BY <2>4, <3>1
    <3>3. QED BY <2>3, <3>2 DEF Suits
  <2>9. ASSUME NEW q \in DOMAIN m.members, IsTransition(m, q)
        PROVE  m.members[q].guard = None \/ Is(m, m.members[q].guard, "constraint")
    <3>1. "guard" \in DOMAIN m.members[q]
      <4>1. m.members[q].is = "transition"
        BY <2>9 DEF IsTransition, Is
      <4>2. DOMAIN m.members[q] = Fields("transition")
        BY <2>4, <4>1 DEF IsElement
      <4>3. QED BY <4>2, FieldsOf
    <3>2. Suits(m, q, "guard", m.members[q].guard)
      BY <2>4, <3>1
    <3>3. QED BY <3>2 DEF Suits
  <2>10. QED BY <2>5, <2>6, <2>7, <2>8, <2>9 DEF ReferencesResolve
<1>2. QED BY <1>1, ModelInvariant, PTL
=============================================================================
