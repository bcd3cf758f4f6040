--------------------------- MODULE SequenceFacts ---------------------------
(***************************************************************************)
(* What the other modules of proofs share: the least element of a set of   *)
(* natural numbers, which stands in for induction, and what Filter makes   *)
(* of a sequence, by induction on its length.                              *)
(***************************************************************************)
EXTENDS Filtering, TLAPS, WellFoundedInduction, NaturalsInduction

\* < on the naturals, as a set of pairs.
Less == {ss \in Nat \X Nat : ss[1] < ss[2]}

\* A set of naturals that is not empty has a least element.
LEMMA LeastElement ==
  ASSUME NEW T \in SUBSET Nat, T # {}
  PROVE  \E m \in T : \A k \in T : m <= k
<1>1. IsWellFoundedOn(Less, Nat)
  BY NatLessThanWellFounded DEF OpToRel, Less
<1>2. \E m \in T : \A k \in T : ~(<<k, m>> \in Less)
  <2> HIDE DEF Less
  <2> QED BY <1>1, WFMin
<1>3. PICK m \in T : \A k \in T : ~(<<k, m>> \in Less)
  BY <1>2
<1>4. ASSUME NEW k \in T PROVE m <= k
  <2>1. m \in Nat /\ k \in Nat
    OBVIOUS
  <2>2. ~(<<k, m>> \in Less)
    BY <1>3
  <2>3. ~(k < m)
    BY <2>1, <2>2 DEF Less
  <2>4. QED BY <2>1, <2>3
<1>5. QED BY <1>4

\* A set that holds 0 and, with i, i + 1 holds every number up to n.
LEMMA SetInduction ==
  ASSUME NEW n \in Nat, NEW S, 0 \in S,
         \A i \in 0 .. n - 1 : i \in S => i + 1 \in S
  PROVE  \A i \in 0 .. n : i \in S
<1> SUFFICES ASSUME NEW x \in 0 .. n, x \notin S PROVE FALSE
  OBVIOUS
<1> DEFINE T == {i \in 0 .. n : i \notin S}
<1>1. T \in SUBSET Nat /\ T # {}
  OBVIOUS
<1>2. PICK m \in T : \A k \in T : m <= k
  <2> HIDE DEF T
  <2> QED BY <1>1, LeastElement
<1>3. m \in 1 .. n
  OBVIOUS
<1>4. m - 1 \in 0 .. n - 1 /\ m - 1 \notin T
  BY <1>2, <1>3
<1>5. QED BY <1>3, <1>4

\* g[i] is what Filter keeps of the first i elements of s, for every i up to n.
Chain(g, s, T, n) ==
  \A i \in 0 .. n : g[i] = IF i = 0 THEN <<>>
                           ELSE IF s[i] \in T THEN Append(g[i - 1], s[i]) ELSE g[i - 1]

\* The recursive equations of Filter have a solution: the prefixes, filtered.
LEMMA FilterChain ==
  ASSUME NEW E, NEW s \in Seq(E), NEW T
  PROVE  \E g \in [0 .. Len(s) -> Seq(E)] : Chain(g, s, T, Len(s))
<1> DEFINE S == {n \in 0 .. Len(s) : \E g \in [0 .. n -> Seq(E)] : Chain(g, s, T, n)}
<1>1. 0 \in S
  <2> DEFINE g == [i \in 0 .. 0 |-> <<>>]
  <2>1. g \in [0 .. 0 -> Seq(E)] /\ Chain(g, s, T, 0)
    BY DEF Chain
  <2> HIDE DEF g
  <2>2. \E x \in [0 .. 0 -> Seq(E)] : Chain(x, s, T, 0)
    BY <2>1
  <2>3. 0 \in 0 .. Len(s)
    OBVIOUS
  <2>4. QED BY <2>2, <2>3
<1>2. ASSUME NEW n \in 0 .. Len(s) - 1, n \in S PROVE n + 1 \in S
  <2>1. PICK g \in [0 .. n -> Seq(E)] : Chain(g, s, T, n)
    BY <1>2
  <2> DEFINE h == [i \in 0 .. n + 1 |-> IF i \in 0 .. n THEN g[i]
                     ELSE IF s[i] \in T THEN Append(g[i - 1], s[i]) ELSE g[i - 1]]
  <2>2. s[n + 1] \in E /\ g[n] \in Seq(E)
    OBVIOUS
  <2>3. h \in [0 .. n + 1 -> Seq(E)]
    BY <2>2
  <2>4. ASSUME NEW i \in 0 .. n + 1
        PROVE  h[i] = IF i = 0 THEN <<>>
                      ELSE IF s[i] \in T THEN Append(h[i - 1], s[i]) ELSE h[i - 1]
    <3>1. CASE i = n + 1
      BY <3>1
    <3>2. CASE i \in 0 .. n
      <4>1. h[i] = g[i] /\ (i # 0 => h[i - 1] = g[i - 1])
        BY <3>2
      <4>2. g[i] = IF i = 0 THEN <<>>
                      ELSE IF s[i] \in T THEN Append(g[i - 1], s[i]) ELSE g[i - 1]
        BY <2>1, <3>2 DEF Chain
      <4> HIDE DEF h
      <4>3. QED BY <4>1, <4>2
    <3>3. QED BY <3>1, <3>2
  <2>5. Chain(h, s, T, n + 1)
    <3> HIDE DEF h
    <3> QED BY <2>4 DEF Chain
  <2>6. QED 
    <3> HIDE DEF h
    <3> QED BY <2>3, <2>5
<1>3. Len(s) \in S
  <2> HIDE DEF S
  <2>1. Len(s) \in Nat
    OBVIOUS
  <2>2. \A i \in 0 .. Len(s) - 1 : i \in S => i + 1 \in S
    BY <1>2
  <2>3. \A i \in 0 .. Len(s) : i \in S
    BY ONLY <2>1, <2>2, <1>1, SetInduction
  <2>4. QED BY <2>1, <2>3
<1>4. QED BY <1>3

\* Filter is the end of the chain of filtered prefixes.
LEMMA FilterLast ==
  ASSUME NEW E, NEW s \in Seq(E), NEW T
  PROVE  \E g \in [0 .. Len(s) -> Seq(E)] :
           Chain(g, s, T, Len(s)) /\ Filter(s, T) = g[Len(s)]
<1> DEFINE F(g) == [n \in 0 .. Len(s) |->
        IF n = 0 THEN <<>>
        ELSE IF s[n] \in T THEN Append(g[n - 1], s[n]) ELSE g[n - 1]]
    kept == CHOOSE g : g = F(g)
<1>1. PICK g \in [0 .. Len(s) -> Seq(E)] : Chain(g, s, T, Len(s))
  BY FilterChain
<1>2. g = F(g)
  BY <1>1 DEF Chain
<1>3. kept = F(kept)
  <2> HIDE DEF F
  <2> QED BY <1>2
<1>4. Chain(kept, s, T, Len(s))
  <2> HIDE DEF kept
  <2> QED BY <1>3 DEF Chain
<1> DEFINE S == {n \in 0 .. Len(s) : kept[n] \in Seq(E)}
<1>5. 0 \in S
  <2> HIDE DEF kept
  <2>1. 0 \in 0 .. Len(s)
    OBVIOUS
  <2>2. kept[0] = <<>>
    BY <1>4, <2>1 DEF Chain
  <2>3. kept[0] \in Seq(E)
    BY <2>2
  <2>4. QED BY <2>1, <2>3
<1>6. ASSUME NEW n \in 0 .. Len(s) - 1, n \in S PROVE n + 1 \in S
  <2> HIDE DEF kept
  <2>1. kept[n + 1] = IF s[n + 1] \in T THEN Append(kept[n], s[n + 1]) ELSE kept[n]
    <3>1. n + 1 \in 0 .. Len(s) /\ n + 1 # 0 /\ (n + 1) - 1 = n
      OBVIOUS
    <3>2. QED BY <1>4, <3>1 DEF Chain
  <2>2. s[n + 1] \in E /\ kept[n] \in Seq(E)
    BY <1>6
  <2>3. kept[n + 1] \in Seq(E)
    BY <2>1, <2>2
  <2>4. n + 1 \in 0 .. Len(s)
    OBVIOUS
  <2>5. QED BY <2>3, <2>4
<1>7. \A n \in 0 .. Len(s) : n \in S
  <2> HIDE DEF S
  <2>1. Len(s) \in Nat
    OBVIOUS
  <2>2. \A i \in 0 .. Len(s) - 1 : i \in S => i + 1 \in S
    BY <1>6
  <2>3. QED
    BY ONLY <2>1, <2>2, <1>5, SetInduction
<1>8. kept \in [0 .. Len(s) -> Seq(E)]
  <2>1. \A n \in 0 .. Len(s) : kept[n] \in Seq(E)
    BY <1>7
  <2> HIDE DEF kept
  <2>2. kept = [n \in 0 .. Len(s) |-> kept[n]]
    BY <1>3
  <2>3. QED BY <2>1, <2>2
<1>9. Filter(s, T) = kept[Len(s)]
  BY DEF Filter
<1>10. QED BY <1>4, <1>8, <1>9

\* Filtering a sequence of E gives a sequence of E.
LEMMA FilterType ==
  ASSUME NEW E, NEW s \in Seq(E), NEW T
  PROVE  Filter(s, T) \in Seq(E)
<1>1. PICK g \in [0 .. Len(s) -> Seq(E)] : Filter(s, T) = g[Len(s)]
  BY FilterLast
<1>2. Len(s) \in 0 .. Len(s)
  OBVIOUS
<1>3. QED BY <1>1, <1>2

\* m tells for each element of f which of the first n elements of s it is.
Picks(m, f, s, T, n) ==
  /\ m \in [1 .. Len(f) -> 1 .. n]
  /\ \A i \in 1 .. Len(f) : f[i] = s[m[i]] /\ f[i] \in T
  /\ \A i, j \in 1 .. Len(f) : m[i] = m[j] => i = j
  /\ \A k \in 1 .. n : s[k] \in T => \E i \in 1 .. Len(f) : m[i] = k

\* Filter keeps each element that is in T, and keeps it once.
LEMMA FilterPicks ==
  ASSUME NEW E, NEW s \in Seq(E), NEW T
  PROVE  \E m : Picks(m, Filter(s, T), s, T, Len(s))
<1>1. PICK g \in [0 .. Len(s) -> Seq(E)] :
        Chain(g, s, T, Len(s)) /\ Filter(s, T) = g[Len(s)]
  BY FilterLast
<1> DEFINE S == {n \in 0 .. Len(s) : \E m : Picks(m, g[n], s, T, n)}
<1>2. 0 \in S
  <2>1. g[0] = <<>>
    BY <1>1 DEF Chain
  <2>2. Picks(<<>>, g[0], s, T, 0)
    BY <2>1 DEF Picks
  <2>3. QED BY <2>2
<1>3. ASSUME NEW n \in 0 .. Len(s) - 1, n \in S PROVE n + 1 \in S
  <2>1. PICK m : Picks(m, g[n], s, T, n)
    BY <1>3
  <2>2. n + 1 \in 0 .. Len(s) /\ n + 1 # 0 /\ (n + 1) - 1 = n
    OBVIOUS
  <2>3. g[n + 1] = IF s[n + 1] \in T THEN Append(g[n], s[n + 1]) ELSE g[n]
    BY <1>1, <2>2 DEF Chain
  <2>4. g[n] \in Seq(E) /\ s[n + 1] \in E
    OBVIOUS
  <2>5. CASE s[n + 1] \notin T
    <3>1. Picks(m, g[n + 1], s, T, n + 1)
      BY <2>1, <2>3, <2>4, <2>5 DEF Picks
    <3>2. QED BY <2>2, <3>1
  <2>6. CASE s[n + 1] \in T
    <3> DEFINE l == Len(g[n])
               h == [i \in 1 .. l + 1 |-> IF i = l + 1 THEN n + 1 ELSE m[i]]
    <3>1. g[n + 1] = Append(g[n], s[n + 1]) /\ Len(g[n + 1]) = l + 1 /\ l \in Nat
      BY <2>3, <2>4, <2>6
    <3>2. /\ \A i \in 1 .. l : g[n + 1][i] = g[n][i]
          /\ \A i \in 1 .. l : h[i] = m[i] /\ i \in 1 .. l + 1
          /\ \A i \in 1 .. l : m[i] \in 1 .. n
      <4>1. \A i \in 1 .. l : Append(g[n], s[n + 1])[i] = g[n][i]
        BY <2>4
      <4>2. \A i \in 1 .. l : h[i] = m[i] /\ i \in 1 .. l + 1
        BY <3>1
      <4>3. \A i \in 1 .. l : m[i] \in 1 .. n
        BY <2>1 DEF Picks
      <4>4. QED BY <3>1, <4>1, <4>2, <4>3
    <3>3. g[n + 1][l + 1] = s[n + 1] /\ h[l + 1] = n + 1
      BY <2>4, <3>1
    <3>4. h \in [1 .. l + 1 -> 1 .. n + 1]
      <4>1. \A i \in 1 .. l + 1 : i \in 1 .. l \/ i = l + 1
        BY <3>1
      <4>2. \A i \in 1 .. l + 1 : h[i] \in 1 .. n + 1
        <5> HIDE DEF h
        <5> QED BY <3>2, <3>3, <4>1
      <4>3. QED BY <4>2
    <3>5. DOMAIN h = 1 .. l + 1
      OBVIOUS
    <3> HIDE DEF h
    <3>6. \A i \in 1 .. l + 1 : g[n + 1][i] = s[h[i]] /\ g[n + 1][i] \in T
      BY <2>1, <2>6, <3>1, <3>2, <3>3 DEF Picks
    <3>7. \A i, j \in 1 .. l + 1 : h[i] = h[j] => i = j
      <4>1. \A i, j \in 1 .. l : m[i] = m[j] => i = j
        BY <2>1 DEF Picks
      <4>2. \A i \in 1 .. l + 1 : i \in 1 .. l \/ i = l + 1
        BY <3>1
      <4>3. \A i \in 1 .. l : h[i] # n + 1
        BY <3>2
      <4>4. QED BY <3>2, <3>3, <4>1, <4>2, <4>3
    <3>8. \A k \in 1 .. n + 1 : s[k] \in T => \E i \in 1 .. l + 1 : h[i] = k
      <4>1. \A k \in 1 .. n : s[k] \in T => \E i \in 1 .. l : m[i] = k
        BY <2>1 DEF Picks
      <4>2. \A k \in 1 .. n + 1 : k \in 1 .. n \/ k = n + 1
        OBVIOUS
      <4>3. l + 1 \in 1 .. l + 1
        BY <3>1
      <4>4. QED BY <3>2, <3>3, <4>1, <4>2, <4>3
    <3>9. Picks(h, g[n + 1], s, T, n + 1)
      BY <3>1, <3>4, <3>6, <3>7, <3>8 DEF Picks
    <3>10. QED BY <2>2, <3>9
  <2>7. QED BY <2>5, <2>6
<1>4. Len(s) \in S
  <2> HIDE DEF S
  <2>1. Len(s) \in Nat
    OBVIOUS
  <2>2. \A i \in 0 .. Len(s) - 1 : i \in S => i + 1 \in S
    BY <1>3
  <2>3. \A i \in 0 .. Len(s) : i \in S
    BY ONLY <2>1, <2>2, <1>2, SetInduction
  <2>4. QED BY <2>1, <2>3
<1>5. QED BY <1>1, <1>4
=============================================================================
