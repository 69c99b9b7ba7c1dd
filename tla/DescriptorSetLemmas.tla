------------------------ MODULE DescriptorSetLemmas -------------------------
(***************************************************************************)
(* What the theorems about the descriptor sets rest on: trees, blocks and  *)
(* types, what each step of a flush changes, the parts of the inductive    *)
(* invariant, and why the calls of the user keep them.                     *)
(***************************************************************************)
EXTENDS DescriptorSet, FiniteSetTheorems, SequenceTheorems, WellFoundedInduction, TLAPS

-----------------------------------------------------------------------------
(* Numbers, sequences and loops *)

\* A nonempty set of naturals has a least element.
LEMMA LeastExists ==
  ASSUME NEW S \in SUBSET Nat, S # {}
  PROVE  \E x \in S : \A y \in S : x <= y
<1>1. \E x \in S : \A y \in S : ~ (<<y, x>> \in OpToRel(<, Nat))
  BY NatLessThanWellFounded, WFMin, Zenon
<1>2. PICK x \in S : \A y \in S : ~ (<<y, x>> \in OpToRel(<, Nat))
  BY <1>1
<1>3. \A y \in S : ~ (y < x)
  BY <1>2 DEF OpToRel
<1> QED
  BY <1>3

\* Induction, as a fact about sets.
LEMMA Steps ==
  ASSUME NEW P, NEW n \in Nat, 0 \in P, \A k \in 0 .. n - 1 : k \in P => k + 1 \in P
  PROVE  0 .. n \subseteq P
<1> DEFINE Bad == {k \in 0 .. n : k \notin P}
<1>1. SUFFICES ASSUME Bad # {} PROVE FALSE
  OBVIOUS
<1>2. PICK k \in Bad : \A j \in Bad : k <= j
  <2>1. Bad \in SUBSET Nat
    OBVIOUS
  <2> HIDE DEF Bad
  <2> QED
    BY <1>1, <2>1, LeastExists
<1>3. k \in 0 .. n /\ k \notin P /\ k # 0
  BY <1>2
<1>4. k - 1 \in 0 .. n - 1 /\ k - 1 \in 0 .. n /\ ~ (k <= k - 1) /\ (k - 1) + 1 = k
  BY <1>3
<1>5. k - 1 \in P
  BY <1>2, <1>4
<1> QED
  BY <1>3, <1>4, <1>5

\* The same for all the naturals.
LEMMA AllSteps ==
  ASSUME NEW P, 0 \in P, \A k \in Nat : k \in P => k + 1 \in P
  PROVE  Nat \subseteq P
<1> SUFFICES ASSUME NEW n \in Nat PROVE n \in P
  OBVIOUS
<1>1. \A k \in 0 .. n - 1 : k \in P => k + 1 \in P
  OBVIOUS
<1>2. 0 .. n \subseteq P
  BY <1>1, Steps
<1> QED
  BY <1>2

\* A set of numbers that has a bound has a greatest element.
LEMMA GreatestExists ==
  ASSUME NEW S \in SUBSET Nat, S # {}, NEW n \in Nat, \A y \in S : y <= n
  PROVE  \E x \in S : \A y \in S : y <= x
<1> DEFINE T == {n - y : y \in S}
<1>1. T \in SUBSET Nat /\ T # {}
  <2>1. \A y \in S : n - y \in Nat
    OBVIOUS
  <2>2. \A t \in T : t \in Nat
    BY <2>1
  <2> QED
    BY <2>2
<1>2. PICK t \in T : \A u \in T : t <= u
  BY <1>1, LeastExists
<1>3. PICK x \in S : t = n - x
  BY <1>2
<1>4. ASSUME NEW y \in S PROVE y <= x
  <2>1. n - y \in T
    OBVIOUS
  <2>2. n - x <= n - y
    BY <1>2, <1>3, <2>1
  <2> QED
    BY <2>2
<1> QED
  BY <1>4

\* A finite set of naturals has a bound.
LEMMA FiniteIsBounded ==
  ASSUME NEW S \in SUBSET Nat, IsFiniteSet(S)
  PROVE  \E n \in Nat : \A y \in S : y <= n
<1> DEFINE P == {k \in Nat : \A T \in SUBSET S : IsFiniteSet(T) /\ Cardinality(T) = k =>
                    \E n \in Nat : \A y \in T : y <= n}
<1>1. 0 \in P
  <2> SUFFICES ASSUME NEW T \in SUBSET S, IsFiniteSet(T), Cardinality(T) = 0
               PROVE  \E n \in Nat : \A y \in T : y <= n
    OBVIOUS
  <2>1. T = {}
    BY FS_EmptySet
  <2> QED
    BY <2>1
<1>2. ASSUME NEW k \in Nat, k \in P PROVE k + 1 \in P
  <2>0. k + 1 \in Nat
    OBVIOUS
  <2> SUFFICES ASSUME NEW T \in SUBSET S, IsFiniteSet(T), Cardinality(T) = k + 1
               PROVE  \E n \in Nat : \A y \in T : y <= n
    BY <2>0, Zenon
  <2>1. T # {}
    BY FS_EmptySet
  <2>2. PICK x : x \in T
    BY <2>1
  <2>3. IsFiniteSet(T \ {x}) /\ Cardinality(T \ {x}) = (k + 1) - 1
    BY <2>2, FS_RemoveElement
  <2>4. PICK n \in Nat : \A y \in T \ {x} : y <= n
    <3>1. T \ {x} \in SUBSET S
      BY T \in SUBSET S, Zenon
    <3>2. Cardinality(T \ {x}) = k
      BY <2>3
    <3> QED
      BY <1>2, <2>3, <3>1, <3>2
  <2>5. x \in Nat
    BY <2>2
  <2>6. n + x \in Nat /\ \A y \in T : y <= n + x
    BY <2>4, <2>5
  <2> QED
    BY <2>6
<1>3. Nat \subseteq P
  <2> HIDE DEF P
  <2> QED
    BY <1>1, <1>2, AllSteps
<1>4. Cardinality(S) \in P
  BY <1>3, FS_CardinalityType
<1> QED
  BY <1>4

LEMMA MinFacts ==
  ASSUME NEW S \in SUBSET Nat, S # {}
  PROVE  Min(S) \in S /\ \A y \in S : Min(S) <= y
BY LeastExists DEF Min

LEMMA MaxFacts ==
  ASSUME NEW S \in SUBSET Nat, S # {}, IsFiniteSet(S)
  PROVE  Max(S) \in S /\ \A y \in S : y <= Max(S)
<1>1. PICK n \in Nat : \A y \in S : y <= n
  BY FiniteIsBounded
<1>2. \E x \in S : \A y \in S : y <= x
  BY <1>1, GreatestExists
<1>3. \E x \in S : \A y \in S : x >= y
  BY <1>2
<1>4. Max(S) \in S /\ \A y \in S : Max(S) >= y
  BY <1>3 DEF Max
<1> QED
  BY <1>4

\* A function on 1 .. n is a sequence of n elements.
LEMMA FunctionIsSeq ==
  ASSUME NEW n \in Nat, NEW S, NEW s \in [1 .. n -> S]
  PROVE  s \in Seq(S) /\ Len(s) = n
<1>1. s \in Seq(S)
  BY SeqDef
<1>2. DOMAIN s = 1 .. Len(s) /\ Len(s) \in Nat
  BY <1>1, LenProperties
<1> DEFINE k == Len(s)
<1>3. k \in Nat /\ 1 .. k = 1 .. n
  BY <1>2
<1> HIDE DEF k
<1>4. \A x, y \in Nat : x < y => y \in 1 .. y /\ y \notin 1 .. x
  OBVIOUS
<1>5. ~ (k < n) /\ ~ (n < k)
  BY <1>3, <1>4
<1>6. k = n
  BY <1>3, <1>5
<1> QED
  BY <1>1, <1>6 DEF k

\* A loop of n steps on the values of S, where F[k] is the k-th step, has the
\* values before and after each step.
IsLoop(g, n, b, F) == g[0] = b /\ \A k \in 1 .. n : g[k] = F[k][g[k - 1]]

LEMMA LoopExists ==
  ASSUME NEW n \in Nat, NEW S, NEW b \in S, NEW F \in [1 .. n -> [S -> S]]
  PROVE  \E g \in [0 .. n -> S] : IsLoop(g, n, b, F)
<1> DEFINE P == {k \in 0 .. n : \E g \in [0 .. k -> S] : IsLoop(g, k, b, F)}
<1>1. 0 \in P
  <2> DEFINE g == [k \in 0 .. 0 |-> b]
  <2>1. g \in [0 .. 0 -> S] /\ IsLoop(g, 0, b, F)
    BY DEF IsLoop
  <2> QED
    BY <2>1
<1>2. ASSUME NEW k \in 0 .. n - 1, k \in P PROVE k + 1 \in P
  <2>1. PICK g \in [0 .. k -> S] : IsLoop(g, k, b, F)
    BY <1>2
  <2> DEFINE v == F[k + 1][g[k]]
             h == [i \in 0 .. k + 1 |-> IF i = k + 1 THEN v ELSE g[i]]
  <2>2. v \in S
    <3>1. k + 1 \in 1 .. n /\ k \in 0 .. k
      OBVIOUS
    <3>2. F[k + 1] \in [S -> S] /\ g[k] \in S
      BY <3>1
    <3> QED
      BY <3>2
  <2> HIDE DEF v
  <2>3. h \in [0 .. k + 1 -> S]
    BY <2>2
  <2>4. /\ h[k + 1] = v
        /\ \A i \in 0 .. k : h[i] = g[i]
    OBVIOUS
  <2> HIDE DEF h
  <2>5. IsLoop(h, k + 1, b, F)
    <3>1. h[0] = b
      BY <2>1, <2>4 DEF IsLoop
    <3>2. ASSUME NEW i \in 1 .. k + 1 PROVE h[i] = F[i][h[i - 1]]
      <4>1. CASE i = k + 1
        <5>1. h[i - 1] = g[k]
          BY <2>4, <4>1
        <5> QED
          BY <2>4, <4>1, <5>1 DEF v
      <4>2. CASE i # k + 1
        <5>1. i \in 1 .. k /\ i - 1 \in 0 .. k /\ i \in 0 .. k
          BY <4>2
        <5> QED
          BY <2>1, <2>4, <5>1 DEF IsLoop
      <4> QED
        BY <4>1, <4>2
    <3> QED
      BY <3>1, <3>2 DEF IsLoop
  <2>6. k + 1 \in 0 .. n
    OBVIOUS
  <2> QED
    BY <2>3, <2>5, <2>6
<1>3. 0 .. n \subseteq P
  <2> HIDE DEF P
  <2> QED
    BY <1>1, <1>2, Steps
<1>4. n \in P
  <2> HIDE DEF P
  <2> QED
    BY <1>3
<1> QED
  BY <1>4

-----------------------------------------------------------------------------
(* The tree: who is above whom *)

\* Who is directly above each descriptor.
Ups == [Dscs -> Sets \cup {NoSet}]

Up1(up, x) == IF x = NoSet THEN NoSet ELSE up[x]

IsAt(at, up, d) ==
  /\ at \in [0 .. Cardinality(Sets) -> Dscs \cup {NoSet}]
  /\ at[0] = d
  /\ \A k \in 1 .. Cardinality(Sets) : at[k] = Up1(up, at[k - 1])

LEMMA SetsAreFinite ==
  /\ IsFiniteSet(Sets) /\ IsFiniteSet(Dscs) /\ Cardinality(Sets) \in Nat
  /\ Root \in Sets /\ NoSet \notin Dscs /\ NoSet \notin Sets /\ Sets \subseteq Dscs
  /\ Plain \subseteq Dscs /\ Plain \cap Sets = {}
<1>1. IsFiniteSet(Dscs) /\ Sets \in SUBSET Dscs
  BY SetsAssumption DEF Dscs
<1>2. IsFiniteSet(Sets)
  BY <1>1, FS_Subset
<1> QED
  BY <1>1, <1>2, FS_CardinalityType, SetsAssumption DEF Dscs

LEMMA AboveSteps ==
  ASSUME NEW up \in Ups, NEW d \in Dscs
  PROVE  \E at : IsAt(at, up, d) /\ Above(up, d) = {at[n] : n \in 0 .. Cardinality(Sets)} \ {NoSet}
<1> DEFINE N == Cardinality(Sets)
           S == Dscs \cup {NoSet}
           Body(n, g) == IF n = 0 THEN d
                         ELSE IF g[n - 1] = NoSet THEN NoSet ELSE up[g[n - 1]]
           IsIt(g) == g = [n \in 0 .. N |-> Body(n, g)]
           F == [k \in 1 .. N |-> [x \in S |-> Up1(up, x)]]
<1>1. N \in Nat /\ d \in S
  BY SetsAreFinite
<1>2. F \in [1 .. N -> [S -> S]]
  <2>1. \A x \in S : Up1(up, x) \in S
    BY SetsAreFinite DEF Ups, Up1
  <2> QED
    BY <2>1
<1>3. \A k \in 1 .. N : \A x \in S : F[k][x] = Up1(up, x)
  OBVIOUS
<1>4. PICK g \in [0 .. N -> S] : IsLoop(g, N, d, F)
  <2> HIDE DEF F, S, N
  <2> QED
    BY <1>1, <1>2, LoopExists
<1>5. \A k \in 1 .. N : k - 1 \in 0 .. N /\ k \in 0 .. N
  BY <1>1
<1>6. \A k \in 1 .. N : g[k] = Up1(up, g[k - 1])
  <2> SUFFICES ASSUME NEW k \in 1 .. N PROVE g[k] = Up1(up, g[k - 1])
    OBVIOUS
  <2>1. g[k] = F[k][g[k - 1]]
    BY <1>4 DEF IsLoop
  <2>2. g[k - 1] \in S
    BY <1>4, <1>5
  <2> HIDE DEF F
  <2> QED
    BY <1>3, <2>1, <2>2
<1>7. g[0] = d
  BY <1>4 DEF IsLoop
<1>8. IsIt(g)
  <2>1. ASSUME NEW n \in 0 .. N PROVE g[n] = Body(n, g)
    <3>1. n # 0 => n \in 1 .. N
      BY <1>1
    <3> QED
      BY <1>6, <1>7, <3>1 DEF Up1
  <2>2. g = [n \in 0 .. N |-> g[n]]
    BY <1>4
  <2> HIDE DEF Body
  <2> QED
    BY <2>1, <2>2
<1> DEFINE f == CHOOSE h : IsIt(h)
<1>9. IsIt(f)
  <2> HIDE DEF IsIt
  <2> QED
    BY <1>8
<1>10. Above(up, d) = {f[n] : n \in DOMAIN f} \ {NoSet}
  BY DEF Above
<1> HIDE DEF f
<1>11. DOMAIN f = 0 .. N
  BY <1>9
<1>12. \A n \in 0 .. N : f[n] = Body(n, f)
  <2> HIDE DEF Body
  <2> QED
    BY <1>9
<1>13. f[0] = d /\ \A k \in 1 .. N : f[k] = Up1(up, f[k - 1])
  <2>1. 0 \in 0 .. N /\ \A k \in 1 .. N : k # 0
    BY <1>1
  <2> QED
    BY <1>5, <1>12, <2>1 DEF Up1
<1>14. \A n \in 0 .. N : f[n] \in S
  <2> DEFINE P == {n \in 0 .. N : f[n] \in S}
  <2>1. 0 \in P
    BY <1>1, <1>13
  <2>2. ASSUME NEW k \in 0 .. N - 1, k \in P PROVE k + 1 \in P
    <3>1. k + 1 \in 1 .. N /\ k + 1 \in 0 .. N /\ (k + 1) - 1 = k
      BY <1>1
    <3>2. f[k + 1] = Up1(up, f[k])
      BY <1>13, <3>1
    <3>3. \A x \in S : Up1(up, x) \in S
      BY SetsAreFinite DEF Ups, Up1
    <3> QED
      BY <2>2, <3>1, <3>2, <3>3
  <2>3. 0 .. N \subseteq P
    <3> HIDE DEF P, N
    <3> QED
      BY <1>1, <2>1, <2>2, Steps
  <2> QED
    BY <2>3
<1>15. f \in [0 .. N -> S]
  <2>1. f = [n \in 0 .. N |-> f[n]]
    <3> HIDE DEF Body
    <3> QED
      BY <1>9, <1>12
  <2> HIDE DEF S
  <2> QED
    BY <1>14, <2>1
<1> QED
  BY <1>10, <1>11, <1>13, <1>15 DEF IsAt

\* d is in Above(up, d), that only has sets besides, and whoever is above one
\* of them is there too.
LEMMA AboveFacts ==
  ASSUME NEW up \in Ups, NEW d \in Dscs
  PROVE  /\ d \in Above(up, d)
         /\ Above(up, d) \subseteq Sets \cup {d}
         /\ \A x \in Above(up, d) : up[x] # NoSet => up[x] \in Above(up, d)
<1> DEFINE N == Cardinality(Sets)
<1>1. PICK at : IsAt(at, up, d) /\ Above(up, d) = {at[n] : n \in 0 .. N} \ {NoSet}
  BY AboveSteps
<1>2. /\ N \in Nat /\ at \in [0 .. N -> Dscs \cup {NoSet}] /\ at[0] = d
      /\ \A k \in 1 .. N : at[k] = Up1(up, at[k - 1])
  BY <1>1, SetsAreFinite DEF IsAt
<1> HIDE DEF N
<1>3. d \in Above(up, d)
  BY <1>1, <1>2, SetsAreFinite
<1>4. \A k \in 1 .. N : at[k] \in Sets \cup {NoSet}
  <2> SUFFICES ASSUME NEW k \in 1 .. N PROVE at[k] \in Sets \cup {NoSet}
    OBVIOUS
  <2>1. k - 1 \in 0 .. N
    BY <1>2
  <2>2. at[k - 1] \in Dscs \cup {NoSet}
    BY <1>2, <2>1
  <2> QED
    BY <1>2, <2>2 DEF Up1, Ups
<1>5. Above(up, d) \subseteq Sets \cup {d}
  <2>1. \A k \in 0 .. N : k = 0 \/ k \in 1 .. N
    BY <1>2
  <2> QED
    BY <1>1, <1>2, <1>4, <2>1
<1>6. ASSUME NEW x \in Above(up, d), up[x] # NoSet PROVE up[x] \in Above(up, d)
  <2>1. PICK n \in 0 .. N : x = at[n] /\ x # NoSet
    BY <1>1
  <2>2. CASE n < N
    <3>1. n + 1 \in 1 .. N /\ n + 1 \in 0 .. N /\ (n + 1) - 1 = n
      BY <1>2, <2>2
    <3>2. at[n + 1] = up[x]
      BY <1>2, <2>1, <3>1 DEF Up1
    <3> QED
      BY <1>1, <1>6, <3>1, <3>2
  <2>3. CASE n = N
    <3> DEFINE next == up[x]
               f == [k \in 1 .. N + 1 |-> IF k = N + 1 THEN next ELSE at[k]]
    <3>1. next \in Sets
      BY <1>5, <1>6, SetsAreFinite DEF Ups
    <3>2. \A k \in 0 .. N : at[k] # NoSet
      <4> DEFINE P == {j \in 0 .. N : at[N - j] # NoSet}
      <4>1. 0 \in P
        BY <1>2, <2>1, <2>3
      <4>2. ASSUME NEW j \in 0 .. N - 1, j \in P PROVE j + 1 \in P
        <5>1. N - j \in 1 .. N /\ (N - j) - 1 = N - (j + 1) /\ j + 1 \in 0 .. N
          BY <1>2
        <5>2. at[N - j] = Up1(up, at[N - (j + 1)])
          BY <1>2, <5>1
        <5> QED
          BY <4>2, <5>1, <5>2 DEF Up1
      <4>3. 0 .. N \subseteq P
        <5> HIDE DEF P
        <5> QED
          BY <1>2, <4>1, <4>2, Steps
      <4> SUFFICES ASSUME NEW k \in 0 .. N PROVE at[k] # NoSet
        OBVIOUS
      <4>4. N - k \in 0 .. N /\ N - (N - k) = k
        BY <1>2
      <4> QED
        BY <4>3, <4>4
    <3>3. \A k \in 1 .. N : at[k] \in Sets /\ k \in 0 .. N
      BY <1>2, <1>4, <3>2
    <3>4. f \in [1 .. N + 1 -> Sets]
      <4> HIDE DEF next
      <4> QED
        BY <1>2, <3>1, <3>3
    <3>5. \A k \in 1 .. N : f[k] = at[k]
      BY <1>2
    <3>6. f[N + 1] = next
      BY <1>2
    <3>7. \A k \in 1 .. N : f[k + 1] = up[f[k]]
      <4> SUFFICES ASSUME NEW k \in 1 .. N PROVE f[k + 1] = up[f[k]]
        OBVIOUS
      <4>1. CASE k = N
        BY <2>1, <2>3, <3>5, <3>6, <4>1
      <4>2. CASE k # N
        <5>1. k + 1 \in 1 .. N /\ (k + 1) - 1 = k /\ k \in 0 .. N
          BY <1>2, <4>2
        <5> HIDE DEF f
        <5> QED
          BY <1>2, <3>2, <3>5, <5>1 DEF Up1
      <4> QED
        BY <4>1, <4>2
    <3> HIDE DEF f, next
    <3>8. PICK i \in 1 .. N + 1, j \in 1 .. N + 1 : i # j /\ f[i] = f[j]
      <4> DEFINE T == 1 .. N + 1
      <4>1. IsFiniteSet(T) /\ Cardinality(T) = N + 1
        BY <1>2, FS_Interval
      <4>2. Cardinality(Sets) < Cardinality(T)
        BY <1>2, <4>1 DEF N
      <4> HIDE DEF T
      <4>3. f \in [T -> Sets]
        BY <3>4 DEF T
      <4>4. \E i, j \in T : i # j /\ f[i] = f[j]
        BY <4>1, <4>2, <4>3, SetsAreFinite, FS_PigeonHole
      <4> QED
        BY <4>4 DEF T
    <3>9. PICK a \in 1 .. N, b \in 1 .. N + 1 : a < b /\ f[a] = f[b]
      <4>1. i < j => i \in 1 .. N
        BY <1>2
      <4>2. j < i => j \in 1 .. N
        BY <1>2
      <4>3. i < j \/ j < i
        BY <1>2, <3>8
      <4> QED
        BY <3>8, <4>1, <4>2, <4>3
    <3>10. ASSUME NEW m \in 0 .. N + 1 - b PROVE f[b + m] = f[a + m]
      <4> DEFINE P == {m0 \in 0 .. N + 1 - b : f[b + m0] = f[a + m0]}
      <4>0. N + 1 - b \in Nat
        BY <1>2
      <4>1. 0 \in P
        BY <3>9, <4>0
      <4>2. ASSUME NEW k \in 0 .. (N + 1 - b) - 1, k \in P PROVE k + 1 \in P
        <5>1. /\ b + k \in 1 .. N /\ a + k \in 1 .. N /\ k + 1 \in 0 .. N + 1 - b
              /\ b + (k + 1) = (b + k) + 1 /\ a + (k + 1) = (a + k) + 1
          BY <1>2, <3>9
        <5>2. f[b + (k + 1)] = up[f[b + k]] /\ f[a + (k + 1)] = up[f[a + k]]
          BY <3>7, <5>1
        <5> QED
          BY <4>2, <5>1, <5>2
      <4>3. 0 .. N + 1 - b \subseteq P
        <5> DEFINE n0 == N + 1 - b
        <5> HIDE DEF P
        <5> QED
          BY <4>0, <4>1, <4>2, Steps
      <4> QED
        BY <4>3
    <3>11. /\ N + 1 - b \in 0 .. N + 1 - b /\ b + (N + 1 - b) = N + 1
           /\ a + (N + 1 - b) \in 1 .. N /\ a + (N + 1 - b) \in 0 .. N
      BY <1>2, <3>9
    <3>12. f[N + 1] = at[a + (N + 1 - b)]
      BY <3>5, <3>10, <3>11
    <3> QED
      BY <1>1, <1>6, <3>6, <3>11, <3>12 DEF next
  <2> QED
    BY <1>2, <2>2, <2>3
<1> QED
  BY <1>3, <1>5, <1>6

\* And it is the least that has them.
LEMMA AboveLeast ==
  ASSUME NEW up \in Ups, NEW d \in Dscs, NEW S, d \in S,
         \A x \in Dscs : x \in S /\ up[x] # NoSet => up[x] \in S
  PROVE  Above(up, d) \subseteq S
<1> DEFINE N == Cardinality(Sets)
<1>1. PICK at : IsAt(at, up, d) /\ Above(up, d) = {at[n] : n \in 0 .. N} \ {NoSet}
  BY AboveSteps
<1>2. /\ N \in Nat /\ at \in [0 .. N -> Dscs \cup {NoSet}] /\ at[0] = d
      /\ \A k \in 1 .. N : at[k] = Up1(up, at[k - 1])
  BY <1>1, SetsAreFinite DEF IsAt
<1> DEFINE P == {n \in 0 .. N : at[n] \in S \cup {NoSet}}
<1> HIDE DEF N
<1>3. 0 \in P
  BY <1>2
<1>4. ASSUME NEW k \in 0 .. N - 1, k \in P PROVE k + 1 \in P
  <2>1. k + 1 \in 1 .. N /\ k + 1 \in 0 .. N /\ (k + 1) - 1 = k /\ k \in 0 .. N
    BY <1>2
  <2>2. at[k + 1] = Up1(up, at[k])
    BY <1>2, <2>1
  <2>3. at[k] \in Dscs \cup {NoSet}
    BY <1>2, <2>1
  <2>4. at[k] \in S \cup {NoSet}
    BY <1>4
  <2>5. at[k + 1] \in S \cup {NoSet}
    BY <2>2, <2>3, <2>4 DEF Up1
  <2> QED
    BY <2>1, <2>5
<1>5. 0 .. N \subseteq P
  <2> HIDE DEF P
  <2> QED
    BY <1>2, <1>3, <1>4, Steps
<1> QED
  BY <1>1, <1>5

-----------------------------------------------------------------------------
(* Blocks *)

Pos == Nat \ {0}

\* The blocks that hold some cells are as few as can be.
LEMMA BlksForFacts ==
  ASSUME NEW n \in Nat
  PROVE  /\ BlksFor(n) \in Nat
         /\ n <= BlksFor(n) * CellsPerBlk
         /\ \A k \in Nat : n <= k * CellsPerBlk => BlksFor(n) <= k
<1> DEFINE d == CellsPerBlk
           a == n + d - 1
           q == BlksFor(n)
           r == a % d
<1>0. d \in Nat /\ d # 0
  BY SetsAssumption
<1>1. a \in Nat
  BY <1>0
<1>2. r \in 0 .. d - 1 /\ q \in Nat /\ a = d * q + r
  <2>1. \A x \in Nat : \A y \in Nat \ {0} :
          (x % y) \in 0 .. y - 1 /\ (x \div y) \in Nat /\ x = y * (x \div y) + (x % y)
    OBVIOUS
  <2>2. q = a \div d
    BY DEF BlksFor
  <2> HIDE DEF a, d, q
  <2> QED
    BY <1>0, <1>1, <2>1, <2>2
<1>3. a = n + d - 1
  OBVIOUS
<1> HIDE DEF a, q, r, d
<1>4. d * q \in Nat
  BY <1>0, <1>2
<1>5. n <= d * q
  BY <1>0, <1>2, <1>3, <1>4
<1>6. ASSUME NEW k \in Nat, n <= d * k PROVE q <= k
  <2> SUFFICES ASSUME k < q PROVE FALSE
    BY <1>2
  <2>1. PICK j \in Nat : q = k + 1 + j
    <3>1. q - k - 1 \in Nat /\ q = k + 1 + (q - k - 1)
      BY <1>2
    <3> QED
      BY <3>1
  <2>2. d * q = d * k + d + d * j /\ d * j \in Nat /\ d * k \in Nat
    BY <1>0, <2>1
  <2> QED
    BY <1>0, <1>2, <1>3, <1>6, <2>2
<1>7. \A k \in Nat : d * k = k * d
  BY <1>0
<1> QED
  BY <1>2, <1>5, <1>6, <1>7 DEF d, q

\* The blocks of an allocation are as many as were asked, not in use, and
\* each is given once.
LEMMA NewBlksFacts ==
  ASSUME NEW used \in SUBSET Nat, IsFiniteSet(used), NEW n \in Nat
  PROVE  /\ NewBlks(used, n) \in Seq(Pos) /\ Len(NewBlks(used, n)) = n
         /\ DOMAIN NewBlks(used, n) = 1 .. n
         /\ IsInjective(NewBlks(used, n))
         /\ \A i \in 1 .. n : NewBlks(used, n)[i] \in Pos /\ NewBlks(used, n)[i] \notin used
<1> DEFINE FreeAfter(b) == Min({c \in b + 1 .. Max({b} \cup used) + 1 : c \notin used})
           F == [k \in 1 .. n |-> [b \in Nat |-> FreeAfter(b)]]
           Body(g, i) == IF i = 0 THEN 0 ELSE FreeAfter(g[i - 1])
           IsIt(g) == g = [i \in 0 .. n |-> Body(g, i)]
<1>1. ASSUME NEW b \in Nat
      PROVE  FreeAfter(b) \in Nat /\ b < FreeAfter(b) /\ FreeAfter(b) \notin used
  <2> DEFINE top == Max({b} \cup used)
             Free == {c \in b + 1 .. top + 1 : c \notin used}
  <2>1. top \in Nat /\ b <= top /\ \A y \in used : y <= top
    <3>1. IsFiniteSet({b} \cup used)
      BY FS_AddElement
    <3> QED
      BY <3>1, MaxFacts
  <2> HIDE DEF top
  <2>2. top + 1 \in Free
    BY <2>1
  <2>3. Free \in SUBSET Nat
    BY <2>1
  <2>4. Min(Free) \in Free
    <3> HIDE DEF Free
    <3> QED
      BY <2>2, <2>3, MinFacts
  <2>5. FreeAfter(b) = Min(Free)
    BY DEF top
  <2> HIDE DEF FreeAfter
  <2> QED
    BY <2>1, <2>4, <2>5
<1> HIDE DEF FreeAfter
<1>2. F \in [1 .. n -> [Nat -> Nat]]
  BY <1>1
<1>3. PICK g \in [0 .. n -> Nat] : IsLoop(g, n, 0, F)
  <2> HIDE DEF F
  <2> QED
    BY <1>2, LoopExists
<1>4. \A k \in 1 .. n : k - 1 \in 0 .. n /\ k \in 0 .. n
  OBVIOUS
<1>5. g[0] = 0 /\ \A k \in 1 .. n : g[k] = FreeAfter(g[k - 1])
  <2>1. \A k \in 1 .. n : g[k] = F[k][g[k - 1]] /\ g[k - 1] \in Nat
    BY <1>3, <1>4 DEF IsLoop
  <2> QED
    BY <1>3, <2>1 DEF IsLoop
<1>6. IsIt(g)
  <2>1. \A i \in 0 .. n : g[i] = Body(g, i)
    <3>1. \A i \in 0 .. n : i # 0 => i \in 1 .. n
      OBVIOUS
    <3> QED
      BY <1>5, <3>1
  <2>2. g = [i \in 0 .. n |-> g[i]]
    BY <1>3
  <2> HIDE DEF Body
  <2> QED
    BY <2>1, <2>2
<1> DEFINE f == CHOOSE h : IsIt(h)
<1>7. IsIt(f)
  <2> HIDE DEF IsIt
  <2> QED
    BY <1>6
<1>8. NewBlks(used, n) = [i \in 1 .. n |-> f[i]]
  BY DEF NewBlks, FreeAfter
<1> HIDE DEF f
<1>9. \A i \in 0 .. n : f[i] = Body(f, i)
  <2> HIDE DEF Body
  <2> QED
    BY <1>7
<1>10. f[0] = 0 /\ \A k \in 1 .. n : f[k] = FreeAfter(f[k - 1])
  BY <1>4, <1>9
<1>11. \A i \in 0 .. n : f[i] \in Nat
  <2> DEFINE P == {i \in 0 .. n : f[i] \in Nat}
  <2>1. 0 \in P
    BY <1>10
  <2>2. ASSUME NEW k \in 0 .. n - 1, k \in P PROVE k + 1 \in P
    <3>1. k + 1 \in 1 .. n /\ k + 1 \in 0 .. n /\ (k + 1) - 1 = k
      OBVIOUS
    <3>2. f[k + 1] = FreeAfter(f[k])
      BY <1>10, <3>1
    <3> QED
      BY <1>1, <2>2, <3>1, <3>2
  <2>3. 0 .. n \subseteq P
    <3> HIDE DEF P
    <3> QED
      BY <2>1, <2>2, Steps
  <2> QED
    BY <2>3
<1>12. \A k \in 1 .. n : f[k] \in Pos /\ f[k] \notin used /\ f[k - 1] < f[k]
  <2> SUFFICES ASSUME NEW k \in 1 .. n
               PROVE  f[k] \in Pos /\ f[k] \notin used /\ f[k - 1] < f[k]
    OBVIOUS
  <2>1. f[k - 1] \in Nat /\ f[k] = FreeAfter(f[k - 1])
    BY <1>4, <1>10, <1>11
  <2>2. f[k] \in Nat /\ f[k - 1] < f[k] /\ f[k] \notin used
    BY <1>1, <2>1
  <2> QED
    BY <2>1, <2>2 DEF Pos
<1>13. ASSUME NEW i \in 1 .. n, NEW j \in 1 .. n, i < j PROVE f[i] < f[j]
  <2> DEFINE P == {m \in 0 .. n - i - 1 : f[i] < f[i + 1 + m]}
  <2>0. n - i - 1 \in Nat
    BY <1>13
  <2>1. 0 \in P
    <3>1. i + 1 \in 1 .. n /\ (i + 1) - 1 = i /\ i + 1 + 0 = i + 1
      BY <1>13
    <3>2. f[i] < f[i + 1]
      BY <1>12, <3>1
    <3> QED
      BY <2>0, <3>1, <3>2
  <2>2. ASSUME NEW k \in 0 .. (n - i - 1) - 1, k \in P PROVE k + 1 \in P
    <3>1. /\ i + 1 + (k + 1) \in 1 .. n /\ (i + 1 + (k + 1)) - 1 = i + 1 + k
          /\ k + 1 \in 0 .. n - i - 1 /\ i + 1 + k \in 0 .. n /\ i + 1 + (k + 1) \in 0 .. n
          /\ i \in 0 .. n
      BY <1>13
    <3>2. f[i + 1 + k] < f[i + 1 + (k + 1)]
      BY <1>12, <3>1
    <3>3. f[i] < f[i + 1 + k]
      BY <2>2
    <3>4. f[i] \in Nat /\ f[i + 1 + k] \in Nat /\ f[i + 1 + (k + 1)] \in Nat
      BY <1>11, <3>1
    <3>5. f[i] < f[i + 1 + (k + 1)]
      BY <3>2, <3>3, <3>4
    <3> QED
      BY <3>1, <3>5
  <2>3. 0 .. n - i - 1 \subseteq P
    <3> DEFINE m == n - i - 1
    <3> HIDE DEF P
    <3> QED
      BY <2>0, <2>1, <2>2, Steps
  <2>4. j - i - 1 \in 0 .. n - i - 1 /\ i + 1 + (j - i - 1) = j
    BY <1>13
  <2> QED
    BY <2>3, <2>4
<1> DEFINE new == [i \in 1 .. n |-> f[i]]
<1>14. new \in Seq(Pos) /\ Len(new) = n
  <2>1. new \in [1 .. n -> Pos]
    BY <1>12
  <2> QED
    BY <2>1, FunctionIsSeq
<1>15. IsInjective(new)
  <2> SUFFICES ASSUME NEW i \in 1 .. n, NEW j \in 1 .. n, f[i] = f[j] PROVE i = j
    BY DEF IsInjective
  <2>1. f[i] \in Nat /\ f[j] \in Nat
    BY <1>4, <1>11
  <2>2. ~ (i < j) /\ ~ (j < i)
    BY <1>13, <2>1
  <2> QED
    BY <2>2
<1> QED
  BY <1>8, <1>12, <1>14, <1>15

-----------------------------------------------------------------------------
(* Types *)

DataOf(d) == IF d \in Plain THEN {<<v>> : v \in Values} ELSE Seq(Pos)
RecsOf(d) == [dsc : {d}, data : DataOf(d), pid : BOOLEAN]
Recs == UNION {RecsOf(d) : d \in Dscs \ {Root}}

Cell == {Zero, Old, Header} \cup {PartOf(r, i) : r \in Recs, i \in Pos}
Sums == UNION {[R -> Nat] : R \in SUBSET Recs}

DscT == [owner : Sets \cup {NoSet}, data : Seq(Pos) \cup {<<v>> : v \in Values},
         pid : BOOLEAN, ext : SUBSET Nat, content : SUBSET Pos,
         written : SUBSET Recs, notified : BOOLEAN]

SetT == [segm : Seq(Pos), past : Nat, used : SUBSET Nat, cells : Seq(Cell),
         to_add : SUBSET Dscs, to_update : SUBSET Dscs,
         to_remove : SUBSET (SUBSET Nat), to_destroy : SUBSET Dscs, sum : Sums]

WT == [dsc : [Dscs -> DscT], sets : [Sets -> SetT],
       in_use : SUBSET Pos, dirty : SUBSET Pos]

\* Who has an owner is not the root and has data; what was written of a
\* descriptor is one record of it.
GoodDscs(ds) ==
  \A d \in Dscs :
    /\ ds[d].owner # NoSet => d # Root /\ ds[d].data \in DataOf(d)
    /\ ds[d].written = {} \/ \E r \in RecsOf(d) : ds[d].written = {r}

IsErased(ds, d) == ds[d].owner = NoSet /\ d # Root

\* Pending descriptors are of the set; who is to be destroyed has no owner,
\* and is not the root.
GoodSets(ds, ss) ==
  \A s \in Sets :
    /\ \A d \in ss[s].to_add \cup ss[s].to_update : ds[d].owner = s
    /\ \A d \in ss[s].to_destroy : IsErased(ds, d)

Fine(w) == w \in WT /\ IsFiniteSet(w.in_use) /\ GoodDscs(w.dsc) /\ GoodSets(w.dsc, w.sets)

LEMMA WTFacts ==
  ASSUME NEW w \in WT
  PROVE  /\ w.dsc \in [Dscs -> DscT] /\ w.sets \in [Sets -> SetT]
         /\ w.in_use \in SUBSET Pos /\ w.dirty \in SUBSET Pos
         /\ w = [dsc |-> w.dsc, sets |-> w.sets, in_use |-> w.in_use, dirty |-> w.dirty]
BY DEF WT

LEMMA DscTFacts ==
  ASSUME NEW r \in DscT
  PROVE  /\ r.owner \in Sets \cup {NoSet} /\ r.pid \in BOOLEAN /\ r.notified \in BOOLEAN
         /\ r.data \in Seq(Pos) \cup {<<v>> : v \in Values}
         /\ r.ext \in SUBSET Nat /\ r.content \in SUBSET Pos /\ r.written \in SUBSET Recs
         /\ r = [owner |-> r.owner, data |-> r.data, pid |-> r.pid, ext |-> r.ext,
                 content |-> r.content, written |-> r.written, notified |-> r.notified]
BY DEF DscT

LEMMA SetTFacts ==
  ASSUME NEW S \in SetT
  PROVE  /\ S.segm \in Seq(Pos) /\ S.past \in Nat /\ S.used \in SUBSET Nat
         /\ S.cells \in Seq(Cell) /\ S.to_add \in SUBSET Dscs
         /\ S.to_update \in SUBSET Dscs /\ S.to_remove \in SUBSET (SUBSET Nat)
         /\ S.to_destroy \in SUBSET Dscs /\ S.sum \in Sums
         /\ S = [segm |-> S.segm, past |-> S.past, used |-> S.used, cells |-> S.cells,
                 to_add |-> S.to_add, to_update |-> S.to_update,
                 to_remove |-> S.to_remove, to_destroy |-> S.to_destroy, sum |-> S.sum]
BY DEF SetT

\* Every record takes cells.
LEMMA FootprintFacts ==
  ASSUME NEW d \in Dscs, NEW r, r.data \in DataOf(d)
  PROVE  Footprint(d, r) \in Pos
<1>1. CASE d \in Plain
  <2>1. PICK v \in Values : r.data = <<v>>
    BY <1>1 DEF DataOf
  <2>2. r.data[1] = v
    BY <2>1
  <2>3. CellsOf[v] \in Nat \ {0}
    BY SetsAssumption
  <2>4. Footprint(d, r) = CellsOf[v] + (IF r.pid THEN 1 ELSE 0)
    BY <1>1, <2>2 DEF Footprint
  <2> QED
    BY <2>3, <2>4 DEF Pos
<1>2. CASE d \notin Plain
  BY <1>2 DEF Footprint, Pos
<1> QED
  BY <1>1, <1>2

\* The cells of a stream are padding, the header's, or parts of records.
LEMMA CellFacts ==
  ASSUME NEW c \in Cell
  PROVE  \/ c \in {Zero, Old, Header} /\ Len(c) # 2
         \/ \E r \in Recs, i \in Pos : c = PartOf(r, i) /\ Len(c) = 2 /\ c[1] = r /\ c[2] = i
<1>1. Len(Zero) # 2 /\ Len(Old) # 2 /\ Len(Header) # 2
  BY DEF Zero, Old, Header
<1>2. \A r, i : Len(PartOf(r, i)) = 2 /\ PartOf(r, i)[1] = r /\ PartOf(r, i)[2] = i
  BY DEF PartOf
<1> QED
  BY <1>1, <1>2 DEF Cell

\* The memory of the tree and the allocator of the file.
Memory == [dsc |-> dsc, sets |-> sets, in_use |-> in_use, dirty |-> dirty]

-----------------------------------------------------------------------------
(* Checksums *)

LEMMA SumFacts ==
  ASSUME NEW A \in Sums, NEW S \in SUBSET Recs
  PROVE  /\ SetToBag(S) \in Sums /\ A (+) SetToBag(S) \in Sums /\ A (-) SetToBag(S) \in Sums
<1>1. PICK R \in SUBSET Recs : A \in [R -> Nat]
  BY DEF Sums
<1>2. SetToBag(S) \in [S -> Nat]
  BY DEF SetToBag
<1>3. A (+) SetToBag(S) \in [R \cup S -> Nat]
  BY <1>1, <1>2 DEF (+)
<1>4. \E T \in SUBSET R : A (-) SetToBag(S) \in [T -> Nat]
  <2> DEFINE b == [e \in R |-> IF e \in S THEN A[e] - 1 ELSE A[e]]
             T == {e \in R : b[e] > 0}
  <2>1. A (-) SetToBag(S) = [e \in T |-> b[e]]
    BY <1>1 DEF (-), SetToBag
  <2>2. \A e \in R : b[e] \in Int
    BY <1>1
  <2>3. \A e \in T : b[e] \in Nat
    BY <2>2
  <2> HIDE DEF b
  <2> QED
    BY <2>1, <2>3
<1> QED
  BY <1>1, <1>2, <1>3, <1>4 DEF Sums

-----------------------------------------------------------------------------
(* The steps of a flush: what each one changes *)

\* The stream gets whole new blocks, that nobody has, and cells with what
\* these had or nothing.
GrownWith(w, v, s, past, new, more) ==
  LET S == w.sets[s]
  IN /\ new \in Seq(Pos) /\ IsInjective(new) /\ ToSet(new) \cap w.in_use = {}
     /\ Len(new) = Max({0, BlksFor(past) - Len(S.segm)})
     /\ more \in Seq({Old, Zero}) /\ Len(more) = Len(new) * CellsPerBlk
     /\ v.dsc = w.dsc /\ v.dirty = w.dirty /\ v.in_use = w.in_use \cup ToSet(new)
     /\ v.sets = [w.sets EXCEPT ![s] = [S EXCEPT !.past = past, !.segm = @ \o new,
                                                 !.cells = @ \o more]]

LEMMA ToSetFacts ==
  ASSUME NEW T, NEW q \in Seq(T)
  PROVE  /\ ToSet(q) \subseteq T /\ IsFiniteSet(ToSet(q))
         /\ ToSet(q) = {q[i] : i \in 1 .. Len(q)}
         /\ q = <<>> <=> ToSet(q) = {}
<1>1. DOMAIN q = 1 .. Len(q) /\ Len(q) \in Nat /\ q \in [1 .. Len(q) -> T]
  BY LenProperties
<1>2. ToSet(q) = {q[i] : i \in 1 .. Len(q)}
  BY <1>1 DEF ToSet
<1>3. IsFiniteSet({q[i] : i \in 1 .. Len(q)})
  <2> DEFINE n == Len(q)
             R == {q[i] : i \in 1 .. n}
             f == [i \in 1 .. n |-> q[i]]
  <2>1. IsFiniteSet(1 .. n)
    BY <1>1, FS_Interval
  <2>2. f \in Surjection(1 .. n, R)
    BY DEF Surjection
  <2> QED
    BY <2>1, <2>2, FS_Surjection
<1>4. q = <<>> <=> Len(q) = 0
  BY EmptySeq
<1> QED
  BY <1>1, <1>2, <1>3, <1>4

\* What changing one part of the memory does.
LEMMA WithPart ==
  ASSUME NEW w \in WT, NEW x
  PROVE  /\ [w EXCEPT !.dsc = x] = [dsc |-> x, sets |-> w.sets,
                                    in_use |-> w.in_use, dirty |-> w.dirty]
         /\ [w EXCEPT !.sets = x] = [dsc |-> w.dsc, sets |-> x,
                                     in_use |-> w.in_use, dirty |-> w.dirty]
         /\ [w EXCEPT !.in_use = x] = [dsc |-> w.dsc, sets |-> w.sets,
                                       in_use |-> x, dirty |-> w.dirty]
BY DEF WT

LEMMA NumMax ==
  ASSUME NEW a \in Nat, NEW b \in Int
  PROVE  Max({a, b}) = IF a < b THEN b ELSE a
BY DEF Max

LEMMA GrownFacts ==
  ASSUME NEW w, Fine(w), NEW s \in Sets, NEW past \in Nat
  PROVE  /\ \E new, more : GrownWith(w, Grown(w, s, past), s, past, new, more)
         /\ Fine(Grown(w, s, past))
<1> DEFINE S == w.sets[s]
           v == Grown(w, s, past)
           n == Max({0, BlksFor(past) - Len(S.segm)})
           new == NewBlks(w.in_use, n)
           more == [i \in 1 .. Len(new) * CellsPerBlk |->
                      IF new[BlksFor(i)] \in w.dirty THEN Old ELSE Zero]
<1>1. w \in WT /\ IsFiniteSet(w.in_use) /\ GoodDscs(w.dsc) /\ GoodSets(w.dsc, w.sets)
  BY DEF Fine
<1>2. S \in SetT
  BY <1>1, WTFacts
<1>3. S.segm \in Seq(Pos) /\ S.cells \in Seq(Cell) /\ Len(S.segm) \in Nat
  BY <1>2, SetTFacts, LenProperties
<1>4. n \in Nat
  <2>1. BlksFor(past) \in Nat
    BY BlksForFacts
  <2>2. BlksFor(past) - Len(S.segm) \in Int
    <3>1. \A x, y \in Nat : x - y \in Int
      OBVIOUS
    <3> QED
      BY <1>3, <2>1, <3>1
  <2>3. n = IF 0 < BlksFor(past) - Len(S.segm) THEN BlksFor(past) - Len(S.segm) ELSE 0
    BY <2>2, NumMax
  <2> HIDE DEF n
  <2> QED
    BY <2>2, <2>3
<1>5. w.in_use \in SUBSET Nat
  BY <1>1, WTFacts DEF Pos
<1>6. /\ new \in Seq(Pos) /\ Len(new) = n /\ DOMAIN new = 1 .. n /\ IsInjective(new)
      /\ \A i \in 1 .. n : new[i] \in Pos /\ new[i] \notin w.in_use
  <2> HIDE DEF n
  <2> QED
    BY <1>1, <1>4, <1>5, NewBlksFacts
<1> HIDE DEF new
<1>7. ToSet(new) \cap w.in_use = {} /\ ToSet(new) \subseteq Pos /\ IsFiniteSet(ToSet(new))
  <2>1. ToSet(new) = {new[i] : i \in 1 .. n}
    BY <1>6 DEF ToSet
  <2>2. ToSet(new) \subseteq Pos /\ IsFiniteSet(ToSet(new))
    <3> HIDE DEF n
    <3>1. new \in Seq(Pos)
      BY <1>6
    <3> QED
      BY <3>1, ToSetFacts
  <2> HIDE DEF n
  <2> QED
    BY <1>6, <2>1, <2>2
<1>8. more \in Seq({Old, Zero}) /\ Len(more) = Len(new) * CellsPerBlk
  <2>1. Len(new) * CellsPerBlk \in Nat
    <3> HIDE DEF n
    <3> QED
      BY <1>4, <1>6, SetsAssumption
  <2> DEFINE m == Len(new) * CellsPerBlk
  <2>2. more \in [1 .. m -> {Old, Zero}]
    OBVIOUS
  <2> HIDE DEF m, more
  <2> QED
    BY <2>1, <2>2, FunctionIsSeq DEF m
<1> DEFINE S2 == [S EXCEPT !.past = past, !.segm = S.segm \o new, !.cells = S.cells \o more]
<1>9. /\ v.dsc = w.dsc /\ v.dirty = w.dirty /\ v.in_use = w.in_use \cup ToSet(new)
      /\ v.sets = [w.sets EXCEPT ![s] = S2]
      /\ v = [dsc |-> w.dsc, sets |-> [w.sets EXCEPT ![s] = S2],
              in_use |-> w.in_use \cup ToSet(new), dirty |-> w.dirty]
  <2>1. v = [w EXCEPT !.in_use = @ \cup ToSet(new), !.sets[s] = S2]
    BY DEF Grown, new
  <2> DEFINE u == [w EXCEPT !.in_use = @ \cup ToSet(new)]
  <2>2. u = [dsc |-> w.dsc, sets |-> w.sets,
             in_use |-> w.in_use \cup ToSet(new), dirty |-> w.dirty]
    BY <1>1, WithPart
  <2>3. v = [u EXCEPT !.sets = [u.sets EXCEPT ![s] = S2]]
    BY <2>1
  <2> HIDE DEF v, S2, S, u
  <2> QED
    BY <2>2, <2>3
<1> HIDE DEF v, more
<1>10. S2 \in SetT
  <2>1. S.segm \o new \in Seq(Pos)
    BY <1>3, <1>6, ConcatProperties
  <2>2. S.cells \o more \in Seq(Cell)
    <3>1. more \in Seq(Cell)
      <4>1. {Old, Zero} \subseteq Cell
        BY DEF Cell
      <4> QED
        BY <1>8, <4>1, SeqMonotonic
    <3> QED
      BY <1>3, <3>1, ConcatProperties
  <2> HIDE DEF S
  <2> QED
    BY <1>2, <2>1, <2>2 DEF SetT
<1>11. Fine(v)
  <2>1. v \in WT
    <3>1. [w.sets EXCEPT ![s] = S2] \in [Sets -> SetT]
      BY <1>1, <1>10, WTFacts
    <3>2. w.in_use \cup ToSet(new) \in SUBSET Pos
      BY <1>1, <1>7, WTFacts
    <3> QED
      BY <1>1, <1>9, <3>1, <3>2, WTFacts DEF WT
  <2>2. IsFiniteSet(v.in_use)
    BY <1>1, <1>7, <1>9, FS_Union
  <2>3. GoodSets(v.dsc, v.sets)
    <3>1. \A t \in Sets : /\ v.sets[t].to_add = w.sets[t].to_add
                          /\ v.sets[t].to_update = w.sets[t].to_update
                          /\ v.sets[t].to_destroy = w.sets[t].to_destroy
      <4>1. S2.to_add = S.to_add /\ S2.to_update = S.to_update /\ S2.to_destroy = S.to_destroy
        <5> HIDE DEF S
        <5> QED
          BY <1>2, SetTFacts
      <4>2. \A t \in Sets : v.sets[t] = IF t = s THEN S2 ELSE w.sets[t]
        <5> HIDE DEF S2
        <5> QED
          BY <1>1, <1>9, WTFacts
      <4> HIDE DEF S2
      <4> QED
        BY <4>1, <4>2
    <3> QED
      BY <1>1, <1>9, <3>1 DEF GoodSets
  <2> QED
    BY <1>1, <1>9, <2>1, <2>2, <2>3 DEF Fine
<1>12. GrownWith(w, v, s, past, new, more)
  <2> HIDE DEF n
  <2>1. Len(new) = Max({0, BlksFor(past) - Len(S.segm)})
    BY <1>6 DEF n
  <2> QED
    BY <1>6, <1>7, <1>8, <1>9, <2>1 DEF GrownWith
<1> QED
  BY <1>11, <1>12 DEF v

SamePending(S, T) ==
  /\ S.to_add = T.to_add /\ S.to_update = T.to_update /\ S.to_remove = T.to_remove
  /\ S.to_destroy = T.to_destroy /\ S.sum = T.sum

LEMMA FineWithSet ==
  ASSUME NEW w, Fine(w), NEW s \in Sets, NEW S2 \in SetT,
         NEW X \in SUBSET Pos, IsFiniteSet(X), NEW Y \in SUBSET Pos,
         \A d \in S2.to_add \cup S2.to_update : w.dsc[d].owner = s,
         \A d \in S2.to_destroy : IsErased(w.dsc, d)
  PROVE  Fine([dsc |-> w.dsc, sets |-> [w.sets EXCEPT ![s] = S2],
               in_use |-> X, dirty |-> Y])
<1> DEFINE v == [dsc |-> w.dsc, sets |-> [w.sets EXCEPT ![s] = S2],
                 in_use |-> X, dirty |-> Y]
<1>1. w \in WT /\ GoodDscs(w.dsc) /\ GoodSets(w.dsc, w.sets)
  BY DEF Fine
<1>2. w.sets \in [Sets -> SetT] /\ w.dsc \in [Dscs -> DscT]
  BY <1>1, WTFacts
<1>3. v \in WT
  <2>1. [w.sets EXCEPT ![s] = S2] \in [Sets -> SetT]
    BY <1>2
  <2> QED
    BY <1>2, <2>1 DEF WT
<1>4. \A t \in Sets : v.sets[t] = IF t = s THEN S2 ELSE w.sets[t]
  BY <1>2
<1>5. v.dsc = w.dsc /\ v.in_use = X
  OBVIOUS
<1> HIDE DEF v
<1>6. GoodSets(v.dsc, v.sets)
  <2> SUFFICES ASSUME NEW t \in Sets
               PROVE  /\ \A d \in v.sets[t].to_add \cup v.sets[t].to_update : v.dsc[d].owner = t
                      /\ \A d \in v.sets[t].to_destroy : IsErased(v.dsc, d)
    BY DEF GoodSets
  <2>1. CASE t = s
    BY <1>4, <1>5, <2>1
  <2>2. CASE t # s
    BY <1>1, <1>4, <1>5, <2>2 DEF GoodSets
  <2> QED
    BY <2>1, <2>2
<1>7. Fine(v)
  BY <1>1, <1>3, <1>5, <1>6 DEF Fine
<1> QED
  BY <1>7 DEF v

\* A set that gets its header: its stream grew, and its first cells are used.
HeaderedWith(w, v, s, new, more) ==
  LET S == w.sets[s]
  IN /\ new \in Seq(Pos) /\ IsInjective(new) /\ ToSet(new) \cap w.in_use = {}
     /\ Len(new) = Max({0, BlksFor(HeaderCells) - Len(S.segm)})
     /\ more \in Seq({Old, Zero}) /\ Len(more) = Len(new) * CellsPerBlk
     /\ v.dsc = w.dsc /\ v.dirty = w.dirty /\ v.in_use = w.in_use \cup ToSet(new)
     /\ v.sets = [w.sets EXCEPT ![s] = [S EXCEPT !.past = HeaderCells, !.segm = @ \o new,
                                                 !.cells = @ \o more,
                                                 !.used = 1 .. HeaderCells]]

LEMMA WithHeaderFacts ==
  ASSUME NEW w, Fine(w), NEW s \in Sets
  PROVE  /\ Fine(WithHeader(w, s))
         /\ \/ /\ w.sets[s].past > 0 \/ Members(w.dsc, s) = {}
               /\ WithHeader(w, s) = w
            \/ /\ w.sets[s].past = 0 /\ Members(w.dsc, s) # {}
               /\ \E new, more : HeaderedWith(w, WithHeader(w, s), s, new, more)
<1>1. CASE w.sets[s].past > 0 \/ Members(w.dsc, s) = {}
  BY <1>1 DEF WithHeader
<1>2. CASE ~ (w.sets[s].past > 0 \/ Members(w.dsc, s) = {})
  <2> DEFINE g == Grown(w, s, HeaderCells)
             S == w.sets[s]
             H == 1 .. HeaderCells
             v == WithHeader(w, s)
  <2>0. HeaderCells \in Nat
    BY SetsAssumption
  <2>1. PICK new, more : GrownWith(w, g, s, HeaderCells, new, more)
    BY <2>0, GrownFacts
  <2>2. Fine(g)
    BY <2>0, GrownFacts
  <2>3. w \in WT /\ g \in WT /\ w.sets \in [Sets -> SetT] /\ g.sets \in [Sets -> SetT]
    BY <2>2, WTFacts DEF Fine
  <2>4. S \in SetT
    BY <2>3
  <2>5. v = [g EXCEPT !.sets = [g.sets EXCEPT ![s] = [g.sets[s] EXCEPT !.used = H]]]
    BY <1>2 DEF WithHeader
  <2> DEFINE S1 == [S EXCEPT !.past = HeaderCells, !.segm = @ \o new, !.cells = @ \o more]
             S2 == [S EXCEPT !.past = HeaderCells, !.segm = @ \o new, !.cells = @ \o more,
                             !.used = H]
  <2>6. g.sets = [w.sets EXCEPT ![s] = S1] /\ g.sets[s] = S1
    BY <2>1, <2>3 DEF GrownWith
  <2>7. S2 = [S1 EXCEPT !.used = H]
    <3> HIDE DEF S
    <3> QED
      BY <2>4, SetTFacts
  <2>8. S1 \in SetT /\ S2 \in SetT
    <3>1. S1 \in SetT
      BY <2>3, <2>6
    <3>2. [S1 EXCEPT !.used = H] \in SetT
      <4> HIDE DEF S1
      <4>1. H \in SUBSET Nat
        OBVIOUS
      <4> HIDE DEF H
      <4> QED
        BY <3>1, <4>1 DEF SetT
    <3> QED
      BY <2>7, <3>1, <3>2
  <2> HIDE DEF S1, S2, v, g
  <2>9. v = [dsc |-> g.dsc, sets |-> [g.sets EXCEPT ![s] = S2],
             in_use |-> g.in_use, dirty |-> g.dirty]
    BY <2>3, <2>5, <2>6, <2>7, WithPart
  <2>10. [g.sets EXCEPT ![s] = S2] = [w.sets EXCEPT ![s] = S2]
    BY <2>3, <2>6
  <2>11. Fine(v)
    <3>1. g.in_use \in SUBSET Pos /\ g.dirty \in SUBSET Pos /\ IsFiniteSet(g.in_use)
      BY <2>2, <2>3, WTFacts DEF Fine
    <3>2. /\ S2.to_add = S1.to_add /\ S2.to_update = S1.to_update
          /\ S2.to_destroy = S1.to_destroy
      BY <2>7, <2>8, SetTFacts
    <3>3. /\ \A d \in S1.to_add \cup S1.to_update : g.dsc[d].owner = s
          /\ \A d \in S1.to_destroy : IsErased(g.dsc, d)
      BY <2>2, <2>6 DEF Fine, GoodSets
    <3> QED
      BY <2>2, <2>8, <2>9, <3>1, <3>2, <3>3, FineWithSet
  <2>12. HeaderedWith(w, v, s, new, more)
    <3>1. /\ v.dsc = w.dsc /\ v.dirty = w.dirty /\ v.in_use = w.in_use \cup ToSet(new)
          /\ v.sets = [w.sets EXCEPT ![s] = S2]
      BY <2>1, <2>9, <2>10 DEF GrownWith
    <3> QED
      BY <2>1, <3>1 DEF GrownWith, HeaderedWith, S2
  <2>13. w.sets[s].past = 0
    <3>1. S.past \in Nat
      BY <2>4, SetTFacts
    <3> QED
      BY <1>2, <3>1
  <2> QED
    BY <1>2, <2>11, <2>12, <2>13 DEF v
<1> QED
  BY <1>1, <1>2

LEMMA FineWithDscs ==
  ASSUME NEW w, Fine(w), NEW ds \in [Dscs -> DscT],
         \A d \in Dscs : /\ ds[d].owner = w.dsc[d].owner /\ ds[d].data = w.dsc[d].data
                         /\ ds[d].written = w.dsc[d].written
  PROVE  Fine([dsc |-> ds, sets |-> w.sets, in_use |-> w.in_use, dirty |-> w.dirty])
<1> DEFINE v == [dsc |-> ds, sets |-> w.sets, in_use |-> w.in_use, dirty |-> w.dirty]
<1>1. w \in WT /\ GoodDscs(w.dsc) /\ GoodSets(w.dsc, w.sets) /\ IsFiniteSet(w.in_use)
  BY DEF Fine
<1>2. v \in WT
  BY <1>1, WTFacts DEF WT
<1>3. GoodDscs(ds)
  BY <1>1 DEF GoodDscs
<1>4. GoodSets(ds, w.sets)
  <2>1. \A s \in Sets : w.sets[s] \in SetT
    BY <1>1, WTFacts
  <2>2. \A s \in Sets : /\ w.sets[s].to_add \cup w.sets[s].to_update \subseteq Dscs
                        /\ w.sets[s].to_destroy \subseteq Dscs
    BY <2>1, SetTFacts
  <2> QED
    BY <1>1, <2>2 DEF GoodSets, IsErased
<1>5. v.dsc = ds /\ v.sets = w.sets /\ v.in_use = w.in_use
  OBVIOUS
<1> HIDE DEF v
<1>6. Fine(v)
  BY <1>1, <1>2, <1>3, <1>4, <1>5 DEF Fine
<1> QED
  BY <1>6 DEF v

LEMMA ZeroedFacts ==
  ASSUME NEW q \in Seq(Cell), NEW Z
  PROVE  /\ Zeroed(q, Z) \in Seq(Cell) /\ Len(Zeroed(q, Z)) = Len(q)
         /\ DOMAIN Zeroed(q, Z) = DOMAIN q
         /\ \A c \in DOMAIN q : Zeroed(q, Z)[c] = IF c \in Z THEN Zero ELSE q[c]
<1>1. DOMAIN q = 1 .. Len(q) /\ Len(q) \in Nat /\ q \in [1 .. Len(q) -> Cell]
  BY LenProperties
<1>2. Zero \in Cell
  BY DEF Cell
<1>3. Zeroed(q, Z) \in [1 .. Len(q) -> Cell]
  BY <1>1, <1>2 DEF Zeroed
<1>4. Zeroed(q, Z) \in Seq(Cell) /\ Len(Zeroed(q, Z)) = Len(q)
  <2> DEFINE n == Len(q)
             z == Zeroed(q, Z)
  <2>1. n \in Nat /\ z \in [1 .. n -> Cell]
    BY <1>1, <1>3
  <2> HIDE DEF n, z
  <2>2. z \in Seq(Cell) /\ Len(z) = n
    BY <2>1, FunctionIsSeq
  <2> QED
    BY <2>2 DEF n, z
<1> QED
  BY <1>1, <1>3, <1>4 DEF Zeroed

\* Who has to be placed again, what the others of the pending ones keep, and
\* what is given up.
TooSmall(w, s) == {d \in w.sets[s].to_update :
                     Cardinality(w.dsc[d].ext) < Footprint(d, w.dsc[d])}
KeptExt(w, d) == FirstCells(w.dsc[d].ext, Footprint(d, w.dsc[d]))
GivenUp(w, s) ==
  w.sets[s].to_remove \cup {w.dsc[d].ext : d \in TooSmall(w, s)}
    \cup {w.dsc[d].ext \ KeptExt(w, d) : d \in w.sets[s].to_update \ TooSmall(w, s)}
ExtAfter(w, s, d) ==
  IF d \in TooSmall(w, s) THEN {}
  ELSE IF d \in w.sets[s].to_update THEN KeptExt(w, d) ELSE w.dsc[d].ext

DeallocatedWith(w, v, s) ==
  LET S == w.sets[s]
  IN /\ v.in_use = w.in_use /\ v.dirty = w.dirty
     /\ v.dsc = [d \in Dscs |-> [w.dsc[d] EXCEPT !.ext = ExtAfter(w, s, d)]]
     /\ v.sets = [w.sets EXCEPT ![s] =
                    [S EXCEPT !.to_add = @ \cup TooSmall(w, s), !.to_remove = {},
                              !.used = @ \ UNION GivenUp(w, s),
                              !.cells = Zeroed(@, UNION GivenUp(w, s))]]

\* What is kept of a place is some of its first cells.
LEMMA KeptFacts ==
  ASSUME NEW w, Fine(w), NEW s \in Sets, NEW d \in w.sets[s].to_update
  PROVE  /\ d \in Dscs /\ w.dsc[d].owner = s /\ Footprint(d, w.dsc[d]) \in Pos
         /\ w.dsc[d].ext \in SUBSET Nat /\ KeptExt(w, d) \subseteq w.dsc[d].ext
         /\ d \notin TooSmall(w, s) => w.dsc[d].ext # {} /\ KeptExt(w, d) # {}
<1>1. w \in WT /\ GoodDscs(w.dsc) /\ GoodSets(w.dsc, w.sets)
  BY DEF Fine
<1>2. w.dsc \in [Dscs -> DscT] /\ w.sets[s] \in SetT
  BY <1>1, WTFacts
<1>3. d \in Dscs /\ w.dsc[d].owner = s
  BY <1>1, <1>2, SetTFacts DEF GoodSets
<1>4. w.dsc[d] \in DscT /\ w.dsc[d].data \in DataOf(d) /\ w.dsc[d].ext \in SUBSET Nat
  <2>1. s # NoSet
    BY SetsAreFinite
  <2>2. w.dsc[d] \in DscT
    BY <1>2, <1>3
  <2> QED
    BY <1>1, <1>3, <2>1, <2>2, DscTFacts DEF GoodDscs
<1>5. Footprint(d, w.dsc[d]) \in Pos
  <2> DEFINE r == w.dsc[d]
  <2>1. r.data \in DataOf(d)
    BY <1>4
  <2> HIDE DEF r
  <2>2. Footprint(d, r) \in Pos
    BY <1>3, <2>1, FootprintFacts
  <2> QED
    BY <2>2 DEF r
<1>6. KeptExt(w, d) \subseteq w.dsc[d].ext
  BY DEF KeptExt, FirstCells
<1>7. ASSUME d \notin TooSmall(w, s) PROVE w.dsc[d].ext # {} /\ KeptExt(w, d) # {}
  <2>1. w.dsc[d].ext # {}
    <3> SUFFICES ASSUME w.dsc[d].ext = {} PROVE FALSE
      OBVIOUS
    <3>1. Cardinality(w.dsc[d].ext) = 0
      BY FS_EmptySet
    <3>2. Cardinality(w.dsc[d].ext) < Footprint(d, w.dsc[d])
      BY <1>5, <3>1 DEF Pos
    <3> QED
      BY <1>7, <3>2 DEF TooSmall
  <2> DEFINE e == w.dsc[d].ext
             n == Footprint(d, w.dsc[d])
  <2>2. Min(e) \in e
    BY <1>4, <2>1, MinFacts
  <2>3. Min(e) \in Nat /\ n \in Pos
    BY <1>4, <1>5, <2>2
  <2> HIDE DEF e, n
  <2>4. Min(e) < Min(e) + n
    BY <2>3 DEF Pos
  <2>5. Min(e) \in FirstCells(e, n)
    BY <2>2, <2>4 DEF FirstCells
  <2> QED
    BY <2>1, <2>5 DEF KeptExt, e, n
<1> QED
  BY <1>3, <1>4, <1>5, <1>6, <1>7

LEMMA DeallocatedFacts ==
  ASSUME NEW w, Fine(w), NEW s \in Sets
  PROVE  Fine(Deallocated(w, s)) /\ DeallocatedWith(w, Deallocated(w, s), s)
<1> DEFINE v == Deallocated(w, s)
           S == w.sets[s]
           ds == [d \in Dscs |-> [w.dsc[d] EXCEPT !.ext = ExtAfter(w, s, d)]]
           Z == UNION GivenUp(w, s)
           S2 == [S EXCEPT !.to_add = @ \cup TooSmall(w, s), !.to_remove = {},
                           !.used = @ \ Z, !.cells = Zeroed(@, Z)]
<1>1. w \in WT /\ GoodDscs(w.dsc) /\ GoodSets(w.dsc, w.sets) /\ IsFiniteSet(w.in_use)
  BY DEF Fine
<1>2. /\ w.dsc \in [Dscs -> DscT] /\ w.sets \in [Sets -> SetT] /\ S \in SetT
      /\ w.in_use \in SUBSET Pos /\ w.dirty \in SUBSET Pos
  BY <1>1, WTFacts
<1>3. \A d \in Dscs : /\ ExtAfter(w, s, d) \subseteq w.dsc[d].ext
                      /\ w.dsc[d] \in DscT
  BY <1>2, KeptFacts DEF ExtAfter
<1>4. /\ ds \in [Dscs -> DscT]
      /\ \A d \in Dscs : /\ ds[d].owner = w.dsc[d].owner /\ ds[d].data = w.dsc[d].data
                         /\ ds[d].written = w.dsc[d].written
  <2> SUFFICES ASSUME NEW d \in Dscs
               PROVE  /\ ds[d] \in DscT /\ ds[d].owner = w.dsc[d].owner
                      /\ ds[d].data = w.dsc[d].data /\ ds[d].written = w.dsc[d].written
    OBVIOUS
  <2>1. ds[d] = [w.dsc[d] EXCEPT !.ext = ExtAfter(w, s, d)]
    OBVIOUS
  <2>2. w.dsc[d] \in DscT /\ ExtAfter(w, s, d) \in SUBSET Nat
    <3>1. w.dsc[d] \in DscT
      BY <1>3
    <3>2. w.dsc[d].ext \in SUBSET Nat
      BY <3>1, DscTFacts
    <3> QED
      BY <1>3, <3>1, <3>2
  <2> HIDE DEF ds
  <2> QED
    BY <2>1, <2>2 DEF DscT
<1>5. S2 \in SetT
  <2>1. Zeroed(S.cells, Z) \in Seq(Cell)
    <3>1. S.cells \in Seq(Cell)
      BY <1>2, SetTFacts
    <3> QED
      BY <3>1, ZeroedFacts
  <2>2. TooSmall(w, s) \subseteq S.to_update
    BY DEF TooSmall
  <2> HIDE DEF S, Z
  <2> QED
    BY <1>2, <2>1, <2>2 DEF SetT
<1>6. v = [w EXCEPT !.dsc = ds, !.sets[s] = S2]
  <2>1. ASSUME NEW d \in Dscs
        PROVE  ds[d] = IF d \in TooSmall(w, s) THEN [w.dsc[d] EXCEPT !.ext = {}]
                       ELSE IF d \in S.to_update THEN [w.dsc[d] EXCEPT !.ext = KeptExt(w, d)]
                       ELSE w.dsc[d]
    <3>1. [w.dsc[d] EXCEPT !.ext = w.dsc[d].ext] = w.dsc[d]
      <4>1. w.dsc[d] \in DscT
        BY <1>3
      <4> QED
        BY <4>1, DscTFacts
    <3> QED
      BY <3>1 DEF ExtAfter
  <2>2. ds = [d \in Dscs |->
           IF d \in TooSmall(w, s) THEN [w.dsc[d] EXCEPT !.ext = {}]
           ELSE IF d \in S.to_update THEN [w.dsc[d] EXCEPT !.ext = KeptExt(w, d)]
           ELSE w.dsc[d]]
    <3>1. ds = [d \in Dscs |-> ds[d]]
      OBVIOUS
    <3> HIDE DEF ds
    <3> QED
      BY <2>1, <3>1
  <2>3. v = [w EXCEPT !.dsc = [d \in Dscs |->
           IF d \in TooSmall(w, s) THEN [w.dsc[d] EXCEPT !.ext = {}]
           ELSE IF d \in S.to_update THEN [w.dsc[d] EXCEPT !.ext = KeptExt(w, d)]
           ELSE w.dsc[d]], !.sets[s] = S2]
    BY DEF Deallocated, TooSmall, KeptExt, GivenUp
  <2> HIDE DEF v, ds, S2, Z
  <2> QED
    BY <2>2, <2>3
<1>7. v = [dsc |-> ds, sets |-> [w.sets EXCEPT ![s] = S2],
           in_use |-> w.in_use, dirty |-> w.dirty]
  <2> DEFINE u == [w EXCEPT !.dsc = ds]
  <2>1. u = [dsc |-> ds, sets |-> w.sets, in_use |-> w.in_use, dirty |-> w.dirty]
    <3> HIDE DEF ds
    <3> QED
      BY <1>1, WithPart
  <2>2. v = [u EXCEPT !.sets = [u.sets EXCEPT ![s] = S2]]
    BY <1>6
  <2> HIDE DEF v, ds, S2, S, u
  <2> QED
    BY <2>1, <2>2
<1>8. Fine(v)
  <2> DEFINE u == [dsc |-> ds, sets |-> w.sets, in_use |-> w.in_use, dirty |-> w.dirty]
  <2>1. Fine(u)
    <3> HIDE DEF ds
    <3> QED
      BY <1>4, FineWithDscs
  <2>2. u.dsc = ds /\ u.sets = w.sets /\ u.in_use = w.in_use /\ u.dirty = w.dirty
    OBVIOUS
  <2>3. /\ S2.to_add = S.to_add \cup TooSmall(w, s) /\ S2.to_update = S.to_update
        /\ S2.to_destroy = S.to_destroy
    <3> HIDE DEF S, Z
    <3> QED
      BY <1>2, SetTFacts
  <2>4. /\ S.to_add \cup S.to_update \cup S.to_destroy \subseteq Dscs
        /\ TooSmall(w, s) \subseteq S.to_update
    BY <1>2, SetTFacts DEF TooSmall
  <2>5. /\ \A d \in S.to_add \cup S.to_update : w.dsc[d].owner = s
        /\ \A d \in S.to_destroy : IsErased(w.dsc, d)
    BY <1>1 DEF GoodSets
  <2> HIDE DEF u, S2, ds, S
  <2>6. /\ \A d \in S2.to_add \cup S2.to_update : u.dsc[d].owner = s
        /\ \A d \in S2.to_destroy : IsErased(u.dsc, d)
    BY <1>4, <2>2, <2>3, <2>4, <2>5 DEF IsErased
  <2>7. Fine([dsc |-> u.dsc, sets |-> [u.sets EXCEPT ![s] = S2],
              in_use |-> w.in_use, dirty |-> w.dirty])
    BY <1>1, <1>2, <1>5, <2>1, <2>6, FineWithSet
  <2> QED
    BY <1>7, <2>2, <2>7
<1>9. DeallocatedWith(w, v, s)
  <2> HIDE DEF v
  <2> QED
    BY <1>7 DEF DeallocatedWith
<1> QED
  BY <1>8, <1>9

\* Who is above d is d and who is above its direct one.
LEMMA AboveUnfold ==
  ASSUME NEW up \in Ups, NEW d \in Dscs
  PROVE  /\ up[d] = NoSet => Above(up, d) = {d}
         /\ up[d] # NoSet => up[d] \in Dscs /\ Above(up, d) = {d} \cup Above(up, up[d])
<1>1. CASE up[d] = NoSet
  <2>1. Above(up, d) \subseteq {d}
    BY <1>1, AboveLeast
  <2> QED
    BY <1>1, <2>1, AboveFacts
<1>2. CASE up[d] # NoSet
  <2>1. up[d] \in Sets /\ up[d] \in Dscs
    BY <1>2, SetsAreFinite DEF Ups
  <2> DEFINE u == up[d]
             S == {d} \cup Above(up, u)
  <2>2. u \in Dscs /\ u # NoSet /\ u = up[d]
    BY <1>2, <2>1
  <2>3. u \in Above(up, u) /\ \A x \in Above(up, u) : up[x] # NoSet => up[x] \in Above(up, u)
    BY <2>2, AboveFacts
  <2>4. Above(up, d) \subseteq S
    <3>1. \A x \in Dscs : x \in S /\ up[x] # NoSet => up[x] \in S
      BY <2>2, <2>3
    <3> HIDE DEF u
    <3>2. d \in S
      OBVIOUS
    <3> HIDE DEF S
    <3> QED
      BY <3>1, <3>2, AboveLeast
  <2>5. d \in Above(up, d) /\ u \in Above(up, d)
    BY <1>2, AboveFacts
  <2>6. Above(up, u) \subseteq Above(up, d)
    <3>1. \A x \in Dscs : x \in Above(up, d) /\ up[x] # NoSet => up[x] \in Above(up, d)
      BY AboveFacts
    <3> HIDE DEF u
    <3> QED
      BY <2>2, <2>5, <3>1, AboveLeast
  <2> QED
    BY <1>2, <2>2, <2>4, <2>5, <2>6
<1> QED
  BY <1>1, <1>2

LEMMA OwnersAreUps ==
  ASSUME NEW ds \in [Dscs -> DscT]
  PROVE  Owners(ds) \in Ups /\ \A d \in Dscs : Owners(ds)[d] = ds[d].owner
<1>1. \A d \in Dscs : ds[d].owner \in Sets \cup {NoSet}
  BY DscTFacts
<1> QED
  BY <1>1 DEF Owners, Ups

LEMMA HolderFacts ==
  ASSUME NEW ds \in [Dscs -> DscT], NEW ss, NEW d \in Dscs
  PROVE  /\ Holder(ds, ss, d) \in Sets \cup {NoSet}
         /\ ds[d].owner # NoSet => Holder(ds, ss, d) = ds[d].owner
         /\ ds[d].owner = NoSet /\ Holder(ds, ss, d) # NoSet
              => d \in ss[Holder(ds, ss, d)].to_destroy
         /\ \A t \in Sets : d \in ss[t].to_destroy => Holder(ds, ss, d) # NoSet
         /\ Holder(ds, ss, d) = NoSet
              <=> ds[d].owner = NoSet /\ \A t \in Sets : d \notin ss[t].to_destroy
<1> DEFINE H == {s \in Sets : d \in ss[s].to_destroy}
<1>1. Holder(ds, ss, d) = IF ds[d].owner # NoSet THEN ds[d].owner
                          ELSE IF H = {} THEN NoSet ELSE CHOOSE s \in H : TRUE
  BY DEF Holder
<1>2. ds[d].owner \in Sets \cup {NoSet}
  BY DscTFacts
<1>3. H # {} => (CHOOSE s \in H : TRUE) \in H
  OBVIOUS
<1>4. \A t \in Sets : t # NoSet
  BY SetsAreFinite
<1> QED
  BY <1>1, <1>2, <1>3, <1>4

LEMMA HoldersAreUps ==
  ASSUME NEW ds \in [Dscs -> DscT], NEW ss
  PROVE  Holders(ds, ss) \in Ups /\ \A d \in Dscs : Holders(ds, ss)[d] = Holder(ds, ss, d)
<1>1. \A d \in Dscs : Holder(ds, ss, d) \in Sets \cup {NoSet}
  BY HolderFacts
<1> QED
  BY <1>1 DEF Holders, Ups

\* Who is destroyed with the sync of s, and the blocks it had.
Gone(w, s) == {d \in Dscs : Above(Holders(w.dsc, w.sets), d) \cap w.sets[s].to_destroy # {}}
Below(w, s) == {t \in Sets : Above(Owners(w.dsc), t) \cap w.sets[s].to_destroy # {}}
Freed(w, s) ==
  BlksOf(w.sets, Below(w, s))
    \cup UNION {w.dsc[d].content :
                  d \in {d \in Plain : \/ d \in w.sets[s].to_destroy
                                       \/ Holder(w.dsc, w.sets, d) \in Below(w, s)}}

LEMMA GoneFacts ==
  ASSUME NEW w \in WT, NEW s \in Sets, NEW d \in Dscs
  PROVE  /\ d \in w.sets[s].to_destroy => d \in Gone(w, s)
         /\ Holder(w.dsc, w.sets, d) \in Gone(w, s) => d \in Gone(w, s)
         /\ d \in Gone(w, s) => \/ d \in w.sets[s].to_destroy
                                \/ Holder(w.dsc, w.sets, d) \in Gone(w, s)
<1> DEFINE up == Holders(w.dsc, w.sets)
           h == Holder(w.dsc, w.sets, d)
<1>1. up \in Ups /\ up[d] = h /\ h \in Sets \cup {NoSet}
  <2>1. w.dsc \in [Dscs -> DscT]
    BY WTFacts
  <2> QED
    BY <2>1, HoldersAreUps, HolderFacts
<1>2. \A x \in Dscs : x \in Gone(w, s) <=> Above(up, x) \cap w.sets[s].to_destroy # {}
  BY DEF Gone
<1> HIDE DEF up, h
<1>3. /\ h = NoSet => Above(up, d) = {d}
      /\ h # NoSet => h \in Dscs /\ Above(up, d) = {d} \cup Above(up, h)
  BY <1>1, AboveUnfold
<1>4. h \in Gone(w, s) => h # NoSet
  BY SetsAreFinite DEF Gone
<1>5. /\ d \in w.sets[s].to_destroy => d \in Gone(w, s)
      /\ h \in Gone(w, s) => d \in Gone(w, s)
      /\ d \in Gone(w, s) => d \in w.sets[s].to_destroy \/ h \in Gone(w, s)
  BY <1>2, <1>3, <1>4
<1> QED
  BY <1>5 DEF h

LEMMA RecordParts ==
  ASSUME NEW a, NEW b, NEW c, NEW e, NEW x, NEW r,
         r = [dsc |-> a, sets |-> b, in_use |-> c, dirty |-> e]
  PROVE  /\ [r EXCEPT !.dsc = x] = [dsc |-> x, sets |-> b, in_use |-> c, dirty |-> e]
         /\ [r EXCEPT !.sets = x] = [dsc |-> a, sets |-> x, in_use |-> c, dirty |-> e]
         /\ [r EXCEPT !.in_use = x] = [dsc |-> a, sets |-> b, in_use |-> x, dirty |-> e]
         /\ [r EXCEPT !.dirty = x] = [dsc |-> a, sets |-> b, in_use |-> c, dirty |-> x]
OBVIOUS

LEMMA GivenBackFacts ==
  ASSUME NEW w \in WT, NEW B
  PROVE  GivenBack(w, B) = [dsc |-> w.dsc, sets |-> w.sets,
                            in_use |-> w.in_use \ B, dirty |-> w.dirty \cup B]
<1> DEFINE r == [w EXCEPT !.in_use = @ \ B]
<1>1. r = [dsc |-> w.dsc, sets |-> w.sets, in_use |-> w.in_use \ B, dirty |-> w.dirty]
  BY WithPart
<1>2. r.dirty = w.dirty
  <2> HIDE DEF r
  <2> QED
    BY <1>1
<1>3. [r EXCEPT !.dirty = w.dirty \cup B] = [dsc |-> w.dsc, sets |-> w.sets,
                                            in_use |-> w.in_use \ B, dirty |-> w.dirty \cup B]
  <2>1. PICK x, c : x = w.dirty \cup B /\ c = w.in_use \ B
    OBVIOUS
  <2>2. r = [dsc |-> w.dsc, sets |-> w.sets, in_use |-> c, dirty |-> w.dirty]
    BY <1>1, <2>1
  <2> HIDE DEF r
  <2>3. [r EXCEPT !.dirty = x] = [dsc |-> w.dsc, sets |-> w.sets, in_use |-> c, dirty |-> x]
    BY ONLY <2>2, RecordParts
  <2> QED
    BY ONLY <2>1, <2>3
<1> QED
  BY <1>2, <1>3 DEF GivenBack

DestroyedWith(w, v, s) ==
  /\ v.dsc = [d \in Dscs |-> IF d \in Gone(w, s) THEN Absent ELSE w.dsc[d]]
  /\ v.sets = [t \in Sets |-> IF t \in Gone(w, s) THEN EmptySet
                              ELSE IF t = s THEN [w.sets[t] EXCEPT !.to_destroy = {}]
                              ELSE w.sets[t]]
  /\ v.in_use = w.in_use \ Freed(w, s) /\ v.dirty = w.dirty \cup Freed(w, s)

LEMMA EmptyTypes == Absent \in DscT /\ EmptySet \in SetT
<1>1. <<>> \in Seq(Pos) /\ <<>> \in Seq(Cell)
  BY EmptySeq
<1>2. EmptyBag \in Sums
  BY DEF EmptyBag, SetToBag, Sums
<1> QED
  BY <1>1, <1>2 DEF Absent, EmptySet, DscT, SetT

LEMMA DestroyedFacts ==
  ASSUME NEW w, Fine(w), NEW s \in Sets
  PROVE  Fine(Destroyed(w, s)) /\ DestroyedWith(w, Destroyed(w, s), s)
<1> DEFINE v == Destroyed(w, s)
           gone == Gone(w, s)
           freed == Freed(w, s)
           ds == [d \in Dscs |-> IF d \in gone THEN Absent ELSE w.dsc[d]]
           ss == [t \in Sets |-> IF t \in gone THEN EmptySet
                                 ELSE IF t = s THEN [w.sets[t] EXCEPT !.to_destroy = {}]
                                 ELSE w.sets[t]]
<1>1. w \in WT /\ GoodDscs(w.dsc) /\ GoodSets(w.dsc, w.sets) /\ IsFiniteSet(w.in_use)
  BY DEF Fine
<1>2. /\ w.dsc \in [Dscs -> DscT] /\ w.sets \in [Sets -> SetT]
      /\ w.in_use \in SUBSET Pos /\ w.dirty \in SUBSET Pos
  BY <1>1, WTFacts
<1>3. v = [GivenBack(w, freed) EXCEPT !.dsc = ds, !.sets = ss]
  BY DEF Destroyed, Gone, Freed, Below
<1>4. GivenBack(w, freed) = [dsc |-> w.dsc, sets |-> w.sets,
                             in_use |-> w.in_use \ freed, dirty |-> w.dirty \cup freed]
  BY <1>1, GivenBackFacts
<1>5. v = [dsc |-> ds, sets |-> ss,
           in_use |-> w.in_use \ freed, dirty |-> w.dirty \cup freed]
  <2> HIDE DEF v, ds, ss, freed
  <2> DEFINE g == GivenBack(w, freed)
             h == [g EXCEPT !.dsc = ds]
  <2>1. v = [h EXCEPT !.sets = ss]
    BY <1>3
  <2> HIDE DEF g
  <2>2. h = [dsc |-> ds, sets |-> w.sets,
             in_use |-> w.in_use \ freed, dirty |-> w.dirty \cup freed]
    BY <1>4, RecordParts DEF g
  <2> HIDE DEF h
  <2> QED
    BY <2>1, <2>2, RecordParts
<1>6. freed \subseteq Pos
  <2>1. \A t \in Sets : ToSet(w.sets[t].segm) \subseteq Pos
    <3> SUFFICES ASSUME NEW t \in Sets PROVE ToSet(w.sets[t].segm) \subseteq Pos
      OBVIOUS
    <3>1. w.sets[t].segm \in Seq(Pos)
      BY <1>2, SetTFacts
    <3> QED
      BY <3>1, ToSetFacts
  <2>2. BlksOf(w.sets, Below(w, s)) \subseteq Pos
    BY <2>1 DEF BlksOf, Below
  <2>3. \A d \in Plain : w.dsc[d].content \subseteq Pos
    BY <1>2, DscTFacts, SetsAreFinite
  <2> QED
    BY <2>2, <2>3 DEF Freed
<1>7. /\ ds \in [Dscs -> DscT]
      /\ \A d \in Dscs : ds[d] = IF d \in gone THEN Absent ELSE w.dsc[d]
  <2> HIDE DEF gone
  <2> QED
    BY <1>2, EmptyTypes
<1>8. /\ ss \in [Sets -> SetT]
      /\ \A t \in Sets : ss[t] = IF t \in gone THEN EmptySet
                                 ELSE IF t = s THEN [w.sets[t] EXCEPT !.to_destroy = {}]
                                 ELSE w.sets[t]
  <2>1. ASSUME NEW t \in Sets PROVE [w.sets[t] EXCEPT !.to_destroy = {}] \in SetT
    <3>1. w.sets[t] \in SetT
      BY <1>2
    <3> QED
      BY <3>1 DEF SetT
  <2> HIDE DEF gone
  <2> QED
    BY <1>2, <2>1, EmptyTypes
<1>9. v \in WT
  <2>1. w.in_use \ freed \in SUBSET Pos /\ w.dirty \cup freed \in SUBSET Pos
    BY <1>2, <1>6
  <2> HIDE DEF ds, ss, freed, v
  <2> QED
    BY <1>5, <1>7, <1>8, <2>1 DEF WT
<1>10. v.dsc = ds /\ v.sets = ss /\ v.in_use = w.in_use \ freed /\ v.dirty = w.dirty \cup freed
  <2> HIDE DEF ds, ss, freed, v
  <2> QED
    BY <1>5
<1>11. DestroyedWith(w, v, s)
  <2> HIDE DEF v
  <2> QED
    BY <1>10 DEF DestroyedWith
<1> HIDE DEF v, ds, ss, freed, gone
<1>12. IsFiniteSet(v.in_use)
  BY <1>1, <1>10, FS_Difference
<1>13. GoodDscs(v.dsc)
  <2>1. Absent.owner = NoSet /\ Absent.written = {}
    BY DEF Absent
  <2> QED
    BY <1>1, <1>7, <1>10, <2>1 DEF GoodDscs
<1>14. GoodSets(v.dsc, v.sets)
  <2>1. /\ EmptySet.to_add = {} /\ EmptySet.to_update = {} /\ EmptySet.to_destroy = {}
        /\ Absent.owner = NoSet
    BY DEF EmptySet, Absent
  <2>2. ASSUME NEW t \in Sets, t \notin gone
        PROVE  /\ ss[t].to_add = w.sets[t].to_add /\ ss[t].to_update = w.sets[t].to_update
               /\ ss[t].to_destroy \subseteq w.sets[t].to_destroy
    <3>1. w.sets[t] \in SetT
      BY <1>2
    <3>2. ss[t] \in {[w.sets[t] EXCEPT !.to_destroy = {}], w.sets[t]}
      BY <1>8, <2>2
    <3>3. /\ [w.sets[t] EXCEPT !.to_destroy = {}].to_add = w.sets[t].to_add
          /\ [w.sets[t] EXCEPT !.to_destroy = {}].to_update = w.sets[t].to_update
          /\ [w.sets[t] EXCEPT !.to_destroy = {}].to_destroy = {}
      BY <3>1 DEF SetT
    <3> QED
      BY <3>2, <3>3
  <2>3. ASSUME NEW t \in Sets, t \notin gone, NEW d \in w.sets[t].to_add \cup w.sets[t].to_update
        PROVE  ds[d].owner = t
    <3>1. w.dsc[d].owner = t /\ d \in Dscs /\ t # NoSet
      <4>1. w.sets[t] \in SetT
        BY <1>2
      <4> QED
        BY <1>1, <4>1, SetTFacts, SetsAreFinite DEF GoodSets
    <3>2. Holder(w.dsc, w.sets, d) = t
      BY <1>2, <3>1, HolderFacts
    <3>3. d \notin w.sets[s].to_destroy
      BY <1>1, <3>1 DEF GoodSets, IsErased
    <3>4. d \notin gone
      BY <1>1, <2>3, <3>1, <3>2, <3>3, GoneFacts DEF gone
    <3> QED
      BY <1>7, <3>1, <3>4
  <2>4. ASSUME NEW t \in Sets, t \notin gone, NEW d \in w.sets[t].to_destroy
        PROVE  IsErased(ds, d)
    <3>1. IsErased(w.dsc, d) /\ d \in Dscs
      <4>1. w.sets[t] \in SetT
        BY <1>2
      <4> QED
        BY <1>1, <4>1, SetTFacts DEF GoodSets
    <3> QED
      BY <1>7, <2>1, <3>1 DEF IsErased
  <2> SUFFICES ASSUME NEW t \in Sets
               PROVE  /\ \A d \in ss[t].to_add \cup ss[t].to_update : ds[d].owner = t
                      /\ \A d \in ss[t].to_destroy : IsErased(ds, d)
    BY <1>10 DEF GoodSets
  <2>5. CASE t \in gone
    BY <1>8, <2>1, <2>5
  <2>6. CASE t \notin gone
    BY <2>2, <2>3, <2>4, <2>6
  <2> QED
    BY <2>5, <2>6
<1> QED
  BY <1>9, <1>11, <1>12, <1>13, <1>14 DEF Fine, v

\* There is one at the top.
LEMMA OneTop ==
  ASSUME NEW up \in Ups, NEW d \in Dscs, NEW e \in Above(up, d), NEW f \in Above(up, d),
         up[e] = NoSet, up[f] = NoSet
  PROVE  e = f
<1> DEFINE S == {y \in Dscs : e \in Above(up, y)}
<1>1. e \in Dscs /\ f \in Dscs
  BY AboveFacts, SetsAreFinite
<1>2. \A y \in Dscs : y \in S /\ up[y] # NoSet => up[y] \in S
  <2> SUFFICES ASSUME NEW y \in Dscs, e \in Above(up, y), up[y] # NoSet
               PROVE  up[y] \in Dscs /\ e \in Above(up, up[y])
    OBVIOUS
  <2>1. up[y] \in Dscs /\ Above(up, y) = {y} \cup Above(up, up[y])
    BY AboveUnfold
  <2> QED
    BY <2>1
<1>3. d \in S
  OBVIOUS
<1>4. Above(up, d) \subseteq S
  <2> HIDE DEF S
  <2> QED
    BY <1>2, <1>3, AboveLeast
<1>5. e \in Above(up, f)
  BY <1>4
<1>6. Above(up, f) = {f}
  BY <1>1, AboveUnfold
<1> QED
  BY <1>5, <1>6

\* d is owned, by who is owned and so on up to the root.
Rooted(ds, d) == Root \in Above(Owners(ds), d)

LEMMA RootedFacts ==
  ASSUME NEW ds \in [Dscs -> DscT], GoodDscs(ds), NEW d \in Dscs
  PROVE  /\ Rooted(ds, d) /\ d # Root
              => ds[d].owner \in Sets /\ ds[d].owner # NoSet /\ Rooted(ds, ds[d].owner)
         /\ ds[d].owner \in Sets /\ Rooted(ds, ds[d].owner) => Rooted(ds, d)
         /\ Rooted(ds, Root) /\ ds[Root].owner = NoSet
         /\ Rooted(ds, d) => \A x \in Above(Owners(ds), d) : Rooted(ds, x) /\ x \in Dscs
<1> DEFINE up == Owners(ds)
<1>1. up \in Ups /\ \A x \in Dscs : up[x] = ds[x].owner
  BY OwnersAreUps
<1>2. \A x \in Dscs : ds[x].owner \in Sets \cup {NoSet}
  BY DscTFacts
<1>3. \A x \in Sets : x # NoSet /\ x \in Dscs
  BY SetsAreFinite
<1>4. Root \in Dscs
  BY SetsAreFinite
<1>5. ds[Root].owner = NoSet
  BY <1>4 DEF GoodDscs
<1>6. \A x : Rooted(ds, x) <=> Root \in Above(up, x)
  BY DEF Rooted
<1> HIDE DEF up
<1>7. Rooted(ds, Root)
  BY <1>1, <1>4, <1>6, AboveFacts
<1>8. ASSUME NEW x \in Dscs, Rooted(ds, x), x # Root
      PROVE  ds[x].owner \in Sets /\ ds[x].owner # NoSet /\ Rooted(ds, ds[x].owner)
  <2>1. up[x] # NoSet
    BY <1>1, <1>6, <1>8, AboveUnfold
  <2>2. Above(up, x) = {x} \cup Above(up, up[x])
    BY <1>1, <2>1, AboveUnfold
  <2> QED
    BY <1>1, <1>2, <1>6, <1>8, <2>1, <2>2
<1>9. ASSUME ds[d].owner \in Sets, Rooted(ds, ds[d].owner) PROVE Rooted(ds, d)
  <2>1. up[d] # NoSet
    BY <1>1, <1>3, <1>9
  <2>2. Above(up, d) = {d} \cup Above(up, up[d])
    BY <1>1, <2>1, AboveUnfold
  <2> QED
    BY <1>1, <1>6, <1>9, <2>2
<1>10. ASSUME Rooted(ds, d) PROVE \A x \in Above(up, d) : Rooted(ds, x) /\ x \in Dscs
  <2> DEFINE S == {x \in Dscs : Rooted(ds, x)}
  <2>1. \A x \in Dscs : x \in S /\ up[x] # NoSet => up[x] \in S
    <3> SUFFICES ASSUME NEW x \in Dscs, Rooted(ds, x), up[x] # NoSet
                 PROVE  up[x] \in Dscs /\ Rooted(ds, up[x])
      OBVIOUS
    <3>1. x # Root
      BY <1>1, <1>4, <1>5
    <3> QED
      BY <1>1, <1>3, <1>8, <3>1
  <2>2. d \in S
    BY <1>10
  <2>3. Above(up, d) \subseteq S
    <3> HIDE DEF S
    <3> QED
      BY <1>1, <2>1, <2>2, AboveLeast
  <2> QED
    BY <2>3
<1> QED
  BY <1>5, <1>7, <1>8, <1>9, <1>10 DEF up

\* Who is in the tree stays there while the owners of the tree do not change.
LEMMA RootedKept ==
  ASSUME NEW ds \in [Dscs -> DscT], NEW es \in [Dscs -> DscT], GoodDscs(ds),
         \A x \in Dscs : Rooted(ds, x) => es[x].owner = ds[x].owner,
         NEW d \in Dscs, Rooted(ds, d)
  PROVE  Rooted(es, d)
<1> DEFINE up == Owners(ds)
           T == {y \in Dscs : Rooted(ds, y) => Rooted(es, d) \/ y \in Above(Owners(es), d)}
<1>1. Owners(es) \in Ups /\ \A x \in Dscs : Owners(es)[x] = es[x].owner
  BY OwnersAreUps
<1>2. up \in Ups /\ \A x \in Dscs : up[x] = ds[x].owner
  BY OwnersAreUps
<1>3. \A x \in Dscs : x \in T /\ up[x] # NoSet => up[x] \in T
  <2> SUFFICES ASSUME NEW x \in Dscs, x \in T, up[x] # NoSet, Rooted(ds, up[x]), ~ Rooted(es, d)
               PROVE  up[x] \in Dscs /\ up[x] \in Above(Owners(es), d)
    BY <1>2, SetsAreFinite DEF Ups
  <2>1. up[x] \in Sets
    BY <1>2 DEF Ups
  <2>2. Rooted(ds, x)
    BY <1>2, <2>1, RootedFacts
  <2>3. x \in Above(Owners(es), d)
    BY <2>2
  <2>4. es[x].owner = up[x]
    BY <1>2, <2>2
  <2> QED
    BY <1>1, <2>1, <2>3, <2>4, AboveFacts, SetsAreFinite
<1>4. d \in T
  BY <1>1, AboveFacts
<1>5. Above(up, d) \subseteq T
  <2> HIDE DEF T, up
  <2> QED
    BY <1>2, <1>3, <1>4, AboveLeast
<1>6. Root \in T /\ Rooted(ds, Root)
  BY <1>5, SetsAreFinite, RootedFacts DEF Rooted
<1> QED
  BY <1>6 DEF Rooted

\* Nobody of the tree is destroyed, and it stays in the tree.
LEMMA RootedIsNotGone ==
  ASSUME NEW w, Fine(w), NEW s \in Sets, NEW d \in Dscs, Rooted(w.dsc, d)
  PROVE  d \notin Gone(w, s) /\ Rooted(Destroyed(w, s).dsc, d)
<1> DEFINE up == Owners(w.dsc)
           hup == Holders(w.dsc, w.sets)
           ds == Destroyed(w, s).dsc
           S == {x \in Dscs : Rooted(w.dsc, x)}
<1>1. /\ w \in WT /\ w.dsc \in [Dscs -> DscT] /\ w.sets \in [Sets -> SetT]
      /\ GoodDscs(w.dsc) /\ GoodSets(w.dsc, w.sets)
  BY WTFacts DEF Fine
<1>2. hup \in Ups /\ \A x \in Dscs : hup[x] = Holder(w.dsc, w.sets, x)
  BY <1>1, HoldersAreUps
<1>3. ASSUME NEW x \in S PROVE x \notin w.sets[s].to_destroy
  <2>1. x = Root \/ w.dsc[x].owner # NoSet
    BY <1>1, <1>3, RootedFacts
  <2> QED
    BY <1>1, <2>1 DEF GoodSets, IsErased
<1>4. ASSUME NEW x \in S, hup[x] # NoSet PROVE hup[x] \in S
  <2>1. x # Root
    <3> SUFFICES ASSUME x = Root PROVE FALSE
      OBVIOUS
    <3>1. w.dsc[Root].owner = NoSet
      BY <1>1, <1>4, RootedFacts
    <3>2. \A t \in Sets : Root \notin w.sets[t].to_destroy
      BY <1>1 DEF GoodSets, IsErased
    <3>3. Holder(w.dsc, w.sets, Root) = NoSet
      BY <1>1, <3>1, <3>2, SetsAreFinite, HolderFacts
    <3> QED
      BY <1>2, <1>4, <3>3, SetsAreFinite
  <2>2. /\ w.dsc[x].owner \in Sets /\ w.dsc[x].owner # NoSet
        /\ Rooted(w.dsc, w.dsc[x].owner)
    BY <1>1, <1>4, <2>1, RootedFacts
  <2>3. hup[x] = w.dsc[x].owner
    BY <1>1, <1>2, <2>2, HolderFacts
  <2> QED
    BY <2>2, <2>3, SetsAreFinite
<1>5. ASSUME NEW x \in S PROVE x \notin Gone(w, s)
  <2>1. Above(hup, x) \subseteq S
    <3>1. \A y \in Dscs : y \in S /\ hup[y] # NoSet => hup[y] \in S
      BY <1>4
    <3> HIDE DEF S, hup
    <3> QED
      BY <1>2, <1>5, <3>1, AboveLeast DEF S
  <2> QED
    BY <1>3, <2>1 DEF Gone
<1>6. /\ ds = [x \in Dscs |-> IF x \in Gone(w, s) THEN Absent ELSE w.dsc[x]]
      /\ ds \in [Dscs -> DscT] /\ GoodDscs(ds)
  BY DestroyedFacts, WTFacts DEF Fine, DestroyedWith
<1>7. \A x \in Dscs : Rooted(w.dsc, x) => ds[x].owner = w.dsc[x].owner
  BY <1>5, <1>6
<1>8. Rooted(ds, d)
  <2> HIDE DEF ds
  <2> QED
    BY <1>1, <1>6, <1>7, RootedKept
<1> QED
  BY <1>5, <1>8

\* d is placed from lo on, where nobody is.
PlacedAt(w, v, s, d, lo, new, more) ==
  LET S == w.sets[s]
      n == Footprint(d, w.dsc[d])
      ext == lo .. lo + n - 1
      past == IF S.past < lo + n - 1 THEN lo + n - 1 ELSE S.past
  IN /\ lo \in Pos /\ n \in Pos
     /\ S.used \subseteq 1 .. S.past => ext \cap S.used = {}
     /\ new \in Seq(Pos) /\ IsInjective(new) /\ ToSet(new) \cap w.in_use = {}
     /\ Len(new) = Max({0, BlksFor(past) - Len(S.segm)})
     /\ more \in Seq({Old, Zero}) /\ Len(more) = Len(new) * CellsPerBlk
     /\ v.dsc = [w.dsc EXCEPT ![d] = [@ EXCEPT !.ext = ext]]
     /\ v.dirty = w.dirty /\ v.in_use = w.in_use \cup ToSet(new)
     /\ v.sets = [w.sets EXCEPT ![s] = [S EXCEPT !.past = past, !.segm = @ \o new,
                                                 !.cells = @ \o more, !.used = @ \cup ext]]

LEMMA PlacedFacts ==
  ASSUME NEW w, Fine(w), NEW s \in Sets, NEW d \in Dscs, w.dsc[d].data \in DataOf(d)
  PROVE  /\ Fine(Placed(w, s, d))
         /\ \E lo, new, more : PlacedAt(w, Placed(w, s, d), s, d, lo, new, more)
<1> DEFINE S == w.sets[s]
           n == Footprint(d, w.dsc[d])
           gaps == {c \in 1 .. S.past : c .. c + n - 1 \subseteq (1 .. S.past) \ S.used}
           ext0 == IF gaps # {} THEN Min(gaps) .. Min(gaps) + n - 1 ELSE S.past + 1 .. S.past + n
           lo == IF gaps # {} THEN Min(gaps) ELSE S.past + 1
           ext == lo .. lo + n - 1
           past == IF S.past < lo + n - 1 THEN lo + n - 1 ELSE S.past
           v == Placed(w, s, d)
<1>1. w \in WT /\ GoodDscs(w.dsc) /\ GoodSets(w.dsc, w.sets) /\ IsFiniteSet(w.in_use)
  BY DEF Fine
<1>2. /\ w.dsc \in [Dscs -> DscT] /\ w.sets \in [Sets -> SetT] /\ S \in SetT
      /\ w.in_use \in SUBSET Pos /\ w.dirty \in SUBSET Pos
  BY <1>1, WTFacts
<1>3. S.past \in Nat /\ S.used \in SUBSET Nat
  BY <1>2, SetTFacts
<1>4. n \in Pos
  <2> DEFINE r == w.dsc[d]
  <2>1. r.data \in DataOf(d)
    OBVIOUS
  <2> HIDE DEF r
  <2>2. Footprint(d, r) \in Pos
    BY <2>1, FootprintFacts
  <2> QED
    BY <2>2 DEF r
<1>5. PICK p \in Nat : p = S.past
  BY <1>3
<1>6. PICK m \in Nat : m = n /\ m > 0
  BY <1>4 DEF Pos
<1>7. /\ lo \in Pos /\ ext0 = ext
      /\ S.used \subseteq 1 .. S.past => ext \cap S.used = {}
      /\ gaps # {} => lo + n - 1 <= S.past
      /\ gaps = {} => lo = S.past + 1
  <2>1. CASE gaps # {}
    <3>1. gaps \in SUBSET Nat
      OBVIOUS
    <3>2. Min(gaps) \in gaps
      <4> HIDE DEF gaps
      <4> QED
        BY <2>1, <3>1, MinFacts
    <3>3. PICK k \in 1 .. p : k = Min(gaps) /\ k .. k + m - 1 \subseteq (1 .. p) \ S.used
      BY <1>5, <1>6, <3>2
    <3>4. k + m - 1 \in k .. k + m - 1
      BY <1>6
    <3>5. k + m - 1 <= p /\ k \in Pos
      BY <3>3, <3>4 DEF Pos
    <3> HIDE DEF gaps
    <3> QED
      BY <1>5, <1>6, <2>1, <3>3, <3>5
  <2>2. CASE gaps = {}
    <3>1. lo = p + 1 /\ ext0 = p + 1 .. p + m /\ ext = p + 1 .. (p + 1) + m - 1
      BY <1>5, <1>6, <2>2
    <3>2. p + 1 \in Pos /\ (p + 1) + m - 1 = p + m
      BY DEF Pos
    <3>3. \A c \in p + 1 .. p + m : c \notin 1 .. p
      OBVIOUS
    <3> HIDE DEF gaps, lo, ext0, ext
    <3> QED
      BY <1>5, <1>6, <2>2, <3>1, <3>2, <3>3
  <2> QED
    BY <2>1, <2>2
<1> HIDE DEF lo, ext0, gaps
<1>8. lo \in Nat /\ ext \in SUBSET Nat /\ past \in Nat
  BY <1>5, <1>6, <1>7 DEF Pos
<1>9. Max({S.past} \cup ext0) = past
  <2> DEFINE U == {S.past} \cup ext
  <2>1. U \in SUBSET Nat /\ IsFiniteSet(U)
    <3>1. lo + n - 1 \in Nat
      BY <1>6, <1>7 DEF Pos
    <3>2. IsFiniteSet(lo .. lo + n - 1)
      BY <1>8, <3>1, FS_Interval
    <3>3. IsFiniteSet(U)
      <4>1. IsFiniteSet(ext)
        BY <3>2
      <4> HIDE DEF ext
      <4>2. IsFiniteSet(ext \cup {S.past})
        BY <4>1, FS_AddElement
      <4>3. U = ext \cup {S.past}
        OBVIOUS
      <4> QED
        BY <4>2, <4>3
    <3> QED
      BY <1>3, <1>8, <3>3
  <2>2. Max(U) \in U /\ \A y \in U : y <= Max(U)
    <3> HIDE DEF U
    <3>1. U # {}
      BY DEF U
    <3> QED
      BY <2>1, <3>1, MaxFacts
  <2>3. past \in U
    <3>1. lo + n - 1 \in ext
      BY <1>6, <1>7 DEF Pos
    <3> QED
      BY <3>1
  <2>4. \A y \in U : y <= past
    <3> SUFFICES ASSUME NEW y \in U PROVE y <= past
      OBVIOUS
    <3>1. PICK l \in Nat : l = lo
      BY <1>8
    <3>2. y = p \/ y \in l .. l + m - 1
      BY <1>5, <1>6, <3>1
    <3>3. past = IF p < l + m - 1 THEN l + m - 1 ELSE p
      BY <1>5, <1>6, <3>1
    <3> HIDE DEF past
    <3> QED
      BY <3>2, <3>3
  <2>5. Max(U) \in Nat
    BY <2>1, <2>2
  <2>6. Max(U) <= past /\ past <= Max(U)
    BY <2>2, <2>3, <2>4
  <2>7. Max(U) = past
    <3> HIDE DEF U, past
    <3> QED
      BY <1>8, <2>5, <2>6
  <2> QED
    BY <1>7, <2>7
<1> DEFINE g == Grown(w, s, past)
<1>10. v = [g EXCEPT !.dsc[d].ext = ext0, !.sets[s].used = @ \cup ext0]
  BY <1>9 DEF Placed, ext0, gaps, lo
<1> HIDE DEF past
<1>11. Fine(g)
  BY <1>8, GrownFacts
<1>12. PICK new, more : GrownWith(w, g, s, past, new, more)
  BY <1>8, GrownFacts
<1> DEFINE S1 == [S EXCEPT !.past = past, !.segm = @ \o new, !.cells = @ \o more]
           S2 == [S EXCEPT !.past = past, !.segm = @ \o new, !.cells = @ \o more,
                           !.used = @ \cup ext]
           r2 == [w.dsc[d] EXCEPT !.ext = ext]
           ds == [w.dsc EXCEPT ![d] = r2]
<1>13. /\ g \in WT /\ g.dsc = w.dsc /\ g.dirty = w.dirty /\ g.in_use = w.in_use \cup ToSet(new)
       /\ g.sets = [w.sets EXCEPT ![s] = S1] /\ g.sets[s] = S1
  BY <1>2, <1>11, <1>12 DEF GrownWith, Fine
<1>14. S1 \in SetT
  BY <1>2, <1>11, <1>13, WTFacts DEF Fine
<1>15. /\ S1.used = S.used /\ S1.to_add = S.to_add /\ S1.to_update = S.to_update
       /\ S1.to_destroy = S.to_destroy
  <2> HIDE DEF S
  <2> QED
    BY <1>2, SetTFacts
<1>16. S2 = [S1 EXCEPT !.used = S.used \cup ext]
  <2> HIDE DEF S, ext
  <2> QED
    BY <1>2, SetTFacts
<1>17. S2 \in SetT /\ S2.to_add = S.to_add /\ S2.to_update = S.to_update
       /\ S2.to_destroy = S.to_destroy
  <2>1. S.used \cup ext \in SUBSET Nat
    BY <1>3, <1>8
  <2> HIDE DEF S1, S2, S, ext
  <2> QED
    BY <1>14, <1>15, <1>16, <2>1 DEF SetT
<1>18. r2 \in DscT /\ r2.owner = w.dsc[d].owner /\ r2.data = w.dsc[d].data
       /\ r2.written = w.dsc[d].written
  <2>1. w.dsc[d] \in DscT
    BY <1>2
  <2> HIDE DEF ext
  <2> QED
    BY <1>8, <2>1 DEF DscT
<1> HIDE DEF S1, S2, r2, ext, g, v
<1>19. v = [dsc |-> ds, sets |-> [w.sets EXCEPT ![s] = S2],
            in_use |-> w.in_use \cup ToSet(new), dirty |-> w.dirty]
  <2> DEFINE h == [g EXCEPT !.dsc = [g.dsc EXCEPT ![d] = [g.dsc[d] EXCEPT !.ext = ext]]]
  <2>1. h = [dsc |-> ds, sets |-> g.sets, in_use |-> g.in_use, dirty |-> g.dirty]
    <3> HIDE DEF ds
    <3>1. [g.dsc EXCEPT ![d] = [g.dsc[d] EXCEPT !.ext = ext]] = ds
      BY <1>2, <1>13 DEF ds, r2
    <3> QED
      BY <1>13, <3>1, WithPart
  <2>2. v = [h EXCEPT !.sets = [h.sets EXCEPT ![s] = [h.sets[s] EXCEPT !.used = @ \cup ext]]]
    BY <1>7, <1>10
  <2> HIDE DEF h, ds
  <2>3. h.sets = g.sets
    BY <2>1
  <2>4. [h.sets[s] EXCEPT !.used = @ \cup ext] = S2
    BY <1>13, <1>15, <1>16, <2>3
  <2>5. [h.sets EXCEPT ![s] = S2] = [w.sets EXCEPT ![s] = S2]
    BY <1>2, <1>13, <2>3
  <2>6. v = [h EXCEPT !.sets = [w.sets EXCEPT ![s] = S2]]
    BY <2>2, <2>4, <2>5
  <2>7. v = [dsc |-> ds, sets |-> [w.sets EXCEPT ![s] = S2],
             in_use |-> g.in_use, dirty |-> g.dirty]
    BY <2>1, <2>6, RecordParts
  <2> QED
    BY <1>13, <2>7
<1>20. /\ v.dsc = ds /\ v.sets = [w.sets EXCEPT ![s] = S2]
       /\ v.in_use = w.in_use \cup ToSet(new) /\ v.dirty = w.dirty
  <2> HIDE DEF ds
  <2> QED
    BY <1>19
<1>21. Fine(v)
  <2> DEFINE u == [dsc |-> ds, sets |-> g.sets, in_use |-> g.in_use, dirty |-> g.dirty]
  <2>1. Fine(u)
    <3>1. ds \in [Dscs -> DscT]
      BY <1>2, <1>18
    <3>2. \A x \in Dscs : /\ ds[x].owner = g.dsc[x].owner /\ ds[x].data = g.dsc[x].data
                          /\ ds[x].written = g.dsc[x].written
      BY <1>2, <1>13, <1>18
    <3> HIDE DEF ds
    <3> QED
      BY <1>11, <3>1, <3>2, FineWithDscs
  <2>2. u.dsc = ds /\ u.sets = g.sets /\ u.in_use = g.in_use /\ u.dirty = g.dirty
    OBVIOUS
  <2> HIDE DEF u, ds
  <2>3. /\ \A x \in S2.to_add \cup S2.to_update : u.dsc[x].owner = s
        /\ \A x \in S2.to_destroy : IsErased(u.dsc, x)
    BY <1>13, <1>15, <1>17, <2>1, <2>2 DEF Fine, GoodSets
  <2>4. /\ w.in_use \cup ToSet(new) \in SUBSET Pos /\ IsFiniteSet(w.in_use \cup ToSet(new))
    BY <1>11, <1>13, WTFacts DEF Fine
  <2>5. Fine([dsc |-> u.dsc, sets |-> [u.sets EXCEPT ![s] = S2],
              in_use |-> w.in_use \cup ToSet(new), dirty |-> w.dirty])
    BY <1>2, <1>17, <2>1, <2>3, <2>4, FineWithSet
  <2>6. [u.sets EXCEPT ![s] = S2] = [w.sets EXCEPT ![s] = S2]
    BY <1>2, <1>13, <2>2
  <2> QED
    BY <1>19, <2>2, <2>5, <2>6
<1>22. PlacedAt(w, v, s, d, lo, new, more)
  <2>1. /\ new \in Seq(Pos) /\ IsInjective(new) /\ ToSet(new) \cap w.in_use = {}
        /\ Len(new) = Max({0, BlksFor(past) - Len(S.segm)})
        /\ more \in Seq({Old, Zero}) /\ Len(more) = Len(new) * CellsPerBlk
    BY <1>12 DEF GrownWith
  <2> QED
    BY <1>4, <1>7, <1>20, <2>1 DEF PlacedAt, S2, r2, past, ext
<1> QED
  BY <1>21, <1>22 DEF v

\* One set changes, and what the memory is then.
LEMMA WithOneSet ==
  ASSUME NEW w \in WT, NEW s \in Sets, NEW S2
  PROVE  [w EXCEPT !.sets[s] = S2]
           = [dsc |-> w.dsc, sets |-> [w.sets EXCEPT ![s] = S2],
              in_use |-> w.in_use, dirty |-> w.dirty]
<1>1. PICK ss : ss = [w.sets EXCEPT ![s] = S2]
  OBVIOUS
<1>2. [w EXCEPT !.sets = ss] = [dsc |-> w.dsc, sets |-> ss,
                                in_use |-> w.in_use, dirty |-> w.dirty]
  BY WithPart
<1> QED
  BY <1>1, <1>2

LEMMA FilledFacts ==
  ASSUME NEW w, Fine(w), NEW s \in Sets, NEW had
  PROVE  LET v == Filled(w, s, had)
             S == w.sets[s]
         IN /\ Fine(v) /\ v.dsc = w.dsc /\ v.in_use = w.in_use /\ v.dirty = w.dirty
            /\ v.sets = [w.sets EXCEPT ![s] =
                           [S EXCEPT !.cells = Zeroed(S.cells, had + 1 .. Len(S.cells))]]
<1> DEFINE v == Filled(w, s, had)
           S == w.sets[s]
           z == Zeroed(S.cells, had + 1 .. Len(S.cells))
           S2 == [S EXCEPT !.cells = z]
<1>1. w \in WT /\ GoodDscs(w.dsc) /\ GoodSets(w.dsc, w.sets) /\ IsFiniteSet(w.in_use)
  BY DEF Fine
<1>2. /\ w.dsc \in [Dscs -> DscT] /\ w.sets \in [Sets -> SetT] /\ S \in SetT
      /\ w.in_use \in SUBSET Pos /\ w.dirty \in SUBSET Pos
  BY <1>1, WTFacts
<1>3. z \in Seq(Cell)
  <2>1. S.cells \in Seq(Cell)
    BY <1>2, SetTFacts
  <2> QED
    BY <2>1, ZeroedFacts
<1>4. S2 \in SetT /\ S2.to_add = S.to_add /\ S2.to_update = S.to_update
      /\ S2.to_destroy = S.to_destroy
  <2> HIDE DEF S, z
  <2> QED
    BY <1>2, <1>3 DEF SetT
<1>5. v = [w EXCEPT !.sets[s] = S2]
  BY DEF Filled
<1> HIDE DEF S2, v, z
<1>6. v = [dsc |-> w.dsc, sets |-> [w.sets EXCEPT ![s] = S2],
           in_use |-> w.in_use, dirty |-> w.dirty]
  BY <1>1, <1>5, WithOneSet
<1>7. /\ \A x \in S2.to_add \cup S2.to_update : w.dsc[x].owner = s
      /\ \A x \in S2.to_destroy : IsErased(w.dsc, x)
  BY <1>1, <1>4 DEF GoodSets
<1>8. Fine(v)
  BY <1>1, <1>2, <1>4, <1>6, <1>7, FineWithSet
<1>9. /\ v.dsc = w.dsc /\ v.in_use = w.in_use /\ v.dirty = w.dirty
      /\ v.sets = [w.sets EXCEPT ![s] = S2]
  BY <1>6
<1> QED
  BY <1>8, <1>9 DEF v, S2, z

\* The states that differ from w only in the places of the descriptors and
\* in the stream of s.
OnlyPlaces(w, s) ==
  {v \in WT : /\ Fine(v)
              /\ \A d \in Dscs : v.dsc[d] = [w.dsc[d] EXCEPT !.ext = v.dsc[d].ext]
              /\ \A t \in Sets \ {s} : v.sets[t] = w.sets[t]
              /\ SamePending(v.sets[s], w.sets[s])}

LEMMA PlacedStays ==
  ASSUME NEW w, Fine(w), NEW s \in Sets, NEW v \in OnlyPlaces(w, s),
         NEW d \in Dscs, w.dsc[d].data \in DataOf(d)
  PROVE  /\ Placed(v, s, d) \in OnlyPlaces(w, s)
         /\ v.dsc[d].data = w.dsc[d].data
         /\ Placed(v, s, d).dsc[d].ext # {}
         /\ \A e \in Dscs \ {d} : Placed(v, s, d).dsc[e].ext = v.dsc[e].ext
<1> DEFINE u == Placed(v, s, d)
<1>0. /\ w \in WT /\ v \in WT /\ Fine(v) /\ w.dsc \in [Dscs -> DscT]
      /\ v.dsc \in [Dscs -> DscT] /\ v.sets \in [Sets -> SetT]
  BY WTFacts DEF OnlyPlaces, Fine
<1>1. v.dsc[d].data = w.dsc[d].data
  <2>1. v.dsc[d] = [w.dsc[d] EXCEPT !.ext = v.dsc[d].ext] /\ w.dsc[d] \in DscT
    BY <1>0 DEF OnlyPlaces
  <2>2. \A x : \A r \in DscT : [r EXCEPT !.ext = x].data = r.data
    BY DEF DscT
  <2> QED
    BY <2>1, <2>2
<1>2. Fine(u) /\ \E lo, new, more : PlacedAt(v, u, s, d, lo, new, more)
  BY <1>0, <1>1, PlacedFacts
<1>3. PICK lo, new, more : PlacedAt(v, u, s, d, lo, new, more)
  BY <1>2
<1> HIDE DEF u
<1> DEFINE ext == lo .. lo + Footprint(d, v.dsc[d]) - 1
<1>4. u.dsc = [v.dsc EXCEPT ![d] = [@ EXCEPT !.ext = ext]] /\ ext # {}
  <2>1. lo \in Pos /\ Footprint(d, v.dsc[d]) \in Pos
    BY <1>3 DEF PlacedAt
  <2>2. lo \in ext
    BY <2>1 DEF Pos
  <2> QED
    BY <1>3, <2>2 DEF PlacedAt
<1>5. /\ \A t \in Sets \ {s} : u.sets[t] = v.sets[t]
      /\ SamePending(u.sets[s], v.sets[s])
  <2>1. PICK a, b, c, e : u.sets = [v.sets EXCEPT ![s] =
                                [v.sets[s] EXCEPT !.past = a, !.segm = b, !.cells = c, !.used = e]]
    <3> DEFINE a == IF v.sets[s].past < lo + Footprint(d, v.dsc[d]) - 1
                    THEN lo + Footprint(d, v.dsc[d]) - 1 ELSE v.sets[s].past
               b == v.sets[s].segm \o new
               c == v.sets[s].cells \o more
               e == v.sets[s].used \cup ext
    <3>1. u.sets = [v.sets EXCEPT ![s] =
                      [v.sets[s] EXCEPT !.past = a, !.segm = b, !.cells = c, !.used = e]]
      BY <1>3 DEF PlacedAt
    <3> HIDE DEF a, b, c, e
    <3> QED
      BY <3>1
  <2>2. v.sets[s] \in SetT
    BY <1>0
  <2>3. u.sets[s] = [v.sets[s] EXCEPT !.past = a, !.segm = b, !.cells = c, !.used = e]
    BY <1>0, <2>1
  <2>4. SamePending(u.sets[s], v.sets[s])
    BY <2>2, <2>3 DEF SetT, SamePending
  <2> QED
    BY <1>0, <2>1, <2>4
<1> HIDE DEF ext
<1>6. \A e \in Dscs : u.dsc[e] = [w.dsc[e] EXCEPT !.ext = u.dsc[e].ext]
  <2> SUFFICES ASSUME NEW e \in Dscs PROVE u.dsc[e] = [w.dsc[e] EXCEPT !.ext = u.dsc[e].ext]
    OBVIOUS
  <2>1. v.dsc[e] = [w.dsc[e] EXCEPT !.ext = v.dsc[e].ext] /\ w.dsc[e] \in DscT
    BY <1>0 DEF OnlyPlaces
  <2>2. u.dsc[e] = v.dsc[e] \/ u.dsc[e] = [v.dsc[e] EXCEPT !.ext = ext]
    BY <1>0, <1>4
  <2>3. \A x, y : \A r \in DscT : /\ [[r EXCEPT !.ext = x] EXCEPT !.ext = y] = [r EXCEPT !.ext = y]
                                  /\ [r EXCEPT !.ext = x].ext = x
    BY DEF DscT
  <2> QED
    BY <2>1, <2>2, <2>3
<1>7. u \in OnlyPlaces(w, s)
  <2>1. \A t \in Sets \ {s} : u.sets[t] = w.sets[t]
    BY <1>5 DEF OnlyPlaces
  <2>2. SamePending(u.sets[s], w.sets[s])
    BY <1>5 DEF OnlyPlaces, SamePending
  <2> QED
    BY <1>2, <1>6, <2>1, <2>2 DEF OnlyPlaces, Fine
<1>8. u.dsc[d].ext = ext /\ \A e \in Dscs \ {d} : u.dsc[e].ext = v.dsc[e].ext
  <2>1. v.dsc[d] \in DscT
    BY <1>0
  <2>2. [v.dsc[d] EXCEPT !.ext = ext].ext = ext
    BY <2>1 DEF DscT
  <2> QED
    BY <1>0, <1>4, <2>2
<1> QED
  BY <1>1, <1>4, <1>7, <1>8 DEF u

\* The additions of a flush: one after the other.
PlacesOneByOne(w, s, order, g) ==
  /\ g[0] = w
  /\ \A k \in 1 .. Len(order) : g[k] = Placed(g[k - 1], s, order[k])

LEMMA AllocatedFacts ==
  ASSUME NEW w, Fine(w), NEW s \in Sets, NEW order \in Seq(Dscs),
         \A i \in 1 .. Len(order) : w.dsc[order[i]].data \in DataOf(order[i])
  PROVE  \E g \in [0 .. Len(order) -> OnlyPlaces(w, s)] :
           /\ PlacesOneByOne(w, s, order, g)
           /\ Allocated(w, s, order) = Filled(g[Len(order)], s, Len(w.sets[s].cells))
<1> DEFINE n == Len(order)
           T == OnlyPlaces(w, s)
           F == [k \in 1 .. n |-> [v \in T |-> Placed(v, s, order[k])]]
           Body(f, i) == IF i = 0 THEN w ELSE Placed(f[i - 1], s, order[i])
           IsIt(f) == f = [i \in 0 .. n |-> Body(f, i)]
<1>1. n \in Nat /\ \A k \in 1 .. n : order[k] \in Dscs
  BY LenProperties, ElementOfSeq
<1>2. w \in T
  <2>1. w \in WT /\ w.dsc \in [Dscs -> DscT]
    BY WTFacts DEF Fine
  <2>2. \A r \in DscT : r = [r EXCEPT !.ext = r.ext]
    BY DEF DscT
  <2>3. \A d \in Dscs : w.dsc[d] = [w.dsc[d] EXCEPT !.ext = w.dsc[d].ext]
    BY <2>1, <2>2
  <2> QED
    BY <2>1, <2>3 DEF OnlyPlaces, SamePending
<1>3. \A k \in 1 .. n : \A v \in T : Placed(v, s, order[k]) \in T
  <2> SUFFICES ASSUME NEW k \in 1 .. n, NEW v \in T PROVE Placed(v, s, order[k]) \in T
    OBVIOUS
  <2>1. order[k] \in Dscs /\ w.dsc[order[k]].data \in DataOf(order[k])
    BY <1>1
  <2> QED
    BY <2>1, PlacedStays
<1>4. F \in [1 .. n -> [T -> T]]
  <2> HIDE DEF T, n
  <2> QED
    BY <1>3
<1>5. \A k \in 1 .. n : \A v \in T : F[k][v] = Placed(v, s, order[k])
  OBVIOUS
<1> HIDE DEF F, T
<1>6. PICK g \in [0 .. n -> T] : IsLoop(g, n, w, F)
  <2> HIDE DEF n
  <2> QED
    BY <1>1, <1>2, <1>4, LoopExists
<1>7. \A k \in 1 .. n : k - 1 \in 0 .. n /\ k \in 0 .. n
  BY <1>1
<1>8. g[0] = w /\ \A k \in 1 .. n : g[k] = Placed(g[k - 1], s, order[k])
  <2>1. \A k \in 1 .. n : g[k] = F[k][g[k - 1]] /\ g[k - 1] \in T
    BY <1>6, <1>7 DEF IsLoop
  <2> QED
    BY <1>5, <1>6, <2>1 DEF IsLoop
<1>9. IsIt(g)
  <2>1. \A i \in 0 .. n : g[i] = Body(g, i)
    <3>1. \A i \in 0 .. n : i # 0 => i \in 1 .. n
      BY <1>1
    <3> QED
      BY <1>8, <3>1
  <2>2. g = [i \in 0 .. n |-> g[i]]
    BY <1>6
  <2> HIDE DEF Body
  <2> QED
    BY <2>1, <2>2
<1> DEFINE f == CHOOSE h : IsIt(h)
<1>10. IsIt(f)
  <2> HIDE DEF IsIt
  <2> QED
    BY <1>9
<1>11. Allocated(w, s, order) = Filled(f[n], s, Len(w.sets[s].cells))
  BY DEF Allocated
<1> HIDE DEF f
<1>12. \A i \in 0 .. n : f[i] = Body(f, i)
  <2> HIDE DEF Body
  <2> QED
    BY <1>10
<1>13. 0 .. n \subseteq {i \in 0 .. n : f[i] = g[i]}
  <2> DEFINE P == {i \in 0 .. n : f[i] = g[i]}
  <2>1. 0 \in P
    BY <1>1, <1>8, <1>12
  <2>2. ASSUME NEW k \in 0 .. n - 1, k \in P PROVE k + 1 \in P
    <3>1. k + 1 \in 1 .. n /\ k + 1 \in 0 .. n /\ (k + 1) - 1 = k /\ k + 1 # 0
      BY <1>1
    <3>2. f[k + 1] = Placed(f[k], s, order[k + 1])
      BY <1>12, <3>1
    <3>3. g[k + 1] = Placed(g[k], s, order[k + 1])
      BY <1>8, <3>1
    <3> QED
      BY <2>2, <3>1, <3>2, <3>3
  <2> HIDE DEF P
  <2>3. 0 .. n \subseteq P
    BY <1>1, <2>1, <2>2, Steps
  <2> QED
    BY <2>3 DEF P
<1>14. f[n] = g[n]
  <2>1. n \in 0 .. n
    BY <1>1
  <2> QED
    BY <1>13, <2>1
<1> QED
  BY <1>6, <1>8, <1>11, <1>14 DEF PlacesOneByOne, T

\* The records of the pending descriptors, and what a cell has after them.
ToWrite(w, s) == w.sets[s].to_update \cup w.sets[s].to_add
WrittenCell(w, s, c) ==
  IF c <= HeaderCells THEN Header
  ELSE LET at == {d \in ToWrite(w, s) : c \in w.dsc[d].ext}
       IN IF at = {} THEN w.sets[s].cells[c]
          ELSE LET d == CHOOSE d \in at : TRUE
               IN PartOf(Record(d, w.dsc[d]), c - Min(w.dsc[d].ext) + 1)
NewSum(w, s) ==
  SumWithout(w.sets[s].sum, w.dsc, ToWrite(w, s))
    (+) SetToBag({Record(d, w.dsc[d]) : d \in ToWrite(w, s)})

WrittenWith(w, v, s) ==
  LET S == w.sets[s]
  IN /\ v.in_use = w.in_use /\ v.dirty = w.dirty
     /\ v.dsc = [d \in Dscs |-> IF d \in ToWrite(w, s)
                                THEN [w.dsc[d] EXCEPT !.written = {Record(d, w.dsc[d])},
                                                      !.notified = FALSE]
                                ELSE w.dsc[d]]
     /\ v.sets = [w.sets EXCEPT ![s] =
                    [S EXCEPT !.cells = [c \in DOMAIN S.cells |-> WrittenCell(w, s, c)],
                              !.to_add = {}, !.to_update = {}, !.sum = NewSum(w, s)]]

LEMMA RecordFacts ==
  ASSUME NEW d \in Dscs \ {Root}, NEW r \in DscT, r.data \in DataOf(d)
  PROVE  /\ Record(d, r) \in RecsOf(d) /\ Record(d, r) \in Recs
         /\ Record(d, r).dsc = d /\ Record(d, r).data = r.data /\ Record(d, r).pid = r.pid
<1>1. r.pid \in BOOLEAN
  BY DscTFacts
<1>2. Record(d, r) \in RecsOf(d)
  BY <1>1 DEF Record, RecsOf
<1> QED
  BY <1>2 DEF Recs, Record

\* A pending descriptor has a record to write.
LEMMA ToWriteFacts ==
  ASSUME NEW w, Fine(w), NEW s \in Sets, NEW d \in ToWrite(w, s)
  PROVE  /\ d \in Dscs \ {Root} /\ w.dsc[d] \in DscT /\ w.dsc[d].owner = s
         /\ w.dsc[d].data \in DataOf(d) /\ w.dsc[d].ext \in SUBSET Nat
         /\ Record(d, w.dsc[d]) \in RecsOf(d) /\ Record(d, w.dsc[d]) \in Recs
<1>1. w \in WT /\ GoodDscs(w.dsc) /\ GoodSets(w.dsc, w.sets)
  BY DEF Fine
<1>2. w.dsc \in [Dscs -> DscT] /\ w.sets[s] \in SetT
  BY <1>1, WTFacts
<1>3. d \in Dscs /\ w.dsc[d].owner = s /\ s # NoSet
  BY <1>1, <1>2, SetTFacts, SetsAreFinite DEF GoodSets, ToWrite
<1>4. w.dsc[d] \in DscT /\ d # Root /\ w.dsc[d].data \in DataOf(d)
  BY <1>1, <1>2, <1>3 DEF GoodDscs
<1>5. PICK r \in DscT : r = w.dsc[d]
  BY <1>4
<1>6. r.ext \in SUBSET Nat /\ Record(d, r) \in RecsOf(d) /\ Record(d, r) \in Recs
  BY <1>3, <1>4, <1>5, DscTFacts, RecordFacts
<1> QED
  BY <1>3, <1>4, <1>5, <1>6

LEMMA WrittenFacts ==
  ASSUME NEW w, Fine(w), NEW s \in Sets
  PROVE  Fine(Written(w, s)) /\ WrittenWith(w, Written(w, s), s)
<1> DEFINE v == Written(w, s)
           S == w.sets[s]
           D == ToWrite(w, s)
           rec == [d \in D |-> Record(d, w.dsc[d])]
           new(d) == IF d \in D THEN [w.dsc[d] EXCEPT !.written = {Record(d, w.dsc[d])},
                                                     !.notified = FALSE]
                     ELSE w.dsc[d]
           ds == [d \in Dscs |-> new(d)]
           cells == [c \in DOMAIN S.cells |-> WrittenCell(w, s, c)]
           S2 == [S EXCEPT !.cells = cells, !.to_add = {}, !.to_update = {},
                           !.sum = NewSum(w, s)]
<1>1. w \in WT /\ GoodDscs(w.dsc) /\ GoodSets(w.dsc, w.sets) /\ IsFiniteSet(w.in_use)
  BY DEF Fine
<1>2. /\ w.dsc \in [Dscs -> DscT] /\ w.sets \in [Sets -> SetT] /\ S \in SetT
      /\ w.in_use \in SUBSET Pos /\ w.dirty \in SUBSET Pos
  BY <1>1, WTFacts
<1>3. \A d \in D : /\ d \in Dscs \ {Root} /\ w.dsc[d] \in DscT /\ w.dsc[d].owner = s
                   /\ w.dsc[d].ext \in SUBSET Nat
                   /\ Record(d, w.dsc[d]) \in RecsOf(d) /\ Record(d, w.dsc[d]) \in Recs
  BY ToWriteFacts
<1>4. \A d \in D : rec[d] = Record(d, w.dsc[d])
  OBVIOUS
<1>5. v = [w EXCEPT !.dsc = ds, !.sets[s] = S2]
  <2> DEFINE Cl(c) ==
               IF c <= HeaderCells THEN Header
               ELSE LET at == {d \in D : c \in w.dsc[d].ext}
                    IN IF at = {} THEN S.cells[c]
                       ELSE LET d == CHOOSE d \in at : TRUE
                            IN PartOf(rec[d], c - Min(w.dsc[d].ext) + 1)
             T2 == [S EXCEPT !.cells = [c \in DOMAIN S.cells |-> Cl(c)], !.to_add = {},
                        !.to_update = {},
                        !.sum = SumWithout(S.sum, w.dsc, D) (+) SetToBag({rec[d] : d \in D})]
             es == [d \in Dscs |-> IF d \in D THEN Acked(w.dsc[d], rec[d]) ELSE w.dsc[d]]
  <2>1. v = [w EXCEPT !.dsc = es, !.sets[s] = T2]
    BY DEF Written, ToWrite
  <2>2. es = ds
    <3>1. \A d \in Dscs : es[d] = ds[d]
      BY <1>4 DEF Acked
    <3> QED
      BY <1>4 DEF Acked
  <2>3. \A c : Cl(c) = WrittenCell(w, s, c)
    <3> SUFFICES ASSUME NEW c PROVE Cl(c) = WrittenCell(w, s, c)
      OBVIOUS
    <3> DEFINE at == {d \in D : c \in w.dsc[d].ext}
               d0 == CHOOSE d \in at : TRUE
    <3>1. CASE at = {}
      BY <3>1 DEF WrittenCell
    <3>2. CASE at # {}
      <4>1. d0 \in at
        BY <3>2
      <4>2. rec[d0] = Record(d0, w.dsc[d0])
        BY <4>1
      <4>3. /\ Cl(c) = IF c <= HeaderCells THEN Header
                       ELSE PartOf(rec[d0], c - Min(w.dsc[d0].ext) + 1)
            /\ WrittenCell(w, s, c) = IF c <= HeaderCells THEN Header
                       ELSE PartOf(Record(d0, w.dsc[d0]), c - Min(w.dsc[d0].ext) + 1)
        BY <3>2 DEF WrittenCell
      <4> HIDE DEF Cl, d0, rec
      <4> QED
        BY <4>2, <4>3
    <3> QED
      BY <3>1, <3>2
  <2>4. [c \in DOMAIN S.cells |-> Cl(c)] = cells
    <3> HIDE DEF Cl
    <3> QED
      BY <2>3
  <2>5. {rec[d] : d \in D} = {Record(d, w.dsc[d]) : d \in D}
    BY <1>4
  <2>6. T2 = S2
    <3> HIDE DEF Cl, cells, rec, D, S
    <3>1. SumWithout(S.sum, w.dsc, D) (+) SetToBag({rec[d] : d \in D}) = NewSum(w, s)
      BY <2>5 DEF NewSum, D, S
    <3> QED
      BY <2>4, <3>1
  <2> HIDE DEF v, es, ds, T2, S2
  <2> QED
    BY <2>1, <2>2, <2>6
<1>6. ASSUME NEW d \in Dscs
      PROVE  /\ ds[d] \in DscT /\ ds[d].owner = w.dsc[d].owner /\ ds[d].data = w.dsc[d].data
             /\ ds[d].written = IF d \in D THEN {Record(d, w.dsc[d])} ELSE w.dsc[d].written
  <2>1. ds[d] = new(d) /\ w.dsc[d] \in DscT
    BY <1>2
  <2>2. CASE d \in D
    <3>1. \A r \in DscT : \A R \in SUBSET Recs :
            LET q == [r EXCEPT !.written = R, !.notified = FALSE]
            IN q \in DscT /\ q.owner = r.owner /\ q.data = r.data /\ q.written = R
      BY DEF DscT
    <3>2. PICK r \in DscT : r = w.dsc[d]
      BY <2>1
    <3>3. PICK R \in SUBSET Recs : R = {Record(d, w.dsc[d])}
      <4>1. {Record(d, w.dsc[d])} \in SUBSET Recs
        BY <1>3, <2>2
      <4> QED
        BY <4>1
    <3>4. ds[d] = [r EXCEPT !.written = R, !.notified = FALSE]
      BY <2>1, <2>2, <3>2, <3>3
    <3>5. ds[d] \in DscT /\ ds[d].owner = r.owner /\ ds[d].data = r.data /\ ds[d].written = R
      <4> DEFINE x == ds[d]
      <4>1. x = [r EXCEPT !.written = R, !.notified = FALSE]
        BY <3>4
      <4> HIDE DEF x, ds, D
      <4>2. x \in DscT /\ x.owner = r.owner /\ x.data = r.data /\ x.written = R
        BY ONLY <4>1, r \in DscT, R \in SUBSET Recs DEF DscT
      <4> QED
        BY <4>2 DEF x
    <3> HIDE DEF ds, D
    <3> QED
      BY <2>2, <3>2, <3>3, <3>5
  <2>3. CASE d \notin D
    BY <2>1, <2>3
  <2> QED
    BY <2>2, <2>3
<1>7. S2 \in SetT /\ S2.to_add = {} /\ S2.to_update = {} /\ S2.to_destroy = S.to_destroy
  <2>1. cells \in Seq(Cell)
    <3>1. S.cells \in Seq(Cell)
      BY <1>2, SetTFacts
    <3>2. DOMAIN S.cells = 1 .. Len(S.cells) /\ Len(S.cells) \in Nat
      BY <3>1, LenProperties
    <3>3. ASSUME NEW c \in 1 .. Len(S.cells) PROVE WrittenCell(w, s, c) \in Cell
      <4> DEFINE at == {d \in D : c \in w.dsc[d].ext}
                 d0 == CHOOSE d \in at : TRUE
      <4>1. CASE c <= HeaderCells
        BY <4>1 DEF WrittenCell, Cell
      <4>2. CASE ~ (c <= HeaderCells) /\ at = {}
        <5>1. WrittenCell(w, s, c) = S.cells[c]
          BY <4>2 DEF WrittenCell
        <5>2. S.cells[c] \in Cell
          BY <3>1, <3>3, ElementOfSeq
        <5> QED
          BY <5>1, <5>2
      <4>3. CASE ~ (c <= HeaderCells) /\ at # {}
        <5>1. d0 \in at
          BY <4>3
        <5>2. WrittenCell(w, s, c) = PartOf(Record(d0, w.dsc[d0]), c - Min(w.dsc[d0].ext) + 1)
          BY <4>3 DEF WrittenCell
        <5> DEFINE e == w.dsc[d0].ext
        <5>3. e \in SUBSET Nat /\ c \in e /\ Record(d0, w.dsc[d0]) \in Recs
          BY <1>3, <5>1
        <5> HIDE DEF e
        <5>4. Min(e) \in Nat /\ Min(e) <= c
          BY <5>3, MinFacts
        <5>5. c \in Nat
          BY <5>3
        <5>6. c - Min(e) + 1 \in Pos
          BY <5>4, <5>5 DEF Pos
        <5> HIDE DEF d0
        <5> QED
          BY <5>2, <5>3, <5>6 DEF Cell, e
      <4> QED
        BY <4>1, <4>2, <4>3
    <3> DEFINE n == Len(S.cells)
    <3>4. n \in Nat /\ cells \in [1 .. n -> Cell]
      BY <3>2, <3>3
    <3> HIDE DEF n, cells
    <3> QED
      BY <3>4, FunctionIsSeq
  <2>2. NewSum(w, s) \in Sums
    <3>1. S.sum \in Sums
      BY <1>2, SetTFacts
    <3>2. UNION {w.dsc[d].written : d \in D} \in SUBSET Recs
      <4>1. \A d \in D : w.dsc[d].written \in SUBSET Recs
        BY <1>3, DscTFacts
      <4> QED
        BY <4>1
    <3>3. {Record(d, w.dsc[d]) : d \in D} \in SUBSET Recs
      BY <1>3
    <3> DEFINE A == UNION {w.dsc[d].written : d \in D}
               B == {Record(d, w.dsc[d]) : d \in D}
    <3>4. A \in SUBSET Recs /\ B \in SUBSET Recs
      BY <3>2, <3>3
    <3>5. NewSum(w, s) = (S.sum (-) SetToBag(A)) (+) SetToBag(B)
      BY DEF NewSum, SumWithout
    <3> HIDE DEF A, B, S
    <3>6. S.sum (-) SetToBag(A) \in Sums
      BY <3>1, <3>4, SumFacts
    <3>7. (S.sum (-) SetToBag(A)) (+) SetToBag(B) \in Sums
      BY <3>4, <3>6, SumFacts
    <3> QED
      BY <3>5, <3>7
  <2> HIDE DEF S, cells
  <2> QED
    BY <1>2, <2>1, <2>2 DEF SetT
<1> HIDE DEF S2, v
<1>8. v = [dsc |-> ds, sets |-> [w.sets EXCEPT ![s] = S2],
           in_use |-> w.in_use, dirty |-> w.dirty]
  <2> DEFINE u == [w EXCEPT !.dsc = ds]
  <2>1. u = [dsc |-> ds, sets |-> w.sets, in_use |-> w.in_use, dirty |-> w.dirty]
    <3> HIDE DEF ds
    <3> QED
      BY <1>1, WithPart
  <2>2. v = [u EXCEPT !.sets = [u.sets EXCEPT ![s] = S2]]
    BY <1>5
  <2> HIDE DEF ds, S, u
  <2> QED
    BY <2>1, <2>2
<1>9. v.dsc = ds /\ v.sets = [w.sets EXCEPT ![s] = S2] /\ v.in_use = w.in_use /\ v.dirty = w.dirty
  <2> HIDE DEF ds
  <2> QED
    BY <1>8
<1>10. Fine(v)
  <2>1. ds \in [Dscs -> DscT]
    BY <1>6
  <2>2. v \in WT
    <3>1. [w.sets EXCEPT ![s] = S2] \in [Sets -> SetT]
      BY <1>2, <1>7
    <3> HIDE DEF ds
    <3> QED
      BY <1>2, <1>8, <2>1, <3>1 DEF WT
  <2>3. GoodDscs(v.dsc)
    <3> HIDE DEF ds, D
    <3> SUFFICES ASSUME NEW d \in Dscs
                 PROVE  /\ ds[d].owner # NoSet => d # Root /\ ds[d].data \in DataOf(d)
                        /\ ds[d].written = {} \/ \E r \in RecsOf(d) : ds[d].written = {r}
      BY <1>9 DEF GoodDscs
    <3>1. CASE d \in D
      BY <1>1, <1>3, <1>6, <3>1 DEF GoodDscs
    <3>2. CASE d \notin D
      BY <1>1, <1>6, <3>2 DEF GoodDscs
    <3> QED
      BY <3>1, <3>2
  <2>4. GoodSets(v.dsc, v.sets)
    <3>1. \A t \in Sets : v.sets[t] = IF t = s THEN S2 ELSE w.sets[t]
      BY <1>2, <1>9
    <3>2. \A t \in Sets : /\ v.sets[t].to_add \subseteq w.sets[t].to_add
                          /\ v.sets[t].to_update \subseteq w.sets[t].to_update
                          /\ v.sets[t].to_destroy = w.sets[t].to_destroy
      BY <1>7, <3>1
    <3>3. \A t \in Sets : w.sets[t].to_add \cup w.sets[t].to_update \cup w.sets[t].to_destroy
                            \subseteq Dscs
      <4>1. \A t \in Sets : w.sets[t] \in SetT
        BY <1>2
      <4> QED
        BY <4>1, SetTFacts
    <3>4. \A d \in Dscs : v.dsc[d].owner = w.dsc[d].owner
      BY <1>6, <1>9
    <3> HIDE DEF ds, S
    <3> QED
      BY <1>1, <3>2, <3>3, <3>4 DEF GoodSets, IsErased
  <2> QED
    BY <1>1, <1>9, <2>2, <2>3, <2>4 DEF Fine
<1>11. WrittenWith(w, v, s)
  BY <1>9 DEF WrittenWith, S2
<1> QED
  BY <1>10, <1>11 DEF v

-----------------------------------------------------------------------------
(* The last steps of a sync *)

\* A pending descriptor of its owner.
NotifiedWith(w, ss, t, d) ==
  \/ ss = w.sets /\ d \in w.sets[t].to_add
  \/ ss = [w.sets EXCEPT ![t] = [w.sets[t] EXCEPT !.to_update = @ \cup {d}]]

LEMMA NotifiedFacts ==
  ASSUME NEW w, Fine(w), NEW t \in Sets, NEW d \in Dscs, w.dsc[d].owner = t
  PROVE  LET ss == Notified(w.sets, t, d)
         IN /\ NotifiedWith(w, ss, t, d)
            /\ Fine([dsc |-> w.dsc, sets |-> ss, in_use |-> w.in_use, dirty |-> w.dirty])
<1> DEFINE ss == Notified(w.sets, t, d)
           S2 == [w.sets[t] EXCEPT !.to_update = @ \cup {d}]
<1>1. w \in WT /\ GoodSets(w.dsc, w.sets) /\ IsFiniteSet(w.in_use)
  BY DEF Fine
<1>2. w.sets \in [Sets -> SetT] /\ w.sets[t] \in SetT
      /\ w.in_use \in SUBSET Pos /\ w.dirty \in SUBSET Pos
  BY <1>1, WTFacts
<1>3. CASE d \in w.sets[t].to_add
  <2>1. ss = w.sets
    BY <1>3 DEF Notified
  <2>2. w = [dsc |-> w.dsc, sets |-> w.sets, in_use |-> w.in_use, dirty |-> w.dirty]
    BY <1>1, WTFacts
  <2> HIDE DEF ss
  <2> QED
    BY <1>3, <2>1, <2>2 DEF NotifiedWith, ss
<1>4. CASE d \notin w.sets[t].to_add
  <2>1. ss = [w.sets EXCEPT ![t] = S2]
    BY <1>4 DEF Notified
  <2>2. /\ S2 \in SetT /\ S2.to_add = w.sets[t].to_add /\ S2.to_destroy = w.sets[t].to_destroy
        /\ S2.to_update = w.sets[t].to_update \cup {d}
    <3>1. \A S \in SetT : LET Q == [S EXCEPT !.to_update = @ \cup {d}]
                          IN /\ Q \in SetT /\ Q.to_add = S.to_add
                             /\ Q.to_destroy = S.to_destroy /\ Q.to_update = S.to_update \cup {d}
      BY DEF SetT
    <3> QED
      BY <1>2, <3>1
  <2> HIDE DEF ss, S2
  <2>3. /\ \A e \in S2.to_add \cup S2.to_update : w.dsc[e].owner = t
        /\ \A e \in S2.to_destroy : IsErased(w.dsc, e)
    BY <1>1, <2>2 DEF GoodSets
  <2>4. Fine([dsc |-> w.dsc, sets |-> [w.sets EXCEPT ![t] = S2],
              in_use |-> w.in_use, dirty |-> w.dirty])
    BY <1>1, <1>2, <2>2, <2>3, FineWithSet
  <2> QED
    BY <2>1, <2>4 DEF NotifiedWith, ss, S2
<1> QED
  BY <1>3, <1>4

NotifiesWith(w, v, s) ==
  \/ v = w
  \/ /\ s # Root /\ v.in_use = w.in_use /\ v.dirty = w.dirty
     /\ v.dsc = [w.dsc EXCEPT ![s] = [@ EXCEPT !.notified = TRUE]]
     /\ NotifiedWith(w, v.sets, w.dsc[s].owner, s)

LEMMA NotifiesFacts ==
  ASSUME NEW w, Fine(w), NEW s \in Sets, s # Root => w.dsc[s].owner \in Sets, NEW segm
  PROVE  Fine(Notifies(w, s, segm)) /\ NotifiesWith(w, Notifies(w, s, segm), s)
<1> DEFINE v == Notifies(w, s, segm)
<1>1. CASE w.sets[s].segm = segm \/ s = Root \/ w.dsc[s].notified
  BY <1>1 DEF Notifies, NotifiesWith
<1>2. CASE ~ (w.sets[s].segm = segm \/ s = Root \/ w.dsc[s].notified)
  <2> DEFINE t == w.dsc[s].owner
             ss == Notified(w.sets, t, s)
             r2 == [w.dsc[s] EXCEPT !.notified = TRUE]
             ds == [w.dsc EXCEPT ![s] = r2]
             u == [dsc |-> w.dsc, sets |-> ss, in_use |-> w.in_use, dirty |-> w.dirty]
  <2>1. w \in WT /\ s \in Dscs /\ t \in Sets /\ w.dsc \in [Dscs -> DscT]
    BY <1>2, SetsAreFinite, WTFacts DEF Fine
  <2>2. NotifiedWith(w, ss, t, s) /\ Fine(u)
    BY <2>1, NotifiedFacts
  <2>3. v = [w EXCEPT !.sets = ss, !.dsc[s].notified = TRUE]
    BY <1>2 DEF Notifies
  <2>4. /\ r2 \in DscT /\ r2.owner = w.dsc[s].owner /\ r2.data = w.dsc[s].data
        /\ r2.written = w.dsc[s].written
    <3>1. \A r \in DscT : LET q == [r EXCEPT !.notified = TRUE]
                          IN q \in DscT /\ q.owner = r.owner /\ q.data = r.data
                             /\ q.written = r.written
      BY DEF DscT
    <3> QED
      BY <2>1, <3>1
  <2> HIDE DEF r2
  <2>5. /\ ds \in [Dscs -> DscT]
        /\ \A d \in Dscs : /\ ds[d].owner = w.dsc[d].owner /\ ds[d].data = w.dsc[d].data
                           /\ ds[d].written = w.dsc[d].written
    BY <2>1, <2>4
  <2>6. u.dsc = w.dsc /\ u.sets = ss /\ u.in_use = w.in_use /\ u.dirty = w.dirty
    OBVIOUS
  <2>7. v = [dsc |-> ds, sets |-> ss, in_use |-> w.in_use, dirty |-> w.dirty]
    <3> DEFINE h == [w EXCEPT !.sets = ss]
    <3> HIDE DEF ss
    <3>1. h = u
      BY <2>1, WithPart
    <3>2. v = [h EXCEPT !.dsc = [h.dsc EXCEPT ![s] = [h.dsc[s] EXCEPT !.notified = TRUE]]]
      BY <2>3
    <3> HIDE DEF h, v, ds, t
    <3>3. v = [u EXCEPT !.dsc = ds]
      BY <2>6, <3>1, <3>2 DEF ds, r2
    <3> QED
      BY <3>3, RecordParts
  <2> HIDE DEF u, ss, ds
  <2>8. Fine([dsc |-> ds, sets |-> u.sets, in_use |-> u.in_use, dirty |-> u.dirty])
    BY <2>2, <2>5, <2>6, FineWithDscs
  <2>9. v.dsc = ds /\ v.sets = ss /\ v.in_use = w.in_use /\ v.dirty = w.dirty
    BY <2>7
  <2>10. Fine(v)
    BY <2>6, <2>7, <2>8
  <2> HIDE DEF v
  <2>11. NotifiesWith(w, v, s)
    BY <1>2, <2>2, <2>9 DEF NotifiesWith, ds, r2
  <2> QED
    BY <2>10, <2>11 DEF v
<1> QED
  BY <1>1, <1>2

\* The cells that are the header's, once there is one.
HeaderOf(S) == IF S.past = 0 THEN {} ELSE 1 .. HeaderCells

\* The stream has its header, and the cells that are given are in its blocks.
Room(S) ==
  /\ HeaderOf(S) \subseteq S.used /\ S.used \subseteq 1 .. S.past
  /\ S.past <= Len(S.cells) /\ Len(S.cells) = Len(S.segm) * CellsPerBlk
  /\ S.past = 0 => S.segm = <<>>

\* The stream ends with the last cell in use, or is given back whole.
ReleasedWith(w, v, s) ==
  LET S == w.sets[s]
  IN \E past, n \in Nat, used \in SUBSET Nat :
       /\ n <= Len(S.segm) /\ past <= n * CellsPerBlk /\ used \subseteq 1 .. past
       /\ used = IF Members(w.dsc, s) = {} THEN {} ELSE S.used
       /\ past = 0 => n = 0
       /\ past <= S.past /\ (past # 0 => past \in used)
       /\ v.dsc = w.dsc
       /\ v.in_use = w.in_use \ ToSet(SubSeq(S.segm, n + 1, Len(S.segm)))
       /\ v.dirty = w.dirty \cup ToSet(SubSeq(S.segm, n + 1, Len(S.segm)))
       /\ v.sets = [w.sets EXCEPT ![s] =
                      [S EXCEPT !.used = used, !.past = past, !.segm = SubSeq(S.segm, 1, n),
                                !.cells = SubSeq(S.cells, 1, n * CellsPerBlk)]]

LEMMA PrefixFacts ==
  ASSUME NEW T, NEW q \in Seq(T), NEW n \in Nat, n <= Len(q)
  PROVE  /\ SubSeq(q, 1, n) \in Seq(T) /\ Len(SubSeq(q, 1, n)) = n
         /\ \A i \in 1 .. n : SubSeq(q, 1, n)[i] = q[i]
         /\ SubSeq(q, n + 1, Len(q)) \in Seq(T)
         /\ ToSet(SubSeq(q, 1, n)) = {q[i] : i \in 1 .. n}
         /\ ToSet(SubSeq(q, n + 1, Len(q))) = {q[i] : i \in n + 1 .. Len(q)}
<1>1. Len(q) \in Nat /\ \A i \in 1 .. Len(q) : q[i] \in T
  BY LenProperties, ElementOfSeq
<1>2. \A i \in 1 .. n : q[i] \in T
  BY <1>1
<1> DEFINE a == SubSeq(q, 1, n)
           b == SubSeq(q, n + 1, Len(q))
<1>3. /\ a \in Seq(T) /\ Len(a) = (IF 1 <= n THEN n - 1 + 1 ELSE 0)
      /\ \A i \in 1 .. n - 1 + 1 : a[i] = q[1 + i - 1]
  <2>1. 1 \in Int /\ n \in Int
    OBVIOUS
  <2> QED
    BY <1>2, <2>1, SubSeqProperties
<1>4. Len(a) = n /\ \A i \in 1 .. n : a[i] = q[i]
  <2>1. \A i \in 1 .. n : i \in 1 .. n - 1 + 1 /\ 1 + i - 1 = i
    OBVIOUS
  <2> HIDE DEF a
  <2> QED
    BY <1>3, <2>1
<1> DEFINE m == Len(q)
<1>5. m \in Nat /\ \A i \in n + 1 .. m : q[i] \in T
  BY <1>1
<1>6. /\ b \in Seq(T) /\ Len(b) = (IF n + 1 <= m THEN m - (n + 1) + 1 ELSE 0)
      /\ \A i \in 1 .. m - (n + 1) + 1 : b[i] = q[n + 1 + i - 1]
  <2>1. n + 1 \in Int /\ m \in Int
    BY <1>1
  <2> QED
    BY <1>5, <2>1, SubSeqProperties
<1>7. ToSet(a) = {a[i] : i \in 1 .. n}
  <2> HIDE DEF a
  <2> QED
    BY <1>3, <1>4, ToSetFacts
<1>8. Len(b) = m - n
  <2> HIDE DEF m, b
  <2>1. n <= m
    BY DEF m
  <2> QED
    BY <1>5, <1>6, <2>1
<1>9. ToSet(b) = {b[i] : i \in 1 .. m - n}
  <2> HIDE DEF b, m
  <2> QED
    BY <1>6, <1>8, ToSetFacts
<1>10. {b[i] : i \in 1 .. m - n} = {q[i] : i \in n + 1 .. m}
  <2> HIDE DEF b, m
  <2>1. \A i \in 1 .. m - n : i + n \in n + 1 .. m /\ b[i] = q[i + n]
    <3> SUFFICES ASSUME NEW i \in 1 .. m - n PROVE i + n \in n + 1 .. m /\ b[i] = q[i + n]
      OBVIOUS
    <3>1. i \in 1 .. m - (n + 1) + 1 /\ n + 1 + i - 1 = i + n /\ i + n \in n + 1 .. m
      BY <1>5
    <3> QED
      BY <1>6, <3>1
  <2>2. \A i \in n + 1 .. m : i - n \in 1 .. m - n /\ (i - n) + n = i
    BY <1>5
  <2> QED
    BY <2>1, <2>2
<1> HIDE DEF a, b, m
<1>11. ToSet(a) = {q[i] : i \in 1 .. n}
  BY <1>4, <1>7
<1> QED
  BY <1>3, <1>4, <1>6, <1>9, <1>10, <1>11 DEF a, b, m

LEMMA BlksMonotonic ==
  ASSUME NEW m \in Nat, NEW n \in Nat, m <= n
  PROVE  m * CellsPerBlk \in Nat /\ m * CellsPerBlk <= n * CellsPerBlk
<1>1. PICK j \in Nat : n = m + j
  <2>1. n - m \in Nat /\ n = m + (n - m)
    OBVIOUS
  <2> QED
    BY <2>1
<1>2. PICK C \in Nat : C = CellsPerBlk
  BY SetsAssumption
<1>3. m * C \in Nat /\ j * C \in Nat /\ (m + j) * C = m * C + j * C
  OBVIOUS
<1> QED
  BY <1>1, <1>2, <1>3

LEMMA ReleasedFacts ==
  ASSUME NEW w, Fine(w), NEW s \in Sets, Room(w.sets[s])
  PROVE  Fine(Released(w, s)) /\ ReleasedWith(w, Released(w, s), s)
<1> DEFINE v == Released(w, s)
           S == w.sets[s]
           used == IF Members(w.dsc, s) = {} THEN {} ELSE S.used
           U == {0} \cup used
           past == Max(U)
           n == BlksFor(past)
           segm == SubSeq(S.segm, 1, n)
           cells == SubSeq(S.cells, 1, n * CellsPerBlk)
           B == ToSet(SubSeq(S.segm, n + 1, Len(S.segm)))
           S2 == [S EXCEPT !.used = used, !.past = past, !.segm = segm, !.cells = cells]
<1>1. w \in WT /\ GoodSets(w.dsc, w.sets) /\ IsFiniteSet(w.in_use)
  BY DEF Fine
<1>2. /\ w.sets \in [Sets -> SetT] /\ S \in SetT
      /\ w.in_use \in SUBSET Pos /\ w.dirty \in SUBSET Pos
  BY <1>1, WTFacts
<1>3. /\ S.segm \in Seq(Pos) /\ S.cells \in Seq(Cell) /\ S.past \in Nat /\ S.used \in SUBSET Nat
      /\ Len(S.segm) \in Nat /\ Len(S.cells) \in Nat
  BY <1>2, SetTFacts, LenProperties
<1>4. /\ S.used \subseteq 1 .. S.past /\ S.past <= Len(S.cells)
      /\ Len(S.cells) = Len(S.segm) * CellsPerBlk
  BY DEF Room
<1>5. used \subseteq 1 .. S.past /\ used \in SUBSET Nat
  BY <1>3, <1>4
<1> HIDE DEF S, used
<1>6. past \in U /\ past \in Nat /\ past <= S.past /\ used \subseteq 1 .. past
  <2>1. U \in SUBSET Nat /\ IsFiniteSet(U) /\ U # {}
    <3>1. IsFiniteSet(0 .. S.past)
      <4>1. PICK p \in Int : p = S.past
        BY <1>3
      <4>2. IsFiniteSet(0 .. p)
        BY FS_Interval
      <4> QED
        BY <4>1, <4>2
    <3>2. U \in SUBSET (0 .. S.past)
      BY <1>3, <1>5
    <3>3. IsFiniteSet(U)
      BY <3>1, <3>2, FS_Subset
    <3> QED
      BY <1>3, <1>5, <3>3
  <2>2. Max(U) \in U /\ \A y \in U : y <= Max(U)
    <3> HIDE DEF U
    <3> QED
      BY <2>1, MaxFacts
  <2> DEFINE m == Max(U)
  <2>3. m \in U /\ m \in Nat /\ \A y \in U : y <= m
    BY <2>1, <2>2
  <2> HIDE DEF m
  <2>4. m <= S.past
    BY <1>3, <1>5, <2>3
  <2>5. used \subseteq 1 .. m
    <3> SUFFICES ASSUME NEW y \in used PROVE y \in 1 .. m
      OBVIOUS
    <3>1. y \in 1 .. S.past /\ y <= m
      BY <1>5, <2>3
    <3> QED
      BY <1>3, <2>3, <3>1
  <2> QED
    BY <2>3, <2>4, <2>5 DEF m
<1> HIDE DEF past
<1>7. n \in Nat /\ past <= n * CellsPerBlk /\ n <= Len(S.segm) /\ (past = 0 => n = 0)
  <2>1. /\ BlksFor(past) \in Nat /\ past <= BlksFor(past) * CellsPerBlk
        /\ \A k \in Nat : past <= k * CellsPerBlk => BlksFor(past) <= k
    BY <1>6, BlksForFacts
  <2>2. past <= Len(S.segm) * CellsPerBlk
    <3> DEFINE l == Len(S.segm) * CellsPerBlk
    <3>1. l \in Nat /\ S.past <= l
      BY <1>3, <1>4
    <3> HIDE DEF l
    <3>2. past <= l
      BY <1>3, <1>6, <3>1
    <3> QED
      BY <3>2 DEF l
  <2>3. BlksFor(past) <= Len(S.segm)
    BY <1>3, <2>1, <2>2
  <2>4. past = 0 => BlksFor(past) <= 0
    <3>1. past = 0 => past <= 0 * CellsPerBlk
      BY SetsAssumption
    <3> QED
      BY <2>1, <3>1
  <2> DEFINE x == BlksFor(past)
  <2>5. x \in Nat /\ (past = 0 => x <= 0)
    BY <2>1, <2>4
  <2> HIDE DEF x
  <2>6. past = 0 => x = 0
    BY <2>5
  <2> QED
    BY <2>1, <2>3, <2>6 DEF x
<1> HIDE DEF n
<1>8. n * CellsPerBlk \in Nat /\ n * CellsPerBlk <= Len(S.cells)
  <2>1. n * CellsPerBlk <= Len(S.segm) * CellsPerBlk /\ n * CellsPerBlk \in Nat
    BY <1>3, <1>7, BlksMonotonic
  <2> QED
    BY <1>4, <2>1
<1>9. segm \in Seq(Pos) /\ cells \in Seq(Cell) /\ B \subseteq Pos
  <2>1. segm \in Seq(Pos) /\ SubSeq(S.segm, n + 1, Len(S.segm)) \in Seq(Pos)
    BY <1>3, <1>7, PrefixFacts
  <2>2. cells \in Seq(Cell)
    <3> DEFINE k == n * CellsPerBlk
    <3>1. k \in Nat /\ k <= Len(S.cells)
      BY <1>8
    <3> HIDE DEF k
    <3>2. SubSeq(S.cells, 1, k) \in Seq(Cell)
      BY <1>3, <3>1, PrefixFacts
    <3> QED
      BY <3>2 DEF k
  <2>3. B \subseteq Pos
    <3>1. PICK q \in Seq(Pos) : q = SubSeq(S.segm, n + 1, Len(S.segm))
      BY <2>1
    <3>2. ToSet(q) \subseteq Pos
      BY ToSetFacts
    <3> QED
      BY <3>1, <3>2
  <2> QED
    BY <2>1, <2>2, <2>3
<1> HIDE DEF segm, cells, B
<1>10. S2 \in SetT /\ S2.to_add = S.to_add /\ S2.to_update = S.to_update
       /\ S2.to_destroy = S.to_destroy
  <2>1. used \in SUBSET Nat
    BY <1>5
  <2> QED
    BY <1>2, <1>6, <1>9, <2>1 DEF SetT
<1>11. v = [GivenBack(w, B) EXCEPT !.sets[s] = S2]
  BY DEF Released, B, segm, cells, n, past, U, used, S
<1> HIDE DEF v, S2
<1>12. v = [dsc |-> w.dsc, sets |-> [w.sets EXCEPT ![s] = S2],
            in_use |-> w.in_use \ B, dirty |-> w.dirty \cup B]
  <2> DEFINE g == GivenBack(w, B)
             u == [dsc |-> w.dsc, sets |-> w.sets, in_use |-> w.in_use \ B, dirty |-> w.dirty \cup B]
  <2>1. g = u
    BY <1>1, GivenBackFacts
  <2>2. u.sets = w.sets
    OBVIOUS
  <2>3. PICK ss : ss = [w.sets EXCEPT ![s] = S2]
    OBVIOUS
  <2>4. v = [g EXCEPT !.sets = [g.sets EXCEPT ![s] = S2]]
    BY <1>11
  <2>5. v = [u EXCEPT !.sets = ss]
    <3> HIDE DEF g, u
    <3> QED
      BY <2>1, <2>2, <2>3, <2>4
  <2>6. [u EXCEPT !.sets = ss] = [dsc |-> w.dsc, sets |-> ss,
                                 in_use |-> w.in_use \ B, dirty |-> w.dirty \cup B]
    BY RecordParts
  <2> QED
    BY <2>3, <2>5, <2>6
<1>13. Fine(v)
  <2>1. /\ w.in_use \ B \in SUBSET Pos /\ w.dirty \cup B \in SUBSET Pos
        /\ IsFiniteSet(w.in_use \ B)
    BY <1>1, <1>2, <1>9, FS_Difference
  <2>2. /\ \A d \in S2.to_add \cup S2.to_update : w.dsc[d].owner = s
        /\ \A d \in S2.to_destroy : IsErased(w.dsc, d)
    BY <1>1, <1>10 DEF GoodSets, S
  <2> QED
    BY <1>1, <1>10, <1>12, <2>1, <2>2, FineWithSet
<1>14. ReleasedWith(w, v, s)
  <2>1. /\ v.dsc = w.dsc /\ v.sets = [w.sets EXCEPT ![s] = S2]
        /\ v.in_use = w.in_use \ B /\ v.dirty = w.dirty \cup B
    BY <1>12
  <2>2. used \in SUBSET Nat /\ (past # 0 => past \in used)
    BY <1>5, <1>6
  <2> QED
    BY <1>6, <1>7, <2>1, <2>2 DEF ReleasedWith, S2, segm, cells, B, S, used
<1> QED
  BY <1>13, <1>14 DEF v

HeaderUpdatedWith(w, v, s) ==
  /\ v.in_use = w.in_use /\ v.dirty = w.dirty /\ v.sets = w.sets
  /\ v.dsc = [w.dsc EXCEPT ![s] = [@ EXCEPT !.data = v.dsc[s].data]]
  /\ v.dsc[s].data = IF Members(w.dsc, s) = {} THEN <<>> ELSE w.sets[s].segm

LEMMA HeaderUpdatedFacts ==
  ASSUME NEW w, Fine(w), NEW s \in Sets
  PROVE  Fine(WithHeaderUpdated(w, s)) /\ HeaderUpdatedWith(w, WithHeaderUpdated(w, s), s)
<1> DEFINE v == WithHeaderUpdated(w, s)
           x == IF Members(w.dsc, s) = {} THEN <<>> ELSE w.sets[s].segm
           r2 == [w.dsc[s] EXCEPT !.data = x]
           ds == [w.dsc EXCEPT ![s] = r2]
<1>1. w \in WT /\ GoodSets(w.dsc, w.sets) /\ GoodDscs(w.dsc) /\ IsFiniteSet(w.in_use)
  BY DEF Fine
<1>2. /\ w.dsc \in [Dscs -> DscT] /\ w.sets \in [Sets -> SetT] /\ s \in Dscs /\ s \notin Plain
      /\ w.in_use \in SUBSET Pos /\ w.dirty \in SUBSET Pos
  BY <1>1, WTFacts, SetsAreFinite
<1>3. x \in Seq(Pos)
  BY <1>2, SetTFacts, EmptySeq
<1> HIDE DEF x
<1>4. r2 \in DscT /\ r2.owner = w.dsc[s].owner /\ r2.data = x /\ r2.written = w.dsc[s].written
  <2>1. \A r \in DscT : \A y \in Seq(Pos) : LET q == [r EXCEPT !.data = y]
                         IN q \in DscT /\ q.owner = r.owner /\ q.data = y
                            /\ q.written = r.written
    BY DEF DscT
  <2> QED
    BY <1>2, <1>3, <2>1
<1> HIDE DEF r2
<1>5. v = [dsc |-> ds, sets |-> w.sets, in_use |-> w.in_use, dirty |-> w.dirty]
  <2>1. v = [w EXCEPT !.dsc = [w.dsc EXCEPT ![s] = [w.dsc[s] EXCEPT !.data = x]]]
    BY DEF WithHeaderUpdated, x
  <2>2. PICK y : y = ds
    OBVIOUS
  <2>3. v = [w EXCEPT !.dsc = y]
    BY <2>1, <2>2 DEF r2
  <2> HIDE DEF ds, v
  <2> QED
    BY <1>1, <2>2, <2>3, WithPart
<1>6. /\ ds \in [Dscs -> DscT]
      /\ \A d \in Dscs : /\ ds[d].owner = w.dsc[d].owner /\ ds[d].written = w.dsc[d].written
                         /\ ds[d].data = IF d = s THEN x ELSE w.dsc[d].data
  BY <1>2, <1>4
<1> HIDE DEF v, ds
<1>7. Fine(v)
  <2>1. v \in WT
    BY <1>2, <1>5, <1>6 DEF WT
  <2>2. GoodDscs(v.dsc)
    <3>1. v.dsc = ds
      BY <1>5
    <3>2. x \in DataOf(s)
      BY <1>2, <1>3 DEF DataOf
    <3> QED
      BY <1>1, <1>6, <3>1, <3>2 DEF GoodDscs
  <2>3. GoodSets(v.dsc, v.sets)
    <3>1. v.dsc = ds /\ v.sets = w.sets
      BY <1>5
    <3>2. \A t \in Sets : w.sets[t].to_add \cup w.sets[t].to_update \cup w.sets[t].to_destroy
                            \subseteq Dscs
      <4>1. \A t \in Sets : w.sets[t] \in SetT
        BY <1>2
      <4> QED
        BY <4>1, SetTFacts
    <3> QED
      BY <1>1, <1>6, <3>1, <3>2 DEF GoodSets, IsErased
  <2> QED
    BY <1>1, <1>5, <2>1, <2>2, <2>3 DEF Fine
<1>8. HeaderUpdatedWith(w, v, s)
  <2>1. /\ v.dsc = ds /\ v.sets = w.sets /\ v.in_use = w.in_use /\ v.dirty = w.dirty
    BY <1>5
  <2>2. ds[s].data = x
    BY <1>2, <1>6
  <2>3. ds = [w.dsc EXCEPT ![s] = [@ EXCEPT !.data = x]]
    BY DEF ds, r2
  <2> QED
    BY <2>1, <2>2, <2>3 DEF HeaderUpdatedWith, x
<1> QED
  BY <1>7, <1>8 DEF v

-----------------------------------------------------------------------------
(* The invariant of a stream and of what its set has pending *)

\* The cells that are given are of the header, of one pending removal or of
\* one descriptor.
Claimed(ds, S, s) ==
  LET M == Members(ds, s)
  IN /\ S.used = HeaderOf(S) \cup (UNION S.to_remove) \cup UNION {ds[d].ext : d \in M}
     /\ \A x \in S.to_remove :
          x \cap HeaderOf(S) = {} /\ \A y \in S.to_remove : x # y => x \cap y = {}
     /\ \A d \in M :
          /\ ds[d].ext \cap HeaderOf(S) = {} /\ ds[d].ext \cap UNION S.to_remove = {}
          /\ \A e \in M : d # e => ds[d].ext \cap ds[e].ext = {}

\* The place of d has R, whole.
HasRecord(S, d, r, R) ==
  \E lo \in Pos :
    /\ r.written = {R} /\ r.ext = lo .. lo + Footprint(d, R) - 1
    /\ \A c \in r.ext : S.cells[c] = PartOf(R, c - lo + 1)

\* Who has no place is to be added, and the others have there what was
\* written last.
Recorded(ds, S, s) ==
  \A d \in Members(ds, s) :
    /\ ds[d].ext = {} <=> d \in S.to_add
    /\ ds[d].ext # {} => \E R \in ds[d].written : HasRecord(S, d, ds[d], R)
    /\ d \notin S.to_add \cup S.to_update => \A R \in ds[d].written : R.pid = ds[d].pid

\* A free cell has a zero, or old bytes if the header left it.
Padded(S) ==
  \A c \in DOMAIN S.cells :
    /\ c <= HeaderCells => S.cells[c] = Header
    /\ c \notin S.used => S.cells[c] \in {Zero, Old} /\ (c \notin Leftover => S.cells[c] = Zero)

Records(ds, s) == UNION {ds[d].written : d \in Members(ds, s)}

CellInv(ds, S, s) ==
  /\ Room(S) /\ Claimed(ds, S, s) /\ Recorded(ds, S, s) /\ Padded(S)
  /\ S.sum = SetToBag(Records(ds, s))

SameStream(S, T) ==
  S.segm = T.segm /\ S.past = T.past /\ S.used = T.used /\ S.cells = T.cells

\* Sums of different records.
LEMMA BagFacts ==
  ASSUME NEW A, NEW B
  PROVE  /\ SetToBag(A) (-) SetToBag(B) = SetToBag(A \ B)
         /\ A \cap B = {} => SetToBag(A) (+) SetToBag(B) = SetToBag(A \cup B)
<1>1. SetToBag(A) = [e \in A |-> 1] /\ SetToBag(B) = [e \in B |-> 1]
  BY DEF SetToBag
<1>2. SetToBag(A) (-) SetToBag(B) = SetToBag(A \ B)
  <2> DEFINE b == [e \in A |-> IF e \in B THEN 1 - 1 ELSE 1]
             T == {e \in A : b[e] > 0}
  <2>1. SetToBag(A) (-) SetToBag(B) = [e \in T |-> b[e]]
    BY <1>1 DEF (-)
  <2>2. T = A \ B /\ \A e \in A \ B : b[e] = 1
    OBVIOUS
  <2>3. SetToBag(A \ B) = [e \in A \ B |-> 1]
    BY DEF SetToBag
  <2> HIDE DEF b, T
  <2> QED
    BY <2>1, <2>2, <2>3
<1>3. ASSUME A \cap B = {} PROVE SetToBag(A) (+) SetToBag(B) = SetToBag(A \cup B)
  BY <1>1, <1>3 DEF (+), SetToBag
<1> QED
  BY <1>2, <1>3

\* The record of a descriptor says of whom it is.
LEMMA RecordsOfOne ==
  ASSUME NEW ds \in [Dscs -> DscT], GoodDscs(ds), NEW d \in Dscs
  PROVE  \A R \in ds[d].written : R.dsc = d /\ ds[d].written = {R} /\ R \in RecsOf(d)
<1>1. ds[d].written = {} \/ \E r \in RecsOf(d) : ds[d].written = {r}
  BY DEF GoodDscs
<1>2. \A r \in RecsOf(d) : r.dsc = d
  BY DEF RecsOf
<1> QED
  BY <1>1, <1>2

LEMMA RecordedFacts ==
  ASSUME NEW ds, NEW S, NEW s, Recorded(ds, S, s), NEW d \in Members(ds, s)
  PROVE  /\ ds[d].ext = {} <=> d \in S.to_add
         /\ ds[d].ext # {} => \E R \in ds[d].written : HasRecord(S, d, ds[d], R)
         /\ d \notin S.to_add \cup S.to_update => \A R \in ds[d].written : R.pid = ds[d].pid
BY DEF Recorded

\* Some descriptors of a set are removed: their cells are to be given back.
LEMMA CellsDropped ==
  ASSUME NEW ds \in [Dscs -> DscT], GoodDscs(ds), NEW es, NEW S, NEW T, NEW s \in Sets,
         CellInv(ds, S, s), NEW D \in SUBSET Members(ds, s),
         Members(es, s) = Members(ds, s) \ D,
         \A d \in Members(es, s) : es[d] = ds[d],
         SameStream(S, T), T.to_add = S.to_add \ D, T.to_update = S.to_update \ D,
         T.to_remove = S.to_remove \cup {ds[d].ext : d \in D},
         T.sum = SumWithout(S.sum, ds, D)
  PROVE  CellInv(es, T, s)
<1> DEFINE M == Members(ds, s)
<1>1. /\ Members(es, s) = M \ D /\ D \subseteq M /\ \A d \in M \ D : es[d] = ds[d]
      /\ M \subseteq Dscs
  BY DEF Members
<1>2. HeaderOf(T) = HeaderOf(S) /\ T.used = S.used /\ T.cells = S.cells /\ T.segm = S.segm
      /\ T.past = S.past
  BY DEF SameStream, HeaderOf
<1>3. Room(T) /\ Padded(T)
  BY <1>2 DEF CellInv, Room, Padded
<1>4. Claimed(es, T, s)
  <2> DEFINE X == {ds[d].ext : d \in D}
             H == HeaderOf(S)
  <2>1. /\ S.used = H \cup (UNION S.to_remove) \cup UNION {ds[d].ext : d \in M}
        /\ \A x \in S.to_remove :
             x \cap H = {} /\ \A y \in S.to_remove : x # y => x \cap y = {}
        /\ \A d \in M :
             /\ ds[d].ext \cap H = {} /\ ds[d].ext \cap UNION S.to_remove = {}
             /\ \A e \in M : d # e => ds[d].ext \cap ds[e].ext = {}
    BY DEF CellInv, Claimed
  <2> HIDE DEF H, M
  <2>2. T.to_remove = S.to_remove \cup X
    OBVIOUS
  <2>3. \A x \in X : \E d \in D : x = ds[d].ext
    OBVIOUS
  <2>4. UNION T.to_remove = (UNION S.to_remove) \cup UNION X
    BY <2>2
  <2>5. UNION {ds[d].ext : d \in M} = (UNION X) \cup UNION {es[d].ext : d \in M \ D}
    BY <1>1
  <2>6. T.used = H \cup (UNION T.to_remove) \cup UNION {es[d].ext : d \in M \ D}
    BY <1>2, <2>1, <2>4, <2>5
  <2>7. ASSUME NEW x \in T.to_remove
        PROVE  x \cap H = {} /\ \A y \in T.to_remove : x # y => x \cap y = {}
    <3>1. CASE x \in S.to_remove
      <4>1. \A y \in X : x \cap y = {}
        BY <1>1, <2>1, <2>3, <3>1
      <4> QED
        BY <2>1, <2>2, <3>1, <4>1
    <3>2. CASE x \in X
      <4>1. PICK d \in D : x = ds[d].ext
        BY <2>3, <3>2
      <4>2. \A y \in S.to_remove : x \cap y = {}
        BY <1>1, <2>1, <4>1
      <4>3. \A y \in X : x # y => x \cap y = {}
        BY <1>1, <2>1, <2>3, <4>1
      <4>4. x \cap H = {}
        BY <1>1, <2>1, <4>1
      <4> HIDE DEF X
      <4> QED
        BY <2>2, <4>2, <4>3, <4>4
    <3> HIDE DEF X
    <3> QED
      BY <2>2, <3>1, <3>2
  <2>8. ASSUME NEW d \in M \ D
        PROVE  /\ es[d].ext \cap H = {} /\ es[d].ext \cap UNION T.to_remove = {}
               /\ \A e \in M \ D : d # e => es[d].ext \cap es[e].ext = {}
    <3>1. es[d] = ds[d] /\ ds[d].ext \cap H = {} /\ ds[d].ext \cap UNION S.to_remove = {}
      BY <1>1, <2>1
    <3>2. ds[d].ext \cap UNION X = {}
      BY <1>1, <2>1, <2>3
    <3>3. \A e \in M \ D : d # e => es[d].ext \cap es[e].ext = {}
      BY <1>1, <2>1
    <3> HIDE DEF X
    <3> QED
      BY <2>4, <3>1, <3>2, <3>3
  <2> HIDE DEF X
  <2> QED
    BY <1>1, <1>2, <2>6, <2>7, <2>8 DEF Claimed, H
<1>5. Recorded(es, T, s)
  <2> SUFFICES ASSUME NEW d \in M \ D
               PROVE  /\ es[d].ext = {} <=> d \in T.to_add
                      /\ es[d].ext # {} => \E R \in es[d].written : HasRecord(T, d, es[d], R)
                      /\ d \notin T.to_add \cup T.to_update
                           => \A R \in es[d].written : R.pid = es[d].pid
    BY <1>1 DEF Recorded
  <2>1. /\ ds[d].ext = {} <=> d \in S.to_add
        /\ ds[d].ext # {} => \E R \in ds[d].written : HasRecord(S, d, ds[d], R)
        /\ d \notin S.to_add \cup S.to_update => \A R \in ds[d].written : R.pid = ds[d].pid
    BY RecordedFacts DEF CellInv
  <2>2. \A R : HasRecord(S, d, ds[d], R) => HasRecord(T, d, ds[d], R)
    BY <1>2 DEF HasRecord
  <2>3. es[d] = ds[d] /\ d \notin D
    BY <1>1
  <2> QED
    BY <2>1, <2>2, <2>3
<1>6. T.sum = SetToBag(Records(es, s))
  <2> DEFINE A == Records(ds, s)
             B == UNION {ds[d].written : d \in D}
  <2>1. T.sum = SetToBag(A) (-) SetToBag(B)
    BY DEF CellInv, SumWithout
  <2>2. A \ B = Records(es, s)
    <3>1. A = UNION {ds[d].written : d \in M} /\ Records(es, s) = UNION {es[d].written : d \in M \ D}
      BY <1>1 DEF Records
    <3>2. \A d \in M \ D : \A R \in ds[d].written : R \notin B
      <4> SUFFICES ASSUME NEW d \in M \ D, NEW R \in ds[d].written, R \in B PROVE FALSE
        OBVIOUS
      <4>1. PICK e \in D : R \in ds[e].written
        OBVIOUS
      <4>2. d \in Dscs /\ e \in Dscs /\ d # e
        BY <1>1
      <4> QED
        BY <4>1, <4>2, RecordsOfOne
    <3>3. \A d \in M : \A R \in ds[d].written : d \in D => R \in B
      OBVIOUS
    <3> HIDE DEF A, B, M
    <3> QED
      BY <1>1, <3>1, <3>2, <3>3
  <2>3. PICK X, Y : X = A /\ Y = B
    OBVIOUS
  <2>4. /\ SetToBag(X) (-) SetToBag(Y) = SetToBag(X \ Y)
        /\ X \cap Y = {} => SetToBag(X) (+) SetToBag(Y) = SetToBag(X \cup Y)
    BY BagFacts
  <2> HIDE DEF A, B
  <2> QED
    BY <2>1, <2>2, <2>3, <2>4
<1> QED
  BY <1>3, <1>4, <1>5, <1>6 DEF CellInv

\* A descriptor is added to a set: it has no place there yet.
LEMMA CellsAdopted ==
  ASSUME NEW ds \in [Dscs -> DscT], GoodDscs(ds), NEW es, NEW S, NEW T, NEW s \in Sets,
         CellInv(ds, S, s), NEW d \in Dscs \ Members(ds, s),
         Members(es, s) = Members(ds, s) \cup {d}, es[d].ext = {},
         \A R \in es[d].written : R.dsc = d,
         \A e \in Members(ds, s) : es[e] = ds[e],
         SameStream(S, T), T.to_add = S.to_add \cup {d}, T.to_update = S.to_update,
         T.to_remove = S.to_remove, T.sum = S.sum (+) SetToBag(es[d].written)
  PROVE  CellInv(es, T, s)
<1> DEFINE M == Members(ds, s)
<1>1. /\ Members(es, s) = M \cup {d} /\ d \notin M /\ \A e \in M : es[e] = ds[e]
      /\ M \subseteq Dscs
  BY DEF Members
<1>2. HeaderOf(T) = HeaderOf(S) /\ T.used = S.used /\ T.cells = S.cells /\ T.segm = S.segm
      /\ T.past = S.past
  BY DEF SameStream, HeaderOf
<1>3. Room(T) /\ Padded(T)
  BY <1>2 DEF CellInv, Room, Padded
<1>4. Claimed(es, T, s)
  <2> DEFINE H == HeaderOf(S)
  <2>1. /\ S.used = H \cup (UNION S.to_remove) \cup UNION {ds[e].ext : e \in M}
        /\ \A x \in S.to_remove :
             x \cap H = {} /\ \A y \in S.to_remove : x # y => x \cap y = {}
        /\ \A e \in M :
             /\ ds[e].ext \cap H = {} /\ ds[e].ext \cap UNION S.to_remove = {}
             /\ \A f \in M : e # f => ds[e].ext \cap ds[f].ext = {}
    BY DEF CellInv, Claimed
  <2> HIDE DEF H, M
  <2>2. UNION {es[e].ext : e \in M \cup {d}} = UNION {ds[e].ext : e \in M}
    BY <1>1
  <2>3. T.used = H \cup (UNION T.to_remove) \cup UNION {es[e].ext : e \in M \cup {d}}
    BY <1>2, <2>1, <2>2
  <2>4. ASSUME NEW e \in M \cup {d}
        PROVE  /\ es[e].ext \cap H = {} /\ es[e].ext \cap UNION T.to_remove = {}
               /\ \A f \in M \cup {d} : e # f => es[e].ext \cap es[f].ext = {}
    BY <1>1, <2>1
  <2> QED
    BY <1>1, <1>2, <2>1, <2>3, <2>4 DEF Claimed, H
<1>5. Recorded(es, T, s)
  <2> SUFFICES ASSUME NEW e \in M \cup {d}
               PROVE  /\ es[e].ext = {} <=> e \in T.to_add
                      /\ es[e].ext # {} => \E R \in es[e].written : HasRecord(T, e, es[e], R)
                      /\ e \notin T.to_add \cup T.to_update
                           => \A R \in es[e].written : R.pid = es[e].pid
    BY <1>1 DEF Recorded
  <2>1. CASE e = d
    BY <2>1
  <2>2. CASE e \in M
    <3>1. /\ ds[e].ext = {} <=> e \in S.to_add
          /\ ds[e].ext # {} => \E R \in ds[e].written : HasRecord(S, e, ds[e], R)
          /\ e \notin S.to_add \cup S.to_update => \A R \in ds[e].written : R.pid = ds[e].pid
      BY <2>2, RecordedFacts DEF CellInv
    <3>2. \A R : HasRecord(S, e, ds[e], R) => HasRecord(T, e, ds[e], R)
      BY <1>2 DEF HasRecord
    <3>3. es[e] = ds[e] /\ e # d
      BY <1>1, <2>2
    <3> QED
      BY <3>1, <3>2, <3>3
  <2> QED
    BY <2>1, <2>2
<1>6. T.sum = SetToBag(Records(es, s))
  <2> DEFINE A == Records(ds, s)
             B == es[d].written
  <2>1. T.sum = SetToBag(A) (+) SetToBag(B)
    BY DEF CellInv
  <2>2. A \cup B = Records(es, s) /\ A \cap B = {}
    <3>1. A = UNION {ds[e].written : e \in M}
          /\ Records(es, s) = UNION {es[e].written : e \in M \cup {d}}
      BY <1>1 DEF Records
    <3>2. \A e \in M : \A R \in ds[e].written : R \notin B
      <4> SUFFICES ASSUME NEW e \in M, NEW R \in ds[e].written, R \in B PROVE FALSE
        OBVIOUS
      <4>1. e \in Dscs /\ e # d
        BY <1>1
      <4> QED
        BY <4>1, RecordsOfOne
    <3> HIDE DEF A, B, M
    <3>3. Records(es, s) = (UNION {es[e].written : e \in M}) \cup B
      BY <3>1 DEF B
    <3>4. \A e \in M : es[e].written = ds[e].written
      BY <1>1
    <3> QED
      BY <3>1, <3>2, <3>3, <3>4
  <2>3. PICK X, Y : X = A /\ Y = B
    OBVIOUS
  <2>4. /\ SetToBag(X) (-) SetToBag(Y) = SetToBag(X \ Y)
        /\ X \cap Y = {} => SetToBag(X) (+) SetToBag(Y) = SetToBag(X \cup Y)
    BY BagFacts
  <2> HIDE DEF A, B
  <2> QED
    BY <2>1, <2>2, <2>3, <2>4
<1> QED
  BY <1>3, <1>4, <1>5, <1>6 DEF CellInv

\* What is not in the stream changes, or more is pending.
LEMMA CellsKept ==
  ASSUME NEW ds, NEW es, NEW S, NEW T, NEW s \in Sets,
         CellInv(ds, S, s), Members(es, s) = Members(ds, s),
         \A d \in Members(ds, s) :
           /\ es[d].ext = ds[d].ext /\ es[d].written = ds[d].written
           /\ es[d].pid = ds[d].pid \/ d \in T.to_add \cup T.to_update,
         SameStream(S, T), T.to_add = S.to_add, S.to_update \subseteq T.to_update,
         T.to_remove = S.to_remove, T.sum = S.sum
  PROVE  CellInv(es, T, s)
<1> DEFINE M == Members(ds, s)
<1>1. /\ Members(es, s) = M
      /\ \A d \in M : /\ es[d].ext = ds[d].ext /\ es[d].written = ds[d].written
                      /\ es[d].pid = ds[d].pid \/ d \in T.to_add \cup T.to_update
  OBVIOUS
<1>2. HeaderOf(T) = HeaderOf(S) /\ T.used = S.used /\ T.cells = S.cells /\ T.segm = S.segm
      /\ T.past = S.past
  BY DEF SameStream, HeaderOf
<1>3. Room(T) /\ Padded(T)
  BY <1>2 DEF CellInv, Room, Padded
<1>4. Claimed(es, T, s)
  <2> HIDE DEF M
  <2>1. UNION {es[e].ext : e \in M} = UNION {ds[e].ext : e \in M}
    BY <1>1
  <2> QED
    BY <1>1, <1>2, <2>1 DEF CellInv, Claimed, M
<1>5. Recorded(es, T, s)
  <2> SUFFICES ASSUME NEW d \in M
               PROVE  /\ es[d].ext = {} <=> d \in T.to_add
                      /\ es[d].ext # {} => \E R \in es[d].written : HasRecord(T, d, es[d], R)
                      /\ d \notin T.to_add \cup T.to_update
                           => \A R \in es[d].written : R.pid = es[d].pid
    BY <1>1 DEF Recorded
  <2>1. /\ ds[d].ext = {} <=> d \in S.to_add
        /\ ds[d].ext # {} => \E R \in ds[d].written : HasRecord(S, d, ds[d], R)
        /\ d \notin S.to_add \cup S.to_update => \A R \in ds[d].written : R.pid = ds[d].pid
    BY RecordedFacts DEF CellInv
  <2>2. \A R : HasRecord(S, d, ds[d], R) => HasRecord(T, d, es[d], R)
    BY <1>1, <1>2 DEF HasRecord
  <2> QED
    BY <1>1, <2>1, <2>2
<1>6. Records(es, s) = Records(ds, s)
  BY <1>1 DEF Records
<1> QED
  BY <1>3, <1>4, <1>5, <1>6 DEF CellInv

-----------------------------------------------------------------------------
(* The invariants of the tree and of the blocks *)

IsThere(w, d) == d = Root \/ Holder(w.dsc, w.sets, d) # NoSet
IsHeld(w, d) == Root \in Above(Holders(w.dsc, w.sets), d)

\* Who is to be destroyed, is by one set; who exists is in the memory of the
\* root; only a set of the tree has sets to destroy; and who has something to
\* destroy has cells to give back.
TreeInv(w) ==
  /\ \A s, t \in Sets : s # t => w.sets[s].to_destroy \cap w.sets[t].to_destroy = {}
  /\ \A d \in Dscs : IsThere(w, d) => IsHeld(w, d)
  /\ \A d \in Dscs : ~ IsThere(w, d) => /\ w.dsc[d] = Absent
                                        /\ d \in Sets => w.sets[d] = EmptySet
  /\ \A s \in Sets : /\ w.sets[s].to_destroy \cap Sets # {} => Rooted(w.dsc, s)
                     /\ w.sets[s].to_destroy # {} => w.sets[s].to_remove # {}

\* The blocks of a descriptor: its content, or its segment.
BlksAt(w, d) == w.dsc[d].content \cup (IF d \in Sets THEN ToSet(w.sets[d].segm) ELSE {})

BlockInv(w) ==
  /\ \A d, e \in Dscs : d # e => BlksAt(w, d) \cap BlksAt(w, e) = {}
  /\ \A s \in Sets : IsInjective(w.sets[s].segm) /\ w.dsc[s].content = {}
  /\ \A d \in WithContent : IsThere(w, d) => w.dsc[d].content # {}
  /\ w.in_use = UNION {BlksAt(w, d) : d \in Dscs}

\* The memory between two calls, or two syncs.
Inv(w) ==
  /\ Fine(w) /\ TreeInv(w) /\ BlockInv(w)
  /\ \A s \in Sets : CellInv(w.dsc, w.sets[s], s)

\* Who goes on having the same ones above.
LEMMA AboveKept ==
  ASSUME NEW up \in Ups, NEW up2 \in Ups, NEW S \in SUBSET Dscs,
         \A x \in S : up2[x] = up[x] /\ (up[x] # NoSet => up[x] \in S),
         NEW d \in S
  PROVE  Above(up2, d) = Above(up, d) /\ Above(up, d) \subseteq S
<1>0. d \in Dscs
  OBVIOUS
<1>1. Above(up, d) \subseteq S
  <2>1. \A x \in Dscs : x \in S /\ up[x] # NoSet => up[x] \in S
    OBVIOUS
  <2> QED
    BY <1>0, <2>1, AboveLeast
<1>2. Above(up2, d) \subseteq Above(up, d)
  <2> DEFINE A == Above(up, d)
  <2>1. d \in A /\ \A x \in A : up[x] # NoSet => up[x] \in A
    BY <1>0, AboveFacts
  <2>2. \A x \in Dscs : x \in A /\ up2[x] # NoSet => up2[x] \in A
    BY <1>1, <2>1
  <2> HIDE DEF A
  <2>3. Above(up2, d) \subseteq A
    BY <1>0, <2>1, <2>2, AboveLeast
  <2> QED
    BY <2>3 DEF A
<1>3. Above(up, d) \subseteq Above(up2, d)
  <2> DEFINE A == Above(up2, d) \cap S
  <2>1. d \in A /\ \A x \in A : up2[x] # NoSet => up2[x] \in A
    BY <1>0, AboveFacts
  <2>2. \A x \in Dscs : x \in A /\ up[x] # NoSet => up[x] \in A
    BY <2>1
  <2> HIDE DEF A
  <2>3. Above(up, d) \subseteq A
    BY <1>0, <2>1, <2>2, AboveLeast
  <2> QED
    BY <2>3 DEF A
<1> QED
  BY <1>1, <1>2, <1>3

\* Who is below the root stays below it, if those that are moved do.
LEMMA HeldStays ==
  ASSUME NEW up \in Ups, NEW up2 \in Ups,
         \A y \in Dscs : up2[y] # up[y] => Root \in Above(up2, y),
         NEW d \in Dscs, Root \in Above(up, d)
  PROVE  Root \in Above(up2, d)
<1> DEFINE N == {y \in Dscs : Root \notin Above(up2, y)}
<1> SUFFICES ASSUME d \in N PROVE FALSE
  OBVIOUS
<1>1. \A y \in Dscs : y \in N /\ up[y] # NoSet => up[y] \in N
  <2> SUFFICES ASSUME NEW y \in Dscs, Root \notin Above(up2, y), up[y] # NoSet
               PROVE  up[y] \in Dscs /\ Root \notin Above(up2, up[y])
    OBVIOUS
  <2>1. up2[y] = up[y]
    OBVIOUS
  <2>2. up2[y] \in Dscs /\ Above(up2, y) = {y} \cup Above(up2, up2[y])
    BY <2>1, AboveUnfold
  <2> QED
    BY <2>1, <2>2
<1>2. Above(up, d) \subseteq N
  <2> HIDE DEF N
  <2> QED
    BY <1>1, AboveLeast
<1>3. Root \in Above(up2, Root)
  BY AboveFacts, SetsAreFinite
<1> QED
  BY <1>2, <1>3

\* Nobody below the root is above itself.
LEMMA NoCycle ==
  ASSUME NEW up \in Ups, up[Root] = NoSet, NEW d \in Dscs \ {Root}, Root \in Above(up, d)
  PROVE  up[d] \in Sets /\ up[d] \in Dscs /\ d \notin Above(up, up[d]) /\ up[d] # d
<1>1. up[d] # NoSet /\ up[d] \in Dscs /\ up[d] \in Sets
  <2>1. up[d] # NoSet
    BY AboveUnfold
  <2> QED
    BY <2>1, SetsAreFinite DEF Ups
<1>2. ASSUME d \in Above(up, up[d]) PROVE FALSE
  <2> DEFINE S == {x \in Dscs : d \in Above(up, x)}
  <2>1. \A x \in Dscs : x \in S /\ up[x] # NoSet => up[x] \in S
    <3> SUFFICES ASSUME NEW x \in Dscs, d \in Above(up, x), up[x] # NoSet
                 PROVE  up[x] \in Dscs /\ d \in Above(up, up[x])
      OBVIOUS
    <3>1. up[x] \in Dscs /\ Above(up, x) = {x} \cup Above(up, up[x])
      BY AboveUnfold
    <3> QED
      BY <1>2, <3>1
  <2>2. d \in S
    BY AboveFacts
  <2>3. Above(up, d) \subseteq S
    <3> HIDE DEF S
    <3> QED
      BY <2>1, <2>2, AboveLeast
  <2>4. Above(up, Root) = {Root}
    BY AboveUnfold, SetsAreFinite
  <2> QED
    BY <2>3, <2>4
<1>3. up[d] # d
  BY <1>1, <1>2, AboveFacts
<1> QED
  BY <1>1, <1>2, <1>3

\* In the tree, who holds is who owns.
LEMMA RootedHolders ==
  ASSUME NEW w, Fine(w), NEW d \in Dscs, Rooted(w.dsc, d)
  PROVE  /\ Above(Holders(w.dsc, w.sets), d) = Above(Owners(w.dsc), d)
         /\ IsHeld(w, d) /\ IsThere(w, d)
         /\ Holder(w.dsc, w.sets, d) = w.dsc[d].owner
<1> DEFINE up == Owners(w.dsc)
           hup == Holders(w.dsc, w.sets)
           S == {x \in Dscs : Rooted(w.dsc, x)}
<1>1. /\ w \in WT /\ w.dsc \in [Dscs -> DscT] /\ w.sets \in [Sets -> SetT]
      /\ GoodDscs(w.dsc) /\ GoodSets(w.dsc, w.sets)
  BY WTFacts DEF Fine
<1>2. /\ up \in Ups /\ \A x \in Dscs : up[x] = w.dsc[x].owner
      /\ hup \in Ups /\ \A x \in Dscs : hup[x] = Holder(w.dsc, w.sets, x)
  BY <1>1, OwnersAreUps, HoldersAreUps
<1>3. ASSUME NEW x \in S PROVE hup[x] = up[x] /\ (up[x] # NoSet => up[x] \in S)
  <2>1. CASE x = Root
    <3>1. w.dsc[x].owner = NoSet
      BY <1>1, <2>1, RootedFacts
    <3>2. \A t \in Sets : x \notin w.sets[t].to_destroy
      BY <1>1, <2>1 DEF GoodSets, IsErased
    <3> QED
      BY <1>1, <1>2, <3>1, <3>2, HolderFacts
  <2>2. CASE x # Root
    <3>1. w.dsc[x].owner \in Sets /\ w.dsc[x].owner # NoSet /\ Rooted(w.dsc, w.dsc[x].owner)
      BY <1>1, <2>2, RootedFacts
    <3> QED
      BY <1>1, <1>2, <3>1, HolderFacts, SetsAreFinite
  <2> QED
    BY <2>1, <2>2
<1>4. d \in S /\ S \in SUBSET Dscs
  OBVIOUS
<1>5. Above(hup, d) = Above(up, d)
  <2> HIDE DEF S, up, hup
  <2> QED
    BY <1>2, <1>3, <1>4, AboveKept
<1>6. IsHeld(w, d)
  BY <1>5 DEF IsHeld, Rooted
<1>7. hup[d] = up[d] /\ (d = Root \/ up[d] # NoSet)
  <2>1. d # Root => up[d] # NoSet
    BY <1>1, <1>2, RootedFacts
  <2> QED
    BY <1>3, <1>4, <2>1
<1> QED
  BY <1>2, <1>5, <1>6, <1>7 DEF IsThere

\* Who holds a descriptor exists, and so does who holds it, and so on.
LEMMA HolderIsThere ==
  ASSUME NEW w, Fine(w), TreeInv(w), NEW d \in Dscs, Holder(w.dsc, w.sets, d) # NoSet
  PROVE  /\ Holder(w.dsc, w.sets, d) \in Sets /\ IsThere(w, Holder(w.dsc, w.sets, d))
         /\ d # Root
<1> DEFINE hup == Holders(w.dsc, w.sets)
           h == Holder(w.dsc, w.sets, d)
<1>1. /\ w.dsc \in [Dscs -> DscT] /\ GoodDscs(w.dsc) /\ GoodSets(w.dsc, w.sets)
  BY WTFacts DEF Fine
<1>2. hup \in Ups /\ \A x \in Dscs : hup[x] = Holder(w.dsc, w.sets, x)
  BY <1>1, HoldersAreUps
<1>3. h \in Sets /\ h \in Dscs
  BY <1>1, HolderFacts, SetsAreFinite
<1>4. Rooted(w.dsc, Root) /\ Root \in Dscs
  BY <1>1, RootedFacts, SetsAreFinite
<1>5. hup[Root] = NoSet
  <2>1. w.dsc[Root].owner = NoSet
    BY <1>1, <1>4 DEF GoodDscs
  <2> QED
    BY <1>2, <1>4, <2>1, RootedHolders
<1>6. d # Root
  BY <1>2, <1>5
<1>7. Root \in Above(hup, d)
  BY DEF TreeInv, IsThere, IsHeld
<1>8. Above(hup, d) = {d} \cup Above(hup, h)
  <2> HIDE DEF hup
  <2> QED
    BY <1>2, AboveUnfold
<1>9. Root \in Above(hup, h)
  BY <1>6, <1>7, <1>8
<1>10. h = Root \/ hup[h] # NoSet
  <2> HIDE DEF hup, h
  <2> QED
    BY <1>2, <1>3, <1>9, AboveUnfold
<1> QED
  BY <1>2, <1>3, <1>6, <1>10 DEF IsThere

\* The blocks that are held do not change.
LEMMA BlocksKept ==
  ASSUME NEW w, NEW v, BlockInv(w),
         \A d \in Dscs : v.dsc[d].content = w.dsc[d].content,
         \A s \in Sets : v.sets[s].segm = w.sets[s].segm,
         \A d \in Dscs : IsThere(v, d) => IsThere(w, d),
         v.in_use = w.in_use
  PROVE  BlockInv(v)
<1>1. \A d \in Dscs : BlksAt(v, d) = BlksAt(w, d)
  BY DEF BlksAt
<1>2. WithContent \subseteq Dscs /\ Sets \subseteq Dscs
  BY SetsAssumption DEF Dscs
<1>3. UNION {BlksAt(v, d) : d \in Dscs} = UNION {BlksAt(w, d) : d \in Dscs}
  BY <1>1
<1>4. \A d \in WithContent : IsThere(v, d) => v.dsc[d].content # {}
  BY <1>2 DEF BlockInv
<1>5. \A s \in Sets : IsInjective(v.sets[s].segm) /\ v.dsc[s].content = {}
  BY <1>2 DEF BlockInv
<1>6. \A d, e \in Dscs : d # e => BlksAt(v, d) \cap BlksAt(v, e) = {}
  BY <1>1 DEF BlockInv
<1>7. v.in_use = UNION {BlksAt(v, d) : d \in Dscs}
  BY <1>3 DEF BlockInv
<1> QED
  BY <1>4, <1>5, <1>6, <1>7 DEF BlockInv

-----------------------------------------------------------------------------
(* The calls of the user: removals *)

\* A set after the ones of M were removed from it, to be destroyed.
DropSet(S, ds, M) ==
  [S EXCEPT !.to_add = @ \ M, !.to_update = @ \ M,
            !.to_remove = @ \cup {ds[d].ext : d \in M},
            !.to_destroy = @ \cup M,
            !.sum = SumWithout(@, ds, M)]

\* The memory after the ones of D were removed from their sets.
DropAll(w, D) ==
  [dsc |-> [d \in Dscs |-> IF d \in D THEN [w.dsc[d] EXCEPT !.owner = NoSet, !.notified = TRUE]
                           ELSE w.dsc[d]],
   sets |-> [t \in Sets |-> DropSet(w.sets[t], w.dsc, Members(w.dsc, t) \cap D)],
   in_use |-> w.in_use, dirty |-> w.dirty]

LEMMA DropSetFacts ==
  ASSUME NEW S \in SetT, NEW ds \in [Dscs -> DscT], NEW M \in SUBSET Dscs
  PROVE  LET T == DropSet(S, ds, M)
         IN /\ T \in SetT /\ SameStream(S, T)
            /\ T.to_add = S.to_add \ M /\ T.to_update = S.to_update \ M
            /\ T.to_remove = S.to_remove \cup {ds[d].ext : d \in M}
            /\ T.to_destroy = S.to_destroy \cup M
            /\ T.sum = SumWithout(S.sum, ds, M)
<1>1. {ds[d].ext : d \in M} \in SUBSET (SUBSET Nat)
  <2>1. \A d \in M : ds[d] \in DscT
    OBVIOUS
  <2>2. \A d \in M : ds[d].ext \in SUBSET Nat
    BY <2>1, DscTFacts
  <2> QED
    BY <2>2
<1>2. SumWithout(S.sum, ds, M) \in Sums
  <2>1. \A d \in M : ds[d] \in DscT
    OBVIOUS
  <2>2. \A d \in M : ds[d].written \in SUBSET Recs
    BY <2>1, DscTFacts
  <2>3. PICK X \in SUBSET Recs : X = UNION {ds[d].written : d \in M}
    BY <2>2
  <2>4. PICK A \in Sums : A = S.sum
    BY SetTFacts
  <2>5. A (-) SetToBag(X) \in Sums
    BY SumFacts
  <2> QED
    BY <2>3, <2>4, <2>5 DEF SumWithout
<1>3. PICK X \in SUBSET (SUBSET Nat), A \in Sums :
        X = {ds[d].ext : d \in M} /\ A = SumWithout(S.sum, ds, M)
  BY <1>1, <1>2
<1>4. DropSet(S, ds, M) = [S EXCEPT !.to_add = @ \ M, !.to_update = @ \ M,
                             !.to_remove = @ \cup X, !.to_destroy = @ \cup M, !.sum = A]
  BY <1>3 DEF DropSet
<1>5. LET T == [S EXCEPT !.to_add = @ \ M, !.to_update = @ \ M,
                         !.to_remove = @ \cup X, !.to_destroy = @ \cup M, !.sum = A]
      IN /\ T \in SetT /\ SameStream(S, T)
         /\ T.to_add = S.to_add \ M /\ T.to_update = S.to_update \ M
         /\ T.to_remove = S.to_remove \cup X
         /\ T.to_destroy = S.to_destroy \cup M /\ T.sum = A
  BY DEF SetT, SameStream
<1> QED
  BY <1>3, <1>4, <1>5

LEMMA DroppedFacts ==
  ASSUME NEW w, Inv(w), NEW D \in SUBSET {d \in Dscs : w.dsc[d].owner # NoSet},
         \A t \in Sets : (w.sets[t].to_destroy \cup (Members(w.dsc, t) \cap D)) \cap Sets # {}
                           => Rooted(DropAll(w, D).dsc, t)
  PROVE  Inv(DropAll(w, D))
<1> DEFINE v == DropAll(w, D)
           M(t) == Members(w.dsc, t) \cap D
<1>1. /\ w \in WT /\ GoodDscs(w.dsc) /\ GoodSets(w.dsc, w.sets) /\ IsFiniteSet(w.in_use)
      /\ TreeInv(w) /\ BlockInv(w) /\ Fine(w)
      /\ \A s \in Sets : CellInv(w.dsc, w.sets[s], s)
  BY DEF Fine, Inv
<1>2. /\ w.dsc \in [Dscs -> DscT] /\ w.sets \in [Sets -> SetT]
      /\ w.in_use \in SUBSET Pos /\ w.dirty \in SUBSET Pos
  BY <1>1, WTFacts
<1>3. /\ v.in_use = w.in_use /\ v.dirty = w.dirty
      /\ v.dsc = [d \in Dscs |-> IF d \in D
                                 THEN [w.dsc[d] EXCEPT !.owner = NoSet, !.notified = TRUE]
                                 ELSE w.dsc[d]]
      /\ v.sets = [t \in Sets |-> DropSet(w.sets[t], w.dsc, M(t))]
      /\ v = [dsc |-> v.dsc, sets |-> v.sets, in_use |-> w.in_use, dirty |-> w.dirty]
  BY DEF DropAll
<1> HIDE DEF v
<1>4. ASSUME NEW d \in Dscs
      PROVE  /\ v.dsc[d] \in DscT /\ v.dsc[d].ext = w.dsc[d].ext
             /\ v.dsc[d].written = w.dsc[d].written /\ v.dsc[d].data = w.dsc[d].data
             /\ v.dsc[d].content = w.dsc[d].content
             /\ d \in D => v.dsc[d].owner = NoSet
             /\ d \notin D => v.dsc[d] = w.dsc[d]
  <2>1. PICK r \in DscT : r = w.dsc[d]
    BY <1>2
  <2> DEFINE x == v.dsc[d]
  <2>2. x = IF d \in D THEN [r EXCEPT !.owner = NoSet, !.notified = TRUE] ELSE r
    BY <1>3, <2>1
  <2> HIDE DEF x
  <2>3. CASE d \in D
    <3>1. x = [r EXCEPT !.owner = NoSet, !.notified = TRUE]
      BY <2>2, <2>3
    <3>2. /\ x \in DscT /\ x.ext = r.ext /\ x.written = r.written
          /\ x.data = r.data /\ x.content = r.content /\ x.owner = NoSet
      BY ONLY <3>1, r \in DscT DEF DscT
    <3> QED
      BY <2>1, <2>3, <3>2 DEF x
  <2>4. CASE d \notin D
    BY <2>1, <2>2, <2>4 DEF x
  <2> QED
    BY <2>3, <2>4
<1>5. ASSUME NEW t \in Sets
      PROVE  /\ v.sets[t] \in SetT /\ SameStream(w.sets[t], v.sets[t])
             /\ v.sets[t].to_add = w.sets[t].to_add \ M(t)
             /\ v.sets[t].to_update = w.sets[t].to_update \ M(t)
             /\ v.sets[t].to_remove = w.sets[t].to_remove \cup {w.dsc[d].ext : d \in M(t)}
             /\ v.sets[t].to_destroy = w.sets[t].to_destroy \cup M(t)
             /\ v.sets[t].sum = SumWithout(w.sets[t].sum, w.dsc, M(t))
  <2> DEFINE N == M(t)
             S == w.sets[t]
  <2>1. N \in SUBSET Dscs /\ S \in SetT
    BY <1>2 DEF Members
  <2>2. v.sets[t] = DropSet(S, w.dsc, N)
    BY <1>3
  <2> HIDE DEF N, S
  <2>3. LET T == DropSet(S, w.dsc, N)
        IN /\ T \in SetT /\ SameStream(S, T)
           /\ T.to_add = S.to_add \ N /\ T.to_update = S.to_update \ N
           /\ T.to_remove = S.to_remove \cup {w.dsc[d].ext : d \in N}
           /\ T.to_destroy = S.to_destroy \cup N
           /\ T.sum = SumWithout(S.sum, w.dsc, N)
    BY <1>2, <2>1, DropSetFacts
  <2> QED
    BY <2>2, <2>3 DEF N, S
<1>6. \A t \in Sets : /\ w.sets[t].to_add \cup w.sets[t].to_update \subseteq Members(w.dsc, t)
                      /\ \A d \in w.sets[t].to_destroy : IsErased(w.dsc, d) /\ d \in Dscs
  <2> SUFFICES ASSUME NEW t \in Sets
               PROVE  /\ w.sets[t].to_add \cup w.sets[t].to_update \subseteq Members(w.dsc, t)
                      /\ \A d \in w.sets[t].to_destroy : IsErased(w.dsc, d) /\ d \in Dscs
    OBVIOUS
  <2>1. w.sets[t] \in SetT
    BY <1>2
  <2> QED
    BY <1>1, <2>1, SetTFacts DEF GoodSets, Members
<1>7. Fine(v)
  <2>1. v \in WT
    <3>1. v.dsc \in [Dscs -> DscT] /\ v.sets \in [Sets -> SetT]
      BY <1>3, <1>4, <1>5
    <3> QED
      BY <1>2, <1>3, <3>1 DEF WT
  <2>2. GoodDscs(v.dsc)
    <3> SUFFICES ASSUME NEW d \in Dscs
                 PROVE  /\ v.dsc[d].owner # NoSet => d # Root /\ v.dsc[d].data \in DataOf(d)
                        /\ \/ v.dsc[d].written = {}
                           \/ \E r \in RecsOf(d) : v.dsc[d].written = {r}
      BY DEF GoodDscs
    <3> QED
      BY <1>1, <1>4 DEF GoodDscs
  <2>3. GoodSets(v.dsc, v.sets)
    <3> SUFFICES ASSUME NEW t \in Sets
                 PROVE  /\ \A d \in v.sets[t].to_add \cup v.sets[t].to_update : v.dsc[d].owner = t
                        /\ \A d \in v.sets[t].to_destroy : IsErased(v.dsc, d)
      BY DEF GoodSets
    <3>1. ASSUME NEW d \in v.sets[t].to_add \cup v.sets[t].to_update
          PROVE  v.dsc[d].owner = t
      <4>1. d \in Members(w.dsc, t) /\ d \notin D
        BY <1>5, <1>6
      <4> QED
        BY <1>4, <4>1 DEF Members
    <3>2. ASSUME NEW d \in v.sets[t].to_destroy PROVE IsErased(v.dsc, d)
      <4>1. CASE d \in w.sets[t].to_destroy
        <5>1. d \in Dscs /\ IsErased(w.dsc, d)
          BY <1>6, <4>1
        <5> QED
          BY <1>4, <5>1 DEF IsErased
      <4>2. CASE d \in M(t)
        <5>1. d \in Dscs /\ d \in D /\ w.dsc[d].owner # NoSet
          BY <4>2
        <5> QED
          BY <1>1, <1>4, <5>1 DEF IsErased, GoodDscs
      <4> QED
        BY <1>5, <4>1, <4>2
    <3> QED
      BY <3>1, <3>2
  <2> QED
    BY <1>1, <1>3, <2>1, <2>2, <2>3 DEF Fine
<1>8. v.dsc \in [Dscs -> DscT]
  BY <1>3, <1>4
<1>9. ASSUME NEW d \in Dscs PROVE Holder(v.dsc, v.sets, d) = Holder(w.dsc, w.sets, d)
  <2>1. CASE d \in D
    <3> DEFINE t == w.dsc[d].owner
    <3>1. t \in Sets /\ t # NoSet /\ d \in M(t)
      <4>1. t \in Sets \cup {NoSet} /\ t # NoSet
        BY <1>2, <2>1, DscTFacts
      <4> QED
        BY <2>1, <4>1 DEF Members
    <3>2. Holder(w.dsc, w.sets, d) = t
      BY <1>2, <3>1, HolderFacts
    <3>3. \A u \in Sets : d \in v.sets[u].to_destroy => u = t
      <4> SUFFICES ASSUME NEW u \in Sets, d \in v.sets[u].to_destroy PROVE u = t
        OBVIOUS
      <4>1. d \notin w.sets[u].to_destroy
        BY <1>6, <3>1 DEF IsErased
      <4>2. d \in M(u)
        BY <1>5, <4>1
      <4> QED
        BY <4>2 DEF Members
    <3>4. d \in v.sets[t].to_destroy
      BY <1>5, <3>1
    <3>5. Holder(v.dsc, v.sets, d) # NoSet
      BY <1>8, <3>1, <3>4, HolderFacts
    <3>6. /\ v.dsc[d].owner = NoSet /\ Holder(v.dsc, v.sets, d) \in Sets \cup {NoSet}
      BY <1>4, <1>8, <2>1, HolderFacts
    <3>7. d \in v.sets[Holder(v.dsc, v.sets, d)].to_destroy
      BY <1>8, <3>5, <3>6, HolderFacts
    <3> QED
      BY <3>2, <3>3, <3>5, <3>6, <3>7
  <2>2. CASE d \notin D
    <3>1. \A t \in Sets : d \in v.sets[t].to_destroy <=> d \in w.sets[t].to_destroy
      BY <1>5, <2>2
    <3> DEFINE H1 == {t \in Sets : d \in v.sets[t].to_destroy}
               H2 == {t \in Sets : d \in w.sets[t].to_destroy}
    <3>2. H1 = H2
      BY <3>1
    <3>3. v.dsc[d] = w.dsc[d]
      BY <1>4, <2>2
    <3>4. Holder(v.dsc, v.sets, d) = IF v.dsc[d].owner # NoSet THEN v.dsc[d].owner
                                     ELSE IF H1 = {} THEN NoSet ELSE CHOOSE s \in H1 : TRUE
      BY DEF Holder
    <3>5. Holder(w.dsc, w.sets, d) = IF w.dsc[d].owner # NoSet THEN w.dsc[d].owner
                                     ELSE IF H2 = {} THEN NoSet ELSE CHOOSE s \in H2 : TRUE
      BY DEF Holder
    <3> HIDE DEF H1, H2
    <3> QED
      BY <3>2, <3>3, <3>4, <3>5
  <2> QED
    BY <2>1, <2>2
<1>10. /\ Holders(v.dsc, v.sets) = Holders(w.dsc, w.sets)
       /\ \A d \in Dscs : IsThere(v, d) <=> IsThere(w, d)
       /\ \A d \in Dscs : IsHeld(v, d) <=> IsHeld(w, d)
  <2>1. Holders(v.dsc, v.sets) = Holders(w.dsc, w.sets)
    BY <1>9 DEF Holders
  <2> QED
    BY <1>9, <2>1 DEF IsThere, IsHeld
<1>11. \A s \in Sets : CellInv(v.dsc, v.sets[s], s)
  <2> SUFFICES ASSUME NEW s \in Sets PROVE CellInv(v.dsc, v.sets[s], s)
    OBVIOUS
  <2> DEFINE N == M(s)
             S == w.sets[s]
             T == v.sets[s]
             ds == w.dsc
             es == v.dsc
  <2>0. s # NoSet
    BY SetsAreFinite
  <2>1. Members(es, s) = Members(ds, s) \ N /\ N \in SUBSET Members(ds, s)
    BY <1>4, <2>0 DEF Members
  <2>2. \A d \in Members(es, s) : es[d] = ds[d]
    <3>1. \A d \in Members(es, s) : d \in Dscs /\ d \notin D
      BY <2>1 DEF Members
    <3> QED
      BY <1>4, <3>1
  <2>3. /\ SameStream(S, T)
        /\ T.to_add = S.to_add \ N /\ T.to_update = S.to_update \ N
        /\ T.to_remove = S.to_remove \cup {ds[d].ext : d \in N}
        /\ T.sum = SumWithout(S.sum, ds, N)
    BY <1>5
  <2>4. ds \in [Dscs -> DscT] /\ GoodDscs(ds) /\ CellInv(ds, S, s)
    BY <1>1, <1>2
  <2> HIDE DEF N, S, T, ds, es
  <2>5. CellInv(es, T, s)
    BY <2>1, <2>2, <2>3, <2>4, CellsDropped
  <2> QED
    BY <2>5 DEF es, T
<1>12. TreeInv(v)
  <2>1. ASSUME NEW s \in Sets, NEW t \in Sets, s # t
        PROVE  v.sets[s].to_destroy \cap v.sets[t].to_destroy = {}
    <3> SUFFICES ASSUME NEW d \in v.sets[s].to_destroy, d \in v.sets[t].to_destroy PROVE FALSE
      OBVIOUS
    <3>1. d \in w.sets[s].to_destroy \/ d \in M(s)
      BY <1>5
    <3>2. d \in w.sets[t].to_destroy \/ d \in M(t)
      BY <1>5
    <3>3. \A u \in Sets : ~ (d \in w.sets[u].to_destroy /\ w.dsc[d].owner # NoSet)
      BY <1>6 DEF IsErased
    <3>4. \A u \in Sets : d \in M(u) => w.dsc[d].owner = u /\ u # NoSet
      BY SetsAreFinite DEF Members
    <3>5. w.sets[s].to_destroy \cap w.sets[t].to_destroy = {}
      BY <1>1, <2>1 DEF TreeInv
    <3> QED
      BY <2>1, <3>1, <3>2, <3>3, <3>4, <3>5
  <2>2. \A d \in Dscs : IsThere(v, d) => IsHeld(v, d)
    BY <1>1, <1>10 DEF TreeInv
  <2>3. ASSUME NEW d \in Dscs, ~ IsThere(v, d)
        PROVE  v.dsc[d] = Absent /\ (d \in Sets => v.sets[d] = EmptySet)
    <3>1. ~ IsThere(w, d)
      BY <1>10, <2>3
    <3>2. w.dsc[d] = Absent /\ (d \in Sets => w.sets[d] = EmptySet)
      BY <1>1, <3>1 DEF TreeInv
    <3>3. d \notin D
      BY <3>2 DEF Absent
    <3>4. v.dsc[d] = Absent
      BY <1>4, <3>2, <3>3
    <3>5. ASSUME d \in Sets PROVE v.sets[d] = EmptySet
      <4>1. M(d) = {}
        <5> SUFFICES ASSUME NEW x \in M(d) PROVE FALSE
          OBVIOUS
        <5>1. x \in Dscs /\ w.dsc[x].owner = d /\ d # NoSet
          BY <3>5, SetsAreFinite DEF Members
        <5>2. Holder(w.dsc, w.sets, x) = d
          BY <1>2, <5>1, HolderFacts
        <5> QED
          BY <1>1, <3>1, <5>1, <5>2, HolderIsThere
      <4>2. v.sets[d] = DropSet(EmptySet, w.dsc, {})
        <5>1. v.sets[d] = DropSet(w.sets[d], w.dsc, M(d))
          BY <1>3, <3>5
        <5> QED
          BY <3>2, <3>5, <4>1, <5>1
      <4>3. SumWithout(EmptyBag, w.dsc, {}) = EmptyBag
        <5>1. SetToBag({}) (-) SetToBag({}) = SetToBag({} \ {})
          BY BagFacts
        <5>2. EmptyBag = SetToBag({}) /\ {} \ {} = {}
          BY DEF EmptyBag
        <5>3. UNION {w.dsc[x].written : x \in {}} = {}
          OBVIOUS
        <5> QED
          BY <5>1, <5>2, <5>3 DEF SumWithout
      <4>4. DropSet(EmptySet, w.dsc, {}) = EmptySet
        <5>1. EmptySet.sum = EmptyBag
          BY DEF EmptySet
        <5>2. DropSet(EmptySet, w.dsc, {})
                = [EmptySet EXCEPT !.to_add = {}, !.to_update = {}, !.to_remove = {},
                                   !.to_destroy = {}, !.sum = EmptyBag]
          BY <4>3, <5>1 DEF DropSet, EmptySet
        <5> QED
          BY <5>2 DEF EmptySet
      <4> QED
        BY <4>2, <4>4
    <3> QED
      BY <3>4, <3>5
  <2>4. ASSUME NEW t \in Sets
        PROVE  /\ v.sets[t].to_destroy \cap Sets # {} => Rooted(v.dsc, t)
               /\ v.sets[t].to_destroy # {} => v.sets[t].to_remove # {}
    <3>1. v.sets[t].to_destroy = w.sets[t].to_destroy \cup M(t)
      BY <1>5
    <3>2. v.sets[t].to_destroy \cap Sets # {} => Rooted(v.dsc, t)
      BY <3>1 DEF v
    <3>3. w.sets[t].to_destroy # {} => w.sets[t].to_remove # {}
      BY <1>1 DEF TreeInv
    <3>4. v.sets[t].to_remove = w.sets[t].to_remove \cup {w.dsc[d].ext : d \in M(t)}
      BY <1>5
    <3>5. \A d \in M(t) : w.dsc[d].ext \in v.sets[t].to_remove
      BY <3>4
    <3>6. v.sets[t].to_destroy # {} => v.sets[t].to_remove # {}
      BY <3>1, <3>3, <3>4, <3>5
    <3> QED
      BY <3>2, <3>6
  <2> QED
    BY <2>1, <2>2, <2>3, <2>4 DEF TreeInv
<1>13. BlockInv(v)
  <2>1. \A d \in Dscs : v.dsc[d].content = w.dsc[d].content
    BY <1>4
  <2>2. \A s \in Sets : v.sets[s].segm = w.sets[s].segm
    BY <1>5 DEF SameStream
  <2> QED
    BY <1>1, <1>3, <1>10, <2>1, <2>2, BlocksKept
<1> QED
  BY <1>7, <1>11, <1>12, <1>13 DEF Inv, v

\* Who is above one that is above d, is above d.
LEMMA AboveThrough ==
  ASSUME NEW up \in Ups, NEW d \in Dscs, NEW x \in Above(up, d)
  PROVE  x \in Dscs /\ Above(up, x) \subseteq Above(up, d)
<1>1. /\ Above(up, d) \subseteq Sets \cup {d}
      /\ \A y \in Above(up, d) : up[y] # NoSet => up[y] \in Above(up, d)
  BY AboveFacts
<1>2. x \in Dscs
  BY <1>1, SetsAreFinite
<1> DEFINE S == Above(up, d)
<1>3. x \in S /\ \A y \in Dscs : y \in S /\ up[y] # NoSet => up[y] \in S
  BY <1>1
<1> HIDE DEF S
<1>4. Above(up, x) \subseteq S
  BY <1>2, <1>3, AboveLeast
<1> QED
  BY <1>2, <1>4 DEF S

\* Nobody below the root is above who is directly above it, however high.
LEMMA NoneAboveAgain ==
  ASSUME NEW up \in Ups, up[Root] = NoSet, NEW d \in Dscs, Root \in Above(up, d),
         NEW x \in Above(up, d), up[x] # NoSet
  PROVE  d \notin Above(up, up[x])
<1>1. CASE d = Root
  <2>1. Above(up, d) = {d}
    BY <1>1, AboveUnfold
  <2> QED
    BY <1>1, <2>1
<1>2. CASE d # Root
  <2>1. up[d] \in Dscs /\ d \notin Above(up, up[d])
    BY <1>2, NoCycle
  <2>2. up[d] # NoSet
    BY <2>1, SetsAreFinite
  <2>3. Above(up, d) = {d} \cup Above(up, up[d])
    BY <2>2, AboveUnfold
  <2>4. up[x] \in Above(up, up[d])
    <3>1. CASE x = d
      BY <2>1, <3>1, AboveFacts
    <3>2. CASE x \in Above(up, up[d])
      BY <2>1, <3>2, AboveFacts
    <3> QED
      BY <2>3, <3>1, <3>2
  <2>5. Above(up, up[x]) \subseteq Above(up, up[d])
    BY <2>1, <2>4, AboveThrough
  <2> QED
    BY <2>1, <2>5
<1> QED
  BY <1>1, <1>2

LEMMA DropNothing ==
  ASSUME NEW S \in SetT, NEW ds, NEW X, S.sum = SetToBag(X)
  PROVE  DropSet(S, ds, {}) = S
<1>1. SumWithout(S.sum, ds, {}) = S.sum
  <2>1. SetToBag(X) (-) SetToBag({}) = SetToBag(X \ {})
    BY BagFacts
  <2>2. X \ {} = X /\ UNION {ds[x].written : x \in {}} = {}
    OBVIOUS
  <2> QED
    BY <2>1, <2>2 DEF SumWithout
<1>2. DropSet(S, ds, {})
        = [S EXCEPT !.to_add = S.to_add, !.to_update = S.to_update,
                    !.to_remove = S.to_remove, !.to_destroy = S.to_destroy, !.sum = S.sum]
  BY <1>1 DEF DropSet
<1> QED
  BY <1>2 DEF SetT

\* What was changed is pending. Before the tree is loaded, who notified it too.
Unforgotten(w, fresh) ==
  \A d \in Plain : w.dsc[d].owner # NoSet =>
    \/ w.dsc[d].written = {Record(d, w.dsc[d])} /\ ~ (fresh /\ w.dsc[d].notified)
    \/ d \in w.sets[w.dsc[d].owner].to_add \cup w.sets[w.dsc[d].owner].to_update

LEMMA UnforgottenKept ==
  ASSUME NEW w, NEW v, NEW fresh, Unforgotten(w, fresh),
         \A d \in Plain : v.dsc[d].owner # NoSet =>
           \/ d \in v.sets[v.dsc[d].owner].to_add \cup v.sets[v.dsc[d].owner].to_update
           \/ /\ v.dsc[d].owner = w.dsc[d].owner /\ v.dsc[d].data = w.dsc[d].data
              /\ v.dsc[d].pid = w.dsc[d].pid /\ v.dsc[d].written = w.dsc[d].written
              /\ v.dsc[d].notified = w.dsc[d].notified
              /\ d \notin w.sets[w.dsc[d].owner].to_add \cup w.sets[w.dsc[d].owner].to_update
  PROVE  Unforgotten(v, fresh)
BY DEF Unforgotten, Record

LEMMA DroppedUnforgotten ==
  ASSUME NEW w, Inv(w), NEW D \in SUBSET Dscs, NEW fresh, Unforgotten(w, fresh)
  PROVE  Unforgotten(DropAll(w, D), fresh)
<1> DEFINE v == DropAll(w, D)
<1>1. w \in WT /\ GoodDscs(w.dsc) /\ w.dsc \in [Dscs -> DscT] /\ w.sets \in [Sets -> SetT]
  BY WTFacts DEF Inv, Fine
<1>2. /\ v.dsc = [d \in Dscs |-> IF d \in D
                                 THEN [w.dsc[d] EXCEPT !.owner = NoSet, !.notified = TRUE]
                                 ELSE w.dsc[d]]
      /\ v.sets = [t \in Sets |-> DropSet(w.sets[t], w.dsc, Members(w.dsc, t) \cap D)]
  BY DEF DropAll
<1> HIDE DEF v
<1>3. ASSUME NEW d \in Plain, v.dsc[d].owner # NoSet
      PROVE  LET t == v.dsc[d].owner
             IN /\ v.dsc[d] = w.dsc[d]
                /\ d \in w.sets[t].to_add => d \in v.sets[t].to_add
                /\ d \in w.sets[t].to_update => d \in v.sets[t].to_update
  <2> DEFINE t == w.dsc[d].owner
             N == Members(w.dsc, t) \cap D
  <2>1. d \in Dscs
    BY SetsAreFinite
  <2>2. d \notin D
    <3> SUFFICES ASSUME d \in D PROVE FALSE
      OBVIOUS
    <3>1. PICK r \in DscT : r = w.dsc[d]
      BY <1>1, <2>1
    <3>2. v.dsc[d] = [r EXCEPT !.owner = NoSet, !.notified = TRUE]
      BY <1>2, <2>1, <3>1
    <3>3. [r EXCEPT !.owner = NoSet, !.notified = TRUE].owner = NoSet
      BY DEF DscT
    <3> QED
      BY <1>3, <3>2, <3>3
  <2>3. v.dsc[d] = w.dsc[d] /\ t # NoSet
    BY <1>2, <1>3, <2>1, <2>2
  <2>4. t \in Sets
    <3>1. w.dsc[d] \in DscT
      BY <1>1, <2>1
    <3> QED
      BY <2>3, <3>1, DscTFacts
  <2>5. v.sets[t] = DropSet(w.sets[t], w.dsc, N) /\ N \in SUBSET Dscs /\ d \notin N
    BY <1>2, <2>2, <2>4 DEF Members
  <2>6. w.sets[t] \in SetT
    BY <1>1, <2>4
  <2> HIDE DEF N
  <2>7. /\ DropSet(w.sets[t], w.dsc, N).to_add = w.sets[t].to_add \ N
        /\ DropSet(w.sets[t], w.dsc, N).to_update = w.sets[t].to_update \ N
    BY <1>1, <2>5, <2>6, DropSetFacts
  <2> QED
    BY <2>3, <2>5, <2>7
<1>4. \A d \in Plain : v.dsc[d].owner # NoSet =>
        \/ d \in v.sets[v.dsc[d].owner].to_add \cup v.sets[v.dsc[d].owner].to_update
        \/ /\ v.dsc[d].owner = w.dsc[d].owner /\ v.dsc[d].data = w.dsc[d].data
           /\ v.dsc[d].pid = w.dsc[d].pid /\ v.dsc[d].written = w.dsc[d].written
           /\ v.dsc[d].notified = w.dsc[d].notified
           /\ d \notin w.sets[w.dsc[d].owner].to_add \cup w.sets[w.dsc[d].owner].to_update
  BY <1>3
<1>5. Unforgotten(v, fresh)
  BY <1>4, UnforgottenKept
<1> QED
  BY <1>5 DEF v

\* One descriptor is erased, that has nobody below that has sets to destroy.
LEMMA ErasedFacts ==
  ASSUME NEW w, Inv(w), NEW d \in Dscs \ {Root}, Rooted(w.dsc, d),
         \A t \in Sets : d \in Above(Owners(w.dsc), t) => w.sets[t].to_destroy \cap Sets = {}
  PROVE  LET v == [dsc |-> [w.dsc EXCEPT ![d] = SetOwner(@, NoSet)],
                   sets |-> Dropped(w.dsc, w.sets, d, FALSE),
                   in_use |-> w.in_use, dirty |-> w.dirty]
         IN /\ Inv(v)
            /\ \A fresh \in BOOLEAN : Unforgotten(w, fresh) => Unforgotten(v, fresh)
            /\ \A t \in Dscs : d \notin Above(Owners(w.dsc), t) /\ Rooted(w.dsc, t)
                                 => Rooted(v.dsc, t)
<1> DEFINE es == [w.dsc EXCEPT ![d] = SetOwner(@, NoSet)]
           v == [dsc |-> es, sets |-> Dropped(w.dsc, w.sets, d, FALSE),
                 in_use |-> w.in_use, dirty |-> w.dirty]
           s == w.dsc[d].owner
<1>1. /\ w \in WT /\ GoodDscs(w.dsc) /\ TreeInv(w) /\ w.dsc \in [Dscs -> DscT]
      /\ w.sets \in [Sets -> SetT]
      /\ \A t \in Sets : CellInv(w.dsc, w.sets[t], t)
  BY WTFacts DEF Inv, Fine
<1>2. s \in Sets /\ s # NoSet /\ Rooted(w.dsc, s)
  BY <1>1, RootedFacts
<1>3. /\ Owners(w.dsc) \in Ups /\ \A x \in Dscs : Owners(w.dsc)[x] = w.dsc[x].owner
      /\ Owners(w.dsc)[Root] = NoSet
  <2>1. w.dsc[Root].owner = NoSet /\ Root \in Dscs
    BY <1>1, RootedFacts, SetsAreFinite
  <2> QED
    BY <1>1, <2>1, OwnersAreUps
<1>4. v = DropAll(w, {d})
  <2>1. es = [x \in Dscs |-> IF x \in {d}
                             THEN [w.dsc[x] EXCEPT !.owner = NoSet, !.notified = TRUE]
                             ELSE w.dsc[x]]
    BY <1>1 DEF SetOwner
  <2>2. ASSUME NEW t \in Sets
        PROVE  Dropped(w.dsc, w.sets, d, FALSE)[t]
                 = DropSet(w.sets[t], w.dsc, Members(w.dsc, t) \cap {d})
    <3>1. CASE t = s
      <4>1. Members(w.dsc, t) \cap {d} = {d}
        BY <3>1 DEF Members
      <4>2. {w.dsc[x].ext : x \in {d}} = {w.dsc[d].ext}
        OBVIOUS
      <4>3. Dropped(w.dsc, w.sets, d, FALSE)[t]
              = [w.sets[t] EXCEPT !.to_add = @ \ {d}, !.to_update = @ \ {d},
                   !.to_remove = @ \cup {w.dsc[d].ext}, !.to_destroy = @ \cup {d},
                   !.sum = SumWithout(@, w.dsc, {d})]
        BY <1>1, <3>1 DEF Dropped, KeptToDestroy, SetT
      <4> QED
        BY <4>1, <4>2, <4>3 DEF DropSet
    <3>2. CASE t # s
      <4>1. Members(w.dsc, t) \cap {d} = {}
        BY <3>2 DEF Members
      <4>2. w.sets[t].sum = SetToBag(Records(w.dsc, t)) /\ w.sets[t] \in SetT
        BY <1>1 DEF CellInv
      <4>3. DropSet(w.sets[t], w.dsc, {}) = w.sets[t]
        BY <4>2, DropNothing
      <4>4. Dropped(w.dsc, w.sets, d, FALSE)[t] = w.sets[t]
        BY <1>1, <3>2 DEF Dropped
      <4> QED
        BY <4>1, <4>3, <4>4
    <3> QED
      BY <3>1, <3>2
  <2>3. Dropped(w.dsc, w.sets, d, FALSE)
          = [t \in Sets |-> DropSet(w.sets[t], w.dsc, Members(w.dsc, t) \cap {d})]
    <3>1. DOMAIN Dropped(w.dsc, w.sets, d, FALSE) = Sets
      BY <1>1 DEF Dropped
    <3>2. Dropped(w.dsc, w.sets, d, FALSE)
            = [t \in Sets |-> Dropped(w.dsc, w.sets, d, FALSE)[t]]
      <4>1. Dropped(w.dsc, w.sets, d, FALSE)
              = [w.sets EXCEPT ![s] = Dropped(w.dsc, w.sets, d, FALSE)[s]]
        BY <1>1, <1>2 DEF Dropped
      <4> QED
        BY <1>1, <3>1, <4>1
    <3> QED
      BY <2>2, <3>2
  <2> QED
    BY <2>1, <2>3 DEF DropAll
<1>5. ASSUME NEW t \in Dscs, d \notin Above(Owners(w.dsc), t), Rooted(w.dsc, t)
      PROVE  Rooted(v.dsc, t)
  <2>1. es \in [Dscs -> DscT]
    <3>1. w.dsc[d] \in DscT
      BY <1>1
    <3>2. SetOwner(w.dsc[d], NoSet) \in DscT
      BY <3>1 DEF SetOwner, DscT
    <3> QED
      BY <1>1, <3>2
  <2>2. Owners(es) \in Ups
    BY <2>1, OwnersAreUps
  <2> DEFINE up == Owners(w.dsc)
             up2 == Owners(es)
             S == Above(up, t)
  <2>3. ASSUME NEW x \in S
        PROVE  x \in Dscs /\ up2[x] = up[x] /\ (up[x] # NoSet => up[x] \in S)
    <3>1. x \in Dscs
      BY <1>3, <2>3, AboveThrough
    <3>2. x # d
      BY <1>5, <2>3
    <3>3. es[x] = w.dsc[x]
      BY <1>1, <3>1, <3>2
    <3> QED
      BY <1>3, <2>3, <3>1, <3>3, AboveFacts DEF Owners
  <2>4. t \in S /\ S \in SUBSET Dscs
    BY <1>3, <2>3, AboveFacts
  <2>5. up \in Ups /\ up2 \in Ups /\ Root \in Above(up, t)
    BY <1>3, <1>5, <2>2 DEF Rooted
  <2> HIDE DEF up, up2, S
  <2>6. Above(up2, t) = Above(up, t)
    BY <2>3, <2>4, <2>5, AboveKept
  <2> QED
    BY <2>5, <2>6 DEF Rooted, up2
<1>6. \A t \in Sets : (w.sets[t].to_destroy \cup (Members(w.dsc, t) \cap {d})) \cap Sets # {}
                        => Rooted(DropAll(w, {d}).dsc, t)
  <2> SUFFICES ASSUME NEW t \in Sets,
                      (w.sets[t].to_destroy \cup (Members(w.dsc, t) \cap {d})) \cap Sets # {}
               PROVE  Rooted(DropAll(w, {d}).dsc, t)
    OBVIOUS
  <2>0. t \in Dscs
    BY SetsAreFinite
  <2>1. CASE t = s
    <3>1. d \notin Above(Owners(w.dsc), s)
      BY <1>3, NoCycle DEF Rooted
    <3> QED
      BY <1>2, <1>4, <1>5, <2>0, <2>1, <3>1
  <2>2. CASE t # s
    <3>1. Members(w.dsc, t) \cap {d} = {}
      BY <2>2 DEF Members
    <3>2. w.sets[t].to_destroy \cap Sets # {}
      BY <3>1
    <3>3. Rooted(w.dsc, t)
      BY <1>1, <3>2 DEF TreeInv
    <3>4. d \notin Above(Owners(w.dsc), t)
      BY <3>2
    <3> QED
      BY <1>4, <1>5, <2>0, <3>3, <3>4
  <2> QED
    BY <2>1, <2>2
<1>7. {d} \in SUBSET {x \in Dscs : w.dsc[x].owner # NoSet} /\ {d} \in SUBSET Dscs
  BY <1>2
<1>8. Inv(DropAll(w, {d}))
  BY <1>6, <1>7, DroppedFacts
<1>9. \A fresh \in BOOLEAN : Unforgotten(w, fresh) => Unforgotten(DropAll(w, {d}), fresh)
  BY <1>7, DroppedUnforgotten
<1> QED
  BY <1>4, <1>5, <1>8, <1>9

TreeOf(ds, s) == {t \in Sets : s \in Above(Owners(ds), t)}

\* A set and the ones below are cleared: nothing below it has sets.
LEMMA ClearedFacts ==
  ASSUME NEW w, Inv(w), NEW s \in Sets, Rooted(w.dsc, s),
         \A t \in TreeOf(w.dsc, s) \ {s} :
           (Members(w.dsc, t) \cup w.sets[t].to_destroy) \cap Sets = {}
  PROVE  LET v == [dsc |-> [d \in Dscs |-> IF w.dsc[d].owner \in TreeOf(w.dsc, s)
                                           THEN SetOwner(w.dsc[d], NoSet) ELSE w.dsc[d]],
                   sets |-> [t \in Sets |->
                     IF t \notin TreeOf(w.dsc, s) THEN w.sets[t]
                     ELSE LET M == Members(w.dsc, t)
                          IN [w.sets[t] EXCEPT
                                !.to_add = {}, !.to_update = {},
                                !.to_remove = @ \cup {w.dsc[d].ext : d \in M},
                                !.to_destroy = @ \cup M,
                                !.sum = SumWithout(@, w.dsc, M)]],
                   in_use |-> w.in_use, dirty |-> w.dirty]
         IN /\ Inv(v)
            /\ \A fresh \in BOOLEAN : Unforgotten(w, fresh) => Unforgotten(v, fresh)
<1> DEFINE T == TreeOf(w.dsc, s)
           D == {d \in Dscs : w.dsc[d].owner \in T}
           ds2 == [d \in Dscs |-> IF w.dsc[d].owner \in T
                                  THEN SetOwner(w.dsc[d], NoSet) ELSE w.dsc[d]]
           Cleared(t) == [w.sets[t] EXCEPT
                            !.to_add = {}, !.to_update = {},
                            !.to_remove = @ \cup {w.dsc[d].ext : d \in Members(w.dsc, t)},
                            !.to_destroy = @ \cup Members(w.dsc, t),
                            !.sum = SumWithout(@, w.dsc, Members(w.dsc, t))]
           ss2 == [t \in Sets |-> IF t \notin T THEN w.sets[t] ELSE Cleared(t)]
           v == [dsc |-> ds2, sets |-> ss2, in_use |-> w.in_use, dirty |-> w.dirty]
           up == Owners(w.dsc)
<1>1. /\ w \in WT /\ GoodDscs(w.dsc) /\ TreeInv(w) /\ w.dsc \in [Dscs -> DscT]
      /\ w.sets \in [Sets -> SetT] /\ GoodSets(w.dsc, w.sets)
      /\ \A t \in Sets : CellInv(w.dsc, w.sets[t], t)
  BY WTFacts DEF Inv, Fine
<1>2. /\ up \in Ups /\ \A x \in Dscs : up[x] = w.dsc[x].owner
      /\ up[Root] = NoSet /\ T \subseteq Sets /\ NoSet \notin T
  <2>1. w.dsc[Root].owner = NoSet /\ Root \in Dscs
    BY <1>1, RootedFacts, SetsAreFinite
  <2>2. T \subseteq Sets /\ NoSet \notin Sets
    BY SetsAreFinite DEF TreeOf
  <2>3. Owners(w.dsc) \in Ups /\ \A x \in Dscs : Owners(w.dsc)[x] = w.dsc[x].owner
    BY <1>1, OwnersAreUps
  <2> QED
    BY <2>1, <2>2, <2>3
<1>3. v = DropAll(w, D)
  <2>1. ds2 = [d \in Dscs |-> IF d \in D THEN [w.dsc[d] EXCEPT !.owner = NoSet, !.notified = TRUE]
                              ELSE w.dsc[d]]
    <3>1. \A d \in Dscs : d \in D <=> w.dsc[d].owner \in T
      OBVIOUS
    <3> HIDE DEF D, T
    <3> QED
      BY <3>1 DEF SetOwner
  <2>2. ASSUME NEW t \in Sets
        PROVE  ss2[t] = DropSet(w.sets[t], w.dsc, Members(w.dsc, t) \cap D)
    <3>1. CASE t \in T
      <4>1. Members(w.dsc, t) \cap D = Members(w.dsc, t)
        BY <3>1 DEF Members
      <4>2. /\ w.sets[t].to_add \ Members(w.dsc, t) = {}
            /\ w.sets[t].to_update \ Members(w.dsc, t) = {}
        <5>1. w.sets[t] \in SetT
          BY <1>1
        <5> QED
          BY <1>1, <5>1, SetTFacts DEF GoodSets, Members
      <4>3. ss2[t] = Cleared(t)
        BY <3>1
      <4> HIDE DEF ss2, D, T
      <4> QED
        BY <4>1, <4>2, <4>3 DEF DropSet
    <3>2. CASE t \notin T
      <4>1. Members(w.dsc, t) \cap D = {}
        BY <3>2 DEF Members
      <4>2. w.sets[t].sum = SetToBag(Records(w.dsc, t)) /\ w.sets[t] \in SetT
        BY <1>1 DEF CellInv
      <4>3. DropSet(w.sets[t], w.dsc, {}) = w.sets[t]
        BY <4>2, DropNothing
      <4>4. ss2[t] = w.sets[t]
        BY <3>2
      <4> QED
        BY <4>1, <4>3, <4>4
    <3> QED
      BY <3>1, <3>2
  <2>3. ss2 = [t \in Sets |-> ss2[t]]
    BY Zenon
  <2> HIDE DEF D, T, ss2, ds2
  <2> QED
    BY <2>1, <2>2, <2>3 DEF DropAll
<1>4. D \in SUBSET {d \in Dscs : w.dsc[d].owner # NoSet} /\ D \in SUBSET Dscs
  BY <1>2
<1>5. DropAll(w, D).dsc = ds2
  <2>1. v.dsc = ds2
    OBVIOUS
  <2> HIDE DEF v, D, ds2
  <2> QED
    BY <1>3, <2>1
<1>6. ds2 \in [Dscs -> DscT]
  <2>1. ASSUME NEW d \in Dscs PROVE ds2[d] \in DscT
    <3>1. w.dsc[d] \in DscT
      BY <1>1
    <3>2. SetOwner(w.dsc[d], NoSet) \in DscT
      BY <3>1 DEF SetOwner, DscT
    <3> QED
      BY <3>1, <3>2
  <2> HIDE DEF T
  <2> QED
    BY <2>1
<1>7. ASSUME NEW t \in Sets, Rooted(w.dsc, t),
             \A x \in Above(up, t) : x \notin D
      PROVE  Rooted(ds2, t)
  <2>1. Owners(ds2) \in Ups /\ \A x \in Dscs : Owners(ds2)[x] = ds2[x].owner
    BY <1>6, OwnersAreUps
  <2> DEFINE up2 == Owners(ds2)
             S == Above(up, t)
  <2>0. t \in Dscs
    BY SetsAreFinite
  <2>2. ASSUME NEW x \in S
        PROVE  x \in Dscs /\ up2[x] = up[x] /\ (up[x] # NoSet => up[x] \in S)
    <3>1. x \in Dscs
      BY <1>2, <2>0, <2>2, AboveThrough
    <3>2. ds2[x] = w.dsc[x]
      BY <1>7, <2>2, <3>1
    <3>3. up2[x] = up[x]
      BY <1>2, <2>1, <3>1, <3>2
    <3> QED
      BY <1>2, <2>0, <2>2, <3>1, <3>3, AboveFacts
  <2>3. t \in S /\ S \in SUBSET Dscs
    BY <1>2, <2>0, <2>2, AboveFacts
  <2>4. up \in Ups /\ up2 \in Ups /\ Root \in Above(up, t)
    BY <1>2, <1>7, <2>1 DEF Rooted
  <2> HIDE DEF up, up2, S
  <2>5. Above(up2, t) = Above(up, t)
    BY <2>2, <2>3, <2>4, AboveKept
  <2> QED
    BY <2>4, <2>5 DEF Rooted, up2
<1>8. ASSUME NEW t \in Sets, NEW x \in Above(up, t), x \in D PROVE t \in T
  <2>0. t \in Dscs
    BY SetsAreFinite
  <2>1. up[x] \in T /\ up[x] # NoSet
    BY <1>2, <1>8
  <2>2. s \in Above(up, up[x])
    BY <2>1 DEF TreeOf
  <2>3. up[x] \in Above(up, t)
    BY <1>2, <1>8, <2>0, <2>1, AboveFacts
  <2>4. Above(up, up[x]) \subseteq Above(up, t)
    BY <1>2, <2>0, <2>3, AboveThrough
  <2> QED
    BY <2>2, <2>4 DEF TreeOf
<1>9. \A t \in Sets : (w.sets[t].to_destroy \cup (Members(w.dsc, t) \cap D)) \cap Sets # {}
                        => Rooted(DropAll(w, D).dsc, t)
  <2> SUFFICES ASSUME NEW t \in Sets,
                      (w.sets[t].to_destroy \cup (Members(w.dsc, t) \cap D)) \cap Sets # {}
               PROVE  Rooted(ds2, t)
    BY <1>5
  <2>0. t \in Dscs
    BY SetsAreFinite
  <2>1. CASE t = s
    <3>1. ASSUME NEW x \in Above(up, s), x \in D PROVE FALSE
      <4>0. s \in Dscs
        BY SetsAreFinite
      <4>1. up[x] \in T /\ up[x] # NoSet
        BY <1>2, <3>1
      <4>2. s \notin Above(up, up[x])
        BY <1>2, <3>1, <4>0, <4>1, NoneAboveAgain DEF Rooted
      <4> QED
        BY <4>1, <4>2 DEF TreeOf
    <3> QED
      BY <1>7, <2>1, <3>1
  <2>2. CASE t \in T /\ t # s
    BY <2>2
  <2>3. CASE t \notin T
    <3>1. Members(w.dsc, t) \cap D = {}
      BY <2>3 DEF Members
    <3>2. w.sets[t].to_destroy \cap Sets # {}
      BY <3>1
    <3>3. Rooted(w.dsc, t)
      BY <1>1, <3>2 DEF TreeInv
    <3>4. \A x \in Above(up, t) : x \notin D
      BY <1>8, <2>3
    <3> QED
      BY <1>7, <3>3, <3>4
  <2> QED
    BY <2>1, <2>2, <2>3
<1>10. Inv(DropAll(w, D)) /\ \A fresh \in BOOLEAN : Unforgotten(w, fresh) => Unforgotten(DropAll(w, D), fresh)
  <2> HIDE DEF D
  <2>1. Inv(DropAll(w, D))
    BY <1>4, <1>9, DroppedFacts
  <2> QED
    BY <1>4, <2>1, DroppedUnforgotten
<1> HIDE DEF D
<1> QED
  BY <1>3, <1>10

-----------------------------------------------------------------------------
(* The calls of the user: additions and moves *)

SameSets(S, T) ==
  /\ SameStream(S, T) /\ S.to_update = T.to_update /\ S.to_remove = T.to_remove
  /\ S.to_destroy = T.to_destroy

LEMMA AdoptedFacts ==
  ASSUME NEW ds \in [Dscs -> DscT], NEW ss \in [Sets -> SetT], NEW d \in Dscs, NEW s \in Sets
  PROVE  LET tt == Adopted(ds, ss, d, s)
         IN /\ tt \in [Sets -> SetT] /\ \A t \in Sets \ {s} : tt[t] = ss[t]
            /\ SameSets(ss[s], tt[s]) /\ tt[s].to_add = ss[s].to_add \cup {d}
            /\ tt[s].sum = ss[s].sum (+) SetToBag(ds[d].written)
<1>1. PICK S \in SetT : S = ss[s]
  OBVIOUS
<1>2. PICK A \in Sums : A = S.sum (+) SetToBag(ds[d].written)
  <2>1. ds[d] \in DscT
    OBVIOUS
  <2>2. PICK X \in SUBSET Recs : X = ds[d].written
    BY <2>1, DscTFacts
  <2>3. S.sum \in Sums
    BY SetTFacts
  <2>4. S.sum (+) SetToBag(X) \in Sums
    BY <2>3, SumFacts
  <2> QED
    BY <2>2, <2>4
<1>3. PICK B \in SUBSET Dscs : B = S.to_add \cup {d}
  <2>1. S.to_add \in SUBSET Dscs
    BY SetTFacts
  <2> QED
    BY <2>1
<1> DEFINE S2 == [S EXCEPT !.to_add = B, !.sum = A]
<1>4. /\ S2 \in SetT /\ SameSets(S, S2) /\ S2.to_add = B /\ S2.sum = A
  BY DEF SetT, SameSets, SameStream
<1>5. Adopted(ds, ss, d, s) = [ss EXCEPT ![s] = S2]
  BY <1>1, <1>2, <1>3 DEF Adopted
<1> HIDE DEF S2
<1> QED
  BY <1>1, <1>2, <1>3, <1>4, <1>5

\* What moves leaves its set.
LeftWith(ds, ss, tt, d, s) ==
  /\ tt \in [Sets -> SetT] /\ \A t \in Sets \ {s} : tt[t] = ss[t]
  /\ SameStream(ss[s], tt[s]) /\ tt[s].to_add = ss[s].to_add \ {d}
  /\ tt[s].to_update = ss[s].to_update \ {d}
  /\ tt[s].to_remove = ss[s].to_remove \cup {ds[d].ext}
  /\ tt[s].to_destroy = ss[s].to_destroy
  /\ tt[s].sum = SumWithout(ss[s].sum, ds, {d})

LEMMA DroppedToMove ==
  ASSUME NEW ds \in [Dscs -> DscT], NEW ss \in [Sets -> SetT], NEW d \in Dscs,
         NEW s \in Sets, ds[d].owner = s
  PROVE  LeftWith(ds, ss, Dropped(ds, ss, d, TRUE), d, s)
<1>1. PICK S \in SetT : S = ss[s]
  OBVIOUS
<1>2. /\ DropSet(S, ds, {d}).sum = SumWithout(S.sum, ds, {d}) /\ DropSet(S, ds, {d}) \in SetT
      /\ DropSet(S, ds, {d}).to_remove = S.to_remove \cup {ds[x].ext : x \in {d}}
  BY DropSetFacts
<1>3. PICK A \in Sums : A = SumWithout(S.sum, ds, {d})
  <2>1. DropSet(S, ds, {d}).sum \in Sums
    BY <1>2, SetTFacts
  <2> QED
    BY <1>2, <2>1
<1>4. PICK X \in SUBSET (SUBSET Nat) : X = S.to_remove \cup {ds[d].ext}
  <2>1. DropSet(S, ds, {d}).to_remove \in SUBSET (SUBSET Nat)
    BY <1>2, SetTFacts
  <2>2. {ds[x].ext : x \in {d}} = {ds[d].ext}
    OBVIOUS
  <2> QED
    BY <1>2, <2>1, <2>2
<1> DEFINE S2 == [S EXCEPT !.to_add = @ \ {d}, !.to_update = @ \ {d}, !.to_remove = X,
                           !.to_destroy = @, !.sum = A]
<1>5. /\ S2 \in SetT /\ SameStream(S, S2) /\ S2.to_add = S.to_add \ {d}
      /\ S2.to_update = S.to_update \ {d} /\ S2.to_remove = X
      /\ S2.to_destroy = S.to_destroy /\ S2.sum = A
  BY DEF SetT, SameStream
<1>6. Dropped(ds, ss, d, TRUE) = [ss EXCEPT ![s] = S2]
  BY <1>1, <1>3, <1>4 DEF Dropped, KeptToDestroy
<1> HIDE DEF S2
<1>7. LeftWith(ds, ss, [ss EXCEPT ![s] = S2], d, s)
  BY <1>1, <1>3, <1>4, <1>5 DEF LeftWith
<1> QED
  BY <1>6, <1>7

\* d gets another owner, that is not below it: the tree is still one, and
\* who is in it stays.
LEMMA TreeMoved ==
  ASSUME NEW w, Fine(w), TreeInv(w), NEW v, Fine(v), NEW d \in Dscs \ {Root}, NEW home \in Sets,
         Rooted(w.dsc, home), d \notin Above(Owners(w.dsc), home),
         v.dsc[d].owner = home,
         \A x \in Dscs \ {d} : v.dsc[x] = w.dsc[x],
         \A t \in Sets : /\ v.sets[t].to_destroy = w.sets[t].to_destroy
                         /\ w.sets[t].to_remove \subseteq v.sets[t].to_remove,
         \A t \in Sets \ {home} : ~ IsThere(w, t) => v.sets[t] = w.sets[t]
  PROVE  /\ TreeInv(v) /\ \A x \in Dscs \ {d} : IsThere(v, x) <=> IsThere(w, x)
         /\ IsThere(v, d) /\ \A x \in Dscs : Rooted(w.dsc, x) \/ x = d => Rooted(v.dsc, x)
<1>1. /\ w.dsc \in [Dscs -> DscT] /\ v.dsc \in [Dscs -> DscT] /\ GoodDscs(w.dsc)
      /\ GoodDscs(v.dsc) /\ GoodSets(w.dsc, w.sets)
  BY WTFacts DEF Fine
<1>2. home # NoSet /\ home \in Dscs /\ Root \in Dscs /\ NoSet \notin Dscs
  BY SetsAreFinite
<1> DEFINE up == Owners(w.dsc)
           up2 == Owners(v.dsc)
           hs == Holders(w.dsc, w.sets)
           hs2 == Holders(v.dsc, v.sets)
<1>3. up \in Ups /\ up2 \in Ups /\ hs \in Ups /\ hs2 \in Ups
  BY <1>1, OwnersAreUps, HoldersAreUps
<1>4. /\ \A x \in Dscs : up[x] = w.dsc[x].owner /\ up2[x] = v.dsc[x].owner
      /\ \A x \in Dscs : hs[x] = Holder(w.dsc, w.sets, x) /\ hs2[x] = Holder(v.dsc, v.sets, x)
  BY <1>1, OwnersAreUps, HoldersAreUps
<1>5. ASSUME NEW x \in Dscs \ {d} PROVE Holder(v.dsc, v.sets, x) = Holder(w.dsc, w.sets, x)
  <2> DEFINE H1 == {t \in Sets : x \in v.sets[t].to_destroy}
             H2 == {t \in Sets : x \in w.sets[t].to_destroy}
  <2>1. H1 = H2
    OBVIOUS
  <2>2. v.dsc[x] = w.dsc[x]
    OBVIOUS
  <2>3. Holder(v.dsc, v.sets, x) = IF v.dsc[x].owner # NoSet THEN v.dsc[x].owner
                                   ELSE IF H1 = {} THEN NoSet ELSE CHOOSE s \in H1 : TRUE
    BY DEF Holder
  <2>4. Holder(w.dsc, w.sets, x) = IF w.dsc[x].owner # NoSet THEN w.dsc[x].owner
                                   ELSE IF H2 = {} THEN NoSet ELSE CHOOSE s \in H2 : TRUE
    BY DEF Holder
  <2> HIDE DEF H1, H2
  <2> QED
    BY <2>1, <2>2, <2>3, <2>4
<1>6. Holder(v.dsc, v.sets, d) = home
  BY <1>1, <1>2, HolderFacts
<1>7. /\ \A x \in Dscs \ {d} : hs2[x] = hs[x] /\ up2[x] = up[x]
      /\ hs2[d] = home /\ up2[d] = home
  BY <1>4, <1>5, <1>6
<1>8. Above(hs, home) = Above(up, home) /\ Root \in Above(up, home)
  BY <1>2, RootedHolders DEF Rooted
<1>9. Above(up2, home) = Above(up, home) /\ Above(hs2, home) = Above(hs, home)
  <2>1. ASSUME NEW a \in Ups, NEW b \in Ups, d \notin Above(a, home),
               \A x \in Dscs \ {d} : b[x] = a[x]
        PROVE  Above(b, home) = Above(a, home)
    <3> DEFINE S == Above(a, home)
    <3>1. ASSUME NEW x \in S
          PROVE  x \in Dscs /\ b[x] = a[x] /\ (a[x] # NoSet => a[x] \in S)
      <4>1. x \in Dscs
        BY <1>2, <3>1, AboveThrough
      <4>2. x # d
        BY <2>1, <3>1
      <4> QED
        BY <1>2, <2>1, <3>1, <4>1, <4>2, AboveFacts
    <3>2. home \in S /\ S \in SUBSET Dscs
      BY <1>2, <3>1, AboveFacts
    <3> HIDE DEF S
    <3>3. Above(b, home) = Above(a, home)
      BY <3>1, <3>2, AboveKept
    <3> QED
      BY <3>3
  <2> HIDE DEF up, up2, hs, hs2
  <2>2. Above(up2, home) = Above(up, home)
    <3>1. d \notin Above(up, home)
      BY DEF up
    <3> QED
      BY <1>3, <1>7, <2>1, <3>1
  <2>3. Above(hs2, home) = Above(hs, home)
    <3>1. d \notin Above(hs, home)
      BY <1>8 DEF up
    <3> QED
      BY <1>3, <1>7, <2>1, <3>1
  <2> QED
    BY <2>2, <2>3
<1> HIDE DEF up, up2, hs, hs2
<1>10. Root \in Above(up2, d) /\ Root \in Above(hs2, d)
  <2>1. /\ Above(up2, d) = {d} \cup Above(up2, home)
        /\ Above(hs2, d) = {d} \cup Above(hs2, home)
    BY <1>2, <1>3, <1>7, AboveUnfold
  <2> QED
    BY <1>8, <1>9, <2>1
<1>11. ASSUME NEW x \in Dscs PROVE /\ Root \in Above(up, x) => Root \in Above(up2, x)
                                   /\ Root \in Above(hs, x) => Root \in Above(hs2, x)
  <2>1. /\ \A y \in Dscs : up2[y] # up[y] => Root \in Above(up2, y)
        /\ \A y \in Dscs : hs2[y] # hs[y] => Root \in Above(hs2, y)
    BY <1>7, <1>10
  <2>2. Root \in Above(up, x) => Root \in Above(up2, x)
    BY <1>3, <2>1, HeldStays
  <2>3. Root \in Above(hs, x) => Root \in Above(hs2, x)
    BY <1>3, <2>1, HeldStays
  <2> QED
    BY <2>2, <2>3
<1>12. \A x \in Dscs : Rooted(w.dsc, x) \/ x = d => Rooted(v.dsc, x)
  BY <1>10, <1>11 DEF Rooted, up, up2
<1>13. /\ \A x \in Dscs \ {d} : IsThere(v, x) <=> IsThere(w, x)
       /\ IsThere(v, d)
  BY <1>2, <1>5, <1>6 DEF IsThere
<1>14. \A x \in Dscs : IsThere(v, x) => IsHeld(v, x)
  <2> SUFFICES ASSUME NEW x \in Dscs, IsThere(v, x) PROVE Root \in Above(hs2, x)
    BY DEF IsHeld, hs2
  <2>1. CASE x = d
    BY <1>10, <2>1
  <2>2. CASE x # d
    <3>1. IsThere(w, x)
      BY <1>13, <2>2
    <3>2. IsHeld(w, x)
      BY <3>1 DEF TreeInv
    <3> QED
      BY <1>11, <3>2 DEF IsHeld, hs
  <2> QED
    BY <2>1, <2>2
<1>15. ASSUME NEW x \in Dscs, ~ IsThere(v, x)
       PROVE  v.dsc[x] = Absent /\ (x \in Sets => v.sets[x] = EmptySet)
  <2>1. x # d
    BY <1>13, <1>15
  <2>2. ~ IsThere(w, x)
    BY <1>13, <1>15, <2>1
  <2>3. w.dsc[x] = Absent /\ (x \in Sets => w.sets[x] = EmptySet)
    BY <2>2 DEF TreeInv
  <2>4. x # home
    <3>1. IsThere(w, home)
      BY <1>2, RootedHolders
    <3> QED
      BY <2>2, <3>1
  <2> QED
    BY <2>1, <2>2, <2>3, <2>4
<1>16. ASSUME NEW t \in Sets
       PROVE  /\ v.sets[t].to_destroy \cap Sets # {} => Rooted(v.dsc, t)
              /\ v.sets[t].to_destroy # {} => v.sets[t].to_remove # {}
  <2>1. /\ w.sets[t].to_destroy \cap Sets # {} => Rooted(w.dsc, t)
        /\ w.sets[t].to_destroy # {} => w.sets[t].to_remove # {}
    BY DEF TreeInv
  <2>2. t \in Dscs
    BY SetsAreFinite
  <2> QED
    BY <1>12, <2>1, <2>2
<1>17. \A s, t \in Sets : s # t => v.sets[s].to_destroy \cap v.sets[t].to_destroy = {}
  BY DEF TreeInv
<1>18. TreeInv(v)
  BY <1>14, <1>15, <1>16, <1>17 DEF TreeInv
<1> QED
  BY <1>12, <1>13, <1>18

\* d moves to another set, that is not below it.
LEMMA MovedFacts ==
  ASSUME NEW w, Inv(w), NEW d \in Dscs \ {Root}, NEW home \in Sets,
         Rooted(w.dsc, d), Rooted(w.dsc, home), home # w.dsc[d].owner,
         d \notin Above(Owners(w.dsc), home)
  PROVE  LET v == [dsc |-> [w.dsc EXCEPT ![d] = [SetOwner(@, home) EXCEPT !.ext = {}]],
                   sets |-> Adopted(w.dsc, Dropped(w.dsc, w.sets, d, TRUE), d, home),
                   in_use |-> w.in_use, dirty |-> w.dirty]
         IN /\ Inv(v)
            /\ \A fresh \in BOOLEAN : Unforgotten(w, fresh) => Unforgotten(v, fresh)
            /\ \A x \in Dscs : Rooted(w.dsc, x) => Rooted(v.dsc, x)
<1> DEFINE s == w.dsc[d].owner
           ds == w.dsc
           es == [w.dsc EXCEPT ![d] = [SetOwner(@, home) EXCEPT !.ext = {}]]
           mid == Dropped(w.dsc, w.sets, d, TRUE)
           ss2 == Adopted(w.dsc, mid, d, home)
           v == [dsc |-> es, sets |-> ss2, in_use |-> w.in_use, dirty |-> w.dirty]
<1>1. /\ Fine(w) /\ w \in WT /\ GoodDscs(ds) /\ TreeInv(w) /\ ds \in [Dscs -> DscT]
      /\ w.sets \in [Sets -> SetT] /\ GoodSets(ds, w.sets) /\ BlockInv(w)
      /\ \A t \in Sets : CellInv(ds, w.sets[t], t)
      /\ w.in_use \in SUBSET Pos /\ w.dirty \in SUBSET Pos /\ IsFiniteSet(w.in_use)
  BY WTFacts DEF Inv, Fine
<1>2. s \in Sets /\ s # NoSet /\ d \in Dscs /\ home # NoSet
  BY <1>1, RootedFacts, SetsAreFinite
<1>3. /\ es[d] \in DscT /\ es[d].owner = home /\ es[d].ext = {} /\ es[d].data = ds[d].data
      /\ es[d].written = ds[d].written /\ es[d].content = ds[d].content
      /\ \A x \in Dscs \ {d} : es[x] = ds[x]
      /\ es \in [Dscs -> DscT]
  <2>1. PICK r \in DscT : r = ds[d]
    BY <1>1, <1>2
  <2> DEFINE q == [SetOwner(r, home) EXCEPT !.ext = {}]
  <2>2. /\ q \in DscT /\ q.owner = home /\ q.ext = {} /\ q.data = r.data
        /\ q.written = r.written /\ q.content = r.content
    BY <2>1 DEF SetOwner, DscT
  <2>3. es = [ds EXCEPT ![d] = q]
    BY <2>1
  <2> HIDE DEF q, es
  <2> QED
    BY <1>1, <1>2, <2>1, <2>2, <2>3
<1>4. /\ mid \in [Sets -> SetT] /\ \A t \in Sets \ {s} : mid[t] = w.sets[t]
      /\ SameStream(w.sets[s], mid[s]) /\ mid[s].to_add = w.sets[s].to_add \ {d}
      /\ mid[s].to_update = w.sets[s].to_update \ {d}
      /\ mid[s].to_remove = w.sets[s].to_remove \cup {ds[d].ext}
      /\ mid[s].to_destroy = w.sets[s].to_destroy
      /\ mid[s].sum = SumWithout(w.sets[s].sum, ds, {d})
  <2>1. ds[d].owner = s
    OBVIOUS
  <2> HIDE DEF s, ds
  <2>2. s \in Sets /\ ds \in [Dscs -> DscT]
    BY <1>1, <1>2
  <2>4. d \in Dscs /\ w.sets \in [Sets -> SetT]
    BY <1>1
  <2>3. LeftWith(ds, w.sets, Dropped(ds, w.sets, d, TRUE), d, s)
    BY ONLY <2>1, <2>2, <2>4, DroppedToMove
  <2> QED
    BY <2>3 DEF ds, LeftWith
<1>5. /\ ss2 \in [Sets -> SetT] /\ \A t \in Sets \ {home} : ss2[t] = mid[t]
      /\ SameSets(mid[home], ss2[home]) /\ ss2[home].to_add = mid[home].to_add \cup {d}
      /\ ss2[home].sum = mid[home].sum (+) SetToBag(ds[d].written)
  <2>1. ds \in [Dscs -> DscT] /\ d \in Dscs /\ home \in Sets /\ mid \in [Sets -> SetT]
    BY <1>1, <1>2, <1>4
  <2>2. ss2 = Adopted(ds, mid, d, home)
    OBVIOUS
  <2> HIDE DEF mid, ss2, ds
  <2>3. /\ Adopted(ds, mid, d, home) \in [Sets -> SetT]
        /\ \A t \in Sets \ {home} : Adopted(ds, mid, d, home)[t] = mid[t]
        /\ SameSets(mid[home], Adopted(ds, mid, d, home)[home])
        /\ Adopted(ds, mid, d, home)[home].to_add = mid[home].to_add \cup {d}
        /\ Adopted(ds, mid, d, home)[home].sum = mid[home].sum (+) SetToBag(ds[d].written)
    BY ONLY <2>1, AdoptedFacts
  <2> QED
    BY ONLY <2>2, <2>3
<1>6. home # s /\ mid[home] = w.sets[home] /\ ss2[s] = mid[s]
  BY <1>2, <1>4, <1>5
<1> HIDE DEF es, mid, ss2
<1>7. \A t \in Sets : /\ ss2[t].to_destroy = w.sets[t].to_destroy
                      /\ w.sets[t].to_remove \subseteq ss2[t].to_remove
                      /\ ss2[t].segm = w.sets[t].segm
  <2> SUFFICES ASSUME NEW t \in Sets
               PROVE  /\ ss2[t].to_destroy = w.sets[t].to_destroy
                      /\ w.sets[t].to_remove \subseteq ss2[t].to_remove
                      /\ ss2[t].segm = w.sets[t].segm
    OBVIOUS
  <2>1. CASE t = s
    BY <1>4, <1>6, <2>1 DEF SameStream
  <2>2. CASE t = home
    BY <1>5, <1>6, <2>2 DEF SameSets, SameStream
  <2>3. CASE t # s /\ t # home
    BY <1>4, <1>5, <2>3
  <2> QED
    BY <2>1, <2>2, <2>3
<1>8. \A t \in Sets : \A x \in Dscs \ {d} :
        /\ x \in ss2[t].to_add <=> x \in w.sets[t].to_add
        /\ x \in ss2[t].to_update <=> x \in w.sets[t].to_update
  <2> SUFFICES ASSUME NEW t \in Sets, NEW x \in Dscs \ {d}
               PROVE  /\ x \in ss2[t].to_add <=> x \in w.sets[t].to_add
                      /\ x \in ss2[t].to_update <=> x \in w.sets[t].to_update
    OBVIOUS
  <2>1. CASE t = s
    BY <1>4, <1>6, <2>1
  <2>2. CASE t = home
    BY <1>5, <1>6, <2>2 DEF SameSets
  <2>3. CASE t # s /\ t # home
    BY <1>4, <1>5, <2>3
  <2> QED
    BY <2>1, <2>2, <2>3
<1>9. \A t \in Sets \ {home} : d \notin ss2[t].to_add \cup ss2[t].to_update
  <2> SUFFICES ASSUME NEW t \in Sets \ {home} PROVE d \notin ss2[t].to_add \cup ss2[t].to_update
    OBVIOUS
  <2>1. CASE t = s
    BY <1>4, <1>6, <2>1
  <2>2. CASE t # s
    BY <1>1, <1>4, <1>5, <2>2 DEF GoodSets
  <2> QED
    BY <2>1, <2>2
<1>10. Fine(v)
  <2>1. v \in WT
    BY <1>1, <1>3, <1>5 DEF WT
  <2>2. GoodDscs(es)
    <3> SUFFICES ASSUME NEW x \in Dscs
                 PROVE  /\ es[x].owner # NoSet => x # Root /\ es[x].data \in DataOf(x)
                        /\ \/ es[x].written = {}
                           \/ \E r \in RecsOf(x) : es[x].written = {r}
      BY DEF GoodDscs
    <3>1. CASE x = d
      BY <1>1, <1>2, <1>3, <3>1 DEF GoodDscs
    <3>2. CASE x # d
      BY <1>1, <1>3, <3>2 DEF GoodDscs
    <3> QED
      BY <3>1, <3>2
  <2>3. GoodSets(es, ss2)
    <3> SUFFICES ASSUME NEW t \in Sets
                 PROVE  /\ \A x \in ss2[t].to_add \cup ss2[t].to_update : es[x].owner = t
                        /\ \A x \in ss2[t].to_destroy : IsErased(es, x)
      BY DEF GoodSets
    <3>0. ss2[t] \in SetT
      BY <1>5
    <3>1. ASSUME NEW x \in ss2[t].to_add \cup ss2[t].to_update PROVE es[x].owner = t
      <4>1. x \in Dscs
        BY <3>0, SetTFacts
      <4>2. CASE x = d
        BY <1>3, <1>9, <4>2
      <4>3. CASE x # d
        <5>1. x \in w.sets[t].to_add \cup w.sets[t].to_update
          BY <1>8, <4>1, <4>3
        <5> QED
          BY <1>1, <1>3, <4>1, <4>3, <5>1 DEF GoodSets
      <4> QED
        BY <4>2, <4>3
    <3>2. ASSUME NEW x \in ss2[t].to_destroy PROVE IsErased(es, x)
      <4>1. x \in Dscs
        BY <3>0, SetTFacts
      <4>2. IsErased(ds, x)
        BY <1>1, <1>7 DEF GoodSets
      <4>3. x # d
        BY <1>2, <4>2 DEF IsErased
      <4> QED
        BY <1>3, <4>1, <4>2, <4>3 DEF IsErased
    <3> QED
      BY <3>1, <3>2
  <2> QED
    BY <1>1, <2>1, <2>2, <2>3 DEF Fine
<1>11. \A t \in Sets : ~ IsThere(w, t) /\ t # home => ss2[t] = w.sets[t]
  <2> SUFFICES ASSUME NEW t \in Sets, ~ IsThere(w, t), t # home PROVE ss2[t] = w.sets[t]
    OBVIOUS
  <2>1. Rooted(ds, s) /\ s \in Dscs
    <3>1. d # Root /\ d \in Dscs
      OBVIOUS
    <3>2. Rooted(ds, s)
      BY <1>1, <3>1, RootedFacts
    <3> QED
      BY <1>2, <3>2, SetsAreFinite
  <2>2. IsThere(w, s)
    BY <1>1, <2>1, RootedHolders
  <2> QED
    BY <1>4, <1>5, <2>2
<1>12. /\ TreeInv(v) /\ \A x \in Dscs \ {d} : IsThere(v, x) <=> IsThere(w, x)
       /\ IsThere(v, d) /\ \A x \in Dscs : Rooted(ds, x) \/ x = d => Rooted(es, x)
  <2>1. /\ v.dsc[d].owner = home
        /\ \A x \in Dscs \ {d} : v.dsc[x] = w.dsc[x]
        /\ \A t \in Sets : /\ v.sets[t].to_destroy = w.sets[t].to_destroy
                           /\ w.sets[t].to_remove \subseteq v.sets[t].to_remove
        /\ \A t \in Sets \ {home} : ~ IsThere(w, t) => v.sets[t] = w.sets[t]
    BY <1>3, <1>7, <1>11
  <2>2. v.dsc = es
    OBVIOUS
  <2> HIDE DEF v
  <2> QED
    BY <1>1, <1>10, <2>1, <2>2, TreeMoved
<1>13. \A t \in Sets : CellInv(es, ss2[t], t)
  <2> SUFFICES ASSUME NEW t \in Sets PROVE CellInv(es, ss2[t], t)
    OBVIOUS
  <2>1. CASE t = s
    <3>1. Members(es, s) = Members(ds, s) \ {d} /\ {d} \in SUBSET Members(ds, s)
      BY <1>2, <1>3, <1>6 DEF Members
    <3>2. \A x \in Members(es, s) : es[x] = ds[x]
      BY <1>3, <3>1 DEF Members
    <3>3. ss2[s].to_remove = w.sets[s].to_remove \cup {ds[x].ext : x \in {d}}
      BY <1>4, <1>6
    <3>4. SameStream(w.sets[s], ss2[s])
      BY <1>4, <1>6
    <3>5. CellInv(ds, w.sets[s], s)
      BY <1>1, <1>2
    <3>6. ss2[s].to_add = w.sets[s].to_add \ {d} /\ ss2[s].to_update = w.sets[s].to_update \ {d}
      BY <1>4, <1>6
    <3>7. ss2[s].sum = SumWithout(w.sets[s].sum, ds, {d})
      BY <1>4, <1>6
    <3> DEFINE S == w.sets[s]
               T == ss2[s]
               D == {d}
    <3> HIDE DEF S, T, D, s, ds
    <3>8. s \in Sets /\ ds \in [Dscs -> DscT] /\ GoodDscs(ds)
      BY <1>1, <1>2
    <3>9. /\ SameStream(S, T) /\ T.to_add = S.to_add \ D /\ T.to_update = S.to_update \ D
          /\ T.to_remove = S.to_remove \cup {ds[x].ext : x \in D}
          /\ T.sum = SumWithout(S.sum, ds, D) /\ CellInv(ds, S, s)
          /\ Members(es, s) = Members(ds, s) \ D /\ D \in SUBSET Members(ds, s)
      BY <3>1, <3>3, <3>4, <3>5, <3>6, <3>7 DEF S, T, D
    <3>10. CellInv(es, T, s)
      BY <3>2, <3>8, <3>9, CellsDropped
    <3> QED
      BY <2>1, <3>10 DEF T
  <2>2. CASE t = home
    <3>1. Members(es, home) = Members(ds, home) \cup {d} /\ d \in Dscs \ Members(ds, home)
      BY <1>2, <1>3, <1>6 DEF Members
    <3>2. \A x \in Members(ds, home) : es[x] = ds[x]
      BY <1>3, <3>1 DEF Members
    <3>3. \A R \in es[d].written : R.dsc = d
      BY <1>1, <1>2, <1>3, RecordsOfOne
    <3> DEFINE S == w.sets[home]
               T == ss2[home]
    <3>4. SameStream(S, T) /\ T.to_add = S.to_add \cup {d} /\ T.to_update = S.to_update
          /\ T.to_remove = S.to_remove /\ T.sum = S.sum (+) SetToBag(es[d].written)
      BY <1>3, <1>5, <1>6 DEF SameSets
    <3>5. CellInv(ds, S, home) /\ es[d].ext = {}
      BY <1>1, <1>3
    <3> HIDE DEF S, T, ds, s
    <3>6. CellInv(es, T, home)
      BY <1>1, <3>1, <3>2, <3>3, <3>4, <3>5, CellsAdopted
    <3> QED
      BY <2>2, <3>6 DEF T
  <2>3. CASE t # s /\ t # home
    <3>1. Members(es, t) = Members(ds, t)
      BY <1>2, <1>3, <2>3 DEF Members
    <3>2. \A x \in Members(ds, t) : es[x] = ds[x]
      BY <1>3, <2>3 DEF Members
    <3>3. ss2[t] = w.sets[t] /\ CellInv(ds, w.sets[t], t)
      BY <1>1, <1>4, <1>5, <2>3
    <3> DEFINE S == w.sets[t]
    <3>4. SameStream(S, S)
      BY DEF SameStream
    <3> HIDE DEF S, ds, s
    <3>5. CellInv(es, S, t)
      BY <3>1, <3>2, <3>3, <3>4, CellsKept DEF S
    <3> QED
      BY <3>3, <3>5 DEF S
  <2> QED
    BY <2>1, <2>2, <2>3
<1>14. BlockInv(v)
  <2>1. \A x \in Dscs : v.dsc[x].content = w.dsc[x].content
    BY <1>3
  <2>2. \A t \in Sets : v.sets[t].segm = w.sets[t].segm
    BY <1>7
  <2>3. \A x \in Dscs : IsThere(v, x) => IsThere(w, x)
    <3>1. IsThere(w, d)
      BY <1>1, RootedHolders
    <3> QED
      BY <1>12, <3>1
  <2>4. v.in_use = w.in_use
    OBVIOUS
  <2> HIDE DEF v
  <2> QED
    BY <1>1, <2>1, <2>2, <2>3, <2>4, BlocksKept
<1>15. ASSUME NEW fresh \in BOOLEAN, Unforgotten(w, fresh) PROVE Unforgotten(v, fresh)
  <2>1. ASSUME NEW x \in Plain, v.dsc[x].owner # NoSet
        PROVE  \/ x \in v.sets[v.dsc[x].owner].to_add \cup v.sets[v.dsc[x].owner].to_update
               \/ /\ v.dsc[x].owner = w.dsc[x].owner /\ v.dsc[x].data = w.dsc[x].data
                  /\ v.dsc[x].pid = w.dsc[x].pid /\ v.dsc[x].written = w.dsc[x].written
                  /\ v.dsc[x].notified = w.dsc[x].notified
                  /\ x \notin w.sets[w.dsc[x].owner].to_add \cup w.sets[w.dsc[x].owner].to_update
    <3>0. x \in Dscs
      BY SetsAreFinite
    <3>1. CASE x = d
      BY <1>3, <1>5, <3>1
    <3>2. CASE x # d
      <4>1. v.dsc[x] = w.dsc[x] /\ w.dsc[x].owner \in Sets
        <5>1. w.dsc[x] \in DscT /\ v.dsc[x] = w.dsc[x]
          BY <1>1, <1>3, <3>0, <3>2
        <5> QED
          BY <2>1, <5>1, DscTFacts
      <4> QED
        BY <1>8, <3>0, <3>2, <4>1
    <3> QED
      BY <3>1, <3>2
  <2> HIDE DEF v
  <2> QED
    BY <1>15, <2>1, UnforgottenKept
<1>16. Inv(v)
  BY <1>10, <1>12, <1>13, <1>14 DEF Inv
<1>17. v.dsc = es
  OBVIOUS
<1> QED
  BY <1>12, <1>15, <1>16, <1>17 DEF es, ss2, mid

AddedTo(w, d, s, value, pid, content) ==
  [dsc |-> [w.dsc EXCEPT ![d] = SetOwner(
     [Absent EXCEPT !.data = value, !.pid = pid, !.content = content], s)],
   sets |-> Adopted(w.dsc, w.sets, d, s),
   in_use |-> w.in_use \cup content, dirty |-> w.dirty]

\* A new descriptor is added, with its content in blocks that nobody has.
LEMMA AddedFacts ==
  ASSUME NEW w, Inv(w), NEW d \in Dscs, ~ IsThere(w, d), NEW s \in Sets, Rooted(w.dsc, s),
         NEW value \in DataOf(d), NEW pid \in BOOLEAN,
         NEW content \in SUBSET Pos, IsFiniteSet(content), content \cap w.in_use = {},
         d \in WithContent => content # {}, d \in Sets => content = {}
  PROVE  LET v == AddedTo(w, d, s, value, pid, content)
         IN /\ Inv(v)
            /\ \A fresh \in BOOLEAN : Unforgotten(w, fresh) => Unforgotten(v, fresh)
            /\ \A x \in Dscs : Rooted(w.dsc, x) => Rooted(v.dsc, x)
<1> DEFINE ds == w.dsc
           es == [w.dsc EXCEPT ![d] = SetOwner(
                   [Absent EXCEPT !.data = value, !.pid = pid, !.content = content], s)]
           ss2 == Adopted(w.dsc, w.sets, d, s)
           v == [dsc |-> es, sets |-> ss2, in_use |-> w.in_use \cup content, dirty |-> w.dirty]
<1>1. /\ Fine(w) /\ w \in WT /\ GoodDscs(ds) /\ TreeInv(w) /\ ds \in [Dscs -> DscT]
      /\ w.sets \in [Sets -> SetT] /\ GoodSets(ds, w.sets) /\ BlockInv(w)
      /\ \A t \in Sets : CellInv(ds, w.sets[t], t)
      /\ w.in_use \in SUBSET Pos /\ w.dirty \in SUBSET Pos /\ IsFiniteSet(w.in_use)
  BY WTFacts DEF Inv, Fine
<1>2. /\ d # Root /\ ds[d] = Absent /\ s # NoSet /\ s \in Dscs /\ d # s
      /\ d \in Sets => w.sets[d] = EmptySet
  <2>1. IsThere(w, s) /\ s \in Dscs
    BY <1>1, RootedHolders, SetsAreFinite
  <2> QED
    BY <1>1, <2>1, SetsAreFinite DEF IsThere, TreeInv
<1>3. /\ es[d] \in DscT /\ es[d].owner = s /\ es[d].ext = {} /\ es[d].data = value
      /\ es[d].written = {} /\ es[d].content = content
      /\ \A x \in Dscs \ {d} : es[x] = ds[x]
      /\ es \in [Dscs -> DscT]
  <2> DEFINE q == SetOwner([Absent EXCEPT !.data = value, !.pid = pid, !.content = content], s)
  <2>0. value \in Seq(Pos) \cup {<<u>> : u \in Values}
    BY DEF DataOf
  <2>1. PICK r \in DscT : r = Absent
    BY EmptyTypes
  <2>4. r.ext = {} /\ r.written = {}
    BY <2>1 DEF Absent
  <2>5. q = [SetOwner(r, s) EXCEPT !.data = value, !.pid = pid, !.content = content]
    <3> DEFINE a == [r EXCEPT !.data = value, !.pid = pid, !.content = content]
    <3>1. q = [a EXCEPT !.owner = s, !.notified = TRUE]
      BY <2>1 DEF SetOwner
    <3>2. [a EXCEPT !.owner = s, !.notified = TRUE]
            = [SetOwner(r, s) EXCEPT !.data = value, !.pid = pid, !.content = content]
      BY ONLY r \in DscT DEF SetOwner, DscT
    <3> QED
      BY <3>1, <3>2
  <2>2. es = [ds EXCEPT ![d] = q]
    OBVIOUS
  <2> HIDE DEF q, es
  <2>3. /\ q \in DscT /\ q.owner = s /\ q.ext = {} /\ q.data = value
        /\ q.written = {} /\ q.content = content
    <3>1. r \in DscT /\ s \in Sets /\ pid \in BOOLEAN /\ content \in SUBSET Pos
      OBVIOUS
    <3> QED
      BY ONLY <2>0, <2>4, <2>5, <3>1 DEF SetOwner, DscT
  <2> QED
    BY <1>1, <2>2, <2>3
<1>4. /\ ss2 \in [Sets -> SetT] /\ \A t \in Sets \ {s} : ss2[t] = w.sets[t]
      /\ SameSets(w.sets[s], ss2[s]) /\ ss2[s].to_add = w.sets[s].to_add \cup {d}
      /\ ss2[s].sum = w.sets[s].sum (+) SetToBag(es[d].written)
  <2>1. ds[d].written = es[d].written
    BY <1>2, <1>3 DEF Absent
  <2>2. /\ ss2 \in [Sets -> SetT] /\ \A t \in Sets \ {s} : ss2[t] = w.sets[t]
        /\ SameSets(w.sets[s], ss2[s]) /\ ss2[s].to_add = w.sets[s].to_add \cup {d}
        /\ ss2[s].sum = w.sets[s].sum (+) SetToBag(ds[d].written)
    BY <1>1, AdoptedFacts
  <2> HIDE DEF es, ss2, ds
  <2> QED
    BY <2>1, <2>2
<1> HIDE DEF es, ss2
<1>5. \A t \in Sets : /\ ss2[t].to_destroy = w.sets[t].to_destroy
                      /\ w.sets[t].to_remove \subseteq ss2[t].to_remove
                      /\ ss2[t].segm = w.sets[t].segm
                      /\ ss2[t].to_update = w.sets[t].to_update
                      /\ \A x \in Dscs \ {d} : x \in ss2[t].to_add <=> x \in w.sets[t].to_add
  <2> SUFFICES ASSUME NEW t \in Sets
               PROVE  /\ ss2[t].to_destroy = w.sets[t].to_destroy
                      /\ w.sets[t].to_remove \subseteq ss2[t].to_remove
                      /\ ss2[t].segm = w.sets[t].segm
                      /\ ss2[t].to_update = w.sets[t].to_update
                      /\ \A x \in Dscs \ {d} : x \in ss2[t].to_add <=> x \in w.sets[t].to_add
    OBVIOUS
  <2>1. CASE t = s
    BY <1>4, <2>1 DEF SameSets, SameStream
  <2>2. CASE t # s
    BY <1>4, <2>2
  <2> QED
    BY <2>1, <2>2
<1>6. \A t \in Sets \ {s} : d \notin ss2[t].to_add \cup ss2[t].to_update
  <2> SUFFICES ASSUME NEW t \in Sets \ {s}, d \in ss2[t].to_add \cup ss2[t].to_update
               PROVE  FALSE
    OBVIOUS
  <2>1. ds[d].owner = t
    BY <1>1, <1>4 DEF GoodSets
  <2> QED
    BY <1>2, <2>1, SetsAreFinite DEF Absent
<1>7. Fine(v)
  <2>1. v \in WT
    BY <1>1, <1>3, <1>4 DEF WT
  <2>2. GoodDscs(es)
    <3> SUFFICES ASSUME NEW x \in Dscs
                 PROVE  /\ es[x].owner # NoSet => x # Root /\ es[x].data \in DataOf(x)
                        /\ \/ es[x].written = {}
                           \/ \E r \in RecsOf(x) : es[x].written = {r}
      BY DEF GoodDscs
    <3>1. CASE x = d
      BY <1>2, <1>3, <3>1
    <3>2. CASE x # d
      BY <1>1, <1>3, <3>2 DEF GoodDscs
    <3> QED
      BY <3>1, <3>2
  <2>3. GoodSets(es, ss2)
    <3> SUFFICES ASSUME NEW t \in Sets
                 PROVE  /\ \A x \in ss2[t].to_add \cup ss2[t].to_update : es[x].owner = t
                        /\ \A x \in ss2[t].to_destroy : IsErased(es, x)
      BY DEF GoodSets
    <3>0. ss2[t] \in SetT
      BY <1>4
    <3>1. ASSUME NEW x \in ss2[t].to_add \cup ss2[t].to_update PROVE es[x].owner = t
      <4>1. x \in Dscs
        BY <3>0, SetTFacts
      <4>2. CASE x = d
        BY <1>3, <1>6, <4>2
      <4>3. CASE x # d
        <5>1. x \in w.sets[t].to_add \cup w.sets[t].to_update
          BY <1>5, <4>1, <4>3
        <5> QED
          BY <1>1, <1>3, <4>1, <4>3, <5>1 DEF GoodSets
      <4> QED
        BY <4>2, <4>3
    <3>2. ASSUME NEW x \in ss2[t].to_destroy PROVE IsErased(es, x)
      <4>1. x \in Dscs
        BY <3>0, SetTFacts
      <4>2. IsErased(ds, x) /\ x \in w.sets[t].to_destroy
        BY <1>1, <1>5 DEF GoodSets
      <4>3. x # d
        <5>1. Holder(w.dsc, w.sets, x) # NoSet
          BY <1>1, <4>1, <4>2, HolderFacts
        <5> QED
          BY <5>1 DEF IsThere
      <4> QED
        BY <1>3, <4>1, <4>2, <4>3 DEF IsErased
    <3> QED
      BY <3>1, <3>2
  <2>4. IsFiniteSet(w.in_use \cup content)
    BY <1>1, FS_Union
  <2> QED
    BY <1>1, <2>1, <2>2, <2>3, <2>4 DEF Fine
<1>8. d \notin Above(Owners(ds), s)
  <2> SUFFICES ASSUME d \in Above(Owners(ds), s) PROVE FALSE
    OBVIOUS
  <2>1. Rooted(ds, d)
    BY <1>1, <1>2, RootedFacts
  <2>2. IsThere(w, d)
    BY <1>1, <2>1, RootedHolders
  <2> QED
    BY <2>2
<1>9. /\ TreeInv(v) /\ \A x \in Dscs \ {d} : IsThere(v, x) <=> IsThere(w, x)
      /\ IsThere(v, d) /\ \A x \in Dscs : Rooted(ds, x) \/ x = d => Rooted(es, x)
  <2>1. /\ v.dsc[d].owner = s
        /\ \A x \in Dscs \ {d} : v.dsc[x] = w.dsc[x]
        /\ \A t \in Sets : /\ v.sets[t].to_destroy = w.sets[t].to_destroy
                           /\ w.sets[t].to_remove \subseteq v.sets[t].to_remove
        /\ \A t \in Sets \ {s} : ~ IsThere(w, t) => v.sets[t] = w.sets[t]
    BY <1>3, <1>4, <1>5
  <2>2. v.dsc = es /\ d \in Dscs \ {Root}
    BY <1>2
  <2> HIDE DEF v
  <2> QED
    BY <1>1, <1>7, <1>8, <2>1, <2>2, TreeMoved
<1>10. \A t \in Sets : CellInv(es, ss2[t], t)
  <2> SUFFICES ASSUME NEW t \in Sets PROVE CellInv(es, ss2[t], t)
    OBVIOUS
  <2>1. CASE t = s
    <3>1. Members(es, s) = Members(ds, s) \cup {d} /\ d \in Dscs \ Members(ds, s)
      BY <1>2, <1>3 DEF Members, Absent
    <3>2. \A x \in Members(ds, s) : es[x] = ds[x]
      BY <1>3, <3>1 DEF Members
    <3>3. \A R \in es[d].written : R.dsc = d
      BY <1>3
    <3> DEFINE S == w.sets[s]
               T == ss2[s]
    <3>4. SameStream(S, T) /\ T.to_add = S.to_add \cup {d} /\ T.to_update = S.to_update
          /\ T.to_remove = S.to_remove /\ T.sum = S.sum (+) SetToBag(es[d].written)
      BY <1>3, <1>4 DEF SameSets
    <3>5. CellInv(ds, S, s) /\ es[d].ext = {}
      BY <1>1, <1>3
    <3> HIDE DEF S, T, ds
    <3>6. CellInv(es, T, s)
      BY <1>1, <3>1, <3>2, <3>3, <3>4, <3>5, CellsAdopted
    <3> QED
      BY <2>1, <3>6 DEF T
  <2>2. CASE t # s
    <3>1. Members(es, t) = Members(ds, t)
      BY <1>2, <1>3, <2>2, SetsAreFinite DEF Members, Absent
    <3>2. \A x \in Members(ds, t) : es[x] = ds[x]
      BY <1>2, <1>3, <2>2, SetsAreFinite DEF Members, Absent
    <3>3. ss2[t] = w.sets[t] /\ CellInv(ds, w.sets[t], t)
      BY <1>1, <1>4, <2>2
    <3> DEFINE S == w.sets[t]
    <3>4. SameStream(S, S)
      BY DEF SameStream
    <3> HIDE DEF S, ds
    <3>5. CellInv(es, S, t)
      BY <3>1, <3>2, <3>3, <3>4, CellsKept DEF S
    <3> QED
      BY <3>3, <3>5 DEF S
  <2> QED
    BY <2>1, <2>2
<1>11. BlockInv(v)
  <2>1. ASSUME NEW x \in Dscs \ {d} PROVE BlksAt(v, x) = BlksAt(w, x)
    BY <1>3, <1>5 DEF BlksAt
  <2>2. BlksAt(w, d) = {} /\ BlksAt(v, d) = content
    <3>1. ds[d].content = {} /\ (d \in Sets => w.sets[d].segm = <<>>)
      BY <1>2 DEF Absent, EmptySet
    <3>2. d \in Sets => ss2[d].segm = <<>>
      BY <1>5, <3>1
    <3>3. ToSet(<<>>) = {}
      BY DEF ToSet
    <3> QED
      BY <1>3, <3>1, <3>2, <3>3 DEF BlksAt
  <2>3. \A x \in Dscs : BlksAt(w, x) \subseteq w.in_use
    BY <1>1 DEF BlockInv
  <2>4. \A x, y \in Dscs : x # y => BlksAt(v, x) \cap BlksAt(v, y) = {}
    <3> SUFFICES ASSUME NEW x \in Dscs, NEW y \in Dscs, x # y
                 PROVE  BlksAt(v, x) \cap BlksAt(v, y) = {}
      OBVIOUS
    <3>1. CASE x = d
      BY <2>1, <2>2, <2>3, <3>1
    <3>2. CASE y = d
      BY <2>1, <2>2, <2>3, <3>2
    <3>3. CASE x # d /\ y # d
      BY <1>1, <2>1, <3>3 DEF BlockInv
    <3> QED
      BY <3>1, <3>2, <3>3
  <2>5. \A t \in Sets : IsInjective(v.sets[t].segm) /\ v.dsc[t].content = {}
    <3> SUFFICES ASSUME NEW t \in Sets
                 PROVE  IsInjective(v.sets[t].segm) /\ v.dsc[t].content = {}
      OBVIOUS
    <3>1. IsInjective(w.sets[t].segm) /\ ds[t].content = {}
      BY <1>1 DEF BlockInv
    <3>2. es[t].content = {}
      BY <1>3, <3>1, SetsAreFinite
    <3> QED
      BY <1>5, <3>1, <3>2
  <2>6. \A x \in WithContent : IsThere(v, x) => v.dsc[x].content # {}
    <3> SUFFICES ASSUME NEW x \in WithContent, IsThere(v, x) PROVE es[x].content # {}
      OBVIOUS
    <3>1. x \in Dscs
      BY SetsAssumption, SetsAreFinite
    <3> QED
      BY <1>1, <1>3, <1>9, <3>1 DEF BlockInv
  <2>7. v.in_use = UNION {BlksAt(v, x) : x \in Dscs}
    <3>1. v.in_use = w.in_use \cup content
      OBVIOUS
    <3>2. w.in_use = UNION {BlksAt(w, x) : x \in Dscs}
      BY <1>1 DEF BlockInv
    <3> HIDE DEF v
    <3> QED
      BY <2>1, <2>2, <3>1, <3>2
  <2> QED
    BY <2>4, <2>5, <2>6, <2>7 DEF BlockInv
<1>12. ASSUME NEW fresh \in BOOLEAN, Unforgotten(w, fresh) PROVE Unforgotten(v, fresh)
  <2>1. ASSUME NEW x \in Plain, v.dsc[x].owner # NoSet
        PROVE  \/ x \in v.sets[v.dsc[x].owner].to_add \cup v.sets[v.dsc[x].owner].to_update
               \/ /\ v.dsc[x].owner = w.dsc[x].owner /\ v.dsc[x].data = w.dsc[x].data
                  /\ v.dsc[x].pid = w.dsc[x].pid /\ v.dsc[x].written = w.dsc[x].written
                  /\ v.dsc[x].notified = w.dsc[x].notified
                  /\ x \notin w.sets[w.dsc[x].owner].to_add \cup w.sets[w.dsc[x].owner].to_update
    <3>0. x \in Dscs
      BY SetsAreFinite
    <3>1. CASE x = d
      BY <1>3, <1>4, <3>1
    <3>2. CASE x # d
      <4>1. v.dsc[x] = w.dsc[x] /\ w.dsc[x].owner \in Sets
        <5>1. w.dsc[x] \in DscT /\ v.dsc[x] = w.dsc[x]
          BY <1>1, <1>3, <3>0, <3>2
        <5> QED
          BY <2>1, <5>1, DscTFacts
      <4> QED
        BY <1>5, <3>0, <3>2, <4>1
    <3> QED
      BY <3>1, <3>2
  <2> HIDE DEF v
  <2>2. Unforgotten(w, fresh)
    BY <1>12
  <2>3. \A x \in Plain : v.dsc[x].owner # NoSet =>
          \/ x \in v.sets[v.dsc[x].owner].to_add \cup v.sets[v.dsc[x].owner].to_update
          \/ /\ v.dsc[x].owner = w.dsc[x].owner /\ v.dsc[x].data = w.dsc[x].data
             /\ v.dsc[x].pid = w.dsc[x].pid /\ v.dsc[x].written = w.dsc[x].written
             /\ v.dsc[x].notified = w.dsc[x].notified
             /\ x \notin w.sets[w.dsc[x].owner].to_add \cup w.sets[w.dsc[x].owner].to_update
    BY <2>1
  <2> QED
    BY ONLY <2>2, <2>3 DEF Unforgotten, Record
<1>13. Inv(v)
  BY <1>7, <1>9, <1>10, <1>11 DEF Inv
<1>14. v.dsc = es
  OBVIOUS
<1>15. AddedTo(w, d, s, value, pid, content) = v
  BY DEF AddedTo, es, ss2
<1> HIDE DEF v
<1> QED
  BY <1>9, <1>12, <1>13, <1>14, <1>15

-----------------------------------------------------------------------------
(* The calls of the user: changes *)

\* The tree and the places stay; some descriptors of the tree change or are
\* pending besides.
Noted(w, v) ==
  /\ v \in WT /\ v.in_use = w.in_use /\ v.dirty = w.dirty
  /\ \A x \in Dscs :
       /\ v.dsc[x].owner = w.dsc[x].owner /\ v.dsc[x].ext = w.dsc[x].ext
       /\ v.dsc[x].content = w.dsc[x].content /\ v.dsc[x].written = w.dsc[x].written
       /\ \/ v.dsc[x] = w.dsc[x]
          \/ /\ w.dsc[x].owner # NoSet /\ v.dsc[x].data \in DataOf(x)
             /\ \/ v.dsc[x].pid = w.dsc[x].pid
                \/ x \in v.sets[w.dsc[x].owner].to_add \cup v.sets[w.dsc[x].owner].to_update
          \/ x = Root
  /\ \A t \in Sets :
       /\ SameStream(w.sets[t], v.sets[t])
       /\ v.sets[t].to_remove = w.sets[t].to_remove
       /\ v.sets[t].to_destroy = w.sets[t].to_destroy
       /\ v.sets[t].sum = w.sets[t].sum /\ v.sets[t].to_add = w.sets[t].to_add
       /\ w.sets[t].to_update \subseteq v.sets[t].to_update
       /\ \A x \in v.sets[t].to_update : w.dsc[x].owner = t
       /\ v.sets[t] = w.sets[t] \/ Rooted(w.dsc, t)

LEMMA NotedFacts ==
  ASSUME NEW w, Inv(w), NEW v, Noted(w, v)
  PROVE  Inv(v)
<1>1. /\ Fine(w) /\ w \in WT /\ GoodDscs(w.dsc) /\ TreeInv(w) /\ w.dsc \in [Dscs -> DscT]
      /\ w.sets \in [Sets -> SetT] /\ GoodSets(w.dsc, w.sets) /\ BlockInv(w)
      /\ \A t \in Sets : CellInv(w.dsc, w.sets[t], t)
      /\ IsFiniteSet(w.in_use)
  BY WTFacts DEF Inv, Fine
<1>2. /\ v \in WT /\ v.dsc \in [Dscs -> DscT] /\ v.sets \in [Sets -> SetT]
      /\ v.in_use = w.in_use
  BY WTFacts DEF Noted
<1>3. \A x \in Dscs :
        /\ v.dsc[x].owner = w.dsc[x].owner /\ v.dsc[x].ext = w.dsc[x].ext
        /\ v.dsc[x].content = w.dsc[x].content /\ v.dsc[x].written = w.dsc[x].written
        /\ \/ v.dsc[x] = w.dsc[x]
           \/ /\ w.dsc[x].owner # NoSet /\ v.dsc[x].data \in DataOf(x)
              /\ \/ v.dsc[x].pid = w.dsc[x].pid
                 \/ x \in v.sets[w.dsc[x].owner].to_add \cup v.sets[w.dsc[x].owner].to_update
           \/ x = Root
  BY DEF Noted
<1>4. \A t \in Sets :
        /\ SameStream(w.sets[t], v.sets[t])
        /\ v.sets[t].to_remove = w.sets[t].to_remove
        /\ v.sets[t].to_destroy = w.sets[t].to_destroy
        /\ v.sets[t].sum = w.sets[t].sum /\ v.sets[t].to_add = w.sets[t].to_add
        /\ w.sets[t].to_update \subseteq v.sets[t].to_update
        /\ \A x \in v.sets[t].to_update : w.dsc[x].owner = t
        /\ v.sets[t] = w.sets[t] \/ Rooted(w.dsc, t)
  BY DEF Noted
<1>5. Fine(v)
  <2>1. GoodDscs(v.dsc)
    <3> SUFFICES ASSUME NEW x \in Dscs
                 PROVE  /\ v.dsc[x].owner # NoSet => x # Root /\ v.dsc[x].data \in DataOf(x)
                        /\ \/ v.dsc[x].written = {}
                           \/ \E r \in RecsOf(x) : v.dsc[x].written = {r}
      BY DEF GoodDscs
    <3> QED
      BY <1>1, <1>3 DEF GoodDscs
  <2>2. GoodSets(v.dsc, v.sets)
    <3> SUFFICES ASSUME NEW t \in Sets
                 PROVE  /\ \A x \in v.sets[t].to_add \cup v.sets[t].to_update : v.dsc[x].owner = t
                        /\ \A x \in v.sets[t].to_destroy : IsErased(v.dsc, x)
      BY DEF GoodSets
    <3>1. v.sets[t] \in SetT
      BY <1>2
    <3>2. /\ v.sets[t].to_add \in SUBSET Dscs /\ v.sets[t].to_update \in SUBSET Dscs
          /\ v.sets[t].to_destroy \in SUBSET Dscs
      BY <3>1, SetTFacts
    <3>3. /\ v.sets[t].to_add = w.sets[t].to_add /\ v.sets[t].to_destroy = w.sets[t].to_destroy
          /\ \A x \in v.sets[t].to_update : w.dsc[x].owner = t
      BY <1>4
    <3> QED
      BY <1>1, <1>3, <3>2, <3>3 DEF GoodSets, IsErased
  <2> QED
    BY <1>1, <1>2, <2>1, <2>2 DEF Fine
<1>6. /\ Holders(v.dsc, v.sets) = Holders(w.dsc, w.sets)
      /\ Owners(v.dsc) = Owners(w.dsc)
      /\ \A x \in Dscs : IsThere(v, x) <=> IsThere(w, x)
  <2>1. ASSUME NEW x \in Dscs PROVE Holder(v.dsc, v.sets, x) = Holder(w.dsc, w.sets, x)
    <3> DEFINE H1 == {t \in Sets : x \in v.sets[t].to_destroy}
               H2 == {t \in Sets : x \in w.sets[t].to_destroy}
    <3>1. H1 = H2
      BY <1>4
    <3>2. v.dsc[x].owner = w.dsc[x].owner
      BY <1>3
    <3>3. Holder(v.dsc, v.sets, x) = IF v.dsc[x].owner # NoSet THEN v.dsc[x].owner
                                     ELSE IF H1 = {} THEN NoSet ELSE CHOOSE s \in H1 : TRUE
      BY DEF Holder
    <3>4. Holder(w.dsc, w.sets, x) = IF w.dsc[x].owner # NoSet THEN w.dsc[x].owner
                                     ELSE IF H2 = {} THEN NoSet ELSE CHOOSE s \in H2 : TRUE
      BY DEF Holder
    <3> HIDE DEF H1, H2
    <3> QED
      BY <3>1, <3>2, <3>3, <3>4
  <2>2. Holders(v.dsc, v.sets) = Holders(w.dsc, w.sets)
    BY <2>1 DEF Holders
  <2>3. Owners(v.dsc) = Owners(w.dsc)
    BY <1>3 DEF Owners
  <2> QED
    BY <2>1, <2>2, <2>3 DEF IsThere
<1>7. TreeInv(v)
  <2>1. \A s, t \in Sets : s # t => v.sets[s].to_destroy \cap v.sets[t].to_destroy = {}
    BY <1>1, <1>4 DEF TreeInv
  <2>2. \A x \in Dscs : IsThere(v, x) => IsHeld(v, x)
    BY <1>1, <1>6 DEF TreeInv, IsHeld
  <2>3. ASSUME NEW x \in Dscs, ~ IsThere(v, x)
        PROVE  v.dsc[x] = Absent /\ (x \in Sets => v.sets[x] = EmptySet)
    <3>1. ~ IsThere(w, x)
      BY <1>6, <2>3
    <3>2. w.dsc[x] = Absent /\ (x \in Sets => w.sets[x] = EmptySet)
      BY <1>1, <3>1 DEF TreeInv
    <3>3. v.dsc[x] = w.dsc[x]
      BY <1>3, <2>3, <3>2 DEF Absent, IsThere
    <3>4. ~ Rooted(w.dsc, x)
      BY <1>1, <3>1, RootedHolders
    <3> QED
      BY <1>4, <3>2, <3>3, <3>4
  <2>4. \A t \in Sets : /\ v.sets[t].to_destroy \cap Sets # {} => Rooted(v.dsc, t)
                        /\ v.sets[t].to_destroy # {} => v.sets[t].to_remove # {}
    BY <1>1, <1>4, <1>6 DEF TreeInv, Rooted
  <2> QED
    BY <2>1, <2>2, <2>3, <2>4 DEF TreeInv
<1>8. \A t \in Sets : CellInv(v.dsc, v.sets[t], t)
  <2> SUFFICES ASSUME NEW t \in Sets PROVE CellInv(v.dsc, v.sets[t], t)
    OBVIOUS
  <2> DEFINE ds == w.dsc
             es == v.dsc
             S == w.sets[t]
             T == v.sets[t]
  <2>1. Members(es, t) = Members(ds, t)
    BY <1>3 DEF Members
  <2>2. \A x \in Members(ds, t) :
          /\ es[x].ext = ds[x].ext /\ es[x].written = ds[x].written
          /\ es[x].pid = ds[x].pid \/ x \in T.to_add \cup T.to_update
    <3>1. ds[Root].owner # t
      BY <1>1, RootedFacts, SetsAreFinite
    <3> QED
      BY <1>3, <3>1 DEF Members
  <2>3. /\ SameStream(S, T) /\ T.to_add = S.to_add /\ S.to_update \subseteq T.to_update
        /\ T.to_remove = S.to_remove /\ T.sum = S.sum
    BY <1>4
  <2>4. CellInv(ds, S, t)
    BY <1>1
  <2> HIDE DEF ds, es, S, T
  <2>5. CellInv(es, T, t)
    BY <2>1, <2>2, <2>3, <2>4, CellsKept
  <2> QED
    BY <2>5 DEF es, T
<1>9. BlockInv(v)
  <2>1. \A t \in Sets : v.sets[t].segm = w.sets[t].segm
    BY <1>4 DEF SameStream
  <2> QED
    BY <1>1, <1>2, <1>3, <1>6, <2>1, BlocksKept
<1> QED
  BY <1>5, <1>7, <1>8, <1>9 DEF Inv

\* d is pending from then on, whatever its data is now.
LEMMA ModifiedFacts ==
  ASSUME NEW w, Inv(w), NEW d \in Dscs \ {Root}, Rooted(w.dsc, d),
         NEW es \in [Dscs -> DscT], es[d].data \in DataOf(d),
         es[d].owner = w.dsc[d].owner, es[d].ext = w.dsc[d].ext,
         es[d].content = w.dsc[d].content, es[d].written = w.dsc[d].written,
         es[d].pid = w.dsc[d].pid,
         \A x \in Dscs \ {d} : es[x] = w.dsc[x],
         NEW noted \in BOOLEAN
  PROVE  LET v == [dsc |-> es,
                   sets |-> IF noted THEN Notified(w.sets, w.dsc[d].owner, d) ELSE w.sets,
                   in_use |-> w.in_use, dirty |-> w.dirty]
         IN /\ Inv(v)
            /\ \A fresh \in BOOLEAN :
                 /\ Unforgotten(w, fresh)
                 /\ noted \/ (fresh /\ w.dsc[d].notified) \/ d \notin Plain
                 => Unforgotten(v, fresh)
<1> DEFINE s == w.dsc[d].owner
           ss2 == IF noted THEN Notified(w.sets, w.dsc[d].owner, d) ELSE w.sets
           v == [dsc |-> es, sets |-> ss2, in_use |-> w.in_use, dirty |-> w.dirty]
<1>1. /\ Fine(w) /\ w \in WT /\ GoodDscs(w.dsc) /\ w.dsc \in [Dscs -> DscT]
      /\ w.sets \in [Sets -> SetT] /\ GoodSets(w.dsc, w.sets)
      /\ w.in_use \in SUBSET Pos /\ w.dirty \in SUBSET Pos
  BY WTFacts DEF Inv, Fine
<1>2. s \in Sets /\ s # NoSet /\ Rooted(w.dsc, s)
  BY <1>1, RootedFacts
<1>3. \/ ss2 = w.sets /\ (noted => d \in w.sets[s].to_add)
      \/ noted /\ ss2 = [w.sets EXCEPT ![s] = [w.sets[s] EXCEPT !.to_update = @ \cup {d}]]
  <2>1. CASE noted
    <3>1. d \in Dscs /\ w.dsc[d].owner = s
      OBVIOUS
    <3> HIDE DEF s
    <3>2. NotifiedWith(w, Notified(w.sets, s, d), s, d)
      BY <1>1, <1>2, <3>1, NotifiedFacts
    <3> QED
      BY <2>1, <3>1, <3>2 DEF NotifiedWith
  <2>2. CASE ~ noted
    BY <2>2
  <2> QED
    BY <2>1, <2>2
<1> HIDE DEF ss2
<1>4. /\ ss2 \in [Sets -> SetT] /\ \A t \in Sets \ {s} : ss2[t] = w.sets[t]
      /\ SameStream(w.sets[s], ss2[s]) /\ ss2[s].to_remove = w.sets[s].to_remove
      /\ ss2[s].to_destroy = w.sets[s].to_destroy /\ ss2[s].sum = w.sets[s].sum
      /\ ss2[s].to_add = w.sets[s].to_add
      /\ \/ ss2[s].to_update = w.sets[s].to_update
         \/ ss2[s].to_update = w.sets[s].to_update \cup {d}
      /\ noted => d \in ss2[s].to_add \cup ss2[s].to_update
  <2>1. PICK S \in SetT : S = w.sets[s]
    BY <1>1, <1>2
  <2> DEFINE S2 == [S EXCEPT !.to_update = @ \cup {d}]
  <2>2. /\ S2 \in SetT /\ SameStream(S, S2) /\ S2.to_remove = S.to_remove
        /\ S2.to_destroy = S.to_destroy /\ S2.sum = S.sum /\ S2.to_add = S.to_add
        /\ S2.to_update = S.to_update \cup {d}
    BY DEF SetT, SameStream
  <2>3. SameStream(S, S)
    BY DEF SameStream
  <2>4. CASE ss2 = w.sets /\ (noted => d \in w.sets[s].to_add)
    BY <1>1, <2>1, <2>3, <2>4
  <2>5. CASE noted /\ ss2 = [w.sets EXCEPT ![s] = S2]
    <3> HIDE DEF S2, s
    <3> QED
      BY <1>1, <1>2, <2>1, <2>2, <2>5
  <2> QED
    BY <1>3, <2>1, <2>4, <2>5
<1>5. Noted(w, v)
  <2>1. v \in WT
    BY <1>1, <1>4 DEF WT
  <2>2. ASSUME NEW x \in Dscs
        PROVE  /\ es[x].owner = w.dsc[x].owner /\ es[x].ext = w.dsc[x].ext
               /\ es[x].content = w.dsc[x].content /\ es[x].written = w.dsc[x].written
               /\ \/ es[x] = w.dsc[x]
                  \/ /\ w.dsc[x].owner # NoSet /\ es[x].data \in DataOf(x)
                     /\ es[x].pid = w.dsc[x].pid
    BY <1>2
  <2>3. ASSUME NEW t \in Sets
        PROVE  /\ SameStream(w.sets[t], ss2[t])
               /\ ss2[t].to_remove = w.sets[t].to_remove
               /\ ss2[t].to_destroy = w.sets[t].to_destroy
               /\ ss2[t].sum = w.sets[t].sum /\ ss2[t].to_add = w.sets[t].to_add
               /\ w.sets[t].to_update \subseteq ss2[t].to_update
               /\ \A x \in ss2[t].to_update : w.dsc[x].owner = t
               /\ ss2[t] = w.sets[t] \/ Rooted(w.dsc, t)
    <3>1. \A x \in w.sets[t].to_update : w.dsc[x].owner = t
      BY <1>1 DEF GoodSets
    <3>2. CASE t = s
      BY <1>2, <1>4, <3>1, <3>2
    <3>3. CASE t # s
      BY <1>4, <3>1, <3>3 DEF SameStream
    <3> QED
      BY <3>2, <3>3
  <2>4. v.dsc = es /\ v.sets = ss2 /\ v.in_use = w.in_use /\ v.dirty = w.dirty
    OBVIOUS
  <2> HIDE DEF v
  <2> QED
    BY <2>1, <2>2, <2>3, <2>4 DEF Noted
<1>6. Inv(v)
  BY <1>5, NotedFacts
<1>7. ASSUME NEW fresh \in BOOLEAN, Unforgotten(w, fresh),
             noted \/ (fresh /\ w.dsc[d].notified) \/ d \notin Plain
      PROVE  Unforgotten(v, fresh)
  <2>1. ASSUME NEW x \in Plain, v.dsc[x].owner # NoSet
        PROVE  \/ x \in v.sets[v.dsc[x].owner].to_add \cup v.sets[v.dsc[x].owner].to_update
               \/ /\ v.dsc[x].owner = w.dsc[x].owner /\ v.dsc[x].data = w.dsc[x].data
                  /\ v.dsc[x].pid = w.dsc[x].pid /\ v.dsc[x].written = w.dsc[x].written
                  /\ v.dsc[x].notified = w.dsc[x].notified
                  /\ x \notin w.sets[w.dsc[x].owner].to_add \cup w.sets[w.dsc[x].owner].to_update
    <3>0. x \in Dscs
      BY SetsAreFinite
    <3>1. CASE x = d
      <4>1. CASE noted
        BY <1>4, <3>1, <4>1
      <4>2. CASE ~ noted
        <5>1. fresh /\ w.dsc[d].notified
          BY <1>7, <2>1, <3>1, <4>2
        <5>2. d \in w.sets[s].to_add \cup w.sets[s].to_update
          BY <1>2, <1>7, <2>1, <3>1, <5>1 DEF Unforgotten
        <5>3. d \in ss2[s].to_add \cup ss2[s].to_update
          BY <1>4, <5>2
        <5> QED
          BY <3>1, <5>3
      <4> QED
        BY <4>1, <4>2
    <3>2. CASE x # d
      <4>1. v.dsc[x] = w.dsc[x] /\ w.dsc[x].owner \in Sets
        <5>1. w.dsc[x] \in DscT /\ v.dsc[x] = w.dsc[x]
          BY <1>1, <3>0, <3>2
        <5> QED
          BY <2>1, <5>1, DscTFacts
      <4>2. \A t \in Sets : /\ w.sets[t].to_add = ss2[t].to_add
                            /\ w.sets[t].to_update \subseteq ss2[t].to_update
        <5> SUFFICES ASSUME NEW t \in Sets
                     PROVE  /\ w.sets[t].to_add = ss2[t].to_add
                            /\ w.sets[t].to_update \subseteq ss2[t].to_update
          OBVIOUS
        <5> QED
          BY <1>4
      <4> QED
        BY <4>1, <4>2
    <3> QED
      BY <3>1, <3>2
  <2> HIDE DEF v
  <2> QED
    BY <1>7, <2>1, UnforgottenKept
<1> QED
  BY <1>6, <1>7 DEF ss2

\* A descriptor that is only to be added gets an id of its own.
LEMMA AssignedFacts ==
  ASSUME NEW w, Inv(w), NEW d \in Dscs \ {Root}, Rooted(w.dsc, d),
         w.dsc[d].written = {}, w.sets[w.dsc[d].owner].to_add = {d}
  PROVE  LET v == [dsc |-> [w.dsc EXCEPT ![d] = [SetOwner(@, @.owner) EXCEPT !.pid = TRUE]],
                   sets |-> Adopted(w.dsc, w.sets, d, w.dsc[d].owner),
                   in_use |-> w.in_use, dirty |-> w.dirty]
         IN /\ Inv(v)
            /\ \A fresh \in BOOLEAN : Unforgotten(w, fresh) => Unforgotten(v, fresh)
<1> DEFINE s == w.dsc[d].owner
           ss2 == Adopted(w.dsc, w.sets, d, w.dsc[d].owner)
           es == [w.dsc EXCEPT ![d] = [SetOwner(@, @.owner) EXCEPT !.pid = TRUE]]
           v == [dsc |-> es, sets |-> ss2, in_use |-> w.in_use, dirty |-> w.dirty]
<1>1. /\ Fine(w) /\ w \in WT /\ GoodDscs(w.dsc) /\ w.dsc \in [Dscs -> DscT]
      /\ w.sets \in [Sets -> SetT] /\ GoodSets(w.dsc, w.sets)
      /\ w.in_use \in SUBSET Pos /\ w.dirty \in SUBSET Pos
      /\ \A t \in Sets : CellInv(w.dsc, w.sets[t], t)
  BY WTFacts DEF Inv, Fine
<1>2. s \in Sets /\ s # NoSet /\ Rooted(w.dsc, s)
  BY <1>1, RootedFacts
<1>3. ss2 = w.sets
  <2>1. SetToBag(Records(w.dsc, s)) (+) SetToBag({}) = SetToBag(Records(w.dsc, s) \cup {})
    BY BagFacts
  <2>2. w.sets[s].sum = SetToBag(Records(w.dsc, s))
    BY <1>1, <1>2 DEF CellInv
  <2>3. Records(w.dsc, s) \cup {} = Records(w.dsc, s)
    OBVIOUS
  <2>4. w.sets[s].sum (+) SetToBag(w.dsc[d].written) = w.sets[s].sum
    BY <2>1, <2>2, <2>3
  <2>5. PICK S \in SetT : S = w.sets[s]
    BY <1>1, <1>2
  <2>6. S.to_add \cup {d} = S.to_add
    BY <2>5
  <2>7. ss2 = [w.sets EXCEPT ![s] = [S EXCEPT !.to_add = S.to_add, !.sum = S.sum]]
    BY <2>4, <2>5, <2>6 DEF Adopted
  <2>8. [S EXCEPT !.to_add = S.to_add, !.sum = S.sum] = S
    BY DEF SetT
  <2> HIDE DEF s, ss2
  <2> QED
    BY <1>1, <2>5, <2>7, <2>8
<1>4. /\ es[d] \in DscT /\ es[d].owner = s /\ es[d].ext = w.dsc[d].ext
      /\ es[d].data = w.dsc[d].data /\ es[d].written = w.dsc[d].written
      /\ es[d].content = w.dsc[d].content
      /\ \A x \in Dscs \ {d} : es[x] = w.dsc[x]
      /\ es \in [Dscs -> DscT]
  <2>1. PICK r \in DscT : r = w.dsc[d]
    BY <1>1
  <2> DEFINE q == [SetOwner(r, r.owner) EXCEPT !.pid = TRUE]
  <2>2. /\ q \in DscT /\ q.owner = r.owner /\ q.ext = r.ext /\ q.data = r.data
        /\ q.written = r.written /\ q.content = r.content
    BY <2>1 DEF SetOwner, DscT
  <2>3. es = [w.dsc EXCEPT ![d] = q]
    BY <2>1
  <2> HIDE DEF q, es
  <2> QED
    BY <1>1, <2>1, <2>2, <2>3
<1> HIDE DEF es, ss2
<1>5. d \in w.sets[s].to_add
  OBVIOUS
<1>6. Noted(w, v)
  <2>1. v \in WT
    BY <1>1, <1>3, <1>4 DEF WT
  <2>2. ASSUME NEW x \in Dscs
        PROVE  /\ es[x].owner = w.dsc[x].owner /\ es[x].ext = w.dsc[x].ext
               /\ es[x].content = w.dsc[x].content /\ es[x].written = w.dsc[x].written
               /\ \/ es[x] = w.dsc[x]
                  \/ /\ w.dsc[x].owner # NoSet /\ es[x].data \in DataOf(x)
                     /\ x \in w.sets[w.dsc[x].owner].to_add
    <3>1. w.dsc[d].data \in DataOf(d)
      BY <1>1, <1>2 DEF GoodDscs
    <3> QED
      BY <1>2, <1>4, <1>5, <3>1
  <2>3. ASSUME NEW t \in Sets
        PROVE  SameStream(w.sets[t], w.sets[t]) /\ \A x \in w.sets[t].to_update : w.dsc[x].owner = t
    BY <1>1 DEF GoodSets, SameStream
  <2>4. v.dsc = es /\ v.sets = w.sets /\ v.in_use = w.in_use /\ v.dirty = w.dirty
    BY <1>3
  <2> HIDE DEF v
  <2> QED
    BY <2>1, <2>2, <2>3, <2>4 DEF Noted
<1>7. Inv(v)
  BY <1>6, NotedFacts
<1>8. ASSUME NEW fresh \in BOOLEAN, Unforgotten(w, fresh) PROVE Unforgotten(v, fresh)
  <2>1. ASSUME NEW x \in Plain, v.dsc[x].owner # NoSet
        PROVE  \/ x \in v.sets[v.dsc[x].owner].to_add \cup v.sets[v.dsc[x].owner].to_update
               \/ /\ v.dsc[x].owner = w.dsc[x].owner /\ v.dsc[x].data = w.dsc[x].data
                  /\ v.dsc[x].pid = w.dsc[x].pid /\ v.dsc[x].written = w.dsc[x].written
                  /\ v.dsc[x].notified = w.dsc[x].notified
                  /\ x \notin w.sets[w.dsc[x].owner].to_add \cup w.sets[w.dsc[x].owner].to_update
    <3>0. x \in Dscs
      BY SetsAreFinite
    <3> QED
      BY <1>3, <1>4, <1>5, <3>0
  <2> HIDE DEF v
  <2> QED
    BY <1>8, <2>1, UnforgottenKept
<1> QED
  BY <1>7, <1>8 DEF es, ss2
=============================================================================
