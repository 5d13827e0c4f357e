----------------------------- MODULE FiniteSums ------------------------------
(***************************************************************************)
(* Facts about the sum of a function over a finite set (SumFunctionOnSet   *)
(* of the module Functions), and about least and greatest elements, that   *)
(* the proofs about the telemetry and the reports rest on.                 *)
(***************************************************************************)
EXTENDS Integers, Functions, FiniteSets, FiniteSetTheorems, WellFoundedInduction, TLAPS

(***************************************************************************)
(* A sum counts units: the values of a function, one by one.               *)
(***************************************************************************)
UnitsOf(f, T) == {u \in T \X Nat : u[2] \in 1 .. f[u[1]]}

Chosen(s) == CHOOSE x \in s : TRUE

\* The equation of the fold.
SumEq(g, f, D) == g = [s \in D |-> IF s = {} THEN 0 ELSE f[Chosen(s)] + g[s \ {Chosen(s)}]]

SumIter(f, S) == CHOOSE g : SumEq(g, f, SUBSET S)

LEMMA SumIsFold == ASSUME NEW f, NEW S PROVE SumFunctionOnSet(f, S) = SumIter(f, S)[S]
BY Zenon DEF SumFunctionOnSet, FoldFunctionOnSet, MapThenFoldSet, SumIter, SumEq, Chosen

LEMMA NatOrder == IsWellFoundedOn({ss \in Nat \X Nat : ss[1] < ss[2]}, Nat)
BY NatLessThanWellFounded DEF OpToRel

LEMMA LeastOf ==
    ASSUME NEW S \in SUBSET Nat, S # {}
    PROVE  \E i \in S : \A j \in S : i <= j
<1> DEFINE less == {ss \in Nat \X Nat : ss[1] < ss[2]}
<1>1. PICK i \in S : \A j \in S : ~(<<j, i>> \in less)
  <2> HIDE DEF less
  <2>1. IsWellFoundedOn(less, Nat)
    BY NatOrder DEF less
  <2> QED BY <2>1, WFMin
<1>2. \A j \in S : i <= j
  <2> TAKE j \in S
  <2>1. i \in Nat /\ j \in Nat /\ <<j, i>> \in Nat \X Nat
    OBVIOUS
  <2>2. ~(j < i)
    BY <1>1, <2>1
  <2> QED BY <2>1, <2>2
<1> QED BY <1>2

LEMMA GreatestOf ==
    ASSUME NEW n \in Nat, NEW S \in SUBSET (0 .. n), S # {}
    PROVE  \E i \in S : \A j \in S : j <= i
<1> DEFINE D == {n - j : j \in S}
<1>1. D \in SUBSET Nat /\ D # {}
  <2>1. \A j \in S : n - j \in Nat
    OBVIOUS
  <2> QED BY <2>1
<1>2. PICK d \in D : \A e \in D : d <= e
  <2> HIDE DEF D
  <2> QED BY <1>1, LeastOf
<1>3. PICK i \in S : d = n - i
  OBVIOUS
<1>4. \A j \in S : j <= i
  <2> TAKE j \in S
  <2>1. n - i <= n - j
    BY <1>2, <1>3
  <2> QED BY <2>1
<1> QED BY <1>4

\* The fold is what its equation says: on the subsets of up to n elements there
\* is a function that solves it, for every n.
UpTo(S, n) == {s \in SUBSET S : Cardinality(s) <= n}

LEMMA FoldGrows ==
    ASSUME NEW S, IsFiniteSet(S), NEW f, NEW n \in Nat, NEW h, SumEq(h, f, UpTo(S, n))
    PROVE  \E g : SumEq(g, f, UpTo(S, n + 1))
<1> DEFINE E(s) == IF s = {} THEN 0 ELSE f[Chosen(s)] + h[s \ {Chosen(s)}]
           g == [s \in UpTo(S, n + 1) |-> E(s)]
<1>1. ASSUME NEW s \in UpTo(S, n + 1), s # {}
      PROVE  s \ {Chosen(s)} \in UpTo(S, n)
  <2>1. Chosen(s) \in s /\ s \in SUBSET S
    BY <1>1 DEF Chosen, UpTo
  <2>2. IsFiniteSet(s)
    BY <2>1, FS_Subset
  <2>3. Cardinality(s) \in Nat /\ Cardinality(s \ {Chosen(s)}) = Cardinality(s) - 1
    BY <2>1, <2>2, FS_CardinalityType, FS_RemoveElement
  <2>4. Cardinality(s) <= n + 1
    BY DEF UpTo
  <2> QED BY <2>1, <2>3, <2>4 DEF UpTo
<1>2. ASSUME NEW s \in UpTo(S, n) PROVE s \in UpTo(S, n + 1) /\ h[s] = E(s)
  <2>1. s \in SUBSET S /\ Cardinality(s) <= n
    BY DEF UpTo
  <2>2. Cardinality(s) \in Nat
    BY <2>1, FS_Subset, FS_CardinalityType
  <2>3. Cardinality(s) <= n + 1
    BY <2>1, <2>2
  <2>4. h[s] = E(s)
    BY Zenon DEF SumEq
  <2> QED BY <2>1, <2>3, <2>4 DEF UpTo
<1>3. \A s \in UpTo(S, n) : g[s] = h[s]
  BY <1>2
<1>4. ASSUME NEW s \in UpTo(S, n + 1)
      PROVE  E(s) = IF s = {} THEN 0 ELSE f[Chosen(s)] + g[s \ {Chosen(s)}]
  BY <1>1, <1>3
<1>5. g = [s \in UpTo(S, n + 1) |-> IF s = {} THEN 0 ELSE f[Chosen(s)] + g[s \ {Chosen(s)}]]
  <2> HIDE DEF E
  <2>1. g = [s \in UpTo(S, n + 1) |-> E(s)]
    OBVIOUS
  <2> HIDE DEF g
  <2> QED BY <1>4, <2>1, Zenon
<1>6. SumEq(g, f, UpTo(S, n + 1))
  <2> HIDE DEF g, E
  <2> QED BY <1>5 DEF SumEq
<1> QED BY <1>6

LEMMA FoldSolves ==
    ASSUME NEW S, IsFiniteSet(S), NEW f
    PROVE  SumEq(SumIter(f, S), f, SUBSET S)
<1> DEFINE Bad == {n \in Nat : ~\E g : SumEq(g, f, UpTo(S, n))}
<1>1. Bad = {}
  <2> SUFFICES ASSUME Bad # {} PROVE FALSE
    OBVIOUS
  <2>1. PICK n \in Bad : \A m \in Bad : n <= m
    <3>1. Bad \in SUBSET Nat
      OBVIOUS
    <3> HIDE DEF Bad
    <3> QED BY <3>1, LeastOf
  <2>2. n # 0
    <3> SUFFICES \E g : SumEq(g, f, UpTo(S, 0))
      BY <2>1
    <3> DEFINE g == [s \in UpTo(S, 0) |-> 0]
    <3>1. \A s \in UpTo(S, 0) : s = {}
      <4> TAKE s \in UpTo(S, 0)
      <4>1. IsFiniteSet(s) /\ Cardinality(s) <= 0
        BY FS_Subset DEF UpTo
      <4>2. Cardinality(s) = 0
        BY <4>1, FS_CardinalityType
      <4> QED BY <4>1, <4>2, FS_EmptySet
    <3>2. SumEq(g, f, UpTo(S, 0))
      BY <3>1 DEF SumEq
    <3> QED BY <3>2
  <2>3. n - 1 \in Nat /\ n - 1 \notin Bad /\ (n - 1) + 1 = n
    BY <2>1, <2>2
  <2>4. PICK h : SumEq(h, f, UpTo(S, n - 1))
    BY <2>3
  <2>5. \E g : SumEq(g, f, UpTo(S, (n - 1) + 1))
    BY <2>3, <2>4, FoldGrows
  <2> QED BY <2>1, <2>3, <2>5
<1>2. Cardinality(S) \in Nat
  BY FS_CardinalityType
<1>3. UpTo(S, Cardinality(S)) = SUBSET S
  BY FS_Subset DEF UpTo
<1>4. \E g : SumEq(g, f, SUBSET S)
  <2>1. \E g : SumEq(g, f, UpTo(S, Cardinality(S)))
    BY <1>1, <1>2
  <2> QED BY <1>3, <2>1, Zenon
<1> QED BY <1>4 DEF SumIter

LEMMA SumCounts ==
    ASSUME NEW S, IsFiniteSet(S), NEW f, \A x \in S : f[x] \in Nat
    PROVE  /\ IsFiniteSet(UnitsOf(f, S))
           /\ SumFunctionOnSet(f, S) = Cardinality(UnitsOf(f, S))
<1> DEFINE g == SumIter(f, S)
           Counts(T) == IsFiniteSet(UnitsOf(f, T)) /\ g[T] = Cardinality(UnitsOf(f, T))
           Bad == {T \in SUBSET S : ~Counts(T)}
<1>e. \A T \in SUBSET S : g[T] = IF T = {} THEN 0 ELSE f[Chosen(T)] + g[T \ {Chosen(T)}]
  <2>1. SumEq(g, f, SUBSET S)
    BY FoldSolves
  <2> HIDE DEF g
  <2> QED BY <2>1, Zenon DEF SumEq
<1>1. Bad = {}
  <2> SUFFICES ASSUME Bad # {} PROVE FALSE
    OBVIOUS
  <2>1. PICK T \in Bad : \A U \in Bad : ~(<<U, T>> \in StrictSubsetOrdering(S))
    <3>1. Bad \in SUBSET FiniteSubsetsOf(S)
      BY FS_FiniteSubsetsOfFinite
    <3> HIDE DEF Bad
    <3> QED BY <3>1, FS_StrictSubsetOrderingWellFounded, WFMin
  <2>2. CASE T = {}
    <3>1. UnitsOf(f, {}) = {}
      BY DEF UnitsOf
    <3>2. g[{}] = 0
      BY <1>e
    <3> QED BY <2>2, <3>1, <3>2, FS_EmptySet
  <2>3. CASE T # {}
    <3> DEFINE x == Chosen(T)
               U == T \ {x}
    <3>1. x \in T /\ T \in SUBSET S /\ x \in S /\ U \in SUBSET S
      BY <2>3 DEF Chosen
    <3>2. <<U, T>> \in StrictSubsetOrdering(S)
      BY <3>1 DEF StrictSubsetOrdering
    <3>3. Counts(U)
      BY <2>1, <3>1, <3>2
    <3>4. /\ UnitsOf(f, T) = UnitsOf(f, U) \cup ({x} \X (1 .. f[x]))
          /\ UnitsOf(f, U) \cap ({x} \X (1 .. f[x])) = {}
      BY <3>1 DEF UnitsOf
    <3>5. f[x] \in Nat
      BY <3>1
    <3>6. IsFiniteSet({x} \X (1 .. f[x])) /\ Cardinality({x} \X (1 .. f[x])) = f[x]
      <4>1. IsFiniteSet({x}) /\ Cardinality({x}) = 1
        BY FS_Singleton
      <4>2. IsFiniteSet(1 .. f[x]) /\ Cardinality(1 .. f[x]) = f[x]
        <5>1. PICK n \in Nat : n = f[x]
          BY <3>5
        <5>2. IsFiniteSet(1 .. n) /\ Cardinality(1 .. n) = n
          BY FS_Interval
        <5> QED BY <5>1, <5>2
      <4>3. PICK X, Y : X = {x} /\ Y = 1 .. f[x]
        OBVIOUS
      <4>4. IsFiniteSet(X \X Y) /\ Cardinality(X \X Y) = Cardinality(X) * Cardinality(Y)
        BY <4>1, <4>2, <4>3, FS_Product
      <4> QED BY <3>5, <4>1, <4>2, <4>3, <4>4
    <3>7. /\ IsFiniteSet(UnitsOf(f, T))
          /\ Cardinality(UnitsOf(f, T)) = Cardinality(UnitsOf(f, U)) + f[x]
      <4>1. IsFiniteSet(UnitsOf(f, U)) /\ Cardinality(UnitsOf(f, U)) \in Nat
        BY <3>3, FS_CardinalityType
      <4> HIDE DEF x, U
      <4>2. PICK A, B : A = UnitsOf(f, U) /\ B = {x} \X (1 .. f[x])
        OBVIOUS
      <4>3. IsFiniteSet(A \cup B) /\ Cardinality(A \cup B) = Cardinality(A) + Cardinality(B) - 0
        <5>1. IsFiniteSet(A) /\ IsFiniteSet(B) /\ A \cap B = {}
          BY <3>4, <3>6, <4>1, <4>2
        <5> QED BY <5>1, FS_Union, FS_EmptySet
      <4>4. A \cup B = UnitsOf(f, T) /\ Cardinality(B) = f[x]
        BY <3>4, <3>6, <4>2
      <4>5. PICK c, d, e : c = Cardinality(A) /\ d = f[x] /\ e = Cardinality(A \cup B)
        OBVIOUS
      <4>6. c \in Nat /\ d \in Nat /\ e = c + d
        BY <3>5, <4>1, <4>2, <4>3, <4>4, <4>5
      <4>7. /\ IsFiniteSet(UnitsOf(f, T)) /\ Cardinality(UnitsOf(f, T)) = e
            /\ Cardinality(UnitsOf(f, U)) = c
        BY <4>2, <4>3, <4>4, <4>5, Zenon
      <4> QED BY <4>5, <4>6, <4>7
    <3>8. g[T] = f[x] + g[U]
      BY <1>e, <2>3, <3>1
    <3>9. Cardinality(UnitsOf(f, U)) \in Nat
      BY <3>3, FS_CardinalityType
    <3> QED BY <2>1, <3>3, <3>5, <3>7, <3>8, <3>9
  <2> QED BY <2>2, <2>3
<1>2. Counts(S)
  BY <1>1
<1>3. SumFunctionOnSet(f, S) = g[S]
  BY SumIsFold
<1> QED BY <1>2, <1>3

LEMMA SumWhole == ASSUME NEW f PROVE SumFunction(f) = SumFunctionOnSet(f, DOMAIN f)
BY DEF SumFunction

LEMMA SumIsNat ==
    ASSUME NEW S, IsFiniteSet(S), NEW f, \A x \in S : f[x] \in Nat
    PROVE  SumFunctionOnSet(f, S) \in Nat
BY SumCounts, FS_CardinalityType

\* The sum is that of the values on the set.
LEMMA SumSame ==
    ASSUME NEW S, IsFiniteSet(S), NEW f, \A x \in S : f[x] \in Nat,
           NEW g, \A x \in S : g[x] = f[x]
    PROVE  SumFunctionOnSet(g, S) = SumFunctionOnSet(f, S)
<1>1. \A x \in S : g[x] \in Nat
  OBVIOUS
<1>2. UnitsOf(g, S) = UnitsOf(f, S)
  BY DEF UnitsOf
<1> QED BY <1>1, <1>2, SumCounts

LEMMA SumMonotone ==
    ASSUME NEW S, IsFiniteSet(S), NEW f, \A x \in S : f[x] \in Nat, NEW T \in SUBSET S
    PROVE  SumFunctionOnSet(f, T) <= SumFunctionOnSet(f, S)
<1>1. IsFiniteSet(T) /\ \A x \in T : f[x] \in Nat
  BY FS_Subset
<1>2. UnitsOf(f, T) \subseteq UnitsOf(f, S) /\ IsFiniteSet(UnitsOf(f, S))
  BY SumCounts DEF UnitsOf
<1>3. Cardinality(UnitsOf(f, T)) <= Cardinality(UnitsOf(f, S))
  BY <1>2, FS_Subset
<1> QED BY <1>1, <1>3, SumCounts

LEMMA SumUnion ==
    ASSUME NEW S, IsFiniteSet(S), NEW T, IsFiniteSet(T), S \cap T = {},
           NEW f, \A x \in S \cup T : f[x] \in Nat
    PROVE  SumFunctionOnSet(f, S \cup T) = SumFunctionOnSet(f, S) + SumFunctionOnSet(f, T)
<1>1. /\ UnitsOf(f, S \cup T) = UnitsOf(f, S) \cup UnitsOf(f, T)
      /\ UnitsOf(f, S) \cap UnitsOf(f, T) = {}
  BY DEF UnitsOf
<1>2. /\ IsFiniteSet(UnitsOf(f, S)) /\ SumFunctionOnSet(f, S) = Cardinality(UnitsOf(f, S))
      /\ IsFiniteSet(UnitsOf(f, T)) /\ SumFunctionOnSet(f, T) = Cardinality(UnitsOf(f, T))
  <2>1. (\A x \in S : f[x] \in Nat) /\ \A x \in T : f[x] \in Nat
    OBVIOUS
  <2> QED BY <2>1, SumCounts
<1>3. SumFunctionOnSet(f, S \cup T) = Cardinality(UnitsOf(f, S \cup T))
  <2>1. IsFiniteSet(S \cup T)
    BY FS_Union
  <2> QED BY <2>1, SumCounts
<1>4. PICK A, B : A = UnitsOf(f, S) /\ B = UnitsOf(f, T)
  OBVIOUS
<1>5. Cardinality(A \cup B) = Cardinality(A) + Cardinality(B) - 0
  <2>1. IsFiniteSet(A) /\ IsFiniteSet(B) /\ A \cap B = {}
    BY <1>1, <1>2, <1>4
  <2> QED BY <2>1, FS_Union, FS_EmptySet
<1>6. Cardinality(A) \in Nat /\ Cardinality(B) \in Nat
  BY <1>2, <1>4, FS_CardinalityType
<1>7. /\ SumFunctionOnSet(f, S \cup T) = Cardinality(A \cup B)
      /\ SumFunctionOnSet(f, S) = Cardinality(A) /\ SumFunctionOnSet(f, T) = Cardinality(B)
  BY <1>1, <1>2, <1>3, <1>4
<1> QED BY <1>5, <1>6, <1>7

LEMMA SumEmpty == ASSUME NEW f PROVE SumFunctionOnSet(f, {}) = 0
<1>1. UnitsOf(f, {}) = {}
  BY DEF UnitsOf
<1>2. IsFiniteSet({}) /\ Cardinality({}) = 0
  BY FS_EmptySet
<1> QED BY <1>1, <1>2, SumCounts

LEMMA SumSingle == ASSUME NEW f, NEW x, f[x] \in Nat PROVE SumFunctionOnSet(f, {x}) = f[x]
<1>1. UnitsOf(f, {x}) = {x} \X (1 .. f[x])
  BY DEF UnitsOf
<1>2. IsFiniteSet({x}) /\ Cardinality({x}) = 1
  BY FS_Singleton
<1>3. PICK n \in Nat : n = f[x]
  OBVIOUS
<1>4. IsFiniteSet(1 .. n) /\ Cardinality(1 .. n) = n
  BY FS_Interval
<1>5. Cardinality({x} \X (1 .. n)) = n
  <2>1. Cardinality({x} \X (1 .. n)) = 1 * n
    BY <1>2, <1>4, FS_Product
  <2> QED BY <2>1
<1>6. SumFunctionOnSet(f, {x}) = Cardinality(UnitsOf(f, {x}))
  <2>1. \A y \in {x} : f[y] \in Nat
    OBVIOUS
  <2> QED BY <1>2, <2>1, SumCounts
<1> QED BY <1>1, <1>3, <1>5, <1>6, Zenon

\* One more in one place.
LEMMA SumBumped ==
    ASSUME NEW S, IsFiniteSet(S), NEW f, NEW g, NEW z \in S, NEW d \in Int,
           \A y \in S : f[y] \in Nat /\ g[y] \in Nat, \A y \in S : y # z => g[y] = f[y], g[z] = f[z] + d
    PROVE  /\ SumFunctionOnSet(g, S) = SumFunctionOnSet(f, S) + d
           /\ SumFunctionOnSet(f, S) \in Nat
<1>1. PICK T, one : T = S \ {z} /\ one = {z}
  OBVIOUS
<1>2. IsFiniteSet(T) /\ IsFiniteSet(one) /\ T \cap one = {} /\ S = T \cup one
  BY <1>1, FS_Subset, FS_Singleton
<1>3. /\ SumFunctionOnSet(f, T \cup one) = SumFunctionOnSet(f, T) + SumFunctionOnSet(f, one)
      /\ SumFunctionOnSet(g, T \cup one) = SumFunctionOnSet(g, T) + SumFunctionOnSet(g, one)
  <2>1. (\A y \in T \cup one : f[y] \in Nat) /\ (\A y \in T \cup one : g[y] \in Nat)
    BY <1>2
  <2> QED BY <1>2, <2>1, SumUnion
<1>4. SumFunctionOnSet(f, one) = f[z] /\ SumFunctionOnSet(g, one) = g[z]
  BY <1>1, SumSingle
<1>5. SumFunctionOnSet(g, T) = SumFunctionOnSet(f, T)
  <2>1. (\A y \in T : f[y] \in Nat) /\ (\A y \in T : g[y] = f[y])
    BY <1>1
  <2> QED BY <1>2, <2>1, SumSame
<1>6. SumFunctionOnSet(f, T) \in Nat
  <2>1. \A y \in T : f[y] \in Nat
    BY <1>1
  <2> QED BY <1>2, <2>1, SumIsNat
<1>7. PICK t, u, v, w : /\ t = SumFunctionOnSet(f, T) /\ u = f[z] /\ v = SumFunctionOnSet(g, S)
                        /\ w = SumFunctionOnSet(f, S)
  OBVIOUS
<1>8. w = t + u /\ v = t + (u + d) /\ t \in Nat /\ u \in Nat
  BY <1>2, <1>3, <1>4, <1>5, <1>6, <1>7
<1>9. v = w + d /\ w \in Nat
  BY <1>8
<1> QED BY <1>7, <1>9

LEMMA SumOfNone ==
    ASSUME NEW S, IsFiniteSet(S), NEW f, \A y \in S : f[y] = 0
    PROVE  SumFunctionOnSet(f, S) = 0
<1>1. UnitsOf(f, S) = {}
  BY DEF UnitsOf
<1>2. \A y \in S : f[y] \in Nat
  OBVIOUS
<1>3. SumFunctionOnSet(f, S) = Cardinality(UnitsOf(f, S))
  BY <1>2, SumCounts
<1>4. Cardinality({}) = 0
  BY FS_EmptySet
<1> QED BY <1>1, <1>3, <1>4

\* A sum may be taken along a renaming of the set.
LEMMA SumAlong ==
    ASSUME NEW S, IsFiniteSet(S), NEW T, NEW h \in Bijection(S, T),
           NEW f, \A x \in T : f[x] \in Nat,
           NEW g, \A x \in S : g[x] = f[h[x]]
    PROVE  SumFunctionOnSet(g, S) = SumFunctionOnSet(f, T)
<1>1. h \in [S -> T] /\ (\A x, y \in S : h[x] = h[y] => x = y) /\ \A y \in T : \E x \in S : h[x] = y
  <2>1. h \in Injection(S, T) /\ h \in Surjection(S, T)
    BY DEF Bijection
  <2>2. h \in [S -> T] /\ \A x, y \in S : h[x] = h[y] => x = y
    BY <2>1 DEF Injection, IsInjective
  <2>3. \A y \in T : \E x \in S : h[x] = y
    BY <2>1 DEF Surjection
  <2> QED BY <2>2, <2>3
<1>2. IsFiniteSet(T)
  BY FS_Bijection DEF ExistsBijection
<1>3. \A x \in S : g[x] \in Nat
  BY <1>1
<1> DEFINE b == [u \in UnitsOf(g, S) |-> <<h[u[1]], u[2]>>]
<1>4. b \in Bijection(UnitsOf(g, S), UnitsOf(f, T))
  <2>1. ASSUME NEW u \in UnitsOf(g, S) PROVE b[u] \in UnitsOf(f, T)
    BY <1>1 DEF UnitsOf
  <2>2. ASSUME NEW u \in UnitsOf(g, S), NEW w \in UnitsOf(g, S), b[u] = b[w] PROVE u = w
    BY <1>1, <2>2 DEF UnitsOf
  <2>3. ASSUME NEW w \in UnitsOf(f, T) PROVE \E u \in UnitsOf(g, S) : b[u] = w
    <3>1. PICK y \in T, n \in Nat : w = <<y, n>> /\ n \in 1 .. f[y]
      BY DEF UnitsOf
    <3>2. PICK x \in S : h[x] = y
      BY <1>1
    <3>3. <<x, n>> \in UnitsOf(g, S)
      BY <3>1, <3>2 DEF UnitsOf
    <3> QED BY <3>1, <3>2, <3>3
  <2>4. b \in [UnitsOf(g, S) -> UnitsOf(f, T)]
    BY <2>1
  <2> HIDE DEF b
  <2>5. b \in Injection(UnitsOf(g, S), UnitsOf(f, T))
    BY <2>2, <2>4 DEF Injection, IsInjective
  <2>6. b \in Surjection(UnitsOf(g, S), UnitsOf(f, T))
    BY <2>3, <2>4 DEF Surjection
  <2> QED BY <2>5, <2>6 DEF Bijection
<1>5. IsFiniteSet(UnitsOf(g, S)) /\ SumFunctionOnSet(g, S) = Cardinality(UnitsOf(g, S))
  BY <1>3, SumCounts
<1>6. SumFunctionOnSet(f, T) = Cardinality(UnitsOf(f, T))
  BY <1>2, SumCounts
<1>7. Cardinality(UnitsOf(g, S)) = Cardinality(UnitsOf(f, T))
  <2> HIDE DEF b
  <2>1. ExistsBijection(UnitsOf(g, S), UnitsOf(f, T))
    BY <1>4 DEF ExistsBijection
  <2> QED BY <1>5, <2>1, FS_Bijection
<1> QED BY <1>5, <1>6, <1>7

OfClass(S, h, k) == {x \in S : h[x] = k}

Classed(h, S, K) == \A x \in S : h[x] \in K

ClassSums(g, f, S, h, K) == \A k \in K : g[k] = SumFunctionOnSet(f, OfClass(S, h, k))

\* A sum may be taken class by class.
LEMMA SumByClass ==
    ASSUME NEW S, IsFiniteSet(S), NEW f, \A x \in S : f[x] \in Nat,
           NEW K, IsFiniteSet(K), NEW h, Classed(h, S, K), NEW g, ClassSums(g, f, S, h, K)
    PROVE  SumFunctionOnSet(g, K) = SumFunctionOnSet(f, S)
<1> DEFINE Of(L) == {x \in S : h[x] \in L}
           Agrees(L) == SumFunctionOnSet(g, L) = SumFunctionOnSet(f, Of(L))
           Bad == {L \in SUBSET K : ~Agrees(L)}
<1>1. \A L \in SUBSET K : IsFiniteSet(L) /\ IsFiniteSet(Of(L)) /\ \A x \in Of(L) : f[x] \in Nat
  BY FS_Subset
<1>2. \A k \in K : g[k] \in Nat /\ g[k] = SumFunctionOnSet(f, Of({k}))
  <2> TAKE k \in K
  <2>1. Of({k}) = OfClass(S, h, k) /\ {k} \in SUBSET K
    BY DEF OfClass
  <2> HIDE DEF Of
  <2>2. SumFunctionOnSet(f, Of({k})) \in Nat
    BY <1>1, <2>1, SumIsNat
  <2> QED BY <2>1, <2>2 DEF ClassSums
<1>3. Bad = {}
  <2> SUFFICES ASSUME Bad # {} PROVE FALSE
    OBVIOUS
  <2>1. PICK L \in Bad : \A M \in Bad : ~(<<M, L>> \in StrictSubsetOrdering(K))
    <3>1. Bad \in SUBSET FiniteSubsetsOf(K)
      BY FS_FiniteSubsetsOfFinite
    <3> HIDE DEF Bad
    <3> QED BY <3>1, FS_StrictSubsetOrderingWellFounded, WFMin
  <2>2. L # {}
    <3>1. Of({}) = {}
      OBVIOUS
    <3> HIDE DEF Of
    <3>2. Agrees({})
      BY <3>1, SumEmpty
    <3> QED BY <2>1, <3>2
  <2>3. PICK k \in L : TRUE
    BY <2>2
  <2> DEFINE M == L \ {k}
  <2>4. M \in SUBSET K /\ {k} \in SUBSET K /\ M \cap {k} = {} /\ M \cup {k} = L /\ k \in K
    OBVIOUS
  <2>5. <<M, L>> \in StrictSubsetOrdering(K)
    BY <2>4 DEF StrictSubsetOrdering
  <2>6. Agrees(M)
    BY <2>1, <2>4, <2>5
  <2>7. SumFunctionOnSet(g, M \cup {k}) = SumFunctionOnSet(g, M) + g[k]
    <3> HIDE DEF M
    <3>1. IsFiniteSet(M) /\ IsFiniteSet({k}) /\ \A x \in M \cup {k} : g[x] \in Nat
      BY <1>1, <1>2, <2>4
    <3>2. SumFunctionOnSet(g, {k}) = g[k]
      BY <1>2, <2>4, SumSingle
    <3>3. PICK T : T = {k} /\ IsFiniteSet(T) /\ M \cap T = {} /\ \A x \in M \cup T : g[x] \in Nat
      BY <2>4, <3>1
    <3>4. SumFunctionOnSet(g, M \cup T) = SumFunctionOnSet(g, M) + SumFunctionOnSet(g, T)
      BY <3>1, <3>3, SumUnion
    <3> QED BY <3>2, <3>3, <3>4
  <2>8. SumFunctionOnSet(f, Of(M \cup {k})) = SumFunctionOnSet(f, Of(M)) + SumFunctionOnSet(f, Of({k}))
    <3>1. Of(M \cup {k}) = Of(M) \cup Of({k}) /\ Of(M) \cap Of({k}) = {}
      OBVIOUS
    <3>2. \A x \in Of(M) \cup Of({k}) : f[x] \in Nat
      OBVIOUS
    <3>3. IsFiniteSet(Of(M)) /\ IsFiniteSet(Of({k}))
      <4> HIDE DEF Of, M
      <4> QED BY <1>1, <2>4
    <3>4. PICK A, B : A = Of(M) /\ B = Of({k})
      OBVIOUS
    <3> HIDE DEF Of, M
    <3>5. SumFunctionOnSet(f, A \cup B) = SumFunctionOnSet(f, A) + SumFunctionOnSet(f, B)
      <4>1. IsFiniteSet(A) /\ IsFiniteSet(B) /\ A \cap B = {} /\ \A x \in A \cup B : f[x] \in Nat
        BY <3>1, <3>2, <3>3, <3>4
      <4> QED BY <4>1, SumUnion
    <3> QED BY <3>1, <3>4, <3>5
  <2>9. Agrees(L)
    <3> HIDE DEF Of, M
    <3> QED BY <1>2, <2>4, <2>6, <2>7, <2>8
  <2> QED BY <2>1, <2>9
<1>4. Of(K) = S
  BY DEF Classed
<1>5. Agrees(K)
  BY <1>3
<1> QED BY <1>4, <1>5
=============================================================================
