---------------------------- MODULE RollupProofs ----------------------------
(***************************************************************************)
(* Proofs about what a panel shows of a table that is downsampled          *)
(* (RollupQueries): for any values, any length of the buckets, samples and *)
(* partitions, and any raw window.                                         *)
(***************************************************************************)
EXTENDS RollupQueries, FiniteSetTheorems, WellFoundedInduction, TLAPS
-----------------------------------------------------------------------------
(* Sums over finite sets.                                                  *)

\* What holds of a set if it holds of all its proper subsets holds of all.
LEMMA SetInduction ==
    ASSUME NEW S, IsFiniteSet(S), NEW P,
           \A s \in SUBSET S : (\A t \in SUBSET s : t # s => t \in P) => s \in P
    PROVE  \A s \in SUBSET S : s \in P
<1> DEFINE D == {s \in SUBSET S : s \notin P}
           R == StrictSubsetOrdering(S)
<1> SUFFICES ASSUME D # {}  PROVE FALSE
  OBVIOUS
<1>1. IsWellFoundedOn(R, SUBSET S)
  <2>1. FiniteSubsetsOf(S) = SUBSET S
    BY FS_FiniteSubsetsOfFinite
  <2>2. IsWellFoundedOn(R, FiniteSubsetsOf(S))
    BY FS_StrictSubsetOrderingWellFounded, Zenon
  <2> QED  BY <2>1, <2>2, Zenon
<1>2. PICK x \in D : \A y \in D : <<y, x>> \notin R
  <2> HIDE DEF R
  <2>1. D \subseteq SUBSET S
    OBVIOUS
  <2> HIDE DEF D
  <2> QED  BY <1>1, <2>1, WFMin
<1>3. ASSUME NEW t \in SUBSET x, t # x  PROVE t \in P
  <2>1. t \in SUBSET S /\ x \in SUBSET S
    OBVIOUS
  <2>2. <<t, x>> \in R
    BY <1>3, <2>1 DEF StrictSubsetOrdering
  <2> QED  BY <1>2, <2>1, <2>2
<1> QED  BY <1>3

\* The element that is folded next.
Pick(s) == CHOOSE x \in s : TRUE

\* h sums up f over every subset of S.
Folded(h, f, S) ==
    h = [s \in SUBSET S |-> IF s = {} THEN 0 ELSE f[Pick(s)] + h[s \ {Pick(s)}]]

\* What it gives a subset.
LEMMA Unfold ==
    ASSUME NEW h, NEW f, NEW S, Folded(h, f, S), NEW s \in SUBSET S
    PROVE  h[s] = IF s = {} THEN 0 ELSE f[Pick(s)] + h[s \ {Pick(s)}]
<1>1. h = [t \in SUBSET S |-> IF t = {} THEN 0 ELSE f[Pick(t)] + h[t \ {Pick(t)}]]
  BY Zenon DEF Folded
<1> QED  BY <1>1, Zenon

\* One element less is a proper subset.
LEMMA Picked ==
    ASSUME NEW s, s # {}
    PROVE  Pick(s) \in s /\ s \ {Pick(s)} \in SUBSET s /\ s \ {Pick(s)} # s
<1>1. Pick(s) \in s
  BY DEF Pick
<1> HIDE DEF Pick
<1> QED  BY <1>1

\* The sum over a set depends on nothing but the values in it.
LEMMA FoldedAlike ==
    ASSUME NEW S, IsFiniteSet(S), NEW T, S \subseteq T, NEW f, NEW g, NEW h, NEW k,
           Folded(h, f, S), Folded(k, g, T), \A i \in S : f[i] = g[i]
    PROVE  h[S] = k[S]
<1> DEFINE P == {s \in SUBSET S : h[s] = k[s]}
<1>1. ASSUME NEW s \in SUBSET S, \A t \in SUBSET s : t # s => t \in P
      PROVE  h[s] = k[s]
  <2>1. h[s] = IF s = {} THEN 0 ELSE f[Pick(s)] + h[s \ {Pick(s)}]
    BY Unfold
  <2>2. k[s] = IF s = {} THEN 0 ELSE g[Pick(s)] + k[s \ {Pick(s)}]
    <3>1. s \in SUBSET T
      OBVIOUS
    <3> QED  BY <3>1, Unfold
  <2>3. CASE s = {}
    BY <2>1, <2>2, <2>3
  <2>4. CASE s # {}
    <3>1. Pick(s) \in s /\ s \ {Pick(s)} \in SUBSET s /\ s \ {Pick(s)} # s
      BY <2>4, Picked
    <3>2. s \ {Pick(s)} \in P
      <4> HIDE DEF P
      <4> QED  BY <1>1, <3>1
    <3>3. h[s \ {Pick(s)}] = k[s \ {Pick(s)}] /\ f[Pick(s)] = g[Pick(s)]
      BY <3>1, <3>2
    <3> QED  BY <2>1, <2>2, <2>4, <3>3
  <2> QED  BY <2>3, <2>4
<1>2. \A s \in SUBSET S : (\A t \in SUBSET s : t # s => t \in P) => s \in P
  BY <1>1
<1>3. \A s \in SUBSET S : s \in P
  <2> HIDE DEF P
  <2> QED  BY <1>2, SetInduction
<1> QED  BY <1>3

\* There is such a sum.
LEMMA FoldedExists ==
    ASSUME NEW S, IsFiniteSet(S), NEW f
    PROVE  \E h : Folded(h, f, S)
<1> DEFINE P == {s \in SUBSET S : \E h : Folded(h, f, s)}
           fold(s) == CHOOSE h : Folded(h, f, s)
           sum(s) == fold(s)[s]
<1>1. ASSUME NEW s \in SUBSET S, \A t \in SUBSET s : t # s => t \in P
      PROVE  \E h : Folded(h, f, s)
  <2> DEFINE g == [t \in SUBSET s |-> IF t = {} THEN 0
                                      ELSE f[Pick(t)] + sum(t \ {Pick(t)})]
  <2>1. ASSUME NEW t \in SUBSET s, t # s  PROVE Folded(fold(t), f, t)
    <3>1. \E h : Folded(h, f, t)
      BY <1>1, <2>1
    <3> QED  BY <3>1, Zenon
  <2>2. ASSUME NEW t \in SUBSET s, t # s  PROVE sum(t) = g[t]
    <3> HIDE DEF fold
    <3>1. sum(t) = IF t = {} THEN 0 ELSE f[Pick(t)] + fold(t)[t \ {Pick(t)}]
      BY <2>1, <2>2, Unfold
    <3>2. CASE t = {}
      BY <3>1, <3>2
    <3>3. CASE t # {}
      <4> DEFINE u == t \ {Pick(t)}
      <4>1. u \in SUBSET t /\ u \in SUBSET s /\ u # s /\ t \in SUBSET S
        BY <2>2, <3>3, Picked
      <4>2. Folded(fold(u), f, u) /\ Folded(fold(t), f, t)
        BY <2>1, <2>2, <4>1
      <4>3. IsFiniteSet(u)
        BY <4>1, FS_Subset
      <4> HIDE DEF u
      <4>4. fold(u)[u] = fold(t)[u]
        BY <4>1, <4>2, <4>3, FoldedAlike
      <4> QED  BY <3>1, <3>3, <4>4 DEF u
    <3> QED  BY <3>2, <3>3
  <2>3. ASSUME NEW t \in SUBSET s, t # {}
        PROVE  sum(t \ {Pick(t)}) = g[t \ {Pick(t)}]
    <3>1. t \ {Pick(t)} \in SUBSET s /\ t \ {Pick(t)} # s
      BY <2>3, Picked
    <3> HIDE DEF g, sum
    <3> QED  BY <2>2, <3>1
  <2>4. g = [t \in SUBSET s |-> IF t = {} THEN 0
                                ELSE f[Pick(t)] + g[t \ {Pick(t)}]]
    <3> DEFINE k == [t \in SUBSET s |-> IF t = {} THEN 0
                                        ELSE f[Pick(t)] + g[t \ {Pick(t)}]]
    <3>1. ASSUME NEW t \in SUBSET s  PROVE g[t] = k[t]
      <4>1. g[t] = IF t = {} THEN 0 ELSE f[Pick(t)] + sum(t \ {Pick(t)})
        OBVIOUS
      <4>2. k[t] = IF t = {} THEN 0 ELSE f[Pick(t)] + g[t \ {Pick(t)}]
        OBVIOUS
      <4> HIDE DEF g, k, sum
      <4> QED  BY <2>3, <4>1, <4>2
    <3>2. DOMAIN g = SUBSET s /\ DOMAIN k = SUBSET s
      OBVIOUS
    <3>3. g = [t \in DOMAIN g |-> g[t]] /\ k = [t \in DOMAIN k |-> k[t]]
      OBVIOUS
    <3> HIDE DEF g
    <3>4. g = k
      <4> HIDE DEF k
      <4> QED  BY <3>1, <3>2, <3>3
    <3> QED  BY <3>4
  <2> HIDE DEF g
  <2> QED  BY <2>4, Zenon DEF Folded
<1>2. \A s \in SUBSET S : (\A t \in SUBSET s : t # s => t \in P) => s \in P
  BY <1>1
<1>3. \A s \in SUBSET S : s \in P
  <2> HIDE DEF P
  <2> QED  BY <1>2, SetInduction
<1> QED  BY <1>3

\* The library's sum is the sum.
LEMMA SumIsFolded ==
    ASSUME NEW S, IsFiniteSet(S), NEW f
    PROVE  \E h : Folded(h, f, S) /\ SumFunctionOnSet(f, S) = h[S]
<1>1. SumFunctionOnSet(f, S) = (CHOOSE h : Folded(h, f, S))[S]
  BY Zenon DEF SumFunctionOnSet, FoldFunctionOnSet, MapThenFoldSet, Folded, Pick
<1>2. \E h : Folded(h, f, S)
  BY FoldedExists
<1> QED  BY <1>1, <1>2, Zenon

\* Functions that agree on a set have one sum over it.
LEMMA SumAlike ==
    ASSUME NEW S, IsFiniteSet(S), NEW f, NEW g, \A i \in S : f[i] = g[i]
    PROVE  SumFunctionOnSet(f, S) = SumFunctionOnSet(g, S)
<1>1. PICK h : Folded(h, f, S) /\ SumFunctionOnSet(f, S) = h[S]
  BY SumIsFolded
<1>2. PICK k : Folded(k, g, S) /\ SumFunctionOnSet(g, S) = k[S]
  BY SumIsFolded
<1>3. S \subseteq S
  OBVIOUS
<1>4. h[S] = k[S]
  BY <1>1, <1>2, <1>3, FoldedAlike
<1> QED  BY <1>1, <1>2, <1>4

\* One element of a set that is not empty is added last.
LEMMA SumUnfold ==
    ASSUME NEW S, IsFiniteSet(S), NEW f
    PROVE  SumFunctionOnSet(f, S) =
               IF S = {} THEN 0
               ELSE f[Pick(S)] + SumFunctionOnSet(f, S \ {Pick(S)})
<1>1. PICK h : Folded(h, f, S) /\ SumFunctionOnSet(f, S) = h[S]
  BY SumIsFolded
<1> DEFINE T == S \ {Pick(S)}
<1>2. IsFiniteSet(T) /\ T \subseteq S /\ S \in SUBSET S
  BY FS_RemoveElement
<1>3. PICK k : Folded(k, f, T) /\ SumFunctionOnSet(f, T) = k[T]
  BY <1>2, SumIsFolded
<1>4. k[T] = h[T]
  <2> HIDE DEF T
  <2>1. \A i \in T : f[i] = f[i]
    OBVIOUS
  <2> QED  BY <1>1, <1>2, <1>3, <2>1, FoldedAlike
<1>5. h[S] = IF S = {} THEN 0 ELSE f[Pick(S)] + h[T]
  BY <1>1, <1>2, Unfold
<1> QED  BY <1>1, <1>3, <1>4, <1>5

\* Any element may be the one that is added last.
LEMMA SumRemoved ==
    ASSUME NEW S, IsFiniteSet(S), NEW f, \A i \in S : f[i] \in Int
    PROVE  /\ SumFunctionOnSet(f, S) \in Int
           /\ \A x \in S :
                 SumFunctionOnSet(f, S) = f[x] + SumFunctionOnSet(f, S \ {x})
<1> DEFINE sum(s) == SumFunctionOnSet(f, s)
           P == {s \in SUBSET S : /\ sum(s) \in Int
                                  /\ \A x \in s : sum(s) = f[x] + sum(s \ {x})}
<1>1. ASSUME NEW s \in SUBSET S, \A t \in SUBSET s : t # s => t \in P
      PROVE  s \in P
  <2>1. sum(s) = IF s = {} THEN 0 ELSE f[Pick(s)] + sum(s \ {Pick(s)})
    BY FS_Subset, SumUnfold
  <2>2. CASE s = {}
    BY <2>1, <2>2
  <2>3. CASE s # {}
    <3> DEFINE p == Pick(s)
               T == s \ {p}
    <3>1. p \in s /\ T \in SUBSET s /\ T # s
      BY <2>3, Picked
    <3>2. sum(s) = f[p] + sum(T)
      BY <2>1, <2>3
    <3> HIDE DEF p, sum
    <3>3. T \in P
      BY <1>1, <3>1
    <3>4. f[p] \in Int /\ sum(T) \in Int
      BY <3>1, <3>3
    <3>5. ASSUME NEW x \in s  PROVE sum(s) = f[x] + sum(s \ {x})
      <4>1. CASE x = p
        BY <3>2, <4>1
      <4>2. CASE x # p
        <5> DEFINE U == s \ {x}
        <5>1. x \in T /\ p \in U /\ U \in SUBSET s /\ U # s
          BY <3>1, <4>2
        <5>2. T \ {x} \in SUBSET s /\ T \ {x} # s /\ U \ {p} = T \ {x}
          BY <3>1
        <5>3. U \in P /\ T \ {x} \in P
          BY <1>1, <5>1, <5>2
        <5>4. sum(T) = f[x] + sum(T \ {x})
          BY <3>3, <5>1
        <5>5. sum(U) = f[p] + sum(U \ {p})
          BY <5>1, <5>3
        <5>6. sum(T \ {x}) \in Int /\ f[x] \in Int
          BY <5>3
        <5>7. sum(U \ {p}) = sum(T \ {x})
          BY <5>2
        <5> QED  BY <3>2, <3>4, <5>4, <5>5, <5>6, <5>7
      <4> QED  BY <4>1, <4>2
    <3> QED  BY <3>2, <3>4, <3>5
  <2> QED  BY <2>2, <2>3
<1>2. \A s \in SUBSET S : (\A t \in SUBSET s : t # s => t \in P) => s \in P
  BY <1>1
<1>3. \A s \in SUBSET S : s \in P
  <2> HIDE DEF P
  <2> QED  BY <1>2, SetInduction
<1> QED  BY <1>3

\* The sum over the empty set.
LEMMA SumEmpty == \A f : SumFunctionOnSet(f, {}) = 0
BY SumUnfold, FS_EmptySet

\* A sum of ones is a number of elements.
LEMMA SumOfOnes ==
    ASSUME NEW S, IsFiniteSet(S), NEW f, \A i \in S : f[i] = 1
    PROVE  SumFunctionOnSet(f, S) = Cardinality(S)
<1> DEFINE sum(s) == SumFunctionOnSet(f, s)
           P == {s \in SUBSET S : sum(s) = Cardinality(s)}
<1>1. ASSUME NEW s \in SUBSET S, \A t \in SUBSET s : t # s => t \in P
      PROVE  s \in P
  <2>1. IsFiniteSet(s)
    BY FS_Subset
  <2>2. CASE s = {}
    BY <2>2, SumEmpty, FS_EmptySet
  <2>3. CASE s # {}
    <3>1. PICK x : x \in s
      BY <2>3
    <3>2. s \ {x} \in SUBSET s /\ s \ {x} # s /\ f[x] = 1
      BY <3>1
    <3>3. sum(s) = f[x] + sum(s \ {x})
      BY <2>1, <3>1, SumRemoved
    <3> HIDE DEF sum
    <3>4. sum(s \ {x}) = Cardinality(s \ {x})
      BY <1>1, <3>2
    <3>5. Cardinality(s \ {x}) = Cardinality(s) - 1 /\ Cardinality(s) \in Nat
      BY <2>1, <3>1, FS_RemoveElement, FS_CardinalityType
    <3> QED  BY <3>2, <3>3, <3>4, <3>5
  <2> QED  BY <2>2, <2>3
<1>2. \A s \in SUBSET S : (\A t \in SUBSET s : t # s => t \in P) => s \in P
  BY <1>1
<1>3. \A s \in SUBSET S : s \in P
  <2> HIDE DEF P
  <2> QED  BY <1>2, SetInduction
<1> QED  BY <1>3

\* A sum of zeros.
LEMMA SumOfZeros ==
    ASSUME NEW S, IsFiniteSet(S), NEW f, \A i \in S : f[i] = 0
    PROVE  SumFunctionOnSet(f, S) = 0
<1> DEFINE P == {s \in SUBSET S : SumFunctionOnSet(f, s) = 0}
<1>1. ASSUME NEW s \in SUBSET S, \A t \in SUBSET s : t # s => t \in P
      PROVE  s \in P
  <2>1. SumFunctionOnSet(f, s) =
            IF s = {} THEN 0
            ELSE f[Pick(s)] + SumFunctionOnSet(f, s \ {Pick(s)})
    BY FS_Subset, SumUnfold
  <2>2. s # {} => SumFunctionOnSet(f, s \ {Pick(s)}) = 0 /\ f[Pick(s)] = 0
    BY <1>1, Picked
  <2> QED  BY <2>1, <2>2
<1>2. \A s \in SUBSET S : (\A t \in SUBSET s : t # s => t \in P) => s \in P
  BY <1>1
<1>3. \A s \in SUBSET S : s \in P
  <2> HIDE DEF P
  <2> QED  BY <1>2, SetInduction
<1> QED  BY <1>3

\* The sums of the groups of a set sum up to its sum.
LEMMA SumOfGroups ==
    ASSUME NEW T, IsFiniteSet(T), NEW V, IsFiniteSet(V), NEW o \in [T -> V],
           NEW f, \A i \in T : f[i] \in Int,
           NEW G, \A k \in V : G[k] = SumFunctionOnSet(f, {i \in T : o[i] = k})
    PROVE  SumFunctionOnSet(G, V) = SumFunctionOnSet(f, T)
<1> DEFINE sum(s) == SumFunctionOnSet(f, s)
           group(s, k) == {i \in s : o[i] = k}
           sums(s) == [k \in V |-> sum(group(s, k))]
           P == {s \in SUBSET T : SumFunctionOnSet(sums(s), V) = sum(s)}
<1>1. ASSUME NEW s \in SUBSET T  PROVE \A k \in V : sums(s)[k] \in Int
  <2> SUFFICES ASSUME NEW k \in V  PROVE sum(group(s, k)) \in Int
    OBVIOUS
  <2>1. IsFiniteSet(group(s, k)) /\ \A i \in group(s, k) : f[i] \in Int
    <3>1. group(s, k) \in SUBSET T
      OBVIOUS
    <3> QED  BY <3>1, FS_Subset
  <2> HIDE DEF group
  <2> QED  BY <2>1, SumRemoved
<1>2. ASSUME NEW s \in SUBSET T, \A t \in SUBSET s : t # s => t \in P
      PROVE  s \in P
  <2>1. CASE s = {}
    <3>1. \A k \in V : sums(s)[k] = 0
      <4> SUFFICES ASSUME NEW k \in V  PROVE sum(group(s, k)) = 0
        OBVIOUS
      <4>1. group(s, k) = {}
        BY <2>1
      <4> HIDE DEF group
      <4> QED  BY <4>1, SumEmpty
    <3> HIDE DEF sums
    <3>2. SumFunctionOnSet(sums(s), V) = 0
      BY <3>1, SumOfZeros
    <3> QED  BY <2>1, <3>2, SumEmpty
  <2>2. CASE s # {}
    <3>1. PICK x : x \in s
      BY <2>2
    <3> DEFINE t == s \ {x}
    <3>2. t \in SUBSET s /\ t \in SUBSET T /\ t # s /\ x \in T /\ o[x] \in V
      BY <3>1
    <3>3. sum(s) = f[x] + sum(t) /\ sum(t) \in Int /\ f[x] \in Int
      <4>1. IsFiniteSet(s) /\ IsFiniteSet(t)
        BY <3>2, FS_Subset
      <4> QED  BY <3>1, <3>2, <4>1, SumRemoved
    <3>4. SumFunctionOnSet(sums(t), V) = sum(t)
      <4>1. t \in P
        <5> HIDE DEF P, t
        <5> QED  BY <1>2, <3>2
      <4> QED  BY <4>1
    <3>5. sums(s)[o[x]] = f[x] + sums(t)[o[x]]
      <4> DEFINE g == group(s, o[x])
      <4>1. x \in g /\ g \ {x} = group(t, o[x]) /\ g \in SUBSET T
        BY <3>1, <3>2
      <4>2. IsFiniteSet(g) /\ \A i \in g : f[i] \in Int
        BY <4>1, FS_Subset
      <4> HIDE DEF g
      <4>3. sum(g) = f[x] + sum(g \ {x})
        BY <4>1, <4>2, SumRemoved
      <4>4. sum(g) = f[x] + sum(group(t, o[x]))
        BY <4>1, <4>3, Zenon
      <4>5. sums(s)[o[x]] = sum(g) /\ sums(t)[o[x]] = sum(group(t, o[x]))
        BY <3>2 DEF g
      <4> QED  BY <4>4, <4>5
    <3>6. ASSUME NEW k \in V \ {o[x]}  PROVE sums(s)[k] = sums(t)[k]
      <4>1. group(s, k) = group(t, k)
        OBVIOUS
      <4>2. sums(s)[k] = sum(group(s, k)) /\ sums(t)[k] = sum(group(t, k))
        OBVIOUS
      <4> HIDE DEF group, sums, sum
      <4> QED  BY <4>1, <4>2
    <3> DEFINE W == V \ {o[x]}
    <3>7. IsFiniteSet(W)
      BY FS_RemoveElement
    <3>8. SumFunctionOnSet(sums(s), W) = SumFunctionOnSet(sums(t), W)
      <4> HIDE DEF sums
      <4> QED  BY <3>6, <3>7, SumAlike
    <3>9. (\A k \in V : sums(s)[k] \in Int) /\ (\A k \in V : sums(t)[k] \in Int)
      BY <1>1, <3>2
    <3> HIDE DEF sums, t
    <3>10. /\ SumFunctionOnSet(sums(s), V)
                  = sums(s)[o[x]] + SumFunctionOnSet(sums(s), W)
           /\ SumFunctionOnSet(sums(t), V)
                  = sums(t)[o[x]] + SumFunctionOnSet(sums(t), W)
           /\ SumFunctionOnSet(sums(t), W) \in Int
      BY <3>2, <3>7, <3>9, SumRemoved
    <3>11. sums(t)[o[x]] \in Int
      BY <3>2, <3>9
    <3> QED  BY <3>3, <3>4, <3>5, <3>8, <3>10, <3>11
  <2> QED  BY <2>1, <2>2
<1>3. \A s \in SUBSET T : (\A t \in SUBSET s : t # s => t \in P) => s \in P
  BY <1>2
<1>4. T \in P
  <2> HIDE DEF P
  <2> QED  BY <1>3, SetInduction
<1>5. SumFunctionOnSet(G, V) = SumFunctionOnSet(sums(T), V)
  <2>1. \A k \in V : G[k] = sums(T)[k]
    OBVIOUS
  <2> HIDE DEF sums
  <2> QED  BY <2>1, SumAlike
<1> QED  BY <1>4, <1>5

\* The sum of a function is that over its domain.
LEMMA SumOf ==
    ASSUME NEW f, NEW S, DOMAIN f = S
    PROVE  SumFunction(f) = SumFunctionOnSet(f, S)
BY Zenon DEF SumFunction

\* The library's extremes of a finite set of integers.
LEMMA Extremes ==
    ASSUME NEW S \in SUBSET Int, IsFiniteSet(S), S # {}
    PROVE  /\ Max(S) \in S /\ \A y \in S : y <= Max(S)
           /\ Min(S) \in S /\ \A y \in S : Min(S) <= y
<1> DEFINE Bounded(s) == /\ \E x \in s : \A y \in s : x >= y
                         /\ \E x \in s : \A y \in s : x <= y
           P == {s \in SUBSET S : s # {} => Bounded(s)}
<1>1. ASSUME NEW s \in SUBSET S, \A t \in SUBSET s : t # s => t \in P, s # {}
      PROVE  Bounded(s)
  <2>1. PICK z : z \in s
    BY <1>1
  <2> DEFINE t == s \ {z}
  <2>2. t \in SUBSET s /\ t # s
    BY <2>1
  <2>3. t \in P
    <3> HIDE DEF P, t
    <3> QED  BY <1>1, <2>2
  <2>4. CASE t = {}
    <3>1. s = {z}
      BY <2>1, <2>4
    <3> QED  BY <3>1
  <2>5. CASE t # {}
    <3>1. PICK x \in t : \A y \in t : x >= y
      BY <2>3, <2>5
    <3>2. PICK w \in t : \A y \in t : w <= y
      BY <2>3, <2>5
    <3>3. s = t \cup {z} /\ x \in Int /\ w \in Int /\ z \in Int /\ t \subseteq Int
      BY <2>1
    <3> HIDE DEF t
    <3>4. \E u \in s : \A y \in s : u >= y
      <4>1. CASE x >= z
        BY <3>1, <3>3, <4>1
      <4>2. CASE z > x
        <5>1. \A y \in s : z >= y
          BY <3>1, <3>3, <4>2
        <5> QED  BY <2>1, <5>1
      <4> QED  BY <3>3, <4>1, <4>2
    <3>5. \E u \in s : \A y \in s : u <= y
      <4>1. CASE w <= z
        BY <3>2, <3>3, <4>1
      <4>2. CASE z < w
        <5>1. \A y \in s : z <= y
          BY <3>2, <3>3, <4>2
        <5> QED  BY <2>1, <5>1
      <4> QED  BY <3>3, <4>1, <4>2
    <3> QED  BY <3>4, <3>5
  <2> QED  BY <2>4, <2>5
<1>2. \A s \in SUBSET S : (\A t \in SUBSET s : t # s => t \in P) => s \in P
  <2> HIDE DEF Bounded
  <2> QED  BY <1>1
<1>3. S \in P
  <2> HIDE DEF P
  <2> QED  BY <1>2, SetInduction
<1>4. \E x \in S : \A y \in S : x >= y
  BY <1>3
<1>5. \E x \in S : \A y \in S : x <= y
  BY <1>3
<1>6. Max(S) \in S /\ \A y \in S : Max(S) >= y
  BY <1>4, Zenon DEF Max
<1>7. Min(S) \in S /\ \A y \in S : Min(S) <= y
  BY <1>5, Zenon DEF Min
<1> QED  BY <1>6, <1>7

-----------------------------------------------------------------------------
(* Division.                                                               *)

\* What div rounds down to.
LEMMA Quotient ==
    ASSUME NEW t \in Nat, NEW d \in Nat \ {0}
    PROVE  t \div d \in Nat /\ (t \div d) * d <= t /\ t < (t \div d + 1) * d
<1> DEFINE q == t \div d
           r == t % d
<1>1. t = d * q + r /\ r \in 0 .. d - 1 /\ q \in Int
  OBVIOUS
<1> HIDE DEF q, r
<1>2. q * d <= t /\ t < (q + 1) * d
  BY <1>1
<1>3. q >= 0
  BY <1>1, <1>2
<1> QED  BY <1>1, <1>2, <1>3 DEF q

\* A multiple is a quotient times its divisor.
LEMMA Multiple ==
    ASSUME NEW t \in Nat, NEW d \in Nat \ {0}, t % d = 0
    PROVE  t \div d \in Nat /\ t = (t \div d) * d
<1>1. t = d * (t \div d) + (t % d) /\ t \div d \in Int
  OBVIOUS
<1> QED  BY <1>1, Quotient

\* A multiple of d is not passed by what is rounded down to one.
LEMMA Aligned ==
    ASSUME NEW p \in Int, NEW t \in Nat, NEW d \in Nat \ {0}
    PROVE  p * d <= t <=> p * d <= (t \div d) * d
<1> DEFINE q == t \div d
<1>1. q \in Nat /\ q * d <= t /\ t < (q + 1) * d
  BY Quotient
<1> HIDE DEF q
<1>2. p * d <= t => p < q + 1
  BY <1>1
<1>3. p <= q => p * d <= q * d
  BY <1>1
<1> QED  BY <1>1, <1>2, <1>3 DEF q

\* What is rounded down stays in order.
LEMMA QuotientOrder ==
    ASSUME NEW s \in Nat, NEW t \in Nat, NEW d \in Nat \ {0}, s <= t
    PROVE  s \div d <= t \div d /\ (s \div d) * d <= (t \div d) * d
<1> DEFINE p == s \div d
           q == t \div d
<1>1. p \in Nat /\ p * d <= s /\ s < (p + 1) * d
  BY Quotient
<1>2. q \in Nat /\ q * d <= t /\ t < (q + 1) * d
  BY Quotient
<1> HIDE DEF p, q
<1>3. p * d < (q + 1) * d
  <2>1. p * d \in Nat /\ (q + 1) * d \in Nat
    BY <1>1, <1>2
  <2> DEFINE x == p * d
             y == (q + 1) * d
  <2>2. x \in Nat /\ y \in Nat /\ x <= s /\ t < y
    BY <1>1, <1>2, <2>1
  <2> HIDE DEF x, y
  <2>3. x < y
    BY <2>2
  <2> QED  BY <2>3 DEF x, y
<1>4. p < q + 1
  BY <1>1, <1>2, <1>3
<1>5. p <= q
  BY <1>1, <1>2, <1>4
<1>6. p * d <= q * d
  BY <1>1, <1>2, <1>5
<1> QED  BY <1>5, <1>6 DEF p, q

-----------------------------------------------------------------------------
(* The table and the view.                                                 *)

\* What a line becomes.
Rows == {[time |-> t, box |-> l.box, name |-> l.name,
          gauge |-> l.gauge, counter |-> l.counter,
          beside_gauge |-> l.beside_gauge,
          beside_counter |-> l.beside_counter] : t \in Nat, l \in Lines}

\* The rows are in order of time, and none is from the future.
RowsInv ==
    /\ now \in Nat
    /\ rows \in Seq(Rows)
    /\ \A i \in DOMAIN rows : rows[i].time <= now
    /\ \A i, j \in DOMAIN rows : i < j => rows[i].time <= rows[j].time

\* A line written now makes a row.
LEMMA RowOfLine ==
    ASSUME NEW l \in Lines, NEW t \in Nat
    PROVE  [time |-> t, box |-> l.box, name |-> l.name,
            gauge |-> l.gauge, counter |-> l.counter,
            beside_gauge |-> l.beside_gauge,
            beside_counter |-> l.beside_counter] \in Rows
BY DEF Rows

\* The fields of a row that are numbers.
LEMMA RowTyped ==
    ASSUME NEW r \in Rows
    PROVE  /\ r.time \in Nat
           /\ r.gauge \in Int \cup {Null} /\ r.counter \in Int \cup {Null}
BY RollupAssumption DEF RollupAssumption, Rows

\* The rows are in order, initially and after every step.
LEMMA RowsInvHolds == RollupSpec => []RowsInv
<1>1. RollupInit => RowsInv
  BY DEF RollupInit, RowsInv
<1>2. RowsInv /\ [RollupNext]_rollup_vars => RowsInv'
  <2> SUFFICES ASSUME RowsInv, [RollupNext]_rollup_vars  PROVE RowsInv'
    OBVIOUS
  <2>1. ASSUME NEW l \in Lines, WriteRow(l)  PROVE RowsInv'
    <3> DEFINE row == [time |-> now, box |-> l.box, name |-> l.name,
                       gauge |-> l.gauge, counter |-> l.counter,
                       beside_gauge |-> l.beside_gauge,
                       beside_counter |-> l.beside_counter]
               n == Len(rows)
    <3>1. now \in Nat /\ rows \in Seq(Rows) /\ now' = now
      BY <2>1 DEF WriteRow, RowsInv
    <3>2. row \in Rows /\ row.time = now
      BY <3>1, RowOfLine
    <3>3. rows' = Append(rows, row)
      BY <2>1 DEF WriteRow
    <3> HIDE DEF row
    <3>4. /\ rows' \in Seq(Rows) /\ DOMAIN rows' = 1 .. n + 1
          /\ n \in Nat /\ DOMAIN rows = 1 .. n
          /\ rows'[n + 1] = row /\ \A i \in 1 .. n : rows'[i] = rows[i]
      BY <3>1, <3>2, <3>3
    <3>5. \A i \in DOMAIN rows' : rows'[i].time <= now'
      BY <3>1, <3>2, <3>4 DEF RowsInv
    <3>6. \A i, j \in DOMAIN rows' : i < j => rows'[i].time <= rows'[j].time
      <4> SUFFICES ASSUME NEW i \in 1 .. n + 1, NEW j \in 1 .. n + 1, i < j
                   PROVE  rows'[i].time <= rows'[j].time
        BY <3>4
      <4>1. i \in 1 .. n
        BY <3>4
      <4>2. CASE j = n + 1
        BY <3>1, <3>2, <3>4, <4>1, <4>2 DEF RowsInv
      <4>3. CASE j \in 1 .. n
        BY <3>4, <4>1, <4>3 DEF RowsInv
      <4> QED  BY <3>4, <4>2, <4>3
    <3> QED  BY <3>1, <3>4, <3>5, <3>6 DEF RowsInv
  <2>2. CASE TimePasses
    <3>1. now' = now + 1 /\ rows' = rows
      BY <2>2 DEF TimePasses
    <3>2. \A i \in DOMAIN rows : rows[i].time \in Nat
      BY RowTyped DEF RowsInv
    <3>3. \A i \in DOMAIN rows : rows[i].time <= now + 1
      BY <3>2 DEF RowsInv
    <3> QED  BY <3>1, <3>3 DEF RowsInv
  <2>3. CASE UNCHANGED rollup_vars
    BY <2>3 DEF RowsInv, rollup_vars
  <2> QED  BY <2>1, <2>2, <2>3 DEF RollupNext
<1> QED  BY <1>1, <1>2, PTL DEF RollupSpec

\* The numbers of the rows, and what they have.
LEMMA Numbered ==
    ASSUME RowsInv
    PROVE  /\ DOMAIN rows \subseteq Nat /\ IsFiniteSet(DOMAIN rows)
           /\ \A i \in DOMAIN rows :
                 /\ rows[i].time \in Nat
                 /\ rows[i].gauge \in Int \cup {Null}
                 /\ rows[i].counter \in Int \cup {Null}
<1>1. rows \in Seq(Rows) /\ DOMAIN rows = 1 .. Len(rows) /\ Len(rows) \in Nat
  BY DEF RowsInv
<1>2. IsFiniteSet(DOMAIN rows)
  BY <1>1, FS_Interval
<1>3. \A i \in DOMAIN rows : rows[i] \in Rows
  BY <1>1
<1> QED  BY <1>1, <1>2, <1>3, RowTyped

\* The first row of the bucket of row i.
Opener(i) == Min(Members(Group(rows[i])))

\* A row that is aggregated at all is in the bucket of one row of the view.
LEMMA BucketOpened ==
    ASSUME RowsInv, NEW i \in DOMAIN rows, InView(rows[i])
    PROVE  /\ Opener(i) \in DOMAIN rows /\ Opens(Opener(i))
           /\ Group(rows[Opener(i)]) = Group(rows[i])
           /\ i \in Members(Group(rows[Opener(i)]))
<1> DEFINE M == Members(Group(rows[i]))
<1>1. i \in M /\ M \subseteq DOMAIN rows
  BY DEF Members
<1>2. M \in SUBSET Int /\ IsFiniteSet(M)
  BY <1>1, Numbered, FS_Subset
<1>3. Min(M) \in M
  <2> HIDE DEF M
  <2> QED  BY <1>1, <1>2, Extremes
<1>4. Opener(i) \in M
  BY <1>3 DEF Opener
<1>5. Opener(i) \in DOMAIN rows /\ InView(rows[Opener(i)])
      /\ Group(rows[Opener(i)]) = Group(rows[i])
  BY <1>4 DEF Members
<1>6. Opens(Opener(i))
  BY <1>5 DEF Opens, Opener
<1> QED  BY <1>1, <1>5, <1>6

\* A row of the view is the first of the rows it stands for.
LEMMA OpenerOfMember ==
    ASSUME NEW k, Opens(k), NEW i \in Members(Group(rows[k]))
    PROVE  Opener(i) = k
BY Zenon DEF Opens, Opener, Members

\* The rows a row of the view stands for.
MembersOf(k) == Members(Group(rows[k]))

\* The columns of the view.
LEMMA ViewRow ==
    ASSUME NEW k
    PROVE  /\ k \in DOMAIN Rollup <=> k \in DOMAIN rows /\ Opens(k)
           /\ k \in DOMAIN Rollup =>
                 /\ Rollup[k].time = (rows[k].time \div Bucket) * Bucket
                 /\ Rollup[k].box = rows[k].box
                 /\ Rollup[k].name = rows[k].name
                 /\ Rollup[k].gauge =
                       IF Gauged(MembersOf(k)) = {} THEN Null
                       ELSE SumFunction([i \in Gauged(MembersOf(k)) |-> rows[i].gauge])
                 /\ Rollup[k].count = Cardinality(Gauged(MembersOf(k)))
                 /\ Rollup[k].counter = LastOf(MembersOf(k))
<1>1. k \in DOMAIN Rollup <=> k \in DOMAIN rows /\ Opens(k)
  BY DEF Rollup
<1>2. ASSUME k \in DOMAIN Rollup
      PROVE  Rollup[k] = RollupRow(Group(rows[k]))
  BY <1>1, <1>2 DEF Rollup
<1>3. /\ Group(rows[k])[1] = rows[k].time \div Bucket
      /\ Group(rows[k])[2] = rows[k].box
      /\ Group(rows[k])[3] = rows[k].name
  BY DEF Group
<1>4. ASSUME NEW g
      PROVE  /\ RollupRow(g).time = g[1] * Bucket
             /\ RollupRow(g).box = g[2]
             /\ RollupRow(g).name = g[3]
             /\ RollupRow(g).gauge =
                   IF Gauged(Members(g)) = {} THEN Null
                   ELSE SumFunction([i \in Gauged(Members(g)) |-> rows[i].gauge])
             /\ RollupRow(g).count = Cardinality(Gauged(Members(g)))
             /\ RollupRow(g).counter = LastOf(Members(g))
  BY DEF RollupRow
<1> QED  BY <1>1, <1>2, <1>3, <1>4, Zenon DEF MembersOf

\* What follows something that has not expired has not either.
LEMMA UnexpiredLater ==
    ASSUME RowsInv, NEW s \in Nat, NEW t \in Nat, s <= t, NEW days \in Nat,
           Unexpired(s, days)
    PROVE  Unexpired(t, days)
<1>1. Day \in Nat \ {0} /\ now \in Nat
  BY RollupAssumption DEF RollupAssumption, RowsInv
<1> DEFINE p == s \div Day
           q == t \div Day
           window == days * Day
<1>2. p \in Nat /\ q \in Nat /\ p <= q /\ window \in Int
  BY <1>1, Quotient, QuotientOrder
<1>3. (p + 1) * Day > now - window
  BY DEF Unexpired
<1> HIDE DEF p, q, window
<1>4. (p + 1) * Day <= (q + 1) * Day
  BY <1>1, <1>2
<1> DEFINE x == (p + 1) * Day
           y == (q + 1) * Day
<1>5. x \in Int /\ y \in Int
  BY <1>1, <1>2
<1> HIDE DEF x, y
<1>6. y > now - window
  BY <1>1, <1>2, <1>3, <1>4, <1>5 DEF x, y
<1> QED  BY <1>6 DEF Unexpired, y, q, window

\* The view keeps what follows something it keeps.
LEMMA KeepsLater ==
    ASSUME RowsInv, NEW s \in Nat, NEW t \in Nat, s <= t, ViewKeeps(s)
    PROVE  ViewKeeps(t)
<1>1. view_days \in Nat
  BY RollupAssumption DEF RollupAssumption
<1> QED  BY <1>1, UnexpiredLater DEF ViewKeeps

\* What the view has left is as it was made.
LEMMA ViewKept ==
    ASSUME NEW k
    PROVE  /\ k \in DOMAIN View <=> k \in DOMAIN Rollup /\ ViewKeeps(Rollup[k].time)
           /\ k \in DOMAIN View => View[k] = Rollup[k]
BY DEF View, Restrict

\* The times of the view.
LEMMA ViewTimes ==
    ASSUME RowsInv, NEW k \in DOMAIN Rollup
    PROVE  Rollup[k].time \in Nat
<1>1. /\ k \in DOMAIN rows
      /\ Rollup[k].time = (rows[k].time \div Bucket) * Bucket
  BY ViewRow
<1>2. Bucket \in Nat \ {0} /\ rows[k].time \in Nat
  BY <1>1, Numbered, RollupAssumption DEF RollupAssumption
<1> DEFINE t == rows[k].time
<1> HIDE DEF t
<1>3. (t \div Bucket) * Bucket \in Nat
  BY <1>2, Quotient DEF t
<1> QED  BY <1>1, <1>3 DEF t

\* The bucket of a row lies in a whole interval if and only if the row does.
LEMMA WholeBuckets ==
    ASSUME NEW a \in Nat, a % Sample = 0, NEW t \in Nat
    PROVE  /\ a <= t <=> a <= (t \div Bucket) * Bucket
           /\ t < a + Sample <=> (t \div Bucket) * Bucket < a + Sample
<1>1. Bucket \in Nat \ {0} /\ Sample \in Nat \ {0} /\ Sample % Bucket = 0
  BY RollupAssumption DEF RollupAssumption
<1>2. PICK c \in Nat : Sample = c * Bucket
  BY <1>1, Multiple
<1>3. PICK s \in Nat : a = s * Sample
  BY <1>1, Multiple
<1> DEFINE p == s * c
           q == s * c + c
<1>4. a = p * Bucket /\ a + Sample = q * Bucket
  BY <1>1, <1>2, <1>3
<1>5. p \in Int /\ q \in Int
  OBVIOUS
<1> HIDE DEF p, q
<1>6. /\ a <= t <=> a <= (t \div Bucket) * Bucket
      /\ a + Sample <= t <=> a + Sample <= (t \div Bucket) * Bucket
  <2>1. p * Bucket <= t <=> p * Bucket <= (t \div Bucket) * Bucket
    BY <1>1, <1>5, Aligned
  <2>2. q * Bucket <= t <=> q * Bucket <= (t \div Bucket) * Bucket
    BY <1>1, <1>5, Aligned
  <2> QED  BY <1>4, <2>1, <2>2, Zenon
<1>7. (t \div Bucket) * Bucket \in Nat
  BY <1>1, Quotient
<1> QED  BY <1>1, <1>6, <1>7

-----------------------------------------------------------------------------
(* Averages.                                                               *)

\* What a panel would read in an interval, had the table kept everything.
Whole(boxes, name, a) == Averaged(RoutedRaw(rows), boxes, name, a)

\* Those are the rows of the interval with a gauge, and no others.
LEMMA WholeRead ==
    ASSUME NEW boxes, NEW name, NEW a, NEW i
    PROVE  /\ i \in Whole(boxes, name, a) <=>
                  /\ i \in DOMAIN rows
                  /\ a <= rows[i].time /\ rows[i].time < a + Sample
                  /\ rows[i].box \in boxes /\ rows[i].name = name
                  /\ rows[i].gauge # Null
           /\ i \in Whole(boxes, name, a) =>
                  /\ RoutedRaw(rows)[i].gauge = rows[i].gauge
                  /\ RoutedRaw(rows)[i].count = 1
<1>1. DOMAIN RoutedRaw(rows) = DOMAIN rows
  BY DEF RoutedRaw
<1>2. \A j \in DOMAIN rows :
          /\ RoutedRaw(rows)[j].time = rows[j].time
          /\ RoutedRaw(rows)[j].box = rows[j].box
          /\ RoutedRaw(rows)[j].name = rows[j].name
          /\ RoutedRaw(rows)[j].gauge = rows[j].gauge
          /\ rows[j].gauge # Null => RoutedRaw(rows)[j].count = 1
  BY DEF RoutedRaw, Routed
<1> QED  BY <1>1, <1>2 DEF Whole, Averaged, Sampled

\* The view is read where its buckets are those of the rows that are.
LEMMA ViewRead ==
    ASSUME RowsInv, NEW boxes, NEW name, NEW a \in Nat, a % Sample = 0, NEW k
    PROVE  k \in Averaged(Rollup, boxes, name, a) <=>
               /\ k \in DOMAIN rows /\ Opens(k)
               /\ a <= rows[k].time /\ rows[k].time < a + Sample
               /\ rows[k].box \in boxes /\ rows[k].name = name
               /\ Gauged(MembersOf(k)) # {}
<1>1. CASE k \notin DOMAIN rows \/ ~Opens(k)
  BY <1>1, ViewRow DEF Averaged, Sampled
<1>2. CASE k \in DOMAIN rows /\ Opens(k)
  <2>1. /\ k \in DOMAIN Rollup
        /\ Rollup[k].time = (rows[k].time \div Bucket) * Bucket
        /\ Rollup[k].box = rows[k].box /\ Rollup[k].name = rows[k].name
        /\ Rollup[k].gauge =
              IF Gauged(MembersOf(k)) = {} THEN Null
              ELSE SumFunction([i \in Gauged(MembersOf(k)) |-> rows[i].gauge])
    BY <1>2, ViewRow
  <2>2. Rollup[k].gauge # Null <=> Gauged(MembersOf(k)) # {}
    <3> DEFINE g == Gauged(MembersOf(k))
               f == [i \in g |-> rows[i].gauge]
    <3>1. g \subseteq DOMAIN rows /\ \A i \in g : rows[i].gauge # Null
      BY DEF Gauged, MembersOf, Members
    <3>2. IsFiniteSet(g) /\ \A i \in g : f[i] \in Int
      BY <3>1, Numbered, FS_Subset
    <3>3. SumFunction(f) = SumFunctionOnSet(f, g)
      <4>1. DOMAIN f = g
        OBVIOUS
      <4> HIDE DEF f, g
      <4> QED  BY <4>1, SumOf
    <3> HIDE DEF g
    <3>4. SumFunctionOnSet(f, g) \in Int
      <4> HIDE DEF f
      <4> QED  BY <3>2, SumRemoved
    <3>5. SumFunction(f) # Null
      BY <3>3, <3>4, RollupAssumption DEF RollupAssumption
    <3> QED  BY <2>1, <3>5 DEF g
  <2>3. rows[k].time \in Nat
    BY <1>2, Numbered
  <2>4. /\ a <= rows[k].time <=> a <= (rows[k].time \div Bucket) * Bucket
        /\ rows[k].time < a + Sample <=> (rows[k].time \div Bucket) * Bucket < a + Sample
    BY <2>3, WholeBuckets
  <2> QED  BY <1>2, <2>1, <2>2, <2>4 DEF Averaged, Sampled
<1> QED  BY <1>1, <1>2

\* Read in a whole interval, the view has for every row that counts the row
\* of its bucket, and no row it stands for is left out.
LEMMA BucketsCover ==
    ASSUME RowsInv, NEW boxes, NEW name, NEW a \in Nat, a % Sample = 0
    PROVE  /\ \A i \in Whole(boxes, name, a) :
                  Opener(i) \in Averaged(Rollup, boxes, name, a)
           /\ \A k \in Averaged(Rollup, boxes, name, a) :
                  {i \in Whole(boxes, name, a) : Opener(i) = k}
                      = Gauged(MembersOf(k))
<1> DEFINE T == Whole(boxes, name, a)
           V == Averaged(Rollup, boxes, name, a)
\* Rows of one bucket are in the interval together.
<1>1. ASSUME NEW i \in DOMAIN rows, NEW k \in DOMAIN rows,
             Group(rows[i]) = Group(rows[k])
      PROVE  /\ rows[i].box = rows[k].box /\ rows[i].name = rows[k].name
             /\ a <= rows[i].time <=> a <= rows[k].time
             /\ rows[i].time < a + Sample <=> rows[k].time < a + Sample
  <2>1. /\ rows[i].time \div Bucket = rows[k].time \div Bucket
        /\ rows[i].box = rows[k].box /\ rows[i].name = rows[k].name
    BY <1>1 DEF Group
  <2>2. rows[i].time \in Nat /\ rows[k].time \in Nat
    BY Numbered
  <2>3. /\ a <= rows[i].time <=> a <= (rows[i].time \div Bucket) * Bucket
        /\ a <= rows[k].time <=> a <= (rows[k].time \div Bucket) * Bucket
        /\ rows[i].time < a + Sample <=> (rows[i].time \div Bucket) * Bucket < a + Sample
        /\ rows[k].time < a + Sample <=> (rows[k].time \div Bucket) * Bucket < a + Sample
    BY <2>2, WholeBuckets
  <2> QED  BY <2>1, <2>3, Zenon
<1>2. ASSUME NEW i \in T  PROVE Opener(i) \in V
  <2> DEFINE k == Opener(i)
  <2>1. /\ i \in DOMAIN rows /\ a <= rows[i].time /\ rows[i].time < a + Sample
        /\ rows[i].box \in boxes /\ rows[i].name = name
        /\ rows[i].gauge # Null
    BY WholeRead
  <2>2. InView(rows[i])
    BY <2>1 DEF InView
  <2>3. /\ k \in DOMAIN rows /\ Opens(k)
        /\ Group(rows[k]) = Group(rows[i])
        /\ i \in MembersOf(k)
    BY <2>1, <2>2, BucketOpened DEF MembersOf
  <2>4. i \in Gauged(MembersOf(k))
    BY <2>1, <2>3 DEF Gauged
  <2> HIDE DEF k, T, V
  <2>5. /\ rows[k].box = rows[i].box /\ rows[k].name = rows[i].name
        /\ a <= rows[i].time <=> a <= rows[k].time
        /\ rows[i].time < a + Sample <=> rows[k].time < a + Sample
    BY <1>1, <2>1, <2>3
  <2> QED  BY <2>1, <2>3, <2>4, <2>5, ViewRead DEF k, V
<1>3. ASSUME NEW k \in V  PROVE {i \in T : Opener(i) = k} = Gauged(MembersOf(k))
  <2>1. /\ k \in DOMAIN rows /\ Opens(k)
        /\ a <= rows[k].time /\ rows[k].time < a + Sample
        /\ rows[k].box \in boxes /\ rows[k].name = name
    BY ViewRead
  <2>2. ASSUME NEW i \in T, Opener(i) = k  PROVE i \in Gauged(MembersOf(k))
    <3>1. i \in DOMAIN rows /\ rows[i].gauge # Null
      BY WholeRead
    <3>2. InView(rows[i])
      BY <3>1 DEF InView
    <3>3. i \in MembersOf(k)
      BY <2>2, <3>1, <3>2, BucketOpened DEF MembersOf
    <3> QED  BY <3>1, <3>3 DEF Gauged
  <2>3. ASSUME NEW i \in Gauged(MembersOf(k))  PROVE i \in T /\ Opener(i) = k
    <3>1. /\ i \in DOMAIN rows /\ rows[i].gauge # Null
          /\ Group(rows[i]) = Group(rows[k])
          /\ i \in Members(Group(rows[k]))
      BY DEF Gauged, MembersOf, Members
    <3>2. Opener(i) = k
      BY <2>1, <3>1, OpenerOfMember
    <3>3. /\ rows[i].box = rows[k].box /\ rows[i].name = rows[k].name
          /\ a <= rows[i].time <=> a <= rows[k].time
          /\ rows[i].time < a + Sample <=> rows[k].time < a + Sample
      BY <1>1, <2>1, <3>1
    <3>4. i \in T
      BY <2>1, <3>1, <3>3, WholeRead
    <3> QED  BY <3>2, <3>4
  <2> HIDE DEF T
  <2> QED  BY <2>2, <2>3
<1> QED  BY <1>2, <1>3

\* The view has the same sums and counts.
LEMMA AverageOfView ==
    ASSUME RowsInv, NEW boxes, NEW name, NEW a \in Nat, a % Sample = 0
    PROVE  gauge_avg(Rollup, boxes, name, a) =
               gauge_avg(RoutedRaw(rows), boxes, name, a)
<1> DEFINE T == Whole(boxes, name, a)
           V == Averaged(Rollup, boxes, name, a)
           o == [i \in T |-> Opener(i)]
           fg == [i \in T |-> RoutedRaw(rows)[i].gauge]
           fc == [i \in T |-> RoutedRaw(rows)[i].count]
           Gg == [k \in V |-> Rollup[k].gauge]
           Gc == [k \in V |-> Rollup[k].count]
<1>1. /\ T \subseteq DOMAIN rows /\ V \subseteq DOMAIN rows
      /\ \A i \in T : /\ rows[i].gauge \in Int
                      /\ RoutedRaw(rows)[i].gauge = rows[i].gauge
                      /\ RoutedRaw(rows)[i].count = 1
  <2>1. T \subseteq DOMAIN rows /\ V \subseteq DOMAIN rows
    BY WholeRead, ViewRead
  <2>2. ASSUME NEW i \in T
        PROVE  /\ rows[i].gauge \in Int
               /\ RoutedRaw(rows)[i].gauge = rows[i].gauge
               /\ RoutedRaw(rows)[i].count = 1
    <3>1. /\ i \in DOMAIN rows /\ rows[i].gauge # Null
          /\ RoutedRaw(rows)[i].gauge = rows[i].gauge
          /\ RoutedRaw(rows)[i].count = 1
      BY WholeRead
    <3> QED  BY <3>1, Numbered
  <2> QED  BY <2>1, <2>2
<1>2. IsFiniteSet(T) /\ IsFiniteSet(V)
  BY <1>1, Numbered, FS_Subset
<1>3. /\ o \in [T -> V]
      /\ \A k \in V : {i \in T : o[i] = k} = Gauged(MembersOf(k))
  <2>1. \A i \in T : Opener(i) \in V
    BY BucketsCover
  <2>2. \A k \in V : {i \in T : Opener(i) = k} = Gauged(MembersOf(k))
    BY BucketsCover
  <2>3. \A k \in V : {i \in T : o[i] = k} = {i \in T : Opener(i) = k}
    OBVIOUS
  <2> HIDE DEF T, V
  <2>4. o \in [T -> V]
    BY <2>1
  <2> HIDE DEF o
  <2> QED  BY <2>2, <2>3, <2>4, Zenon
<1>4. \A k \in V : /\ Gauged(MembersOf(k)) # {}
                   /\ Gauged(MembersOf(k)) \subseteq T
                   /\ IsFiniteSet(Gauged(MembersOf(k)))
  <2> SUFFICES ASSUME NEW k \in V
               PROVE  /\ Gauged(MembersOf(k)) # {}
                      /\ Gauged(MembersOf(k)) \subseteq T
                      /\ IsFiniteSet(Gauged(MembersOf(k)))
    OBVIOUS
  <2>1. Gauged(MembersOf(k)) # {}
    BY ViewRead
  <2>2. Gauged(MembersOf(k)) \subseteq T
    <3> HIDE DEF T, V, o
    <3> QED  BY <1>3
  <2> QED  BY <1>2, <2>1, <2>2, FS_Subset
<1>5. \A k \in V : Rollup[k].gauge = SumFunctionOnSet(fg, {i \in T : o[i] = k})
  <2> SUFFICES ASSUME NEW k \in V
               PROVE  Rollup[k].gauge = SumFunctionOnSet(fg, Gauged(MembersOf(k)))
    BY <1>3, Zenon
  <2> DEFINE g == Gauged(MembersOf(k))
             f == [i \in g |-> rows[i].gauge]
  <2>1. g # {} /\ g \subseteq T /\ IsFiniteSet(g)
    <3> HIDE DEF T, V
    <3> QED  BY <1>4
  <2>2. Rollup[k].gauge = SumFunction(f)
    <3>1. k \in DOMAIN Rollup
      BY DEF Averaged, Sampled
    <3> QED  BY <2>1, <3>1, ViewRow
  <2>3. SumFunction(f) = SumFunctionOnSet(f, g)
    <3>1. DOMAIN f = g
      OBVIOUS
    <3> HIDE DEF f, g
    <3> QED  BY <3>1, SumOf
  <2>4. \A i \in g : f[i] = fg[i]
    BY <1>1, <2>1
  <2> HIDE DEF f, g, fg
  <2>5. SumFunctionOnSet(f, g) = SumFunctionOnSet(fg, g)
    BY <2>1, <2>4, SumAlike
  <2> QED  BY <2>2, <2>3, <2>5 DEF g
<1>6. \A k \in V : Rollup[k].count = SumFunctionOnSet(fc, {i \in T : o[i] = k})
  <2> SUFFICES ASSUME NEW k \in V
               PROVE  Rollup[k].count = SumFunctionOnSet(fc, Gauged(MembersOf(k)))
    BY <1>3, Zenon
  <2> DEFINE g == Gauged(MembersOf(k))
  <2>1. g # {} /\ g \subseteq T /\ IsFiniteSet(g)
    <3> HIDE DEF T, V
    <3> QED  BY <1>4
  <2>2. Rollup[k].count = Cardinality(g)
    <3>1. k \in DOMAIN Rollup
      BY DEF Averaged, Sampled
    <3> QED  BY <2>1, <3>1, ViewRow
  <2>3. \A i \in g : fc[i] = 1
    BY <1>1, <2>1
  <2> HIDE DEF g, fc
  <2>4. SumFunctionOnSet(fc, g) = Cardinality(g)
    BY <2>1, <2>3, SumOfOnes
  <2> QED  BY <2>2, <2>4 DEF g
<1>7. SumFunctionOnSet(Gg, V) = SumFunctionOnSet(fg, T)
  <2>1. \A i \in T : fg[i] \in Int
    BY <1>1
  <2>2. \A k \in V : Gg[k] = SumFunctionOnSet(fg, {i \in T : o[i] = k})
    <3>1. \A k \in V : Gg[k] = Rollup[k].gauge
      OBVIOUS
    <3> HIDE DEF V, T, Gg, fg, o
    <3> QED  BY <1>5, <3>1, Zenon
  <2> HIDE DEF V, T, Gg, fg, o
  <2> QED  BY <1>2, <1>3, <2>1, <2>2, SumOfGroups
<1>8. SumFunctionOnSet(Gc, V) = SumFunctionOnSet(fc, T)
  <2>1. \A i \in T : fc[i] \in Int
    BY <1>1
  <2>2. \A k \in V : Gc[k] = SumFunctionOnSet(fc, {i \in T : o[i] = k})
    <3>1. \A k \in V : Gc[k] = Rollup[k].count
      OBVIOUS
    <3> HIDE DEF V, T, Gc, fc, o
    <3> QED  BY <1>6, <3>1, Zenon
  <2> HIDE DEF V, T, Gc, fc, o
  <2> QED  BY <1>2, <1>3, <2>1, <2>2, SumOfGroups
<1>9. gauge_avg(Rollup, boxes, name, a) =
          <<SumFunctionOnSet(Gg, V), SumFunctionOnSet(Gc, V)>>
  <2>1. SumFunction(Gg) = SumFunctionOnSet(Gg, V)
        /\ SumFunction(Gc) = SumFunctionOnSet(Gc, V)
    BY Zenon DEF SumFunction
  <2> QED  BY <2>1 DEF gauge_avg
<1>10. gauge_avg(RoutedRaw(rows), boxes, name, a) =
          <<SumFunctionOnSet(fg, T), SumFunctionOnSet(fc, T)>>
  <2>1. SumFunction(fg) = SumFunctionOnSet(fg, T)
        /\ SumFunction(fc) = SumFunctionOnSet(fc, T)
    BY Zenon DEF SumFunction
  <2> QED  BY <2>1 DEF gauge_avg, Whole
<1> QED  BY <1>7, <1>8, <1>9, <1>10, Zenon

\* Of an interval whose start the view still keeps it has everything.
LEMMA AverageOfKept ==
    ASSUME RowsInv, NEW boxes, NEW name, NEW a \in Nat, ViewKeeps(a)
    PROVE  gauge_avg(View, boxes, name, a) = gauge_avg(Rollup, boxes, name, a)
<1> DEFINE S == Averaged(View, boxes, name, a)
           V == Averaged(Rollup, boxes, name, a)
<1>1. \A k \in DOMAIN View : k \in DOMAIN Rollup /\ View[k] = Rollup[k]
  BY ViewKept
<1>2. \A k \in V : k \in DOMAIN View
  <2> SUFFICES ASSUME NEW k \in V  PROVE k \in DOMAIN View
    OBVIOUS
  <2>1. k \in DOMAIN Rollup /\ a <= Rollup[k].time
    BY DEF Averaged, Sampled
  <2> HIDE DEF V
  <2>2. Rollup[k].time \in Nat
    BY <2>1, ViewTimes
  <2> QED  BY <2>1, <2>2, KeepsLater, ViewKept
<1>3. S = V
  <2>1. S \subseteq V
    BY <1>1 DEF Averaged, Sampled
  <2>2. V \subseteq S
    BY <1>1, <1>2 DEF Averaged, Sampled
  <2> QED  BY <2>1, <2>2
<1>4. \A k \in V : View[k] = Rollup[k]
  BY <1>1, <1>2
<1> HIDE DEF S, V
<1>5. /\ [k \in V |-> View[k].gauge] = [k \in V |-> Rollup[k].gauge]
      /\ [k \in V |-> View[k].count] = [k \in V |-> Rollup[k].count]
  BY <1>4
<1>6. gauge_avg(View, boxes, name, a) =
          <<SumFunction([k \in V |-> View[k].gauge]),
            SumFunction([k \in V |-> View[k].count])>>
  BY <1>3, Zenon DEF gauge_avg, S
<1>7. gauge_avg(Rollup, boxes, name, a) =
          <<SumFunction([k \in V |-> Rollup[k].gauge]),
            SumFunction([k \in V |-> Rollup[k].count])>>
  BY Zenon DEF gauge_avg, V
<1> QED  BY <1>5, <1>6, <1>7, Zenon

\* The table has its rows unchanged.
LEMMA TableRow ==
    ASSUME NEW i
    PROVE  /\ i \in DOMAIN Raw <=> i \in DOMAIN rows /\ Retained(rows[i])
           /\ i \in DOMAIN Raw => Raw[i] = rows[i]
BY DEF Raw, Restrict

\* A range that is read from the table is in it completely.
LEMMA StillThere ==
    ASSUME RowsInv, NEW from \in Nat, ~ReadsRollup(from),
           NEW i \in DOMAIN rows, from <= rows[i].time
    PROVE  Retained(rows[i])
<1> DEFINE t == rows[i].time
           window == raw_days * Day
           end == (t \div Day + 1) * Day
<1>1. Day \in Nat \ {0} /\ raw_days \in Nat /\ now \in Int /\ t \in Nat
  <2>1. Day \in Nat \ {0} /\ raw_days \in Nat
    BY RollupAssumption DEF RollupAssumption
  <2> QED  BY <2>1, Numbered DEF RowsInv
<1>2. window \in Int
  BY <1>1
<1>3. t < end /\ end \in Int
  <2>1. t \div Day \in Nat /\ t < (t \div Day + 1) * Day
    BY <1>1, Quotient
  <2> DEFINE q == t \div Day
  <2> HIDE DEF t
  <2>2. q \in Nat /\ t < (q + 1) * Day
    BY <2>1
  <2> HIDE DEF q
  <2>3. (q + 1) * Day \in Int
    BY <1>1, <2>2
  <2> QED  BY <2>2, <2>3 DEF q
<1>4. from >= now - window
  BY <1>1, <1>2 DEF ReadsRollup
<1> HIDE DEF end, window
<1>5. end > now - window
  BY <1>1, <1>2, <1>3, <1>4
<1> QED  BY <1>5, Zenon DEF Retained, Unexpired, end, window

\* What the table is read for is all there is.
LEMMA AverageOfTable ==
    ASSUME RowsInv, NEW from \in Nat, ~ReadsRollup(from),
           NEW boxes, NEW name, NEW a \in Nat, from <= a
    PROVE  gauge_avg(RoutedRaw(Raw), boxes, name, a) =
               gauge_avg(RoutedRaw(rows), boxes, name, a)
<1> DEFINE T == Whole(boxes, name, a)
           S == Averaged(RoutedRaw(Raw), boxes, name, a)
<1>1. /\ DOMAIN RoutedRaw(Raw) = DOMAIN Raw
      /\ DOMAIN RoutedRaw(rows) = DOMAIN rows
      /\ \A i \in DOMAIN Raw : RoutedRaw(Raw)[i] = Routed(Raw[i])
      /\ \A i \in DOMAIN rows : RoutedRaw(rows)[i] = Routed(rows[i])
  BY DEF RoutedRaw
<1>2. \A i \in DOMAIN Raw : i \in DOMAIN rows /\ RoutedRaw(Raw)[i] = RoutedRaw(rows)[i]
  BY <1>1, TableRow
<1>3. \A i \in T : i \in DOMAIN Raw
  <2> SUFFICES ASSUME NEW i \in T  PROVE i \in DOMAIN Raw
    OBVIOUS
  <2>1. i \in DOMAIN rows /\ a <= rows[i].time
    BY WholeRead
  <2>2. from <= rows[i].time
    BY <2>1, Numbered
  <2> QED  BY <2>1, <2>2, StillThere, TableRow
<1>4. S = T
  <2>1. S \subseteq T
    BY <1>1, <1>2 DEF Averaged, Sampled, Whole
  <2>2. T \subseteq S
    BY <1>1, <1>2, <1>3 DEF Averaged, Sampled, Whole
  <2> QED  BY <2>1, <2>2
<1>5. \A i \in T : RoutedRaw(Raw)[i] = RoutedRaw(rows)[i]
  BY <1>2, <1>3
<1> HIDE DEF T
<1>6. /\ [i \in T |-> RoutedRaw(Raw)[i].gauge] = [i \in T |-> RoutedRaw(rows)[i].gauge]
      /\ [i \in T |-> RoutedRaw(Raw)[i].count] = [i \in T |-> RoutedRaw(rows)[i].count]
  BY <1>5
<1>7. T = Averaged(RoutedRaw(rows), boxes, name, a)
  BY Zenon DEF T, Whole
<1>8. gauge_avg(RoutedRaw(Raw), boxes, name, a) =
          <<SumFunction([i \in T |-> RoutedRaw(Raw)[i].gauge]),
            SumFunction([i \in T |-> RoutedRaw(Raw)[i].count])>>
  BY <1>4, Zenon DEF gauge_avg
<1>9. gauge_avg(RoutedRaw(rows), boxes, name, a) =
          <<SumFunction([i \in T |-> RoutedRaw(rows)[i].gauge]),
            SumFunction([i \in T |-> RoutedRaw(rows)[i].count])>>
  BY <1>7, Zenon DEF gauge_avg
<1> QED  BY <1>6, <1>8, <1>9, Zenon

\* Every panel shows the averages of all that was written, for any values,
\* buckets, samples, partitions and raw windows (source_variable, gauge_avg and
\* questdb_rollup_ddl).
THEOREM SameAverageCorrect == RollupSpec => []SameAverage
<1>1. RowsInv => SameAverage
  <2> SUFFICES ASSUME RowsInv, NEW from \in 0 .. now, NEW a \in Intervals(from),
                      NEW boxes, NEW name
               PROVE  SameRatio(gauge_avg(Source(from, View, RoutedRaw(Raw)), boxes, name, a),
                                gauge_avg(RoutedRaw(rows), boxes, name, a))
    BY Zenon DEF SameAverage, AveragesAgree
  <2>1. /\ from \in Nat /\ a \in Nat /\ from <= a /\ a % Sample = 0
        /\ ReadsRollup(from) => ViewKeeps(a)
    BY RollupAssumption DEF RollupAssumption, Intervals, RowsInv
  <2>2. gauge_avg(Source(from, View, RoutedRaw(Raw)), boxes, name, a) =
            gauge_avg(RoutedRaw(rows), boxes, name, a)
    <3>1. CASE ReadsRollup(from)
      BY <2>1, <3>1, AverageOfKept, AverageOfView DEF Source
    <3>2. CASE ~ReadsRollup(from)
      BY <2>1, <3>2, AverageOfTable DEF Source
    <3> QED  BY <3>1, <3>2
  <2>3. ASSUME NEW p  PROVE SameRatio(p, p)
    BY Zenon DEF SameRatio
  <2> QED  BY <2>2, <2>3, Zenon
<1> QED  BY <1>1, RowsInvHolds, PTL

-----------------------------------------------------------------------------
(* Increases.  A set that is read is finite, and has a value everywhere.   *)

\* A finite set of places of counters.
Readable(source, S) ==
    /\ S \subseteq Nat /\ IsFiniteSet(S)
    /\ \A i \in S : source[i].counter \in Int

\* What one value adds to the one before it.
Rise(previous, value) == IF value < previous THEN 0 ELSE value - previous

\* A part of a readable set is one.
LEMMA SubsetReadable ==
    ASSUME NEW source, NEW S, Readable(source, S), NEW s \in SUBSET S
    PROVE  Readable(source, s)
BY FS_Subset DEF Readable

\* The first and the last that is read.
LEMMA ReadableExtremes ==
    ASSUME NEW source, NEW S, Readable(source, S), S # {}
    PROVE  /\ Max(S) \in S /\ Max(S) \in Nat /\ \A y \in S : y <= Max(S)
           /\ Min(S) \in S /\ Min(S) \in Nat /\ \A y \in S : Min(S) <= y
<1>1. S \in SUBSET Int /\ S \subseteq Nat /\ IsFiniteSet(S)
  BY DEF Readable
<1> QED  BY <1>1, Extremes

\* Where every row has a value, lag() is the value before.
LEMMA DeltaReadable ==
    ASSUME NEW source, NEW S, Readable(source, S), NEW i \in S
    PROVE  LET earlier == {j \in S : j < i}
           IN  /\ Delta(source, S, i) =
                      IF earlier = {} THEN 0
                      ELSE Rise(source[Max(earlier)].counter, source[i].counter)
               /\ earlier # {} => Max(earlier) \in S
<1> DEFINE earlier == {j \in S : j < i}
<1>1. earlier \in SUBSET S
  OBVIOUS
<1>2. Readable(source, earlier)
  BY <1>1, SubsetReadable
<1>3. earlier # {} => Max(earlier) \in S
  <2> HIDE DEF earlier
  <2> QED  BY <1>1, <1>2, ReadableExtremes
<1>4. source[i].counter # Null
      /\ (earlier # {} => source[Max(earlier)].counter # Null)
  BY <1>3, RollupAssumption DEF RollupAssumption, Readable
<1>5. Delta(source, S, i) =
          IF earlier = {} \/ source[i].counter = Null THEN 0
          ELSE IF source[Max(earlier)].counter = Null THEN 0
          ELSE Rise(source[Max(earlier)].counter, source[i].counter)
  BY Zenon DEF Delta, Rise
<1> HIDE DEF earlier
<1>6. Delta(source, S, i) =
          IF earlier = {} THEN 0
          ELSE Rise(source[Max(earlier)].counter, source[i].counter)
  BY <1>4, <1>5, Zenon
<1> QED  BY <1>3, <1>6 DEF earlier

\* Every difference is a number that is not negative.
LEMMA DeltaTyped ==
    ASSUME NEW source, NEW S, Readable(source, S), NEW i \in S
    PROVE  Delta(source, S, i) \in Nat
<1> DEFINE earlier == {j \in S : j < i}
<1>1. /\ Delta(source, S, i) =
             IF earlier = {} THEN 0
             ELSE Rise(source[Max(earlier)].counter, source[i].counter)
      /\ earlier # {} => Max(earlier) \in S
  BY DeltaReadable
<1> HIDE DEF earlier
<1>2. source[i].counter \in Int
      /\ (earlier # {} => source[Max(earlier)].counter \in Int)
  BY <1>1 DEF Readable
<1> QED  BY <1>1, <1>2 DEF Rise

\* The last value adds what it rose since the one before.
LEMMA DeltaOfLast ==
    ASSUME NEW source, NEW S, Readable(source, S), S # {}
    PROVE  LET last == Max(S)
               rest == S \ {Max(S)}
           IN  counter_delta(source, S) =
                   counter_delta(source, rest)
                     + IF rest = {} THEN 0
                       ELSE Rise(source[Max(rest)].counter, source[last].counter)
<1> DEFINE last == Max(S)
           rest == S \ {last}
           f == [i \in S |-> Delta(source, S, i)]
           g == [i \in rest |-> Delta(source, rest, i)]
<1>1. last \in S /\ last \in Nat /\ \A y \in S : y <= last
  BY ReadableExtremes
<1>2. S \subseteq Nat /\ IsFiniteSet(S) /\ IsFiniteSet(rest)
  BY FS_RemoveElement DEF Readable
<1> HIDE DEF last
<1>3. \A i \in rest : f[i] = g[i]
  <2> SUFFICES ASSUME NEW i \in rest  PROVE Delta(source, S, i) = Delta(source, rest, i)
    OBVIOUS
  <2>1. {j \in S : j < i} = {j \in rest : j < i}
    BY <1>1, <1>2
  <2> QED  BY <2>1, Zenon DEF Delta
<1>4. f[last] = IF rest = {} THEN 0
                ELSE Rise(source[Max(rest)].counter, source[last].counter)
  <2>1. f[last] = Delta(source, S, last)
    BY <1>1
  <2>2. {j \in S : j < last} = rest
    <3>1. ASSUME NEW j \in S  PROVE j < last <=> j # last
      BY <1>1, <1>2
    <3> QED  BY <3>1
  <2>3. Delta(source, S, last) =
            IF {j \in S : j < last} = {} THEN 0
            ELSE Rise(source[Max({j \in S : j < last})].counter, source[last].counter)
    BY <1>1, DeltaReadable
  <2> HIDE DEF f, rest
  <2> QED  BY <2>1, <2>2, <2>3, Zenon
<1>5. \A i \in S : f[i] \in Int
  <2> SUFFICES ASSUME NEW i \in S  PROVE Delta(source, S, i) \in Int
    OBVIOUS
  <2> QED  BY DeltaTyped
<1>6. SumFunctionOnSet(f, S) = f[last] + SumFunctionOnSet(f, rest)
      /\ f[last] \in Int
  <2> HIDE DEF f
  <2> QED  BY <1>1, <1>2, <1>5, SumRemoved
<1>7. SumFunctionOnSet(f, rest) = SumFunctionOnSet(g, rest)
  <2> HIDE DEF f, g, rest
  <2> QED  BY <1>2, <1>3, SumAlike
<1>8. SumFunctionOnSet(f, rest) \in Int
  <2>1. \A i \in rest : f[i] \in Int
    BY <1>5
  <2> HIDE DEF f, rest
  <2> QED  BY <1>2, <2>1, SumRemoved
<1>9. counter_delta(source, S) = SumFunctionOnSet(f, S)
      /\ counter_delta(source, rest) = SumFunctionOnSet(g, rest)
  BY Zenon DEF counter_delta, SumFunction
<1>10. counter_delta(source, S) = counter_delta(source, rest) + f[last]
  <2> HIDE DEF f, g, rest
  <2> QED  BY <1>6, <1>7, <1>8, <1>9
<1> QED  BY <1>4, <1>10 DEF last

\* Nothing is shown of nothing.
LEMMA DeltaOfNothing == \A source : counter_delta(source, {}) = 0
<1> TAKE source
<1> DEFINE f == [i \in {} |-> Delta(source, {}, i)]
<1>1. counter_delta(source, {}) = SumFunctionOnSet(f, {})
  BY Zenon DEF counter_delta, SumFunction
<1> QED  BY <1>1, SumEmpty

\* What is not after t.
Upto(S, t) == {j \in S : j <= t}

\* Between two values the increase is not negative, and at least what the
\* later one has more.
LEMMA RiseBetween ==
    ASSUME NEW source, NEW S, Readable(source, S)
    PROVE  /\ counter_delta(source, S) \in Nat
           /\ \A t \in S :
                 /\ counter_delta(source, Upto(S, t)) <= counter_delta(source, S)
                 /\ source[Max(S)].counter - source[t].counter
                        <= counter_delta(source, S)
                             - counter_delta(source, Upto(S, t))
<1> DEFINE D(s) == counter_delta(source, s)
           value(i) == source[i].counter
           P == {s \in SUBSET S :
                    /\ D(s) \in Nat
                    /\ \A t \in s : /\ D(Upto(s, t)) <= D(s)
                                    /\ value(Max(s)) - value(t) <= D(s) - D(Upto(s, t))}
<1>1. ASSUME NEW s \in SUBSET S, \A t \in SUBSET s : t # s => t \in P
      PROVE  s \in P
  <2>1. CASE s = {}
    BY <2>1, DeltaOfNothing
  <2>2. CASE s # {}
    <3> DEFINE last == Max(s)
               rest == s \ {last}
    <3>1. Readable(source, s)
      BY SubsetReadable
    <3>2. last \in s /\ last \in Nat /\ (\A y \in s : y <= last) /\ s \subseteq Nat
      BY <2>2, <3>1, ReadableExtremes DEF Readable
    <3>3. rest \in SUBSET s /\ rest # s
      BY <3>2
    <3>4. D(s) = D(rest) + IF rest = {} THEN 0
                           ELSE Rise(value(Max(rest)), value(last))
      BY <2>2, <3>1, DeltaOfLast
    <3>5. rest \in P
      <4> HIDE DEF P, rest
      <4> QED  BY <1>1, <3>3
    <3>6. Upto(s, last) = s
      BY <3>2 DEF Upto
    <3> HIDE DEF last
    <3>7. CASE rest = {}
      <4>1. D(s) = D(rest) /\ D(rest) \in Nat
        BY <3>4, <3>5, <3>7
      <4>2. \A t \in s : t = last
        BY <3>7
      <4>3. value(last) \in Int
        BY <3>1, <3>2 DEF Readable
      <4>4. ASSUME NEW t \in s
            PROVE  /\ D(Upto(s, t)) <= D(s)
                   /\ value(last) - value(t) <= D(s) - D(Upto(s, t))
        <5>1. t = last /\ D(Upto(s, t)) = D(s)
          BY <3>6, <4>2
        <5> HIDE DEF D, value, rest
        <5> QED  BY <4>1, <4>3, <5>1
      <4> HIDE DEF D, value, rest
      <4> QED  BY <4>1, <4>4 DEF last
    <3>8. CASE rest # {}
      <4> DEFINE previous == Max(rest)
                 r == Rise(value(previous), value(last))
      <4>1. previous \in rest
        <5>1. Readable(source, rest)
          BY <3>1, SubsetReadable
        <5> HIDE DEF rest
        <5> QED  BY <3>8, <5>1, ReadableExtremes
      <4>2. value(last) \in Int /\ value(previous) \in Int
        BY <3>1, <3>2, <4>1 DEF Readable
      <4>3. r \in Nat /\ value(last) - value(previous) <= r
        <5> HIDE DEF previous, value
        <5> QED  BY <4>2 DEF Rise
      <4>4. D(s) = D(rest) + r
        BY <3>4, <3>8
      <4>5. D(rest) \in Nat
        BY <3>5
      <4>6. ASSUME NEW t \in s
            PROVE  /\ D(Upto(s, t)) <= D(s)
                   /\ value(last) - value(t) <= D(s) - D(Upto(s, t))
        <5>1. value(t) \in Int
          BY <3>1 DEF Readable
        <5>2. CASE t = last
          <6>1. D(Upto(s, t)) = D(s)
            BY <3>6, <5>2
          <6> HIDE DEF D, value, r, rest
          <6> QED  BY <4>3, <4>4, <4>5, <5>1, <5>2, <6>1
        <5>3. CASE t # last
          <6>1. t \in rest /\ Upto(s, t) = Upto(rest, t)
            <7>1. t \in rest /\ t \in Nat /\ t < last
              BY <3>2, <5>3
            <7> QED  BY <3>2, <7>1 DEF Upto
          <6>2. /\ D(Upto(s, t)) <= D(rest)
                /\ value(previous) - value(t) <= D(rest) - D(Upto(s, t))
            BY <3>5, <6>1
          <6>3. D(Upto(s, t)) \in Nat
            <7>1. Upto(s, t) \in SUBSET s /\ Upto(s, t) # s
              BY <3>2, <6>1 DEF Upto
            <7>2. Upto(s, t) \in P
              <8> HIDE DEF P
              <8> QED  BY <1>1, <7>1
            <7> QED  BY <7>2
          <6> HIDE DEF D, value, r, previous
          <6> QED  BY <4>2, <4>3, <4>4, <4>5, <5>1, <6>2, <6>3
        <5> QED  BY <5>2, <5>3
      <4>7. D(s) \in Nat
        <5> HIDE DEF D, r
        <5> QED  BY <4>3, <4>4, <4>5
      <4> HIDE DEF D, value
      <4> QED  BY <4>6, <4>7 DEF last
    <3> QED  BY <3>7, <3>8
  <2> QED  BY <2>1, <2>2
<1>2. \A s \in SUBSET S : (\A t \in SUBSET s : t # s => t \in P) => s \in P
  BY <1>1
<1>3. S \in P
  <2>1. IsFiniteSet(S)
    BY DEF Readable
  <2> HIDE DEF P
  <2> QED  BY <1>2, <2>1, SetInduction
<1> QED  BY <1>3

\* The increase of what only rises is the last value less the first.
LEMMA RisesOnly ==
    ASSUME NEW source, NEW S, Readable(source, S), Rises(source, S), S # {}
    PROVE  counter_delta(source, S) = source[Max(S)].counter - source[Min(S)].counter
<1> DEFINE D(s) == counter_delta(source, s)
           value(i) == source[i].counter
           P == {s \in SUBSET S : s # {} => D(s) = value(Max(s)) - value(Min(s))}
<1>1. ASSUME NEW s \in SUBSET S, \A t \in SUBSET s : t # s => t \in P, s # {}
      PROVE  D(s) = value(Max(s)) - value(Min(s))
  <2> DEFINE last == Max(s)
             rest == s \ {last}
  <2>1. Readable(source, s)
    BY SubsetReadable
  <2>2. /\ last \in s /\ last \in Nat /\ (\A y \in s : y <= last)
        /\ Min(s) \in s /\ Min(s) \in Nat /\ (\A y \in s : Min(s) <= y)
        /\ s \subseteq Nat
    BY <1>1, <2>1, ReadableExtremes DEF Readable
  <2>3. D(s) = D(rest) + IF rest = {} THEN 0
                         ELSE Rise(value(Max(rest)), value(last))
    BY <1>1, <2>1, DeltaOfLast
  <2>4. value(last) \in Int /\ value(Min(s)) \in Int
    BY <2>1, <2>2 DEF Readable
  <2>5. CASE rest = {}
    <3>1. Min(s) = last
      BY <2>2, <2>5
    <3>2. D(rest) = 0
      BY <2>5, DeltaOfNothing
    <3> HIDE DEF D, value, rest
    <3> QED  BY <2>3, <2>4, <2>5, <3>1, <3>2
  <2>6. CASE rest # {}
    <3> DEFINE previous == Max(rest)
    <3>1. rest \in P
      <4>1. rest \in SUBSET s /\ rest # s
        BY <2>2
      <4> HIDE DEF P, rest
      <4> QED  BY <1>1, <4>1
    <3>2. D(rest) = value(previous) - value(Min(rest))
      BY <2>6, <3>1
    <3>3. /\ previous \in rest
          /\ Min(rest) \in rest /\ Min(rest) \in Nat
          /\ \A y \in rest : Min(rest) <= y
      <4>1. Readable(source, rest)
        BY <2>1, SubsetReadable
      <4> HIDE DEF rest
      <4> QED  BY <2>6, <4>1, ReadableExtremes
    <3>4. Min(rest) = Min(s)
      <4>1. Min(s) <= Min(rest)
        BY <2>2, <3>3
      <4>2. Min(s) \in rest
        <5>1. Min(rest) < last
          BY <2>2, <3>3
        <5> QED  BY <2>2, <3>3, <4>1, <5>1
      <4> QED  BY <2>2, <3>3, <4>1, <4>2
    <3>5. value(previous) \in Int /\ value(previous) <= value(last)
      <4>1. previous < last /\ previous \in S /\ last \in S
        <5>1. previous \in s /\ previous # last
          BY <3>3
        <5> HIDE DEF previous, last
        <5> QED  BY <2>2, <5>1
      <4> QED  BY <4>1 DEF Rises, Readable
    <3> HIDE DEF D, value, rest, previous
    <3> QED  BY <2>3, <2>4, <2>6, <3>2, <3>4, <3>5 DEF Rise, previous
  <2> QED  BY <2>5, <2>6
<1>2. \A s \in SUBSET S : (\A t \in SUBSET s : t # s => t \in P) => s \in P
  <2> HIDE DEF D, value
  <2> QED  BY <1>1
<1>3. S \in P
  <2>1. IsFiniteSet(S)
    BY DEF Readable
  <2> HIDE DEF P
  <2> QED  BY <1>2, <2>1, SetInduction
<1> QED  BY <1>3

\* v has some of the values of w, in their order.
Thins(v, V, w, T, m) ==
    /\ Readable(v, V) /\ Readable(w, T)
    /\ m \in [V -> T]
    /\ \A k \in V : v[k].counter = w[m[k]].counter
    /\ \A k, l \in V : k < l => m[k] < m[l]

\* Fewer values give no greater increase: a fall between two of them that is
\* left out only takes from it.
LEMMA Thinned ==
    ASSUME NEW v, NEW V, NEW w, NEW T, NEW m, Thins(v, V, w, T, m)
    PROVE  counter_delta(v, V) <= counter_delta(w, T)
<1> DEFINE D(s) == counter_delta(v, s)
           E(s) == counter_delta(w, s)
           P == {s \in SUBSET V : s # {} => D(s) <= E(Upto(T, m[Max(s)]))}
<1>1. /\ Readable(v, V) /\ Readable(w, T)
      /\ m \in [V -> T]
      /\ \A k \in V : v[k].counter = w[m[k]].counter
      /\ \A k, l \in V : k < l => m[k] < m[l]
  BY Zenon DEF Thins
<1>2. V \subseteq Nat /\ T \subseteq Nat /\ \A k \in V : m[k] \in T
  BY <1>1 DEF Readable
<1>3. ASSUME NEW t \in T  PROVE Readable(w, Upto(T, t)) /\ E(Upto(T, t)) \in Nat
  <2>1. Upto(T, t) \in SUBSET T
    BY DEF Upto
  <2> QED  BY <1>1, <2>1, SubsetReadable, RiseBetween
<1>4. ASSUME NEW s \in SUBSET V, \A t \in SUBSET s : t # s => t \in P, s # {}
      PROVE  D(s) <= E(Upto(T, m[Max(s)]))
  <2> DEFINE last == Max(s)
             rest == s \ {last}
  <2>1. Readable(v, s)
    BY <1>1, SubsetReadable
  <2>2. last \in s /\ last \in Nat /\ \A y \in s : y <= last
    BY <1>4, <2>1, ReadableExtremes
  <2>3. D(s) = D(rest) + IF rest = {} THEN 0
                         ELSE Rise(v[Max(rest)].counter, v[last].counter)
    BY <1>4, <2>1, DeltaOfLast
  <2>4. E(Upto(T, m[last])) \in Nat
    BY <1>2, <1>3, <2>2
  <2>5. CASE rest = {}
    <3>1. D(rest) = 0
      BY <2>5, DeltaOfNothing
    <3> HIDE DEF D, E, rest
    <3> QED  BY <2>3, <2>4, <2>5, <3>1
  <2>6. CASE rest # {}
    <3> DEFINE previous == Max(rest)
               S == Upto(T, m[last])
               R == Upto(T, m[previous])
    <3>1. D(rest) <= E(R)
      <4>1. rest \in SUBSET s /\ rest # s
        BY <2>2
      <4>2. rest \in P
        <5> HIDE DEF P, rest
        <5> QED  BY <1>4, <4>1
      <4> QED  BY <2>6, <4>2
    <3>2. previous \in rest
      <4>1. Readable(v, rest)
        BY <2>1, SubsetReadable
      <4> HIDE DEF rest
      <4> QED  BY <2>6, <4>1, ReadableExtremes
    <3>3. previous \in V /\ last \in V /\ previous < last
      <4>1. previous \in s /\ previous # last
        BY <3>2
      <4> HIDE DEF previous, last
      <4> QED  BY <1>2, <2>2, <4>1
    <3>4. m[previous] \in T /\ m[last] \in T /\ m[previous] < m[last]
      BY <1>1, <3>3
    <3> DEFINE c == m[previous]
               d == m[last]
    <3>5. Readable(w, S) /\ c \in S /\ d \in S /\ (\A y \in S : y <= d)
          /\ Upto(S, c) = R
      <4>1. c \in Nat /\ d \in Nat /\ c \in T /\ d \in T /\ c < d
        BY <1>2, <3>4
      <4>2. Readable(w, S)
        BY <1>3, <3>4
      <4>3. S = Upto(T, d) /\ R = Upto(T, c)
        BY Zenon
      <4> HIDE DEF c, d, S, R
      <4>4. \A y \in T : y <= c => y <= d
        BY <1>2, <4>1
      <4>5. c \in S /\ d \in S /\ \A y \in S : y <= d
        BY <4>1, <4>3 DEF Upto
      <4>6. Upto(S, c) = R
        BY <4>3, <4>4 DEF Upto
      <4> QED  BY <4>2, <4>5, <4>6
    <3>6. Upto(S, m[previous]) = R
      BY <3>5
    <3>7. Max(S) = m[last]
      <4> HIDE DEF last, S
      <4>1. Max(S) \in S /\ Max(S) \in Nat /\ \A y \in S : y <= Max(S)
        BY <3>5, ReadableExtremes
      <4>2. Max(S) <= m[last] /\ m[last] <= Max(S) /\ m[last] \in Nat
        BY <1>2, <3>4, <3>5, <4>1
      <4> QED  BY <4>1, <4>2
    <3>8. /\ E(R) <= E(S)
          /\ w[m[last]].counter - w[m[previous]].counter <= E(S) - E(R)
      <4> HIDE DEF S, R, last, previous
      <4> QED  BY <3>5, <3>6, <3>7, RiseBetween
    <3>9. v[last].counter = w[m[last]].counter
          /\ v[previous].counter = w[m[previous]].counter
          /\ v[last].counter \in Int /\ v[previous].counter \in Int
      BY <1>1, <3>3 DEF Readable
    <3>10. E(R) \in Nat /\ E(S) \in Nat
      BY <1>3, <3>4
    <3>11. D(rest) \in Nat
      <4>1. Readable(v, rest)
        BY <2>1, SubsetReadable
      <4> HIDE DEF rest
      <4> QED  BY <4>1, RiseBetween
    <3>12. D(s) = D(rest) + Rise(v[previous].counter, v[last].counter)
      BY <2>3, <2>6
    <3> DEFINE p == v[previous].counter
               q == v[last].counter
    <3>13. /\ p \in Int /\ q \in Int /\ q - p <= E(S) - E(R)
           /\ D(s) = D(rest) + Rise(p, q)
      BY <3>8, <3>9, <3>12
    <3> HIDE DEF D, E, rest, p, q, S, R
    <3>14. D(s) <= E(S)
      BY <3>1, <3>8, <3>10, <3>11, <3>13 DEF Rise
    <3> QED  BY <3>14 DEF S
  <2> QED  BY <2>5, <2>6
<1>5. \A s \in SUBSET V : (\A t \in SUBSET s : t # s => t \in P) => s \in P
  <2> HIDE DEF D, E
  <2> QED  BY <1>4
<1>6. V \in P
  <2>1. IsFiniteSet(V)
    BY <1>1 DEF Readable
  <2> HIDE DEF P
  <2> QED  BY <1>5, <2>1, SetInduction
<1>7. E(T) \in Nat
  BY <1>1, RiseBetween
<1>8. CASE V = {}
  <2>1. D(V) = 0
    BY <1>8, DeltaOfNothing
  <2> HIDE DEF D, E
  <2> QED  BY <1>7, <2>1 DEF D, E
<1>9. CASE V # {}
  <2> DEFINE t == m[Max(V)]
  <2>1. t \in T
    BY <1>1, <1>2, <1>9, ReadableExtremes
  <2>2. E(Upto(T, t)) <= E(T) /\ E(Upto(T, t)) \in Nat
    BY <1>1, <1>3, <2>1, RiseBetween
  <2>3. D(V) <= E(Upto(T, t)) /\ D(V) \in Nat
    BY <1>1, <1>6, <1>9, RiseBetween
  <2> HIDE DEF D, E
  <2>4. D(V) <= E(T)
    BY <1>7, <2>2, <2>3
  <2> QED  BY <2>4 DEF D, E
<1> QED  BY <1>8, <1>9

\* Everything that was counted can be read.
LEMMA CountedReadable ==
    ASSUME RowsInv, NEW box, NEW from
    PROVE  Readable(rows, Counted(rows, box, from, TRUE))
<1>1. Counted(rows, box, from, TRUE) \in SUBSET DOMAIN rows
  BY DEF Counted
<1>2. \A i \in Counted(rows, box, from, TRUE) : rows[i].counter \in Int
  <2> SUFFICES ASSUME NEW i \in Counted(rows, box, from, TRUE)
               PROVE  rows[i].counter \in Int
    OBVIOUS
  <2>1. i \in DOMAIN rows /\ rows[i].counter # Null
    BY DEF Counted
  <2> QED  BY <2>1, Numbered
<1> QED  BY <1>1, <1>2, Numbered, FS_Subset DEF Readable

\* The row the view has its counter of.
Taken(k) == Max(Candidates(MembersOf(k)))

\* That row is one the box counted, in the bucket and the last of it.
LEMMA TakenCounted ==
    ASSUME RowsInv, NEW box, NEW from \in Nat, NEW k \in Counted(View, box, from, TRUE)
    PROVE  /\ k \in DOMAIN rows /\ Opens(k) /\ rows[k].box = box
           /\ from <= (rows[k].time \div Bucket) * Bucket
           /\ Taken(k) \in Counted(rows, box, from, TRUE)
           /\ Group(rows[Taken(k)]) = Group(rows[k])
           /\ ViewKeeps((rows[k].time \div Bucket) * Bucket)
           /\ View[k].counter = rows[Taken(k)].counter
           /\ \A i \in Candidates(MembersOf(k)) : i <= Taken(k)
<1> DEFINE C == Candidates(MembersOf(k))
           i == Taken(k)
<1>1. /\ k \in DOMAIN Rollup /\ from <= Rollup[k].time
      /\ Rollup[k].box = box /\ Rollup[k].counter # Null
      /\ ViewKeeps(Rollup[k].time) /\ View[k] = Rollup[k]
  <2>1. /\ k \in DOMAIN View /\ from <= View[k].time
        /\ View[k].box = box /\ View[k].counter # Null
    BY DEF Counted
  <2> QED  BY <2>1, ViewKept
<1>2. /\ k \in DOMAIN rows /\ Opens(k) /\ rows[k].box = box
      /\ from <= (rows[k].time \div Bucket) * Bucket
      /\ ViewKeeps((rows[k].time \div Bucket) * Bucket)
      /\ Rollup[k].counter = LastOf(MembersOf(k))
  BY <1>1, ViewRow
<1>3. C # {} /\ Rollup[k].counter = rows[i].counter
  BY <1>1, <1>2, Zenon DEF LastOf, Taken
<1>4. C \in SUBSET MembersOf(k) /\ MembersOf(k) \in SUBSET DOMAIN rows
  BY DEF Candidates, MembersOf, Members
<1>5. C \in SUBSET Int /\ IsFiniteSet(C) /\ C \subseteq DOMAIN rows
  BY <1>4, Numbered, FS_Subset
<1>6. i \in C /\ \A j \in C : j <= i
  <2> HIDE DEF C
  <2>1. Max(C) \in C /\ \A j \in C : j <= Max(C)
    BY <1>3, <1>5, Extremes
  <2> QED  BY <2>1 DEF Taken, C
<1>7. i \in DOMAIN rows /\ Group(rows[i]) = Group(rows[k])
  BY <1>4, <1>6 DEF MembersOf, Members
<1>8. rows[i].box = box
      /\ rows[i].time \div Bucket = rows[k].time \div Bucket
  BY <1>2, <1>7 DEF Group
<1>9. from <= rows[i].time
  <2>1. Bucket \in Nat \ {0}
    BY RollupAssumption DEF RollupAssumption
  <2> DEFINE t == rows[i].time
             x == (t \div Bucket) * Bucket
  <2>2. t \in Nat
    BY <1>7, Numbered
  <2> HIDE DEF t
  <2>3. x \in Nat /\ x <= t
    BY <2>1, <2>2, Quotient
  <2>4. from <= x
    BY <1>2, <1>8 DEF t
  <2> HIDE DEF x
  <2>5. from <= t
    BY <2>2, <2>3, <2>4
  <2> QED  BY <2>5 DEF t
<1>10. i \in Counted(rows, box, from, TRUE)
  <2> HIDE DEF i
  <2> QED  BY <1>1, <1>3, <1>7, <1>8, <1>9 DEF Counted
<1> HIDE DEF C, i
<1> QED  BY <1>1, <1>2, <1>3, <1>6, <1>7, <1>10 DEF C, i

\* A later bucket has its counter of a later row: the counter of one box is
\* one series, so that its rows in one bucket are one group.
LEMMA TakenInOrder ==
    ASSUME RowsInv, NEW box, NEW from \in Nat,
           NEW k \in Counted(View, box, from, TRUE),
           NEW l \in Counted(View, box, from, TRUE), k < l
    PROVE  Taken(k) < Taken(l)
<1> DEFINE i == Taken(k)
           j == Taken(l)
           b(n) == rows[n].time \div Bucket
<1>1. /\ k \in DOMAIN rows /\ Opens(k) /\ l \in DOMAIN rows /\ Opens(l)
      /\ i \in Counted(rows, box, from, TRUE) /\ j \in Counted(rows, box, from, TRUE)
      /\ Group(rows[i]) = Group(rows[k]) /\ Group(rows[j]) = Group(rows[l])
  BY TakenCounted
<1>2. /\ i \in DOMAIN rows /\ rows[i].counter # Null /\ rows[i].box = box
      /\ j \in DOMAIN rows /\ rows[j].counter # Null /\ rows[j].box = box
  <2> HIDE DEF i, j
  <2> QED  BY <1>1 DEF Counted
<1>3. rows[i].name = rows[j].name
  <2> HIDE DEF i, j
  <2>1. rows[i] \in Rows /\ rows[j] \in Rows
    BY <1>2 DEF RowsInv
  <2>2. PICK x \in Lines : /\ rows[i].box = x.box /\ rows[i].name = x.name
                           /\ rows[i].counter = x.counter
    BY <2>1 DEF Rows
  <2>3. PICK y \in Lines : /\ rows[j].box = y.box /\ rows[j].name = y.name
                           /\ rows[j].counter = y.counter
    BY <2>1 DEF Rows
  <2>4. OneSeries
    BY RollupAssumption DEF RollupAssumption
  <2> QED  BY <1>2, <2>2, <2>3, <2>4 DEF OneSeries
<1>4. Group(rows[k]) # Group(rows[l])
  <2>1. k = Min(Members(Group(rows[k]))) /\ l = Min(Members(Group(rows[l])))
    BY <1>1 DEF Opens
  <2>2. k # l
    BY <1>1, Numbered
  <2> QED  BY <2>1, <2>2, Zenon
<1>5. b(i) = b(k) /\ b(j) = b(l) /\ b(k) # b(l)
  <2> HIDE DEF i, j
  <2>1. b(i) = b(k) /\ b(j) = b(l)
    BY <1>1 DEF Group
  <2>2. Group(rows[i]) # Group(rows[j])
    BY <1>1, <1>4, Zenon
  <2>3. b(i) # b(j)
    BY <1>2, <1>3, <2>2 DEF Group
  <2> QED  BY <2>1, <2>3
<1>6. ASSUME NEW p \in DOMAIN rows, NEW q \in DOMAIN rows, p <= q
      PROVE  b(p) \in Nat /\ b(q) \in Nat /\ b(p) <= b(q)
  <2>1. rows[p].time \in Nat /\ rows[q].time \in Nat /\ p \in Nat /\ q \in Nat
    BY Numbered
  <2>2. rows[p].time <= rows[q].time
    <3>1. CASE p = q
      BY <2>1, <3>1
    <3>2. CASE p # q
      <4>1. p < q
        BY <1>6, <2>1, <3>2
      <4> QED  BY <4>1 DEF RowsInv
    <3> QED  BY <3>1, <3>2
  <2>3. Bucket \in Nat \ {0}
    BY RollupAssumption DEF RollupAssumption
  <2> QED  BY <2>1, <2>2, <2>3, Quotient, QuotientOrder
<1>7. k \in Nat /\ l \in Nat /\ i \in Nat /\ j \in Nat
  BY <1>1, <1>2, Numbered
<1>8. b(k) <= b(l) /\ b(k) \in Nat /\ b(l) \in Nat
  <2>1. k <= l
    BY <1>7
  <2> QED  BY <1>1, <1>6, <2>1
<1>9. CASE j <= i
  <2>1. b(j) <= b(i)
    <3> HIDE DEF b, i, j
    <3> QED  BY <1>2, <1>6, <1>9
  <2> HIDE DEF b, i, j
  <2>2. FALSE
    BY <1>5, <1>8, <2>1
  <2> QED  BY <2>2
<1> HIDE DEF b
<1> QED  BY <1>7, <1>9

\* The counters of the view are some of those of the table, in their order.
LEMMA ViewThins ==
    ASSUME RowsInv, NEW box, NEW from \in Nat
    PROVE  LET V == Counted(View, box, from, TRUE)
           IN  Thins(View, V, rows, Counted(rows, box, from, TRUE), [k \in V |-> Taken(k)])
<1> DEFINE V == Counted(View, box, from, TRUE)
           T == Counted(rows, box, from, TRUE)
           m == [k \in V |-> Taken(k)]
<1>1. \A k \in V : /\ k \in DOMAIN rows /\ Taken(k) \in T
                   /\ View[k].counter = rows[Taken(k)].counter
  BY TakenCounted
<1>2. Readable(rows, T)
  BY CountedReadable
<1>3. V \subseteq DOMAIN rows /\ \A k \in V : View[k].counter \in Int
  <2> HIDE DEF V, T
  <2> QED  BY <1>1, <1>2 DEF Readable
<1>4. Readable(View, V)
  <2> HIDE DEF V
  <2> QED  BY <1>3, Numbered, FS_Subset DEF Readable
<1>5. \A k, l \in V : k < l => m[k] < m[l]
  <2> SUFFICES ASSUME NEW k \in V, NEW l \in V, k < l  PROVE Taken(k) < Taken(l)
    OBVIOUS
  <2> QED  BY TakenInOrder
<1>6. m \in [V -> T] /\ \A k \in V : View[k].counter = rows[m[k]].counter
  <2> HIDE DEF V, T
  <2> QED  BY <1>1
<1>7. Thins(View, V, rows, T, m)
  <2> HIDE DEF V, T, m
  <2> QED  BY <1>2, <1>4, <1>5, <1>6, Zenon DEF Thins
<1> QED  BY <1>7

\* Where last() skips NULL, the last row that was counted is one the view has
\* its counter of, if the view has any from there on.
LEMMA LastIsTaken ==
    ASSUME RowsInv, NEW box, NEW from \in Nat, last_skips_null,
           Counted(View, box, from, TRUE) # {}
    PROVE  LET last == Max(Counted(rows, box, from, TRUE))
           IN  /\ Opener(last) \in Counted(View, box, from, TRUE)
               /\ Taken(Opener(last)) = last
<1> DEFINE V == Counted(View, box, from, TRUE)
           T == Counted(rows, box, from, TRUE)
           last == Max(T)
           o == Opener(last)
<1>1. PICK k : k \in V
  OBVIOUS
<1>2. /\ k \in DOMAIN rows /\ Taken(k) \in T
      /\ from <= (rows[k].time \div Bucket) * Bucket
      /\ ViewKeeps((rows[k].time \div Bucket) * Bucket)
      /\ Group(rows[Taken(k)]) = Group(rows[k])
  BY <1>1, TakenCounted
<1>3. last \in T /\ last \in Nat /\ \A y \in T : y <= last
  <2>1. Readable(rows, T) /\ T # {}
    BY <1>2, CountedReadable
  <2> HIDE DEF T
  <2> QED  BY <2>1, ReadableExtremes
<1>4. last \in DOMAIN rows /\ rows[last].box = box /\ rows[last].counter # Null
  <2> HIDE DEF last
  <2> QED  BY <1>3 DEF Counted
<1>5. /\ from <= (rows[last].time \div Bucket) * Bucket
      /\ ViewKeeps((rows[last].time \div Bucket) * Bucket)
  <2> DEFINE i == Taken(k)
  <2>1. i \in DOMAIN rows /\ i <= last
    <3> HIDE DEF last, i
    <3>1. i \in T
      BY <1>2 DEF i
    <3> QED  BY <1>3, <3>1 DEF Counted
  <2>2. rows[i].time \in Nat /\ rows[last].time \in Nat /\ i \in Nat
    BY <1>4, <2>1, Numbered
  <2>3. rows[i].time <= rows[last].time
    <3> HIDE DEF last, i
    <3>1. CASE i = last
      BY <2>2, <3>1
    <3>2. CASE i # last
      <4>1. i < last
        BY <1>3, <2>1, <2>2, <3>2
      <4> QED  BY <1>4, <2>1, <4>1 DEF RowsInv
    <3> QED  BY <3>1, <3>2
  <2>4. Bucket \in Nat \ {0}
    BY RollupAssumption DEF RollupAssumption
  <2> DEFINE s == rows[i].time
             t == rows[last].time
             x == (s \div Bucket) * Bucket
             y == (t \div Bucket) * Bucket
  <2>5. s \div Bucket = rows[k].time \div Bucket
    BY <1>2 DEF Group
  <2>6. from <= x /\ ViewKeeps(x)
    BY <1>2, <2>5
  <2> HIDE DEF s, t
  <2>7. x <= y /\ x \in Nat /\ y \in Nat
    <3>1. s \in Nat /\ t \in Nat /\ s <= t
      BY <2>2, <2>3 DEF s, t
    <3> QED  BY <2>4, <3>1, Quotient, QuotientOrder
  <2> HIDE DEF x, y
  <2>8. from <= y /\ ViewKeeps(y)
    BY <2>6, <2>7, KeepsLater
  <2> QED  BY <2>8 DEF y, t
<1>6. InView(rows[last])
  BY <1>4 DEF InView
<1> HIDE DEF last
<1>7. /\ o \in DOMAIN rows /\ Opens(o)
      /\ Group(rows[o]) = Group(rows[last])
      /\ last \in MembersOf(o)
  BY <1>4, <1>6, BucketOpened DEF MembersOf
<1> HIDE DEF o
<1>8. last \in Candidates(MembersOf(o))
  BY <1>4, <1>7 DEF Candidates
<1>9. rows[o].box = box /\ rows[o].time \div Bucket = rows[last].time \div Bucket
  BY <1>4, <1>7 DEF Group
<1>10. LastOf(MembersOf(o)) # Null
  <2> DEFINE C == Candidates(MembersOf(o))
  <2>1. C = {i \in MembersOf(o) : rows[i].counter # Null}
    BY DEF Candidates
  <2>2. C \in SUBSET DOMAIN rows
    BY <2>1 DEF MembersOf, Members
  <2>3. C \in SUBSET Int /\ IsFiniteSet(C) /\ C # {}
    BY <1>8, <2>2, Numbered, FS_Subset
  <2>4. Max(C) \in C
    <3> HIDE DEF C
    <3> QED  BY <2>3, Extremes
  <2>5. rows[Max(C)].counter # Null
    <3> HIDE DEF C
    <3> QED  BY <2>1, <2>4
  <2>6. LastOf(MembersOf(o)) = rows[Max(C)].counter
    BY <2>3, Zenon DEF LastOf
  <2> QED  BY <2>5, <2>6
<1>11. o \in V
  <2>1. /\ o \in DOMAIN Rollup
        /\ Rollup[o].time = (rows[o].time \div Bucket) * Bucket
        /\ Rollup[o].box = box /\ Rollup[o].counter # Null
    BY <1>7, <1>9, <1>10, ViewRow
  <2>2. from <= Rollup[o].time /\ ViewKeeps(Rollup[o].time)
    BY <1>5, <1>9, <2>1
  <2>3. o \in DOMAIN View /\ View[o] = Rollup[o]
    BY <2>1, <2>2, ViewKept
  <2> QED  BY <2>1, <2>2, <2>3 DEF Counted
<1>12. Taken(o) \in T /\ last <= Taken(o)
  BY <1>8, <1>11, TakenCounted
<1>13. Taken(o) = last
  <2>1. Taken(o) <= last
    BY <1>3, <1>12
  <2>2. Taken(o) \in Nat
    <3>1. Readable(rows, T)
      BY CountedReadable
    <3> HIDE DEF T
    <3> QED  BY <1>12, <3>1 DEF Readable
  <2> QED  BY <1>3, <1>12, <2>1, <2>2
<1> QED  BY <1>11, <1>13 DEF last, o

\* The view never shows a greater increase, and of what only rose all but what
\* it rose up to its first value.
LEMMA IncreaseOfView ==
    ASSUME RowsInv, NEW box, NEW from \in Nat
    PROVE  IncreaseAgrees(View, Counted(View, box, from, TRUE), Counted(rows, box, from, TRUE))
<1> DEFINE V == Counted(View, box, from, TRUE)
           T == Counted(rows, box, from, TRUE)
           m == [k \in V |-> Taken(k)]
<1>1. Thins(View, V, rows, T, m)
  BY ViewThins
<1>2. counter_delta(View, V) <= counter_delta(rows, T)
  <2> HIDE DEF V, T, m
  <2> QED  BY <1>1, Thinned
<1>3. /\ Readable(View, V) /\ Readable(rows, T) /\ m \in [V -> T]
      /\ \A k \in V : View[k].counter = rows[m[k]].counter
      /\ \A k, l \in V : k < l => m[k] < m[l]
  <2> HIDE DEF V, T, m
  <2> QED  BY <1>1, Zenon DEF Thins
<1>4. ASSUME last_skips_null, V # {}, Rises(rows, T)
      PROVE  counter_delta(View, V) = rows[Max(T)].counter - View[Min(V)].counter
  <2> DEFINE last == Max(T)
             o == Opener(last)
             z == Max(V)
  <2>1. o \in V /\ Taken(o) = last
    BY <1>4, LastIsTaken
  <2>2. m[o] = last
    BY <2>1
  <2>3. T # {}
    BY <1>3, <2>1
  <2> HIDE DEF V, T, m
  <2>4. /\ z \in V /\ z \in Nat /\ \A y \in V : y <= z
        /\ last \in T /\ last \in Nat /\ \A y \in T : y <= last
    BY <1>3, <1>4, <2>3, ReadableExtremes
  <2>5. m[z] \in T /\ m[z] \in Nat
    BY <1>3, <2>4 DEF Readable
  <2>6. m[z] = last
    <3> HIDE DEF z, o, last
    <3>1. CASE o = z
      BY <2>2, <3>1
    <3>2. CASE o # z
      <4>1. o < z
        BY <1>3, <2>1, <2>4, <3>2 DEF Readable
      <4>2. last < m[z]
        BY <1>3, <2>1, <2>2, <2>4, <4>1
      <4>3. m[z] <= last
        BY <2>4, <2>5
      <4> QED  BY <2>4, <2>5, <4>2, <4>3
    <3> QED  BY <3>1, <3>2
  <2>7. Rises(View, V)
    <3> SUFFICES ASSUME NEW k \in V, NEW l \in V, k < l
                 PROVE  View[k].counter <= View[l].counter
      BY DEF Rises
    <3>1. m[k] \in T /\ m[l] \in T /\ m[k] < m[l]
      BY <1>3
    <3>2. rows[m[k]].counter <= rows[m[l]].counter
      BY <1>4, <3>1 DEF Rises
    <3> QED  BY <1>3, <3>2
  <2>8. counter_delta(View, V) = View[z].counter - View[Min(V)].counter
    BY <1>3, <1>4, <2>7, RisesOnly
  <2>9. View[z].counter = rows[last].counter
    BY <1>3, <2>4, <2>6
  <2> QED  BY <2>8, <2>9
<1> HIDE DEF V, T
<1>5. IncreaseAgrees(View, V, T)
  BY <1>2, <1>4, Zenon DEF IncreaseAgrees
<1> QED  BY <1>5 DEF V, T

\* The table shows the increase.
LEMMA IncreaseOfTable ==
    ASSUME RowsInv, NEW box, NEW from \in Nat, ~ReadsRollup(from)
    PROVE  IncreaseAgrees(Raw, Counted(Raw, box, from, TRUE), Counted(rows, box, from, TRUE))
<1> DEFINE S == Counted(Raw, box, from, TRUE)
           T == Counted(rows, box, from, TRUE)
<1>1. \A i \in T : i \in DOMAIN Raw
  <2> SUFFICES ASSUME NEW i \in T  PROVE i \in DOMAIN Raw
    OBVIOUS
  <2>1. i \in DOMAIN rows /\ from <= rows[i].time
    BY DEF Counted
  <2> QED  BY <2>1, StillThere, TableRow
<1>2. \A i \in DOMAIN Raw : i \in DOMAIN rows /\ Raw[i] = rows[i]
  BY TableRow
<1>3. S = T
  <2>1. S \subseteq T
    BY <1>2 DEF Counted
  <2>2. T \subseteq S
    BY <1>1, <1>2 DEF Counted
  <2> QED  BY <2>1, <2>2
<1>4. \A i \in T : Raw[i] = rows[i]
  BY <1>1, <1>2
<1>5. Readable(rows, T)
  BY CountedReadable
<1> HIDE DEF S, T
<1>6. ASSUME NEW i \in T  PROVE Delta(Raw, T, i) = Delta(rows, T, i)
  <2> DEFINE earlier == {j \in T : j < i}
  <2>1. earlier \in SUBSET T
    OBVIOUS
  <2>2. earlier # {} => Max(earlier) \in T
    <3>1. Readable(rows, earlier)
      BY <1>5, <2>1, SubsetReadable
    <3> HIDE DEF earlier
    <3> QED  BY <2>1, <3>1, ReadableExtremes
  <2>3. Raw[i] = rows[i] /\ (earlier # {} => Raw[Max(earlier)] = rows[Max(earlier)])
    BY <1>4, <2>2
  <2> QED  BY <2>3 DEF Delta
<1>7. counter_delta(Raw, T) = counter_delta(rows, T)
  <2>1. [i \in T |-> Delta(Raw, T, i)] = [i \in T |-> Delta(rows, T, i)]
    BY <1>6
  <2> QED  BY <2>1, Zenon DEF counter_delta
<1>8. counter_delta(rows, T) \in Nat
  BY <1>5, RiseBetween
<1>9. ASSUME T # {}, Rises(rows, T)
      PROVE  counter_delta(Raw, T) = rows[Max(T)].counter - Raw[Min(T)].counter
  <2>1. Min(T) \in T
    BY <1>5, <1>9, ReadableExtremes
  <2>2. Raw[Min(T)] = rows[Min(T)]
    BY <1>4, <2>1
  <2>3. counter_delta(rows, T) = rows[Max(T)].counter - rows[Min(T)].counter
    BY <1>5, <1>9, RisesOnly
  <2> QED  BY <1>7, <2>2, <2>3
<1>10. counter_delta(Raw, T) <= counter_delta(rows, T)
  BY <1>7, <1>8
<1>11. IncreaseAgrees(Raw, T, T)
  BY <1>9, <1>10, Zenon DEF IncreaseAgrees
<1> QED  BY <1>3, <1>11 DEF S, T

\* A sum is at most another of greater terms, if what it has beside them is 0.
LEMMA SumAtMost ==
    ASSUME NEW S, IsFiniteSet(S), NEW T \in SUBSET S, NEW f, NEW g,
           \A i \in T : f[i] \in Int /\ g[i] \in Int /\ f[i] <= g[i],
           \A i \in S \ T : f[i] = 0
    PROVE  SumFunctionOnSet(f, S) <= SumFunctionOnSet(g, T)
<1> DEFINE F(s) == SumFunctionOnSet(f, s)
           G(s) == SumFunctionOnSet(g, s \cap T)
           P == {s \in SUBSET S : F(s) <= G(s)}
<1>1. ASSUME NEW s \in SUBSET S, \A t \in SUBSET s : t # s => t \in P
      PROVE  F(s) <= G(s)
  <2>1. /\ IsFiniteSet(s) /\ IsFiniteSet(s \cap T)
        /\ \A i \in s : f[i] \in Int
        /\ \A i \in s \cap T : g[i] \in Int
    BY FS_Subset
  <2>2. CASE s = {}
    <3>1. s \cap T = {}
      BY <2>2
    <3>2. F(s) = 0 /\ G(s) = 0
      BY <2>2, <3>1, SumEmpty
    <3> HIDE DEF F, G
    <3> QED  BY <3>2
  <2>3. CASE s # {}
    <3>1. PICK x : x \in s
      BY <2>3
    <3> DEFINE t == s \ {x}
    <3>2. t \in SUBSET s /\ t # s
      BY <3>1
    <3>3. t \in P
      <4> HIDE DEF P, t
      <4> QED  BY <1>1, <3>2
    <3>4. F(t) <= G(t)
      BY <3>3
    <3>5. F(s) = f[x] + F(t)
      BY <2>1, <3>1, SumRemoved
    <3>6. F(t) \in Int /\ G(t) \in Int
      <4>1. /\ IsFiniteSet(t) /\ IsFiniteSet(t \cap T)
            /\ \A i \in t : f[i] \in Int
            /\ \A i \in t \cap T : g[i] \in Int
        BY <2>1, FS_Subset
      <4> HIDE DEF t
      <4> QED  BY <4>1, SumRemoved
    <3>7. CASE x \in T
      <4>1. x \in s \cap T /\ (s \cap T) \ {x} = t \cap T
        BY <3>1, <3>7
      <4> DEFINE U == s \cap T
      <4>2. SumFunctionOnSet(g, U) = g[x] + SumFunctionOnSet(g, U \ {x})
        <5>1. IsFiniteSet(U) /\ (\A i \in U : g[i] \in Int) /\ x \in U
          BY <2>1, <4>1
        <5> HIDE DEF U
        <5> QED  BY <5>1, SumRemoved
      <4>3. G(s) = g[x] + G(t)
        BY <4>1, <4>2
      <4>4. f[x] \in Int /\ g[x] \in Int /\ f[x] <= g[x]
        BY <3>7
      <4> HIDE DEF F, G, t
      <4> QED  BY <3>4, <3>5, <3>6, <4>3, <4>4
    <3>8. CASE x \notin T
      <4>1. s \cap T = t \cap T
        BY <3>1, <3>8
      <4>2. G(s) = G(t)
        BY <4>1
      <4>3. f[x] = 0
        BY <3>1, <3>8
      <4> HIDE DEF F, G, t
      <4> QED  BY <3>4, <3>5, <3>6, <4>2, <4>3
    <3> QED  BY <3>7, <3>8
  <2> QED  BY <2>2, <2>3
<1>2. \A s \in SUBSET S : (\A t \in SUBSET s : t # s => t \in P) => s \in P
  <2> HIDE DEF F, G
  <2> QED  BY <1>1
<1>3. S \in P
  <2> HIDE DEF P
  <2> QED  BY <1>2, SetInduction
<1>4. S \cap T = T
  OBVIOUS
<1> QED  BY <1>3, <1>4

\* Rows in which there may be a counter.
Listed(source, R) ==
    /\ R \subseteq Nat /\ IsFiniteSet(R)
    /\ \A i \in R : source[i].counter \in Int \cup {Null}

\* Those in which there is one.
Valued(source, R) == {i \in R : source[i].counter # Null}

\* They can be read.
LEMMA ValuedReadable ==
    ASSUME NEW source, NEW R, Listed(source, R)
    PROVE  Readable(source, Valued(source, R)) /\ Valued(source, R) \in SUBSET R
<1>1. Valued(source, R) \in SUBSET R
  BY DEF Valued
<1>2. \A i \in Valued(source, R) : source[i].counter \in Int
  BY DEF Valued, Listed
<1> QED  BY <1>1, <1>2, FS_Subset DEF Listed, Readable

\* The largest element is one whatever smaller ones are left out.
LEMMA MaxOfPart ==
    ASSUME NEW S \in SUBSET Nat, IsFiniteSet(S), NEW T \in SUBSET S,
           Max(S) \in T
    PROVE  Max(T) = Max(S)
<1>1. S \in SUBSET Int /\ T \in SUBSET Int /\ IsFiniteSet(T) /\ T # {} /\ S # {}
  <2>1. IsFiniteSet(T)
    BY FS_Subset
  <2>2. \A i \in S : i \in Int
    OBVIOUS
  <2> QED  BY <2>1, <2>2
<1>2. Max(S) \in S /\ \A y \in S : y <= Max(S)
  BY <1>1, Extremes
<1>3. Max(T) \in T /\ \A y \in T : y <= Max(T)
  BY <1>1, Extremes
<1>4. Max(T) <= Max(S) /\ Max(S) <= Max(T) /\ Max(S) \in Nat /\ Max(T) \in Nat
  BY <1>2, <1>3
<1> QED  BY <1>4

\* A row without a value only takes from the increase: it hides what the next
\* one has more than the one before.
LEMMA NullsOnlyLose ==
    ASSUME NEW source, NEW R, Listed(source, R)
    PROVE  counter_delta(source, R) <= counter_delta(source, Valued(source, R))
<1> DEFINE C == Valued(source, R)
           f == [i \in R |-> Delta(source, R, i)]
           g == [i \in C |-> Delta(source, C, i)]
<1>1. Readable(source, C) /\ C \in SUBSET R
  BY ValuedReadable
<1>2. R \subseteq Nat /\ IsFiniteSet(R)
  BY DEF Listed
<1>3. \A i \in R : i \in C <=> source[i].counter # Null
  BY DEF Valued
<1> HIDE DEF C
<1>4. ASSUME NEW i \in R \ C  PROVE f[i] = 0
  <2>1. source[i].counter = Null
    BY <1>3
  <2>2. Delta(source, R, i) = 0
    BY <2>1 DEF Delta
  <2> QED  BY <2>2
<1>5. ASSUME NEW i \in C
      PROVE  f[i] \in Int /\ g[i] \in Int /\ f[i] <= g[i]
  <2> DEFINE before == {j \in R : j < i}
             earlier == {j \in C : j < i}
  <2>1. f[i] = Delta(source, R, i) /\ g[i] = Delta(source, C, i)
    BY <1>1
  <2>2. Delta(source, C, i) \in Nat
    BY <1>1, DeltaTyped
  <2>3. /\ before \in SUBSET R /\ before \in SUBSET Nat
        /\ IsFiniteSet(before) /\ earlier \in SUBSET before
    BY <1>1, <1>2, FS_Subset
  <2>4. Delta(source, R, i) =
            IF before = {} \/ source[i].counter = Null THEN 0
            ELSE IF source[Max(before)].counter = Null THEN 0
            ELSE Rise(source[Max(before)].counter, source[i].counter)
    BY Zenon DEF Delta, Rise
  <2>5. Delta(source, C, i) =
            IF earlier = {} THEN 0
            ELSE Rise(source[Max(earlier)].counter, source[i].counter)
    BY <1>1, DeltaReadable
  <2>6. CASE before = {} \/ source[Max(before)].counter = Null
    <3>1. Delta(source, R, i) = 0
      <4> HIDE DEF before
      <4> QED  BY <2>4, <2>6
    <3> HIDE DEF f, g
    <3> QED  BY <2>1, <2>2, <3>1
  <2>7. CASE before # {} /\ source[Max(before)].counter # Null
    <3>1. Max(before) \in before
      <4>1. before \in SUBSET Int
        BY <2>3
      <4> HIDE DEF before
      <4> QED  BY <2>3, <2>7, <4>1, Extremes
    <3>2. Max(before) \in R /\ Max(before) < i
      <4> DEFINE b == Max(before)
      <4>1. b \in before
        BY <3>1
      <4> HIDE DEF b
      <4>2. b \in R /\ b < i
        BY <4>1
      <4> QED  BY <4>2 DEF b
    <3>3. Max(before) \in C
      <4> HIDE DEF before
      <4> QED  BY <1>3, <2>7, <3>2
    <3>4. Max(before) \in earlier
      <4> DEFINE b == Max(before)
      <4>1. b \in C /\ b < i
        BY <3>2, <3>3
      <4> HIDE DEF b
      <4>2. b \in earlier
        BY <4>1
      <4> QED  BY <4>2 DEF b
    <3> HIDE DEF before, earlier, f, g
    <3>5. Max(earlier) = Max(before) /\ earlier # {}
      BY <2>3, <3>4, MaxOfPart
    <3>6. source[i].counter # Null
      BY <1>1, <1>3
    <3>7. Delta(source, R, i) = Delta(source, C, i)
      BY <2>4, <2>5, <2>7, <3>5, <3>6
    <3> QED  BY <2>1, <2>2, <3>7
  <2> QED  BY <2>6, <2>7
<1>6. SumFunctionOnSet(f, R) <= SumFunctionOnSet(g, C)
  <2> HIDE DEF f, g
  <2> QED  BY <1>1, <1>2, <1>4, <1>5, SumAtMost
<1>7. counter_delta(source, R) = SumFunctionOnSet(f, R)
      /\ counter_delta(source, C) = SumFunctionOnSet(g, C)
  BY Zenon DEF counter_delta, SumFunction
<1> HIDE DEF f, g
<1> QED  BY <1>6, <1>7 DEF C

\* The increase of what is not negative.
LEMMA ListedDelta ==
    ASSUME NEW source, NEW R, Listed(source, R)
    PROVE  counter_delta(source, R) \in Int
<1> DEFINE f == [i \in R |-> Delta(source, R, i)]
<1>1. R \subseteq Nat /\ IsFiniteSet(R)
  BY DEF Listed
<1>2. ASSUME NEW i \in R  PROVE f[i] \in Int
  <2> DEFINE before == {j \in R : j < i}
  <2>1. before \in SUBSET R /\ before \in SUBSET Int /\ IsFiniteSet(before)
    <3>1. before \in SUBSET R
      OBVIOUS
    <3>2. IsFiniteSet(before)
      BY <1>1, <3>1, FS_Subset
    <3>3. \A j \in R : j \in Int
      BY <1>1
    <3> QED  BY <3>1, <3>2, <3>3
  <2>2. before # {} => Max(before) \in R
    <3> HIDE DEF before
    <3> QED  BY <2>1, Extremes
  <2>3. Delta(source, R, i) =
            IF before = {} \/ source[i].counter = Null THEN 0
            ELSE IF source[Max(before)].counter = Null THEN 0
            ELSE Rise(source[Max(before)].counter, source[i].counter)
    BY Zenon DEF Delta, Rise
  <2>4. /\ source[i].counter \in Int \cup {Null}
        /\ before # {} => source[Max(before)].counter \in Int \cup {Null}
    <3> HIDE DEF before
    <3> QED  BY <2>2 DEF Listed
  <2> HIDE DEF before
  <2>5. Delta(source, R, i) \in Int
    BY <2>3, <2>4 DEF Rise
  <2> QED  BY <2>5
<1>3. SumFunctionOnSet(f, R) \in Int
  <2> HIDE DEF f
  <2> QED  BY <1>1, <1>2, SumRemoved
<1>4. counter_delta(source, R) = SumFunctionOnSet(f, R)
  BY Zenon DEF counter_delta, SumFunction
<1> QED  BY <1>3, <1>4

\* What agrees for a counter alone agrees for one of several.
LEMMA IncreaseOfSeveral ==
    ASSUME RowsInv, NEW source, NEW box, NEW from \in Nat, NEW alone \in BOOLEAN,
           Listed(source, Counted(source, box, from, alone)),
           IncreaseAgrees(source, Counted(source, box, from, TRUE),
                          Counted(rows, box, from, TRUE))
    PROVE  IncreaseAgrees(source, Counted(source, box, from, alone),
                          Counted(rows, box, from, TRUE))
<1> DEFINE R == Counted(source, box, from, alone)
           C == Counted(source, box, from, TRUE)
           T == Counted(rows, box, from, TRUE)
<1>1. C = Valued(source, R)
  <2>1. ASSUME NEW i  PROVE i \in C <=> i \in Valued(source, R)
    BY DEF Counted, Valued
  <2> QED  BY <2>1
<1>2. Readable(rows, T)
  BY CountedReadable
<1> HIDE DEF R, C, T
<1>3. /\ counter_delta(source, R) <= counter_delta(source, C)
      /\ counter_delta(source, C) <= counter_delta(rows, T)
      /\ counter_delta(source, R) \in Int /\ counter_delta(source, C) \in Int
      /\ counter_delta(rows, T) \in Int
  <2>1. Listed(source, R)
    BY DEF R
  <2>2. counter_delta(source, R) <= counter_delta(source, C)
    BY <1>1, <2>1, NullsOnlyLose
  <2>3. counter_delta(source, C) <= counter_delta(rows, T)
    BY DEF IncreaseAgrees, C, T
  <2>4. counter_delta(source, C) \in Int
    BY <1>1, <2>1, ValuedReadable, RiseBetween
  <2> QED  BY <1>2, <2>1, <2>2, <2>3, <2>4, ListedDelta, RiseBetween
<1>4. counter_delta(source, R) <= counter_delta(rows, T)
  BY <1>3
<1>5. ASSUME last_skips_null, R # {}, HaveCounter(source, R), Rises(rows, T)
      PROVE  counter_delta(source, R) = rows[Max(T)].counter - source[Min(R)].counter
  <2>1. C = R
    BY <1>1, <1>5 DEF HaveCounter, Valued
  <2> QED  BY <1>5, <2>1 DEF IncreaseAgrees, C, T
<1>6. IncreaseAgrees(source, R, T)
  BY <1>4, <1>5, Zenon DEF IncreaseAgrees
<1> QED  BY <1>6 DEF R, T

\* The counters of both sources.
LEMMA SourcesListed ==
    ASSUME RowsInv, NEW box, NEW from \in Nat, NEW alone \in BOOLEAN
    PROVE  /\ Listed(Raw, Counted(Raw, box, from, alone))
           /\ Listed(View, Counted(View, box, from, alone))
<1>1. Counted(Raw, box, from, alone) \in SUBSET DOMAIN Raw
      /\ Counted(View, box, from, alone) \in SUBSET DOMAIN View
  BY DEF Counted
<1>2. \A i \in DOMAIN Raw : /\ i \in DOMAIN rows
                            /\ Raw[i].counter \in Int \cup {Null}
  BY TableRow, Numbered
<1>3. ASSUME NEW k \in DOMAIN View
      PROVE  k \in DOMAIN rows /\ View[k].counter \in Int \cup {Null}
  <2>1. k \in DOMAIN Rollup /\ View[k] = Rollup[k]
    BY ViewKept
  <2>2. k \in DOMAIN rows /\ Rollup[k].counter = LastOf(MembersOf(k))
    BY <2>1, ViewRow
  <2> DEFINE C == Candidates(MembersOf(k))
  <2>3. C \subseteq DOMAIN rows
    BY DEF Candidates, MembersOf, Members
  <2>4. C \in SUBSET Int /\ IsFiniteSet(C)
    BY <2>3, Numbered, FS_Subset
  <2>5. LastOf(MembersOf(k)) = IF C = {} THEN Null ELSE rows[Max(C)].counter
    BY Zenon DEF LastOf
  <2> HIDE DEF C
  <2>6. C # {} => rows[Max(C)].counter \in Int \cup {Null}
    <3>1. C # {} => Max(C) \in DOMAIN rows
      BY <2>3, <2>4, Extremes
    <3> QED  BY <3>1, Numbered
  <2>7. LastOf(MembersOf(k)) \in Int \cup {Null}
    BY <2>5, <2>6
  <2> QED  BY <2>1, <2>2, <2>7
<1>4. \A S : S \in SUBSET DOMAIN rows => S \subseteq Nat /\ IsFiniteSet(S)
  BY Numbered, FS_Subset
<1>5. ASSUME NEW i \in Counted(Raw, box, from, alone)
      PROVE  i \in DOMAIN rows /\ Raw[i].counter \in Int \cup {Null}
  BY <1>1, <1>2
<1>6. ASSUME NEW i \in Counted(View, box, from, alone)
      PROVE  i \in DOMAIN rows /\ View[i].counter \in Int \cup {Null}
  BY <1>1, <1>3
<1> QED  BY <1>4, <1>5, <1>6 DEF Listed

\* No panel shows a counter rise by more than it did, and of one that only rose
\* nothing is lost after the first value shown, where last() skips NULL and
\* every row that is read has the counter (counter_delta_24h,
\* counter_delta_series and the last() of questdb_rollup_ddl).
THEOREM SameIncreaseCorrect == RollupSpec => []SameIncrease
<1>1. RowsInv => SameIncrease
  <2> SUFFICES ASSUME RowsInv, NEW from \in 0 .. now, NEW box, NEW alone \in BOOLEAN
               PROVE  LET source == Source(from, View, Raw)
                      IN  IncreaseAgrees(source, Counted(source, box, from, alone),
                                         Counted(rows, box, from, TRUE))
    BY Zenon DEF SameIncrease, IncreasesAgree
  <2>1. from \in Nat
    BY DEF RowsInv
  <2>2. CASE ReadsRollup(from)
    <3>1. Source(from, View, Raw) = View
      BY <2>2 DEF Source
    <3> QED  BY <2>1, <3>1, IncreaseOfView, IncreaseOfSeveral, SourcesListed
  <2>3. CASE ~ReadsRollup(from)
    <3>1. Source(from, View, Raw) = Raw
      BY <2>3 DEF Source
    <3> QED  BY <2>1, <2>3, <3>1, IncreaseOfTable, IncreaseOfSeveral, SourcesListed
  <2> QED  BY <2>2, <2>3
<1> QED  BY <1>1, RowsInvHolds, PTL
=============================================================================
