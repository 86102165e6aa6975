----------------------------- MODULE LoopProofs -----------------------------
(***************************************************************************)
(* Proofs about three loops over sequences of any length: the query of a   *)
(* service that remembers what it has reported (MeasurementTracking, for   *)
(* any number of metrics, lines and remembered keys), the bundling of a    *)
(* batch into lines (LineBundling, for any measurements), and the reading  *)
(* of a response (ValueExtraction, for any elements).                      *)
(***************************************************************************)
EXTENDS MeasurementTracking, LineBundling, ValueExtraction, FiniteSetTheorems,
        SequenceTheorems, WellFoundedInduction, TLAPS
-----------------------------------------------------------------------------
(* Recursion over the naturals, without an operator as a parameter.        *)

\* A set that has 0 and with every number the next one has all of them.
LEMMA Induction ==
    ASSUME NEW S, 0 \in S, \A n \in Nat : n \in S => n + 1 \in S
    PROVE  Nat \subseteq S
<1> SUFFICES ASSUME Nat \ S # {}  PROVE FALSE
  OBVIOUS
<1> DEFINE R == {p \in Nat \X Nat : p[1] < p[2]}
<1>1. IsWellFoundedOn(R, Nat)
  BY NatLessThanWellFounded DEF OpToRel
<1>2. PICK x \in Nat \ S : \A y \in Nat \ S : <<y, x>> \notin R
  <2> HIDE DEF R
  <2> QED  BY <1>1, WFMin
<1>3. x - 1 \in Nat \ S
  <2>1. x - 1 \in Nat
    OBVIOUS
  <2>2. x = (x - 1) + 1
    OBVIOUS
  <2> QED  BY <2>1, <2>2
<1>4. <<x - 1, x>> \in R
  BY <1>3
<1> QED  BY <1>2, <1>3, <1>4

\* What holds at the start and is handed on holds to the end.
LEMMA HandedOn ==
    ASSUME NEW n \in Nat, NEW D, NEW f, f[0] \in D,
           \A i \in 1 .. n : f[i - 1] \in D => f[i] \in D
    PROVE  \A i \in 0 .. n : f[i] \in D
<1> DEFINE S == {i \in Nat : i <= n => f[i] \in D}
<1>1. \A i \in Nat : i \in S => i + 1 \in S
  <2> SUFFICES ASSUME NEW i \in S, i + 1 <= n  PROVE f[i + 1] \in D
    OBVIOUS
  <2>1. i + 1 \in 1 .. n /\ (i + 1) - 1 = i /\ f[i] \in D
    OBVIOUS
  <2> QED  BY <2>1
<1>2. 0 \in S
  OBVIOUS
<1>3. Nat \subseteq S
  <2> HIDE DEF S
  <2> QED  BY <1>1, <1>2, Induction
<1> QED  BY <1>3

\* f begins with base and goes on by next.
Recursive(f, n, D, base, next) ==
    /\ f \in [0 .. n -> D]
    /\ f[0] = base
    /\ \A i \in 1 .. n : f[i] = next[<<f[i - 1], i>>]

\* There is such a function.
LEMMA Recursion ==
    ASSUME NEW n \in Nat, NEW D, NEW base \in D,
           NEW next \in [D \X (1 .. n) -> D]
    PROVE  \E f : Recursive(f, n, D, base, next)
<1> DEFINE Upto(k) == \E f \in [0 .. k -> D] :
               f[0] = base /\ \A i \in 1 .. k : f[i] = next[<<f[i - 1], i>>]
           S == {k \in Nat : k <= n => Upto(k)}
<1>1. 0 \in S
  <2> DEFINE g == [i \in 0 .. 0 |-> base]
  <2>1. g \in [0 .. 0 -> D] /\ g[0] = base /\ 1 .. 0 = {}
    OBVIOUS
  <2> HIDE DEF g
  <2>2. Upto(0)
    BY <2>1
  <2> HIDE DEF Upto
  <2> QED  BY <2>2
<1>2. \A k \in Nat : k \in S => k + 1 \in S
  <2> SUFFICES ASSUME NEW k \in Nat, k + 1 <= n, Upto(k)  PROVE Upto(k + 1)
    OBVIOUS
  <2>1. PICK f \in [0 .. k -> D] :
               f[0] = base /\ \A i \in 1 .. k : f[i] = next[<<f[i - 1], i>>]
    OBVIOUS
  <2> DEFINE g == [i \in 0 .. k + 1 |-> IF i = k + 1 THEN next[<<f[k], k + 1>>]
                                        ELSE f[i]]
  <2>2. next[<<f[k], k + 1>>] \in D
    OBVIOUS
  <2>3. g \in [0 .. k + 1 -> D]
    BY <2>2
  <2>4. g[0] = base
    BY <2>1
  <2>5. \A i \in 1 .. k + 1 : g[i] = next[<<g[i - 1], i>>]
    <3> SUFFICES ASSUME NEW i \in 1 .. k + 1
                 PROVE  g[i] = next[<<g[i - 1], i>>]
      OBVIOUS
    <3>1. i - 1 \in 0 .. k /\ g[i - 1] = f[i - 1]
      OBVIOUS
    <3>2. CASE i = k + 1
      <4>1. g[i] = next[<<f[k], k + 1>>] /\ i - 1 = k
        BY <3>2
      <4> QED  BY <3>1, <3>2, <4>1
    <3>3. CASE i \in 1 .. k
      <4>1. g[i] = f[i]
        BY <3>3
      <4> QED  BY <2>1, <3>1, <3>3, <4>1
    <3> QED  BY <3>2, <3>3
  <2> HIDE DEF g
  <2> QED  BY <2>3, <2>4, <2>5
<1>3. Nat \subseteq S
  <2> HIDE DEF S
  <2> QED  BY <1>1, <1>2, Induction
<1>4. Upto(n)
  <2> HIDE DEF Upto
  <2> QED  BY <1>3
<1> QED  BY <1>4 DEF Recursive

\* What is put together from sequences over K is a sequence over K.
LEMMA Flattened ==
    ASSUME NEW K, NEW n \in Nat \ {0}, NEW seqs \in [1 .. n -> Seq(K)]
    PROVE  FlattenSeq(seqs) \in Seq(K)
<1> DEFINE next == [p \in Seq(K) \X (1 .. n) |->
                       IF p[2] = 1 THEN seqs[1] ELSE p[1] \o seqs[p[2]]]
<1>1. next \in [Seq(K) \X (1 .. n) -> Seq(K)]
  OBVIOUS
<1>2. PICK g \in [0 .. n -> Seq(K)] :
          \A i \in 1 .. n : g[i] = next[<<g[i - 1], i>>]
  <2>1. <<>> \in Seq(K) /\ n \in Nat
    OBVIOUS
  <2> HIDE DEF next
  <2>2. \E f : Recursive(f, n, Seq(K), <<>>, next)
    BY <1>1, <2>1, Recursion, Zenon
  <2> QED  BY <2>2 DEF Recursive
<1> DEFINE h == [i \in 1 .. n |-> g[i]]
           Flat(f) == f = [i \in 1 .. n |-> IF i = 1 THEN seqs[i]
                                            ELSE f[i - 1] \o seqs[i]]
           flatten == CHOOSE f : Flat(f)
<1>3. Flat(h)
  <2>1. ASSUME NEW i \in 1 .. n
        PROVE  h[i] = IF i = 1 THEN seqs[i] ELSE h[i - 1] \o seqs[i]
    <3>1. i - 1 \in 0 .. n /\ g[i - 1] \in Seq(K)
      OBVIOUS
    <3>2. g[i] = next[<<g[i - 1], i>>]
      <4> HIDE DEF next
      <4> QED  BY <1>2
    <3>3. i # 1 => h[i - 1] = g[i - 1]
      OBVIOUS
    <3> QED  BY <3>1, <3>2, <3>3
  <2> QED  BY <2>1
<1>4. Flat(flatten)
  <2> HIDE DEF Flat
  <2> QED  BY <1>3
<1>5. flatten[n] \in Seq(K)
  <2> DEFINE f == [i \in 0 .. n |-> IF i = 0 THEN <<>> ELSE flatten[i]]
  <2>1. \A i \in 1 .. n : flatten[i] = IF i = 1 THEN seqs[i]
                                       ELSE flatten[i - 1] \o seqs[i]
    <3> HIDE DEF flatten
    <3> QED  BY <1>4
  <2> HIDE DEF flatten
  <2>2. \A i \in 1 .. n : f[i - 1] \in Seq(K) => f[i] \in Seq(K)
    <3> SUFFICES ASSUME NEW i \in 1 .. n, f[i - 1] \in Seq(K)
                 PROVE  f[i] \in Seq(K)
      OBVIOUS
    <3>1. f[i] = flatten[i] /\ seqs[i] \in Seq(K)
      OBVIOUS
    <3>2. i # 1 => f[i - 1] = flatten[i - 1]
      OBVIOUS
    <3> HIDE DEF f
    <3>3. CASE i = 1
      BY <2>1, <3>1, <3>3
    <3>4. CASE i # 1
      <4>1. flatten[i] = f[i - 1] \o seqs[i]
        BY <2>1, <3>2, <3>4
      <4> QED  BY <3>1, <4>1
    <3> QED  BY <3>3, <3>4
  <2>3. f[0] \in Seq(K)
    OBVIOUS
  <2>4. \A i \in 0 .. n : f[i] \in Seq(K)
    <3> HIDE DEF f
    <3> QED  BY <2>2, <2>3, HandedOn
  <2> QED  BY <2>4
<1>6. Len(seqs) = n /\ Len(seqs) # 0
  OBVIOUS
<1> QED
  BY <1>5, <1>6 DEF FlattenSeq

-----------------------------------------------------------------------------
(* The memory of a service.                                                *)

\* A metric and a line.
Keys == (1 .. NumMetrics) \X (1 .. newest)

\* The keys a query may come across.
Current == (1 .. NumMetrics) \X {l \in 1 .. newest : l > newest - FeedSize}

\* No key is remembered twice.
Distinct(seq) == \A i, j \in 1 .. Len(seq) : seq[i] = seq[j] => i = j

\* The lines of what came in later are newer than the list is long.
InOrder(seq) ==
    \A i, j \in 1 .. Len(seq) : i < j => seq[j][2] > seq[i][2] - FeedSize

\* The memory at some point of a query that found old reported before: the
\* deque and the set agree, and what the box may still list is known.
Sound(old) ==
    {m \in [known : SUBSET Keys, order : Seq(Keys), results : Seq(Keys)] :
        /\ Len(m.order) <= max_tracked_measurements
        /\ Distinct(m.order) /\ InOrder(m.order)
        /\ m.known = {m.order[i] : i \in 1 .. Len(m.order)}
        /\ Distinct(m.results)
        /\ \A i \in 1 .. Len(m.results) : m.results[i] \notin old
        /\ (old \cup {m.results[i] : i \in 1 .. Len(m.results)}) \cap Current
               \subseteq m.known}

\* What is remembered is sound between two queries.
TrackingInv ==
    /\ newest \in Nat /\ cleared \in 0 .. newest
    /\ reported \subseteq Keys
    /\ Remembered \in Sound(reported)
    /\ repeated = {}

\* A deque that overflows has forgotten more than the box may list: what came
\* in after a key that is still listed is less than F lines older or younger.
LEMMA Overflow ==
    ASSUME newest \in Nat, NEW order \in Seq(Keys), Distinct(order),
           InOrder(order), TooMany(order)
    PROVE  order[1] \notin Current
<1> USE TrackingAssumption DEF TrackingAssumption
<1> SUFFICES ASSUME order[1] \in Current  PROVE FALSE
  OBVIOUS
<1> DEFINE line == order[1][2]
           near == line - FeedSize + 1 .. line + FeedSize - 1
           T == (1 .. NumMetrics) \X near
           S == 1 .. Len(order)
<1>1. /\ Len(order) \in Nat /\ Len(order) > max_tracked_measurements
      /\ order \in [S -> Keys] /\ 1 \in S
  BY DEF TooMany
<1>2. line \in Nat /\ line > newest - FeedSize
  BY DEF Current
<1>3. ASSUME NEW i \in S  PROVE order[i] \in T
  <2>1. order[i] \in Keys
    BY <1>1
  <2>2. order[i][1] \in 1 .. NumMetrics /\ order[i][2] \in 1 .. newest
        /\ order[i] = <<order[i][1], order[i][2]>>
    BY <2>1 DEF Keys
  <2>3. order[i][2] > line - FeedSize
    <3>1. CASE i = 1
      BY <1>2, <3>1
    <3>2. CASE i # 1
      BY <1>1, <3>2 DEF InOrder
    <3> QED  BY <3>1, <3>2
  <2>4. order[i][2] \in near
    BY <1>2, <2>2, <2>3
  <2> QED  BY <2>2, <2>4
<1>4. order \in [S -> T]
  BY <1>1, <1>3
<1>5. IsFiniteSet(S) /\ Cardinality(S) = Len(order)
  BY <1>1, FS_Interval
<1>6. IsFiniteSet(1 .. NumMetrics) /\ Cardinality(1 .. NumMetrics) = NumMetrics
  BY FS_Interval
<1>7. IsFiniteSet(near) /\ Cardinality(near) = 2 * FeedSize - 1
  <2> DEFINE first == line - FeedSize + 1
             last  == line + FeedSize - 1
  <2>1. line \in Nat /\ FeedSize \in Nat /\ FeedSize > 0
    BY <1>2
  <2> HIDE DEF line
  <2>3. /\ first \in Int /\ last \in Int /\ ~(first > last)
        /\ last - first + 1 = 2 * FeedSize - 1
    BY <2>1
  <2> HIDE DEF first, last
  <2>2. IsFiniteSet(first .. last) /\ Cardinality(first .. last) = last - first + 1
    BY <2>3, FS_Interval
  <2> QED  BY <2>2, <2>3 DEF first, last
<1>8. IsFiniteSet(T) /\ Cardinality(T) = NumMetrics * (2 * FeedSize - 1)
  <2> HIDE DEF near
  <2>1. IsFiniteSet(T) /\ Cardinality(T) = Cardinality(1 .. NumMetrics) * Cardinality(near)
    BY <1>6, <1>7, FS_Product
  <2> QED  BY <1>6, <1>7, <2>1
<1>9. Cardinality(T) < Cardinality(S)
  <2>1. NumMetrics * (2 * FeedSize - 1) \in Int
    OBVIOUS
  <2> HIDE DEF S, T
  <2> QED  BY <1>1, <1>5, <1>8, <2>1, MemorySuffices DEF MemorySuffices
<1>10. order \in Injection(S, T)
  BY <1>1, <1>4 DEF Distinct, Injection, IsInjective
<1>11. Cardinality(S) <= Cardinality(T)
  <2> HIDE DEF S, T
  <2> QED  BY <1>8, <1>10, FS_Injection
<1>12. Cardinality(S) \in Int /\ Cardinality(T) \in Int
  BY <1>1, <1>5, <1>8
<1> QED
  <2> HIDE DEF S, T
  <2> QED  BY <1>9, <1>11, <1>12

\* One more key.
LEMMA Extracted ==
    ASSUME newest \in Nat, NEW old \in SUBSET Keys, NEW m \in Sound(old),
           NEW key \in Current
    PROVE  extract_value(m, key) \in Sound(old)
<1> USE TrackingAssumption DEF TrackingAssumption
<1>1. CASE key \in m.known
  BY <1>1 DEF extract_value
<1>2. CASE key \notin m.known
  <2> DEFINE n == Len(m.order)
             order == Append(m.order, key)
             results == Append(m.results, key)
             after == extract_value(m, key)
  <2>1. /\ m \in [known : SUBSET Keys, order : Seq(Keys), results : Seq(Keys)]
        /\ n \in Nat /\ n <= max_tracked_measurements
        /\ Distinct(m.order) /\ InOrder(m.order)
        /\ m.known = {m.order[i] : i \in 1 .. n}
        /\ Distinct(m.results)
        /\ \A i \in 1 .. Len(m.results) : m.results[i] \notin old
        /\ (old \cup {m.results[i] : i \in 1 .. Len(m.results)}) \cap Current
               \subseteq m.known
    BY DEF Sound
  <2>2. key \in Keys /\ key[2] \in Nat /\ key[2] > newest - FeedSize
    BY DEF Keys, Current
  <2>3. /\ order \in Seq(Keys) /\ Len(order) = n + 1 /\ order[n + 1] = key
        /\ \A i \in 1 .. n : order[i] = m.order[i] /\ order[i] \in Keys
    BY <2>1, <2>2, AppendProperties, ElementOfSeq
  <2>4. Distinct(order)
    <3>1. \A i \in 1 .. n : order[i] # key
      BY <1>2, <2>1, <2>3
    <3> HIDE DEF order
    <3> SUFFICES ASSUME NEW i \in 1 .. n + 1, NEW j \in 1 .. n + 1,
                        order[i] = order[j]
                 PROVE  i = j
      BY <2>3 DEF Distinct
    <3>2. CASE i \in 1 .. n /\ j \in 1 .. n
      <4>1. m.order[i] = m.order[j]
        BY <2>3, <3>2
      <4> QED  BY <2>1, <3>2, <4>1 DEF Distinct
    <3>3. CASE i = n + 1 \/ j = n + 1
      BY <2>1, <2>3, <3>1, <3>3
    <3> QED  BY <2>1, <3>2, <3>3
  <2>5. InOrder(order)
    <3>1. \A i \in 1 .. n : order[i][2] \in 1 .. newest
      BY <2>3 DEF Keys
    <3> HIDE DEF order
    <3> SUFFICES ASSUME NEW i \in 1 .. n + 1, NEW j \in 1 .. n + 1, i < j
                 PROVE  order[j][2] > order[i][2] - FeedSize
      BY <2>3 DEF InOrder
    <3>2. i \in 1 .. n
      BY <2>1
    <3>3. CASE j \in 1 .. n
      <4>1. m.order[j][2] > m.order[i][2] - FeedSize
        BY <2>1, <3>2, <3>3 DEF InOrder
      <4> QED  BY <2>3, <3>2, <3>3, <4>1
    <3>4. CASE j = n + 1
      <4>1. order[j] = key /\ order[i][2] \in 1 .. newest
        BY <2>3, <3>1, <3>2, <3>4
      <4>2. order[j][2] > newest - FeedSize
        BY <2>2, <4>1
      <4> DEFINE x == order[j][2]
                 y == order[i][2]
      <4>3. x \in Int /\ y \in Int /\ y <= newest /\ x > newest - FeedSize
        BY <2>2, <4>1, <4>2
      <4> HIDE DEF x, y
      <4>4. x > y - FeedSize
        BY <4>3
      <4> QED  BY <4>4 DEF x, y
    <3>5. j \in 1 .. n \/ j = n + 1
      BY <2>1
    <3> QED  BY <3>3, <3>4, <3>5
  <2>6. m.known \cup {key} = {order[i] : i \in 1 .. n + 1}
    <3> HIDE DEF order
    <3>1. \A i : i \in 1 .. n + 1 <=> i \in 1 .. n \/ i = n + 1
      BY <2>1
    <3>2. m.known = {order[i] : i \in 1 .. n}
      BY <2>1, <2>3
    <3> QED  BY <2>3, <3>1, <3>2
  <2>7. /\ results \in Seq(Keys) /\ Distinct(results)
        /\ \A i \in 1 .. Len(results) : results[i] \notin old
        /\ {results[i] : i \in 1 .. Len(results)} =
               {m.results[i] : i \in 1 .. Len(m.results)} \cup {key}
    <3>1. /\ results \in Seq(Keys) /\ Len(results) = Len(m.results) + 1
          /\ results[Len(m.results) + 1] = key /\ Len(m.results) \in Nat
          /\ \A i \in 1 .. Len(m.results) : results[i] = m.results[i]
      BY <2>1, <2>2, AppendProperties
    <3>2. key \notin old /\ \A i \in 1 .. Len(m.results) : m.results[i] # key
      BY <1>2, <2>1
    <3> DEFINE k == Len(m.results)
    <3>3. \A i : i \in 1 .. k + 1 <=> i \in 1 .. k \/ i = k + 1
      BY <3>1
    <3> HIDE DEF results, k
    <3>4. Len(results) = k + 1 /\ results[k + 1] = key
      BY <3>1 DEF k
    <3>5. \A i \in 1 .. k : results[i] = m.results[i] /\ m.results[i] # key
      BY <3>1, <3>2 DEF k
    <3>6. ASSUME NEW i \in 1 .. k + 1, NEW j \in 1 .. k + 1,
                 results[i] = results[j]
          PROVE  i = j
      <4>1. CASE i \in 1 .. k /\ j \in 1 .. k
        <5>1. m.results[i] = m.results[j]
          BY <3>5, <3>6, <4>1
        <5> QED  BY <2>1, <4>1, <5>1 DEF Distinct, k
      <4>2. CASE i = k + 1 \/ j = k + 1
        BY <3>3, <3>4, <3>5, <3>6, <4>2
      <4> QED  BY <3>3, <4>1, <4>2
    <3>7. Distinct(results)
      BY <3>4, <3>6 DEF Distinct
    <3>8. \A i \in 1 .. k + 1 : results[i] \notin old
      BY <2>1, <3>2, <3>3, <3>4, <3>5 DEF k
    <3>9. {results[i] : i \in 1 .. k + 1} = {m.results[i] : i \in 1 .. k} \cup {key}
      BY <3>3, <3>4, <3>5
    <3> QED  BY <3>1, <3>4, <3>7, <3>8, <3>9 DEF k
  <2>8. CASE ~TooMany(order)
    <3>1. /\ after \in [known : SUBSET Keys, order : Seq(Keys), results : Seq(Keys)]
          /\ after.order = order /\ after.known = m.known \cup {key}
          /\ after.results = results
      BY <1>2, <2>1, <2>2, <2>3, <2>7, <2>8 DEF extract_value, add_tracked_measurement
    <3>2. Len(order) <= max_tracked_measurements
      BY <2>3, <2>8 DEF TooMany
    <3> HIDE DEF after, order, results
    <3>3. (old \cup {results[i] : i \in 1 .. Len(results)}) \cap Current
              \subseteq after.known
      BY <2>1, <2>7, <3>1
    <3>4. after.known = {after.order[i] : i \in 1 .. Len(after.order)}
      BY <2>3, <2>6, <3>1
    <3> QED  BY <2>4, <2>5, <2>7, <3>1, <3>2, <3>3, <3>4 DEF Sound, after
  <2>9. CASE TooMany(order)
    <3>1. /\ Tail(order) \in Seq(Keys) /\ Len(Tail(order)) = n
          /\ \A i \in 1 .. n : Tail(order)[i] = order[i + 1]
          /\ Head(order) = order[1]
      <4>1. order # <<>>
        BY <2>1, <2>3
      <4>2. /\ Tail(order) \in Seq(Keys) /\ Len(Tail(order)) = Len(order) - 1
            /\ \A i \in 1 .. Len(Tail(order)) : Tail(order)[i] = order[i + 1]
        BY <2>3, <4>1, HeadTailProperties
      <4> HIDE DEF order
      <4> QED  BY <2>1, <2>3, <4>2
    <3>2. /\ after \in [known : SUBSET Keys, order : Seq(Keys), results : Seq(Keys)]
          /\ after.order = Tail(order)
          /\ after.known = (m.known \cup {key}) \ {order[1]}
          /\ after.results = results
      <4> HIDE DEF order, results
      <4>1. after = [known |-> (m.known \cup {key}) \ {Head(order)},
                     order |-> Tail(order), results |-> results]
        BY <1>2, <2>1, <2>9 DEF extract_value, add_tracked_measurement, order,
                                results
      <4>2. (m.known \cup {key}) \ {order[1]} \in SUBSET Keys
        BY <2>1, <2>2
      <4> QED  BY <2>7, <3>1, <4>1, <4>2
    <3>3. order[1] \notin Current
      BY <2>3, <2>4, <2>5, <2>9, Overflow
    <3> DEFINE rest == Tail(order)
    <3> HIDE DEF after, order, results, rest
    <3>4. Distinct(rest) /\ InOrder(rest)
      <4>1. Len(rest) = n /\ \A i \in 1 .. n : rest[i] = order[i + 1]
        BY <3>1 DEF rest
      <4>2. Len(order) = n + 1 /\ n \in Nat
        BY <2>1, <2>3
      <4>3. \A i \in 1 .. n : i + 1 \in 1 .. n + 1
        BY <4>2
      <4>4. Distinct(rest)
        <5>1. ASSUME NEW i \in 1 .. n, NEW j \in 1 .. n, rest[i] = rest[j]
              PROVE  i = j
          <6>1. i + 1 = j + 1
            BY <2>4, <4>1, <4>2, <4>3, <5>1 DEF Distinct
          <6> QED  BY <6>1
        <5> QED  BY <4>1, <5>1 DEF Distinct
      <4>5. InOrder(rest)
        <5>1. ASSUME NEW i \in 1 .. n, NEW j \in 1 .. n, i < j
              PROVE  rest[j][2] > rest[i][2] - FeedSize
          <6>1. i + 1 < j + 1
            BY <5>1
          <6> QED  BY <2>5, <4>1, <4>2, <4>3, <6>1 DEF InOrder
        <5> QED  BY <4>1, <5>1 DEF InOrder
      <4> QED  BY <4>4, <4>5
    <3>5. (m.known \cup {key}) \ {order[1]} = {rest[i] : i \in 1 .. n}
      <4>1. \A i \in 1 .. n : rest[i] = order[i + 1]
        BY <3>1 DEF rest
      <4>2. \A i \in 1 .. n : rest[i] # order[1]
        BY <2>1, <2>3, <2>4, <4>1 DEF Distinct
      <4>3. \A i \in 1 .. n + 1 : i # 1 => i - 1 \in 1 .. n /\ (i - 1) + 1 = i
        BY <2>1
      <4>4. \A i \in 1 .. n + 1 : i # 1 => order[i] = rest[i - 1]
        BY <4>1, <4>3
      <4>5. \A i \in 1 .. n : i + 1 \in 1 .. n + 1
        BY <2>1
      <4>6. m.known \cup {key} = {order[i] : i \in 1 .. n + 1}
        BY <2>1, <2>6
      <4>7. {order[i] : i \in 1 .. n + 1} \ {order[1]} \subseteq
                {rest[i] : i \in 1 .. n}
        <5> HIDE DEF order, rest
        <5> QED  BY <4>3, <4>4
      <4>8. {rest[i] : i \in 1 .. n} \subseteq
                {order[i] : i \in 1 .. n + 1} \ {order[1]}
        <5> HIDE DEF order, rest
        <5> QED  BY <4>1, <4>2, <4>5
      <4> HIDE DEF order, rest
      <4> QED  BY <4>6, <4>7, <4>8
    <3>6. (old \cup {results[i] : i \in 1 .. Len(results)}) \cap Current
              \subseteq after.known
      BY <2>1, <2>7, <3>2, <3>3
    <3>7. after.known = {after.order[i] : i \in 1 .. Len(after.order)}
      <4>1. after.order = rest /\ Len(rest) = n
        BY <3>1, <3>2 DEF rest
      <4> QED  BY <3>2, <3>5, <4>1
    <3>8. Len(after.order) <= max_tracked_measurements
      BY <2>1, <3>1, <3>2
    <3> QED  BY <2>7, <3>2, <3>4, <3>6, <3>7, <3>8 DEF Sound, rest, after
  <2> QED  BY <2>8, <2>9
<1> QED  BY <1>1, <1>2

\* The keys of a query are among the current ones.
LEMMA KeysAreCurrent == TrackingInv => ListedKeys \in Seq(Current)
<1> USE TrackingAssumption DEF TrackingAssumption
<1> SUFFICES ASSUME TrackingInv  PROVE ListedKeys \in Seq(Current)
  OBVIOUS
<1>1. /\ Listed \in Seq(Nat) /\ Len(Listed) \in Nat
      /\ \A i \in 1 .. Len(Listed) :
             Listed[i] \in {l \in 1 .. newest : l > newest - FeedSize}
  <2> DEFINE size == IF newest - cleared < FeedSize THEN newest - cleared
                     ELSE FeedSize
  <2>1. /\ newest \in Nat /\ size \in Nat /\ size <= newest /\ size <= FeedSize
    BY DEF TrackingInv
  <2>2. Listed = [i \in 1 .. size |-> newest - i + 1]
    BY DEF Listed
  <2> HIDE DEF size
  <2>3. \A i \in 1 .. size : /\ newest - i + 1 \in 1 .. newest
                             /\ newest - i + 1 > newest - FeedSize
    BY <2>1
  <2>4. Listed \in Seq(Nat) /\ Len(Listed) = size
    BY <2>1, <2>2, <2>3
  <2> QED  BY <2>1, <2>2, <2>3, <2>4
<1> DEFINE ofMetric(m) == [i \in 1 .. Len(Listed) |-> <<m, Listed[i]>>]
           seqs == [m \in 1 .. NumMetrics |-> ofMetric(m)]
<1>2. ASSUME NEW m \in 1 .. NumMetrics  PROVE ofMetric(m) \in Seq(Current)
  <2>1. \A i \in 1 .. Len(Listed) : <<m, Listed[i]>> \in Current
    BY <1>1 DEF Current
  <2> QED  BY <1>1, <2>1, IsASeq
<1>3. seqs \in [1 .. NumMetrics -> Seq(Current)]
  <2> HIDE DEF ofMetric
  <2> QED  BY <1>2
<1>4. FlattenSeq(seqs) \in Seq(Current)
  <2> HIDE DEF seqs
  <2> QED  BY <1>3, Flattened
<1> QED  BY <1>4 DEF ListedKeys

\* A whole query.
LEMMA WalkIsSound ==
    ASSUME newest \in Nat, reported \subseteq Keys,
           Remembered \in Sound(reported), NEW keys \in Seq(Current)
    PROVE  Walked(keys) \in Sound(reported)
<1> DEFINE n == Len(keys)
           D == Sound(reported)
           next == [p \in D \X (1 .. n) |-> extract_value(p[1], keys[p[2]])]
           Walk(f) == f = [i \in 0 .. n |-> IF i = 0 THEN Remembered
                                   ELSE extract_value(f[i - 1], keys[i])]
           memory == CHOOSE f : Walk(f)
<1>1. n \in Nat /\ \A i \in 1 .. n : keys[i] \in Current
  OBVIOUS
<1>2. \A m \in D : \A i \in 1 .. n : extract_value(m, keys[i]) \in D
  <2> HIDE DEF n
  <2> QED  BY <1>1, Extracted
<1>3. next \in [D \X (1 .. n) -> D]
  <2> HIDE DEF n, D
  <2> QED  BY <1>2
<1>4. Remembered \in D
  OBVIOUS
<1>5. PICK g : Recursive(g, n, D, Remembered, next)
  <2> HIDE DEF n, D, next
  <2> QED  BY <1>1, <1>3, <1>4, Recursion, Zenon
<1>6. Walk(g)
  <2>1. g \in [0 .. n -> D] /\ g[0] = Remembered
    BY <1>5 DEF Recursive
  <2>2. ASSUME NEW i \in 1 .. n  PROVE g[i] = extract_value(g[i - 1], keys[i])
    <3>1. g[i] = next[<<g[i - 1], i>>] /\ i - 1 \in 0 .. n
      <4> HIDE DEF n, next
      <4> QED  BY <1>1, <1>5 DEF Recursive
    <3>2. <<g[i - 1], i>> \in D \X (1 .. n)
      BY <2>1, <3>1
    <3> HIDE DEF n, D
    <3> QED  BY <3>1, <3>2
  <2> HIDE DEF n, D
  <2> QED  BY <1>1, <2>1, <2>2
<1>7. Walk(memory)
  <2> HIDE DEF Walk
  <2> QED  BY <1>6
<1>8. memory[n] \in D
  <2> HIDE DEF n, D, memory
  <2>1. memory[0] = Remembered
    BY <1>1, <1>7
  <2>2. \A i \in 1 .. n : memory[i] = extract_value(memory[i - 1], keys[i])
    BY <1>1, <1>7
  <2>3. \A i \in 1 .. n : memory[i - 1] \in D => memory[i] \in D
    BY <1>2, <2>2
  <2>4. \A i \in 0 .. n : memory[i] \in D
    BY <1>1, <1>4, <2>1, <2>3, HandedOn
  <2> QED  BY <1>1, <2>4
<1>9. Walked(keys) = memory[n]
  BY DEF Walked
<1> QED  BY <1>8, <1>9

\* At the start nothing is remembered and nothing reported.
LEMMA TrackingStarts == Init => TrackingInv
<1> SUFFICES ASSUME Init  PROVE TrackingInv
  OBVIOUS
<1>1. Remembered = [known |-> {}, order |-> <<>>, results |-> <<>>]
  BY DEF Init, Remembered
<1>2. \A S : <<>> \in Seq(S) /\ Len(<<>>) = 0
  OBVIOUS
<1>3. Remembered \in Sound({})
  BY <1>1, <1>2, TrackingAssumption
     DEF TrackingAssumption, Sound, Distinct, InOrder
<1> QED  BY <1>3 DEF Init, TrackingInv

\* No query, new line or deletion of lines breaks it.
LEMMA TrackingSteps == TrackingInv /\ [Next]_vars => TrackingInv'
<1> SUFFICES ASSUME TrackingInv, [Next]_vars  PROVE TrackingInv'
  OBVIOUS
<1>1. CASE Query
  <2> DEFINE after == Walked(ListedKeys)
  <2>1. after \in Sound(reported)
    BY KeysAreCurrent, WalkIsSound DEF TrackingInv
  <2>2. /\ tracked_measurements' = after.known
        /\ tracked_measurement_order' = after.order
        /\ reported' = reported \cup ToSet(after.results)
        /\ repeated' = repeated \cup
              {key \in ToSet(after.results) :
                  key \in reported \/ ~IsInjective(after.results)}
        /\ UNCHANGED <<newest, cleared>>
    BY <1>1 DEF Query
  <2> HIDE DEF after
  <2>3. /\ after \in [known : SUBSET Keys, order : Seq(Keys), results : Seq(Keys)]
        /\ Len(after.order) <= max_tracked_measurements
        /\ Distinct(after.order) /\ InOrder(after.order)
        /\ after.known = {after.order[i] : i \in 1 .. Len(after.order)}
        /\ Distinct(after.results)
        /\ \A i \in 1 .. Len(after.results) : after.results[i] \notin reported
        /\ (reported \cup {after.results[i] : i \in 1 .. Len(after.results)})
               \cap Current \subseteq after.known
    BY <2>1 DEF Sound
  <2>4. ToSet(after.results) = {after.results[i] : i \in 1 .. Len(after.results)}
        /\ IsInjective(after.results)
    BY <2>3 DEF ToSet, IsInjective, Distinct
  <2>5. repeated' = {}
    BY <2>2, <2>3, <2>4 DEF TrackingInv
  <2>6. Keys' = Keys /\ Current' = Current
    BY <2>2 DEF Keys, Current
  <2>7. reported' \subseteq Keys
    BY <2>2, <2>3, <2>4 DEF TrackingInv
  <2>8. Remembered' = [known |-> after.known, order |-> after.order, results |-> <<>>]
    BY <2>2 DEF Remembered
  <2>9. Remembered' \in Sound(reported)'
    <3>1. <<>> \in Seq(Keys) /\ Len(<<>>) = 0 /\ Distinct(<<>>)
      BY DEF Distinct
    <3> DEFINE m == [known |-> after.known, order |-> after.order, results |-> <<>>]
    <3>2. /\ m \in [known : SUBSET Keys, order : Seq(Keys), results : Seq(Keys)]
          /\ m.known = after.known /\ m.order = after.order /\ m.results = <<>>
      BY <2>3, <3>1
    <3> HIDE DEF m
    <3>3. (reported' \cup {m.results[i] : i \in 1 .. Len(m.results)})
              \cap Current \subseteq m.known
      BY <2>2, <2>3, <2>4, <3>1, <3>2
    <3>4. \A i \in 1 .. Len(m.results) : m.results[i] \notin reported'
      BY <3>1, <3>2
    <3>5. m \in Sound(reported)'
      BY <2>2, <2>3, <2>6, <3>1, <3>2, <3>3, <3>4 DEF Sound
    <3> QED  BY <2>8, <3>5 DEF m
  <2> QED  BY <2>2, <2>5, <2>6, <2>7, <2>9 DEF TrackingInv
<1>2. CASE WriteLine
  <2>1. newest' = newest + 1 /\ UNCHANGED <<cleared, reported, repeated>>
        /\ Remembered' = Remembered
    BY <1>2 DEF WriteLine, Remembered
  <2>2. /\ newest' \in Nat /\ cleared' \in 0 .. newest'
        /\ Keys \subseteq Keys' /\ Keys \cap Current' \subseteq Current
    <3>1. newest \in Nat /\ cleared \in 0 .. newest
      BY DEF TrackingInv
    <3>2. /\ newest' \in Nat /\ cleared' \in 0 .. newest'
          /\ 1 .. newest \subseteq 1 .. newest'
      BY <2>1, <3>1
    <3>3. Keys \subseteq Keys'
      BY <3>2 DEF Keys
    <3>4. \A l \in 1 .. newest : l > newest' - FeedSize => l > newest - FeedSize
      BY <2>1, <3>1, TrackingAssumption DEF TrackingAssumption
    <3>5. Keys \cap Current' \subseteq Current
      BY <3>4 DEF Keys, Current
    <3> QED  BY <3>2, <3>3, <3>5
  <2>3. Seq(Keys) \subseteq Seq(Keys')
    BY <2>2
  <2>4. Remembered.results = <<>> /\ Len(<<>>) = 0
    BY DEF Remembered
  <2>5. Remembered \in Sound(reported)'
    BY <2>1, <2>2, <2>3, <2>4 DEF TrackingInv, Sound, Distinct, InOrder
  <2> QED  BY <2>1, <2>2, <2>5 DEF TrackingInv
<1>3. CASE Clear
  BY <1>3 DEF Clear, TrackingInv, Remembered, Sound, Keys, Current, Distinct, InOrder
<1>4. CASE UNCHANGED vars
  BY <1>4 DEF vars, TrackingInv, Remembered, Sound, Keys, Current, Distinct, InOrder
<1> QED  BY <1>1, <1>2, <1>3, <1>4 DEF Next

\* In no run of any length, with a memory as large as MemorySuffices asks for,
\* is a line reported twice for the same metric.
THEOREM ReportedOnceCorrect == Spec => []ReportedOnce
<1>1. TrackingInv => ReportedOnce
  BY DEF TrackingInv, ReportedOnce
<1> QED  BY TrackingStarts, TrackingSteps, <1>1, PTL DEF Spec

-----------------------------------------------------------------------------
(* Counting: the position of an element of a set of numbers.               *)

\* The first n numbers are finitely many.
LEMMA FirstFinite == \A n \in Nat : IsFiniteSet(1 .. n)
BY FS_Interval

\* The elements of X up to x and before it, and which one x is.
UpTo(X, x) == {y \in X : y <= x}
Before(X, x) == {y \in X : y < x}
Position(X, x) == Cardinality(UpTo(X, x))

\* They are finitely many, and no more than the elements of X.
LEMMA PartFinite ==
    ASSUME NEW X \in SUBSET Nat, IsFiniteSet(X), NEW x
    PROVE  /\ IsFiniteSet(UpTo(X, x)) /\ IsFiniteSet(Before(X, x))
           /\ Position(X, x) \in Nat /\ Cardinality(Before(X, x)) \in Nat
           /\ Position(X, x) <= Cardinality(X) /\ Cardinality(X) \in Nat
<1>1. UpTo(X, x) \in SUBSET X /\ Before(X, x) \in SUBSET X
  BY DEF UpTo, Before
<1>2. /\ IsFiniteSet(UpTo(X, x)) /\ IsFiniteSet(Before(X, x))
      /\ Cardinality(UpTo(X, x)) <= Cardinality(X)
  BY <1>1, FS_Subset
<1>3. /\ Cardinality(UpTo(X, x)) \in Nat /\ Cardinality(Before(X, x)) \in Nat
      /\ Cardinality(X) \in Nat
  BY <1>2, FS_CardinalityType
<1> QED  BY <1>2, <1>3 DEF Position

\* An element comes after those before it.
LEMMA AfterOthers ==
    ASSUME NEW X \in SUBSET Nat, IsFiniteSet(X), NEW x \in X
    PROVE  Position(X, x) = Cardinality(Before(X, x)) + 1
<1>1. UpTo(X, x) = Before(X, x) \cup {x} /\ x \notin Before(X, x)
  <2>1. \A y \in X : y \in Nat /\ x \in Nat
    OBVIOUS
  <2>2. \A y \in X : (y <= x) <=> (y < x \/ y = x)
    BY <2>1
  <2>3. ~(x < x)
    BY <2>1
  <2> QED  BY <2>2, <2>3, Zenon DEF UpTo, Before
<1>2. IsFiniteSet(Before(X, x))
  BY PartFinite
<1>3. Cardinality(Before(X, x) \cup {x}) = Cardinality(Before(X, x)) + 1
  BY <1>1, <1>2, FS_AddElement
<1> QED  BY <1>1, <1>3 DEF Position

\* No two elements are in the same place.
LEMMA PositionsDiffer ==
    ASSUME NEW X \in SUBSET Nat, IsFiniteSet(X), NEW x \in X, NEW y \in X,
           Position(X, x) = Position(X, y)
    PROVE  x = y
<1>1. ASSUME NEW a \in X, NEW b \in X, a < b
      PROVE  Position(X, a) < Position(X, b)
  <2>1. UpTo(X, a) \in SUBSET Before(X, b)
    <3>1. \A z \in X : z <= a => z < b
      BY <1>1
    <3> QED  BY <3>1, Zenon DEF UpTo, Before
  <2>2. IsFiniteSet(Before(X, b)) /\ Cardinality(Before(X, b)) \in Nat
    BY PartFinite
  <2>3. Position(X, a) <= Cardinality(Before(X, b))
    BY <2>1, <2>2, FS_Subset DEF Position
  <2>4. Position(X, b) = Cardinality(Before(X, b)) + 1
    BY AfterOthers
  <2>5. Position(X, a) \in Nat
    BY PartFinite
  <2> QED  BY <2>2, <2>3, <2>4, <2>5
<1>2. Position(X, x) \in Nat
  BY PartFinite
<1>3. x \in Nat /\ y \in Nat
  OBVIOUS
<1>4. ~(x < y)
  BY <1>1, <1>2
<1>5. ~(y < x)
  BY <1>1, <1>2
<1> QED  BY <1>3, <1>4, <1>5

\* Every position is that of an element.
LEMMA PositionsTaken ==
    ASSUME NEW X \in SUBSET Nat, IsFiniteSet(X), NEW p \in 1 .. Cardinality(X)
    PROVE  \E x \in X : Position(X, x) = p
<1> DEFINE n == Cardinality(X)
           f == [x \in X |-> Position(X, x)]
<1>1. n \in Nat /\ IsFiniteSet(1 .. n) /\ Cardinality(1 .. n) = n
  <2>1. n \in Nat
    BY FS_CardinalityType
  <2> HIDE DEF n
  <2> QED  BY <2>1, FS_Interval
<1>2. ASSUME NEW x \in X  PROVE Position(X, x) \in 1 .. n
  <2>1. /\ Position(X, x) = Cardinality(Before(X, x)) + 1
        /\ Cardinality(Before(X, x)) \in Nat
        /\ Position(X, x) <= n
    BY AfterOthers, PartFinite
  <2> HIDE DEF n
  <2> QED  BY <1>1, <2>1
<1>3. f \in Injection(X, 1 .. n)
  <2>1. f \in [X -> 1 .. n]
    BY <1>2
  <2>2. \A x, y \in X : f[x] = f[y] => x = y
    BY PositionsDiffer
  <2> HIDE DEF f, n
  <2> QED  BY <2>1, <2>2 DEF Injection, IsInjective
<1>4. f \in Surjection(X, 1 .. n)
  <2>1. Cardinality(X) = Cardinality(1 .. n)
    BY <1>1
  <2> HIDE DEF f, n
  <2> QED  BY <1>1, <1>3, <2>1, FS_Injection
<1>5. \E x \in X : f[x] = p
  <2>1. p \in 1 .. n
    OBVIOUS
  <2> HIDE DEF f, n
  <2> QED  BY <1>4, <2>1 DEF Surjection
<1> QED  BY <1>5

\* A set of naturals has a smallest one.
LEMMA Smallest ==
    ASSUME NEW X \in SUBSET Nat, X # {}
    PROVE  \E x \in X : \A y \in X : x <= y
<1> DEFINE R == {p \in Nat \X Nat : p[1] < p[2]}
<1>1. IsWellFoundedOn(R, Nat)
  BY NatLessThanWellFounded DEF OpToRel
<1>2. PICK x \in X : \A y \in X : <<y, x>> \notin R
  <2> HIDE DEF R
  <2> QED  BY <1>1, WFMin
<1>3. \A y \in X : ~(y < x) /\ y \in Nat /\ x \in Nat
  BY <1>2
<1> QED  BY <1>3

\* The positions of U in T are those of the elements of S.
SamePositions(S, T, U) ==
    /\ \A s \in S : \E u \in U : Position(T, u) = Position(S, s)
    /\ \A u \in U : \E s \in S : Position(T, u) = Position(S, s)

\* All of T before place is in U, place is not; it may come after all of T.
FirstMissing(T, U, place) ==
    /\ \A t \in T : t < place => t \in U
    /\ place \notin U /\ (place \notin T => \A t \in T : t < place)

\* T are the lines of one series and time, U those that have some field, S the
\* measurements for it, each standing where the other does.  The first line
\* without the field, or the next line to come, is then that of the next
\* measurement.
LEMMA NextPlace ==
    ASSUME NEW S \in SUBSET Nat, IsFiniteSet(S),
           NEW T \in SUBSET Nat, IsFiniteSet(T), NEW U \in SUBSET T,
           SamePositions(S, T, U), NEW place \in Nat, FirstMissing(T, U, place)
    PROVE  Cardinality(Before(T, place)) = Cardinality(S)
<1> USE DEF SamePositions, FirstMissing
<1> DEFINE P == Before(T, place)
           q == Cardinality(P)
           c == Cardinality(S)
<1>1. /\ P \in SUBSET Nat /\ IsFiniteSet(P) /\ q \in Nat /\ c \in Nat
  <2>1. IsFiniteSet(P) /\ q \in Nat
    BY PartFinite
  <2>2. c \in Nat
    BY FS_CardinalityType
  <2>3. P \in SUBSET Nat
    BY Zenon DEF Before
  <2> QED  BY <2>1, <2>2, <2>3
<1>2. q <= c
  <2>1. CASE q = 0
    <3> HIDE DEF q, c
    <3> QED  BY <1>1, <2>1
  <2>2. CASE q # 0
    <3>1. q \in 1 .. Cardinality(P)
      <4> HIDE DEF P
      <4> QED  BY <1>1, <2>2
    <3>2. PICK t \in P : Position(P, t) = q
      <4> HIDE DEF P, q
      <4> QED  BY <1>1, <3>1, PositionsTaken
    <3>3. UpTo(T, t) = UpTo(P, t)
      <4>1. t \in T /\ t < place /\ t \in Nat
        BY DEF Before
      <4>2. \A y \in T : y <= t => y < place
        BY <4>1
      <4> QED  BY <4>1, <4>2, Zenon DEF UpTo, Before
    <3>4. t \in U
      BY Zenon DEF Before
    <3>5. PICK s \in S : Position(T, t) = Position(S, s)
      BY <3>4
    <3>6. q = Position(S, s)
      <4> HIDE DEF P, q
      <4> QED  BY <3>2, <3>3, <3>5 DEF Position
    <3>7. Position(S, s) <= c
      BY PartFinite
    <3> HIDE DEF P, q, c
    <3> QED  BY <3>6, <3>7
  <2> QED  BY <2>1, <2>2
<1>3. ~(q < c)
  <2> SUFFICES ASSUME q < c  PROVE FALSE
    OBVIOUS
  <2>1. q + 1 \in 1 .. c
    <3> HIDE DEF q, c
    <3> QED  BY <1>1
  <2>2. PICK s \in S : Position(S, s) = q + 1
    <3> HIDE DEF q
    <3> QED  BY <2>1, PositionsTaken
  <2>3. PICK u \in U : Position(T, u) = q + 1
    <3> HIDE DEF q
    <3> QED  BY <2>2
  <2>4. CASE place \notin T
    <3>1. P = T
      BY <2>4, Zenon DEF Before
    <3>2. Position(T, u) <= q
      <4> HIDE DEF P
      <4> QED  BY <3>1, PartFinite
    <3> HIDE DEF q
    <3> QED  BY <1>1, <2>3, <3>2
  <2>5. CASE place \in T
    <3>1. Position(T, place) = q + 1
      BY <2>5, AfterOthers
    <3>2. u = place
      <4> HIDE DEF q
      <4> QED  BY <2>3, <2>5, <3>1, PositionsDiffer
    <3> QED  BY <3>2
  <2> QED  BY <2>4, <2>5
<1> QED
  <2> HIDE DEF q, c
  <2>1. q = c
    BY <1>1, <1>2, <1>3
  <2> QED  BY <2>1 DEF q, c

-----------------------------------------------------------------------------
(* The lines of a batch.                                                   *)

\* What the lines are made of.
Batched == {batch[i] : i \in 1 .. Len(batch)}

Line ==
    [key : {Key(m) : m \in Batched},
     fields : UNION {[names -> {m.value : m \in Batched}] :
                        names \in SUBSET {FieldName(m) : m \in Batched}}]

Result == [lines : Seq(Line), valid : Seq(Batched)]

\* What Put makes of a line.
LEMMA LineGrows ==
    ASSUME NEW line \in Line, NEW m \in Batched
    PROVE  /\ Put(line, m) \in Line
           /\ Put(line, m).key = line.key
           /\ DOMAIN Put(line, m).fields = DOMAIN line.fields \cup {FieldName(m)}
           /\ Put(line, m).fields[FieldName(m)] = m.value
           /\ \A f \in DOMAIN line.fields :
                  f # FieldName(m) => Put(line, m).fields[f] = line.fields[f]
<1> DEFINE V == {a.value : a \in Batched}
           N == {FieldName(a) : a \in Batched}
           fields == [name \in DOMAIN line.fields \cup {FieldName(m)} |->
                         IF name = FieldName(m) THEN m.value
                         ELSE line.fields[name]]
<1>1. PICK names \in SUBSET N : line.fields \in [names -> V]
  BY DEF Line
<1>2. m.value \in V /\ FieldName(m) \in N
  OBVIOUS
<1>3. /\ fields \in [names \cup {FieldName(m)} -> V]
      /\ names \cup {FieldName(m)} \in SUBSET N
  <2> HIDE DEF V, N
  <2> QED  BY <1>1, <1>2
<1>4. line = [key |-> line.key, fields |-> line.fields]
      /\ line.key \in {Key(a) : a \in Batched}
  BY DEF Line
<1>5. Put(line, m) = [key |-> line.key, fields |-> fields]
  BY <1>4 DEF Put
<1>6. Put(line, m) \in Line
  <2>1. fields \in UNION {[a -> V] : a \in SUBSET N}
    <3> HIDE DEF V, N, fields
    <3> QED  BY <1>3
  <2> HIDE DEF fields
  <2> QED  BY <1>4, <1>5, <2>1 DEF Line
<1> QED  BY <1>5, <1>6

\* The line a measurement starts has no field yet.
LEMMA LineStarts ==
    ASSUME NEW m \in Batched
    PROVE  /\ [key |-> Key(m), fields |-> <<>>] \in Line
           /\ DOMAIN <<>> = {}
<1>1. <<>> \in [{} -> {a.value : a \in Batched}] /\ DOMAIN <<>> = {}
  OBVIOUS
<1>2. <<>> \in UNION {[names -> {a.value : a \in Batched}] :
                        names \in SUBSET {FieldName(a) : a \in Batched}}
  <2>1. {} \in SUBSET {FieldName(a) : a \in Batched}
    OBVIOUS
  <2> QED  BY <1>1, <2>1
<1> QED  BY <1>1, <1>2 DEF Line

\* Those for a field up to one of them.
LEMMA FieldPositions ==
    ASSUME NEW n \in Nat, NEW m, NEW i \in SameField(m, n)
    PROVE  SameField(batch[i], i) = UpTo(SameField(m, n), i)
<1>1. i \in 1 .. n /\ Key(batch[i]) = Key(m) /\ FieldName(batch[i]) = FieldName(m)
  BY DEF SameField, WrittenOf
<1>2. \A j : j \in 1 .. i <=> j \in 1 .. n /\ j <= i
  BY <1>1
<1> QED  BY <1>1, <1>2, Zenon DEF SameField, WrittenOf, UpTo

\* The lines of a series and time up to one of them.
LEMMA LinePositions ==
    ASSUME NEW n \in Nat, NEW lines, NEW key, NEW l \in 1 .. n
    PROVE  LinesOf(lines, key, l) = UpTo(LinesOf(lines, key, n), l)
<1>1. \A j : j \in 1 .. l <=> j \in 1 .. n /\ j <= l
  OBVIOUS
<1> QED  BY <1>1, Zenon DEF LinesOf, UpTo

\* The lines after m has been put on the line at place.
Grown(new, lines, place, m) ==
    /\ new \in Seq(Line)
    /\ place \in 1 .. Len(lines) + 1
    /\ Len(new) = IF place <= Len(lines) THEN Len(lines) ELSE Len(lines) + 1
    /\ \A l \in 1 .. Len(lines) :
           /\ new[l].key = lines[l].key
           /\ \A f \in DOMAIN lines[l].fields :
                  /\ f \in DOMAIN new[l].fields
                  /\ new[l].fields[f] = lines[l].fields[f]
    /\ \A l \in 1 .. Len(lines) : \A f \in DOMAIN new[l].fields :
           f \in DOMAIN lines[l].fields \/ (l = place /\ f = FieldName(m))
    /\ new[place].key = Key(m)
    /\ FieldName(m) \in DOMAIN new[place].fields
    /\ new[place].fields[FieldName(m)] = m.value
    /\ place > Len(lines) => DOMAIN new[place].fields = {FieldName(m)}

\* A measurement is put on a line without its field.
LEMMA PutOnLine ==
    ASSUME NEW lines \in Seq(Line), NEW m \in Batched, NEW place \in 1 .. Len(lines),
           lines[place].key = Key(m), FieldName(m) \notin DOMAIN lines[place].fields
    PROVE  Grown([lines EXCEPT ![place] = Put(@, m)], lines, place, m)
<1> DEFINE new == [lines EXCEPT ![place] = Put(@, m)]
           line == lines[place]
<1>1. Len(lines) \in Nat /\ line \in Line /\ DOMAIN lines = 1 .. Len(lines)
  OBVIOUS
<1>2. /\ Put(line, m) \in Line
      /\ Put(line, m).key = line.key
      /\ DOMAIN Put(line, m).fields = DOMAIN line.fields \cup {FieldName(m)}
      /\ Put(line, m).fields[FieldName(m)] = m.value
      /\ \A f \in DOMAIN line.fields :
             f # FieldName(m) => Put(line, m).fields[f] = line.fields[f]
  <2> HIDE DEF line
  <2> QED  BY <1>1, LineGrows
<1>3. /\ new \in Seq(Line) /\ Len(new) = Len(lines)
      /\ new[place] = Put(line, m)
      /\ \A l \in 1 .. Len(lines) : l # place => new[l] = lines[l]
  <2> DEFINE next == Put(line, m)
  <2>1. new = [lines EXCEPT ![place] = next]
    OBVIOUS
  <2>2. next \in Line
    BY <1>2
  <2> HIDE DEF next, new
  <2>3. /\ new \in Seq(Line) /\ Len(new) = Len(lines) /\ new[place] = next
        /\ \A l \in 1 .. Len(lines) : l # place => new[l] = lines[l]
    BY <1>1, <2>1, <2>2
  <2> QED  BY <2>3 DEF next
<1> HIDE DEF new
<1>4. ASSUME NEW l \in 1 .. Len(lines)
      PROVE  /\ new[l].key = lines[l].key
             /\ \A f \in DOMAIN lines[l].fields :
                    /\ f \in DOMAIN new[l].fields
                    /\ new[l].fields[f] = lines[l].fields[f]
             /\ \A f \in DOMAIN new[l].fields :
                    f \in DOMAIN lines[l].fields \/ (l = place /\ f = FieldName(m))
  <2>1. CASE l = place
    BY <1>2, <1>3, <2>1
  <2>2. CASE l # place
    BY <1>3, <2>2
  <2> QED  BY <2>1, <2>2
<1>5. /\ new[place].key = Key(m)
      /\ FieldName(m) \in DOMAIN new[place].fields
      /\ new[place].fields[FieldName(m)] = m.value
  BY <1>2, <1>3
<1>6. place \in 1 .. Len(lines) + 1 /\ place <= Len(lines) /\ ~(place > Len(lines))
  BY <1>1
<1>7. Grown(new, lines, place, m)
  BY <1>3, <1>4, <1>5, <1>6 DEF Grown
<1> QED  BY <1>7 DEF new

\* A measurement is put on a line of its own.
LEMMA PutOnNext ==
    ASSUME NEW lines \in Seq(Line), NEW m \in Batched
    PROVE  Grown(Append(lines, Put([key |-> Key(m), fields |-> <<>>], m)),
                 lines, Len(lines) + 1, m)
<1> DEFINE empty == [key |-> Key(m), fields |-> <<>>]
           next == Put(empty, m)
           new == Append(lines, next)
           place == Len(lines) + 1
<1>1. empty \in Line /\ empty.key = Key(m) /\ DOMAIN empty.fields = {}
  BY LineStarts
<1>2. /\ next \in Line /\ next.key = Key(m)
      /\ DOMAIN next.fields = {FieldName(m)}
      /\ next.fields[FieldName(m)] = m.value
  <2> HIDE DEF empty
  <2> QED  BY <1>1, LineGrows
<1> HIDE DEF next
<1>3. /\ new \in Seq(Line) /\ Len(new) = Len(lines) + 1
      /\ new[place] = next
      /\ \A l \in 1 .. Len(lines) : new[l] = lines[l]
  BY <1>2, AppendProperties
<1>4. Len(lines) \in Nat
  OBVIOUS
<1> HIDE DEF new
<1>5. place \in 1 .. Len(lines) + 1 /\ ~(place <= Len(lines))
  BY <1>4
<1> HIDE DEF place
<1>6. Grown(new, lines, place, m)
  BY <1>2, <1>3, <1>5 DEF Grown
<1> QED  BY <1>6 DEF new, next, place

\* The lines of the series and time of m, and those of them that have its field.
SameLines(lines, m) == LinesOf(lines, Key(m), Len(lines))
WithField(lines, m) ==
    {l \in SameLines(lines, m) : FieldName(m) \in DOMAIN lines[l].fields}

\* The first of them without it, or the line after the last.
FirstWithout(lines, place, m) ==
    /\ \A l \in SameLines(lines, m) : l < place => l \in WithField(lines, m)
    /\ place \notin WithField(lines, m)
    /\ place \notin SameLines(lines, m) =>
           \A l \in SameLines(lines, m) : l < place

\* Bundle finds that place, and changes nothing but the line there.
LEMMA PlaceChosen ==
    ASSUME NEW r \in Result, NEW m \in Batched, Writable(m.value)
    PROVE  \E new, place :
              /\ Bundle(r, m) = [lines |-> new, valid |-> Append(r.valid, m)]
              /\ Grown(new, r.lines, place, m)
              /\ FirstWithout(r.lines, place, m)
<1> DEFINE lines == r.lines
           T == SameLines(lines, m)
           U == WithField(lines, m)
           fitting == {i \in DOMAIN lines :
                          /\ lines[i].key = Key(m)
                          /\ FieldName(m) \notin DOMAIN lines[i].fields}
           empty == [key |-> Key(m), fields |-> <<>>]
<1>1. /\ lines \in Seq(Line) /\ Len(lines) \in Nat
      /\ DOMAIN lines = 1 .. Len(lines)
  BY DEF Result
<1>2. Bundle(r, m) =
          [lines |-> IF fitting = {} THEN Append(lines, Put(empty, m))
                     ELSE [lines EXCEPT ![Min(fitting)] = Put(@, m)],
           valid |-> Append(r.valid, m)]
  BY DEF Bundle, LookedUp
<1>3. fitting = T \ U
  BY <1>1, Zenon DEF SameLines, WithField, LinesOf
<1>4. T \subseteq 1 .. Len(lines) /\ U \subseteq T
  BY DEF SameLines, WithField, LinesOf
<1>5. CASE fitting = {}
  <2> DEFINE place == Len(lines) + 1
  <2>1. FirstWithout(lines, place, m)
    <3>1. T \subseteq U
      BY <1>3, <1>5
    <3> HIDE DEF T, U, lines
    <3>2. place \notin T /\ place \notin U /\ \A t \in T : t < place
      BY <1>1, <1>4
    <3> HIDE DEF place
    <3> QED  BY <3>1, <3>2 DEF FirstWithout, T, U
  <2>2. Grown(Append(lines, Put(empty, m)), lines, place, m)
    BY <1>1, PutOnNext
  <2>3. Bundle(r, m) = [lines |-> Append(lines, Put(empty, m)),
                        valid |-> Append(r.valid, m)]
    BY <1>2, <1>5
  <2> QED  BY <2>1, <2>2, <2>3
<1>6. CASE fitting # {}
  <2> DEFINE place == Min(fitting)
  <2>1. place \in fitting /\ \A i \in fitting : place <= i
    <3>1. fitting \subseteq Nat
      BY <1>1
    <3> HIDE DEF fitting
    <3>2. \E i \in fitting : \A j \in fitting : i <= j
      BY <1>6, <3>1, Smallest
    <3> QED  BY <3>2 DEF Min
  <2> HIDE DEF place
  <2>2. /\ place \in 1 .. Len(lines) /\ place \in Nat
        /\ lines[place].key = Key(m)
        /\ FieldName(m) \notin DOMAIN lines[place].fields
    BY <1>1, <2>1
  <2>3. FirstWithout(lines, place, m)
    <3> HIDE DEF T, U, fitting, lines
    <3>1. /\ place \in T /\ place \notin U
          /\ \A t \in T : t < place => t \in U
      BY <1>1, <1>3, <1>4, <2>1, <2>2
    <3> QED  BY <3>1 DEF FirstWithout, T, U
  <2>4. Grown([lines EXCEPT ![place] = Put(@, m)], lines, place, m)
    BY <1>1, <2>2, PutOnLine
  <2>5. Bundle(r, m) = [lines |-> [lines EXCEPT ![place] = Put(@, m)],
                        valid |-> Append(r.valid, m)]
    BY <1>2, <1>6 DEF place
  <2> QED  BY <2>3, <2>4, <2>5
<1> QED  BY <1>5, <1>6

\* Bundle makes lines of the fields and values of the batch.
LEMMA BundleTyped ==
    ASSUME NEW r \in Result, NEW m \in Batched
    PROVE  Bundle(r, m) \in Result
<1>1. CASE ~Writable(m.value)
  BY <1>1 DEF Bundle
<1>2. CASE Writable(m.value)
  <2>1. PICK new, place :
            /\ Bundle(r, m) = [lines |-> new, valid |-> Append(r.valid, m)]
            /\ Grown(new, r.lines, place, m)
    BY <1>2, PlaceChosen
  <2>2. new \in Seq(Line) /\ Append(r.valid, m) \in Seq(Batched)
    <3>1. r.valid \in Seq(Batched)
      BY DEF Result
    <3> QED  BY <2>1, <3>1, AppendProperties DEF Grown
  <2> QED  BY <2>1, <2>2 DEF Result
<1> QED  BY <1>1, <1>2

\* The first line without its field is where the next measurement belongs.
LEMMA RightPlace ==
    ASSUME NEW n \in Nat, NEW r \in Result, Bundled(r, n), NEW m,
           NEW place \in Nat, FirstWithout(r.lines, place, m)
    PROVE  Cardinality(Before(SameLines(r.lines, m), place)) =
           Cardinality(SameField(m, n))
<1> DEFINE lines == r.lines
           T == SameLines(lines, m)
           U == WithField(lines, m)
           S == SameField(m, n)
<1>1. /\ lines \in Seq(Line) /\ Len(lines) \in Nat
      /\ DOMAIN lines = 1 .. Len(lines)
  BY DEF Result
<1>2. /\ S \in SUBSET Nat /\ IsFiniteSet(S)
      /\ T \in SUBSET Nat /\ IsFiniteSet(T) /\ U \in SUBSET T
  <2>1. S \in SUBSET (1 .. n)
    BY DEF SameField, WrittenOf
  <2>2. T \in SUBSET (1 .. Len(lines)) /\ U \in SUBSET T
    BY DEF SameLines, WithField, LinesOf
  <2>3. IsFiniteSet(1 .. n) /\ IsFiniteSet(1 .. Len(lines))
    BY <1>1, FirstFinite
  <2> HIDE DEF S, T, U
  <2>4. IsFiniteSet(S) /\ IsFiniteSet(T)
    BY <2>1, <2>2, <2>3, FS_Subset
  <2> QED  BY <2>1, <2>2, <2>4
<1>3. \A l \in T : Position(T, l) = Cardinality(LinesOf(lines, Key(m), l))
  <2> SUFFICES ASSUME NEW l \in T
               PROVE  Position(T, l) = Cardinality(LinesOf(lines, Key(m), l))
    OBVIOUS
  <2>1. l \in 1 .. Len(lines)
    BY DEF SameLines, LinesOf
  <2> HIDE DEF lines
  <2> QED  BY <1>1, <2>1, LinePositions DEF Position, SameLines
<1>4. \A i \in S : Position(S, i) = Cardinality(SameField(batch[i], i))
  BY FieldPositions DEF Position
<1>5. \A i \in S : /\ i \in WrittenOf(n)
                   /\ Key(batch[i]) = Key(m) /\ FieldName(batch[i]) = FieldName(m)
  BY DEF SameField
<1>6. \A s \in S : \E u \in U : Position(T, u) = Position(S, s)
  <2> SUFFICES ASSUME NEW i \in S
               PROVE  \E u \in U : Position(T, u) = Position(S, i)
    OBVIOUS
  <2>1. PICK l \in DOMAIN lines : Carries(lines, l, i)
    BY <1>5 DEF Bundled
  <2>2. /\ lines[l].key = Key(m) /\ FieldName(m) \in DOMAIN lines[l].fields
        /\ Cardinality(LinesOf(lines, Key(m), l)) = Cardinality(SameField(batch[i], i))
    BY <1>5, <2>1 DEF Carries
  <2>3. l \in T /\ l \in U
    BY <1>1, <2>2 DEF SameLines, WithField, LinesOf
  <2> HIDE DEF T, U, S
  <2> QED  BY <1>3, <1>4, <2>2, <2>3
<1>7. \A u \in U : \E s \in S : Position(T, u) = Position(S, s)
  <2> SUFFICES ASSUME NEW l \in U
               PROVE  \E s \in S : Position(T, l) = Position(S, s)
    OBVIOUS
  <2>1. /\ l \in T /\ l \in DOMAIN lines /\ lines[l].key = Key(m)
        /\ FieldName(m) \in DOMAIN lines[l].fields
    BY <1>1 DEF SameLines, WithField, LinesOf
  <2>2. PICK i \in WrittenOf(n) :
            FieldName(batch[i]) = FieldName(m) /\ Carries(lines, l, i)
    BY <2>1 DEF Bundled
  <2>3. /\ Key(batch[i]) = Key(m)
        /\ Cardinality(LinesOf(lines, Key(m), l)) = Cardinality(SameField(batch[i], i))
    BY <2>1, <2>2 DEF Carries
  <2>4. i \in S
    BY <2>2, <2>3 DEF SameField
  <2> HIDE DEF T, U, S
  <2> QED  BY <1>3, <1>4, <2>1, <2>3, <2>4
<1>8. /\ \A t \in T : t < place => t \in U
      /\ place \notin U /\ (place \notin T => \A t \in T : t < place)
  BY DEF FirstWithout
<1> HIDE DEF lines, T, U, S
<1>9. SamePositions(S, T, U)
  BY <1>6, <1>7, Zenon DEF SamePositions
<1>10. FirstMissing(T, U, place)
  BY <1>8, Zenon DEF FirstMissing
<1>11. Cardinality(Before(T, place)) = Cardinality(S)
  BY <1>2, <1>9, <1>10, NextPlace
<1> QED  BY <1>11 DEF lines, T, S

\* The measurements taken in so far, and one more.
LEMMA OneMore ==
    ASSUME NEW n \in Nat
    PROVE  /\ IsFiniteSet(WrittenOf(n)) /\ Cardinality(WrittenOf(n)) \in Nat
           /\ WrittenOf(n) \subseteq 1 .. n
           /\ WrittenOf(n + 1) = IF Writable(batch[n + 1].value)
                                 THEN WrittenOf(n) \cup {n + 1} ELSE WrittenOf(n)
           /\ \A i \in WrittenOf(n) :
                  Cardinality(WrittenOf(i)) \in 1 .. Cardinality(WrittenOf(n))
<1>1. ASSUME NEW k \in Nat
      PROVE  /\ IsFiniteSet(WrittenOf(k)) /\ Cardinality(WrittenOf(k)) \in Nat
             /\ WrittenOf(k) \subseteq 1 .. k
  <2>1. WrittenOf(k) \in SUBSET (1 .. k)
    BY DEF WrittenOf
  <2>2. IsFiniteSet(1 .. k)
    BY FirstFinite
  <2>3. IsFiniteSet(WrittenOf(k))
    BY <2>1, <2>2, FS_Subset
  <2> QED  BY <2>1, <2>3, FS_CardinalityType
<1>2. \A i : i \in 1 .. n + 1 <=> i \in 1 .. n \/ i = n + 1
  OBVIOUS
<1>3. WrittenOf(n + 1) = IF Writable(batch[n + 1].value)
                         THEN WrittenOf(n) \cup {n + 1} ELSE WrittenOf(n)
  BY <1>2, Zenon DEF WrittenOf
<1>4. ASSUME NEW i \in WrittenOf(n)
      PROVE  Cardinality(WrittenOf(i)) \in 1 .. Cardinality(WrittenOf(n))
  <2>1. i \in 1 .. n /\ i \in Nat /\ Writable(batch[i].value)
    BY DEF WrittenOf
  <2>2. WrittenOf(i) \in SUBSET WrittenOf(n)
    <3>1. \A j \in 1 .. i : j \in 1 .. n
      BY <2>1
    <3> QED  BY <3>1, Zenon DEF WrittenOf
  <2>3. i \in WrittenOf(i)
    <3>1. i \in 1 .. i
      BY <2>1
    <3> QED  BY <2>1, <3>1 DEF WrittenOf
  <2>4. Cardinality(WrittenOf(i)) <= Cardinality(WrittenOf(n))
    BY <1>1, <2>2, FS_Subset
  <2>5. IsFiniteSet(WrittenOf(i)) /\ Cardinality(WrittenOf(i)) \in Nat
    BY <1>1, <2>1
  <2>6. Cardinality(WrittenOf(i)) # 0
    BY <2>3, <2>5, FS_EmptySet
  <2>7. Cardinality(WrittenOf(n)) \in Nat
    BY <1>1
  <2> QED  BY <2>4, <2>5, <2>6, <2>7
<1> QED  BY <1>1, <1>3, <1>4

\* What was carried is still carried.
LEMMA StillCarried ==
    ASSUME NEW lines, Len(lines) \in Nat, NEW new, NEW place, NEW m,
           Grown(new, lines, place, m),
           NEW l \in 1 .. Len(lines), NEW i, Carries(lines, l, i)
    PROVE  Carries(new, l, i)
<1>1. \A j \in 1 .. l : j \in 1 .. Len(lines)
  OBVIOUS
<1>2. LinesOf(new, Key(batch[i]), l) = LinesOf(lines, Key(batch[i]), l)
  <2>1. \A j \in 1 .. l : new[j].key = lines[j].key
    BY <1>1 DEF Grown
  <2> QED  BY <2>1, Zenon DEF LinesOf
<1> QED  BY <1>2 DEF Grown, Carries

\* The new one is carried by the line it was put on.
LEMMA NowCarried ==
    ASSUME NEW n \in Nat, NEW lines, Len(lines) \in Nat, NEW new, NEW place,
           Writable(batch[n + 1].value), Grown(new, lines, place, batch[n + 1]),
           Cardinality(Before(SameLines(lines, batch[n + 1]), place)) =
               Cardinality(SameField(batch[n + 1], n))
    PROVE  Carries(new, place, n + 1)
<1> DEFINE m == batch[n + 1]
           T == SameLines(lines, m)
           B == Before(T, place)
           S == SameField(m, n)
<1>1. LinesOf(new, Key(m), place) = B \cup {place}
  <2>1. /\ place \in 1 .. Len(lines) + 1 /\ new[place].key = Key(m)
        /\ \A l \in 1 .. Len(lines) : new[l].key = lines[l].key
    BY DEF Grown
  <2>2. \A l : l \in 1 .. place <=> (l \in 1 .. Len(lines) /\ l < place) \/ l = place
    BY <2>1
  <2> QED  BY <2>1, <2>2, Zenon DEF SameLines, LinesOf, Before
<1>2. IsFiniteSet(B) /\ place \notin B /\ Cardinality(B) \in Nat
  <2>1. T \in SUBSET (1 .. Len(lines)) /\ IsFiniteSet(1 .. Len(lines))
    BY FirstFinite DEF SameLines, LinesOf
  <2>2. B \in SUBSET (1 .. Len(lines))
    BY <2>1 DEF Before
  <2>3. IsFiniteSet(B)
    <3> HIDE DEF B
    <3> QED  BY <2>1, <2>2, FS_Subset
  <2>4. place \in Int
    BY DEF Grown
  <2>5. place \notin B
    BY <2>4 DEF Before
  <2> QED  BY <2>3, <2>5, FS_CardinalityType
<1>3. Cardinality(LinesOf(new, Key(m), place)) = Cardinality(B) + 1
  <2> HIDE DEF B
  <2> QED  BY <1>1, <1>2, FS_AddElement
<1>4. SameField(m, n + 1) = S \cup {n + 1}
  <2>1. WrittenOf(n + 1) = WrittenOf(n) \cup {n + 1}
    BY OneMore
  <2> QED  BY <2>1, Zenon DEF SameField
<1>5. IsFiniteSet(S) /\ n + 1 \notin S
  <2>1. S \in SUBSET WrittenOf(n)
    BY DEF SameField
  <2>2. IsFiniteSet(WrittenOf(n)) /\ n + 1 \notin WrittenOf(n)
    <3>1. n + 1 \notin 1 .. n
      OBVIOUS
    <3> QED  BY <3>1, OneMore
  <2> HIDE DEF S
  <2> QED  BY <2>1, <2>2, FS_Subset
<1>6. Cardinality(SameField(m, n + 1)) = Cardinality(S) + 1
  <2> HIDE DEF S
  <2> QED  BY <1>4, <1>5, FS_AddElement
<1>7. Cardinality(LinesOf(new, Key(m), place)) = Cardinality(SameField(m, n + 1))
  BY <1>3, <1>6
<1>8. /\ new[place].key = Key(m) /\ FieldName(m) \in DOMAIN new[place].fields
      /\ new[place].fields[FieldName(m)] = m.value
  BY DEF Grown
<1> QED  BY <1>7, <1>8 DEF Carries

\* One more measurement.
LEMMA BundleStep ==
    ASSUME NEW n \in Nat, n + 1 <= Len(batch), Len(batch) \in Nat,
           NEW r \in Result, Bundled(r, n)
    PROVE  Bundled(Bundle(r, batch[n + 1]), n + 1)
<1> DEFINE m == batch[n + 1]
           lines == r.lines
<1>1. m \in Batched
  BY DEF Batched
<1>2. /\ Len(r.valid) = Cardinality(WrittenOf(n))
      /\ \A i \in WrittenOf(n) :
             /\ r.valid[Cardinality(WrittenOf(i))] = batch[i]
             /\ \E l \in DOMAIN lines : Carries(lines, l, i)
      /\ \A l \in DOMAIN lines :
             /\ DOMAIN lines[l].fields # {}
             /\ \A field \in DOMAIN lines[l].fields :
                   \E i \in WrittenOf(n) :
                      FieldName(batch[i]) = field /\ Carries(lines, l, i)
  BY DEF Bundled
<1>3. CASE ~Writable(m.value)
  <2>1. WrittenOf(n + 1) = WrittenOf(n)
    BY <1>3, OneMore
  <2>2. Bundle(r, m) = r
    BY <1>3 DEF Bundle
  <2> HIDE DEF m
  <2>3. Bundled(r, n + 1)
    BY <2>1 DEF Bundled
  <2> QED  BY <2>2, <2>3 DEF m
<1>4. CASE Writable(m.value)
  <2>1. PICK new, place :
            /\ Bundle(r, m) = [lines |-> new, valid |-> Append(r.valid, m)]
            /\ Grown(new, lines, place, m)
            /\ FirstWithout(lines, place, m)
    <3> HIDE DEF m
    <3> QED  BY <1>1, <1>4, PlaceChosen
  <2>2. /\ WrittenOf(n + 1) = WrittenOf(n) \cup {n + 1}
        /\ IsFiniteSet(WrittenOf(n)) /\ Cardinality(WrittenOf(n)) \in Nat
        /\ n + 1 \notin WrittenOf(n)
        /\ \A i \in WrittenOf(n) :
               Cardinality(WrittenOf(i)) \in 1 .. Cardinality(WrittenOf(n))
    <3>1. n + 1 \notin 1 .. n
      OBVIOUS
    <3> QED  BY <1>4, <3>1, OneMore
  <2>3. /\ lines \in Seq(Line) /\ Len(lines) \in Nat
        /\ DOMAIN lines = 1 .. Len(lines) /\ r.valid \in Seq(Batched)
    BY DEF Result
  <2>4. /\ new \in Seq(Line) /\ place \in 1 .. Len(lines) + 1 /\ place \in Nat
        /\ DOMAIN new = 1 .. Len(new)
        /\ place \in DOMAIN new /\ 1 .. Len(lines) \subseteq DOMAIN new
        /\ \A l \in DOMAIN new : l # place => l \in 1 .. Len(lines)
    <3>1. /\ new \in Seq(Line) /\ place \in 1 .. Len(lines) + 1
          /\ Len(new) = IF place <= Len(lines) THEN Len(lines) ELSE Len(lines) + 1
      BY <2>1 DEF Grown
    <3>2. DOMAIN new = 1 .. Len(new)
      BY <3>1
    <3> HIDE DEF lines
    <3> QED  BY <2>3, <3>1, <3>2
  <2>5. Carries(new, place, n + 1)
    <3>1. Cardinality(Before(SameLines(lines, m), place)) =
          Cardinality(SameField(m, n))
      <4> HIDE DEF m
      <4> QED  BY <2>1, <2>4, RightPlace
    <3> HIDE DEF lines
    <3> QED  BY <1>4, <2>1, <2>3, <3>1, NowCarried
  <2>6. \A l \in 1 .. Len(lines) : \A i : Carries(lines, l, i) => Carries(new, l, i)
    <3> HIDE DEF m, lines
    <3> QED  BY <2>1, <2>3, StillCarried
  <2> DEFINE valid == Append(r.valid, m)
  <2>7. /\ Len(valid) = Len(r.valid) + 1 /\ valid[Len(r.valid) + 1] = m
        /\ \A i \in 1 .. Len(r.valid) : valid[i] = r.valid[i]
    <3> HIDE DEF m
    <3> QED  BY <1>1, <2>3, AppendProperties
  <2> HIDE DEF valid
  <2>8. Cardinality(WrittenOf(n + 1)) = Cardinality(WrittenOf(n)) + 1
    BY <2>2, FS_AddElement
  <2>9. Len(valid) = Cardinality(WrittenOf(n + 1))
    BY <1>2, <2>7, <2>8
  <2>10. ASSUME NEW i \in WrittenOf(n + 1)
         PROVE  /\ valid[Cardinality(WrittenOf(i))] = batch[i]
                /\ \E l \in DOMAIN new : Carries(new, l, i)
    <3>1. CASE i = n + 1
      BY <1>2, <2>4, <2>5, <2>7, <2>8, <3>1
    <3>2. CASE i \in WrittenOf(n)
      <4>1. valid[Cardinality(WrittenOf(i))] = batch[i]
        BY <1>2, <2>2, <2>7, <3>2
      <4>2. \E l \in DOMAIN new : Carries(new, l, i)
        BY <1>2, <2>3, <2>4, <2>6, <3>2
      <4> QED  BY <4>1, <4>2
    <3> QED  BY <2>2, <3>1, <3>2
  <2>11. ASSUME NEW l \in DOMAIN new
         PROVE  /\ DOMAIN new[l].fields # {}
                /\ \A field \in DOMAIN new[l].fields :
                      \E i \in WrittenOf(n + 1) :
                         FieldName(batch[i]) = field /\ Carries(new, l, i)
    <3>1. ASSUME NEW field \in DOMAIN new[l].fields
          PROVE  \E i \in WrittenOf(n + 1) :
                    FieldName(batch[i]) = field /\ Carries(new, l, i)
      <4>1. CASE l = place /\ field = FieldName(m)
        BY <2>2, <2>5, <4>1
      <4>2. CASE l \in 1 .. Len(lines) /\ field \in DOMAIN lines[l].fields
        <5>1. PICK i \in WrittenOf(n) :
                 FieldName(batch[i]) = field /\ Carries(lines, l, i)
          BY <1>2, <2>3, <4>2
        <5> QED  BY <2>2, <2>6, <4>2, <5>1
      <4>3. \/ l = place /\ field = FieldName(m)
            \/ l \in 1 .. Len(lines) /\ field \in DOMAIN lines[l].fields
        <5>1. CASE l \in 1 .. Len(lines)
          BY <2>1, <5>1 DEF Grown
        <5>2. CASE l \notin 1 .. Len(lines)
          <6>1. l = place /\ place > Len(lines)
            <7> HIDE DEF lines, m
            <7> QED  BY <2>3, <2>4, <5>2
          <6> QED  BY <2>1, <6>1 DEF Grown
        <5> QED  BY <5>1, <5>2
      <4> QED  BY <4>1, <4>2, <4>3
    <3>2. DOMAIN new[l].fields # {}
      <4>1. CASE l = place
        BY <2>1, <4>1 DEF Grown
      <4>2. CASE l # place
        <5>1. l \in 1 .. Len(lines) /\ DOMAIN lines[l].fields # {}
          BY <1>2, <2>3, <2>4, <4>2
        <5> QED  BY <2>1, <5>1 DEF Grown
      <4> QED  BY <4>1, <4>2
    <3> QED  BY <3>1, <3>2
  <2> DEFINE result == [lines |-> new, valid |-> valid]
  <2>12. result.lines = new /\ result.valid = valid
    OBVIOUS
  <2> HIDE DEF result
  <2>13. Bundled(result, n + 1)
    BY <2>9, <2>10, <2>11, <2>12 DEF Bundled
  <2> QED  BY <2>1, <2>13 DEF result, valid
<1> QED  BY <1>3, <1>4

\* Taking in the measurements one after the other keeps what was said of them.
LEMMA BundlingSound ==
    ASSUME Len(batch) \in Nat
    PROVE  NoFieldLost
<1> DEFINE n == Len(batch)
           base == [lines |-> <<>>, valid |-> <<>>]
           next == [p \in Result \X (1 .. n) |-> Bundle(p[1], batch[p[2]])]
           Loop(f) == f = [i \in 0 .. n |-> IF i = 0 THEN base
                                           ELSE Bundle(f[i - 1], batch[i])]
           result == CHOOSE f : Loop(f)
<1>1. \A i \in 1 .. n : batch[i] \in Batched
  BY DEF Batched
<1>2. \A r \in Result : \A i \in 1 .. n : Bundle(r, batch[i]) \in Result
  <2> HIDE DEF n
  <2> QED  BY <1>1, BundleTyped
<1>3. next \in [Result \X (1 .. n) -> Result]
  <2> HIDE DEF n
  <2> QED  BY <1>2
<1>4. base \in Result
  <2>1. \A S : <<>> \in Seq(S)
    OBVIOUS
  <2> QED  BY <2>1 DEF Result
<1>5. PICK g : Recursive(g, n, Result, base, next)
  <2> HIDE DEF n, next, base
  <2> QED  BY <1>3, <1>4, Recursion, Zenon DEF n
<1>6. Loop(g)
  <2>1. g \in [0 .. n -> Result] /\ g[0] = base
    BY <1>5 DEF Recursive
  <2>2. ASSUME NEW i \in 1 .. n  PROVE g[i] = Bundle(g[i - 1], batch[i])
    <3>1. g[i] = next[<<g[i - 1], i>>] /\ i - 1 \in 0 .. n
      <4> HIDE DEF next, base
      <4> QED  BY <1>5 DEF Recursive
    <3>2. <<g[i - 1], i>> \in Result \X (1 .. n)
      BY <2>1, <3>1
    <3> HIDE DEF n, base
    <3> QED  BY <3>1, <3>2
  <2> HIDE DEF n, base
  <2> QED  BY <2>1, <2>2 DEF n
<1>7. Loop(result)
  <2> HIDE DEF Loop
  <2> QED  BY <1>6
<1>8. result[0] = base /\ \A i \in 1 .. n : result[i] = Bundle(result[i - 1], batch[i])
  <2> HIDE DEF result, base
  <2> QED  BY <1>7
<1> HIDE DEF result
<1>9. Bundled(base, 0)
  <2>1. WrittenOf(0) = {}
    BY DEF WrittenOf
  <2>2. Cardinality({}) = 0
    BY FS_EmptySet
  <2>3. base.lines = <<>> /\ base.valid = <<>> /\ Len(<<>>) = 0 /\ DOMAIN <<>> = {}
    OBVIOUS
  <2> HIDE DEF base
  <2> QED  BY <2>1, <2>2, <2>3 DEF Bundled
<1>10. \A i \in 0 .. n : result[i] \in {r \in Result : Bundled(r, i)}
  <2> DEFINE S == {i \in Nat : i <= n =>
                       /\ result[i] \in Result
                       /\ Bundled(result[i], i)}
  <2>1. 0 \in S
    <3> HIDE DEF base
    <3> QED  BY <1>4, <1>8, <1>9
  <2>2. \A i \in Nat : i \in S => i + 1 \in S
    <3> SUFFICES ASSUME NEW i \in Nat, i + 1 <= n, result[i] \in Result,
                        Bundled(result[i], i)
                 PROVE  /\ result[i + 1] \in Result
                        /\ Bundled(result[i + 1], i + 1)
      OBVIOUS
    <3>1. i + 1 \in 1 .. n /\ (i + 1) - 1 = i
      OBVIOUS
    <3>2. result[i + 1] = Bundle(result[i], batch[i + 1])
      <4> HIDE DEF n
      <4> QED  BY <1>8, <3>1
    <3>3. Bundle(result[i], batch[i + 1]) \in Result
      <4> HIDE DEF n
      <4> QED  BY <1>2, <3>1
    <3>4. Bundled(Bundle(result[i], batch[i + 1]), i + 1)
      BY BundleStep
    <3> QED  BY <3>2, <3>3, <3>4
  <2>3. Nat \subseteq S
    <3> HIDE DEF S
    <3> QED  BY <2>1, <2>2, Induction
  <2> QED  BY <2>3
<1>11. Bundled(result[n], n)
  <2>1. n \in 0 .. n
    OBVIOUS
  <2> HIDE DEF n
  <2> QED  BY <1>10, <2>1
<1>12. bundle_measurements(batch) = result[n]
  BY DEF bundle_measurements, result
<1> QED  BY <1>11, <1>12 DEF NoFieldLost

\* A batch is a sequence of measurements.
BatchTyped == batch \in Seq({FritzMeasurement(input) : input \in Inputs})

\* Of a batch of any size, from any measurements, every value that can be
\* written is on one line of its series and time, in order, and on no more
\* lines than its field has values.
THEOREM NoFieldLostCorrect == BundlingSpec => []NoFieldLost
<1>1. BundlingInit => BatchTyped
  BY DEF BundlingInit, BatchTyped
<1>2. BatchTyped /\ [BundlingNext]_<<version, batch>> => BatchTyped'
  <2> SUFFICES ASSUME BatchTyped, [BundlingNext]_<<version, batch>>
               PROVE  BatchTyped'
    OBVIOUS
  <2> DEFINE M == {FritzMeasurement(input) : input \in Inputs}
  <2>1. ASSUME NEW input \in Inputs, Add(input)  PROVE BatchTyped'
    <3>1. FritzMeasurement(input) \in M
      OBVIOUS
    <3> DEFINE new == FritzMeasurement(input)
    <3>2. batch \in Seq(M) /\ batch' = Append(batch, new)
      BY <2>1 DEF Add, BatchTyped
    <3> HIDE DEF M, new
    <3>3. batch' \in Seq(M)
      BY <3>1, <3>2, AppendProperties DEF new
    <3> QED  BY <3>3 DEF BatchTyped, M
  <2>2. CASE UNCHANGED <<version, batch>>
    BY <2>2 DEF BatchTyped
  <2> QED  BY <2>1, <2>2 DEF BundlingNext
<1>3. BatchTyped => NoFieldLost
  <2>1. \A S : batch \in Seq(S) => Len(batch) \in Nat
    OBVIOUS
  <2> QED  BY <2>1, BundlingSound DEF BatchTyped
<1> QED  BY <1>1, <1>2, <1>3, PTL DEF BundlingSpec

-----------------------------------------------------------------------------
(* Sequences put together, and what is read from them.                     *)

\* f[i] is what the first i of the sequences give.
Joined(f, seqs, K) ==
    /\ f \in [0 .. Len(seqs) -> Seq(K)]
    /\ f[0] = <<>>
    /\ \A i \in 1 .. Len(seqs) : f[i] = f[i - 1] \o seqs[i]

\* There is such a function.
LEMMA JoinedExists ==
    ASSUME NEW K, NEW seqs \in Seq(Seq(K))
    PROVE  \E f : Joined(f, seqs, K)
<1> DEFINE n == Len(seqs)
           next == [p \in Seq(K) \X (1 .. n) |-> p[1] \o seqs[p[2]]]
<1>1. next \in [Seq(K) \X (1 .. n) -> Seq(K)]
  OBVIOUS
<1>2. <<>> \in Seq(K) /\ n \in Nat
  OBVIOUS
<1>3. \A s \in Seq(K), i \in 1 .. n : next[<<s, i>>] = s \o seqs[i]
  OBVIOUS
<1> HIDE DEF next, n
<1>4. PICK f : Recursive(f, n, Seq(K), <<>>, next)
  BY <1>1, <1>2, Recursion, Zenon
<1>5. \A i \in 1 .. n : f[i] = f[i - 1] \o seqs[i]
  <2> SUFFICES ASSUME NEW i \in 1 .. n  PROVE f[i] = f[i - 1] \o seqs[i]
    OBVIOUS
  <2>1. i - 1 \in 0 .. n
    BY <1>2
  <2>2. f[i - 1] \in Seq(K) /\ f[i] = next[<<f[i - 1], i>>]
    BY <1>4, <2>1 DEF Recursive
  <2> QED  BY <1>3, <2>2
<1> QED  BY <1>4, <1>5 DEF Joined, Recursive, n

\* Its last value is what all of them give.
LEMMA FlatIsJoined ==
    ASSUME NEW K, NEW seqs \in Seq(Seq(K)), NEW g, Joined(g, seqs, K)
    PROVE  FlattenSeq(seqs) = g[Len(seqs)]
<1> DEFINE n == Len(seqs)
<1>1. n \in Nat
  OBVIOUS
<1>2. CASE n = 0
  BY <1>2 DEF Joined, FlattenSeq
<1>3. CASE n # 0
  <2> DEFINE Flat(f) == f = [i \in 1 .. Len(seqs) |-> IF i = 1 THEN seqs[i]
                                            ELSE f[i - 1] \o seqs[i]]
             flatten == CHOOSE f : Flat(f)
             h == [i \in 1 .. n |-> g[i]]
  <2>1. Flat(h)
    <3>1. ASSUME NEW i \in 1 .. n
          PROVE  h[i] = IF i = 1 THEN seqs[i] ELSE h[i - 1] \o seqs[i]
      <4>1. i - 1 \in 0 .. n /\ seqs[i] \in Seq(K) /\ h[i] = g[i]
        OBVIOUS
      <4>2. g[i] = g[i - 1] \o seqs[i]
        BY DEF Joined
      <4>3. CASE i = 1
        <5>1. g[i - 1] = <<>>
          BY <4>3 DEF Joined
        <5>2. <<>> \o seqs[i] = seqs[i]
          BY <4>1
        <5> QED  BY <4>1, <4>2, <4>3, <5>1, <5>2
      <4>4. CASE i # 1
        <5>1. h[i - 1] = g[i - 1]
          BY <4>4
        <5> QED  BY <4>1, <4>2, <4>4, <5>1
      <4> QED  BY <4>3, <4>4
    <3> QED  BY <3>1
  <2>2. Flat(flatten)
    <3> HIDE DEF Flat
    <3> QED  BY <2>1
  <2>3. \A i \in 1 .. n : flatten[i] = IF i = 1 THEN seqs[i]
                                       ELSE flatten[i - 1] \o seqs[i]
    <3> HIDE DEF flatten
    <3> QED  BY <2>2
  <2> DEFINE S == {i \in Nat : i \in 1 .. n => flatten[i] = h[i]}
  <2>4. \A i \in Nat : i \in S => i + 1 \in S
    <3> HIDE DEF flatten, h
    <3> SUFFICES ASSUME NEW i \in Nat, i \in 1 .. n => flatten[i] = h[i],
                        i + 1 \in 1 .. n
                 PROVE  flatten[i + 1] = h[i + 1]
      OBVIOUS
    <3>1. flatten[i + 1] = IF i + 1 = 1 THEN seqs[i + 1]
                           ELSE flatten[(i + 1) - 1] \o seqs[i + 1]
      BY <2>3, Zenon
    <3>2. h[i + 1] = IF i + 1 = 1 THEN seqs[i + 1]
                     ELSE h[(i + 1) - 1] \o seqs[i + 1]
      BY <2>1
    <3>3. i + 1 # 1 => (i + 1) - 1 = i /\ i \in 1 .. n
      OBVIOUS
    <3> QED  BY <3>1, <3>2, <3>3
  <2>5. 0 \in S
    OBVIOUS
  <2>6. Nat \subseteq S
    <3> HIDE DEF S
    <3> QED  BY <2>4, <2>5, Induction
  <2>7. flatten[n] = h[n] /\ h[n] = g[n]
    <3> HIDE DEF flatten
    <3>1. n \in S
      <4> HIDE DEF S
      <4> QED  BY <1>1, <2>6
    <3>2. n \in 1 .. n
      BY <1>1, <1>3
    <3>3. h[n] = g[n]
      BY <3>2
    <3> HIDE DEF h
    <3> QED  BY <3>1, <3>2, <3>3
  <2>8. FlattenSeq(seqs) = flatten[n]
    BY <1>3 DEF FlattenSeq
  <2> QED  BY <2>7, <2>8
<1> QED  BY <1>2, <1>3

\* What is put together from sequences over K is a sequence over K; one more
\* sequence is added at the end.
LEMMA FlatAppend ==
    ASSUME NEW K, NEW seqs \in Seq(Seq(K)), NEW last \in Seq(K)
    PROVE  /\ FlattenSeq(seqs) \in Seq(K)
           /\ FlattenSeq(Append(seqs, last)) = FlattenSeq(seqs) \o last
<1> DEFINE n == Len(seqs)
           more == Append(seqs, last)
<1>1. PICK f : Joined(f, seqs, K)
  BY JoinedExists
<1>2. FlattenSeq(seqs) = f[n] /\ n \in Nat
  BY <1>1, FlatIsJoined
<1>3. f[n] \in Seq(K)
  BY <1>1, <1>2 DEF Joined
<1> DEFINE g == [i \in 0 .. n + 1 |-> IF i = n + 1 THEN f[n] \o last ELSE f[i]]
<1>4. more \in Seq(Seq(K)) /\ Len(more) = n + 1
  OBVIOUS
<1>5. Joined(g, more, K)
  <2>1. g \in [0 .. n + 1 -> Seq(K)]
    <3>1. \A i \in 0 .. n : f[i] \in Seq(K)
      BY <1>1 DEF Joined
    <3>2. f[n] \o last \in Seq(K)
      BY <1>3
    <3>3. \A i \in 0 .. n + 1 : i = n + 1 \/ i \in 0 .. n
      BY <1>2
    <3> HIDE DEF n
    <3> QED  BY <3>1, <3>2, <3>3
  <2>2. g[0] = <<>>
    BY <1>1, <1>2 DEF Joined
  <2>3. ASSUME NEW i \in 1 .. n + 1  PROVE g[i] = g[i - 1] \o more[i]
    <3>1. CASE i = n + 1
      <4>1. more[i] = last /\ g[i] = f[n] \o last /\ i - 1 = n
        BY <1>2, <3>1
      <4>2. g[n] = f[n]
        BY <1>2
      <4> QED  BY <4>1, <4>2
    <3>2. CASE i \in 1 .. n
      <4>1. more[i] = seqs[i] /\ g[i] = f[i] /\ g[i - 1] = f[i - 1]
        BY <1>2, <3>2
      <4>2. f[i] = f[i - 1] \o seqs[i]
        BY <1>1, <3>2 DEF Joined
      <4> QED  BY <4>1, <4>2
    <3>3. i = n + 1 \/ i \in 1 .. n
      BY <1>2
    <3> HIDE DEF g, more
    <3> QED  BY <3>1, <3>2, <3>3
  <2> HIDE DEF g, more
  <2> QED  BY <1>4, <2>1, <2>2, <2>3 DEF Joined
<1>6. FlattenSeq(more) = g[n + 1]
  <2> HIDE DEF g, more
  <2> QED  BY <1>4, <1>5, FlatIsJoined
<1>7. g[n + 1] = f[n] \o last
  BY <1>2
<1> QED  BY <1>2, <1>3, <1>6, <1>7

\* Nothing, and one sequence.
LEMMA FlatShort ==
    ASSUME NEW K, NEW x \in Seq(K)
    PROVE  FlattenSeq(<<>>) = <<>> /\ FlattenSeq(<<x>>) = x
<1>1. FlattenSeq(<<>>) = <<>>
  BY DEF FlattenSeq
<1>2. <<>> \in Seq(Seq(K)) /\ Append(<<>>, x) = <<x>>
  OBVIOUS
<1>3. FlattenSeq(<<x>>) = <<>> \o x
  BY <1>1, <1>2, FlatAppend
<1> QED  BY <1>1, <1>3

\* Empty sequences give nothing.
LEMMA FlatEmpty ==
    ASSUME NEW K, NEW seqs \in Seq(Seq(K)),
           \A i \in 1 .. Len(seqs) : seqs[i] = <<>>
    PROVE  FlattenSeq(seqs) = <<>>
<1> DEFINE n == Len(seqs)
<1>1. PICK f : Joined(f, seqs, K)
  BY JoinedExists
<1>2. FlattenSeq(seqs) = f[n] /\ n \in Nat
  BY <1>1, FlatIsJoined
<1>3. \A i \in 1 .. n : f[i - 1] \in {<<>>} => f[i] \in {<<>>}
  <2> SUFFICES ASSUME NEW i \in 1 .. n, f[i - 1] = <<>>  PROVE f[i] = <<>>
    OBVIOUS
  <2>1. f[i] = f[i - 1] \o seqs[i]
    BY <1>1 DEF Joined
  <2>2. <<>> \o <<>> = <<>>
    OBVIOUS
  <2> QED  BY <2>1, <2>2
<1>4. f[0] \in {<<>>}
  BY <1>1 DEF Joined
<1>5. \A i \in 0 .. n : f[i] \in {<<>>}
  <2> DEFINE D == {<<>>}
  <2>1. f[0] \in D /\ \A i \in 1 .. n : f[i - 1] \in D => f[i] \in D
    BY <1>3, <1>4
  <2> HIDE DEF n, D
  <2>2. \A i \in 0 .. n : f[i] \in D
    BY <1>2, <2>1, HandedOn
  <2> QED  BY <2>2 DEF D
<1> QED  BY <1>2, <1>5

\* A function on 1 .. n is a sequence.
LEMMA AsSequence ==
    ASSUME NEW D, NEW n \in Nat, NEW f \in [1 .. n -> D]
    PROVE  f \in Seq(D) /\ Len(f) = n
OBVIOUS

\* What next makes of each element of a sequence.
Each(next, seq) == [i \in DOMAIN seq |-> next[seq[i]]]

\* One element more gives what it gives, at the end.
Adds(next, seq, d) ==
    FlattenSeq(Each(next, Append(seq, d))) =
        FlattenSeq(Each(next, seq)) \o next[d]

\* Reading a sequence that is one longer.
LEMMA EachAppend ==
    ASSUME NEW D, NEW K, NEW next \in [D -> Seq(K)],
           NEW seq \in Seq(D), NEW d \in D
    PROVE  Adds(next, seq, d)
<1>1. Each(next, seq) \in Seq(Seq(K))
  <2>1. seq \in [1 .. Len(seq) -> D] /\ Len(seq) \in Nat
    OBVIOUS
  <2>2. Each(next, seq) \in [1 .. Len(seq) -> Seq(K)]
    BY <2>1 DEF Each
  <2> QED  BY <2>1, <2>2, AsSequence, Zenon
<1>2. Each(next, Append(seq, d)) = Append(Each(next, seq), next[d])
  <2> DEFINE n == Len(seq)
  <2>1. n \in Nat /\ DOMAIN seq = 1 .. n
    OBVIOUS
  <2>2. DOMAIN Append(seq, d) = 1 .. n + 1
    BY <2>1
  <2>3. Each(next, seq) \in [1 .. n -> Seq(K)] /\ Len(Each(next, seq)) = n
    BY <1>1, <2>1 DEF Each
  <2>4. Append(Each(next, seq), next[d]) =
            [i \in 1 .. n + 1 |-> IF i <= n THEN Each(next, seq)[i] ELSE next[d]]
    BY <1>1, <2>1, <2>3
  <2>5. \A i \in 1 .. n + 1 :
            next[Append(seq, d)[i]] =
                IF i <= n THEN Each(next, seq)[i] ELSE next[d]
    <3> SUFFICES ASSUME NEW i \in 1 .. n + 1
                 PROVE  next[Append(seq, d)[i]] =
                            IF i <= n THEN Each(next, seq)[i] ELSE next[d]
      OBVIOUS
    <3>1. CASE i <= n
      <4>1. Append(seq, d)[i] = seq[i] /\ i \in 1 .. n
        BY <2>1, <3>1
      <4>2. Each(next, seq)[i] = next[seq[i]]
        BY <2>1, <4>1 DEF Each
      <4> QED  BY <3>1, <4>1, <4>2
    <3>2. CASE i = n + 1
      <4>1. Append(seq, d)[i] = d /\ ~(i <= n)
        BY <2>1, <3>2
      <4> QED  BY <4>1
    <3> QED  BY <2>1, <3>1, <3>2
  <2> HIDE DEF n
  <2> QED  BY <2>2, <2>4, <2>5 DEF Each
<1> QED  BY <1>1, <1>2, FlatAppend, Zenon DEF Adds

\* ss has one element at most in each place, and given what next makes of it.
OneByOne(ss, given, next, n, D) ==
    \A i \in 1 .. n :
        \/ ss[i] = <<>> /\ given[i] = <<>>
        \/ \E d \in D : ss[i] = <<d>> /\ given[i] = next[d]

\* What is read from ss put together is what is given.
GivesAlike(ss, given, next) ==
    FlattenSeq(Each(next, FlattenSeq(ss))) = FlattenSeq(given)

\* Sequences of one element at most, read one by one, give what their elements
\* give.
LEMMA EachOfFlat ==
    ASSUME NEW D, NEW K, NEW next \in [D -> Seq(K)], NEW n \in Nat,
           NEW ss \in [1 .. n -> Seq(D)],
           NEW given \in [1 .. n -> Seq(K)],
           OneByOne(ss, given, next, n, D)
    PROVE  GivesAlike(ss, given, next)
<1>1. /\ ss \in Seq(Seq(D)) /\ Len(ss) = n
      /\ given \in Seq(Seq(K)) /\ Len(given) = n
  OBVIOUS
<1>2. PICK f : Joined(f, ss, D)
  BY <1>1, JoinedExists
<1>3. PICK g : Joined(g, given, K)
  BY <1>1, JoinedExists
<1>4. FlattenSeq(ss) = f[n] /\ FlattenSeq(given) = g[n]
  <2>1. FlattenSeq(ss) = f[Len(ss)]
    BY <1>1, <1>2, FlatIsJoined, Zenon
  <2>2. FlattenSeq(given) = g[Len(given)]
    BY <1>1, <1>3, FlatIsJoined, Zenon
  <2> QED  BY <1>1, <2>1, <2>2
<1> DEFINE S == {i \in Nat : i <= n => FlattenSeq(Each(next, f[i])) = g[i]}
<1>5. 0 \in S
  <2>1. f[0] = <<>> /\ g[0] = <<>>
    BY <1>2, <1>3 DEF Joined
  <2>2. Each(next, <<>>) = <<>>
    BY DEF Each
  <2>3. FlattenSeq(<<>>) = <<>>
    BY DEF FlattenSeq
  <2> QED  BY <2>1, <2>2, <2>3
<1>6. \A i \in Nat : i \in S => i + 1 \in S
  <2> SUFFICES ASSUME NEW i \in Nat, i + 1 <= n,
                      FlattenSeq(Each(next, f[i])) = g[i]
               PROVE  FlattenSeq(Each(next, f[i + 1])) = g[i + 1]
    OBVIOUS
  <2>1. i + 1 \in 1 .. n /\ (i + 1) - 1 = i /\ i \in 0 .. n
    OBVIOUS
  <2>2. f[i + 1] = f[i] \o ss[i + 1] /\ f[i] \in Seq(D)
    BY <1>1, <1>2, <2>1 DEF Joined
  <2>3. g[i + 1] = g[i] \o given[i + 1] /\ g[i] \in Seq(K)
    BY <1>1, <1>3, <2>1 DEF Joined
  <2>4. CASE ss[i + 1] = <<>> /\ given[i + 1] = <<>>
    <3>1. f[i] \o <<>> = f[i] /\ g[i] \o <<>> = g[i]
      BY <2>2, <2>3
    <3> QED  BY <2>2, <2>3, <2>4, <3>1
  <2>5. CASE \E d \in D : ss[i + 1] = <<d>> /\ given[i + 1] = next[d]
    <3>1. PICK d \in D : ss[i + 1] = <<d>> /\ given[i + 1] = next[d]
      BY <2>5
    <3>2. f[i] \o <<d>> = Append(f[i], d)
      BY <2>2
    <3>3. FlattenSeq(Each(next, Append(f[i], d))) =
              FlattenSeq(Each(next, f[i])) \o next[d]
      <4>1. Adds(next, f[i], d)
        BY <2>2, EachAppend
      <4> QED  BY <4>1 DEF Adds
    <3> QED  BY <2>2, <2>3, <3>1, <3>2, <3>3
  <2> QED  BY <2>1, <2>4, <2>5 DEF OneByOne
<1>7. n \in S
  <2>1. Nat \subseteq S
    <3> HIDE DEF S
    <3> QED  BY <1>5, <1>6, Induction
  <2> HIDE DEF S
  <2> QED  BY <2>1
<1> QED  BY <1>4, <1>7 DEF GivesAlike

\* Of the elements of a sequence those of W.
Picked(seq, W) ==
    [i \in 1 .. Len(seq) |-> IF i \in W THEN <<seq[i]>> ELSE <<>>]

\* Nothing of nothing; else the last of them is that of the greatest index.
LEMMA LastPicked ==
    ASSUME NEW D, NEW seq \in Seq(D), NEW W \in SUBSET (1 .. Len(seq))
    PROVE  LET picked == FlattenSeq(Picked(seq, W))
           IN  /\ picked \in Seq({seq[i] : i \in W})
               /\ W = {} => picked = <<>>
               /\ \A j \in W : (\A k \in W : k <= j) =>
                      Len(picked) # 0 /\ picked[Len(picked)] = seq[j]
<1> DEFINE n == Len(seq)
           C == {seq[i] : i \in W}
           ss == Picked(seq, W)
<1>1. n \in Nat
  OBVIOUS
<1>2. ss \in Seq(Seq(C)) /\ Len(ss) = n
  <2>1. \A i \in 1 .. n : (IF i \in W THEN <<seq[i]>> ELSE <<>>) \in Seq(C)
    <3>1. \A i \in W : seq[i] \in C
      OBVIOUS
    <3> HIDE DEF C
    <3>2. \A i \in W : <<seq[i]>> \in Seq(C)
      BY <3>1
    <3>3. <<>> \in Seq(C)
      OBVIOUS
    <3> QED  BY <3>2, <3>3
  <2> HIDE DEF C
  <2> QED  BY <1>1, <2>1 DEF Picked
<1>3. PICK f : Joined(f, ss, C)
  <2> HIDE DEF ss, C
  <2> QED  BY <1>2, JoinedExists
<1>4. FlattenSeq(ss) = f[n] /\ f[n] \in Seq(C)
  <2> HIDE DEF ss, C
  <2>1. FlattenSeq(ss) = f[Len(ss)]
    BY <1>2, <1>3, FlatIsJoined, Zenon
  <2>2. f[n] \in Seq(C)
    BY <1>1, <1>2, <1>3 DEF Joined
  <2> QED  BY <1>2, <2>1, <2>2
<1> DEFINE Chosen(i) ==
               /\ (\A j \in W : j > i) => f[i] = <<>>
               /\ \A j \in W : j <= i /\ (\A k \in W : k <= i => k <= j) =>
                      Len(f[i]) # 0 /\ f[i][Len(f[i])] = seq[j]
           S == {i \in Nat : i <= n => Chosen(i)}
<1>5. 0 \in S
  <2>1. f[0] = <<>>
    BY <1>3 DEF Joined
  <2>2. \A j \in W : ~(j <= 0)
    OBVIOUS
  <2> HIDE DEF C, ss
  <2> QED  BY <2>1, <2>2
<1>6. \A i \in Nat : i \in S => i + 1 \in S
  <2> SUFFICES ASSUME NEW i \in Nat, i + 1 <= n, Chosen(i)  PROVE Chosen(i + 1)
    <3> HIDE DEF Chosen, C, ss
    <3>1. \A i \in Nat : i + 1 <= n => i <= n
      BY <1>1
    <3> HIDE DEF n
    <3> QED  BY <3>1
  <2>1. i + 1 \in 1 .. n /\ (i + 1) - 1 = i /\ i \in 0 .. n
    OBVIOUS
  <2>2. f[i + 1] = f[i] \o ss[i + 1] /\ f[i] \in Seq(C)
    <3> HIDE DEF ss, C
    <3> QED  BY <1>2, <1>3, <2>1 DEF Joined
  <2>3. ss[i + 1] = IF i + 1 \in W THEN <<seq[i + 1]>> ELSE <<>>
    BY <2>1 DEF Picked
  <2>4. CASE i + 1 \in W
    <3>1. seq[i + 1] \in C
      BY <2>4
    <3> HIDE DEF C, ss
    <3>2. f[i + 1] = Append(f[i], seq[i + 1])
      BY <2>2, <2>3, <2>4, <3>1
    <3>3. Len(f[i + 1]) = Len(f[i]) + 1 /\ Len(f[i]) \in Nat
          /\ f[i + 1][Len(f[i]) + 1] = seq[i + 1]
      BY <2>2, <3>1, <3>2
    <3>4. ASSUME NEW j \in W, j <= i + 1, \A k \in W : k <= i + 1 => k <= j
          PROVE  j = i + 1
      BY <2>4, <3>4
    <3> QED  BY <2>4, <3>3, <3>4
  <2>5. CASE i + 1 \notin W
    <3>1. f[i + 1] = f[i]
      <4> HIDE DEF C, ss
      <4> QED  BY <2>2, <2>3, <2>5
    <3>2. \A j \in W : (j <= i + 1 <=> j <= i) /\ (j > i + 1 <=> j > i)
      BY <2>5
    <3> HIDE DEF C, ss
    <3> QED  BY <3>1, <3>2
  <2> QED  BY <2>4, <2>5
<1>7. Chosen(n)
  <2> HIDE DEF Chosen
  <2>1. Nat \subseteq S
    <3> HIDE DEF S
    <3> QED  BY <1>5, <1>6, Induction
  <2> QED  BY <1>1, <2>1
<1>8. \A j \in W : j <= n
  OBVIOUS
<1> HIDE DEF C, ss
<1> QED  BY <1>4, <1>7, <1>8 DEF ss, C

\* A set of indices that is not empty has a greatest one, and it is its Max.
LEMMA Greatest ==
    ASSUME NEW n \in Nat, NEW W \in SUBSET (1 .. n), W # {}
    PROVE  Max(W) \in W /\ \A k \in W : k <= Max(W)
<1> DEFINE S == {i \in Nat : (\E j \in W : j <= i) =>
                     \E j \in W : j <= i /\ \A k \in W : k <= i => k <= j}
<1>1. 0 \in S
  OBVIOUS
<1>2. \A i \in Nat : i \in S => i + 1 \in S
  <2> SUFFICES ASSUME NEW i \in S, NEW x \in W, x <= i + 1
               PROVE  \E j \in W : j <= i + 1 /\ \A k \in W : k <= i + 1 => k <= j
    OBVIOUS
  <2>1. CASE i + 1 \in W
    BY <2>1
  <2>2. CASE i + 1 \notin W
    <3>1. \A k \in W : k <= i + 1 <=> k <= i
      BY <2>2
    <3> QED  BY <3>1
  <2> QED  BY <2>1, <2>2
<1>3. n \in S
  <2>1. Nat \subseteq S
    <3> HIDE DEF S
    <3> QED  BY <1>1, <1>2, Induction
  <2> HIDE DEF S
  <2> QED  BY <2>1
<1>4. \E j \in W : \A k \in W : j >= k
  <2>1. \A k \in W : k \in Nat /\ k <= n
    OBVIOUS
  <2>2. \E k \in W : k <= n
    BY <2>1
  <2>3. PICK j \in W : \A k \in W : k <= n => k <= j
    BY <1>3, <2>2
  <2> HIDE DEF S
  <2> QED  BY <2>1, <2>3
<1>5. Max(W) \in W /\ \A k \in W : Max(W) >= k
  BY <1>4, Zenon DEF Max
<1>6. \A k \in W : k \in Int
  OBVIOUS
<1> QED  BY <1>5, <1>6

-----------------------------------------------------------------------------
(* What a response yields.                                                 *)

\* The elements of a response are those its metric may have.
ExtractionInv ==
    /\ metric \in DOMAIN Elements
    /\ elements \in Seq(Elements[metric])

\* An element yields one measurement or none.
LEMMA OneAtMost ==
    ASSUME NEW m, NEW data
    PROVE  \/ extract_next(m, data) = <<>>
           \/ \E r : extract_next(m, data) = <<r>>
BY Zenon DEF extract_next, Measured

\* The measurements of the elements of D.
Yielded(m, D) == {extract_next(m, d)[1] : d \in D}

\* extract_next as a function.
Nexts(m, D) == [d \in D |-> extract_next(m, d)]

\* What an element yields is a sequence of them.
LEMMA NextsTyped ==
    ASSUME NEW m, NEW D
    PROVE  Nexts(m, D) \in [D -> Seq(Yielded(m, D))]
<1> SUFFICES ASSUME NEW d \in D
             PROVE  extract_next(m, d) \in Seq(Yielded(m, D))
  BY DEF Nexts
<1>1. extract_next(m, d)[1] \in Yielded(m, D)
  BY Zenon DEF Yielded
<1>2. CASE extract_next(m, d) = <<>>
  BY <1>2
<1>3. CASE \E r : extract_next(m, d) = <<r>>
  <2>1. PICK r : extract_next(m, d) = <<r>>
    BY <1>3
  <2>2. <<r>>[1] = r
    OBVIOUS
  <2> QED  BY <1>1, <2>1, <2>2
<1> QED  BY <1>2, <1>3, OneAtMost, Zenon

\* The elements of a list, read one by one.
LEMMA ListGives ==
    ASSUME NEW m, NEW D, NEW seq \in Seq(D)
    PROVE  extract_elements(m, List(seq)) = FlattenSeq(Each(Nexts(m, D), seq))
<1>1. Kind(List(seq)) = "list" /\ List(seq)[2] = seq
  BY DEF Kind, List
<1>2. [i \in DOMAIN seq |-> extract_next(m, seq[i])] = Each(Nexts(m, D), seq)
  <2>1. \A i \in DOMAIN seq : seq[i] \in D
    OBVIOUS
  <2> QED  BY <2>1, Zenon DEF Each, Nexts
<1> QED  BY <1>1, <1>2 DEF extract_elements

\* A list of one element, and one of none.
LEMMA OneGives ==
    ASSUME NEW m, NEW data
    PROVE  /\ extract_elements(m, List(<<data>>)) = extract_next(m, data)
           /\ extract_elements(m, List(<<>>)) = <<>>
<1> DEFINE D == {data}
           K == Yielded(m, D)
           next == Nexts(m, D)
<1>1. next \in [D -> Seq(K)] /\ next[data] = extract_next(m, data)
  BY NextsTyped DEF Nexts
<1>2. Each(next, <<data>>) = <<next[data]>> /\ Each(next, <<>>) = <<>>
  <2> HIDE DEF next
  <2> QED  BY DEF Each
<1>3. <<data>> \in Seq(D) /\ <<>> \in Seq(D) /\ data \in D
  OBVIOUS
<1>4. next[data] \in Seq(K)
  <2> HIDE DEF next, D, K
  <2> QED  BY <1>1, <1>3
<1>5. FlattenSeq(<<next[data]>>) = next[data] /\ FlattenSeq(<<>>) = <<>>
  <2> HIDE DEF next, D, K
  <2> QED  BY <1>4, FlatShort
<1>6. /\ extract_elements(m, List(<<data>>)) = FlattenSeq(Each(next, <<data>>))
      /\ extract_elements(m, List(<<>>)) = FlattenSeq(Each(next, <<>>))
  <2> HIDE DEF D
  <2> QED  BY <1>3, ListGives
<1> HIDE DEF next
<1> QED  BY <1>1, <1>2, <1>5, <1>6

\* The parents of an element, by their place in the list.
ParentPlaces(e) == {i \in 1 .. Len(elements) : IsParentOf(elements[i], e)}

\* They are elements that the parser does not keep.
LEMMA ParentsTyped ==
    ASSUME ExtractionInv, NEW e
    PROVE  /\ ParentsOf(e) = FlattenSeq(Picked(elements, ParentPlaces(e)))
           /\ ParentsOf(e) \in Seq(Elements[metric])
           /\ \A j \in 1 .. Len(ParentsOf(e)) :
                  IsParentOf(ParentsOf(e)[j], e)
<1> DEFINE W == ParentPlaces(e)
           C == {elements[i] : i \in W}
           E == Elements[metric]
<1>1. elements \in Seq(E) /\ DOMAIN elements = 1 .. Len(elements)
  BY DEF ExtractionInv
<1>2. ParentsOf(e) = FlattenSeq(Picked(elements, W))
  <2>1. \A i \in 1 .. Len(elements) : i \in W <=> IsParentOf(elements[i], e)
    BY DEF ParentPlaces
  <2> HIDE DEF W
  <2>2. [i \in DOMAIN elements |->
             IF IsParentOf(elements[i], e) THEN <<elements[i]>> ELSE <<>>] =
        Picked(elements, W)
    BY <1>1, <2>1 DEF Picked
  <2> QED  BY <2>2 DEF ParentsOf
<1>3. FlattenSeq(Picked(elements, W)) \in Seq(C)
  <2>1. W \in SUBSET (1 .. Len(elements))
    BY DEF ParentPlaces
  <2> HIDE DEF W, E
  <2> QED  BY <1>1, <2>1, LastPicked
<1>4. \A x \in C : x \in E /\ IsParentOf(x, e)
  <2> SUFFICES ASSUME NEW i \in W
               PROVE  elements[i] \in E /\ IsParentOf(elements[i], e)
    OBVIOUS
  <2>1. i \in 1 .. Len(elements) /\ IsParentOf(elements[i], e)
    BY DEF ParentPlaces
  <2> QED  BY <1>1, <2>1
<1>5. \A s \in Seq(C) : s \in Seq(E) /\ \A j \in 1 .. Len(s) : s[j] \in C
  <2> HIDE DEF C, E
  <2>1. \A x \in C : x \in E
    BY <1>4
  <2> QED  BY <2>1
<1> HIDE DEF C, W
<1>6. ParentsOf(e) \in Seq(C)
  BY <1>2, <1>3
<1> QED  BY <1>2, <1>4, <1>5, <1>6 DEF W

\* A unit that is kept finds the same device among its parents as in the list.
LEMMA SameDevice ==
    ASSUME ExtractionInv, metric \in HomeAutomationMetrics,
           NEW e \in Elements[metric], Is(e, "HAN-FUN-Unit"), Kept(e)
    PROVE  DeviceOf(Family(e), Parent(e)) = DeviceOf(elements, Parent(e))
<1> DEFINE id == Parent(e)
           P == ParentsOf(e)
           W == WithId(elements, id)
           n == Len(elements)
           E == Elements[metric]
<1>1. elements \in Seq(E) /\ DOMAIN elements = 1 .. n /\ n \in Nat
  BY DEF ExtractionInv
<1>2. \A d \in E : get(d, "id") = id => Is(d, "HAN-FUN")
  BY ParentsAreDevices DEF ExtractionInv
<1>3. get(e, "id") # id
  BY <1>2 DEF Kept
<1>4. \A d \in E : IsParentOf(d, e) <=> get(d, "id") = id
  BY <1>2, Zenon DEF IsParentOf, Kept
<1>5. W = ParentPlaces(e) /\ W \in SUBSET (1 .. n)
  <2>1. \A i \in 1 .. n : elements[i] \in E
    BY <1>1
  <2>2. \A i \in 1 .. n :
            get(elements[i], "id") = id <=> IsParentOf(elements[i], e)
    BY <1>4, <2>1, Zenon
  <2> HIDE DEF id, E
  <2> QED  BY <1>1, <2>2 DEF WithId, ParentPlaces
<1>6. /\ P = FlattenSeq(Picked(elements, W))
      /\ P \in Seq(E)
      /\ \A j \in 1 .. Len(P) : get(P[j], "id") = id
  <2>1. \A j \in 1 .. Len(P) : P[j] \in E /\ IsParentOf(P[j], e)
    <3> HIDE DEF P
    <3>1. P \in Seq(E) /\ \A j \in 1 .. Len(P) : IsParentOf(P[j], e)
      BY ParentsTyped DEF P
    <3> QED  BY <3>1
  <2> QED  BY <1>4, <1>5, <2>1, ParentsTyped
<1>7. /\ W = {} => P = <<>>
      /\ \A j \in W : (\A k \in W : k <= j) =>
             Len(P) # 0 /\ P[Len(P)] = elements[j]
  <2> HIDE DEF W, P, E
  <2> QED  BY <1>1, <1>5, <1>6, LastPicked
<1> HIDE DEF P, W
<1>8. Family(e) = Append(P, e) /\ Len(P) \in Nat
  BY <1>6 DEF Family, P
<1>9. \A j \in 1 .. Len(P) : Append(P, e)[j] = P[j]
  BY <1>6
<1>10. WithId(Family(e), id) = 1 .. Len(P)
  <2>1. DOMAIN Append(P, e) = 1 .. Len(P) + 1 /\ Append(P, e)[Len(P) + 1] = e
    BY <1>6
  <2>2. \A j \in 1 .. Len(P) + 1 : j \in 1 .. Len(P) \/ j = Len(P) + 1
    BY <1>8
  <2>3. \A j \in 1 .. Len(P) + 1 :
            get(Append(P, e)[j], "id") = id <=> j \in 1 .. Len(P)
    <3> SUFFICES ASSUME NEW j \in 1 .. Len(P) + 1
                 PROVE  get(Append(P, e)[j], "id") = id <=> j \in 1 .. Len(P)
      OBVIOUS
    <3>1. CASE j \in 1 .. Len(P)
      BY <1>6, <1>9, <3>1
    <3>2. CASE j = Len(P) + 1
      <4>1. j \notin 1 .. Len(P)
        BY <1>8, <3>2
      <4> QED  BY <1>3, <2>1, <3>2, <4>1
    <3> QED  BY <2>2, <3>1, <3>2
  <2>4. \A j : j \in 1 .. Len(P) => j \in 1 .. Len(P) + 1
    BY <1>8
  <2> QED  BY <1>8, <2>1, <2>3, <2>4, Zenon DEF WithId
<1>11. CASE W = {}
  <2>1. 1 .. Len(P) = {}
    BY <1>7, <1>11
  <2> QED  BY <1>10, <1>11, <2>1 DEF DeviceOf, W
<1>12. CASE W # {}
  <2>1. Max(W) \in W /\ \A k \in W : k <= Max(W)
    BY <1>1, <1>5, <1>12, Greatest
  <2>2. Len(P) # 0 /\ P[Len(P)] = elements[Max(W)]
    BY <1>7, <2>1
  <2> DEFINE U == 1 .. Len(P)
  <2>3. Len(P) \in U /\ U # {}
    BY <1>8, <2>2
  <2>4. Max(U) \in U /\ \A k \in U : k <= Max(U)
    <3>1. U \in SUBSET (1 .. Len(P))
      OBVIOUS
    <3> HIDE DEF U
    <3> QED  BY <1>8, <2>3, <3>1, Greatest
  <2>5. Max(U) = Len(P)
    <3>1. Len(P) <= Max(U) /\ Max(U) <= Len(P)
      BY <2>3, <2>4
    <3>2. Max(U) \in Nat
      BY <2>4
    <3> QED  BY <1>8, <3>1, <3>2
  <2>6. Family(e)[Max(U)] = elements[Max(W)]
    BY <1>8, <1>9, <2>2, <2>3, <2>5
  <2> HIDE DEF U
  <2>7. WithId(Family(e), id) = U
    BY <1>10 DEF U
  <2> QED  BY <1>12, <2>3, <2>6, <2>7 DEF DeviceOf, W
<1> QED  BY <1>11, <1>12

\* So it is reformatted alike.
LEMMA SameReformatted ==
    ASSUME ExtractionInv, metric \in HomeAutomationMetrics,
           NEW e \in Elements[metric], Kept(e)
    PROVE  Reformatted(Family(e), e) = Reformatted(elements, e)
<1>1. CASE ~Is(e, "HAN-FUN-Unit")
  BY <1>1, Zenon DEF Reformatted
<1>2. CASE Is(e, "HAN-FUN-Unit")
  <2>1. DeviceOf(Family(e), Parent(e)) = DeviceOf(elements, Parent(e))
    BY <1>2, SameDevice
  <2> QED  BY <1>2, <2>1, Zenon DEF Reformatted, devices_by_id
<1> QED  BY <1>1, <1>2

\* Of an element and its parents the parser keeps the element, if it is kept
\* at all.
LEMMA FamilyReformatted ==
    ASSUME ExtractionInv, metric \in HomeAutomationMetrics,
           NEW e \in Elements[metric]
    PROVE  reformat_homeauto_device_list(Family(e)) =
               IF Kept(e) THEN <<Reformatted(elements, e)>> ELSE <<>>
<1> DEFINE P == ParentsOf(e)
           E == Elements[metric]
           n == Len(P)
           own == IF Kept(e) THEN <<Reformatted(Family(e), e)>> ELSE <<>>
           K == {Reformatted(Family(e), e)}
           before == [j \in 1 .. n |-> <<>>]
<1>1. /\ P \in Seq(E) /\ n \in Nat
      /\ \A j \in 1 .. n : IsParentOf(P[j], e)
  <2>1. P \in Seq(E) /\ \A j \in 1 .. n : IsParentOf(P[j], e)
    BY ParentsTyped
  <2> HIDE DEF P, E
  <2> QED  BY <2>1
<1>2. \A j \in 1 .. n : ~Kept(P[j])
  BY <1>1, Zenon DEF IsParentOf, Kept
<1>3. own \in Seq(K)
  <2>1. Reformatted(Family(e), e) \in K
    OBVIOUS
  <2> HIDE DEF K
  <2> QED  BY <2>1
<1>4. before \in Seq(Seq(K)) /\ Len(before) = n
  <2>1. before \in [1 .. n -> Seq(K)]
    OBVIOUS
  <2> HIDE DEF before, n, K
  <2> QED  BY <1>1, <2>1, AsSequence, Zenon
<1>5. ReformatAll(Family(e)) = Append(before, own)
  <2> DEFINE F == Append(P, e)
  <2>1. /\ DOMAIN F = 1 .. n + 1 /\ F[n + 1] = e
        /\ \A j \in 1 .. n : F[j] = P[j]
    <3> HIDE DEF P, E
    <3> QED  BY <1>1
  <2>2. Append(before, own) =
            [j \in 1 .. n + 1 |-> IF j = n + 1 THEN own ELSE <<>>]
    <3> HIDE DEF P, E, own, K
    <3> QED  BY <1>1, <1>3, <1>4
  <2>3. \A j \in 1 .. n + 1 : j = n + 1 \/ (j \in 1 .. n /\ j # n + 1)
    <3> HIDE DEF n
    <3> QED  BY <1>1
  <2>4. \A j \in 1 .. n + 1 :
            (IF Kept(F[j]) THEN <<Reformatted(F, F[j])>> ELSE <<>>) =
                IF j = n + 1 THEN own ELSE <<>>
    <3> SUFFICES ASSUME NEW j \in 1 .. n + 1
                 PROVE  (IF Kept(F[j]) THEN <<Reformatted(F, F[j])>> ELSE <<>>) =
                            IF j = n + 1 THEN own ELSE <<>>
      OBVIOUS
    <3>1. CASE j = n + 1
      BY <2>1, <3>1, Zenon DEF Family
    <3>2. CASE j \in 1 .. n /\ j # n + 1
      <4>1. ~Kept(F[j])
        BY <1>2, <2>1, <3>2, Zenon
      <4> QED  BY <3>2, <4>1
    <3> QED  BY <2>3, <3>1, <3>2
  <2> HIDE DEF own, before, F, n
  <2>5. ReformatAll(F) =
            [j \in 1 .. n + 1 |-> IF j = n + 1 THEN own ELSE <<>>]
    BY <2>1, <2>4, Zenon DEF ReformatAll
  <2> QED  BY <2>2, <2>5 DEF Family, F
<1>6. FlattenSeq(before) = <<>>
  <2>1. \A j \in 1 .. Len(before) : before[j] = <<>>
    BY <1>4
  <2> HIDE DEF before, K, n
  <2> QED  BY <1>4, <2>1, FlatEmpty
<1>7. FlattenSeq(Append(before, own)) = own
  <2> HIDE DEF before, own, K, n
  <2>1. FlattenSeq(Append(before, own)) = <<>> \o own
    BY <1>3, <1>4, <1>6, FlatAppend
  <2> QED  BY <1>3, <2>1
<1>8. Kept(e) => Reformatted(Family(e), e) = Reformatted(elements, e)
  BY SameReformatted
<1> QED
  BY <1>5, <1>7, <1>8 DEF reformat_homeauto_device_list

\* A device that the parser can read in the list, it can read with its parents.
LEMMA FamilyReadable ==
    ASSUME ExtractionInv,
           NEW i \in DOMAIN elements, ~Unreadable(elements, elements[i])
    PROVE  \A j \in DOMAIN Family(elements[i]) :
               ~Unreadable(Family(elements[i]), Family(elements[i])[j])
<1> DEFINE e == elements[i]
           P == ParentsOf(e)
           E == Elements[metric]
           n == Len(P)
<1>1. /\ P \in Seq(E) /\ n \in Nat
      /\ \A j \in 1 .. n : IsParentOf(P[j], e)
  <2>1. P \in Seq(E) /\ \A j \in 1 .. n : IsParentOf(P[j], e)
    BY ParentsTyped
  <2> HIDE DEF P, E
  <2> QED  BY <2>1
<1>2. \A j \in 1 .. n : ~Unreadable(Family(e), P[j])
  <2>1. \A d : IsParentOf(d, e) => ~Unreadable(Family(e), d)
    BY Zenon DEF IsParentOf, Unreadable, Kept, Is
  <2> QED  BY <1>1, <2>1, Zenon
<1>3. Kind(e) # "dict" => n = 0 /\ ~(Len(elements) > 1)
  <2>1. Kind(e) # "dict" => \A d : ~IsParentOf(d, e)
    BY Zenon DEF IsParentOf, Is
  <2>2. Kind(e) # "dict" => ~(Len(elements) > 1)
    BY Zenon DEF Unreadable
  <2>3. Kind(e) # "dict" => ~(1 \in 1 .. n)
    BY <1>1, <2>1, Zenon
  <2> HIDE DEF e, n
  <2> QED  BY <1>1, <2>2, <2>3
<1>4. Len(Family(e)) = n + 1 /\ Family(e)[n + 1] = e
      /\ DOMAIN Family(e) = 1 .. n + 1
      /\ \A j \in 1 .. n : Family(e)[j] = P[j]
  <2> HIDE DEF P, E, e
  <2> QED  BY <1>1 DEF Family, P
<1>5. ~Unreadable(Family(e), e)
  <2>1. Kind(e) # "dict" => ~(Len(Family(e)) > 1)
    <3> HIDE DEF e, n
    <3> QED  BY <1>3, <1>4
  <2> QED  BY <2>1, Zenon DEF Unreadable
<1>6. \A j \in 1 .. n + 1 : j \in 1 .. n \/ j = n + 1
  <2> HIDE DEF n
  <2> QED  BY <1>1
<1> HIDE DEF e, n, P
<1> QED  BY <1>2, <1>4, <1>5, <1>6 DEF e

\* A list of devices yields what its elements yield with their parents.
LEMMA DevicesYieldTheirOwn ==
    ASSUME ExtractionInv, metric \in HomeAutomationMetrics,
           Kind(response_parser(metric, elements)) = "list"
    PROVE  query_service_data(metric, elements) =
               FlattenSeq([i \in DOMAIN elements |->
                              query_service_data(metric, Family(elements[i]))])
<1> DEFINE n == Len(elements)
           E == Elements[metric]
           D == {Reformatted(elements, e) : e \in E}
           K == Yielded(metric, D)
           next == Nexts(metric, D)
           ss == ReformatAll(elements)
           given == [i \in 1 .. n |->
                        query_service_data(metric, Family(elements[i]))]
<1>1. /\ elements \in Seq(E) /\ n \in Nat /\ DOMAIN elements = 1 .. n
      /\ \A i \in 1 .. n : elements[i] \in E
  BY DEF ExtractionInv
<1>2. next \in [D -> Seq(K)]
  BY NextsTyped
<1>3. /\ response_parser(metric, elements) =
             List(reformat_homeauto_device_list(elements))
      /\ \A i \in 1 .. n :
             response_parser(metric, Family(elements[i])) =
                 List(reformat_homeauto_device_list(Family(elements[i])))
  <2>1. \A list : response_parser(metric, list) =
            IF \E j \in DOMAIN list : Unreadable(list, list[j])
            THEN Raised ELSE List(reformat_homeauto_device_list(list))
    <3>1. metric # "call_list_duration"
      BY DEF HomeAutomationMetrics
    <3> QED  BY <3>1, Zenon DEF response_parser
  <2>2. Kind(Raised) # "list"
    BY DEF Kind, Raised
  <2>3. \A i \in DOMAIN elements : ~Unreadable(elements, elements[i])
    BY <2>1, <2>2, Zenon
  <2>4. \A i \in DOMAIN elements : \A j \in DOMAIN Family(elements[i]) :
            ~Unreadable(Family(elements[i]), Family(elements[i])[j])
    BY <2>3, FamilyReadable
  <2> QED  BY <1>1, <2>1, <2>3, <2>4, Zenon
<1>4. ASSUME NEW i \in 1 .. n
      PROVE  /\ Kept(elements[i]) =>
                    /\ ss[i] = <<Reformatted(elements, elements[i])>>
                    /\ given[i] = next[Reformatted(elements, elements[i])]
                    /\ Reformatted(elements, elements[i]) \in D
             /\ ~Kept(elements[i]) => ss[i] = <<>> /\ given[i] = <<>>
  <2> DEFINE e == elements[i]
             own == Reformatted(elements, e)
  <2>1. e \in E /\ own \in D
    BY <1>1
  <2>2. ss[i] = IF Kept(e) THEN <<own>> ELSE <<>>
    BY <1>1, Zenon DEF ReformatAll
  <2>3. given[i] =
            extract_elements(metric, List(IF Kept(e) THEN <<own>> ELSE <<>>))
    <3>1. given[i] = query_service_data(metric, Family(e))
      OBVIOUS
    <3>2. reformat_homeauto_device_list(Family(e)) =
              IF Kept(e) THEN <<own>> ELSE <<>>
      BY <2>1, FamilyReformatted
    <3>3. response_parser(metric, Family(e)) =
              List(reformat_homeauto_device_list(Family(e)))
      BY <1>3
    <3>4. query_service_data(metric, Family(e)) =
              extract_elements(metric, response_parser(metric, Family(e)))
      BY Zenon DEF query_service_data
    <3> HIDE DEF given, e, own
    <3> QED  BY <3>1, <3>2, <3>3, <3>4, Zenon
  <2>4. next[own] = extract_next(metric, own)
    <3> HIDE DEF own, D
    <3> QED  BY <2>1 DEF Nexts
  <2> HIDE DEF own, ss, given, next, D
  <2>5. Kept(e) => given[i] = next[own]
    BY <2>3, <2>4, OneGives
  <2>6. ~Kept(e) => given[i] = <<>>
    BY <2>3, OneGives
  <2> QED  BY <2>1, <2>2, <2>5, <2>6 DEF own
<1>5. ss \in [1 .. n -> Seq(D)] /\ given \in [1 .. n -> Seq(K)]
  <2>1. \A d \in D : <<d>> \in Seq(D) /\ next[d] \in Seq(K)
    <3> HIDE DEF next, D, K
    <3> QED  BY <1>2
  <2>2. <<>> \in Seq(D) /\ <<>> \in Seq(K)
    <3> HIDE DEF D, K
    <3> QED  OBVIOUS
  <2>3. ss = [i \in 1 .. n |-> ss[i]] /\ given = [i \in 1 .. n |-> given[i]]
    BY <1>1, Zenon DEF ReformatAll
  <2> HIDE DEF ss, given, next, D, K, n
  <2>4. \A i \in 1 .. n : ss[i] \in Seq(D) /\ given[i] \in Seq(K)
    BY <1>4, <2>1, <2>2
  <2> QED  BY <2>3, <2>4
<1>6. OneByOne(ss, given, next, n, D)
  <2> HIDE DEF ss, given, next, D, n
  <2> QED  BY <1>4 DEF OneByOne
<1>7. FlattenSeq(Each(next, FlattenSeq(ss))) = FlattenSeq(given)
  <2> HIDE DEF ss, given, next, D, K, n
  <2>1. n \in Nat
    BY <1>1
  <2>2. GivesAlike(ss, given, next)
    BY <1>2, <1>5, <1>6, <2>1, EachOfFlat
  <2> QED  BY <2>2 DEF GivesAlike
<1>8. query_service_data(metric, elements) =
          FlattenSeq(Each(next, FlattenSeq(ss)))
  <2>1. FlattenSeq(ss) \in Seq(D)
    <3>1. ss \in Seq(Seq(D))
      <4> HIDE DEF ss, D, n
      <4> QED  BY <1>1, <1>5, AsSequence, Zenon
    <3>2. <<>> \in Seq(D)
      <4> HIDE DEF D
      <4> QED  OBVIOUS
    <3> HIDE DEF ss, D
    <3> QED  BY <3>1, <3>2, FlatAppend
  <2>2. extract_elements(metric, List(FlattenSeq(ss))) =
            FlattenSeq(Each(next, FlattenSeq(ss)))
    <3> HIDE DEF ss, D
    <3> QED  BY <2>1, ListGives
  <2> HIDE DEF next
  <2> QED  BY <1>3, <2>2 DEF query_service_data, reformat_homeauto_device_list
<1>9. given = [i \in DOMAIN elements |->
                  query_service_data(metric, Family(elements[i]))]
  BY <1>1
<1> HIDE DEF given, next
<1> QED  BY <1>7, <1>8, <1>9

\* So does every other list that can be read: an element has no parent there.
LEMMA OthersYieldTheirOwn ==
    ASSUME ExtractionInv, metric \notin HomeAutomationMetrics,
           Kind(response_parser(metric, elements)) = "list"
    PROVE  query_service_data(metric, elements) =
               FlattenSeq([i \in DOMAIN elements |->
                              query_service_data(metric, Family(elements[i]))])
<1> DEFINE n == Len(elements)
           E == Elements[metric]
<1>1. /\ elements \in Seq(E) /\ n \in Nat /\ DOMAIN elements = 1 .. n
      /\ \A i \in 1 .. n : elements[i] \in E
  BY DEF ExtractionInv
<1>2. \A i \in 1 .. n :
          metric = "call_list_duration" => int(get(elements[i], "datum")) # Raised
  <2>1. Kind(Raised) # "list"
    BY DEF Kind, Raised
  <2> QED  BY <1>1, <2>1, Zenon DEF response_parser
<1>3. response_parser(metric, elements) = List(elements)
  <2>1. Kind(Raised) # "list"
    BY DEF Kind, Raised
  <2> QED  BY <1>1, <1>2, Zenon DEF response_parser
<1>4. ASSUME NEW i \in 1 .. n
      PROVE  query_service_data(metric, Family(elements[i])) =
                 extract_next(metric, elements[i])
  <2> DEFINE e == elements[i]
  <2>1. ParentsOf(e) = <<>>
    <3>1. \A j \in 1 .. Len(ParentsOf(e)) : FALSE
      BY ParentsTyped DEF IsParentOf
    <3>2. ParentsOf(e) \in Seq(E)
      BY ParentsTyped
    <3> HIDE DEF E, e
    <3> QED  BY <3>1, <3>2
  <2> HIDE DEF e
  <2>2. Family(e) = <<e>>
    BY <2>1 DEF Family
  <2>3. DOMAIN <<e>> = {1} /\ <<e>>[1] = e
    OBVIOUS
  <2>4. response_parser(metric, <<e>>) = List(<<e>>)
    <3>1. metric = "call_list_duration" => int(get(e, "datum")) # Raised
      BY <1>2 DEF e
    <3> QED  BY <2>3, <3>1, Zenon DEF response_parser
  <2> QED  BY <2>2, <2>4, OneGives DEF query_service_data, e
<1>5. extract_elements(metric, List(elements)) =
          FlattenSeq([i \in 1 .. n |-> extract_next(metric, elements[i])])
  <2>1. Kind(List(elements)) = "list" /\ List(elements)[2] = elements
    BY DEF Kind, List
  <2> QED  BY <1>1, <2>1 DEF extract_elements
<1>6. [i \in 1 .. n |-> query_service_data(metric, Family(elements[i]))] =
      [i \in 1 .. n |-> extract_next(metric, elements[i])]
  BY <1>4
<1> QED
  BY <1>1, <1>3, <1>5, <1>6 DEF query_service_data

\* What a response that can be parsed yields is what each of its elements would
\* yield alone, in their order, however many there are and whatever they look like
\* (extract_value, query_service_data and reformat_homeauto_device_list).
THEOREM OnlyItsOwnCorrect == ExtractionSpec => []OnlyItsOwn
<1>1. ExtractionInit => ExtractionInv
  BY DEF ExtractionInit, ExtractionInv
<1>2. ExtractionInv /\ [ExtractionNext]_extraction_vars => ExtractionInv'
  BY DEF ExtractionInv, ExtractionNext, Lists, extraction_vars
<1>3. ExtractionInv => OnlyItsOwn
  BY DevicesYieldTheirOwn, OthersYieldTheirOwn DEF OnlyItsOwn
<1> QED
  BY <1>1, <1>2, <1>3, PTL DEF ExtractionSpec
=============================================================================
