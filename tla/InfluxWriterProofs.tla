------------------------- MODULE InfluxWriterProofs -------------------------
(***************************************************************************)
(* Theorems about InfluxWriter, for every number of measurements, every    *)
(* timestamp, buffer and batch size and retry interval: the operators the  *)
(* buffer is edited with, the type invariant, and on these the safety      *)
(* properties and the refinement of Delivery.                              *)
(***************************************************************************)
EXTENDS InfluxWriter, SequenceTheorems, TLAPS
-----------------------------------------------------------------------------
(* The operators the buffer is edited with.                                *)

\* A function on 1..n with values in S is a sequence of length n.
LEMMA FunctionIsSequence ==
    ASSUME NEW S, NEW n \in Nat, NEW f \in [1..n -> S]
    PROVE  f \in Seq(S) /\ Len(f) = n
<1>1. f \in Seq(S)
  BY SeqDef
<1>2. Len(f) \in Nat /\ 1..Len(f) = 1..n
  BY <1>1, LenProperties
<1>3. CASE Len(f) < n
  <2>1. n \in 1..n /\ n \notin 1..Len(f)
    BY <1>2, <1>3
  <2>2. QED
    BY <1>2, <2>1
<1>4. CASE n < Len(f)
  <2>1. Len(f) \in 1..Len(f) /\ Len(f) \notin 1..n
    BY <1>2, <1>4
  <2>2. QED
    BY <1>2, <2>1
<1>5. QED
  BY <1>1, <1>2, <1>3, <1>4

\* s[:n] is a sequence of the first n elements of s, or of all of them.
LEMMA TakeProperties ==
    ASSUME NEW S, NEW s \in Seq(S), NEW n \in Nat
    PROVE  /\ Take(s, n) \in Seq(S)
           /\ Len(Take(s, n)) = Least(n, Len(s))
           /\ \A i \in 1..Least(n, Len(s)) : Take(s, n)[i] = s[i]
<1> DEFINE k == Least(n, Len(s))
<1>1. Len(s) \in Nat /\ \A i \in 1..Len(s) : s[i] \in S
  BY ElementOfSeq, LenProperties
<1>2. k \in Nat /\ k <= Len(s)
  BY <1>1 DEF Least
<1>3. \A i \in 1..k : s[i] \in S
  BY <1>1, <1>2
<1> HIDE DEF k
<1>4. /\ SubSeq(s, 1, k) \in Seq(S)
      /\ Len(SubSeq(s, 1, k)) = k
      /\ \A i \in 1..k : SubSeq(s, 1, k)[i] = s[i]
  BY <1>2, <1>3, SubSeqProperties
<1>5. QED
  BY <1>4 DEF Take, k

\* s[n:] is a sequence of what follows the first n elements of s.
LEMMA DropHeadProperties ==
    ASSUME NEW S, NEW s \in Seq(S), NEW n \in Nat
    PROVE  /\ DropHead(s, n) \in Seq(S)
           /\ Len(DropHead(s, n)) = IF n <= Len(s) THEN Len(s) - n ELSE 0
           /\ \A i \in 1..Len(DropHead(s, n)) : DropHead(s, n)[i] = s[i + n]
<1>1. Len(s) \in Nat /\ \A i \in 1..Len(s) : s[i] \in S
  BY ElementOfSeq, LenProperties
<1>2. \A i \in (n + 1)..Len(s) : s[i] \in S
  BY <1>1
<1>3. /\ SubSeq(s, n + 1, Len(s)) \in Seq(S)
      /\ Len(SubSeq(s, n + 1, Len(s))) =
             IF n + 1 <= Len(s) THEN Len(s) - (n + 1) + 1 ELSE 0
      /\ \A i \in 1..(Len(s) - (n + 1) + 1) :
             SubSeq(s, n + 1, Len(s))[i] = s[(n + 1) + i - 1]
  BY <1>1, <1>2, SubSeqProperties
<1>4. QED
  BY <1>1, <1>3 DEF DropHead

\* Cutting a sequence without repeats in two gives two disjoint ones that
\* cover it.
LEMMA SplitProperties ==
    ASSUME NEW S, NEW s \in Seq(S), NEW n \in Nat, n <= Len(s), NoRepeats(s)
    PROVE  /\ NoRepeats(Take(s, n)) /\ NoRepeats(DropHead(s, n))
           /\ Range(s) = Range(Take(s, n)) \cup Range(DropHead(s, n))
           /\ Range(Take(s, n)) \cap Range(DropHead(s, n)) = {}
<1> DEFINE t == Take(s, n)
           d == DropHead(s, n)
<1>1. /\ t \in Seq(S) /\ Len(t) = n
      /\ \A i \in 1..n : t[i] = s[i]
  BY TakeProperties, LenProperties DEF Least
<1>2. /\ d \in Seq(S) /\ Len(d) = Len(s) - n
      /\ \A i \in 1..(Len(s) - n) : d[i] = s[i + n]
  BY DropHeadProperties, LenProperties
<1>3. /\ Range(s) = {s[i] : i \in 1..Len(s)}
      /\ Range(t) = {t[i] : i \in 1..n}
      /\ Range(d) = {d[i] : i \in 1..(Len(s) - n)}
  BY <1>1, <1>2, RangeEquality
<1>4. /\ Len(s) \in Nat
      /\ DOMAIN s = 1..Len(s) /\ DOMAIN d = 1..(Len(s) - n)
      /\ DOMAIN t = 1..n
  BY <1>1, <1>2, LenProperties
<1> HIDE DEF t, d
<1>5. NoRepeats(d)
  <2> SUFFICES ASSUME NEW i \in 1..(Len(s) - n), NEW j \in 1..(Len(s) - n),
                      d[i] = d[j]
               PROVE  i = j
    BY <1>4 DEF NoRepeats
  <2>1. s[i + n] = s[j + n] /\ i + n \in 1..Len(s) /\ j + n \in 1..Len(s)
    BY <1>2, <1>4
  <2>2. i + n = j + n
    BY <2>1, <1>4 DEF NoRepeats
  <2>3. QED
    BY <2>2
<1>6. Range(s) \subseteq Range(t) \cup Range(d)
  <2> SUFFICES ASSUME NEW i \in 1..Len(s)
               PROVE  s[i] \in Range(t) \cup Range(d)
    BY <1>3
  <2>1. CASE i <= n
    BY <2>1, <1>1, <1>3
  <2>2. CASE i > n
    <3>1. i - n \in 1..(Len(s) - n) /\ (i - n) + n = i
      BY <2>2, <1>4
    <3>2. d[i - n] = s[i]
      BY <3>1, <1>2
    <3>3. QED
      BY <3>1, <3>2, <1>3
  <2>3. QED
    BY <2>1, <2>2, <1>4
<1>7. Range(t) \cup Range(d) \subseteq Range(s)
  <2>1. \A i \in 1..n : t[i] \in Range(s)
    BY <1>1, <1>3, <1>4
  <2>2. ASSUME NEW i \in 1..(Len(s) - n) PROVE d[i] \in Range(s)
    <3>1. i + n \in 1..Len(s) /\ d[i] = s[i + n]
      BY <1>2, <1>4
    <3>2. QED
      BY <3>1, <1>3
  <2>3. QED
    BY <2>1, <2>2, <1>3
<1>8. Range(t) \cap Range(d) = {}
  <2> SUFFICES ASSUME NEW i \in 1..n, NEW j \in 1..(Len(s) - n), t[i] = d[j]
               PROVE  FALSE
    BY <1>3
  <2>1. s[i] = s[j + n] /\ i \in 1..Len(s) /\ j + n \in 1..Len(s)
    BY <1>1, <1>2, <1>4
  <2>2. i = j + n
    BY <2>1, <1>4 DEF NoRepeats
  <2>3. QED
    BY <2>2
<1>9. NoRepeats(t)
  <2> SUFFICES ASSUME NEW i \in 1..n, NEW j \in 1..n, t[i] = t[j]
               PROVE  i = j
    BY <1>4 DEF NoRepeats
  <2>1. s[i] = s[j] /\ i \in 1..Len(s) /\ j \in 1..Len(s)
    BY <1>1, <1>4
  <2>2. QED
    BY <2>1, <1>4 DEF NoRepeats
<1>10. QED
  BY <1>5, <1>6, <1>7, <1>8, <1>9 DEF t, d

\* Two disjoint sequences without repeats, one after the other, have none.
LEMMA ConcatNoRepeats ==
    ASSUME NEW S, NEW s \in Seq(S), NEW t \in Seq(S),
           NoRepeats(s), NoRepeats(t), Range(s) \cap Range(t) = {}
    PROVE  NoRepeats(s \o t)
<1>1. /\ Len(s) \in Nat /\ DOMAIN s = 1..Len(s)
      /\ Len(t) \in Nat /\ DOMAIN t = 1..Len(t)
  BY LenProperties
<1>2. /\ DOMAIN (s \o t) = 1..(Len(s) + Len(t))
      /\ \A i \in 1..(Len(s) + Len(t)) :
            (s \o t)[i] = IF i <= Len(s) THEN s[i] ELSE t[i - Len(s)]
  BY ConcatProperties, LenProperties
<1>3. \A i \in 1..Len(s), j \in 1..Len(t) : s[i] # t[j]
  BY <1>1 DEF Range
<1> SUFFICES ASSUME NEW i \in 1..(Len(s) + Len(t)),
                    NEW j \in 1..(Len(s) + Len(t)),
                    (s \o t)[i] = (s \o t)[j]
             PROVE  i = j
  BY <1>2 DEF NoRepeats
<1>4. CASE i <= Len(s) /\ j <= Len(s)
  <2>1. i \in 1..Len(s) /\ j \in 1..Len(s) /\ s[i] = s[j]
    BY <1>1, <1>2, <1>4
  <2>2. QED
    BY <2>1, <1>1 DEF NoRepeats
<1>5. CASE i > Len(s) /\ j > Len(s)
  <2>1. /\ i - Len(s) \in 1..Len(t) /\ j - Len(s) \in 1..Len(t)
        /\ t[i - Len(s)] = t[j - Len(s)]
    BY <1>1, <1>2, <1>5
  <2>2. i - Len(s) = j - Len(s)
    BY <2>1, <1>1 DEF NoRepeats
  <2>3. QED
    BY <2>2, <1>1
<1>6. CASE i <= Len(s) /\ j > Len(s)
  <2>1. i \in 1..Len(s) /\ j - Len(s) \in 1..Len(t) /\ s[i] = t[j - Len(s)]
    BY <1>1, <1>2, <1>6
  <2>2. QED
    BY <2>1, <1>3
<1>7. CASE i > Len(s) /\ j <= Len(s)
  <2>1. j \in 1..Len(s) /\ i - Len(s) \in 1..Len(t) /\ s[j] = t[i - Len(s)]
    BY <1>1, <1>2, <1>7
  <2>2. QED
    BY <2>1, <1>3
<1>8. QED
  BY <1>1, <1>4, <1>5, <1>6, <1>7

\* Appending a new element keeps a sequence without repeats.
LEMMA AppendNoRepeats ==
    ASSUME NEW S, NEW s \in Seq(S), NEW e \in S, NoRepeats(s), e \notin Range(s)
    PROVE  /\ NoRepeats(Append(s, e))
           /\ Range(Append(s, e)) = Range(s) \cup {e}
<1> DEFINE u == <<e>>
<1>1. u \in Seq(S) /\ DOMAIN u = {1} /\ u[1] = e
  OBVIOUS
<1>2. Range(u) = {e} /\ NoRepeats(u) /\ Append(s, e) = s \o u
  BY <1>1, AppendIsConcat DEF Range, NoRepeats
<1> HIDE DEF u
<1>3. Range(s \o u) = Range(s) \cup {e}
  BY <1>1, <1>2, RangeConcatenation
<1>4. Range(s) \cap Range(u) = {}
  BY <1>2
<1>5. NoRepeats(s \o u)
  BY <1>1, <1>2, <1>4, ConcatNoRepeats
<1>6. QED
  BY <1>2, <1>3, <1>5

\* The sort permutes the buffer: same length, same measurements, no repeats.
LEMMA OrderedProperties ==
    ASSUME NEW S, NEW s \in Seq(S), NEW t \in Ordered(s)
    PROVE  /\ t \in Seq(S) /\ Len(t) = Len(s) /\ Range(t) = Range(s)
           /\ NoRepeats(s) => NoRepeats(t)
<1>1. CASE ~NeedsSort
  BY <1>1 DEF Ordered
<1>2. CASE NeedsSort
  <2>1. /\ Len(s) \in Nat /\ DOMAIN s = 1..Len(s)
        /\ \A i \in 1..Len(s) : s[i] \in S
    BY ElementOfSeq, LenProperties
  <2>2. PICK p \in Bijection(DOMAIN s, DOMAIN s) :
                 t = [i \in DOMAIN s |-> s[p[i]]]
    BY <1>2 DEF Ordered
  <2>3. /\ p \in [1..Len(s) -> 1..Len(s)]
        /\ \A i, j \in 1..Len(s) : p[i] = p[j] => i = j
        /\ \A j \in 1..Len(s) : \E i \in 1..Len(s) : p[i] = j
    BY <2>1, <2>2 DEF Bijection, Injection, Surjection, IsInjective
  <2>4. t \in [1..Len(s) -> S] /\ \A i \in 1..Len(s) : t[i] = s[p[i]]
    BY <2>1, <2>2, <2>3
  <2>5. t \in Seq(S) /\ Len(t) = Len(s)
    BY <2>1, <2>4, FunctionIsSequence
  <2>6. Range(t) = Range(s)
    <3>1. /\ Range(t) = {t[i] : i \in 1..Len(s)}
          /\ Range(s) = {s[i] : i \in 1..Len(s)}
      BY <2>5, RangeEquality
    <3>2. \A i \in 1..Len(s) : t[i] \in Range(s)
      BY <3>1, <2>3, <2>4
    <3>3. \A i \in 1..Len(s) : s[i] \in Range(t)
      <4> TAKE i \in 1..Len(s)
      <4>1. PICK k \in 1..Len(s) : p[k] = i
        BY <2>3
      <4>2. t[k] = s[i]
        BY <4>1, <2>4
      <4>3. QED
        BY <3>1, <4>2
    <3>4. QED
      BY <3>1, <3>2, <3>3
  <2>7. NoRepeats(s) => NoRepeats(t)
    <3> SUFFICES ASSUME NoRepeats(s),
                        NEW i \in 1..Len(s), NEW j \in 1..Len(s), t[i] = t[j]
                 PROVE  i = j
      BY <2>4 DEF NoRepeats
    <3>1. s[p[i]] = s[p[j]] /\ p[i] \in DOMAIN s /\ p[j] \in DOMAIN s
      BY <2>1, <2>3, <2>4
    <3>2. p[i] = p[j]
      BY <3>1 DEF NoRepeats
    <3>3. QED
      BY <3>2, <2>3
  <2>8. QED
    BY <2>5, <2>6, <2>7
<1>3. QED
  BY <1>1, <1>2

\* What bundle_measurements keeps of a batch: its convertible measurements.
LEMMA ConvertiblePartProperties ==
    ASSUME NEW S, NEW s \in Seq(S), NEW v \in ConvertibleParts(s)
    PROVE  /\ v \in Seq(S) /\ Len(v) <= Len(s)
           /\ Range(v) = Range(s) \cap Convertible
           /\ NoRepeats(s) => NoRepeats(v)
<1> DEFINE valid == {i \in DOMAIN s : s[i] \in Convertible}
<1>1. /\ Len(s) \in Nat /\ DOMAIN s = 1..Len(s)
      /\ \A i \in 1..Len(s) : s[i] \in S
  BY ElementOfSeq, LenProperties
<1>2. PICK n \in 0..Len(s) :
        \E f \in [1..n -> valid] :
           /\ \A i, j \in 1..n : i < j => f[i] < f[j]
           /\ Range(f) = valid
           /\ v = [i \in 1..n |-> s[f[i]]]
  BY DEF ConvertibleParts
<1>3. PICK f \in [1..n -> valid] :
           /\ \A i, j \in 1..n : i < j => f[i] < f[j]
           /\ Range(f) = valid
           /\ v = [i \in 1..n |-> s[f[i]]]
  BY <1>2
<1>4. /\ n \in Nat
      /\ \A i \in 1..n : f[i] \in 1..Len(s) /\ s[f[i]] \in Convertible
  BY <1>1, <1>2, <1>3
<1>5. v \in [1..n -> S] /\ \A i \in 1..n : v[i] = s[f[i]]
  BY <1>1, <1>3, <1>4
<1>6. v \in Seq(S) /\ Len(v) = n
  BY <1>4, <1>5, FunctionIsSequence
<1>7. Range(v) = Range(s) \cap Convertible
  <2>1. /\ Range(v) = {v[i] : i \in 1..n}
        /\ Range(s) = {s[i] : i \in 1..Len(s)}
    BY <1>6, RangeEquality
  <2>2. \A i \in 1..Len(s) : s[i] \in Convertible => \E k \in 1..n : f[k] = i
    BY <1>1, <1>3 DEF Range
  <2>3. \A i \in 1..n : v[i] \in Range(s) \cap Convertible
    BY <2>1, <1>4, <1>5
  <2>4. ASSUME NEW i \in 1..Len(s), s[i] \in Convertible
        PROVE  s[i] \in Range(v)
    <3>1. PICK k \in 1..n : f[k] = i
      BY <2>2, <2>4
    <3>2. v[k] = s[i]
      BY <3>1, <1>5
    <3>3. QED
      BY <3>2, <2>1
  <2>5. QED
    BY <2>1, <2>3, <2>4
<1>8. NoRepeats(s) => NoRepeats(v)
  <2> SUFFICES ASSUME NoRepeats(s), NEW i \in 1..n, NEW j \in 1..n, v[i] = v[j]
               PROVE  i = j
    BY <1>5 DEF NoRepeats
  <2>1. f[i] = f[j]
    BY <1>1, <1>4, <1>5 DEF NoRepeats
  <2>2. ~(i < j) /\ ~(j < i)
    BY <2>1, <1>3, <1>4
  <2>3. QED
    BY <2>2
<1>9. QED
  BY <1>2, <1>6, <1>7, <1>8
-----------------------------------------------------------------------------
(* Types and bounds.  The Boolean flags are treated apart from the numbers   *)
(* and sequences.                                                          *)

USE DEF Never, vars, inputVars, tuningVars, flagVars, controlVars, ghostVars

Flags ==
    /\ connection_lost \in BOOLEAN
    /\ out_of_retention_period_range \in BOOLEAN
    /\ retention_buffer_sorted \in BOOLEAN
    /\ stopping \in BOOLEAN
    /\ cancelled \in BOOLEAN
    /\ healthy \in BOOLEAN
    /\ gave_up \in BOOLEAN

Bounds ==
    /\ queue \in Seq(Measurements) /\ Len(queue) <= QueueSize
    /\ arrived \in 0..NumMeasurements
    /\ buffer \in Seq(Measurements)
    /\ Len(buffer) <= max_measurements_buffer_size
    /\ current_measurements_per_write \in 1..max_measurements_per_write
    /\ current_retry_interval \in 0..max_retry_interval
    /\ last_write_retry \in {Never} \cup 0..max_retry_interval
    /\ client \in {"none", "open", "closed"}
    /\ pc \in {"drain", "gate", "dial", "compose", "post", "aclose", "sleep",
               "flush", "close", "died", "stopped"}
    /\ drained \in 0..max_measurements_per_write
    /\ local_buffer \in Seq(Measurements)
    /\ cause \in {"none", "dial", "retryable", "transport"}
    /\ before \in Nat
    /\ stored \subseteq Measurements
    /\ delivered \subseteq Measurements
    /\ discarded \subseteq Measurements

\* The type invariant is the conjunction of its two halves, proved apart.
LEMMA TypeParts == TypeOK <=> Flags /\ Bounds
  BY Zenon DEF TypeOK, Flags, Bounds

\* Every step keeps the flags, the client, the place and the ghost sets in
\* their types.
LEMMA FlagStep == Flags /\ [Next]_vars => Flags'
<1> SUFFICES ASSUME Flags, [Next]_vars PROVE Flags'
  OBVIOUS
<1>1. CASE DrainOne
  BY Zenon, <1>1 DEF Flags, DrainOne, append_measurement, SortedAfterAppend
<1>2. CASE DrainEnds
  BY Zenon, <1>2 DEF Flags, DrainEnds
<1>3. CASE Wake
  BY Zenon, <1>3 DEF Flags, Wake
<1>4. CASE SkipWrite
  BY Zenon, <1>4 DEF Flags, SkipWrite
<1>5. CASE StartWrite
  BY Zenon, <1>5 DEF Flags, StartWrite
<1>6. CASE DialSucceeds
  BY Zenon, <1>6 DEF Flags, DialSucceeds
<1>7. CASE DialFails
  BY Zenon, <1>7 DEF Flags, DialFails
<1>8. CASE Compose
  BY Zenon, <1>8 DEF Flags, Compose
<1>9. CASE PostSucceeds
  BY Zenon, <1>9 DEF Flags, PostSucceeds
<1>10. CASE PostOutOfRetention
  BY Zenon, <1>10 DEF Flags, PostOutOfRetention, WriteFails
<1>11. CASE PostMalformed
  BY Zenon, <1>11 DEF Flags, PostMalformed, WriteFails
<1>12. CASE PostTooLarge
  BY Zenon, <1>12 DEF Flags, PostTooLarge, WriteFails
<1>13. CASE PostMisconfigured
  BY Zenon, <1>13 DEF Flags, PostMisconfigured, WriteFails
<1>14. CASE PostOther
  BY Zenon, <1>14 DEF Flags, PostOther, WriteFails
<1>15. CASE PostRetryable
  BY Zenon, <1>15 DEF Flags, PostRetryable, LoseClient
<1>16. CASE PostLost
  BY Zenon, <1>16 DEF Flags, PostLost, LoseClient
<1>17. CASE AcloseEnds
  BY Zenon, <1>17 DEF Flags, AcloseEnds
<1>18. CASE RaiseException
  BY Zenon, <1>18 DEF Flags, RaiseException, InterruptRequest
<1>19. CASE FlushWrites
  BY Zenon, <1>19 DEF Flags, FlushWrites
<1>20. CASE FlushEnds
  BY Zenon, <1>20 DEF Flags, FlushEnds
<1>21. CASE Close
  BY Zenon, <1>21 DEF Flags, Close
<1>22. CASE Put
  BY Zenon, <1>22 DEF Flags, Put
<1>23. CASE Tick
  BY Zenon, <1>23 DEF Flags, Tick
<1>24. CASE Recover
  BY Zenon, <1>24 DEF Flags, Recover
<1>25. CASE Cancel
  BY Zenon, <1>25 DEF Flags, Cancel, InterruptRequest
<1>26. CASE FlushTimesOut
  BY Zenon, <1>26 DEF Flags, FlushTimesOut, InterruptRequest
<1>27. CASE Stopped
  BY Zenon, <1>27 DEF Flags, Stopped
<1>28. CASE UNCHANGED vars
  BY Zenon, <1>28 DEF Flags
<1>29. QED
  BY <1>1, <1>2, <1>3, <1>4, <1>5, <1>6, <1>7, <1>8, <1>9, <1>10, <1>11,
     <1>12, <1>13, <1>14, <1>15, <1>16, <1>17, <1>18, <1>19, <1>20,
     <1>21, <1>22, <1>23, <1>24, <1>25, <1>26, <1>27, <1>28
     DEF Next, Writer, PostEnds, Environment

\* The ranges the helpers of the state keep to.
LEMMA HelperTypes ==
    ASSUME Bounds
    PROVE  /\ Doubled \in 0..max_retry_interval
           /\ Halved \in 1..max_measurements_per_write
           /\ DropCount \in Nat
           /\ Rest \in Seq(Measurements) /\ Len(Rest) <= Len(buffer)
           /\ Range(Batch) \subseteq Measurements
           /\ Range(local_buffer) \subseteq Measurements
<1>1. Len(buffer) \in Nat /\ Len(local_buffer) \in Nat
  BY LenProperties DEF Bounds
<1>2. Doubled \in 0..max_retry_interval
  BY WriterAssumption DEF Bounds, Doubled, Least
<1>3. Halved \in 1..max_measurements_per_write
  BY WriterAssumption DEF Bounds, Halved, Greatest
<1>4. DropCount \in Nat
  BY <1>1, WriterAssumption DEF DropCount, Least
<1>5. Rest \in Seq(Measurements) /\ Len(Rest) <= Len(buffer)
  BY <1>1, DropHeadProperties DEF Bounds, Rest
<1>6. Batch \in Seq(Measurements)
  BY <1>1, TakeProperties DEF Bounds, Batch
<1>7. /\ Range(Batch) \subseteq Measurements
      /\ Range(local_buffer) \subseteq Measurements
  BY <1>6, RangeOfSeq DEF Bounds
<1>8. QED
  BY <1>2, <1>3, <1>4, <1>5, <1>7

\* A drained measurement fits: append_measurement makes room first.
LEMMA DrainOneBounds == Bounds /\ DrainOne => Bounds'
<1> SUFFICES ASSUME Bounds, DrainOne PROVE Bounds'
  OBVIOUS
<1> DEFINE m == Head(queue)
           kept == DropHead(buffer, DropCount)
<1>1. /\ m \in Measurements
      /\ Tail(queue) \in Seq(Measurements) /\ Len(Tail(queue)) <= QueueSize
  BY HeadTailProperties, LenProperties, WriterAssumption DEF DrainOne, Bounds
<1>2. Len(buffer) \in Nat
  BY LenProperties DEF Bounds
<1>3. kept \in Seq(Measurements) /\ Len(kept) < max_measurements_buffer_size
  <2>1. /\ DropCount \in Nat /\ DropCount <= Len(buffer)
        /\ Len(buffer) - DropCount < max_measurements_buffer_size
    BY <1>2, WriterAssumption DEF Bounds, DropCount, Least
  <2>2. kept \in Seq(Measurements) /\ Len(kept) = Len(buffer) - DropCount
    BY <1>2, <2>1, DropHeadProperties DEF Bounds
  <2>3. QED
    BY <2>1, <2>2
<1>4. /\ Append(kept, m) \in Seq(Measurements)
      /\ Len(Append(kept, m)) <= max_measurements_buffer_size
  BY <1>1, <1>3, AppendProperties, LenProperties, WriterAssumption
<1>5. Range(Take(buffer, DropCount)) \subseteq Measurements
  BY HelperTypes, TakeProperties, RangeOfSeq DEF Bounds
<1>6. /\ buffer' = Append(kept, m)
      /\ discarded' = discarded \cup Range(Take(buffer, DropCount))
  BY DEF DrainOne, append_measurement
<1>7. drained' \in 0..max_measurements_per_write
  BY WriterAssumption DEF DrainOne, Bounds
<1>8. discarded' \subseteq Measurements
  BY <1>5, <1>6 DEF Bounds
<1> HIDE DEF m, kept
<1>9. QED
  BY <1>1, <1>4, <1>6, <1>7, <1>8 DEF DrainOne, Bounds

\* Sorting and bundling do not lengthen the buffer, and shorten it when the
\* batch has nothing to send.
LEMMA PrepareProperties ==
    ASSUME Bounds, NEW ordered \in Ordered(buffer),
           NEW batch, batch = Take(ordered, current_measurements_per_write),
           NEW valid \in ConvertibleParts(batch)
    PROVE  /\ ordered \in Seq(Measurements) /\ Len(ordered) = Len(buffer)
           /\ batch \in Seq(Measurements) /\ Len(batch) <= Len(ordered)
           /\ Len(batch) <= current_measurements_per_write
           /\ buffer # <<>> => Len(batch) >= 1
           /\ valid \in Seq(Measurements) /\ Len(valid) <= Len(batch)
           /\ Bundled(valid, batch, ordered) \in Seq(Measurements)
           /\ Len(Bundled(valid, batch, ordered)) =
                  Len(buffer) - Len(batch) + Len(valid)
<1>1. ordered \in Seq(Measurements) /\ Len(ordered) = Len(buffer)
  BY OrderedProperties DEF Bounds
<1>2. /\ current_measurements_per_write \in Nat
      /\ current_measurements_per_write >= 1
      /\ Len(buffer) \in Nat
  BY WriterAssumption, LenProperties DEF Bounds
<1>3. /\ batch \in Seq(Measurements) /\ Len(batch) \in Nat
      /\ Len(batch) = Least(current_measurements_per_write, Len(ordered))
  BY <1>1, <1>2, TakeProperties, LenProperties
<1>4. buffer # <<>> => Len(buffer) >= 1
  BY EmptySeq DEF Bounds
<1>5. /\ Len(batch) <= Len(ordered)
      /\ Len(batch) <= current_measurements_per_write
      /\ buffer # <<>> => Len(batch) >= 1
  BY <1>1, <1>2, <1>3, <1>4 DEF Least
<1>6. valid \in Seq(Measurements) /\ Len(valid) <= Len(batch)
  BY <1>3, ConvertiblePartProperties
<1>7. /\ DropHead(ordered, Len(batch)) \in Seq(Measurements)
      /\ Len(DropHead(ordered, Len(batch))) = Len(buffer) - Len(batch)
  BY <1>1, <1>3, <1>5, DropHeadProperties
<1>8. /\ Bundled(valid, batch, ordered) \in Seq(Measurements)
      /\ Len(Bundled(valid, batch, ordered)) =
             Len(buffer) - Len(batch) + Len(valid)
  BY <1>2, <1>3, <1>6, <1>7, ConcatProperties, LenProperties DEF Bundled
<1>9. QED
  BY <1>1, <1>3, <1>5, <1>6, <1>8

\* Composing a batch keeps the bounds: sorting and cutting out what cannot be
\* converted never lengthen the buffer.
LEMMA ComposeBounds == Bounds /\ Compose => Bounds'
<1> SUFFICES ASSUME Bounds, Compose PROVE Bounds'
  OBVIOUS
<1>1. PICK ordered \in Ordered(buffer) :
        \E valid \in ConvertibleParts(
                       Take(ordered, current_measurements_per_write)) :
            Prepare(ordered, Take(ordered, current_measurements_per_write),
                    valid)
  BY DEF Compose
<1> DEFINE batch == Take(ordered, current_measurements_per_write)
<1>2. PICK valid \in ConvertibleParts(batch) : Prepare(ordered, batch, valid)
  BY <1>1
<1>3. /\ batch \in Seq(Measurements) /\ valid \in Seq(Measurements)
      /\ Len(valid) <= Len(batch)
      /\ Bundled(valid, batch, ordered) \in Seq(Measurements)
      /\ Len(Bundled(valid, batch, ordered)) =
             Len(buffer) - Len(batch) + Len(valid)
  BY PrepareProperties
<1>4. /\ Len(batch) \in Nat /\ Len(valid) \in Nat /\ Len(buffer) \in Nat
      /\ Range(batch) \subseteq Measurements
  BY <1>3, LenProperties, RangeOfSeq DEF Bounds
<1> HIDE DEF batch
<1>5. /\ buffer' \in Seq(Measurements)
      /\ Len(buffer') <= max_measurements_buffer_size
  BY <1>2, <1>3, <1>4, WriterAssumption DEF Bounds, Prepare
<1>6. /\ discarded' \subseteq Measurements
      /\ local_buffer' \in Seq(Measurements)
  BY <1>2, <1>3, <1>4 DEF Bounds, Prepare
<1>8. last_write_retry' \in {Never} \cup 0..max_retry_interval
  BY <1>2, WriterAssumption DEF Bounds, Prepare
<1>9. pc' \in {"post", "flush", "sleep"}
  BY <1>2 DEF AfterWrite, Prepare
<1>10. QED
  BY <1>5, <1>6, <1>8, <1>9 DEF Compose, Bounds

\* No answer of the database breaks a bound: the batch size stays between 1
\* and its maximum, the interval at or below its maximum.
LEMMA PostBounds == Bounds /\ PostEnds => Bounds'
<1> SUFFICES ASSUME Bounds, PostEnds PROVE Bounds'
  OBVIOUS
<1>1. /\ <<>> \in Seq(Measurements)
      /\ Len(Rest) \in Nat /\ Len(buffer) \in Nat
  BY HelperTypes, EmptySeq, LenProperties DEF Bounds
<1>2. /\ DropHead(buffer, 1) \in Seq(Measurements)
      /\ Len(DropHead(buffer, 1)) <= Len(buffer)
  BY <1>1, DropHeadProperties DEF Bounds
<1>3. Range(Take(buffer, 1)) \subseteq Measurements
  BY <1>1, TakeProperties, RangeOfSeq DEF Bounds
<1>4. MayHaveStored => stored' \subseteq Measurements
  BY HelperTypes DEF Bounds, MayHaveStored
<1>5. CASE PostSucceeds
  BY SMTT(30), <1>1, <1>5, HelperTypes, WriterAssumption
     DEF PostSucceeds, Answered, AfterWrite, Bounds, Least
<1>6. CASE PostOutOfRetention
  BY SMTT(30), <1>1, <1>4, <1>6, HelperTypes, WriterAssumption
     DEF PostOutOfRetention, Answered, AfterWrite, Bounds, WriteFails
<1>7. CASE PostMalformed
  BY SMTT(30), <1>1, <1>4, <1>7, HelperTypes, WriterAssumption
     DEF PostMalformed, Answered, AfterWrite, Bounds, WriteFails
<1>8. CASE PostTooLarge
  <2>1. CASE current_measurements_per_write = 1
    BY SMTT(30), <1>1, <1>2, <1>3, <1>8, <2>1, WriterAssumption
       DEF PostTooLarge, Answered, AfterWrite, Bounds, WriteFails
  <2>2. CASE current_measurements_per_write # 1
    BY SMTT(30), <1>1, <1>8, <2>2, HelperTypes, WriterAssumption
       DEF PostTooLarge, Answered, AfterWrite, Bounds, WriteFails
  <2>3. QED
    BY <2>1, <2>2
<1>9. CASE PostMisconfigured
  BY SMTT(30), <1>1, <1>9, HelperTypes, WriterAssumption
     DEF PostMisconfigured, Answered, AfterWrite, Bounds, WriteFails
<1>10. CASE PostOther
  BY SMTT(30), <1>1, <1>4, <1>10, HelperTypes, WriterAssumption
     DEF PostOther, Answered, AfterWrite, Bounds, WriteFails
<1>11. CASE PostRetryable
  BY SMTT(30), <1>1, <1>4, <1>11, HelperTypes, WriterAssumption
     DEF PostRetryable, Answered, AfterWrite, Bounds, LoseClient, Least
<1>12. CASE PostLost
  BY SMTT(30), <1>1, <1>4, <1>12, HelperTypes, WriterAssumption
     DEF PostLost, Answered, AfterWrite, Bounds, LoseClient
<1>13. QED
  BY <1>5, <1>6, <1>7, <1>8, <1>9, <1>10, <1>11, <1>12 DEF PostEnds

\* Every step keeps the bounds of the queue, the buffer and the counters.
LEMMA BoundsStep == Bounds /\ [Next]_vars => Bounds'
<1> SUFFICES ASSUME Bounds, [Next]_vars PROVE Bounds'
  OBVIOUS
<1>1. /\ <<>> \in Seq(Measurements) /\ Len(buffer) \in Nat
      /\ Range(local_buffer) \subseteq Measurements
  BY EmptySeq, LenProperties, HelperTypes DEF Bounds
<1>2. CASE DrainOne
  BY <1>2, DrainOneBounds
<1>3. CASE Compose
  BY <1>3, ComposeBounds
<1>4. CASE PostEnds
  BY <1>4, PostBounds
<1>5. CASE Put
  <2>1. /\ Append(queue, arrived + 1) \in Seq(Measurements)
        /\ Len(Append(queue, arrived + 1)) <= QueueSize
    BY <1>5, AppendProperties, LenProperties, WriterAssumption DEF Put, Bounds, Measurements
  <2>2. QED
    BY <1>5, <2>1, WriterAssumption DEF Put, Bounds
<1>6. CASE DrainEnds
  BY <1>1, <1>6, WriterAssumption
     DEF DrainEnds, Bounds, AfterWrite
<1>7. CASE Wake
  BY <1>1, <1>7, WriterAssumption
     DEF Wake, Bounds, AfterWrite
<1>8. CASE SkipWrite
  BY <1>1, <1>8, WriterAssumption
     DEF SkipWrite, Bounds, AfterWrite
<1>9. CASE StartWrite
  BY <1>1, <1>9, WriterAssumption
     DEF StartWrite, Bounds, AfterWrite
<1>10. CASE DialSucceeds
  BY <1>1, <1>10, WriterAssumption
     DEF DialSucceeds, Bounds, AfterWrite
<1>11. CASE DialFails
  BY <1>1, <1>11, WriterAssumption
     DEF DialFails, Bounds, AfterWrite
<1>12. CASE AcloseEnds
  BY <1>1, <1>12, HelperTypes, WriterAssumption
     DEF AcloseEnds, Bounds, AfterWrite
<1>13. CASE RaiseException
  BY <1>1, <1>13, WriterAssumption
     DEF RaiseException, Bounds, InterruptRequest, MayHaveStored
<1>14. CASE FlushWrites
  BY <1>1, <1>14, WriterAssumption
     DEF FlushWrites, Bounds
<1>15. CASE FlushEnds
  BY <1>1, <1>15, WriterAssumption
     DEF FlushEnds, Bounds
<1>16. CASE Close
  BY <1>1, <1>16, WriterAssumption
     DEF Close, Bounds
<1>17. CASE Tick
  BY <1>1, <1>17, WriterAssumption
     DEF Tick, Bounds
<1>18. CASE Recover
  BY <1>1, <1>18, WriterAssumption
     DEF Recover, Bounds
<1>19. CASE Cancel
  BY <1>1, <1>19, WriterAssumption
     DEF Cancel, Bounds, InterruptRequest, MayHaveStored
<1>20. CASE FlushTimesOut
  BY <1>1, <1>20, WriterAssumption
     DEF FlushTimesOut, Bounds, InterruptRequest, MayHaveStored
<1>21. CASE Stopped
  BY <1>1, <1>21, WriterAssumption
     DEF Stopped, Bounds
<1>22. CASE UNCHANGED vars
  BY <1>22 DEF Bounds
<1>23. QED
  BY <1>2, <1>3, <1>4, <1>5, <1>6, <1>7, <1>8, <1>9, <1>10, <1>11,
     <1>12, <1>13, <1>14, <1>15, <1>16, <1>17, <1>18, <1>19, <1>20,
     <1>21, <1>22
     DEF Next, Writer, Environment

\* The buffer never outgrows max_measurements_buffer_size, the batch size stays
\* between one and max_measurements_per_write and the retry interval never
\* exceeds max_retry_interval, for every value of the four.
THEOREM TypeCorrect == Spec => []TypeOK
<1>1. Init => Flags
  BY DEF Init, Flags
<1>2. Init => Bounds
  BY EmptySeq, WriterAssumption DEF Init, Bounds
<1>3. TypeOK /\ [Next]_vars => TypeOK'
  BY TypeParts, FlagStep, BoundsStep, PTL
<1>4. QED
  BY <1>1, <1>2, <1>3, TypeParts, PTL DEF Spec
-----------------------------------------------------------------------------
(* The safety properties.                                                  *)

USE DEF vars, inputVars, tuningVars, flagVars, controlVars, ghostVars
-----------------------------------------------------------------------------
(* The posted batch.                                                       *)

\* The first Len(s) elements of s followed by anything are s.
LEMMA TakeOfConcat ==
    ASSUME NEW S, NEW s \in Seq(S), NEW t \in Seq(S)
    PROVE  Take(s \o t, Len(s)) = s
<1>1. /\ s \o t \in Seq(S) /\ Len(s \o t) = Len(s) + Len(t)
      /\ Len(s) \in Nat /\ Len(t) \in Nat
      /\ \A i \in 1..Len(s) : (s \o t)[i] = s[i]
  BY ConcatProperties, LenProperties
<1> DEFINE c == s \o t
<1>2. Least(Len(s), Len(c)) = Len(s)
  BY <1>1 DEF Least
<1> HIDE DEF c
<1>3. /\ Take(c, Len(s)) \in Seq(S)
      /\ Len(Take(c, Len(s))) = Len(s)
      /\ \A i \in 1..Len(s) : Take(c, Len(s))[i] = c[i]
  BY <1>1, <1>2, TakeProperties DEF c
<1>4. \A i \in 1..Len(s) : Take(c, Len(s))[i] = s[i]
  BY <1>1, <1>3 DEF c
<1>5. Take(c, Len(s)) = s
  BY <1>3, <1>4, SeqEqual
<1>6. QED
  BY <1>5 DEF c

\* The batch that is about to be posted is what the buffer now begins with.
LEMMA ComposeHead == Bounds /\ Compose => PostedIsHead'
<1> SUFFICES ASSUME Bounds, Compose PROVE PostedIsHead'
  OBVIOUS
<1>1. PICK ordered \in Ordered(buffer) :
        \E valid \in ConvertibleParts(
                       Take(ordered, current_measurements_per_write)) :
            Prepare(ordered, Take(ordered, current_measurements_per_write),
                    valid)
  BY DEF Compose
<1> DEFINE batch == Take(ordered, current_measurements_per_write)
<1>2. PICK valid \in ConvertibleParts(batch) : Prepare(ordered, batch, valid)
  BY <1>1
<1> DEFINE tail == DropHead(ordered, Len(batch))
<1>3. /\ ordered \in Seq(Measurements)
      /\ batch \in Seq(Measurements) /\ valid \in Seq(Measurements)
      /\ Len(valid) <= Len(batch)
      /\ Len(batch) <= current_measurements_per_write
  BY PrepareProperties
<1>4. /\ tail \in Seq(Measurements) /\ Len(batch) \in Nat
      /\ Len(valid) \in Nat /\ current_measurements_per_write \in Nat
  BY <1>3, DropHeadProperties, LenProperties, WriterAssumption DEF Bounds
<1>5. /\ buffer' = valid \o tail /\ local_buffer' = valid
      /\ current_measurements_per_write' = current_measurements_per_write
  BY <1>2 DEF Compose, Prepare, Bundled
<1>6. pc' = "post" => valid # <<>>
  BY <1>2 DEF Prepare, AfterWrite
<1> HIDE DEF batch, tail
<1>7. Take(valid \o tail, Len(valid)) = valid
  BY <1>3, <1>4, TakeOfConcat
<1>8. Len(valid) <= Len(valid \o tail)
  BY <1>3, <1>4, ConcatProperties, LenProperties
<1>9. QED
  BY <1>3, <1>4, <1>5, <1>6, <1>7, <1>8 DEF PostedIsHead, Batch

\* No step taken while the request is awaited moves the batch away from the
\* head of the buffer.
LEMMA HeadStep == PostedIsHead /\ Bounds /\ [Next]_vars => PostedIsHead'
<1> SUFFICES ASSUME PostedIsHead, Bounds, [Next]_vars PROVE PostedIsHead'
  OBVIOUS
<1>1. CASE Compose
  BY <1>1, ComposeHead
<1>2. CASE Put \/ Tick \/ Recover \/ Stopped \/ UNCHANGED vars
  BY <1>2 DEF PostedIsHead, Batch, Put, Tick, Recover, Stopped
<1>3. CASE /\ Next
           /\ ~(Compose \/ Put \/ Tick \/ Recover \/ Stopped)
  <2>1. pc' # "post"
    BY <1>3 DEF Next, Writer, Environment, PostEnds, DrainOne, DrainEnds, Wake,
       SkipWrite, StartWrite, DialSucceeds, DialFails, AcloseEnds, AfterWrite,
       RaiseException, FlushWrites, FlushEnds, Close, Cancel, FlushTimesOut,
       PostSucceeds, PostOutOfRetention, PostMalformed, PostTooLarge,
       PostMisconfigured, PostOther, PostRetryable, PostLost, WriteFails,
       LoseClient
  <2>2. QED
    BY <2>1 DEF PostedIsHead
<1>4. QED
  BY <1>1, <1>2, <1>3

\* The batch awaited by a POST is the head of the buffer when the answer comes,
\* however the wait is interleaved with producers and time.
THEOREM PostedHeadCorrect == Spec => []PostedIsHead
<1>1. Init => PostedIsHead
  BY DEF Init, PostedIsHead
<1>2. TypeOK => Bounds
  BY TypeParts
<1>3. QED
  BY <1>1, <1>2, HeadStep, TypeCorrect, PTL DEF Spec

\* Every step keeps stored from shrinking; only PostSucceeds adds to delivered,
\* and what it adds it has stored.
LEMMA DeliveredStep ==
    PostedIsHead /\ DeliveredIsStored /\ [Next]_vars => DeliveredIsStored'
<1> SUFFICES ASSUME PostedIsHead, DeliveredIsStored, [Next]_vars
             PROVE  DeliveredIsStored'
  OBVIOUS
<1>1. CASE PostSucceeds
  <2>1. Batch = local_buffer
    BY <1>1 DEF PostSucceeds, Answered, PostedIsHead
  <2>2. QED
    BY <1>1, <2>1 DEF PostSucceeds, DeliveredIsStored
<1>2. CASE /\ Next /\ ~PostSucceeds
  <2>1. delivered' = delivered /\ stored \subseteq stored'
    BY <1>2 DEF Next, Writer, Environment, PostEnds, DrainOne, DrainEnds, Wake,
       SkipWrite, StartWrite, DialSucceeds, DialFails, Compose, AcloseEnds,
       RaiseException, FlushWrites, FlushEnds, Close, Cancel, FlushTimesOut,
       PostOutOfRetention, PostMalformed, PostTooLarge, PostMisconfigured,
       PostOther, PostRetryable, PostLost, LoseClient, MayHaveStored,
       InterruptRequest, Put, Tick, Recover, Stopped
  <2>2. QED
    BY <2>1 DEF DeliveredIsStored
<1>3. CASE UNCHANGED vars
  BY <1>3 DEF DeliveredIsStored
<1>4. QED
  BY <1>1, <1>2, <1>3

\* Nothing leaves the buffer as written that the database does not hold.
THEOREM DeliveredCorrect == Spec => []DeliveredIsStored
<1>1. Init => DeliveredIsStored
  BY DEF Init, DeliveredIsStored
<1>2. QED
  BY <1>1, DeliveredStep, PostedHeadCorrect, PTL DEF Spec
-----------------------------------------------------------------------------
(* Conservation.                                                           *)

\* Settling the first n entries of the buffer, one way or the other.
LEMMA CutConserves ==
    ASSUME Bounds, Conserved, NEW n \in Nat, n <= Len(buffer),
           buffer' = DropHead(buffer, n), UNCHANGED <<queue, arrived>>,
           \/ /\ delivered' = delivered \cup Range(Take(buffer, n))
              /\ UNCHANGED discarded
           \/ /\ discarded' = discarded \cup Range(Take(buffer, n))
              /\ UNCHANGED delivered
    PROVE  Conserved'
<1> DEFINE gone == Range(Take(buffer, n))
           left == Range(DropHead(buffer, n))
<1>1. buffer \in Seq(Measurements) /\ NoRepeats(buffer)
  BY DEF Bounds, Conserved
<1>2. /\ NoRepeats(DropHead(buffer, n))
      /\ Range(buffer) = gone \cup left /\ gone \cap left = {}
  BY <1>1, SplitProperties
<1>3. NoRepeats(buffer') /\ Range(buffer') = left
  BY <1>2
<1> HIDE DEF gone, left
<1>4. \/ delivered' = delivered \cup gone /\ discarded' = discarded
      \/ discarded' = discarded \cup gone /\ delivered' = delivered
  BY DEF gone
<1>5. QED
  BY <1>2, <1>3, <1>4 DEF Conserved, Held, NoRepeats

\* A producer's put keeps the books: the new measurement is nowhere else.
LEMMA PutConserves == Bounds /\ Conserved /\ Put => Conserved'
<1> SUFFICES ASSUME Bounds, Conserved, Put PROVE Conserved'
  OBVIOUS
<1>1. /\ arrived \in Nat /\ arrived + 1 \in Measurements
      /\ 1..(arrived + 1) = (1..arrived) \cup {arrived + 1}
      /\ arrived + 1 \notin 1..arrived
  BY WriterAssumption DEF Bounds, Put, Measurements
<1>2. /\ arrived + 1 \notin Held \cup delivered \cup discarded
      /\ queue \in Seq(Measurements) /\ NoRepeats(queue)
  BY <1>1 DEF Conserved, Bounds
<1>3. /\ NoRepeats(Append(queue, arrived + 1))
      /\ Range(Append(queue, arrived + 1)) = Range(queue) \cup {arrived + 1}
  BY <1>1, <1>2, AppendNoRepeats DEF Held
<1>4. /\ NoRepeats(queue') /\ Range(queue') = Range(queue) \cup {arrived + 1}
      /\ 1..arrived' = (1..arrived) \cup {arrived + 1}
      /\ UNCHANGED <<buffer, delivered, discarded>>
  BY <1>1, <1>3 DEF Put
<1>5. QED
  BY <1>2, <1>4 DEF Conserved, Held, NoRepeats

\* Taking one measurement off the queue keeps the books, overflow included:
\* what a full buffer drops is counted as discarded.
LEMMA DrainOneConserves == Bounds /\ Conserved /\ DrainOne => Conserved'
<1> SUFFICES ASSUME Bounds, Conserved, DrainOne PROVE Conserved'
  OBVIOUS
<1> DEFINE m    == Head(queue)
           kept == DropHead(buffer, DropCount)
           gone == Range(Take(buffer, DropCount))
<1>1. /\ queue \in Seq(Measurements) /\ buffer \in Seq(Measurements)
      /\ NoRepeats(queue) /\ NoRepeats(buffer) /\ queue # <<>>
  BY DEF Bounds, Conserved, DrainOne
<1>2. /\ m \in Measurements
      /\ NoRepeats(Tail(queue))
      /\ Range(queue) = {m} \cup Range(Tail(queue))
      /\ m \notin Range(Tail(queue))
  <2>1. Len(queue) >= 1 /\ Len(queue) \in Nat
    BY <1>1, EmptySeq
  <2>2. Tail(queue) = DropHead(queue, 1)
    BY <1>1, TailIsSubSeq DEF DropHead
  <2>3. /\ NoRepeats(DropHead(queue, 1))
        /\ Range(queue) = Range(Take(queue, 1)) \cup Range(DropHead(queue, 1))
        /\ Range(Take(queue, 1)) \cap Range(DropHead(queue, 1)) = {}
    BY <1>1, <2>1, SplitProperties
  <2>4. Least(1, Len(queue)) = 1
    BY <2>1 DEF Least
  <2>5. /\ Take(queue, 1) \in Seq(Measurements) /\ Len(Take(queue, 1)) = 1
        /\ Take(queue, 1)[1] = queue[1]
    <3>1. /\ Take(queue, 1) \in Seq(Measurements)
          /\ Len(Take(queue, 1)) = Least(1, Len(queue))
          /\ \A i \in 1..Least(1, Len(queue)) : Take(queue, 1)[i] = queue[i]
      BY <1>1, TakeProperties
    <3>2. 1 \in 1..Least(1, Len(queue))
      BY <2>4
    <3>3. Take(queue, 1)[1] = queue[1]
      BY <3>1, <3>2
    <3>4. Len(Take(queue, 1)) = 1
      BY <2>4, <3>1
    <3>5. QED
      BY <3>1, <3>3, <3>4
  <2>6. Range(Take(queue, 1)) = {queue[1]} /\ queue[1] = m
    <3>1. Range(Take(queue, 1)) = {Take(queue, 1)[i] : i \in 1..1}
      BY <2>5, RangeEquality
    <3>2. queue[1] = m
      BY <1>1
    <3>3. QED
      BY <2>5, <3>1, <3>2
  <2>7. QED
    BY <1>1, <2>2, <2>3, <2>6, HeadTailProperties
<1>3. /\ NoRepeats(kept) /\ kept \in Seq(Measurements)
      /\ Range(buffer) = gone \cup Range(kept) /\ gone \cap Range(kept) = {}
  <2>1. DropCount \in Nat /\ DropCount <= Len(buffer)
    BY <1>1, LenProperties, WriterAssumption DEF DropCount, Least
  <2>2. QED
    BY <1>1, <2>1, SplitProperties, DropHeadProperties
<1>4. m \notin Range(kept)
  BY <1>2, <1>3 DEF Conserved
<1>5. /\ NoRepeats(Append(kept, m))
      /\ Range(Append(kept, m)) = Range(kept) \cup {m}
  BY <1>2, <1>3, <1>4, AppendNoRepeats
<1>6. /\ queue' = Tail(queue) /\ buffer' = Append(kept, m)
      /\ discarded' = discarded \cup gone
      /\ UNCHANGED <<delivered, arrived>>
  BY DEF DrainOne, append_measurement
<1> HIDE DEF m, kept, gone
<1>7. QED
  BY <1>2, <1>3, <1>5, <1>6 DEF Conserved, Held, NoRepeats

\* What is sorted and bundled is what was in the buffer, except for the
\* measurements that cannot be converted, which are discarded.
LEMMA ComposeConserves == Bounds /\ Conserved /\ Compose => Conserved'
<1> SUFFICES ASSUME Bounds, Conserved, Compose PROVE Conserved'
  OBVIOUS
<1>1. PICK ordered \in Ordered(buffer) :
        \E valid \in ConvertibleParts(
                       Take(ordered, current_measurements_per_write)) :
            Prepare(ordered, Take(ordered, current_measurements_per_write),
                    valid)
  BY DEF Compose
<1> DEFINE batch == Take(ordered, current_measurements_per_write)
<1>2. PICK valid \in ConvertibleParts(batch) : Prepare(ordered, batch, valid)
  BY <1>1
<1> DEFINE tail == DropHead(ordered, Len(batch))
<1>3. /\ ordered \in Seq(Measurements) /\ batch \in Seq(Measurements)
      /\ valid \in Seq(Measurements) /\ Len(batch) <= Len(ordered)
      /\ Len(batch) \in Nat /\ Len(ordered) \in Nat
  BY PrepareProperties, LenProperties
<1>4. NoRepeats(ordered) /\ Range(ordered) = Range(buffer)
  BY OrderedProperties DEF Bounds, Conserved
<1>5. Take(ordered, Len(batch)) = batch
  <2>1. current_measurements_per_write \in Nat
    BY WriterAssumption DEF Bounds
  <2>2. Len(batch) = Least(current_measurements_per_write, Len(ordered))
    BY <1>3, <2>1, TakeProperties
  <2>3. Least(Len(batch), Len(ordered)) =
            Least(current_measurements_per_write, Len(ordered))
    BY <1>3, <2>1, <2>2 DEF Least
  <2>4. QED
    BY <2>3 DEF Take
<1>6. /\ NoRepeats(batch) /\ NoRepeats(tail)
      /\ Range(ordered) = Range(batch) \cup Range(tail)
      /\ Range(batch) \cap Range(tail) = {}
      /\ tail \in Seq(Measurements)
  BY <1>3, <1>4, <1>5, SplitProperties, DropHeadProperties
<1>7. NoRepeats(valid) /\ Range(valid) = Range(batch) \cap Convertible
  BY <1>3, <1>6, ConvertiblePartProperties
<1>8. /\ buffer' = valid \o tail
      /\ discarded' = discarded \cup (Range(batch) \ Convertible)
      /\ UNCHANGED <<queue, arrived, delivered>>
  BY <1>2 DEF Compose, Prepare, Bundled
<1> HIDE DEF batch, tail
<1>9. /\ NoRepeats(valid \o tail)
      /\ Range(valid \o tail) = Range(valid) \cup Range(tail)
  BY <1>3, <1>6, <1>7, ConcatNoRepeats, RangeConcatenation
<1>10. QED
  BY <1>4, <1>6, <1>7, <1>8, <1>9 DEF Conserved, Held, NoRepeats

\* No answer of the database loses or duplicates a measurement.
LEMMA PostConserves ==
    Bounds /\ PostedIsHead /\ Conserved /\ PostEnds => Conserved'
<1> SUFFICES ASSUME Bounds, PostedIsHead, Conserved, PostEnds
             PROVE  Conserved'
  OBVIOUS
<1>1. pc = "post"
  BY DEF PostEnds, PostSucceeds, PostOutOfRetention, PostMalformed,
     PostTooLarge, PostMisconfigured, PostOther, PostRetryable, PostLost,
     Answered
<1>2. /\ Len(local_buffer) \in Nat /\ Len(local_buffer) <= Len(buffer)
      /\ Len(local_buffer) >= 1 /\ Len(buffer) \in Nat
  BY <1>1, EmptySeq, LenProperties DEF Bounds, PostedIsHead
<1>3. CASE PostSucceeds
  BY <1>2, <1>3, CutConserves DEF PostSucceeds, Rest, Batch
<1>4. CASE PostOutOfRetention
  BY <1>2, <1>4, CutConserves DEF PostOutOfRetention, WriteFails, Rest, Batch
<1>5. CASE PostMalformed
  BY <1>2, <1>5, CutConserves DEF PostMalformed, WriteFails, Rest, Batch
<1>6. CASE PostTooLarge /\ current_measurements_per_write = 1
  BY <1>2, <1>6, CutConserves DEF PostTooLarge, WriteFails
<1>7. CASE \/ PostTooLarge /\ current_measurements_per_write # 1
           \/ PostMisconfigured \/ PostOther \/ PostRetryable \/ PostLost
  <2>1. UNCHANGED <<queue, arrived, buffer, delivered, discarded>>
    BY <1>7 DEF PostTooLarge, PostMisconfigured, PostOther, PostRetryable,
       PostLost, WriteFails, LoseClient
  <2>2. QED
    BY <2>1 DEF Conserved, Held, NoRepeats
<1>8. QED
  BY <1>3, <1>4, <1>5, <1>6, <1>7 DEF PostEnds

\* Every step keeps the books.
LEMMA ConservedStep ==
    Bounds /\ PostedIsHead /\ Conserved /\ [Next]_vars => Conserved'
<1> SUFFICES ASSUME Bounds, PostedIsHead, Conserved, [Next]_vars
             PROVE  Conserved'
  OBVIOUS
<1>1. CASE Put \/ DrainOne \/ Compose \/ PostEnds
  BY <1>1, PutConserves, DrainOneConserves, ComposeConserves, PostConserves
<1>2. CASE \/ UNCHANGED vars
           \/ Next /\ ~(Put \/ DrainOne \/ Compose \/ PostEnds)
  <2>1. UNCHANGED <<queue, arrived, buffer, delivered, discarded>>
    BY <1>2 DEF Next, Writer, Environment, DrainEnds, Wake, SkipWrite,
       StartWrite, DialSucceeds, DialFails, AcloseEnds, RaiseException,
       FlushWrites, FlushEnds, Close, Cancel, FlushTimesOut,
       InterruptRequest, Tick, Recover, Stopped
  <2>2. QED
    BY <2>1 DEF Conserved, Held, NoRepeats
<1>3. QED
  BY <1>1, <1>2

\* No measurement is lost, duplicated or both kept and settled, whatever the
\* database answers and wherever the writer is interrupted.
THEOREM ConservedCorrect == Spec => []Conserved
<1>1. Init => Conserved
  <2> SUFFICES ASSUME Init PROVE Conserved
    OBVIOUS
  <2>1. Range(<<>>) = {} /\ NoRepeats(<<>>) /\ 1..0 = {}
    BY EmptySeq DEF Range, NoRepeats
  <2>2. QED
    BY <2>1 DEF Init, Conserved, Held
<1>2. TypeOK => Bounds
  BY TypeParts
<1>3. QED
  BY <1>1, <1>2, ConservedStep, TypeCorrect, PostedHeadCorrect, PTL DEF Spec
-----------------------------------------------------------------------------
(* Order.                                                                  *)

\* Whatever comes earlier in s is related to what comes later.
SortedBy(R, s) == \A i, j \in DOMAIN s : i < j => <<s[i], s[j]>> \in R

\* The sort leaves the newest first, and a buffer whose flag is set needs none.
LEMMA OrderedDescending ==
    ASSUME NEW s \in Seq(Measurements), NEW t \in Ordered(s),
           out_of_retention_period_range,
           retention_buffer_sorted => Descending(s)
    PROVE  Descending(t)
<1>1. CASE retention_buffer_sorted
  BY <1>1 DEF Ordered, NeedsSort
<1>2. CASE ~retention_buffer_sorted
  <2>1. PICK p \in Bijection(DOMAIN s, DOMAIN s) :
                 NewestFirst(s, p) /\ t = [i \in DOMAIN s |-> s[p[i]]]
    BY <1>2 DEF Ordered, NeedsSort
  <2>2. p \in [DOMAIN s -> DOMAIN s]
    BY <2>1 DEF Bijection, Injection
  <2>3. \A i \in DOMAIN s : Timestamp[s[p[i]]] \in Int
    BY <2>2, ElementOfSeq, LenProperties, WriterAssumption
  <2>4. \A i \in DOMAIN s : t[i] = s[p[i]]
    BY <2>1
  <2>5. SUFFICES ASSUME NEW i \in DOMAIN s, NEW j \in DOMAIN s, i < j
                 PROVE  Timestamp[t[i]] >= Timestamp[t[j]]
    BY <2>1 DEF Descending
  <2>6. Timestamp[s[p[i]]] >= Timestamp[s[p[j]]]
    BY <2>1, <2>3, <2>5 DEF NewestFirst
  <2>7. QED
    BY <2>4, <2>6
<1>3. QED
  BY <1>1, <1>2

\* Cutting the head off, and leaving out what cannot be converted, keeps the
\* order.
LEMMA CutSorted ==
    ASSUME NEW R, NEW s \in Seq(Measurements), NEW n \in Nat, SortedBy(R, s)
    PROVE  /\ SortedBy(R, Take(s, n)) /\ SortedBy(R, DropHead(s, n))
           /\ \A x \in Range(Take(s, n)), y \in Range(DropHead(s, n)) :
                  <<x, y>> \in R
<1> DEFINE t == Take(s, n)
           d == DropHead(s, n)
           k == Least(n, Len(s))
<1>1. /\ Len(s) \in Nat /\ DOMAIN s = 1..Len(s)
      /\ k \in Nat /\ k <= Len(s) /\ k <= n
  BY LenProperties DEF Least
<1>2. /\ t \in Seq(Measurements) /\ Len(t) = k
      /\ \A i \in 1..k : t[i] = s[i]
  BY TakeProperties
<1>3. /\ d \in Seq(Measurements)
      /\ Len(d) = IF n <= Len(s) THEN Len(s) - n ELSE 0
      /\ \A i \in 1..Len(d) : d[i] = s[i + n]
  BY DropHeadProperties
<1>4. /\ DOMAIN t = 1..k /\ DOMAIN d = 1..Len(d)
      /\ Range(t) = {t[i] : i \in 1..k} /\ Range(d) = {d[i] : i \in 1..Len(d)}
  BY <1>2, <1>3, LenProperties, RangeEquality
<1> HIDE DEF t, d, k
<1>5. ASSUME NEW i \in 1..Len(d)
      PROVE  i + n \in 1..Len(s) /\ i \in Nat
  <2>1. CASE n <= Len(s)
    BY <1>1, <1>3, <2>1
  <2>2. CASE ~(n <= Len(s))
    <3>1. Len(d) = 0
      BY <1>3, <2>2
    <3>2. QED
      BY <3>1
  <2>3. QED
    BY <2>1, <2>2
<1>6. SortedBy(R, t)
  <2> SUFFICES ASSUME NEW i \in 1..k, NEW j \in 1..k, i < j
               PROVE  <<t[i], t[j]>> \in R
    BY <1>4 DEF SortedBy
  <2>1. i \in DOMAIN s /\ j \in DOMAIN s
    BY <1>1
  <2>2. QED
    BY <1>2, <2>1 DEF SortedBy
<1>7. SortedBy(R, d)
  <2> SUFFICES ASSUME NEW i \in 1..Len(d), NEW j \in 1..Len(d), i < j
               PROVE  <<d[i], d[j]>> \in R
    BY <1>4 DEF SortedBy
  <2>1. i + n \in DOMAIN s /\ j + n \in DOMAIN s /\ i + n < j + n
    BY <1>1, <1>5
  <2>2. <<s[i + n], s[j + n]>> \in R
    BY <2>1 DEF SortedBy
  <2>3. QED
    BY <1>3, <2>2
<1>8. ASSUME NEW i \in 1..k, NEW j \in 1..Len(d)
      PROVE  <<t[i], d[j]>> \in R
  <2>1. i \in DOMAIN s /\ j + n \in DOMAIN s /\ i < j + n
    BY <1>1, <1>5
  <2>2. <<s[i], s[j + n]>> \in R
    BY <2>1 DEF SortedBy
  <2>3. QED
    BY <1>2, <1>3, <2>2
<1>9. QED
  BY <1>4, <1>6, <1>7, <1>8 DEF t, d

\* What bundle_measurements can convert of a ordered batch is in order.
LEMMA ConvertiblePartSorted ==
    ASSUME NEW R, NEW s \in Seq(Measurements), NEW v \in ConvertibleParts(s),
           SortedBy(R, s)
    PROVE  SortedBy(R, v)
<1> DEFINE valid == {i \in DOMAIN s : s[i] \in Convertible}
<1>1. PICK n \in 0..Len(s) :
        \E f \in [1..n -> valid] :
           /\ \A i, j \in 1..n : i < j => f[i] < f[j]
           /\ v = [i \in 1..n |-> s[f[i]]]
  BY DEF ConvertibleParts
<1>2. PICK f \in [1..n -> valid] :
           /\ \A i, j \in 1..n : i < j => f[i] < f[j]
           /\ v = [i \in 1..n |-> s[f[i]]]
  BY <1>1
<1>3. SUFFICES ASSUME NEW i \in 1..n, NEW j \in 1..n, i < j
               PROVE  <<v[i], v[j]>> \in R
  BY <1>2 DEF SortedBy
<1>4. f[i] \in DOMAIN s /\ f[j] \in DOMAIN s /\ f[i] < f[j]
  BY <1>2, <1>3
<1>5. <<s[f[i]], s[f[j]]>> \in R
  BY <1>4 DEF SortedBy
<1>6. QED
  BY <1>2, <1>5

\* Two ordered sequences are one together when everything in the first comes
\* before everything in the second.
LEMMA ConcatSorted ==
    ASSUME NEW R, NEW s \in Seq(Measurements), NEW t \in Seq(Measurements),
           SortedBy(R, s), SortedBy(R, t),
           \A x \in Range(s), y \in Range(t) : <<x, y>> \in R
    PROVE  SortedBy(R, s \o t)
<1>1. /\ Len(s) \in Nat /\ DOMAIN s = 1..Len(s)
      /\ Len(t) \in Nat /\ DOMAIN t = 1..Len(t)
  BY LenProperties
<1>2. /\ DOMAIN (s \o t) = 1..(Len(s) + Len(t))
      /\ \A i \in 1..(Len(s) + Len(t)) :
            (s \o t)[i] = IF i <= Len(s) THEN s[i] ELSE t[i - Len(s)]
  BY ConcatProperties, LenProperties
<1>3. \A i \in 1..Len(s), j \in 1..Len(t) : <<s[i], t[j]>> \in R
  BY <1>1 DEF Range
<1> SUFFICES ASSUME NEW i \in 1..(Len(s) + Len(t)),
                    NEW j \in 1..(Len(s) + Len(t)), i < j
             PROVE  <<(s \o t)[i], (s \o t)[j]>> \in R
  BY <1>2 DEF SortedBy
<1>4. CASE j <= Len(s)
  <2>1. i \in DOMAIN s /\ j \in DOMAIN s /\ i <= Len(s)
    BY <1>1, <1>4
  <2>2. QED
    BY <1>2, <1>4, <2>1 DEF SortedBy
<1>5. CASE i > Len(s)
  <2>1. /\ i - Len(s) \in DOMAIN t /\ j - Len(s) \in DOMAIN t
        /\ i - Len(s) < j - Len(s) /\ ~(i <= Len(s)) /\ ~(j <= Len(s))
    BY <1>1, <1>5
  <2>2. <<t[i - Len(s)], t[j - Len(s)]>> \in R
    BY <2>1 DEF SortedBy
  <2>3. QED
    BY <1>2, <2>1, <2>2
<1>6. CASE i <= Len(s) /\ j > Len(s)
  <2>1. /\ i \in 1..Len(s) /\ j - Len(s) \in 1..Len(t)
        /\ i <= Len(s) /\ ~(j <= Len(s))
    BY <1>1, <1>6
  <2>2. <<s[i], t[j - Len(s)]>> \in R
    BY <1>3, <2>1
  <2>3. QED
    BY <1>2, <2>1, <2>2
<1>7. j <= Len(s) \/ i > Len(s) \/ (i <= Len(s) /\ j > Len(s))
  BY <1>1
<1>8. QED
  BY Zenon, <1>4, <1>5, <1>6, <1>7

\* What is cut off and what is left are parts of the sequence.
LEMMA PartsOfRange ==
    ASSUME NEW S, NEW s \in Seq(S), NEW n \in Nat
    PROVE  /\ Range(Take(s, n)) \subseteq Range(s)
           /\ Range(DropHead(s, n)) \subseteq Range(s)
<1> DEFINE t == Take(s, n)
           d == DropHead(s, n)
<1>1. /\ t \in Seq(S) /\ Len(t) = Least(n, Len(s))
      /\ \A i \in 1..Least(n, Len(s)) : t[i] = s[i]
  BY TakeProperties
<1>2. /\ d \in Seq(S)
      /\ Len(d) = IF n <= Len(s) THEN Len(s) - n ELSE 0
      /\ \A i \in 1..Len(d) : d[i] = s[i + n]
  BY DropHeadProperties
<1>3. Len(s) \in Nat /\ Len(t) \in Nat /\ Len(d) \in Nat
  BY <1>1, <1>2, LenProperties
<1>4. /\ Range(s) = {s[i] : i \in 1..Len(s)}
      /\ Range(t) = {t[i] : i \in 1..Len(t)}
      /\ Range(d) = {d[i] : i \in 1..Len(d)}
  BY <1>1, <1>2, RangeEquality
<1> HIDE DEF t, d
<1>5. ASSUME NEW i \in 1..Len(t)  PROVE t[i] \in Range(s)
  BY <1>1, <1>3, <1>4 DEF Least
<1>6. ASSUME NEW i \in 1..Len(d)  PROVE d[i] \in Range(s)
  <2>1. i + n \in 1..Len(s)
    BY <1>2, <1>3
  <2>2. QED
    BY <1>2, <1>4, <2>1
<1>7. QED
  BY <1>4, <1>5, <1>6 DEF t, d

\* Newest first, as an order of the kind the lemmas above are about.
NotOlder ==
    {r \in Measurements \X Measurements : Timestamp[r[1]] >= Timestamp[r[2]]}

\* A buffer is descending where it is sorted in that order.
LEMMA DescendingIsSorted ==
    ASSUME NEW s \in Seq(Measurements)
    PROVE  Descending(s) <=> SortedBy(NotOlder, s)
<1>1. \A i \in DOMAIN s : s[i] \in Measurements
  BY ElementOfSeq, LenProperties
<1>2. QED
  BY <1>1 DEF Descending, SortedBy, NotOlder

\* Bundling keeps the order of the buffer it is given.
LEMMA BundledSorted ==
    ASSUME Bounds, NEW R, NEW ordered \in Ordered(buffer),
           NEW batch, batch = Take(ordered, current_measurements_per_write),
           NEW valid \in ConvertibleParts(batch),
           SortedBy(R, ordered)
    PROVE  /\ SortedBy(R, Bundled(valid, batch, ordered))
           /\ Range(Bundled(valid, batch, ordered)) \subseteq Range(buffer)
<1> DEFINE tail == DropHead(ordered, Len(batch))
<1>1. /\ ordered \in Seq(Measurements) /\ batch \in Seq(Measurements)
      /\ valid \in Seq(Measurements) /\ Len(batch) \in Nat
      /\ Len(ordered) \in Nat
  BY PrepareProperties, LenProperties
<1>2. Take(ordered, Len(batch)) = batch
  <2>1. current_measurements_per_write \in Nat
    BY WriterAssumption DEF Bounds
  <2>2. Len(batch) = Least(current_measurements_per_write, Len(ordered))
    BY <1>1, <2>1, TakeProperties
  <2>3. Least(Len(batch), Len(ordered)) =
            Least(current_measurements_per_write, Len(ordered))
    BY <1>1, <2>1, <2>2 DEF Least
  <2>4. QED
    BY <2>3 DEF Take
<1>3. /\ SortedBy(R, batch) /\ SortedBy(R, tail)
      /\ \A x \in Range(batch), y \in Range(tail) : <<x, y>> \in R
      /\ tail \in Seq(Measurements)
  BY <1>1, <1>2, CutSorted, DropHeadProperties
<1>4. SortedBy(R, valid) /\ Range(valid) \subseteq Range(batch)
  BY <1>1, <1>3, ConvertiblePartSorted, ConvertiblePartProperties
<1>5. /\ Range(batch) \subseteq Range(ordered)
      /\ Range(tail) \subseteq Range(ordered)
  BY <1>1, <1>2, PartsOfRange
<1>6. Range(ordered) = Range(buffer)
  BY OrderedProperties DEF Bounds
<1>7. Bundled(valid, batch, ordered) = valid \o tail
  BY DEF Bundled
<1> HIDE DEF tail
<1>8. SortedBy(R, valid \o tail)
  BY <1>1, <1>3, <1>4, ConcatSorted
<1>9. Range(valid \o tail) = Range(valid) \cup Range(tail)
  BY <1>1, <1>3, RangeConcatenation
<1>10. QED
  BY <1>4, <1>5, <1>6, <1>7, <1>8, <1>9

\* Composing a batch leaves the sort flag truthful.
LEMMA ComposeSorted ==
    Bounds /\ SortedIsNewestFirst /\ Compose => SortedIsNewestFirst'
<1> SUFFICES ASSUME Bounds, SortedIsNewestFirst, Compose,
                    retention_buffer_sorted'
             PROVE  out_of_retention_period_range' /\ Descending(buffer')
  BY DEF SortedIsNewestFirst, Descending
<1>1. PICK ordered \in Ordered(buffer) :
        \E valid \in ConvertibleParts(
                       Take(ordered, current_measurements_per_write)) :
            Prepare(ordered, Take(ordered, current_measurements_per_write),
                    valid)
  BY DEF Compose
<1> DEFINE batch == Take(ordered, current_measurements_per_write)
<1>2. PICK valid \in ConvertibleParts(batch) : Prepare(ordered, batch, valid)
  BY <1>1
<1>3. out_of_retention_period_range /\ out_of_retention_period_range'
  BY DEF Compose, SortedIsNewestFirst
<1>4. ordered \in Seq(Measurements) /\ Descending(ordered)
  BY <1>3, OrderedDescending, OrderedProperties DEF SortedIsNewestFirst, Bounds
<1>5. buffer' = Bundled(valid, batch, ordered)
  BY <1>2 DEF Prepare
<1>6. Bundled(valid, batch, ordered) \in Seq(Measurements)
  BY PrepareProperties
<1> HIDE DEF batch
<1>7. SortedBy(NotOlder, ordered)
  BY <1>4, DescendingIsSorted
<1>8. SortedBy(NotOlder, Bundled(valid, batch, ordered))
  BY <1>7, BundledSorted DEF batch
<1>9. Descending(buffer')
  BY <1>5, <1>6, <1>8, DescendingIsSorted
<1>10. QED
  BY <1>3, <1>9

\* Every step leaves the sort flag truthful.
LEMMA SortedStep ==
    Bounds /\ SortedIsNewestFirst /\ [Next]_vars => SortedIsNewestFirst'
<1> SUFFICES ASSUME Bounds, SortedIsNewestFirst, [Next]_vars,
                    retention_buffer_sorted'
             PROVE  out_of_retention_period_range' /\ Descending(buffer')
  BY DEF SortedIsNewestFirst, Descending
<1>1. CASE Compose
  BY <1>1, ComposeSorted DEF SortedIsNewestFirst, Descending
<1>2. CASE DrainOne \/ PostSucceeds
  BY <1>2 DEF DrainOne, append_measurement, SortedAfterAppend, PostSucceeds,
     SortedIsNewestFirst
<1>3. CASE \/ PostOutOfRetention \/ PostMalformed \/ PostTooLarge
           \/ PostMisconfigured \/ PostOther
  <2>1. /\ retention_buffer_sorted
        /\ buffer' # <<>>
        /\ out_of_retention_period_range'
    BY Zenon, <1>3
       DEF PostOutOfRetention, PostMalformed, PostTooLarge, PostMisconfigured,
           PostOther, WriteFails, SortedIsNewestFirst
  <2>2. \/ buffer' = buffer \/ buffer' = DropHead(buffer, Len(local_buffer))
        \/ buffer' = DropHead(buffer, 1)
    BY <1>3
       DEF PostOutOfRetention, PostMalformed, PostTooLarge, PostMisconfigured,
           PostOther, WriteFails, Rest
  <2>3. /\ buffer \in Seq(Measurements) /\ Len(local_buffer) \in Nat
        /\ Descending(buffer)
    BY <2>1, LenProperties DEF Bounds, SortedIsNewestFirst
  <2>4. /\ Descending(DropHead(buffer, Len(local_buffer)))
        /\ Descending(DropHead(buffer, 1))
    BY <2>3, CutSorted, DropHeadProperties, DescendingIsSorted
  <2>5. QED
    BY <2>1, <2>2, <2>3, <2>4
<1>4. CASE \/ UNCHANGED vars
           \/ Next /\ ~(\/ DrainOne \/ Compose \/ PostSucceeds
                        \/ PostOutOfRetention \/ PostMalformed
                        \/ PostTooLarge \/ PostMisconfigured \/ PostOther)
  <2>1. UNCHANGED <<buffer, out_of_retention_period_range,
                    retention_buffer_sorted>>
    BY <1>4 DEF Next, Writer, Environment, PostEnds, DrainEnds, Wake,
       SkipWrite, StartWrite, DialSucceeds, DialFails, AcloseEnds,
       RaiseException, FlushWrites, FlushEnds, Close, Cancel, FlushTimesOut,
       InterruptRequest, PostRetryable, PostLost, LoseClient, Put, Tick,
       Recover, Stopped
  <2>2. QED
    BY <2>1 DEF SortedIsNewestFirst
<1>5. QED
  BY <1>1, <1>2, <1>3, <1>4 DEF Next, Writer, PostEnds

\* While retention_buffer_sorted is set the buffer is newest first.
THEOREM SortedCorrect == Spec => []SortedIsNewestFirst
<1>1. Init => SortedIsNewestFirst
  BY DEF Init, SortedIsNewestFirst
<1>2. TypeOK => Bounds
  BY TypeParts
<1>3. QED
  BY <1>1, <1>2, SortedStep, TypeCorrect, PTL DEF Spec
-----------------------------------------------------------------------------
(* Arrival, against a database without a retention policy.                 *)

\* The order of arrival, which the numbers of the measurements are.
Earlier == {r \in Measurements \X Measurements : r[1] < r[2]}

\* Earlier is the order of the numbers.
LEMMA EarlierProperties ==
    ASSUME NEW x \in Measurements, NEW y \in Measurements
    PROVE  <<x, y>> \in Earlier <=> x < y
BY DEF Earlier

\* Along the way of the measurements, from what is delivered over the buffer
\* to the queue, everything is in the order of its arrival.
Arriving ==
    /\ ~out_of_retention_period_range
    /\ SortedBy(Earlier, buffer) /\ SortedBy(Earlier, queue)
    /\ \A m \in Range(buffer), n \in Range(queue) : m < n
    /\ \A m \in delivered, n \in Held : m < n

\* A measurement that is younger than all of an ordered sequence may follow it.
LEMMA AppendSorted ==
    ASSUME NEW s \in Seq(Measurements), NEW e \in Measurements,
           SortedBy(Earlier, s), \A x \in Range(s) : x < e
    PROVE  /\ SortedBy(Earlier, Append(s, e))
           /\ Range(Append(s, e)) = Range(s) \cup {e}
<1> DEFINE u == <<e>>
<1>1. u \in Seq(Measurements) /\ DOMAIN u = {1} /\ u[1] = e
  OBVIOUS
<1>2. Range(u) = {e} /\ SortedBy(Earlier, u) /\ Append(s, e) = s \o u
  BY <1>1, AppendIsConcat DEF Range, SortedBy
<1>3. Range(s) \subseteq Measurements
  BY RangeOfSeq
<1>4. \A x \in Range(s), y \in Range(u) : <<x, y>> \in Earlier
  BY <1>2, <1>3 DEF Earlier
<1> HIDE DEF u
<1>5. SortedBy(Earlier, s \o u)
  BY <1>1, <1>2, <1>4, ConcatSorted
<1>6. Range(s \o u) = Range(s) \cup {e}
  BY <1>1, <1>2, RangeConcatenation
<1>7. QED
  BY <1>2, <1>5, <1>6

\* An ordered queue without its head, which is older than all of the rest.
LEMMA TailSorted ==
    ASSUME NEW s \in Seq(Measurements), s # <<>>, SortedBy(Earlier, s)
    PROVE  /\ Head(s) \in Range(s) /\ Range(Tail(s)) \subseteq Range(s)
           /\ SortedBy(Earlier, Tail(s))
           /\ \A y \in Range(Tail(s)) : Head(s) < y
<1>1. Len(s) >= 1 /\ Len(s) \in Nat /\ DOMAIN s = 1..Len(s)
  BY EmptySeq, LenProperties
<1>2. /\ Tail(s) \in Seq(Measurements) /\ Len(Tail(s)) = Len(s) - 1
      /\ \A i \in 1..Len(Tail(s)) : Tail(s)[i] = s[i + 1]
  BY HeadTailProperties
<1>3. /\ Range(s) = {s[i] : i \in 1..Len(s)}
      /\ Range(Tail(s)) = {Tail(s)[i] : i \in 1..(Len(s) - 1)}
      /\ DOMAIN Tail(s) = 1..(Len(s) - 1)
  BY <1>2, RangeEquality, LenProperties
<1>4. Head(s) = s[1]
  OBVIOUS
<1>5. \A i \in 1..(Len(s) - 1) :
          Tail(s)[i] = s[i + 1] /\ i + 1 \in 1..Len(s) /\ 1 < i + 1
  BY <1>1, <1>2
<1> DEFINE t == Tail(s)
<1> HIDE DEF t
<1>6. SortedBy(Earlier, t)
  BY <1>1, <1>3, <1>5 DEF SortedBy, t
<1>7. ASSUME NEW i \in 1..(Len(s) - 1)  PROVE s[1] < t[i]
  <2>1. /\ 1 \in DOMAIN s /\ i + 1 \in DOMAIN s /\ 1 < i + 1
        /\ s[1] \in Measurements /\ s[i + 1] \in Measurements
    BY <1>1, <1>5, ElementOfSeq
  <2>2. <<s[1], s[i + 1]>> \in Earlier
    BY <2>1 DEF SortedBy
  <2>3. s[1] < s[i + 1]
    BY <2>1, <2>2, EarlierProperties
  <2>4. QED
    BY <1>5, <2>3 DEF t
<1>8. QED
  BY <1>1, <1>3, <1>4, <1>5, <1>6, <1>7 DEF t

\* Cutting n entries off the head of the buffer, delivered or not.
LEMMA CutArrives ==
    ASSUME Bounds, Arriving, NEW n \in Nat,
           buffer' = DropHead(buffer, n),
           \/ delivered' = delivered \cup Range(Take(buffer, n))
           \/ UNCHANGED delivered,
           UNCHANGED queue, ~out_of_retention_period_range'
    PROVE  Arriving'
<1> DEFINE gone == Range(Take(buffer, n))
           left == Range(DropHead(buffer, n))
<1>1. buffer \in Seq(Measurements)
  BY DEF Bounds
<1>2. /\ SortedBy(Earlier, DropHead(buffer, n))
      /\ \A x \in gone, y \in left : x < y
  <2>1. /\ SortedBy(Earlier, DropHead(buffer, n))
        /\ \A x \in gone, y \in left : <<x, y>> \in Earlier
    BY <1>1, CutSorted DEF Arriving
  <2>2. gone \subseteq Measurements /\ left \subseteq Measurements
    BY <1>1, PartsOfRange, RangeOfSeq
  <2>3. QED
    BY <2>1, <2>2, EarlierProperties
<1>3. gone \subseteq Range(buffer) /\ left \subseteq Range(buffer)
  BY <1>1, PartsOfRange
<1>4. SortedBy(Earlier, buffer') /\ Range(buffer') = left
  BY <1>2
<1>5. delivered' = delivered \cup gone \/ delivered' = delivered
  OBVIOUS
<1> HIDE DEF gone, left
<1>6. QED
  BY <1>2, <1>3, <1>4, <1>5 DEF Arriving, Held, SortedBy

\* A producer's measurement is younger than everything there is.
LEMMA PutArrives == Bounds /\ Conserved /\ Arriving /\ Put => Arriving'
<1> SUFFICES ASSUME Bounds, Conserved, Arriving, Put  PROVE Arriving'
  OBVIOUS
<1>1. /\ arrived + 1 \in Measurements /\ queue \in Seq(Measurements)
      /\ \A m \in Held \cup delivered : m < arrived + 1
  BY WriterAssumption DEF Bounds, Put, Measurements, Conserved
<1>2. /\ SortedBy(Earlier, Append(queue, arrived + 1))
      /\ Range(Append(queue, arrived + 1)) = Range(queue) \cup {arrived + 1}
  BY <1>1, AppendSorted DEF Arriving, Held
<1>3. /\ queue' = Append(queue, arrived + 1)
      /\ UNCHANGED <<buffer, delivered, out_of_retention_period_range>>
  BY DEF Put
<1>4. SortedBy(Earlier, queue') /\ Range(queue') = Range(queue) \cup {arrived + 1}
  BY <1>2, <1>3
<1>5. QED
  BY <1>1, <1>3, <1>4 DEF Arriving, Held, SortedBy

\* The head of the queue is younger than the buffer, and older than the rest
\* of the queue; what an overflow drops is the oldest of the buffer.
LEMMA DrainOneArrives == Bounds /\ Arriving /\ DrainOne => Arriving'
<1> SUFFICES ASSUME Bounds, Arriving, DrainOne  PROVE Arriving'
  OBVIOUS
<1> DEFINE m    == Head(queue)
           kept == DropHead(buffer, DropCount)
<1>1. /\ queue \in Seq(Measurements) /\ buffer \in Seq(Measurements)
      /\ queue # <<>> /\ DropCount \in Nat
  BY HelperTypes DEF Bounds, DrainOne
<1>2. /\ m \in Range(queue) /\ Range(Tail(queue)) \subseteq Range(queue)
      /\ SortedBy(Earlier, Tail(queue))
      /\ \A y \in Range(Tail(queue)) : m < y
  BY <1>1, TailSorted DEF Arriving
<1>3. /\ kept \in Seq(Measurements) /\ SortedBy(Earlier, kept)
      /\ Range(kept) \subseteq Range(buffer)
  BY <1>1, DropHeadProperties, CutSorted, PartsOfRange DEF Arriving
<1>4. m \in Measurements
  BY <1>1, <1>2, RangeOfSeq
<1>5. /\ queue' = Tail(queue) /\ buffer' = Append(kept, m)
      /\ UNCHANGED <<delivered, out_of_retention_period_range>>
  BY DEF DrainOne, append_measurement
<1> HIDE DEF m, kept
<1>6. \A x \in Range(kept) : x < m
  BY <1>2, <1>3 DEF Arriving
<1>7. SortedBy(Earlier, buffer') /\ Range(buffer') = Range(kept) \cup {m}
  BY <1>3, <1>4, <1>5, <1>6, AppendSorted
<1>8. SortedBy(Earlier, queue') /\ Range(queue') \subseteq Range(queue)
  BY <1>2, <1>5
<1>9. \A x \in Range(buffer'), y \in Range(queue') : x < y
  BY <1>2, <1>3, <1>5, <1>7 DEF Arriving
<1>10. \A x \in delivered', y \in Range(queue') \cup Range(buffer') : x < y
  BY <1>2, <1>3, <1>5, <1>7, <1>8 DEF Arriving, Held
<1>11. QED
  BY <1>5, <1>7, <1>8, <1>9, <1>10 DEF Arriving, Held, SortedBy

\* Without the retention flag nothing is sorted, and bundling keeps the order.
LEMMA ComposeArrives == Bounds /\ Arriving /\ Compose => Arriving'
<1> SUFFICES ASSUME Bounds, Arriving, Compose  PROVE Arriving'
  OBVIOUS
<1> DEFINE batch == Take(buffer, current_measurements_per_write)
<1>1. Ordered(buffer) = {buffer}
  BY DEF Ordered, NeedsSort, Arriving
<1>2. PICK valid \in ConvertibleParts(batch) : Prepare(buffer, batch, valid)
  BY <1>1 DEF Compose
<1>3. /\ SortedBy(Earlier, Bundled(valid, batch, buffer))
      /\ Range(Bundled(valid, batch, buffer)) \subseteq Range(buffer)
  BY <1>1, BundledSorted DEF Arriving
<1>4. /\ buffer' = Bundled(valid, batch, buffer)
      /\ UNCHANGED <<queue, delivered, out_of_retention_period_range>>
  BY <1>2 DEF Prepare, Compose
<1> HIDE DEF batch
<1>5. SortedBy(Earlier, buffer') /\ Range(buffer') \subseteq Range(buffer)
  BY <1>3, <1>4
<1>6. QED
  BY <1>4, <1>5 DEF Arriving, Held, SortedBy

\* Every answer but that of a retention policy cuts the batch off the head of
\* the buffer, or nothing at all.
LEMMA PostArrives ==
    ASSUME Bounds, Arriving, PostEnds, "retention" \notin Answers
    PROVE  Arriving'
<1>1. Len(local_buffer) \in Nat
  BY LenProperties DEF Bounds
<1>2. CASE PostSucceeds
  BY <1>1, <1>2, CutArrives DEF PostSucceeds, Rest, Batch
<1>3. CASE PostMalformed
  BY <1>1, <1>3, CutArrives DEF PostMalformed, WriteFails, Rest, Arriving
<1>4. CASE PostTooLarge /\ current_measurements_per_write = 1
  BY <1>1, <1>4, CutArrives DEF PostTooLarge, WriteFails, Arriving
<1>5. CASE \/ PostTooLarge /\ current_measurements_per_write # 1
           \/ PostMisconfigured \/ PostOther \/ PostRetryable \/ PostLost
  <2>1. UNCHANGED <<queue, buffer, delivered>>
    BY <1>5 DEF PostTooLarge, PostMisconfigured, PostOther, PostRetryable,
       PostLost, WriteFails, LoseClient
  <2>2. ~out_of_retention_period_range'
    BY Zenon, <1>5 DEF PostTooLarge, PostMisconfigured, PostOther,
       PostRetryable, PostLost, WriteFails, LoseClient, Arriving
  <2>3. QED
    BY <2>1, <2>2 DEF Arriving, Held, SortedBy
<1>6. CASE PostOutOfRetention
  BY <1>6 DEF PostOutOfRetention, Answered
<1>7. QED
  BY <1>2, <1>3, <1>4, <1>5, <1>6 DEF PostEnds

\* Every step keeps the order of arrival.
LEMMA ArrivingStep ==
    ASSUME Bounds, Conserved, Arriving, [Next]_vars, "retention" \notin Answers
    PROVE  Arriving'
<1>1. CASE Put \/ DrainOne \/ Compose \/ PostEnds
  BY <1>1, PutArrives, DrainOneArrives, ComposeArrives, PostArrives
<1>2. CASE \/ UNCHANGED vars
           \/ Next /\ ~(Put \/ DrainOne \/ Compose \/ PostEnds)
  <2>1. UNCHANGED <<queue, buffer, delivered, out_of_retention_period_range>>
    BY <1>2 DEF Next, Writer, Environment, DrainEnds, Wake, SkipWrite,
       StartWrite, DialSucceeds, DialFails, AcloseEnds, RaiseException,
       FlushWrites, FlushEnds, Close, Cancel, FlushTimesOut,
       InterruptRequest, Tick, Recover, Stopped
  <2>2. QED
    BY <2>1 DEF Arriving, Held, SortedBy
<1>3. QED
  BY <1>1, <1>2

\* A database that never answers with its retention policy is written to in
\* the order of arrival, whatever else it answers and whatever overflows.
THEOREM ArrivalCorrect ==
    ASSUME "retention" \notin Answers
    PROVE  Spec => []InArrivalOrder
<1>1. Init => Arriving
  <2>1. Range(<<>>) = {} /\ SortedBy(Earlier, <<>>)
    BY EmptySeq DEF Range, SortedBy
  <2>2. QED
    BY <2>1 DEF Init, Arriving, Held
<1>2. TypeOK => Bounds
  BY TypeParts
<1>3. Bounds /\ Conserved /\ Arriving /\ [Next]_vars => Arriving'
  BY ArrivingStep
<1>4. Arriving => InArrivalOrder
  BY DEF Arriving, InArrivalOrder, SortedBy, Earlier, Held
<1>5. QED
  BY <1>1, <1>2, <1>3, <1>4, TypeCorrect, ConservedCorrect, PTL DEF Spec
-----------------------------------------------------------------------------
(* The flush.                                                              *)

Writing == pc \in {"gate", "dial", "compose", "post", "aclose"}

\* Where the task is, before and after it has left its loop.
LoopOrFlush ==
    /\ ~stopping => before = 0 /\ pc \notin {"flush", "close", "died", "stopped"}
    /\ stopping => pc \notin {"drain", "sleep"}

\* A flush write starts from a buffer of length before that is not empty, and
\* ends with a shorter one or with gave_up set.
FlushProgress ==
    /\ stopping /\ Writing =>
           before > 0 /\ Len(buffer) <= before /\ buffer # <<>>
    /\ stopping /\ pc = "aclose" => gave_up
    /\ pc = "flush" /\ before > 0 => gave_up \/ Len(buffer) < before
    /\ pc \in {"close", "stopped"} => gave_up \/ buffer = <<>>
    /\ pc = "died" => gave_up

FlushInv == LoopOrFlush /\ FlushProgress

\* Every step keeps the loop and the flush apart.
LEMMA LoopOrFlushStep == LoopOrFlush /\ [Next]_vars => LoopOrFlush'
<1> SUFFICES ASSUME LoopOrFlush, [Next]_vars PROVE LoopOrFlush'
  OBVIOUS
<1>1. CASE DrainOne
  BY <1>1 DEF DrainOne, LoopOrFlush
<1>2. CASE DrainEnds
  BY <1>2 DEF DrainEnds, LoopOrFlush
<1>3. CASE Wake
  BY <1>3 DEF Wake, LoopOrFlush
<1>4. CASE SkipWrite
  BY <1>4 DEF SkipWrite, LoopOrFlush, AfterWrite
<1>5. CASE StartWrite
  BY <1>5 DEF StartWrite, LoopOrFlush
<1>6. CASE DialSucceeds
  BY <1>6 DEF DialSucceeds, LoopOrFlush
<1>7. CASE DialFails
  BY <1>7 DEF DialFails, LoopOrFlush
<1>8. CASE Compose
  BY <1>8 DEF Compose, LoopOrFlush, Prepare, AfterWrite
<1>9. CASE PostSucceeds
  BY <1>9 DEF PostSucceeds, LoopOrFlush, AfterWrite, Answered
<1>10. CASE PostOutOfRetention
  BY <1>10 DEF PostOutOfRetention, LoopOrFlush, WriteFails, AfterWrite, Answered
<1>11. CASE PostMalformed
  BY <1>11 DEF PostMalformed, LoopOrFlush, WriteFails, AfterWrite, Answered
<1>12. CASE PostTooLarge
  BY <1>12 DEF PostTooLarge, LoopOrFlush, WriteFails, AfterWrite, Answered
<1>13. CASE PostMisconfigured
  BY <1>13 DEF PostMisconfigured, LoopOrFlush, WriteFails, AfterWrite, Answered
<1>14. CASE PostOther
  BY <1>14 DEF PostOther, LoopOrFlush, WriteFails, AfterWrite, Answered
<1>15. CASE PostRetryable
  BY <1>15 DEF PostRetryable, LoopOrFlush, LoseClient, Answered
<1>16. CASE PostLost
  BY <1>16 DEF PostLost, LoopOrFlush, LoseClient, Answered
<1>17. CASE AcloseEnds
  BY <1>17 DEF AcloseEnds, LoopOrFlush, AfterWrite
<1>18. CASE RaiseException
  BY <1>18 DEF RaiseException, LoopOrFlush, InterruptRequest
<1>19. CASE FlushWrites
  BY <1>19 DEF FlushWrites, LoopOrFlush
<1>20. CASE FlushEnds
  BY <1>20 DEF FlushEnds, LoopOrFlush
<1>21. CASE Close
  BY <1>21 DEF Close, LoopOrFlush
<1>22. CASE Put
  BY <1>22 DEF Put, LoopOrFlush
<1>23. CASE Tick
  BY <1>23 DEF Tick, LoopOrFlush
<1>24. CASE Recover
  BY <1>24 DEF Recover, LoopOrFlush
<1>25. CASE Cancel
  BY <1>25 DEF Cancel, LoopOrFlush, InterruptRequest, AtAwait
<1>26. CASE FlushTimesOut
  BY <1>26 DEF FlushTimesOut, LoopOrFlush, InterruptRequest
<1>27. CASE Stopped
  BY <1>27 DEF Stopped, LoopOrFlush
<1>28. CASE UNCHANGED vars
  BY <1>28 DEF LoopOrFlush
<1>29. QED
  BY <1>1, <1>2, <1>3, <1>4, <1>5, <1>6, <1>7, <1>8, <1>9, <1>10, <1>11,
     <1>12, <1>13, <1>14, <1>15, <1>16, <1>17, <1>18, <1>19, <1>20,
     <1>21, <1>22, <1>23, <1>24, <1>25, <1>26, <1>27, <1>28
     DEF Next, Writer, PostEnds, Environment

\* Every step keeps the account of the flush: a write that failed is noted,
\* and one that did not has shortened the buffer.
LEMMA FlushProgressStep ==
    Bounds /\ PostedIsHead /\ FlushInv /\ [Next]_vars => FlushProgress'
<1> SUFFICES ASSUME Bounds, PostedIsHead, FlushInv, [Next]_vars
             PROVE  FlushProgress'
  OBVIOUS
<1> USE DEF FlushInv, LoopOrFlush, FlushProgress, Writing
<1>1. /\ Len(buffer) \in Nat /\ before \in Nat
      /\ buffer # <<>> <=> Len(buffer) > 0
  BY EmptySeq, LenProperties DEF Bounds
<1>2. CASE Compose
  <2>1. PICK ordered \in Ordered(buffer) :
          \E valid \in ConvertibleParts(
                         Take(ordered, current_measurements_per_write)) :
              Prepare(ordered, Take(ordered, current_measurements_per_write),
                      valid)
    BY <1>2 DEF Compose
  <2> DEFINE batch == Take(ordered, current_measurements_per_write)
  <2>2. PICK valid \in ConvertibleParts(batch) : Prepare(ordered, batch, valid)
    BY <2>1
  <2>3. /\ batch \in Seq(Measurements) /\ valid \in Seq(Measurements)
        /\ buffer' \in Seq(Measurements)
        /\ Len(buffer') = Len(buffer) - Len(batch) + Len(valid)
        /\ Len(valid) <= Len(batch) /\ Len(batch) <= Len(buffer)
        /\ buffer # <<>> => Len(batch) >= 1
    <3>1. buffer' = Bundled(valid, batch, ordered)
      BY <2>2 DEF Prepare
    <3>2. /\ batch \in Seq(Measurements) /\ valid \in Seq(Measurements)
          /\ ordered \in Seq(Measurements) /\ Len(ordered) = Len(buffer)
          /\ Bundled(valid, batch, ordered) \in Seq(Measurements)
          /\ Len(Bundled(valid, batch, ordered)) =
                 Len(buffer) - Len(batch) + Len(valid)
          /\ Len(valid) <= Len(batch) /\ Len(batch) <= Len(ordered)
          /\ buffer # <<>> => Len(batch) >= 1
      BY PrepareProperties
    <3>3. QED
      BY <3>1, <3>2
  <2>8. /\ Len(batch) \in Nat /\ Len(valid) \in Nat
        /\ valid # <<>> <=> Len(valid) > 0
        /\ buffer' # <<>> <=> Len(buffer') > 0
    BY <2>3, EmptySeq, LenProperties
  <2>4. /\ pc = "compose" /\ UNCHANGED <<stopping, before, gave_up>>
        /\ pc' = IF valid = <<>> THEN AfterWrite ELSE "post"
    BY <1>2, <2>2 DEF Compose, Prepare
  <2> HIDE DEF batch
  <2>5. CASE valid = <<>>
    BY <1>1, <2>3, <2>4, <2>5, <2>8 DEF AfterWrite
  <2>6. CASE valid # <<>>
    BY <1>1, <2>3, <2>4, <2>6, <2>8
  <2>7. QED
    BY <2>5, <2>6
<1>3. CASE PostEnds
  <2>1. /\ pc = "post" /\ Len(local_buffer) \in Nat /\ Len(local_buffer) >= 1
        /\ Len(local_buffer) <= Len(buffer)
    <3>1. pc = "post"
      BY <1>3 DEF PostEnds, PostSucceeds, PostOutOfRetention, PostMalformed,
         PostTooLarge, PostMisconfigured, PostOther, PostRetryable, PostLost,
         Answered
    <3>2. QED
      BY <3>1, EmptySeq, LenProperties DEF PostedIsHead, Bounds
  <2>2. /\ Len(Rest) < Len(buffer) /\ Len(Rest) \in Nat
        /\ Len(DropHead(buffer, 1)) < Len(buffer)
        /\ Len(DropHead(buffer, 1)) \in Nat
    <3>1. buffer \in Seq(Measurements) /\ Len(buffer) \in Nat
      BY LenProperties DEF Bounds
    <3>2. Len(DropHead(buffer, Len(local_buffer))) = Len(buffer) - Len(local_buffer)
      BY <2>1, <3>1, DropHeadProperties
    <3>3. Len(DropHead(buffer, 1)) = Len(buffer) - 1
      <4>1. 1 \in Nat /\ 1 <= Len(buffer)
        BY <2>1, <3>1
      <4> QED  BY <3>1, <4>1, DropHeadProperties
    <3> QED
      BY <2>1, <3>1, <3>2, <3>3 DEF Rest
  <2>3. UNCHANGED <<stopping, before>>
    BY <1>3 DEF PostEnds, PostSucceeds, PostOutOfRetention, PostMalformed,
       PostTooLarge, PostMisconfigured, PostOther, PostRetryable, PostLost,
       WriteFails, LoseClient
  <2>4. CASE PostRetryable \/ PostLost
    BY <2>1, <2>3, <2>4 DEF PostRetryable, PostLost, LoseClient
  <2>5. CASE ~(PostRetryable \/ PostLost)
    <3>1. pc' = AfterWrite
      BY <1>3, <2>5 DEF PostEnds, PostSucceeds, PostOutOfRetention,
         PostMalformed, PostTooLarge, PostMisconfigured, PostOther, WriteFails
    <3>2. stopping => \/ buffer' = Rest \/ buffer' = DropHead(buffer, 1)
                      \/ gave_up'
      BY <1>3, <2>5 DEF PostEnds, PostSucceeds, PostOutOfRetention,
         PostMalformed, PostTooLarge, PostMisconfigured, PostOther, WriteFails
    <3>3. stopping => gave_up' \/ Len(buffer') < before
      BY <1>1, <2>1, <2>2, <3>2
    <3>4. QED
      BY <2>1, <2>3, <3>1, <3>3 DEF AfterWrite
  <2>6. QED
    BY <2>4, <2>5
<1>4. CASE FlushWrites
  BY <1>1, <1>4 DEF FlushWrites, FlushGoesOn
<1>5. CASE FlushEnds
  BY <1>1, <1>5 DEF FlushEnds, FlushGoesOn
<1>6. CASE SkipWrite
  BY <1>6 DEF SkipWrite, MayWrite, AfterWrite
<1>7. CASE DrainOne
  BY <1>7 DEF DrainOne
<1>8. CASE DrainEnds
  BY <1>1, <1>8 DEF DrainEnds
<1>9. CASE Wake
  BY <1>1, <1>9 DEF Wake
<1>10. CASE StartWrite
  BY <1>1, <1>10 DEF StartWrite
<1>11. CASE DialSucceeds
  BY <1>1, <1>11 DEF DialSucceeds
<1>12. CASE DialFails
  BY <1>1, <1>12 DEF DialFails
<1>13. CASE AcloseEnds
  BY <1>1, <1>13 DEF AcloseEnds, AfterWrite
<1>14. CASE RaiseException
  <2>1. stopping => gave_up'
    BY Zenon, <1>14 DEF RaiseException
  <2>2. pc' = IF stopping THEN "died" ELSE "flush"
    BY <1>14 DEF RaiseException
  <2>3. before' = before
    BY <1>14 DEF RaiseException
  <2>4. QED
    BY <2>1, <2>2, <2>3
<1>15. CASE Close
  BY <1>1, <1>15 DEF Close
<1>16. CASE Put
  BY <1>1, <1>16 DEF Put
<1>17. CASE Tick
  BY <1>1, <1>17 DEF Tick
<1>18. CASE Recover
  BY <1>1, <1>18 DEF Recover
<1>19. CASE Cancel
  <2>1. stopping => gave_up'
    BY Zenon, <1>19 DEF Cancel
  <2>2. pc' = IF stopping THEN "died" ELSE "flush"
    BY <1>19 DEF Cancel
  <2>3. before' = before
    BY <1>19 DEF Cancel
  <2>4. QED
    BY <2>1, <2>2, <2>3
<1>20. CASE FlushTimesOut
  BY <1>1, <1>20 DEF FlushTimesOut, InterruptRequest
<1>21. CASE Stopped
  BY <1>1, <1>21 DEF Stopped
<1>22. CASE UNCHANGED vars
  BY <1>22
<1>23. QED
  BY <1>2, <1>3, <1>4, <1>5, <1>6, <1>7, <1>8, <1>9, <1>10, <1>11,
     <1>12, <1>13, <1>14, <1>15, <1>16, <1>17, <1>18, <1>19, <1>20,
     <1>21, <1>22
     DEF Next, Writer, Environment

\* A flush in which no write failed, timed out or was interrupted empties the
\* buffer before the writer stops.
THEOREM FlushCorrect == Spec => []FlushComplete
<1>1. Init => FlushInv
  BY DEF Init, FlushInv, LoopOrFlush, FlushProgress, Writing
<1>2. FlushInv => FlushComplete
  BY DEF FlushInv, FlushProgress, FlushComplete
<1>3. TypeOK => Bounds
  BY TypeParts
<1>4. Bounds /\ PostedIsHead /\ FlushInv /\ [Next]_vars => FlushInv'
  BY LoopOrFlushStep, FlushProgressStep DEF FlushInv
<1>5. QED
  BY <1>1, <1>2, <1>3, <1>4, TypeCorrect, PostedHeadCorrect, PTL DEF Spec
-----------------------------------------------------------------------------
(* The delivery contract.                                                  *)

\* The posted batch is part of the buffer.
LEMMA PostedIsHeld ==
    ASSUME Bounds, PostedIsHead, pc = "post"
    PROVE  Range(local_buffer) \subseteq Held
<1>1. /\ buffer \in Seq(Measurements) /\ Len(local_buffer) \in Nat
      /\ Len(local_buffer) <= Len(buffer) /\ Len(buffer) \in Nat
      /\ local_buffer = Take(buffer, Len(local_buffer))
  BY LenProperties DEF Bounds, PostedIsHead, Batch
<1>2. ASSUME NEW k \in Nat, k <= Len(buffer)
      PROVE  \A i \in 1..k : Take(buffer, k)[i] = buffer[i]
  <2>1. Least(k, Len(buffer)) = k
    BY <1>1, <1>2 DEF Least
  <2>2. QED
    BY <1>1, <2>1, TakeProperties
<1>3. \A i \in 1..Len(local_buffer) : local_buffer[i] = buffer[i]
  BY <1>1, <1>2
<1>4. /\ Range(local_buffer) = {local_buffer[i] : i \in 1..Len(local_buffer)}
      /\ Range(buffer) = {buffer[i] : i \in 1..Len(buffer)}
  BY <1>1, RangeEquality DEF Bounds
<1>5. \A i \in 1..Len(local_buffer) : i \in 1..Len(buffer)
  BY <1>1
<1>6. QED
  BY <1>3, <1>4, <1>5 DEF Held

\* What a step other than the arrival of a measurement may change.
LEMMA SettlingStep ==
    ASSUME Bounds, PostedIsHead, [Next]_vars, ~Put
    PROVE  /\ arrived' = arrived
           /\ delivered \subseteq delivered' /\ discarded \subseteq discarded'
           /\ stored \subseteq stored' /\ stored' \ stored \subseteq Held
<1>1. CASE UNCHANGED vars
  BY <1>1
<1>2. CASE Next
  <2>1. arrived' = arrived
    BY <1>2 DEF Next, Writer, Environment, PostEnds, DrainOne, DrainEnds, Wake,
       SkipWrite, StartWrite, DialSucceeds, DialFails, Compose, AcloseEnds,
       RaiseException, FlushWrites, FlushEnds, Close, Cancel, FlushTimesOut,
       PostSucceeds, PostOutOfRetention, PostMalformed, PostTooLarge,
       PostMisconfigured, PostOther, PostRetryable, PostLost, WriteFails,
       LoseClient, InterruptRequest, Tick, Recover, Stopped
  <2>2. delivered \subseteq delivered' /\ discarded \subseteq discarded'
    BY <1>2 DEF Next, Writer, Environment, PostEnds, DrainOne, DrainEnds, Wake,
       append_measurement, SkipWrite, StartWrite, DialSucceeds, DialFails,
       Compose, Prepare, AcloseEnds, RaiseException, FlushWrites, FlushEnds,
       Close, Cancel, FlushTimesOut, PostSucceeds, PostOutOfRetention,
       PostMalformed, PostTooLarge, PostMisconfigured, PostOther,
       PostRetryable, PostLost, LoseClient, InterruptRequest, Tick, Recover,
       Stopped
  <2>3. \/ stored' = stored
        \/ pc = "post" /\ MayHaveStored
        \/ pc = "post" /\ stored' = stored \cup Range(local_buffer)
    BY <1>2 DEF Next, Writer, Environment, PostEnds, DrainOne, DrainEnds, Wake,
       SkipWrite, StartWrite, DialSucceeds, DialFails, Compose, AcloseEnds,
       RaiseException, FlushWrites, FlushEnds, Close, Cancel, FlushTimesOut,
       PostSucceeds, PostOutOfRetention, PostMalformed, PostTooLarge,
       PostMisconfigured, PostOther, PostRetryable, PostLost, Answered,
       InterruptRequest, Tick, Recover, Stopped
  <2>4. stored \subseteq stored' /\ stored' \ stored \subseteq Held
    BY <2>3, PostedIsHeld DEF MayHaveStored
  <2>5. QED
    BY <2>1, <2>2, <2>4
<1>3. QED
  BY <1>1, <1>2

\* Held is what the contract calls held.
LEMMA HeldFate ==
    ASSUME Bounds, Conserved
    PROVE  /\ Held \subseteq Measurements
           /\ Contract!InState("held") = Held
           /\ \A m \in Measurements : Fate[m] = "unseen" <=> m \notin 1..arrived
<1>1. Held \subseteq Measurements
  BY RangeOfSeq DEF Held, Bounds
<1>2. Contract!InState("held") = Held
  BY <1>1 DEF Contract!InState, Fate, Conserved
<1>3. \A m \in Measurements : Fate[m] = "unseen" <=> m \notin 1..arrived
  BY DEF Fate, Conserved
<1>4. QED
  BY <1>1, <1>2, <1>3

\* Every step of the writer is a step of the contract, or changes nothing in it.
LEMMA ContractStep ==
    ASSUME Bounds, PostedIsHead, Conserved, Conserved', DeliveredIsStored',
           [Next]_vars
    PROVE  [Contract!Next]_Contract!vars
<1>1. CASE Put
  <2>1. /\ arrived + 1 \in Measurements /\ arrived \in Nat
        /\ arrived' = arrived + 1
        /\ UNCHANGED <<buffer, delivered, discarded, stored>>
        /\ 1..arrived' = (1..arrived) \cup {arrived + 1}
        /\ arrived + 1 \notin 1..arrived
    BY <1>1, WriterAssumption DEF Put, Bounds, Measurements
  <2>2. Fate[arrived + 1] = "unseen"
    BY <2>1, HeldFate
  <2>3. ASSUME NEW m \in Measurements
        PROVE  Fate'[m] = [Fate EXCEPT ![arrived + 1] = "held"][m]
    <3>1. Held' = Held \cup {arrived + 1}
      BY <2>1 DEF Conserved
    <3>2. QED
      BY <2>1, <3>1 DEF Fate, Conserved
  <2>4. Fate' = [Fate EXCEPT ![arrived + 1] = "held"]
    BY <2>3 DEF Fate
  <2>5. Contract!Accept(arrived + 1)
    BY <2>1, <2>2, <2>4 DEF Contract!Accept
  <2>6. QED
    BY <2>1, <2>5 DEF Contract!Next
<1>2. CASE ~Put
  <2> DEFINE done     == delivered' \ delivered
             given_up == discarded' \ discarded
             written  == stored' \ stored
  <2>1. /\ arrived' = arrived
        /\ delivered \subseteq delivered' /\ discarded \subseteq discarded'
        /\ stored \subseteq stored' /\ written \subseteq Held
    BY <1>2, SettlingStep
  <2>2. /\ done \subseteq Held /\ given_up \subseteq Held
        /\ done \cap given_up = {}
    BY <2>1 DEF Conserved
  <2>3. done \subseteq stored \cup written /\ stored' = stored \cup written
    BY <2>1 DEF DeliveredIsStored
  <2>4. ASSUME NEW m \in Measurements
        PROVE  Fate'[m] = IF m \in done THEN "delivered"
                          ELSE IF m \in given_up THEN "discarded" ELSE Fate[m]
    <3>1. m \in delivered' <=> m \in delivered \/ m \in done
      BY <2>1
    <3>2. m \in discarded' <=> m \in discarded \/ m \in given_up
      BY <2>1
    <3>3. m \notin delivered' /\ m \notin discarded' => (m \in Held' <=> m \in Held)
      BY <2>1 DEF Conserved
    <3>4. ~(m \in delivered /\ m \in given_up)
      BY <2>1 DEF Conserved
    <3> HIDE DEF done, given_up
    <3>5. QED
      BY <3>1, <3>2, <3>3, <3>4 DEF Fate
  <2>5. Fate' = [m \in Measurements |->
                   IF m \in done THEN "delivered"
                   ELSE IF m \in given_up THEN "discarded" ELSE Fate[m]]
    BY <2>4 DEF Fate
  <2>6. Contract!Settle(written, done, given_up)
    BY <2>2, <2>3, <2>5 DEF Contract!Settle
  <2>7. /\ written \in SUBSET Contract!InState("held")
        /\ done \in SUBSET Contract!InState("held")
        /\ given_up \in SUBSET Contract!InState("held")
    BY <2>1, <2>2, HeldFate
  <2> HIDE DEF done, given_up, written
  <2>8. QED
    BY <2>6, <2>7 DEF Contract!Next
<1>3. QED
  BY <1>1, <1>2

\* The writer implements Delivery: every measurement is held until the database
\* has it or it is given up for good, and is then never written again.
THEOREM WriterDelivers == Spec => Delivers
<1>1. Init => Contract!Init
  <2> SUFFICES ASSUME Init PROVE Contract!Init
    OBVIOUS
  <2>1. Range(<<>>) = {}
    BY EmptySeq DEF Range
  <2>2. QED
    BY <2>1 DEF Init, Contract!Init, Fate, Held
<1>2. TypeOK => Bounds
  BY TypeParts
<1>3. Bounds /\ PostedIsHead /\ Conserved /\ Conserved' /\ DeliveredIsStored'
          /\ [Next]_vars
        => [Contract!Next]_Contract!vars
  BY ContractStep
<1>4. QED
  BY <1>1, <1>2, <1>3, TypeCorrect, PostedHeadCorrect, ConservedCorrect,
     DeliveredCorrect, PTL DEF Spec, Delivers, Contract!Spec
=============================================================================
