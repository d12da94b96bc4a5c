---------------------------- MODULE KairosProofs ----------------------------
(***************************************************************************)
(* For every number of conversations, notes and timers and every setting   *)
(* of the policy: a note marked as raised was told unless its reminder was *)
(* full, however turns, passes, timers and restarts overlap; and when      *)
(* nothing overlaps she keeps to the bounds decide() checked, although she *)
(* speaks a delay and a whole generation after it was asked.               *)
(***************************************************************************)
EXTENDS Kairos, SequenceTheorems, FiniteSetTheorems, TLAPS

-----------------------------------------------------------------------------
(* Ages, oldest first. *)

LEMMA AgedSplits ==
    ASSUME NEW q \in Seq(Nat), Sorted(q), NEW b \in Nat
    PROVE  /\ Aged(q, b) \in 0..Len(q)
           /\ \A j \in 1..Len(q) : j <= Aged(q, b) <=> q[j] >= b
<1> DEFINE S == {j \in 1..Len(q) : q[j] >= b}
<1>0. Len(q) \in Nat /\ \A j \in 1..Len(q) : q[j] \in Nat
  BY LenProperties, ElementOfSeq
<1>1. /\ IsFiniteSet(1..Len(q)) /\ Cardinality(1..Len(q)) = Len(q)
  <2>1. Len(q) \in Int /\ 1 \in Int /\ (1 > Len(q) => Len(q) = 0)
    BY <1>0
  <2> QED
    BY <2>1, FS_Interval
<1>2. /\ IsFiniteSet(S) /\ Cardinality(S) \in Nat /\ Cardinality(S) <= Len(q)
  BY <1>1, FS_Subset, FS_CardinalityType
<1>3. ASSUME NEW j \in 1..Len(q), q[j] >= b PROVE j <= Cardinality(S)
  <2>1. 1..j \subseteq S
    BY <1>0, <1>3 DEF Sorted
  <2>2. Cardinality(1..j) <= Cardinality(S)
    BY <1>2, <2>1, FS_Subset
  <2>3. Cardinality(1..j) = j
    <3>1. j \in Int /\ 1 \in Int /\ ~(1 > j)
      BY <1>0
    <3> QED
      BY <3>1, FS_Interval
  <2> QED
    BY <2>2, <2>3
<1>4. ASSUME NEW j \in 1..Len(q), ~(q[j] >= b) PROVE ~(j <= Cardinality(S))
  <2>1. S \subseteq 1..(j - 1)
    BY <1>0, <1>4 DEF Sorted
  <2>2. IsFiniteSet(1..(j - 1)) /\ Cardinality(1..(j - 1)) = j - 1
    <3>1. j - 1 \in Int /\ 1 \in Int /\ (1 > j - 1 => j - 1 = 0)
      BY <1>0
    <3> QED
      BY <3>1, FS_Interval
  <2>3. Cardinality(S) <= j - 1
    BY <2>1, <2>2, FS_Subset
  <2> QED
    BY <1>0, <1>2, <2>3
<1> QED
  BY <1>2, <1>3, <1>4 DEF Aged

LEMMA NewerFacts ==
    ASSUME NEW C \in Nat, NEW q \in Seq(0..C), Sorted(q), NEW b \in Nat
    PROVE  /\ Aged(q, b) \in 0..Len(q) /\ Len(q) \in Nat
           /\ \A j \in 1..Len(q) : j <= Aged(q, b) <=> q[j] >= b
           /\ Newer(q, b) \in Seq(0..C)
           /\ Len(Newer(q, b)) = Len(q) - Aged(q, b)
           /\ \A j \in 1..Len(Newer(q, b)) : Newer(q, b)[j] = q[j + Aged(q, b)]
           /\ Sorted(Newer(q, b))
           /\ \A j \in 1..Len(Newer(q, b)) : Newer(q, b)[j] < b
<1>0. Len(q) \in Nat /\ (\A j \in 1..Len(q) : q[j] \in 0..C) /\ q \in Seq(Nat)
  <2>1. 0..C \subseteq Nat
    OBVIOUS
  <2> QED
    BY <2>1, LenProperties, ElementOfSeq, SeqMonotonic
<1>1. /\ Aged(q, b) \in 0..Len(q)
      /\ \A j \in 1..Len(q) : j <= Aged(q, b) <=> q[j] >= b
  BY <1>0, AgedSplits
<1> DEFINE k == Aged(q, b)
           r == SubSeq(q, k + 1, Len(q))
<1> HIDE DEF k, r
<1>2. k \in 0..Len(q) /\ r = Newer(q, b) /\ k = Aged(q, b)
  BY <1>1 DEF k, r, Newer
<1>3. k + 1 \in Int /\ Len(q) \in Int /\ \A j \in (k + 1)..Len(q) : q[j] \in 0..C
  BY <1>0, <1>2
<1>4. /\ r \in Seq(0..C)
      /\ Len(r) = IF k + 1 <= Len(q) THEN Len(q) - (k + 1) + 1 ELSE 0
      /\ \A j \in 1..(Len(q) - (k + 1) + 1) : r[j] = q[k + 1 + j - 1]
  BY <1>3, SubSeqProperties DEF r
<1>5. Len(r) = Len(q) - k /\ Len(r) \in Nat
  BY <1>0, <1>2, <1>4
<1>6. ASSUME NEW j \in 1..Len(r)
      PROVE  r[j] = q[j + k] /\ j + k \in 1..Len(q) /\ ~(j + k <= k)
  <2>1. j \in 1..(Len(q) - (k + 1) + 1) /\ k + 1 + j - 1 = j + k
    BY <1>0, <1>2, <1>5
  <2>2. r[j] = q[k + 1 + j - 1]
    BY <1>4, <2>1
  <2>3. j + k \in 1..Len(q) /\ ~(j + k <= k)
    BY <1>0, <1>2, <1>5
  <2> QED
    BY <2>1, <2>2, <2>3
<1>7. Sorted(r)
  <2> SUFFICES ASSUME NEW i \in 1..Len(r), NEW j \in 1..Len(r), i <= j
               PROVE  r[i] >= r[j]
    BY DEF Sorted
  <2>1. i + k \in 1..Len(q) /\ j + k \in 1..Len(q) /\ i + k <= j + k
    BY <1>0, <1>2, <1>5, <1>6
  <2>2. \A x, y \in 1..Len(q) : x <= y => q[x] >= q[y]
    BY DEF Sorted
  <2>3. q[i + k] >= q[j + k]
    BY <2>1, <2>2
  <2> QED
    BY <1>6, <2>3
<1>8. ASSUME NEW j \in 1..Len(r) PROVE r[j] < b
  <2>1. q[j + k] \in Nat /\ ~(q[j + k] >= b)
    BY <1>0, <1>1, <1>2, <1>6
  <2> QED
    BY <1>6, <2>1
<1> QED
  BY <1>0, <1>1, <1>2, <1>4, <1>5, <1>6, <1>7, <1>8

GapOK(q) == \A j \in 1..(Len(q) - 1) : q[j] - q[j + 1] >= Cooldown

LEMMA FunctionIsSeq ==
    ASSUME NEW S, NEW n \in Nat, NEW f \in [1..n -> S]
    PROVE  f \in Seq(S)
  OBVIOUS

LEMMA Bounds ==
    /\ Hour \in Nat /\ Hour > 0 /\ MaxLag \in Nat /\ AgeCap \in Nat /\ Cooldown \in Nat
    /\ IdleCap \in Nat /\ MaxChain \in Nat /\ MaxPerHour \in Nat /\ NudgeLines \in Nat
    /\ Cooldown <= Hour /\ CheckinIdle \in Nat
  BY SchedulerShape DEF AgeCap, IdleCap

(* note_spoke: the last hour's remarks and the new one. *)
LEMMA SpokeAges ==
    ASSUME NEW q \in Seq(0..AgeCap), Sorted(q), NEW r, r = Append(Newer(q, Hour), 0)
    PROVE  /\ r \in Seq(0..AgeCap) /\ Sorted(r)
           /\ r # << >> /\ r[Len(r)] = 0
           /\ (GapOK(q) /\ (q # << >> => q[Len(q)] >= Cooldown)) => GapOK(r)
           /\ Len(Newer(r, Hour)) = Len(Newer(q, Hour)) + 1
<1> DEFINE m == Newer(q, Hour)
           k == Aged(q, Hour)
<1>1. /\ k \in 0..Len(q) /\ Len(q) \in Nat
      /\ m \in Seq(0..AgeCap) /\ Len(m) = Len(q) - k
      /\ \A j \in 1..Len(m) : m[j] = q[j + k] /\ m[j] < Hour
      /\ Sorted(m)
  BY Bounds, NewerFacts
<1>2. \A j \in 1..Len(q) : q[j] \in 0..AgeCap
  BY ElementOfSeq
<1>3. \A j \in 1..Len(m) : m[j] \in 0..AgeCap
  BY <1>1, ElementOfSeq
<1> HIDE DEF m, k
<1>4. 0 \in 0..AgeCap /\ r = Append(m, 0)
  BY Bounds DEF m
<1>5. /\ r \in Seq(0..AgeCap) /\ Len(r) = Len(m) + 1 /\ r[Len(m) + 1] = 0
      /\ \A j \in 1..Len(m) : r[j] = m[j]
  <2> DEFINE A == 0..AgeCap
  <2>1. m \in Seq(A) /\ 0 \in A
    BY <1>1, <1>4
  <2> HIDE DEF A
  <2>2. /\ Append(m, 0) \in Seq(A) /\ Len(Append(m, 0)) = Len(m) + 1
        /\ Append(m, 0)[Len(m) + 1] = 0
        /\ \A j \in 1..Len(m) : Append(m, 0)[j] = m[j]
    BY <2>1, AppendProperties
  <2> QED
    BY <1>4, <2>2 DEF A
<1>6. Sorted(r)
  <2> SUFFICES ASSUME NEW i \in 1..Len(r), NEW j \in 1..Len(r), i <= j
               PROVE  r[i] >= r[j]
    BY DEF Sorted
  <2>0. Len(m) \in Nat
    BY <1>1
  <2>1. CASE j = Len(m) + 1
    <3>1. r[i] \in Nat
      BY <1>3, <1>5, <2>0
    <3> QED
      BY <1>5, <2>1, <3>1
  <2>2. CASE j # Len(m) + 1
    <3>1. i \in 1..Len(m) /\ j \in 1..Len(m)
      BY <1>5, <2>0, <2>2
    <3>2. m[i] >= m[j]
      BY <1>1, <3>1 DEF Sorted
    <3> QED
      BY <1>5, <3>1, <3>2
  <2> QED
    BY <2>1, <2>2
<1>7. r # << >> /\ r[Len(r)] = 0
  BY <1>1, <1>5, EmptySeq
<1>8. ASSUME GapOK(q), q # << >> => q[Len(q)] >= Cooldown PROVE GapOK(r)
  <2> SUFFICES ASSUME NEW j \in 1..(Len(r) - 1) PROVE r[j] - r[j + 1] >= Cooldown
    BY DEF GapOK
  <2>1. j \in 1..Len(m) /\ r[j] = q[j + k] /\ j + k \in 1..Len(q)
    BY <1>1, <1>5
  <2>2. CASE j = Len(m)
    <3>1. q # << >> /\ j + k = Len(q)
      BY <1>1, <2>1, <2>2, EmptySeq
    <3> QED
      BY <1>2, <1>5, <1>8, <2>1, <2>2, <3>1
  <2>3. CASE j # Len(m)
    <3>1. j + 1 \in 1..Len(m) /\ j + k \in 1..(Len(q) - 1) /\ (j + 1) + k = (j + k) + 1
      BY <1>1, <2>1, <2>3
    <3>2. r[j + 1] = q[(j + k) + 1]
      BY <1>1, <1>5, <3>1
    <3>3. q[j + k] - q[(j + k) + 1] >= Cooldown
      BY <1>8, <3>1 DEF GapOK
    <3> QED
      BY <2>1, <3>2, <3>3
  <2> QED
    BY <2>2, <2>3
<1>9. Len(Newer(r, Hour)) = Len(m) + 1
  <2>1. /\ Aged(r, Hour) \in 0..Len(r) /\ Len(Newer(r, Hour)) = Len(r) - Aged(r, Hour)
        /\ \A j \in 1..Len(r) : j <= Aged(r, Hour) <=> r[j] >= Hour
    <3>1. r \in Seq(0..AgeCap) /\ Sorted(r) /\ AgeCap \in Nat /\ Hour \in Nat
      BY <1>5, <1>6, Bounds
    <3> QED
      BY <3>1, NewerFacts
  <2>2. 1 \in 1..Len(r) /\ r[1] \in Nat /\ r[1] < Hour
    <3>1. CASE Len(m) = 0
      BY <1>5, <3>1, Bounds
    <3>2. CASE Len(m) # 0
      <4>1. 1 \in 1..Len(m)
        BY <1>1, <3>2
      <4>2. r[1] = m[1] /\ m[1] \in Nat /\ m[1] < Hour
        BY <1>1, <1>3, <1>5, <4>1
      <4> QED
        BY <1>1, <1>5, <4>1, <4>2
    <3> QED
      BY <3>1, <3>2
  <2>3. ~(1 <= Aged(r, Hour))
    BY <2>1, <2>2, Bounds
  <2> QED
    BY <1>1, <1>5, <2>1, <2>3
<1> QED
  BY <1>5, <1>6, <1>7, <1>8, <1>9 DEF m

(* A unit of time passes: everything is one older, and some are forgotten. *)
LEMMA OlderAges ==
    ASSUME NEW q \in Seq(0..AgeCap), Sorted(q), NEW r, r = Older(q)
    PROVE  /\ r \in Seq(0..AgeCap) /\ Sorted(r)
           /\ GapOK(q) => GapOK(r)
           /\ r # << >> => q # << >> /\ r[Len(r)] = q[Len(q)] + 1
           /\ (q # << >> /\ q[Len(q)] + 1 < AgeCap) => r # << >>
           /\ Len(Newer(r, Hour)) <= Len(Newer(q, Hour))
<1> DEFINE up == [j \in 1..Len(q) |-> q[j] + 1]
           k == Aged(up, AgeCap)
<1>1. Len(q) \in Nat /\ \A j \in 1..Len(q) : q[j] \in 0..AgeCap /\ q[j] \in Nat
  BY LenProperties, ElementOfSeq, Bounds
<1>2. AgeCap + 1 \in Nat /\ up \in Seq(0..(AgeCap + 1)) /\ Len(up) = Len(q)
  <2>1. \A j \in 1..Len(q) : q[j] + 1 \in 0..(AgeCap + 1)
    BY <1>1, Bounds
  <2>2. up \in [1..Len(q) -> 0..(AgeCap + 1)]
    BY <2>1
  <2> QED
    BY <1>1, <2>2, Bounds
<1>3. Sorted(up)
  BY <1>1, <1>2 DEF Sorted
<1>4. /\ k \in 0..Len(q) /\ r \in Seq(0..(AgeCap + 1)) /\ Len(r) = Len(q) - k
      /\ \A j \in 1..Len(r) : r[j] = up[j + k] /\ r[j] < AgeCap
      /\ Sorted(r)
      /\ \A j \in 1..Len(up) : j <= k <=> up[j] >= AgeCap
  <2> DEFINE C == AgeCap + 1
             w == up
  <2>1. C \in Nat /\ w \in Seq(0..C) /\ Sorted(w) /\ AgeCap \in Nat /\ Len(w) = Len(q)
    BY <1>2, <1>3, Bounds
  <2>2. r = Newer(w, AgeCap)
    BY DEF Older
  <2> HIDE DEF C, w
  <2>3. /\ Aged(w, AgeCap) \in 0..Len(w) /\ r \in Seq(0..C)
        /\ Len(r) = Len(w) - Aged(w, AgeCap)
        /\ \A j \in 1..Len(r) : r[j] = w[j + Aged(w, AgeCap)]
        /\ \A j \in 1..Len(r) : r[j] < AgeCap
        /\ Sorted(r)
        /\ \A j \in 1..Len(w) : j <= Aged(w, AgeCap) <=> w[j] >= AgeCap
    <3>1. /\ Aged(w, AgeCap) \in 0..Len(w) /\ Newer(w, AgeCap) \in Seq(0..C)
          /\ Len(Newer(w, AgeCap)) = Len(w) - Aged(w, AgeCap)
          /\ \A j \in 1..Len(Newer(w, AgeCap)) : Newer(w, AgeCap)[j] = w[j + Aged(w, AgeCap)]
          /\ \A j \in 1..Len(Newer(w, AgeCap)) : Newer(w, AgeCap)[j] < AgeCap
          /\ Sorted(Newer(w, AgeCap))
          /\ \A j \in 1..Len(w) : j <= Aged(w, AgeCap) <=> w[j] >= AgeCap
      BY <2>1, NewerFacts
    <3> QED
      BY <2>2, <3>1, Zenon
  <2> QED
    BY <2>1, <2>3 DEF C, w
<1> HIDE DEF k
<1>5. ASSUME NEW j \in 1..Len(r) PROVE j + k \in 1..Len(q) /\ r[j] = q[j + k] + 1
  <2>1. j + k \in 1..Len(q)
    BY <1>1, <1>4
  <2> QED
    BY <1>4, <2>1
<1>6. r \in Seq(0..AgeCap)
  <2>1. r \in [1..Len(r) -> 0..(AgeCap + 1)] /\ Len(r) \in Nat
    BY <1>4, LenProperties
  <2>2. \A j \in 1..Len(r) : r[j] \in 0..AgeCap
    <3> TAKE j \in 1..Len(r)
    <3>1. q[j + k] \in Nat /\ r[j] = q[j + k] + 1 /\ r[j] < AgeCap
      BY <1>1, <1>4, <1>5
    <3> QED
      BY <3>1, Bounds
  <2>3. r \in [1..Len(r) -> 0..AgeCap]
    BY <2>1, <2>2
  <2> QED
    BY <2>1, <2>3, FunctionIsSeq
<1>7. ASSUME GapOK(q) PROVE GapOK(r)
  <2> SUFFICES ASSUME NEW j \in 1..(Len(r) - 1) PROVE r[j] - r[j + 1] >= Cooldown
    BY DEF GapOK
  <2>1. j \in 1..Len(r) /\ j + 1 \in 1..Len(r) /\ j + k \in 1..(Len(q) - 1)
        /\ (j + 1) + k = (j + k) + 1
    BY <1>1, <1>4
  <2>2. r[j] = q[j + k] + 1 /\ r[j + 1] = q[(j + k) + 1] + 1
    BY <1>5, <2>1
  <2>3. q[j + k] - q[(j + k) + 1] >= Cooldown
    BY <1>7, <2>1 DEF GapOK
  <2>4. q[j + k] \in Nat /\ q[(j + k) + 1] \in Nat
    BY <1>1, <1>5, <2>1
  <2>5. (q[j + k] + 1) - (q[(j + k) + 1] + 1) = q[j + k] - q[(j + k) + 1]
    BY <2>4
  <2> QED
    BY <2>2, <2>3, <2>5
<1>8. ASSUME r # << >> PROVE q # << >> /\ r[Len(r)] = q[Len(q)] + 1
  <2>1. Len(r) \in 1..Len(r) /\ Len(r) + k = Len(q)
    BY <1>1, <1>4, <1>8, EmptySeq
  <2> QED
    BY <1>1, <1>5, <2>1, EmptySeq
<1>9. ASSUME q # << >>, q[Len(q)] + 1 < AgeCap PROVE r # << >>
  <2>1. Len(q) \in 1..Len(q)
    BY <1>1, <1>9, EmptySeq
  <2>2. up[Len(q)] = q[Len(q)] + 1
    BY <2>1
  <2>3. ~(Len(q) <= k)
    BY <1>1, <1>2, <1>4, <1>9, <2>1, <2>2, Bounds
  <2> QED
    BY <1>1, <1>4, <2>3, EmptySeq
<1>10. Len(Newer(r, Hour)) <= Len(Newer(q, Hour))
  <2>1. /\ Aged(r, Hour) \in 0..Len(r) /\ Len(Newer(r, Hour)) = Len(r) - Aged(r, Hour)
        /\ \A j \in 1..Len(r) : j <= Aged(r, Hour) <=> r[j] >= Hour
    <3>1. r \in Seq(0..AgeCap) /\ Sorted(r) /\ AgeCap \in Nat /\ Hour \in Nat
      BY <1>4, <1>6, Bounds
    <3> QED
      BY <3>1, NewerFacts
  <2>2. /\ Aged(q, Hour) \in 0..Len(q) /\ Len(Newer(q, Hour)) = Len(q) - Aged(q, Hour)
        /\ \A j \in 1..Len(q) : j <= Aged(q, Hour) <=> q[j] >= Hour
    BY Bounds, NewerFacts
  <2>3. ASSUME Aged(q, Hour) > k + Aged(r, Hour) PROVE FALSE
    <3> DEFINE i == Aged(r, Hour) + 1
    <3>1. i \in 1..Len(r) /\ i + k \in 1..Len(q) /\ i + k <= Aged(q, Hour)
      BY <1>1, <1>4, <2>1, <2>2, <2>3
    <3>2. q[i + k] >= Hour /\ r[i] = q[i + k] + 1
      BY <1>5, <2>2, <3>1
    <3>3. r[i] >= Hour
      BY <1>1, <3>1, <3>2, Bounds
    <3>4. i <= Aged(r, Hour)
      BY <2>1, <3>1, <3>3
    <3> QED
      BY <1>4, <2>1, <3>4
  <2> QED
    BY <1>1, <1>4, <2>1, <2>2, <2>3
<1> QED
  BY <1>4, <1>6, <1>7, <1>8, <1>9, <1>10

(* A clock read lag ago finds at least the remarks of the last hour. *)
LEMMA LagCounts ==
    ASSUME NEW q \in Seq(0..AgeCap), Sorted(q), NEW lag \in Nat
    PROVE  /\ Len(Newer(q, Hour)) <= Len(Newer(q, Hour + lag))
           /\ Len(Newer(q, Hour)) \in Nat /\ Len(Newer(q, Hour + lag)) \in Nat
<1>0. Hour + lag \in Nat /\ Hour + lag >= Hour
  BY Bounds
<1>1. /\ Aged(q, Hour) \in 0..Len(q) /\ Len(Newer(q, Hour)) = Len(q) - Aged(q, Hour)
      /\ \A j \in 1..Len(q) : j <= Aged(q, Hour) <=> q[j] >= Hour
      /\ Len(q) \in Nat
  BY Bounds, NewerFacts
<1>2. /\ Aged(q, Hour + lag) \in 0..Len(q)
      /\ Len(Newer(q, Hour + lag)) = Len(q) - Aged(q, Hour + lag)
      /\ \A j \in 1..Len(q) : j <= Aged(q, Hour + lag) <=> q[j] >= Hour + lag
  BY <1>0, Bounds, NewerFacts
<1>3. ASSUME Aged(q, Hour + lag) > Aged(q, Hour) PROVE FALSE
  <2> DEFINE i == Aged(q, Hour + lag)
  <2>1. i \in 1..Len(q) /\ i <= i
    BY <1>1, <1>2, <1>3
  <2>2. q[i] >= Hour + lag /\ q[i] \in 0..AgeCap /\ q[i] \in Nat
    <3>1. q[i] >= Hour + lag
      BY <1>2, <2>1
    <3>2. q[i] \in 0..AgeCap
      BY <2>1, ElementOfSeq
    <3> QED
      BY <3>1, <3>2
  <2>3. q[i] >= Hour
    BY <1>0, <2>2, Bounds
  <2>4. i <= Aged(q, Hour)
    BY <1>1, <2>1, <2>3
  <2> QED
    BY <1>1, <1>2, <1>3, <2>4
<1> QED
  BY <1>1, <1>2, <1>3

-----------------------------------------------------------------------------
(* Type correctness, whatever overlaps. *)

LEMMA FreeIsFree ==
    /\ Free \in TimerType /\ Free.phase = "free" /\ Free.act = "silent" /\ Free.notes = {}
    /\ Resting \in TickType /\ Resting.phase = "rest" /\ Resting.due = {} /\ Resting.lag = 0
  BY Bounds DEF Free, TimerType, Resting, TickType, Endings

(* What the policy answers. *)
LEMMA DecideFacts ==
    ASSUME NEW s, NEW lag, NEW ending, NEW due, NEW insight, NEW low, NEW roll,
           NEW act, act = Decide(s, lag, ending, due, insight, low, roll)
    PROVE  /\ act \in Actions \cup {"silent"}
           /\ act # "silent" => ~Cooling(s, lag) /\ ~Capped(s, lag)
           /\ act = "remind" => due # {}
           /\ act \notin {"silent", "remind"} => ~Waits(s, ending)
  BY DEF Decide, Actions

(* _arm *)
LEMMA ArmFacts ==
    ASSUME TimersOK, NEW s \in Session, NEW act \in Actions \cup {"silent"}, NEW due \in SUBSET Note,
           act = "remind" => due # {}, ArmUnlessSilent(s, act, due)
    PROVE  /\ TimersOK'
           /\ act = "silent" => UNCHANGED <<timer, slot>>
           /\ act # "silent" =>
                 \E i \in Timer : /\ timer[i] = Free
                                  /\ timer'[i] = [phase |-> "armed", s |-> s, act |-> act,
                                                  notes |-> IF act = "remind" THEN due ELSE {}]
                                  /\ \A j \in Timer \ {i} : timer'[j] = timer[j]
                                  /\ slot' = [slot EXCEPT ![s] = i]
<1>1. CASE act = "silent"
  BY <1>1 DEF ArmUnlessSilent, TimersOK
<1>2. CASE act # "silent"
  <2>1. PICK i \in Timer :
           /\ timer[i] = Free
           /\ timer' = [timer EXCEPT ![i] =
                [phase |-> "armed", s |-> s, act |-> act,
                 notes |-> IF act = "remind" THEN due ELSE {}]]
           /\ slot' = [slot EXCEPT ![s] = i]
    BY <1>2 DEF ArmUnlessSilent, Arm
  <2> DEFINE a == [phase |-> "armed", s |-> s, act |-> act,
                   notes |-> IF act = "remind" THEN due ELSE {}]
  <2>2. /\ a \in TimerType /\ a.phase = "armed" /\ a.act = act /\ a # Free
        /\ a.act = "remind" <=> a.notes # {}
        /\ a.s = s
    BY <1>2 DEF TimerType, Free
  <2>3. /\ timer' \in [Timer -> TimerType] /\ timer'[i] = a
        /\ \A j \in Timer \ {i} : timer'[j] = timer[j]
    BY <2>1, <2>2 DEF TimersOK
  <2>4. slot' \in [Session -> Timer \cup {Nobody}]
    BY <2>1 DEF TimersOK
  <2>5. TimersOK'
    BY <1>2, <2>2, <2>3, <2>4 DEF TimersOK
  <2> QED
    BY <1>2, <2>1, <2>3, <2>5
<1> QED
  BY <1>1, <1>2

LEMMA ClearedType ==
    ASSUME TimersOK, NEW i
    PROVE  Cleared(i) \in [Session -> Timer \cup {Nobody}]
  BY DEF TimersOK, Cleared

LEMMA FiringType ==
    ASSUME TypeOK, NEW i \in Timer, Fire(i) \/ Dropped(i) \/ MarkRaised(i)
    PROVE  TypeOK'
<1>0. SpeechOK /\ TimersOK /\ tick \in TickType /\ BoardOK /\ timer[i] \in TimerType
  BY DEF TypeOK, TimersOK
<1>1. CASE Fire(i)
  <2>1. /\ timer' = [timer EXCEPT ![i].phase = "generating"] /\ timer[i].phase = "armed"
        /\ slot' = slot
    BY <1>1 DEF Fire
  <2>2. /\ timer'[i] = [timer[i] EXCEPT !.phase = "generating"]
        /\ \A j \in Timer \ {i} : timer'[j] = timer[j]
    BY <1>0, <2>1 DEF TimersOK
  <2>3. /\ timer'[i] \in TimerType /\ timer'[i].phase = "generating"
        /\ timer'[i].act = timer[i].act /\ timer'[i].notes = timer[i].notes
        /\ timer'[i].s = timer[i].s
    BY <1>0, <2>2 DEF TimerType
  <2>4. timer[i] # Free /\ timer'[i] # Free
    BY <2>1, <2>3, FreeIsFree
  <2>5. TimersOK'
    BY <1>0, <2>1, <2>2, <2>3, <2>4 DEF TimersOK
  <2> QED
    BY <1>0, <1>1, <2>5 DEF Fire, TypeOK, SpeechOK, BoardOK
<1>2. ASSUME timer' = [timer EXCEPT ![i] = Free], slot' = Cleared(i) PROVE TimersOK'
  BY <1>0, <1>2, FreeIsFree, ClearedType DEF TimersOK
<1>3. CASE Dropped(i)
  BY <1>0, <1>2, <1>3 DEF Dropped, TypeOK, SpeechOK, BoardOK
<1>4. CASE MarkRaised(i)
  <2>1. TimersOK'
    BY <1>2, <1>4 DEF MarkRaised
  <2>2. note' \in [Note -> NoteType]
    BY <1>0, <1>4 DEF MarkRaised, BoardOK, NoteType
  <2> QED
    BY <1>0, <1>4, <2>1, <2>2 DEF MarkRaised, TypeOK, SpeechOK, BoardOK
<1> QED
  BY <1>1, <1>3, <1>4

LEMMA SpeakType ==
    ASSUME TypeOK, NEW i \in Timer, Speak(i)
    PROVE  TypeOK'
<1> DEFINE s == timer[i].s
<1>0. /\ SpeechOK /\ TimersOK /\ tick \in TickType /\ BoardOK /\ timer[i] \in TimerType
      /\ timer[i].phase = "generating" /\ timer[i] # Free /\ s \in Session
  BY FreeIsFree DEF TypeOK, TimersOK, Speak
<1>1. /\ chain' = [chain EXCEPT ![s] = IF @ < MaxChain THEN @ + 1 ELSE @]
      /\ spoken' = [spoken EXCEPT ![s] = Append(Newer(@, Hour), 0)]
      /\ chat' = [chat EXCEPT ![s] = IF timer[i].act = "remind" \/ @ > MaxChain THEN @ ELSE @ + 1]
      /\ timer' = [timer EXCEPT ![i] = IF timer[i].act = "remind"
                                       THEN [@ EXCEPT !.phase = "marking"] ELSE Free]
      /\ slot' = IF timer[i].act = "remind" THEN slot ELSE Cleared(i)
      /\ UNCHANGED <<idle, reply, turn, tick, note, heard>>
  BY DEF Speak, NoteSpoke
<1>2. PICK told \in Named(timer[i].notes) :
         /\ outbox' = [outbox EXCEPT ![s] = @ \cup told]
         /\ said' = [n \in Note |-> IF n \in told /\ said[n] < 2 THEN said[n] + 1 ELSE said[n]]
  BY DEF Speak
<1>3. SpeechOK'
  <2>1. chain' \in [Session -> 0..MaxChain] /\ chat' \in [Session -> 0..(MaxChain + 1)]
    <3>1. /\ (IF chain[s] < MaxChain THEN chain[s] + 1 ELSE chain[s]) \in 0..MaxChain
          /\ (IF timer[i].act = "remind" \/ chat[s] > MaxChain THEN chat[s] ELSE chat[s] + 1)
                \in 0..(MaxChain + 1)
      <4>1. chain[s] \in 0..MaxChain /\ chat[s] \in 0..(MaxChain + 1)
        BY <1>0 DEF SpeechOK
      <4> QED
        BY <4>1, Bounds
    <3> QED
      BY <1>0, <1>1, <3>1 DEF SpeechOK
  <2>2. /\ spoken[s] \in Seq(0..AgeCap) /\ Sorted(spoken[s])
    BY <1>0 DEF SpeechOK
  <2>3. /\ Append(Newer(spoken[s], Hour), 0) \in Seq(0..AgeCap)
        /\ Sorted(Append(Newer(spoken[s], Hour), 0))
    BY <2>2, SpokeAges
  <2>4. /\ spoken' \in [Session -> Seq(0..AgeCap)]
        /\ \A u \in Session : Sorted(spoken'[u])
    BY <1>0, <1>1, <2>3 DEF SpeechOK
  <2> QED
    BY <1>0, <1>1, <2>1, <2>4 DEF SpeechOK
<1>4. TimersOK'
  <2>1. CASE timer[i].act = "remind"
    <3>1. /\ timer'[i] = [timer[i] EXCEPT !.phase = "marking"] /\ slot' = slot
          /\ \A j \in Timer \ {i} : timer'[j] = timer[j]
      BY <1>0, <1>1, <2>1 DEF TimersOK
    <3>2. /\ timer'[i] \in TimerType /\ timer'[i].phase = "marking"
          /\ timer'[i].act = timer[i].act /\ timer'[i].notes = timer[i].notes
          /\ timer'[i].s = timer[i].s
      BY <1>0, <3>1 DEF TimerType
    <3>3. timer'[i] # Free
      BY <3>2, FreeIsFree
    <3>4. timer' \in [Timer -> TimerType]
      BY <1>0, <1>1, <3>1, <3>2 DEF TimersOK
    <3>5. ASSUME NEW j \in Timer
          PROVE  /\ timer'[j].phase = "free" <=> timer'[j] = Free
                 /\ timer'[j].act = "silent" <=> timer'[j] = Free
                 /\ timer'[j].act = "remind" <=> timer'[j].notes # {}
                 /\ timer'[j] # Free => timer'[j].s \in Session
      <4>1. CASE j = i
        BY <1>0, <3>2, <3>3, <4>1 DEF TimersOK
      <4>2. CASE j # i
        BY <1>0, <3>1, <4>2 DEF TimersOK
      <4> QED
        BY <4>1, <4>2
    <3> QED
      BY <1>0, <3>1, <3>4, <3>5 DEF TimersOK
  <2>2. CASE timer[i].act # "remind"
    <3>1. timer' = [timer EXCEPT ![i] = Free] /\ slot' = Cleared(i)
      BY <1>1, <2>2
    <3>2. slot' \in [Session -> Timer \cup {Nobody}]
      BY <1>0, <3>1, ClearedType
    <3>3. timer' \in [Timer -> TimerType] /\ timer'[i] = Free
          /\ \A j \in Timer \ {i} : timer'[j] = timer[j]
      BY <1>0, <3>1, FreeIsFree DEF TimersOK
    <3> QED
      BY <1>0, <3>2, <3>3, FreeIsFree DEF TimersOK
  <2> QED
    BY <2>1, <2>2
<1>5. BoardOK'
  <2>1. told \subseteq Note
    BY <1>0 DEF Named, TimerType
  <2> QED
    BY <1>0, <1>1, <1>2, <2>1 DEF BoardOK
<1> QED
  BY <1>0, <1>1, <1>3, <1>4, <1>5 DEF TypeOK

LEMMA DueType ==
    ASSUME NEW board
    PROVE  DueOn(board) \in SUBSET Note
  BY DEF DueOn

LEMMA TurnsType ==
    ASSUME TypeOK, NEW s \in Session, Turns(s)
    PROVE  TypeOK'
<1>0. SpeechOK /\ TimersOK /\ tick \in TickType /\ BoardOK
  BY DEF TypeOK
<1>1. CASE OnUserTurn(s)
  <2>1. TimersOK'
    BY <1>0, <1>1, FreeIsFree DEF OnUserTurn, TimersOK
  <2>2. SpeechOK'
    BY <1>0, <1>1, Bounds DEF OnUserTurn, SpeechOK
  <2> QED
    BY <1>0, <1>1, <2>1, <2>2 DEF OnUserTurn, TypeOK, BoardOK
<1>2. ASSUME NEW ending \in {"said", "asked"}, NEW low \in BOOLEAN, NEW roll \in BOOLEAN,
             OnReply(s, ending, low, roll)
      PROVE  TypeOK'
  <2> DEFINE act == Decide(s, 0, ending, DueOn(note), FALSE, low, roll)
  <2>1. act \in Actions \cup {"silent"} /\ (act = "remind" => DueOn(note) # {})
    BY DecideFacts
  <2>2. ArmUnlessSilent(s, act, DueOn(note))
    BY <1>2 DEF OnReply
  <2> HIDE DEF act
  <2>3. TimersOK'
    BY <1>0, <2>1, <2>2, ArmFacts, DueType
  <2>4. SpeechOK'
    BY <1>0, <1>2 DEF OnReply, SpeechOK, Endings
  <2> QED
    BY <1>0, <1>2, <2>3, <2>4 DEF OnReply, TypeOK, BoardOK
<1>3. CASE NoReply(s)
  BY <1>0, <1>3 DEF NoReply, TypeOK, SpeechOK, TimersOK, BoardOK
<1> QED
  BY <1>1, <1>2, <1>3 DEF Turns

LEMMA TickerType ==
    ASSUME TypeOK, Ticker
    PROVE  TypeOK'
<1>0. SpeechOK /\ TimersOK /\ tick \in TickType /\ BoardOK
  BY DEF TypeOK
<1>1. ASSUME NEW fired, NEW insight \in BOOLEAN, TickBegins(fired, insight) PROVE TypeOK'
  <2>1. BoardOK'
    BY <1>0, <1>1 DEF TickBegins, BoardOK, NoteType
  <2>2. tick' \in TickType
    <3>1. tick' = [Resting EXCEPT !.phase = "think", !.insight = insight, !.due = DueOn(note')]
      BY <1>1 DEF TickBegins
    <3> QED
      BY <3>1, FreeIsFree, DueType DEF TickType
  <2> QED
    BY <1>0, <1>1, <2>1, <2>2 DEF TickBegins, TypeOK, SpeechOK, TimersOK
<1>2. CASE TickLooks
  <2>1. tick' \in TickType
    <3>1. tick' = [tick EXCEPT !.phase = "look", !.seen = reply,
                               !.todo = {s \in Session : reply[s] # "none"}]
          /\ reply \in [Session -> Endings]
      BY <1>0, <1>2 DEF TickLooks, SpeechOK
    <3> QED
      BY <1>0, <3>1 DEF TickType
  <2> QED
    BY <1>0, <1>2, <2>1 DEF TickLooks, TypeOK, SpeechOK, TimersOK, BoardOK
<1>3. ASSUME NEW s \in Session, NEW roll \in BOOLEAN, TickSession(s, roll) PROVE TypeOK'
  <2> DEFINE act == TickDecision(s, roll)
  <2>1. act \in Actions \cup {"silent"} /\ (act = "remind" => tick.due # {})
    BY DecideFacts DEF TickDecision
  <2>2. ArmUnlessSilent(s, act, tick.due) /\ tick.due \in SUBSET Note
    BY <1>0, <1>3 DEF TickSession, TickType
  <2>3. tick' = [tick EXCEPT !.todo = IF act \in {"remind", "muse"} THEN {} ELSE @ \ {s}]
    BY <1>3 DEF TickSession
  <2> HIDE DEF act
  <2>4. TimersOK'
    BY <1>0, <2>1, <2>2, ArmFacts
  <2>5. tick' \in TickType
    BY <1>0, <2>3 DEF TickType
  <2> QED
    BY <1>0, <1>3, <2>4, <2>5 DEF TickSession, TypeOK, SpeechOK, BoardOK
<1>4. CASE TickEnds
  BY <1>0, <1>4, FreeIsFree DEF TickEnds, TypeOK, SpeechOK, TimersOK, BoardOK
<1> QED
  BY <1>1, <1>2, <1>3, <1>4 DEF Ticker

LEMMA ElapseFacts ==
    ASSUME TypeOK, Elapse
    PROVE  /\ SpeechOK'
           /\ \A s \in Session : spoken'[s] = Older(spoken[s])
           /\ tick' \in TickType /\ tick'.lag = IF tick.phase = "rest" THEN tick.lag ELSE tick.lag + 1
           /\ tick'.phase = tick.phase /\ tick'.due = tick.due /\ tick'.seen = tick.seen
<1>1. /\ spoken' = [s \in Session |-> Older(spoken[s])]
      /\ idle' = [s \in Session |-> IF idle[s] < IdleCap THEN idle[s] + 1 ELSE idle[s]]
      /\ tick' = [tick EXCEPT !.lag = IF tick.phase = "rest" THEN @ ELSE @ + 1]
      /\ tick.phase # "rest" => tick.lag < MaxLag
      /\ UNCHANGED <<chain, reply, turn, chat>>
  BY DEF Elapse
<1>2. SpeechOK /\ tick \in TickType
  BY DEF TypeOK
<1>3. \A s \in Session : Older(spoken[s]) \in Seq(0..AgeCap) /\ Sorted(Older(spoken[s]))
  BY <1>2, OlderAges DEF SpeechOK
<1>4. idle' \in [Session -> 0..IdleCap]
  BY <1>1, <1>2, Bounds DEF SpeechOK
<1>5. SpeechOK'
  BY <1>1, <1>2, <1>3, <1>4 DEF SpeechOK
<1>6. tick' \in TickType
  <2>1. (IF tick.phase = "rest" THEN tick.lag ELSE tick.lag + 1) \in 0..MaxLag
    BY <1>1, <1>2, Bounds DEF TickType
  <2> QED
    BY <1>1, <1>2, <2>1 DEF TickType
<1>7. /\ tick'.lag = IF tick.phase = "rest" THEN tick.lag ELSE tick.lag + 1
      /\ tick'.phase = tick.phase /\ tick'.due = tick.due /\ tick'.seen = tick.seen
  BY <1>1, <1>2 DEF TickType
<1> QED
  BY <1>1, <1>5, <1>6, <1>7

LEMMA RestType ==
    ASSUME TypeOK,
           \/ \E n \in Note : ComesDue(n) \/ NoteDone(n)
           \/ \E s \in Session : Drain(s)
           \/ Elapse \/ Restart \/ UNCHANGED vars
    PROVE  TypeOK'
<1>0. SpeechOK /\ TimersOK /\ tick \in TickType /\ BoardOK
  BY DEF TypeOK
<1>1. ASSUME NEW n \in Note, ComesDue(n) \/ NoteDone(n) PROVE TypeOK'
  <2>1. note' \in [Note -> NoteType]
    BY <1>0, <1>1 DEF ComesDue, NoteDone, BoardOK, NoteType
  <2> QED
    BY <1>0, <1>1, <2>1 DEF ComesDue, NoteDone, TypeOK, SpeechOK, TimersOK, BoardOK
<1>2. ASSUME NEW s \in Session, Drain(s) PROVE TypeOK'
  BY <1>0, <1>2 DEF Drain, TypeOK, SpeechOK, TimersOK, BoardOK
<1>3. CASE Elapse
  BY <1>0, <1>3, ElapseFacts DEF Elapse, TypeOK, TimersOK, BoardOK
<1>4. CASE Restart
  <2>1. << >> \in Seq(0..AgeCap) /\ Sorted(<< >>)
    BY EmptySeq DEF Sorted
  <2>2. SpeechOK'
    BY <1>0, <1>4, <2>1, Bounds DEF Restart, SpeechOK, Endings
  <2>3. TimersOK'
    BY <1>4, FreeIsFree DEF Restart, TimersOK
  <2>4. tick' \in TickType /\ BoardOK'
    BY <1>0, <1>4, FreeIsFree DEF Restart, BoardOK
  <2> QED
    BY <2>2, <2>3, <2>4 DEF TypeOK
<1>5. CASE UNCHANGED vars
  BY <1>0, <1>5 DEF vars, TypeOK, SpeechOK, TimersOK, BoardOK
<1> QED
  BY <1>1, <1>2, <1>3, <1>4, <1>5

LEMMA InitType ==
    ASSUME Init
    PROVE  TypeOK
<1>1. << >> \in Seq(0..AgeCap) /\ Sorted(<< >>)
  BY EmptySeq DEF Sorted
<1>2. SpeechOK
  BY <1>1, Bounds DEF Init, SpeechOK, Endings
<1>3. TimersOK
  BY FreeIsFree DEF Init, TimersOK
<1>4. tick \in TickType /\ BoardOK
  BY FreeIsFree DEF Init, BoardOK, NoteType, Fresh
<1> QED
  BY <1>2, <1>3, <1>4 DEF TypeOK

LEMMA NextType ==
    ASSUME TypeOK, [Next]_vars
    PROVE  TypeOK'
<1>1. ASSUME NEW i \in Timer, Firing(i) PROVE TypeOK'
  BY <1>1, FiringType, SpeakType DEF Firing
<1>2. ASSUME NEW s \in Session, Turns(s) PROVE TypeOK'
  BY <1>2, TurnsType
<1>3. CASE Ticker
  BY <1>3, TickerType
<1>4. CASE \/ \E n \in Note : ComesDue(n) \/ NoteDone(n)
           \/ \E s \in Session : Drain(s)
           \/ Elapse \/ Restart \/ UNCHANGED vars
  BY <1>4, RestType
<1> QED
  BY <1>1, <1>2, <1>3, <1>4 DEF Next, GatewayUp

(* Every variable keeps its type, timers at work have something to say and *)
(* the remembered ages stay sorted, however turns, passes, timers and      *)
(* restarts overlap (the whole of scheduler.py).                           *)
THEOREM SchedulerTypes == Spec => []TypeOK
<1>1. Init => TypeOK
  BY InitType
<1>2. TypeOK /\ [Next]_vars => TypeOK'
  BY NextType
<1> QED
  BY <1>1, <1>2, PTL DEF Spec

-----------------------------------------------------------------------------
(* A note marked as raised was told, or its reminder was full. *)

LEMMA ToldGrows ==
    ASSUME TypeOK, \A n \in Note : said[n] > 0 => said'[n] > 0,
           NEW n \in Note, ToldOrCrowded(n)
    PROVE  ToldOrCrowded(n)'
<1> DEFINE A == {m \in Note : said[m] > 0}
           B == {m \in Note : said'[m] > 0}
<1>1. IsFiniteSet(B) /\ A \subseteq B
  BY SchedulerShape, FS_Subset
<1>2. Cardinality(A) <= Cardinality(B) /\ Cardinality(A) \in Nat /\ Cardinality(B) \in Nat
  BY <1>1, FS_Subset, FS_CardinalityType
<1>3. Cardinality(A) >= NudgeLines => Cardinality(B) >= NudgeLines
  BY <1>2, Bounds
<1> QED
  BY <1>3 DEF ToldOrCrowded

(* The steps that neither tell nor mark. *)
Plain ==
    /\ said' = said
    /\ \A n \in Note : note'[n].raised => note[n].raised
    /\ \A i \in Timer : timer'[i].phase = "marking" => timer'[i] = timer[i]

LEMMA PlainSteps ==
    ASSUME TypeOK, [Next]_vars, \A i \in Timer : ~Speak(i) /\ ~MarkRaised(i)
    PROVE  Plain
<1>0. TimersOK /\ BoardOK
  BY DEF TypeOK
<1>1. ASSUME NEW i \in Timer, Firing(i) PROVE Plain
  <2>1. CASE Fire(i)
    <3>1. /\ timer'[i] = [timer[i] EXCEPT !.phase = "generating"] /\ timer[i] \in TimerType
          /\ \A j \in Timer \ {i} : timer'[j] = timer[j]
          /\ UNCHANGED <<said, note>>
      BY <1>0, <2>1 DEF Fire, TimersOK
    <3>2. timer'[i].phase # "marking"
      BY <3>1 DEF TimerType
    <3> QED
      BY <3>1, <3>2 DEF Plain
  <2>2. CASE Dropped(i)
    BY <1>0, <2>2, FreeIsFree DEF Dropped, Plain, TimersOK
  <2> QED
    BY <1>1, <2>1, <2>2 DEF Firing
<1>2. ASSUME NEW s \in Session, NEW act \in Actions \cup {"silent"}, NEW due \in SUBSET Note,
             act = "remind" => due # {}, ArmUnlessSilent(s, act, due),
             UNCHANGED <<said, note>>
      PROVE  Plain
  <2>1. CASE act = "silent"
    BY <1>2, <2>1, <1>0, ArmFacts DEF Plain
  <2>2. CASE act # "silent"
    <3>1. PICK i \in Timer : /\ timer'[i] = [phase |-> "armed", s |-> s, act |-> act,
                                             notes |-> IF act = "remind" THEN due ELSE {}]
                             /\ \A j \in Timer \ {i} : timer'[j] = timer[j]
      BY <1>2, <2>2, <1>0, ArmFacts
    <3>2. timer'[i].phase # "marking"
      BY <3>1
    <3> QED
      BY <1>2, <3>1, <3>2 DEF Plain
  <2> QED
    BY <2>1, <2>2
<1>3. ASSUME NEW s \in Session, Turns(s) PROVE Plain
  <2>1. CASE OnUserTurn(s)
    BY <1>0, <2>1, FreeIsFree DEF OnUserTurn, Plain, TimersOK
  <2>2. ASSUME NEW ending \in {"said", "asked"}, NEW low \in BOOLEAN, NEW roll \in BOOLEAN,
               OnReply(s, ending, low, roll)
        PROVE  Plain
    <3> DEFINE act == Decide(s, 0, ending, DueOn(note), FALSE, low, roll)
    <3>1. act \in Actions \cup {"silent"} /\ (act = "remind" => DueOn(note) # {})
      BY DecideFacts
    <3>2. ArmUnlessSilent(s, act, DueOn(note)) /\ UNCHANGED <<said, note>>
      BY <2>2 DEF OnReply
    <3> HIDE DEF act
    <3> QED
      BY <1>2, <3>1, <3>2, DueType
  <2>3. CASE NoReply(s)
    BY <2>3 DEF NoReply, Plain
  <2> QED
    BY <1>3, <2>1, <2>2, <2>3 DEF Turns
<1>4. CASE Ticker
  <2>1. ASSUME NEW fired, NEW insight \in BOOLEAN, TickBegins(fired, insight) PROVE Plain
    <3>1. /\ said' = said /\ timer' = timer
          /\ note' = [n \in Note |-> IF n \in fired
                                      THEN [note[n] EXCEPT !.due = TRUE, !.raised = FALSE]
                                      ELSE note[n]]
      BY <2>1 DEF TickBegins
    <3>2. \A n \in Note : note'[n].raised => note[n].raised
      BY <1>0, <3>1 DEF BoardOK, NoteType
    <3> QED
      BY <3>1, <3>2 DEF Plain
  <2>2. CASE TickLooks \/ TickEnds
    BY <2>2 DEF TickLooks, TickEnds, Plain
  <2>3. ASSUME NEW s \in Session, NEW roll \in BOOLEAN, TickSession(s, roll) PROVE Plain
    <3> DEFINE act == TickDecision(s, roll)
    <3>1. act \in Actions \cup {"silent"} /\ (act = "remind" => tick.due # {})
      BY DecideFacts DEF TickDecision
    <3>2. ArmUnlessSilent(s, act, tick.due) /\ UNCHANGED <<said, note>> /\ tick.due \in SUBSET Note
      BY <2>3 DEF TickSession, TypeOK, TickType
    <3> HIDE DEF act
    <3> QED
      BY <1>2, <3>1, <3>2
  <2> QED
    BY <1>4, <2>1, <2>2, <2>3 DEF Ticker
<1>5. ASSUME NEW n \in Note, ComesDue(n) \/ NoteDone(n) PROVE Plain
  BY <1>0, <1>5 DEF ComesDue, NoteDone, Plain, BoardOK, NoteType
<1>6. CASE (\E s \in Session : Drain(s)) \/ Elapse \/ UNCHANGED vars
  BY <1>6 DEF Drain, Elapse, vars, Plain
<1>7. CASE Restart
  BY <1>7, FreeIsFree DEF Restart, Plain
<1> QED
  BY <1>1, <1>3, <1>4, <1>5, <1>6, <1>7 DEF Next, GatewayUp

LEMMA MarkedStep ==
    ASSUME TypeOK, MarkedIsTold, [Next]_vars
    PROVE  MarkedIsTold'
<1>0. TimersOK /\ BoardOK
  BY DEF TypeOK
<1>1. ASSUME NEW i \in Timer, Speak(i) PROVE MarkedIsTold'
  <2>1. /\ note' = note /\ timer[i] \in TimerType
        /\ \A j \in Timer \ {i} : timer'[j] = timer[j]
        /\ timer'[i].phase = "marking" => timer'[i].notes = timer[i].notes
    BY <1>0, <1>1, FreeIsFree DEF Speak, TimersOK, TimerType
  <2>2. PICK told \in Named(timer[i].notes) :
           said' = [n \in Note |-> IF n \in told /\ said[n] < 2 THEN said[n] + 1 ELSE said[n]]
    BY <1>1 DEF Speak
  <2>3. /\ told \subseteq timer[i].notes /\ told \subseteq Note
        /\ told # timer[i].notes => Cardinality(told) = NudgeLines
    BY <2>1, <2>2 DEF Named, TimerType
  <2>4. \A n \in Note : /\ said[n] > 0 => said'[n] > 0
                        /\ n \in told => said'[n] > 0
    BY <1>0, <2>2 DEF BoardOK
  <2>5. \A n \in Note : ToldOrCrowded(n) => ToldOrCrowded(n)'
    BY <2>4, ToldGrows
  <2>6. \A n \in timer[i].notes : ToldOrCrowded(n)'
    <3>1. CASE told = timer[i].notes
      BY <2>3, <2>4, <3>1 DEF ToldOrCrowded
    <3>2. CASE told # timer[i].notes
      <4> DEFINE B == {m \in Note : said'[m] > 0}
      <4>1. IsFiniteSet(B) /\ told \subseteq B
        BY <2>3, <2>4, SchedulerShape, FS_Subset
      <4>2. Cardinality(told) <= Cardinality(B) /\ Cardinality(B) \in Nat
        BY <4>1, FS_Subset, FS_CardinalityType
      <4>3. Cardinality(B) >= NudgeLines
        BY <2>3, <3>2, <4>2, Bounds
      <4> QED
        BY <4>3 DEF ToldOrCrowded
    <3> QED
      BY <3>1, <3>2
  <2>7. \A n \in Note : note'[n].raised => ToldOrCrowded(n)'
    BY <2>1, <2>5 DEF MarkedIsTold
  <2>8. ASSUME NEW j \in Timer, timer'[j].phase = "marking", NEW n \in timer'[j].notes
        PROVE  ToldOrCrowded(n)'
    <3>1. CASE j = i
      BY <2>1, <2>6, <2>8, <3>1
    <3>2. CASE j # i
      <4>1. timer'[j] = timer[j] /\ n \in Note
        BY <1>0, <2>1, <2>8, <3>2 DEF TimersOK, TimerType
      <4> QED
        BY <2>5, <2>8, <4>1 DEF MarkedIsTold
    <3> QED
      BY <3>1, <3>2
  <2> QED
    BY <2>7, <2>8 DEF MarkedIsTold
<1>2. ASSUME NEW i \in Timer, MarkRaised(i) PROVE MarkedIsTold'
  <2>1. /\ said' = said /\ timer[i].phase = "marking"
        /\ \A j \in Timer : timer'[j].phase = "marking" => timer'[j] = timer[j]
        /\ \A n \in Note : note'[n].raised => note[n].raised \/ n \in timer[i].notes
    BY <1>0, <1>2, FreeIsFree DEF MarkRaised, TimersOK, BoardOK, NoteType
  <2>2. \A n \in Note : ToldOrCrowded(n)' <=> ToldOrCrowded(n)
    BY <2>1 DEF ToldOrCrowded
  <2>3. \A j \in Timer : timer[j].notes \subseteq Note
    BY <1>0 DEF TimersOK, TimerType
  <2> QED
    BY <2>1, <2>2, <2>3 DEF MarkedIsTold
<1>3. CASE \A i \in Timer : ~Speak(i) /\ ~MarkRaised(i)
  <2>1. Plain
    BY <1>3, PlainSteps
  <2>2. \A n \in Note : ToldOrCrowded(n)' <=> ToldOrCrowded(n)
    BY <2>1 DEF Plain, ToldOrCrowded
  <2>3. \A j \in Timer : timer[j].notes \subseteq Note
    BY <1>0 DEF TimersOK, TimerType
  <2> QED
    BY <2>1, <2>2, <2>3 DEF MarkedIsTold, Plain
<1> QED
  BY <1>1, <1>2, <1>3

THEOREM MarkedInvariant == Spec => [](TypeOK /\ MarkedIsTold)
<1>1. Init => TypeOK /\ MarkedIsTold
  <2> SUFFICES ASSUME Init PROVE MarkedIsTold
    BY InitType
  <2> QED
    BY FreeIsFree DEF Init, MarkedIsTold, Fresh
<1>2. TypeOK /\ MarkedIsTold /\ [Next]_vars => (TypeOK /\ MarkedIsTold)'
  BY NextType, MarkedStep
<1> QED
  BY <1>1, <1>2, PTL DEF Spec

(* _fire and mark_raised: when the board has no more notes than a reminder *)
(* names, a note that is marked as raised has been told, however turns,    *)
(* passes, generations and restarts overlap and watches fire again.        *)
THEOREM RaisedNotesAreTold ==
    ASSUME Cardinality(Note) <= NudgeLines
    PROVE  Spec => []RaisedIsTold
<1>1. TypeOK /\ MarkedIsTold => RaisedIsTold
  <2> SUFFICES ASSUME TypeOK, MarkedIsTold, NEW n \in Note, note[n].raised, ~(said[n] > 0)
               PROVE  FALSE
    BY DEF RaisedIsTold
  <2> DEFINE A == {m \in Note : said[m] > 0}
  <2>1. Cardinality(A) >= NudgeLines
    BY DEF MarkedIsTold, ToldOrCrowded
  <2>2. IsFiniteSet(Note) /\ A \subseteq Note /\ n \notin A
    BY SchedulerShape
  <2>3. /\ Cardinality(A) <= Cardinality(Note) /\ (Cardinality(Note) = Cardinality(A) => Note = A)
        /\ Cardinality(A) \in Nat /\ Cardinality(Note) \in Nat
    BY <2>2, FS_Subset, FS_CardinalityType
  <2>4. Cardinality(Note) = Cardinality(A)
    BY <2>1, <2>3, Bounds
  <2> QED
    BY <2>2, <2>3, <2>4
<1> QED
  BY <1>1, MarkedInvariant, PTL

-----------------------------------------------------------------------------
(* When nothing overlaps, what decide() allowed still holds when she       *)
(* speaks.  Each action keeps the invariant.                               *)

LEMMA CalmParts ==
    ASSUME CalmInv
    PROVE  /\ TypeOK /\ SpeechOK /\ TimersOK /\ tick \in TickType /\ BoardOK
           /\ OneTimer /\ StillMay /\ ChatInChain /\ Spaced /\ HourCap
  BY DEF CalmInv, TypeOK

(* Two timers at work are of two sessions. *)
LEMMA ApartTimers ==
    ASSUME OneTimer, NEW i \in Timer, NEW j \in Timer, i # j, timer[i] # Free, timer[j] # Free
    PROVE  timer[i].s # timer[j].s
  BY DEF OneTimer

LEMMA SameBounds ==
    ASSUME CalmInv, UNCHANGED <<chain, spoken, chat>>
    PROVE  ChatInChain' /\ Spaced' /\ HourCap'
  BY CalmParts DEF ChatInChain, Spaced, HourCap, Recent

LEMMA SameMay ==
    ASSUME NEW s, NEW act, MaySpeak(s, act), chain'[s] = chain[s], spoken'[s] = spoken[s],
           reply'[s] = reply[s]
    PROVE  MaySpeak(s, act)'
  BY DEF MaySpeak, LastAge, Recent

LEMMA StillMayNext ==
    ASSUME \A j \in Timer : timer'[j].phase \in {"armed", "generating"} =>
              \E u, act : timer'[j].s = u /\ timer'[j].act = act /\ MaySpeak(u, act)'
    PROVE  StillMay'
  BY DEF StillMay, MaySpeak, LastAge, Recent

(* The steps that leave the timers and the policy's state alone. *)
LEMMA AsideKeeps ==
    ASSUME CalmInv, TypeOK', UNCHANGED <<chain, spoken, chat, reply, timer, slot>>,
           \A s \in Session : turn'[s] => turn[s] /\ tick'.phase = "rest",
           tick'.phase = "look" => tick'.seen = reply
    PROVE  CalmInv'
<1>1. OneTimer'
  BY CalmParts DEF OneTimer
<1>2. StillMay'
  BY CalmParts DEF StillMay, MaySpeak, LastAge, Recent
<1> QED
  BY <1>1, <1>2, SameBounds DEF CalmInv

LEMMA FireCalm ==
    ASSUME CalmInv, TypeOK', NEW i \in Timer, Fire(i)
    PROVE  CalmInv'
<1>0. TimersOK /\ OneTimer /\ StillMay /\ timer[i] \in TimerType
  BY CalmParts DEF TimersOK
<1>1. /\ timer' = [timer EXCEPT ![i].phase = "generating"] /\ timer[i].phase = "armed"
      /\ UNCHANGED <<chain, spoken, reply, turn, slot, tick, chat>>
  BY DEF Fire
<1>2. /\ timer'[i] = [timer[i] EXCEPT !.phase = "generating"]
      /\ \A j \in Timer \ {i} : timer'[j] = timer[j]
  BY <1>0, <1>1 DEF TimersOK
<1>3. /\ timer'[i].s = timer[i].s /\ timer'[i].act = timer[i].act
      /\ timer'[i].phase = "generating"
  BY <1>0, <1>2 DEF TimerType
<1>4. timer[i] # Free /\ timer'[i] # Free
  BY <1>1, <1>3, FreeIsFree
<1>5. OneTimer'
  <2>1. \A j \in Timer : /\ timer'[j] # Free <=> timer[j] # Free
                         /\ timer'[j].s = timer[j].s
    BY <1>2, <1>3, <1>4
  <2>2. \A s \in Session : slot[s] # Nobody => slot[s] \in Timer
    BY <1>0 DEF TimersOK
  <2> QED
    BY <1>0, <1>1, <2>1, <2>2 DEF OneTimer
<1>6. StillMay'
  <2> SUFFICES ASSUME NEW j \in Timer, timer'[j].phase \in {"armed", "generating"}
               PROVE  MaySpeak(timer[j].s, timer[j].act)'
                      /\ timer'[j].s = timer[j].s /\ timer'[j].act = timer[j].act
    BY DEF StillMay, MaySpeak, LastAge, Recent
  <2>1. timer[j].phase \in {"armed", "generating"}
        /\ timer'[j].s = timer[j].s /\ timer'[j].act = timer[j].act
    BY <1>1, <1>2, <1>3
  <2>2. MaySpeak(timer[j].s, timer[j].act)
    BY <1>0, <2>1 DEF StillMay
  <2> QED
    BY <1>1, <2>1, <2>2 DEF MaySpeak, LastAge, Recent
<1> QED
  BY <1>1, <1>5, <1>6, SameBounds DEF CalmInv

(* What is left of the timers after those of one session are gone. *)
LEMMA FreedKeeps ==
    ASSUME CalmInv, TypeOK', NEW i \in Timer, timer[i] # Free,
           timer' = [timer EXCEPT ![i] = Free], slot' = Cleared(i),
           UNCHANGED <<reply, turn, tick>>,
           \A s \in Session \ {timer[i].s} : chain'[s] = chain[s] /\ spoken'[s] = spoken[s]
    PROVE  OneTimer' /\ StillMay'
<1>0. TimersOK /\ OneTimer /\ StillMay
  BY CalmParts
<1>1. timer'[i] = Free /\ \A j \in Timer \ {i} : timer'[j] = timer[j]
  BY <1>0 DEF TimersOK
<1>2. \A s \in Session : slot'[s] = IF slot[s] = i THEN Nobody ELSE slot[s]
  BY DEF Cleared
<1>3. \A s \in Session : slot[s] # Nobody => slot[s] \in Timer
  BY <1>0 DEF TimersOK
<1>4. \A j \in Timer : timer'[j] # Free => /\ j # i /\ timer'[j] = timer[j]
                                         /\ timer[j].s \in Session /\ timer[j].s # timer[i].s
  BY <1>0, <1>1, ApartTimers DEF TimersOK
<1>5. OneTimer'
  <2>1. \A j \in Timer : timer'[j] # Free => slot'[timer'[j].s] = j
    BY <1>0, <1>2, <1>4 DEF OneTimer
  <2>2. \A s \in Session : slot'[s] # Nobody => timer'[slot'[s]] # Free /\ timer'[slot'[s]].s = s
    <3> SUFFICES ASSUME NEW s \in Session, slot'[s] # Nobody
                 PROVE  timer'[slot'[s]] # Free /\ timer'[slot'[s]].s = s
      OBVIOUS
    <3>1. slot'[s] = slot[s] /\ slot[s] # i /\ slot[s] # Nobody /\ slot[s] \in Timer
      BY <1>2, <1>3
    <3>2. timer'[slot[s]] = timer[slot[s]] /\ timer[slot[s]] # Free /\ timer[slot[s]].s = s
      BY <1>0, <1>1, <3>1 DEF OneTimer
    <3> QED
      BY <3>1, <3>2
  <2>3. \A s \in Session : turn'[s] => slot'[s] = Nobody /\ tick'.phase = "rest"
    BY <1>0, <1>2 DEF OneTimer
  <2> QED
    BY <1>0, <2>1, <2>2, <2>3 DEF OneTimer
<1>6. StillMay'
  <2> SUFFICES ASSUME NEW j \in Timer, timer'[j].phase \in {"armed", "generating"}
               PROVE  \E u, act : timer'[j].s = u /\ timer'[j].act = act /\ MaySpeak(u, act)'
    BY StillMayNext
  <2>1. timer'[j] # Free
    BY FreeIsFree
  <2>2. PICK s, act : /\ s \in Session /\ timer'[j] = timer[j] /\ s = timer[j].s
                     /\ act = timer[j].act /\ s # timer[i].s
    BY <1>4, <2>1
  <2>3. MaySpeak(s, act)
    BY <1>0, <2>2 DEF StillMay
  <2>4. MaySpeak(s, act)'
    BY <2>2, <2>3, SameMay
  <2> QED
    BY <2>2, <2>4
<1> QED
  BY <1>5, <1>6

LEMMA DoneCalm ==
    ASSUME CalmInv, TypeOK', NEW i \in Timer, Dropped(i) \/ MarkRaised(i)
    PROVE  CalmInv'
<1>1. /\ timer' = [timer EXCEPT ![i] = Free] /\ slot' = Cleared(i)
      /\ UNCHANGED <<chain, spoken, reply, turn, tick, chat>>
      /\ timer[i] # Free
  BY FreeIsFree DEF Dropped, MarkRaised
<1>2. OneTimer' /\ StillMay'
  BY <1>1, FreedKeeps
<1> QED
  BY <1>1, <1>2, SameBounds DEF CalmInv

LEMMA SpeakCalm ==
    ASSUME CalmInv, TypeOK', NEW i \in Timer, Speak(i)
    PROVE  CalmInv'
<1>0. TimersOK /\ SpeechOK /\ OneTimer /\ StillMay /\ ChatInChain /\ Spaced /\ HourCap
      /\ timer[i] \in TimerType
  BY CalmParts DEF TimersOK
<1>1. PICK s \in Session : s = timer[i].s
  BY <1>0, FreeIsFree DEF Speak, TimersOK
<1>2. /\ timer[i].phase = "generating" /\ timer[i] # Free
      /\ chain' = [chain EXCEPT ![s] = IF @ < MaxChain THEN @ + 1 ELSE @]
      /\ spoken' = [spoken EXCEPT ![s] = Append(Newer(@, Hour), 0)]
      /\ chat' = [chat EXCEPT ![s] = IF timer[i].act = "remind" \/ @ > MaxChain THEN @ ELSE @ + 1]
      /\ timer' = [timer EXCEPT ![i] = IF timer[i].act = "remind"
                                       THEN [@ EXCEPT !.phase = "marking"] ELSE Free]
      /\ slot' = IF timer[i].act = "remind" THEN slot ELSE Cleared(i)
      /\ UNCHANGED <<reply, turn, tick>>
  BY <1>1, FreeIsFree DEF Speak, NoteSpoke
<1>3. MaySpeak(s, timer[i].act)
  BY <1>0, <1>1, <1>2 DEF StillMay
<1>4. /\ chain[s] \in 0..MaxChain /\ chat[s] \in 0..(MaxChain + 1) /\ chat[s] <= chain[s]
      /\ spoken[s] \in Seq(0..AgeCap) /\ Sorted(spoken[s])
      /\ chain'[s] = (IF chain[s] < MaxChain THEN chain[s] + 1 ELSE chain[s])
      /\ chat'[s] = (IF timer[i].act = "remind" \/ chat[s] > MaxChain THEN chat[s] ELSE chat[s] + 1)
      /\ spoken'[s] = Append(Newer(spoken[s], Hour), 0)
      /\ \A u \in Session \ {s} : /\ chain'[u] = chain[u] /\ chat'[u] = chat[u]
                                  /\ spoken'[u] = spoken[u]
  BY <1>0, <1>2 DEF SpeechOK, ChatInChain
<1>5. ChatInChain'
  <2>1. timer[i].act # "remind" => chain[s] < MaxChain
    BY <1>3 DEF MaySpeak
  <2>2. chat'[s] <= chain'[s]
    BY <1>4, <2>1, Bounds
  <2> QED
    BY <1>0, <1>4, <2>2 DEF ChatInChain
<1>6. Spaced' /\ HourCap'
  <2>1. GapOK(spoken[s]) /\ (spoken[s] # << >> => spoken[s][Len(spoken[s])] >= Cooldown)
    BY <1>0, <1>3 DEF Spaced, GapOK, MaySpeak, LastAge
  <2>2. GapOK(spoken'[s]) /\ Len(Newer(spoken'[s], Hour)) = Len(Newer(spoken[s], Hour)) + 1
    BY <1>4, <2>1, SpokeAges
  <2>3. Hour + 0 = Hour
    BY Bounds
  <2>4. Len(Newer(spoken[s], Hour)) < MaxPerHour
    BY <1>3, <2>3 DEF MaySpeak, Recent
  <2>5. Len(Newer(spoken[s], Hour)) \in Nat
    <3>1. 0 \in Nat
      OBVIOUS
    <3> QED
      BY <1>4, <3>1, LagCounts
  <2>6. Len(Newer(spoken'[s], Hour)) <= MaxPerHour
    BY <2>2, <2>4, <2>5, Bounds
  <2>7. \A u \in Session : GapOK(spoken'[u]) /\ Len(Newer(spoken'[u], Hour)) <= MaxPerHour
    BY <1>0, <1>4, <2>2, <2>3, <2>6 DEF Spaced, GapOK, HourCap, Recent
  <2> QED
    BY <2>3, <2>7 DEF Spaced, GapOK, HourCap, Recent
<1>7. OneTimer' /\ StillMay'
  <2>1. CASE timer[i].act # "remind"
    <3>1. timer' = [timer EXCEPT ![i] = Free] /\ slot' = Cleared(i)
      BY <1>2, <2>1
    <3> QED
      BY <1>1, <1>2, <1>4, <3>1, FreedKeeps
  <2>2. CASE timer[i].act = "remind"
    <3>1. /\ timer'[i] = [timer[i] EXCEPT !.phase = "marking"] /\ slot' = slot
          /\ \A j \in Timer \ {i} : timer'[j] = timer[j]
      BY <1>0, <1>2, <2>2 DEF TimersOK
    <3>2. /\ timer'[i].phase = "marking" /\ timer'[i].s = timer[i].s
      BY <1>0, <3>1 DEF TimerType
    <3>3. timer'[i] # Free
      BY <3>2, FreeIsFree
    <3>4. \A s2 \in Session : slot[s2] # Nobody => slot[s2] \in Timer
      BY <1>0 DEF TimersOK
    <3>5. \A j \in Timer : /\ timer'[j] # Free <=> timer[j] # Free
                           /\ timer'[j].s = timer[j].s
      BY <1>2, <3>1, <3>2, <3>3
    <3>6. OneTimer'
      BY <1>0, <1>2, <3>1, <3>4, <3>5 DEF OneTimer
    <3>7. StillMay'
      <4> SUFFICES ASSUME NEW j \in Timer, timer'[j].phase \in {"armed", "generating"}
                   PROVE  \E u, act : timer'[j].s = u /\ timer'[j].act = act /\ MaySpeak(u, act)'
        BY StillMayNext
      <4>1. j # i /\ timer'[j] = timer[j] /\ timer[j] # Free
        BY <3>1, <3>2, FreeIsFree
      <4>2. PICK u, act : u \in Session /\ u = timer[j].s /\ act = timer[j].act
        BY <1>0, <4>1 DEF TimersOK
      <4>3. u # s
        BY <1>0, <1>1, <1>2, <4>1, <4>2, ApartTimers
      <4>4. MaySpeak(u, act)
        BY <1>0, <4>1, <4>2 DEF StillMay
      <4>5. MaySpeak(u, act)'
        BY <1>2, <1>4, <4>2, <4>3, <4>4, SameMay
      <4> QED
        BY <4>1, <4>2, <4>5
    <3> QED
      BY <3>6, <3>7
  <2> QED
    BY <2>1, <2>2
<1> QED
  BY <1>5, <1>6, <1>7 DEF CalmInv

(* _arm in a session that has no timer. *)
LEMMA ArmCalm ==
    ASSUME CalmInv, NEW s \in Session, slot[s] = Nobody,
           NEW act \in Actions \cup {"silent"}, NEW due \in SUBSET Note,
           act = "remind" => due # {}, ArmUnlessSilent(s, act, due),
           UNCHANGED <<chain, spoken, chat>>,
           act # "silent" => MaySpeak(s, act)',
           \A u \in Session \ {s} : reply'[u] = reply[u],
           \A u \in Session : turn'[u] => u # s /\ turn[u] /\ tick'.phase = "rest",
           tick'.phase = "look" => tick'.seen = reply', TypeOK'
    PROVE  CalmInv'
<1>0. TimersOK /\ OneTimer /\ StillMay
  BY CalmParts
<1>1. ASSUME NEW j \in Timer, timer[j] # Free
      PROVE  timer[j].s \in Session \ {s} /\ slot[timer[j].s] = j
  BY <1>0, <1>1, SchedulerShape DEF OneTimer, TimersOK
<1>2. ASSUME NEW j \in Timer, timer'[j] = timer[j], timer'[j].phase \in {"armed", "generating"}
      PROVE  \E u, a : timer'[j].s = u /\ timer'[j].act = a /\ MaySpeak(u, a)'
  <2>1. timer[j] # Free
    BY <1>2, FreeIsFree
  <2>2. PICK u, a : u \in Session \ {s} /\ u = timer[j].s /\ a = timer[j].act
    BY <1>1, <2>1
  <2>3. MaySpeak(u, a)
    BY <1>0, <1>2, <2>2 DEF StillMay
  <2>4. MaySpeak(u, a)'
    BY <2>2, <2>3, SameMay
  <2> QED
    BY <1>2, <2>2, <2>4
<1>3. CASE act = "silent"
  <2>1. timer' = timer /\ slot' = slot
    BY <1>0, <1>3, ArmFacts
  <2>2. OneTimer'
    BY <1>0, <2>1 DEF OneTimer
  <2>3. StillMay'
    BY <1>2, <2>1, StillMayNext
  <2> QED
    BY <2>2, <2>3, SameBounds DEF CalmInv
<1>4. CASE act # "silent"
  <2>1. PICK i \in Timer : /\ timer[i] = Free
                           /\ timer'[i] = [phase |-> "armed", s |-> s, act |-> act,
                                           notes |-> IF act = "remind" THEN due ELSE {}]
                           /\ \A j \in Timer \ {i} : timer'[j] = timer[j]
                           /\ slot' = [slot EXCEPT ![s] = i]
    BY <1>0, <1>4, ArmFacts
  <2>2. /\ timer'[i].s = s /\ timer'[i].act = act /\ timer'[i].phase = "armed"
        /\ timer'[i] # Free
    BY <2>1, FreeIsFree
  <2>3. slot'[s] = i /\ \A u \in Session \ {s} : slot'[u] = slot[u]
    BY <1>0, <2>1 DEF TimersOK
  <2>4. StillMay'
    <3>1. \A j \in Timer : timer'[j].phase \in {"armed", "generating"} =>
             \E u, a : timer'[j].s = u /\ timer'[j].act = a /\ MaySpeak(u, a)'
      BY <1>2, <1>4, <2>1, <2>2
    <3> QED
      BY <3>1, StillMayNext
  <2>5. \A j \in Timer : timer'[j] # Free => slot'[timer'[j].s] = j
    <3> SUFFICES ASSUME NEW j \in Timer, timer'[j] # Free PROVE slot'[timer'[j].s] = j
      OBVIOUS
    <3>1. CASE j = i
      BY <2>2, <2>3, <3>1
    <3>2. CASE j # i
      BY <1>1, <2>1, <2>3, <3>2
    <3> QED
      BY <3>1, <3>2
  <2>6. \A u \in Session : slot'[u] # Nobody => timer'[slot'[u]] # Free /\ timer'[slot'[u]].s = u
    <3> SUFFICES ASSUME NEW u \in Session, slot'[u] # Nobody
                 PROVE  timer'[slot'[u]] # Free /\ timer'[slot'[u]].s = u
      OBVIOUS
    <3>1. CASE u = s
      BY <2>2, <2>3, <3>1
    <3>2. CASE u # s
      <4>1. /\ slot'[u] = slot[u] /\ slot[u] \in Timer
            /\ timer[slot[u]] # Free /\ timer[slot[u]].s = u
        BY <1>0, <2>3, <3>2 DEF OneTimer, TimersOK
      <4>2. slot[u] # i
        BY <2>1, <4>1
      <4> QED
        BY <2>1, <4>1, <4>2
    <3> QED
      BY <3>1, <3>2
  <2>7. \A u \in Session : turn'[u] => slot'[u] = Nobody /\ tick'.phase = "rest"
    BY <1>0, <2>3 DEF OneTimer
  <2>8. OneTimer'
    BY <2>5, <2>6, <2>7 DEF OneTimer
  <2> QED
    BY <2>4, <2>8, SameBounds DEF CalmInv
<1> QED
  BY <1>3, <1>4

(* decide() answered with a clock lag old: she may still speak now. *)
LEMMA DecideAllows ==
    ASSUME TypeOK, NEW s \in Session, NEW lag \in Nat, NEW ending, NEW due, NEW insight, NEW low,
           NEW roll, NEW act, act = Decide(s, lag, ending, due, insight, low, roll), act # "silent",
           UNCHANGED <<chain, spoken>>, reply'[s] = ending
    PROVE  MaySpeak(s, act)'
<1>1. ~Cooling(s, lag) /\ ~Capped(s, lag) /\ (act # "remind" => ~Waits(s, ending))
  BY DecideFacts
<1>2. spoken[s] \in Seq(0..AgeCap) /\ Sorted(spoken[s]) /\ chain[s] \in 0..MaxChain
  BY DEF TypeOK, SpeechOK
<1>3. spoken[s] # << >> => LastAge(s) >= Cooldown
  <2> SUFFICES ASSUME spoken[s] # << >> PROVE LastAge(s) >= Cooldown
    OBVIOUS
  <2>1. LastAge(s) \in 0..AgeCap
    <3>1. Len(spoken[s]) \in 1..Len(spoken[s])
      BY <1>2, EmptySeq, LenProperties
    <3> QED
      BY <1>2, <3>1, ElementOfSeq DEF LastAge
  <2>2. ~(LastAge(s) - lag < Cooldown)
    BY <1>1 DEF Cooling
  <2> QED
    BY <2>1, <2>2, Bounds
<1>4. Len(Recent(s, 0)) < MaxPerHour
  <2>1. Hour + 0 = Hour
    BY Bounds
  <2>2. /\ Len(Newer(spoken[s], Hour)) <= Len(Newer(spoken[s], Hour + lag))
        /\ Len(Newer(spoken[s], Hour)) \in Nat /\ Len(Newer(spoken[s], Hour + lag)) \in Nat
    BY <1>2, LagCounts
  <2>3. ~(Len(Newer(spoken[s], Hour + lag)) >= MaxPerHour)
    BY <1>1 DEF Capped, Recent
  <2>4. Len(Newer(spoken[s], Hour)) < MaxPerHour
    BY <2>2, <2>3, Bounds
  <2> QED
    BY <2>1, <2>4 DEF Recent
<1>5. act # "remind" => chain[s] < MaxChain /\ ending # "asked"
  BY <1>1, <1>2, Bounds DEF Waits
<1> QED
  BY <1>3, <1>4, <1>5 DEF MaySpeak, LastAge, Recent

LEMMA TurnsCalm ==
    ASSUME Armed = {}, CalmInv, TypeOK', NEW s \in Session, Turns(s)
    PROVE  CalmInv'
<1>0. TypeOK /\ TimersOK /\ SpeechOK /\ OneTimer /\ StillMay /\ ChatInChain /\ Spaced /\ HourCap
  BY CalmParts
<1>1. CASE OnUserTurn(s)
  <2>1. /\ ~Generating(s) /\ tick.phase = "rest"
        /\ turn' = [turn EXCEPT ![s] = TRUE]
        /\ chain' = [chain EXCEPT ![s] = 0] /\ chat' = [chat EXCEPT ![s] = 0]
        /\ timer' = [i \in Timer |-> IF i = slot[s] /\ timer[i].phase = "armed"
                                     THEN Free ELSE timer[i]]
        /\ slot' = [slot EXCEPT ![s] = Nobody]
        /\ UNCHANGED <<spoken, reply, tick>>
    BY <1>1 DEF OnUserTurn
  <2>2. /\ slot'[s] = Nobody /\ chain'[s] = 0 /\ chat'[s] = 0
        /\ \A u \in Session \ {s} : /\ slot'[u] = slot[u] /\ chain'[u] = chain[u]
                                    /\ chat'[u] = chat[u] /\ turn'[u] = turn[u]
    BY <1>0, <2>1 DEF TimersOK, SpeechOK
  <2>3. ASSUME NEW j \in Timer, timer'[j] # Free
        PROVE  timer'[j] = timer[j] /\ timer[j] # Free /\ timer[j].s \in Session \ {s}
    <3>1. timer'[j] = timer[j] /\ timer[j] # Free
          /\ ~(j = slot[s] /\ timer[j].phase = "armed")
      BY <2>1, <2>3
    <3>2. ASSUME timer[j].s = s PROVE FALSE
      <4>1. j = slot[s]
        BY <1>0, <3>1, <3>2 DEF OneTimer
      <4>2. timer[j].phase \in {"generating", "marking"}
        BY <1>0, <3>1, <4>1 DEF TimersOK, TimerType
      <4> QED
        BY <2>1, <3>2, <4>2 DEF Generating
    <3> QED
      BY <1>0, <3>1, <3>2 DEF TimersOK
  <2>4. \A j \in Timer : timer'[j] # Free => slot'[timer'[j].s] = j
    BY <1>0, <2>2, <2>3 DEF OneTimer
  <2>5. \A u \in Session : slot'[u] # Nobody => timer'[slot'[u]] # Free /\ timer'[slot'[u]].s = u
    <3> SUFFICES ASSUME NEW u \in Session, slot'[u] # Nobody
                 PROVE  timer'[slot'[u]] # Free /\ timer'[slot'[u]].s = u
      OBVIOUS
    <3>1. u # s /\ slot'[u] = slot[u]
      BY <2>2
    <3>2. slot[u] \in Timer /\ timer[slot[u]] # Free /\ timer[slot[u]].s = u
      BY <1>0, <3>1 DEF OneTimer, TimersOK
    <3>3. slot[u] # slot[s]
      BY <1>0, <3>1, <3>2, SchedulerShape DEF OneTimer
    <3> QED
      BY <2>1, <3>1, <3>2, <3>3
  <2>6. OneTimer'
    <3>1. \A u \in Session : turn'[u] => slot'[u] = Nobody /\ tick'.phase = "rest"
      BY <1>0, <2>1, <2>2 DEF OneTimer
    <3> QED
      BY <2>1, <2>4, <2>5, <3>1 DEF OneTimer
  <2>7. StillMay'
    <3> SUFFICES ASSUME NEW j \in Timer, timer'[j].phase \in {"armed", "generating"}
                 PROVE  \E u, act : timer'[j].s = u /\ timer'[j].act = act /\ MaySpeak(u, act)'
      BY StillMayNext
    <3>1. timer'[j] # Free
      BY FreeIsFree
    <3>2. PICK u, act : u \in Session \ {s} /\ u = timer[j].s /\ act = timer[j].act
      BY <2>3, <3>1
    <3>3. MaySpeak(u, act)
      BY <1>0, <2>3, <3>1, <3>2 DEF StillMay
    <3>4. MaySpeak(u, act)'
      BY <2>1, <2>2, <3>2, <3>3, SameMay
    <3> QED
      BY <2>3, <3>1, <3>2, <3>4
  <2>8. ChatInChain' /\ Spaced' /\ HourCap'
    BY <1>0, <2>1, <2>2 DEF ChatInChain, Spaced, HourCap, Recent
  <2> QED
    BY <2>6, <2>7, <2>8 DEF CalmInv
<1>2. ASSUME NEW ending \in {"said", "asked"}, NEW low \in BOOLEAN, NEW roll \in BOOLEAN,
             OnReply(s, ending, low, roll)
      PROVE  CalmInv'
  <2>0. PICK act, due : /\ act = Decide(s, 0, ending, DueOn(note), FALSE, low, roll)
                        /\ due = DueOn(note)
    OBVIOUS
  <2>1. act \in Actions \cup {"silent"} /\ (act = "remind" => due # {})
    BY <2>0, DecideFacts
  <2>2. /\ ArmUnlessSilent(s, act, due) /\ turn[s]
        /\ turn' = [turn EXCEPT ![s] = FALSE] /\ reply' = [reply EXCEPT ![s] = ending]
        /\ UNCHANGED <<chain, spoken, tick, chat>>
    BY <1>2, <2>0 DEF OnReply
  <2>3. slot[s] = Nobody /\ tick.phase = "rest"
    BY <1>0, <2>2 DEF OneTimer
  <2>4. /\ reply'[s] = ending /\ \A u \in Session \ {s} : reply'[u] = reply[u]
        /\ \A u \in Session : turn'[u] => u # s /\ turn[u]
    BY <1>0, <2>2 DEF SpeechOK
  <2>5. act # "silent" => MaySpeak(s, act)'
    <3>1. 0 \in Nat
      OBVIOUS
    <3> QED
      BY <1>0, <2>0, <2>2, <2>4, <3>1, DecideAllows
  <2>6. due \in SUBSET Note
    BY <2>0, DueType
  <2>7. tick'.phase = "rest"
    BY <2>2, <2>3
  <2> QED
    BY <2>1, <2>2, <2>3, <2>4, <2>5, <2>6, <2>7, ArmCalm
<1>3. CASE NoReply(s)
  <2>1. /\ turn' = [turn EXCEPT ![s] = FALSE] /\ turn[s]
        /\ UNCHANGED <<chain, spoken, chat, reply, timer, slot, tick>>
    BY <1>3 DEF NoReply
  <2>2. tick.phase = "rest"
    BY <1>0, <2>1 DEF OneTimer
  <2>3. \A u \in Session : turn'[u] => turn[u]
    BY <1>0, <2>1 DEF SpeechOK
  <2> QED
    BY <2>1, <2>2, <2>3, AsideKeeps
<1> QED
  BY <1>1, <1>2, <1>3 DEF Turns

LEMMA TickerCalm ==
    ASSUME Armed = {}, CalmInv, TypeOK', Ticker
    PROVE  CalmInv'
<1>0. TypeOK /\ TimersOK /\ SpeechOK /\ OneTimer /\ tick \in TickType
  BY CalmParts
<1>1. ASSUME NEW fired, NEW insight \in BOOLEAN, TickBegins(fired, insight) PROVE CalmInv'
  <2>1. /\ \A s \in Session : ~turn[s]
        /\ tick' = [Resting EXCEPT !.phase = "think", !.insight = insight, !.due = DueOn(note')]
        /\ UNCHANGED <<chain, spoken, chat, reply, turn, timer, slot>>
    BY <1>1 DEF TickBegins
  <2>2. tick'.phase = "think"
    BY <2>1, FreeIsFree DEF TickType
  <2> QED
    BY <2>1, <2>2, AsideKeeps
<1>2. CASE TickLooks
  <2>1. /\ tick.phase = "think" /\ UNCHANGED <<chain, spoken, chat, reply, turn, timer, slot>>
        /\ tick' = [tick EXCEPT !.phase = "look", !.seen = reply,
                                !.todo = {s \in Session : reply[s] # "none"}]
    BY <1>2 DEF TickLooks
  <2>2. tick'.seen = reply
    BY <1>0, <2>1 DEF TickType
  <2>3. \A s \in Session : ~turn[s]
    BY <1>0, <2>1 DEF OneTimer
  <2> QED
    BY <2>1, <2>2, <2>3, AsideKeeps
<1>3. ASSUME NEW s \in Session, NEW roll \in BOOLEAN, TickSession(s, roll) PROVE CalmInv'
  <2>0. PICK act, due, lag : /\ act = TickDecision(s, roll) /\ due = tick.due /\ lag = tick.lag
    OBVIOUS
  <2>1. act \in Actions \cup {"silent"} /\ (act = "remind" => due # {})
    BY <2>0, DecideFacts DEF TickDecision
  <2>2. /\ ArmUnlessSilent(s, act, due) /\ tick.phase = "look"
        /\ tick' = [tick EXCEPT !.todo = IF act \in {"remind", "muse"} THEN {} ELSE @ \ {s}]
        /\ UNCHANGED <<chain, spoken, chat, reply, turn>>
    BY <1>3, <2>0 DEF TickSession
  <2>3. /\ tick'.phase = "look" /\ tick'.seen = reply /\ tick.seen = reply
        /\ due \in SUBSET Note /\ lag \in Nat
    BY <1>0, <2>0, <2>2 DEF TickType, OneTimer
  <2>4. \A u \in Session : ~turn[u]
    BY <1>0, <2>2 DEF OneTimer
  <2>5. CASE act = "silent"
    <3>1. timer' = timer /\ slot' = slot
      BY <2>2, <2>5 DEF ArmUnlessSilent
    <3> QED
      BY <2>2, <2>3, <2>4, <3>1, AsideKeeps
  <2>6. CASE act # "silent"
    <3>1. slot[s] = Nobody /\ act = Decide(s, lag, reply[s], due, tick.insight, FALSE, roll)
      BY <2>0, <2>3, <2>6 DEF TickDecision, Alive
    <3>2. MaySpeak(s, act)'
      <4>1. PICK ending : ending = reply[s]
        OBVIOUS
      <4> QED
        BY <1>0, <2>2, <2>3, <2>6, <3>1, <4>1, DecideAllows
    <3> QED
      BY <2>1, <2>2, <2>3, <2>4, <3>1, <3>2, ArmCalm
  <2> QED
    BY <2>5, <2>6
<1>4. CASE TickEnds
  <2>1. tick' = Resting /\ UNCHANGED <<chain, spoken, chat, reply, turn, timer, slot>>
    BY <1>4 DEF TickEnds
  <2> QED
    BY <2>1, FreeIsFree, AsideKeeps
<1> QED
  BY <1>1, <1>2, <1>3, <1>4 DEF Ticker

LEMMA ElapseCalm ==
    ASSUME CalmInv, TypeOK', Elapse
    PROVE  CalmInv'
<1>0. TypeOK /\ SpeechOK /\ TimersOK /\ OneTimer /\ StillMay /\ ChatInChain /\ Spaced /\ HourCap
  BY CalmParts
<1>1. UNCHANGED <<chain, chat, reply, turn, timer, slot>>
  BY DEF Elapse
<1>2. /\ \A s \in Session : spoken'[s] = Older(spoken[s])
      /\ tick'.phase = tick.phase /\ tick'.seen = tick.seen
  BY <1>0, ElapseFacts
<1>3. Hour + 0 = Hour
  BY Bounds
<1>4. ASSUME NEW s \in Session
      PROVE  /\ GapOK(spoken[s]) => GapOK(spoken'[s])
             /\ spoken'[s] # << >> =>
                   spoken[s] # << >> /\ spoken'[s][Len(spoken'[s])] = LastAge(s) + 1
             /\ LastAge(s) >= Cooldown /\ spoken[s] # << >> => LastAge(s) + 1 >= Cooldown
             /\ Len(Newer(spoken'[s], Hour)) <= Len(Newer(spoken[s], Hour))
             /\ Len(Newer(spoken'[s], Hour)) \in Nat /\ Len(Newer(spoken[s], Hour)) \in Nat
  <2>1. spoken[s] \in Seq(0..AgeCap) /\ Sorted(spoken[s]) /\ 0 \in Nat
    BY <1>0 DEF SpeechOK
  <2>2. /\ GapOK(spoken[s]) => GapOK(spoken'[s])
        /\ spoken'[s] \in Seq(0..AgeCap) /\ Sorted(spoken'[s])
        /\ spoken'[s] # << >> =>
              spoken[s] # << >> /\ spoken'[s][Len(spoken'[s])] = spoken[s][Len(spoken[s])] + 1
        /\ Len(Newer(spoken'[s], Hour)) <= Len(Newer(spoken[s], Hour))
    BY <1>2, <2>1, OlderAges
  <2>3. Len(Newer(spoken'[s], Hour)) \in Nat /\ Len(Newer(spoken[s], Hour)) \in Nat
    BY <2>1, <2>2, LagCounts
  <2>4. spoken[s] # << >> => LastAge(s) \in 0..AgeCap
    <3>1. spoken[s] # << >> => Len(spoken[s]) \in 1..Len(spoken[s])
      BY <2>1, EmptySeq, LenProperties
    <3> QED
      BY <2>1, <3>1, ElementOfSeq DEF LastAge
  <2> QED
    BY <2>2, <2>3, <2>4, Bounds DEF LastAge
<1>5. Spaced' /\ HourCap' /\ ChatInChain'
  <2>1. \A s \in Session : GapOK(spoken[s]) /\ Len(Newer(spoken[s], Hour)) <= MaxPerHour
    BY <1>0, <1>3 DEF Spaced, GapOK, HourCap, Recent
  <2>2. \A s \in Session : GapOK(spoken'[s]) /\ Len(Newer(spoken'[s], Hour)) <= MaxPerHour
    BY <1>4, <2>1, Bounds
  <2> QED
    BY <1>0, <1>1, <1>3, <2>2 DEF Spaced, GapOK, HourCap, Recent, ChatInChain
<1>6. OneTimer'
  BY <1>0, <1>1, <1>2 DEF OneTimer
<1>7. StillMay'
  <2> SUFFICES ASSUME NEW j \in Timer, timer'[j].phase \in {"armed", "generating"}
               PROVE  \E u, act : timer'[j].s = u /\ timer'[j].act = act /\ MaySpeak(u, act)'
    BY StillMayNext
  <2>1. timer'[j] = timer[j] /\ timer[j] # Free
    BY <1>1, FreeIsFree
  <2>2. PICK u, act : u \in Session /\ u = timer[j].s /\ act = timer[j].act
    BY <1>0, <2>1 DEF TimersOK
  <2>3. MaySpeak(u, act)
    BY <1>0, <2>1, <2>2 DEF StillMay
  <2>4. Len(Newer(spoken'[u], Hour)) < MaxPerHour
    <3>1. Len(Newer(spoken[u], Hour)) < MaxPerHour
      BY <1>3, <2>3 DEF MaySpeak, Recent
    <3> QED
      BY <1>4, <2>2, <3>1, Bounds
  <2>5. spoken'[u] # << >> => spoken'[u][Len(spoken'[u])] >= Cooldown
    BY <1>4, <2>2, <2>3 DEF MaySpeak
  <2>6. MaySpeak(u, act)'
    BY <1>1, <1>3, <2>3, <2>4, <2>5 DEF MaySpeak, LastAge, Recent
  <2> QED
    BY <2>1, <2>2, <2>6
<1> QED
  BY <1>5, <1>6, <1>7 DEF CalmInv

LEMMA CalmStep ==
    ASSUME Armed = {}, CalmInv, [Next]_vars
    PROVE  CalmInv'
<1>0. TypeOK' /\ OneTimer
  BY CalmParts, NextType
<1>1. ASSUME NEW i \in Timer, Firing(i) PROVE CalmInv'
  BY <1>0, <1>1, FireCalm, DoneCalm, SpeakCalm DEF Firing
<1>2. ASSUME NEW s \in Session, Turns(s) PROVE CalmInv'
  BY <1>0, <1>2, TurnsCalm
<1>3. CASE Ticker
  BY <1>0, <1>3, TickerCalm
<1>4. CASE Elapse
  BY <1>0, <1>4, ElapseCalm
<1>5. CASE \/ \E n \in Note : ComesDue(n) \/ NoteDone(n)
           \/ \E s \in Session : Drain(s)
           \/ UNCHANGED vars
  <2>1. UNCHANGED <<chain, spoken, chat, reply, turn, timer, slot, tick>>
    BY <1>5 DEF ComesDue, NoteDone, Drain, vars
  <2> QED
    BY <1>0, <2>1, AsideKeeps DEF OneTimer
<1>6. ~Restart
  BY DEF Restart
<1> QED
  BY <1>1, <1>2, <1>3, <1>4, <1>5, <1>6 DEF Next, GatewayUp

LEMMA InitCalm ==
    ASSUME Init
    PROVE  CalmInv
<1>0. TypeOK
  BY InitType
<1>1. OneTimer /\ StillMay /\ ChatInChain
  BY FreeIsFree DEF Init, OneTimer, StillMay, ChatInChain
<1>2. Spaced
  BY EmptySeq DEF Init, Spaced
<1>3. HourCap
  <2> SUFFICES ASSUME NEW s \in Session PROVE Len(Newer(spoken[s], Hour + 0)) <= MaxPerHour
    BY DEF HourCap, Recent
  <2>1. spoken[s] = << >> /\ << >> \in Seq(0..AgeCap) /\ Sorted(<< >>) /\ Len(<< >>) = 0
        /\ Hour + 0 \in Nat /\ AgeCap \in Nat
    BY EmptySeq, Bounds DEF Init, Sorted
  <2>2. PICK q, b : q = << >> /\ b = Hour + 0
    OBVIOUS
  <2>3. /\ q \in Seq(0..AgeCap) /\ Sorted(q) /\ b \in Nat /\ Len(q) = 0
    BY <2>1, <2>2
  <2>4. Aged(q, b) \in 0..Len(q) /\ Len(Newer(q, b)) = Len(q) - Aged(q, b)
    BY <2>1, <2>3, NewerFacts
  <2>5. Len(Newer(q, b)) = 0
    BY <2>3, <2>4
  <2> QED
    BY <2>1, <2>2, <2>5, Bounds
<1> QED
  BY <1>0, <1>1, <1>2, <1>3 DEF CalmInv

(* The invariant of a scheduler whose turns, passes and generations do not *)
(* overlap and that is not restarted.                                      *)
THEOREM CalmInvariant == ASSUME Armed = {} PROVE Spec => []CalmInv
<1>1. Init => CalmInv
  BY InitCalm
<1>2. CalmInv /\ [Next]_vars => CalmInv'
  BY CalmStep
<1> QED
  BY <1>1, <1>2, PTL DEF Spec

(* decide, note_spoke, _fire: for every number of conversations, between   *)
(* two turns of his she makes at most max_chain remarks, her messages are  *)
(* a cooldown apart when they are sent and no hour holds more than         *)
(* max_per_hour, although decide() was asked a delay and a generation      *)
(* earlier.                                                                *)
THEOREM PolicyHolds ==
    ASSUME Armed = {}
    PROVE  Spec => [](ChainBound /\ Spaced /\ HourCap)
<1>1. CalmInv => ChainBound /\ Spaced /\ HourCap
  <2> SUFFICES ASSUME CalmInv PROVE ChainBound
    BY CalmParts
  <2> SUFFICES ASSUME NEW s \in Session PROVE chat[s] <= MaxChain
    BY DEF ChainBound
  <2>1. chain[s] \in 0..MaxChain /\ chat[s] \in 0..(MaxChain + 1) /\ chat[s] <= chain[s]
    BY CalmParts DEF SpeechOK, ChatInChain
  <2> QED
    BY <2>1, Bounds
<1> QED
  BY <1>1, CalmInvariant, PTL

(* _asked_a_question, _LAST, _fire: a remark of her own never follows a    *)
(* reply of hers that asked him something.                                 *)
THEOREM QuestionsAreRespected ==
    ASSUME Armed = {}
    PROVE  Spec => QuestionRespected
<1>1. CalmInv /\ [Next]_vars => [QuestionRespectedStep]_vars
  <2> SUFFICES ASSUME CalmInv, [Next]_vars, NEW s \in Session, chat'[s] > chat[s]
               PROVE  reply[s] # "asked"
    BY DEF QuestionRespectedStep
  <2>0. SpeechOK /\ TimersOK /\ StillMay
    BY CalmParts
  <2>1. chat[s] \in Nat
    BY <2>0, Bounds DEF SpeechOK
  <2>2. PICK i \in Timer : Speak(i)
    <3>1. ASSUME NEW i \in Timer, Fire(i) \/ Dropped(i) \/ MarkRaised(i) PROVE FALSE
      BY <2>1, <3>1 DEF Fire, Dropped, MarkRaised
    <3>2. ASSUME NEW u \in Session, Turns(u) PROVE FALSE
      <4>1. CASE OnUserTurn(u)
        <5>1. chat' = [chat EXCEPT ![u] = 0]
          BY <4>1 DEF OnUserTurn
        <5> QED
          BY <2>0, <2>1, <5>1 DEF SpeechOK
      <4>2. ASSUME NEW ending, NEW low, NEW roll, OnReply(u, ending, low, roll) PROVE FALSE
        <5>1. chat' = chat
          BY <4>2 DEF OnReply
        <5> QED
          BY <2>1, <5>1
      <4>3. CASE NoReply(u)
        BY <2>1, <4>3 DEF NoReply
      <4> QED
        BY <3>2, <4>1, <4>2, <4>3 DEF Turns
    <3>3. ASSUME Ticker PROVE FALSE
      <4>1. chat' = chat
        BY <3>3 DEF Ticker, TickBegins, TickLooks, TickSession, TickEnds
      <4> QED
        BY <2>1, <4>1
    <3>4. ASSUME \/ \E n \in Note : ComesDue(n) \/ NoteDone(n)
                 \/ \E u \in Session : Drain(u)
                 \/ Elapse \/ Restart \/ UNCHANGED vars
          PROVE  FALSE
      <4>1. chat' = chat
        BY <3>4 DEF ComesDue, NoteDone, Drain, Elapse, Restart, vars
      <4> QED
        BY <2>1, <4>1
    <3> QED
      BY <3>1, <3>2, <3>3, <3>4 DEF Next, GatewayUp, Firing
  <2>3. PICK u \in Session : u = timer[i].s
    BY <2>0, <2>2, FreeIsFree DEF Speak, TimersOK
  <2>4. /\ timer[i].phase = "generating"
        /\ chat' = [chat EXCEPT ![u] = IF timer[i].act = "remind" \/ @ > MaxChain THEN @ ELSE @ + 1]
    BY <2>2, <2>3 DEF Speak
  <2>5. u = s /\ timer[i].act # "remind"
    BY <2>0, <2>1, <2>4 DEF SpeechOK
  <2>6. MaySpeak(timer[i].s, timer[i].act)
    BY <2>0, <2>4 DEF StillMay
  <2> QED
    BY <2>3, <2>5, <2>6 DEF MaySpeak
<1> QED
  BY <1>1, CalmInvariant, PTL DEF Spec, QuestionRespected

-----------------------------------------------------------------------------
(* In one conversation a note is told once. *)

LEMMA OnlyTimer ==
    ASSUME OneTab, CalmInv, NEW i \in Timer, NEW j \in Timer, timer[i] # Free, timer[j] # Free
    PROVE  i = j
  BY CalmParts, ApartTimers DEF OneTab, TimersOK

LEMMA NoTimer ==
    ASSUME OneTab, CalmInv, NEW s \in Session, slot[s] = Nobody
    PROVE  \A j \in Timer : timer[j] = Free
  BY CalmParts, SchedulerShape DEF OneTab, OneTimer, TimersOK

(* The steps that neither tell, mark nor arm. *)
LEMMA OnceAside ==
    ASSUME TypeOK, ToldOnce, said' = said, spoken' = spoken,
           \A n \in Note : note[n].due => note'[n].due,
           \A n \in Note : note[n].raised => note'[n].raised,
           \A j \in Timer : \/ timer'[j] = timer[j]
                            \/ timer'[j] = Free /\ timer[j].phase # "marking"
                            \/ /\ timer'[j].notes = timer[j].notes
                               /\ timer[j].phase = "armed" /\ timer'[j].phase = "generating",
           tick'.phase # "rest" => /\ tick.phase # "rest"
                                   /\ tick'.due = tick.due /\ tick'.lag = tick.lag
    PROVE  ToldOnce'
<1>0. TimersOK /\ BoardOK /\ (\A j \in Timer : timer[j].notes \subseteq Note)
      /\ tick.due \subseteq Note
  BY DEF TypeOK, TimersOK, TimerType, TickType
<1>1. \A j \in Timer : /\ timer[j].phase = "marking" => timer'[j] = timer[j]
                       /\ timer'[j].phase = "marking" => timer'[j] = timer[j]
  BY FreeIsFree
<1>2. \A n \in Note : said'[n] > 0 =>
         /\ said'[n] = 1 /\ note'[n].due
         /\ \/ note'[n].raised
            \/ \E i \in Timer : timer'[i].phase = "marking" /\ n \in timer'[i].notes
  BY <1>1 DEF ToldOnce
<1>3. ASSUME NEW i \in Timer, NEW n \in timer'[i].notes
      PROVE  /\ note'[n].due
             /\ timer'[i].phase \in {"armed", "generating"} => said'[n] = 0
  <2>1. n \in timer[i].notes
        /\ (timer'[i].phase \in {"armed", "generating"} => timer[i].phase \in {"armed", "generating"})
    BY <1>3, FreeIsFree
  <2> QED
    BY <1>0, <2>1 DEF ToldOnce
<1>4. (\E i \in Timer : timer'[i].phase = "marking") => SpokeSince(0)'
  <2>1. SpokeSince(0) => SpokeSince(0)'
    BY DEF SpokeSince, LastAge
  <2> QED
    BY <1>1, <2>1 DEF ToldOnce
<1>5. tick'.phase # "rest" => \A n \in tick'.due :
         note'[n].due /\ (said'[n] > 0 => SpokeSince(tick.lag)')
  <2> SUFFICES ASSUME tick'.phase # "rest", NEW n \in tick'.due
               PROVE  note'[n].due /\ (said'[n] > 0 => SpokeSince(tick.lag)')
    OBVIOUS
  <2>1. n \in tick.due /\ n \in Note /\ tick'.lag = tick.lag
    BY <1>0
  <2>2. SpokeSince(tick.lag) => SpokeSince(tick.lag)'
    BY <2>1 DEF SpokeSince, LastAge
  <2> QED
    BY <2>1, <2>2 DEF ToldOnce
<1> QED
  BY <1>2, <1>3, <1>4, <1>5 DEF ToldOnce

LEMMA SpeakOnce ==
    ASSUME OneTab, CalmInv, ToldOnce, NEW i \in Timer, Speak(i)
    PROVE  ToldOnce'
<1>0. SpeechOK /\ TimersOK /\ BoardOK /\ tick \in TickType /\ timer[i] \in TimerType
      /\ timer[i].phase = "generating" /\ timer[i] # Free
      /\ tick.due \subseteq Note /\ tick.lag \in Nat
  BY CalmParts, FreeIsFree DEF TimersOK, TickType, Speak
<1>1. PICK s \in Session : s = timer[i].s
  BY <1>0 DEF TimersOK
<1>2. /\ spoken' = [spoken EXCEPT ![s] = Append(Newer(@, Hour), 0)]
      /\ timer' = [timer EXCEPT ![i] = IF timer[i].act = "remind"
                                       THEN [@ EXCEPT !.phase = "marking"] ELSE Free]
      /\ UNCHANGED <<tick, note>>
  BY <1>1 DEF Speak, NoteSpoke
<1>3. PICK told \in Named(timer[i].notes) :
         said' = [n \in Note |-> IF n \in told /\ said[n] < 2 THEN said[n] + 1 ELSE said[n]]
  BY DEF Speak
<1>4. told \subseteq timer[i].notes /\ told \subseteq Note
  BY <1>0, <1>3 DEF Named, TimerType
<1>5. \A lag \in Nat : SpokeSince(lag)'
  <2>1. spoken[s] \in Seq(0..AgeCap) /\ Sorted(spoken[s])
        /\ spoken'[s] = Append(Newer(spoken[s], Hour), 0)
    BY <1>0, <1>2 DEF SpeechOK
  <2>2. spoken'[s] # << >> /\ spoken'[s][Len(spoken'[s])] = 0
    BY <2>1, SpokeAges
  <2>3. \A u \in Session : u = s
    BY DEF OneTab
  <2> QED
    BY <2>2, <2>3 DEF SpokeSince, LastAge
<1>6. /\ \A j \in Timer \ {i} : timer'[j] = Free
      /\ timer[i].act = "remind" => /\ timer'[i].phase = "marking"
                                    /\ timer'[i].notes = timer[i].notes
      /\ timer[i].act # "remind" => timer'[i] = Free /\ timer[i].notes = {}
  <2>1. \A j \in Timer \ {i} : timer[j] = Free
    BY <1>0, OnlyTimer
  <2>2. \A j \in Timer \ {i} : timer'[j] = timer[j]
    BY <1>0, <1>2 DEF TimersOK
  <2>3. timer'[i] = IF timer[i].act = "remind" THEN [timer[i] EXCEPT !.phase = "marking"] ELSE Free
    BY <1>0, <1>2 DEF TimersOK
  <2>4. timer[i].act # "remind" => timer[i].notes = {}
    BY <1>0 DEF TimersOK
  <2> QED
    BY <1>0, <2>1, <2>2, <2>3, <2>4 DEF TimerType
<1>7. ASSUME NEW n \in Note, said'[n] > 0
      PROVE  /\ said'[n] = 1 /\ note'[n].due
             /\ \/ note'[n].raised
                \/ \E j \in Timer : timer'[j].phase = "marking" /\ n \in timer'[j].notes
  <2>1. CASE n \in told
    <3>1. n \in timer[i].notes /\ said[n] = 0 /\ note[n].due
      BY <1>0, <1>4, <2>1 DEF ToldOnce
    <3>2. said'[n] = 1
      BY <1>3, <2>1, <3>1
    <3>3. timer[i].act = "remind"
      BY <1>6, <3>1
    <3> QED
      BY <1>2, <1>6, <3>1, <3>2, <3>3
  <2>2. CASE n \notin told
    <3>1. said'[n] = said[n]
      BY <1>3, <2>2
    <3>2. said[n] = 1 /\ note[n].due
          /\ (note[n].raised \/ \E j \in Timer : timer[j].phase = "marking")
      BY <1>7, <3>1 DEF ToldOnce
    <3>3. \A j \in Timer : timer[j].phase # "marking"
      BY <1>0, OnlyTimer, FreeIsFree
    <3> QED
      BY <1>2, <3>1, <3>2, <3>3
  <2> QED
    BY <2>1, <2>2
<1>8. ASSUME NEW j \in Timer, NEW n \in timer'[j].notes
      PROVE  note'[n].due /\ timer'[j].phase \notin {"armed", "generating"}
  <2>1. j = i /\ timer[i].act = "remind"
    BY <1>6, <1>8, FreeIsFree
  <2> QED
    BY <1>2, <1>6, <1>8, <2>1 DEF ToldOnce
<1>9. SpokeSince(0)'
  BY <1>5
<1>10. tick'.phase # "rest" => \A n \in tick'.due :
          note'[n].due /\ (said'[n] > 0 => SpokeSince(tick.lag)')
  <2>1. SpokeSince(tick.lag)'
    BY <1>0, <1>2, <1>5 DEF SpokeSince, LastAge
  <2> QED
    BY <1>2, <2>1 DEF ToldOnce
<1> QED
  BY <1>7, <1>8, <1>9, <1>10 DEF ToldOnce

LEMMA MarkOnce ==
    ASSUME OneTab, CalmInv, ToldOnce, NEW i \in Timer, MarkRaised(i)
    PROVE  ToldOnce'
<1>0. TimersOK /\ BoardOK /\ tick \in TickType /\ timer[i] # Free
      /\ (\A j \in Timer : timer[j].notes \subseteq Note) /\ tick.due \subseteq Note
  BY CalmParts, FreeIsFree DEF TimersOK, TickType, TimerType, MarkRaised
<1>1. /\ timer[i].phase = "marking" /\ UNCHANGED <<said, spoken, tick>>
      /\ note' = [n \in Note |-> IF n \in timer[i].notes
                                  THEN [note[n] EXCEPT !.raised = TRUE] ELSE note[n]]
      /\ timer' = [timer EXCEPT ![i] = Free]
  BY DEF MarkRaised
<1>2. \A n \in Note : /\ note'[n].due = note[n].due
                      /\ note[n].raised => note'[n].raised
                      /\ n \in timer[i].notes => note'[n].raised
  BY <1>0, <1>1 DEF BoardOK, NoteType
<1>3. \A j \in Timer : timer'[j] = Free
  BY <1>0, <1>1, OnlyTimer DEF TimersOK
<1>4. \A n \in Note : said'[n] > 0 => said'[n] = 1 /\ note'[n].due /\ note'[n].raised
  <2>1. \A j \in Timer : timer[j].phase = "marking" => j = i
    BY <1>0, OnlyTimer, FreeIsFree
  <2> QED
    BY <1>1, <1>2, <2>1 DEF ToldOnce
<1>5. tick'.phase # "rest" => \A n \in tick'.due :
         note'[n].due /\ (said'[n] > 0 => SpokeSince(tick.lag)')
  <2>1. SpokeSince(tick.lag) => SpokeSince(tick.lag)'
    BY <1>1 DEF SpokeSince, LastAge
  <2> QED
    BY <1>0, <1>1, <1>2, <2>1 DEF ToldOnce
<1> QED
  BY <1>3, <1>4, <1>5, FreeIsFree DEF ToldOnce

(* A reminder is armed only for notes nobody has told. *)
LEMMA ArmOnce ==
    ASSUME OneTab, CalmInv, ToldOnce, NEW s \in Session, slot[s] = Nobody,
           NEW act \in Actions, NEW due \in SUBSET Note, act = "remind" => due # {},
           ArmUnlessSilent(s, act, due),
           \A n \in due : act = "remind" => note[n].due /\ said[n] = 0,
           UNCHANGED <<said, spoken, note>>,
           tick'.phase # "rest" => /\ tick.phase # "rest"
                                   /\ tick'.due = tick.due /\ tick'.lag = tick.lag
    PROVE  ToldOnce'
<1>0. TimersOK /\ act # "silent" /\ act \in Actions \cup {"silent"}
  BY CalmParts DEF Actions
<1>1. PICK i \in Timer : /\ timer'[i] = [phase |-> "armed", s |-> s, act |-> act,
                                         notes |-> IF act = "remind" THEN due ELSE {}]
                         /\ \A j \in Timer \ {i} : timer'[j] = timer[j]
  BY <1>0, ArmFacts
<1>2. \A j \in Timer : timer[j] = Free
  BY NoTimer
<1>3. /\ timer'[i].phase = "armed" /\ timer'[i].notes = (IF act = "remind" THEN due ELSE {})
      /\ \A j \in Timer \ {i} : timer'[j].phase = "free" /\ timer'[j].notes = {}
  BY <1>1, <1>2, FreeIsFree
<1>4. \A n \in Note : said'[n] > 0 => said'[n] = 1 /\ note'[n].due /\ note'[n].raised
  BY <1>2, FreeIsFree DEF ToldOnce
<1>5. \A j \in Timer : \A n \in timer'[j].notes :
         /\ note'[n].due
         /\ timer'[j].phase \in {"armed", "generating"} => said'[n] = 0
  BY <1>3
<1>6. \A j \in Timer : timer'[j].phase # "marking"
  BY <1>3
<1>7. tick'.phase # "rest" => \A n \in tick'.due :
         note'[n].due /\ (said'[n] > 0 => SpokeSince(tick.lag)')
  <2> SUFFICES ASSUME tick'.phase # "rest", NEW n \in tick'.due
               PROVE  note'[n].due /\ (said'[n] > 0 => SpokeSince(tick.lag)')
    OBVIOUS
  <2>1. SpokeSince(tick.lag) => SpokeSince(tick.lag)'
    BY DEF SpokeSince, LastAge
  <2> QED
    BY <2>1 DEF ToldOnce
<1> QED
  BY <1>4, <1>5, <1>6, <1>7 DEF ToldOnce

(* With no timer at work, a note on offer has not been told. *)
LEMMA OfferedUntold ==
    ASSUME TypeOK, ToldOnce, \A j \in Timer : timer[j] = Free, NEW n \in DueOn(note)
    PROVE  n \in Note /\ note[n].due /\ said[n] = 0
<1>1. n \in Note /\ note[n].due /\ ~note[n].raised /\ said[n] \in 0..2
  BY DEF DueOn, TypeOK, BoardOK
<1>2. ~(said[n] > 0)
  BY <1>1, FreeIsFree DEF ToldOnce
<1> QED
  BY <1>1, <1>2

LEMMA TurnsOnce ==
    ASSUME OneTab, CalmInv, ToldOnce, NEW s \in Session, Turns(s)
    PROVE  ToldOnce'
<1>0. TypeOK /\ TimersOK /\ OneTimer /\ tick \in TickType
  BY CalmParts
<1>1. CASE OnUserTurn(s)
  <2>1. /\ timer' = [i \in Timer |-> IF i = slot[s] /\ timer[i].phase = "armed"
                                     THEN Free ELSE timer[i]]
        /\ UNCHANGED <<said, spoken, note, tick>>
    BY <1>1 DEF OnUserTurn
  <2>2. \A j \in Timer : \/ timer'[j] = timer[j]
                         \/ timer'[j] = Free /\ timer[j].phase # "marking"
    BY <2>1
  <2> QED
    BY <1>0, <2>1, <2>2, OnceAside
<1>2. ASSUME NEW ending, NEW low, NEW roll, OnReply(s, ending, low, roll) PROVE ToldOnce'
  <2>0. PICK due, act : due = DueOn(note) /\ act = Decide(s, 0, ending, due, FALSE, low, roll)
    OBVIOUS
  <2>1. /\ turn[s] /\ ArmUnlessSilent(s, act, due)
        /\ UNCHANGED <<said, spoken, note, tick>>
    BY <1>2, <2>0 DEF OnReply
  <2>2. act \in Actions \cup {"silent"} /\ (act = "remind" => due # {}) /\ due \in SUBSET Note
    BY <2>0, DecideFacts, DueType
  <2>3. slot[s] = Nobody
    BY <1>0, <2>1 DEF OneTimer
  <2>4. CASE act = "silent"
    <3>1. timer' = timer
      BY <2>1, <2>4 DEF ArmUnlessSilent
    <3> QED
      BY <1>0, <2>1, <3>1, OnceAside
  <2>5. CASE act # "silent"
    <3>1. \A n \in due : note[n].due /\ said[n] = 0
      BY <1>0, <2>0, <2>3, NoTimer, OfferedUntold
    <3>2. act \in Actions
      BY <2>2, <2>5
    <3> QED
      BY <2>1, <2>2, <2>3, <3>1, <3>2, ArmOnce
  <2> QED
    BY <2>4, <2>5
<1>3. CASE NoReply(s)
  <2>1. UNCHANGED <<said, spoken, note, tick, timer>>
    BY <1>3 DEF NoReply
  <2> QED
    BY <1>0, <2>1, OnceAside
<1> QED
  BY <1>1, <1>2, <1>3 DEF Turns

(* A pass that read a note before it was told is still in the cooldown. *)
LEMMA TickerOnce ==
    ASSUME Armed = {}, OneTab, CalmInv, ToldOnce, Ticker
    PROVE  ToldOnce'
<1>0. TypeOK /\ SpeechOK /\ TimersOK /\ BoardOK /\ OneTimer /\ tick \in TickType
  BY CalmParts
<1>1. ASSUME NEW fired \in {{}} \cup {{w} : w \in Watch}, NEW insight \in BOOLEAN,
             TickBegins(fired, insight)
      PROVE  ToldOnce'
  <2>1. /\ \A w \in fired : ~note[w].due
        /\ note' = [n \in Note |-> IF n \in fired
                                   THEN [note[n] EXCEPT !.due = TRUE, !.raised = FALSE]
                                   ELSE note[n]]
        /\ tick' = [Resting EXCEPT !.phase = "think", !.insight = insight, !.due = DueOn(note')]
        /\ UNCHANGED <<said, spoken, timer>>
    BY <1>1 DEF TickBegins
  <2>2. tick'.due = DueOn(note') /\ tick'.lag = 0
    BY <2>1, FreeIsFree DEF TickType
  <2>3. \A n \in Note : /\ note[n].due => note'[n].due /\ note'[n] = note[n]
                        /\ note'[n].due => note[n].due \/ n \in fired
    BY <1>0, <2>1 DEF BoardOK, NoteType
  <2>4. \A n \in Note : said'[n] > 0 =>
           /\ said'[n] = 1 /\ note'[n].due
           /\ \/ note'[n].raised
              \/ \E i \in Timer : timer'[i].phase = "marking" /\ n \in timer'[i].notes
    BY <2>1, <2>3 DEF ToldOnce
  <2>5. \A i \in Timer : timer[i].notes \subseteq Note
    BY <1>0 DEF TimersOK, TimerType
  <2>6. \A i \in Timer : \A n \in timer'[i].notes :
           /\ note'[n].due
           /\ timer'[i].phase \in {"armed", "generating"} => said'[n] = 0
    BY <2>1, <2>3, <2>5 DEF ToldOnce
  <2>7. (\E i \in Timer : timer'[i].phase = "marking") => SpokeSince(0)'
    <3>1. SpokeSince(0) => SpokeSince(0)'
      BY <2>1 DEF SpokeSince, LastAge
    <3> QED
      BY <2>1, <3>1 DEF ToldOnce
  <2>8. ASSUME NEW n \in tick'.due
        PROVE  note'[n].due /\ (said'[n] > 0 => SpokeSince(0)')
    <3>1. n \in Note /\ note'[n].due /\ ~note'[n].raised
      BY <2>2, <2>8 DEF DueOn
    <3> QED
      BY <2>4, <2>7, <3>1
  <2>9. \A n \in tick'.due : note'[n].due /\ (said'[n] > 0 => SpokeSince(tick.lag)')
    <3>1. SpokeSince(0)' => SpokeSince(tick.lag)'
      BY <2>2 DEF SpokeSince, LastAge
    <3> QED
      BY <2>8, <3>1
  <2> QED
    BY <2>4, <2>6, <2>7, <2>9 DEF ToldOnce
<1>2. CASE TickLooks
  <2>1. /\ tick' = [tick EXCEPT !.phase = "look", !.seen = reply,
                                !.todo = {s \in Session : reply[s] # "none"}]
        /\ tick.phase = "think" /\ UNCHANGED <<said, spoken, note, timer>>
    BY <1>2 DEF TickLooks
  <2>2. tick'.due = tick.due /\ tick'.lag = tick.lag
    BY <1>0, <2>1 DEF TickType
  <2> QED
    BY <1>0, <2>1, <2>2, OnceAside
<1>3. ASSUME NEW s \in Session, NEW roll, TickSession(s, roll) PROVE ToldOnce'
  <2>0. PICK act, due, lag : /\ act = TickDecision(s, roll) /\ due = tick.due /\ lag = tick.lag
    OBVIOUS
  <2>1. act \in Actions \cup {"silent"} /\ (act = "remind" => due # {})
    BY <2>0, DecideFacts DEF TickDecision
  <2>2. /\ ArmUnlessSilent(s, act, due) /\ tick.phase = "look"
        /\ tick' = [tick EXCEPT !.todo = IF act \in {"remind", "muse"} THEN {} ELSE @ \ {s}]
        /\ UNCHANGED <<said, spoken, note>>
    BY <1>3, <2>0 DEF TickSession
  <2>3. tick'.due = tick.due /\ tick'.lag = tick.lag /\ due \in SUBSET Note /\ lag \in Nat
    BY <1>0, <2>0, <2>2 DEF TickType
  <2>4. CASE act = "silent"
    <3>1. timer' = timer
      BY <2>2, <2>4 DEF ArmUnlessSilent
    <3> QED
      BY <1>0, <2>2, <2>3, <3>1, OnceAside
  <2>5. CASE act # "silent"
    <3>1. slot[s] = Nobody /\ act = Decide(s, lag, tick.seen[s], due, tick.insight, FALSE, roll)
      BY <2>0, <2>5 DEF TickDecision, Alive
    <3>2. ~Cooling(s, lag)
      BY <2>5, <3>1 DEF Decide
    <3>3. ~SpokeSince(lag)
      <4>1. SUFFICES ASSUME SpokeSince(lag) PROVE FALSE
        OBVIOUS
      <4>2. spoken[s] # << >> /\ LastAge(s) <= lag
        BY <4>1 DEF SpokeSince
      <4>3. LastAge(s) \in Nat
        <5>1. spoken[s] \in Seq(0..AgeCap)
          BY <1>0 DEF SpeechOK
        <5>2. Len(spoken[s]) \in 1..Len(spoken[s])
          BY <4>2, <5>1, EmptySeq, LenProperties
        <5> QED
          BY <5>1, <5>2, ElementOfSeq, Bounds DEF LastAge
      <4> QED
        BY <2>3, <3>2, <4>2, <4>3, Bounds DEF Cooling, OneTab
    <3>4. \A n \in due : note[n].due /\ said[n] = 0
      <4> SUFFICES ASSUME NEW n \in due PROVE note[n].due /\ said[n] = 0
        OBVIOUS
      <4>1. n \in Note /\ said[n] \in 0..2
        BY <1>0, <2>3 DEF BoardOK
      <4>2. note[n].due /\ ~(said[n] > 0)
        BY <2>0, <2>2, <3>3 DEF ToldOnce
      <4> QED
        BY <4>1, <4>2
    <3>5. act \in Actions
      BY <2>1, <2>5
    <3> QED
      BY <2>1, <2>2, <2>3, <3>1, <3>4, <3>5, ArmOnce
  <2> QED
    BY <2>4, <2>5
<1>4. CASE TickEnds
  <2>1. tick' = Resting /\ UNCHANGED <<said, spoken, note, timer>>
    BY <1>4 DEF TickEnds
  <2> QED
    BY <1>0, <2>1, FreeIsFree, OnceAside
<1> QED
  BY <1>1, <1>2, <1>3, <1>4 DEF Ticker

LEMMA ElapseOnce ==
    ASSUME CalmInv, ToldOnce, Elapse
    PROVE  ToldOnce'
<1>0. TypeOK /\ SpeechOK /\ tick \in TickType
  BY CalmParts
<1>1. /\ UNCHANGED <<timer, note, said>> /\ (\A i \in Timer : timer[i].phase # "marking")
      /\ tick.phase # "rest" => tick.lag < MaxLag
  BY DEF Elapse
<1>2. /\ \A s \in Session : spoken'[s] = Older(spoken[s])
      /\ tick'.phase = tick.phase /\ tick'.due = tick.due
      /\ tick.phase # "rest" => tick'.lag = tick.lag + 1
  BY <1>0, ElapseFacts
<1>3. ASSUME tick.phase # "rest", SpokeSince(tick.lag)
      PROVE  SpokeSince(tick.lag)'
  <2> SUFFICES ASSUME NEW s \in Session
               PROVE  spoken'[s] # << >> /\ spoken'[s][Len(spoken'[s])] <= tick'.lag
    BY DEF SpokeSince, LastAge
  <2>1. spoken[s] # << >> /\ LastAge(s) <= tick.lag /\ tick.lag \in Nat
    BY <1>0, <1>3 DEF SpokeSince, TickType
  <2>2. spoken[s] \in Seq(0..AgeCap) /\ Sorted(spoken[s])
    BY <1>0 DEF SpeechOK
  <2>3. LastAge(s) \in Nat
    <3>1. Len(spoken[s]) \in 1..Len(spoken[s])
      BY <2>1, <2>2, EmptySeq, LenProperties
    <3> QED
      BY <2>2, <3>1, ElementOfSeq, Bounds DEF LastAge
  <2>4. LastAge(s) + 1 < AgeCap /\ LastAge(s) + 1 <= tick.lag + 1
    BY <1>1, <1>3, <2>1, <2>3, Bounds DEF AgeCap
  <2>5. spoken'[s] # << >> /\ spoken'[s][Len(spoken'[s])] = LastAge(s) + 1
    BY <1>2, <2>1, <2>2, <2>4, OlderAges DEF LastAge
  <2> QED
    BY <1>2, <1>3, <2>4, <2>5
<1>4. tick'.phase # "rest" => \A n \in tick'.due :
         note'[n].due /\ (said'[n] > 0 => SpokeSince(tick.lag)')
  BY <1>1, <1>2, <1>3 DEF ToldOnce
<1>5. \A n \in Note : said'[n] > 0 =>
         /\ said'[n] = 1 /\ note'[n].due
         /\ \/ note'[n].raised
            \/ \E i \in Timer : timer'[i].phase = "marking" /\ n \in timer'[i].notes
  BY <1>1 DEF ToldOnce
<1>6. \A i \in Timer : /\ timer'[i].phase # "marking"
                       /\ \A n \in timer'[i].notes :
                             /\ note'[n].due
                             /\ timer'[i].phase \in {"armed", "generating"} => said'[n] = 0
  BY <1>1 DEF ToldOnce
<1> QED
  BY <1>4, <1>5, <1>6 DEF ToldOnce

LEMMA OnceStep ==
    ASSUME Armed = {}, OneTab, CalmInv, ToldOnce, [Next]_vars
    PROVE  ToldOnce'
<1>0. TypeOK /\ TimersOK /\ BoardOK
  BY CalmParts
<1>1. ASSUME NEW i \in Timer, Firing(i) PROVE ToldOnce'
  <2>1. CASE Fire(i)
    <3>1. /\ timer[i].phase = "armed" /\ timer' = [timer EXCEPT ![i].phase = "generating"]
          /\ UNCHANGED <<said, spoken, note, tick>>
      BY <2>1 DEF Fire
    <3>2. /\ timer'[i].phase = "generating" /\ timer'[i].notes = timer[i].notes
          /\ \A j \in Timer \ {i} : timer'[j] = timer[j]
      BY <1>0, <3>1 DEF TimersOK, TimerType
    <3>3. \A j \in Timer : \/ timer'[j] = timer[j]
                           \/ /\ timer'[j].notes = timer[j].notes
                              /\ timer[j].phase = "armed" /\ timer'[j].phase = "generating"
      BY <3>1, <3>2
    <3> QED
      BY <1>0, <3>1, <3>3, OnceAside
  <2>2. CASE Dropped(i)
    <3>1. /\ timer[i].phase = "generating" /\ timer' = [timer EXCEPT ![i] = Free]
          /\ UNCHANGED <<said, spoken, note, tick>>
      BY <2>2 DEF Dropped
    <3>2. \A j \in Timer : \/ timer'[j] = timer[j]
                           \/ timer'[j] = Free /\ timer[j].phase # "marking"
      BY <1>0, <3>1 DEF TimersOK
    <3> QED
      BY <1>0, <3>1, <3>2, OnceAside
  <2> QED
    BY <1>1, <2>1, <2>2, SpeakOnce, MarkOnce DEF Firing
<1>2. ASSUME NEW s \in Session, Turns(s) PROVE ToldOnce'
  BY <1>2, TurnsOnce
<1>3. CASE Ticker
  BY <1>3, TickerOnce
<1>4. CASE Elapse
  BY <1>4, ElapseOnce
<1>5. CASE \/ \E n \in Note : ComesDue(n) \/ NoteDone(n)
           \/ \E s \in Session : Drain(s)
           \/ UNCHANGED vars
  <2>1. UNCHANGED <<said, spoken, timer, tick>>
    BY <1>5 DEF ComesDue, NoteDone, Drain, vars
  <2>2. \A n \in Note : /\ note[n].due => note'[n].due
                        /\ note[n].raised => note'[n].raised
    BY <1>0, <1>5 DEF ComesDue, NoteDone, Drain, vars, BoardOK, NoteType
  <2> QED
    BY <1>0, <2>1, <2>2, OnceAside
<1>6. ~Restart
  BY DEF Restart
<1> QED
  BY <1>1, <1>2, <1>3, <1>4, <1>5, <1>6 DEF Next, GatewayUp

(* notes.due, mark_raised, tick_once: in one conversation, with a cooldown *)
(* and nothing overlapping, a note is told once, although a pass offers    *)
(* the notes it read before the reflection's turn and mark_raised comes    *)
(* after the telling.                                                      *)
THEOREM NotesToldOnce ==
    ASSUME Armed = {}, OneTab
    PROVE  Spec => []RemindOnce
<1>1. Init => OnceInv
  <2> SUFFICES ASSUME Init PROVE ToldOnce
    BY InitCalm DEF OnceInv
  <2>1. /\ \A n \in Note : said[n] = 0
        /\ \A i \in Timer : timer[i] = Free
        /\ tick = Resting
    BY DEF Init
  <2> QED
    BY <2>1, FreeIsFree DEF ToldOnce
<1>2. OnceInv /\ [Next]_vars => OnceInv'
  BY CalmStep, OnceStep DEF OnceInv
<1>3. OnceInv => RemindOnce
  <2> SUFFICES ASSUME OnceInv, NEW n \in Note PROVE said[n] <= 1
    BY DEF RemindOnce
  <2>1. said[n] \in 0..2 /\ (said[n] > 0 => said[n] = 1)
    BY CalmParts DEF OnceInv, ToldOnce, BoardOK
  <2> QED
    BY <2>1
<1> QED
  BY <1>1, <1>2, <1>3, PTL DEF Spec
=============================================================================
