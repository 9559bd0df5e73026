------------------------- MODULE FecReceiverProofs -------------------------
(***************************************************************************)
(* The receiving side of the FEC extension, for every size of the segments *)
(* and blocks: its types, the soundness of what it stores and, on a path   *)
(* where no repair packet is overtaken, the report of a failure and the    *)
(* recovery of the one segment missing.                                    *)
(***************************************************************************)
EXTENDS FecReceiver, WellFoundedInduction, FiniteSetTheorems, TLAPS

-----------------------------------------------------------------------------
(***************************************************************************)
(* Least and greatest members, and iterations                              *)
(***************************************************************************)

\* A set of numbers has a least one.
LEMMA Least ==
    ASSUME NEW T \in SUBSET Nat, T /= {}
    PROVE  \E n \in T : \A m \in T : n <= m
<1> DEFINE R == OpToRel(<, Nat)
<1>1. \A m, n \in Nat : m < n => <<m, n>> \in R
  BY DEF OpToRel
<1>2. IsWellFoundedOn(R, Nat)
  BY NatLessThanWellFounded
<1> HIDE DEF R
<1>3. PICK n \in T : \A m \in T : ~(<<m, n>> \in R)
  BY <1>2, WFMin
<1>4. \A m \in T : ~(m < n)
  BY <1>1, <1>3
<1> QED BY <1>3, <1>4

LEMMA MinIs ==
    ASSUME NEW T \in SUBSET Nat, T /= {}
    PROVE  Min(T) \in T /\ \A m \in T : Min(T) <= m
<1>1. PICK n \in T : \A m \in T : n <= m
  BY Least
<1> QED BY <1>1, Zenon DEF Min

LEMMA MaxIs ==
    ASSUME NEW b \in Nat, NEW T \in SUBSET (0..b), T /= {}
    PROVE  Max(T) \in T /\ \A m \in T : m <= Max(T)
<1> DEFINE U == {n \in 0..b : b - n \in T}
<1>1. U \in SUBSET Nat /\ U /= {}
  <2>1. PICK m \in T : TRUE
    OBVIOUS
  <2>2. b - m \in 0..b /\ b - (b - m) = m
    OBVIOUS
  <2>3. b - m \in U
    BY <2>2
  <2>4. U \in SUBSET Nat
    OBVIOUS
  <2> HIDE DEF U
  <2> QED BY <2>3, <2>4
<1>2. PICK n \in U : \A m \in U : n <= m
  BY <1>1, Least
<1>3. b - n \in T
  BY <1>2
<1>4. ASSUME NEW m \in T PROVE m <= b - n
  <2>1. b - m \in 0..b /\ b - (b - m) = m
    OBVIOUS
  <2>2. n <= b - m /\ n \in 0..b
    BY <1>2, <2>1
  <2> QED BY <2>1, <2>2
<1>5. \A m \in T : b - n >= m
  BY <1>3, <1>4
<1>6. Max(T) \in T /\ \A m \in T : Max(T) >= m
  BY <1>3, <1>5, Zenon DEF Max
<1> QED BY <1>6

\* The results f of a step taken k times.
Results(f, X, k, first, step) ==
    /\ f \in [0..k -> X] /\ f[0] = first
    /\ \A i \in 1..k : f[i] = step[<<f[i - 1], i>>]

\* A step can be taken any number of times.
LEMMA Iterated ==
    ASSUME NEW X, NEW first \in X, NEW n \in Nat, NEW step \in [X \X (1..n) -> X]
    PROVE  \E f : Results(f, X, n, first, step)
<1> DEFINE Is(f, k) == /\ f \in [0..k -> X] /\ f[0] = first
                       /\ \A i \in 1..k : f[i] = step[<<f[i - 1], i>>]
           T == {k \in 0..n : ~\E f : Is(f, k)}
<1>1. T = {}
  <2> SUFFICES ASSUME T /= {} PROVE FALSE
    OBVIOUS
  <2>1. PICK k \in T : \A m \in T : k <= m
    <3>1. T \in SUBSET Nat
      OBVIOUS
    <3> QED BY <3>1, Least
  <2>2. CASE k = 0
    <3> DEFINE f == [i \in 0..0 |-> first]
    <3>1. Is(f, 0)
      OBVIOUS
    <3> QED BY <2>1, <2>2, <3>1
  <2>3. CASE k /= 0
    <3>10. k \in 0..n
      BY <2>1
    <3>1. k \in 1..n /\ k - 1 \in 0..n /\ k - 1 \notin T
      <4>1. k \in 1..n /\ k - 1 \in 0..n /\ ~(k <= k - 1)
        BY <2>3, <3>10
      <4> QED BY <2>1, <4>1
    <3>2. PICK g : Is(g, k - 1)
      BY <3>1
    <3> DEFINE f == [i \in 0..k |-> IF i = k THEN step[<<g[k - 1], k>>] ELSE g[i]]
    <3>3. g[k - 1] \in X
      BY <3>1, <3>2
    <3>4. step[<<g[k - 1], k>>] \in X
      BY <3>1, <3>3
    <3>5. \A i \in 0..k : i /= k => i \in 0..(k - 1)
      BY <3>1
    <3>6. f \in [0..k -> X]
      BY <3>2, <3>4, <3>5
    <3>7. f[0] = first
      BY <3>1, <3>2
    <3>8. ASSUME NEW i \in 1..k PROVE f[i] = step[<<f[i - 1], i>>]
      <4>1. i - 1 \in 0..k /\ i - 1 /= k /\ i \in 0..k
        BY <3>1
      <4>2. f[i - 1] = g[i - 1]
        BY <4>1
      <4>3. CASE i = k
        BY <4>1, <4>2, <4>3
      <4>4. CASE i /= k
        <5>1. i \in 1..(k - 1)
          BY <3>1, <4>4
        <5> QED BY <3>2, <4>1, <4>2, <4>4, <5>1
      <4> QED BY <4>3, <4>4
    <3> HIDE DEF f
    <3>9. Is(f, k)
      BY <3>6, <3>7, <3>8
    <3> QED BY <2>1, <3>9
  <2> QED BY <2>2, <2>3
<1>2. n \in 0..n
  OBVIOUS
<1>3. PICK f : Is(f, n)
  BY <1>1, <1>2
<1> HIDE DEF T
<1> QED BY <1>3, Zenon DEF Results

\* What is left of a list is part of it, in other places of the list for other places.
LEMMA WithoutIs ==
    ASSUME NEW S, NEW list \in Seq(S), NEW gone
    PROVE  LET w == Without(list, gone)
           IN  /\ w \in Seq(S) /\ Len(w) <= Len(list)
               /\ \A k \in 1..Len(w) : \E i \in 1..Len(list) : w[k] = list[i] /\ ~(list[i] \in gone)
               /\ \A k, l \in 1..Len(w) :
                     k /= l => \E i, j \in 1..Len(list) : i /= j /\ w[k] = list[i] /\ w[l] = list[j]
<1> DEFINE n == Len(list)
           D == 0..n
           body(g) == [i \in D |-> IF i = 0 THEN <<>>
                                   ELSE IF list[i] \in gone THEN g[i - 1]
                                   ELSE Append(g[i - 1], list[i])]
           step == [p \in Seq(S) \X (1..n) |->
                        IF list[p[2]] \in gone THEN p[1] ELSE Append(p[1], list[p[2]])]
           left == CHOOSE g : g = body(g)
<1>1. n \in Nat /\ <<>> \in Seq(S) /\ \A i \in 1..n : list[i] \in S
  OBVIOUS
<1>2. left = body(left)
  <2>1. step \in [Seq(S) \X (1..n) -> Seq(S)]
    <3> SUFFICES ASSUME NEW p \in Seq(S) \X (1..n)
                 PROVE  (IF list[p[2]] \in gone THEN p[1] ELSE Append(p[1], list[p[2]])) \in Seq(S)
      OBVIOUS
    <3>1. p[1] \in Seq(S) /\ list[p[2]] \in S
      BY <1>1
    <3> QED BY <3>1
  <2>2. \A q \in Seq(S), i \in 1..n :
          step[<<q, i>>] = IF list[i] \in gone THEN q ELSE Append(q, list[i])
    OBVIOUS
  <2> HIDE DEF step, n
  <2>3. PICK f : Results(f, Seq(S), n, <<>>, step)
    BY <1>1, <2>1, Iterated, Zenon
  <2>7. f \in [0..n -> Seq(S)] /\ f[0] = <<>> /\ \A i \in 1..n : f[i] = step[<<f[i - 1], i>>]
    BY <2>3, Zenon DEF Results
  <2>4. ASSUME NEW i \in 1..n
        PROVE  f[i] = IF list[i] \in gone THEN f[i - 1] ELSE Append(f[i - 1], list[i])
    <3>1. i - 1 \in 0..n
      BY <1>1
    <3>2. f[i - 1] \in Seq(S)
      BY <2>7, <3>1
    <3> QED BY <2>2, <2>7, <3>2
  <2>5. f = body(f)
    <3>1. \A i \in D : i = 0 \/ i \in 1..n
      BY <1>1
    <3> QED BY <2>7, <2>4, <3>1
  <2> HIDE DEF body
  <2> QED BY <2>5
<1>3. Without(list, gone) = left[n]
  BY DEF Without
<1> HIDE DEF left
<1>4. left[0] = <<>>
  BY <1>1, <1>2
<1>5. ASSUME NEW i \in 1..n
      PROVE  left[i] = IF list[i] \in gone THEN left[i - 1] ELSE Append(left[i - 1], list[i])
  <2>1. i \in D /\ i /= 0
    BY <1>1
  <2> HIDE DEF D
  <2> QED BY <1>2, <2>1
<1> HIDE DEF n
<1> DEFINE Part(w, m) ==
             /\ w \in Seq(S) /\ Len(w) <= m
             /\ \A k \in 1..Len(w) : \E i \in 1..m : w[k] = list[i] /\ ~(list[i] \in gone)
             /\ \A k, l \in 1..Len(w) :
                   k /= l => \E i, j \in 1..m : i /= j /\ w[k] = list[i] /\ w[l] = list[j]
           T == {m \in 0..n : ~Part(left[m], m)}
<1>6. Part(left[0], 0)
  BY <1>4
<1>7. ASSUME NEW m \in 1..n, Part(left[m - 1], m - 1)
      PROVE  Part(left[m], m)
  <2> DEFINE v == left[m - 1]
             w == left[m]
  <2>1. /\ v \in Seq(S) /\ Len(v) <= m - 1 /\ Len(v) \in Nat
        /\ \A k \in 1..Len(v) : \E i \in 1..(m - 1) : v[k] = list[i] /\ ~(list[i] \in gone)
        /\ \A k, l \in 1..Len(v) :
              k /= l => \E i, j \in 1..(m - 1) : i /= j /\ v[k] = list[i] /\ v[l] = list[j]
    BY <1>7
  <2>2. m \in Nat /\ m \in 1..m /\ \A i \in 1..(m - 1) : i \in 1..m /\ i /= m
    BY <1>1
  <2>3. w = IF list[m] \in gone THEN v ELSE Append(v, list[m])
    BY <1>5
  <2> HIDE DEF v, w
  <2>4. CASE list[m] \in gone
    <3>1. w = v
      BY <2>3, <2>4
    <3>2. Len(v) <= m
      BY <2>1, <2>2
    <3>3. \A k \in 1..Len(v) : \E i \in 1..m : v[k] = list[i] /\ ~(list[i] \in gone)
      BY <2>1, <2>2, Zenon
    <3>4. ASSUME NEW k \in 1..Len(v), NEW l \in 1..Len(v), k /= l
          PROVE  \E i, j \in 1..m : i /= j /\ v[k] = list[i] /\ v[l] = list[j]
      <4>1. PICK i, j \in 1..(m - 1) : i /= j /\ v[k] = list[i] /\ v[l] = list[j]
        BY <2>1, <3>4
      <4> QED BY <2>2, <4>1
    <3>5. Part(v, m)
      BY <2>1, <3>2, <3>3, <3>4
    <3> HIDE DEF Part
    <3>6. Part(w, m)
      BY <3>1, <3>5
    <3> QED BY <3>6 DEF w
  <2>5. CASE ~(list[m] \in gone)
    <3>1. w = Append(v, list[m]) /\ list[m] \in S
      BY <1>1, <2>3, <2>5
    <3>2. /\ w \in Seq(S) /\ Len(w) = Len(v) + 1 /\ w[Len(v) + 1] = list[m]
          /\ \A k \in 1..Len(v) : w[k] = v[k]
      BY <2>1, <3>1
    <3>3. \A k \in 1..Len(w) : k \in 1..Len(v) \/ k = Len(v) + 1
      BY <2>1, <3>2
    <3>4. Len(w) <= m
      BY <2>1, <2>2, <3>2
    <3>5. ASSUME NEW k \in 1..Len(w)
          PROVE  \E i \in 1..m : w[k] = list[i] /\ ~(list[i] \in gone)
      <4>1. CASE k \in 1..Len(v)
        BY <2>1, <2>2, <3>2, <4>1
      <4>2. CASE k = Len(v) + 1
        BY <2>2, <2>5, <3>2, <4>2
      <4> QED BY <3>3, <4>1, <4>2
    <3>6. ASSUME NEW k \in 1..Len(w), NEW l \in 1..Len(w), k /= l
          PROVE  \E i, j \in 1..m : i /= j /\ w[k] = list[i] /\ w[l] = list[j]
      <4>1. CASE k \in 1..Len(v) /\ l \in 1..Len(v)
        <5>1. PICK i, j \in 1..(m - 1) : i /= j /\ v[k] = list[i] /\ v[l] = list[j]
          BY <2>1, <3>6, <4>1, Zenon
        <5>2. i \in 1..m /\ j \in 1..m /\ w[k] = list[i] /\ w[l] = list[j]
          BY <2>2, <3>2, <4>1, <5>1, Zenon
        <5> QED BY <5>1, <5>2
      <4>2. CASE k \in 1..Len(v) /\ l = Len(v) + 1
        <5>1. PICK i \in 1..(m - 1) : v[k] = list[i]
          BY <2>1, <4>2
        <5>2. i \in 1..m /\ i /= m /\ w[k] = list[i] /\ w[l] = list[m]
          BY <2>2, <3>2, <4>2, <5>1
        <5> QED BY <2>2, <5>2
      <4>3. CASE k = Len(v) + 1 /\ l \in 1..Len(v)
        <5>1. PICK j \in 1..(m - 1) : v[l] = list[j]
          BY <2>1, <4>3
        <5>2. j \in 1..m /\ j /= m /\ w[l] = list[j] /\ w[k] = list[m]
          BY <2>2, <3>2, <4>3, <5>1
        <5> QED BY <2>2, <5>2
      <4> QED BY <3>3, <3>6, <4>1, <4>2, <4>3
    <3>7. Part(w, m)
      BY <3>2, <3>4, <3>5, <3>6
    <3> QED BY <3>7 DEF w
  <2> QED BY <2>4, <2>5
<1> HIDE DEF Part
<1>8. T = {}
  <2> SUFFICES ASSUME T /= {} PROVE FALSE
    OBVIOUS
  <2>1. PICK m \in T : \A k \in T : m <= k
    <3>1. T \in SUBSET Nat
      BY <1>1
    <3> QED BY <3>1, Least
  <2>2. m \in 0..n /\ ~Part(left[m], m)
    BY <2>1
  <2>3. m /= 0
    BY <1>6, <2>2
  <2>4. m \in 1..n /\ m - 1 \in 0..n /\ ~(m <= m - 1)
    BY <1>1, <2>2, <2>3
  <2>5. Part(left[m - 1], m - 1)
    BY <2>1, <2>4
  <2> QED BY <1>7, <2>2, <2>4, <2>5
<1>9. Part(left[n], n)
  <2>1. n \in 0..n
    BY <1>1
  <2> QED BY <1>8, <2>1
<1> QED BY <1>3, <1>9 DEF Part, n

-----------------------------------------------------------------------------
(***************************************************************************)
(* The ends of segments                                                    *)
(***************************************************************************)
Boundaries == {SegmentSeq(k) : k \in 0..(Blocks * BlockSegments)}

LEMMA Products ==
    ASSUME NEW a \in Nat, NEW b \in Nat
    PROVE  /\ a * b \in Nat /\ (a + 1) * b = a * b + b
           /\ \A c \in Nat : a < c => a * b + b <= c * b
<1>1. a * b \in Nat /\ (a + 1) * b = a * b + b
  OBVIOUS
<1>2. ASSUME NEW c \in Nat, a < c PROVE a * b + b <= c * b
  <2> DEFINE d == c - (a + 1)
  <2>1. d \in Nat /\ c = (a + 1) + d
    BY <1>2
  <2>2. d * b \in Nat /\ ((a + 1) + d) * b = (a + 1) * b + d * b
    BY <2>1
  <2> HIDE DEF d
  <2> QED BY <1>1, <2>1, <2>2
<1> QED BY <1>1, <1>2

LEMMA SegmentSeqs ==
    ASSUME NEW k \in Nat
    PROVE  /\ SegmentSeq(k) \in Nat /\ SegmentSeq(k) >= 1
           /\ SegmentSeq(k + 1) = SegmentSeq(k) + SegmentSize
           /\ \A l \in Nat : k < l => SegmentSeq(k) + SegmentSize <= SegmentSeq(l)
<1>1. SegmentSize \in Nat
  BY FecSegmentsAssumption
<1>2. /\ k * SegmentSize \in Nat /\ (k + 1) * SegmentSize = k * SegmentSize + SegmentSize
      /\ \A l \in Nat : k < l => k * SegmentSize + SegmentSize <= l * SegmentSize
  BY <1>1, Products
<1>3. ASSUME NEW l \in Nat, k < l PROVE SegmentSeq(k) + SegmentSize <= SegmentSeq(l)
  <2>1. l * SegmentSize \in Nat /\ k * SegmentSize + SegmentSize <= l * SegmentSize
    BY <1>1, <1>2, <1>3, Products
  <2> QED BY <1>1, <1>2, <2>1 DEF SegmentSeq
<1> QED BY <1>1, <1>2, <1>3 DEF SegmentSeq

\* The sequence numbers at the ends of segments lie a segment apart, from 1 to StreamEnd.
LEMMA Ends ==
    /\ StreamEnd \in Nat /\ StreamEnd \in Boundaries /\ 1 \in Boundaries
    /\ \A s \in Boundaries : s \in Nat /\ 1 <= s /\ s <= StreamEnd
    /\ \A s, t \in Boundaries : s < t => s + SegmentSize <= t
    /\ \A s \in Boundaries : s < StreamEnd => s + SegmentSize \in Boundaries
<1> DEFINE N == Blocks * BlockSegments
<1>1. SegmentSize \in Nat /\ SegmentSize > 0 /\ N \in Nat
  <2>1. Blocks \in Nat /\ BlockSegments \in Nat /\ SegmentSize \in Nat /\ SegmentSize > 0
    BY FecSegmentsAssumption, FecReceiverAssumption
  <2> QED BY <2>1, Products
<1>2. StreamEnd = SegmentSeq(N)
  BY DEF StreamEnd
<1> HIDE DEF N
<1>3. Boundaries = {SegmentSeq(k) : k \in 0..N}
  BY DEF Boundaries, N
<1>4. SegmentSeq(0) = 1
  BY <1>1 DEF SegmentSeq
<1>5. 0 \in 0..N /\ N \in 0..N /\ \A k \in 0..N : k \in Nat
  BY <1>1
<1>6. StreamEnd \in Nat /\ StreamEnd \in Boundaries /\ 1 \in Boundaries
  BY <1>1, <1>2, <1>3, <1>4, <1>5, SegmentSeqs
<1>7. ASSUME NEW s \in Boundaries PROVE s \in Nat /\ 1 <= s /\ s <= StreamEnd
  <2>1. PICK k \in 0..N : s = SegmentSeq(k)
    BY <1>3
  <2>2. k \in Nat /\ s \in Nat /\ s >= 1
    BY <1>5, <2>1, SegmentSeqs
  <2>3. CASE k = N
    BY <1>2, <2>1, <2>2, <2>3
  <2>4. CASE k < N
    <3>1. SegmentSeq(k) + SegmentSize <= SegmentSeq(N)
      BY <1>1, <2>2, <2>4, SegmentSeqs
    <3> QED BY <1>1, <1>2, <1>6, <2>1, <2>2, <3>1
  <2> QED BY <1>1, <2>1, <2>3, <2>4
<1>8. ASSUME NEW s \in Boundaries, NEW t \in Boundaries, s < t PROVE s + SegmentSize <= t
  <2>1. PICK k \in 0..N : s = SegmentSeq(k)
    BY <1>3
  <2>2. PICK l \in 0..N : t = SegmentSeq(l)
    BY <1>3
  <2>3. k \in Nat /\ l \in Nat /\ s \in Nat /\ t \in Nat
    BY <1>5, <1>7
  <2>4. CASE k < l
    BY <2>1, <2>2, <2>3, <2>4, SegmentSeqs
  <2>5. CASE k = l
    BY <1>8, <2>1, <2>2, <2>3, <2>5
  <2>6. CASE l < k
    <3>1. SegmentSeq(l) + SegmentSize <= SegmentSeq(k)
      BY <2>3, <2>6, SegmentSeqs
    <3> QED BY <1>1, <1>8, <2>1, <2>2, <2>3, <3>1
  <2> QED BY <2>3, <2>4, <2>5, <2>6
<1>9. ASSUME NEW s \in Boundaries, s < StreamEnd PROVE s + SegmentSize \in Boundaries
  <2>1. PICK k \in 0..N : s = SegmentSeq(k)
    BY <1>3
  <2>2. k /= N
    BY <1>2, <1>6, <1>9, <2>1
  <2>3. k \in Nat /\ k + 1 \in 0..N
    BY <1>1, <2>1, <2>2
  <2>4. s + SegmentSize = SegmentSeq(k + 1)
    BY <2>1, <2>3, SegmentSeqs
  <2> QED BY <1>3, <2>3, <2>4
<1> QED BY <1>6, <1>7, <1>8, <1>9

-----------------------------------------------------------------------------
(***************************************************************************)
(* The SACK list                                                           *)
(***************************************************************************)

\* A SACK block is of whole segments stored after the octet expected.
BlockOK(x, next, stored) ==
    /\ x \in Boundaries \X Boundaries
    /\ next < x[1] /\ x[1] < x[2]
    /\ x[1]..(x[2] - 1) \subseteq stored

\* Two SACK blocks do not even touch.
Apart(x, y) == x[2] < y[1] \/ y[2] < x[1]

LEMMA NoOverlap ==
    ASSUME NEW a \in Nat, NEW b \in Nat, NEW c \in Nat, NEW d \in Nat,
           NEW seq \in Nat, NEW size \in Nat, size > 0,
           a <= seq, seq + size <= b, c <= seq, seq + size <= d, b < c \/ d < a
    PROVE  FALSE
OBVIOUS

SackOK(sack, next, stored) ==
    /\ sack \in Seq(Boundaries \X Boundaries) /\ Len(sack) <= MaxSackBlocks
    /\ \A i \in 1..Len(sack) : BlockOK(sack[i], next, stored)
    /\ \A i, j \in 1..Len(sack) : i /= j => Apart(sack[i], sack[j])

LEMMA PairOf ==
    ASSUME NEW x \in Boundaries \X Boundaries
    PROVE  x[1] \in Nat /\ x[2] \in Nat /\ x[1] \in Boundaries /\ x[2] \in Boundaries
<1>1. x[1] \in Boundaries /\ x[2] \in Boundaries
  OBVIOUS
<1> QED BY <1>1, Ends

LEMMA WithoutKeeps ==
    ASSUME NEW sack, NEW next, NEW stored, SackOK(sack, next, stored), NEW gone
    PROVE  /\ SackOK(Without(sack, gone), next, stored)
           /\ \A k \in 1..Len(Without(sack, gone)) : ~(Without(sack, gone)[k] \in gone)
           /\ \A k \in 1..Len(Without(sack, gone)) :
                  \E i \in 1..Len(sack) : Without(sack, gone)[k] = sack[i]
<1> DEFINE S == Boundaries \X Boundaries
           w == Without(sack, gone)
<1>1. sack \in Seq(S) /\ Len(sack) <= MaxSackBlocks /\ Len(sack) \in Nat
  BY DEF SackOK
<1>2. /\ w \in Seq(S) /\ Len(w) <= Len(sack)
      /\ \A k \in 1..Len(w) : \E i \in 1..Len(sack) : w[k] = sack[i] /\ ~(sack[i] \in gone)
      /\ \A k, l \in 1..Len(w) :
            k /= l => \E i, j \in 1..Len(sack) : i /= j /\ w[k] = sack[i] /\ w[l] = sack[j]
  <2> HIDE DEF S
  <2> QED BY <1>1, WithoutIs
<1> HIDE DEF w
<1>3. Len(w) <= MaxSackBlocks
  BY <1>1, <1>2 DEF MaxSackBlocks
<1>4. \A k \in 1..Len(w) : BlockOK(w[k], next, stored)
  BY <1>2, Zenon DEF SackOK
<1>5. ASSUME NEW k \in 1..Len(w), NEW l \in 1..Len(w), k /= l PROVE Apart(w[k], w[l])
  <2>1. PICK i, j \in 1..Len(sack) : i /= j /\ w[k] = sack[i] /\ w[l] = sack[j]
    BY <1>2, <1>5, Zenon
  <2>2. Apart(sack[i], sack[j])
    BY <2>1, Zenon DEF SackOK
  <2> QED BY <2>1, <2>2, Zenon
<1>6. SackOK(w, next, stored)
  BY <1>2, <1>3, <1>4, <1>5, Zenon DEF SackOK
<1>7. /\ \A k \in 1..Len(w) : ~(w[k] \in gone)
      /\ \A k \in 1..Len(w) : \E i \in 1..Len(sack) : w[k] = sack[i]
  BY <1>2, Zenon
<1> QED BY <1>6, <1>7 DEF w

\* The list still is right when more is stored.
LEMMA StoredMore ==
    ASSUME NEW sack, NEW next, NEW stored, SackOK(sack, next, stored),
           NEW more, stored \subseteq more
    PROVE  SackOK(sack, next, more)
BY Zenon DEF SackOK, BlockOK

\* ClearSackList leaves the blocks after the octet that is now expected.
LEMMA ClearKeeps ==
    ASSUME NEW sack, NEW next, NEW stored, SackOK(sack, next, stored),
           NEW now \in Nat, now \notin stored
    PROVE  SackOK(ClearSackList(sack, now), now, stored)
<1> DEFINE gone == {x \in ToSet(sack) : x[2] <= now}
           w == Without(sack, gone)
<1>1. /\ SackOK(w, next, stored)
      /\ \A k \in 1..Len(w) : ~(w[k] \in gone)
      /\ \A k \in 1..Len(w) : \E i \in 1..Len(sack) : w[k] = sack[i]
  <2> HIDE DEF gone
  <2> QED BY WithoutKeeps
<1>2. w = ClearSackList(sack, now)
  BY DEF ClearSackList
<1> HIDE DEF w
<1>3. ASSUME NEW k \in 1..Len(w) PROVE BlockOK(w[k], now, stored)
  <2>1. BlockOK(w[k], next, stored)
    BY <1>1, Zenon DEF SackOK
  <2>2. w[k] \in ToSet(sack)
    BY <1>1 DEF ToSet
  <2>3. ~(w[k][2] <= now)
    BY <1>1, <2>2
  <2>4. w[k][1] \in Nat /\ w[k][2] \in Nat
    BY <2>1, PairOf, Zenon DEF BlockOK
  <2>5. ~(now \in w[k][1]..(w[k][2] - 1))
    BY <2>1, Zenon DEF BlockOK
  <2>6. now < w[k][1]
    BY <2>3, <2>4, <2>5
  <2> QED BY <2>1, <2>6, Zenon DEF BlockOK
<1>4. SackOK(w, now, stored)
  BY <1>1, <1>3, Zenon DEF SackOK
<1> QED BY <1>2, <1>4, Zenon

\* UpdateSackList of whole segments not stored before.
LEMMA UpdateKeeps ==
    ASSUME NEW sack, NEW next \in Nat, NEW stored, SackOK(sack, next, stored),
           NEW left \in Boundaries, NEW right \in Boundaries, next < left, left < right,
           \A o \in left..(right - 1) : o \notin stored
    PROVE  SackOK(UpdateSackList(sack, left, right), next, stored \cup left..(right - 1))
<1> DEFINE touching == {x \in ToSet(sack) : x[2] = left \/ x[1] = right}
           lows == {left} \cup {x[1] : x \in touching}
           highs == {right} \cup {x[2] : x \in touching}
           more == stored \cup left..(right - 1)
           merged == <<Min(lows), Max(highs)>>
           w == Without(sack, touching)
           whole == <<merged>> \o w
<1>1. left \in Nat /\ right \in Nat /\ StreamEnd \in Nat
  BY Ends
<1>2. ASSUME NEW x \in ToSet(sack)
      PROVE  /\ BlockOK(x, next, stored) /\ \E i \in 1..Len(sack) : x = sack[i]
             /\ x[1] \in Nat /\ x[2] \in Nat /\ x[1] \in Boundaries /\ x[2] \in Boundaries
  <2>1. PICK i \in 1..Len(sack) : x = sack[i]
    BY DEF ToSet
  <2>2. BlockOK(x, next, stored)
    BY <2>1, Zenon DEF SackOK
  <2> QED BY <2>1, <2>2, PairOf, Zenon DEF BlockOK
<1>3. ASSUME NEW x \in touching, NEW y \in ToSet(sack), y \notin touching
      PROVE  Apart(x, y)
  <2>1. x \in ToSet(sack) /\ x /= y
    BY <1>3
  <2>2. PICK i \in 1..Len(sack) : x = sack[i]
    BY <1>2, <2>1, Zenon
  <2>3. PICK j \in 1..Len(sack) : y = sack[j]
    BY <1>2, Zenon
  <2>4. Apart(sack[i], sack[j])
    BY <2>1, <2>2, <2>3, Zenon DEF SackOK
  <2> QED BY <2>2, <2>3, <2>4, Zenon
<1>4. \A x \in touching : x \in ToSet(sack) /\ (x[2] = left \/ x[1] = right)
  OBVIOUS
<1>5. \A y \in ToSet(sack) : y \notin touching => y[2] /= left /\ y[1] /= right
  OBVIOUS
<1> HIDE DEF touching
<1>6. /\ Min(lows) \in lows /\ \A m \in lows : Min(lows) <= m
      /\ Min(lows) \in Boundaries /\ Min(lows) \in Nat
  <2>1. lows \in SUBSET Boundaries /\ lows /= {}
    BY <1>2, <1>4
  <2>2. lows \in SUBSET Nat
    BY <2>1, Ends
  <2>3. Min(lows) \in lows /\ \A m \in lows : Min(lows) <= m
    <3> HIDE DEF lows
    <3> QED BY <2>1, <2>2, MinIs
  <2> HIDE DEF lows
  <2> QED BY <2>1, <2>2, <2>3
<1>7. /\ Max(highs) \in highs /\ \A m \in highs : m <= Max(highs)
      /\ Max(highs) \in Boundaries /\ Max(highs) \in Nat
  <2>1. highs \in SUBSET Boundaries /\ highs /= {}
    BY <1>2, <1>4
  <2> HIDE DEF highs
  <2>2. \A m \in Boundaries : m \in 0..StreamEnd
    BY Ends
  <2>3. highs \in SUBSET (0..StreamEnd)
    BY <2>1, <2>2, Zenon
  <2>4. Max(highs) \in highs /\ \A m \in highs : m <= Max(highs)
    BY <1>1, <2>1, <2>3, MaxIs, Zenon
  <2>5. Max(highs) \in Boundaries
    BY <2>1, <2>4, Zenon
  <2> QED BY <2>4, <2>5, Ends, Zenon
<1> DEFINE low == Min(lows)
           high == Max(highs)
<1>8. low <= left /\ right <= high /\ low \in Nat /\ high \in Nat
  BY <1>6, <1>7
<1>9. low = left \/ \E x \in touching : low = x[1]
  BY <1>6
<1>10. high = right \/ \E x \in touching : high = x[2]
  BY <1>7
<1>11. merged = <<low, high>> /\ merged[1] = low /\ merged[2] = high
       /\ merged \in Boundaries \X Boundaries
  BY <1>6, <1>7
<1> HIDE DEF low, high
<1>12. next < low
  BY <1>1, <1>2, <1>4, <1>8, <1>9 DEF BlockOK
<1>13. ASSUME NEW o \in low..(high - 1) PROVE o \in more
  <2>1. o \in Nat /\ low <= o /\ o < high
    BY <1>8
  <2>2. CASE o < left
    <3>1. PICK x \in touching : low = x[1]
      BY <1>1, <1>9, <2>1, <2>2
    <3>2. x[2] = left /\ x[1] \in Nat
      BY <1>1, <1>2, <1>4, <1>8, <3>1
    <3>3. o \in x[1]..(x[2] - 1)
      BY <1>1, <2>1, <2>2, <3>1, <3>2
    <3> QED BY <1>2, <1>4, <3>3 DEF BlockOK
  <2>3. CASE left <= o /\ o < right
    BY <1>1, <2>1, <2>3
  <2>4. CASE right <= o
    <3>1. PICK x \in touching : high = x[2]
      BY <1>1, <1>10, <2>1, <2>4
    <3>2. x[1] = right /\ x[2] \in Nat
      BY <1>1, <1>2, <1>4, <1>8, <3>1
    <3>3. o \in x[1]..(x[2] - 1)
      BY <1>1, <2>1, <2>4, <3>1, <3>2
    <3> QED BY <1>2, <1>4, <3>3 DEF BlockOK
  <2> QED BY <1>1, <2>1, <2>2, <2>3, <2>4
<1>14. BlockOK(merged, next, more)
  <2>1. low < high
    BY <1>1, <1>8
  <2> QED BY <1>11, <1>12, <1>13, <2>1, Zenon DEF BlockOK
<1>15. /\ SackOK(w, next, stored)
       /\ \A k \in 1..Len(w) : ~(w[k] \in touching)
       /\ \A k \in 1..Len(w) : \E i \in 1..Len(sack) : w[k] = sack[i]
  BY WithoutKeeps
<1>16. SackOK(w, next, more)
  BY <1>15, StoredMore
<1> HIDE DEF w, merged, lows, highs
<1>17. ASSUME NEW k \in 1..Len(w) PROVE Apart(merged, w[k])
  <2> DEFINE y == w[k]
  <2>1. y \in ToSet(sack) /\ y \notin touching
    BY <1>15 DEF ToSet
  <2>2. /\ y[1] \in Nat /\ y[2] \in Nat /\ y[2] /= left /\ y[1] /= right
        /\ y[1] < y[2] /\ y[1]..(y[2] - 1) \subseteq stored
    BY <1>2, <1>5, <2>1 DEF BlockOK
  <2>3. \A x \in touching : Apart(x, y)
    BY <1>3, <2>1
  <2> HIDE DEF y
  <2>4. y[2] < left \/ right < y[1]
    <3> SUFFICES ASSUME left < y[2], y[1] < right PROVE FALSE
      BY <1>1, <2>2
    <3>1. \E o \in Nat : o \in left..(right - 1) /\ o \in y[1]..(y[2] - 1)
      <4>1. CASE y[1] <= left
        BY <1>1, <2>2, <4>1
      <4>2. CASE left <= y[1]
        BY <1>1, <2>2, <4>2
      <4> QED BY <1>1, <2>2, <4>1, <4>2
    <3> QED BY <2>2, <3>1
  <2>5. CASE y[2] < left
    <3>1. ASSUME NEW x \in touching, low = x[1] PROVE y[2] < low
      <4>1. x[1] \in Nat /\ x[2] \in Nat /\ x[2] = left
        BY <1>1, <1>2, <1>4, <1>8, <3>1
      <4>2. Apart(x, y)
        BY <2>3
      <4> QED BY <1>1, <2>2, <2>5, <3>1, <4>1, <4>2 DEF Apart
    <3>2. y[2] < low
      BY <1>9, <2>5, <3>1
    <3> QED BY <1>11, <3>2 DEF Apart, y
  <2>6. CASE right < y[1]
    <3>1. ASSUME NEW x \in touching, high = x[2] PROVE high < y[1]
      <4>1. x[1] \in Nat /\ x[2] \in Nat /\ x[1] = right
        BY <1>1, <1>2, <1>4, <1>8, <3>1
      <4>2. Apart(x, y)
        BY <2>3
      <4> QED BY <1>1, <2>2, <2>6, <3>1, <4>1, <4>2 DEF Apart
    <3>2. high < y[1]
      BY <1>10, <2>6, <3>1
    <3> QED BY <1>11, <3>2 DEF Apart, y
  <2> QED BY <2>4, <2>5, <2>6, Zenon
<1>18. w \in Seq(Boundaries \X Boundaries) /\ Len(w) \in Nat
  BY <1>16 DEF SackOK
<1>19. /\ whole \in Seq(Boundaries \X Boundaries) /\ Len(whole) = Len(w) + 1
       /\ whole[1] = merged /\ \A k \in 2..Len(whole) : k - 1 \in 1..Len(w) /\ whole[k] = w[k - 1]
  BY <1>11, <1>18
<1> HIDE DEF whole
<1> DEFINE n == Smaller(Len(whole), MaxSackBlocks)
           some == SubSeq(whole, 1, n)
<1>20. UpdateSackList(sack, left, right) = some
  BY Zenon DEF UpdateSackList, some, whole, w, merged, lows, highs, touching
<1>21. n \in Nat /\ n <= MaxSackBlocks /\ n <= Len(whole)
  BY <1>18, <1>19 DEF Smaller, MaxSackBlocks
<1> HIDE DEF n
<1>22. /\ some \in Seq(Boundaries \X Boundaries) /\ Len(some) = n
       /\ \A k \in 1..n : some[k] = whole[k] /\ k \in 1..Len(whole)
  <2>1. \A k \in 1..n : k \in 1..Len(whole)
    BY <1>18, <1>19, <1>21
  <2>2. Len(some) = n /\ \A k \in 1..n : some[k] = whole[k]
    BY <1>19, <1>21
  <2>3. some \in Seq(Boundaries \X Boundaries)
    BY <1>18, <1>19, <1>21
  <2> QED BY <2>1, <2>2, <2>3
<1> HIDE DEF some
<1>23. \A k \in 1..Len(whole) : k = 1 \/ k \in 2..Len(whole)
  BY <1>18, <1>19
<1>24. ASSUME NEW k \in 1..n PROVE BlockOK(some[k], next, more)
  <2>1. CASE k = 1
    BY <1>14, <1>19, <1>22, <2>1, Zenon
  <2>2. CASE k \in 2..Len(whole)
    <3>1. BlockOK(w[k - 1], next, more)
      BY <1>16, <1>19, <2>2, Zenon DEF SackOK
    <3> QED BY <1>19, <1>22, <2>2, <3>1, Zenon
  <2> QED BY <1>22, <1>23, <2>1, <2>2, Zenon
<1>25. ASSUME NEW k \in 1..n, NEW l \in 1..n, k /= l PROVE Apart(some[k], some[l])
  <2>1. CASE k = 1
    <3>1. l \in 2..Len(whole)
      BY <1>22, <1>23, <1>25, <2>1
    <3>2. Apart(merged, w[l - 1])
      BY <1>17, <1>19, <3>1, Zenon
    <3> QED BY <1>19, <1>22, <2>1, <3>1, <3>2, Zenon
  <2>2. CASE l = 1
    <3>1. k \in 2..Len(whole)
      BY <1>22, <1>23, <1>25, <2>2
    <3>2. Apart(merged, w[k - 1])
      BY <1>17, <1>19, <3>1, Zenon
    <3>3. Apart(w[k - 1], merged)
      BY <3>2, Zenon DEF Apart
    <3> QED BY <1>19, <1>22, <2>2, <3>1, <3>3, Zenon
  <2>3. CASE k \in 2..Len(whole) /\ l \in 2..Len(whole)
    <3>1. k - 1 \in 1..Len(w) /\ l - 1 \in 1..Len(w) /\ k - 1 /= l - 1
      BY <1>19, <1>25, <2>3
    <3>2. Apart(w[k - 1], w[l - 1])
      BY <1>16, <3>1, Zenon DEF SackOK
    <3> QED BY <1>19, <1>22, <2>3, <3>2, Zenon
  <2> QED BY <1>22, <1>23, <2>1, <2>2, <2>3, Zenon
<1>26. SackOK(some, next, more)
  BY <1>21, <1>22, <1>24, <1>25, Zenon DEF SackOK
<1> QED BY <1>20, <1>26, Zenon

-----------------------------------------------------------------------------
(***************************************************************************)
(* The buffer                                                              *)
(***************************************************************************)
Pairs == Boundaries \X Boundaries

\* Where data is stored after the octet expected, the whole segment is.
WholeSegments(next, stored) ==
    \A o \in stored :
        o > next => \E s \in Boundaries :
                        s > next /\ o \in Octets(s) /\ Octets(s) \subseteq stored

BufferOK(b) ==
    /\ b \in [next : 1..StreamEnd, stored : SUBSET (1..(StreamEnd - 1)), sack : Seq(Pairs)]
    /\ 1..(b.next - 1) \subseteq b.stored /\ b.next \notin b.stored
    /\ WholeSegments(b.next, b.stored)
    /\ SackOK(b.sack, b.next, b.stored)

\* A segment of the transfer, or one that begins with octets received.
Fits(b, seq) ==
    /\ seq \in Nat /\ seq + SegmentSize <= StreamEnd
    /\ seq \in Boundaries \/ seq <= b.next

\* What Add stores, and where that leaves the octet expected.
LEMMA NextIs ==
    ASSUME NEW next \in 1..StreamEnd, NEW stored \in SUBSET (1..(StreamEnd - 1)),
           1..(next - 1) \subseteq stored
    PROVE  LET now == NextRxSeq(stored, next)
           IN  /\ now \in 1..StreamEnd /\ next <= now
               /\ 1..(now - 1) \subseteq stored /\ now \notin stored
<1> DEFINE free == {o \in next..(StreamEnd + 1) : o \notin stored}
           now == Min(free)
<1>1. StreamEnd \in Nat /\ next \in Nat /\ 1 <= next /\ next <= StreamEnd
  BY Ends
<1>2. StreamEnd \in free
  BY <1>1
<1>3. free \in SUBSET Nat
  BY <1>1
<1>4. \A o \in next..(StreamEnd + 1) : o \notin free => o \in stored
  OBVIOUS
<1>5. \A o \in free : o \in Nat /\ next <= o /\ o \notin stored
  BY <1>1
<1> HIDE DEF free
<1>6. now \in free /\ \A m \in free : now <= m
  BY <1>2, <1>3, MinIs, Zenon
<1>7. now = NextRxSeq(stored, next)
  BY DEF NextRxSeq, free
<1> HIDE DEF now
<1>8. now \in Nat /\ next <= now /\ now <= StreamEnd /\ now \notin stored
  BY <1>2, <1>5, <1>6
<1>9. ASSUME NEW o \in 1..(now - 1) PROVE o \in stored
  <2>1. CASE o < next
    BY <1>1, <1>8, <2>1
  <2>2. CASE next <= o
    <3>1. o \in next..(StreamEnd + 1) /\ ~(now <= o)
      BY <1>1, <1>8, <2>2
    <3> QED BY <1>4, <1>6, <3>1, Zenon
  <2> QED BY <1>1, <1>8, <2>1, <2>2
<1>10. now \in 1..StreamEnd
  BY <1>1, <1>8
<1> QED BY <1>7, <1>8, <1>9, <1>10, Zenon

LEMMA AddKeeps ==
    ASSUME NEW b, BufferOK(b), NEW seq, Fits(b, seq)
    PROVE  /\ BufferOK(Add(b, seq))
           /\ b.next <= Add(b, seq).next
           /\ Add(b, seq).stored = b.stored \cup {o \in Octets(seq) : o >= 1}
<1> DEFINE new == {o \in Octets(seq) : o >= b.next} \ b.stored
           left == Min(new)
           right == Max(new) + 1
           stored == b.stored \cup new
           now == NextRxSeq(stored, b.next)
           sack == IF left > b.next THEN UpdateSackList(b.sack, left, right) ELSE b.sack
           clear == ClearSackList(sack, now)
<1>1. /\ StreamEnd \in Nat /\ SegmentSize \in Nat /\ SegmentSize > 0 /\ seq \in Nat
      /\ seq + SegmentSize <= StreamEnd
  BY Ends, FecSegmentsAssumption DEF Fits
<1>2. /\ b.next \in Nat /\ 1 <= b.next /\ b.next <= StreamEnd
      /\ b.next \notin b.stored /\ 1..(b.next - 1) \subseteq b.stored
      /\ b.stored \in SUBSET (1..(StreamEnd - 1)) /\ b.sack \in Seq(Pairs)
  BY <1>1 DEF BufferOK
<1>3. WholeSegments(b.next, b.stored) /\ SackOK(b.sack, b.next, b.stored)
  BY DEF BufferOK
<1>4. \A o : o \in Octets(seq) <=> o \in Nat /\ seq <= o /\ o < seq + SegmentSize
  BY <1>1 DEF Octets
<1>5. stored = b.stored \cup {o \in Octets(seq) : o >= 1}
  BY <1>1, <1>2, <1>4
<1>6. stored \in SUBSET (1..(StreamEnd - 1))
  BY <1>1, <1>2, <1>4
<1>7. CASE new = {}
  <2>1. Add(b, seq) = b
    BY <1>7 DEF Add
  <2>2. b.stored = stored
    BY <1>7
  <2> QED BY <1>2, <1>5, <2>1, <2>2
<1>8. CASE new /= {}
  <2>1. Add(b, seq) = [next |-> now, stored |-> stored, sack |-> clear]
    BY <1>8, Zenon DEF Add
  <2>2. \A o \in new : o \in Nat /\ o \in Octets(seq) /\ b.next <= o /\ o \notin b.stored
    BY <1>1, <1>2, <1>4
  <2>3. \A o \in Octets(seq) : b.next <= o => o \in stored
    BY <1>1, <1>2, <1>4
  <2>4. \A o \in stored : o \in b.stored \/ o \in new
    OBVIOUS
  <2>5. b.stored \subseteq stored
    OBVIOUS
  <2> HIDE DEF new
  <2>6. left \in new /\ \A m \in new : left <= m
    <3>1. new \in SUBSET Nat
      BY <2>2
    <3> QED BY <1>8, <3>1, MinIs, Zenon
  <2> HIDE DEF stored
  <2>7. /\ now \in 1..StreamEnd /\ b.next <= now
        /\ 1..(now - 1) \subseteq stored /\ now \notin stored
    <3>1. b.next \in 1..StreamEnd /\ 1..(b.next - 1) \subseteq stored
      BY <1>1, <1>2, <2>5
    <3> QED BY <1>6, <3>1, NextIs, Zenon
  <2> HIDE DEF now
  <2>8. now \in Nat
    BY <1>1, <2>7
  <2>9. ASSUME NEW s \in Boundaries, NEW o \in Octets(s), Octets(s) \subseteq stored, o > now
        PROVE  s > now
    <3>1. s \in Nat
      BY Ends
    <3>2. o \in Nat /\ s <= o /\ o < s + SegmentSize
      BY <1>1, <3>1 DEF Octets
    <3>3. s <= now => now \in Octets(s)
      BY <1>1, <2>8, <2>9, <3>1, <3>2 DEF Octets
    <3> QED BY <2>7, <2>8, <2>9, <3>1, <3>3
  <2>10. WholeSegments(now, stored)
    <3> SUFFICES ASSUME NEW o \in stored, o > now
                 PROVE  \E s \in Boundaries : s > now /\ o \in Octets(s) /\ Octets(s) \subseteq stored
      BY DEF WholeSegments
    <3>0. o \in Nat /\ o > b.next
      BY <1>1, <1>2, <1>6, <2>7, <2>8
    <3>1. CASE o \in b.stored
      <4>1. PICK s \in Boundaries : o \in Octets(s) /\ Octets(s) \subseteq b.stored
        BY <1>3, <3>0, <3>1 DEF WholeSegments
      <4>2. Octets(s) \subseteq stored
        BY <2>5, <4>1
      <4> QED BY <2>9, <4>1, <4>2
    <3>2. CASE o \in new
      <4>1. o \in Octets(seq) /\ seq <= o /\ o < seq + SegmentSize
        BY <1>4, <2>2, <3>2
      <4>2. CASE seq <= b.next
        <5>1. now \in Octets(seq)
          BY <1>1, <1>2, <1>4, <2>7, <2>8, <3>0, <4>1, <4>2
        <5> QED BY <2>3, <2>7, <5>1
      <4>3. CASE seq > b.next
        <5>1. seq \in Boundaries
          BY <1>1, <1>2, <4>3 DEF Fits
        <5>2. Octets(seq) \subseteq stored
          BY <1>1, <1>2, <1>4, <2>3, <4>3
        <5> QED BY <2>9, <4>1, <5>1, <5>2
      <4> QED BY <1>1, <1>2, <4>2, <4>3
    <3> QED BY <2>4, <3>1, <3>2
  <2>11. ASSUME left > b.next
         PROVE  /\ left = seq /\ right = seq + SegmentSize /\ stored = b.stored \cup left..(right - 1)
                /\ left \in Boundaries /\ right \in Boundaries
                /\ \A o \in left..(right - 1) : o \notin b.stored
    <3>1. left \in Nat /\ left \in Octets(seq)
      BY <2>2, <2>6
    <3>2. seq > b.next
      <4> SUFFICES ASSUME seq <= b.next PROVE FALSE
        BY <1>1, <1>2
      <4>1. b.next \in Octets(seq)
        BY <1>1, <1>2, <1>4, <2>11, <3>1
      <4>2. b.next \in new
        BY <1>2, <4>1 DEF new
      <4> QED BY <1>2, <2>6, <2>11, <3>1, <4>2
    <3>3. seq \in Boundaries
      BY <1>1, <1>2, <3>2 DEF Fits
    <3>4. seq + SegmentSize \in Boundaries
      BY <1>1, <3>3, Ends
    <3>5. \A o \in Octets(seq) : o \notin b.stored
      <4> SUFFICES ASSUME NEW o \in Octets(seq), o \in b.stored PROVE FALSE
        OBVIOUS
      <4>1. o \in Nat /\ o > b.next /\ seq <= o /\ o < seq + SegmentSize
        BY <1>1, <1>2, <1>4, <3>2
      <4>2. PICK s \in Boundaries : o \in Octets(s) /\ Octets(s) \subseteq b.stored
        BY <1>3, <4>1 DEF WholeSegments
      <4>3. s \in Nat
        BY Ends
      <4>4. s <= o /\ o < s + SegmentSize
        BY <1>1, <4>2, <4>3 DEF Octets
      <4>5. s = seq
        <5>1. ~(s < seq)
          BY <1>1, <3>3, <4>1, <4>3, <4>4, Ends
        <5>2. ~(seq < s)
          BY <1>1, <3>3, <4>1, <4>3, <4>4, Ends
        <5> QED BY <1>1, <4>3, <5>1, <5>2
      <4> QED BY <2>2, <3>1, <2>6, <4>2, <4>5
    <3>6. new = Octets(seq)
      BY <1>1, <1>2, <1>4, <3>2, <3>5 DEF new
    <3>7. left = seq
      <4>1. seq \in new
        BY <1>1, <1>4, <3>6
      <4>2. left <= seq
        BY <2>6, <4>1
      <4> QED BY <1>1, <1>4, <3>1, <4>2
    <3>8. right = seq + SegmentSize
      <4> DEFINE last == seq + SegmentSize - 1
                 max == Max(new)
      <4>1. new \in SUBSET (0..StreamEnd)
        BY <1>1, <1>4, <3>6
      <4>2. max \in new /\ \A m \in new : m <= max
        BY <1>1, <1>8, <4>1, MaxIs, Zenon
      <4> HIDE DEF max
      <4>3. last \in new /\ last \in Nat
        BY <1>1, <1>4, <3>6
      <4>4. last <= max
        BY <4>2, <4>3, Zenon
      <4>5. max \in Nat /\ max <= last
        BY <1>1, <1>4, <3>6, <4>2
      <4>6. max = last
        BY <4>3, <4>4, <4>5
      <4> QED BY <1>1, <4>6 DEF max
    <3> HIDE DEF left, right
    <3>9. left..(right - 1) = Octets(seq)
      <4>1. left = seq /\ right - 1 = seq + SegmentSize - 1
        BY <1>1, <3>7, <3>8
      <4> QED BY <4>1, Zenon DEF Octets
    <3>10. stored = b.stored \cup left..(right - 1)
      BY <3>6, <3>9 DEF stored
    <3> QED BY <3>3, <3>4, <3>5, <3>7, <3>8, <3>9, <3>10
  <2>12. SackOK(sack, b.next, stored)
    <3>1. CASE left > b.next
      <4>1. sack = UpdateSackList(b.sack, left, right)
        BY <3>1
      <4> HIDE DEF left, right, sack
      <4>2. /\ left \in Boundaries /\ right \in Boundaries /\ left < right
            /\ b.next < left
        BY <1>1, <1>2, <2>11, <3>1
      <4>3. SackOK(UpdateSackList(b.sack, left, right), b.next, b.stored \cup left..(right - 1))
        BY <1>2, <1>3, <2>11, <3>1, <4>2, UpdateKeeps, Zenon
      <4> QED BY <2>11, <3>1, <4>1, <4>3, Zenon
    <3>2. CASE ~(left > b.next)
      <4>1. sack = b.sack
        BY <3>2
      <4> HIDE DEF left, right, sack
      <4> QED BY <1>3, <2>5, <4>1, StoredMore, Zenon
    <3> QED BY <3>1, <3>2
  <2> HIDE DEF sack, left, right
  <2>13. SackOK(clear, now, stored)
    BY <2>7, <2>8, <2>12, ClearKeeps, Zenon
  <2>14. clear \in Seq(Pairs)
    BY <2>13, Zenon DEF SackOK, Pairs
  <2> HIDE DEF clear
  <2> DEFINE a == [next |-> now, stored |-> stored, sack |-> clear]
  <2>15. a.next = now /\ a.stored = stored /\ a.sack = clear
    OBVIOUS
  <2>16. a \in [next : 1..StreamEnd, stored : SUBSET (1..(StreamEnd - 1)), sack : Seq(Pairs)]
    BY <1>6, <2>7, <2>14
  <2> HIDE DEF a
  <2>17. BufferOK(a)
    BY <2>7, <2>10, <2>13, <2>15, <2>16, Zenon DEF BufferOK
  <2> QED BY <1>5, <2>1, <2>7, <2>15, <2>17, Zenon DEF a, stored
<1> QED BY <1>7, <1>8

-----------------------------------------------------------------------------
(***************************************************************************)
(* Packets of the path, and blocks                                         *)
(***************************************************************************)
LEMMA Sizes ==
    /\ SegmentSize \in Nat /\ SegmentSize > 0 /\ BlockSegments \in Nat /\ BlockSegments > 0
    /\ Blocks \in Nat /\ Blocks > 0 /\ WordValues \in Nat /\ WordValues > 0
    /\ WordValues > BlockSegments * SegmentSize
<1>1. /\ SegmentSize \in Nat /\ SegmentSize > 0 /\ BlockSegments \in Nat /\ BlockSegments > 0
      /\ Blocks \in Nat /\ Blocks > 0 /\ WordValues \in Nat
      /\ WordValues > BlockSegments * SegmentSize
  BY FecSegmentsAssumption, FecReceiverAssumption
<1>2. BlockSegments * SegmentSize \in Nat
  BY <1>1, Products
<1> QED BY <1>1, <1>2

LEMMA TurnIs ==
    ASSUME NEW t \in Nat
    PROVE  /\ BlockOf(t) \in Nat /\ t % (BlockSegments + 1) \in 0..BlockSegments
           /\ t = BlockOf(t) * (BlockSegments + 1) + (t % (BlockSegments + 1))
<1> DEFINE m == BlockSegments + 1
<1>1. m \in Nat /\ m > 0
  BY Sizes
<1>2. BlockOf(t) = t \div m
  BY DEF BlockOf
<1> HIDE DEF m
<1>3. t \div m \in Nat /\ t = (t \div m) * m + (t % m)
  BY <1>1
<1>5. t % m \in 0..(m - 1)
  BY <1>1
<1>4. m - 1 = BlockSegments
  BY Sizes DEF m
<1> QED BY <1>2, <1>3, <1>4, <1>5 DEF m

\* What a packet of the path is.
LEMMA Turns ==
    ASSUME NEW t \in Nat
    PROVE  /\ \A n \in Nat : t < (n + 1) * (BlockSegments + 1) => BlockOf(t) <= n
           /\ IsRepair(t) => t + 1 = (BlockOf(t) + 1) * (BlockSegments + 1)
           /\ ~IsRepair(t) => /\ SegmentOf(t) \in Nat
                             /\ BlockOf(t) * BlockSegments <= SegmentOf(t)
                             /\ SegmentOf(t) < (BlockOf(t) + 1) * BlockSegments
<1> DEFINE q == BlockOf(t)
           m == BlockSegments + 1
           r == t % m
<1>1. q \in Nat /\ r \in 0..BlockSegments /\ t = q * m + r /\ m \in Nat
  BY TurnIs, Sizes
<1>2. IsRepair(t) <=> r = BlockSegments
  BY DEF IsRepair
<1>3. SegmentOf(t) = q * BlockSegments + r
  BY DEF SegmentOf
<1> HIDE DEF q, r
<1>4. /\ q * m \in Nat /\ (q + 1) * m = q * m + m
      /\ q * BlockSegments \in Nat /\ (q + 1) * BlockSegments = q * BlockSegments + BlockSegments
  BY <1>1, Sizes, Products
<1>5. ASSUME NEW n \in Nat, t < (n + 1) * m PROVE q <= n
  <2> SUFFICES ASSUME n + 1 <= q PROVE FALSE
    BY <1>1
  <2>1. (n + 1) * m <= q * m
    <3>1. CASE n + 1 = q
      BY <1>4, <3>1
    <3>2. CASE n + 1 < q
      <4>1. (n + 1) * m + m <= q * m /\ (n + 1) * m \in Nat
        BY <1>1, <3>2, Products
      <4> QED BY <1>1, <1>4, <4>1
    <3> QED BY <1>1, <3>1, <3>2
  <2>2. (n + 1) * m \in Nat
    BY <1>1, Products
  <2> QED BY <1>1, <1>4, <1>5, <2>1, <2>2
<1>6. ASSUME r = BlockSegments PROVE t + 1 = (q + 1) * m
  BY <1>1, <1>4, <1>6, Sizes
<1>7. ASSUME r /= BlockSegments
      PROVE  /\ SegmentOf(t) \in Nat /\ q * BlockSegments <= SegmentOf(t)
             /\ SegmentOf(t) < (q + 1) * BlockSegments
  <2> HIDE DEF m
  <2> QED BY <1>1, <1>3, <1>4, <1>7, Sizes
<1> QED BY <1>2, <1>5, <1>6, <1>7 DEF q, m

\* The segments of the transfer.
LEMMA SegmentBounds ==
    ASSUME NEW k \in Nat, k < Blocks * BlockSegments
    PROVE  /\ SegmentSeq(k) \in Boundaries /\ SegmentSeq(k) + SegmentSize <= StreamEnd
           /\ Octets(SegmentSeq(k)) \subseteq 1..(StreamEnd - 1)
           /\ \A b : Fits(b, SegmentSeq(k))
<1> DEFINE N == Blocks * BlockSegments
           s == SegmentSeq(k)
<1>1. N \in Nat
  BY Sizes, Products
<1>2. s \in Boundaries
  BY <1>1 DEF Boundaries
<1>3. StreamEnd = SegmentSeq(N)
  BY DEF StreamEnd
<1> HIDE DEF N
<1>4. s + SegmentSize <= StreamEnd
  BY <1>1, <1>3, SegmentSeqs DEF N
<1>5. s \in Nat /\ 1 <= s /\ StreamEnd \in Nat
  BY <1>2, Ends
<1> HIDE DEF s
<1>6. Octets(s) \subseteq 1..(StreamEnd - 1)
  BY <1>4, <1>5, Sizes DEF Octets
<1>7. \A b : Fits(b, s)
  BY <1>2, <1>4, <1>5 DEF Fits
<1> QED BY <1>2, <1>4, <1>6, <1>7 DEF s

\* A block is some segments of the transfer, at least one.
LEMMA BlockIs ==
    ASSUME NEW n \in Nat, n < Blocks
    PROVE  /\ BlockStart(n) \in Boundaries /\ BlockEnd(n) \in Boundaries
           /\ BlockStart(n) + SegmentSize <= BlockEnd(n)
           /\ \A m \in Nat : m < n => BlockEnd(m) <= BlockStart(n)
           /\ \A s \in Block(n) : \E k \in Nat : /\ k < Blocks * BlockSegments /\ s = SegmentSeq(k)
                                              /\ BlockStart(n) <= s
                                              /\ s + SegmentSize <= BlockEnd(n)
<1> DEFINE N == Blocks * BlockSegments
           first == n * BlockSegments
           last == (n + 1) * BlockSegments
<1>1. /\ first \in Nat /\ last = first + BlockSegments /\ last \in Nat
      /\ N \in Nat /\ BlockSegments \in Nat /\ BlockSegments > 0
  BY Sizes, Products
<1>2. last <= N
  <2>1. CASE n + 1 = Blocks
    BY <2>1, <1>1
  <2>2. CASE n + 1 < Blocks
    <3>1. last + BlockSegments <= N
      BY <2>2, Sizes, Products
    <3> QED BY <1>1, <3>1
  <2> QED BY <2>1, <2>2, Sizes
<1>3. BlockStart(n) = SegmentSeq(first) /\ BlockEnd(n) = SegmentSeq(last)
  BY DEF BlockStart, BlockEnd
<1>4. \A m \in Nat : BlockEnd(m) = SegmentSeq((m + 1) * BlockSegments)
  BY DEF BlockEnd
<1>5. ASSUME NEW m \in Nat, m < n PROVE BlockEnd(m) <= BlockStart(n)
  <2> DEFINE e == (m + 1) * BlockSegments
  <2>1. e \in Nat /\ e <= first
    <3>1. e \in Nat
      BY <1>1, Products
    <3>2. CASE m + 1 = n
      BY <1>1, <3>2
    <3>3. CASE m + 1 < n
      <4>1. e + BlockSegments <= first
        BY <1>1, <3>3, Products
      <4> QED BY <1>1, <3>1, <4>1
    <3> QED BY <1>5, <3>1, <3>2, <3>3
  <2>2. BlockEnd(m) = SegmentSeq(e)
    BY <1>4
  <2> HIDE DEF e, first
  <2>3. CASE e = first
    <3>1. BlockEnd(m) = BlockStart(n)
      BY <1>3, <2>2, <2>3
    <3>2. SegmentSeq(first) \in Nat
      BY <1>1, SegmentSeqs
    <3> QED BY <1>3, <3>1, <3>2
  <2>4. CASE e < first
    <3>1. SegmentSeq(e) + SegmentSize <= SegmentSeq(first)
      BY <1>1, <2>1, <2>4, SegmentSeqs
    <3>2. SegmentSeq(e) \in Nat /\ SegmentSeq(first) \in Nat
      BY <1>1, <2>1, SegmentSeqs
    <3> QED BY <1>3, <2>2, <3>1, <3>2, Sizes
  <2> QED BY <1>1, <2>1, <2>3, <2>4
<1>6. ASSUME NEW s \in Block(n)
      PROVE  \E k \in Nat : /\ k < N /\ s = SegmentSeq(k)
                         /\ BlockStart(n) <= s /\ s + SegmentSize <= BlockEnd(n)
  <2>1. PICK k \in first..(last - 1) : s = SegmentSeq(k)
    BY DEF Block
  <2> HIDE DEF first, last, N
  <2>2. k \in Nat /\ k < N /\ first <= k /\ k < last
    BY <1>1, <1>2, <2>1
  <2>3. SegmentSeq(k) + SegmentSize <= SegmentSeq(last)
    BY <1>1, <2>2, SegmentSeqs
  <2>4. SegmentSeq(first) <= SegmentSeq(k)
    <3>1. SegmentSeq(k) \in Nat /\ SegmentSeq(first) \in Nat
      BY <1>1, <2>2, SegmentSeqs
    <3>2. CASE first = k
      BY <3>1, <3>2
    <3>3. CASE first < k
      <4>1. SegmentSeq(first) + SegmentSize <= SegmentSeq(k)
        BY <1>1, <2>2, <3>3, SegmentSeqs
      <4> QED BY <3>1, <4>1, Sizes
    <3> QED BY <1>1, <2>2, <3>2, <3>3
  <2> QED BY <1>3, <2>1, <2>2, <2>3, <2>4
<1>7. first \in 0..N /\ last \in 0..N
  BY <1>1, <1>2
<1> HIDE DEF first, last
<1>8. BlockStart(n) \in Boundaries /\ BlockEnd(n) \in Boundaries
  BY <1>3, <1>7 DEF Boundaries
<1>9. BlockStart(n) + SegmentSize <= BlockEnd(n)
  BY <1>1, <1>3, SegmentSeqs
<1> QED BY <1>5, <1>6, <1>8, <1>9

-----------------------------------------------------------------------------
(***************************************************************************)
(* What a repair packet finds                                              *)
(***************************************************************************)
LEMMA NSegIs ==
    ASSUME NEW x \in Pairs, NEW start \in Nat, NEW end \in Nat
    PROVE  NSeg(x, start, end) \in Nat
<1>1. x[1] \in Nat /\ x[2] \in Nat
  BY PairOf DEF Pairs
<1>2. RightEdge(x, end) \in Nat /\ LeftEdge(x, start) \in Nat
  BY <1>1 DEF RightEdge, LeftEdge, Smaller, Larger
<1> DEFINE d == RightEdge(x, end) - LeftEdge(x, start)
<1>3. d \in Int
  BY <1>2
<1> HIDE DEF d
<1>4. d % WordValues \in Nat
  BY <1>3, Sizes
<1>5. (d % WordValues) \div SegmentSize \in Nat
  BY <1>4, Sizes
<1> QED BY <1>5 DEF NSeg, d

\* Covered adds up the segments of the blocks of the list.
LEMMA CoveredIs ==
    ASSUME BufferOK(rxBuffer), NEW start \in Nat, NEW end \in Nat
    PROVE  \E f \in [0..Len(rxBuffer.sack) -> Nat] :
              /\ f[0] = 0 /\ Covered(start, end) = f[Len(rxBuffer.sack)]
              /\ \A i \in 1..Len(rxBuffer.sack) :
                    f[i] = f[i - 1] + NSeg(rxBuffer.sack[i], start, end)
<1> DEFINE sack == rxBuffer.sack
           n == Len(sack)
           D == 0..n
           body(g) == [i \in D |-> IF i = 0 THEN 0 ELSE g[i - 1] + NSeg(sack[i], start, end)]
           step == [p \in Nat \X (1..n) |-> p[1] + NSeg(sack[p[2]], start, end)]
           count == CHOOSE g : g = body(g)
<1>1. n \in Nat /\ \A i \in 1..n : sack[i] \in Pairs
  <2>1. sack \in Seq(Pairs)
    BY DEF BufferOK
  <2> QED BY <2>1
<1>2. Covered(start, end) = count[n]
  BY DEF Covered
<1> HIDE DEF n, sack
<1>3. \A i \in 1..n : NSeg(sack[i], start, end) \in Nat
  BY <1>1, NSegIs
<1>4. step \in [Nat \X (1..n) -> Nat]
  <2> SUFFICES ASSUME NEW p \in Nat \X (1..n)
               PROVE  p[1] + NSeg(sack[p[2]], start, end) \in Nat
    OBVIOUS
  <2>1. p[1] \in Nat /\ p[2] \in 1..n
    OBVIOUS
  <2> QED BY <1>3, <2>1
<1>5. \A q \in Nat, i \in 1..n : step[<<q, i>>] = q + NSeg(sack[i], start, end)
  OBVIOUS
<1> HIDE DEF step
<1>6. PICK f : Results(f, Nat, n, 0, step)
  BY <1>1, <1>4, Iterated
<1>7. f \in [0..n -> Nat] /\ f[0] = 0 /\ \A i \in 1..n : f[i] = step[<<f[i - 1], i>>]
  BY <1>6, Zenon DEF Results
<1>8. ASSUME NEW i \in 1..n PROVE f[i] = f[i - 1] + NSeg(sack[i], start, end)
  <2>1. i - 1 \in 0..n
    BY <1>1
  <2>2. f[i - 1] \in Nat
    BY <1>7, <2>1
  <2> QED BY <1>5, <1>7, <2>2
<1>9. count = body(count)
  <2>1. f = body(f)
    <3>1. \A i \in D : i = 0 \/ i \in 1..n
      BY <1>1
    <3> QED BY <1>7, <1>8, <3>1
  <2> HIDE DEF body
  <2> QED BY <2>1
<1> HIDE DEF count
<1>10. count[0] = 0 /\ \A i \in 1..n : count[i] = count[i - 1] + NSeg(sack[i], start, end)
  <2>1. 0 \in D /\ \A i \in 1..n : i \in D /\ i /= 0
    BY <1>1
  <2> HIDE DEF D
  <2> QED BY <1>9, <2>1
<1>11. ASSUME NEW i \in 0..n PROVE count[i] = f[i]
  <2> DEFINE T == {k \in 0..n : count[k] /= f[k]}
  <2> SUFFICES ASSUME T /= {} PROVE FALSE
    OBVIOUS
  <2>1. PICK k \in T : \A m \in T : k <= m
    <3>1. T \in SUBSET Nat
      BY <1>1
    <3> QED BY <3>1, Least
  <2>2. k \in 0..n /\ k /= 0
    BY <1>7, <1>10, <2>1
  <2>3. k \in 1..n /\ k - 1 \in 0..n /\ ~(k <= k - 1)
    BY <1>1, <2>2
  <2>4. count[k - 1] = f[k - 1]
    BY <2>1, <2>3
  <2> QED BY <1>8, <1>10, <2>1, <2>3, <2>4
<1>12. n \in 0..n
  BY <1>1
<1>13. /\ f[0] = 0 /\ Covered(start, end) = f[n]
       /\ \A i \in 1..n : f[i] = f[i - 1] + NSeg(sack[i], start, end)
  BY <1>2, <1>7, <1>8, <1>11, <1>12
<1> QED BY <1>7, <1>13 DEF n, sack

LEMMA UncoveredIs ==
    ASSUME BufferOK(rxBuffer), NEW start \in Nat, NEW end \in Nat
    PROVE  Uncovered(start, end) \in 0..(WordValues - 1)
<1>1. rxBuffer.next \in Nat
  BY Ends DEF BufferOK
<1>2. Covered(start, end) \in Nat
  <2> DEFINE n == Len(rxBuffer.sack)
  <2>1. n \in 0..n
    <3>1. rxBuffer.sack \in Seq(Pairs)
      BY DEF BufferOK
    <3> QED BY <3>1
  <2>2. PICK f \in [0..n -> Nat] : Covered(start, end) = f[n]
    BY CoveredIs
  <2> HIDE DEF n
  <2> QED BY <2>1, <2>2
<1> DEFINE window == IF rxBuffer.next < start THEN BlockSegments
                     ELSE (end - SegmentSize - rxBuffer.next) \div SegmentSize + 1
<1>3. window \in Int
  BY <1>1, Sizes
<1>4. Uncovered(start, end) = (window - Covered(start, end)) % WordValues
  BY DEF Uncovered
<1> HIDE DEF window
<1> QED BY <1>2, <1>3, <1>4, Sizes

\* The segment that FEC recovers is one of the block's, or one received long ago.
LEMMA LostFits ==
    ASSUME BufferOK(rxBuffer), NEW start \in Boundaries, NEW end \in Boundaries,
           rxBuffer.next < start
    PROVE  LET seq == LostSegSeq(start, end)
           IN  /\ Fits(rxBuffer, seq)
               /\ \/ seq = 0 /\ \A i \in 1..Len(rxBuffer.sack) :
                                ~(start <= rxBuffer.sack[i][2] /\ rxBuffer.sack[i][2] < end)
                  \/ /\ seq \in Boundaries /\ start <= seq /\ seq + SegmentSize <= end
                     /\ \E i \in 1..Len(rxBuffer.sack) : seq = rxBuffer.sack[i][2]
<1> DEFINE sack == rxBuffer.sack
           seq == LostSegSeq(start, end)
           short == {i \in DOMAIN sack : sack[i][2] >= start /\ RightEdge(sack[i], end) < end}
<1>1. /\ start \in Nat /\ end \in Nat /\ start <= StreamEnd /\ end <= StreamEnd
      /\ StreamEnd \in Nat /\ 1 <= start /\ 1 <= end
  BY Ends
<1>2. rxBuffer.next \in Nat /\ 1 <= rxBuffer.next
  BY <1>1 DEF BufferOK
<1>3. sack \in Seq(Pairs) /\ Len(sack) \in Nat /\ \A i \in 1..Len(sack) : sack[i] \in Pairs
  <2>1. sack \in Seq(Pairs)
    BY DEF BufferOK
  <2> QED BY <2>1
<1>4. \A i \in 1..Len(sack) : sack[i][2] \in Boundaries
  BY <1>3, PairOf DEF Pairs
<1>5. CASE short = {}
  <2>1. seq = 0
    BY <1>5 DEF LostSegSeq
  <2>2. 0 + SegmentSize <= StreamEnd
    <3>1. start \in Boundaries /\ 1 \in Boundaries /\ 1 < start
      BY <1>1, <1>2, Ends
    <3>2. 1 + SegmentSize <= start
      BY <3>1, Ends
    <3> QED BY <1>1, <3>2, Sizes
  <2>3. Fits(rxBuffer, 0)
    BY <1>2, <2>2 DEF Fits
  <2>4. ASSUME NEW i \in 1..Len(sack) PROVE ~(start <= sack[i][2] /\ sack[i][2] < end)
    <3>1. sack[i][2] \in Nat
      BY <1>4, Ends
    <3>3. i \in DOMAIN sack
      BY <1>3
    <3>2. ~(sack[i][2] >= start /\ RightEdge(sack[i], end) < end)
      BY <1>5, <3>3
    <3> QED BY <1>1, <3>1, <3>2 DEF RightEdge, Smaller
  <2> QED BY <2>1, <2>3, <2>4
<1>6. CASE short /= {}
  <2> DEFINE i == Max(short)
  <2>1. seq = sack[i][2]
    BY <1>6 DEF LostSegSeq
  <2>2. short \in SUBSET (0..Len(sack)) /\ \A j \in short : j \in 1..Len(sack)
    BY <1>3
  <2>3. \A j \in short : sack[j][2] >= start /\ RightEdge(sack[j], end) < end
    OBVIOUS
  <2> HIDE DEF short
  <2>4. i \in short
    BY <1>3, <1>6, <2>2, MaxIs
  <2> HIDE DEF i, seq, sack
  <2>5. i \in 1..Len(sack) /\ seq \in Boundaries /\ seq \in Nat
    BY <1>4, <2>1, <2>2, <2>4, Ends
  <2>6. start <= seq /\ seq < end
    BY <1>1, <2>1, <2>3, <2>4, <2>5 DEF RightEdge, Smaller
  <2>7. seq + SegmentSize <= end
    BY <2>5, <2>6, Ends
  <2>8. Fits(rxBuffer, seq)
    BY <1>1, <2>5, <2>7, Sizes DEF Fits
  <2> QED BY <2>1, <2>5, <2>6, <2>7, <2>8 DEF seq, sack
<1> QED BY <1>5, <1>6

-----------------------------------------------------------------------------
(***************************************************************************)
(* Types, and the report of a failure                                      *)
(***************************************************************************)
PartOK ==
    /\ BufferOK(rxBuffer)
    /\ fecProcessed \in BOOLEAN /\ fecFailed \in BOOLEAN
    /\ fecUnrecovered \in 0..(WordValues - 1)
    /\ delAckCount \in 0..(DelAckMaxCount - 1)
    /\ sound \subseteq 1..StreamEnd

\* A failure that waits for an ACK: a segment has been delayed since, so the next one is
\* not, or what is expected still is in front of the end of the block.
FailureWaits ==
    ~reordering /\ fecProcessed /\ fecFailed
    => \/ delAckCount = 1
       \/ \E n \in Nat : /\ n < Blocks /\ (n + 1) * (BlockSegments + 1) <= turn
                        /\ rxBuffer.next <= BlockEnd(n) - SegmentSize

ReceiverInv ==
    /\ PartOK
    /\ turn \in 0..(Blocks * (BlockSegments + 1)) /\ reordering \in BOOLEAN
    /\ FailureWaits

LEMMA StoreKeeps ==
    ASSUME NEW b, BufferOK(b), NEW seq, Fits(b, seq), NEW processed \in BOOLEAN,
           delAckCount \in 0..(DelAckMaxCount - 1), Store(b, seq, processed)
    PROVE  /\ rxBuffer' = Add(b, seq) /\ BufferOK(rxBuffer')
           /\ fecProcessed' \in BOOLEAN /\ delAckCount' \in 0..(DelAckMaxCount - 1)
           /\ fecProcessed' => /\ processed /\ delAckCount = 0 /\ delAckCount' = 1
                             /\ Delayable(Add(b, seq))
<1> DEFINE after == Add(b, seq)
           delayed == after /= b /\ Delayable(after) /\ delAckCount + 1 < DelAckMaxCount
<1>1. /\ rxBuffer' = after
      /\ delAckCount' = IF delayed THEN delAckCount + 1 ELSE 0
      /\ fecProcessed' = (processed /\ delayed)
  BY Zenon DEF Store
<1>2. BufferOK(after)
  BY AddKeeps
<1>3. delayed => Delayable(after) /\ delAckCount + 1 < DelAckMaxCount
  OBVIOUS
<1> HIDE DEF after, delayed
<1>4. delAckCount \in 0..1 /\ DelAckMaxCount = 2
  BY DEF DelAckMaxCount
<1>5. delayed => delAckCount = 0
  BY <1>3, <1>4
<1>6. delAckCount' \in 0..(DelAckMaxCount - 1)
  <2>1. CASE delayed
    <3>1. delAckCount' = delAckCount + 1
      BY <1>1, <2>1, Zenon
    <3> QED BY <1>4, <1>5, <2>1, <3>1
  <2>2. CASE ~delayed
    <3>1. delAckCount' = 0
      BY <1>1, <2>2, Zenon
    <3> QED BY <1>4, <3>1
  <2> QED BY <2>1, <2>2
<1>7. fecProcessed' \in BOOLEAN /\ (fecProcessed' => processed /\ delayed)
  BY <1>1, Zenon
<1>8. ASSUME delayed PROVE delAckCount = 0 /\ delAckCount' = 1 /\ Delayable(after)
  <2>1. delAckCount' = delAckCount + 1
    BY <1>1, <1>8, Zenon
  <2> QED BY <1>3, <1>5, <1>8, <2>1
<1>9. BufferOK(rxBuffer')
  BY <1>1, <1>2, Zenon
<1> QED BY <1>1, <1>6, <1>7, <1>8, <1>9, Zenon DEF after

LEMMA SegmentKeeps ==
    ASSUME PartOK, NEW k \in Nat, k < Blocks * BlockSegments, ReceivedSegment(k)
    PROVE  /\ PartOK' /\ fecFailed' = fecFailed
           /\ fecProcessed' => delAckCount' = 1
<1>1. Fits(rxBuffer, SegmentSeq(k)) /\ Octets(SegmentSeq(k)) \subseteq 1..(StreamEnd - 1)
  BY SegmentBounds
<1>2. /\ BufferOK(rxBuffer) /\ fecProcessed \in BOOLEAN
      /\ delAckCount \in 0..(DelAckMaxCount - 1)
  BY Zenon DEF PartOK
<1>3. /\ Store(rxBuffer, SegmentSeq(k), fecProcessed)
      /\ sound' = sound \cup Octets(SegmentSeq(k))
      /\ fecFailed' = fecFailed /\ fecUnrecovered' = fecUnrecovered
  BY Zenon DEF ReceivedSegment
<1>4. /\ BufferOK(rxBuffer') /\ fecProcessed' \in BOOLEAN
      /\ delAckCount' \in 0..(DelAckMaxCount - 1) /\ (fecProcessed' => delAckCount' = 1)
  BY <1>1, <1>2, <1>3, StoreKeeps, Zenon
<1>5. sound' \subseteq 1..StreamEnd
  <2>1. sound \subseteq 1..StreamEnd
    BY DEF PartOK
  <2>2. StreamEnd \in Nat
    BY Ends
  <2>3. Octets(SegmentSeq(k)) \subseteq 1..StreamEnd
    BY <1>1, <2>2
  <2> QED BY <1>3, <2>1, <2>3, Zenon
<1>6. fecFailed' \in BOOLEAN /\ fecUnrecovered' \in 0..(WordValues - 1)
  BY <1>3, Zenon DEF PartOK
<1> QED BY <1>3, <1>4, <1>5, <1>6, Zenon DEF PartOK, BufferOK, SackOK, WholeSegments

\* A repair packet that finds more than one segment missing.
Fails(n) ==
    /\ fecFailed' = TRUE /\ fecProcessed' = TRUE
    /\ rxBuffer' = rxBuffer /\ delAckCount' = delAckCount
    /\ rxBuffer.next <= BlockEnd(n) - SegmentSize
    /\ Uncovered(BlockStart(n), BlockEnd(n)) > 1

\* Whether what is expected comes after the block.
Behind(n) == rxBuffer.next > BlockEnd(n) - SegmentSize

\* One that finds no more missing, and what is stored for it.
Succeeds(n, b, seq) ==
    /\ fecFailed' = FALSE /\ Store(b, seq, TRUE)
    /\ BufferOK(b) /\ Fits(b, seq)
    /\ Behind(n) \/ ~(Uncovered(BlockStart(n), BlockEnd(n)) > 1)
    /\ b = IF Behind(n) THEN rxBuffer ELSE Recovered(BlockStart(n), BlockEnd(n))
    /\ seq = IF rxBuffer.next >= BlockStart(n) /\ ~Behind(n) THEN rxBuffer.next ELSE BlockStart(n)

LEMMA RepairIs ==
    ASSUME PartOK, NEW n \in Nat, n < Blocks, ReceivedRepair(n)
    PROVE  Fails(n) \/ \E b, seq : Succeeds(n, b, seq)
<1> DEFINE start == BlockStart(n)
           end == BlockEnd(n)
           behind == rxBuffer.next > end - SegmentSize
           uncovered == Uncovered(start, end)
           seq == IF rxBuffer.next >= start /\ ~behind THEN rxBuffer.next ELSE start
           b == IF behind THEN rxBuffer ELSE Recovered(start, end)
<1>1. /\ start \in Boundaries /\ end \in Boundaries /\ start + SegmentSize <= end
      /\ start \in Nat /\ end \in Nat /\ end <= StreamEnd /\ StreamEnd \in Nat
  BY BlockIs, Ends
<1>2. IF ~behind /\ uncovered > 1
      THEN /\ fecFailed' = TRUE /\ fecUnrecovered' = uncovered
           /\ fecProcessed' = TRUE
           /\ UNCHANGED <<rxBuffer, delAckCount>>
      ELSE /\ fecFailed' = FALSE /\ fecUnrecovered' = 0
           /\ Store(b, seq, TRUE)
  BY Zenon DEF ReceivedRepair
<1>3. BufferOK(rxBuffer) /\ rxBuffer.next \in Nat
  <2>1. BufferOK(rxBuffer)
    BY DEF PartOK
  <2> QED BY <2>1, Ends DEF BufferOK
<1> HIDE DEF start, end
<1>4. Recovered(start, end) = IF rxBuffer.next < start /\ uncovered = 1
                              THEN Add(rxBuffer, LostSegSeq(start, end)) ELSE rxBuffer
  BY DEF Recovered
<1> HIDE DEF uncovered
<1>5. BufferOK(b) /\ rxBuffer.next <= b.next
  <2>1. CASE b = rxBuffer
    BY <1>3, <2>1
  <2>2. CASE rxBuffer.next < start /\ b = Add(rxBuffer, LostSegSeq(start, end))
    <3>1. Fits(rxBuffer, LostSegSeq(start, end))
      BY <1>1, <1>3, <2>2, LostFits
    <3> QED BY <1>3, <2>2, <3>1, AddKeeps
  <2> QED BY <1>4, <2>1, <2>2
<1>6. Fits(b, seq)
  <2>0. b.next \in Nat
    BY <1>5, Ends DEF BufferOK
  <2>1. CASE rxBuffer.next >= start /\ ~behind
    <3>1. seq = rxBuffer.next /\ rxBuffer.next <= end - SegmentSize
      BY <1>1, <1>3, <2>1, Sizes
    <3> HIDE DEF b, seq
    <3> QED BY <1>1, <1>3, <1>5, <2>0, <3>1, Sizes DEF Fits
  <2>2. CASE ~(rxBuffer.next >= start /\ ~behind)
    <3>1. seq = start
      BY <2>2
    <3> HIDE DEF b, seq
    <3> QED BY <1>1, <3>1, Sizes DEF Fits
  <2> QED BY <2>1, <2>2
<1>7. ~behind => rxBuffer.next <= end - SegmentSize
  BY <1>1, <1>3, Sizes
<1>8. CASE ~behind /\ uncovered > 1
  BY <1>2, <1>7, <1>8, Zenon DEF Fails, start, end, uncovered
<1>9. CASE ~(~behind /\ uncovered > 1)
  <2>1. b = IF behind THEN rxBuffer ELSE Recovered(start, end)
    OBVIOUS
  <2>2. seq = IF rxBuffer.next >= start /\ ~behind THEN rxBuffer.next ELSE start
    OBVIOUS
  <2> HIDE DEF b, seq
  <2>3. behind <=> Behind(n)
    BY DEF Behind, end
  <2> HIDE DEF behind
  <2>4. Succeeds(n, b, seq)
    BY <1>2, <1>5, <1>6, <1>9, <2>1, <2>2, <2>3, Zenon DEF Succeeds, start, end, uncovered
  <2> QED BY <2>4, Zenon
<1> QED BY <1>8, <1>9, Zenon

LEMMA RepairKeeps ==
    ASSUME PartOK, NEW n \in Nat, n < Blocks, ReceivedRepair(n)
    PROVE  PartOK'
<1>1. BufferOK(rxBuffer) /\ delAckCount \in 0..(DelAckMaxCount - 1) /\ sound \subseteq 1..StreamEnd
  BY Zenon DEF PartOK
<1>2. /\ BufferOK(rxBuffer') /\ fecFailed' \in BOOLEAN /\ fecProcessed' \in BOOLEAN
      /\ delAckCount' \in 0..(DelAckMaxCount - 1)
  <2>1. CASE Fails(n)
    BY <1>1, <2>1, Zenon DEF Fails
  <2>2. ASSUME NEW b, NEW seq, Succeeds(n, b, seq)
        PROVE  /\ BufferOK(rxBuffer') /\ fecFailed' \in BOOLEAN /\ fecProcessed' \in BOOLEAN
               /\ delAckCount' \in 0..(DelAckMaxCount - 1)
    <3>1. BufferOK(b) /\ Fits(b, seq) /\ Store(b, seq, TRUE) /\ fecFailed' = FALSE
      BY <2>2, Zenon DEF Succeeds
    <3> QED BY <1>1, <3>1, StoreKeeps, Zenon
  <2> QED BY <2>1, <2>2, RepairIs, Zenon
<1>3. fecUnrecovered' \in 0..(WordValues - 1)
  <2>1. BlockStart(n) \in Nat /\ BlockEnd(n) \in Nat
    BY BlockIs, Ends
  <2>2. Uncovered(BlockStart(n), BlockEnd(n)) \in 0..(WordValues - 1)
    BY <1>1, <2>1, UncoveredIs
  <2>3. fecUnrecovered' = Uncovered(BlockStart(n), BlockEnd(n)) \/ fecUnrecovered' = 0
    BY Zenon DEF ReceivedRepair
  <2>4. 0 \in 0..(WordValues - 1)
    BY Sizes
  <2> QED BY <2>2, <2>3, <2>4, Zenon
<1>4. sound' \subseteq 1..StreamEnd
  <2>1. sound' = IF Cardinality(Missing(n)) = 1
                 THEN sound \cup UNION {Octets(s) : s \in Missing(n)} ELSE sound
    BY Zenon DEF ReceivedRepair
  <2>2. StreamEnd \in Nat
    BY Ends
  <2>3. ASSUME NEW s \in Missing(n) PROVE Octets(s) \subseteq 1..StreamEnd
    <3>1. s \in Block(n)
      BY DEF Missing
    <3>2. PICK k \in Nat : k < Blocks * BlockSegments /\ s = SegmentSeq(k)
      BY <3>1, BlockIs
    <3>3. Octets(s) \subseteq 1..(StreamEnd - 1)
      BY <3>2, SegmentBounds
    <3> QED BY <2>2, <3>3
  <2> QED BY <1>1, <2>1, <2>3
<1> QED BY <1>2, <1>3, <1>4, Zenon DEF PartOK, BufferOK, SackOK, WholeSegments

\* A packet of the path is of a block of the transfer.
LEMMA PacketIs ==
    ASSUME NEW t \in Nat, t < Blocks * (BlockSegments + 1)
    PROVE  /\ BlockOf(t) \in Nat /\ BlockOf(t) < Blocks
           /\ ~IsRepair(t) => SegmentOf(t) \in Nat /\ SegmentOf(t) < Blocks * BlockSegments
<1> DEFINE q == BlockOf(t)
<1>1. q \in Nat
  BY TurnIs
<1>2. q < Blocks
  <2>1. Blocks - 1 \in Nat /\ (Blocks - 1) + 1 = Blocks
    BY Sizes
  <2>2. q <= Blocks - 1
    BY <2>1, Turns
  <2> QED BY <1>1, <2>2, Sizes
<1>3. ASSUME ~IsRepair(t) PROVE SegmentOf(t) \in Nat /\ SegmentOf(t) < Blocks * BlockSegments
  <2> DEFINE last == (q + 1) * BlockSegments
             N == Blocks * BlockSegments
  <2>1. SegmentOf(t) \in Nat /\ SegmentOf(t) < last
    BY <1>3, Turns
  <2>2. last \in Nat /\ N \in Nat /\ last <= N
    <3>1. last \in Nat /\ N \in Nat
      BY <1>1, Sizes, Products
    <3>2. CASE q + 1 = Blocks
      BY <3>1, <3>2
    <3>3. CASE q + 1 < Blocks
      <4>1. last + BlockSegments <= N
        BY <1>1, <3>3, Sizes, Products
      <4> QED BY <3>1, <4>1, Sizes
    <3> QED BY <1>1, <1>2, <3>2, <3>3, Sizes
  <2> HIDE DEF last, N
  <2>3. SegmentOf(t) < N
    BY <2>1, <2>2
  <2> QED BY <2>1, <2>3 DEF N
<1> QED BY <1>1, <1>2, <1>3

LEMMA ReceiveKeeps ==
    ASSUME PartOK, NEW t \in Nat, t < Blocks * (BlockSegments + 1), Receive(t)
    PROVE  PartOK'
<1>1. CASE IsRepair(t)
  <2>1. ReceivedRepair(BlockOf(t))
    BY <1>1, Zenon DEF Receive
  <2> QED BY <2>1, PacketIs, RepairKeeps
<1>2. CASE ~IsRepair(t)
  <2>1. ReceivedSegment(SegmentOf(t))
    BY <1>2, Zenon DEF Receive
  <2> QED BY <1>2, <2>1, PacketIs, SegmentKeeps
<1> QED BY <1>1, <1>2

\* The repair packet of a block after one that has failed does not let its ACK wait: its
\* segment is stored ahead of what is expected, or moves it far ahead.
LEMMA RepairIsReported ==
    ASSUME PartOK, NEW n \in Nat, n < Blocks, NEW b, NEW seq, Succeeds(n, b, seq),
           NEW m \in Nat, m < n, rxBuffer.next <= BlockEnd(m) - SegmentSize
    PROVE  ~fecProcessed'
<1> DEFINE start == BlockStart(n)
           after == Add(b, seq)
<1>1. start \in Nat /\ BlockEnd(m) \in Nat /\ BlockEnd(m) <= start /\ 1 <= start
  <2>1. m < Blocks
    BY Sizes
  <2>2. BlockEnd(m) \in Boundaries /\ start \in Boundaries /\ BlockEnd(m) <= start
    BY <2>1, BlockIs
  <2> QED BY <2>2, Ends
<1>2. /\ BufferOK(rxBuffer) /\ delAckCount \in 0..(DelAckMaxCount - 1)
      /\ BufferOK(b) /\ Fits(b, seq) /\ Store(b, seq, TRUE)
  BY Zenon DEF PartOK, Succeeds
<1>3. rxBuffer.next \in Nat /\ rxBuffer.next + SegmentSize <= start /\ rxBuffer.next < start
  <2>1. rxBuffer.next \in Nat
    BY <1>2, Ends DEF BufferOK
  <2> QED BY <1>1, <2>1, Sizes
<1>4. seq = start
  BY <1>1, <1>3 DEF Succeeds
<1>5. BufferOK(after) /\ after.stored = b.stored \cup {o \in Octets(seq) : o >= 1}
  BY <1>2, AddKeeps
<1>6. start \in after.stored
  <2>1. start \in Octets(start)
    BY <1>1, Sizes DEF Octets
  <2> QED BY <1>1, <1>4, <1>5, <2>1
<1>7. after.next \in Nat /\ after.next \notin after.stored
  BY <1>5, Ends DEF BufferOK
<1>8. fecProcessed' => Delayable(after)
  BY <1>2, StoreKeeps, Zenon
<1> HIDE DEF after, start
<1>9. ~Delayable(after)
  <2> SUFFICES ASSUME Delayable(after) PROVE FALSE
    OBVIOUS
  <2>1. ~(start > after.next) /\ after.next <= rxBuffer.next + SegmentSize
    BY <1>6 DEF Delayable, HasGap
  <2>2. start /= after.next
    BY <1>6, <1>7
  <2>3. start \in Nat /\ SegmentSize \in Nat
    BY <1>1, Sizes
  <2>4. after.next <= start
    BY <1>3, <1>7, <2>1, <2>3
  <2> QED BY <1>7, <2>1, <2>2, <2>3, <2>4
<1> QED BY <1>8, <1>9

LEMMA InitInv == ReceiverInit => ReceiverInv
<1> SUFFICES ASSUME ReceiverInit PROVE ReceiverInv
  OBVIOUS
<1>1. /\ StreamEnd \in Nat /\ 1 <= StreamEnd
  BY Ends
<1> DEFINE b == [next |-> 1, stored |-> {}, sack |-> <<>>]
<1>2. b \in [next : 1..StreamEnd, stored : SUBSET (1..(StreamEnd - 1)), sack : Seq(Pairs)]
  BY <1>1
<1>3. b.next = 1 /\ b.stored = {} /\ b.sack = <<>>
  OBVIOUS
<1>4. rxBuffer = b
  BY DEF ReceiverInit
<1> HIDE DEF b
<1>5. SackOK(<<>>, 1, {})
  BY DEF SackOK, MaxSackBlocks
<1>6. BufferOK(rxBuffer)
  <2>1. 1..(b.next - 1) \subseteq b.stored /\ b.next \notin b.stored
    BY <1>3
  <2>2. WholeSegments(b.next, b.stored)
    BY <1>3 DEF WholeSegments
  <2>3. SackOK(b.sack, b.next, b.stored)
    BY <1>3, <1>5, Zenon
  <2>4. BufferOK(b)
    BY <1>2, <2>1, <2>2, <2>3, Zenon DEF BufferOK
  <2> QED BY <1>4, <2>4, Zenon
<1>7. PartOK
  <2>1. 0 \in 0..(WordValues - 1) /\ 0 \in 0..(DelAckMaxCount - 1)
    BY Sizes DEF DelAckMaxCount
  <2> QED BY <1>6, <2>1, Zenon DEF PartOK, ReceiverInit
<1>8. turn \in 0..(Blocks * (BlockSegments + 1)) /\ reordering \in BOOLEAN
  <2>1. Blocks * (BlockSegments + 1) \in Nat
    BY Sizes, Products
  <2> QED BY <2>1 DEF ReceiverInit
<1>9. FailureWaits
  BY DEF FailureWaits, ReceiverInit
<1> QED BY <1>7, <1>8, <1>9 DEF ReceiverInv

\* The packets of the path up to the one whose turn it is.
LEMMA TurnBounds ==
    ASSUME ReceiverInv
    PROVE  /\ turn \in Nat /\ Blocks * (BlockSegments + 1) \in Nat
           /\ turn <= Blocks * (BlockSegments + 1)
<1>1. Blocks * (BlockSegments + 1) \in Nat
  BY Sizes, Products
<1> QED BY <1>1 DEF ReceiverInv

LEMMA StepInv == ReceiverInv /\ [ReceiverNext]_receiverVars => ReceiverInv'
<1> SUFFICES ASSUME ReceiverInv, [ReceiverNext]_receiverVars PROVE ReceiverInv'
  OBVIOUS
<1>1. /\ PartOK /\ FailureWaits /\ reordering \in BOOLEAN /\ turn \in Nat
      /\ Blocks * (BlockSegments + 1) \in Nat /\ turn <= Blocks * (BlockSegments + 1)
      /\ turn \in 0..(Blocks * (BlockSegments + 1))
  BY TurnBounds DEF ReceiverInv
<1>2. CASE Arrive
  <2>1. /\ turn < Blocks * (BlockSegments + 1) /\ turn' = turn + 1
        /\ Receive(turn) /\ reordering' = reordering
    BY <1>2 DEF Arrive
  <2>2. PartOK'
    BY <1>1, <2>1, ReceiveKeeps
  <2>3. FailureWaits'
    <3>1. CASE IsRepair(turn)
      <4> DEFINE n == BlockOf(turn)
      <4>1. ReceivedRepair(n)
        BY <2>1, <3>1, Zenon DEF Receive
      <4>2. n \in Nat /\ n < Blocks /\ turn + 1 = (n + 1) * (BlockSegments + 1)
        BY <1>1, <2>1, <3>1, PacketIs, Turns
      <4> HIDE DEF n
      <4>3. Fails(n) \/ \E b, seq : Succeeds(n, b, seq)
        BY <1>1, <4>1, <4>2, RepairIs
      <4>4. CASE Fails(n)
        <5>1. rxBuffer'.next <= BlockEnd(n) - SegmentSize
          BY <4>4 DEF Fails
        <5>2. (n + 1) * (BlockSegments + 1) <= turn'
          BY <1>1, <2>1, <4>2
        <5> QED BY <4>2, <5>1, <5>2 DEF FailureWaits, BlockEnd
      <4>5. ASSUME NEW b, NEW seq, Succeeds(n, b, seq) PROVE FailureWaits'
        <5>1. fecFailed' = FALSE
          BY <4>5, Zenon DEF Succeeds
        <5> QED BY <5>1 DEF FailureWaits
      <4> QED BY <4>3, <4>4, <4>5
    <3>2. CASE ~IsRepair(turn)
      <4>1. ReceivedSegment(SegmentOf(turn))
        BY <2>1, <3>2, Zenon DEF Receive
      <4>2. fecProcessed' => delAckCount' = 1
        BY <1>1, <2>1, <3>2, <4>1, PacketIs, SegmentKeeps
      <4> QED BY <4>2 DEF FailureWaits
    <3> QED BY <3>1, <3>2
  <2>4. turn' \in 0..(Blocks * (BlockSegments + 1))
    BY <1>1, <2>1
  <2> QED BY <1>1, <2>1, <2>2, <2>3, <2>4, Zenon DEF ReceiverInv
<1>3. CASE Miss
  <2>1. /\ turn < Blocks * (BlockSegments + 1) /\ turn' = turn + 1
        /\ UNCHANGED <<rxBuffer, fecProcessed, fecFailed, fecUnrecovered, delAckCount,
                       reordering, sound>>
    BY <1>3 DEF Miss
  <2>2. PartOK'
    BY <1>1, <2>1 DEF PartOK, BufferOK, SackOK, WholeSegments
  <2>3. FailureWaits'
    <3> SUFFICES ASSUME ~reordering, fecProcessed, fecFailed, ~(delAckCount = 1)
                 PROVE  \E n \in Nat : /\ n < Blocks /\ (n + 1) * (BlockSegments + 1) <= turn'
                                    /\ rxBuffer'.next <= BlockEnd(n) - SegmentSize
      BY <2>1 DEF FailureWaits, BlockEnd
    <3>1. PICK n \in Nat : /\ n < Blocks /\ (n + 1) * (BlockSegments + 1) <= turn
                            /\ rxBuffer.next <= BlockEnd(n) - SegmentSize
      BY <1>1 DEF FailureWaits
    <3>2. (n + 1) * (BlockSegments + 1) \in Nat
      BY Sizes, Products
    <3>3. (n + 1) * (BlockSegments + 1) <= turn'
      BY <1>1, <2>1, <3>1, <3>2
    <3>4. rxBuffer'.next <= BlockEnd(n) - SegmentSize
      BY <2>1, <3>1
    <3> QED BY <3>1, <3>3, <3>4, Zenon
  <2>4. turn' \in 0..(Blocks * (BlockSegments + 1))
    BY <1>1, <2>1
  <2> QED BY <1>1, <2>1, <2>2, <2>3, <2>4, Zenon DEF ReceiverInv
<1>4. CASE ArriveLate
  <2>1. PICK t \in 0..(turn - 1) : (IsRepair(t) => reordering) /\ Receive(t)
    BY <1>4 DEF ArriveLate
  <2>2. turn' = turn /\ reordering' = reordering
    BY <1>4 DEF ArriveLate
  <2>3. t \in Nat /\ t < Blocks * (BlockSegments + 1)
    BY <1>1, <2>1
  <2>4. PartOK'
    BY <1>1, <2>1, <2>3, ReceiveKeeps
  <2>5. FailureWaits'
    <3>1. CASE reordering
      BY <2>2, <3>1 DEF FailureWaits
    <3>2. CASE ~reordering
      <4>1. ReceivedSegment(SegmentOf(t)) /\ ~IsRepair(t)
        BY <2>1, <3>2, Zenon DEF Receive
      <4>2. fecProcessed' => delAckCount' = 1
        BY <1>1, <2>3, <4>1, PacketIs, SegmentKeeps
      <4> QED BY <4>2 DEF FailureWaits
    <3> QED BY <3>1, <3>2
  <2> QED BY <1>1, <2>2, <2>4, <2>5, Zenon DEF ReceiverInv
<1>5. CASE DelAckExpires
  <2>1. /\ delAckCount' = 0 /\ fecProcessed' = FALSE
        /\ UNCHANGED <<rxBuffer, fecFailed, fecUnrecovered, turn, reordering, sound>>
    BY <1>5 DEF DelAckExpires
  <2>2. PartOK'
    <3>1. 0 \in 0..(DelAckMaxCount - 1) /\ FALSE \in BOOLEAN
      BY DEF DelAckMaxCount
    <3>2. BufferOK(rxBuffer)'
      BY <1>1, <2>1, Zenon DEF PartOK, BufferOK, SackOK, WholeSegments
    <3> QED BY <1>1, <2>1, <3>1, <3>2, Zenon DEF PartOK
  <2>3. FailureWaits'
    BY <2>1 DEF FailureWaits
  <2> QED BY <1>1, <2>1, <2>2, <2>3, Zenon DEF ReceiverInv
<1>6. CASE UNCHANGED receiverVars
  BY <1>1, <1>6 DEF ReceiverInv, PartOK, BufferOK, SackOK, WholeSegments, FailureWaits, receiverVars
<1> QED BY <1>2, <1>3, <1>4, <1>5, <1>6 DEF ReceiverNext

LEMMA ReceiverInductive == ReceiverSpec => []ReceiverInv
BY InitInv, StepInv, PTL DEF ReceiverSpec

LEMMA ReceiverTyped == ReceiverInv => ReceiverTypeOK
<1> SUFFICES ASSUME ReceiverInv PROVE ReceiverTypeOK
  OBVIOUS
<1>1. PartOK /\ BufferOK(rxBuffer)
  BY Zenon DEF ReceiverInv, PartOK
<1>2. /\ rxBuffer.next \in 1..StreamEnd /\ 1..(rxBuffer.next - 1) \subseteq rxBuffer.stored
      /\ rxBuffer.next \notin rxBuffer.stored /\ rxBuffer.stored \subseteq 1..(StreamEnd - 1)
      /\ Len(rxBuffer.sack) <= MaxSackBlocks
  BY <1>1 DEF BufferOK, SackOK
<1>3. 1..(StreamEnd - 1) \subseteq 1..StreamEnd
  BY Ends
<1>4. /\ fecProcessed \in BOOLEAN /\ fecFailed \in BOOLEAN
      /\ fecUnrecovered \in 0..(WordValues - 1)
      /\ delAckCount \in 0..(DelAckMaxCount - 1)
      /\ turn \in 0..(Blocks * (BlockSegments + 1))
      /\ reordering \in BOOLEAN /\ sound \subseteq 1..StreamEnd
  BY Zenon DEF ReceiverInv, PartOK
<1>5. rxBuffer.stored \subseteq 1..StreamEnd
  BY <1>2, <1>3, Zenon
<1> QED BY <1>2, <1>4, <1>5, Zenon DEF ReceiverTypeOK

\* The variables have their types, for every size of the segments and blocks: the octet
\* expected (m_nextRxSeq) is the first one not stored, and the SACK list is never longer
\* than the four blocks an ACK carries, whatever is lost, overtaken or recovered.
THEOREM ReceiverTypeCorrect == ReceiverSpec => []ReceiverTypeOK
<1>1. ReceiverInv => ReceiverTypeOK
  BY ReceiverTyped
<1> QED BY <1>1, ReceiverInductive, PTL

\* A failure is not forgotten before an ACK has carried it: on a path where no repair
\* packet is overtaken, the ACK of whatever clears it is sent at once.
THEOREM FailureIsReported == ReceiverSpec => FailureReported
<1> DEFINE Kept == ~reordering /\ fecProcessed /\ fecFailed => fecFailed' \/ ~fecProcessed'
<1>1. ASSUME ReceiverInv, [ReceiverNext]_receiverVars PROVE Kept
  <2> SUFFICES ASSUME ~reordering, fecProcessed, fecFailed PROVE fecFailed' \/ ~fecProcessed'
    OBVIOUS
  <2>1. PartOK /\ FailureWaits
    BY <1>1 DEF ReceiverInv
  <2>2. /\ turn \in Nat /\ Blocks * (BlockSegments + 1) \in Nat
        /\ turn <= Blocks * (BlockSegments + 1)
    BY <1>1, TurnBounds
  <2>3. ASSUME NEW t \in Nat, t < Blocks * (BlockSegments + 1), ~IsRepair(t), Receive(t)
        PROVE  fecFailed'
    <3>1. ReceivedSegment(SegmentOf(t))
      BY <2>3, Zenon DEF Receive
    <3>2. fecFailed' = fecFailed
      BY <3>1, Zenon DEF ReceivedSegment
    <3> QED BY <3>2, Zenon
  <2>4. CASE Arrive
    <3>1. turn < Blocks * (BlockSegments + 1) /\ Receive(turn)
      BY <2>4 DEF Arrive
    <3>2. CASE IsRepair(turn)
      <4> DEFINE n == BlockOf(turn)
      <4>1. ReceivedRepair(n)
        BY <3>1, <3>2, Zenon DEF Receive
      <4>2. n \in Nat /\ n < Blocks /\ turn + 1 = (n + 1) * (BlockSegments + 1)
        BY <2>2, <3>1, <3>2, PacketIs, Turns
      <4> HIDE DEF n
      <4>3. CASE Fails(n)
        BY <4>3, Zenon DEF Fails
      <4>4. ASSUME NEW b, NEW seq, Succeeds(n, b, seq) PROVE ~fecProcessed'
        <5>1. CASE delAckCount = 1
          <6>1. BufferOK(b) /\ Fits(b, seq) /\ Store(b, seq, TRUE)
            BY <4>4, Zenon DEF Succeeds
          <6>2. fecProcessed' => delAckCount = 0
            BY <2>1, <6>1, StoreKeeps, Zenon DEF PartOK
          <6>3. 0 /= 1
            OBVIOUS
          <6> QED BY <5>1, <6>2, <6>3, Zenon
        <5>2. CASE delAckCount /= 1
          <6>1. PICK m \in Nat : /\ m < Blocks /\ (m + 1) * (BlockSegments + 1) <= turn
                                  /\ rxBuffer.next <= BlockEnd(m) - SegmentSize
            BY <2>1, <5>2 DEF FailureWaits
          <6>2. m < n
            <7> DEFINE e == (m + 1) * (BlockSegments + 1)
                       l == (n + 1) * (BlockSegments + 1)
            <7>1. e \in Nat /\ l \in Nat
              BY <4>2, Sizes, Products
            <7>2. CASE n < m
              <8>1. l + (BlockSegments + 1) <= e
                BY <4>2, <7>2, Sizes, Products
              <8>2. l = turn + 1 /\ e <= turn
                BY <4>2, <6>1
              <8> HIDE DEF e, l
              <8> QED BY <2>2, <7>1, <8>1, <8>2, Sizes
            <7>3. CASE n = m
              BY <2>2, <4>2, <6>1, <7>3
            <7> QED BY <4>2, <7>2, <7>3
          <6> QED BY <2>1, <4>2, <4>4, <6>1, <6>2, RepairIsReported
        <5> QED BY <5>1, <5>2
      <4> QED BY <2>1, <4>1, <4>2, <4>3, <4>4, RepairIs
    <3> QED BY <2>2, <2>3, <3>1, <3>2
  <2>5. CASE Miss
    BY <2>5, Zenon DEF Miss
  <2>6. CASE ArriveLate
    <3>1. PICK t \in 0..(turn - 1) : (IsRepair(t) => reordering) /\ Receive(t)
      BY <2>6 DEF ArriveLate
    <3>2. t \in Nat /\ t < Blocks * (BlockSegments + 1)
      BY <2>2, <3>1
    <3> QED BY <2>3, <3>1, <3>2
  <2>7. CASE DelAckExpires
    BY <2>7, Zenon DEF DelAckExpires
  <2>8. CASE UNCHANGED receiverVars
    BY <2>8, Zenon DEF receiverVars
  <2> QED BY <1>1, <2>4, <2>5, <2>6, <2>7, <2>8 DEF ReceiverNext
<1>2. ReceiverInv /\ [ReceiverNext]_receiverVars => [Kept]_receiverVars
  BY <1>1
<1> QED BY <1>2, ReceiverInductive, PTL DEF ReceiverSpec, FailureReported

-----------------------------------------------------------------------------
(***************************************************************************)
(* What the SACK list names of a block, counted                            *)
(***************************************************************************)
LEMMA SegOrder ==
    ASSUME NEW j \in Nat, NEW k \in Nat
    PROVE  /\ SegmentSeq(j) <= SegmentSeq(k) <=> j <= k
           /\ SegmentSeq(j) = SegmentSeq(k) <=> j = k
<1>1. SegmentSeq(j) \in Nat /\ SegmentSeq(k) \in Nat
  BY SegmentSeqs
<1>2. j < k => SegmentSeq(j) + SegmentSize <= SegmentSeq(k)
  BY SegmentSeqs
<1>3. k < j => SegmentSeq(k) + SegmentSize <= SegmentSeq(j)
  BY SegmentSeqs
<1>4. j = k => SegmentSeq(j) = SegmentSeq(k)
  OBVIOUS
<1>5. SegmentSize \in Nat /\ SegmentSize > 0
  BY Sizes
<1> QED BY <1>1, <1>2, <1>3, <1>4, <1>5

\* The octets between two ends of segments are so many segments.
LEMMA SegDifference ==
    ASSUME NEW j \in Nat, NEW k \in Nat, j <= k
    PROVE  /\ SegmentSeq(k) - SegmentSeq(j) = (k - j) * SegmentSize
           /\ (k - j) * SegmentSize \in Nat
           /\ ((k - j) * SegmentSize) \div SegmentSize = k - j
<1> DEFINE d == k - j
<1>1. d \in Nat /\ k = j + d
  OBVIOUS
<1>2. SegmentSize \in Nat /\ SegmentSize > 0
  BY Sizes
<1>3. d * SegmentSize \in Nat /\ j * SegmentSize \in Nat
  BY <1>1, <1>2, Products
<1>4. (j + d) * SegmentSize = j * SegmentSize + d * SegmentSize
  BY <1>1, <1>2
<1>5. SegmentSeq(k) - SegmentSeq(j) = d * SegmentSize
  <2>1. SegmentSeq(k) = 1 + (j * SegmentSize + d * SegmentSize)
    BY <1>1, <1>4 DEF SegmentSeq
  <2>2. SegmentSeq(j) = 1 + j * SegmentSize
    BY DEF SegmentSeq
  <2> QED BY <1>3, <2>1, <2>2
<1>6. (d * SegmentSize) \div SegmentSize = d
  <2> HIDE DEF d
  <2> QED BY <1>1, <1>2
<1> QED BY <1>3, <1>5, <1>6

LEMMA IndexIs ==
    ASSUME NEW s \in Boundaries
    PROVE  \E k \in Nat : s = SegmentSeq(k)
<1>1. Blocks * BlockSegments \in Nat
  BY Sizes, Products
<1> QED BY <1>1 DEF Boundaries

\* The numbers of the segments of block n, and those that a SACK block holds.
Numbers(n) == (n * BlockSegments)..((n + 1) * BlockSegments - 1)
Holds(x, k) == x[1] <= SegmentSeq(k) /\ SegmentSeq(k) + SegmentSize <= x[2]
Held(x, n) == {k \in Numbers(n) : Holds(x, k)}

LEMMA NumbersAre ==
    ASSUME NEW n \in Nat
    PROVE  /\ n * BlockSegments \in Nat /\ (n + 1) * BlockSegments = n * BlockSegments + BlockSegments
           /\ (n + 1) * BlockSegments \in Nat /\ Numbers(n) \in SUBSET Nat
           /\ \A k \in Nat : k \in Numbers(n)
                            <=> BlockStart(n) <= SegmentSeq(k) /\ SegmentSeq(k) < BlockEnd(n)
           /\ Block(n) = {SegmentSeq(k) : k \in Numbers(n)}
<1> DEFINE first == n * BlockSegments
           last == (n + 1) * BlockSegments
<1>1. first \in Nat /\ last = first + BlockSegments /\ last \in Nat
  BY Sizes, Products
<1>2. BlockStart(n) = SegmentSeq(first) /\ BlockEnd(n) = SegmentSeq(last)
  BY DEF BlockStart, BlockEnd
<1>3. Numbers(n) = first..(last - 1)
  BY DEF Numbers
<1>4. Block(n) = {SegmentSeq(k) : k \in Numbers(n)}
  BY DEF Block, Numbers
<1> HIDE DEF first, last
<1>5. ASSUME NEW k \in Nat
      PROVE  k \in Numbers(n) <=> BlockStart(n) <= SegmentSeq(k) /\ SegmentSeq(k) < BlockEnd(n)
  <2>1. BlockStart(n) <= SegmentSeq(k) <=> first <= k
    BY <1>1, <1>2, SegOrder
  <2>2. SegmentSeq(last) <= SegmentSeq(k) <=> last <= k
    BY <1>1, SegOrder
  <2>3. SegmentSeq(k) \in Nat /\ SegmentSeq(last) \in Nat
    BY <1>1, SegmentSeqs
  <2> QED BY <1>1, <1>2, <1>3, <2>1, <2>2, <2>3
<1>6. Numbers(n) \in SUBSET Nat
  BY <1>1, <1>3
<1> QED BY <1>1, <1>4, <1>5, <1>6 DEF first, last

\* nSeg of a SACK block that does not lie beyond block n counts what it holds of it.
LEMMA NSegCounts ==
    ASSUME NEW n \in Nat, n < Blocks, NEW x \in Pairs, x[1] < x[2], x[1] < BlockEnd(n)
    PROVE  /\ IsFiniteSet(Held(x, n))
           /\ NSeg(x, BlockStart(n), BlockEnd(n)) = Cardinality(Held(x, n))
<1> DEFINE first == n * BlockSegments
           last == (n + 1) * BlockSegments
           start == BlockStart(n)
           end == BlockEnd(n)
<1>1. /\ first \in Nat /\ last = first + BlockSegments /\ last \in Nat
      /\ Numbers(n) \in SUBSET Nat
  BY NumbersAre
<1>2. start = SegmentSeq(first) /\ end = SegmentSeq(last)
  BY DEF BlockStart, BlockEnd
<1>3. \A k \in Nat : k \in Numbers(n) <=> first <= k /\ k < last
  BY <1>1 DEF Numbers
<1> HIDE DEF first, last
<1>4. PICK a \in Nat : x[1] = SegmentSeq(a)
  BY IndexIs, PairOf DEF Pairs
<1>5. PICK z \in Nat : x[2] = SegmentSeq(z)
  BY IndexIs, PairOf DEF Pairs
<1> DEFINE e == Smaller(z, last)
<1>6. /\ x[1] \in Nat /\ x[2] \in Nat /\ start \in Nat /\ end \in Nat
      /\ SegmentSize \in Nat /\ SegmentSize > 0
  BY <1>1, <1>2, <1>4, <1>5, SegmentSeqs, Sizes
<1>7. e \in Nat /\ e <= last /\ a < e /\ (e = z \/ e = last) /\ e <= z
  <2>1. ~(last <= a)
    BY <1>1, <1>2, <1>4, <1>6, SegOrder
  <2>2. ~(z <= a)
    BY <1>4, <1>5, <1>6, SegOrder
  <2> QED BY <1>1, <2>1, <2>2 DEF Smaller
<1>8. \A k \in Nat : k < last => (Holds(x, k) <=> a <= k /\ k < e)
  <2> SUFFICES ASSUME NEW k \in Nat, k < last PROVE Holds(x, k) <=> a <= k /\ k < z
    BY <1>1, <1>7
  <2>1. SegmentSeq(a) <= SegmentSeq(k) <=> a <= k
    BY SegOrder
  <2>2. SegmentSeq(k) + SegmentSize <= SegmentSeq(z) <=> k < z
    <3>1. SegmentSeq(k) + SegmentSize = SegmentSeq(k + 1) /\ k + 1 \in Nat
      BY SegmentSeqs
    <3>2. SegmentSeq(k + 1) <= SegmentSeq(z) <=> k + 1 <= z
      BY <3>1, SegOrder
    <3> QED BY <3>1, <3>2
  <2> QED BY <1>4, <1>5, <2>1, <2>2 DEF Holds
<1>9. CASE x[2] < start
  <2>1. e < first
    <3>1. ~(first <= z)
      BY <1>1, <1>2, <1>5, <1>6, <1>9, SegOrder
    <3> QED BY <1>1, <1>7, <3>1
  <2>2. \A k \in Numbers(n) : ~Holds(x, k)
    <3> HIDE DEF e
    <3> QED BY <1>1, <1>3, <1>7, <1>8, <2>1
  <2>3. Held(x, n) = {}
    BY <2>2 DEF Held
  <2>4. NSeg(x, start, end) = 0
    BY <1>9 DEF NSeg
  <2> QED BY <2>3, <2>4, FS_EmptySet
<1>10. CASE ~(x[2] < start)
  <2> DEFINE low == Larger(a, first)
  <2>1. first <= e
    <3>1. first <= z
      BY <1>1, <1>2, <1>5, <1>6, <1>10, SegOrder
    <3>2. first <= last
      BY <1>1, Sizes
    <3> HIDE DEF e
    <3> QED BY <1>7, <3>1, <3>2
  <2> HIDE DEF e
  <2>2. low \in Nat /\ low <= e /\ first <= low /\ a <= low /\ (low = a \/ low = first)
    BY <1>1, <1>7, <2>1 DEF Larger
  <2>3. LeftEdge(x, start) = SegmentSeq(low)
    <3>1. SegmentSeq(first) <= SegmentSeq(a) <=> first <= a
      BY <1>1, SegOrder
    <3> QED BY <1>1, <1>2, <1>4, <1>6, <3>1 DEF LeftEdge, Larger
  <2>4. RightEdge(x, end) = SegmentSeq(e)
    <3>1. SegmentSeq(z) <= SegmentSeq(last) <=> z <= last
      BY <1>1, SegOrder
    <3> QED BY <1>1, <1>2, <1>5, <1>6, <3>1 DEF RightEdge, Smaller, e
  <2> HIDE DEF low
  <2> DEFINE d == e - low
             p == d * SegmentSize
  <2>5. /\ SegmentSeq(e) - SegmentSeq(low) = p /\ p \in Nat /\ p \div SegmentSize = d
    BY <1>7, <2>2, SegDifference
  <2>6. p < WordValues
    <3>1. d \in Nat /\ d <= BlockSegments
      BY <1>1, <1>7, <2>2, Sizes
    <3> HIDE DEF d
    <3>2. p <= BlockSegments * SegmentSize
      <4>1. CASE d = BlockSegments
        BY <2>5, <4>1
      <4>2. CASE d < BlockSegments
        <5>1. d * SegmentSize + SegmentSize <= BlockSegments * SegmentSize
          BY <3>1, <4>2, Sizes, Products
        <5>2. BlockSegments * SegmentSize \in Nat
          BY Sizes, Products
        <5> QED BY <1>6, <2>5, <5>1, <5>2
      <4> QED BY <3>1, <4>1, <4>2, Sizes
    <3>3. BlockSegments * SegmentSize \in Nat
      BY Sizes, Products
    <3> HIDE DEF p
    <3> QED BY <2>5, <3>2, <3>3, Sizes
  <2>7. NSeg(x, start, end) = d
    <3>1. NSeg(x, start, end) = (p % WordValues) \div SegmentSize
      BY <1>10, <2>3, <2>4, <2>5 DEF NSeg
    <3> HIDE DEF p
    <3>2. p % WordValues = p
      BY <2>5, <2>6, Sizes
    <3> QED BY <2>5, <3>1, <3>2
  <2>8. Held(x, n) = low..(e - 1)
    <3>1. ASSUME NEW k \in Nat
          PROVE  k \in Numbers(n) /\ Holds(x, k) <=> k \in low..(e - 1)
      BY <1>1, <1>3, <1>7, <1>8, <2>2
    <3>2. \A k \in low..(e - 1) : k \in Nat
      BY <2>2
    <3> QED BY <1>1, <3>1, <3>2 DEF Held
  <2>9. IsFiniteSet(low..(e - 1)) /\ Cardinality(low..(e - 1)) = d
    <3>1. low \in Int /\ e - 1 \in Int
      BY <1>7, <2>2
    <3>2. /\ IsFiniteSet(low..(e - 1))
          /\ Cardinality(low..(e - 1)) = IF low > e - 1 THEN 0 ELSE (e - 1) - low + 1
      BY <3>1, FS_Interval
    <3> QED BY <1>7, <2>2, <3>2
  <2> QED BY <2>7, <2>8, <2>9
<1> QED BY <1>9, <1>10

\* The segments of block n that the list names.
Named(n) == {k \in Numbers(n) : \E i \in 1..Len(rxBuffer.sack) : Holds(rxBuffer.sack[i], k)}

\* Nothing stored is of a block after n.
NothingAfter(n) == rxBuffer.stored \subseteq 1..(BlockEnd(n) - 1)

LEMMA SackFacts ==
    ASSUME BufferOK(rxBuffer), NEW i \in 1..Len(rxBuffer.sack)
    PROVE  LET x == rxBuffer.sack[i]
           IN  /\ x \in Pairs /\ x[1] \in Boundaries /\ x[2] \in Boundaries
               /\ x[1] \in Nat /\ x[2] \in Nat /\ x[1] < x[2] /\ rxBuffer.next < x[1]
               /\ x[1]..(x[2] - 1) \subseteq rxBuffer.stored
               /\ \A j \in 1..Len(rxBuffer.sack) : i /= j => Apart(x, rxBuffer.sack[j])
<1> DEFINE x == rxBuffer.sack[i]
<1>1. SackOK(rxBuffer.sack, rxBuffer.next, rxBuffer.stored)
  BY DEF BufferOK
<1>2. BlockOK(x, rxBuffer.next, rxBuffer.stored)
  BY <1>1, Zenon DEF SackOK
<1>3. \A j \in 1..Len(rxBuffer.sack) : i /= j => Apart(x, rxBuffer.sack[j])
  BY <1>1, Zenon DEF SackOK
<1>4. x \in Boundaries \X Boundaries
  BY <1>2, Zenon DEF BlockOK
<1>5. x[1] \in Nat /\ x[2] \in Nat /\ x[1] \in Boundaries /\ x[2] \in Boundaries
  BY <1>4, PairOf
<1>6. x[1] < x[2] /\ rxBuffer.next < x[1] /\ x[1]..(x[2] - 1) \subseteq rxBuffer.stored
  BY <1>2, Zenon DEF BlockOK
<1> QED BY <1>3, <1>4, <1>5, <1>6, Zenon DEF Pairs

\* Those that the first i SACK blocks name.
NamedUpTo(n, i) == {k \in Numbers(n) : \E j \in 1..i : Holds(rxBuffer.sack[j], k)}

\* No segment is named twice, because SACK blocks are apart.
LEMMA NamedGrows ==
    ASSUME BufferOK(rxBuffer), NEW n \in Nat
    PROVE  /\ Len(rxBuffer.sack) \in Nat /\ Len(rxBuffer.sack) <= 4
           /\ NamedUpTo(n, 0) = {} /\ Named(n) = NamedUpTo(n, Len(rxBuffer.sack))
           /\ \A i \in Nat : /\ IsFiniteSet(NamedUpTo(n, i))
                             /\ Cardinality(NamedUpTo(n, i)) \in Nat
           /\ \A i \in 1..Len(rxBuffer.sack) :
                 Cardinality(NamedUpTo(n, i))
                     = Cardinality(NamedUpTo(n, i - 1)) + Cardinality(Held(rxBuffer.sack[i], n))
<1> DEFINE sack == rxBuffer.sack
           l == Len(sack)
<1>1. l \in Nat /\ l <= 4
  <2>1. sack \in Seq(Pairs) /\ SackOK(sack, rxBuffer.next, rxBuffer.stored)
    BY DEF BufferOK
  <2>2. l <= MaxSackBlocks
    BY <2>1 DEF SackOK
  <2> QED BY <2>1, <2>2 DEF MaxSackBlocks
<1>2. NamedUpTo(n, 0) = {}
  <2>1. \A j : j \notin 1..0
    OBVIOUS
  <2> QED BY <2>1 DEF NamedUpTo
<1>3. Named(n) = NamedUpTo(n, l)
  BY DEF Named, NamedUpTo
<1>4. \A P : P \subseteq Numbers(n) => IsFiniteSet(P) /\ Cardinality(P) \in Nat
  <2>1. n * BlockSegments \in Int /\ (n + 1) * BlockSegments - 1 \in Int
    BY NumbersAre
  <2>2. IsFiniteSet(Numbers(n))
    BY <2>1, FS_Interval DEF Numbers
  <2> QED BY <2>2, FS_Subset, FS_CardinalityType
<1>5. \A i : NamedUpTo(n, i) \subseteq Numbers(n)
  BY DEF NamedUpTo
<1>6. \A x : Held(x, n) \subseteq Numbers(n)
  BY DEF Held
<1>7. ASSUME NEW i \in 1..l
      PROVE  Cardinality(NamedUpTo(n, i))
                 = Cardinality(NamedUpTo(n, i - 1)) + Cardinality(Held(sack[i], n))
  <2> DEFINE P == NamedUpTo(n, i - 1)
             H == Held(sack[i], n)
  <2>1. NamedUpTo(n, i) = P \cup H
    <3>1. \A j : j \in 1..i <=> j \in 1..(i - 1) \/ j = i
      BY <1>1
    <3>2. \A k \in Numbers(n) : (\E j \in 1..i : Holds(sack[j], k))
              <=> (\E j \in 1..(i - 1) : Holds(sack[j], k)) \/ Holds(sack[i], k)
      BY <3>1, Zenon
    <3> QED BY <3>2 DEF NamedUpTo, Held
  <2>2. P \cap H = {}
    <3> SUFFICES ASSUME NEW k \in Numbers(n), NEW j \in 1..(i - 1),
                        Holds(sack[j], k), Holds(sack[i], k)
                 PROVE  FALSE
      BY DEF NamedUpTo, Held
    <3>1. j \in 1..l /\ i /= j
      BY <1>1
    <3>2. Apart(sack[i], sack[j])
      BY <3>1, SackFacts
    <3>3. /\ sack[i][1] \in Nat /\ sack[i][2] \in Nat
          /\ sack[j][1] \in Nat /\ sack[j][2] \in Nat
      BY <3>1, SackFacts
    <3>4. SegmentSeq(k) \in Nat
      <4>1. k \in Nat
        BY NumbersAre
      <4> QED BY <4>1, SegmentSeqs
    <3>5. SegmentSize \in Nat /\ SegmentSize > 0
      BY Sizes
    <3> HIDE DEF sack
    <3>6. /\ sack[i][1] <= SegmentSeq(k) /\ SegmentSeq(k) + SegmentSize <= sack[i][2]
          /\ sack[j][1] <= SegmentSeq(k) /\ SegmentSeq(k) + SegmentSize <= sack[j][2]
      BY Zenon DEF Holds
    <3>7. sack[i][2] < sack[j][1] \/ sack[j][2] < sack[i][1]
      BY <3>2, Zenon DEF Apart
    <3> QED BY <3>3, <3>4, <3>5, <3>6, <3>7, NoOverlap
  <2>3. IsFiniteSet(P) /\ IsFiniteSet(H) /\ Cardinality(P) \in Nat /\ Cardinality(H) \in Nat
    BY <1>4, <1>5, <1>6, Zenon
  <2> HIDE DEF P, H
  <2> DEFINE cp == Cardinality(P)
             ch == Cardinality(H)
             both == Cardinality(P \cap H)
  <2>4. Cardinality(P \cup H) = cp + ch - both
    BY <2>3, FS_Union
  <2>5. both = 0 /\ cp \in Nat /\ ch \in Nat
    BY <2>2, <2>3, FS_EmptySet
  <2> HIDE DEF cp, ch, both
  <2>6. Cardinality(P \cup H) = cp + ch
    BY <2>4, <2>5
  <2> QED BY <2>1, <2>6 DEF cp, ch, P, H
<1> QED BY <1>1, <1>2, <1>3, <1>4, <1>5, <1>7

LEMMA CoveredCounts ==
    ASSUME BufferOK(rxBuffer), NEW n \in Nat, n < Blocks, NothingAfter(n)
    PROVE  Covered(BlockStart(n), BlockEnd(n)) = Cardinality(Named(n))
<1> DEFINE sack == rxBuffer.sack
           l == Len(sack)
           start == BlockStart(n)
           end == BlockEnd(n)
           c(i) == Cardinality(NamedUpTo(n, i))
<1>1. /\ l \in Nat /\ Named(n) = NamedUpTo(n, l) /\ c(0) = 0
      /\ \A i \in 1..l : c(i) = c(i - 1) + Cardinality(Held(sack[i], n))
  BY NamedGrows, FS_EmptySet
<1>2. start \in Nat /\ end \in Nat
  BY BlockIs, Ends
<1>3. ASSUME NEW i \in 1..l PROVE NSeg(sack[i], start, end) = Cardinality(Held(sack[i], n))
  <2> DEFINE x == sack[i]
  <2>1. x \in Pairs /\ x[1] \in Nat /\ x[2] \in Nat /\ x[1] < x[2]
        /\ x[1]..(x[2] - 1) \subseteq rxBuffer.stored
    BY SackFacts
  <2> HIDE DEF x
  <2>2. x[1] < end
    <3>1. x[2] - 1 \in x[1]..(x[2] - 1)
      BY <2>1
    <3>2. x[2] - 1 \in 1..(end - 1)
      BY <2>1, <3>1 DEF NothingAfter
    <3> QED BY <1>2, <2>1, <3>2
  <2> QED BY <2>1, <2>2, NSegCounts DEF x
<1>4. PICK f \in [0..l -> Nat] : /\ f[0] = 0 /\ Covered(start, end) = f[l]
                                /\ \A i \in 1..l : f[i] = f[i - 1] + NSeg(sack[i], start, end)
  BY <1>2, CoveredIs
<1> HIDE DEF c
<1> DEFINE T == {i \in 0..l : f[i] /= c(i)}
<1>5. T = {}
  <2> SUFFICES ASSUME T /= {} PROVE FALSE
    OBVIOUS
  <2> HIDE DEF l, sack
  <2>1. PICK i \in T : \A m \in T : i <= m
    <3>1. T \in SUBSET Nat
      BY <1>1
    <3> QED BY <3>1, Least
  <2>2. i \in 0..l /\ i /= 0
    BY <1>1, <1>4, <2>1
  <2>3. i \in 1..l /\ i - 1 \in 0..l /\ ~(i <= i - 1)
    BY <1>1, <2>2
  <2>4. f[i - 1] = c(i - 1)
    BY <2>1, <2>3
  <2>5. f[i] = c(i)
    BY <1>1, <1>3, <1>4, <2>3, <2>4
  <2> QED BY <2>1, <2>5
<1>6. f[l] = c(l)
  <2> HIDE DEF l
  <2>1. l \in 0..l
    BY <1>1
  <2> QED BY <1>5, <2>1
<1> QED BY <1>1, <1>4, <1>6 DEF c

\* The segments a word can count.
WordSegments == WordValues \div SegmentSize

LEMMA Quotient ==
    ASSUME NEW q \in Nat, NEW s \in Nat, s > 0, NEW r \in Nat, r < s
    PROVE  (q * s + r) \div s = q
<1> DEFINE y == q * s + r
           z == y \div s
<1>1. q * s \in Nat /\ y \in Nat
  BY Products
<1> HIDE DEF y
<1>2. z \in Nat /\ y % s \in 0..(s - 1) /\ y = z * s + (y % s)
  BY <1>1
<1> HIDE DEF z
<1>3. z * s \in Nat
  BY <1>2, Products
<1>4. z < q => z * s + s <= q * s
  BY <1>2, Products
<1>5. q < z => q * s + s <= z * s
  BY <1>2, Products
<1>6. y = q * s + r
  BY DEF y
<1> DEFINE a == q * s
           b == z * s
           c == y % s
<1>7. /\ a \in Nat /\ b \in Nat /\ c \in Nat /\ c < s /\ a + r = b + c
      /\ (z < q => b + s <= a) /\ (q < z => a + s <= b)
  BY <1>1, <1>2, <1>3, <1>4, <1>5, <1>6
<1> HIDE DEF a, b, c
<1>8. z = q
  BY <1>2, <1>7
<1> QED BY <1>8 DEF z, y

\* A word that counts the octets of four streams counts their segments, and nSeg of a
\* difference that is d segments below zero is that much below the word.
LEMMA WordIs ==
    ASSUME 4 * StreamEnd <= WordValues
    PROVE  /\ WordSegments \in Nat /\ 4 * (Blocks * BlockSegments) <= WordSegments
           /\ \E p \in Nat : /\ p <= WordValues /\ WordValues < p + SegmentSize
                            /\ (SegmentSize = 1 => p = WordSegments)
                            /\ (SegmentSize = 2 => p = 2 * WordSegments)
                            /\ (SegmentSize = 3 => p = 3 * WordSegments)
                            /\ (SegmentSize >= 4 => p >= 4 * WordSegments)
           /\ \A d \in 1..(Blocks * BlockSegments) :
                  ((-(d * SegmentSize)) % WordValues) \div SegmentSize = WordSegments - d
<1> DEFINE W == WordValues
           S == SegmentSize
           N == Blocks * BlockSegments
           Q == WordSegments
           p == Q * S
           r == W % S
<1>1. W \in Nat /\ S \in Nat /\ S > 0 /\ N \in Nat
  <2>1. N \in Nat
    BY Sizes, Products
  <2> QED BY <2>1, Sizes
<1>2. Q \in Nat /\ r \in Nat /\ r < S /\ W = p + r /\ p \in Nat
  <2> HIDE DEF W, S
  <2>1. Q = W \div S
    BY DEF WordSegments, W, S
  <2>2. W \div S \in Nat /\ W % S \in 0..(S - 1) /\ W = (W \div S) * S + (W % S)
    BY <1>1
  <2>3. p \in Nat
    BY <1>1, <2>1, <2>2, Products
  <2> QED BY <1>1, <2>1, <2>2, <2>3
<1>3. StreamEnd = 1 + N * S /\ N * S \in Nat
  BY <1>1, Products DEF StreamEnd, SegmentSeq
<1>4. 4 + 4 * (N * S) <= W
  BY <1>1, <1>3
<1> HIDE DEF W, S, N, Q, r
<1>5. 4 * N <= Q
  <2> SUFFICES ASSUME Q + 1 <= 4 * N PROVE FALSE
    BY <1>1, <1>2
  <2> DEFINE F == 4 * N
  <2>1. F \in Nat /\ F * S = 4 * (N * S)
    BY <1>1
  <2>2. Q < F
    BY <1>1, <1>2, <2>1
  <2> HIDE DEF F
  <2>3. p + S <= F * S
    BY <1>1, <1>2, <2>1, <2>2, Products
  <2> HIDE DEF p
  <2> DEFINE o == N * S
  <2>4. o \in Nat /\ p + S <= 4 * o /\ 4 + 4 * o <= W
    BY <1>3, <1>4, <2>1, <2>3
  <2> HIDE DEF o
  <2> QED BY <1>1, <1>2, <2>4
<1>6. S >= 4 => p >= 4 * Q
  <2>1. CASE S = 4
    BY <1>2, <2>1
  <2>2. CASE S > 4
    <3>1. 4 * Q + Q <= S * Q
      BY <1>1, <1>2, <2>2, Products
    <3>2. S * Q = Q * S
      BY <1>1, <1>2
    <3> HIDE DEF p
    <3> QED BY <1>2, <3>1, <3>2 DEF p
  <2> QED BY <1>1, <2>1, <2>2
<1>7. ASSUME NEW d \in 1..N PROVE ((-(d * S)) % W) \div S = Q - d
  <2> DEFINE o == d * S
             e == Q - d
  <2>1. d \in Nat /\ e \in Nat /\ o \in Nat /\ d > 0
    <3>1. d \in Nat /\ d > 0
      BY <1>1
    <3>2. e \in Nat
      BY <1>1, <1>2, <1>5, <3>1
    <3> QED BY <1>1, <3>1, <3>2, Products
  <2>2. e * S = p - o
    <3>1. e * S = Q * S - d * S
      BY <1>1, <1>2, <2>1
    <3> QED BY <3>1
  <2>3. 0 < o /\ o <= p
    <3>1. 0 * S + S <= d * S
      BY <1>1, <2>1, Products
    <3>2. 0 * S = 0
      BY <1>1
    <3>3. e * S \in Nat
      BY <1>1, <2>1, Products
    <3> HIDE DEF e, p, o
    <3>4. S <= o
      BY <1>1, <3>1, <3>2 DEF o
    <3> QED BY <1>1, <1>2, <2>1, <2>2, <3>3, <3>4
  <2> HIDE DEF o, p
  <2>4. (-o) % W = W - o
    <3>1. W - o \in Nat /\ W - o < W /\ W > 0
      BY <1>1, <1>2, <2>1, <2>3
    <3>2. (-o) % W = (W - o) % W
      <4>1. -o = (-1) * W + (W - o)
        BY <1>1, <2>1
      <4> QED BY <1>1, <2>1, <3>1, <4>1
    <3>3. (W - o) % W = W - o
      BY <1>1, <3>1
    <3> QED BY <3>2, <3>3
  <2>5. W - o = e * S + r
    <3> HIDE DEF e
    <3> QED BY <1>1, <1>2, <2>1, <2>2, <2>3
  <2>6. (e * S + r) \div S = e
    <3> HIDE DEF e
    <3> QED BY <1>1, <1>2, <2>1, Quotient
  <2> QED BY <2>4, <2>5, <2>6 DEF o
<1>8. p <= W /\ W < p + S
  <2> HIDE DEF p
  <2> QED BY <1>1, <1>2
<1>9. (S = 1 => p = Q) /\ (S = 2 => p = 2 * Q) /\ (S = 3 => p = 3 * Q)
  BY <1>2
<1>10. \E m \in Nat : /\ m <= W /\ W < m + S
                      /\ (S = 1 => m = Q) /\ (S = 2 => m = 2 * Q) /\ (S = 3 => m = 3 * Q)
                      /\ (S >= 4 => m >= 4 * Q)
  <2> HIDE DEF p
  <2> QED BY <1>2, <1>6, <1>8, <1>9
<1> QED BY <1>2, <1>5, <1>7, <1>10 DEF W, S, N, Q

\* The segments of the transfer after block n.
After(n) == Blocks * BlockSegments - (n + 1) * BlockSegments

\* A SACK block beyond block n holds nothing of it, and the difference wraps.
LEMMA NSegWraps ==
    ASSUME 4 * StreamEnd <= WordValues, NEW n \in Nat, n < Blocks, NEW x \in Pairs,
           x[1] < x[2], BlockEnd(n) <= x[1]
    PROVE  /\ Held(x, n) = {}
           /\ \/ NSeg(x, BlockStart(n), BlockEnd(n)) = 0
              \/ \E d \in Nat : /\ 1 <= d /\ d <= After(n)
                               /\ NSeg(x, BlockStart(n), BlockEnd(n)) = WordSegments - d
<1> DEFINE N == Blocks * BlockSegments
           last == (n + 1) * BlockSegments
           start == BlockStart(n)
           end == BlockEnd(n)
<1>1. last \in Nat /\ N \in Nat /\ After(n) = N - last
  <2>1. last \in Nat /\ N \in Nat
    BY Sizes, NumbersAre, Products
  <2> QED BY <2>1 DEF After
<1>2. /\ start \in Nat /\ end \in Nat /\ start + SegmentSize <= end
      /\ end = SegmentSeq(last) /\ SegmentSize \in Nat /\ SegmentSize > 0
  BY BlockIs, Ends, Sizes DEF BlockEnd
<1>3. x[1] \in Nat /\ x[2] \in Nat /\ x[1] \in Boundaries /\ x[1] <= StreamEnd
  BY PairOf, Ends DEF Pairs
<1>4. PICK a \in Nat : x[1] = SegmentSeq(a)
  BY <1>3, IndexIs
<1> HIDE DEF last, N
<1>5. last <= a /\ a <= N
  <2>1. StreamEnd = SegmentSeq(N)
    BY DEF StreamEnd, N
  <2> QED BY <1>1, <1>2, <1>3, <1>4, <2>1, SegOrder
<1>6. Held(x, n) = {}
  <2> SUFFICES ASSUME NEW k \in Numbers(n), Holds(x, k) PROVE FALSE
    BY DEF Held
  <2>1. k \in Nat /\ SegmentSeq(k) < end
    BY NumbersAre
  <2>2. SegmentSeq(k) \in Nat
    BY <2>1, SegmentSeqs
  <2> QED BY <1>2, <1>3, <2>1, <2>2 DEF Holds
<1> HIDE DEF start, end
<1>7. LeftEdge(x, start) = x[1] /\ RightEdge(x, end) = end /\ ~(x[2] < start)
  BY <1>2, <1>3 DEF LeftEdge, RightEdge, Larger, Smaller, start, end
<1> DEFINE d == a - last
           o == d * SegmentSize
<1>8. d \in Nat /\ d <= N - last /\ d <= N /\ o \in Nat /\ x[1] - end = o
  <2>1. d \in Nat /\ d <= N - last /\ d <= N
    BY <1>1, <1>5
  <2>2. o \in Nat /\ x[1] - end = o
    BY <1>1, <1>2, <1>4, <1>5, SegDifference
  <2> QED BY <2>1, <2>2
<1>9. NSeg(x, start, end) = ((-o) % WordValues) \div SegmentSize
  <2>1. end - x[1] = -o
    <3> HIDE DEF o
    <3> QED BY <1>2, <1>3, <1>8
  <2> HIDE DEF o
  <2> QED BY <1>7, <2>1 DEF NSeg
<1>10. CASE d = 0
  <2>1. o = 0
    BY <1>2, <1>10
  <2> HIDE DEF o
  <2>2. (-o) % WordValues = 0
    BY <2>1, Sizes
  <2>3. 0 \div SegmentSize = 0
    BY <1>2
  <2> QED BY <1>6, <1>9, <2>2, <2>3 DEF start, end
<1>11. CASE d /= 0
  <2> HIDE DEF d
  <2>1. d \in 1..N
    BY <1>1, <1>8, <1>11
  <2>2. NSeg(x, start, end) = WordSegments - d
    BY <1>9, <2>1, WordIs DEF N
  <2>3. 1 <= d /\ d <= After(n)
    BY <1>1, <1>8, <1>11
  <2> QED BY <1>6, <1>8, <2>2, <2>3 DEF start, end
<1> QED BY <1>10, <1>11

\* Whether the count c of l SACK blocks is right, but for the k that lie beyond block n.
Wraps(n, c, l) ==
    \E k \in 0..l, d \in Nat :
        /\ k <= d /\ d <= k * After(n)
        /\ c = Cardinality(NamedUpTo(n, l)) + k * WordSegments - d

LEMMA CoveredWraps ==
    ASSUME BufferOK(rxBuffer), 4 * StreamEnd <= WordValues, NEW n \in Nat, n < Blocks
    PROVE  Wraps(n, Covered(BlockStart(n), BlockEnd(n)), Len(rxBuffer.sack))
<1> DEFINE sack == rxBuffer.sack
           l == Len(sack)
           start == BlockStart(n)
           end == BlockEnd(n)
           c(i) == Cardinality(NamedUpTo(n, i))
           Q == WordSegments
           R == After(n)
<1>1. /\ l \in Nat /\ c(0) = 0 /\ \A i \in Nat : c(i) \in Nat
      /\ \A i \in 1..l : c(i) = c(i - 1) + Cardinality(Held(sack[i], n))
  BY NamedGrows, FS_EmptySet
<1>2. start \in Nat /\ end \in Nat
  BY BlockIs, Ends
<1>3. Q \in Nat /\ R \in Nat
  <2> DEFINE last == (n + 1) * BlockSegments
             N == Blocks * BlockSegments
  <2>1. last \in Nat /\ N \in Nat
    BY Sizes, NumbersAre, Products
  <2>2. last <= N
    <3>1. CASE n + 1 = Blocks
      BY <2>1, <3>1
    <3>2. CASE n + 1 < Blocks
      <4>1. last + BlockSegments <= N
        BY <3>2, Sizes, Products
      <4> HIDE DEF last, N
      <4> QED BY <2>1, <4>1, Sizes
    <3> QED BY <3>1, <3>2, Sizes
  <2> HIDE DEF last, N
  <2>3. R = N - last
    BY DEF After, N, last
  <2>4. R \in Nat
    BY <2>1, <2>2, <2>3
  <2> QED BY <2>4, WordIs
<1>4. PICK f \in [0..l -> Nat] : /\ f[0] = 0 /\ Covered(start, end) = f[l]
                                /\ \A i \in 1..l : f[i] = f[i - 1] + NSeg(sack[i], start, end)
  BY <1>2, CoveredIs
<1>5. ASSUME NEW i \in 1..l
      PROVE  \/ f[i] = f[i - 1] + (c(i) - c(i - 1))
             \/ \E d \in Nat : /\ 1 <= d /\ d <= R /\ c(i) = c(i - 1)
                              /\ f[i] = f[i - 1] + (Q - d)
  <2> DEFINE x == sack[i]
             h == Cardinality(Held(x, n))
  <2>1. x \in Pairs /\ x[1] \in Nat /\ x[2] \in Nat /\ x[1] < x[2]
    BY SackFacts
  <2>2. c(i) = c(i - 1) + h /\ c(i - 1) \in Nat /\ f[i] = f[i - 1] + NSeg(x, start, end)
    <3>1. i - 1 \in Nat
      <4>1. l \in Nat
        BY <1>1
      <4> HIDE DEF l, c
      <4> QED BY <4>1
    <3>2. c(i) = c(i - 1) + h
      BY <1>1, Zenon
    <3>3. c(i - 1) \in Nat
      BY <1>1, <3>1, Zenon
    <3>4. f[i] = f[i - 1] + NSeg(x, start, end)
      BY <1>4, Zenon
    <3> QED BY <3>2, <3>3, <3>4, Zenon
  <2> HIDE DEF x
  <2>3. CASE x[1] < end
    <3>1. NSeg(x, start, end) = h /\ h \in Nat
      BY <2>1, <2>3, NSegCounts, FS_CardinalityType
    <3> HIDE DEF h, c
    <3>2. h = c(i) - c(i - 1)
      BY <2>2, <3>1
    <3> QED BY <2>2, <3>1, <3>2
  <2>4. CASE end <= x[1]
    <3>1. h = 0
      BY <2>1, <2>4, NSegWraps, FS_EmptySet
    <3> HIDE DEF h, c
    <3>2. c(i) = c(i - 1)
      BY <2>2, <3>1
    <3>3. CASE NSeg(x, start, end) = 0
      <4>1. f[i] = f[i - 1] + 0 /\ c(i) - c(i - 1) = 0
        BY <2>2, <3>2, <3>3
      <4> QED BY <4>1
    <3>4. ASSUME NEW d \in Nat, 1 <= d, d <= R, NSeg(x, start, end) = Q - d
          PROVE  1 <= d /\ d <= R /\ c(i) = c(i - 1) /\ f[i] = f[i - 1] + (Q - d)
      BY <2>2, <3>2, <3>4
    <3> QED BY <2>1, <2>4, <3>3, <3>4, NSegWraps
  <2> QED BY <1>2, <2>1, <2>3, <2>4
<1>6. \A i \in 0..l : f[i] \in Nat
  BY <1>4
<1> HIDE DEF c, R, Q
<1> DEFINE Good(i) == \E k \in 0..i, d \in Nat : /\ k <= d /\ d <= k * R
                                                /\ f[i] = c(i) + k * Q - d
<1>7. Good(0)
  <2>1. 0 \in 0..0 /\ 0 <= 0 * R /\ 0 * Q = 0
    BY <1>3
  <2>2. f[0] = c(0) + 0 * Q - 0
    BY <1>1, <1>4, <2>1
  <2> QED BY <2>1, <2>2
<1>8. ASSUME NEW i \in 1..l, Good(i - 1) PROVE Good(i)
  <2>1. /\ i \in Nat /\ i - 1 \in Nat /\ f[i] \in Nat /\ f[i - 1] \in Nat
        /\ c(i) \in Nat /\ c(i - 1) \in Nat
    <3>1. i \in Nat /\ i - 1 \in Nat /\ i \in 0..l /\ i - 1 \in 0..l
      BY <1>1
    <3> QED BY <1>1, <1>6, <3>1
  <2>2. PICK k \in 0..(i - 1), d \in Nat : /\ k <= d /\ d <= k * R
                                          /\ f[i - 1] = c(i - 1) + k * Q - d
    BY <1>8
  <2>3. k \in Nat /\ k \in 0..i /\ k + 1 \in 0..i
    BY <2>1, <2>2
  <2>4. /\ k * Q \in Nat /\ (k + 1) * Q = k * Q + Q
        /\ k * R \in Nat /\ (k + 1) * R = k * R + R
    BY <1>3, <2>3, Products
  <2>5. CASE f[i] = f[i - 1] + (c(i) - c(i - 1))
    <3> DEFINE kq == k * Q
    <3>1. /\ kq \in Nat /\ f[i - 1] = c(i - 1) + kq - d
          /\ c(i) \in Nat /\ c(i - 1) \in Nat
      BY <2>1, <2>2, <2>4, Zenon
    <3>2. f[i] = c(i) + kq - d
      <4> HIDE DEF kq, c
      <4> QED BY <2>2, <2>5, <3>1
    <3> QED BY <2>2, <2>3, <3>2, Zenon
  <2>6. ASSUME NEW e \in Nat, 1 <= e, e <= R, c(i) = c(i - 1), f[i] = f[i - 1] + (Q - e)
        PROVE  Good(i)
    <3>1. f[i] = c(i) + (k + 1) * Q - (d + e)
      BY <1>3, <2>1, <2>2, <2>4, <2>6
    <3>2. k + 1 <= d + e /\ d + e <= (k + 1) * R /\ d + e \in Nat
      BY <1>3, <2>2, <2>3, <2>4, <2>6
    <3> QED BY <2>3, <3>1, <3>2
  <2> QED BY <1>5, <2>5, <2>6
<1> HIDE DEF Good
<1> DEFINE T == {i \in 0..l : ~Good(i)}
<1>9. T = {}
  <2> SUFFICES ASSUME T /= {} PROVE FALSE
    OBVIOUS
  <2> HIDE DEF l, sack
  <2>1. PICK i \in T : \A m \in T : i <= m
    <3>1. T \in SUBSET Nat
      BY <1>1
    <3> QED BY <3>1, Least
  <2>2. i \in 0..l /\ i /= 0
    BY <1>7, <2>1
  <2>3. i \in 1..l /\ i - 1 \in 0..l /\ ~(i <= i - 1)
    BY <1>1, <2>2
  <2>4. Good(i - 1)
    BY <2>1, <2>3
  <2> QED BY <1>8, <2>1, <2>3, <2>4
<1>10. Good(l)
  <2> HIDE DEF l
  <2>1. l \in 0..l
    BY <1>1
  <2> QED BY <1>9, <2>1
<1> QED BY <1>4, <1>10 DEF Good, Wraps, c, Q, R

\* The segments of block n, from the one expected on, that the list does not name.
Unnamed(n) == {k \in Numbers(n) : rxBuffer.next <= SegmentSeq(k) /\ k \notin Named(n)}

\* What is named is stored, after what is expected.
LEMMA NamedIs ==
    ASSUME BufferOK(rxBuffer), NEW n \in Nat, NEW k \in Named(n)
    PROVE  /\ k \in Nat /\ rxBuffer.next < SegmentSeq(k)
           /\ Octets(SegmentSeq(k)) \subseteq rxBuffer.stored
<1>1. k \in Nat
  BY NumbersAre DEF Named
<1>2. PICK i \in 1..Len(rxBuffer.sack) : Holds(rxBuffer.sack[i], k)
  BY DEF Named
<1> DEFINE x == rxBuffer.sack[i]
<1>3. /\ x[1] \in Nat /\ x[2] \in Nat /\ rxBuffer.next < x[1]
      /\ x[1]..(x[2] - 1) \subseteq rxBuffer.stored
  BY SackFacts
<1>4. SegmentSeq(k) \in Nat /\ SegmentSize \in Nat /\ rxBuffer.next \in Nat
  BY <1>1, SegmentSeqs, Sizes, Ends DEF BufferOK
<1>5. x[1] <= SegmentSeq(k) /\ SegmentSeq(k) + SegmentSize <= x[2]
  BY <1>2 DEF Holds
<1> HIDE DEF x
<1>6. Octets(SegmentSeq(k)) \subseteq x[1]..(x[2] - 1)
  BY <1>3, <1>4, <1>5 DEF Octets
<1> QED BY <1>1, <1>3, <1>4, <1>5, <1>6

LEMMA MissingUnnamed ==
    ASSUME BufferOK(rxBuffer), rxBuffer.next \in Boundaries, NEW n \in Nat, n < Blocks,
           NEW s \in Missing(n)
    PROVE  \E k \in Unnamed(n) : s = SegmentSeq(k)
<1>1. s \in Block(n) /\ ~(Octets(s) \subseteq rxBuffer.stored)
  BY DEF Missing
<1>2. PICK k \in Numbers(n) : s = SegmentSeq(k)
  BY <1>1, NumbersAre
<1>3. k \notin Named(n)
  BY <1>1, <1>2, NamedIs
<1>4. s \in Boundaries /\ s \in Nat /\ 1 <= s /\ rxBuffer.next \in Nat /\ SegmentSize \in Nat
  <2>1. s \in Boundaries
    BY <1>1, BlockIs, SegmentBounds
  <2> QED BY <2>1, Ends, Sizes
<1>5. rxBuffer.next <= s
  <2> SUFFICES ASSUME s < rxBuffer.next PROVE FALSE
    BY <1>4
  <2>1. s + SegmentSize <= rxBuffer.next
    BY <1>4, Ends
  <2>2. Octets(s) \subseteq 1..(rxBuffer.next - 1)
    BY <1>4, <2>1 DEF Octets
  <2>3. 1..(rxBuffer.next - 1) \subseteq rxBuffer.stored
    BY DEF BufferOK
  <2> QED BY <1>1, <2>2, <2>3
<1> QED BY <1>2, <1>3, <1>5 DEF Unnamed

\* The window that uncoveredSegs takes what is covered from: the segments of the block
\* from the one expected on, named or not.
LEMMA WindowIs ==
    ASSUME BufferOK(rxBuffer), rxBuffer.next \in Boundaries, NEW n \in Nat, n < Blocks,
           ~Behind(n)
    PROVE  /\ IsFiniteSet(Unnamed(n)) /\ Cardinality(Unnamed(n)) \in Nat
           /\ Cardinality(Named(n)) \in Nat
           /\ Cardinality(Unnamed(n)) <= BlockSegments
           /\ \E window \in Nat :
                  /\ window = Cardinality(Unnamed(n)) + Cardinality(Named(n))
                  /\ Uncovered(BlockStart(n), BlockEnd(n))
                         = (window - Covered(BlockStart(n), BlockEnd(n))) % WordValues
<1> DEFINE first == n * BlockSegments
           last == (n + 1) * BlockSegments
           start == BlockStart(n)
           end == BlockEnd(n)
           ahead == {k \in Numbers(n) : rxBuffer.next <= SegmentSeq(k)}
           window == IF rxBuffer.next < start THEN BlockSegments
                     ELSE (end - SegmentSize - rxBuffer.next) \div SegmentSize + 1
<1>1. /\ first \in Nat /\ last = first + BlockSegments /\ last \in Nat
      /\ Numbers(n) \in SUBSET Nat /\ last - 1 \in Nat
  <2> HIDE DEF ahead, window
  <2>1. first \in Nat /\ last = first + BlockSegments
    BY Sizes, Products
  <2>2. BlockSegments \in Nat /\ BlockSegments > 0
    BY Sizes
  <2>3. Numbers(n) \in SUBSET Nat
    BY NumbersAre
  <2> HIDE DEF first, last
  <2> QED BY <2>1, <2>2, <2>3
<1>2. start = SegmentSeq(first) /\ end = SegmentSeq(last)
  BY DEF BlockStart, BlockEnd
<1>3. \A k \in Nat : k \in Numbers(n) <=> first <= k /\ k <= last - 1
  BY <1>1 DEF Numbers
<1> HIDE DEF first, last
<1>4. PICK a \in Nat : rxBuffer.next = SegmentSeq(a)
  BY IndexIs
<1>5. /\ start \in Nat /\ end \in Nat /\ rxBuffer.next \in Nat
      /\ SegmentSize \in Nat /\ SegmentSize > 0
  BY <1>1, <1>2, <1>4, SegmentSeqs, Sizes
<1>6. \A k \in Nat : rxBuffer.next <= SegmentSeq(k) <=> a <= k
  BY <1>4, SegOrder
<1>7. end - SegmentSize = SegmentSeq(last - 1)
  <2>1. SegmentSeq((last - 1) + 1) = SegmentSeq(last - 1) + SegmentSize
    BY <1>1, SegmentSeqs
  <2>2. (last - 1) + 1 = last /\ SegmentSeq(last - 1) \in Nat
    BY <1>1, SegmentSeqs
  <2> QED BY <1>2, <1>5, <2>1, <2>2
<1>8. a <= last - 1
  <2>1. SegmentSeq(a) <= SegmentSeq(last - 1)
    BY <1>4, <1>5, <1>7 DEF Behind
  <2> QED BY <1>1, <2>1, SegOrder
<1>9. window \in Nat /\ window <= BlockSegments /\ IsFiniteSet(ahead) /\ Cardinality(ahead) = window
  <2>1. CASE rxBuffer.next < start
    <3>1. a <= first
      BY <1>1, <1>2, <1>5, <1>6, <2>1
    <3>2. ahead = first..(last - 1)
      BY <1>1, <1>3, <1>6, <3>1
    <3>3. first \in Int /\ last - 1 \in Int
      BY <1>1
    <3>4. IsFiniteSet(first..(last - 1)) /\ Cardinality(first..(last - 1))
              = IF first > last - 1 THEN 0 ELSE (last - 1) - first + 1
      BY <3>3, FS_Interval
    <3>5. window = BlockSegments
      BY <2>1
    <3> HIDE DEF ahead, window
    <3> QED BY <1>1, <3>2, <3>4, <3>5, Sizes
  <2>2. CASE ~(rxBuffer.next < start)
    <3>1. first <= a
      <4>1. SegmentSeq(first) <= SegmentSeq(a)
        BY <1>2, <1>4, <1>5, <2>2
      <4> QED BY <1>1, <4>1, SegOrder
    <3>2. ahead = a..(last - 1)
      BY <1>1, <1>3, <1>6, <1>8, <3>1
    <3>3. a \in Int /\ last - 1 \in Int
      BY <1>1
    <3>4. IsFiniteSet(a..(last - 1)) /\ Cardinality(a..(last - 1))
              = IF a > last - 1 THEN 0 ELSE (last - 1) - a + 1
      BY <3>3, FS_Interval
    <3>5. window = ((last - 1) - a) + 1
      <4> DEFINE p == ((last - 1) - a) * SegmentSize
      <4>1. SegmentSeq(last - 1) - SegmentSeq(a) = p /\ p \div SegmentSize = (last - 1) - a
        BY <1>1, <1>8, SegDifference
      <4>2. end - SegmentSize - rxBuffer.next = p
        BY <1>4, <1>7, <4>1
      <4> HIDE DEF p
      <4> QED BY <2>2, <4>1, <4>2
    <3> HIDE DEF ahead, window
    <3> QED BY <1>1, <1>8, <3>1, <3>2, <3>4, <3>5, Sizes
  <2> QED BY <2>1, <2>2
<1>10. IsFiniteSet(Named(n))
  BY NamedGrows
<1>11. Named(n) \subseteq ahead
  <2> SUFFICES ASSUME NEW k \in Named(n) PROVE k \in ahead
    OBVIOUS
  <2>1. k \in Numbers(n)
    BY DEF Named
  <2>2. rxBuffer.next < SegmentSeq(k) /\ k \in Nat
    BY NamedIs
  <2>3. SegmentSeq(k) \in Nat
    BY <2>2, SegmentSeqs
  <2> QED BY <1>5, <2>1, <2>2, <2>3
<1>12. Unnamed(n) = ahead \ Named(n)
  BY DEF Unnamed
<1>13. Uncovered(start, end) = (window - Covered(start, end)) % WordValues
  BY DEF Uncovered
<1> HIDE DEF ahead, window
<1> DEFINE c == Cardinality(Named(n))
<1>14. c \in Nat /\ c <= window
  BY <1>9, <1>10, <1>11, FS_Subset, FS_CardinalityType
<1>15. IsFiniteSet(Unnamed(n)) /\ Cardinality(Unnamed(n)) = window - c
  <2>1. ahead \cap Named(n) = Named(n)
    BY <1>11
  <2>2. /\ IsFiniteSet(ahead \ Named(n))
        /\ Cardinality(ahead \ Named(n)) = Cardinality(ahead) - Cardinality(ahead \cap Named(n))
    BY <1>9, <1>10, FS_Difference
  <2> QED BY <1>9, <1>12, <2>1, <2>2
<1> HIDE DEF c
<1>16. /\ Cardinality(Unnamed(n)) \in Nat /\ Cardinality(Unnamed(n)) <= BlockSegments
       /\ Cardinality(Unnamed(n)) + c = window
  <2> DEFINE v == Cardinality(Unnamed(n))
  <2>1. v = window - c
    BY <1>15
  <2>2. window \in Nat /\ window <= BlockSegments
    BY <1>9
  <2> HIDE DEF v
  <2>3. v \in Nat /\ v <= BlockSegments /\ v + c = window
    BY <1>14, <2>1, <2>2, Sizes
  <2> QED BY <2>3 DEF v
<1>17. /\ window \in Nat /\ window = Cardinality(Unnamed(n)) + c
       /\ Uncovered(start, end) = (window - Covered(start, end)) % WordValues
  BY <1>9, <1>13, <1>16, Zenon
<1> QED BY <1>14, <1>15, <1>16, <1>17, Zenon DEF c

\* A block has fewer segments than a word has values.
LEMMA BlockFits == BlockSegments < WordValues
<1>1. BlockSegments * SegmentSize \in Nat /\ BlockSegments <= BlockSegments * SegmentSize
  <2>1. BlockSegments * SegmentSize = SegmentSize * BlockSegments
    BY Sizes
  <2>2. SegmentSize * BlockSegments \in Nat /\ 1 * BlockSegments = BlockSegments
    BY Sizes, Products
  <2>3. CASE SegmentSize = 1
    BY <2>1, <2>2, <2>3, Sizes
  <2>4. CASE 1 < SegmentSize
    <3>1. 1 * BlockSegments + BlockSegments <= SegmentSize * BlockSegments
      BY <2>4, Sizes, Products
    <3> QED BY <2>1, <2>2, <3>1, Sizes
  <2> QED BY <2>3, <2>4, Sizes
<1> QED BY <1>1, Sizes

\* uncoveredSegs counts what the list does not name.
LEMMA UncoveredCounts ==
    ASSUME BufferOK(rxBuffer), rxBuffer.next \in Boundaries, NEW n \in Nat, n < Blocks,
           NothingAfter(n), ~Behind(n)
    PROVE  /\ IsFiniteSet(Unnamed(n))
           /\ Uncovered(BlockStart(n), BlockEnd(n)) = Cardinality(Unnamed(n))
<1> DEFINE v == Cardinality(Unnamed(n))
           c == Cardinality(Named(n))
<1>1. /\ IsFiniteSet(Unnamed(n)) /\ v \in Nat /\ c \in Nat /\ v <= BlockSegments
  BY WindowIs
<1>2. PICK w \in Nat : w = v + c /\ Uncovered(BlockStart(n), BlockEnd(n)) = (w - c) % WordValues
  BY WindowIs, CoveredCounts
<1> HIDE DEF v, c
<1>3. (w - c) % WordValues = v
  <2>1. w - c = v /\ v < WordValues /\ WordValues \in Nat
    BY <1>1, <1>2, BlockFits, Sizes
  <2>2. v % WordValues = v
    BY <1>1, <2>1
  <2> QED BY <2>1, <2>2
<1> QED BY <1>1, <1>2, <1>3 DEF v

\* However many SACK blocks lie beyond block n, the differences that wrap never add up to
\* a count of none or one where there is another: they come to whole words less what those
\* blocks are away, and a stream is short of that.
LEMMA UncoveredWraps ==
    ASSUME BufferOK(rxBuffer), rxBuffer.next \in Boundaries, NEW n \in Nat, n < Blocks,
           ~Behind(n), 4 * StreamEnd <= WordValues,
           ~(Uncovered(BlockStart(n), BlockEnd(n)) > 1)
    PROVE  \/ Unnamed(n) = {}
           \/ Uncovered(BlockStart(n), BlockEnd(n)) = Cardinality(Unnamed(n))
<1> DEFINE v == Cardinality(Unnamed(n))
           c == Cardinality(Named(n))
           u == Uncovered(BlockStart(n), BlockEnd(n))
           covered == Covered(BlockStart(n), BlockEnd(n))
           W == WordValues
           Q == WordSegments
           R == After(n)
           last == (n + 1) * BlockSegments
           N == Blocks * BlockSegments
<1>1. /\ v \in Nat /\ c \in Nat /\ v <= BlockSegments /\ IsFiniteSet(Unnamed(n))
      /\ \E w \in Nat : w = v + c /\ u = (w - covered) % W
  BY WindowIs
<1>2. u \in 0..1
  <2>1. BlockStart(n) \in Nat /\ BlockEnd(n) \in Nat
    BY BlockIs, Ends
  <2>2. u \in 0..(W - 1)
    BY <2>1, UncoveredIs
  <2> HIDE DEF u
  <2> QED BY <2>2, Sizes DEF u
<1>3. PICK k \in 0..4, d \in Nat : k <= d /\ d <= k * R /\ covered = c + k * Q - d
  <2>1. PICK k \in 0..Len(rxBuffer.sack), d \in Nat :
            /\ k <= d /\ d <= k * R
            /\ covered = Cardinality(NamedUpTo(n, Len(rxBuffer.sack))) + k * Q - d
    BY CoveredWraps DEF Wraps
  <2>2. Named(n) = NamedUpTo(n, Len(rxBuffer.sack)) /\ k \in 0..4
    <3>1. Len(rxBuffer.sack) \in Nat /\ Len(rxBuffer.sack) <= 4
      BY NamedGrows
    <3>2. Named(n) = NamedUpTo(n, Len(rxBuffer.sack))
      BY NamedGrows
    <3> QED BY <3>1, <3>2
  <2> QED BY <2>1, <2>2
<1>4. PICK p \in Nat : /\ p <= W /\ W < p + SegmentSize
                       /\ (SegmentSize = 1 => p = Q) /\ (SegmentSize = 2 => p = 2 * Q)
                       /\ (SegmentSize = 3 => p = 3 * Q) /\ (SegmentSize >= 4 => p >= 4 * Q)
  BY WordIs
<1>5. /\ Q \in Nat /\ 4 * N <= Q /\ N \in Nat /\ last \in Nat /\ R = N - last
      /\ BlockSegments <= last /\ BlockSegments \in Nat /\ BlockSegments > 0
      /\ W \in Nat /\ W > 1 /\ BlockSegments < W
      /\ SegmentSize \in Nat /\ SegmentSize > 0
  <2>1. N \in Nat /\ n * BlockSegments \in Nat /\ last = n * BlockSegments + BlockSegments
    BY Sizes, Products
  <2> HIDE DEF last, N, W
  <2>2. Q \in Nat /\ 4 * N <= Q
    BY WordIs DEF N
  <2>3. R = N - last
    BY DEF After, N, last
  <2>4. last \in Nat /\ BlockSegments <= last
    <3> DEFINE a == n * BlockSegments
    <3> HIDE DEF a
    <3>1. a \in Nat /\ last = a + BlockSegments
      BY <2>1 DEF a
    <3> QED BY <3>1, Sizes
  <2>5. W \in Nat /\ W > 1 /\ BlockSegments < W
    BY BlockFits, Sizes DEF W
  <2> QED BY <2>1, <2>2, <2>3, <2>4, <2>5, Sizes
<1> HIDE DEF v, c, u, covered, W, Q, R, last, N
<1>6. Q <= W
  BY <1>4, <1>5
<1> DEFINE y == v + d - k * Q
<1>7. u = y % W
  <2>1. k * Q \in Nat
    BY <1>3, <1>5, Products
  <2>2. PICK w \in Nat : w = v + c /\ u = (w - covered) % W
    BY <1>1
  <2>3. w - covered = y
    <3> DEFINE o == k * Q
    <3>1. o \in Nat /\ covered = c + o - d
      BY <1>3, <2>1
    <3> HIDE DEF o
    <3>2. w - covered = v + d - o
      BY <1>1, <1>3, <2>2, <3>1
    <3> QED BY <3>2 DEF o
  <2> HIDE DEF y
  <2> QED BY <2>2, <2>3
<1>8. \/ k = 0 /\ k * Q = 0 /\ k * R = 0
      \/ k = 1 /\ k * Q = Q /\ k * R = R
      \/ k = 2 /\ k * Q = 2 * Q /\ k * R = 2 * R
      \/ k = 3 /\ k * Q = 3 * Q /\ k * R = 3 * R
      \/ k = 4 /\ k * Q = 4 * Q /\ k * R = 4 * R
  BY <1>3, <1>5
<1>9. y \in Int /\ y <= v + d /\ -(4 * Q) <= y /\ (k = 0 => y = v /\ d = 0) /\ (k /= 0 => y + 2 <= 0)
  <2> DEFINE o == k * Q
             m == k * R
  <2>1. \/ k = 0 /\ o = 0 /\ m = 0
        \/ k = 1 /\ o = Q /\ m = R
        \/ k = 2 /\ o = 2 * Q /\ m = 2 * R
        \/ k = 3 /\ o = 3 * Q /\ m = 3 * R
        \/ k = 4 /\ o = 4 * Q /\ m = 4 * R
    BY <1>8
  <2>2. d <= m /\ k <= d
    BY <1>3
  <2>3. y = v + d - o
    OBVIOUS
  <2> HIDE DEF o, m, y
  <2> QED BY <1>1, <1>3, <1>5, <2>1, <2>2, <2>3
<1> HIDE DEF y
<1>10. CASE k = 0
  <2>1. v % W = v
    BY <1>1, <1>5
  <2>2. u = v
    BY <1>7, <1>9, <1>10, <2>1
  <2> QED BY <2>2 DEF u, v
<1>11. CASE k /= 0
  <2> DEFINE j == y \div W
             m == -j
  <2>1. j \in Int /\ y = j * W + u
    BY <1>5, <1>7, <1>9
  <2> HIDE DEF j
  <2>2. j < 0
    <3> SUFFICES ASSUME j >= 0 PROVE FALSE
      BY <2>1
    <3>1. j * W \in Nat
      BY <1>5, <2>1, Products
    <3> QED BY <1>2, <1>9, <1>11, <2>1, <3>1
  <2>3. m \in Nat /\ m > 0 /\ y = u - m * W
    <3>1. m \in Nat /\ m > 0
      BY <2>1, <2>2
    <3>2. j * W = -(m * W)
      BY <1>5, <2>1
    <3>3. m * W \in Nat
      BY <1>5, <3>1, Products
    <3> QED BY <1>2, <2>1, <3>1, <3>2, <3>3
  <2> HIDE DEF m
  <2>4. m <= 4
    <3> SUFFICES ASSUME 4 < m PROVE FALSE
      BY <2>3
    <3>1. 4 * W + W <= m * W /\ m * W \in Nat
      BY <1>5, <2>3, Products
    <3> QED BY <1>2, <1>5, <1>6, <1>9, <2>3, <3>1
  <2>5. \/ m = 1 /\ y = u - W
        \/ m = 2 /\ y = u - 2 * W
        \/ m = 3 /\ y = u - 3 * W
        \/ m = 4 /\ y = u - 4 * W
    BY <1>5, <2>3, <2>4
  <2>6. v = 0
    <3> DEFINE o == k * Q
    <3>1. \/ k = 1 /\ o = Q /\ d <= R
          \/ k = 2 /\ o = 2 * Q /\ d <= 2 * R
          \/ k = 3 /\ o = 3 * Q /\ d <= 3 * R
          \/ k = 4 /\ o = 4 * Q /\ d <= 4 * R
      BY <1>3, <1>8, <1>11
    <3>2. y = v + d - o
      BY DEF y
    <3> HIDE DEF o
    <3>3. v + d + 2 < Q
      BY <1>1, <1>3, <1>5, <3>1
    <3>4. d >= 1
      BY <1>3, <1>11
    <3>5. CASE SegmentSize >= 4
      BY <1>1, <1>2, <1>3, <1>4, <1>5, <2>5, <3>1, <3>2, <3>4, <3>5
    <3>6. CASE SegmentSize \in 1..3
      BY <1>1, <1>2, <1>3, <1>4, <1>5, <2>5, <3>1, <3>2, <3>3, <3>4, <3>6
    <3> QED BY <1>5, <3>5, <3>6
  <2> QED BY <1>1, <2>6, FS_EmptySet DEF v
<1> QED BY <1>10, <1>11

LEMMA UnnamedIs ==
    ASSUME NEW n \in Nat, n < Blocks, NEW k \in Unnamed(n)
    PROVE  /\ k \in Nat /\ k \in Numbers(n) /\ SegmentSeq(k) \in Nat /\ SegmentSeq(k) \in Block(n)
           /\ SegmentSeq(k) \in Boundaries /\ BlockStart(n) <= SegmentSeq(k)
           /\ SegmentSeq(k) + SegmentSize <= BlockEnd(n) /\ rxBuffer.next <= SegmentSeq(k)
<1>1. k \in Numbers(n) /\ k \in Nat /\ rxBuffer.next <= SegmentSeq(k)
  BY NumbersAre DEF Unnamed
<1>2. SegmentSeq(k) \in Block(n)
  BY <1>1, NumbersAre
<1>3. SegmentSeq(k) \in Boundaries
  BY <1>2, BlockIs, SegmentBounds
<1> QED BY <1>1, <1>2, <1>3, BlockIs, Ends

\* lostSegSeq, in a block ahead of what is expected: the end of a SACK block in front of a
\* segment that is not named, if there is one.
LEMMA LostIs ==
    ASSUME BufferOK(rxBuffer), NEW n \in Nat, n < Blocks, rxBuffer.next < BlockStart(n)
    PROVE  LET seq == LostSegSeq(BlockStart(n), BlockEnd(n))
           IN  \/ \E u \in Unnamed(n) : seq = SegmentSeq(u)
               \/ seq = 0 /\ \A i \in 1..Len(rxBuffer.sack) :
                      ~(BlockStart(n) <= rxBuffer.sack[i][2] /\ rxBuffer.sack[i][2] < BlockEnd(n))
<1> DEFINE sack == rxBuffer.sack
           start == BlockStart(n)
           end == BlockEnd(n)
           seq == LostSegSeq(start, end)
<1>1. start \in Boundaries /\ end \in Boundaries /\ start \in Nat /\ end \in Nat
  BY BlockIs, Ends
<1>2. \/ seq = 0 /\ \A i \in 1..Len(sack) : ~(start <= sack[i][2] /\ sack[i][2] < end)
      \/ /\ seq \in Boundaries /\ start <= seq /\ seq + SegmentSize <= end
         /\ \E i \in 1..Len(sack) : seq = sack[i][2]
  BY <1>1, LostFits
<1> HIDE DEF seq
<1>3. ASSUME seq \in Boundaries, start <= seq, seq + SegmentSize <= end,
             NEW i \in 1..Len(sack), seq = sack[i][2]
      PROVE  \E u \in Unnamed(n) : seq = SegmentSeq(u)
  <2>1. PICK k \in Nat : seq = SegmentSeq(k)
    BY <1>3, IndexIs
  <2>2. k \in Numbers(n)
    BY <1>1, <1>3, <2>1, NumbersAre, Ends, Sizes
  <2>3. k \notin Named(n)
    <3> SUFFICES ASSUME NEW j \in 1..Len(sack), Holds(sack[j], k) PROVE FALSE
      BY DEF Named
    <3>1. /\ sack[i][1] \in Nat /\ sack[i][2] \in Nat /\ sack[i][1] < sack[i][2]
          /\ sack[j][1] \in Nat /\ sack[j][2] \in Nat /\ sack[j][1] < sack[j][2]
      BY SackFacts
    <3>2. sack[j][1] <= seq /\ seq + SegmentSize <= sack[j][2]
      BY <2>1 DEF Holds
    <3>3. CASE i = j
      BY <1>3, <3>1, <3>2, <3>3, Sizes
    <3>4. CASE i /= j
      <4>1. Apart(sack[i], sack[j])
        BY <3>4, SackFacts
      <4>2. SegmentSize \in Nat /\ SegmentSize > 0 /\ seq \in Nat
        BY <1>3, Sizes, Ends
      <4> HIDE DEF sack
      <4>3. sack[i][2] < sack[j][1] \/ sack[j][2] < sack[i][1]
        BY <4>1, Zenon DEF Apart
      <4>4. sack[j][1] <= sack[i][2] /\ sack[i][2] + SegmentSize <= sack[j][2]
        BY <1>3, <3>2, Zenon
      <4>5. ~(sack[i][2] < sack[j][1])
        BY <3>1, <4>4
      <4>6. ~(sack[j][2] < sack[i][1])
        <5> DEFINE b == sack[i][2]
                   d == sack[j][2]
        <5>1. b \in Nat /\ d \in Nat /\ b + SegmentSize <= d
          BY <3>1, <4>4, Zenon
        <5>2. b <= d
          <6> HIDE DEF b, d
          <6> QED BY <4>2, <5>1
        <5> QED BY <3>1, <5>2
      <4> QED BY <4>3, <4>5, <4>6
    <3> QED BY <3>3, <3>4
  <2>4. k \in Unnamed(n)
    <3>1. rxBuffer.next \in Nat /\ seq \in Nat
      BY <1>3, Ends DEF BufferOK
    <3> QED BY <1>1, <1>3, <2>1, <2>2, <2>3, <3>1 DEF Unnamed
  <2> QED BY <2>1, <2>4
<1> QED BY <1>2, <1>3 DEF seq

\* What is expected stays at the end of a segment.
LEMMA NextAligned ==
    ASSUME NEW b, BufferOK(b), b.next \in Boundaries, NEW seq, Fits(b, seq),
           seq \in Boundaries \/ seq + SegmentSize <= b.next
    PROVE  Add(b, seq).next \in Boundaries
<1> DEFINE a == Add(b, seq)
<1>1. BufferOK(a) /\ b.next <= a.next /\ a.stored = b.stored \cup {o \in Octets(seq) : o >= 1}
  BY AddKeeps
<1> SUFFICES a.next \in Boundaries
  OBVIOUS
<1> HIDE DEF a
<1>2. /\ b.next \in Nat /\ a.next \in Nat /\ 1 <= b.next /\ a.next \notin a.stored
      /\ 1..(a.next - 1) \subseteq a.stored /\ StreamEnd \in Nat
      /\ b.next \notin b.stored /\ a.stored \subseteq 1..(StreamEnd - 1)
  BY <1>1, Ends DEF BufferOK
<1>3. SegmentSize \in Nat /\ seq \in Nat /\ SegmentSize > 0
  BY Sizes DEF Fits
<1>4. ASSUME NEW s \in Boundaries, Octets(s) \subseteq a.stored, a.next - 1 \in Octets(s)
      PROVE  a.next \in Boundaries
  <2>1. s \in Nat
    BY Ends
  <2>2. s <= a.next - 1 /\ a.next - 1 < s + SegmentSize
    BY <1>2, <1>3, <1>4, <2>1 DEF Octets
  <2>3. a.next = s + SegmentSize
    <3>1. a.next \notin Octets(s)
      BY <1>2, <1>4
    <3> QED BY <1>2, <1>3, <2>1, <2>2, <3>1 DEF Octets
  <2>4. s < StreamEnd
    <3>1. s \in Octets(s)
      BY <1>3, <2>1 DEF Octets
    <3>2. s \in 1..(StreamEnd - 1)
      BY <1>2, <1>4, <3>1
    <3> QED BY <1>2, <2>1, <3>2
  <2> QED BY <2>3, <2>4, Ends
<1>5. CASE a.next = b.next
  BY <1>5
<1>6. CASE b.next < a.next
  <2> DEFINE o == a.next - 1
  <2>1. o \in Nat /\ b.next <= o /\ o \in a.stored
    BY <1>2, <1>6
  <2>2. CASE o \in b.stored
    <3>1. o > b.next
      BY <1>2, <2>1, <2>2
    <3>2. PICK s \in Boundaries : o \in Octets(s) /\ Octets(s) \subseteq b.stored
      BY <2>2, <3>1 DEF BufferOK, WholeSegments
    <3>3. Octets(s) \subseteq a.stored
      BY <1>1, <3>2
    <3> QED BY <1>4, <3>2, <3>3
  <2>3. CASE o \in Octets(seq)
    <3>1. seq \in Boundaries
      BY <1>2, <1>3, <2>1, <2>3 DEF Octets
    <3>2. 1 <= seq
      BY <3>1, Ends
    <3>3. Octets(seq) \subseteq a.stored
      BY <1>1, <1>3, <3>2 DEF Octets
    <3> QED BY <1>4, <2>3, <3>1, <3>3
  <2> HIDE DEF o
  <2> QED BY <1>1, <2>1, <2>2, <2>3
<1> QED BY <1>1, <1>2, <1>5, <1>6

-----------------------------------------------------------------------------
(***************************************************************************)
(* What is stored is sound: on any path, and where no repair is overtaken  *)
(***************************************************************************)

\* What holds when the first segment is never lost.
SoundOK ==
    /\ rxBuffer.next \in Boundaries
    /\ turn > 0 => SegmentSize < rxBuffer.next
    /\ StreamIsSound

\* Where no repair packet is overtaken, nothing of a later block is stored when one comes.
PathOK ==
    \A n \in Nat : n < Blocks /\ turn < (n + 1) * (BlockSegments + 1) => NothingAfter(n)

PathInv == ~reordering => SoundOK /\ PathOK

\* A repair packet stores nothing new but the one segment that is not named.
LEMMA RepairStores ==
    ASSUME PartOK, NEW n \in Nat, n < Blocks, NEW b, NEW seq, Succeeds(n, b, seq),
           NothingAfter(n) \/ 4 * StreamEnd <= WordValues,
           rxBuffer.next \in Boundaries, SegmentSize < rxBuffer.next
    PROVE  /\ rxBuffer'.next \in Boundaries /\ rxBuffer.next <= rxBuffer'.next
           /\ \/ rxBuffer'.stored \subseteq rxBuffer.stored
              \/ \E u : /\ Unnamed(n) = {u}
                       /\ rxBuffer'.stored \subseteq rxBuffer.stored \cup Octets(SegmentSeq(u))
<1> DEFINE start == BlockStart(n)
           end == BlockEnd(n)
           stored == rxBuffer.stored
           lost == LostSegSeq(start, end)
<1>1. /\ start \in Boundaries /\ end \in Boundaries /\ start \in Nat /\ end \in Nat
      /\ start + SegmentSize <= end /\ 1 <= start
  BY BlockIs, Ends
<1>2. /\ BufferOK(rxBuffer) /\ delAckCount \in 0..(DelAckMaxCount - 1)
      /\ BufferOK(b) /\ Fits(b, seq) /\ Store(b, seq, TRUE)
      /\ Behind(n) \/ ~(Uncovered(start, end) > 1)
      /\ b = IF Behind(n) THEN rxBuffer ELSE Recovered(start, end)
      /\ seq = IF rxBuffer.next >= start /\ ~Behind(n) THEN rxBuffer.next ELSE start
  BY Zenon DEF PartOK, Succeeds
<1>3. /\ rxBuffer.next \in Nat /\ 1 <= rxBuffer.next /\ 1..(rxBuffer.next - 1) \subseteq stored
      /\ SegmentSize \in Nat /\ SegmentSize > 0
  BY <1>2, Sizes, Ends DEF BufferOK
<1>4. seq \in Boundaries
  BY <1>1, <1>2
<1>5. Recovered(start, end) = IF rxBuffer.next < start /\ Uncovered(start, end) = 1
                              THEN Add(rxBuffer, lost) ELSE rxBuffer
  BY DEF Recovered
<1>6. ASSUME NEW s \in Nat, s + SegmentSize <= rxBuffer.next, NEW o \in Octets(s), o >= 1
      PROVE  o \in stored
  BY <1>3, <1>6 DEF Octets
<1> HIDE DEF stored, lost
<1>7. ASSUME rxBuffer.next < start
      PROVE  /\ Fits(rxBuffer, lost)
             /\ (lost \in Boundaries) \/ (lost + SegmentSize <= rxBuffer.next)
             /\ lost \in Nat
  <2>1. /\ Fits(rxBuffer, lost)
        /\ lost = 0 \/ lost \in Boundaries
    BY <1>1, <1>2, <1>7, LostFits DEF lost
  <2>2. lost = 0 => lost + SegmentSize <= rxBuffer.next
    BY <1>3
  <2> QED BY <2>1, <2>2 DEF Fits
<1>8. /\ rxBuffer.next <= b.next /\ b.next \in Boundaries
      /\ \/ b.stored = stored
         \/ /\ rxBuffer.next < start /\ ~Behind(n) /\ Uncovered(start, end) = 1
            /\ b.stored = stored \cup {o \in Octets(lost) : o >= 1}
  <2>1. CASE b = rxBuffer
    BY <1>3, <2>1 DEF stored
  <2>2. CASE ~Behind(n) /\ rxBuffer.next < start /\ Uncovered(start, end) = 1 /\ b = Add(rxBuffer, lost)
    <3>1. Fits(rxBuffer, lost)
      BY <1>7, <2>2
    <3>2. rxBuffer.next <= b.next /\ b.stored = stored \cup {o \in Octets(lost) : o >= 1}
      BY <1>2, <2>2, <3>1, AddKeeps DEF stored
    <3>3. b.next \in Boundaries
      BY <1>2, <1>7, <2>2, <3>1, NextAligned
    <3> QED BY <2>2, <3>2, <3>3
  <2> QED BY <1>2, <1>5, <2>1, <2>2
<1>9. rxBuffer' = Add(b, seq)
  BY <1>2, StoreKeeps, Zenon
<1>10. /\ b.next <= rxBuffer'.next /\ rxBuffer'.next \in Nat /\ b.next \in Nat
       /\ rxBuffer'.stored = b.stored \cup {o \in Octets(seq) : o >= 1}
  <2>1. BufferOK(Add(b, seq)) /\ b.next <= Add(b, seq).next
        /\ Add(b, seq).stored = b.stored \cup {o \in Octets(seq) : o >= 1}
    BY <1>2, AddKeeps
  <2>2. Add(b, seq).next \in Nat /\ b.next \in Nat
    BY <1>2, <2>1, Ends DEF BufferOK
  <2> QED BY <1>9, <2>1, <2>2
<1>11. rxBuffer'.next \in Boundaries
  BY <1>2, <1>4, <1>8, <1>9, NextAligned
<1>12. rxBuffer.next <= rxBuffer'.next
  BY <1>3, <1>8, <1>10
<1>13. CASE Behind(n)
  <2>1. end <= rxBuffer.next
    <3>1. ~(rxBuffer.next <= end - SegmentSize)
      BY <1>1, <1>3, <1>13 DEF Behind
    <3>2. rxBuffer.next < end => rxBuffer.next + SegmentSize <= end
      BY <1>1, Ends
    <3> QED BY <1>1, <1>3, <3>1, <3>2
  <2>2. b.stored = stored /\ seq = start
    BY <1>2, <1>13 DEF stored
  <2>3. start + SegmentSize <= rxBuffer.next
    BY <1>1, <1>3, <2>1
  <2>4. rxBuffer'.stored \subseteq stored
    BY <1>1, <1>6, <1>10, <2>2, <2>3
  <2> QED BY <1>11, <1>12, <2>4 DEF stored
<1>14. CASE ~Behind(n)
  <2>1. /\ IsFiniteSet(Unnamed(n)) /\ Cardinality(Unnamed(n)) \in Nat
        /\ Unnamed(n) = {} \/ Uncovered(start, end) = Cardinality(Unnamed(n))
    <3>1. CASE NothingAfter(n)
      BY <1>2, <1>14, <3>1, UncoveredCounts, FS_CardinalityType
    <3>2. CASE 4 * StreamEnd <= WordValues
      <4>1. Unnamed(n) = {} \/ Uncovered(start, end) = Cardinality(Unnamed(n))
        BY <1>2, <1>14, <3>2, UncoveredWraps
      <4> QED BY <1>2, <1>14, <4>1, WindowIs
    <3> QED BY <3>1, <3>2
  <2>3. PICK k \in Numbers(n) : k \in Nat /\ seq = SegmentSeq(k) /\ rxBuffer.next <= seq
                              /\ (k \in Named(n) \/ k \in Unnamed(n))
    <3>1. PICK k \in Nat : seq = SegmentSeq(k)
      BY <1>4, IndexIs
    <3>2. start <= seq /\ rxBuffer.next <= seq /\ seq < end
      BY <1>1, <1>2, <1>3, <1>14 DEF Behind
    <3>3. k \in Numbers(n)
      BY <3>1, <3>2, NumbersAre
    <3> QED BY <3>1, <3>2, <3>3 DEF Unnamed
  <2>4. CASE Unnamed(n) = {}
    <3>2. b.stored \subseteq stored
      <4>1. CASE rxBuffer.next < start /\ b.stored = stored \cup {o \in Octets(lost) : o >= 1}
        <5>1. lost = 0
          BY <1>2, <2>4, <4>1, LostIs DEF lost
        <5>2. \A o \in Octets(0) : o >= 1 => o \in stored
          BY <1>3, <1>6
        <5> QED BY <4>1, <5>1, <5>2
      <4> QED BY <1>8, <4>1
    <3>3. Octets(seq) \subseteq stored
      BY <1>2, <2>3, <2>4, NamedIs DEF stored
    <3>4. rxBuffer'.stored \subseteq stored
      BY <1>10, <3>2, <3>3
    <3> QED BY <1>11, <1>12, <3>4 DEF stored
  <2>5. CASE Unnamed(n) /= {}
    <3>1. Cardinality(Unnamed(n)) = 1
      <4>1. Cardinality(Unnamed(n)) /= 0
        BY <2>1, <2>5, FS_EmptySet
      <4>2. ~(Cardinality(Unnamed(n)) > 1)
        BY <1>2, <1>14, <2>1, <2>5
      <4> QED BY <2>1, <4>1, <4>2
    <3>2. PICK u : Unnamed(n) = {u}
      BY <2>1, <3>1, FS_Singleton
    <3>3. Octets(seq) \subseteq stored \cup Octets(SegmentSeq(u))
      <4>1. CASE k \in Named(n)
        BY <1>2, <2>3, <4>1, NamedIs DEF stored
      <4>2. CASE k \in Unnamed(n)
        BY <2>3, <3>2, <4>2
      <4> QED BY <2>3, <4>1, <4>2
    <3>4. b.stored \subseteq stored \cup Octets(SegmentSeq(u))
      <4>1. CASE b.stored = stored
        BY <4>1
      <4>2. CASE rxBuffer.next < start /\ b.stored = stored \cup {o \in Octets(lost) : o >= 1}
        <5>1. (\E k1 \in Unnamed(n) : lost = SegmentSeq(k1)) \/ lost = 0
          BY <1>2, <4>2, LostIs DEF lost
        <5>4. lost = SegmentSeq(u) \/ lost = 0
          BY <3>2, <5>1
        <5>2. CASE lost = SegmentSeq(u)
          BY <4>2, <5>2
        <5>3. CASE lost = 0
          <6>1. \A o \in Octets(0) : o >= 1 => o \in stored
            BY <1>3, <1>6
          <6> QED BY <4>2, <5>3, <6>1
        <5> QED BY <5>2, <5>3, <5>4
      <4> QED BY <1>8, <4>1, <4>2
    <3>5. rxBuffer'.stored \subseteq stored \cup Octets(SegmentSeq(u))
      BY <1>10, <3>3, <3>4
    <3> QED BY <1>11, <1>12, <3>2, <3>5 DEF stored
  <2> QED BY <2>4, <2>5
<1> QED BY <1>13, <1>14

\* What is stored up to the end of a block is stored up to the end of a later one.
LEMMA EarlierEnd ==
    ASSUME NEW n \in Nat, NEW m \in Nat, m < Blocks, n <= m
    PROVE  BlockEnd(n) \in Nat /\ BlockEnd(m) \in Nat /\ BlockEnd(n) <= BlockEnd(m)
<1>1. n < Blocks
  BY Sizes
<1>2. BlockEnd(n) \in Nat /\ BlockEnd(m) \in Nat /\ BlockStart(m) \in Nat
  BY <1>1, BlockIs, Ends
<1>3. n < m => BlockEnd(n) <= BlockStart(m)
  BY BlockIs
<1>4. BlockStart(m) + SegmentSize <= BlockEnd(m)
  BY BlockIs
<1>5. n = m \/ n < m
  OBVIOUS
<1> QED BY <1>2, <1>3, <1>4, <1>5, Sizes

LEMMA SegmentPath ==
    ASSUME PartOK, SoundOK, NEW t \in Nat, t < Blocks * (BlockSegments + 1), ~IsRepair(t),
           ReceivedSegment(SegmentOf(t))
    PROVE  /\ rxBuffer'.next \in Boundaries /\ rxBuffer.next <= rxBuffer'.next
           /\ StreamIsSound'
           /\ t = 0 => SegmentSize < rxBuffer'.next
           /\ \A n \in Nat : n < Blocks /\ t < (n + 1) * (BlockSegments + 1) /\ NothingAfter(n)
                            => NothingAfter(n)'
<1> DEFINE k == SegmentOf(t)
           seq == SegmentSeq(k)
<1>1. k \in Nat /\ k < Blocks * BlockSegments /\ BlockOf(t) \in Nat /\ BlockOf(t) < Blocks
  BY PacketIs
<1>2. k < (BlockOf(t) + 1) * BlockSegments
  BY Turns
<1>3. seq \in Boundaries /\ seq \in Nat /\ 1 <= seq /\ Fits(rxBuffer, seq)
  BY <1>1, SegmentBounds, Ends
<1>4. BufferOK(rxBuffer) /\ fecProcessed \in BOOLEAN /\ delAckCount \in 0..(DelAckMaxCount - 1)
  BY Zenon DEF PartOK
<1>5. rxBuffer' = Add(rxBuffer, seq) /\ sound' = sound \cup Octets(seq)
  BY <1>3, <1>4, StoreKeeps, Zenon DEF ReceivedSegment
<1>6. /\ BufferOK(rxBuffer') /\ rxBuffer.next <= rxBuffer'.next
      /\ rxBuffer'.stored = rxBuffer.stored \cup {o \in Octets(seq) : o >= 1}
  BY <1>3, <1>4, <1>5, AddKeeps
<1>7. rxBuffer'.stored = rxBuffer.stored \cup Octets(seq)
  BY <1>3, <1>6 DEF Octets
<1>8. rxBuffer'.next \in Boundaries
  BY <1>3, <1>4, <1>5, NextAligned DEF SoundOK
<1>9. StreamIsSound'
  BY <1>5, <1>7 DEF SoundOK, StreamIsSound
<1>10. seq + SegmentSize <= BlockEnd(BlockOf(t))
  <2> DEFINE last == (BlockOf(t) + 1) * BlockSegments
  <2>1. last \in Nat
    BY <1>1, Sizes, Products
  <2> HIDE DEF last
  <2>2. seq + SegmentSize <= SegmentSeq(last)
    BY <1>1, <1>2, <2>1, SegmentSeqs DEF last
  <2> QED BY <2>2 DEF last, BlockEnd
<1>11. ASSUME NEW n \in Nat, n < Blocks, t < (n + 1) * (BlockSegments + 1), NothingAfter(n)
       PROVE  NothingAfter(n)'
  <2>1. BlockOf(t) <= n
    BY <1>11, Turns
  <2>2. /\ BlockEnd(BlockOf(t)) \in Nat /\ BlockEnd(n) \in Nat
        /\ BlockEnd(BlockOf(t)) <= BlockEnd(n)
    BY <1>1, <1>11, <2>1, EarlierEnd
  <2>3. Octets(seq) \subseteq 1..(BlockEnd(n) - 1)
    <3> HIDE DEF seq
    <3> QED BY <1>3, <1>10, <2>2, Sizes DEF Octets
  <2>4. rxBuffer.stored \subseteq 1..(BlockEnd(n) - 1)
    BY <1>11 DEF NothingAfter
  <2>5. rxBuffer'.stored \subseteq 1..(BlockEnd(n) - 1)
    BY <1>7, <2>3, <2>4
  <2> QED BY <2>5 DEF NothingAfter, BlockEnd
<1>12. ASSUME t = 0 PROVE SegmentSize < rxBuffer'.next
  <2>1. BlockOf(0) = 0 /\ 0 % (BlockSegments + 1) = 0
    BY Sizes DEF BlockOf
  <2>2. k = 0
    BY <1>12, <2>1, Sizes DEF SegmentOf
  <2>3. seq = 1
    BY <2>2, Sizes DEF SegmentSeq
  <2>4. rxBuffer'.next \in Nat /\ 1 <= rxBuffer'.next /\ rxBuffer'.next \notin rxBuffer'.stored
    BY <1>6, <1>8, Ends DEF BufferOK
  <2>5. rxBuffer'.next \notin Octets(1)
    BY <1>7, <2>3, <2>4
  <2> QED BY <2>4, <2>5, Sizes DEF Octets
<1> QED BY <1>6, <1>8, <1>9, <1>11, <1>12

LEMMA RepairPath ==
    ASSUME PartOK, SoundOK, NEW n \in Nat, n < Blocks, ReceivedRepair(n),
           NothingAfter(n) \/ 4 * StreamEnd <= WordValues, SegmentSize < rxBuffer.next
    PROVE  /\ rxBuffer'.next \in Boundaries /\ rxBuffer.next <= rxBuffer'.next
           /\ StreamIsSound'
           /\ NothingAfter(n) => NothingAfter(n)'
<1>1. /\ sound' = IF Cardinality(Missing(n)) = 1
                  THEN sound \cup UNION {Octets(s) : s \in Missing(n)} ELSE sound
  BY Zenon DEF ReceivedRepair
<1>2. sound \subseteq sound'
  BY <1>1
<1>3. /\ BufferOK(rxBuffer) /\ rxBuffer.next \in Boundaries /\ rxBuffer.stored \subseteq sound
  BY Zenon DEF PartOK, SoundOK, StreamIsSound
<1> DEFINE upTo == 1..(BlockEnd(n) - 1)
<1>6. (NothingAfter(n) <=> rxBuffer.stored \subseteq upTo)
      /\ (NothingAfter(n)' <=> rxBuffer'.stored \subseteq upTo)
  BY DEF NothingAfter, BlockEnd
<1>4. CASE Fails(n)
  <2>1. rxBuffer' = rxBuffer
    BY <1>4, Zenon DEF Fails
  <2>2. rxBuffer.next \in Nat /\ rxBuffer.next <= rxBuffer.next
    <3>1. rxBuffer.next \in Nat
      BY <1>3, Ends
    <3> QED BY <3>1
  <2>3. rxBuffer'.stored \subseteq sound'
    BY <1>2, <1>3, <2>1
  <2> QED BY <1>3, <1>6, <2>1, <2>2, <2>3 DEF StreamIsSound
<1>5. ASSUME NEW b, NEW seq, Succeeds(n, b, seq)
      PROVE  /\ rxBuffer'.next \in Boundaries /\ rxBuffer.next <= rxBuffer'.next
             /\ StreamIsSound'
             /\ NothingAfter(n) => NothingAfter(n)'
  <2>1. /\ rxBuffer'.next \in Boundaries /\ rxBuffer.next <= rxBuffer'.next
        /\ \/ rxBuffer'.stored \subseteq rxBuffer.stored
           \/ \E u : /\ Unnamed(n) = {u}
                     /\ rxBuffer'.stored \subseteq rxBuffer.stored \cup Octets(SegmentSeq(u))
    BY <1>3, <1>5, RepairStores
  <2>2. CASE rxBuffer'.stored \subseteq rxBuffer.stored
    <3>1. rxBuffer'.stored \subseteq sound'
      BY <1>2, <1>3, <2>2
    <3> QED BY <1>3, <1>6, <2>1, <2>2, <3>1 DEF StreamIsSound
  <2>3. ASSUME NEW u, Unnamed(n) = {u},
               rxBuffer'.stored \subseteq rxBuffer.stored \cup Octets(SegmentSeq(u))
        PROVE  /\ rxBuffer'.stored \subseteq sound'
               /\ rxBuffer.stored \subseteq upTo => rxBuffer'.stored \subseteq upTo
    <3>1. /\ SegmentSeq(u) \in Nat /\ 1 <= SegmentSeq(u) /\ SegmentSeq(u) \in Block(n)
          /\ SegmentSeq(u) + SegmentSize <= BlockEnd(n) /\ BlockEnd(n) \in Nat
      <4>1. u \in Unnamed(n)
        BY <2>3
      <4> QED BY <4>1, UnnamedIs, BlockIs, Ends
    <3>2. Octets(SegmentSeq(u)) \subseteq upTo
      BY <3>1, Sizes DEF Octets
    <3> HIDE DEF upTo
    <3>3. CASE Octets(SegmentSeq(u)) \subseteq rxBuffer.stored
      BY <1>2, <1>3, <2>3, <3>2, <3>3
    <3>4. CASE ~(Octets(SegmentSeq(u)) \subseteq rxBuffer.stored)
      <4>1. SegmentSeq(u) \in Missing(n)
        BY <3>1, <3>4 DEF Missing
      <4>2. \A s \in Missing(n) : s = SegmentSeq(u)
        <5> TAKE s \in Missing(n)
        <5>1. \E k \in Unnamed(n) : s = SegmentSeq(k)
          BY <1>3, MissingUnnamed
        <5> QED BY <2>3, <5>1
      <4>3. Missing(n) = {SegmentSeq(u)}
        BY <4>1, <4>2
      <4>4. Cardinality(Missing(n)) = 1
        BY <4>3, FS_Singleton
      <4>5. Octets(SegmentSeq(u)) \subseteq sound'
        BY <1>1, <4>3, <4>4
      <4> QED BY <1>2, <1>3, <2>3, <3>2, <4>5
    <3> QED BY <3>3, <3>4
  <2>4. ASSUME NEW u, Unnamed(n) = {u},
               rxBuffer'.stored \subseteq rxBuffer.stored \cup Octets(SegmentSeq(u))
        PROVE  StreamIsSound' /\ (NothingAfter(n) => NothingAfter(n)')
    BY <1>6, <2>3, <2>4 DEF StreamIsSound
  <2> HIDE DEF upTo
  <2> QED BY <2>1, <2>2, <2>4
<1> QED BY <1>4, <1>5, RepairIs

LEMMA InitSound == ReceiverInit => SoundOK /\ PathOK
<1> SUFFICES ASSUME ReceiverInit PROVE SoundOK /\ PathOK
  OBVIOUS
<1>1. rxBuffer.next = 1 /\ rxBuffer.stored = {} /\ turn = 0
  BY DEF ReceiverInit
<1>2. rxBuffer.next \in Boundaries /\ ~(turn > 0)
  BY <1>1, Ends
<1>3. \A n \in Nat : NothingAfter(n)
  BY <1>1 DEF NothingAfter
<1>4. StreamIsSound
  BY <1>1 DEF StreamIsSound
<1> QED BY <1>2, <1>3, <1>4 DEF SoundOK, PathOK

\* What is stored stays sound, overtaken repair packets or not: without them nothing of a
\* later block is stored when one comes, and with them the word is wide enough.
LEMMA StepSound ==
    ASSUME FirstArrives, ReceiverInv, SoundOK, [ReceiverNext]_receiverVars,
           (~reordering /\ PathOK) \/ 4 * StreamEnd <= WordValues
    PROVE  SoundOK'
<1>1. PartOK
  BY DEF ReceiverInv
<1>2. /\ turn \in Nat /\ Blocks * (BlockSegments + 1) \in Nat
      /\ turn <= Blocks * (BlockSegments + 1)
  BY TurnBounds
<1>3. /\ rxBuffer.next \in Boundaries /\ rxBuffer.next \in Nat
      /\ turn > 0 => SegmentSize < rxBuffer.next
      /\ StreamIsSound
  BY Ends DEF SoundOK
<1>4. SegmentSize \in Nat
  BY Sizes
\* Whether in its turn or late, a packet leaves what is stored sound.
<1>5. ASSUME NEW t \in Nat, t < Blocks * (BlockSegments + 1), t <= turn, Receive(t),
             t = turn \/ ~IsRepair(t) \/ reordering
      PROVE  /\ rxBuffer'.next \in Boundaries /\ SegmentSize < rxBuffer'.next
             /\ StreamIsSound'
  <2>1. CASE IsRepair(t)
    <3> DEFINE n == BlockOf(t)
    <3>1. ReceivedRepair(n)
      BY <1>5, <2>1, Zenon DEF Receive
    <3>2. n \in Nat /\ n < Blocks /\ t + 1 = (n + 1) * (BlockSegments + 1)
      BY <1>5, <2>1, PacketIs, Turns
    <3> HIDE DEF n
    <3>3. NothingAfter(n) \/ 4 * StreamEnd <= WordValues
      <4> SUFFICES ASSUME ~reordering, PathOK PROVE NothingAfter(n)
        OBVIOUS
      <4>1. t = turn
        BY <1>5, <2>1
      <4>2. turn < (n + 1) * (BlockSegments + 1)
        BY <1>2, <3>2, <4>1
      <4> QED BY <3>2, <4>2 DEF PathOK
    <3>4. turn > 0
      <4>1. (n + 1) * (BlockSegments + 1) = n * (BlockSegments + 1) + (BlockSegments + 1)
        BY <3>2, Sizes, Products
      <4>2. n * (BlockSegments + 1) \in Nat
        BY <3>2, Sizes, Products
      <4> QED BY <1>2, <1>5, <3>2, <4>1, <4>2, Sizes
    <3>5. /\ rxBuffer'.next \in Boundaries /\ rxBuffer.next <= rxBuffer'.next
          /\ StreamIsSound'
      BY <1>1, <1>3, <3>1, <3>2, <3>3, <3>4, RepairPath
    <3>6. rxBuffer'.next \in Nat
      BY <3>5, Ends
    <3> QED BY <1>3, <1>4, <3>4, <3>5, <3>6
  <2>2. CASE ~IsRepair(t)
    <3>1. ReceivedSegment(SegmentOf(t))
      BY <1>5, <2>2, Zenon DEF Receive
    <3>2. /\ rxBuffer'.next \in Boundaries /\ rxBuffer.next <= rxBuffer'.next
          /\ StreamIsSound'
          /\ t = 0 => SegmentSize < rxBuffer'.next
      BY <1>1, <1>5, <2>2, <3>1, SegmentPath
    <3>3. rxBuffer'.next \in Nat
      BY <3>2, Ends
    <3> QED BY <1>2, <1>3, <1>4, <1>5, <3>2, <3>3
  <2> QED BY <2>1, <2>2
<1>6. CASE Arrive
  <2>1. turn < Blocks * (BlockSegments + 1) /\ Receive(turn)
    BY <1>6 DEF Arrive
  <2>2. /\ rxBuffer'.next \in Boundaries /\ SegmentSize < rxBuffer'.next
        /\ StreamIsSound'
    BY <1>2, <1>5, <2>1
  <2> QED BY <2>2 DEF SoundOK
<1>7. CASE ArriveLate
  <2>1. PICK t \in 0..(turn - 1) : (IsRepair(t) => reordering) /\ Receive(t)
    BY <1>7 DEF ArriveLate
  <2>2. t \in Nat /\ t <= turn /\ t < Blocks * (BlockSegments + 1)
    BY <1>2, <2>1
  <2>3. /\ rxBuffer'.next \in Boundaries /\ SegmentSize < rxBuffer'.next
        /\ StreamIsSound'
    BY <1>5, <2>1, <2>2
  <2> QED BY <2>3 DEF SoundOK
<1>8. CASE Miss
  <2>1. turn > 0 /\ rxBuffer' = rxBuffer /\ sound' = sound
    BY <1>8 DEF Miss
  <2> QED BY <1>3, <2>1 DEF SoundOK, StreamIsSound
<1>9. CASE DelAckExpires \/ UNCHANGED receiverVars
  <2>1. UNCHANGED <<rxBuffer, turn, sound>>
    BY <1>9 DEF DelAckExpires, receiverVars
  <2> QED BY <1>3, <2>1 DEF SoundOK, StreamIsSound
<1> QED BY <1>6, <1>7, <1>8, <1>9 DEF ReceiverNext

\* Where no repair packet is overtaken, the blocks whose packets have not all had their
\* turn are the last ones of which anything is stored.
LEMMA StepPath ==
    ASSUME FirstArrives, ReceiverInv, SoundOK, PathOK, ~reordering, [ReceiverNext]_receiverVars
    PROVE  PathOK'
<1>1. PartOK
  BY DEF ReceiverInv
<1>2. /\ turn \in Nat /\ Blocks * (BlockSegments + 1) \in Nat
      /\ turn <= Blocks * (BlockSegments + 1)
  BY TurnBounds
<1>3. /\ turn > 0 => SegmentSize < rxBuffer.next
      /\ \A n \in Nat : n < Blocks /\ turn < (n + 1) * (BlockSegments + 1) => NothingAfter(n)
  BY DEF SoundOK, PathOK
<1>4. \A n \in Nat : (n + 1) * (BlockSegments + 1) \in Nat
  BY Sizes, Products
<1> SUFFICES ASSUME NEW m \in Nat, m < Blocks, turn' < (m + 1) * (BlockSegments + 1)
             PROVE  NothingAfter(m)'
  BY DEF PathOK
<1>5. CASE Arrive
  <2>1. turn < Blocks * (BlockSegments + 1) /\ turn' = turn + 1 /\ Receive(turn)
    BY <1>5 DEF Arrive
  <2>2. CASE IsRepair(turn)
    <3>1. PICK n \in Nat : n = BlockOf(turn) /\ ReceivedRepair(n)
      <4>1. BlockOf(turn) \in Nat
        BY <1>2, <2>1, PacketIs
      <4>2. ReceivedRepair(BlockOf(turn))
        BY <2>1, <2>2, Zenon DEF Receive
      <4> QED BY <4>1, <4>2
    <3>2. n \in Nat /\ n < Blocks /\ turn + 1 = (n + 1) * (BlockSegments + 1)
      BY <1>2, <2>1, <2>2, <3>1, PacketIs, Turns
    <3>3. NothingAfter(n)
      BY <1>2, <1>3, <3>2
    <3>4. turn > 0
      <4>1. (n + 1) * (BlockSegments + 1) = n * (BlockSegments + 1) + (BlockSegments + 1)
        BY <3>2, Sizes, Products
      <4>2. n * (BlockSegments + 1) \in Nat
        BY <3>2, Sizes, Products
      <4> QED BY <1>2, <3>2, <4>1, <4>2, Sizes
    <3>5. NothingAfter(n)'
      BY <1>1, <1>3, <3>1, <3>2, <3>3, <3>4, RepairPath
    <3>6. n <= m
      <4> SUFFICES ASSUME m < n PROVE FALSE
        BY <3>2
      <4> DEFINE l == (m + 1) * (BlockSegments + 1)
                 h == (n + 1) * (BlockSegments + 1)
      <4>1. l + (BlockSegments + 1) <= h
        BY <3>2, Sizes, Products
      <4>2. l \in Nat /\ h \in Nat /\ turn' = h /\ turn' < l
        BY <1>4, <2>1, <3>2
      <4> HIDE DEF l, h
      <4> QED BY <4>1, <4>2, Sizes
    <3>7. /\ BlockEnd(n) \in Nat /\ BlockEnd(m) \in Nat /\ BlockEnd(n) <= BlockEnd(m)
      BY <3>2, <3>6, EarlierEnd
    <3>8. rxBuffer'.stored \subseteq 1..(BlockEnd(n) - 1)
      BY <3>5 DEF NothingAfter, BlockEnd
    <3>9. rxBuffer'.stored \subseteq 1..(BlockEnd(m) - 1)
      BY <3>7, <3>8
    <3> QED BY <3>9 DEF NothingAfter, BlockEnd
  <2>3. CASE ~IsRepair(turn)
    <3>1. ReceivedSegment(SegmentOf(turn))
      BY <2>1, <2>3, Zenon DEF Receive
    <3>2. turn < (m + 1) * (BlockSegments + 1)
      BY <1>2, <1>4, <2>1
    <3>3. NothingAfter(m)
      BY <1>3, <3>2
    <3> QED BY <1>1, <1>2, <2>1, <2>3, <3>1, <3>2, <3>3, SegmentPath
  <2> QED BY <2>2, <2>3
<1>6. CASE Miss \/ DelAckExpires \/ UNCHANGED receiverVars
  <2>1. (turn' = turn + 1 \/ turn' = turn) /\ rxBuffer' = rxBuffer
    BY <1>6 DEF Miss, DelAckExpires, receiverVars
  <2>2. turn < (m + 1) * (BlockSegments + 1)
    BY <1>2, <1>4, <2>1
  <2>3. NothingAfter(m)
    BY <1>3, <2>2
  <2> QED BY <2>1, <2>3 DEF NothingAfter, BlockEnd
<1>7. CASE ArriveLate
  <2>1. PICK t \in 0..(turn - 1) : (IsRepair(t) => reordering) /\ Receive(t)
    BY <1>7 DEF ArriveLate
  <2>2. turn' = turn
    BY <1>7 DEF ArriveLate
  <2>3. t \in Nat /\ t < turn /\ t < Blocks * (BlockSegments + 1)
    BY <1>2, <2>1
  <2>4. ~IsRepair(t)
    BY <2>1
  <2>5. ReceivedSegment(SegmentOf(t))
    BY <2>1, <2>4, Zenon DEF Receive
  <2>6. t < (m + 1) * (BlockSegments + 1) /\ turn < (m + 1) * (BlockSegments + 1)
    BY <1>2, <1>4, <2>2, <2>3
  <2>7. NothingAfter(m)
    BY <1>3, <2>6
  <2> QED BY <1>1, <2>3, <2>4, <2>5, <2>6, <2>7, SegmentPath
<1> QED BY <1>5, <1>6, <1>7 DEF ReceiverNext

LEMMA PathInductive ==
    ASSUME FirstArrives
    PROVE  ReceiverSpec => [](ReceiverInv /\ PathInv)
<1>1. ReceiverInv /\ PathInv /\ [ReceiverNext]_receiverVars => PathInv'
  <2> SUFFICES ASSUME ReceiverInv, PathInv, [ReceiverNext]_receiverVars, ~reordering'
               PROVE  SoundOK' /\ PathOK'
    BY DEF PathInv
  <2>1. reordering' = reordering
    BY DEF ReceiverNext, Arrive, Miss, ArriveLate, DelAckExpires, receiverVars
  <2>2. ~reordering /\ SoundOK /\ PathOK
    BY <2>1 DEF PathInv
  <2> QED BY <2>2, StepSound, StepPath
<1>2. ReceiverInit => PathInv
  BY InitSound DEF PathInv
<1> QED BY <1>1, <1>2, ReceiverInductive, PTL DEF ReceiverSpec

\* On a path that loses whatever it likes but the first segment, and on which no repair
\* packet is overtaken, FEC makes up no data: an octet stored was received, or belongs to
\* the one segment its block was missing when the repair packet came.
THEOREM StreamStaysSound ==
    ASSUME FirstArrives
    PROVE  ReceiverSpec => [](~reordering => StreamIsSound)
<1>1. PathInv => (~reordering => StreamIsSound)
  BY DEF PathInv, SoundOK
<1> QED BY <1>1, PathInductive, PTL

\* And where repair packets are overtaken FEC makes up no data either, although the
\* segments of the blocks that came first are counted as huge numbers (NSeg): the word
\* they wrap in is wide enough that their sum leaves none or one segment uncovered only
\* where none or one is.  The code's word is 2^32: a transfer of up to 2^30 octets.
THEOREM StreamAlwaysSound ==
    ASSUME FirstArrives, 4 * StreamEnd <= WordValues
    PROVE  ReceiverSpec => []StreamIsSound
<1>1. ReceiverInv /\ SoundOK /\ [ReceiverNext]_receiverVars => SoundOK'
  BY StepSound
<1>2. ReceiverInit => SoundOK
  BY InitSound
<1>3. SoundOK => StreamIsSound
  BY DEF SoundOK
<1> QED BY <1>1, <1>2, <1>3, ReceiverInductive, PTL DEF ReceiverSpec

\* Where a list names a segment it is stored in, one of its blocks holds it.
LEMMA ListedIs ==
    ASSUME BufferOK(rxBuffer), NEW n \in Nat, Listed(n), NEW k \in Numbers(n),
           SegmentSeq(k) \notin Missing(n), rxBuffer.next < SegmentSeq(k)
    PROVE  \E i \in 1..Len(rxBuffer.sack) : Holds(rxBuffer.sack[i], k)
<1>1. SegmentSeq(k) \in Block(n) \ Missing(n)
  BY NumbersAre
<1>2. k \in Nat /\ SegmentSeq(k) \in Nat /\ rxBuffer.next \in Nat
  <2>1. k \in Nat
    BY NumbersAre
  <2> QED BY <2>1, SegmentSeqs, Ends DEF BufferOK
<1>3. PICK x \in ToSet(rxBuffer.sack) : x[1] <= SegmentSeq(k) /\ SegmentSeq(k) + SegmentSize <= x[2]
  BY <1>1, <1>2 DEF Listed
<1>4. DOMAIN rxBuffer.sack = 1..Len(rxBuffer.sack)
  BY DEF BufferOK
<1>5. PICK i \in 1..Len(rxBuffer.sack) : x = rxBuffer.sack[i]
  BY <1>3, <1>4 DEF ToSet
<1> QED BY <1>3, <1>5 DEF Holds

\* Of a block of which one segment is missing, the list does not name that one alone.
LEMMA MissingIs ==
    ASSUME BufferOK(rxBuffer), rxBuffer.next \in Boundaries, NEW n \in Nat, n < Blocks,
           Listed(n), Cardinality(Missing(n)) = 1
    PROVE  \E k \in Unnamed(n) : Missing(n) = {SegmentSeq(k)} /\ Unnamed(n) = {k}
<1>1. IsFiniteSet(Missing(n))
  <2>1. StreamEnd \in Nat /\ \A s \in Boundaries : s \in 1..StreamEnd
    BY Ends
  <2>2. Missing(n) \subseteq 1..StreamEnd
    <3> SUFFICES ASSUME NEW s \in Missing(n) PROVE s \in Boundaries
      BY <2>1
    <3> QED BY BlockIs, SegmentBounds DEF Missing
  <2>3. IsFiniteSet(1..StreamEnd)
    BY <2>1, FS_Interval
  <2> QED BY <2>2, <2>3, FS_Subset
<1>2. PICK m : Missing(n) = {m}
  BY <1>1, FS_Singleton
<1>3. PICK k \in Unnamed(n) : m = SegmentSeq(k)
  BY <1>2, MissingUnnamed
<1>4. ASSUME NEW j \in Unnamed(n) PROVE j = k
  <2>1. /\ j \in Nat /\ k \in Nat /\ j \in Numbers(n) /\ SegmentSeq(j) \in Block(n)
        /\ rxBuffer.next <= SegmentSeq(j) /\ SegmentSeq(j) \in Nat
    BY <1>3, <1>4, UnnamedIs
  <2>2. j \notin Named(n)
    BY DEF Unnamed
  <2>3. SegmentSeq(j) \in Missing(n)
    <3> SUFFICES ASSUME SegmentSeq(j) \notin Missing(n) PROVE FALSE
      OBVIOUS
    <3>1. CASE rxBuffer.next = SegmentSeq(j)
      <4>1. rxBuffer.next \in Octets(SegmentSeq(j)) /\ rxBuffer.next \notin rxBuffer.stored
        BY <2>1, <3>1, Sizes DEF Octets, BufferOK
      <4> QED BY <2>1, <4>1 DEF Missing
    <3>2. CASE rxBuffer.next /= SegmentSeq(j)
      <4>1. rxBuffer.next < SegmentSeq(j)
        <5>1. rxBuffer.next \in Nat
          BY Ends
        <5> QED BY <2>1, <3>2, <5>1
      <4>2. \E i \in 1..Len(rxBuffer.sack) : Holds(rxBuffer.sack[i], j)
        BY <2>1, <4>1, ListedIs
      <4> QED BY <2>1, <2>2, <4>2 DEF Named
    <3> QED BY <3>1, <3>2
  <2>4. SegmentSeq(j) = SegmentSeq(k)
    BY <1>2, <1>3, <2>3
  <2> QED BY <2>1, <2>4, SegOrder
<1> QED BY <1>2, <1>3, <1>4

\* In a block ahead of what is expected, the one segment missing is the first, or the list
\* names the one before it and lostSegSeq is the one missing.
LEMMA LostAhead ==
    ASSUME BufferOK(rxBuffer), NEW n \in Nat, n < Blocks, Listed(n),
           rxBuffer.next < BlockStart(n), NEW k, Unnamed(n) = {k}, Missing(n) = {SegmentSeq(k)},
           SegmentSeq(k) /= BlockStart(n)
    PROVE  LostSegSeq(BlockStart(n), BlockEnd(n)) = SegmentSeq(k)
<1> DEFINE start == BlockStart(n)
           end == BlockEnd(n)
           m == SegmentSeq(k)
           before == SegmentSeq(k - 1)
<1>1. k \in Unnamed(n)
  OBVIOUS
<1>2. /\ k \in Nat /\ k \in Numbers(n) /\ m \in Nat /\ m \in Boundaries /\ start <= m
      /\ m + SegmentSize <= end
  BY <1>1, UnnamedIs
<1>3. start \in Nat /\ end \in Nat /\ rxBuffer.next \in Nat
  <2>1. start \in Nat /\ end \in Nat
    BY BlockIs, Ends
  <2>2. rxBuffer.next \in Nat
    BY Ends DEF BufferOK
  <2> QED BY <2>1, <2>2
<1>4. k - 1 \in Nat /\ k - 1 \in Numbers(n)
  <2> DEFINE first == n * BlockSegments
             last == (n + 1) * BlockSegments
  <2>1. first \in Nat /\ last \in Nat
    BY NumbersAre
  <2>2. first <= k /\ k <= last - 1
    BY <1>2 DEF Numbers
  <2>3. k /= first
    BY DEF BlockStart
  <2>4. k - 1 \in first..(last - 1)
    <3> HIDE DEF first, last
    <3> QED BY <1>2, <2>1, <2>2, <2>3
  <2>5. k - 1 \in Nat
    <3> HIDE DEF first, last
    <3> QED BY <2>1, <2>4
  <2> QED BY <2>4, <2>5 DEF Numbers
<1>5. before \in Nat /\ before + SegmentSize = m /\ start <= before
  <2>1. start <= before
    BY <1>4, NumbersAre
  <2>2. before \in Nat /\ SegmentSeq((k - 1) + 1) = before + SegmentSize
    BY <1>4, SegmentSeqs
  <2>3. (k - 1) + 1 = k
    BY <1>2
  <2> QED BY <2>1, <2>2, <2>3
<1>6. before \notin Missing(n)
  <2>1. before /= m
    <3> HIDE DEF before, m
    <3> QED BY <1>2, <1>5, Sizes
  <2> QED BY <2>1
<1> HIDE DEF start
<1>7. rxBuffer.next < before
  <2> HIDE DEF before
  <2> QED BY <1>3, <1>5 DEF start
<1>8. PICK i \in 1..Len(rxBuffer.sack) : Holds(rxBuffer.sack[i], k - 1)
  BY <1>4, <1>6, <1>7, ListedIs
<1> DEFINE x == rxBuffer.sack[i]
<1>9. x[1] \in Nat /\ x[2] \in Nat /\ x[2] \in Boundaries
  BY SackFacts
<1>10. x[1] <= before /\ m <= x[2]
  BY <1>5, <1>8 DEF Holds
<1>11. ~Holds(x, k)
  <2> SUFFICES ASSUME Holds(x, k) PROVE FALSE
    OBVIOUS
  <2>1. k \in Named(n)
    BY <1>2 DEF Named
  <2> QED BY <1>1, <2>1 DEF Unnamed
<1>12. ~(x[1] <= m /\ m + SegmentSize <= x[2])
  BY <1>11 DEF Holds
<1> HIDE DEF x, before, m
<1>13. x[2] = m
  <2>1. x[1] <= m
    BY <1>2, <1>5, <1>9, <1>10, Sizes
  <2>2. m < x[2] => m + SegmentSize <= x[2]
    BY <1>2, <1>9, Ends
  <2> QED BY <1>2, <1>9, <1>10, <1>12, <2>1, <2>2
<1>14. start <= x[2] /\ x[2] < end
  BY <1>2, <1>3, <1>13, Sizes
<1>15. \/ LostSegSeq(start, end) = m
       \/ \A j \in 1..Len(rxBuffer.sack) :
              ~(start <= rxBuffer.sack[j][2] /\ rxBuffer.sack[j][2] < end)
  <2>1. \/ \E u \in Unnamed(n) : LostSegSeq(start, end) = SegmentSeq(u)
        \/ \A j \in 1..Len(rxBuffer.sack) :
               ~(start <= rxBuffer.sack[j][2] /\ rxBuffer.sack[j][2] < end)
    BY LostIs, Zenon DEF start
  <2> QED BY <2>1, Zenon DEF m
<1> QED BY <1>14, <1>15 DEF x, start, m

\* A repair packet in its turn repairs a block of which one segment is missing.
LEMMA RepairedOne ==
    ASSUME PartOK, NEW n \in Nat, n < Blocks, NothingAfter(n), rxBuffer.next \in Boundaries,
           Listed(n), Cardinality(Missing(n)) = 1, ReceivedRepair(n)
    PROVE  Missing(n)' = {}
<1> DEFINE start == BlockStart(n)
           end == BlockEnd(n)
           lost == LostSegSeq(start, end)
<1>1. BufferOK(rxBuffer) /\ rxBuffer.next \in Nat /\ SegmentSize \in Nat /\ SegmentSize > 0
  <2>1. BufferOK(rxBuffer)
    BY Zenon DEF PartOK
  <2> QED BY <2>1, Ends, Sizes
<1>2. PICK k \in Unnamed(n) : Missing(n) = {SegmentSeq(k)} /\ Unnamed(n) = {k}
  BY <1>1, MissingIs
<1> DEFINE m == SegmentSeq(k)
<1>3. /\ k \in Nat /\ m \in Nat /\ m \in Boundaries /\ start <= m /\ 1 <= m
      /\ m + SegmentSize <= end /\ rxBuffer.next <= m
  BY <1>2, UnnamedIs, Ends
<1>4. start \in Nat /\ end \in Nat /\ start \in Boundaries /\ end \in Boundaries
  BY BlockIs, Ends
<1>5. ~Behind(n)
  BY <1>1, <1>3, <1>4 DEF Behind
<1>6. Uncovered(start, end) = 1
  <2>1. Uncovered(start, end) = Cardinality(Unnamed(n))
    BY <1>1, <1>5, UncoveredCounts
  <2> QED BY <1>2, <2>1, FS_Singleton
<1>7. ~Fails(n)
  <2>1. ~(1 > 1)
    OBVIOUS
  <2> QED BY <1>6, <2>1 DEF Fails
<1>8. PICK b, seq : Succeeds(n, b, seq)
  BY <1>7, RepairIs
<1>9. /\ BufferOK(b) /\ Fits(b, seq) /\ Store(b, seq, TRUE)
      /\ delAckCount \in 0..(DelAckMaxCount - 1)
      /\ b = Recovered(start, end)
      /\ seq = IF rxBuffer.next >= start THEN rxBuffer.next ELSE start
  BY <1>5, <1>8, Zenon DEF PartOK, Succeeds
<1>10. rxBuffer'.stored = b.stored \cup {o \in Octets(seq) : o >= 1}
  <2>1. rxBuffer' = Add(b, seq)
    BY <1>9, StoreKeeps, Zenon
  <2> QED BY <1>9, <2>1, AddKeeps
<1>11. b = IF rxBuffer.next < start THEN Add(rxBuffer, lost) ELSE rxBuffer
  BY <1>6, <1>9 DEF Recovered
<1>12. \A o \in Octets(m) : o >= 1
  BY <1>1, <1>3 DEF Octets
<1>13. rxBuffer.stored \subseteq rxBuffer'.stored /\ Octets(m) \subseteq rxBuffer'.stored
  <2>1. CASE rxBuffer.next >= start
    <3>1. b = rxBuffer /\ seq = rxBuffer.next
      BY <1>1, <1>4, <1>9, <1>11, <2>1
    <3>2. rxBuffer.next = m
      <4>1. PICK j \in Nat : rxBuffer.next = SegmentSeq(j)
        BY IndexIs
      <4>2. rxBuffer.next < end
        BY <1>1, <1>3, <1>4
      <4>3. j \in Numbers(n)
        BY <1>1, <1>4, <2>1, <4>1, <4>2, NumbersAre
      <4>4. rxBuffer.next \in Block(n)
        BY <4>1, <4>3, NumbersAre
      <4>5. rxBuffer.next \in Octets(rxBuffer.next) /\ rxBuffer.next \notin rxBuffer.stored
        BY <1>1 DEF Octets, BufferOK
      <4>6. rxBuffer.next \in Missing(n)
        BY <4>4, <4>5 DEF Missing
      <4> QED BY <1>2, <4>6
    <3> QED BY <1>10, <1>12, <3>1, <3>2
  <2>2. CASE rxBuffer.next < start
    <3>1. b = Add(rxBuffer, lost) /\ seq = start
      BY <1>1, <1>4, <1>9, <1>11, <2>2
    <3>2. b.stored = rxBuffer.stored \cup {o \in Octets(lost) : o >= 1}
      BY <1>1, <1>4, <2>2, <3>1, LostFits, AddKeeps
    <3>3. CASE m = start
      BY <1>10, <1>12, <3>1, <3>2, <3>3
    <3>4. CASE m /= start
      <4>1. lost = m
        BY <1>1, <1>2, <2>2, <3>4, LostAhead
      <4> QED BY <1>10, <1>12, <3>2, <4>1
    <3> QED BY <3>3, <3>4
  <2> QED BY <1>1, <1>4, <2>1, <2>2
<1>14. ASSUME NEW s \in Block(n) PROVE Octets(s) \subseteq rxBuffer'.stored
  <2>1. CASE s \in Missing(n)
    BY <1>2, <1>13, <2>1
  <2>2. CASE s \notin Missing(n)
    <3>1. Octets(s) \subseteq rxBuffer.stored
      BY <1>14, <2>2 DEF Missing
    <3> QED BY <1>13, <3>1
  <2> QED BY <2>1, <2>2
<1> QED BY <1>14 DEF Missing, Block, Octets, SegmentSeq

\* Whatever the path has lost, a repair packet in its turn restores the one segment its
\* block is missing while the SACK list still names the others: behind the octet expected
\* or ahead of it, and at whichever end of the block.
THEOREM RepairsMissing ==
    ASSUME FirstArrives
    PROVE  ReceiverSpec => RepairsOne
<1> DEFINE Repaired ==
        \A n \in 0..(Blocks - 1) :
            ~reordering /\ Cardinality(Missing(n)) = 1 /\ Listed(n) /\ RepairArrives(n)
            => Missing(n)' = {}
<1>1. ASSUME ReceiverInv, PathInv PROVE Repaired
  <2> SUFFICES ASSUME NEW n \in 0..(Blocks - 1), ~reordering, Cardinality(Missing(n)) = 1,
                      Listed(n), RepairArrives(n)
               PROVE  Missing(n)' = {}
    OBVIOUS
  <2>1. n \in Nat /\ n < Blocks
    BY Sizes
  <2>2. PartOK /\ SoundOK /\ PathOK /\ turn \in Nat
    BY <1>1, TurnBounds DEF PathInv, ReceiverInv
  <2>3. ReceivedRepair(n) /\ IsRepair(turn) /\ BlockOf(turn) = n
    BY Zenon DEF RepairArrives
  <2>4. turn + 1 = (n + 1) * (BlockSegments + 1) /\ turn < (n + 1) * (BlockSegments + 1)
    BY <2>2, <2>3, Turns
  <2>5. NothingAfter(n) /\ rxBuffer.next \in Boundaries
    BY <2>1, <2>2, <2>4 DEF SoundOK, PathOK
  <2> QED BY <2>1, <2>2, <2>3, <2>5, RepairedOne
<1>2. ReceiverInv /\ PathInv => [Repaired]_receiverVars
  BY <1>1
<1> QED BY <1>2, PathInductive, PTL DEF RepairsOne
=============================================================================
