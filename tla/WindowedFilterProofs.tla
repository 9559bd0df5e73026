----------------------- MODULE WindowedFilterProofs -----------------------
(***************************************************************************)
(* WindowedFilter keeps its estimates ordered, never underestimates what   *)
(* came after its best sample, and never returns one older than the        *)
(* window: for either direction, any samples and any window lengths.       *)
(***************************************************************************)
EXTENDS MCWindowedFilter, FiniteSetTheorems, TLAPS

USE FilterAssumption

\* MinFilter and MaxFilter are total orders that compare equal values true.
LEMMA CompareOrder ==
    ASSUME NEW a \in Nat, NEW b \in Nat, NEW c \in Nat
    PROVE  /\ Compare(a, a)
           /\ Compare(a, b) \/ Compare(b, a)
           /\ Compare(a, b) /\ Compare(b, c) => Compare(a, c)
BY DEF Compare

-----------------------------------------------------------------------------
\* What the estimates of one moment promise about the samples taken so far,
\* as a predicate of the estimates: Update changes them in two steps.
Ordered(e, t) == /\ e[0].time <= e[1].time
                 /\ e[1].time <= e[2].time
                 /\ e[2].time <= t

Sorted(e) == /\ Compare(e[0].sample, e[1].sample)
             /\ Compare(e[1].sample, e[2].sample)

Dominates(e, S) == \A i \in 0..2 : \A m \in S :
    m.time > e[i].time => Compare(e[i].sample, m.sample)

Promise(e, t, S) ==
    /\ e \in Estimates
    /\ \A i \in 0..2 : e[i].sample # 0
    /\ Ordered(e, t)
    /\ Sorted(e)
    /\ Dominates(e, S)

\* Recording a sample that is not a new best makes the promise cover it too.
LEMMA RecordKeeps ==
    ASSUME NEW e, NEW new \in SampleType, NEW t \in Nat, NEW S \in SUBSET SampleType,
           Promise(e, t, S), t <= new.time, new.sample # 0,
           \A m \in S : m.time <= t,
           ~Compare(new.sample, e[0].sample)
    PROVE  Promise(Recorded(e, new), new.time, S \cup {new})
<1> DEFINE r == Recorded(e, new)
<1>0. /\ e[0] \in SampleType /\ e[1] \in SampleType /\ e[2] \in SampleType
      /\ e = [i \in 0..2 |-> e[i]]
  BY DEF Promise, Estimates
<1>1. CASE Compare(new.sample, e[1].sample)
  <2>1. r[0] = e[0] /\ r[1] = new /\ r[2] = new /\ r \in Estimates
    BY <1>0, <1>1 DEF Recorded, Promise, Estimates
  <2>2. Ordered(r, new.time) /\ Sorted(r)
    BY <2>1, <1>0, CompareOrder DEF Promise, Ordered, Sorted, SampleType
  <2>3. Dominates(r, S \cup {new})
    BY <2>1, <1>0, CompareOrder DEF Promise, Ordered, Dominates, SampleType
  <2> QED
    BY <2>1, <2>2, <2>3 DEF Promise
<1>2. CASE ~Compare(new.sample, e[1].sample) /\ Compare(new.sample, e[2].sample)
  <2>1. r[0] = e[0] /\ r[1] = e[1] /\ r[2] = new /\ r \in Estimates
    BY <1>0, <1>2 DEF Recorded, Promise, Estimates
  <2>2. Ordered(r, new.time) /\ Sorted(r)
    BY <2>1, <1>0, <1>2, CompareOrder DEF Promise, Ordered, Sorted, SampleType
  <2>3. Dominates(r, S \cup {new})
    BY <2>1, <1>0, <1>2, CompareOrder DEF Promise, Ordered, Dominates, SampleType
  <2> QED
    BY <2>1, <2>2, <2>3 DEF Promise
<1>3. CASE ~Compare(new.sample, e[1].sample) /\ ~Compare(new.sample, e[2].sample)
  <2>1. r = e
    BY <1>3 DEF Recorded
  <2>2. Ordered(e, new.time) /\ Dominates(e, S \cup {new})
    BY <1>0, <1>3, CompareOrder DEF Promise, Ordered, Dominates, SampleType
  <2> QED
    BY <2>1, <2>2 DEF Promise
<1> QED
  BY <1>1, <1>2, <1>3

\* What moves up on expiry, or is refreshed, keeps the promise: the new sample
\* is the newest of all, and by then no better than the third best.
LEMMA ShiftKeeps ==
    ASSUME NEW e, NEW f, NEW new \in SampleType, NEW S \in SUBSET SampleType,
           Promise(e, new.time, S), new.sample # 0,
           \A m \in S : m.time <= new.time,
           Compare(e[2].sample, new.sample),
           f \in Estimates,
           \/ f[0] = e[1] /\ f[1] = e[2] /\ f[2] = new
           \/ f[0] = e[2] /\ f[1] = new /\ f[2] = new
           \/ f[0] = e[0] /\ f[1] = new /\ f[2] = new
           \/ f[0] = e[0] /\ f[1] = e[1] /\ f[2] = new
           \/ f = e
    PROVE  Promise(f, new.time, S)
<1>0. e[0] \in SampleType /\ e[1] \in SampleType /\ e[2] \in SampleType
  BY DEF Promise, Estimates
<1>1. Ordered(f, new.time)
  BY <1>0 DEF Promise, Ordered, SampleType
<1>2. Sorted(f)
  BY <1>0, CompareOrder DEF Promise, Sorted, SampleType
<1>3. Dominates(f, S)
  BY <1>0 DEF Promise, Dominates, SampleType
<1> QED
  BY <1>1, <1>2, <1>3 DEF Promise

\* Update from estimates that keep the promise.
LEMMA UpdateKeeps ==
    ASSUME NEW s \in Samples, NEW t \in Nat, t >= now,
           TypeOK, Promise(estimates, now, seen),
           \A m \in seen : m.time <= now,
           ~ResetsAll(estimates, s, t)
    PROVE  Promise(Updated(estimates, Sample(s, t)), t, seen \cup {Sample(s, t)})
<1> DEFINE new == Sample(s, t)
           S == seen \cup {new}
           r == Recorded(estimates, new)
           f == Updated(estimates, new)
<1>1. /\ new \in SampleType /\ new.sample = s /\ new.time = t /\ s # 0
      /\ S \in SUBSET SampleType /\ (\A m \in S : m.time <= t)
  BY DEF Sample, SampleType, TypeOK
<1>2. Promise(r, t, S)
  BY <1>1, RecordKeeps DEF TypeOK, ResetsAll
<1>3. /\ estimates[0] \in SampleType /\ estimates[1] \in SampleType
      /\ estimates[2] \in SampleType
      /\ r[0] \in SampleType /\ r[1] \in SampleType /\ r[2] \in SampleType
      /\ r \in Estimates
  BY <1>2 DEF TypeOK, Promise, Estimates
<1>4. Compare(r[2].sample, new.sample)
  BY <1>1, <1>3, CompareOrder DEF Recorded, SampleType, Estimates, TypeOK
<1>5. /\ f \in Estimates
      /\ \/ f[0] = r[1] /\ f[1] = r[2] /\ f[2] = new
         \/ f[0] = r[2] /\ f[1] = new /\ f[2] = new
         \/ f[0] = r[0] /\ f[1] = new /\ f[2] = new
         \/ f[0] = r[0] /\ f[1] = r[1] /\ f[2] = new
         \/ f = r
  <2> HIDE DEF r, new
  <2> USE DEF f
  <2>1. CASE new.time - r[0].time > window
    <3>1. f = Promoted(r, new)
      BY <2>1 DEF Updated, r
    <3> QED
      BY <3>1, <1>1, <1>3 DEF Promoted, Estimates
  <2>2. CASE ~(new.time - r[0].time > window)
    <3>1. f = Spread(r, new)
      BY <2>2 DEF Updated, r
    <3> QED
      BY <3>1, <1>1, <1>3 DEF Spread, Estimates
  <2> QED
    BY <2>1, <2>2
<1> HIDE DEF f, r, S
<1>6. Promise(f, t, S)
  BY <1>1, <1>2, <1>4, <1>5, ShiftKeeps
<1> QED
  BY <1>6 DEF f, S

\* A reset leaves three copies of the newest sample.
LEMMA ResetKeeps ==
    ASSUME NEW s \in Samples, NEW t \in Nat, t >= now,
           TypeOK, \A m \in seen : m.time <= now
    PROVE  Promise(Reset(Sample(s, t)), t, seen \cup {Sample(s, t)})
<1> DEFINE new == Sample(s, t)
           e == Reset(new)
<1>1. /\ new \in SampleType /\ new.sample = s /\ new.time = t /\ s # 0
      /\ e \in Estimates /\ e[0] = new /\ e[1] = new /\ e[2] = new
  BY DEF Sample, SampleType, Reset, Estimates
<1>2. \A m \in seen \cup {new} : m.time <= t
  BY <1>1 DEF TypeOK, SampleType
<1> HIDE DEF e, new
<1>3. Ordered(e, t) /\ Sorted(e)
  BY <1>1, CompareOrder DEF Ordered, Sorted, SampleType
<1>4. Dominates(e, seen \cup {new})
  BY <1>1, <1>2 DEF Dominates, SampleType, TypeOK
<1>5. \A i \in 0..2 : e[i].sample # 0
  BY <1>1
<1>6. Promise(e, t, seen \cup {new})
  BY <1>1, <1>3, <1>4, <1>5 DEF Promise
<1> QED
  BY <1>6 DEF e, new

-----------------------------------------------------------------------------
\* Once there is a sample, the invariant is the promise of the estimates.
LEMMA InvIsPromise ==
    ASSUME TypeOK, seen # {}
    PROVE  IInv <=> Promise(estimates, now, seen) /\ \A m \in seen : m.time <= now
BY DEF IInv, Promise, Ordered, Sorted, Dominates, TypeOK, TimesOrdered,
       SamplesOrdered, DominatesNewer, Started

\* The first sample is always a reset.
LEMMA UpdateInductive ==
    ASSUME IInv, NEW s \in Samples, NEW t \in 0..MaxTime, Update(s, t)
    PROVE  IInv'
<1> DEFINE new == Sample(s, t)
<1>1. TypeOK /\ t \in Nat /\ t >= now /\ \A m \in seen : m.time <= now
  BY DEF IInv, Update, Started
<1>2. Promise(estimates', t, seen')
  <2>1. CASE ResetsAll(estimates, s, t)
    BY <2>1, <1>1, ResetKeeps DEF Update
  <2>2. CASE ~ResetsAll(estimates, s, t)
    <3>1. seen # {}
      BY <2>2 DEF IInv, Started, ResetsAll
    <3>2. Promise(estimates, now, seen)
      BY <3>1, <1>1, InvIsPromise
    <3> QED
      BY <2>2, <3>2, <1>1, UpdateKeeps DEF Update
  <2> QED
    BY <2>1, <2>2
<1>3. /\ new \in SampleType /\ new.time = t
      /\ seen' = seen \cup {new} /\ now' = t /\ window' = window
  BY <1>1 DEF Update, Sample, SampleType
<1>4. TypeOK'
  BY <1>1, <1>2, <1>3 DEF TypeOK, Promise
<1>5. \A m \in seen' : m.time <= now'
  BY <1>1, <1>3 DEF TypeOK, SampleType
<1>6. seen' # {}
  BY <1>3
<1> QED
  BY <1>2, <1>3, <1>4, <1>5, <1>6
     DEF IInv, Promise, Ordered, Sorted, Dominates, TimesOrdered, SamplesOrdered,
         DominatesNewer, Started

\* The invariant is inductive.
THEOREM Inductive == Spec => []IInv
<1>1. Init => IInv
  <2> SUFFICES ASSUME Init PROVE IInv
    OBVIOUS
  <2>1. \A i \in 0..2 : estimates[i] = Sample(0, 0)
    BY DEF Init
  <2>2. TypeOK
    BY DEF Init, TypeOK, Estimates, Sample, SampleType
  <2> QED
    BY <2>1, <2>2
       DEF Init, IInv, Sample, TimesOrdered, SamplesOrdered, DominatesNewer, Started
<1>2. IInv /\ [Next]_vars => IInv'
  <2> SUFFICES ASSUME IInv, [Next]_vars PROVE IInv'
    OBVIOUS
  <2>1. ASSUME NEW s \in Samples, NEW t \in 0..MaxTime, Update(s, t) PROVE IInv'
    BY <2>1, UpdateInductive
  <2>2. ASSUME NEW w \in Windows, SetWindowLength(w) PROVE IInv'
    BY <2>2 DEF SetWindowLength, IInv, TypeOK, TimesOrdered, SamplesOrdered,
                DominatesNewer, Started
  <2>3. CASE UNCHANGED vars
    BY <2>3 DEF vars, IInv, TypeOK, TimesOrdered, SamplesOrdered,
                DominatesNewer, Started
  <2> QED
    BY <2>1, <2>2, <2>3 DEF Next
<1> QED
  BY <1>1, <1>2, PTL DEF Spec

\* Every variable keeps its type.
THEOREM TypeCorrect == Spec => []TypeOK
<1>1. IInv => TypeOK
  BY DEF IInv
<1> QED
  BY <1>1, Inductive, PTL

\* The order of the measurement times that windowed-filter.h promises.
THEOREM TimesStayOrdered == Spec => []TimesOrdered
<1>1. IInv => TimesOrdered
  BY DEF IInv
<1> QED
  BY <1>1, Inductive, PTL

\* The best, second best and third best are what their names say.
THEOREM SamplesStayOrdered == Spec => []SamplesOrdered
<1>1. IInv => SamplesOrdered
  BY DEF IInv
<1> QED
  BY <1>1, Inductive, PTL

\* GetBest never underestimates what was measured after the sample it returns.
THEOREM NeverUnderestimates == Spec => []DominatesNewer
<1>1. IInv => DominatesNewer
  BY DEF IInv
<1> QED
  BY <1>1, Inductive, PTL

\* GetBest is never older than the window when Update returns: after the first
\* test the third best is not, so two promotions are enough.
THEOREM BestStaysFresh == Spec => BestIsFresh
<1>1. IInv /\ [Next]_vars
      => [UNCHANGED window => now' - estimates'[0].time <= window]_vars
  <2> SUFFICES ASSUME IInv, Next, window' = window, ~UNCHANGED vars
               PROVE  now' - estimates'[0].time <= window
    BY DEF BestIsFresh
  <2>1. PICK s \in Samples, t \in 0..MaxTime : Update(s, t)
    BY DEF Next, SetWindowLength, vars
  <2> DEFINE new == Sample(s, t)
             r == Recorded(estimates, new)
  <2>2. /\ new \in SampleType /\ new.time = t /\ now' = t /\ window \in Nat
        /\ estimates[0] \in SampleType /\ estimates[1] \in SampleType
        /\ estimates[2] \in SampleType /\ estimates \in Estimates
    BY <2>1 DEF Update, Sample, SampleType, IInv, TypeOK, Estimates
  <2>3. CASE ResetsAll(estimates, s, t)
    BY <2>1, <2>2, <2>3 DEF Update, Reset, SampleType
  <2>4. CASE ~ResetsAll(estimates, s, t)
    <3>1. t - estimates[2].time <= window
      BY <2>2, <2>4 DEF ResetsAll, SampleType
    <3>2. t - r[2].time <= window /\ r[0] \in SampleType /\ r[1] \in SampleType
          /\ r[2] \in SampleType /\ r \in Estimates
      BY <3>1, <2>2 DEF Recorded, SampleType, Estimates
    <3>3. estimates' = IF t - r[0].time > window THEN Promoted(r, new)
                                                 ELSE Spread(r, new)
      BY <2>1, <2>2, <2>4 DEF Update, Updated
    <3> HIDE DEF r, new
    <3>4. CASE t - r[0].time > window
      <4>1. Promoted(r, new)[0] = IF t - r[1].time > window THEN r[2] ELSE r[1]
        BY <3>2, <2>2 DEF Promoted, Estimates
      <4> QED
        BY <4>1, <3>2, <3>3, <3>4, <2>2 DEF SampleType
    <3>5. CASE ~(t - r[0].time > window)
      <4>1. Spread(r, new)[0] = r[0]
        BY <3>2 DEF Spread, Estimates
      <4> QED
        BY <4>1, <3>2, <3>3, <3>5, <2>2 DEF SampleType
    <3> QED
      BY <3>4, <3>5
  <2> QED
    BY <2>3, <2>4
<1> QED
  BY <1>1, Inductive, PTL DEF Spec, BestIsFresh

-----------------------------------------------------------------------------
(***************************************************************************)
(* Samples that worsen, at least one in every unit of time                 *)
(***************************************************************************)

Quarter(w) == w \div 4
Half(w) == w \div 2

\* The first of the samples of its time, and at least as good as all since.
First(x, n, S) ==
    /\ x \in S /\ x.time <= n
    /\ \A m \in S : m.time >= x.time => Compare(x.sample, m.sample)

Best(x, S) == \A m \in S : Compare(x.sample, m.sample)

\* The estimates are one sample; or the second is a quarter after the first; or all
\* are apart, by a quarter, a half and the rest of the window in turn.
Same(e, n, w) == e[1] = e[0] /\ e[2] = e[0] /\ n - e[0].time <= Quarter(w)

Apart2(e, n, w) ==
    /\ e[2] = e[1] /\ e[1].sample /= e[0].sample
    /\ e[1].time - e[0].time = Quarter(w) + 1 /\ n - e[1].time <= Half(w)

Apart3(e, n, w) ==
    /\ e[1].sample /= e[0].sample /\ e[2].sample /= e[1].sample
    /\ LET q == Quarter(w) + 1
           h == Half(w) + 1
           d1 == e[1].time - e[0].time
           d2 == e[2].time - e[1].time
       IN  \/ d1 = q /\ d2 = h
           \/ d1 = h /\ d2 = w + 1 - q - h
           \/ d1 = w + 1 - q - h /\ d2 = q
    /\ n - e[0].time <= w

\* What the estimates are once there is a sample.
Dense(e, n, w, S) ==
    /\ e \in Estimates /\ n \in Nat /\ w \in Nat /\ w >= 5 /\ S \subseteq SampleType
    /\ \A m \in S : m.time <= n
    /\ \A m \in S : m.sample /= 0
    /\ \A i \in 0..2 : First(e[i], n, S)
    /\ \/ Same(e, n, w) /\ Best(e[0], S)
       \/ Apart2(e, n, w) /\ Best(e[0], S)
       \/ Apart3(e, n, w) /\ (Best(e[0], S) \/ 2 * (n - e[0].time + 1) > w)

\* The distances fit the window.
LEMMA Fits ==
    ASSUME NEW w \in Nat, w >= 5
    PROVE  /\ Quarter(w) \in Nat /\ Half(w) \in Nat
           /\ Quarter(w) + Half(w) + 2 <= w
           /\ 2 * (Half(w) + 1) > w /\ 2 * Half(w) <= w /\ Quarter(w) <= Half(w)
BY DEF Quarter, Half

LEMMA DenseCovers ==
    ASSUME NEW e, NEW n, NEW w, NEW S, Dense(e, n, w, S), NEW m \in S, 2 * (n - m.time) <= w
    PROVE  Compare(e[0].sample, m.sample)
<1>1. CASE Best(e[0], S)
  BY <1>1 DEF Best
<1>2. CASE ~Best(e[0], S)
  <2>1. 2 * (n - e[0].time + 1) > w
    BY <1>2 DEF Dense
  <2>2. n \in Nat /\ w \in Nat /\ e[0] \in SampleType /\ m \in SampleType
    BY DEF Dense, Estimates
  <2>3. m.time >= e[0].time
    BY <2>1, <2>2 DEF SampleType
  <2>4. First(e[0], n, S)
    BY DEF Dense
  <2> QED BY <2>3, <2>4 DEF First
<1> QED BY <1>1, <1>2

\* What is first at its time stays so when a worse sample comes.
LEMMA FirstStays ==
    ASSUME NEW n \in Nat, NEW t \in Nat, n <= t, NEW S \in SUBSET SampleType,
           NEW new \in SampleType, \A m \in S : ~Compare(new.sample, m.sample),
           NEW x, First(x, n, S)
    PROVE  /\ First(x, t, S \cup {new}) /\ x.sample /= new.sample
           /\ Best(x, S) => Best(x, S \cup {new})
<1>1. x \in S /\ x \in SampleType /\ ~Compare(new.sample, x.sample)
  BY DEF First
<1>2. Compare(x.sample, new.sample) /\ x.sample /= new.sample
  BY <1>1, CompareOrder DEF SampleType
<1>3. x.time <= t
  BY <1>1 DEF First, SampleType
<1>4. First(x, t, S \cup {new})
  BY <1>1, <1>2, <1>3 DEF First
<1> QED BY <1>2, <1>4 DEF Best

\* A worse sample at a later time is the first of it.
LEMMA FirstNew ==
    ASSUME NEW n \in Nat, NEW t \in Nat, n < t, NEW S \in SUBSET SampleType,
           \A m \in S : m.time <= n, NEW new \in SampleType, new.time = t
    PROVE  First(new, t, S \cup {new})
<1>1. \A m \in S : ~(m.time >= t)
  BY DEF SampleType
<1>2. Compare(new.sample, new.sample)
  BY CompareOrder DEF SampleType
<1> QED BY <1>1, <1>2 DEF First

\* Update, of a sample worse than all before it and at most one unit of time later.
LEMMA DenseStep ==
    ASSUME NEW e, NEW n, NEW w, NEW S, Dense(e, n, w, S), w = window,
           NEW t \in n..(n + 1), NEW new \in SampleType, new.time = t, new.sample /= 0,
           \A m \in S : ~Compare(new.sample, m.sample)
    PROVE  /\ ~ResetsAll(e, new.sample, t)
           /\ Dense(Updated(e, new), t, w, S \cup {new})
<1> DEFINE T == S \cup {new}
           q == Quarter(w)
           h == Half(w)
           a == e[0]
           b == e[1]
           c == e[2]
           u == Updated(e, new)
<1>1. /\ e \in Estimates /\ n \in Nat /\ w \in Nat /\ w >= 5 /\ S \in SUBSET SampleType
      /\ t \in Nat /\ n <= t /\ (t = n \/ t = n + 1)
      /\ a \in SampleType /\ b \in SampleType /\ c \in SampleType
      /\ a.sample /= 0 /\ b.sample /= 0 /\ First(a, n, S) /\ First(b, n, S) /\ First(c, n, S)
      /\ a \in S /\ b \in S /\ c \in S /\ \A m \in S : m.time <= n
  BY DEF Dense, Estimates, First
<1>2. /\ q \in Nat /\ h \in Nat /\ q + h + 2 <= w /\ 2 * (h + 1) > w /\ 2 * h <= w /\ q <= h
      /\ q = w \div 4 /\ h = w \div 2
  <2>1. q = w \div 4 /\ h = w \div 2
    BY DEF Quarter, Half
  <2> QED BY <1>1, <2>1, Fits
<1> HIDE DEF q, h
<1>3. /\ First(a, t, T) /\ First(b, t, T) /\ First(c, t, T)
      /\ a.sample /= new.sample /\ b.sample /= new.sample /\ c.sample /= new.sample
      /\ Best(a, S) => Best(a, T)
  <2>1. n \in Nat /\ t \in Nat /\ n <= t /\ S \in SUBSET SampleType
    BY <1>1
  <2>2. ASSUME NEW x, First(x, n, S)
        PROVE  First(x, t, T) /\ x.sample /= new.sample /\ (Best(x, S) => Best(x, T))
    BY <2>1, <2>2, FirstStays
  <2> HIDE DEF T
  <2> QED BY <1>1, <2>2
<1>4. ASSUME t = n + 1 PROVE First(new, t, T)
  <2>1. n < t
    BY <1>1, <1>4
  <2> QED BY <1>1, <2>1, FirstNew
<1>5. T \in SUBSET SampleType /\ (\A m \in T : m.time <= t) /\ \A m \in T : m.sample /= 0
  BY <1>1 DEF SampleType, Dense
<1>6. Recorded(e, new) = e
  BY <1>1 DEF Recorded
<1>7. /\ u = (IF t - a.time > w THEN Promoted(e, new) ELSE Spread(e, new))
      /\ Spread(e, new) =
           IF b.sample = a.sample /\ t - b.time > q THEN [e EXCEPT ![1] = new, ![2] = new]
           ELSE IF c.sample = b.sample /\ t - c.time > h THEN [e EXCEPT ![2] = new]
           ELSE e
  BY <1>2, <1>6 DEF Updated, Spread
<1>8. /\ a.time \in Nat /\ b.time \in Nat /\ c.time \in Nat /\ a.time <= n /\ b.time <= n
      /\ c.time <= n
  BY <1>1 DEF SampleType, First
<1> HIDE DEF a, b, c, T, u
<1>9. CASE Same(e, n, w) /\ Best(a, S)
  <2>1. b = a /\ c = a /\ n - a.time <= q
    BY <1>9 DEF Same, a, b, c, q
  <2>2. ~(t - c.time > w) /\ ~(t - a.time > w)
    BY <1>1, <1>2, <1>8, <2>1
  <2>3. CASE t - b.time > q
    <3> DEFINE f == [e EXCEPT ![1] = new, ![2] = new]
    <3>1. u = f
      BY <1>7, <2>1, <2>2, <2>3
    <3>2. f \in Estimates /\ f[0] = a /\ f[1] = new /\ f[2] = new
      BY <1>1 DEF Estimates, a
    <3> HIDE DEF f
    <3>3. t = n + 1 /\ t - a.time = q + 1
      BY <1>1, <1>2, <1>8, <2>1, <2>3
    <3>4. Apart2(f, t, w)
      BY <1>2, <1>3, <3>2, <3>3 DEF Apart2, q, h
    <3>5. \A i \in 0..2 : First(f[i], t, T)
      BY <1>3, <1>4, <3>2, <3>3
    <3> QED
      BY <1>1, <1>3, <1>5, <1>9, <2>2, <3>1, <3>2, <3>4, <3>5 DEF Dense, ResetsAll, T, u, a, c
  <2>4. CASE ~(t - b.time > q)
    <3>1. u = e
      BY <1>1, <1>2, <1>7, <1>8, <2>1, <2>2, <2>4
    <3>2. Same(e, t, w)
      BY <1>1, <1>2, <1>8, <2>1, <2>4 DEF Same, a, b, c, q
    <3> QED
      BY <1>1, <1>3, <1>5, <1>9, <2>2, <3>1, <3>2 DEF Dense, ResetsAll, T, u, a, b, c
  <2> QED BY <2>3, <2>4
<1>10. CASE Apart2(e, n, w) /\ Best(a, S)
  <2>1. c = b /\ b.sample /= a.sample /\ b.time - a.time = q + 1 /\ n - b.time <= h
    BY <1>10 DEF Apart2, a, b, c, q, h
  <2>2. ~(t - c.time > w) /\ ~(t - a.time > w)
    BY <1>1, <1>2, <1>8, <2>1
  <2>3. CASE t - c.time > h
    <3> DEFINE f == [e EXCEPT ![2] = new]
    <3>1. u = f
      BY <1>7, <2>1, <2>2, <2>3
    <3>2. f \in Estimates /\ f[0] = a /\ f[1] = b /\ f[2] = new
      BY <1>1 DEF Estimates, a, b
    <3> HIDE DEF f
    <3>3. t = n + 1 /\ t - b.time = h + 1
      BY <1>1, <1>2, <1>8, <2>1, <2>3
    <3>4. Apart3(f, t, w)
      <4>1. /\ b.time - a.time = q + 1 /\ new.time - b.time = h + 1
            /\ b.sample /= a.sample /\ new.sample /= b.sample /\ t - a.time <= w
        BY <1>1, <1>3, <1>8, <2>1, <2>2, <3>3
      <4> QED BY <3>2, <4>1 DEF Apart3, q, h
    <3>5. \A i \in 0..2 : First(f[i], t, T)
      BY <1>3, <1>4, <3>2, <3>3
    <3> QED
      BY <1>1, <1>3, <1>5, <1>10, <2>2, <3>1, <3>2, <3>4, <3>5 DEF Dense, ResetsAll, T, u, a, c
  <2>4. CASE ~(t - c.time > h)
    <3>1. u = e
      BY <1>1, <1>2, <1>7, <1>8, <2>1, <2>2, <2>4
    <3>2. Apart2(e, t, w)
      <4>1. t - b.time <= h
        BY <1>1, <1>2, <1>8, <2>1, <2>4
      <4> QED BY <2>1, <4>1 DEF Apart2, a, b, c, q, h
    <3> QED
      BY <1>1, <1>3, <1>5, <1>10, <2>2, <3>1, <3>2 DEF Dense, ResetsAll, T, u, a, b, c
  <2> QED BY <2>3, <2>4
<1>11. CASE Apart3(e, n, w) /\ (Best(a, S) \/ 2 * (n - a.time + 1) > w)
  <2> DEFINE d1 == b.time - a.time
             d2 == c.time - b.time
  <2>1. /\ b.sample /= a.sample /\ c.sample /= b.sample /\ n - a.time <= w
        /\ \/ d1 = q + 1 /\ d2 = h + 1
           \/ d1 = h + 1 /\ d2 = w + 1 - (q + 1) - (h + 1)
           \/ d1 = w + 1 - (q + 1) - (h + 1) /\ d2 = q + 1
    BY <1>11 DEF Apart3, a, b, c, q, h
  <2>2. /\ ~(t - c.time > w) /\ ~(t - b.time > w)
        /\ d1 \in Nat /\ d2 \in Nat /\ d1 >= 1 /\ d2 >= 1
    BY <1>1, <1>2, <1>8, <2>1
  <2>3. CASE t - a.time > w
    <3> DEFINE f == [e EXCEPT ![0] = e[1], ![1] = e[2], ![2] = new]
    <3>1. f \in Estimates /\ f[0] = b /\ f[1] = c /\ f[2] = new
      BY <1>1 DEF Estimates, b, c
    <3>2. u = f
      BY <1>7, <2>2, <2>3, <3>1 DEF Promoted
    <3> HIDE DEF f
    <3>3. t = n + 1 /\ t - a.time = w + 1
      BY <1>1, <1>8, <2>1, <2>3
    <3>4. t - c.time = w + 1 - d1 - d2 /\ t - b.time = w + 1 - d1
      BY <1>1, <1>8, <3>3
    <3>5. /\ \/ d2 = q + 1 /\ t - c.time = h + 1
             \/ d2 = h + 1 /\ t - c.time = w + 1 - (q + 1) - (h + 1)
             \/ d2 = w + 1 - (q + 1) - (h + 1) /\ t - c.time = q + 1
          /\ 2 * (t - b.time + 1) > w
      BY <1>1, <1>2, <2>1, <3>4
    <3>6. Apart3(f, t, w)
      <4>1. /\ c.time - b.time = d2 /\ new.time - c.time = t - c.time
            /\ c.sample /= b.sample /\ new.sample /= c.sample /\ t - b.time <= w
        BY <1>1, <1>3, <1>8, <2>1, <2>2
      <4>2. t - c.time \in Int /\ d2 \in Int
        BY <1>1, <1>8
      <4> HIDE DEF d2
      <4> QED BY <1>1, <1>2, <3>1, <3>5, <4>1, <4>2 DEF Apart3, q, h
    <3>7. \A i \in 0..2 : First(f[i], t, T)
      BY <1>3, <1>4, <3>1, <3>3
    <3> QED
      BY <1>1, <1>3, <1>5, <1>11, <2>2, <3>1, <3>2, <3>5, <3>6, <3>7
         DEF Dense, ResetsAll, T, u, a, c
  <2>4. CASE ~(t - a.time > w)
    <3>1. u = e
      BY <1>7, <2>1, <2>4
    <3>2. Apart3(e, t, w)
      <4>1. t - a.time <= w
        BY <1>1, <1>8, <2>4
      <4> QED BY <1>11, <4>1 DEF Apart3, a
    <3>3. Best(a, T) \/ 2 * (t - a.time + 1) > w
      BY <1>1, <1>3, <1>8, <1>11
    <3> QED
      BY <1>1, <1>3, <1>5, <1>11, <2>2, <3>1, <3>2, <3>3 DEF Dense, ResetsAll, T, u, a, b, c
  <2> QED BY <2>3, <2>4
<1> QED BY <1>9, <1>10, <1>11 DEF Dense, a

\* The samples taken are better than the next, and the estimates are dense.
Worsened ==
    /\ window \in Nat /\ window >= 5 /\ now \in Nat
    /\ IsFiniteSet(seen)
    /\ \A m \in seen : IF Maximum THEN m.sample > MaxSeen - Cardinality(seen)
                                  ELSE m.sample <= Cardinality(seen)
    /\ IF seen = {} THEN estimates[0].sample = 0
                    ELSE Dense(estimates, now, window, seen)

\* The first sample is all three estimates.
LEMMA DenseFirst ==
    ASSUME NEW n \in Nat, NEW w \in Nat, w >= 5, NEW new \in SampleType, new.time = n,
           new.sample /= 0
    PROVE  Dense(Reset(new), n, w, {new})
<1> DEFINE e == Reset(new)
<1>1. e \in Estimates /\ \A i \in 0..2 : e[i] = new
  BY DEF Reset, Estimates
<1> HIDE DEF e
<1>2. Compare(new.sample, new.sample)
  BY CompareOrder DEF SampleType
<1>3. First(new, n, {new}) /\ Best(new, {new})
  BY <1>2 DEF First, Best
<1>4. Same(e, n, w)
  BY <1>1, Fits DEF Same
<1>5. Dense(e, n, w, {new})
  BY <1>1, <1>3, <1>4 DEF Dense
<1> QED BY <1>5 DEF e

LEMMA WorsensKeeps == ASSUME Worsened, Worsens PROVE Worsened'
<1>1. PICK t \in now..(now + 1) : Update(Worse, t)
  BY DEF Worsens
<1> DEFINE new == Sample(Worse, t)
           k == Cardinality(seen)
<1>2. k \in Nat /\ k < MaxSeen /\ MaxSeen \in Nat /\ Maximum \in BOOLEAN
  BY <1>1, FS_CardinalityType DEF Worsened, Update
<1>3. t \in Nat /\ now \in Nat /\ window \in Nat /\ window >= 5
  BY DEF Worsened
<1>4. Worse \in Nat /\ Worse /= 0
  BY <1>2 DEF Worse
<1>5. new \in SampleType /\ new.time = t /\ new.sample = Worse
  BY <1>3, <1>4 DEF Sample, SampleType
<1>6. /\ now' = t /\ seen' = seen \cup {new} /\ window' = window
      /\ estimates' = (IF ResetsAll(estimates, Worse, t) THEN Reset(new)
                       ELSE Updated(estimates, new))
  BY <1>1 DEF Update
<1>7. \A m \in seen : m \in SampleType /\ ~Compare(Worse, m.sample)
  <2>1. seen \subseteq SampleType
    BY DEF Worsened, Dense
  <2>2. ASSUME NEW m \in seen PROVE ~Compare(Worse, m.sample)
    <3>1. m.sample \in Nat
      BY <2>1 DEF SampleType
    <3>2. CASE Maximum
      BY <1>2, <3>1, <3>2 DEF Worsened, Worse, Compare
    <3>3. CASE ~Maximum
      BY <1>2, <3>1, <3>3 DEF Worsened, Worse, Compare
    <3> QED BY <3>2, <3>3
  <2> QED BY <2>1, <2>2
<1>8. new \notin seen
  BY <1>4, <1>5, <1>7, CompareOrder
<1>9. IsFiniteSet(seen') /\ Cardinality(seen') = k + 1
  BY <1>6, <1>8, FS_AddElement DEF Worsened
<1>10. \A m \in seen' : IF Maximum THEN m.sample > MaxSeen - Cardinality(seen')
                                   ELSE m.sample <= Cardinality(seen')
  <2> SUFFICES ASSUME NEW m \in seen'
               PROVE  IF Maximum THEN m.sample > MaxSeen - (k + 1) ELSE m.sample <= k + 1
    BY <1>9, Zenon
  <2>1. CASE m = new
    BY <1>2, <1>5, <2>1 DEF Worse
  <2>2. CASE m \in seen
    <3>1. m.sample \in Nat
      BY <1>7, <2>2 DEF SampleType
    <3>2. IF Maximum THEN m.sample > MaxSeen - k ELSE m.sample <= k
      BY <2>2 DEF Worsened
    <3> HIDE DEF k
    <3> QED BY <1>2, <3>1, <3>2
  <2> QED BY <1>6, <2>1, <2>2
<1>11. Dense(estimates', t, window, seen')
  <2>1. CASE seen = {}
    <3>1. ResetsAll(estimates, Worse, t)
      BY <2>1 DEF Worsened, ResetsAll
    <3>2. seen' = {new}
      BY <1>6, <2>1
    <3> HIDE DEF new
    <3> QED BY <1>3, <1>4, <1>5, <1>6, <3>1, <3>2, DenseFirst
  <2>2. CASE seen /= {}
    <3>1. Dense(estimates, now, window, seen)
      BY <2>2 DEF Worsened
    <3> HIDE DEF new
    <3> QED BY <1>4, <1>5, <1>6, <1>7, <3>1, DenseStep
  <2> QED BY <2>1, <2>2
<1>12. seen' /= {}
  BY <1>6
<1> QED BY <1>3, <1>6, <1>9, <1>10, <1>11, <1>12 DEF Worsened

\* Spread: for samples that worsen, at least one in every unit of time, GetBest is
\* never worse than a sample of the last half of the window, for every window of at
\* least five units, either direction of the filter and any number of samples.
THEOREM HalfStaysCovered ==
    ASSUME \A w \in Windows : w >= 5
    PROVE  ArrivalsSpec => []WorseningCovered
<1> DEFINE Inv == arrivals \in {"any", "worsening"} /\ (arrivals = "worsening" => Worsened)
<1>1. ArrivalsInit => Inv
  <2> SUFFICES ASSUME ArrivalsInit, arrivals = "worsening" PROVE Worsened
    BY DEF ArrivalsInit
  <2>1. Init
    BY DEF ArrivalsInit
  <2>2. window \in Nat /\ window >= 5 /\ now = 0 /\ seen = {} /\ estimates[0].sample = 0
    BY <2>1 DEF Init, Sample
  <2>3. IsFiniteSet(seen)
    BY <2>2, FS_EmptySet
  <2> QED BY <2>2, <2>3 DEF Worsened
<1>2. Inv /\ [ArrivalsNext]_<<arrivals, vars>> => Inv'
  <2> SUFFICES ASSUME Inv, [ArrivalsNext]_<<arrivals, vars>>, arrivals = "worsening"
               PROVE  Worsened'
    BY DEF ArrivalsNext
  <2>1. CASE ArrivalsNext
    BY <2>1, WorsensKeeps DEF ArrivalsNext
  <2>2. CASE UNCHANGED <<arrivals, vars>>
    BY <2>2 DEF vars, Worsened
  <2> QED BY <2>1, <2>2
<1>3. Inv => WorseningCovered
  <2> SUFFICES ASSUME Worsened, NEW m \in seen, 2 * (now - m.time) <= window
               PROVE  Compare(estimates[0].sample, m.sample)
    BY DEF WorseningCovered, HalfCovered
  <2>1. Dense(estimates, now, window, seen)
    BY DEF Worsened
  <2> QED BY <2>1, DenseCovers
<1> QED BY <1>1, <1>2, <1>3, PTL DEF ArrivalsSpec

=============================================================================
