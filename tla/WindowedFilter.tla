-------------------------- MODULE WindowedFilter --------------------------
(***************************************************************************)
(* WindowedFilter<T, Compare, TimeT, TimeDeltaT>: the windowed maximum (or *)
(* minimum) that BBR keeps of the bandwidth and Copa and Copa2 of the RTT. *)
(* A sample is a positive number, 0 is zero_value, and time is whatever    *)
(* unsigned count the caller passes (rounds in BBR, microseconds in Copa). *)
(***************************************************************************)
EXTENDS Integers, FiniteSets

CONSTANTS
    Maximum,        \* MaxFilter rather than MinFilter
    Samples,        \* the values measured
    Windows,        \* the window lengths set by the constructor and later
    MaxTime,        \* bound: the last time sampled
    MaxSeen         \* bound: the samples taken

ASSUME FilterAssumption == /\ Maximum \in BOOLEAN
                           /\ Samples \subseteq Nat \ {0}
                           /\ Windows \subseteq Nat
                           /\ MaxTime \in Nat
                           /\ MaxSeen \in Nat

VARIABLES
    estimates,      \* estimates_, best first
    window,         \* window_length_
    now,            \* history: the time of the last sample
    seen            \* history: every sample taken, with its time

vars == <<estimates, window, now, seen>>

Sample(s, t) == [sample |-> s, time |-> t]

SampleType == [sample : Nat, time : Nat]

Estimates == [0..2 -> SampleType]

TypeOK == /\ estimates \in Estimates
          /\ window \in Nat
          /\ now \in Nat
          /\ seen \subseteq SampleType

-----------------------------------------------------------------------------
\* MaxFilter::operator() or MinFilter::operator().
Compare(a, b) == IF Maximum THEN a >= b ELSE a <= b

\* The condition of the first if of Update.
ResetsAll(e, s, t) ==
    \/ e[0].sample = 0
    \/ Compare(s, e[0].sample)
    \/ t - e[2].time > window

\* Reset: all three estimates become the new sample.
Reset(new) == [i \in 0..2 |-> new]

\* (mutant: the third best is only replaced with the second)
RecordedSecond(e, new) ==
    IF Compare(new.sample, e[1].sample) THEN [e EXCEPT ![1] = new, ![2] = new]
    ELSE e

\* The new sample replaces the second or the third best it is as good as.
Recorded(e, new) ==
    IF Compare(new.sample, e[1].sample) THEN [e EXCEPT ![1] = new, ![2] = new]
    ELSE IF Compare(new.sample, e[2].sample) THEN [e EXCEPT ![2] = new]
    ELSE e

\* (mutant: the others move up once)
PromotedOnce(e, new) == [e EXCEPT ![0] = e[1], ![1] = e[2], ![2] = new]

\* The best has expired: the others move up, twice if the next has too.
Promoted(e, new) ==
    LET p == [e EXCEPT ![0] = e[1], ![1] = e[2], ![2] = new] IN
    IF new.time - p[0].time > window
    THEN [p EXCEPT ![0] = p[1], ![1] = p[2]]
    ELSE p

\* (mutant: the third best is left behind when the second is taken)
SpreadSecond(e, new) ==
    IF e[1].sample = e[0].sample /\ new.time - e[1].time > window \div 4
    THEN [e EXCEPT ![1] = new]
    ELSE IF e[2].sample = e[1].sample /\ new.time - e[2].time > window \div 2
    THEN [e EXCEPT ![2] = new]
    ELSE e

\* (mutant: the third best is not taken from the second half)
SpreadQuarter(e, new) ==
    IF e[1].sample = e[0].sample /\ new.time - e[1].time > window \div 4
    THEN [e EXCEPT ![1] = new, ![2] = new]
    ELSE e

\* Without a better sample the second best is taken from the second quarter of
\* the window and the third best from its second half.
Spread(e, new) ==
    IF e[1].sample = e[0].sample /\ new.time - e[1].time > window \div 4
    THEN [e EXCEPT ![1] = new, ![2] = new]
    ELSE IF e[2].sample = e[1].sample /\ new.time - e[2].time > window \div 2
    THEN [e EXCEPT ![2] = new]
    ELSE e

\* What Update leaves once the sample is not a reset.
Updated(e, new) ==
    LET r == Recorded(e, new) IN
    IF new.time - r[0].time > window THEN Promoted(r, new) ELSE Spread(r, new)

-----------------------------------------------------------------------------
Init == /\ estimates = [i \in 0..2 |-> Sample(0, 0)]
        /\ window \in Windows
        /\ now = 0
        /\ seen = {}

Update(s, t) ==
    /\ t >= now
    /\ t <= MaxTime
    /\ Cardinality(seen) < MaxSeen
    /\ estimates' = IF ResetsAll(estimates, s, t)
                    THEN Reset(Sample(s, t))
                    ELSE Updated(estimates, Sample(s, t))
    /\ now' = t
    /\ seen' = seen \cup {Sample(s, t)}
    /\ UNCHANGED window

SetWindowLength(w) ==
    /\ window' = w
    /\ UNCHANGED <<estimates, now, seen>>

Next == \/ \E s \in Samples, t \in 0..MaxTime : Update(s, t)
        \/ \E w \in Windows : SetWindowLength(w)

Spec == Init /\ [][Next]_vars

-----------------------------------------------------------------------------
\* "The measurement time of the n'th best >= n-1'th best" (the comment at the
\* head of windowed-filter.h), and no measurement lies in the future.
TimesOrdered == /\ estimates[0].time <= estimates[1].time
                /\ estimates[1].time <= estimates[2].time
                /\ estimates[2].time <= now

\* The estimates are in the order their names say: neither a promotion nor the
\* refresh of a quarter or a half of the window puts a better one behind.
SamplesOrdered == seen # {} =>
    /\ Compare(estimates[0].sample, estimates[1].sample)
    /\ Compare(estimates[1].sample, estimates[2].sample)

\* Nothing better than the best was measured after it: GetBest never
\* underestimates the samples that are newer than the one it returns, whatever
\* was promoted, refreshed or dropped meanwhile.  The second and the third
\* best keep the same promise, or promoting them would break it.
DominatesNewer == \A i \in 0..2 : \A m \in seen :
    m.time > estimates[i].time => Compare(estimates[i].sample, m.sample)

\* After an update GetBest is never older than the window, even if the window
\* was shortened since the last update or all three estimates had expired.
BestIsFresh ==
    [][UNCHANGED window => now' - estimates'[0].time <= window]_vars

\* No estimate is zero_value once there is a sample, and time only advances.
Started == /\ \A i \in 0..2 : estimates[i].sample = 0 <=> seen = {}
           /\ \A m \in seen : m.time <= now

\* The inductive invariant.
IInv == TypeOK /\ TimesOrdered /\ SamplesOrdered /\ DominatesNewer /\ Started

\* The error the head of windowed-filter.h says is bounded, for samples that come in
\* every unit of time: no sample of the last half of the window is better than
\* GetBest, however often the best has expired.
HalfCovered == \A m \in seen :
    2 * (now - m.time) <= window => Compare(estimates[0].sample, m.sample)

=============================================================================
