----------------------------- MODULE CopaProofs -----------------------------
(***************************************************************************)
(* Copa for every window, path and width of the velocity: its types, and   *)
(* what moves the window and how fast.                                     *)
(***************************************************************************)
EXTENDS MCCopa, WellFoundedInduction, TLAPS

-----------------------------------------------------------------------------
(***************************************************************************)
(* Powers of two                                                           *)
(***************************************************************************)

\* A set of numbers has a least one.
LEMMA Least ==
    ASSUME NEW T \in SUBSET Nat, T /= {}
    PROVE  \E n \in T : \A m \in T : n <= m
<1> DEFINE R == OpToRel(<, Nat)
<1>1. \A m, n \in Nat : m < n => <<m, n>> \in R
  BY DEF OpToRel
<1>2. IsWellFoundedOn(R, Nat)
  BY NatLessThanWellFounded
<1> HIDE DEF R
<1>3. PICK n \in T : \A m \in T : ~(<<m, n>> \in R)
  BY <1>2, WFMin
<1>4. \A m \in T : ~(m < n)
  BY <1>1, <1>3
<1> QED BY <1>3, <1>4

\* The powers up to n.
PowersTo(n) ==
    {f \in [0..n -> Nat \ {0}] : f[0] = 1 /\ \A i \in 0..(n - 1) : f[i + 1] = 2 * f[i]}

LEMMA PowersExist == \A n \in Nat : PowersTo(n) /= {}
<1> DEFINE T == {n \in Nat : PowersTo(n) = {}}
<1> SUFFICES ASSUME T /= {} PROVE FALSE
  OBVIOUS
<1>1. PICK n \in T : \A m \in T : n <= m
  BY Least
<1>2. CASE n = 0
  <2> DEFINE f == [i \in 0..0 |-> 1]
  <2>1. f \in PowersTo(0)
    BY DEF PowersTo
  <2> QED BY <1>1, <1>2, <2>1
<1>3. CASE n /= 0
  <2>1. n \in Nat /\ n - 1 \in Nat /\ n - 1 \notin T
    BY <1>1, <1>3
  <2>2. PICK g : g \in PowersTo(n - 1)
    BY <2>1
  <2>3. /\ g \in [0..(n - 1) -> Nat \ {0}] /\ g[0] = 1
        /\ \A i \in 0..(n - 2) : g[i + 1] = 2 * g[i]
    BY <2>1, <2>2 DEF PowersTo
  <2> DEFINE f == [i \in 0..n |-> IF i = n THEN 2 * g[n - 1] ELSE g[i]]
  <2>4. f \in [0..n -> Nat \ {0}] /\ f[0] = 1
    BY <1>3, <2>1, <2>3
  <2>5. \A i \in 0..(n - 1) : f[i + 1] = 2 * f[i]
    <3> TAKE i \in 0..(n - 1)
    <3>1. CASE i = n - 1
      BY <2>1, <3>1
    <3>2. CASE i /= n - 1
      BY <2>1, <2>3, <3>2
    <3> QED BY <3>1, <3>2
  <2> HIDE DEF f
  <2>6. f \in PowersTo(n)
    BY <2>4, <2>5 DEF PowersTo
  <2> QED BY <1>1, <2>6
<1> QED BY <1>2, <1>3

LEMMA PowersAgree ==
    ASSUME NEW m \in Nat, NEW n \in Nat, m <= n,
           NEW f \in PowersTo(m), NEW g \in PowersTo(n)
    PROVE  \A i \in 0..m : f[i] = g[i]
<1> DEFINE T == {i \in 0..m : f[i] /= g[i]}
<1> SUFFICES ASSUME T /= {} PROVE FALSE
  OBVIOUS
<1>1. PICK i \in T : \A j \in T : i <= j
  <2>1. T \in SUBSET Nat
    OBVIOUS
  <2> QED BY <2>1, Least
<1>2. /\ f[0] = 1 /\ \A j \in 0..(m - 1) : f[j + 1] = 2 * f[j]
      /\ g[0] = 1 /\ \A j \in 0..(n - 1) : g[j + 1] = 2 * g[j]
  BY DEF PowersTo
<1>3. i \in 0..m /\ f[i] /= g[i]
  BY <1>1
<1>4. i /= 0
  BY <1>2, <1>3
<1>5. i - 1 \in 0..(m - 1) /\ i - 1 \in 0..(n - 1) /\ i - 1 \notin T
  BY <1>1, <1>3, <1>4
<1>6. f[i - 1] = g[i - 1]
  BY <1>5
<1>7. f[i] = 2 * f[i - 1] /\ g[i] = 2 * g[i - 1]
  BY <1>2, <1>5
<1> QED BY <1>3, <1>6, <1>7

\* Power is the function its recursion describes.
LEMMA PowerDefined ==
    /\ Power \in [Nat -> Nat \ {0}]
    /\ Power[0] = 1
    /\ \A n \in Nat : Power[n + 1] = 2 * Power[n]
<1> DEFINE to(n) == CHOOSE f : f \in PowersTo(n)
           F == [n \in Nat |-> to(n)[n]]
           Recursive(p) == p = [n \in Nat |-> IF n = 0 THEN 1 ELSE 2 * p[n - 1]]
<1>1. \A n \in Nat : to(n) \in PowersTo(n)
  BY PowersExist
<1> HIDE DEF to
<1>2. F \in [Nat -> Nat \ {0}]
  <2> SUFFICES ASSUME NEW n \in Nat PROVE to(n)[n] \in Nat \ {0}
    OBVIOUS
  <2>1. to(n) \in [0..n -> Nat \ {0}]
    BY <1>1 DEF PowersTo
  <2> QED BY <2>1
<1>3. F[0] = 1
  BY <1>1 DEF PowersTo
<1>4. \A n \in Nat : F[n + 1] = 2 * F[n]
  <2> TAKE n \in Nat
  <2>1. to(n) \in PowersTo(n) /\ to(n + 1) \in PowersTo(n + 1)
    BY <1>1
  <2>2. to(n)[n] = to(n + 1)[n]
    BY <2>1, PowersAgree
  <2>3. to(n + 1)[n + 1] = 2 * to(n + 1)[n]
    BY <2>1 DEF PowersTo
  <2> QED BY <2>2, <2>3
<1> HIDE DEF F
<1>5. Recursive(F)
  <2>1. \A n \in Nat : F[n] = IF n = 0 THEN 1 ELSE 2 * F[n - 1]
    <3> TAKE n \in Nat
    <3>1. CASE n = 0
      BY <3>1, <1>3
    <3>2. CASE n /= 0
      <4>1. n - 1 \in Nat /\ (n - 1) + 1 = n
        BY <3>2
      <4> QED BY <3>2, <4>1, <1>4
    <3> QED BY <3>1, <3>2
  <2> QED BY <1>2, <2>1
<1>6. Power = CHOOSE p : Recursive(p)
  BY DEF Power
<1> HIDE DEF Recursive
<1>7. Recursive(Power)
  BY <1>5, <1>6
<1>8. \A n \in Nat : Power[n] = IF n = 0 THEN 1 ELSE 2 * Power[n - 1]
  BY <1>7 DEF Recursive
<1>9. Power[0] = 1 /\ \A n \in Nat : Power[n + 1] = 2 * Power[n]
  BY <1>8
<1>10. \A n \in Nat : Power[n] = F[n]
  <2> DEFINE T == {n \in Nat : Power[n] /= F[n]}
  <2> SUFFICES ASSUME T /= {} PROVE FALSE
    OBVIOUS
  <2>1. PICK n \in T : \A m \in T : n <= m
    BY Least
  <2>2. n \in Nat /\ n /= 0 /\ n - 1 \in Nat /\ n - 1 \notin T
    BY <1>3, <1>9, <2>1
  <2>3. Power[n - 1] = F[n - 1] /\ Power[n] = 2 * Power[n - 1] /\ F[n] = 2 * F[n - 1]
    BY <1>4, <1>9, <2>2
  <2> QED BY <2>1, <2>3
<1>11. Power = [n \in Nat |-> IF n = 0 THEN 1 ELSE 2 * Power[n - 1]]
  BY <1>7 DEF Recursive
<1>12. \A n \in Nat : (IF n = 0 THEN 1 ELSE 2 * Power[n - 1]) \in Nat \ {0}
  BY <1>2, <1>8, <1>10
<1>13. Power \in [Nat -> Nat \ {0}]
  BY <1>11, <1>12
<1> QED BY <1>9, <1>13

\* The remainder of a sum of a multiple and a smaller number.
LEMMA Remainder ==
    ASSUME NEW W \in Nat \ {0}, NEW k \in Nat, NEW r \in 0..(W - 1)
    PROVE  (k * W + r) % W = r
<1> DEFINE y == k * W + r
           d == y \div W
           m == y % W
<1>1. y \in Nat
  OBVIOUS
<1>2. d \in Int /\ m \in 0..(W - 1) /\ y = W * d + m
  BY <1>1
<1> HIDE DEF d, m
<1>3. (k - d) * W = m - r
  BY <1>2
<1>4. \A z \in Int : z >= 1 => z * W >= W
  OBVIOUS
<1>5. ~(k - d >= 1)
  BY <1>2, <1>3, <1>4
<1>6. ~(d - k >= 1)
  <2>1. (d - k) * W = r - m
    BY <1>2, <1>3
  <2> QED BY <1>2, <1>4, <2>1
<1>7. k = d
  BY <1>2, <1>5, <1>6
<1>8. m = r
  BY <1>2, <1>3, <1>7
<1> QED BY <1>8 DEF m

\* Doubling a remainder doubles the number.
LEMMA DoubledRemainder ==
    ASSUME NEW W \in Nat \ {0}, NEW x \in Nat
    PROVE  (2 * (x % W)) % W = (2 * x) % W
<1> DEFINE d == x \div W
           m == x % W
<1>1. d \in Nat /\ m \in 0..(W - 1) /\ x = W * d + m
  OBVIOUS
<1> HIDE DEF d, m
<1>2. CASE 2 * m < W
  <2>1. 2 * m \in 0..(W - 1) /\ 2 * d \in Nat
    BY <1>1, <1>2
  <2>2. ((2 * d) * W + 2 * m) % W = 2 * m /\ (0 * W + 2 * m) % W = 2 * m
    BY <2>1, Remainder
  <2>3. 2 * x = (2 * d) * W + 2 * m /\ 0 * W + 2 * m = 2 * m
    BY <1>1
  <2> QED BY <2>2, <2>3 DEF m
<1>3. CASE 2 * m >= W
  <2>1. 2 * m - W \in 0..(W - 1) /\ 2 * d + 1 \in Nat /\ 1 \in Nat
    BY <1>1, <1>3
  <2>2. /\ ((2 * d + 1) * W + (2 * m - W)) % W = 2 * m - W
        /\ (1 * W + (2 * m - W)) % W = 2 * m - W
    BY <2>1, Remainder
  <2>3. 2 * x = (2 * d + 1) * W + (2 * m - W) /\ 1 * W + (2 * m - W) = 2 * m
    BY <1>1
  <2> QED BY <2>2, <2>3 DEF m
<1> QED BY <1>1, <1>2, <1>3

-----------------------------------------------------------------------------
(***************************************************************************)
(* The velocity and its direction                                          *)
(***************************************************************************)

Velocities ==
    [direction : {"None", "Up", "Down"}, velocity : 0..(Wrap - 1), times : 0..MaxTimes,
     recorded : 0..MaxWindow, age : Unset..Srtt]

\* The velocity of s is the one its count of windows accounts for.
Matches(s) ==
    s.velocity = (IF s.times >= Threshold THEN Power[s.times - Threshold + 1] ELSE 1) % Wrap

\* The windows s counts have ended within the time t.
Lasts(s, t) == t >= Smaller(Threshold * Srtt, (s.times - 1) * Srtt + s.age)

\* What CheckAndUpdateDirection and ChangeDirection keep of s, when its direction
\* has been the same for the time t.
Sound(s, t) ==
    /\ s \in Velocities
    /\ Matches(s)
    /\ s.age = Unset \/ s.direction = "None" => s.times = 0
    /\ t \in 0..(Threshold * Srtt) /\ Lasts(s, t)

\* The time after a change from s to new.
Since(s, new, t) == IF new.direction = s.direction THEN t ELSE 0

LEMMA WrapValue == ASSUME CopaAssumption PROVE Wrap \in Nat /\ Wrap >= 2 /\ 1 % Wrap = 1
<1>1. VelocityBits - 1 \in Nat /\ VelocityBits \in Nat /\ (VelocityBits - 1) + 1 = VelocityBits
  BY DEF CopaAssumption
<1>2. Power[VelocityBits] = 2 * Power[VelocityBits - 1] /\ Power[VelocityBits - 1] \in Nat \ {0}
  BY <1>1, PowerDefined
<1>3. Wrap \in Nat /\ Wrap >= 2
  BY <1>2 DEF Wrap
<1>4. (0 * Wrap + 1) % Wrap = 1
  BY <1>3, Remainder
<1> QED BY <1>3, <1>4

\* One window more of the same direction: the velocity doubles from the threshold on.
LEMMA DoublingMatches ==
    ASSUME CopaAssumption, NEW s \in Velocities, Matches(s)
    PROVE  LET times == Smaller(s.times + 1, MaxTimes)
           IN  (IF s.times + 1 >= Threshold THEN (2 * s.velocity) % Wrap ELSE s.velocity)
               = (IF times >= Threshold THEN Power[times - Threshold + 1] ELSE 1) % Wrap
<1> DEFINE n == s.times
<1>1. n \in 0..MaxTimes /\ Threshold \in Nat \ {0} /\ VelocityBits \in Nat \ {0}
  BY DEF CopaAssumption, Velocities
<1>2. s.velocity = (IF n >= Threshold THEN Power[n - Threshold + 1] ELSE 1) % Wrap
  BY DEF Matches
<1>3. Wrap \in Nat \ {0} /\ Power \in [Nat -> Nat \ {0}]
  <2>1. Power \in [Nat -> Nat \ {0}]
    BY PowerDefined
  <2> QED BY <2>1, WrapValue
<1> HIDE DEF n
<1> DEFINE times == Smaller(n + 1, MaxTimes)
           before == IF n >= Threshold THEN Power[n - Threshold + 1] ELSE 1
           after == IF times >= Threshold THEN Power[times - Threshold + 1] ELSE 1
           velocity == IF n + 1 >= Threshold THEN (2 * s.velocity) % Wrap ELSE s.velocity
<1>4. times = (IF n < MaxTimes THEN n + 1 ELSE n)
  BY <1>1 DEF Smaller, MaxTimes
<1>5. before \in Nat
  BY <1>1, <1>3
<1>6. velocity = after % Wrap
  <2> HIDE DEF times
  <2>1. CASE n + 1 < Threshold
    BY <1>1, <1>2, <1>4, <2>1 DEF MaxTimes
  <2>2. CASE n + 1 >= Threshold
    <3>1. velocity = (2 * before) % Wrap
      <4>1. (2 * s.velocity) % Wrap = (2 * before) % Wrap
        BY <1>2, <1>3, <1>5, DoubledRemainder
      <4> QED BY <2>2, <4>1
    <3>2. 2 * before = Power[n + 2 - Threshold]
      <4>1. CASE n >= Threshold
        <5>1. n - Threshold + 1 \in Nat /\ (n - Threshold + 1) + 1 = n + 2 - Threshold
          BY <1>1, <4>1
        <5> QED BY <4>1, <5>1, PowerDefined
      <4>2. CASE ~(n >= Threshold)
        <5>1. n + 2 - Threshold = 0 + 1
          BY <1>1, <2>2, <4>2
        <5> QED BY <4>2, <5>1, PowerDefined
      <4> QED BY <4>1, <4>2
    <3>3. times >= Threshold /\ after = Power[times - Threshold + 1]
      <4>1. times >= Threshold
        BY <1>1, <1>4, <2>2 DEF MaxTimes
      <4> QED BY <4>1
    <3>4. CASE n < MaxTimes
      <4>1. times - Threshold + 1 = n + 2 - Threshold
        BY <1>1, <1>4, <3>4
      <4> HIDE DEF velocity, before, after
      <4> QED BY <3>1, <3>2, <3>3, <4>1
    <3>5. CASE n = MaxTimes
      <4>1. /\ times - Threshold + 1 = VelocityBits + 1
            /\ n + 2 - Threshold = (VelocityBits + 1) + 1
        BY <1>1, <1>4, <3>5 DEF MaxTimes
      <4>2. Power[VelocityBits + 1] = 2 * Wrap /\ Power[(VelocityBits + 1) + 1] = 4 * Wrap
        <5>1. VelocityBits \in Nat /\ VelocityBits + 1 \in Nat
          BY <1>1
        <5>2. /\ Power[VelocityBits + 1] = 2 * Wrap
              /\ Power[(VelocityBits + 1) + 1] = 2 * Power[VelocityBits + 1]
          BY <5>1, PowerDefined DEF Wrap
        <5> QED BY <1>3, <5>2
      <4>3. (2 * Wrap) % Wrap = 0 /\ (4 * Wrap) % Wrap = 0
        <5>1. (2 * Wrap + 0) % Wrap = 0 /\ (4 * Wrap + 0) % Wrap = 0
          BY <1>3, Remainder
        <5>2. 2 * Wrap + 0 = 2 * Wrap /\ 4 * Wrap + 0 = 4 * Wrap
          BY <1>3
        <5> QED BY <5>1, <5>2
      <4> HIDE DEF velocity, before, after
      <4> QED BY <3>1, <3>2, <3>3, <4>1, <4>2, <4>3
    <3>6. n < MaxTimes \/ n = MaxTimes
      BY <1>1 DEF MaxTimes
    <3> QED BY <3>4, <3>5, <3>6
  <2> QED BY <1>1, <2>1, <2>2
<1> QED BY <1>6 DEF n

LEMMA CheckKeeps ==
    ASSUME CopaAssumption, NEW s, NEW t, Sound(s, t), NEW w \in 1..MaxWindow
    PROVE  LET new == CheckAndUpdateDirection(s, w)
           IN  /\ Sound(new, Since(s, new, t))
               /\ new.velocity /= s.velocity /\ new.velocity /= 1
                     => t >= (Threshold - 1) * Srtt
<1> DEFINE direction == IF w > s.recorded THEN "Up" ELSE "Down"
           turned == [direction |-> direction, velocity |-> 1, times |-> 0,
                      recorded |-> w, age |-> 0]
           velocity == IF s.times + 1 >= Threshold
                       THEN (2 * s.velocity) % Wrap ELSE s.velocity
           times == Smaller(s.times + 1, MaxTimes)
           kept == [direction |-> direction, recorded |-> w, age |-> 0, times |-> times,
                    velocity |-> velocity]
           first == [s EXCEPT !.age = 0, !.recorded = w]
           new == CheckAndUpdateDirection(s, w)
           Fast(n) == n.velocity /= s.velocity /\ n.velocity /= 1
                         => t >= (Threshold - 1) * Srtt
<1>1. /\ s \in Velocities /\ Matches(s) /\ Lasts(s, t) /\ t \in 0..(Threshold * Srtt)
      /\ s.age = Unset \/ s.direction = "None" => s.times = 0
  BY DEF Sound
<1>2. /\ s.velocity \in 0..(Wrap - 1) /\ s.times \in 0..MaxTimes /\ s.recorded \in 0..MaxWindow
      /\ s.age \in Unset..Srtt /\ s.direction \in {"None", "Up", "Down"}
  BY <1>1 DEF Velocities
<1>3. /\ Threshold \in Nat \ {0} /\ Srtt \in Nat \ {0} /\ VelocityBits \in Nat \ {0}
      /\ MaxWindow \in Nat
  BY DEF CopaAssumption
<1>4. direction \in {"Up", "Down"}
  OBVIOUS
<1>5. Threshold * Srtt \in Nat /\ Threshold * Srtt >= Srtt /\ (Threshold - 1) * Srtt \in Nat
  <2>1. (Threshold - 1) * Srtt >= 0 /\ Threshold * Srtt = (Threshold - 1) * Srtt + Srtt
    BY <1>3
  <2> QED BY <1>3, <2>1
<1>6. Wrap \in Nat /\ Wrap >= 2 /\ 1 % Wrap = 1
  BY WrapValue
<1>7. \A d \in {"Up", "Down", "None"}, n \in 0..MaxWindow, a \in Unset..Srtt, v \in 0..(Wrap - 1), c \in 0..MaxTimes :
        [direction |-> d, velocity |-> v, times |-> c, recorded |-> n, age |-> a] \in Velocities
  BY DEF Velocities
<1>8. CASE s.age = Unset
  <2>1. new = first
    BY <1>8 DEF CheckAndUpdateDirection
  <2>2. /\ first \in Velocities /\ first.times = s.times /\ first.velocity = s.velocity
        /\ first.direction = s.direction /\ first.age = 0
    <3>1. /\ first.times = s.times /\ first.velocity = s.velocity
          /\ first.direction = s.direction /\ first.age = 0
      BY <1>1 DEF Velocities
    <3>2. w \in 0..MaxWindow /\ 0 \in Unset..Srtt
      BY <1>3 DEF Unset
    <3>3. first \in Velocities
      BY <1>1, <3>2 DEF Velocities
    <3> QED BY <3>1, <3>3
  <2> HIDE DEF first
  <2>3. Matches(first)
    BY <1>1, <2>2 DEF Matches
  <2>4. Lasts(first, t)
    BY <1>1, <1>3, <1>5, <1>8, <2>2 DEF Lasts, Smaller
  <2>5. Since(s, first, t) = t
    BY <2>2 DEF Since
  <2>6. Sound(first, t)
    BY <1>1, <1>8, <2>2, <2>3, <2>4 DEF Sound
  <2> QED BY <2>1, <2>2, <2>5, <2>6
<1>9. CASE s.age /= Unset /\ s.age < Srtt
  <2>1. new = s
    BY <1>9 DEF CheckAndUpdateDirection
  <2>2. Since(s, s, t) = t
    BY DEF Since
  <2> QED BY <2>1, <2>2
<1>10. CASE s.age = Srtt /\ direction /= s.direction
  <2>1. new = turned
    BY <1>3, <1>10 DEF CheckAndUpdateDirection, Unset
  <2>2. turned \in Velocities
    BY <1>3, <1>4, <1>6, <1>7 DEF Unset, Velocities, MaxTimes
  <2>3. /\ turned.velocity = 1 /\ turned.times = 0 /\ turned.age = 0
        /\ turned.direction = direction
    OBVIOUS
  <2> HIDE DEF turned, direction
  <2>4. Matches(turned)
    BY <1>3, <1>6, <2>3 DEF Matches
  <2>5. Lasts(turned, 0)
    BY <1>3, <1>5, <2>3 DEF Lasts, Smaller
  <2>6. Since(s, turned, t) = 0
    BY <1>10, <2>3 DEF Since
  <2>7. Sound(turned, 0)
    BY <1>5, <2>2, <2>3, <2>4, <2>5 DEF Sound
  <2> QED BY <2>1, <2>3, <2>6, <2>7
<1>11. CASE s.age = Srtt /\ direction = s.direction
  <2>1. new = kept
    BY <1>3, <1>11 DEF CheckAndUpdateDirection, Unset
  <2>2. times \in 0..MaxTimes /\ velocity \in 0..(Wrap - 1)
    BY <1>2, <1>3, <1>6 DEF Smaller, MaxTimes
  <2>3. kept \in Velocities
    BY <1>3, <1>4, <1>7, <2>2 DEF Unset, Velocities
  <2>4. kept.velocity = velocity /\ kept.times = times /\ kept.age = 0 /\ kept.direction = direction
    OBVIOUS
  <2> HIDE DEF kept
  <2>5. Matches(kept)
    BY <1>1, <2>4, DoublingMatches DEF Matches
  <2>6. t >= Smaller(Threshold * Srtt, s.times * Srtt)
    <3>1. (s.times - 1) * Srtt + s.age = s.times * Srtt
      BY <1>2, <1>3, <1>11 DEF MaxTimes
    <3> QED BY <1>1, <3>1 DEF Lasts
  <2>7. Lasts(kept, t)
    <3>1. CASE s.times < MaxTimes
      <4>1. (times - 1) * Srtt + 0 = s.times * Srtt
        BY <1>2, <1>3, <3>1 DEF MaxTimes, Smaller
      <4> HIDE DEF times
      <4> QED BY <2>4, <2>6, <4>1 DEF Lasts
    <3>2. CASE s.times = MaxTimes
      <4>1. s.times * Srtt >= Threshold * Srtt
        <5>1. s.times * Srtt = Threshold * Srtt + VelocityBits * Srtt
          BY <1>3, <3>2 DEF MaxTimes
        <5>2. VelocityBits * Srtt \in Nat
          BY <1>3
        <5> QED BY <1>5, <5>1, <5>2
      <4>2. t >= Threshold * Srtt
        BY <2>6, <4>1 DEF Smaller
      <4>3. (times - 1) * Srtt + 0 \in Int
        BY <1>3, <2>2
      <4> HIDE DEF times
      <4> QED BY <1>1, <1>5, <2>4, <4>2, <4>3 DEF Lasts, Smaller
    <3>3. s.times < MaxTimes \/ s.times = MaxTimes
      BY <1>2, <1>3 DEF MaxTimes
    <3> QED BY <3>1, <3>2, <3>3
  <2>8. Fast(kept)
    <3> SUFFICES ASSUME kept.velocity /= s.velocity PROVE t >= (Threshold - 1) * Srtt
      OBVIOUS
    <3>1. s.times + 1 >= Threshold
      BY <2>4
    <3>2. s.times * Srtt >= (Threshold - 1) * Srtt
      <4>1. s.times - (Threshold - 1) \in Nat
        BY <1>2, <1>3, <3>1 DEF MaxTimes
      <4>2. (s.times - (Threshold - 1)) * Srtt \in Nat
        BY <1>3, <4>1
      <4>3. s.times * Srtt = (s.times - (Threshold - 1)) * Srtt + (Threshold - 1) * Srtt
        BY <1>2, <1>3 DEF MaxTimes
      <4> QED BY <1>5, <4>2, <4>3
    <3>3. Threshold * Srtt >= (Threshold - 1) * Srtt
      BY <1>3
    <3>4. s.times * Srtt \in Int
      BY <1>2, <1>3 DEF MaxTimes
    <3> QED BY <1>1, <1>5, <2>6, <3>2, <3>3, <3>4 DEF Smaller
  <2>9. Since(s, kept, t) = t
    BY <1>11, <2>4 DEF Since
  <2>10. Sound(kept, t)
    BY <1>1, <1>4, <2>3, <2>4, <2>5, <2>7 DEF Sound, Unset
  <2> QED BY <2>1, <2>8, <2>9, <2>10
<1>12. s.age = Unset \/ s.age < Srtt \/ s.age = Srtt
  BY <1>2, <1>3 DEF Unset
<1> QED BY <1>8, <1>9, <1>10, <1>11, <1>12

LEMMA TurnKeeps ==
    ASSUME CopaAssumption, NEW s, NEW t, Sound(s, t), NEW w \in 1..MaxWindow,
           NEW d \in {"Up", "Down"}
    PROVE  LET new == Turn(s, d, w)
           IN  /\ Sound(new, Since(s, new, t))
               /\ new.velocity = s.velocity \/ new.velocity = 1
               /\ new.direction = d \/ new.velocity <= 1
<1> DEFINE turned == [s EXCEPT !.direction = d, !.velocity = 1, !.times = 0, !.recorded = w]
           new == Turn(s, d, w)
<1>1. /\ s \in Velocities /\ Matches(s) /\ t \in 0..(Threshold * Srtt)
      /\ s.age = Unset \/ s.direction = "None" => s.times = 0
  BY DEF Sound
<1>2. CASE s.direction /= d /\ s.velocity > 1
  <2>1. new = turned
    BY <1>2 DEF Turn, ChangeDirection
  <2>2. /\ Wrap \in Nat /\ Wrap >= 2 /\ 1 % Wrap = 1
        /\ Threshold \in Nat \ {0} /\ Srtt \in Nat \ {0} /\ VelocityBits \in Nat \ {0}
        /\ MaxWindow \in Nat
    BY WrapValue DEF CopaAssumption
  <2>3. 1 \in 0..(Wrap - 1) /\ 0 \in 0..MaxTimes /\ w \in 0..MaxWindow
    BY <2>2 DEF MaxTimes
  <2>4. turned \in Velocities
    BY <1>1, <2>3 DEF Velocities
  <2>5. /\ turned.velocity = 1 /\ turned.times = 0 /\ turned.age = s.age
        /\ turned.direction = d
    BY <1>1 DEF Velocities
  <2>6. s.age \in Unset..Srtt
    BY <1>1 DEF Velocities
  <2> HIDE DEF turned
  <2>7. Matches(turned)
    BY <2>2, <2>5 DEF Matches
  <2>8. Lasts(turned, 0)
    <3>1. Threshold * Srtt \in Nat
      BY <2>2
    <3>2. (turned.times - 1) * Srtt + turned.age <= 0 /\ (turned.times - 1) * Srtt + turned.age \in Int
      BY <2>2, <2>5, <2>6 DEF Unset
    <3> HIDE DEF turned
    <3> QED BY <3>1, <3>2 DEF Lasts, Smaller
  <2>9. Since(s, turned, t) = 0
    BY <1>2, <2>5 DEF Since
  <2>10. Sound(turned, 0)
    <3>1. Threshold * Srtt \in Nat
      BY <2>2
    <3> QED BY <2>4, <2>5, <2>7, <2>8, <3>1 DEF Sound
  <2> QED BY <2>1, <2>5, <2>9, <2>10
<1>3. CASE ~(s.direction /= d /\ s.velocity > 1)
  <2>1. new = s /\ Since(s, s, t) = t
    BY <1>3 DEF Turn, Since
  <2>2. s.direction = d \/ s.velocity <= 1
    BY <1>1, <1>3, WrapValue DEF Velocities
  <2> QED BY <2>1, <2>2
<1> QED BY <1>2, <1>3

\* A longer time is as good.
LEMMA SoundLonger ==
    ASSUME CopaAssumption, NEW s, NEW t, NEW u \in 0..(Threshold * Srtt), Sound(s, t), t <= u
    PROVE  Sound(s, u)
<1>1. t \in 0..(Threshold * Srtt) /\ Threshold * Srtt \in Nat /\ t \in Nat /\ u \in Nat
  BY DEF Sound, CopaAssumption
<1> DEFINE b == Smaller(Threshold * Srtt, (s.times - 1) * Srtt + s.age)
<1>2. b \in Int
  <2>1. s.times \in Int /\ s.age \in Int
    BY DEF Sound, Velocities, CopaAssumption, MaxTimes, Unset
  <2> QED BY <1>1, <2>1 DEF Smaller, CopaAssumption
<1>3. t >= b
  BY DEF Sound, Lasts
<1> HIDE DEF b
<1>4. u >= b
  BY <1>1, <1>2, <1>3
<1> QED BY <1>4 DEF Sound, Lasts, b

\* The direction compared, or not, and turned.
LEMMA DirectionKeeps ==
    ASSUME CopaAssumption, NEW s, NEW t, Sound(s, t), NEW w \in 1..MaxWindow,
           NEW d \in {"Up", "Down"}
    PROVE  LET new == Turn(CheckAndUpdateDirection(s, w), d, w)
           IN  /\ Sound(new, Since(s, new, t))
               /\ new.velocity /= s.velocity /\ new.velocity /= 1
                     => t >= (Threshold - 1) * Srtt
               /\ new.direction = d \/ new.velocity <= 1
<1> DEFINE mid == CheckAndUpdateDirection(s, w)
           new == Turn(mid, d, w)
           then == Since(s, mid, t)
           last == Since(mid, new, then)
<1>1. /\ Sound(mid, then)
      /\ mid.velocity /= s.velocity /\ mid.velocity /= 1 => t >= (Threshold - 1) * Srtt
  BY CheckKeeps
<1> HIDE DEF mid, then
<1>2. /\ Sound(new, last)
      /\ new.velocity = mid.velocity \/ new.velocity = 1
      /\ new.direction = d \/ new.velocity <= 1
  BY <1>1, TurnKeeps
<1> HIDE DEF new
<1>3. t \in 0..(Threshold * Srtt) /\ 0 \in 0..(Threshold * Srtt) /\ t >= 0
  <2>1. t \in 0..(Threshold * Srtt) /\ Threshold * Srtt \in Nat
    BY DEF Sound, CopaAssumption
  <2> QED BY <2>1
<1>4. Since(s, new, t) \in 0..(Threshold * Srtt) /\ last <= Since(s, new, t)
  BY <1>3 DEF Since, then
<1> HIDE DEF last
<1>5. Sound(new, Since(s, new, t))
  BY <1>2, <1>4, SoundLonger
<1> QED BY <1>1, <1>2, <1>5 DEF mid, new

LEMMA StepsTyped ==
    ASSUME CopaAssumption, NEW acked \in Nat, NEW v \in Nat, NEW w \in 1..MaxWindow,
           NEW n \in Steps(acked, v, w)
    PROVE  n \in Nat
<1> DEFINE product == acked * v
           q == ((product % Wrap) * InvDelta) \div w
<1>1. product \in Nat /\ w \in Nat \ {0} /\ MaxWindow \in Nat /\ InvDelta \in Nat
  BY DEF CopaAssumption
<1>2. product % Wrap \in Nat
  BY <1>1, WrapValue
<1>3. (product % Wrap) * InvDelta \in Nat
  BY <1>1, <1>2
<1>4. q \in Nat
  BY <1>1, <1>3
<1>5. n \in (IF q <= MaxWindow THEN {q} ELSE 0..MaxWindow)
  BY DEF Steps
<1> HIDE DEF q
<1> QED BY <1>1, <1>4, <1>5

-----------------------------------------------------------------------------
(***************************************************************************)
(* The steps                                                               *)
(***************************************************************************)

\* A recovery goes back to a window.
Saved == congState = "RECOVERY" => ssThresh > 0

IInv == TypeOK /\ Saved /\ Sound(velocityState, same)

\* What an ACK in which CongControl is called when m_cWnd is w keeps and moves.
Controlled(w) ==
    /\ cWnd' \in 1..MaxWindow /\ overflowed' \in BOOLEAN /\ ackBytesRound' \in BOOLEAN
    /\ isSlowStart' \in BOOLEAN /\ doubleAge' \in Unset..(Srtt + 1)
    /\ Sound(velocityState', same')
    /\ velocityState'.velocity /= velocityState.velocity /\ velocityState'.velocity /= 1
          => same >= (Threshold - 1) * Srtt
    /\ ~isSlowStart /\ cWnd' > Larger(w, MinCwnd)
          => velocityState'.direction = "Up" \/ velocityState'.velocity <= 1
    /\ ~isSlowStart /\ cWnd' < w
          => velocityState'.direction = "Down" \/ velocityState'.velocity <= 1

LEMMA CongControlKeeps ==
    ASSUME CopaAssumption, IInv, NEW w \in 1..MaxWindow, NEW acked \in Nat,
           NEW increase \in BOOLEAN, CongControl(w, acked, increase)
    PROVE  Controlled(w)
<1> DEFINE s == CheckAndUpdateDirection(velocityState, w)
<1>1. /\ Sound(velocityState, same) /\ isSlowStart \in BOOLEAN
      /\ ackBytesRound \in BOOLEAN /\ doubleAge \in Unset..(Srtt + 1)
      /\ Srtt \in Nat \ {0} /\ MaxWindow \in Nat /\ MinCwnd \in Nat \ {0}
      /\ MinCwnd <= MaxWindow
  BY DEF IInv, TypeOK, CopaAssumption
<1>2. same' = Since(velocityState, velocityState', same)
  BY DEF CongControl, Since
<1>3. \A d \in {"Up", "Down"} : Turn(s, d, w).velocity \in Nat
  <2> TAKE d \in {"Up", "Down"}
  <2>1. Sound(Turn(s, d, w), Since(velocityState, Turn(s, d, w), same))
    BY <1>1, DirectionKeeps
  <2> QED BY <2>1 DEF Sound, Velocities
<1>4. CASE ~increase
  <2>1. Decrease(w, s, acked)
    BY <1>4 DEF CongControl
  <2>2. PICK reduction \in Steps(acked, Turn(s, "Down", w).velocity, w) :
          /\ cWnd' = Reduced(w, reduction).cWnd /\ overflowed' = FALSE
          /\ ackBytesRound' = FALSE /\ isSlowStart' = FALSE
          /\ velocityState' = Turn(s, "Down", w) /\ doubleAge' = doubleAge
    BY <2>1 DEF Decrease
  <2>3. reduction \in Nat
    BY <1>3, StepsTyped
  <2>4. cWnd' \in 1..MaxWindow /\ cWnd' <= Larger(w, MinCwnd)
    BY <1>1, <2>2, <2>3 DEF Reduced, Larger, Smaller
  <2>5. /\ Sound(velocityState', same')
        /\ velocityState'.velocity /= velocityState.velocity /\ velocityState'.velocity /= 1
              => same >= (Threshold - 1) * Srtt
        /\ velocityState'.direction = "Down" \/ velocityState'.velocity <= 1
    BY <1>1, <1>2, <2>2, DirectionKeeps
  <2>6. ~(cWnd' > Larger(w, MinCwnd))
    BY <1>1, <2>4 DEF Larger
  <2> QED BY <1>1, <2>2, <2>4, <2>5, <2>6 DEF Controlled
<1>5. CASE increase /\ isSlowStart
  <2>1. SlowStart(w, velocityState, ackBytesRound \/ acked > 0)
    BY <1>5 DEF CongControl
  <2> DEFINE round == ackBytesRound \/ acked > 0
             doubles == doubleAge /= Unset /\ doubleAge > Srtt
             added == IF doubles THEN Doubling(w, round) ELSE 0
  <2>2. /\ cWnd' = Added(w, added).cWnd /\ overflowed' = Added(w, added).over
        /\ ackBytesRound' = (round /\ ~doubles)
        /\ doubleAge' = (IF doubles \/ doubleAge = Unset THEN 0 ELSE doubleAge)
        /\ velocityState' = velocityState /\ isSlowStart' = isSlowStart
    BY <2>1 DEF SlowStart
  <2>3. added \in Nat
    BY DEF Doubling
  <2>4. ackBytesRound' \in BOOLEAN
    BY <2>2
  <2> HIDE DEF added, doubles, round
  <2>5. cWnd' \in 1..MaxWindow /\ overflowed' \in BOOLEAN
    BY <1>1, <2>2, <2>3 DEF Added
  <2>6. doubleAge' \in Unset..(Srtt + 1)
    BY <1>1, <2>2 DEF Unset
  <2>7. same' = same
    BY <1>2, <2>2 DEF Since
  <2> QED BY <1>1, <1>5, <2>2, <2>4, <2>5, <2>6, <2>7 DEF Controlled
<1>6. CASE increase /\ ~isSlowStart
  <2>1. Increase(w, s, acked)
    BY <1>6 DEF CongControl
  <2>2. PICK addition \in Steps(acked, Turn(s, "Up", w).velocity, w) :
          /\ cWnd' = Added(w, addition).cWnd /\ overflowed' = Added(w, addition).over
          /\ ackBytesRound' = FALSE /\ isSlowStart' = isSlowStart
          /\ velocityState' = Turn(s, "Up", w) /\ doubleAge' = doubleAge
    BY <2>1 DEF Increase
  <2>3. addition \in Nat
    BY <1>3, StepsTyped
  <2>4. cWnd' \in 1..MaxWindow /\ overflowed' \in BOOLEAN /\ ~(cWnd' < w)
    BY <1>1, <2>2, <2>3 DEF Added
  <2>5. /\ Sound(velocityState', same')
        /\ velocityState'.velocity /= velocityState.velocity /\ velocityState'.velocity /= 1
              => same >= (Threshold - 1) * Srtt
        /\ velocityState'.direction = "Up" \/ velocityState'.velocity <= 1
    BY <1>1, <1>2, <2>2, DirectionKeeps
  <2> QED BY <1>1, <2>2, <2>4, <2>5 DEF Controlled
<1> QED BY <1>1, <1>4, <1>5, <1>6

LEMMA InitKeeps == ASSUME CopaAssumption, Init PROVE IInv
<1>1. /\ MinCwnd \in Nat \ {0} /\ InitCwnd \in 1..MaxWindow /\ MaxWindow \in Nat
      /\ Threshold \in Nat \ {0} /\ VelocityBits \in Nat \ {0} /\ Srtt \in Nat \ {0}
      /\ MaxLosses \in Nat /\ Threshold * Srtt \in Nat
  BY DEF CopaAssumption
<1>2. Wrap \in Nat /\ Wrap >= 2 /\ 1 % Wrap = 1
  BY WrapValue
<1> DEFINE s == [direction |-> "None", velocity |-> 1, times |-> 0, recorded |-> 0,
                 age |-> Unset]
<1>3. s \in Velocities
  BY <1>1, <1>2 DEF Velocities, Unset, MaxTimes
<1>4. Matches(s)
  BY <1>1, <1>2 DEF Matches
<1>5. Lasts(s, 0)
  BY <1>1 DEF Lasts, Smaller, Unset
<1>6. Sound(s, 0)
  BY <1>1, <1>3, <1>4, <1>5 DEF Sound
<1>7. velocityState = s /\ same = 0
  BY DEF Init
<1> HIDE DEF s
<1>8. Sound(velocityState, same)
  BY <1>6, <1>7
<1>9. TypeOK
  <2>1. velocityState \in Velocities /\ same \in 0..(Threshold * Srtt)
    BY <1>8 DEF Sound
  <2>2. /\ congState = "OPEN" /\ cWnd \in 1..MaxWindow /\ ssThresh \in 0..MaxWindow
        /\ doubleAge \in Unset..(Srtt + 1) /\ losses \in 0..MaxLosses
    BY <1>1 DEF Init, Unset
  <2>3. isSlowStart \in BOOLEAN /\ ackBytesRound \in BOOLEAN /\ clear \in BOOLEAN
        /\ overflowed \in BOOLEAN
    BY DEF Init
  <2> QED BY <2>1, <2>2, <2>3 DEF TypeOK, Velocities
<1>10. Saved
  BY DEF Init, Saved
<1> QED BY <1>8, <1>9, <1>10 DEF IInv

LEMMA TickKeeps == ASSUME CopaAssumption, IInv, Tick PROVE IInv'
<1>1. /\ Threshold \in Nat \ {0} /\ VelocityBits \in Nat \ {0} /\ Srtt \in Nat \ {0}
      /\ Threshold * Srtt \in Nat /\ same \in 0..(Threshold * Srtt)
  BY DEF CopaAssumption, IInv, Sound
<1> DEFINE s == velocityState
           age == IF s.age = Unset THEN Unset ELSE Smaller(s.age + 1, Srtt)
           t == IF s.direction = "None" THEN 0 ELSE Smaller(same + 1, Threshold * Srtt)
<1>2. /\ s \in Velocities /\ Matches(s) /\ Lasts(s, same)
      /\ s.age = Unset \/ s.direction = "None" => s.times = 0
  BY DEF IInv, Sound
<1>3. s.age \in Unset..Srtt /\ s.times \in 0..MaxTimes
  BY <1>2 DEF Velocities
<1>4. velocityState' = [s EXCEPT !.age = age] /\ same' = t
  BY DEF Tick
<1>5. age \in Unset..Srtt /\ (age = Unset <=> s.age = Unset)
  BY <1>1, <1>3 DEF Unset, Smaller
<1>6. t \in 0..(Threshold * Srtt)
  BY <1>1 DEF Smaller
<1>7. t >= Smaller(Threshold * Srtt, (s.times - 1) * Srtt + age)
  <2>1. CASE s.age = Unset \/ s.direction = "None"
    <3>1. (s.times - 1) * Srtt + age <= 0 /\ (s.times - 1) * Srtt + age \in Int
      BY <1>1, <1>2, <1>5, <2>1 DEF Unset
    <3> HIDE DEF t, age
    <3> QED BY <1>1, <1>6, <3>1 DEF Smaller
  <2>2. CASE s.age /= Unset /\ s.direction /= "None"
    <3> DEFINE b == (s.times - 1) * Srtt
    <3>1. b \in Int
      BY <1>1, <1>3 DEF MaxTimes
    <3>2. age <= s.age + 1
      BY <1>1, <1>3, <2>2 DEF Smaller, Unset
    <3>3. same >= Smaller(Threshold * Srtt, b + s.age)
      BY <1>2 DEF Lasts
    <3>4. t = Smaller(same + 1, Threshold * Srtt)
      BY <2>2
    <3> HIDE DEF t, age, b
    <3>5. t >= Smaller(Threshold * Srtt, b + age)
      BY <1>1, <1>3, <1>5, <3>1, <3>2, <3>3, <3>4 DEF Smaller, Unset
    <3> QED BY <3>5 DEF b
  <2> QED BY <2>1, <2>2
<1> HIDE DEF age, t
<1>8. /\ velocityState' \in Velocities
      /\ velocityState'.times = s.times /\ velocityState'.velocity = s.velocity
      /\ velocityState'.direction = s.direction /\ velocityState'.age = age
  BY <1>2, <1>4, <1>5 DEF Velocities
<1>9. Sound(velocityState', same')
  <2>1. Matches(velocityState')
    BY <1>2, <1>8 DEF Matches
  <2>2. Lasts(velocityState', same')
    BY <1>4, <1>7, <1>8 DEF Lasts
  <2> QED BY <1>2, <1>4, <1>5, <1>6, <1>8, <2>1, <2>2 DEF Sound
<1>10. doubleAge' \in Unset..(Srtt + 1)
  BY <1>1 DEF Tick, IInv, TypeOK, Smaller, Unset
<1>11. TypeOK'
  BY <1>8, <1>9, <1>10 DEF Tick, socket, IInv, TypeOK, Velocities, Sound
<1>12. Saved'
  BY DEF Tick, socket, IInv, Saved
<1> QED BY <1>9, <1>11, <1>12 DEF IInv

LEMMA ReTxTimeoutKeeps == ASSUME CopaAssumption, IInv, ReTxTimeout PROVE IInv'
<1>1. /\ congState' = "LOSS" /\ cWnd' = 1 /\ losses' = losses + 1 /\ losses < MaxLosses
      /\ UNCHANGED <<isSlowStart, doubleAge, ackBytesRound, velocityState, clear, overflowed, same>>
  BY DEF ReTxTimeout
<1>2. ssThresh' \in 0..MaxWindow
  BY DEF ReTxTimeout, IInv, TypeOK
<1>3. 1 \in 1..MaxWindow /\ losses + 1 \in 0..MaxLosses
  BY <1>1 DEF CopaAssumption, IInv, TypeOK
<1> QED BY <1>1, <1>2, <1>3 DEF IInv, TypeOK, Saved

\* An ACK is a call of CongControl, on the window a recovery that ends goes back to.
LEMMA AckCalls ==
    ASSUME CopaAssumption, IInv, Ack
    PROVE  /\ congState' \in {"OPEN", "RECOVERY", "LOSS"}
           /\ ssThresh' \in 0..MaxWindow /\ Saved' /\ losses' \in 0..MaxLosses
           /\ UNCHANGED clear
           /\ \E w \in 1..MaxWindow : /\ congState' = congState => w = cWnd
                                      /\ Controlled(w)
<1>1. PICK acked \in 0..MaxAcked : \E state \in CongStateAfter(acked) : ReceivedAck(acked, state)
  BY DEF Ack, Acks
<1>2. PICK state \in CongStateAfter(acked) : ReceivedAck(acked, state)
  BY <1>1
<1> DEFINE enters == congState = "OPEN" /\ state = "RECOVERY"
           w == IF congState = "RECOVERY" /\ state = "OPEN" THEN ssThresh ELSE cWnd
<1>3. /\ congState' = state
      /\ ssThresh' = (IF enters THEN cWnd ELSE ssThresh)
      /\ losses' = (IF enters THEN losses + 1 ELSE losses)
      /\ \E increase \in BOOLEAN : CongControl(w, acked, increase)
  <2>1. \E increase \in IF w > Capacity THEN {FALSE} ELSE IF clear THEN {TRUE} ELSE BOOLEAN :
          CongControl(w, acked, increase)
    BY <1>2 DEF ReceivedAck
  <2> QED BY <1>2, <2>1 DEF ReceivedAck
<1>4. /\ state \in {"OPEN", "RECOVERY", "LOSS"} /\ (enters => losses < MaxLosses)
      /\ state = "RECOVERY" => congState \in {"OPEN", "RECOVERY"}
  BY DEF CongStateAfter, IInv, TypeOK
<1>5. /\ cWnd \in 1..MaxWindow /\ ssThresh \in 0..MaxWindow /\ losses \in 0..MaxLosses
      /\ MaxLosses \in Nat /\ MaxWindow \in Nat /\ Saved
  BY DEF IInv, TypeOK, CopaAssumption
<1>6. w \in 1..MaxWindow
  BY <1>5 DEF Saved
<1>7. PICK increase \in BOOLEAN : CongControl(w, acked, increase)
  BY <1>3
<1>8. acked \in Nat
  BY DEF CopaAssumption
<1>9. congState' = congState => w = cWnd
  BY <1>3
<1>10. ssThresh' \in 0..MaxWindow /\ losses' \in 0..MaxLosses
  BY <1>3, <1>4, <1>5
<1>11. Saved'
  BY <1>3, <1>4, <1>5 DEF Saved
<1>12. UNCHANGED clear
  BY DEF Ack, Acks
<1> HIDE DEF w, enters
<1>13. Controlled(w)
  BY <1>6, <1>7, <1>8, CongControlKeeps
<1> QED BY <1>3, <1>4, <1>6, <1>9, <1>10, <1>11, <1>12, <1>13

LEMMA AckKeeps == ASSUME CopaAssumption, IInv, Ack PROVE IInv'
<1>1. PICK w \in 1..MaxWindow : Controlled(w)
  BY AckCalls
<1>2. /\ congState' \in {"OPEN", "RECOVERY", "LOSS"}
      /\ ssThresh' \in 0..MaxWindow /\ Saved' /\ losses' \in 0..MaxLosses /\ clear' = clear
  BY AckCalls
<1>3. clear \in BOOLEAN
  BY DEF IInv, TypeOK
<1>4. Sound(velocityState', same')
  BY <1>1 DEF Controlled
<1>5. TypeOK'
  BY <1>1, <1>2, <1>3, <1>4 DEF Controlled, TypeOK, Sound, Velocities
<1> QED BY <1>2, <1>4, <1>5 DEF IInv

\* Every step keeps the invariant.
LEMMA Inductive == ASSUME CopaAssumption, IInv, [Next]_vars PROVE IInv'
<1>1. CASE PathChanges
  <2>1. clear' \in BOOLEAN
    BY <1>1 DEF PathChanges
  <2> QED BY <1>1, <2>1 DEF PathChanges, socket, IInv, TypeOK, Saved
<1>2. CASE UNCHANGED vars
  BY <1>2 DEF vars, socket, IInv, TypeOK, Saved
<1> QED BY <1>1, <1>2, TickKeeps, ReTxTimeoutKeeps, AckKeeps DEF Next

LEMMA Invariant == Spec => []IInv
<1>1. Init => IInv
  BY InitKeeps, CopaAssumption
<1>2. IInv /\ [Next]_vars => IInv'
  BY Inductive, CopaAssumption
<1> QED BY <1>1, <1>2, PTL DEF Spec

-----------------------------------------------------------------------------
\* Every variable of Copa has its type: no sequence of doublings, reductions, losses
\* and recoveries makes the window zero or larger than its width.
THEOREM TypeCorrect == Spec => []TypeOK
<1>1. IInv => TypeOK
  BY DEF IInv
<1> QED BY <1>1, Invariant, PTL

\* CheckAndUpdateDirection and ChangeDirection: the velocity is two to the number of
\* windows of the same direction past the threshold, within its width.
THEOREM VelocityCorrect == Spec => []VelocityMatches
<1>1. IInv => VelocityMatches
  BY DEF IInv, Sound, Matches, VelocityMatches
<1> QED BY <1>1, Invariant, PTL

\* CongControl: a velocity gathered in one direction never moves the window in the
\* other, outside slow start and the recoveries that set the window.
THEOREM FastAlong == Spec => FastOnlyAlong
<1> DEFINE Along ==
        ~isSlowStart /\ congState' = congState
          => /\ cWnd' > Larger(cWnd, MinCwnd)
                => velocityState'.direction = "Up" \/ velocityState'.velocity <= 1
             /\ cWnd' < cWnd /\ cWnd' /= 1
                => velocityState'.direction = "Down" \/ velocityState'.velocity <= 1
<1>1. IInv /\ [Next]_vars => [Along]_vars
  <2> SUFFICES ASSUME IInv, Next, ~isSlowStart, congState' = congState
               PROVE  /\ cWnd' > Larger(cWnd, MinCwnd)
                         => velocityState'.direction = "Up" \/ velocityState'.velocity <= 1
                      /\ cWnd' < cWnd /\ cWnd' /= 1
                         => velocityState'.direction = "Down" \/ velocityState'.velocity <= 1
    OBVIOUS
  <2>1. CASE UNCHANGED cWnd
    <3>1. cWnd \in Nat /\ MinCwnd \in Nat
      BY CopaAssumption DEF IInv, TypeOK, CopaAssumption
    <3> QED BY <2>1, <3>1, CopaAssumption DEF Larger, CopaAssumption
  <2>2. CASE ReTxTimeout
    <3>1. cWnd' = 1 /\ ~(cWnd' > Larger(cWnd, MinCwnd))
      BY <2>2, CopaAssumption DEF ReTxTimeout, Larger, IInv, TypeOK, CopaAssumption
    <3> QED BY <3>1
  <2>3. CASE Ack
    BY <2>3, CopaAssumption, AckCalls DEF Controlled
  <2> QED BY <2>1, <2>2, <2>3 DEF Next, Tick, PathChanges, socket
<1> QED BY <1>1, Invariant, PTL DEF Spec, FastOnlyAlong

\* CheckAndUpdateDirection: the velocity doubles only when the direction has been the
\* same for the threshold less one RTT.
THEOREM DoublesLate == Spec => DoublesAfter
<1> DEFINE Late == velocityState'.velocity /= velocityState.velocity
                      /\ velocityState'.velocity /= 1
                        => same >= (Threshold - 1) * Srtt
<1>1. IInv /\ [Next]_vars => [Late]_vars
  <2> SUFFICES ASSUME IInv, Next, velocityState'.velocity /= velocityState.velocity,
                      velocityState'.velocity /= 1
               PROVE  same >= (Threshold - 1) * Srtt
    OBVIOUS
  <2>1. CASE Ack
    BY <2>1, CopaAssumption, AckCalls DEF Controlled
  <2>2. CASE Tick
    <3>1. velocityState'.velocity = velocityState.velocity
      BY <2>2 DEF Tick, IInv, TypeOK
    <3> QED BY <3>1
  <2>3. CASE UNCHANGED velocityState
    BY <2>3
  <2> QED BY <2>1, <2>2, <2>3 DEF Next, PathChanges, ReTxTimeout
<1> QED BY <1>1, Invariant, PTL DEF Spec, DoublesAfter

-----------------------------------------------------------------------------
(***************************************************************************)
(* Copa and Copa2 together, as MCCopa has them                             *)
(***************************************************************************)

P == INSTANCE Copa2Proofs WITH
    Alpha <- 1, InvTolerance <- 2, MinRtt <- 1, LossyDelay <- 0, ProbeInterval <- 2,
    MaxDelivered <- 2, MaxLost <- 1, MaxRound <- 5

LEMMA SecondInit == Second!Init => P!Init
BY DEF P!Init, Second!Init, P!Unset, Second!Unset

LEMMA SecondTick == Second!Tick => P!Tick
BY DEF P!Tick, Second!Tick, P!Older, Second!Older, P!Smaller, Second!Smaller,
       P!Unset, Second!Unset, P!MaxAge, Second!MaxAge, P!socket, Second!socket

LEMMA SecondReTxTimeout == Second!ReTxTimeout => P!ReTxTimeout
BY DEF P!ReTxTimeout, Second!ReTxTimeout

LEMMA SecondCongControl ==
    ASSUME NEW w, NEW acked, NEW bytesLoss, NEW appLimited, NEW quick, NEW round,
           Second!CongControl(w, acked, bytesLoss, appLimited, quick, round)
    PROVE  P!CongControl(w, acked, bytesLoss, appLimited, quick, round)
BY Zenon DEF P!CongControl, Second!CongControl, P!Enough, Second!Enough, P!TooLossy, Second!TooLossy,
       P!LostAfter, Second!LostAfter, P!Enters, Second!Enters, P!Kept, Second!Kept,
       P!DParam, Second!DParam, P!NewWindow, Second!NewWindow, P!Larger, Second!Larger,
       P!Unset, Second!Unset

LEMMA SecondReceivedAck ==
    ASSUME NEW acked, NEW mark, NEW repair, NEW state,
           Second!ReceivedAck(acked, mark, repair, state)
    PROVE  P!ReceivedAck(acked, mark, repair, state)
<1> DEFINE w == IF congState = "RECOVERY" /\ state = "OPEN" THEN ssThresh ELSE cWnd
           lost == lostOut + mark - repair
<1>1. PICK appLimited \in BOOLEAN, quick \in BOOLEAN, round \in BOOLEAN :
        /\ ackedRound + acked > 5 - MaxAcked \/ lostRound >= 2 => round
        /\ Second!CongControl(w, acked, Second!Apart(lost, lostOut), appLimited, quick, round)
  BY Zenon DEF Second!ReceivedAck
<1>2. P!CongControl(w, acked, P!Apart(lost, lostOut), appLimited, quick, round)
  BY <1>1, SecondCongControl DEF P!Apart, Second!Apart
<1> QED BY <1>1, <1>2, Zenon DEF P!ReceivedAck, Second!ReceivedAck

LEMMA SecondAck == Second!Ack => P!Ack
BY SecondReceivedAck, Zenon DEF P!Ack, Second!Ack, P!Smaller, Second!Smaller,
       P!CongStateAfter, Second!CongStateAfter

LEMMA SecondNext == Second!Next => P!Next
BY SecondTick, SecondReTxTimeout, SecondAck DEF P!Next, Second!Next

\* The invariant of the control the socket has.
EitherInv ==
    /\ control \in {"Copa", "Copa2"}
    /\ control = "Copa" => IInv
    /\ control = "Copa2" => P!IInv

LEMMA SecondAssumed == P!Copa2Assumption
BY SecondAssumption DEF Second!Copa2Assumption, P!Copa2Assumption

LEMMA EitherInductive ==
    ASSUME EitherInv, [EitherNext]_<<control, vars, copa2Vars>>
    PROVE  EitherInv'
<1>1. CASE control = "Copa" /\ EitherNext
  <2>1. control' = control /\ Next
    BY <1>1 DEF EitherNext
  <2> QED BY <1>1, <2>1, Inductive, CopaAssumption DEF EitherInv
<1>2. CASE control = "Copa2" /\ EitherNext
  <2>1. control' = control /\ Second!Next
    BY <1>2 DEF EitherNext
  <2>2. P!Next /\ P!IInv
    BY <1>2, <2>1, SecondNext DEF EitherInv
  <2>3. P!IInv'
    BY <2>2, SecondAssumed, P!Inductive
  <2> QED BY <1>2, <2>1, <2>3 DEF EitherInv
<1>3. CASE UNCHANGED <<control, vars, copa2Vars>>
  <2>1. control = "Copa" => IInv'
    BY <1>3, Inductive, CopaAssumption DEF EitherInv
  <2>2. control = "Copa2" => P!IInv'
    <3>1. UNCHANGED P!vars
      BY <1>3 DEF vars, socket, copa2Vars, P!vars, P!socket
    <3> QED BY <3>1, SecondAssumed, P!Inductive DEF EitherInv
  <2> QED BY <1>3, <2>1, <2>2 DEF EitherInv
<1> QED BY <1>1, <1>2, <1>3 DEF EitherInv

LEMMA EitherInvariant == EitherSpec => []EitherInv
<1>1. EitherInit => EitherInv
  <2> SUFFICES ASSUME EitherInit PROVE EitherInv
    OBVIOUS
  <2>1. control \in {"Copa", "Copa2"} /\ Init /\ P!Init
    BY SecondInit DEF EitherInit
  <2> QED BY <2>1, InitKeeps, CopaAssumption, SecondAssumed, P!InitKeeps DEF EitherInv
<1>2. EitherInv /\ [EitherNext]_<<control, vars, copa2Vars>> => EitherInv'
  BY EitherInductive
<1> QED BY <1>1, <1>2, PTL DEF EitherSpec

\* Whichever control the socket has, its variables have their types.
THEOREM EitherTypeCorrect == EitherSpec => []BothTypeOK
<1>1. EitherInv => BothTypeOK
  <2>1. P!IInv => Second!TypeOK
    BY DEF P!IInv, P!TypeOK, Second!TypeOK, P!Unset, Second!Unset, P!MaxAge, Second!MaxAge
  <2> QED BY <2>1 DEF EitherInv, BothTypeOK, IInv
<1> QED BY <1>1, EitherInvariant, PTL

\* Copa2!UpdateCwnd: the window set at the end of a cycle covers what was delivered
\* since it was last set, unless a probe is on.
THEOREM DeliveryCovered == EitherSpec => WindowCoversDelivery
<1> DEFINE Covers == since' = 0 /\ cycleAge' = 0 /\ cycleAge > 0 /\ ~probeRtt'
                        => cWnd' >= since + 1
<1>1. EitherInv /\ [EitherNext]_<<control, vars, copa2Vars>> => [Covers]_(Second!vars)
  <2> SUFFICES ASSUME EitherInv, EitherNext, since' = 0, cycleAge' = 0, cycleAge > 0,
                      ~probeRtt'
               PROVE  cWnd' >= since + 1
    BY DEF vars, socket, copa2Vars, Second!vars, Second!socket
  <2>1. CASE control = "Copa"
    BY <2>1 DEF EitherNext, copa2Vars
  <2>2. CASE control = "Copa2"
    <3>1. P!Next /\ P!IInv
      BY <2>2, SecondNext DEF EitherNext, EitherInv
    <3> QED BY <3>1, SecondAssumed, P!CoversStep
  <2> QED BY <2>1, <2>2 DEF EitherInv
<1>2. EitherSpec => [][Covers]_(Second!vars)
  BY <1>1, EitherInvariant, PTL DEF EitherSpec
<1> QED BY <1>2, PTL DEF WindowCoversDelivery, Second!WindowCoversDelivery
=============================================================================
