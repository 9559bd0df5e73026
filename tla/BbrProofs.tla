----------------------------- MODULE BbrProofs -----------------------------
(***************************************************************************)
(* The safety of the three models of BBR, for every value of their         *)
(* constants: the modes and the window, the long-term estimate and the     *)
(* slots of the ack aggregation; then their types side by side.            *)
(***************************************************************************)
EXTENDS MCBbr, WellFoundedInduction, TLAPS

-----------------------------------------------------------------------------
(***************************************************************************)
(* The modes                                                               *)
(***************************************************************************)

\* BBR has seen every state of the socket; what a recovery goes back to is set.
Synced ==
    /\ prevCongState = congState
    /\ congState /= "OPEN" => ssThresh > 0

\* The rounds counted without growth have gone by since the last timeout.
Evidence ==
    ~fullBandwidthReached
    => /\ fullBandwidthCount < FullBandwidthCount
       /\ fullBandwidth /= 0 => rounds >= fullBandwidthCount + 1

\* While a probe is timed only fresh packets end a round, or are about to.
Echoes ==
    mode = "PROBE_RTT" /\ probeAge /= Unstamped /\ (probeRttRoundDone \/ freshDelivered)
    => echoed

IInv == /\ TypeOK /\ Synced /\ Evidence /\ Echoes
        /\ SavedNotCut /\ ModeMatchesPipe /\ ProbeRttDrained

-----------------------------------------------------------------------------
LEMMA LargerInt ==
    \A a, b \in Int : /\ Larger(a, b) \in {a, b} /\ Larger(a, b) >= a /\ Larger(a, b) >= b
                      /\ Smaller(a, b) \in {a, b} /\ Smaller(a, b) <= a /\ Smaller(a, b) <= b
BY DEF Larger, Smaller

\* Targets and thresholds are numbers of segments.
LEMMA InflightPositive ==
    ASSUME NEW b \in Nat, NEW num \in Nat, NEW den \in Nat \ {0}, NEW m, NEW index
    PROVE  Inflight(b, num, den, m, index) \in Nat \ {0}
<1>1. (b * num) \div den \in Int
  OBVIOUS
<1>2. Bdp(b, num, den) \in Nat \ {0}
  BY <1>1, BbrAssumption DEF Bdp, Larger
<1>3. \A w \in Nat \ {0} : Quantize(w, m, index) \in Nat \ {0}
  BY DEF Quantize
<1> QED BY <1>2, <1>3 DEF Inflight

LEMMA DrainTarget ==
    \A b \in Nat : \A m, index : Inflight(b, 1, 1, m, index) \in Nat \ {0}
BY InflightPositive

LEMMA RestartIndexesType == RestartIndexes \subseteq 0..(CycleLength - 1)
BY BbrAssumption DEF RestartIndexes

\* What is known of the pipe after an ACK is consistent with the rounds r gone by.
FullSound(full, r) ==
    /\ full.target \in Bandwidths \cup {0} /\ full.count \in 0..3
    /\ full.reached \in BOOLEAN
    /\ fullBandwidthReached => full.reached
    /\ r \in 0..4
    /\ full.reached /\ ~fullBandwidthReached => r >= 4
    /\ ~full.reached => full.count < 3 /\ (full.target /= 0 => r >= full.count + 1)

\* What a round makes of the evidence.
LEMMA FullKeeps ==
    ASSUME TypeOK, Evidence, NEW newRound \in BOOLEAN, NEW limited \in BOOLEAN,
           NEW b \in Bandwidths
    PROVE  FullSound(CheckFullBandwidthReached(newRound, limited, b),
                     IF newRound THEN Smaller(rounds + 1, 4) ELSE rounds)
<1> DEFINE full == CheckFullBandwidthReached(newRound, limited, b)
           r == IF newRound THEN Smaller(rounds + 1, 4) ELSE rounds
<1> SUFFICES FullSound(full, r)
  OBVIOUS
<1>1. /\ rounds \in 0..4 /\ fullBandwidth \in Bandwidths \cup {0}
      /\ fullBandwidthCount \in 0..3 /\ fullBandwidthReached \in BOOLEAN
      /\ b \in Nat \ {0} /\ fullBandwidth \in Nat
  BY BbrAssumption DEF TypeOK
<1>2. r \in 0..4 /\ r >= rounds /\ (newRound /\ rounds < 4 => r = rounds + 1)
  BY <1>1 DEF Smaller
<1>3. CASE fullBandwidthReached \/ ~newRound \/ limited
  <2>1. /\ full.target = fullBandwidth /\ full.count = fullBandwidthCount
        /\ full.reached = fullBandwidthReached
    BY <1>3 DEF CheckFullBandwidthReached
  <2> HIDE DEF full, r
  <2> QED BY <1>1, <1>2, <2>1 DEF FullSound, Evidence, FullBandwidthCount
<1>4. CASE ~(fullBandwidthReached \/ ~newRound \/ limited) /\ 4 * b >= 5 * fullBandwidth
  <2>1. /\ full.target = b /\ full.count = 0
        /\ full.reached \in BOOLEAN /\ ~full.reached
    BY <1>4 DEF CheckFullBandwidthReached
  <2> HIDE DEF full, r
  <2>2. r >= 1 /\ r \in 0..4
    BY <1>1, <1>2, <1>4
  <2>3. ~fullBandwidthReached /\ full.target \in Bandwidths \cup {0}
    BY <1>4, <2>1
  <2>4. full.count < 3 /\ full.count \in 0..3 /\ r >= full.count + 1
    BY <2>1, <2>2
  <2> QED BY <2>1, <2>2, <2>3, <2>4, Zenon DEF FullSound
<1>5. CASE ~(fullBandwidthReached \/ ~newRound \/ limited) /\ ~(4 * b >= 5 * fullBandwidth)
  <2>1. /\ full.target = fullBandwidth /\ full.count = fullBandwidthCount + 1
        /\ full.reached = (fullBandwidthCount + 1 >= FullBandwidthCount)
    BY <1>5 DEF CheckFullBandwidthReached
  <2>2. fullBandwidth /= 0
    BY <1>1, <1>5
  <2> HIDE DEF full, r
  <2> QED BY <1>1, <1>2, <1>5, <2>1, <2>2 DEF FullSound, Evidence, FullBandwidthCount
<1> HIDE DEF full, r
<1> QED BY <1>3, <1>4, <1>5

\* CheckDrain neither begins nor ends a probe, and leaves STARTUP when the pipe is full.
LEMMA DrainKeeps ==
    ASSUME TypeOK, ModeMatchesPipe, NEW full \in BOOLEAN, fullBandwidthReached => full,
           NEW inflight, NEW b
    PROVE  LET m == CheckDrain(full, inflight, b)
           IN  /\ m \in Modes
               /\ m = "PROBE_RTT" <=> mode = "PROBE_RTT"
               /\ m = "STARTUP" => ~full
               /\ m \in {"DRAIN", "PROBE_BW"} => full
BY DEF TypeOK, ModeMatchesPipe, CheckDrain, Modes

-----------------------------------------------------------------------------
\* Once no cut is left and the pipe is not known to be full, the window is back.
Restored ==
    Cut /\ ~Cut' /\ ~fullBandwidthReached'
    => cWnd' >= held - (IF mode = "PROBE_RTT" THEN Larger(Marked, MaxAcked) ELSE 0)

\* What an ACK may bring to CongControl when the invariant holds.
Brings(state, w, ss, prior, d, lost, resent, loss, sample) ==
    /\ state \in CongStates /\ w \in Nat \ {0} /\ ss \in Nat /\ prior \in Nat
    /\ d \in Part(MaxAcked) /\ lost \in Part(Marked) /\ Delivers(d, lost)
    /\ resent \in 0..1 /\ loss \in 0..Larger(Marked, MaxAcked)
    /\ sample \in {"valid", "limited", "invalid"}
    /\ Total(d) = 0 => state = congState /\ resent = 0
    /\ state /= "OPEN" => ss > 0
    /\ Cut => prior >= held
    /\ ~Cut => w = cWnd /\ (state /= "OPEN" => prior >= cWnd)

\* What CongControl does to the variables the invariant speaks of.
LEMMA CongControlKeeps ==
    ASSUME IInv,
           NEW state, NEW w, NEW ss, NEW prior, NEW d, NEW lost, NEW resent, NEW loss,
           NEW sample, Brings(state, w, ss, prior, d, lost, resent, loss, sample),
           CongControl(state, w, ss, prior, d, lost, resent, loss, sample),
           losses' \in 0..MaxLosses
    PROVE  /\ IInv'
           /\ mode = "PROBE_RTT" /\ mode' /= "PROBE_RTT" => probeAge > ProbeTime /\ echoed'
           /\ fullBandwidthReached' /\ ~fullBandwidthReached => rounds' >= 4
           /\ Restored
<1>1. PICK e \in Measurements(d, sample) :
          UpdateModelAndWindow(state, w, ss, prior, d, lost, resent, loss, sample, e)
  BY DEF CongControl
<1> DEFINE acked == Total(d)
           inflight == old + fresh - acked - Total(lost)
           newRound == NewRound(d, sample)
           begins == acked > 0 /\ state = "RECOVERY" /\ prevCongState /= "RECOVERY"
           ends == acked > 0 /\ state = "OPEN" /\ prevCongState /= "OPEN"
           conserving == begins \/ (~ends /\ packetConservation /\ ~newRound)
           full == CheckFullBandwidthReached(newRound, sample = "limited", e.bw)
           drained == CheckDrain(full.reached, inflight, e.bw)
           now == IF minRttAge > Expiry THEN "PROBE_RTT" ELSE drained
           stamps == Stamps(now, inflight)
           round == RoundDone(stamps, Timed(now), newRound)
           done == Timed(now) /\ round /\ probeAge > ProbeTime
           after == IF done THEN ResetMode(full.reached) ELSE now
           prior2 == IF now = "PROBE_RTT" /\ mode /= "PROBE_RTT"
                     THEN SaveCongestionWindow(prevCongState, now, prior, w) ELSE prior
           w2 == IF done THEN Larger(w, prior2) ELSE w
           marks == newRound \/ stamps \/ begins
           gain == IF e.lt /\ ~ltUse THEN "cruise" ELSE pacing
           advances == /\ mode = "PROBE_BW"
                       /\ IsNextCyclePhase(gain, e.elapsed, loss, e.priorDelivered, e.bw,
                                           cycleIndex)
           restarts == \/ ltUse /\ ~e.lt
                       \/ drained = "PROBE_BW" /\ mode /= "PROBE_BW"
                       \/ done /\ after = "PROBE_BW"
\* The conjuncts of the step.
<1>2. /\ bw' = e.bw /\ ltUse' = e.lt
      /\ fullBandwidth' = full.target /\ fullBandwidthCount' = full.count
      /\ fullBandwidthReached' = full.reached
      /\ ssThresh' = (IF mode = "STARTUP" /\ full.reached
                      THEN Inflight(e.bw, 1, 1, "DRAIN", cycleIndex) ELSE ss)
  BY <1>1 DEF UpdateModelAndWindow
<1>3. /\ minRttAge' \in {0, minRttAge}
      /\ probeAge' = (IF stamps THEN 0
                      ELSE IF now = "PROBE_RTT" /\ mode /= "PROBE_RTT" THEN Unstamped
                      ELSE probeAge)
      /\ (probeRttRoundDone' <=> round)
      /\ mode' = after /\ priorCwnd' = prior2 /\ congState' = state
      /\ prevCongState' = IF acked > 0 THEN state ELSE prevCongState
  BY <1>1 DEF UpdateModelAndWindow
<1>4. /\ (packetConservation' <=> conserving)
      /\ delivered' = Smaller(delivered + acked, InitCwnd)
      /\ (freshDelivered' <=> ~marks /\ (freshDelivered \/ d.fresh > 0))
      /\ (echoed' <=> ~stamps /\ (echoed \/ (Timed(now) /\ d.fresh > 0)))
      /\ rounds' = (IF newRound THEN Smaller(rounds + 1, 4) ELSE rounds)
      /\ Hold
  BY <1>1 DEF UpdateModelAndWindow
<1>5. PICK late \in IF stamps /\ acked = 0 THEN 0..fresh ELSE {0} :
        /\ old' = (IF marks THEN inflight - late ELSE old - d.old - lost.old)
        /\ fresh' = resent + (IF marks THEN late ELSE fresh - d.fresh - lost.fresh)
  BY <1>1 DEF UpdateModelAndWindow
<1>6. /\ cycleIndex' \in IF restarts THEN RestartIndexes
                         ELSE {IF advances THEN (cycleIndex + 1) % CycleLength ELSE cycleIndex}
      /\ pacing' = UpdateGains(after, cycleIndex', e.lt)
  BY <1>1 DEF UpdateModelAndWindow
<1>7. PICK used \in IF e.lt THEN Bandwidths ELSE {e.bw},
           extra \in IF full.reached THEN ExtraAcked ELSE {0} :
        cWnd' = SetCongestionWindow(w2, after, inflight, acked, conserving,
                    RecoveryOrRestore(w2, state, inflight, acked, loss, prior2),
                    Target(used, extra, after, cycleIndex', full.reached), full.reached)
  BY <1>1 DEF UpdateModelAndWindow
<1> HIDE DEF acked, inflight, newRound, begins, ends, conserving, full, drained, now, stamps,
             round, done, after, prior2, w2, marks, gain, advances, restarts
\* What the ACK brings is typed.
<1>8. /\ state \in CongStates /\ w \in Nat \ {0} /\ ss \in Nat /\ prior \in Nat
      /\ loss \in Nat /\ resent \in 0..1
      /\ d.old \in Nat /\ d.fresh \in Nat /\ lost.old \in Nat /\ lost.fresh \in Nat
      /\ d.old + lost.old <= old /\ d.fresh + lost.fresh <= fresh
      /\ acked = d.old + d.fresh
      /\ inflight = old + fresh - acked - (lost.old + lost.fresh)
      /\ acked = 0 => lost.old = 0 /\ lost.fresh = 0
  <2>1. Marked \in Nat
    BY BbrAssumption DEF Marked
  <2>2. Larger(Marked, MaxAcked) \in Nat
    BY <2>1, BbrAssumption DEF Larger
  <2>3. loss \in Nat
    BY <2>2 DEF Brings
  <2>4. /\ state \in CongStates /\ w \in Nat \ {0} /\ ss \in Nat /\ prior \in Nat
        /\ resent \in 0..1
    BY DEF Brings
  <2>5. d \in Part(MaxAcked) /\ lost \in Part(Marked) /\ Delivers(d, lost)
    BY DEF Brings
  <2>6. /\ d.old \in Nat /\ d.fresh \in Nat /\ lost.old \in Nat /\ lost.fresh \in Nat
    BY <2>1, <2>5, BbrAssumption DEF Part
  <2>7. acked = 0 => lost.old = 0 /\ lost.fresh = 0
    BY <2>5, <2>6 DEF Delivers, Total, acked
  <2>8. d.old + lost.old <= old /\ d.fresh + lost.fresh <= fresh
    BY <2>5 DEF Delivers
  <2>9. /\ acked = d.old + d.fresh
        /\ inflight = old + fresh - acked - (lost.old + lost.fresh)
    BY DEF Total, acked, inflight
  <2> QED BY <2>3, <2>4, <2>6, <2>7, <2>8, <2>9
<1>9. /\ old \in Nat /\ fresh \in Nat /\ acked \in Nat /\ inflight \in Nat
      /\ acked = 0 => state = congState /\ resent = 0
  <2>1. old \in Nat /\ fresh \in Nat
    BY DEF IInv, TypeOK
  <2>2. acked \in Nat /\ inflight \in Nat
    BY <1>8, <2>1
  <2>3. acked = 0 => state = congState /\ resent = 0
    BY DEF Brings, acked
  <2> QED BY <2>1, <2>2, <2>3
<1>10. newRound \in BOOLEAN /\ (newRound => acked > 0 /\ (freshDelivered \/ d.fresh > 0))
  BY DEF newRound, NewRound, acked
<1>11. e.bw \in Bandwidths /\ e.lt \in BOOLEAN
  BY DEF Measurements, UpdateBandwidth, LongTermBandwidthSampling, Policed, Brings, IInv,
         TypeOK
<1>12. FullSound(full, rounds')
  BY <1>4, <1>10, <1>11, FullKeeps DEF IInv, full
\* The mode, and whether a probe goes on.
<1>13. /\ drained \in Modes
       /\ drained = "PROBE_RTT" <=> mode = "PROBE_RTT"
       /\ drained = "STARTUP" => ~full.reached
       /\ drained \in {"DRAIN", "PROBE_BW"} => full.reached
  BY <1>12, DrainKeeps DEF IInv, FullSound, drained
<1>14. /\ now \in Modes
       /\ mode = "PROBE_RTT" => now = "PROBE_RTT"
       /\ now = "STARTUP" => ~full.reached
       /\ now \in {"DRAIN", "PROBE_BW"} => full.reached
  BY <1>13 DEF now, Modes
<1>15. /\ after \in Modes
       /\ after = "STARTUP" => ~full.reached
       /\ after \in {"DRAIN", "PROBE_BW"} => full.reached
       /\ done => mode = "PROBE_RTT" /\ now = "PROBE_RTT" /\ after /= "PROBE_RTT"
       /\ ~done => after = now
  BY <1>12, <1>14 DEF after, done, Timed, ResetMode, Modes, FullSound
<1>16. /\ stamps \in BOOLEAN /\ round \in BOOLEAN /\ marks \in BOOLEAN
       /\ conserving \in BOOLEAN /\ done \in BOOLEAN
       /\ stamps => now = "PROBE_RTT" /\ inflight <= MinCwnd /\ ~Timed(now) /\ marks
       /\ done => round /\ Timed(now) /\ probeAge > ProbeTime
       /\ round => ~stamps /\ (probeRttRoundDone \/ (Timed(now) /\ newRound))
       /\ acked = 0 => ~begins /\ ~ends /\ ~newRound
  BY <1>8, <1>10 DEF stamps, round, marks, conserving, begins, ends, done, Stamps, RoundDone,
                     Timed, IInv, TypeOK
\* The window.
<1>17. /\ prior2 \in Nat /\ w2 \in Nat \ {0}
       /\ prior2 >= prior \/ prior2 = prior
       /\ now = "PROBE_RTT" /\ mode /= "PROBE_RTT" => prior2 >= w
  BY <1>8, LargerInt DEF prior2, w2, SaveCongestionWindow
<1>18. /\ ss \in Nat /\ ssThresh' \in Nat /\ (state /= "OPEN" => ssThresh' > 0)
  <2>1. Inflight(e.bw, 1, 1, "DRAIN", cycleIndex) \in Nat \ {0}
    <3>1. e.bw \in Nat
      BY <1>11, BbrAssumption
    <3> QED BY <3>1, DrainTarget
  <2>2. state /= "OPEN" => ss > 0
    BY DEF Brings
  <2> QED BY <1>2, <1>8, <2>1, <2>2
<1>19. /\ acked = 0 => cWnd' = (IF after = "PROBE_RTT" THEN Smaller(w2, MinCwnd) ELSE w2)
       /\ after = "PROBE_RTT" => cWnd' = Smaller(w2, MinCwnd)
       /\ cWnd' \in Nat \ {0}
  <2> DEFINE n == RecoveryOrRestore(w2, state, inflight, acked, loss, prior2)
             target == Target(used, extra, after, cycleIndex', full.reached)
  <2>1. n \in Int
    <3>1. (IF loss > 0 THEN Larger(MinCwnd, w2 - loss) ELSE w2) \in Int
      BY <1>8, <1>17, BbrAssumption DEF Larger
    <3>2. \A cut \in Int : Larger(cut, prior2) \in Int
      BY <1>17 DEF Larger
    <3> QED BY <1>9, <3>1, <3>2 DEF RecoveryOrRestore
  <2>2. target \in Int
    <3>1. used \in Nat /\ extra \in Nat
      BY <1>11, BbrAssumption
    <3>2. \A gain1 \in Nat : Bdp(used, gain1, 1) \in Nat
      BY <3>1, BbrAssumption DEF Bdp, Larger
    <3> QED BY <1>15, <3>1, <3>2, BbrAssumption DEF Target, Quantize, Modes
  <2> HIDE DEF n, target
  <2>3. cWnd' = SetCongestionWindow(w2, after, inflight, acked, conserving, n, target,
                                    full.reached)
    BY <1>7 DEF n, target
  <2>4. Smaller(w2, MinCwnd) \in Nat \ {0}
    BY <1>17, BbrAssumption DEF Smaller
  <2>5. \A full1 : SlowStart(n, acked, target, full1, Smaller(delivered + acked, InitCwnd))
                   \in Nat \ {0}
    BY <1>9, <2>1, <2>2, BbrAssumption, LargerInt DEF SlowStart
  <2>6. acked /= 0 => Larger(n, inflight + acked) \in Nat \ {0}
    BY <1>9, <2>1 DEF Larger
  <2> QED BY <1>17, <2>3, <2>4, <2>5, <2>6 DEF SetCongestionWindow, ProbeRttCap
<1>20. /\ cycleIndex' \in 0..(CycleLength - 1) /\ pacing' \in Pacings
  <2>1. (cycleIndex + 1) % CycleLength \in 0..(CycleLength - 1)
    BY BbrAssumption DEF IInv, TypeOK
  <2>2. cycleIndex' \in 0..(CycleLength - 1)
    BY <1>6, <2>1, RestartIndexesType DEF IInv, TypeOK
  <2> QED BY <1>6, <1>15, <2>2 DEF UpdateGains, Pacings, Modes
\* The packets in flight.
<1>21. /\ resent <= acked
       /\ resent \in Nat
  BY <1>8, <1>9
<1>22. /\ old' \in Nat /\ fresh' \in Nat
       /\ old' + fresh' = inflight + resent
  <2>1. CASE marks
    <3>1. late \in Nat /\ late <= inflight
      BY <1>5, <1>8, <1>9
    <3>2. old' = inflight - late /\ fresh' = resent + late
      BY <1>5, <2>1
    <3> QED BY <1>9, <1>21, <3>1, <3>2
  <2>2. CASE ~marks
    <3>1. late = 0
      BY <1>5, <1>16, <2>2
    <3>2. old' = old - d.old - lost.old /\ fresh' = resent + (fresh - d.fresh - lost.fresh)
      BY <1>5, <2>2
    <3> QED BY <1>8, <1>9, <1>21, <3>2
  <2> QED BY <2>1, <2>2
\* The parts of the invariant.
<1>23. TypeOK'
  <2>1. /\ delivered' \in 0..InitCwnd /\ minRttAge' \in 0..(Expiry + 1)
    <3>1. delivered \in 0..InitCwnd /\ minRttAge \in 0..(Expiry + 1)
      BY DEF IInv, TypeOK
    <3>2. delivered' \in 0..InitCwnd
      BY <1>4, <1>9, <3>1, BbrAssumption DEF Smaller
    <3> QED BY <1>3, <3>1, <3>2, BbrAssumption
  <2>2. probeAge' \in Unstamped..(ProbeTime + 1) /\ probeRttRoundDone' \in BOOLEAN
    <3>1. probeAge \in Unstamped..(ProbeTime + 1) /\ {0, Unstamped} \subseteq Unstamped..(ProbeTime + 1)
      BY BbrAssumption DEF IInv, TypeOK, Unstamped
    <3>2. probeAge' \in {0, Unstamped, probeAge}
      BY <1>3
    <3>3. probeRttRoundDone' = round
      BY <1>1 DEF UpdateModelAndWindow, round, Timed, now, stamps, drained, full, inflight,
                  newRound, acked
    <3> QED BY <1>16, <3>1, <3>2, <3>3
  <2>3. packetConservation' \in BOOLEAN /\ freshDelivered' \in BOOLEAN
        /\ echoed' \in BOOLEAN
    BY <1>1, <1>4, <1>16 DEF UpdateModelAndWindow, IInv, TypeOK
  <2>4. held' \in Nat /\ path' \in Paths
    BY <1>4 DEF Hold, IInv, TypeOK
  <2>5. /\ fullBandwidth' \in Bandwidths \cup {0} /\ fullBandwidthCount' \in 0..3
        /\ fullBandwidthReached' \in BOOLEAN /\ rounds' \in 0..4
    BY <1>2, <1>12 DEF FullSound
  <2>6. prevCongState' \in CongStates /\ congState' \in CongStates
    BY <1>3, <1>8 DEF IInv, TypeOK
  <2> QED BY <1>2, <1>3, <1>11, <1>15, <1>17, <1>18, <1>19, <1>20, <1>22, <2>1, <2>2, <2>3,
             <2>4, <2>5, <2>6 DEF TypeOK
<1>24. Synced'
  BY <1>3, <1>9, <1>18 DEF Synced, IInv
<1>25. Evidence'
  BY <1>2, <1>12 DEF Evidence, FullSound, FullBandwidthCount
\* A probe that was timed before this ACK has seen a fresh packet when its round is done.
<1>26. Timed(now) /\ (round \/ freshDelivered') => echoed'
  <2>1. Timed(now) => (probeRttRoundDone \/ freshDelivered => echoed)
    BY DEF Timed, IInv, Echoes
  <2> QED BY <1>4, <1>10, <1>16, <2>1
<1>27. mode' = "PROBE_RTT" /\ probeAge' /= Unstamped => stamps \/ Timed(now)
  BY <1>3, <1>15 DEF Timed
<1>28. Echoes'
  <2>1. stamps => ~round /\ ~freshDelivered'
    BY <1>4, <1>16
  <2> QED BY <1>3, <1>26, <1>27, <2>1 DEF Echoes
<1>29. SavedNotCut'
  <2> SUFFICES ASSUME Cut' PROVE prior2 >= held'
    BY <1>3 DEF SavedNotCut
  <2>1. CASE Cut
    BY <1>4, <1>8, <1>17, <2>1 DEF Hold, Brings, IInv, TypeOK
  <2>2. CASE ~Cut
    <3>1. held' = cWnd /\ w = cWnd /\ (state /= "OPEN" => prior >= cWnd)
      BY <1>4, <2>2 DEF Hold, Brings
    <3>2. now = "PROBE_RTT" => prior2 >= w
      BY <1>17, <2>2 DEF Cut
    <3>3. now = "PROBE_RTT" \/ state /= "OPEN"
      BY <1>3, <1>15, <2>2 DEF Cut
    <3> QED BY <1>8, <1>17, <3>1, <3>2, <3>3
  <2> QED BY <2>1, <2>2
<1>30. ModeMatchesPipe'
  BY <1>2, <1>3, <1>15 DEF ModeMatchesPipe
<1>31. ProbeRttDrained'
  <2>1. mode' = "PROBE_RTT" => cWnd' <= MinCwnd
    BY <1>3, <1>17, <1>19, BbrAssumption DEF Smaller
  <2>2. stamps => old' + fresh' <= MinCwnd + 1
    <3>1. resent <= 1 /\ inflight + resent \in Int /\ MinCwnd \in Int
      BY <1>8, <1>9, BbrAssumption
    <3>2. stamps => inflight + resent <= MinCwnd + 1
      BY <1>9, <1>16, <1>21, <3>1
    <3> QED BY <1>22, <3>2
  <2>3. Timed(now) => old' + fresh' <= MinCwnd + 1
    <3>1. Timed(now) => old + fresh <= MinCwnd + 1
      BY DEF Timed, IInv, ProbeRttDrained
    <3>2. inflight + acked <= old + fresh
      BY <1>8, <1>9
    <3>3. old' + fresh' <= old + fresh
      <4>1. inflight + resent <= old + fresh
        BY <1>9, <1>21, <3>2
      <4> QED BY <1>22, <4>1
    <3>4. old' + fresh' \in Int /\ old + fresh \in Int /\ MinCwnd \in Int
      BY <1>9, <1>22, BbrAssumption
    <3> QED BY <3>1, <3>3, <3>4
  <2> QED BY <1>27, <2>1, <2>2, <2>3 DEF ProbeRttDrained
<1>32. mode = "PROBE_RTT" /\ mode' /= "PROBE_RTT" => probeAge > ProbeTime /\ echoed'
  BY <1>3, <1>14, <1>15, <1>16, <1>26
<1>33. fullBandwidthReached' /\ ~fullBandwidthReached => rounds' >= 4
  BY <1>2, <1>12 DEF FullSound
\* The window that is restored is the one saved, less what the ACK reports lost.
<1>34. Restored
  <2> SUFFICES ASSUME Cut, ~Cut', ~full.reached
               PROVE  cWnd' >= held - (IF mode = "PROBE_RTT" THEN Larger(Marked, MaxAcked)
                                                             ELSE 0)
    BY <1>2 DEF Restored
  <2> DEFINE n == RecoveryOrRestore(w2, state, inflight, acked, loss, prior2)
             cut == IF loss > 0 THEN Larger(MinCwnd, w2 - loss) ELSE w2
             most == Larger(Marked, MaxAcked)
  <2>1. /\ after /= "PROBE_RTT"
        /\ acked > 0 => state = "OPEN"
        /\ acked = 0 => prevCongState = "OPEN"
    BY <1>3, <1>9 DEF Cut
  <2>2. prior2 >= held /\ held \in Nat
    BY <1>8, <1>17 DEF Brings, IInv, TypeOK
  <2>3. cut \in Int /\ cut >= w2 - loss
    BY <1>8, <1>17, BbrAssumption, LargerInt
  <2>4. /\ n \in Int
        /\ acked > 0 => n >= cut /\ (prevCongState /= "OPEN" => n >= prior2)
    BY <1>9, <1>17, <2>1, <2>3, LargerInt DEF RecoveryOrRestore
  <2>5. most \in Nat /\ loss <= most
    <3>1. Marked \in Nat
      BY BbrAssumption DEF Marked
    <3>2. most \in Nat
      BY <3>1, BbrAssumption DEF Larger
    <3> QED BY <3>2 DEF Brings
  <2> HIDE DEF n, cut, most
  <2>6. acked > 0 => cWnd' >= n
    <3> SUFFICES ASSUME acked > 0 PROVE cWnd' >= n
      OBVIOUS
    <3> DEFINE target == Target(used, extra, after, cycleIndex', full.reached)
               total == Smaller(delivered + acked, InitCwnd)
    <3>1. cWnd' = (IF conserving THEN Larger(n, inflight + acked)
                   ELSE SlowStart(n, acked, target, full.reached, total))
      BY <1>7, <1>9, <2>1 DEF SetCongestionWindow, ProbeRttCap, n
    <3> HIDE DEF target, total
    <3>2. Larger(n, inflight + acked) >= n
      BY <1>9, <2>4, LargerInt
    <3>3. SlowStart(n, acked, target, full.reached, total) >= n
      <4>1. n + acked \in Int /\ n + acked >= n /\ n \in Int /\ MinCwnd \in Int
        BY <1>9, <2>4, BbrAssumption
      <4> QED BY <4>1, LargerInt DEF SlowStart
    <3> QED BY <3>1, <3>2, <3>3
  <2>7. CASE done
    <3>1. w2 >= held /\ mode = "PROBE_RTT"
      BY <1>8, <1>15, <1>17, <2>2, <2>7, LargerInt DEF w2
    <3>2. acked = 0 => cWnd' = w2
      BY <1>19, <2>1
    <3> QED BY <1>8, <1>9, <1>17, <1>19, <2>2, <2>3, <2>4, <2>5, <2>6, <3>1, <3>2 DEF most
  <2>8. CASE ~done
    <3>1. mode /= "PROBE_RTT" /\ prevCongState /= "OPEN" /\ acked > 0
      BY <1>9, <1>14, <1>15, <2>1, <2>8 DEF Cut
    <3> QED BY <1>17, <1>19, <2>2, <2>4, <2>6, <3>1
  <2> QED BY <2>7, <2>8
<1> QED BY <1>23, <1>24, <1>25, <1>28, <1>29, <1>30, <1>31, <1>32, <1>33, <1>34 DEF IInv

-----------------------------------------------------------------------------
\* What every step keeps, and what it does when a probe, a cut or the search for the pipe ends.
StepSound ==
    /\ IInv'
    /\ mode = "PROBE_RTT" /\ mode' /= "PROBE_RTT" => probeAge > ProbeTime /\ echoed'
    /\ fullBandwidthReached' /\ ~fullBandwidthReached => rounds' >= 4
    /\ Restored

LEMMA InitKeeps == Init => IInv
<1> SUFFICES ASSUME Init PROVE IInv
  OBVIOUS
<1>1. /\ InitCwnd \in Nat \ {0} /\ 0 \in 0..InitCwnd /\ 0 \in 0..(CycleLength - 1)
      /\ 0 \in 0..(Expiry + 1) /\ 0 \in 0..MaxLosses
      /\ Unstamped \in Unstamped..(ProbeTime + 1) /\ 0 \in 0..3 /\ 0 \in 0..4
  BY BbrAssumption DEF Unstamped
<1>2. TypeOK
  BY <1>1 DEF Init, TypeOK, CongStates, Modes, Pacings, Unset
<1> QED BY <1>2, BbrAssumption
        DEF Init, IInv, Synced, Evidence, Echoes, SavedNotCut, Cut, ModeMatchesPipe,
            ProbeRttDrained, FullBandwidthCount

LEMMA SendKeeps == IInv /\ Send => StepSound
<1> SUFFICES ASSUME IInv, Send PROVE StepSound
  OBVIOUS
<1> USE DEF Send, socket, model, saved, cycle, probe, history
<1>1. TypeOK'
  BY DEF IInv, TypeOK
<1>2. ProbeRttDrained'
  <2>1. mode = "PROBE_RTT" => cWnd <= MinCwnd
    BY DEF IInv, ProbeRttDrained
  <2>2. old' + fresh' <= cWnd
    BY DEF IInv, TypeOK
  <2>3. old' + fresh' \in Int /\ cWnd \in Int /\ MinCwnd \in Int
    BY BbrAssumption DEF IInv, TypeOK
  <2>4. mode = "PROBE_RTT" => old' + fresh' <= MinCwnd + 1
    BY <2>1, <2>2, <2>3
  <2> QED BY <2>1, <2>4 DEF ProbeRttDrained
<1>3. Synced' /\ Evidence' /\ Echoes' /\ SavedNotCut' /\ ModeMatchesPipe'
  BY DEF IInv, Synced, Evidence, Echoes, SavedNotCut, Cut, ModeMatchesPipe
<1>4. Restored
  BY DEF Restored, Cut
<1> QED BY <1>1, <1>2, <1>3, <1>4 DEF StepSound, IInv

LEMMA TickKeeps == IInv /\ Tick => StepSound
<1> SUFFICES ASSUME IInv, Tick PROVE StepSound
  OBVIOUS
<1> USE DEF Tick, socket, pipe, model, saved, cycle, history
<1>1. minRttAge' \in 0..(Expiry + 1)
  BY BbrAssumption DEF IInv, TypeOK, Smaller
<1>2. /\ probeAge' \in Unstamped..(ProbeTime + 1)
      /\ probeAge' /= Unstamped => probeAge /= Unstamped
  BY BbrAssumption DEF IInv, TypeOK, Unstamped
<1>3. TypeOK'
  BY <1>1, <1>2 DEF IInv, TypeOK
<1>4. Synced' /\ Evidence' /\ SavedNotCut' /\ ModeMatchesPipe'
  BY DEF IInv, Synced, Evidence, SavedNotCut, Cut, ModeMatchesPipe
<1>5. Echoes' /\ ProbeRttDrained'
  BY <1>2 DEF IInv, Echoes, ProbeRttDrained
<1>6. Restored
  BY DEF Restored, Cut
<1> QED BY <1>3, <1>4, <1>5, <1>6 DEF StepSound, IInv

\* A window that is saved is the one in force, or no less than that saved before.
LEMMA SaveKeeps ==
    ASSUME TypeOK, SavedNotCut
    PROVE  LET p == SaveCongestionWindow(prevCongState, mode, priorCwnd, cWnd)
           IN  /\ p \in Nat
               /\ Cut => p >= held
               /\ p >= cWnd
BY LargerInt DEF TypeOK, SavedNotCut, Cut, SaveCongestionWindow

LEMMA ReTxTimeoutKeeps == IInv /\ ReTxTimeout => StepSound
<1> SUFFICES ASSUME IInv, ReTxTimeout PROVE StepSound
  OBVIOUS
<1>1. /\ congState' = "LOSS" /\ prevCongState' = "LOSS" /\ cWnd' = 1
      /\ fullBandwidth' = 0 /\ old' = 0 /\ fresh' = 1 /\ rounds' = 0
      /\ losses < Losses /\ losses' = losses + 1
      /\ UNCHANGED <<freshDelivered, delivered, bw, fullBandwidthCount,
                     fullBandwidthReached, packetConservation, mode, probe, echoed>>
      /\ Hold
  BY DEF ReTxTimeout
<1>2. \/ congState = "LOSS" /\ UNCHANGED <<ssThresh, priorCwnd>>
      \/ /\ ssThresh' = GetSsThresh(ssThresh)
         /\ priorCwnd' = SaveCongestionWindow(prevCongState, mode, priorCwnd, cWnd)
  BY DEF ReTxTimeout
<1>3. PICK est \in LongTermBandwidthSampling(TRUE) :
        /\ ltUse' = est
        /\ cycleIndex' \in IF ltUse /\ ~est THEN RestartIndexes ELSE {cycleIndex}
        /\ pacing' = IF est /\ ~ltUse THEN "cruise" ELSE pacing
  BY DEF ReTxTimeout
<1>4. TypeOK /\ Synced /\ SavedNotCut
  BY DEF IInv
<1>5. ltUse' \in BOOLEAN /\ cycleIndex' \in 0..(CycleLength - 1) /\ pacing' \in Pacings
  BY <1>3, <1>4, RestartIndexesType
     DEF TypeOK, LongTermBandwidthSampling, Policed, Pacings
<1>6. ssThresh' \in Nat /\ ssThresh' > 0
  BY <1>2, <1>4, BbrAssumption DEF TypeOK, Synced, GetSsThresh, Unset
<1>7. Cut' /\ held' = (IF Cut THEN held ELSE cWnd) /\ path' = path
  BY <1>1 DEF Hold, Cut
<1>8. priorCwnd' \in Nat /\ priorCwnd' >= held'
  <2>1. CASE congState = "LOSS" /\ UNCHANGED <<ssThresh, priorCwnd>>
    BY <1>4, <1>7, <2>1 DEF Synced, Cut, SavedNotCut, TypeOK
  <2>2. CASE priorCwnd' = SaveCongestionWindow(prevCongState, mode, priorCwnd, cWnd)
    BY <1>4, <1>7, <2>2, SaveKeeps
  <2> QED BY <1>2, <2>1, <2>2
<1>9. losses' \in 0..MaxLosses
  <2>1. Losses \in 0..MaxLosses
    BY <1>4, BbrAssumption DEF Losses, Smaller, AllPaths, TypeOK
  <2> QED BY <1>1, <1>4, <2>1, BbrAssumption DEF TypeOK
<1>10. TypeOK'
  BY <1>1, <1>4, <1>5, <1>6, <1>7, <1>8, <1>9 DEF TypeOK, probe, CongStates
<1>11. Synced' /\ SavedNotCut'
  BY <1>1, <1>6, <1>8 DEF Synced, SavedNotCut
<1>12. Evidence' /\ Echoes' /\ ModeMatchesPipe'
  BY <1>1 DEF IInv, Evidence, Echoes, ModeMatchesPipe, probe
<1>13. ProbeRttDrained'
  BY <1>1, BbrAssumption DEF ProbeRttDrained
<1> QED BY <1>1, <1>7, <1>10, <1>11, <1>12, <1>13 DEF StepSound, IInv, Restored

\* What ProcessAck hands over.
LEMMA AckKeeps == IInv /\ Ack => StepSound
<1> SUFFICES ASSUME IInv, Ack PROVE StepSound
  OBVIOUS
<1>1. PICK d \in Part(MaxAcked), lost \in Part(Marked) :
        /\ Delivers(d, lost)
        /\ \E state \in CongStateAfter(Total(d)),
              loss \in BytesLoss(Total(d), Total(lost)), sample \in Samples :
                ReceivedAck(d, lost, state, loss, sample)
  BY DEF Ack, Acks
<1>2. PICK state \in CongStateAfter(Total(d)),
           loss \in BytesLoss(Total(d), Total(lost)), sample \in Samples :
                ReceivedAck(d, lost, state, loss, sample)
  BY <1>1
<1> DEFINE enters == congState = "OPEN" /\ state = "RECOVERY"
           partial == congState = "RECOVERY" /\ state = "RECOVERY" /\ Total(d) > 0
           w == IF congState = "RECOVERY" /\ state = "OPEN" THEN ssThresh ELSE cWnd
           ss == IF enters THEN GetSsThresh(ssThresh) ELSE ssThresh
           prior == IF enters
                    THEN SaveCongestionWindow(prevCongState, mode, priorCwnd, cWnd)
                    ELSE priorCwnd
<1>3. PICK resent \in IF enters THEN {1} ELSE IF partial THEN {0, 1} ELSE {0} :
        CongControl(state, w, ss, prior, d, lost, resent, loss, sample)
  BY <1>2 DEF ReceivedAck
<1>4. losses' = IF enters THEN losses + 1 ELSE losses
  BY <1>2 DEF ReceivedAck
<1> HIDE DEF w, ss, prior
<1>5. TypeOK /\ Synced /\ SavedNotCut
  BY DEF IInv
<1>6. Total(d) \in Nat /\ Total(lost) \in Nat
  <2>1. Marked \in Nat
    BY BbrAssumption DEF Marked
  <2> QED BY <1>1, <2>1, BbrAssumption DEF Part, Total
<1>7. loss \in 0..Larger(Marked, MaxAcked)
  <2>1. Marked \in Nat /\ Total(lost) <= Marked /\ Total(d) <= MaxAcked
    BY <1>1, BbrAssumption DEF Marked, Delivers
  <2>2. PICK repaired \in 0..Smaller(Total(d), Marked) : loss = Apart(Total(lost), repaired)
    BY <1>2 DEF BytesLoss
  <2>3. repaired \in Nat /\ repaired <= Marked
    BY <1>6, <2>1, <2>2 DEF Smaller
  <2>4. loss \in Nat /\ loss <= Marked
    BY <1>6, <2>1, <2>2, <2>3 DEF Apart
  <2> QED BY <2>1, <2>4, BbrAssumption DEF Larger
<1>8. /\ state \in CongStates
      /\ Total(d) = 0 => state = congState
      /\ state \in {congState, "RECOVERY", "OPEN"}
      /\ enters => losses < Losses /\ Total(d) > 0
      /\ state = "RECOVERY" => congState \in {"OPEN", "RECOVERY"}
  BY <1>2, <1>5, <1>6 DEF CongStateAfter, TypeOK, CongStates
<1>9. resent \in 0..1 /\ (Total(d) = 0 => resent = 0)
  BY <1>3, <1>6, <1>8
<1>10. ss \in Nat /\ (state /= "OPEN" => ss > 0) /\ w \in Nat \ {0}
  BY <1>5, <1>8, BbrAssumption DEF ss, w, TypeOK, Synced, GetSsThresh, Unset, CongStates
<1>11. prior \in Nat /\ (Cut => prior >= held)
  BY <1>5, SaveKeeps DEF prior, TypeOK, SavedNotCut
<1>12. ~Cut => w = cWnd /\ (state /= "OPEN" => prior >= cWnd)
  BY <1>5, <1>8, SaveKeeps DEF w, prior, Cut, Synced
<1>13. sample \in {"valid", "limited", "invalid"}
  BY <1>2 DEF Samples
<1>14. Brings(state, w, ss, prior, d, lost, resent, loss, sample)
  BY <1>1, <1>7, <1>8, <1>9, <1>10, <1>11, <1>12, <1>13 DEF Brings
<1>15. losses' \in 0..MaxLosses
  <2>1. Losses \in 0..MaxLosses
    BY <1>5, BbrAssumption DEF Losses, Smaller, AllPaths, TypeOK
  <2> QED BY <1>4, <1>5, <1>8, <2>1, BbrAssumption DEF TypeOK
<1> QED BY <1>3, <1>14, <1>15, CongControlKeeps DEF StepSound

-----------------------------------------------------------------------------
\* The invariant is inductive.
LEMMA Inductive == IInv /\ [Next]_vars => IInv'
<1> SUFFICES ASSUME IInv, [Next]_vars PROVE IInv'
  OBVIOUS
<1>1. CASE UNCHANGED vars
  BY <1>1 DEF IInv, TypeOK, Synced, Evidence, Echoes, SavedNotCut, Cut, ModeMatchesPipe,
              ProbeRttDrained, vars, socket, pipe, model, saved, cycle, probe, history
<1>2. CASE Next
  BY <1>2, SendKeeps, TickKeeps, ReTxTimeoutKeeps, AckKeeps DEF Next, StepSound
<1> QED BY <1>1, <1>2

LEMMA Invariant == Spec => []IInv
BY InitKeeps, Inductive, PTL DEF Spec

\* The state of TcpBbr and of its socket keeps its types: the window is never zero and
\* the two bits of m_fullBandwidthCount never overflow.
THEOREM TypeCorrect == Spec => []TypeOK
<1>1. IInv => TypeOK
  BY DEF IInv
<1> QED BY <1>1, Invariant, PTL

\* SaveCongestionWindow never saves a window that was cut: m_priorCwnd is at least
\* the window in force when the first of the nested cuts began.
THEOREM SavedCorrect == Spec => []SavedNotCut
<1>1. IInv => SavedNotCut
  BY DEF IInv
<1> QED BY <1>1, Invariant, PTL

\* BBR is in STARTUP only while the pipe is not known to be full, in DRAIN and
\* PROBE_BW only once it is (CheckFullBandwidthReached, CheckDrain, ResetMode).
THEOREM ModeCorrect == Spec => []ModeMatchesPipe
<1>1. IInv => ModeMatchesPipe
  BY DEF IInv
<1> QED BY <1>1, Invariant, PTL

\* In PROBE_RTT the window is at most kMinCWndSegment, and a timed probe keeps no
\* more than one segment beyond it in flight (UpdateMinRtt, ModulateCwndForProbeRTT).
THEOREM DrainedCorrect == Spec => []ProbeRttDrained
<1>1. IInv => ProbeRttDrained
  BY DEF IInv
<1> QED BY <1>1, Invariant, PTL

\* PROBE_RTT ends after its time and a round whose packets were sent within it.
THEOREM ProbeRttRound == Spec => ProbeRttTakesRound
<1>1. IInv /\ [Next]_vars =>
        [mode = "PROBE_RTT" /\ mode' /= "PROBE_RTT" => probeAge > ProbeTime /\ echoed']_vars
  BY SendKeeps, TickKeeps, ReTxTimeoutKeeps, AckKeeps DEF Next, StepSound
<1> QED BY <1>1, Invariant, PTL DEF Spec, ProbeRttTakesRound

\* The pipe is declared full on four rounds measured since the last timeout.
THEOREM FullEvidence == Spec => FullOnLateEvidence
<1>1. IInv /\ [Next]_vars =>
        [fullBandwidthReached' /\ ~fullBandwidthReached => rounds' >= 4]_vars
  BY SendKeeps, TickKeeps, ReTxTimeoutKeeps, AckKeeps DEF Next, StepSound
<1> QED BY <1>1, Invariant, PTL DEF Spec, FullOnLateEvidence

\* When the last cut is over, the window is the one before the first, less what the
\* ACK that ends a probe reports lost (RestoreCongestionWindow, RecoveryOrRestore).
THEOREM WindowRestored == Spec => RestoredAfterCut
<1>1. IInv /\ [Next]_vars => [Restored]_vars
  BY SendKeeps, TickKeeps, ReTxTimeoutKeeps, AckKeeps DEF Next, StepSound
<1> QED BY <1>1, Invariant, PTL DEF Spec, RestoredAfterCut, Restored

-----------------------------------------------------------------------------
(***************************************************************************)
(* The long-term estimate                                                  *)
(***************************************************************************)

\* The rounds an interval in progress accounts for, with those of the interval
\* before it.
Accounted(s) == s.count + (IF s.measured THEN IntervalRtts ELSE 0)

\* What relates the state s of the sampling to the rounds e gone by since it began.
LongTermSound(s, e) ==
    /\ s \in States
    /\ s.use => s.count < MaxRtts /\ s.sampling /\ s.measured
    /\ ~s.use => s.count <= 4 * IntervalRtts
    /\ ~s.sampling => ~s.measured
    /\ e \in 0..(2 * IntervalRtts)
    /\ s.sampling /\ ~s.use => e >= Accounted(s) \/ e = 2 * IntervalRtts

LongTermInv == LongTermSound(lt, evidence) /\ anchored \in BOOLEAN

\* The rounds gone by when the sampling becomes s.
LongTermAfter(s, e, newRound) ==
    IF ~s.sampling THEN 0
    ELSE IF newRound /\ e < 2 * IntervalRtts THEN e + 1 ELSE e

\* Starting over is sound at any time.
LEMMA ResetSound == \A e : LongTermSound(Reset, 0) /\ LongTermAfter(Reset, e, TRUE) = 0 /\ LongTermAfter(Reset, e, FALSE) = 0
BY LongTermAssumption DEF LongTermSound, Reset, States, LongTermAfter, Accounted

\* Records with some fields replaced are states again.
LEMMA Updates ==
    ASSUME NEW s \in States
    PROVE  /\ [s EXCEPT !.use = TRUE, !.count = 0] \in States
           /\ [s EXCEPT !.measured = TRUE, !.count = 0] \in States
           /\ [s EXCEPT !.sampling = TRUE, !.count = 0] \in States
           /\ \A n \in 0..(CountValues - 1) : [s EXCEPT !.count = n] \in States
<1>1. 0 \in 0..(CountValues - 1)
  BY LongTermAssumption
<1> QED BY <1>1, Zenon DEF States

\* An interval in progress: what one sample makes of it.
LEMMA IntervalSound ==
    ASSUME NEW s, NEW e, LongTermSound(s, e), s.sampling, ~s.use,
           NEW newRound, NEW loss, NEW limited, NEW ends, NEW overlong, NEW agrees
    PROVE  LET t == Interval(s, newRound, loss, limited, ends, overlong, agrees)
           IN  /\ LongTermSound(t, LongTermAfter(t, e, newRound))
               /\ t.use => LongTermAfter(t, e, newRound) >= 2 * IntervalRtts
<1> DEFINE t == [s EXCEPT !.count = Increment(s.count, newRound)]
           f == LongTermAfter(t, e, newRound)
<1>1. /\ t \in States /\ t.sampling /\ ~t.use /\ t.measured = s.measured
      /\ t.count \in Nat /\ t.count <= 4 * IntervalRtts + 1
      /\ f \in 0..(2 * IntervalRtts)
      /\ f >= Accounted(t) \/ f = 2 * IntervalRtts
  BY LongTermAssumption DEF LongTermSound, States, Increment, LongTermAfter, Accounted
<1>2. CASE limited
  BY <1>2, ResetSound DEF Interval, Reset, LongTermSound, LongTermAfter
<1>3. CASE ~limited /\ t.count < IntervalRtts
  BY <1>1, <1>3, LongTermAssumption DEF Interval, LongTermSound, LongTermAfter, Accounted
<1>4. CASE ~limited /\ ~(t.count < IntervalRtts) /\ TooLong(t)
  BY <1>4, ResetSound DEF Interval, Reset, LongTermSound, LongTermAfter
<1>5. CASE ~limited /\ ~(t.count < IntervalRtts) /\ ~TooLong(t)
  <2>1. t.count <= 4 * IntervalRtts /\ t.count >= IntervalRtts
    BY <1>1, <1>5, LongTermAssumption DEF TooLong
  <2>2. CASE ~loss \/ ~ends
    BY <1>1, <1>5, <2>1, <2>2, LongTermAssumption DEF Interval, LongTermSound, LongTermAfter, Accounted
  <2>3. CASE loss /\ ends /\ overlong
    BY <1>5, <2>3, ResetSound DEF Interval, Reset, LongTermSound, LongTermAfter
  <2>4. CASE loss /\ ends /\ ~overlong
    <3>1. Interval(s, newRound, loss, limited, ends, overlong, agrees)
          = IntervalDone(t, agrees)
      BY <1>5, <2>4 DEF Interval
    <3>2. CASE t.measured /\ agrees
      <4> DEFINE u == [t EXCEPT !.use = TRUE, !.count = 0]
      <4>1. IntervalDone(t, agrees) = u
        BY <3>2 DEF IntervalDone
      <4>4. u \in States /\ u.use /\ u.sampling /\ u.measured /\ u.count = 0
        BY <1>1, <3>2, Updates DEF States
      <4>2. f >= 2 * IntervalRtts
        BY <1>1, <2>1, <3>2, LongTermAssumption DEF Accounted
      <4>3. LongTermAfter(u, e, newRound) = f
        BY <1>1, <4>4 DEF LongTermAfter
      <4> HIDE DEF u, t, f
      <4> QED BY <1>1, <3>1, <4>1, <4>2, <4>3, <4>4, LongTermAssumption DEF LongTermSound
    <3>3. CASE ~(t.measured /\ agrees)
      <4> DEFINE u == [t EXCEPT !.measured = TRUE, !.count = 0]
      <4>1. IntervalDone(t, agrees) = u
        <5>1. IntervalDone(t, agrees) = [[t EXCEPT !.measured = TRUE] EXCEPT !.count = 0]
          BY <3>3 DEF IntervalDone, ResetInterval
        <5> QED BY <1>1, <5>1, Zenon DEF States
      <4>4. u \in States /\ ~u.use /\ u.sampling /\ u.measured /\ u.count = 0
        BY <1>1, Updates DEF States
      <4>2. f >= IntervalRtts
        BY <1>1, <2>1, LongTermAssumption DEF Accounted
      <4>3. LongTermAfter(u, e, newRound) = f /\ Accounted(u) = IntervalRtts
        BY <1>1, <4>4, LongTermAssumption DEF LongTermAfter, Accounted
      <4> HIDE DEF u, t, f
      <4> QED BY <1>1, <3>1, <4>1, <4>2, <4>3, <4>4, LongTermAssumption DEF LongTermSound
    <3> QED BY <3>2, <3>3
  <2> QED BY <2>2, <2>3, <2>4
<1> QED BY <1>2, <1>3, <1>4, <1>5

\* One sample, whatever the sampling is doing.
LEMMA SamplingSound ==
    ASSUME NEW s, NEW e, LongTermSound(s, e), NEW probing,
           NEW newRound, NEW loss, NEW limited, NEW ends, NEW overlong, NEW agrees
    PROVE  LET t == Sampling(s, probing, newRound, loss, limited, ends, overlong, agrees)
           IN  /\ LongTermSound(t, LongTermAfter(t, e, newRound))
               /\ t.use /\ ~s.use => LongTermAfter(t, e, newRound) >= 2 * IntervalRtts
<1>1. CASE s.use
  <2>1. CASE ~probing \/ ~newRound
    <3>1. Sampling(s, probing, newRound, loss, limited, ends, overlong, agrees) = s
      BY <1>1, <2>1 DEF Sampling, Use
    <3>2. LongTermAfter(s, e, newRound) \in 0..(2 * IntervalRtts)
      BY LongTermAssumption DEF LongTermSound, LongTermAfter
    <3> QED BY <1>1, <3>1, <3>2 DEF LongTermSound
  <2>2. CASE probing /\ newRound /\ Increment(s.count, TRUE) >= MaxRtts
    BY <1>1, <2>2, ResetSound DEF Sampling, Use, Reset, LongTermSound, LongTermAfter
  <2>3. CASE probing /\ newRound /\ ~(Increment(s.count, TRUE) >= MaxRtts)
    <3> DEFINE u == [s EXCEPT !.count = Increment(s.count, TRUE)]
    <3>1. Sampling(s, probing, newRound, loss, limited, ends, overlong, agrees) = u
      BY <1>1, <2>3 DEF Sampling, Use
    <3>2. /\ u \in States /\ (u.use <=> s.use) /\ (u.sampling <=> s.sampling)
          /\ (u.measured <=> s.measured) /\ u.count < MaxRtts
      <4>1. s \in States /\ s.count \in 0..(MaxRtts - 1)
        BY <1>1, LongTermAssumption DEF LongTermSound, States
      <4>2. Increment(s.count, TRUE) \in 0..(CountValues - 1)
            /\ Increment(s.count, TRUE) < MaxRtts
        BY <4>1, <2>3, LongTermAssumption DEF Increment
      <4> QED BY <4>1, <4>2, Updates DEF States
    <3>3. LongTermAfter(u, e, newRound) \in 0..(2 * IntervalRtts)
      BY LongTermAssumption DEF LongTermSound, LongTermAfter
    <3> HIDE DEF u
    <3> QED BY <1>1, <3>1, <3>2, <3>3 DEF LongTermSound
  <2> QED BY <2>1, <2>2, <2>3
<1>2. CASE ~s.use /\ s.sampling
  BY <1>2, IntervalSound DEF Sampling
<1>3. CASE ~s.use /\ ~s.sampling /\ loss
  <2> DEFINE t == ResetInterval([s EXCEPT !.sampling = TRUE])
  <2>1. LongTermSound(t, e) /\ t.sampling /\ ~t.use
    <3>1. t = [[s EXCEPT !.sampling = TRUE] EXCEPT !.count = 0]
      BY DEF ResetInterval
    <3>2. /\ t \in States /\ (t.use <=> s.use) /\ t.sampling /\ t.count = 0
          /\ (t.measured <=> s.measured)
      <4>1. s \in States
        BY DEF LongTermSound
      <4>2. 0 \in 0..(CountValues - 1)
        BY LongTermAssumption
      <4> HIDE DEF t
      <4> QED BY <3>1, <4>1, <4>2 DEF States
    <3> HIDE DEF t
    <3> QED BY <1>3, <3>2, LongTermAssumption DEF LongTermSound, Accounted
  <2>2. Sampling(s, probing, newRound, loss, limited, ends, overlong, agrees)
        = Interval(t, newRound, loss, limited, ends, overlong, agrees)
    BY <1>3 DEF Sampling
  <2> QED BY <2>1, <2>2, IntervalSound
<1>4. CASE ~s.use /\ ~s.sampling /\ ~loss
  BY <1>4, LongTermAssumption DEF Sampling, LongTermSound, LongTermAfter, Accounted
<1> QED BY <1>1, <1>2, <1>3, <1>4

LEMMA InitLongTermInv == LongTermInit => LongTermInv
BY ResetSound DEF LongTermInit, LongTermInv

\* A step of any kind keeps the invariant, and takes the estimate into use only when
\* two intervals have gone by.
LEMMA StepLongTermInv ==
    ASSUME LongTermInv, [LongTermNext]_longTermVars
    PROVE  LongTermInv' /\ (lt'.use /\ ~lt.use => evidence' >= 2 * IntervalRtts)
<1>1. \A s, newRound : Becomes(s, newRound)
                       => lt' = s /\ evidence' = LongTermAfter(s, evidence, newRound)
  BY DEF Becomes, LongTermAfter
<1>2. CASE LongTermCongControl
  <2>1. PICK counted \in BOOLEAN, valid \in BOOLEAN :
          LET s == IF anchored THEN lt ELSE Reset
          IN  /\ anchored' = counted
              /\ IF ~valid THEN Becomes(s, FALSE)
                 ELSE \E probing, newRound, loss, limited, ends, overlong, agrees \in BOOLEAN :
                      Becomes(Sampling(s, probing, newRound, loss, limited, ends,
                                       overlong, agrees), newRound)
    BY <1>2 DEF LongTermCongControl
  <2> DEFINE s == IF anchored THEN lt ELSE Reset
             e == IF anchored THEN evidence ELSE 0
  <2>2. LongTermSound(s, e) /\ (s.use => lt.use)
    BY ResetSound DEF LongTermInv, Reset
  <2>3. CASE ~valid
    <3>1. lt' = s /\ evidence' = LongTermAfter(s, evidence, FALSE)
      BY <1>1, <2>1, <2>3
    <3>2. LongTermSound(s, LongTermAfter(s, evidence, FALSE))
      BY <2>2, ResetSound, LongTermAssumption DEF LongTermSound, LongTermAfter, Accounted, LongTermInv, Reset
    <3> QED BY <2>1, <2>2, <3>1, <3>2 DEF LongTermInv
  <2>4. CASE valid
    <3>1. PICK probing, newRound, loss, limited, ends, overlong, agrees \in BOOLEAN :
            Becomes(Sampling(s, probing, newRound, loss, limited, ends, overlong, agrees),
                    newRound)
      BY <2>1, <2>4
    <3> DEFINE t == Sampling(s, probing, newRound, loss, limited, ends, overlong, agrees)
    <3>2. lt' = t /\ evidence' = LongTermAfter(t, evidence, newRound)
      BY <1>1, <3>1
    <3>3. LongTermSound(s, evidence)
      BY <2>2, LongTermAssumption DEF LongTermInv, LongTermSound, Reset
    <3>4. /\ LongTermSound(t, LongTermAfter(t, evidence, newRound))
          /\ t.use /\ ~s.use => LongTermAfter(t, evidence, newRound) >= 2 * IntervalRtts
      BY <3>3, SamplingSound
    <3>5. anchored /\ lt.use => s.use
      OBVIOUS
    <3> QED BY <2>1, <2>2, <3>2, <3>4 DEF LongTermInv
  <2> QED BY <2>3, <2>4
<1>3. CASE Timeout
  <2>1. PICK probing, ends, overlong, agrees \in BOOLEAN :
          Becomes(Sampling(lt, probing, TRUE, TRUE, FALSE, ends, overlong, agrees), TRUE)
          /\ UNCHANGED anchored
    BY <1>3 DEF Timeout
  <2> DEFINE t == Sampling(lt, probing, TRUE, TRUE, FALSE, ends, overlong, agrees)
  <2>2. lt' = t /\ evidence' = LongTermAfter(t, evidence, TRUE)
    BY <1>1, <2>1
  <2>3. /\ LongTermSound(t, LongTermAfter(t, evidence, TRUE))
        /\ t.use /\ ~lt.use => LongTermAfter(t, evidence, TRUE) >= 2 * IntervalRtts
    <3>1. LongTermSound(lt, evidence)
      BY DEF LongTermInv
    <3>2. \A newRound, loss, limited :
            LET u == Sampling(lt, probing, newRound, loss, limited, ends, overlong, agrees)
            IN  /\ LongTermSound(u, LongTermAfter(u, evidence, newRound))
                /\ u.use /\ ~lt.use => LongTermAfter(u, evidence, newRound) >= 2 * IntervalRtts
      BY <3>1, SamplingSound
    <3> QED BY <3>2, Zenon
  <2> QED BY <2>1, <2>2, <2>3 DEF LongTermInv
<1>4. CASE UNCHANGED longTermVars
  BY <1>4 DEF LongTermInv, longTermVars
<1> QED BY <1>2, <1>3, <1>4 DEF LongTermNext

THEOREM LongTermInductive == LongTermSpec => []LongTermInv
<1>1. LongTermInv /\ [LongTermNext]_longTermVars => LongTermInv'
  BY StepLongTermInv
<1> QED BY InitLongTermInv, <1>1, PTL DEF LongTermSpec

\* The variables keep their types: the 7 bits of m_ltRttCount are never exceeded.
THEOREM LongTermTypeCorrect == LongTermSpec => []LongTermTypeOK
<1>1. LongTermInv => LongTermTypeOK
  BY DEF LongTermInv, LongTermSound, LongTermTypeOK
<1> QED BY LongTermInductive, <1>1, PTL

\* The rounds counted are compared before the count can wrap, for every sequence of
\* samples and timeouts.
THEOREM CountStaysBelowLimit == LongTermSpec => []CountBelowLimit
<1>1. LongTermInv => CountBelowLimit
  BY DEF LongTermInv, LongTermSound, CountBelowLimit
<1> QED BY LongTermInductive, <1>1, PTL

\* The long-term estimate comes into use only on the evidence of two intervals.
THEOREM TwoIntervals == LongTermSpec => UsedAfterTwoIntervals
<1>1. LongTermInv /\ [LongTermNext]_longTermVars
      => [lt'.use /\ ~lt.use => evidence' >= 2 * IntervalRtts]_longTermVars
  BY StepLongTermInv
<1> QED BY LongTermInductive, <1>1, PTL DEF LongTermSpec, UsedAfterTwoIntervals

-----------------------------------------------------------------------------
(***************************************************************************)
(* The slots of the ack aggregation                                        *)
(***************************************************************************)

\* A set of numbers has a least one.
LEMMA Least ==
    ASSUME NEW T \in SUBSET Nat, T /= {}
    PROVE  \E n \in T : \A m \in T : n <= m
<1> DEFINE R == OpToRel(<, Nat)
<1>1. \A m, n \in Nat : m < n => <<m, n>> \in R
  BY DEF OpToRel
<1>2. IsWellFoundedOn(R, Nat)
  BY NatLessThanWellFounded
<1> HIDE DEF R
<1>3. PICK n \in T : \A m \in T : ~(<<m, n>> \in R)
  BY <1>2, WFMin
<1>4. \A m \in T : ~(m < n)
  BY <1>1, <1>3
<1> QED BY <1>3, <1>4

\* The first n members of a sequence have a maximum.
LEMMA MaxExists ==
    ASSUME NEW n \in Nat, n >= 1, NEW s, \A i \in 1..n : s[i] \in Nat
    PROVE  LET S == {s[i] : i \in 1..n} IN Max(S) \in S /\ \A y \in S : y <= Max(S)
<1> DEFINE IsLargest(k, j) == j \in 1..k /\ \A i \in 1..k : s[i] <= s[j]
           T == {k \in 1..n : ~\E j \in 1..k : IsLargest(k, j)}
<1>1. IsLargest(1, 1)
  <2>1. \A i \in 1..1 : i = 1
    OBVIOUS
  <2>2. s[1] \in Nat
    OBVIOUS
  <2> QED BY <2>1, <2>2
<1>2. ASSUME NEW k \in 2..n, NEW j \in 1..(k - 1), IsLargest(k - 1, j)
      PROVE  \E m \in 1..k : IsLargest(k, m)
  <2>1. /\ k \in Nat /\ k >= 2 /\ k \in 1..n /\ j \in 1..n /\ j \in 1..k
        /\ \A i \in 1..k : i = k \/ i \in 1..(k - 1)
    OBVIOUS
  <2>2. s[k] \in Nat /\ s[j] \in Nat /\ \A i \in 1..(k - 1) : s[i] \in Nat /\ s[i] <= s[j]
    BY <1>2, <2>1
  <2>3. CASE s[k] <= s[j]
    <3>1. \A i \in 1..k : s[i] <= s[j]
      BY <2>1, <2>2, <2>3
    <3> QED BY <2>1, <3>1
  <2>4. CASE ~(s[k] <= s[j])
    <3>1. \A i \in 1..k : s[i] <= s[k]
      BY <2>1, <2>2, <2>4
    <3> QED BY <2>1, <3>1
  <2> QED BY <2>3, <2>4
<1> HIDE DEF IsLargest
<1>3. T = {}
  <2> SUFFICES ASSUME T /= {} PROVE FALSE
    OBVIOUS
  <2>1. T \in SUBSET Nat
    OBVIOUS
  <2> HIDE DEF T
  <2>2. PICK k \in T : \A m \in T : k <= m
    BY <2>1, Least
  <2>3. k \in 1..n /\ ~\E j \in 1..k : IsLargest(k, j)
    BY <2>2 DEF T
  <2>4. k /= 1
    <3>1. 1 \in 1..1
      OBVIOUS
    <3> QED BY <1>1, <2>3, <3>1, Zenon
  <2>5. k \in 2..n /\ k - 1 \in 1..n /\ ~(k <= k - 1)
    BY <2>3, <2>4
  <2>6. k - 1 \notin T
    BY <2>2, <2>5
  <2>7. PICK j \in 1..(k - 1) : IsLargest(k - 1, j)
    BY <2>5, <2>6 DEF T
  <2> QED BY <1>2, <2>3, <2>5, <2>7
<1>4. n \in 1..n
  OBVIOUS
<1>5. PICK j \in 1..n : IsLargest(n, j)
  BY <1>3, <1>4
<1> DEFINE S == {s[i] : i \in 1..n}
<1>6. s[j] \in S /\ \A y \in S : s[j] >= y
  BY <1>5 DEF IsLargest
<1>7. Max(S) \in S /\ \A y \in S : Max(S) >= y
  BY <1>6, Zenon DEF Max
<1>8. S \subseteq Nat
  OBVIOUS
<1> HIDE DEF S
<1>9. Max(S) \in S /\ \A y \in S : y <= Max(S)
  BY <1>7, <1>8
<1> QED BY <1>9 DEF S

\* v is the largest of the rounds lo to hi of s.
Largest(v, s, lo, hi) ==
    /\ v \in Nat
    /\ \A i \in 1..Len(s) : lo <= i /\ i <= hi => s[i] <= v
    /\ v = 0 \/ \E i \in 1..Len(s) : lo <= i /\ i <= hi /\ s[i] = v

\* One slot holds the largest sample of the rounds since the window last moved on, the
\* other that of the window before.
AggregationInv ==
    /\ AggregationTypeOK
    /\ Len(seen) >= 1
    /\ Largest(slots[winIdx], seen, 1, winRtts + 1)
    /\ Largest(slots[1 - winIdx], seen, winRtts + 2, winRtts + 1 + WinRtts)

\* The rounds before a new one, as many as are kept.
Shifted(s) == <<0>> \o SubSeq(s, 1, Lesser(Len(s), 2 * WinRtts - 1))

LEMMA ShiftedIs ==
    ASSUME NEW s \in Seq(Nat), Len(s) >= 1
    PROVE  /\ Shifted(s) \in Seq(Nat) /\ Shifted(s)[1] = 0
           /\ Len(Shifted(s)) = Lesser(Len(s), 2 * WinRtts - 1) + 1
           /\ \A i \in 2..Len(Shifted(s)) : Shifted(s)[i] = s[i - 1]
<1> DEFINE k == Lesser(Len(s), 2 * WinRtts - 1)
           sub == SubSeq(s, 1, k)
<1>1. k \in 0..Len(s)
  BY AggregationAssumption DEF AggregationAssumption, Lesser
<1> HIDE DEF k
<1>2. sub \in Seq(Nat) /\ Len(sub) = k /\ \A i \in 1..k : sub[i] = s[i]
  BY <1>1
<1> HIDE DEF sub
<1> DEFINE f == <<0>> \o sub
<1>3. f \in Seq(Nat) /\ Len(f) = k + 1 /\ f[1] = 0
  BY <1>1, <1>2
<1>4. ASSUME NEW i \in 2..(k + 1) PROVE f[i] = s[i - 1]
  <2>1. i - 1 \in 1..k /\ i \in Nat /\ i > 1 /\ i <= 1 + Len(sub)
    BY <1>1, <1>2
  <2>2. f[i] = sub[i - 1]
    BY <1>2, <2>1
  <2> QED BY <1>2, <2>1, <2>2
<1> HIDE DEF f
<1> QED BY <1>3, <1>4 DEF Shifted, f, sub, k

\* What a new round makes of the largest of some rounds that are kept.
LEMMA ShiftLargest ==
    ASSUME NEW s \in Seq(Nat), Len(s) >= 1, NEW v, NEW lo \in Nat, NEW hi \in Nat, lo >= 1,
           hi + 1 <= 2 * WinRtts, Largest(v, s, lo, hi)
    PROVE  Largest(v, Shifted(s), lo + 1, hi + 1)
<1> DEFINE f == Shifted(s)
<1>1. /\ Len(f) = Lesser(Len(s), 2 * WinRtts - 1) + 1
      /\ \A i \in 2..Len(f) : f[i] = s[i - 1]
      /\ v \in Nat /\ \A i \in 1..Len(s) : lo <= i /\ i <= hi => s[i] <= v
      /\ v = 0 \/ \E i \in 1..Len(s) : lo <= i /\ i <= hi /\ s[i] = v
  BY ShiftedIs DEF Largest
<1> HIDE DEF f
<1>2. WinRtts \in Nat \ {0} /\ Len(s) \in Nat /\ Len(f) \in Nat /\ Len(f) - 1 <= Len(s)
  BY <1>1, AggregationAssumption DEF AggregationAssumption, Lesser
<1>3. \A i \in 1..Len(f) : lo + 1 <= i /\ i <= hi + 1 => f[i] <= v
  <2> SUFFICES ASSUME NEW i \in 1..Len(f), lo + 1 <= i, i <= hi + 1 PROVE f[i] <= v
    OBVIOUS
  <2>1. i \in 2..Len(f) /\ i - 1 \in 1..Len(s) /\ lo <= i - 1 /\ i - 1 <= hi
    BY <1>2
  <2> QED BY <1>1, <2>1
<1>4. ASSUME NEW i \in 1..Len(s), lo <= i, i <= hi, s[i] = v
      PROVE  i + 1 \in 1..Len(f) /\ lo + 1 <= i + 1 /\ i + 1 <= hi + 1 /\ f[i + 1] = v
  <2>1. i <= Len(s) /\ i <= 2 * WinRtts - 1 /\ i \in Nat /\ i >= 1
    BY <1>2, <1>4
  <2>2. i + 1 <= Len(f)
    BY <1>1, <1>2, <2>1 DEF Lesser
  <2>3. i + 1 \in 2..Len(f) /\ i + 1 - 1 = i
    BY <1>2, <2>1, <2>2
  <2>4. f[i + 1] = s[i + 1 - 1]
    BY <1>1, <2>3
  <2>5. i + 1 \in 1..Len(f) /\ lo + 1 <= i + 1 /\ i + 1 <= hi + 1
    BY <1>2, <1>4, <2>1, <2>2
  <2>6. f[i + 1] = v
    BY <1>4, <2>3, <2>4
  <2> QED BY <2>5, <2>6
<1>5. v = 0 \/ \E i \in 1..Len(f) : lo + 1 <= i /\ i <= hi + 1 /\ f[i] = v
  BY <1>1, <1>4
<1> QED BY <1>1, <1>3, <1>5 DEF Largest, f

\* What a sample of the current round makes of the largest since it, or before it.
LEMMA SampleLargest ==
    ASSUME NEW s \in Seq(Nat), Len(s) >= 1, NEW v, NEW x \in Nat, NEW lo \in Nat, NEW hi \in Nat,
           Largest(v, s, lo, hi)
    PROVE  LET f == [s EXCEPT ![1] = Greater(@, x)]
           IN  /\ f \in Seq(Nat) /\ Len(f) = Len(s)
               /\ lo <= 1 /\ hi >= 1 => Largest(Greater(v, x), f, lo, hi)
               /\ lo > 1 => Largest(v, f, lo, hi)
<1> DEFINE f == [s EXCEPT ![1] = Greater(@, x)]
<1>0. 1 \in DOMAIN s /\ DOMAIN s = 1..Len(s) /\ \A i \in 1..Len(s) : s[i] \in Nat
  OBVIOUS
<1>1. /\ Len(f) = Len(s) /\ f[1] = Greater(s[1], x)
      /\ \A i \in 2..Len(s) : f[i] = s[i]
      /\ \A i \in 1..Len(s) : s[i] \in Nat
      /\ f \in Seq(Nat)
  <2>1. f[1] = Greater(s[1], x)
    BY <1>0
  <2>2. \A i \in DOMAIN s : i /= 1 => f[i] = s[i]
    OBVIOUS
  <2>3. \A i \in 2..Len(s) : i \in DOMAIN s /\ i /= 1
    BY <1>0
  <2>4. Greater(s[1], x) \in Nat
    BY <1>0 DEF Greater
  <2>5. Len(f) = Len(s) /\ f \in Seq(Nat)
    BY <2>4
  <2> QED BY <1>0, <2>1, <2>2, <2>3, <2>5
<1> HIDE DEF f
<1>2. /\ v \in Nat /\ Len(s) \in Nat /\ \A i \in 1..Len(s) : lo <= i /\ i <= hi => s[i] <= v
      /\ v = 0 \/ \E i \in 1..Len(s) : lo <= i /\ i <= hi /\ s[i] = v
  BY DEF Largest
<1>3. ASSUME lo > 1 PROVE Largest(v, f, lo, hi)
  <2>1. \A i \in 1..Len(s) : lo <= i => i \in 2..Len(s)
    BY <1>2, <1>3
  <2> QED BY <1>1, <1>2, <2>1 DEF Largest
<1>4. ASSUME lo <= 1, hi >= 1 PROVE Largest(Greater(v, x), f, lo, hi)
  <2> DEFINE g == Greater(v, x)
  <2>1. g \in Nat /\ g >= v /\ g >= x /\ (g = v \/ g = x)
    BY <1>2 DEF Greater
  <2>2. s[1] <= v /\ s[1] \in Nat /\ 1 \in 1..Len(s)
    BY <1>1, <1>2, <1>4
  <2>3. f[1] \in Nat /\ f[1] <= g /\ (x >= v => f[1] = x) /\ (s[1] = v /\ v >= x => f[1] = v)
    BY <1>1, <1>2, <2>1, <2>2 DEF Greater
  <2>4. \A i \in 1..Len(s) : lo <= i /\ i <= hi => f[i] <= g
    <3> SUFFICES ASSUME NEW i \in 1..Len(s), lo <= i, i <= hi PROVE f[i] <= g
      OBVIOUS
    <3>1. CASE i = 1
      BY <2>3, <3>1
    <3>2. CASE i /= 1
      <4>1. i \in 2..Len(s) /\ s[i] <= v /\ s[i] \in Nat
        BY <1>1, <1>2, <3>2
      <4>2. f[i] = s[i]
        BY <1>1, <4>1
      <4> HIDE DEF g
      <4> QED BY <1>2, <2>1, <4>1, <4>2
    <3> QED BY <3>1, <3>2
  <2>5. g = 0 \/ \E i \in 1..Len(s) : lo <= i /\ i <= hi /\ f[i] = g
    <3>1. CASE x >= v
      <4>1. g = x
        BY <1>2, <2>1, <3>1
      <4> QED BY <1>4, <2>2, <2>3, <3>1, <4>1
    <3>2. CASE ~(x >= v)
      <4>1. g = v /\ v >= x /\ v /= 0
        BY <1>2, <2>1, <3>2
      <4>2. PICK i \in 1..Len(s) : lo <= i /\ i <= hi /\ s[i] = v
        BY <1>2, <4>1
      <4>3. f[i] = v
        <5>1. CASE i = 1
          BY <2>3, <4>1, <4>2, <5>1
        <5>2. CASE i /= 1
          BY <1>1, <1>2, <4>2, <5>2
        <5> QED BY <5>1, <5>2
      <4> QED BY <4>1, <4>2, <4>3
    <3> QED BY <3>1, <3>2
  <2> HIDE DEF g
  <2>6. Largest(g, f, lo, hi)
    BY <1>1, <2>1, <2>4, <2>5 DEF Largest
  <2> QED BY <2>6 DEF g
<1> QED BY <1>1, <1>3, <1>4 DEF f

\* What an ACK adds beyond what is expected is never negative.
LEMMA Extras ==
    ASSUME AggregationTypeOK, NEW acked \in Acked, NEW w \in Windows, NEW e \in expected..MaxExpected
    PROVE  LET over == EpochOver(e, acked)
               total == Lesser(ResetThresh - 1, (IF over THEN 0 ELSE epochAcked) + acked)
               due == IF over THEN 0 ELSE e
           IN  /\ total \in 0..(ResetThresh - 1) /\ due \in 0..MaxExpected
               /\ Lesser(w, total - due) \in Nat
               /\ Excess(total, due, w) = Lesser(w, total - due)
<1> DEFINE over == EpochOver(e, acked)
           total == Lesser(ResetThresh - 1, (IF over THEN 0 ELSE epochAcked) + acked)
           due == IF over THEN 0 ELSE e
<1>1. /\ ResetThresh \in Nat /\ ResetThresh >= 1 /\ MaxExpected \in Nat
      /\ acked \in Nat /\ acked >= 1 /\ w \in Nat /\ w >= 1
      /\ epochAcked \in Nat /\ epochAcked <= ResetThresh - 1 /\ e \in 0..MaxExpected
  BY AggregationAssumption DEF AggregationAssumption, AggregationTypeOK
<1>2. CASE over
  <2>1. total = Lesser(ResetThresh - 1, acked) /\ due = 0
    BY <1>1, <1>2
  <2> HIDE DEF over, total, due
  <2>2. total \in 0..(ResetThresh - 1) /\ due \in 0..MaxExpected /\ total >= due
    BY <1>1, <2>1 DEF Lesser
  <2>3. Lesser(w, total - due) \in Nat /\ Excess(total, due, w) = Lesser(w, total - due)
    BY <1>1, <2>2 DEF Lesser, Excess
  <2> QED BY <2>2, <2>3 DEF over, total, due
<1>3. CASE ~over
  <2>1. total = Lesser(ResetThresh - 1, epochAcked + acked) /\ due = e
    BY <1>1, <1>3
  <2>2. ~(epochAcked <= e) /\ ~(epochAcked + acked >= ResetThresh)
    BY <1>3 DEF EpochOver
  <2> HIDE DEF over, total, due
  <2>3. total \in 0..(ResetThresh - 1) /\ due \in 0..MaxExpected /\ total >= due
    BY <1>1, <2>1, <2>2 DEF Lesser
  <2>4. Lesser(w, total - due) \in Nat /\ Excess(total, due, w) = Lesser(w, total - due)
    BY <1>1, <2>3 DEF Lesser, Excess
  <2> QED BY <2>3, <2>4 DEF over, total, due
<1> QED BY <1>2, <1>3

\* A new round has no sample yet: its largest is nothing,
LEMMA NoSample ==
    ASSUME NEW s, Len(s) \in Nat, Len(s) >= 1, s[1] = 0
    PROVE  Largest(0, s, 1, 1)
<1>1. \A i \in 1..Len(s) : 1 <= i /\ i <= 1 => s[i] <= 0
  OBVIOUS
<1> QED BY <1>1 DEF Largest

\* and the largest of the others is the largest with it.
LEMMA RoundAdded ==
    ASSUME NEW s, Len(s) \in Nat, Len(s) >= 1, s[1] = 0, NEW v, NEW hi, Largest(v, s, 2, hi)
    PROVE  Largest(v, s, 1, hi)
<1>1. \A i \in 1..Len(s) : i = 1 \/ 2 <= i
  OBVIOUS
<1>2. \A i \in 1..Len(s) : 2 <= i => 1 <= i
  OBVIOUS
<1>3. v \in Nat /\ \A i \in 1..Len(s) : 2 <= i /\ i <= hi => s[i] <= v
  BY DEF Largest
<1>4. \A i \in 1..Len(s) : 1 <= i /\ i <= hi => s[i] <= v
  BY <1>1, <1>3
<1>5. v = 0 \/ \E i \in 1..Len(s) : 1 <= i /\ i <= hi /\ s[i] = v
  BY <1>2 DEF Largest
<1> QED BY <1>3, <1>4, <1>5 DEF Largest

LEMMA Bounds ==
    \A n \in Nat : \A r \in 0..(n - 1) : /\ r + 1 \in Nat /\ r + 1 >= 1
                                        /\ r + 2 \in Nat /\ r + 2 > 1 /\ r + 1 + n \in Nat
OBVIOUS

\* A new round shifts the rounds, a turn also swaps the slots and clears one; then the
\* sample is taken.
LEMMA AggregationKeeps == AggregationInv /\ UpdateAckAggregation => AggregationInv'
<1> SUFFICES ASSUME AggregationInv, UpdateAckAggregation PROVE AggregationInv'
  OBVIOUS
<1>1. PICK newRound \in BOOLEAN, acked \in Acked, w \in Windows, e \in expected..MaxExpected :
        UpdateAckAggregation!(newRound, acked, w, e)
  BY Zenon DEF UpdateAckAggregation
<1> DEFINE turn == Turn(newRound)
           index == IF turn THEN 1 - winIdx ELSE winIdx
           over == EpochOver(e, acked)
           total == Lesser(ResetThresh - 1, (IF over THEN 0 ELSE epochAcked) + acked)
           due == IF over THEN 0 ELSE e
           x == Lesser(w, total - due)
           f == IF newRound THEN Shifted(seen) ELSE seen
<1>2. /\ winRtts' = IF turn THEN 0 ELSE IF newRound THEN winRtts + 1 ELSE winRtts
      /\ winIdx' = index
      /\ slots' = [Slots(turn, index) EXCEPT ![index] = Greater(@, Excess(total, due, w))]
      /\ epochAcked' = total
      /\ expected' = due
      /\ seen' = [f EXCEPT ![1] = Greater(@, x)]
  BY <1>1, Zenon DEF Shifted
<1>3. AggregationTypeOK
  BY DEF AggregationInv
<1>4. /\ total \in 0..(ResetThresh - 1) /\ due \in 0..MaxExpected
      /\ x \in Nat /\ Excess(total, due, w) = x
  BY <1>3, Extras
<1> HIDE DEF over, total, due, x
<1> DEFINE r == winRtts
           since == slots[winIdx]
           before == slots[1 - winIdx]
<1>5. /\ WinRtts \in Nat /\ WinRtts >= 1 /\ r \in 0..(WinRtts - 1)
      /\ winIdx \in 0..1 /\ 1 - winIdx \in 0..1 /\ winIdx /= 1 - winIdx /\ 1 - (1 - winIdx) = winIdx
      /\ slots \in [0..1 -> Nat] /\ since \in Nat /\ before \in Nat
      /\ seen \in Seq(Nat) /\ Len(seen) \in Nat /\ Len(seen) >= 1 /\ Len(seen) <= 2 * WinRtts
  BY <1>3, AggregationAssumption DEF AggregationAssumption, AggregationTypeOK, AggregationInv
<1>6. Largest(since, seen, 1, r + 1) /\ Largest(before, seen, r + 2, r + 1 + WinRtts)
  BY DEF AggregationInv
<1>7. f \in Seq(Nat) /\ Len(f) >= 1 /\ Len(f) <= 2 * WinRtts /\ Len(f) \in Nat /\ (newRound => f[1] = 0)
  <2>1. CASE newRound
    <3>1. f = Shifted(seen)
      BY <2>1
    <3>2. f \in Seq(Nat) /\ f[1] = 0 /\ Len(f) = Lesser(Len(seen), 2 * WinRtts - 1) + 1
      BY <1>5, <3>1, ShiftedIs
    <3> HIDE DEF f
    <3>3. Len(f) >= 1 /\ Len(f) <= 2 * WinRtts /\ Len(f) \in Nat
      BY <1>5, <3>2 DEF Lesser
    <3> QED BY <3>2, <3>3
  <2>2. CASE ~newRound
    BY <1>5, <2>2
  <2> QED BY <2>1, <2>2
<1>8. ASSUME NEW v, NEW lo \in Nat, NEW hi \in Nat, lo >= 1, hi + 1 <= 2 * WinRtts, newRound,
             Largest(v, seen, lo, hi), NEW lo2, NEW hi2, lo2 = lo + 1, hi2 = hi + 1
      PROVE  Largest(v, f, lo2, hi2)
  BY <1>5, <1>8, ShiftLargest
<1>9. ASSUME NEW v, NEW lo \in Nat, NEW hi \in Nat, Largest(v, f, lo, hi)
      PROVE  /\ lo <= 1 /\ hi >= 1 => Largest(Greater(v, x), seen', lo, hi)
             /\ lo > 1 => Largest(v, seen', lo, hi)
  BY <1>2, <1>4, <1>7, <1>9, SampleLargest
<1>10. seen' \in Seq(Nat) /\ Len(seen') >= 1 /\ Len(seen') <= 2 * WinRtts
  <2>1. Largest(0, f, 2, 1)
    BY <1>7 DEF Largest
  <2>2. seen' \in Seq(Nat) /\ Len(seen') = Len(f)
    BY <1>2, <1>4, <1>7, <2>1, SampleLargest
  <2> QED BY <1>7, <2>2
<1> HIDE DEF f
<1>11. ASSUME newRound
       PROVE  Largest(0, f, 1, 1) /\ \A v, hi : Largest(v, f, 2, hi) => Largest(v, f, 1, hi)
  <2>1. Len(f) \in Nat /\ Len(f) >= 1 /\ f[1] = 0
    BY <1>7, <1>11, Zenon
  <2>2. Largest(0, f, 1, 1)
    BY <2>1, NoSample, Zenon
  <2>3. ASSUME NEW v, NEW hi, Largest(v, f, 2, hi) PROVE Largest(v, f, 1, hi)
    BY <2>1, <2>3, RoundAdded
  <2> QED BY <2>2, <2>3
<1>12. ASSUME NEW v, NEW hi \in Nat, hi >= 1, Largest(v, f, 1, hi)
       PROVE  Largest(Greater(v, x), seen', 1, hi)
  <2>1. 1 \in Nat /\ 1 <= 1
    OBVIOUS
  <2> QED BY <1>9, <1>12, <2>1, Zenon
<1>13. CASE turn
  <2>1. newRound /\ r + 1 = WinRtts
    BY <1>5, <1>13 DEF Turn
  <2>2. winRtts' = 0 /\ winIdx' = 1 - winIdx /\ slots' = [slots EXCEPT ![1 - winIdx] = Greater(0, x)]
    <3>1. winRtts' = 0 /\ winIdx' = 1 - winIdx
      BY <1>2, <1>13
    <3>2. slots' = [[slots EXCEPT ![1 - winIdx] = 0] EXCEPT ![1 - winIdx] = Greater(@, x)]
      BY <1>2, <1>4, <1>13 DEF Slots
    <3> QED BY <1>5, <3>1, <3>2
  <2>3. Greater(0, x) = x
    BY <1>4 DEF Greater
  <2>4. slots' \in [0..1 -> Nat] /\ slots'[1 - winIdx] = x /\ slots'[winIdx] = since
    BY <1>4, <1>5, <2>2, <2>3
  <2>5. Largest(x, seen', 1, 1)
    <3>1. Largest(0, f, 1, 1)
      BY <1>11, <2>1
    <3>2. 1 \in Nat /\ 1 >= 1
      OBVIOUS
    <3> QED BY <1>12, <2>3, <3>1, <3>2, Zenon
  <2>6. Largest(since, seen', 2, 1 + WinRtts)
    <3>1. /\ 1 \in Nat /\ r + 1 \in Nat /\ 1 >= 1 /\ r + 1 + 1 <= 2 * WinRtts
          /\ 2 = 1 + 1 /\ 1 + WinRtts = r + 1 + 1
          /\ 2 \in Nat /\ 1 + WinRtts \in Nat /\ 2 > 1
      BY <1>5, <2>1
    <3>2. Largest(since, f, 2, 1 + WinRtts)
      BY <1>6, <1>8, <2>1, <3>1, Zenon
    <3> QED BY <1>9, <3>1, <3>2, Zenon
  <2>7. winRtts' + 1 = 1 /\ winRtts' + 2 = 2 /\ winRtts' + 1 + WinRtts = 1 + WinRtts
        /\ winRtts' \in 0..(WinRtts - 1) /\ winIdx' \in 0..1 /\ 1 - winIdx' = winIdx
    BY <1>5, <2>2
  <2> QED BY <1>2, <1>4, <1>10, <2>2, <2>4, <2>5, <2>6, <2>7 DEF AggregationInv, AggregationTypeOK
<1>14. CASE ~turn
  <2>1. /\ winIdx' = winIdx /\ slots' = [slots EXCEPT ![winIdx] = Greater(since, x)]
        /\ winRtts' = IF newRound THEN r + 1 ELSE r
    BY <1>2, <1>4, <1>5, <1>14 DEF Slots
  <2>2. Greater(since, x) \in Nat
    BY <1>4, <1>5 DEF Greater
  <2>3. slots' \in [0..1 -> Nat] /\ slots'[winIdx] = Greater(since, x) /\ slots'[1 - winIdx] = before
    BY <1>5, <2>1, <2>2
  <2>4. /\ winRtts' \in 0..(WinRtts - 1) /\ winIdx' \in 0..1
        /\ Largest(since, f, 1, winRtts' + 1) /\ Largest(before, f, winRtts' + 2, winRtts' + 1 + WinRtts)
    <3>1. CASE newRound
      <4>1. winRtts' = r + 1 /\ r + 2 <= WinRtts
        BY <1>5, <1>14, <2>1, <3>1 DEF Turn
      <4>2. /\ 1 \in Nat /\ r + 1 \in Nat /\ 1 >= 1 /\ r + 1 + 1 <= 2 * WinRtts
            /\ 2 = 1 + 1 /\ winRtts' + 1 = r + 1 + 1
        BY <1>5, <4>1
      <4>3. Largest(since, f, 2, winRtts' + 1)
        BY <1>6, <1>8, <3>1, <4>2, Zenon
      <4>4. Largest(since, f, 1, winRtts' + 1)
        BY <1>11, <3>1, <4>3
      <4>5. /\ r + 2 \in Nat /\ r + 1 + WinRtts \in Nat /\ r + 2 >= 1
            /\ r + 1 + WinRtts + 1 <= 2 * WinRtts
            /\ winRtts' + 2 = r + 2 + 1 /\ winRtts' + 1 + WinRtts = r + 1 + WinRtts + 1
        BY <1>5, <4>1
      <4>6. Largest(before, f, winRtts' + 2, winRtts' + 1 + WinRtts)
        BY <1>6, <1>8, <3>1, <4>5, Zenon
      <4>7. winRtts' \in 0..(WinRtts - 1) /\ winIdx' \in 0..1
        BY <1>5, <2>1, <4>1
      <4> QED BY <4>4, <4>6, <4>7
    <3>2. CASE ~newRound
      BY <1>5, <1>6, <2>1, <3>2 DEF f
    <3> QED BY <3>1, <3>2
  <2>5. Largest(Greater(since, x), seen', 1, winRtts' + 1)
    <3>1. winRtts' \in 0..(WinRtts - 1)
      BY <2>4, Zenon
    <3>2. WinRtts \in Nat
      BY <1>5, Zenon
    <3>3. winRtts' + 1 \in Nat /\ winRtts' + 1 >= 1
      BY <3>1, <3>2, Bounds, Zenon
    <3> QED BY <1>12, <2>4, <3>3, Zenon
  <2>6. Largest(before, seen', winRtts' + 2, winRtts' + 1 + WinRtts)
    <3>1. winRtts' \in 0..(WinRtts - 1)
      BY <2>4, Zenon
    <3>2. WinRtts \in Nat
      BY <1>5, Zenon
    <3>3. winRtts' + 2 \in Nat /\ winRtts' + 2 > 1 /\ winRtts' + 1 + WinRtts \in Nat
      BY <3>1, <3>2, Bounds, Zenon
    <3> QED BY <1>9, <2>4, <3>3, Zenon
  <2> QED BY <1>2, <1>4, <1>10, <2>1, <2>3, <2>4, <2>5, <2>6 DEF AggregationInv, AggregationTypeOK
<1> QED BY <1>13, <1>14

LEMMA InitAggregation == AggregationInit => AggregationInv
<1> SUFFICES ASSUME AggregationInit PROVE AggregationInv
  OBVIOUS
<1>1. /\ WinRtts \in Nat /\ WinRtts >= 1 /\ ResetThresh \in Nat /\ ResetThresh >= 1
      /\ MaxExpected \in Nat
  BY AggregationAssumption DEF AggregationAssumption
<1>2. /\ seen = <<0>> /\ Len(seen) = 1 /\ seen \in Seq(Nat) /\ seen[1] = 0
      /\ slots = [i \in 0..1 |-> 0] /\ winRtts = 0 /\ winIdx = 0
  BY DEF AggregationInit
<1>3. AggregationTypeOK
  BY <1>1, <1>2 DEF AggregationInit, AggregationTypeOK
<1>4. slots[winIdx] = 0 /\ slots[1 - winIdx] = 0 /\ winRtts + 1 = 1 /\ winRtts + 2 = 2
  BY <1>2
<1>5. Largest(0, seen, 1, 1)
  BY <1>2, NoSample
<1>6. Largest(0, seen, 2, winRtts + 1 + WinRtts)
  BY <1>2 DEF Largest
<1> QED BY <1>2, <1>3, <1>4, <1>5, <1>6 DEF AggregationInv

\* Nothing of the last WinRtts rounds is forgotten and nothing else is remembered.
LEMMA SlotsSlide == AggregationInv => SlidingWindow
<1> SUFFICES ASSUME AggregationInv PROVE SlidingWindow
  OBVIOUS
<1> DEFINE since == slots[winIdx]
           before == slots[1 - winIdx]
<1>1. /\ WinRtts \in Nat /\ WinRtts >= 1 /\ winRtts \in 0..(WinRtts - 1)
      /\ seen \in Seq(Nat) /\ Len(seen) \in Nat /\ Len(seen) >= 1 /\ Len(seen) <= 2 * WinRtts
      /\ \A i \in 1..Len(seen) : seen[i] \in Nat
  BY AggregationAssumption DEF AggregationAssumption, AggregationInv, AggregationTypeOK
<1>2. Largest(since, seen, 1, winRtts + 1) /\ Largest(before, seen, winRtts + 2, winRtts + 1 + WinRtts)
  BY DEF AggregationInv
<1>3. /\ since \in Nat /\ before \in Nat
      /\ \A i \in 1..Len(seen) : i <= winRtts + 1 => seen[i] <= since
      /\ \A i \in 1..Len(seen) :
           winRtts + 2 <= i /\ i <= winRtts + 1 + WinRtts => seen[i] <= before
      /\ since = 0 \/ \E i \in 1..Len(seen) : seen[i] = since
      /\ before = 0 \/ \E i \in 1..Len(seen) : seen[i] = before
  BY <1>2 DEF Largest
<1>4. /\ BbrExtraAcked \in Nat /\ BbrExtraAcked >= since /\ BbrExtraAcked >= before
      /\ BbrExtraAcked = since \/ BbrExtraAcked = before
  <2>1. slots[0] \in Nat /\ slots[1] \in Nat /\ winIdx \in {0, 1}
    BY DEF AggregationInv, AggregationTypeOK
  <2>2. CASE winIdx = 0
    BY <2>1, <2>2 DEF BbrExtraAcked, Greater
  <2>3. CASE winIdx = 1
    BY <2>1, <2>3 DEF BbrExtraAcked, Greater
  <2> QED BY <2>1, <2>2, <2>3
<1> HIDE DEF since, before
<1>5. BbrExtraAcked >= MaxOf(WinRtts)
  <2> DEFINE n == Lesser(WinRtts, Len(seen))
             S == {seen[i] : i \in 1..n}
  <2>1. n \in Nat /\ n >= 1 /\ n <= WinRtts /\ n <= Len(seen)
    BY <1>1 DEF Lesser
  <2> HIDE DEF n
  <2>2. \A i \in 1..n : seen[i] \in Nat
    BY <1>1, <2>1
  <2>3. Max(S) \in S
    BY <2>1, <2>2, MaxExists
  <2>4. PICK i \in 1..n : Max(S) = seen[i]
    BY <2>3
  <2>5. i \in 1..Len(seen) /\ i <= WinRtts /\ i \in Nat
    BY <1>1, <2>1
  <2>6. CASE i <= winRtts + 1
    <3>1. seen[i] <= since /\ seen[i] \in Nat
      BY <1>1, <1>3, <2>5, <2>6
    <3>2. BbrExtraAcked >= seen[i]
      BY <1>3, <1>4, <3>1
    <3> QED BY <2>4, <3>2 DEF n, MaxOf
  <2>7. CASE ~(i <= winRtts + 1)
    <3>1. winRtts + 2 <= i /\ i <= winRtts + 1 + WinRtts
      BY <1>1, <2>5, <2>7
    <3>2. seen[i] <= before /\ seen[i] \in Nat
      BY <1>1, <1>3, <2>5, <3>1
    <3>3. BbrExtraAcked >= seen[i]
      BY <1>3, <1>4, <3>2
    <3> QED BY <2>4, <3>3 DEF n, MaxOf
  <2> QED BY <2>6, <2>7
<1>6. BbrExtraAcked <= MaxOf(2 * WinRtts)
  <2> DEFINE n == Lesser(2 * WinRtts, Len(seen))
             S == {seen[i] : i \in 1..n}
  <2>1. n = Len(seen)
    BY <1>1 DEF Lesser
  <2> HIDE DEF n
  <2>2. \A y \in S : y <= Max(S)
    BY <1>1, <2>1, MaxExists
  <2>3. Max(S) \in S
    BY <1>1, <2>1, MaxExists
  <2>4. Max(S) \in Nat
    BY <1>1, <2>1, <2>3
  <2>5. BbrExtraAcked = 0 \/ \E i \in 1..n : seen[i] = BbrExtraAcked
    BY <1>3, <1>4, <2>1
  <2>6. BbrExtraAcked <= Max(S)
    BY <2>2, <2>4, <2>5
  <2> QED BY <2>6 DEF n, MaxOf
<1> QED BY <1>5, <1>6 DEF SlidingWindow

LEMMA StepAggregation == AggregationInv /\ [UpdateAckAggregation]_aggregationVars => AggregationInv'
<1>1. AggregationInv /\ UNCHANGED aggregationVars => AggregationInv'
  BY Zenon DEF aggregationVars, AggregationInv, AggregationTypeOK
<1> QED BY <1>1, AggregationKeeps

THEOREM AggregationInductive == AggregationSpec => []AggregationInv
<1> QED BY InitAggregation, StepAggregation, PTL DEF AggregationSpec

\* The two slots of the ack aggregation are the sliding maximum of the surplus that the
\* comment of tcp-bbr.cc:477 promises, however many rounds a slot lasts.
THEOREM SlotsCorrect == AggregationSpec => []SlidingWindow
<1> QED BY AggregationInductive, SlotsSlide, PTL

-----------------------------------------------------------------------------
(***************************************************************************)
(* The three models side by side                                           *)
(***************************************************************************)

LEMMA PartsInductive == PartsSpec => [](IInv /\ LongTermInv /\ AggregationInv)
<1>1. PartsInit => IInv /\ LongTermInv /\ AggregationInv
  BY InitKeeps, InitLongTermInv, InitAggregation DEF PartsInit
<1>2. IInv /\ LongTermInv /\ AggregationInv
      /\ [PartsNext]_<<part, vars, longTermVars, aggregationVars>>
      => (IInv /\ LongTermInv /\ AggregationInv)'
  <2> SUFFICES ASSUME IInv, LongTermInv, AggregationInv,
                      [PartsNext]_<<part, vars, longTermVars, aggregationVars>>
               PROVE  (IInv /\ LongTermInv /\ AggregationInv)'
    OBVIOUS
  <2>1. [Next]_vars /\ [LongTermNext]_longTermVars /\ [UpdateAckAggregation]_aggregationVars
    <3>1. CASE PartsNext
      <4>1. CASE Next /\ UNCHANGED <<longTermVars, aggregationVars>>
        BY <4>1
      <4>2. CASE LongTermNext /\ UNCHANGED <<vars, aggregationVars>>
        BY <4>2
      <4>3. CASE UpdateAckAggregation /\ UNCHANGED <<vars, longTermVars>>
        BY <4>3
      <4> QED BY <3>1, <4>1, <4>2, <4>3 DEF PartsNext
    <3>2. CASE UNCHANGED <<part, vars, longTermVars, aggregationVars>>
      BY <3>2
    <3> QED BY <3>1, <3>2
  <2>2. IInv'
    BY <2>1, Inductive
  <2>3. LongTermInv'
    BY <2>1, StepLongTermInv
  <2>4. AggregationInv'
    BY <2>1, StepAggregation
  <2> QED BY <2>2, <2>3, <2>4
<1> QED BY <1>1, <1>2, PTL DEF PartsSpec

\* The variables of the three models have their types.
THEOREM PartsTypeCorrect == PartsSpec => []PartsTypeOK
<1>1. IInv /\ LongTermInv /\ AggregationInv => PartsTypeOK
  BY DEF IInv, LongTermInv, LongTermSound, AggregationInv, PartsTypeOK, LongTermTypeOK
<1> QED BY <1>1, PartsInductive, PTL
=============================================================================
