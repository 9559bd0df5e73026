------------------------------ MODULE BbrModes ------------------------------
(***************************************************************************)
(* TcpBbr, driven by TcpSocketBase: the mode machine, the window saved and *)
(* restored around loss recovery and PROBE_RTT, packet-timed rounds, the   *)
(* detection of a full pipe and the gain cycle.                            *)
(*                                                                         *)
(* Everything is counted in segments.  A packet in flight is fresh when it *)
(* was sent after m_nextRttDelivered was last set, so that its delivery    *)
(* ends the round, and old otherwise.  Clocks are ages that saturate.  The *)
(* bandwidth is in segments per min_rtt, so that a BDP is a gain times a   *)
(* bandwidth; what the max filter and the long-term estimate hold is       *)
(* chosen among Bandwidths (WindowedFilter and BbrLongTerm model them).    *)
(***************************************************************************)
EXTENDS Integers

CONSTANTS
    MinCwnd,            \* kMinCWndSegment
    InitCwnd,           \* m_initialCWnd
    HighGain,           \* the HighGain attribute
    CycleLength,        \* kGainCycleLength
    DefaultSsThresh,    \* the 65535 of GetSsThresh
    Bandwidths,         \* the bandwidths estimated
    ExtraAcked,         \* what AckAggregationCongestionWindow may return
    PriorDelivered,     \* the values of rs.m_priorDelivered
    RttLowers,          \* whether an RTT sample may be below m_minRtt
    MaxAcked,           \* bound: the segments one ACK delivers
    MaxMarked,          \* bound: the segments one ACK marks as lost
    Expiry,             \* kMinRttExpiry
    ProbeTime,          \* kProbeRttTime
    MaxLosses,          \* bound: the recoveries and timeouts of a nested path
    Paths               \* bound: the kinds of path, of AllPaths

\* Each path adds one thing to a clean one, to keep the instances small: several losses,
\* one and ACKs that mark more segments as lost, samples that are not plain, or one
\* loss and a policer.
AllPaths == {"nested", "marked", "sampled", "policed"}

ASSUME BbrAssumption ==
    /\ MinCwnd \in Nat \ {0}
    /\ InitCwnd \in Nat /\ InitCwnd >= MinCwnd
    /\ HighGain \in Nat /\ HighGain > 1
    /\ CycleLength \in Nat /\ CycleLength > 2
    /\ DefaultSsThresh \in Nat /\ DefaultSsThresh > 0
    /\ Bandwidths \subseteq Nat \ {0}
    /\ ExtraAcked \subseteq Nat
    /\ PriorDelivered \subseteq Nat
    /\ RttLowers \subseteq BOOLEAN
    /\ MaxAcked \in Nat
    /\ MaxMarked \in Nat
    /\ Expiry \in Nat
    /\ ProbeTime \in Nat
    /\ MaxLosses \in Nat
    /\ Paths \subseteq AllPaths

VARIABLES
    congState, cWnd, ssThresh,                  \* TcpSocketState
    old, fresh,                                 \* packets in flight
    freshDelivered,     \* rs.m_priorDelivered >= m_nextRttDelivered
    delivered,          \* rc.m_delivered, up to InitCwnd
    bw,                 \* m_maxBwFilter.GetBest()
    mode, prevCongState, packetConservation, priorCwnd,
    fullBandwidth, fullBandwidthCount, fullBandwidthReached,
    cycleIndex, pacing, ltUse,
    minRttAge,          \* the time since m_minRttStamp
    probeAge,           \* the time since the probe was timed, or Unstamped
    probeRttRoundDone,
    losses,             \* history: recoveries entered and timeouts
    held,               \* history: the window when it was first cut
    echoed,             \* history: the timed probe has seen a fresh packet
    rounds,             \* history: rounds since the last timeout
    path                \* the kind of path

socket == <<congState, cWnd, ssThresh>>
pipe == <<old, fresh, freshDelivered, delivered>>
model == <<bw, fullBandwidth, fullBandwidthCount, fullBandwidthReached>>
saved == <<prevCongState, packetConservation, priorCwnd>>
cycle == <<mode, cycleIndex, pacing, ltUse>>
probe == <<minRttAge, probeAge, probeRttRoundDone>>
history == <<losses, held, echoed, rounds, path>>
vars == <<socket, pipe, model, saved, cycle, probe, history>>

CongStates == {"OPEN", "RECOVERY", "LOSS"}
Modes == {"STARTUP", "DRAIN", "PROBE_BW", "PROBE_RTT"}
Pacings == {"up", "down", "cruise"}     \* m_pacingGain above, below, at 1.0
Unset == 0                              \* m_ssThresh is UINT32_MAX
Unstamped == -1                         \* m_probeRttDoneStamp is zero

TypeOK ==
    /\ congState \in CongStates
    /\ cWnd \in Nat \ {0}
    /\ ssThresh \in Nat
    /\ old \in Nat /\ fresh \in Nat
    /\ freshDelivered \in BOOLEAN
    /\ delivered \in 0..InitCwnd
    /\ bw \in Bandwidths
    /\ mode \in Modes
    /\ prevCongState \in CongStates
    /\ packetConservation \in BOOLEAN
    /\ priorCwnd \in Nat
    /\ fullBandwidth \in Bandwidths \cup {0}
    /\ fullBandwidthCount \in 0..3
    /\ fullBandwidthReached \in BOOLEAN
    /\ cycleIndex \in 0..(CycleLength - 1)
    /\ pacing \in Pacings
    /\ ltUse \in BOOLEAN
    /\ minRttAge \in 0..(Expiry + 1)
    /\ probeAge \in Unstamped..(ProbeTime + 1)
    /\ probeRttRoundDone \in BOOLEAN
    /\ losses \in 0..MaxLosses
    /\ held \in Nat
    /\ echoed \in BOOLEAN
    /\ rounds \in 0..4
    /\ path \in Paths

-----------------------------------------------------------------------------
Larger(a, b) == IF a >= b THEN a ELSE b
Smaller(a, b) == IF a <= b THEN a ELSE b
Apart(a, b) == IF a >= b THEN a - b ELSE b - a

\* The kinds of rate sample, and whether the long-term estimate may be in use.
Samples == IF path = "sampled" THEN {"valid", "limited", "invalid"} ELSE {"valid"}
Policed == IF path = "policed" THEN BOOLEAN ELSE {FALSE}

\* The segments one ACK may mark as lost, and the recoveries and timeouts.
Marked == IF path = "marked" THEN MaxMarked ELSE 0
Losses == CASE path = "nested" -> MaxLosses
            [] path \in {"marked", "policed"} -> Smaller(1, MaxLosses)
            [] path = "sampled" -> 0

\* BbrBdp: num/den is the gain.
Bdp(b, num, den) == Larger(MinCwnd, (b * num) \div den)

\* QuantizationBudget.
Quantize(w, m, index) ==
    2 * ((w + 1) \div 2) + (IF m = "PROBE_BW" /\ index = 0 THEN 2 ELSE 0)

\* BbrInflight.
Inflight(b, num, den, m, index) == Quantize(Bdp(b, num, den), m, index)

\* (mutant: the window is saved whatever the state)
SaveAlways(prev, m, prior, w) == w

\* SaveCongestionWindow.
SaveCongestionWindow(prev, m, prior, w) ==
    IF prev = "OPEN" /\ m /= "PROBE_RTT" THEN w ELSE Larger(prior, w)

\* GetSsThresh, but for the window it saves.
GetSsThresh(ss) == IF ss = Unset THEN DefaultSsThresh ELSE ss

\* ResetProbeBandwidthMode: bbr_rand is one less than the length of the cycle,
\* and the index drawn is advanced once.
RestartIndexes ==
    {((CycleLength - 1 - v) + 1) % CycleLength : v \in 0..(CycleLength - 2)}

\* The gain of UpdateGains, of STARTUP as well as of the first phase above 1.0.
UpdateGains(m, index, lt) ==
    CASE m = "STARTUP" -> "up"
      [] m = "DRAIN" -> "down"
      [] m = "PROBE_RTT" -> "cruise"
      [] m = "PROBE_BW" -> IF lt \/ index > 1 THEN "cruise"
                           ELSE IF index = 0 THEN "up" ELSE "down"

-----------------------------------------------------------------------------
\* LongTermBandwidthSampling: the values m_ltUseBandwidth may have after it.
LongTermBandwidthSampling(newRound) ==
    IF ltUse THEN {TRUE} \cup (IF mode = "PROBE_BW" /\ newRound THEN {FALSE} ELSE {})
             ELSE Policed

\* IsNextCyclePhase: rs.m_priorDelivered is taken for the packets in flight.
IsNextCyclePhase(gain, elapsed, loss, priorDelivered, b, index) ==
    CASE gain = "cruise" -> elapsed
      [] gain = "up" -> /\ elapsed
                        /\ \/ loss > 0
                           \/ priorDelivered >= Inflight(b, 5, 4, mode, index)
      [] gain = "down" -> \/ elapsed
                          \/ priorDelivered <= Inflight(b, 1, 1, mode, index)

\* (mutant: off by one)
FullBandwidthCountShort == 2

\* bbr_full_bw_cnt
FullBandwidthCount == 3

\* (mutant: rounds are counted on after the verdict, which their 2 bits cannot hold)
CountAfterVerdict(newRound, limited, b) ==
    IF ~newRound \/ limited
    THEN [target |-> fullBandwidth, count |-> fullBandwidthCount,
          reached |-> fullBandwidthReached]
    ELSE IF 4 * b >= 5 * fullBandwidth
    THEN [target |-> b, count |-> 0, reached |-> fullBandwidthReached]
    ELSE [target |-> fullBandwidth, count |-> fullBandwidthCount + 1,
          reached |-> fullBandwidthReached \/ fullBandwidthCount + 1 >= FullBandwidthCount]

\* CheckFullBandwidthReached: m_fullBandwidth, its count and the verdict.
CheckFullBandwidthReached(newRound, limited, b) ==
    IF fullBandwidthReached \/ ~newRound \/ limited
    THEN [target |-> fullBandwidth, count |-> fullBandwidthCount,
          reached |-> fullBandwidthReached]
    ELSE IF 4 * b >= 5 * fullBandwidth
    THEN [target |-> b, count |-> 0, reached |-> FALSE]
    ELSE [target |-> fullBandwidth, count |-> fullBandwidthCount + 1,
          reached |-> fullBandwidthCount + 1 >= FullBandwidthCount]

\* CheckDrain, but for m_ssThresh: the mode after it.
CheckDrain(full, inflight, b) ==
    LET draining == mode = "DRAIN" \/ (mode = "STARTUP" /\ full)
    IN  IF draining /\ inflight <= Inflight(b, 1, 1, "DRAIN", cycleIndex)
        THEN "PROBE_BW"
        ELSE IF draining THEN "DRAIN" ELSE mode

\* (mutant: the probe is timed anew on every ACK)
StampsAgain(m, inflight) == m = "PROBE_RTT" /\ inflight <= MinCwnd

\* UpdateMinRtt in PROBE_RTT: whether the probe is timed from this ACK on, and
\* whether it was before; m is the mode once the expiry was looked at.
Stamps(m, inflight) == /\ m = "PROBE_RTT"
                       /\ mode /= "PROBE_RTT" \/ probeAge = Unstamped
                       /\ inflight <= MinCwnd

Timed(m) == m = "PROBE_RTT" /\ mode = "PROBE_RTT" /\ probeAge /= Unstamped

\* (mutant: the flag of the last probe is kept)
RoundDoneKept(stamps, timed, newRound) ==
    probeRttRoundDone \/ (timed /\ newRound)

\* m_probeRttRoundDone.
RoundDone(stamps, timed, newRound) ==
    ~stamps /\ (probeRttRoundDone \/ (timed /\ newRound))

\* (mutant: a probe always returns to the gain cycle)
ResetToProbeBw(full) == "PROBE_BW"

\* ResetMode.
ResetMode(full) == IF full THEN "PROBE_BW" ELSE "STARTUP"

\* SetCongestionWindowRecoveryOrRestore: what it leaves in *new_cwnd before
\* packet conservation; w is m_cWnd, prior is m_priorCwnd.
RecoveryOrRestore(w, state, inflight, acked, loss, prior) ==
    LET cut == IF loss > 0 THEN Larger(MinCwnd, w - loss) ELSE w
    IN  IF state = "RECOVERY" /\ prevCongState /= "RECOVERY" THEN inflight + acked
        ELSE IF prevCongState /= "OPEN" /\ state = "OPEN" THEN Larger(cut, prior)
        ELSE cut

\* The target_cwnd of SetCongestionWindow in mode m.
Target(b, extra, m, index, full) ==
    LET gain == CASE m \in {"STARTUP", "DRAIN"} -> HighGain
                  [] m = "PROBE_BW" -> 2
                  [] m = "PROBE_RTT" -> 1
    IN  Quantize(Bdp(b, gain, 1) + (IF full THEN extra ELSE 0), m, index)

\* SetCongestionWindow once *new_cwnd is n: slow start towards the target.
SlowStart(n, acked, target, full, total) ==
    Larger(MinCwnd,
           IF full THEN Smaller(n + acked, target)
           ELSE IF n < target \/ total < InitCwnd THEN n + acked ELSE n)

\* (mutant: the cap is skipped while packets are conserved)
CapUnlessConserving(m, w, conserving, n) ==
    IF m = "PROBE_RTT" /\ ~conserving THEN Smaller(w, MinCwnd) ELSE n

\* The end of SetCongestionWindow.
ProbeRttCap(m, w, conserving, n) ==
    IF m = "PROBE_RTT" THEN Smaller(w, MinCwnd) ELSE n

\* SetCongestionWindow in mode m, once *new_cwnd is n; w is m_cWnd.
SetCongestionWindow(w, m, inflight, acked, conserving, n, target, full) ==
    ProbeRttCap(m, w, conserving,
        IF acked = 0 THEN w
        ELSE IF conserving THEN Larger(n, inflight + acked)
        ELSE SlowStart(n, acked, target, full, Smaller(delivered + acked, InitCwnd)))

-----------------------------------------------------------------------------
Init ==
    /\ congState = "OPEN" /\ cWnd = InitCwnd /\ ssThresh = Unset
    /\ old = 0 /\ fresh = 0 /\ freshDelivered = FALSE /\ delivered = 0
    /\ bw \in Bandwidths
    /\ mode = "STARTUP" /\ prevCongState = "OPEN"
    /\ packetConservation = FALSE /\ priorCwnd = 0
    /\ fullBandwidth = 0 /\ fullBandwidthCount = 0 /\ fullBandwidthReached = FALSE
    /\ cycleIndex = 0 /\ pacing = "up" /\ ltUse = FALSE
    /\ minRttAge = 0 /\ probeAge = Unstamped /\ probeRttRoundDone = FALSE
    /\ losses = 0 /\ held = 0 /\ echoed = FALSE /\ rounds = 0 /\ path \in Paths

\* The window is cut: by PROBE_RTT, or by a recovery BBR has not seen end.
Cut == mode = "PROBE_RTT" \/ prevCongState /= "OPEN"

\* History: the window in force when it began to be cut.
Hold == /\ held' = IF ~Cut' THEN 0 ELSE IF Cut THEN held ELSE cWnd
        /\ UNCHANGED path

\* SendPendingData: the application always has data, and a segment sent now
\* carries the current m_delivered.
Send ==
    /\ old + fresh < cWnd
    /\ fresh' = fresh + 1
    /\ UNCHANGED <<socket, old, freshDelivered, delivered, model, saved, cycle,
                   probe, history>>

\* Simulator time, as far as UpdateMinRtt looks at it.
Tick ==
    /\ \/ minRttAge <= Expiry
       \/ mode = "PROBE_RTT" /\ probeAge \in 0..ProbeTime
    /\ minRttAge' = Smaller(minRttAge + 1, Expiry + 1)
    /\ probeAge' = IF mode = "PROBE_RTT" /\ probeAge \in 0..ProbeTime
                   THEN probeAge + 1 ELSE probeAge
    /\ UNCHANGED <<socket, pipe, model, saved, cycle, probeRttRoundDone, history>>

\* ReTxTimeout: CongestionStateSet(CA_LOSS) and the segment sent at the end.
ReTxTimeout ==
    /\ old + fresh > 0 \/ congState /= "OPEN"
    /\ losses < Losses
    /\ \E resent \in BOOLEAN :       \* IsHeadRetransmitted
        IF congState = "LOSS" /\ resent
        THEN UNCHANGED <<ssThresh, priorCwnd>>
        ELSE /\ ssThresh' = GetSsThresh(ssThresh)
             /\ priorCwnd' = SaveCongestionWindow(prevCongState, mode, priorCwnd, cWnd)
    /\ congState' = "LOSS" /\ prevCongState' = "LOSS"
    /\ cWnd' = 1
    /\ fullBandwidth' = 0
    /\ \E lt \in LongTermBandwidthSampling(TRUE) :
        /\ ltUse' = lt
        /\ cycleIndex' \in IF ltUse /\ ~lt THEN RestartIndexes ELSE {cycleIndex}
        /\ pacing' = IF lt /\ ~ltUse THEN "cruise" ELSE pacing
    /\ old' = 0 /\ fresh' = 1
    /\ losses' = losses + 1 /\ rounds' = 0
    /\ UNCHANGED <<freshDelivered, delivered, bw, fullBandwidthCount,
                   fullBandwidthReached, packetConservation, mode, probe, echoed>>
    /\ Hold

-----------------------------------------------------------------------------
\* What one ACK brings: of the packets in flight, those it delivers and those it
\* marks as lost, what m_bytesLoss is (the difference that ReceivedAck takes
\* between segments marked and segments repaired), whether it enters or ends a
\* recovery, and the sample.
Part(n) == [old : 0..n, fresh : 0..n]

Total(p) == p.old + p.fresh

Delivers(d, lost) ==
    /\ d.old + lost.old <= old /\ d.fresh + lost.fresh <= fresh
    /\ Total(d) <= MaxAcked /\ Total(lost) <= Marked
    /\ Total(d) = 0 => Total(lost) = 0

BytesLoss(acked, marked) ==
    {Apart(marked, repaired) : repaired \in 0..Smaller(acked, Marked)}

CongStateAfter(acked) ==
    {congState}
    \cup (IF acked > 0 /\ congState = "OPEN" /\ losses < Losses
          THEN {"RECOVERY"} ELSE {})
    \cup (IF acked > 0 THEN {"OPEN"} ELSE {})

\* The best bandwidth after a valid sample: one limited by the application may
\* only raise it.
UpdateBandwidth(sample) ==
    CASE sample = "invalid" -> {bw}
      [] sample = "limited" -> {b \in Bandwidths : b >= bw}
      [] sample = "valid" -> Bandwidths

\* UpdateRound.
NewRound(d, sample) ==
    sample /= "invalid" /\ Total(d) > 0 /\ (freshDelivered \/ d.fresh > 0)

\* What an ACK may measure: the bandwidth, whether the long-term estimate is in use,
\* whether the phase has lasted a minimum RTT, what is taken for the packets in
\* flight, and whether the RTT is a new minimum.
Measurements(d, sample) ==
    [bw : UpdateBandwidth(sample),
     lt : IF sample = "invalid" THEN {ltUse}
          ELSE LongTermBandwidthSampling(NewRound(d, sample)),
     elapsed : IF mode = "PROBE_BW" THEN BOOLEAN ELSE {FALSE},
     priorDelivered : PriorDelivered, lower : RttLowers]

\* UpdateModel, then SetCongestionWindow, when e is measured.
UpdateModelAndWindow(state, w, ss, prior, d, lost, resent, loss, sample, e) ==
    LET acked == Total(d)
        inflight == old + fresh - acked - Total(lost)
        newRound == NewRound(d, sample)
        expired == minRttAge > Expiry
        begins == acked > 0 /\ state = "RECOVERY" /\ prevCongState /= "RECOVERY"
        ends == acked > 0 /\ state = "OPEN" /\ prevCongState /= "OPEN"
        conserving == begins \/ (~ends /\ packetConservation /\ ~newRound)
        gain == IF e.lt /\ ~ltUse THEN "cruise" ELSE pacing
        advances == /\ mode = "PROBE_BW"
                    /\ IsNextCyclePhase(gain, e.elapsed, loss, e.priorDelivered, e.bw,
                                        cycleIndex)
        full == CheckFullBandwidthReached(newRound, sample = "limited", e.bw)
        drained == CheckDrain(full.reached, inflight, e.bw)
        now == IF expired THEN "PROBE_RTT" ELSE drained
        stamps == Stamps(now, inflight)
        round == RoundDone(stamps, Timed(now), newRound)
        done == Timed(now) /\ round /\ probeAge > ProbeTime
        after == IF done THEN ResetMode(full.reached) ELSE now
        prior2 == IF now = "PROBE_RTT" /\ mode /= "PROBE_RTT"
                  THEN SaveCongestionWindow(prevCongState, now, prior, w) ELSE prior
        w2 == IF done THEN Larger(w, prior2) ELSE w
        restarts == \/ ltUse /\ ~e.lt
                    \/ drained = "PROBE_BW" /\ mode /= "PROBE_BW"
                    \/ done /\ after = "PROBE_BW"
        marks == newRound \/ stamps \/ begins
    IN
    /\ ltUse /\ ~e.lt => ~e.elapsed        \* the phase has just begun
    /\ bw' = e.bw /\ ltUse' = e.lt
    /\ fullBandwidth' = full.target
    /\ fullBandwidthCount' = full.count
    /\ fullBandwidthReached' = full.reached
    /\ ssThresh' = IF mode = "STARTUP" /\ full.reached
                   THEN Inflight(e.bw, 1, 1, "DRAIN", cycleIndex) ELSE ss
    /\ minRttAge' = IF expired \/ e.lower \/ done THEN 0 ELSE minRttAge
    /\ probeAge' = IF stamps THEN 0
                   ELSE IF now = "PROBE_RTT" /\ mode /= "PROBE_RTT" THEN Unstamped
                   ELSE probeAge
    /\ probeRttRoundDone' = round
    /\ mode' = after
    /\ priorCwnd' = prior2
    /\ congState' = state
    /\ prevCongState' = IF acked > 0 THEN state ELSE prevCongState
    /\ packetConservation' = conserving
    /\ delivered' = Smaller(delivered + acked, InitCwnd)
    /\ cycleIndex' \in IF restarts THEN RestartIndexes
                       ELSE {IF advances THEN (cycleIndex + 1) % CycleLength ELSE cycleIndex}
    /\ pacing' = UpdateGains(after, cycleIndex', e.lt)
    /\ \E used \in IF e.lt THEN Bandwidths ELSE {e.bw},
          extra \in IF full.reached THEN ExtraAcked ELSE {0} :
        cWnd' = SetCongestionWindow(w2, after, inflight, acked, conserving,
                    RecoveryOrRestore(w2, state, inflight, acked, loss, prior2),
                    Target(used, extra, after, cycleIndex', full.reached), full.reached)
    /\ \E late \in IF stamps /\ acked = 0 THEN 0..fresh ELSE {0} :
        \* sent since the last delivery: they carry this m_delivered already
        /\ old' = IF marks THEN inflight - late ELSE old - d.old - lost.old
        /\ fresh' = resent + (IF marks THEN late ELSE fresh - d.fresh - lost.fresh)
    /\ freshDelivered' = (~marks /\ (freshDelivered \/ d.fresh > 0))
    /\ echoed' = (~stamps /\ (echoed \/ (Timed(now) /\ d.fresh > 0)))
    /\ rounds' = IF newRound THEN Smaller(rounds + 1, 4) ELSE rounds
    /\ Hold

\* CongControl.  state, w, ss and prior are m_congState, m_cWnd, m_ssThresh and
\* m_priorCwnd when it is called, d the packets delivered, inflight m_bytesInFlight,
\* resent the packets ProcessAck has retransmitted, which inflight does not count yet.
CongControl(state, w, ss, prior, d, lost, resent, loss, sample) ==
    \E e \in Measurements(d, sample) :
        UpdateModelAndWindow(state, w, ss, prior, d, lost, resent, loss, sample, e)

\* ReceivedAck: ProcessAck may enter a recovery, which saves the window and
\* retransmits one segment, retransmit one on a partial ACK, or end the recovery,
\* which leaves m_cWnd at m_ssThresh; then CongControl is called.
ReceivedAck(d, lost, state, loss, sample) ==
    LET enters == congState = "OPEN" /\ state = "RECOVERY"
        partial == congState = "RECOVERY" /\ state = "RECOVERY" /\ Total(d) > 0
    IN  /\ losses' = IF enters THEN losses + 1 ELSE losses
        /\ \E resent \in IF enters THEN {1} ELSE IF partial THEN {0, 1} ELSE {0} :
            CongControl(state,
                IF congState = "RECOVERY" /\ state = "OPEN" THEN ssThresh ELSE cWnd,
                IF enters THEN GetSsThresh(ssThresh) ELSE ssThresh,
                IF enters
                THEN SaveCongestionWindow(prevCongState, mode, priorCwnd, cWnd)
                ELSE priorCwnd,
                d, lost, resent, loss, sample)

Acks(ds, samples) ==
    /\ old + fresh > 0
    /\ \E d \in ds, lost \in Part(Marked) :
        /\ Delivers(d, lost)
        /\ \E state \in CongStateAfter(Total(d)),
              loss \in BytesLoss(Total(d), Total(lost)), sample \in samples :
                ReceivedAck(d, lost, state, loss, sample)

Ack == Acks(Part(MaxAcked), Samples)

\* An ACK of new data with a valid sample, and one that ends a recovery.
Progress == Acks({d \in Part(MaxAcked) : Total(d) > 0}, Samples \ {"invalid"})
Ends == congState /= "OPEN" /\ Ack /\ congState' = "OPEN"

Next == Send \/ Tick \/ ReTxTimeout \/ Ack

Spec == Init /\ [][Next]_vars

\* A transfer that never runs out of data, on a path that loses finitely often
\* (losses is bounded) and measures what it delivers.
FairSpec == Spec /\ WF_vars(Send) /\ WF_vars(Tick) /\ WF_vars(Progress) /\ SF_vars(Ends)

-----------------------------------------------------------------------------
\* The window a cut will restore is never one that was itself cut: recoveries,
\* timeouts and PROBE_RTT nest in any order and only the first may overwrite
\* m_priorCwnd (SaveCongestionWindow).
SavedNotCut == Cut => priorCwnd >= held

\* When the last cut is over and the pipe is not known to be full, the window is
\* what it was before the first, less what the ACK that ends a probe reports lost.
RestoredAfterCut ==
    [][Cut /\ ~Cut' /\ ~fullBandwidthReached'
        => cWnd' >= held - (IF mode = "PROBE_RTT" THEN Larger(Marked, MaxAcked) ELSE 0)]_vars

\* The mode fits what is known of the pipe: BBR leaves STARTUP exactly when it is
\* known to be full, and never returns to it, through any number of PROBE_RTTs.
ModeMatchesPipe ==
    /\ mode = "STARTUP" => ~fullBandwidthReached
    /\ mode \in {"DRAIN", "PROBE_BW"} => fullBandwidthReached

\* The pipe is declared full on four rounds of evidence taken since the last
\* timeout: one to measure it and three without growth.
FullOnLateEvidence ==
    [][fullBandwidthReached' /\ ~fullBandwidthReached => rounds' >= 4]_vars

\* The comment of UpdateMinRtt: no more than kMinCWndSegment in flight from the
\* moment the probe is timed to its end, whatever recoveries do to the window,
\* but for the one segment that the ACK which times the probe may retransmit.
ProbeRttDrained ==
    mode = "PROBE_RTT" => /\ cWnd <= MinCwnd
                          /\ probeAge /= Unstamped => old + fresh <= MinCwnd + 1

\* The same comment: a probe ends after its time and a packet-timed round.
ProbeRttTakesRound ==
    [][mode = "PROBE_RTT" /\ mode' /= "PROBE_RTT"
        => probeAge > ProbeTime /\ echoed']_vars

\* Every PROBE_RTT ends, if data keeps being sent and acknowledged.
ProbeRttEnds == mode = "PROBE_RTT" ~> mode /= "PROBE_RTT"

\* tcp-bbr.cc:819: a phase that probes for bandwidth and loses nothing lasts until
\* the packets in flight reach its gain times the BDP.
ProbeUpReachesTarget ==
    [][mode = "PROBE_BW" /\ cycleIndex = 0 /\ cycleIndex' = 1
        => old + fresh >= Inflight(bw', 5, 4, mode, cycleIndex)]_vars

\* tcp-bbr.cc:727: after recovery the window is the one saved, or the one grown
\* since, and no more than the last ACK adds to it.
RestoresSaved ==
    [][prevCongState = "RECOVERY" /\ prevCongState' = "OPEN" /\ mode' = mode
        => cWnd' <= Larger(cWnd, priorCwnd) + MaxAcked]_vars
=============================================================================
