---------------------------- MODULE BbrLongTerm ----------------------------
(***************************************************************************)
(* The long-term bandwidth sampling of TcpBbr, which looks for a policer:  *)
(* intervals between losses are measured, and when two in a row agree the  *)
(* bandwidth they have in common replaces the estimate of the max filter.  *)
(* Rates are abstracted to whether two intervals agree; the mode of BBR to *)
(* whether it is PROBE_BW (BbrModes has the modes, and draws m_ltUse).     *)
(***************************************************************************)
EXTENDS Integers

CONSTANTS
    IntervalRtts,   \* bbr_lt_intvl_min_rtts
    MaxRtts,        \* bbr_lt_bw_max_rtts
    CountValues     \* the values of the bit field m_ltRttCount

ASSUME LongTermAssumption ==
    /\ IntervalRtts \in Nat \ {0}
    /\ MaxRtts \in Nat \ {0}
    /\ CountValues \in Nat
    /\ MaxRtts <= CountValues - 1
    /\ 4 * IntervalRtts + 1 <= CountValues - 1

VARIABLES
    lt,         \* m_ltUseBandwidth, m_ltIsSampling, m_ltRttCount and whether
                \* m_ltBandwidth is above zero
    anchored,   \* m_ltLastDelivered /= 0
    evidence    \* history: rounds since sampling began, up to 2 * IntervalRtts

longTermVars == <<lt, anchored, evidence>>

States == [use : BOOLEAN, sampling : BOOLEAN, count : 0..(CountValues - 1),
           measured : BOOLEAN]

LongTermTypeOK ==
    /\ lt \in States
    /\ anchored \in BOOLEAN
    /\ evidence \in 0..(2 * IntervalRtts)

-----------------------------------------------------------------------------
\* ++m_ltRttCount, in its 7 bits.
Increment(count, newRound) == IF newRound THEN (count + 1) % CountValues ELSE count

\* (mutant: the count goes on through the interval)
IntervalKeepsCount(s) == s

\* ResetLongTermBandwidthSamplingInterval, but for the marks of the interval.
ResetInterval(s) == [s EXCEPT !.count = 0]

\* ResetLongTermBandwidthSampling.
Reset == [use |-> FALSE, sampling |-> FALSE, count |-> 0, measured |-> FALSE]

\* LongTermBandwidthIntervalDone: agrees is the comparison with m_ltBandwidth.
IntervalDone(s, agrees) ==
    IF s.measured /\ agrees THEN [s EXCEPT !.use = TRUE, !.count = 0]
    ELSE ResetInterval([s EXCEPT !.measured = TRUE])

\* The interval is given up when it has lasted too many rounds.
TooLong(s) == s.count > 4 * IntervalRtts

\* LongTermBandwidthSampling while an interval is open: ends is whether the loss
\* rate and the length of the interval let it end, overlong the other reason to
\* give it up, its time.
Interval(s, newRound, loss, limited, ends, overlong, agrees) ==
    LET t == [s EXCEPT !.count = Increment(s.count, newRound)]
    IN  IF limited THEN Reset
        ELSE IF t.count < IntervalRtts THEN t
        ELSE IF TooLong(t) THEN Reset
        ELSE IF ~loss \/ ~ends THEN t
        ELSE IF overlong THEN Reset
        ELSE IntervalDone(t, agrees)

\* (mutant: the estimate is dropped on the round after its last)
UseOnceMore(s, probing, newRound) ==
    IF ~probing \/ ~newRound THEN s
    ELSE IF s.count > MaxRtts THEN Reset
    ELSE [s EXCEPT !.count = Increment(s.count, TRUE)]

\* The estimate in use: it is dropped after MaxRtts rounds of PROBE_BW.
Use(s, probing, newRound) ==
    IF ~probing \/ ~newRound THEN s
    ELSE IF Increment(s.count, TRUE) >= MaxRtts THEN Reset
    ELSE [s EXCEPT !.count = Increment(s.count, TRUE)]

\* LongTermBandwidthSampling.
Sampling(s, probing, newRound, loss, limited, ends, overlong, agrees) ==
    IF s.use THEN Use(s, probing, newRound)
    ELSE IF s.sampling THEN Interval(s, newRound, loss, limited, ends, overlong, agrees)
    ELSE IF loss THEN Interval(ResetInterval([s EXCEPT !.sampling = TRUE]),
                               newRound, loss, limited, ends, overlong, agrees)
    ELSE s

Becomes(after, newRound) ==
    /\ lt' = after
    /\ evidence' = IF ~after.sampling THEN 0
                   ELSE IF newRound /\ evidence < 2 * IntervalRtts THEN evidence + 1
                   ELSE evidence

LongTermInit ==
    /\ lt = Reset
    /\ anchored = FALSE
    /\ evidence = 0

\* CongControl: delivered is whether m_delivered is above zero by now, valid
\* whether UpdateBandwidth takes the sample.
LongTermCongControl ==
    \E delivered \in IF anchored THEN {TRUE} ELSE BOOLEAN, valid \in BOOLEAN :
        LET s == IF anchored THEN lt ELSE Reset
        IN  /\ anchored' = delivered
            /\ IF ~valid THEN Becomes(s, FALSE)
               ELSE \E probing, newRound, loss, limited, ends, overlong, agrees \in BOOLEAN :
                    Becomes(Sampling(s, probing, newRound, loss, limited, ends,
                                     overlong, agrees), newRound)

\* CongestionStateSet(CA_LOSS): a timeout counts as the start of a round and as
\* a loss.
Timeout ==
    \E probing, ends, overlong, agrees \in BOOLEAN :
        /\ Becomes(Sampling(lt, probing, TRUE, TRUE, FALSE, ends, overlong, agrees), TRUE)
        /\ UNCHANGED anchored

LongTermNext == LongTermCongControl \/ Timeout

LongTermSpec == LongTermInit /\ [][LongTermNext]_longTermVars

-----------------------------------------------------------------------------
\* The count of rounds is compared before its bit field can wrap: at most
\* 4 * IntervalRtts while an interval is measured, below MaxRtts while the
\* estimate is in use, whatever timeouts, resets and modes come in between.
CountBelowLimit ==
    /\ lt.use => lt.count < MaxRtts
    /\ ~lt.use => lt.count <= 4 * IntervalRtts
    /\ lt.use => lt.sampling /\ lt.measured

\* The estimate replaces the max filter's only after two whole intervals, each
\* of IntervalRtts rounds (tcp-bbr.cc:45).
UsedAfterTwoIntervals ==
    [][lt'.use /\ ~lt.use => evidence' >= 2 * IntervalRtts]_longTermVars
=============================================================================
