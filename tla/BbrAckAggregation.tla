------------------------- MODULE BbrAckAggregation -------------------------
(***************************************************************************)
(* TcpBbr::UpdateAckAggregation: how much more than expected is            *)
(* acknowledged at once, and the two slots whose maximum approximates its  *)
(* sliding maximum.  What was expected since the epoch began is chosen:    *)
(* it is a bandwidth times an elapsed time, and only grows in an epoch.    *)
(***************************************************************************)
EXTENDS Integers, Sequences, FiniteSetsExt

CONSTANTS
    WinRtts,        \* bbr_extra_acked_win_rtts
    ResetThresh,    \* bbr_ack_epoch_acked_reset_thresh
    MaxExpected,    \* bound: the most that is expected in an epoch
    Acked,          \* what one ACK may acknowledge
    Windows         \* the values of m_cWnd

ASSUME AggregationAssumption ==
    /\ WinRtts \in Nat \ {0}
    /\ ResetThresh \in Nat \ {0}
    /\ MaxExpected \in Nat
    /\ Acked \subseteq Nat \ {0}
    /\ Windows \subseteq Nat \ {0}

VARIABLES
    epochAcked,     \* m_ackEpochAckedBytes
    expected,       \* what the bandwidth makes of the time since m_ackEpochStamp
    slots,          \* m_extraAckedBytes
    winRtts,        \* m_extraAckedWinRtts
    winIdx,         \* m_extraAckedWinIdx
    seen            \* history: the largest sample of each of the last rounds,
                    \* the current one first

aggregationVars == <<epochAcked, expected, slots, winRtts, winIdx, seen>>

Lesser(a, b) == IF a <= b THEN a ELSE b
Greater(a, b) == IF a >= b THEN a ELSE b

AggregationTypeOK ==
    /\ epochAcked \in 0..(ResetThresh - 1)
    /\ expected \in 0..MaxExpected
    /\ slots \in [0..1 -> Nat]
    /\ winRtts \in 0..(WinRtts - 1)
    /\ winIdx \in 0..1
    /\ seen \in Seq(Nat) /\ Len(seen) <= 2 * WinRtts

\* The epoch is over: ACKs came no faster than expected, or very many did.
EpochOver(e, acked) == epochAcked <= e \/ epochAcked + acked >= ResetThresh

\* (mutant: the slot is not cleared when it is used again)
SlotsKept(turn, index) == slots

\* The slots once the window has moved on to index.
Slots(turn, index) == IF turn THEN [slots EXCEPT ![index] = 0] ELSE slots

\* The window moves on to the other slot every WinRtts rounds.
Turn(newRound) == newRound /\ winRtts + 1 >= WinRtts

\* BbrExtraAcked.
BbrExtraAcked == Greater(slots[0], slots[1])

\* The unsigned difference, capped by the window.
Excess(total, e, w) == IF total < e THEN w ELSE Lesser(w, total - e)

AggregationInit ==
    /\ epochAcked = 0 /\ expected = 0
    /\ slots = [i \in 0..1 |-> 0]
    /\ winRtts = 0 /\ winIdx = 0
    /\ seen = <<0>>

UpdateAckAggregation ==
    \E newRound \in BOOLEAN, acked \in Acked, w \in Windows, e \in expected..MaxExpected :
        LET turn == Turn(newRound)
            index == IF turn THEN 1 - winIdx ELSE winIdx
            over == EpochOver(e, acked)
            total == Lesser(ResetThresh - 1, (IF over THEN 0 ELSE epochAcked) + acked)
            due == IF over THEN 0 ELSE e
            extra == Excess(total, due, w)
            rounds == IF newRound THEN <<0>> \o SubSeq(seen, 1, Lesser(Len(seen), 2 * WinRtts - 1))
                                  ELSE seen
        IN  /\ winRtts' = IF turn THEN 0 ELSE IF newRound THEN winRtts + 1 ELSE winRtts
            /\ winIdx' = index
            /\ slots' = [Slots(turn, index) EXCEPT ![index] = Greater(@, extra)]
            /\ epochAcked' = total
            /\ expected' = IF over THEN 0 ELSE e
            /\ seen' = [rounds EXCEPT ![1] = Greater(@, Lesser(w, total - due))]

AggregationSpec == AggregationInit /\ [][UpdateAckAggregation]_aggregationVars

-----------------------------------------------------------------------------
MaxOf(n) == Max({seen[i] : i \in 1..Lesser(n, Len(seen))})

\* tcp-bbr.cc:477, "an approximate sliding window of 5-10 (packet timed) round
\* trips": nothing of the last WinRtts rounds is forgotten, and nothing older
\* than 2 * WinRtts rounds is remembered.
SlidingWindow == /\ BbrExtraAcked >= MaxOf(WinRtts)
                 /\ BbrExtraAcked <= MaxOf(2 * WinRtts)
=============================================================================
