------------------------------- MODULE Copa2 --------------------------------
(***************************************************************************)
(* TcpCopa2, driven by TcpSocketBase: a window set once per cycle from     *)
(* what was delivered in it, PROBE_RTT, and the lossy mode, with the loss  *)
(* counts ReceivedAck takes from the scoreboard.                           *)
(*                                                                         *)
(* Bytes are counted in segments, times are ages that saturate, and the    *)
(* minimum RTT is a constant.  A round of UpdateLossMode has passed when   *)
(* rs.m_priorDelivered >= m_lossRoundDelivered.                            *)
(***************************************************************************)
EXTENDS Integers

CONSTANTS
    MinCwnd,        \* kMinCwndSegment
    InitCwnd,       \* m_initialCWnd
    Alpha,          \* m_alphaParam
    InvTolerance,   \* one over m_lossToleranceParam
    MinRtt,         \* m_minRttFilter.GetBest()
    LossyDelay,     \* dParam in the lossy mode
    ProbeInterval,  \* kCopa2ProbeRttInterval
    MaxDelivered,   \* bound: the segments the path delivers in a cycle
    MaxAcked,       \* bound: the segments one ACK delivers
    MaxLost,        \* bound: the segments the scoreboard holds as lost
    MaxRound,       \* bound: the segments of a round of UpdateLossMode
    MaxLosses       \* bound: the recoveries and timeouts

Copa2Assumption ==
    /\ MinCwnd \in Nat \ {0} /\ InitCwnd \in Nat \ {0} /\ Alpha \in Nat
    /\ InvTolerance \in Nat \ {0}
    /\ MinRtt \in Nat \ {0}
    /\ LossyDelay \in Nat /\ LossyDelay <= MinRtt
    /\ ProbeInterval \in Nat /\ ProbeInterval > 0
    /\ MaxDelivered \in Nat /\ MaxAcked \in Nat \ {0} /\ MaxLost \in Nat
    /\ MaxRound \in Nat /\ MaxRound >= 2 * InvTolerance + MaxAcked
    /\ MaxLosses \in Nat

VARIABLES
    congState, cWnd, ssThresh,      \* TcpSocketState
    lostOut,            \* m_txBuffer->GetLost()
    cycleAge,           \* the time since m_cycleStart, or Unset
    probeAge,           \* the time since m_lastProbeRtt, or Unset
    probeRtt, lossyMode,
    bytesAckedInCycle,
    ackedRound,         \* rc.m_delivered - m_lossRoundDelivered
    lostRound,          \* m_lostBytesCount - m_priorLostBytes
    losses,             \* history: recoveries entered and timeouts
    since               \* history: segments delivered since the window was set

socket == <<congState, cWnd, ssThresh>>
vars == <<socket, lostOut, cycleAge, probeAge, probeRtt, lossyMode, bytesAckedInCycle,
          ackedRound, lostRound, losses, since>>

Unset == -1                 \* Time(0)
MaxAge == 2 * MinRtt        \* a cycle is never longer

TypeOK ==
    /\ congState \in {"OPEN", "RECOVERY", "LOSS"}
    /\ cWnd \in Nat \ {0} /\ ssThresh \in Nat
    /\ lostOut \in 0..MaxLost
    /\ cycleAge \in Unset..MaxAge
    /\ probeAge \in Unset..(ProbeInterval + MinRtt)
    /\ probeRtt \in BOOLEAN /\ lossyMode \in BOOLEAN
    /\ bytesAckedInCycle \in 0..MaxDelivered
    /\ ackedRound \in 0..MaxRound /\ lostRound \in 0..(1 + MaxLost)
    /\ losses \in 0..MaxLosses
    /\ since \in Nat

-----------------------------------------------------------------------------
Larger(a, b) == IF a >= b THEN a ELSE b
Smaller(a, b) == IF a <= b THEN a ELSE b
Apart(a, b) == IF a >= b THEN a - b ELSE b - a

DParam(lossy) == IF lossy THEN LossyDelay ELSE MinRtt

\* UpdateLossMode: a round is decided on enough bytes, or two segments lost.
Enough(acked, lost) == acked + lost >= 2 * InvTolerance \/ lost >= 2

TooLossy(acked, lost) == lost * InvTolerance >= acked + lost

\* m_lostBytesCount - m_priorLostBytes after an ACK that does or does not decide.
LostAfter(lost, decides) == IF decides THEN 0 ELSE lost

\* (mutant: the time of the last probe is never looked at)
NeverEnters(age, quick) == FALSE

\* Whether a probe begins: twice as often while the RTT is short.
Enters(age, quick) == age >= (IF quick THEN ProbeInterval \div 2 ELSE ProbeInterval)

\* (mutant: what is delivered counts from the last ACK)
KeptNothing(acked, set) == 0

\* m_bytesAckedInCycle after an ACK that does or does not set the window.
Kept(acked, set) == IF set THEN 0 ELSE acked

\* The window at the end of a cycle.
NewWindow(w, target, appLimited, probing) ==
    LET n == IF ~appLimited \/ w < target THEN target ELSE w
    IN  IF probing THEN MinCwnd ELSE Larger(n, MinCwnd)

-----------------------------------------------------------------------------
Init ==
    /\ congState = "OPEN" /\ cWnd = InitCwnd /\ ssThresh = 0
    /\ lostOut = 0
    /\ cycleAge = Unset /\ probeAge = Unset
    /\ probeRtt = FALSE /\ lossyMode = FALSE
    /\ bytesAckedInCycle = 0 /\ ackedRound = 0 /\ lostRound = 0
    /\ losses = 0
    /\ since = 0

Older(age, limit) == IF age = Unset THEN Unset ELSE Smaller(age + 1, limit)

\* Simulator time.
Tick ==
    /\ cycleAge' = Older(cycleAge, MaxAge)
    /\ probeAge' = Older(probeAge, ProbeInterval + MinRtt)
    /\ UNCHANGED <<socket, lostOut, probeRtt, lossyMode, bytesAckedInCycle, ackedRound,
                   lostRound, losses, since>>

\* ReTxTimeout: GetSsThresh is the window, and everything sent is marked as lost.
ReTxTimeout ==
    /\ losses < MaxLosses /\ losses' = losses + 1
    /\ congState' = "LOSS" /\ cWnd' = 1
    /\ \E resent \in BOOLEAN :      \* IsHeadRetransmitted
        ssThresh' = IF congState = "LOSS" /\ resent THEN ssThresh ELSE cWnd
    /\ lostOut' \in lostOut..MaxLost
    /\ UNCHANGED <<cycleAge, probeAge, probeRtt, lossyMode, bytesAckedInCycle, ackedRound,
                   lostRound, since>>

\* CongControl, when m_cWnd is w: bytesLoss and appLimited are those of the sample,
\* quick is rtt < rtt_min + dParam and round whether a round has passed.
CongControl(w, acked, bytesLoss, appLimited, quick, round) ==
    LET a == ackedRound + acked
        l == lostRound + bytesLoss
        decides == round /\ Enough(a, l)
        lossy == IF decides THEN TooLossy(a, l) ELSE lossyMode
        age == IF probeAge = Unset THEN 0 ELSE probeAge
        enters == ~probeRtt /\ Enters(age, quick)
        probing == enters \/ (probeRtt /\ age < DParam(lossy))
        set == cycleAge /= Unset /\ cycleAge >= MinRtt + DParam(lossy)
        delivered == bytesAckedInCycle + acked
    IN  /\ lossyMode' = lossy
        /\ ackedRound' = IF decides THEN 0 ELSE a
        /\ lostRound' = LostAfter(l, decides)
        /\ probeRtt' = probing
        /\ probeAge' = IF enters THEN 0 ELSE age
        /\ cycleAge' = IF set \/ cycleAge = Unset THEN 0 ELSE cycleAge
        /\ cWnd' = IF set THEN NewWindow(w, delivered + Alpha, appLimited, probing) ELSE w
        /\ bytesAckedInCycle' = Kept(delivered, set)
        /\ since' = IF set THEN 0 ELSE since + acked

\* ReceivedAck: m_bytesLoss is the difference between the segments the scoreboard
\* holds as lost before and after the ACK, whichever is larger.
ReceivedAck(acked, mark, repair, state) ==
    LET enters == congState = "OPEN" /\ state = "RECOVERY"
        w == IF congState = "RECOVERY" /\ state = "OPEN" THEN ssThresh ELSE cWnd
        lost == lostOut + mark - repair
    IN  /\ lostOut' = lost
        /\ congState' = state
        /\ ssThresh' = IF enters THEN cWnd ELSE ssThresh
        /\ losses' = IF enters THEN losses + 1 ELSE losses
        /\ \E appLimited \in BOOLEAN, quick \in BOOLEAN, round \in BOOLEAN :
            /\ ackedRound + acked > MaxRound - MaxAcked \/ lostRound >= 2 => round
            /\ CongControl(w, acked, Apart(lost, lostOut), appLimited, quick, round)

CongStateAfter(acked) ==
    {congState}
    \cup (IF acked > 0 /\ congState = "OPEN" /\ losses < MaxLosses
          THEN {"RECOVERY"} ELSE {})
    \cup (IF acked > 0 THEN {"OPEN"} ELSE {})

Ack ==
    \E acked \in 0..MaxAcked, mark \in 0..1 :
        /\ bytesAckedInCycle + acked <= MaxDelivered
        /\ ackedRound + acked <= MaxRound
        /\ lostOut + mark <= MaxLost
        /\ \E repair \in 0..Smaller(acked, lostOut), state \in CongStateAfter(acked) :
              ReceivedAck(acked, mark, repair, state)

Next == Tick \/ ReTxTimeout \/ Ack

Spec == Init /\ [][Next]_vars

\* ACKs keep coming as long as time passes: the transfer never runs out of data.
FairSpec == Spec /\ WF_vars(Tick) /\ WF_vars(Ack)

-----------------------------------------------------------------------------
\* The window set at the end of a cycle covers what was delivered since it was last
\* set, however many ACKs returned early; a probe is the exception.
WindowCoversDelivery ==
    [][since' = 0 /\ cycleAge' = 0 /\ cycleAge > 0 /\ ~probeRtt'
        => cWnd' >= since + Alpha]_vars

\* Probes keep beginning and ending.
ProbesRecur == []<>probeRtt /\ []<>~probeRtt

\* tcp-rate-ops.h:146: m_bytesLoss is "marked as lost", so a round counts none
\* without a segment being marked.
LossIsMarked == [][lostRound' > lostRound => lostOut' > lostOut]_vars
=============================================================================
