---------------------------- MODULE Copa2Proofs -----------------------------
(***************************************************************************)
(* The types of Copa2, and what the window set at the end of a cycle       *)
(* covers, for every length of a cycle and every pattern of losses.        *)
(***************************************************************************)
EXTENDS Copa2, TLAPS

\* What was delivered since the window was set is still counted in the cycle.
Counted == since <= bytesAckedInCycle

\* A recovery goes back to a window.
Saved == congState = "RECOVERY" => ssThresh > 0

IInv == TypeOK /\ Counted /\ Saved

LEMMA InitKeeps == ASSUME Copa2Assumption, Init PROVE IInv
<1>1. /\ cycleAge \in Unset..MaxAge /\ probeAge \in Unset..(ProbeInterval + MinRtt)
  BY DEF Copa2Assumption, Init, Unset, MaxAge
<1>2. /\ lostOut \in 0..MaxLost /\ bytesAckedInCycle \in 0..MaxDelivered
      /\ ackedRound \in 0..MaxRound /\ lostRound \in 0..(1 + MaxLost)
      /\ losses \in 0..MaxLosses
  BY DEF Copa2Assumption, Init
<1>3. congState = "OPEN" /\ cWnd \in Nat \ {0} /\ ssThresh = 0 /\ since = 0
  BY DEF Copa2Assumption, Init
<1>4. probeRtt \in BOOLEAN /\ lossyMode \in BOOLEAN
  BY DEF Init
<1> QED BY <1>1, <1>2, <1>3, <1>4 DEF IInv, TypeOK, Counted, Saved

LEMMA TickKeeps == ASSUME Copa2Assumption, IInv, Tick PROVE IInv'
BY DEF Copa2Assumption, IInv, TypeOK, Counted, Saved, Tick, Older, Smaller, Unset, MaxAge, socket

LEMMA ReTxTimeoutKeeps == ASSUME Copa2Assumption, IInv, ReTxTimeout PROVE IInv'
<1>1. /\ congState' = "LOSS" /\ cWnd' = 1 /\ losses' = losses + 1 /\ losses < MaxLosses
      /\ lostOut' \in lostOut..MaxLost
      /\ UNCHANGED <<cycleAge, probeAge, probeRtt, lossyMode, bytesAckedInCycle, ackedRound,
                     lostRound, since>>
  BY DEF ReTxTimeout
<1>2. ssThresh' \in Nat
  BY DEF ReTxTimeout, IInv, TypeOK
<1> QED
  BY <1>1, <1>2 DEF Copa2Assumption, IInv, TypeOK, Counted, Saved

\* What ReceivedAck hands to CongControl.
Handed(w, acked, bytesLoss, round) ==
    /\ w \in Nat \ {0}
    /\ acked \in 0..MaxAcked
    /\ bytesAckedInCycle + acked <= MaxDelivered
    /\ ackedRound + acked <= MaxRound
    /\ bytesLoss \in 0..MaxLost
    /\ lostRound >= 2 => round

\* CongControl keeps the types of what it assigns and what is counted in the cycle.
LEMMA CongControlKeeps ==
    ASSUME Copa2Assumption, IInv,
           NEW w, NEW acked, NEW bytesLoss, NEW appLimited, NEW quick, NEW round,
           Handed(w, acked, bytesLoss, round),
           CongControl(w, acked, bytesLoss, appLimited, quick, round)
    PROVE  /\ cWnd' \in Nat \ {0}
           /\ cycleAge' \in Unset..MaxAge
           /\ probeAge' \in Unset..(ProbeInterval + MinRtt)
           /\ probeRtt' \in BOOLEAN /\ lossyMode' \in BOOLEAN
           /\ bytesAckedInCycle' \in 0..MaxDelivered
           /\ ackedRound' \in 0..MaxRound /\ lostRound' \in 0..(1 + MaxLost)
           /\ since' \in Nat /\ Counted'
<1> DEFINE a == ackedRound + acked
           l == lostRound + bytesLoss
           decides == round /\ Enough(a, l)
           lossy == IF decides THEN TooLossy(a, l) ELSE lossyMode
           age == IF probeAge = Unset THEN 0 ELSE probeAge
           enters == ~probeRtt /\ Enters(age, quick)
           probing == enters \/ (probeRtt /\ age < DParam(lossy))
           set == cycleAge /= Unset /\ cycleAge >= MinRtt + DParam(lossy)
           delivered == bytesAckedInCycle + acked
<1>1. /\ lossyMode' = lossy
      /\ ackedRound' = (IF decides THEN 0 ELSE a)
      /\ lostRound' = LostAfter(l, decides)
      /\ probeRtt' = probing
      /\ probeAge' = (IF enters THEN 0 ELSE age)
      /\ cycleAge' = (IF set \/ cycleAge = Unset THEN 0 ELSE cycleAge)
      /\ cWnd' = (IF set THEN NewWindow(w, delivered + Alpha, appLimited, probing) ELSE w)
      /\ bytesAckedInCycle' = Kept(delivered, set)
      /\ since' = (IF set THEN 0 ELSE since + acked)
  BY DEF CongControl
<1>2. delivered \in 0..MaxDelivered /\ since + acked \in Nat /\ since + acked <= delivered
  BY DEF Copa2Assumption, IInv, TypeOK, Counted, Handed
<1>3. a \in 0..MaxRound /\ l \in Nat
  BY DEF Copa2Assumption, IInv, TypeOK, Handed
<1>4. ~decides => l <= 1 + MaxLost
  <2>1. CASE lostRound >= 2
    <3>1. round /\ l >= 2
      BY <2>1 DEF Copa2Assumption, IInv, TypeOK, Handed
    <3> QED BY <3>1 DEF Enough
  <2>2. CASE ~(lostRound >= 2)
    BY <2>2 DEF Copa2Assumption, IInv, TypeOK, Handed
  <2> QED BY <2>1, <2>2
<1>5. probeRtt \in BOOLEAN /\ lossyMode \in BOOLEAN
  BY DEF IInv, TypeOK
<1>6. lossy \in BOOLEAN
  <2>1. TooLossy(a, l) \in BOOLEAN
    BY DEF TooLossy
  <2> QED BY <1>5, <2>1, Zenon
<1>7. probing \in BOOLEAN
  BY <1>5
<1>8. age \in Unset..(ProbeInterval + MinRtt) /\ cycleAge \in Unset..MaxAge
  BY DEF Copa2Assumption, IInv, TypeOK, Unset
<1>9. NewWindow(w, delivered + Alpha, appLimited, probing) \in Nat \ {0}
  BY <1>2 DEF Copa2Assumption, NewWindow, Larger, Handed
<1> HIDE DEF a, l, decides, lossy, age, enters, probing, set, delivered
<1>10. bytesAckedInCycle' \in 0..MaxDelivered /\ since' \in Nat /\ Counted'
  BY <1>1, <1>2 DEF Copa2Assumption, Kept, Counted
<1>11. ackedRound' \in 0..MaxRound /\ lostRound' \in 0..(1 + MaxLost)
  BY <1>1, <1>3, <1>4 DEF Copa2Assumption, LostAfter
<1>12. /\ cycleAge' \in Unset..MaxAge
       /\ probeAge' \in Unset..(ProbeInterval + MinRtt)
  BY <1>1, <1>8 DEF Copa2Assumption, Unset, MaxAge
<1>13. cWnd' \in Nat \ {0}
  BY <1>1, <1>9 DEF Handed
<1> QED BY <1>1, <1>6, <1>7, <1>10, <1>11, <1>12, <1>13

\* The window at the end of a cycle that is no probe is at least its target.
LEMMA NewWindowCovers ==
    ASSUME Copa2Assumption, NEW w \in Nat, NEW target \in Nat, NEW appLimited
    PROVE  NewWindow(w, target, appLimited, FALSE) >= target
BY DEF Copa2Assumption, NewWindow, Larger

\* The window a cycle that ends sets covers what was counted in it.
LEMMA CongControlCovers ==
    ASSUME Copa2Assumption, IInv,
           NEW w, NEW acked, NEW bytesLoss, NEW appLimited, NEW quick, NEW round,
           Handed(w, acked, bytesLoss, round),
           CongControl(w, acked, bytesLoss, appLimited, quick, round),
           cycleAge' = 0, cycleAge > 0, ~probeRtt'
    PROVE  cWnd' >= since + Alpha
<1> DEFINE target == bytesAckedInCycle + acked + Alpha
<1>1. target \in Nat /\ w \in Nat /\ since + Alpha <= target /\ since + Alpha \in Nat
  BY DEF Copa2Assumption, IInv, TypeOK, Counted, Handed
<1>2. cycleAge /= 0 /\ cycleAge /= Unset
  BY DEF IInv, TypeOK, Unset, MaxAge, Copa2Assumption
<1>3. cWnd' = NewWindow(w, target, appLimited, FALSE)
  <2> DEFINE covered == NewWindow(w, target, appLimited, probeRtt')
  <2>1. probeRtt' = FALSE
    BY CongControlKeeps
  <2>2. cWnd' = covered
    BY <1>2, Zenon DEF CongControl
  <2> QED BY <2>1, <2>2
<1> HIDE DEF target
<1>4. NewWindow(w, target, appLimited, FALSE) >= target
  BY <1>1, NewWindowCovers
<1>5. NewWindow(w, target, appLimited, FALSE) \in Int
  BY <1>1 DEF Copa2Assumption, NewWindow, Larger
<1> DEFINE n == NewWindow(w, target, appLimited, FALSE)
<1> HIDE DEF n
<1>6. n \in Int /\ n >= target /\ cWnd' = n
  BY <1>3, <1>4, <1>5 DEF n
<1>7. n >= since + Alpha
  BY <1>1, <1>6
<1> QED BY <1>6, <1>7

\* An ACK is a call of CongControl, with what may be handed to it.
LEMMA AckCalls ==
    ASSUME Copa2Assumption, IInv, Ack
    PROVE  /\ congState' \in {"OPEN", "RECOVERY", "LOSS"}
           /\ ssThresh' \in Nat /\ Saved' /\ lostOut' \in 0..MaxLost /\ losses' \in 0..MaxLosses
           /\ \E w, acked, bytesLoss, appLimited, quick, round :
                /\ Handed(w, acked, bytesLoss, round)
                /\ CongControl(w, acked, bytesLoss, appLimited, quick, round)
<1>1. PICK acked \in 0..MaxAcked, mark \in 0..1 :
        /\ bytesAckedInCycle + acked <= MaxDelivered
        /\ ackedRound + acked <= MaxRound
        /\ lostOut + mark <= MaxLost
        /\ \E repair \in 0..Smaller(acked, lostOut), state \in CongStateAfter(acked) :
              ReceivedAck(acked, mark, repair, state)
  BY DEF Ack
<1>2. PICK repair \in 0..Smaller(acked, lostOut), state \in CongStateAfter(acked) :
        ReceivedAck(acked, mark, repair, state)
  BY <1>1
<1> DEFINE lost == lostOut + mark - repair
           enters == congState = "OPEN" /\ state = "RECOVERY"
           w == IF congState = "RECOVERY" /\ state = "OPEN" THEN ssThresh ELSE cWnd
<1>3. /\ lostOut' = lost /\ congState' = state
      /\ ssThresh' = (IF enters THEN cWnd ELSE ssThresh)
      /\ losses' = (IF enters THEN losses + 1 ELSE losses)
  BY <1>2 DEF ReceivedAck
<1>4. PICK appLimited \in BOOLEAN, quick \in BOOLEAN, round \in BOOLEAN :
        /\ ackedRound + acked > MaxRound - MaxAcked \/ lostRound >= 2 => round
        /\ CongControl(w, acked, Apart(lost, lostOut), appLimited, quick, round)
  BY <1>2 DEF ReceivedAck
<1>5. lost \in 0..MaxLost /\ Apart(lost, lostOut) \in 0..MaxLost
  BY <1>1 DEF Copa2Assumption, IInv, TypeOK, Apart, Smaller
<1>6. state \in {"OPEN", "RECOVERY", "LOSS"} /\ (enters => losses < MaxLosses)
  BY DEF CongStateAfter, IInv, TypeOK
<1>7. losses' \in 0..MaxLosses
  BY <1>3, <1>6 DEF Copa2Assumption, IInv, TypeOK
<1>8. ssThresh' \in Nat /\ Saved' /\ w \in Nat \ {0}
  BY <1>3 DEF CongStateAfter, IInv, TypeOK, Saved
<1>9. Handed(w, acked, Apart(lost, lostOut), round)
  BY <1>1, <1>4, <1>5, <1>8 DEF Handed
<1> HIDE DEF lost, w, enters
<1> QED BY <1>3, <1>4, <1>5, <1>6, <1>7, <1>8, <1>9

LEMMA AckKeeps == ASSUME Copa2Assumption, IInv, Ack PROVE IInv'
<1>1. PICK w, acked, bytesLoss, appLimited, quick, round :
        /\ Handed(w, acked, bytesLoss, round)
        /\ CongControl(w, acked, bytesLoss, appLimited, quick, round)
  BY AckCalls
<1> QED BY <1>1, AckCalls, CongControlKeeps DEF IInv, TypeOK

\* Every step keeps the invariant.
LEMMA Inductive == ASSUME Copa2Assumption, IInv, [Next]_vars PROVE IInv'
<1>1. CASE Next
  BY <1>1, TickKeeps, ReTxTimeoutKeeps, AckKeeps DEF Next
<1>2. CASE UNCHANGED vars
  BY <1>2 DEF vars, socket, IInv, TypeOK, Counted, Saved
<1> QED BY <1>1, <1>2

LEMMA Invariant == ASSUME Copa2Assumption PROVE Spec => []IInv
<1>1. Init => IInv
  BY InitKeeps
<1>2. IInv /\ [Next]_vars => IInv'
  BY Inductive
<1> QED BY <1>1, <1>2, PTL DEF Spec

-----------------------------------------------------------------------------
\* Every variable has its type: a window is never zero, a round counts at most one
\* lost segment before the ACK that decides it, and a cycle is never longer than
\* the RTT and the delay of the mode together.
THEOREM TypeCorrect == ASSUME Copa2Assumption PROVE Spec => []TypeOK
<1>1. IInv => TypeOK
  BY DEF IInv
<1> QED BY <1>1, Invariant, PTL

LEMMA CoversStep ==
    ASSUME Copa2Assumption, IInv, Next, since' = 0, cycleAge' = 0, cycleAge > 0, ~probeRtt'
    PROVE  cWnd' >= since + Alpha
<1>1. CASE Tick
  BY <1>1 DEF Tick, Older, Smaller, IInv, TypeOK, Unset, MaxAge, Copa2Assumption
<1>2. CASE ReTxTimeout
  BY <1>2 DEF ReTxTimeout
<1>3. CASE Ack
  BY <1>3, AckCalls, CongControlCovers
<1> QED BY <1>1, <1>2, <1>3 DEF Next

\* The window set at the end of a cycle covers what was delivered since it was last
\* set (UpdateCwnd), unless a probe is on.
THEOREM CycleCovered == ASSUME Copa2Assumption PROVE Spec => WindowCoversDelivery
<1> DEFINE Covers == since' = 0 /\ cycleAge' = 0 /\ cycleAge > 0 /\ ~probeRtt'
                        => cWnd' >= since + Alpha
<1>1. IInv /\ [Next]_vars => [Covers]_vars
  BY CoversStep
<1> QED BY <1>1, Invariant, PTL DEF Spec, WindowCoversDelivery
=============================================================================
