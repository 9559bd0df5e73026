-------------------------------- MODULE Copa --------------------------------
(***************************************************************************)
(* TcpCopa, driven by TcpSocketBase: slow start, the velocity of the       *)
(* window and its direction.                                               *)
(*                                                                         *)
(* Windows are in segments.  The delay Copa measures is not modelled, but  *)
(* the comparison it serves: increase_cwnd holds while the path is clear,  *)
(* never holds above Capacity, and may go either way otherwise.  Times are *)
(* ages that saturate, and srtt is a constant.                             *)
(***************************************************************************)
EXTENDS Integers

CONSTANTS
    MinCwnd,        \* kMinCwndSegment
    InitCwnd,       \* m_initialCWnd
    InvDelta,       \* one over m_deltaParam
    Threshold,      \* velocityDirectionThreshold: 4 with UseRttStanding, 3 without
    VelocityBits,   \* the width of velocity, 64 in the code
    MaxWindow,      \* the largest uint32_t
    Srtt,           \* m_lastRtt
    Capacity,       \* a larger window builds a queue that Copa sees as delay
    MaxAcked,       \* bound: the segments one ACK delivers
    MaxLosses       \* bound: the recoveries and timeouts

ASSUME CopaAssumption ==
    /\ MinCwnd \in Nat \ {0}
    /\ InitCwnd \in Nat \ {0}
    /\ InvDelta \in Nat /\ InvDelta >= MinCwnd
    /\ Threshold \in Nat \ {0}
    /\ VelocityBits \in Nat \ {0}
    /\ MaxWindow \in Nat /\ MaxWindow >= InitCwnd /\ MaxWindow >= MinCwnd
    /\ Srtt \in Nat \ {0}
    /\ Capacity \in Nat /\ Capacity >= MinCwnd
    /\ MaxAcked \in Nat \ {0}
    /\ MaxLosses \in Nat

VARIABLES
    congState, cWnd, ssThresh,      \* TcpSocketState
    isSlowStart,
    doubleAge,          \* the time since m_lastCwndDoubleTime, or Unset
    ackBytesRound,      \* m_ackBytesRound > 0
    velocityState,
    clear,              \* the path: no delay but the one this flow causes
    overflowed,         \* the assertion of AddAndCheckOverflow has failed
    losses,             \* history: recoveries entered and timeouts
    same                \* history: the time the direction has been the same

socket == <<congState, cWnd, ssThresh>>
vars == <<socket, isSlowStart, doubleAge, ackBytesRound, velocityState, clear,
          overflowed, losses, same>>

Unset == -1                 \* Time(0)
MaxTimes == Threshold + VelocityBits    \* numTimesDirectionSame matters up to here
Power[n \in Nat] == IF n = 0 THEN 1 ELSE 2 * Power[n - 1]     \* 2^n
Wrap == Power[VelocityBits]

TypeOK ==
    /\ congState \in {"OPEN", "RECOVERY", "LOSS"}
    /\ cWnd \in 1..MaxWindow
    /\ ssThresh \in 0..MaxWindow
    /\ isSlowStart \in BOOLEAN
    /\ doubleAge \in Unset..(Srtt + 1)
    /\ ackBytesRound \in BOOLEAN
    /\ velocityState \in [direction : {"None", "Up", "Down"}, velocity : 0..(Wrap - 1),
                          times : 0..MaxTimes, recorded : 0..MaxWindow,
                          age : Unset..Srtt]
    /\ clear \in BOOLEAN
    /\ overflowed \in BOOLEAN
    /\ losses \in 0..MaxLosses
    /\ same \in 0..(Threshold * Srtt)

-----------------------------------------------------------------------------
Larger(a, b) == IF a >= b THEN a ELSE b
Smaller(a, b) == IF a <= b THEN a ELSE b

\* (mutant: the direction is compared every ACK)
CheckEveryAck(s, w) ==
    LET new == IF w > s.recorded THEN "Up" ELSE "Down"
    IN  IF new /= s.direction
        THEN [direction |-> new, velocity |-> 1, times |-> 0, recorded |-> w, age |-> 0]
        ELSE [direction |-> new, recorded |-> w, age |-> 0,
              times |-> Smaller(s.times + 1, MaxTimes),
              velocity |-> IF s.times + 1 >= Threshold
                           THEN (2 * s.velocity) % Wrap ELSE s.velocity]

\* CheckAndUpdateDirection: once per srtt; a window that has not moved is down.
CheckAndUpdateDirection(s, w) ==
    LET new == IF w > s.recorded THEN "Up" ELSE "Down"
    IN  IF s.age = Unset THEN [s EXCEPT !.age = 0, !.recorded = w]
        ELSE IF s.age < Srtt THEN s
        ELSE IF new /= s.direction
        THEN [direction |-> new, velocity |-> 1, times |-> 0, recorded |-> w, age |-> 0]
        ELSE [direction |-> new, recorded |-> w, age |-> 0,
              times |-> Smaller(s.times + 1, MaxTimes),
              velocity |-> IF s.times + 1 >= Threshold
                           THEN (2 * s.velocity) % Wrap ELSE s.velocity]

\* (mutant: the count of windows is kept)
ChangeKeepingTimes(s, new, w) ==
    [s EXCEPT !.direction = new, !.velocity = 1, !.recorded = w]

\* ChangeDirection, of another direction: the time of the record is kept.
ChangeDirection(s, new, w) ==
    [s EXCEPT !.direction = new, !.velocity = 1, !.times = 0, !.recorded = w]

\* (mutant: v is not reset)
NeverTurn(s, new, w) == s

\* The turn CongControl makes before it moves the window.
Turn(s, new, w) ==
    IF s.direction /= new /\ s.velocity > 1 THEN ChangeDirection(s, new, w) ELSE s

\* The values addition and reduction may take: a product of 64 bits, and a
\* conversion from double that is undefined when the quotient does not fit.
Steps(acked, velocity, w) ==
    LET quotient == (((acked * velocity) % Wrap) * InvDelta) \div w
    IN  IF quotient <= MaxWindow THEN {quotient} ELSE 0..MaxWindow

\* What an ACK makes of the window: its new values, and whether the assertion of
\* AddAndCheckOverflow holds.
Added(w, addition) ==
    [cWnd |-> IF w + addition <= MaxWindow THEN w + addition ELSE w,
     over |-> w + addition > MaxWindow]

\* (mutant: no minimum)
ReducedToZero(w, reduction) ==
    [cWnd |-> w - Smaller(w, reduction), over |-> FALSE]

Reduced(w, reduction) ==
    [cWnd |-> Larger(MinCwnd, w - Smaller(w, reduction)), over |-> FALSE]

-----------------------------------------------------------------------------
Init ==
    /\ congState = "OPEN" /\ cWnd = InitCwnd /\ ssThresh = 0
    /\ isSlowStart = TRUE /\ doubleAge = Unset /\ ackBytesRound = FALSE
    /\ velocityState = [direction |-> "None", velocity |-> 1, times |-> 0,
                        recorded |-> 0, age |-> Unset]
    /\ clear = TRUE
    /\ overflowed = FALSE /\ losses = 0 /\ same = 0

\* Simulator time.
Tick ==
    /\ ~overflowed
    /\ doubleAge' = IF doubleAge = Unset THEN Unset ELSE Smaller(doubleAge + 1, Srtt + 1)
    /\ velocityState' = [velocityState EXCEPT
           !.age = IF @ = Unset THEN Unset ELSE Smaller(@ + 1, Srtt)]
    /\ same' = IF velocityState.direction = "None" THEN 0
               ELSE Smaller(same + 1, Threshold * Srtt)
    /\ UNCHANGED <<socket, isSlowStart, ackBytesRound, clear, overflowed, losses>>

\* Other flows fill the queue, or leave it.
PathChanges ==
    /\ ~overflowed
    /\ clear' = ~clear
    /\ UNCHANGED <<socket, isSlowStart, doubleAge, ackBytesRound, velocityState,
                   overflowed, losses, same>>

\* ReTxTimeout: GetSsThresh is the window.
ReTxTimeout ==
    /\ ~overflowed
    /\ losses < MaxLosses /\ losses' = losses + 1
    /\ congState' = "LOSS"
    /\ \E resent \in BOOLEAN :      \* IsHeadRetransmitted
        ssThresh' = IF congState = "LOSS" /\ resent THEN ssThresh ELSE cWnd
    /\ cWnd' = 1
    /\ UNCHANGED <<isSlowStart, doubleAge, ackBytesRound, velocityState, clear,
                   overflowed, same>>

-----------------------------------------------------------------------------
\* (mutant: m_ackBytesRound is cleared before it is read)
NoDoubling(w, round) == 0

\* What slow start adds to the window, if a segment was acknowledged meanwhile.
Doubling(w, round) == IF round THEN w ELSE 0

\* The window doubles once per srtt in slow start; w is m_cWnd, s the velocity.
SlowStart(w, s, round) ==
    LET doubles == doubleAge /= Unset /\ doubleAge > Srtt
        new == Added(w, IF doubles THEN Doubling(w, round) ELSE 0)
    IN  /\ cWnd' = new.cWnd /\ overflowed' = new.over
        /\ ackBytesRound' = (round /\ ~doubles)
        /\ doubleAge' = IF doubles \/ doubleAge = Unset THEN 0 ELSE doubleAge
        /\ velocityState' = s
        /\ UNCHANGED isSlowStart

Increase(w, s, acked) ==
    \E addition \in Steps(acked, Turn(s, "Up", w).velocity, w) :
        /\ cWnd' = Added(w, addition).cWnd
        /\ overflowed' = Added(w, addition).over
        /\ ackBytesRound' = FALSE
        /\ velocityState' = Turn(s, "Up", w)
        /\ UNCHANGED <<isSlowStart, doubleAge>>

Decrease(w, s, acked) ==
    \E reduction \in Steps(acked, Turn(s, "Down", w).velocity, w) :
        /\ cWnd' = Reduced(w, reduction).cWnd
        /\ overflowed' = FALSE
        /\ ackBytesRound' = FALSE
        /\ isSlowStart' = FALSE
        /\ velocityState' = Turn(s, "Down", w)
        /\ UNCHANGED doubleAge

\* CongControl, when m_cWnd is w.
CongControl(w, acked, increase) ==
    LET s == IF increase /\ isSlowStart THEN velocityState
             ELSE CheckAndUpdateDirection(velocityState, w)
    IN  /\ IF ~increase THEN Decrease(w, s, acked)
           ELSE IF isSlowStart THEN SlowStart(w, s, ackBytesRound \/ acked > 0)
           ELSE Increase(w, s, acked)
        /\ same' = IF velocityState'.direction = velocityState.direction THEN same ELSE 0

\* ReceivedAck: a recovery that begins keeps the window in m_ssThresh, and one that
\* ends goes back to it, before CongControl is called.
ReceivedAck(acked, state) ==
    LET enters == congState = "OPEN" /\ state = "RECOVERY"
        w == IF congState = "RECOVERY" /\ state = "OPEN" THEN ssThresh ELSE cWnd
    IN  /\ congState' = state
        /\ ssThresh' = IF enters THEN cWnd ELSE ssThresh
        /\ losses' = IF enters THEN losses + 1 ELSE losses
        /\ \E increase \in IF w > Capacity THEN {FALSE}
                           ELSE IF clear THEN {TRUE} ELSE BOOLEAN :
               CongControl(w, acked, increase)

\* Recovery is entered on an ACK that SACKs data, and left on one that advances.
CongStateAfter(acked) ==
    {congState}
    \cup (IF acked > 0 /\ congState = "OPEN" /\ losses < MaxLosses
          THEN {"RECOVERY"} ELSE {})
    \cup (IF acked > 0 THEN {"OPEN"} ELSE {})

Acks(ackeds) ==
    /\ ~overflowed
    /\ \E acked \in ackeds : \E state \in CongStateAfter(acked) : ReceivedAck(acked, state)
    /\ UNCHANGED clear

Ack == Acks(0..MaxAcked)
Progress == Acks(1..MaxAcked)

Next == Tick \/ PathChanges \/ ReTxTimeout \/ Ack

Spec == Init /\ [][Next]_vars

\* A transfer that never runs out of data, whose segments keep being acknowledged.
FairSpec == Spec /\ WF_vars(Tick) /\ WF_vars(Progress)

-----------------------------------------------------------------------------
\* The velocity is the one the windows of the same direction account for, however
\* the direction has changed, within its width.
VelocityMatches ==
    LET s == velocityState
    IN  s.velocity = (IF s.times >= Threshold THEN Power[s.times - Threshold + 1] ELSE 1) % Wrap

\* A velocity gathered in one direction never moves the window in the other (the
\* comment before the first ChangeDirection).
FastOnlyAlong ==
    [][~isSlowStart /\ congState' = congState
        => /\ cWnd' > Larger(cWnd, MinCwnd)
              => velocityState'.direction = "Up" \/ velocityState'.velocity <= 1
           /\ cWnd' < cWnd /\ cWnd' /= 1
              => velocityState'.direction = "Down" \/ velocityState'.velocity <= 1]_vars

\* The velocity starts doubling when the direction has been the same for one srtt
\* less than the threshold: the first of its windows may have begun before it.
DoublesAfter ==
    [][velocityState'.velocity /= velocityState.velocity /\ velocityState'.velocity /= 1
        => same >= (Threshold - 1) * Srtt]_vars

\* The comment of CheckAndUpdateDirection, tcp-copa.cc:243: three RTTs.
DoublesAfterThreeRtts ==
    [][velocityState'.velocity /= velocityState.velocity /\ velocityState'.velocity /= 1
        => same >= 3 * Srtt]_vars

\* The assertion of AddAndCheckOverflow, tcp-copa.cc:20.
NoOverflow == ~overflowed

\* A flow left alone on its path leaves the minimum window, however long others have
\* kept it there: the comment before the first ChangeDirection (tcp-copa.cc:165) has
\* a velocity meant for the other direction reset to 1.
GrowsWhenClear == <>[]clear => []<>(cWnd > MinCwnd)

\* The same, if the velocity has not wrapped to zero on the way.
GrowsUnlessWrapped ==
    <>[](clear /\ velocityState.velocity > 0) => []<>(cWnd > MinCwnd)
=============================================================================
