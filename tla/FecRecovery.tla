---------------------------- MODULE FecRecovery ----------------------------
(***************************************************************************)
(* Loss recovery of TcpSocketBase with FEC: a paced sender of Segments     *)
(* full segments, its scoreboard (TcpTxBuffer), and a receiver, over a     *)
(* path that keeps the order of packets and may lose some.                 *)
(*                                                                         *)
(* The window is Window segments at most; congestion control may close it  *)
(* further, but for one segment.  Segments are numbered from zero.         *)
(***************************************************************************)
EXTENDS Integers, Sequences, FiniteSets, FiniteSetsExt

CONSTANTS
    Segments,           \* the segments of the transfer
    FecRatio,           \* m_fecRatio
    ReTxThreshold,      \* the initial m_retxThresh
    Window,             \* the largest window
    Debug,              \* whether a failed assertion stops the program
    MaxLosses,          \* bound: packets lost, either way
    MaxChannel          \* bound: packets on the path each way

ASSUME FecRecoveryAssumption ==
    /\ Segments \in Nat \ {0} /\ FecRatio \in Nat \ {0} /\ ReTxThreshold \in Nat \ {0}
    /\ Window \in Nat \ {0} /\ MaxLosses \in Nat /\ MaxChannel \in Nat \ {0}
    /\ Debug \in BOOLEAN

VARIABLES
    snd,        \* the sender, see TypeOK
    rcv,        \* the receiver: segments, delayed ACK, FEC report
    data,       \* the path to the receiver: segments, and blocks repaired
    acks,       \* the path back: what has been received, and the FEC report
    losses,
    asserts     \* the assertions that have failed

vars == <<snd, rcv, data, acks, losses, asserts>>

Report == {"NONE", "R_SUCCESS", "R_FAIL"}
NoSegment == -1

TypeOK ==
    /\ snd.una \in 0..snd.nxt                   \* HeadSequence
    /\ snd.nxt \in 0..Segments                  \* m_highTxMark
    /\ \A flag \in {snd.sacked, snd.lost, snd.retrans} :
           flag \subseteq snd.una..(snd.nxt - 1)
    /\ snd.sacked \cap snd.lost = {}
    /\ snd.congState \in {"OPEN", "DISORDER", "RECOVERY", "LOSS"}
    /\ snd.dupAckCount \in 0..(ReTxThreshold + FecRatio + Segments)
    /\ snd.retxThresh \in {ReTxThreshold, FecRatio}
    /\ snd.newRatio \in BOOLEAN                 \* m_fecNewRatio is set
    /\ snd.recover \in 0..snd.nxt
    /\ snd.recoverActive \in BOOLEAN
    /\ snd.fecCounter \in 0..FecRatio
    /\ snd.retxEvent \in BOOLEAN                \* the timer is running
    /\ rcv.got \subseteq 0..(snd.nxt - 1)
    /\ rcv.delayed \in BOOLEAN /\ rcv.report \in Report
    /\ losses \in 0..MaxLosses

-----------------------------------------------------------------------------
\* The scoreboard.
InFlight(s) ==
    (s.nxt - s.una) - Cardinality(s.sacked) - Cardinality(s.lost) + Cardinality(s.retrans)

\* UpdateLostCount: unSACKed segments below retxThresh SACKed ones.
LostBelow(s) ==
    {k \in s.una..(s.nxt - 1) : k \notin s.sacked
                                /\ Cardinality({j \in s.sacked : j > k}) >= s.retxThresh}

\* Update, from the SACK blocks of an ACK.
Update(s, sack) ==
    LET new == (sack \cap s.una..(s.nxt - 1)) \ s.sacked
        t == [s EXCEPT !.sacked = @ \cup new, !.lost = @ \ new]
    IN  IF new = {} THEN s ELSE [t EXCEPT !.lost = @ \cup LostBelow(t)]

DiscardUpTo(s, ack) ==
    LET kept == ack..(s.nxt - 1)
    IN  [s EXCEPT !.una = ack, !.sacked = @ \cap kept, !.lost = @ \cap kept,
                  !.retrans = @ \cap kept]

\* IsLost: of the segments from k on that are lost or SACKed, the first is lost; k is
\* below the highest SACKed one.
IsLost(s, k) ==
    LET marked == {j \in s.sacked \cup s.lost : j >= k}
    IN  marked /= {} /\ Min(marked) \in s.lost /\ \E j \in s.sacked : j > k

MarkHeadAsLost(s) ==
    [s EXCEPT !.lost = @ \cup {s.una}, !.sacked = @ \ {s.una}, !.retrans = @ \ {s.una}]

\* NextSeg: lost segments, new data, and in recovery any unSACKed segment.
NextSeg(s, isRecovery) ==
    LET again == s.lost \ s.retrans
        rule3 == (s.una..(s.nxt - 1)) \ (s.sacked \cup s.retrans)
    IN  IF again /= {} THEN Min(again)
        ELSE IF s.nxt < Segments THEN s.nxt
        ELSE IF isRecovery /\ rule3 /= {} THEN Min(rule3)
        ELSE NoSegment

-----------------------------------------------------------------------------
\* (mutant: the repair packet leaves the counter as it is)
SendFecPacketKept(s) == [s EXCEPT !.out = Append(@, <<"REPAIR", s.nxt - FecRatio>>)]

\* (mutant: the duplicate ACKs are not brought below the new threshold)
SendFecPacketUncapped(s) ==
    [s EXCEPT !.fecCounter = 0,
              !.out = Append(@, <<"REPAIR", s.nxt - FecRatio>>),
              !.newRatio = FALSE,
              !.retxThresh = IF s.newRatio THEN FecRatio ELSE @]

\* The repair packet of the last FecRatio segments, and the new threshold, which a
\* report of the receiver has prepared.
SendFecPacket(s) ==
    [s EXCEPT !.fecCounter = 0,
              !.out = Append(@, <<"REPAIR", s.nxt - FecRatio>>),
              !.newRatio = FALSE,
              !.retxThresh = IF s.newRatio THEN FecRatio ELSE @,
              !.dupAckCount = IF s.newRatio /\ @ >= FecRatio THEN FecRatio - 1 ELSE @]

\* SendDataPacket of segment k: its place may be taken by a repair packet.
SendDataPacket(s, k) ==
    IF s.fecCounter = FecRatio THEN SendFecPacket(s)
    ELSE [s EXCEPT !.out = Append(@, <<"DATA", k>>),
                   !.retxEvent = TRUE,
                   !.nxt = IF k = s.nxt THEN k + 1 ELSE @,
                   !.fecCounter = IF k = s.nxt THEN @ + 1 ELSE @,
                   !.retrans = IF k = s.nxt THEN @ ELSE @ \cup {k}]

DoRetransmit(s) ==
    LET next == NextSeg(s, FALSE)
    IN  SendDataPacket(s, IF next = NoSegment THEN s.una ELSE next)

CanSend(s) == NextSeg(s, s.congState = "RECOVERY") /= NoSegment /\ InFlight(s) < Window

\* One turn of the loop of SendPendingData: pacing allows no more.
SendNext(s) == SendDataPacket(s, NextSeg(s, s.congState = "RECOVERY"))

EnterRecovery(s) ==
    LET t == IF IsLost(s, s.una) THEN s ELSE MarkHeadAsLost(s)
    IN  DoRetransmit([t EXCEPT !.recover = s.nxt, !.recoverActive = TRUE,
                               !.congState = "RECOVERY"])

-----------------------------------------------------------------------------
\* What DupAck asserts of an ACK that SACKs new data.
DupAckCountAfter(s) ==
    IF s.congState = "RECOVERY" THEN s.dupAckCount ELSE s.dupAckCount + 1

FailedInDupAck(s) ==
    LET count == DupAckCountAfter(s)
    IN  (IF s.congState = "OPEN" /\ count /= 1 THEN {"open"} ELSE {})
        \cup (IF s.congState \in {"OPEN", "DISORDER"} /\ count > s.retxThresh
                 /\ ~s.recoverActive
              THEN {"threshold"} ELSE {})

\* DupAck; m_highRxAckMark is the ACK number already.
DupAck(s) ==
    LET count == DupAckCountAfter(s)
        t == [s EXCEPT !.dupAckCount = count, !.congState = "DISORDER"]
        enters == count = s.retxThresh /\ (s.una >= s.recover \/ ~s.recoverActive)
    IN  IF s.congState = "LOSS" THEN s
        ELSE IF s.congState = "RECOVERY" THEN [s EXCEPT !.dupAckCount = count]
        ELSE IF enters \/ IsLost(t, t.una + 1) THEN EnterRecovery(t) ELSE t

\* (mutant: the timer is cancelled and not scheduled again)
NewAckStops(s) == [s EXCEPT !.retxEvent = FALSE]

\* NewAck: the timer starts afresh, or stops when nothing is left.
NewAck(s) == [s EXCEPT !.retxEvent = s.una < Segments]

\* A partial ACK in recovery: the new head is retransmitted unless it has been.
PartialAck(s) ==
    IF s.una \in s.retrans \ s.sacked THEN s ELSE DoRetransmit(s)

\* The cumulative part of ProcessAck, for an ACK that advances.
Advance(s, isDupack) ==
    LET t == [s EXCEPT !.dupAckCount = IF isDupack THEN @ ELSE 0]
        settled == [t EXCEPT !.recoverActive = @ /\ t.una < t.recover]
    IN  IF t.una < t.recover /\ t.congState = "RECOVERY"
        THEN [PartialAck(t) EXCEPT !.retxEvent = @ /\ t.una < Segments]
        ELSE IF t.una < t.recover /\ t.congState = "LOSS" THEN NewAck(t)
        ELSE IF t.congState = "DISORDER" /\ isDupack THEN settled
        ELSE NewAck([settled EXCEPT !.congState = "OPEN",
                                    !.dupAckCount = IF t.congState = "RECOVERY" THEN 0 ELSE @])

\* ProcessAck.
ProcessAck(s, old, isDupack) ==
    LET t == IF isDupack THEN DupAck(s) ELSE s
    IN  IF t.una > old THEN Advance(t, isDupack) ELSE t

-----------------------------------------------------------------------------
Init ==
    /\ snd = [una |-> 0, nxt |-> 0, sacked |-> {}, lost |-> {}, retrans |-> {},
              congState |-> "OPEN", dupAckCount |-> 0, retxThresh |-> ReTxThreshold,
              newRatio |-> FALSE, recover |-> 0, recoverActive |-> FALSE,
              fecCounter |-> 0, retxEvent |-> FALSE, out |-> <<>>]
    /\ rcv = [got |-> {}, delayed |-> FALSE, report |-> "NONE"]
    /\ data = <<>> /\ acks = <<>>
    /\ losses = 0 /\ asserts = {}

Running == Debug => asserts = {}

\* The sender becomes s, and what it has sent is on the path.
Becomes(s) ==
    /\ Len(data) + Len(s.out) <= MaxChannel
    /\ snd' = [s EXCEPT !.out = <<>>]
    /\ data' = data \o s.out

\* The application writes, or the pacing timer expires.
SendPendingData ==
    /\ Running /\ CanSend(snd)
    /\ Becomes(SendNext(snd))
    /\ UNCHANGED <<rcv, acks, losses, asserts>>

\* Any window has room for a segment when nothing is in flight.
SendWhenIdle == InFlight(snd) = 0 /\ SendPendingData

\* (mutant: SACKed segments are taken for lost)
SetAllLost(s) == [s EXCEPT !.lost = s.una..(s.nxt - 1), !.retrans = {}]

SetSentListLost(s) ==
    [s EXCEPT !.lost = (s.una..(s.nxt - 1)) \ s.sacked, !.retrans = {}]

\* ReTxTimeout: the pacing timer is cancelled, and a single packet sent.
ReTxTimeout ==
    LET s == [SetSentListLost(snd) EXCEPT
                  !.dupAckCount = 0, !.recover = snd.nxt, !.recoverActive = TRUE,
                  !.congState = "LOSS", !.retxEvent = FALSE]
    IN  /\ Running /\ snd.retxEvent
        /\ Becomes(IF CanSend(s) THEN SendNext(s) ELSE s)
        /\ UNCHANGED <<rcv, acks, losses, asserts>>

\* The ratio is renewed when the last one is old enough. It stays what it was ("fixed
\* ratio"), but the repair packet that puts it to use takes it for the threshold.
ProcessOptionFecForAck(s, renews) == [s EXCEPT !.newRatio = @ \/ renews]

\* What the FEC option of an ACK does before anything else of it is read: a ratio renewed
\* here is there for a repair packet sent on this very ACK.
ProcessFecReport(s, report, renews) ==
    LET t == ProcessOptionFecForAck(s, renews)
    IN  IF report = "R_FAIL" THEN [t EXCEPT !.dupAckCount = t.retxThresh - 1] ELSE t

\* ReceivedAck; only a report can renew the ratio. (The sender on the way is bound by \E, not
\* LET, where TLC would evaluate it again at each use.)
ReceivedAck ==
    /\ Running /\ acks /= <<>>
    /\ \E renews, sends \in BOOLEAN :
         LET a == Head(acks)
             ack == Min((0..Segments) \ a.got)
             sack == {k \in a.got : k > ack}
             reported == ProcessFecReport(snd, a.report, renews)
             updated == Update(reported, sack)
             isDupack == updated.sacked /= reported.sacked
         IN  \E discarded \in {DiscardUpTo(updated, ack)} :
             \E done \in {ProcessAck(discarded, snd.una, isDupack)} :
                 LET failed == IF isDupack THEN FailedInDupAck(discarded) ELSE {}
                 IN  /\ renews => a.report /= "NONE"
                     /\ asserts' = asserts \cup failed
                     /\ IF Debug /\ failed /= {} THEN UNCHANGED <<snd, data>>
                        ELSE /\ sends => CanSend(done) /\ done.out = <<>>
                             /\ Becomes(IF sends THEN SendNext(done) ELSE done)
    /\ acks' = Tail(acks)
    /\ UNCHANGED <<rcv, losses>>

-----------------------------------------------------------------------------
\* The receiver with r once it has sent an ACK, or, if it may, delayed it.
Acknowledges(r, mayDelay) ==
    \/ /\ Len(acks) < MaxChannel
       /\ acks' = Append(acks, [got |-> r.got, report |-> r.report])
       /\ rcv' = [r EXCEPT !.delayed = FALSE, !.report = "NONE"]
    \/ /\ mayDelay /\ ~r.delayed
       /\ rcv' = [r EXCEPT !.delayed = TRUE]
       /\ UNCHANGED acks

InOrder(got) == got = 0..(Cardinality(got) - 1)

\* ReceivedData of a segment, or of a repair packet (FecReceiver has the detail); an
\* ACK that would be the first to wait may be sent at once or delayed.
ReceivedData ==
    /\ Running /\ data /= <<>>
    /\ data' = Tail(data)
    /\ LET k == Head(data)[2]
           block == k..(k + FecRatio - 1)
           repaired == rcv.got \cup block
       IN  IF Head(data)[1] = "DATA"
           THEN Acknowledges([rcv EXCEPT !.got = @ \cup {k}],
                             k \notin rcv.got /\ InOrder(rcv.got \cup {k})
                                 /\ InOrder(rcv.got))
           ELSE IF Cardinality(block \ rcv.got) <= 1
           THEN Acknowledges([rcv EXCEPT !.got = repaired, !.report = "R_SUCCESS"],
                             repaired /= rcv.got /\ InOrder(rcv.got) /\ InOrder(repaired))
           ELSE rcv' = [rcv EXCEPT !.report = "R_FAIL"] /\ UNCHANGED acks
    /\ UNCHANGED <<snd, losses, asserts>>

DelAckTimeout ==
    /\ Running /\ rcv.delayed
    /\ Acknowledges(rcv, FALSE)
    /\ UNCHANGED <<snd, data, losses, asserts>>

Lose ==
    /\ Running /\ losses < MaxLosses
    /\ losses' = losses + 1
    /\ \/ data /= <<>> /\ data' = Tail(data) /\ UNCHANGED acks
       \/ acks /= <<>> /\ acks' = Tail(acks) /\ UNCHANGED data
    /\ UNCHANGED <<snd, rcv, asserts>>

Next ==
    \/ SendPendingData \/ ReTxTimeout \/ ReceivedAck
    \/ ReceivedData \/ DelAckTimeout \/ Lose

Spec == Init /\ [][Next]_vars

\* The timers expire, and what is not lost arrives.
FairSpec ==
    /\ Spec
    /\ WF_vars(SendWhenIdle) /\ WF_vars(ReTxTimeout) /\ WF_vars(ReceivedAck)
    /\ WF_vars(ReceivedData) /\ WF_vars(DelAckTimeout)

-----------------------------------------------------------------------------
\* "From OPEN->DISORDER but with N dup ACKs", tcp-socket-base.cc:1706.
DisorderStartsAtOne == "open" \notin asserts

\* The duplicate ACKs counted stay within the threshold outside a recovery, the
\* assertion at tcp-socket-base.cc:1738, although the report of a failure sets the count
\* and a repair packet takes the ratio, larger or smaller, for the threshold, be it long
\* after the report that renewed the ratio or on the ACK that carries it.
CountWithinThreshold == "threshold" \notin asserts

\* Whatever is unacknowledged, a timer will bring it back.
NeverStalls ==
    snd.una < snd.nxt => snd.retxEvent \/ (InFlight(snd) = 0 /\ CanSend(snd))

\* "Retransmit the first data segment presumed dropped", tcp-socket-base.cc:1672:
\* recovery begins with a retransmission.
RecoveryRetransmits ==
    [][snd.congState /= "RECOVERY" /\ snd'.congState = "RECOVERY" => snd'.retrans /= {}]_vars

\* The transfer completes, in spite of losses.
Completes == <>(snd.una = Segments)
=============================================================================
