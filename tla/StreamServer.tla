--------------------------- MODULE StreamServer ---------------------------
(***************************************************************************)
(* StreamServerApp, the sender.  ns-3 runs one event at a time: an action  *)
(* is one event (a datagram read by HandleRead, a ScheduleNow call, a      *)
(* timer), except that each turn of the loop of SendDataPackets is an      *)
(* action of its own, during which no other event of the server runs.      *)
(***************************************************************************)
EXTENDS ScUdpNet

CONSTANTS
    InitCWnd,       \* m_initCWnd (10 in the code)
    CWnds,          \* the windows UpdateCWnd may compute
    Targets,        \* percentages m_lossRate + m_extraRepair may amount to
    Pacing          \* m_pacing

ASSUME ServerAssumption == /\ InitCWnd \in Nat \ {0}
                           /\ CWnds \subseteq Nat
                           /\ \A w \in CWnds : w >= InitCWnd
                           /\ Targets \subseteq Nat
                           /\ Pacing \in BOOLEAN

VARIABLES
    open,               \* m_socket has not been closed
    paramAcked,         \* m_paramAcked
    paramTimer,         \* a SendParameter event is pending
    nowSend,            \* a SendDataPackets event is pending (ScheduleNow)
    nowComplete,        \* a CompleteSend event is pending (ScheduleNow)
    sending,            \* inside the loop of SendDataPackets
    pacingTimer,        \* m_pacingTimer is running
    cWnd,               \* m_cWnd
    packetsInFlight,    \* m_packetsInFlight
    target,             \* m_lossRate + m_extraRepair, in percent
    totalLoss,          \* the loss PeEstimation last computed
    lastSent,           \* m_lastSentSourceId, m_lastSentRepairId
    lastAcked,          \* m_lastAckedSourceId, m_lastAckedRepairId
    lastAckedState,     \* m_lastAckedInorderId, ...SourceNum, ...RepairNum
    info,               \* m_pktInfoQueue: every packet sent
    enc                 \* *m_enc

serverVars == <<open, paramAcked, paramTimer, nowSend, nowComplete, sending,
                pacingTimer, cWnd, packetsInFlight, target, totalLoss,
                lastSent, lastAcked, lastAckedState, info, enc>>

Encoder == [headsid : Nat, nextsid : Nat, rcount : Nat]

PacketInfo == [type : PacketType, id : Nat, other : Nat]

IdPair == [PacketType -> Int]

AckState == [inorder : Int, nSource : Nat, nRepair : Nat]

ServerTypeOK ==
    /\ open \in BOOLEAN
    /\ paramAcked \in BOOLEAN
    /\ paramTimer \in BOOLEAN
    /\ nowSend \in BOOLEAN
    /\ nowComplete \in BOOLEAN
    /\ sending \in BOOLEAN
    /\ pacingTimer \in BOOLEAN
    /\ cWnd \in Nat
    /\ packetsInFlight \in Int
    /\ target \in Nat
    /\ totalLoss \in Int
    /\ lastSent \in IdPair
    /\ lastAcked \in IdPair
    /\ lastAckedState \in AckState
    /\ info \subseteq PacketInfo
    /\ enc \in Encoder

\* Construction and StartApplication, up to its ScheduleNow of SendParameter.
ServerInit ==
    /\ open = TRUE
    /\ paramAcked = FALSE
    /\ paramTimer = TRUE
    /\ nowSend = FALSE
    /\ nowComplete = FALSE
    /\ sending = FALSE
    /\ pacingTimer = FALSE
    /\ cWnd = InitCWnd
    /\ packetsInFlight = 0
    /\ target \in Targets
    /\ totalLoss = 0
    /\ lastSent = [t \in PacketType |-> -1]
    /\ lastAcked = [t \in PacketType |-> -1]
    /\ lastAckedState = [inorder |-> -1, nSource |-> 0, nRepair |-> 0]
    /\ info = {}
    /\ enc = InitEncoder

\* What ScheduleNow posted runs before the next datagram is read: the link hands
\* over one packet at a time, and time passes between two of them.
Quiet == ~sending /\ ~nowSend /\ ~nowComplete

----------------------------------------------------------------------------
(* The handshake.                                                          *)

\* (mutant: PARAMETER is sent only once)
SendsParameterOnce == FALSE

\* SendParameter looks at m_paramAcked only after it has sent, to decide on
\* the next round.
SendsParameterAgain == ~paramAcked

SendParameter ==
    /\ ~sending
    /\ paramTimer
    /\ prmNet + ackPrmNet < MaxPrm
    /\ prmNet' = IF open THEN prmNet + 1 ELSE prmNet
    /\ paramTimer' = SendsParameterAgain
    /\ UNCHANGED <<open, paramAcked, nowSend, nowComplete, sending, pacingTimer,
                   cWnd, packetsInFlight, target, totalLoss, lastSent, lastAcked,
                   lastAckedState, info, enc,
                   dataNet, ackNet, ackPrmNet, completeNet, losses>>

\* HandleRead, ACK_PRM: the first one starts the data phase, the others change
\* nothing.  (ParamAckRecv compares up to the first zero byte and so always
\* succeeds: the branch that resends PARAMETER at once is never taken.)
ParamAckRecv ==
    /\ Quiet
    /\ ackPrmNet > 0
    /\ ackPrmNet' = ackPrmNet - 1
    /\ IF open /\ ~paramAcked
       THEN paramAcked' = TRUE /\ nowSend' = TRUE
       ELSE UNCHANGED <<paramAcked, nowSend>>
    /\ UNCHANGED <<open, paramTimer, nowComplete, sending, pacingTimer, cWnd,
                   packetsInFlight, target, totalLoss, lastSent, lastAcked,
                   lastAckedState, info, enc,
                   dataNet, ackNet, prmNet, completeNet, losses>>

----------------------------------------------------------------------------
(* SendDataPackets.                                                        *)

\* (mutant: one packet too many)
LoopOverLate == \/ packetsInFlight > cWnd
                \/ Pacing /\ cWnd # InitCWnd /\ pacingTimer

\* The loop's condition, and its break on a running pacing timer, which is
\* looked at only when the window is not the initial one.
LoopOver == \/ packetsInFlight >= cWnd
            \/ Pacing /\ cWnd # InitCWnd /\ pacingTimer

\* (mutant: the last source packet is not recognised)
TimeToSendRepairNever ==
    LET s == lastSent["source"] + 1
        r == lastSent["repair"] + 1
    IN  \/ lastSent["source"] = N
        \/ 100 * r < target * (s + r)

\* A repair packet is due once every source packet was sent, and before that
\* whenever the share of repair packets sent is below the target.
TimeToSendRepairPacket ==
    LET s == lastSent["source"] + 1
        r == lastSent["repair"] + 1
    IN  \/ lastSent["source"] = N - 1
        \/ 100 * r < target * (s + r)

\* A ScheduleNow(SendDataPackets) event starts the loop.
SendDataPackets ==
    /\ ~sending
    /\ nowSend
    /\ nowSend' = FALSE
    /\ sending' = TRUE
    /\ UNCHANGED <<open, paramAcked, paramTimer, nowComplete, pacingTimer, cWnd,
                   packetsInFlight, target, totalLoss, lastSent, lastAcked,
                   lastAckedState, info, enc, netVars>>

\* The pacing timer expires and its function calls SendDataPackets.
NotifyPacingPerformed ==
    /\ ~sending
    /\ pacingTimer
    /\ pacingTimer' = FALSE
    /\ sending' = TRUE
    /\ UNCHANGED <<open, paramAcked, paramTimer, nowSend, nowComplete, cWnd,
                   packetsInFlight, target, totalLoss, lastSent, lastAcked,
                   lastAckedState, info, enc, netVars>>

SendLoopExit ==
    /\ sending
    /\ LoopOver
    /\ sending' = FALSE
    /\ UNCHANGED <<open, paramAcked, paramTimer, nowSend, nowComplete, pacingTimer,
                   cWnd, packetsInFlight, target, totalLoss, lastSent, lastAcked,
                   lastAckedState, info, enc, netVars>>

\* (mutant: id and count swapped)
RecordSwapped(p, other) == [type |-> p.type, id |-> other, other |-> p.id]

\* The record of p in m_pktInfoQueue: other is the number of packets of the other
\* kind sent so far.
Record(p, other) == [type |-> p.type, id |-> p.id, other |-> other]

\* Sending p, and its record.  A closed socket refuses the packet, and nobody
\* looks at the result.  With pacing, a timer that is not running is started and
\* ends the loop.
Transmit(p, other) ==
    /\ dataNet' = IF open THEN dataNet \union {p} ELSE dataNet
    /\ info' = info \union {Record(p, other)}
    /\ lastSent' = [lastSent EXCEPT ![p.type] = p.id]
    /\ packetsInFlight' = packetsInFlight + 1
    /\ IF Pacing /\ ~pacingTimer
       THEN pacingTimer' = TRUE /\ sending' = FALSE
       ELSE UNCHANGED <<pacingTimer, sending>>
    /\ UNCHANGED <<open, paramAcked, paramTimer, nowSend, nowComplete, cWnd, target,
                   totalLoss, lastAcked, lastAckedState,
                   ackNet, prmNet, ackPrmNet, completeNet, losses>>

SendSource ==
    /\ sending /\ ~LoopOver
    /\ ~TimeToSendRepairPacket
    /\ Transmit(SourcePacket(enc), enc.rcount)
    /\ enc' = [enc EXCEPT !.nextsid = @ + 1]

SendRepair ==
    /\ sending /\ ~LoopOver
    /\ TimeToSendRepairPacket
    /\ ~WindowEmpty(enc)
    /\ Transmit(RepairPacket(enc), enc.nextsid)
    /\ enc' = [enc EXCEPT !.rcount = @ + 1]

\* A repair packet is due but the encoder has nothing to encode: the library
\* returns NULL, the loop changes nothing and tries again, for ever.
Spinning == sending /\ ~LoopOver /\ TimeToSendRepairPacket /\ WindowEmpty(enc)

SendLoopSpin == Spinning /\ UNCHANGED <<serverVars, netVars>>

----------------------------------------------------------------------------
(* PacketAckRecv.                                                          *)

\* The counters an ACK reports, compared with those of the ACK before it.
StateOf(a) == [inorder |-> a.inorder, nSource |-> a.nSource, nRepair |-> a.nRepair]

NothingNew(a) == lastAckedState = StateOf(a)

\* (mutant: ids start at 0)
SentUpToShort(a, i) == a.id + i.other

\* Packets sent up to and including the acknowledged one, whose record is i.
SentUpTo(a, i) == (a.id + 1) + i.other

\* PeEstimation: sent so far minus received so far.
PeEstimation(a, i) == SentUpTo(a, i) - Received(a)

\* (mutants: one kind of packet is left out of one of the counts)
InFlightSources(sent, acked) == sent["source"] - acked["source"]
InFlightAllRepairs(sent, acked) ==
    (sent["source"] - acked["source"]) + (sent["repair"] + 1)

\* m_packetsInFlight as PacketAckRecv recomputes it from the last ids.
InFlight(sent, acked) ==
    (sent["source"] - acked["source"]) + (sent["repair"] - acked["repair"])

\* (mutant: off by one)
AllAckedEarly(a) == a.inorder >= N - 2

AllAcked(a) == a.inorder >= N - 1

\* (mutant: flushes the packet the decoder is waiting for)
FlushOnAckAhead(a) == IF a.inorder >= 0 /\ ~AllAcked(a)
                      THEN FlushAcked(enc, a.inorder + 1) ELSE enc

\* flush_acked_packets, called while some packet is still missing.
FlushOnAck(a) == IF a.inorder >= 0 /\ ~AllAcked(a) THEN FlushAcked(enc, a.inorder)
                                                   ELSE enc

\* StopApplication closes the socket and cancels the pacing timer.
StopApplication == open' = FALSE /\ pacingTimer' = FALSE

\* An ACK read from the open socket.  The record of its packet is looked up in
\* m_pktInfoQueue (AckKnown says it is there).
PacketAckRecv(a) ==
    IF NothingNew(a)
    THEN UNCHANGED serverVars
    ELSE \E i \in info :
           /\ i.type = a.type /\ i.id = a.id
           /\ lastAckedState' = StateOf(a)
           /\ lastAcked' = [lastAcked EXCEPT ![a.type] = a.id]
           /\ totalLoss' = PeEstimation(a, i)
           /\ target' \in Targets
           /\ packetsInFlight' = InFlight(lastSent, lastAcked')
           /\ cWnd' \in CWnds
           /\ enc' = FlushOnAck(a)
           /\ nowComplete' = (nowComplete \/ AllAcked(a))
           /\ IF AllAcked(a) THEN StopApplication
                             ELSE UNCHANGED <<open, pacingTimer>>
           /\ IF cWnd' > packetsInFlight' THEN nowSend' = TRUE ELSE UNCHANGED nowSend
           /\ UNCHANGED <<paramAcked, paramTimer, sending, lastSent, info>>

\* HandleRead, INORDER; a closed socket drops the packet.
AckRecv == \E a \in DeliverableAcks :
    /\ Quiet
    /\ ackNet' = ackNet \ {a}
    /\ IF open THEN PacketAckRecv(a) ELSE UNCHANGED serverVars
    /\ UNCHANGED <<dataNet, prmNet, ackPrmNet, completeNet, losses>>

\* CompleteSend: the COMPLETE packet goes out if the socket is still open.
CompleteSend ==
    /\ ~sending
    /\ nowComplete
    /\ nowComplete' = FALSE
    /\ completeNet' = (completeNet \/ open)
    /\ UNCHANGED <<open, paramAcked, paramTimer, nowSend, sending, pacingTimer, cWnd,
                   packetsInFlight, target, totalLoss, lastSent, lastAcked,
                   lastAckedState, info, enc,
                   dataNet, ackNet, prmNet, ackPrmNet, losses>>
=============================================================================
