------------------------------- MODULE ScUdp -------------------------------
(***************************************************************************)
(* One SC-UDP transfer: the server, the client and the path between them.  *)
(***************************************************************************)
EXTENDS StreamServer, StreamClient

vars == <<serverVars, clientVars, netVars>>

Init == ServerInit /\ ClientInit /\ NetInit

ServerStep == \/ SendParameter
              \/ ParamAckRecv
              \/ SendDataPackets
              \/ NotifyPacingPerformed
              \/ SendLoopExit
              \/ SendSource
              \/ SendRepair
              \/ SendLoopSpin
              \/ AckRecv
              \/ CompleteSend

ClientStep == ParameterRecv \/ DataRecv

Next == \/ ServerStep /\ UNCHANGED clientVars
        \/ ClientStep /\ UNCHANGED serverVars
        \/ Lose /\ UNCHANGED <<serverVars, clientVars>>

Spec == Init /\ [][Next]_vars

\* The event loop runs every pending event, the path delivers what it does not
\* lose; nothing obliges it to lose.
Fairness == /\ WF_vars(SendParameter /\ UNCHANGED clientVars)
            /\ WF_vars(ParamAckRecv /\ UNCHANGED clientVars)
            /\ WF_vars(SendDataPackets /\ UNCHANGED clientVars)
            /\ WF_vars(NotifyPacingPerformed /\ UNCHANGED clientVars)
            /\ WF_vars((SendLoopExit \/ SendSource \/ SendRepair)
                          /\ UNCHANGED clientVars)
            /\ WF_vars(AckRecv /\ UNCHANGED clientVars)
            /\ WF_vars(CompleteSend /\ UNCHANGED clientVars)
            /\ WF_vars(ParameterRecv /\ UNCHANGED serverVars)
            /\ WF_vars(DataRecv /\ UNCHANGED serverVars)

FairSpec == Spec /\ Fairness

----------------------------------------------------------------------------
(* Safety.                                                                 *)

\* The variables have their types.
TypeOK == ServerTypeOK /\ ClientTypeOK /\ NetTypeOK

\* The encoder never drops a source packet the decoder may still need: the
\* window it encodes over, now and in every repair packet in flight, starts no
\* later than the first packet not yet delivered (PacketAckRecv flushes on what
\* ACKs, possibly late or reordered ones, report).
FlushSafe ==
    /\ enc.headsid <= dec.inorder + 1
    /\ \A p \in dataNet : p.type = "repair" => p.ws <= dec.inorder + 1
    /\ \A a \in ackNet : a.inorder <= dec.inorder

\* Every acknowledged packet has its record in m_pktInfoQueue, so InfoQueue::find
\* never runs off the end of its branches, which return nothing.
AckKnown ==
    \A a \in ackNet : \E i \in info : i.type = a.type /\ i.id = a.id

\* PacketRecv never meets a missing decoder: no data is in flight before the
\* client has made one.
DecoderReady == dataNet # {} => decReady

\* The server stops only after the client has the whole transfer.
ClosedOnlyWhenDelivered == ~open => dec.inorder >= N - 1

\* The COMPLETE packet is never put on the wire (PacketAckRecv only schedules
\* CompleteSend and closes the socket at once), so the client's StopRecv is never
\* reached.
NoComplete == ~completeNet

\* What is delivered in order never shrinks, whatever late PARAMETER, repeated
\* handshake or reordered packet arrives; the decoder is never lost.
NoRegress == dec'.inorder >= dec.inorder /\ (decReady => decReady')

InorderMonotone == [][NoRegress]_vars

\* The packets and acknowledgements outstanding on the path never exceed the
\* largest window: m_packetsInFlight, recomputed from the ids of the last ACKed
\* packets, does not underestimate the pipe.  (On a path that keeps order.)
PipeWithinWindow ==
    \E w \in CWnds : Cardinality(dataNet) + Cardinality(ackNet) <= w

\* m_packetsInFlight never counts less than the data packets on their way.
PipeCounted == open => Cardinality(dataNet) + Cardinality(ackNet) <= packetsInFlight

\* The estimators are fed sane numbers: the loss PeEstimation computes is never
\* negative, and every ACK to come counts more packets than the last one did, so
\* m_newAcked is positive.  (On a path that keeps order.)
EstimatesSane ==
    /\ totalLoss >= 0
    /\ \A a \in ackNet :
          Received(a) > lastAckedState.nSource + lastAckedState.nRepair

----------------------------------------------------------------------------
(* What the comments say of the code (see the findings of the README).     *)

\* stream-server.h: PARAMETER is repeated until the client confirms it.
ParameterOnlyUntilAcked == [][prmNet' > prmNet => ~paramAcked]_vars

\* stream-server-app.cc: with pacing, sending is controlled by the pacing timer:
\* nothing is sent while it runs.
SendsOnlyWhenPaced ==
    [][Pacing /\ (\E p \in dataNet' : p \notin dataNet) => ~pacingTimer]_vars

----------------------------------------------------------------------------
(* The inductive invariant behind the safety properties.                   *)

\* The decoder's window is ahead of what it delivered, and the decoder is
\* untouched until the first data packet.
DecoderSound == /\ -1 <= dec.inorder
                /\ dec.inorder <= dec.win_e
                /\ ~established => dec = InitDecoder

\* Data flows only after a parameter acknowledgement came back, which only a
\* client with a decoder sends.
Handshake ==
    /\ ackPrmNet > 0 \/ paramAcked => decReady
    /\ nowSend \/ sending \/ pacingTimer \/ dataNet # {} \/ ackNet # {} => paramAcked

\* Every packet in flight, and every packet acknowledged, has its record.
RecordsKept ==
    \A p \in dataNet \union ackNet : \E i \in info : i.type = p.type /\ i.id = p.id

\* CompleteSend is pending only on a closed socket.
CloseSound == /\ nowComplete => ~open
              /\ ClosedOnlyWhenDelivered
              /\ NoComplete

\* The encoder and the application agree on what was sent, which is never more
\* than the transfer, and the client and the path know of nothing beyond it.
SentSound == /\ lastSent["source"] = enc.nextsid - 1
             /\ enc.nextsid <= N
             /\ dec.win_e < enc.nextsid
             /\ \A p \in dataNet : p.we < enc.nextsid

IInv == /\ TypeOK /\ DecoderSound /\ Handshake
        /\ FlushSafe /\ RecordsKept /\ CloseSound /\ SentSound

----------------------------------------------------------------------------
(* What keeps the counts right on a path that keeps order.                 *)

\* The packets the client has counted.
Counted == nSource + nRepair

\* Ids and records follow the order of sending, on any path.
Numbered ==
    /\ lastSent["repair"] = enc.rcount - 1
    /\ packetsInFlight = InFlight(lastSent, lastAcked)
    /\ \A t \in PacketType : lastAcked[t] <= lastSent[t]
    /\ \A i \in info : i.id <= lastSent[i.type]
    /\ \A p \in dataNet :
          /\ p.seq < enc.nextsid + enc.rcount
          /\ \A i \in info : i.type = p.type /\ i.id = p.id => i.id + i.other = p.seq

SameId(x, y) == x.type = y.type /\ x.id = y.id

Precedes(x, y) == x.type = y.type /\ x.id < y.id

\* Packets and acknowledgements travel in the order of their ids, none twice, those
\* of acknowledgements ahead of those of packets, and all behind the last ACKed ids.
InOrder ==
    /\ \A p, q \in dataNet : (SameId(p, q) => p = q) /\ (Precedes(p, q) => p.seq < q.seq)
    /\ \A a, b \in ackNet :
          /\ SameId(a, b) \/ Received(a) = Received(b) => a = b
          /\ Precedes(a, b) => Received(a) < Received(b)
    /\ \A a \in ackNet, p \in dataNet : a.type = p.type => a.id < p.id
    /\ \A x \in dataNet \union ackNet : lastAcked[x.type] < x.id

\* The client has counted no more than was sent before any packet in flight, and
\* has said so in order.
CountsInOrder ==
    /\ lastAckedN = Counted
    /\ Counted <= enc.nextsid + enc.rcount
    /\ \A p, q \in dataNet : p.seq = q.seq => p = q
    /\ \A p \in dataNet : Counted <= p.seq
    /\ lastAckedState.nSource + lastAckedState.nRepair <= Counted
    /\ \A a \in ackNet :
          /\ Received(a) <= Counted
          /\ \A i \in info : SameId(i, a) => Received(a) <= SentUpTo(a, i)
    /\ EstimatesSane

OrderedInv == Numbered /\ InOrder /\ CountsInOrder

----------------------------------------------------------------------------
(* Refinement.                                                             *)

Stream == INSTANCE ReliableStream
            WITH sent <- enc.nextsid, delivered <- dec.inorder + 1,
                 released <- enc.headsid, closed <- ~open

\* A transfer implements the reliable stream: in-order delivery of what was sent,
\* release only of what is delivered, close only when all is delivered, each of
\* them in steps of its own.
ImplementsStream == Stream!Spec

----------------------------------------------------------------------------
(* Liveness.                                                               *)

\* src/README.md: reliable packet transportation.
Reliable == <>Delivered

\* On an ordered path that loses fewer packets than the initial window, the
\* transfer completes unless the send loop spins on an empty encoding window.
DeliversUnlessSpinning == <>(Delivered \/ Spinning)
=============================================================================
