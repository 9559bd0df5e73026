---------------------------- MODULE ScUdpProofs ----------------------------
(***************************************************************************)
(* Safety of an SC-UDP transfer for every number of packets, every window, *)
(* every loss and both kinds of path, reordering included.                 *)
(***************************************************************************)
EXTENDS ScUdp, FiniteSetTheorems, TLAPS

USE DEF PacketType

----------------------------------------------------------------------------
(* The codec's operators stay in their types.                              *)

\* The two packets the encoder can output are packets, the repair one only when
\* its window is not empty.
LEMMA EncoderOutputs ==
    ASSUME NEW e \in Encoder
    PROVE  /\ SourcePacket(e) \in Packet
           /\ ~WindowEmpty(e) => RepairPacket(e) \in Packet
           /\ [e EXCEPT !.nextsid = @ + 1] \in Encoder
           /\ [e EXCEPT !.rcount = @ + 1] \in Encoder
  BY DEF Encoder, SourcePacket, RepairPacket, Packet, WindowEmpty

\* Receiving a packet leaves a decoder, whose in-order index does not go back.
LEMMA DecoderReceives ==
    ASSUME NEW d \in Decoder, d.inorder <= d.win_e, NEW p \in Packet
    PROVE  /\ ReceivePacket(d, p) \in Decoder
           /\ ReceivePacket(d, p).inorder >= d.inorder
           /\ ReceivePacket(d, p).inorder <= ReceivePacket(d, p).win_e
<1> DEFINE b == Buffered(d, p)
<1>1. b \in Decoder /\ b.inorder = d.inorder /\ b.win_e >= d.win_e
  <2>1. /\ d.inorder \in Int /\ d.win_e \in Int /\ d.got \subseteq Nat
        /\ d.reps \subseteq [id : Nat, we : Nat]
    BY DEF Decoder
  <2>2. p.id \in Nat /\ p.we \in Nat
    BY DEF Packet
  <2>3. b.inorder = d.inorder /\ b.win_e >= d.win_e
    BY <2>1, <2>2 DEF Buffered
  <2>4. b.inorder \in Int /\ b.win_e \in Int
    BY <2>1, <2>2 DEF Buffered
  <2>5. b.got \subseteq Nat
    BY <2>1, <2>2 DEF Buffered
  <2>6. b.reps \subseteq [id : Nat, we : Nat]
    BY <2>1, <2>2 DEF Buffered
  <2>7. b = [inorder |-> b.inorder, win_e |-> b.win_e, got |-> b.got,
             reps |-> b.reps]
    BY DEF Buffered
  <2> HIDE DEF b
  <2> QED  BY <2>3, <2>4, <2>5, <2>6, <2>7 DEF Decoder
<1>2. CASE p.we <= d.inorder
  <2>1. ReceivePacket(d, p) = d
    BY <1>2 DEF ReceivePacket
  <2> QED  BY <2>1 DEF Decoder
<1>3. CASE ~(p.we <= d.inorder) /\ Decodable(b)
  <2>1. ReceivePacket(d, p)
          = [inorder |-> b.win_e, win_e |-> b.win_e, got |-> {}, reps |-> {}]
    BY <1>3 DEF ReceivePacket
  <2> HIDE DEF b
  <2> QED  BY <2>1, <1>1 DEF Decoder
<1>4. CASE ~(p.we <= d.inorder) /\ ~Decodable(b)
  <2>1. ReceivePacket(d, p) = b
    BY <1>4 DEF ReceivePacket
  <2> HIDE DEF b
  <2> QED  BY <2>1, <1>1 DEF Decoder
<1> QED  BY <1>2, <1>3, <1>4

----------------------------------------------------------------------------
(* Type correctness.                                                       *)

LEMMA InitType == Init => TypeOK /\ DecoderSound
<1> SUFFICES ASSUME Init PROVE TypeOK /\ DecoderSound
  OBVIOUS
<1>1. ServerTypeOK
  <2> USE DEF Init, ServerInit
  <2>1. /\ open \in BOOLEAN /\ paramAcked \in BOOLEAN /\ paramTimer \in BOOLEAN
        /\ nowSend \in BOOLEAN /\ nowComplete \in BOOLEAN /\ sending \in BOOLEAN
        /\ pacingTimer \in BOOLEAN
    BY Zenon
  <2>2. cWnd \in Nat /\ packetsInFlight \in Int /\ target \in Nat /\ totalLoss \in Int
    BY ServerAssumption
  <2>3. lastSent \in IdPair /\ lastAcked \in IdPair
    BY DEF IdPair
  <2>4. lastAckedState \in AckState /\ info \subseteq PacketInfo /\ enc \in Encoder
    BY DEF AckState, InitEncoder, Encoder
  <2> QED  BY <2>1, <2>2, <2>3, <2>4 DEF ServerTypeOK
<1>2. ClientTypeOK
  <2>1. dec \in Decoder /\ nSource \in Nat /\ nRepair \in Nat /\ lastAckedN \in Nat
    BY DEF Init, ClientInit, InitDecoder, Decoder
  <2>2. decReady \in BOOLEAN /\ established \in BOOLEAN
    BY Zenon DEF Init, ClientInit
  <2> QED  BY <2>1, <2>2 DEF ClientTypeOK
<1>3. NetTypeOK
  BY DEF Init, NetInit, NetTypeOK
<1>4. DecoderSound
  BY DEF Init, ClientInit, DecoderSound, InitDecoder
<1> QED  BY <1>1, <1>2, <1>3, <1>4 DEF TypeOK

\* What Transmit leaves behind, for whichever packet it sends.
LEMMA TransmitType ==
    ASSUME TypeOK, NEW p \in Packet, NEW other \in Nat, Transmit(p, other)
    PROVE  /\ dataNet' \subseteq Packet /\ info' \subseteq PacketInfo
           /\ lastSent' \in IdPair /\ packetsInFlight' \in Int
           /\ pacingTimer' \in BOOLEAN /\ sending' \in BOOLEAN
<1>1. dataNet' \subseteq Packet
  BY DEF Transmit, TypeOK, NetTypeOK
<1>2. p.type \in PacketType /\ p.id \in Nat
  BY DEF Packet
<1>3. info' \subseteq PacketInfo
  BY <1>2 DEF Transmit, Record, TypeOK, ServerTypeOK, PacketInfo
<1>4. lastSent' \in IdPair
  BY <1>2 DEF Transmit, TypeOK, ServerTypeOK, IdPair
<1>5. packetsInFlight' \in Int
  BY DEF Transmit, TypeOK, ServerTypeOK
<1>6. pacingTimer' \in BOOLEAN /\ sending' \in BOOLEAN
  BY Zenon DEF Transmit, TypeOK, ServerTypeOK
<1> QED  BY <1>1, <1>3, <1>4, <1>5, <1>6

LEMMA FlushType ==
    ASSUME NEW e \in Encoder, NEW k \in Int, k >= 0
    PROVE  FlushAcked(e, k) \in Encoder
  BY DEF FlushAcked, Encoder

\* An acknowledgement keeps the server's types.
LEMMA AckType ==
    ASSUME TypeOK, NEW a \in Ack, PacketAckRecv(a)
    PROVE  ServerTypeOK'
<1> USE DEF TypeOK
<1>1. CASE NothingNew(a)
  BY <1>1 DEF PacketAckRecv, ServerTypeOK, serverVars
<1>2. CASE ~NothingNew(a)
  <2>1. PICK i \in info :
           /\ lastAckedState' = StateOf(a)
           /\ lastAcked' = [lastAcked EXCEPT ![a.type] = a.id]
           /\ totalLoss' = PeEstimation(a, i)
           /\ target' \in Targets
           /\ packetsInFlight' = InFlight(lastSent, lastAcked')
           /\ cWnd' \in CWnds
           /\ enc' = FlushOnAck(a)
           /\ nowComplete' = (nowComplete \/ AllAcked(a))
           /\ IF AllAcked(a) THEN StopApplication
                             ELSE UNCHANGED <<open, pacingTimer>>
           /\ IF cWnd' > packetsInFlight' THEN nowSend' = TRUE ELSE UNCHANGED nowSend
           /\ UNCHANGED <<paramAcked, paramTimer, sending, lastSent, info>>
    BY <1>2, Zenon DEF PacketAckRecv
  <2>2. /\ a.type \in PacketType /\ a.id \in Nat /\ a.inorder \in Int
        /\ a.nSource \in Nat /\ a.nRepair \in Nat /\ i.other \in Nat
    BY DEF Ack, ServerTypeOK, PacketInfo
  <2>3. lastAckedState' \in AckState
    BY <2>1, <2>2 DEF StateOf, AckState
  <2>4. lastAcked' \in IdPair
    BY <2>1, <2>2 DEF ServerTypeOK, IdPair
  <2>5. totalLoss' \in Int
    BY <2>1, <2>2 DEF PeEstimation, SentUpTo, Received
  <2>6. packetsInFlight' \in Int
    BY <2>1, <2>4 DEF InFlight, ServerTypeOK, IdPair
  <2>7. target' \in Nat /\ cWnd' \in Nat
    BY <2>1, ServerAssumption
  <2>8. enc' \in Encoder
    BY <2>1, <2>2, FlushType DEF FlushOnAck, ServerTypeOK
  <2>9. /\ open' \in BOOLEAN /\ pacingTimer' \in BOOLEAN
        /\ nowComplete' \in BOOLEAN /\ nowSend' \in BOOLEAN
    <3>1. open' \in BOOLEAN /\ pacingTimer' \in BOOLEAN
      BY <2>1, Zenon DEF ServerTypeOK, StopApplication
    <3>2. nowComplete' \in BOOLEAN
      BY <2>1, Zenon
    <3>3. nowSend' \in BOOLEAN
      BY <2>1, Zenon DEF ServerTypeOK
    <3> QED  BY <3>1, <3>2, <3>3, Zenon
  <2> QED
    BY <2>1, <2>3, <2>4, <2>5, <2>6, <2>7, <2>8, <2>9 DEF ServerTypeOK
<1> QED  BY <1>1, <1>2

\* An acknowledgement the client sends is one.
LEMMA InorderAckType ==
    ASSUME NEW p \in Packet, NEW d \in Decoder, NEW ns \in Nat, NEW nr \in Nat
    PROVE  InorderAck(p, d, ns, nr) \in Ack
  BY DEF InorderAck, Ack, Packet, Decoder

LEMMA ServerType ==
    ASSUME TypeOK, ServerStep
    PROVE  ServerTypeOK' /\ NetTypeOK'
<1> USE DEF TypeOK, ServerTypeOK, NetTypeOK
<1>1. CASE SendParameter
  <2>1. prmNet' \in Nat
    BY <1>1 DEF SendParameter
  <2>2. paramTimer' \in BOOLEAN
    BY <1>1, Zenon DEF SendParameter, SendsParameterAgain
  <2> QED  BY <1>1, <2>1, <2>2, Zenon DEF SendParameter
<1>2. CASE ParamAckRecv
  <2>1. ackPrmNet' \in Nat
    BY <1>2 DEF ParamAckRecv
  <2> QED  BY <1>2, <2>1, Zenon DEF ParamAckRecv
<1>3. CASE SendDataPackets
  BY <1>3, Zenon DEF SendDataPackets, netVars
<1>4. CASE NotifyPacingPerformed
  BY <1>4, Zenon DEF NotifyPacingPerformed, netVars
<1>5. CASE SendLoopExit
  BY <1>5, Zenon DEF SendLoopExit, netVars
<1>6. CASE SendSource
  <2>1. SourcePacket(enc) \in Packet /\ enc' \in Encoder /\ enc.rcount \in Nat
    BY <1>6, EncoderOutputs DEF SendSource, Encoder
  <2>2. Transmit(SourcePacket(enc), enc.rcount)
    BY <1>6 DEF SendSource
  <2>3. /\ dataNet' \subseteq Packet /\ info' \subseteq PacketInfo
        /\ lastSent' \in IdPair /\ packetsInFlight' \in Int
        /\ pacingTimer' \in BOOLEAN /\ sending' \in BOOLEAN
    BY <2>1, <2>2, TransmitType
  <2> QED  BY <2>1, <2>2, <2>3, Zenon DEF Transmit
<1>7. CASE SendRepair
  <2>1. RepairPacket(enc) \in Packet /\ enc' \in Encoder /\ enc.nextsid \in Nat
    BY <1>7, EncoderOutputs DEF SendRepair, Encoder
  <2>2. Transmit(RepairPacket(enc), enc.nextsid)
    BY <1>7 DEF SendRepair
  <2>3. /\ dataNet' \subseteq Packet /\ info' \subseteq PacketInfo
        /\ lastSent' \in IdPair /\ packetsInFlight' \in Int
        /\ pacingTimer' \in BOOLEAN /\ sending' \in BOOLEAN
    BY <2>1, <2>2, TransmitType
  <2> QED  BY <2>1, <2>2, <2>3, Zenon DEF Transmit
<1>8. CASE SendLoopSpin
  BY <1>8, Zenon DEF SendLoopSpin, serverVars, netVars
<1>9. CASE AckRecv
  <2>1. PICK a \in DeliverableAcks :
           /\ ackNet' = ackNet \ {a}
           /\ IF open THEN PacketAckRecv(a) ELSE UNCHANGED serverVars
           /\ UNCHANGED <<dataNet, prmNet, ackPrmNet, completeNet, losses>>
    BY <1>9 DEF AckRecv
  <2>2. a \in Ack
    BY <2>1 DEF DeliverableAcks
  <2>3. ServerTypeOK'
    <3>1. CASE open
      BY <2>1, <2>2, <3>1, AckType
    <3>2. CASE ~open
      BY <2>1, <3>2, Zenon DEF serverVars
    <3> QED  BY <3>1, <3>2
  <2>4. NetTypeOK'
    BY <2>1, Zenon
  <2> QED  BY <2>3, <2>4
<1>10. CASE CompleteSend
  BY <1>10, Zenon DEF CompleteSend
<1> QED
  BY <1>1, <1>2, <1>3, <1>4, <1>5, <1>6, <1>7, <1>8, <1>9, <1>10 DEF ServerStep

LEMMA ClientType ==
    ASSUME TypeOK, DecoderSound, ClientStep
    PROVE  ClientTypeOK' /\ NetTypeOK' /\ DecoderSound'
<1> USE DEF TypeOK, ClientTypeOK, NetTypeOK
<1>1. CASE ParameterRecv
  <2>1. prmNet' \in Nat /\ ackPrmNet' \in Nat
    BY <1>1 DEF ParameterRecv
  <2>2. dec' \in Decoder
    BY <1>1 DEF ParameterRecv, InitializeDecoder, InitDecoder, Decoder
  <2>3. DecoderSound'
    BY <1>1 DEF ParameterRecv, InitializeDecoder, DecoderSound, InitDecoder,
                AcceptsParameters
  <2> QED  BY <1>1, <2>1, <2>2, <2>3, Zenon DEF ParameterRecv, InitializeDecoder
<1>2. CASE DataRecv
  <2>1. PICK p \in Deliverable :
           /\ dataNet' = dataNet \ {p}
           /\ established' = TRUE
           /\ PacketRecv(p)
           /\ UNCHANGED <<decReady, prmNet, ackPrmNet, completeNet, losses>>
    BY <1>2 DEF DataRecv
  <2>2. p \in Packet
    BY <2>1 DEF Deliverable
  <2>3. CASE Delivered
    BY <2>1, <2>3, Zenon DEF PacketRecv, DecoderSound
  <2>4. CASE ~Delivered
    <3> DEFINE ns == IF p.type = "source" THEN nSource + 1 ELSE nSource
               nr == IF p.type = "repair" THEN nRepair + 1 ELSE nRepair
               d  == ReceivePacket(dec, p)
    <3>1. ns \in Nat /\ nr \in Nat
      OBVIOUS
    <3>2. d \in Decoder /\ d.inorder >= dec.inorder /\ d.inorder <= d.win_e
      BY <2>2, DecoderReceives DEF DecoderSound
    <3>3. nSource' = ns /\ nRepair' = nr /\ dec' = d /\ InorderAckSend(p, d, ns, nr)
      BY <2>1, <2>4 DEF PacketRecv
    <3>4. -1 <= d.inorder
      BY <3>2 DEF DecoderSound, Decoder
    <3> HIDE DEF ns, nr, d
    <3>5. ackNet' \subseteq Ack /\ lastAckedN' \in Nat
      BY <2>2, <3>1, <3>2, <3>3, InorderAckType DEF InorderAckSend
    <3>6. DecoderSound'
      BY <2>1, <3>2, <3>3, <3>4 DEF DecoderSound
    <3> QED  BY <2>1, <3>1, <3>2, <3>3, <3>5, <3>6, Zenon
  <2> QED  BY <2>3, <2>4
<1> QED  BY <1>1, <1>2 DEF ClientStep

LEMMA LoseType ==
    ASSUME TypeOK, Lose
    PROVE  NetTypeOK'
<1>1. losses' \in Nat /\ prmNet' \in Nat /\ ackPrmNet' \in Nat
  BY DEF Lose, LoseData, LoseAck, LosePrm, LoseAckPrm, TypeOK, NetTypeOK
<1>2. dataNet' \subseteq Packet /\ ackNet' \subseteq Ack /\ completeNet' \in BOOLEAN
  BY Zenon DEF Lose, LoseData, LoseAck, LosePrm, LoseAckPrm, TypeOK, NetTypeOK
<1> QED  BY <1>1, <1>2 DEF NetTypeOK

LEMMA TypeStep ==
    TypeOK /\ DecoderSound /\ [Next]_vars => TypeOK' /\ DecoderSound'
<1> SUFFICES ASSUME TypeOK, DecoderSound, [Next]_vars
             PROVE  TypeOK' /\ DecoderSound'
  OBVIOUS
<1>1. CASE ServerStep /\ UNCHANGED clientVars
  BY <1>1, ServerType, Zenon DEF TypeOK, ClientTypeOK, DecoderSound, clientVars
<1>2. CASE ClientStep /\ UNCHANGED serverVars
  BY <1>2, ClientType, Zenon DEF TypeOK, ServerTypeOK, serverVars
<1>3. CASE Lose /\ UNCHANGED <<serverVars, clientVars>>
  BY <1>3, LoseType, Zenon
  DEF TypeOK, ServerTypeOK, ClientTypeOK, DecoderSound, serverVars, clientVars
<1>4. CASE UNCHANGED vars
  <2>1. UNCHANGED serverVars /\ UNCHANGED clientVars /\ UNCHANGED netVars
    BY <1>4 DEF vars
  <2>2. ServerTypeOK'
    BY <2>1, Zenon DEF TypeOK, ServerTypeOK, serverVars
  <2>3. ClientTypeOK' /\ DecoderSound'
    BY <2>1, Zenon DEF TypeOK, ClientTypeOK, DecoderSound, clientVars
  <2>4. NetTypeOK'
    BY <2>1, Zenon DEF TypeOK, NetTypeOK, netVars
  <2> QED BY <2>2, <2>3, <2>4 DEF TypeOK
<1> QED  BY <1>1, <1>2, <1>3, <1>4 DEF Next

\* Every variable of a transfer keeps its type.
THEOREM TypeCorrect == Spec => []TypeOK
<1>1. Init => TypeOK /\ DecoderSound
  BY InitType
<1>2. TypeOK /\ DecoderSound /\ [Next]_vars => TypeOK' /\ DecoderSound'
  BY TypeStep
<1> QED  BY <1>1, <1>2, PTL DEF Spec

----------------------------------------------------------------------------
(* The handshake and the records of sent packets.                          *)

LEMMA HandshakeStep ==
    TypeOK /\ DecoderSound /\ Handshake /\ [Next]_vars => Handshake'
<1> SUFFICES ASSUME TypeOK, DecoderSound, Handshake, [Next]_vars
             PROVE  Handshake'
  OBVIOUS
<1> USE DEF Handshake
<1>1. CASE ServerStep /\ UNCHANGED clientVars
  <2> USE <1>1 DEF clientVars
  <2>1. CASE SendParameter
    BY <2>1 DEF SendParameter
  <2>2. CASE ParamAckRecv
    BY <2>2 DEF ParamAckRecv, TypeOK, NetTypeOK
  <2>3. CASE SendDataPackets
    BY <2>3 DEF SendDataPackets, netVars
  <2>4. CASE NotifyPacingPerformed
    BY <2>4 DEF NotifyPacingPerformed, netVars
  <2>5. CASE SendLoopExit
    BY <2>5 DEF SendLoopExit, netVars
  <2>6. CASE SendSource
    BY <2>6 DEF SendSource, Transmit
  <2>7. CASE SendRepair
    BY <2>7 DEF SendRepair, Transmit
  <2>8. CASE SendLoopSpin
    BY <2>8 DEF SendLoopSpin, serverVars, netVars
  <2>9. CASE AckRecv
    BY <2>9 DEF AckRecv, DeliverableAcks, PacketAckRecv, serverVars, StopApplication
  <2>10. CASE CompleteSend
    BY <2>10 DEF CompleteSend
  <2> QED
    BY <2>1, <2>2, <2>3, <2>4, <2>5, <2>6, <2>7, <2>8, <2>9, <2>10 DEF ServerStep
<1>2. CASE ClientStep /\ UNCHANGED serverVars
  <2>1. CASE ParameterRecv
    BY <1>2, <2>1 DEF ParameterRecv, InitializeDecoder, serverVars
  <2>2. CASE DataRecv
    BY <1>2, <2>2 DEF DataRecv, Deliverable, PacketRecv, InorderAckSend, serverVars
  <2> QED  BY <1>2, <2>1, <2>2 DEF ClientStep
<1>3. CASE Lose /\ UNCHANGED <<serverVars, clientVars>>
  BY <1>3 DEF Lose, LoseData, LoseAck, LosePrm, LoseAckPrm, TypeOK, NetTypeOK,
              serverVars, clientVars
<1>4. CASE UNCHANGED vars
  BY <1>4 DEF vars, serverVars, clientVars, netVars
<1> QED  BY <1>1, <1>2, <1>3, <1>4 DEF Next

\* A packet sent has its record, and records are never dropped.
LEMMA TransmitRecords ==
    ASSUME RecordsKept, NEW p, NEW other, Transmit(p, other)
    PROVE  RecordsKept'
<1>1. \A q \in dataNet' \union ackNet' : q \in dataNet \union ackNet \/ q = p
  BY DEF Transmit
<1>2. info \subseteq info'
  BY DEF Transmit
<1>3. \E i \in info' : i.type = p.type /\ i.id = p.id
  <2> DEFINE r == Record(p, other)
  <2>1. r \in info'
    BY DEF Transmit
  <2>2. r.type = p.type /\ r.id = p.id
    BY DEF Record
  <2> QED  BY <2>1, <2>2
<1> QED  BY <1>1, <1>2, <1>3 DEF RecordsKept

LEMMA RecordsStep ==
    RecordsKept /\ [Next]_vars => RecordsKept'
<1> SUFFICES ASSUME RecordsKept, [Next]_vars
             PROVE  RecordsKept'
  OBVIOUS
<1>1. ASSUME info' = info, dataNet' \subseteq dataNet, ackNet' \subseteq ackNet
      PROVE  RecordsKept'
  BY <1>1 DEF RecordsKept
<1>2. CASE ServerStep /\ UNCHANGED clientVars
  <2>1. CASE SendSource \/ SendRepair
    BY <2>1, TransmitRecords DEF SendSource, SendRepair
  <2>2. CASE AckRecv
    BY <1>1, <2>2 DEF AckRecv, PacketAckRecv, serverVars
  <2>3. CASE SendParameter \/ ParamAckRecv \/ CompleteSend
    BY <1>1, <2>3 DEF SendParameter, ParamAckRecv, CompleteSend
  <2>4. CASE SendDataPackets \/ NotifyPacingPerformed \/ SendLoopExit \/ SendLoopSpin
    BY <1>1, <2>4 DEF SendDataPackets, NotifyPacingPerformed, SendLoopExit,
                      SendLoopSpin, serverVars, netVars
  <2> QED  BY <1>2, <2>1, <2>2, <2>3, <2>4 DEF ServerStep
<1>3. CASE ClientStep /\ UNCHANGED serverVars
  <2>1. CASE ParameterRecv
    BY <1>1, <1>3, <2>1 DEF ParameterRecv, serverVars
  <2>2. CASE DataRecv
    <3>1. PICK p \in Deliverable :
             /\ dataNet' = dataNet \ {p}
             /\ PacketRecv(p)
      BY <2>2 DEF DataRecv
    <3>2. p \in dataNet
      BY DEF Deliverable
    <3>3. \A a \in ackNet' : a \in ackNet \/ (a.type = p.type /\ a.id = p.id)
      BY <3>1 DEF PacketRecv, InorderAckSend, InorderAck
    <3>4. info' = info
      BY <1>3 DEF serverVars
    <3> QED  BY <3>1, <3>2, <3>3, <3>4 DEF RecordsKept
  <2> QED  BY <1>3, <2>1, <2>2 DEF ClientStep
<1>4. CASE Lose /\ UNCHANGED <<serverVars, clientVars>>
  BY <1>1, <1>4 DEF Lose, LoseData, LoseAck, LosePrm, LoseAckPrm, serverVars
<1>5. CASE UNCHANGED vars
  BY <1>1, <1>5 DEF vars, serverVars, netVars
<1> QED  BY <1>2, <1>3, <1>4, <1>5 DEF Next

----------------------------------------------------------------------------
(* Flushing and closing.                                                   *)

\* The part of FlushSafe that only an in-order index moving back or a flush
\* moving ahead of it could break.
LEMMA FlushKept ==
    ASSUME FlushSafe, TypeOK, TypeOK',
           enc'.headsid <= dec.inorder + 1,
           dec'.inorder >= dec.inorder,
           \A p \in dataNet' : p \in dataNet \/ p.ws <= dec.inorder + 1
                                              \/ p.type = "source",
           \A a \in ackNet' : a \in ackNet \/ a.inorder <= dec'.inorder
    PROVE  FlushSafe'
<1>1. /\ dec.inorder \in Int /\ dec'.inorder \in Int /\ enc'.headsid \in Nat
      /\ \A p \in dataNet' : p.ws \in Nat
      /\ \A a \in ackNet' : a.inorder \in Int
  <2>1. /\ dec \in Decoder /\ dec' \in Decoder /\ enc' \in Encoder
        /\ dataNet' \subseteq Packet /\ ackNet' \subseteq Ack
    BY DEF TypeOK, ServerTypeOK, ClientTypeOK, NetTypeOK
  <2> QED  BY <2>1 DEF Decoder, Encoder, Packet, Ack
<1>2. enc'.headsid <= dec'.inorder + 1
  BY <1>1
<1>3. \A p \in dataNet' : p.type = "repair" => p.ws <= dec'.inorder + 1
  BY <1>1 DEF FlushSafe
<1>4. \A a \in ackNet' : a.inorder <= dec'.inorder
  BY <1>1 DEF FlushSafe
<1> QED  BY <1>2, <1>3, <1>4 DEF FlushSafe

\* The in-order index never goes back: parameters reset the decoder only before
\* anything was received.
LEMMA InorderKept ==
    ASSUME TypeOK, DecoderSound, [Next]_vars
    PROVE  dec'.inorder >= dec.inorder /\ (decReady => decReady')
<1>0. dec.inorder \in Int
  BY DEF TypeOK, ClientTypeOK, Decoder
<1>1. CASE UNCHANGED clientVars
  BY <1>0, <1>1 DEF clientVars
<1>2. CASE ParameterRecv
  BY <1>0, <1>2 DEF ParameterRecv, InitializeDecoder, DecoderSound, AcceptsParameters
<1>3. CASE DataRecv
  <2>1. PICK p \in Deliverable : PacketRecv(p) /\ decReady' = decReady
    BY <1>3 DEF DataRecv
  <2>2. p \in Packet
    BY DEF Deliverable, TypeOK, NetTypeOK
  <2>3. dec' = dec \/ dec' = ReceivePacket(dec, p)
    BY <2>1 DEF PacketRecv
  <2>4. ReceivePacket(dec, p).inorder >= dec.inorder
    BY <2>2, DecoderReceives DEF DecoderSound, TypeOK, ClientTypeOK
  <2> QED  BY <1>0, <2>1, <2>3, <2>4
<1> QED
  BY <1>1, <1>2, <1>3 DEF Next, ClientStep, vars, clientVars

\* A flush stays within what the acknowledgement reports as delivered.
LEMMA FlushBounded ==
    ASSUME TypeOK, FlushSafe, NEW a \in ackNet
    PROVE  FlushOnAck(a).headsid <= dec.inorder + 1
<1>1. a.inorder \in Int /\ a.inorder <= dec.inorder
  BY DEF FlushSafe, TypeOK, NetTypeOK, Ack
<1>2. enc.headsid \in Nat /\ enc.headsid <= dec.inorder + 1 /\ dec.inorder \in Int
  BY DEF FlushSafe, TypeOK, ServerTypeOK, ClientTypeOK, Encoder, Decoder
<1>3. CASE FlushOnAck(a) = enc
  BY <1>2, <1>3
<1>4. CASE FlushOnAck(a) = FlushAcked(enc, a.inorder)
  BY <1>1, <1>2, <1>4 DEF FlushAcked, TypeOK, ServerTypeOK, Encoder
<1> QED  BY <1>3, <1>4 DEF FlushOnAck

LEMMA FlushStep ==
    TypeOK /\ DecoderSound /\ FlushSafe /\ [Next]_vars => FlushSafe'
<1> SUFFICES ASSUME TypeOK, DecoderSound, FlushSafe, [Next]_vars
             PROVE  FlushSafe'
  OBVIOUS
<1>0. /\ TypeOK' /\ dec'.inorder >= dec.inorder
      /\ dec.inorder \in Int /\ enc.headsid <= dec.inorder + 1
  BY TypeStep, InorderKept DEF TypeOK, ClientTypeOK, Decoder, FlushSafe
<1>1. ASSUME enc'.headsid = enc.headsid, dataNet' \subseteq dataNet,
             ackNet' \subseteq ackNet
      PROVE  FlushSafe'
  BY <1>0, <1>1, FlushKept
<1>2. CASE ServerStep /\ UNCHANGED clientVars
  <2>1. CASE SendSource
    <3>1. /\ ackNet' = ackNet /\ enc'.headsid = enc.headsid
          /\ dataNet' \subseteq dataNet \union {SourcePacket(enc)}
      BY <2>1 DEF SendSource, Transmit, TypeOK, ServerTypeOK, Encoder
    <3>2. SourcePacket(enc).type = "source"
      BY DEF SourcePacket
    <3> QED  BY <1>0, <3>1, <3>2, FlushKept
  <2>2. CASE SendRepair
    <3>1. /\ ackNet' = ackNet /\ enc'.headsid = enc.headsid
          /\ dataNet' \subseteq dataNet \union {RepairPacket(enc)}
      BY <2>2 DEF SendRepair, Transmit, TypeOK, ServerTypeOK, Encoder
    <3>2. RepairPacket(enc).ws = enc.headsid
      BY DEF RepairPacket
    <3> QED  BY <1>0, <3>1, <3>2, FlushKept
  <2>3. CASE AckRecv
    <3>1. PICK a \in DeliverableAcks :
             /\ ackNet' = ackNet \ {a}
             /\ IF open THEN PacketAckRecv(a) ELSE UNCHANGED serverVars
             /\ dataNet' = dataNet
      BY <2>3 DEF AckRecv
    <3>2. a \in ackNet
      BY DEF DeliverableAcks
    <3>3. enc' = enc \/ enc' = FlushOnAck(a)
      BY <3>1 DEF PacketAckRecv, serverVars
    <3>4. enc'.headsid <= dec.inorder + 1
      BY <1>0, <3>2, <3>3, FlushBounded
    <3> QED  BY <1>0, <3>1, <3>4, FlushKept
  <2>4. CASE SendParameter \/ ParamAckRecv \/ CompleteSend
    BY <1>1, <2>4 DEF SendParameter, ParamAckRecv, CompleteSend
  <2>5. CASE SendDataPackets \/ NotifyPacingPerformed \/ SendLoopExit \/ SendLoopSpin
    BY <1>1, <2>5 DEF SendDataPackets, NotifyPacingPerformed, SendLoopExit,
                      SendLoopSpin, serverVars, netVars
  <2> QED  BY <1>2, <2>1, <2>2, <2>3, <2>4, <2>5 DEF ServerStep
<1>3. CASE ClientStep /\ UNCHANGED serverVars
  <2>1. CASE ParameterRecv
    BY <1>1, <1>3, <2>1 DEF ParameterRecv, serverVars
  <2>2. CASE DataRecv
    <3>1. dataNet' \subseteq dataNet /\ enc' = enc
      BY <1>3, <2>2 DEF DataRecv, serverVars
    <3>2. \A a \in ackNet' : a \in ackNet \/ a.inorder = dec'.inorder
      BY <2>2 DEF DataRecv, PacketRecv, InorderAckSend, InorderAck
    <3>3. dec'.inorder \in Int
      BY <1>0 DEF TypeOK, ClientTypeOK, Decoder
    <3> QED  BY <1>0, <3>1, <3>2, <3>3, FlushKept
  <2> QED  BY <1>3, <2>1, <2>2 DEF ClientStep
<1>4. CASE Lose /\ UNCHANGED <<serverVars, clientVars>>
  BY <1>1, <1>4 DEF Lose, LoseData, LoseAck, LosePrm, LoseAckPrm, serverVars
<1>5. CASE UNCHANGED vars
  BY <1>1, <1>5 DEF vars, serverVars, netVars
<1> QED  BY <1>2, <1>3, <1>4, <1>5 DEF Next

LEMMA CloseStep ==
    TypeOK /\ DecoderSound /\ FlushSafe /\ CloseSound /\ [Next]_vars => CloseSound'
<1> SUFFICES ASSUME TypeOK, DecoderSound, FlushSafe, CloseSound, [Next]_vars
             PROVE  CloseSound'
  OBVIOUS
<1>0. /\ dec'.inorder >= dec.inorder
      /\ dec.inorder \in Int /\ dec'.inorder \in Int /\ N \in Nat
  BY TypeStep, InorderKept, NAssumption DEF TypeOK, ClientTypeOK, Decoder
<1>1. ASSUME open' = open, nowComplete' => nowComplete, completeNet' = completeNet
      PROVE  CloseSound'
  BY <1>0, <1>1 DEF CloseSound, ClosedOnlyWhenDelivered, NoComplete
<1>2. CASE ServerStep /\ UNCHANGED clientVars
  <2>1. CASE AckRecv
    <3>1. PICK a \in DeliverableAcks :
             /\ IF open THEN PacketAckRecv(a) ELSE UNCHANGED serverVars
             /\ completeNet' = completeNet
      BY <2>1 DEF AckRecv
    <3>2. a.inorder \in Int /\ a.inorder <= dec.inorder
      BY DEF DeliverableAcks, FlushSafe, TypeOK, NetTypeOK, Ack
    <3>3. CASE UNCHANGED serverVars
      BY <1>1, <3>1, <3>3 DEF serverVars
    <3>4. CASE ~ UNCHANGED serverVars
      <4>1. /\ nowComplete' = (nowComplete \/ AllAcked(a))
            /\ IF AllAcked(a) THEN StopApplication
                              ELSE UNCHANGED <<open, pacingTimer>>
        BY <3>1, <3>4, Zenon DEF PacketAckRecv
      <4>2. CASE AllAcked(a)
        <5>1. open' = FALSE /\ dec'.inorder >= N - 1
          BY <1>0, <3>2, <4>1, <4>2 DEF AllAcked, StopApplication
        <5> QED  BY <3>1, <5>1 DEF CloseSound, ClosedOnlyWhenDelivered, NoComplete
      <4>3. CASE ~AllAcked(a)
        BY <1>1, <3>1, <4>1, <4>3
      <4> QED  BY <4>2, <4>3
    <3> QED  BY <3>3, <3>4
  <2>2. CASE CompleteSend
    <3>1. ~completeNet' /\ ~nowComplete' /\ open' = open
      BY <2>2, Zenon DEF CompleteSend, CloseSound, NoComplete
    <3> QED  BY <1>0, <3>1 DEF CloseSound, ClosedOnlyWhenDelivered, NoComplete
  <2>3. CASE SendSource \/ SendRepair
    BY <1>1, <2>3 DEF SendSource, SendRepair, Transmit
  <2>4. CASE SendParameter \/ ParamAckRecv
    BY <1>1, <2>4 DEF SendParameter, ParamAckRecv
  <2>5. CASE SendDataPackets \/ NotifyPacingPerformed \/ SendLoopExit \/ SendLoopSpin
    BY <1>1, <2>5 DEF SendDataPackets, NotifyPacingPerformed, SendLoopExit,
                      SendLoopSpin, serverVars, netVars
  <2> QED  BY <1>2, <2>1, <2>2, <2>3, <2>4, <2>5 DEF ServerStep
<1>3. CASE ClientStep /\ UNCHANGED serverVars
  BY <1>1, <1>3 DEF ClientStep, ParameterRecv, DataRecv, serverVars
<1>4. CASE Lose /\ UNCHANGED <<serverVars, clientVars>>
  BY <1>1, <1>4 DEF Lose, serverVars
<1>5. CASE UNCHANGED vars
  BY <1>1, <1>5 DEF vars, serverVars, netVars
<1> QED  BY <1>2, <1>3, <1>4, <1>5 DEF Next

----------------------------------------------------------------------------
(* What was sent bounds what is in flight and what is decoded.             *)

\* The decoder's window reaches no further than the packets it was given.
LEMMA DecoderBounded ==
    ASSUME NEW d \in Decoder, NEW p \in Packet, NEW bound \in Nat,
           d.win_e < bound, p.we < bound
    PROVE  ReceivePacket(d, p).win_e < bound
<1> DEFINE b == Buffered(d, p)
<1>1. b.win_e < bound
  BY DEF Buffered
<1>2. ReceivePacket(d, p).win_e \in {d.win_e, b.win_e}
  BY DEF ReceivePacket
<1> QED  BY <1>1, <1>2

\* The packet p that Transmit sends may widen what is in flight by its window.
LEMMA TransmitBounded ==
    ASSUME TypeOK, SentSound, NEW p \in Packet, NEW other, Transmit(p, other),
           NEW bound \in Nat, bound >= enc.nextsid, p.we < bound
    PROVE  \A q \in dataNet' : q.we < bound
<1>1. enc.nextsid \in Nat /\ \A q \in dataNet : q.we \in Nat
  BY DEF TypeOK, ServerTypeOK, NetTypeOK, Encoder, Packet
<1>2. \A q \in dataNet' : q \in dataNet \/ q = p
  BY DEF Transmit
<1> QED  BY <1>1, <1>2 DEF SentSound

LEMMA SentStep ==
    TypeOK /\ DecoderSound /\ SentSound /\ [Next]_vars => SentSound'
<1> SUFFICES ASSUME TypeOK, DecoderSound, SentSound, [Next]_vars
             PROVE  SentSound'
  OBVIOUS
<1>0. /\ enc \in Encoder /\ dec \in Decoder /\ lastSent \in IdPair
      /\ dataNet \subseteq Packet /\ N \in Nat
  BY NAssumption DEF TypeOK, ServerTypeOK, ClientTypeOK, NetTypeOK
<1>1. ASSUME lastSent' = lastSent, enc'.nextsid = enc.nextsid,
             dec'.win_e < enc.nextsid, dataNet' \subseteq dataNet
      PROVE  SentSound'
  BY <1>1 DEF SentSound
<1>2. dec.win_e < enc.nextsid
  BY DEF SentSound
<1>3. CASE ServerStep /\ UNCHANGED clientVars
  <2>0. dec' = dec
    BY <1>3 DEF clientVars
  <2>1. CASE SendSource
    <3>1. SourcePacket(enc) \in Packet /\ Transmit(SourcePacket(enc), enc.rcount)
      BY <1>0, <2>1, EncoderOutputs DEF SendSource
    <3>2. enc.nextsid \in Nat /\ enc'.nextsid = enc.nextsid + 1
      BY <1>0, <2>1 DEF SendSource, Encoder
    <3>3. SourcePacket(enc).we = enc.nextsid /\ SourcePacket(enc).id = enc.nextsid
          /\ SourcePacket(enc).type = "source"
      BY DEF SourcePacket
    <3>4. lastSent["source"] # N - 1
      BY <2>1 DEF SendSource, TimeToSendRepairPacket
    <3>5. enc'.nextsid <= N
      BY <1>0, <3>2, <3>4 DEF SentSound
    <3>6. lastSent'["source"] = enc'.nextsid - 1
      BY <1>0, <3>1, <3>2, <3>3 DEF Transmit, IdPair
    <3>7. \A q \in dataNet' : q.we < enc'.nextsid
      BY <3>1, <3>2, <3>3, TransmitBounded
    <3>8. dec'.win_e < enc'.nextsid
      BY <1>0, <1>2, <2>0, <3>2 DEF Decoder
    <3> QED  BY <3>5, <3>6, <3>7, <3>8 DEF SentSound
  <2>2. CASE SendRepair
    <3>1. RepairPacket(enc) \in Packet /\ Transmit(RepairPacket(enc), enc.nextsid)
      BY <1>0, <2>2, EncoderOutputs DEF SendRepair
    <3>2. enc.nextsid \in Nat /\ enc'.nextsid = enc.nextsid
      BY <1>0, <2>2 DEF SendRepair, Encoder
    <3>3. RepairPacket(enc).we = enc.nextsid - 1 /\ RepairPacket(enc).type = "repair"
      BY DEF RepairPacket
    <3>4. lastSent'["source"] = lastSent["source"]
      BY <1>0, <3>1, <3>3 DEF Transmit, IdPair
    <3>5. \A q \in dataNet' : q.we < enc'.nextsid
      BY <3>1, <3>2, <3>3, TransmitBounded
    <3> QED  BY <2>0, <3>2, <3>4, <3>5 DEF SentSound
  <2>3. CASE AckRecv
    <3>1. /\ dataNet' = dataNet /\ lastSent' = lastSent
          /\ enc'.nextsid = enc.nextsid
      BY <1>0, <2>3 DEF AckRecv, PacketAckRecv, FlushOnAck, FlushAcked, Encoder,
                        serverVars
    <3> QED  BY <1>1, <1>2, <2>0, <3>1
  <2>4. CASE SendParameter \/ ParamAckRecv \/ CompleteSend
    BY <1>1, <1>2, <2>0, <2>4 DEF SendParameter, ParamAckRecv, CompleteSend
  <2>5. CASE SendDataPackets \/ NotifyPacingPerformed \/ SendLoopExit \/ SendLoopSpin
    BY <1>1, <1>2, <2>0, <2>5 DEF SendDataPackets, NotifyPacingPerformed,
                                  SendLoopExit, SendLoopSpin, serverVars, netVars
  <2> QED  BY <1>3, <2>1, <2>2, <2>3, <2>4, <2>5 DEF ServerStep
<1>4. CASE ClientStep /\ UNCHANGED serverVars
  <2>0. lastSent' = lastSent /\ enc' = enc
    BY <1>4 DEF serverVars
  <2>1. CASE ParameterRecv
    <3>1. dec' = dec \/ dec'.win_e = -1
      BY <2>1 DEF ParameterRecv, InitializeDecoder, InitDecoder
    <3>2. dec'.win_e < enc.nextsid /\ dataNet' = dataNet
      BY <1>0, <1>2, <2>1, <3>1 DEF ParameterRecv, Encoder
    <3> QED  BY <1>1, <2>0, <3>2
  <2>2. CASE DataRecv
    <3>1. PICK p \in Deliverable : dataNet' = dataNet \ {p} /\ PacketRecv(p)
      BY <2>2 DEF DataRecv
    <3>2. p \in Packet /\ p.we < enc.nextsid /\ enc.nextsid \in Nat
      BY <1>0 DEF Deliverable, SentSound, Encoder
    <3>3. dec' = dec \/ dec' = ReceivePacket(dec, p)
      BY <3>1 DEF PacketRecv
    <3>4. dec'.win_e < enc.nextsid
      BY <1>0, <1>2, <3>2, <3>3, DecoderBounded
    <3> QED  BY <1>1, <2>0, <3>1, <3>4
  <2> QED  BY <1>4, <2>1, <2>2 DEF ClientStep
<1>5. CASE Lose /\ UNCHANGED <<serverVars, clientVars>>
  BY <1>1, <1>2, <1>5
  DEF Lose, LoseData, LoseAck, LosePrm, LoseAckPrm, serverVars, clientVars
<1>6. CASE UNCHANGED vars
  BY <1>1, <1>2, <1>6 DEF vars, serverVars, clientVars, netVars
<1> QED  BY <1>3, <1>4, <1>5, <1>6 DEF Next

----------------------------------------------------------------------------
(* The theorems.                                                           *)

LEMMA InitInductive == Init => IInv
<1> SUFFICES ASSUME Init PROVE IInv
  OBVIOUS
<1>1. TypeOK /\ DecoderSound
  BY InitType
<1>2. Handshake
  BY DEF Init, ServerInit, NetInit, Handshake
<1>3. FlushSafe
  BY DEF Init, ServerInit, ClientInit, NetInit, InitEncoder, InitDecoder, FlushSafe
<1>4. RecordsKept
  BY DEF Init, NetInit, RecordsKept
<1>5. CloseSound
  BY DEF Init, ServerInit, NetInit, CloseSound, ClosedOnlyWhenDelivered, NoComplete
<1>6. SentSound
  BY NAssumption DEF Init, ServerInit, ClientInit, NetInit, InitEncoder, InitDecoder,
                     SentSound
<1> QED  BY <1>1, <1>2, <1>3, <1>4, <1>5, <1>6 DEF IInv

LEMMA NextInductive == IInv /\ [Next]_vars => IInv'
  BY TypeStep, HandshakeStep, FlushStep, RecordsStep, CloseStep, SentStep, Zenon
  DEF IInv

\* The inductive invariant holds throughout a transfer.
THEOREM Inductive == Spec => []IInv
  BY InitInductive, NextInductive, PTL DEF Spec

\* The encoder keeps every source packet the decoder may still need, however the
\* acknowledgements are lost, delayed or reordered.
THEOREM FlushIsSafe == Spec => []FlushSafe
<1>1. IInv => FlushSafe
  BY DEF IInv
<1> QED  BY <1>1, Inductive, PTL

\* InfoQueue::find always finds the packet an ACK names.
THEOREM AcksAreKnown == Spec => []AckKnown
<1>1. IInv => AckKnown
  BY DEF IInv, RecordsKept, AckKnown
<1> QED  BY <1>1, Inductive, PTL

\* The client has a decoder before any data reaches it.
THEOREM DecoderIsReady == Spec => []DecoderReady
<1>1. IInv => DecoderReady
  BY DEF IInv, Handshake, DecoderReady
<1> QED  BY <1>1, Inductive, PTL

\* The server closes only once the client has all packets, and never sends COMPLETE.
THEOREM ClosesWhenDelivered == Spec => [](ClosedOnlyWhenDelivered /\ NoComplete)
<1>1. IInv => ClosedOnlyWhenDelivered /\ NoComplete
  BY DEF IInv, CloseSound
<1> QED  BY <1>1, Inductive, PTL

\* In-order delivery never goes back and the decoder is never lost.
THEOREM InorderNeverRegresses == Spec => InorderMonotone
<1>1. IInv /\ [Next]_vars => [NoRegress]_vars
  BY InorderKept DEF IInv, NoRegress
<1> QED  BY <1>1, Inductive, PTL DEF Spec, InorderMonotone

----------------------------------------------------------------------------
(* A path that keeps order.                                                *)

\* The fields the order is about have their types.
LEMMA FieldTypes ==
    ASSUME TypeOK
    PROVE  /\ enc.nextsid \in Nat /\ enc.rcount \in Nat
           /\ lastSent \in IdPair /\ lastAcked \in IdPair
           /\ \A t \in PacketType : lastSent[t] \in Int /\ lastAcked[t] \in Int
           /\ nSource \in Nat /\ nRepair \in Nat /\ Counted \in Nat
           /\ lastAckedState.nSource \in Nat /\ lastAckedState.nRepair \in Nat
           /\ packetsInFlight \in Int /\ totalLoss \in Int
           /\ \A p \in dataNet : p.type \in PacketType /\ p.id \in Nat /\ p.seq \in Nat
           /\ \A a \in ackNet : /\ a.type \in PacketType /\ a.id \in Nat
                                /\ Received(a) \in Nat
           /\ \A i \in info : i.type \in PacketType /\ i.id \in Nat /\ i.other \in Nat
<1>1. /\ enc \in Encoder /\ lastSent \in IdPair /\ lastAcked \in IdPair
      /\ lastAckedState \in AckState /\ info \subseteq PacketInfo
      /\ packetsInFlight \in Int /\ totalLoss \in Int
  BY DEF TypeOK, ServerTypeOK
<1>2. dataNet \subseteq Packet /\ ackNet \subseteq Ack /\ nSource \in Nat /\ nRepair \in Nat
  BY DEF TypeOK, NetTypeOK, ClientTypeOK
<1>3. \A a \in ackNet : a.type \in PacketType /\ a.id \in Nat /\ Received(a) \in Nat
  BY <1>2 DEF Ack, Received
<1>4. \A p \in dataNet : p.type \in PacketType /\ p.id \in Nat /\ p.seq \in Nat
  BY <1>2 DEF Packet
<1>5. \A i \in info : i.type \in PacketType /\ i.id \in Nat /\ i.other \in Nat
  BY <1>1 DEF PacketInfo
<1>6. \A t \in PacketType : lastSent[t] \in Int /\ lastAcked[t] \in Int
  BY <1>1 DEF IdPair
<1>7. Counted \in Nat
  BY <1>2 DEF Counted
<1>8. enc.nextsid \in Nat /\ enc.rcount \in Nat
  BY <1>1 DEF Encoder
<1>9. lastAckedState.nSource \in Nat /\ lastAckedState.nRepair \in Nat
  BY <1>1 DEF AckState
<1> QED BY <1>1, <1>2, <1>3, <1>4, <1>5, <1>6, <1>7, <1>8, <1>9

\* What OrderedInv speaks of, the path excepted.
Books == <<lastSent, lastAcked, lastAckedState, totalLoss, packetsInFlight, info,
           nSource, nRepair, lastAckedN>>

\* A path that only loses packets stays in order.
LEMMA ShrinksOrdered ==
    ASSUME OrderedInv, dataNet' \subseteq dataNet, ackNet' \subseteq ackNet,
           UNCHANGED Books, enc'.nextsid = enc.nextsid, enc'.rcount = enc.rcount
    PROVE  OrderedInv'
<1>1. Numbered'
  BY DEF OrderedInv, Numbered, InFlight, Books
<1>2. InOrder'
  BY DEF OrderedInv, InOrder, SameId, Precedes, Received, Books
<1>3. CountsInOrder'
  BY DEF OrderedInv, CountsInOrder, EstimatesSane, Counted, SameId, Received, SentUpTo,
         Books
<1> QED BY <1>1, <1>2, <1>3 DEF OrderedInv

\* What was sent or acknowledged has an id no larger than the last one of its type.
LEMMA IdsSent ==
    ASSUME TypeOK, RecordsKept, Numbered
    PROVE  \A x \in dataNet \union ackNet : x.id <= lastSent[x.type]
  BY DEF RecordsKept, Numbered

\* The next packet goes out behind all others.
LEMMA TransmitOrdered ==
    ASSUME TypeOK, RecordsKept, OrderedInv,
           NEW p \in Packet, NEW other \in Nat, Transmit(p, other),
           p.id = lastSent[p.type] + 1, p.seq = enc.nextsid + enc.rcount,
           p.id + other = p.seq,
           enc'.nextsid + enc'.rcount = p.seq + 1,
           enc'.nextsid \in Nat, enc'.rcount \in Nat,
           lastSent'["repair"] = enc'.rcount - 1,
           UNCHANGED <<nSource, nRepair, lastAckedN>>
    PROVE  OrderedInv'
<1> DEFINE r == Record(p, other)
<1>1. /\ p.type \in PacketType /\ p.id \in Nat /\ p.seq \in Nat
      /\ r.type = p.type /\ r.id = p.id /\ r.other = other
  BY DEF Packet, Record
<1>2. /\ dataNet' \subseteq dataNet \union {p}
      /\ info' = info \union {r}
      /\ lastSent' = [lastSent EXCEPT ![p.type] = p.id]
      /\ packetsInFlight' = packetsInFlight + 1
      /\ UNCHANGED <<totalLoss, lastAcked, lastAckedState, ackNet>>
  BY DEF Transmit
<1> HIDE DEF r
<1>3. \A x \in dataNet \union ackNet : x.id <= lastSent[x.type]
  BY IdsSent DEF OrderedInv
<1>4. \A x \in dataNet \union ackNet : x.type = p.type => x.id < p.id
  BY <1>3, FieldTypes
<1>5. /\ lastSent' \in IdPair
      /\ \A t \in PacketType : lastSent'[t] = IF t = p.type THEN p.id ELSE lastSent[t]
  BY <1>1, <1>2, FieldTypes DEF IdPair
<1>6. \A q \in dataNet : q.seq < p.seq
  BY DEF OrderedInv, Numbered
<1>7. Numbered'
  <2>1. packetsInFlight' = InFlight(lastSent', lastAcked')
    BY <1>1, <1>2, <1>5, FieldTypes DEF OrderedInv, Numbered, InFlight
  <2>5. \A t \in PacketType : lastAcked'[t] <= lastSent'[t]
    BY <1>1, <1>2, <1>5, FieldTypes DEF OrderedInv, Numbered
  <2>2. \A i \in info' : i.id <= lastSent'[i.type]
    BY <1>1, <1>2, <1>5, FieldTypes DEF OrderedInv, Numbered
  <2>3. \A q \in dataNet' : q.seq < enc'.nextsid + enc'.rcount
    BY <1>1, <1>2, <1>6, FieldTypes
  <2>4. ASSUME NEW q \in dataNet', NEW i \in info', i.type = q.type, i.id = q.id
        PROVE  i.id + i.other = q.seq
    <3>1. CASE q = p /\ i = r
      BY <1>1, <3>1
    <3>2. CASE q = p /\ i \in info
      BY <2>4, <1>1, <3>2, FieldTypes DEF OrderedInv, Numbered
    <3>3. CASE q \in dataNet /\ i = r
      BY <2>4, <1>1, <1>4, <3>3, FieldTypes
    <3>4. CASE q \in dataNet /\ i \in info
      BY <2>4, <3>4 DEF OrderedInv, Numbered
    <3> QED BY <1>2, <3>1, <3>2, <3>3, <3>4
  <2>6. lastSent'["repair"] = enc'.rcount - 1
    OBVIOUS
  <2> QED BY <2>1, <2>2, <2>3, <2>4, <2>5, <2>6 DEF Numbered
<1>8. InOrder'
  <2>1. \A q, s \in dataNet' : (SameId(q, s) => q = s) /\ (Precedes(q, s) => q.seq < s.seq)
    BY <1>1, <1>2, <1>4, <1>6, FieldTypes DEF OrderedInv, InOrder, SameId, Precedes
  <2>2. \A a, b \in ackNet' :
          /\ SameId(a, b) \/ Received(a) = Received(b) => a = b
          /\ Precedes(a, b) => Received(a) < Received(b)
    BY <1>2 DEF OrderedInv, InOrder, SameId, Precedes
  <2>3. \A a \in ackNet', q \in dataNet' : a.type = q.type => a.id < q.id
    BY <1>2, <1>4 DEF OrderedInv, InOrder
  <2>4. lastAcked[p.type] < p.id
    BY <1>1, FieldTypes DEF OrderedInv, Numbered
  <2>5. \A x \in dataNet' \union ackNet' : lastAcked'[x.type] < x.id
    BY <1>2, <2>4 DEF OrderedInv, InOrder
  <2> QED BY <2>1, <2>2, <2>3, <2>5 DEF InOrder
<1>9. CountsInOrder'
  <2>1. Counted' = Counted /\ Counted <= p.seq
    BY DEF Counted, OrderedInv, CountsInOrder
  <2>2. lastAckedN' = Counted' /\ Counted' <= enc'.nextsid + enc'.rcount
    BY <1>1, <2>1, FieldTypes DEF OrderedInv, CountsInOrder
  <2>3. \A q, s \in dataNet' : q.seq = s.seq => q = s
    BY <1>1, <1>2, <1>6, FieldTypes DEF OrderedInv, CountsInOrder
  <2>4. \A q \in dataNet' : Counted' <= q.seq
    BY <1>2, <2>1 DEF OrderedInv, CountsInOrder
  <2>5. \A a \in ackNet' : \A i \in info' : SameId(i, a) => Received(a) <= SentUpTo(a, i)
    BY <1>1, <1>2, <1>4, FieldTypes DEF OrderedInv, CountsInOrder, SameId
  <2> QED BY <1>2, <2>1, <2>2, <2>3, <2>4, <2>5 DEF CountsInOrder, EstimatesSane, OrderedInv
<1> QED BY <1>7, <1>8, <1>9 DEF OrderedInv

\* An acknowledgement that arrives in order: those behind it carry larger ids and
\* counts, and what it reports as received is no more than what was sent before it.
LEMMA AckOrdered ==
    ASSUME TypeOK, RecordsKept, OrderedInv, NEW a \in ackNet, ~NothingNew(a),
           \A b \in ackNet : Received(a) <= Received(b),
           PacketAckRecv(a), ackNet' = ackNet \ {a}, dataNet' = dataNet,
           UNCHANGED <<nSource, nRepair, lastAckedN>>
    PROVE  OrderedInv'
<1>1. PICK i \in info :
           /\ i.type = a.type /\ i.id = a.id
           /\ lastAckedState' = StateOf(a)
           /\ lastAcked' = [lastAcked EXCEPT ![a.type] = a.id]
           /\ totalLoss' = PeEstimation(a, i)
           /\ packetsInFlight' = InFlight(lastSent, lastAcked')
           /\ enc' = FlushOnAck(a)
           /\ UNCHANGED <<lastSent, info>>
  BY Zenon DEF PacketAckRecv
<1>2. enc'.nextsid = enc.nextsid /\ enc'.rcount = enc.rcount
  <2>1. enc \in Encoder
    BY DEF TypeOK, ServerTypeOK
  <2> QED BY <1>1, <2>1 DEF FlushOnAck, FlushAcked, Encoder
<1>3. \A t \in PacketType : lastAcked'[t] = IF t = a.type THEN a.id ELSE lastAcked[t]
  BY <1>1, FieldTypes DEF IdPair
<1>4. Received(a) <= SentUpTo(a, i) /\ Received(a) <= Counted
  BY <1>1 DEF OrderedInv, CountsInOrder, SameId
<1>5. lastAckedState'.nSource + lastAckedState'.nRepair = Received(a)
  BY <1>1 DEF StateOf, Received
<1>6. \A b \in ackNet' : Received(a) < Received(b) /\ (b.type = a.type => a.id < b.id)
  <2> SUFFICES ASSUME NEW b \in ackNet, b # a
               PROVE  Received(a) < Received(b) /\ (b.type = a.type => a.id < b.id)
    OBVIOUS
  <2>1. Received(a) # Received(b) /\ ~SameId(a, b)
    BY DEF OrderedInv, InOrder
  <2>2. ~Precedes(b, a)
    BY FieldTypes DEF OrderedInv, InOrder
  <2> QED BY <2>1, <2>2, FieldTypes DEF SameId, Precedes
<1>7. Numbered'
  <2>1. \A t \in PacketType : lastAcked'[t] <= lastSent[t]
    BY <1>3, IdsSent, FieldTypes DEF OrderedInv, Numbered
  <2> QED BY <1>1, <1>2, <2>1 DEF OrderedInv, Numbered
<1>8. InOrder'
  <2>1. \A x \in dataNet' \union ackNet' : lastAcked'[x.type] < x.id
    BY <1>3, <1>6, FieldTypes DEF OrderedInv, InOrder
  <2> QED BY <2>1 DEF OrderedInv, InOrder, SameId, Precedes, Received
<1>9. CountsInOrder'
  <2>1. totalLoss' >= 0
    BY <1>1, <1>4, FieldTypes DEF PeEstimation, SentUpTo
  <2>2. /\ Counted' = Counted /\ lastAckedN' = Counted'
        /\ Counted' <= enc'.nextsid + enc'.rcount
        /\ lastAckedState'.nSource + lastAckedState'.nRepair <= Counted'
    BY <1>2, <1>4, <1>5 DEF Counted, OrderedInv, CountsInOrder
  <2>3. \A b \in ackNet' :
          /\ Received(b) <= Counted'
          /\ Received(b) > lastAckedState'.nSource + lastAckedState'.nRepair
          /\ \A j \in info' : SameId(j, b) => Received(b) <= SentUpTo(b, j)
    BY <1>1, <1>5, <1>6, <2>2, FieldTypes DEF OrderedInv, CountsInOrder
  <2>4. \A p, q \in dataNet' : Counted' <= p.seq /\ (p.seq = q.seq => p = q)
    BY <2>2 DEF OrderedInv, CountsInOrder
  <2> QED BY <2>1, <2>2, <2>3, <2>4 DEF CountsInOrder, EstimatesSane
<1> QED BY <1>7, <1>8, <1>9 DEF OrderedInv

\* A packet that arrives in order: the acknowledgement it causes is behind the others
\* and ahead of the packets to come, and the packets to come were sent after it.
LEMMA DataOrdered ==
    ASSUME TypeOK, RecordsKept, OrderedInv, NEW p \in dataNet,
           \A q \in dataNet : p.seq <= q.seq,
           dataNet' = dataNet \ {p}, PacketRecv(p), UNCHANGED serverVars
    PROVE  OrderedInv'
<1>0. UNCHANGED <<lastSent, lastAcked, lastAckedState, totalLoss, packetsInFlight, info, enc>>
  BY DEF serverVars
<1>1. CASE Delivered
  BY <1>0, <1>1, ShrinksOrdered DEF PacketRecv, Books
<1>2. CASE ~Delivered
  <2> DEFINE c == InorderAck(p, dec', nSource', nRepair')
  <2>1. /\ nSource' \in Nat /\ nRepair' \in Nat /\ Counted' = Counted + 1
        /\ InorderAckSend(p, dec', nSource', nRepair')
    BY <1>2, FieldTypes DEF PacketRecv, Counted, Packet
  <2>2. ackNet' = ackNet \union {c} /\ lastAckedN' = Counted'
    BY <2>1, FieldTypes DEF InorderAckSend, OrderedInv, CountsInOrder, Counted
  <2>3. c.type = p.type /\ c.id = p.id /\ Received(c) = Counted'
    BY DEF InorderAck, Received, Counted
  <2> HIDE DEF c
  <2>4. \A q \in dataNet' : p.seq < q.seq /\ (p.type = q.type => p.id < q.id)
    <3> SUFFICES ASSUME NEW q \in dataNet, q # p
                 PROVE  p.seq < q.seq /\ (p.type = q.type => p.id < q.id)
      OBVIOUS
    <3>1. p.seq # q.seq /\ ~SameId(p, q) /\ ~Precedes(q, p)
      BY FieldTypes DEF OrderedInv, InOrder, CountsInOrder
    <3> QED BY <3>1, FieldTypes DEF SameId, Precedes
  <2>5. \A a \in ackNet : Received(a) < Received(c) /\ (a.type = c.type => a.id < c.id)
    BY <2>1, <2>3, FieldTypes DEF OrderedInv, InOrder, CountsInOrder
  <2>6. Counted \in Nat /\ Counted <= p.seq /\ p.seq < enc.nextsid + enc.rcount
    BY FieldTypes DEF OrderedInv, CountsInOrder, Numbered
  <2>7. Numbered'
    BY <1>0 DEF OrderedInv, Numbered
  <2>8. InOrder'
    <3>1. \A a, b \in ackNet' :
            /\ SameId(a, b) \/ Received(a) = Received(b) => a = b
            /\ Precedes(a, b) => Received(a) < Received(b)
      BY <2>2, <2>3, <2>5, FieldTypes DEF OrderedInv, InOrder, SameId, Precedes
    <3>2. \A a \in ackNet', q \in dataNet' : a.type = q.type => a.id < q.id
      BY <2>2, <2>3, <2>4 DEF OrderedInv, InOrder
    <3>3. \A x \in dataNet' \union ackNet' : lastAcked'[x.type] < x.id
      BY <1>0, <2>2, <2>3 DEF OrderedInv, InOrder
    <3>4. \A q, s \in dataNet' : (SameId(q, s) => q = s) /\ (Precedes(q, s) => q.seq < s.seq)
      BY DEF OrderedInv, InOrder, SameId, Precedes
    <3> QED BY <3>1, <3>2, <3>3, <3>4 DEF InOrder
  <2>9. CountsInOrder'
    <3>1. Counted' <= enc'.nextsid + enc'.rcount
      BY <1>0, <2>1, <2>6, FieldTypes
    <3>2. \A q, s \in dataNet' : Counted' <= q.seq /\ (q.seq = s.seq => q = s)
      BY <2>1, <2>4, <2>6, FieldTypes DEF OrderedInv, CountsInOrder
    <3>3. lastAckedState'.nSource + lastAckedState'.nRepair < Counted'
      BY <1>0, <2>1, FieldTypes DEF OrderedInv, CountsInOrder
    <3>4. \A i \in info : SameId(i, c) => Received(c) <= SentUpTo(c, i)
      <4> SUFFICES ASSUME NEW i \in info, SameId(i, c) PROVE Received(c) <= SentUpTo(c, i)
        OBVIOUS
      <4>1. i.id + i.other = p.seq /\ c.id = i.id
        BY <2>3 DEF SameId, OrderedInv, Numbered
      <4> QED BY <2>1, <2>3, <2>6, <4>1, FieldTypes DEF SentUpTo
    <3>5. \A a \in ackNet' :
            /\ Received(a) <= Counted'
            /\ Received(a) > lastAckedState'.nSource + lastAckedState'.nRepair
            /\ \A i \in info' : SameId(i, a) => Received(a) <= SentUpTo(a, i)
      <4> SUFFICES ASSUME NEW a \in ackNet'
                   PROVE /\ Received(a) <= Counted'
                         /\ Received(a) > lastAckedState'.nSource + lastAckedState'.nRepair
                         /\ \A i \in info' : SameId(i, a) => Received(a) <= SentUpTo(a, i)
        OBVIOUS
      <4>1. CASE a = c
        BY <1>0, <2>1, <2>3, <3>3, <3>4, <4>1, FieldTypes
      <4>2. CASE a \in ackNet
        BY <1>0, <2>1, <2>3, <2>5, <4>2, FieldTypes
           DEF OrderedInv, CountsInOrder, EstimatesSane
      <4> QED BY <2>2, <4>1, <4>2
    <3>6. totalLoss' >= 0
      BY <1>0 DEF OrderedInv, CountsInOrder, EstimatesSane
    <3>7. lastAckedState'.nSource + lastAckedState'.nRepair <= Counted'
      BY <1>0, <2>1, FieldTypes DEF OrderedInv, CountsInOrder
    <3> QED BY <2>2, <3>1, <3>2, <3>5, <3>6, <3>7 DEF CountsInOrder, EstimatesSane
  <2> QED BY <2>7, <2>8, <2>9 DEF OrderedInv
<1> QED BY <1>1, <1>2

LEMMA OrderedStep ==
    ASSUME ~Reorder, TypeOK, RecordsKept, SentSound, OrderedInv, [Next]_vars
    PROVE  OrderedInv'
<1>1. CASE ServerStep /\ UNCHANGED clientVars
  <2>0. UNCHANGED <<nSource, nRepair, lastAckedN>>
    BY <1>1 DEF clientVars
  <2>1. CASE SendSource
    <3> DEFINE p == SourcePacket(enc)
    <3>1. enc \in Encoder /\ p \in Packet /\ enc.rcount \in Nat /\ enc.nextsid \in Nat
      BY EncoderOutputs DEF TypeOK, ServerTypeOK, Encoder
    <3>2. Transmit(p, enc.rcount)
      BY <2>1 DEF SendSource
    <3>3. enc'.nextsid = enc.nextsid + 1 /\ enc'.rcount = enc.rcount
      BY <2>1, <3>1 DEF SendSource, Encoder
    <3>4. /\ p.type = "source" /\ p.id = enc.nextsid /\ p.seq = enc.nextsid + enc.rcount
          /\ p.id = lastSent[p.type] + 1
      BY <3>1, FieldTypes DEF SourcePacket, SentSound
    <3> HIDE DEF p
    <3>5. lastSent'["repair"] = enc'.rcount - 1
      BY <3>2, <3>3, <3>4, FieldTypes DEF Transmit, IdPair, OrderedInv, Numbered
    <3>6. /\ p.id + enc.rcount = p.seq /\ enc'.nextsid + enc'.rcount = p.seq + 1
          /\ enc'.nextsid \in Nat /\ enc'.rcount \in Nat
      BY <3>1, <3>3, <3>4
    <3> QED BY <2>0, <3>1, <3>2, <3>4, <3>5, <3>6, TransmitOrdered
  <2>2. CASE SendRepair
    <3> DEFINE p == RepairPacket(enc)
    <3>1. enc \in Encoder /\ p \in Packet /\ enc.rcount \in Nat /\ enc.nextsid \in Nat
      BY <2>2, EncoderOutputs DEF SendRepair, TypeOK, ServerTypeOK, Encoder
    <3>2. Transmit(p, enc.nextsid)
      BY <2>2 DEF SendRepair
    <3>3. enc'.nextsid = enc.nextsid /\ enc'.rcount = enc.rcount + 1
      BY <2>2, <3>1 DEF SendRepair, Encoder
    <3>4. /\ p.type = "repair" /\ p.id = enc.rcount /\ p.seq = enc.nextsid + enc.rcount
          /\ p.id = lastSent[p.type] + 1
      BY <3>1, FieldTypes DEF RepairPacket, OrderedInv, Numbered
    <3> HIDE DEF p
    <3>5. lastSent'["repair"] = enc'.rcount - 1
      BY <3>1, <3>2, <3>3, <3>4, FieldTypes DEF Transmit, IdPair
    <3>6. /\ p.id + enc.nextsid = p.seq /\ enc'.nextsid + enc'.rcount = p.seq + 1
          /\ enc'.nextsid \in Nat /\ enc'.rcount \in Nat
      BY <3>1, <3>3, <3>4
    <3> QED BY <2>0, <3>1, <3>2, <3>4, <3>5, <3>6, TransmitOrdered
  <2>3. CASE AckRecv
    <3>1. PICK a \in DeliverableAcks :
             /\ ackNet' = ackNet \ {a}
             /\ IF open THEN PacketAckRecv(a) ELSE UNCHANGED serverVars
             /\ dataNet' = dataNet
      BY <2>3 DEF AckRecv
    <3>2. a \in ackNet /\ \A b \in ackNet : Received(a) <= Received(b)
      BY DEF DeliverableAcks
    <3>3. CASE UNCHANGED serverVars
      BY <2>0, <3>1, <3>3, ShrinksOrdered DEF serverVars, Books
    <3>4. CASE ~ UNCHANGED serverVars
      BY <2>0, <3>1, <3>2, <3>4, AckOrdered DEF PacketAckRecv
    <3> QED BY <3>3, <3>4
  <2>4. CASE SendParameter \/ ParamAckRecv \/ CompleteSend
    BY <2>0, <2>4, ShrinksOrdered DEF SendParameter, ParamAckRecv, CompleteSend, Books
  <2>5. CASE SendDataPackets \/ NotifyPacingPerformed \/ SendLoopExit \/ SendLoopSpin
    BY <2>0, <2>5, ShrinksOrdered DEF SendDataPackets, NotifyPacingPerformed, SendLoopExit,
                                SendLoopSpin, serverVars, netVars, Books
  <2> QED BY <1>1, <2>1, <2>2, <2>3, <2>4, <2>5 DEF ServerStep
<1>2. CASE ClientStep /\ UNCHANGED serverVars
  <2>1. CASE ParameterRecv
    BY <1>2, <2>1, ShrinksOrdered DEF ParameterRecv, serverVars, Books
  <2>2. CASE DataRecv
    BY <1>2, <2>2, DataOrdered DEF DataRecv, Deliverable
  <2> QED BY <1>2, <2>1, <2>2 DEF ClientStep
<1>3. CASE Lose /\ UNCHANGED <<serverVars, clientVars>>
  BY <1>3, ShrinksOrdered
  DEF Lose, LoseData, LoseAck, LosePrm, LoseAckPrm, serverVars, clientVars, Books
<1>4. CASE UNCHANGED vars
  BY <1>4, ShrinksOrdered DEF vars, serverVars, clientVars, netVars, Books
<1> QED BY <1>1, <1>2, <1>3, <1>4 DEF Next

LEMMA OrderedInit == Init => OrderedInv
<1> SUFFICES ASSUME Init PROVE OrderedInv
  OBVIOUS
<1>1. /\ lastSent = [t \in PacketType |-> -1] /\ lastAcked = [t \in PacketType |-> -1]
      /\ packetsInFlight = 0 /\ totalLoss = 0 /\ info = {}
      /\ enc = [headsid |-> 0, nextsid |-> 0, rcount |-> 0]
      /\ lastAckedState = [inorder |-> -1, nSource |-> 0, nRepair |-> 0]
      /\ nSource = 0 /\ nRepair = 0 /\ lastAckedN = 0
      /\ dataNet = {} /\ ackNet = {}
  BY DEF Init, ServerInit, ClientInit, NetInit, InitEncoder
<1>2. Numbered
  BY <1>1 DEF Numbered, InFlight
<1>3. InOrder
  BY <1>1 DEF InOrder
<1>4. CountsInOrder
  BY <1>1 DEF CountsInOrder, EstimatesSane, Counted
<1> QED BY <1>2, <1>3, <1>4 DEF OrderedInv

\* The counts of both sides agree with the order of sending throughout a transfer.
LEMMA Ordered == ASSUME ~Reorder PROVE Spec => []OrderedInv
<1>1. IInv => TypeOK /\ RecordsKept /\ SentSound
  BY DEF IInv
<1>2. TypeOK /\ RecordsKept /\ SentSound /\ OrderedInv /\ [Next]_vars => OrderedInv'
  BY OrderedStep
<1> QED BY <1>1, <1>2, OrderedInit, Inductive, PTL DEF Spec

\* On a path that keeps order PeEstimation never computes a negative loss, and every
\* ACK counts packets its predecessor did not, so that m_newAcked is positive.
THEOREM EstimatesStaySane == ASSUME ~Reorder PROVE Spec => []EstimatesSane
<1>1. OrderedInv => EstimatesSane
  BY DEF OrderedInv, CountsInOrder
<1> QED BY <1>1, Ordered, PTL

----------------------------------------------------------------------------
(* The pipe.                                                               *)

\* A set whose members differ in their integer ids from lo + 1 to hi.
LEMMA FewIds ==
    ASSUME NEW S, NEW lo \in Int, NEW hi \in Int, lo <= hi,
           \A x \in S : x.id \in Int /\ lo < x.id /\ x.id <= hi,
           \A x, y \in S : x.id = y.id => x = y
    PROVE  IsFiniteSet(S) /\ Cardinality(S) <= hi - lo
<1> DEFINE ids == (lo + 1) .. hi
           f == [x \in S |-> x.id]
<1>1. f \in [S -> ids]
  OBVIOUS
<1>2. f \in Injection(S, ids)
  BY <1>1 DEF Injection, IsInjective
<1>3. IsFiniteSet(ids) /\ Cardinality(ids) = hi - lo
  <2>1. lo + 1 \in Int
    OBVIOUS
  <2>2. /\ IsFiniteSet(ids)
        /\ Cardinality(ids) = IF lo + 1 > hi THEN 0 ELSE hi - (lo + 1) + 1
    BY <2>1, FS_Interval
  <2> HIDE DEF ids
  <2> QED BY <2>2
<1> HIDE DEF f, ids
<1> QED BY <1>2, <1>3, FS_Injection

\* What is on the path, data packets and acknowledgements together.
Pipe == Cardinality(dataNet) + Cardinality(ackNet)

\* No more is on the path than was sent after the last ACKed packets.
LEMMA PipeBounded ==
    ASSUME TypeOK, RecordsKept, OrderedInv
    PROVE  IsFiniteSet(dataNet) /\ IsFiniteSet(ackNet) /\ Pipe <= packetsInFlight
<1> DEFINE Of(t) == {x \in dataNet \union ackNet : x.type = t}
<1>1. ASSUME NEW t \in PacketType
      PROVE  IsFiniteSet(Of(t)) /\ Cardinality(Of(t)) <= lastSent[t] - lastAcked[t]
  <2>1. lastAcked[t] \in Int /\ lastSent[t] \in Int /\ lastAcked[t] <= lastSent[t]
    BY FieldTypes DEF OrderedInv, Numbered
  <2>2. \A x \in Of(t) : x.id \in Int /\ lastAcked[t] < x.id /\ x.id <= lastSent[t]
    BY IdsSent, FieldTypes DEF OrderedInv, InOrder
  <2>3. \A x, y \in Of(t) : x.id = y.id => x = y
    BY FieldTypes DEF OrderedInv, InOrder, SameId
  <2> HIDE DEF Of
  <2> QED BY <2>1, <2>2, <2>3, FewIds
<1>2. dataNet \union ackNet = Of("source") \union Of("repair")
  BY FieldTypes
<1>3. dataNet \cap ackNet = {}
  BY FieldTypes DEF OrderedInv, InOrder
<1>4. Of("source") \cap Of("repair") = {}
  OBVIOUS
<1>5. /\ dataNet \subseteq Of("source") \union Of("repair")
      /\ ackNet \subseteq Of("source") \union Of("repair")
  BY <1>2
<1> HIDE DEF Of
<1>6. /\ IsFiniteSet(Of("source")) /\ IsFiniteSet(Of("repair"))
      /\ Cardinality(Of("source")) <= lastSent["source"] - lastAcked["source"]
      /\ Cardinality(Of("repair")) <= lastSent["repair"] - lastAcked["repair"]
  BY <1>1
<1>7. IsFiniteSet(Of("source") \union Of("repair"))
  BY <1>6, FS_Union
<1>8. IsFiniteSet(dataNet) /\ IsFiniteSet(ackNet)
  BY <1>5, <1>7, FS_Subset
<1>9. /\ Cardinality(dataNet) \in Nat /\ Cardinality(ackNet) \in Nat
      /\ Cardinality(Of("source")) \in Nat /\ Cardinality(Of("repair")) \in Nat
  BY <1>6, <1>8, FS_CardinalityType
<1>10. Cardinality(dataNet \union ackNet) = Cardinality(dataNet) + Cardinality(ackNet)
  <2>1. Cardinality(dataNet \union ackNet)
          = Cardinality(dataNet) + Cardinality(ackNet) - Cardinality({})
    BY <1>3, <1>8, FS_Union
  <2> QED BY <1>9, <2>1, FS_EmptySet
<1>11. Cardinality(Of("source") \union Of("repair"))
         = Cardinality(Of("source")) + Cardinality(Of("repair"))
  <2>1. Cardinality(Of("source") \union Of("repair"))
          = Cardinality(Of("source")) + Cardinality(Of("repair")) - Cardinality({})
    BY <1>4, <1>6, FS_Union
  <2> QED BY <1>9, <2>1, FS_EmptySet
<1>12. packetsInFlight
         = (lastSent["source"] - lastAcked["source"])
             + (lastSent["repair"] - lastAcked["repair"])
  BY DEF OrderedInv, Numbered, InFlight
<1>13. Pipe = Cardinality(Of("source")) + Cardinality(Of("repair"))
  BY <1>2, <1>10, <1>11 DEF Pipe
<1> QED BY <1>6, <1>8, <1>9, <1>12, <1>13, FieldTypes

\* On a path that keeps order m_packetsInFlight, recomputed from the last ACKed ids
\* only, never counts less than what is on the path, whatever was lost.
THEOREM PipeStaysCounted == ASSUME ~Reorder PROVE Spec => []PipeCounted
<1>1. IInv /\ OrderedInv => PipeCounted
  BY PipeBounded DEF IInv, PipeCounted, Pipe
<1> QED BY <1>1, Inductive, Ordered, PTL

\* Losing packets does not lengthen the pipe, nor does a packet turned into its ACK.
LEMMA PipeKept ==
    ASSUME IsFiniteSet(dataNet), IsFiniteSet(ackNet),
           \/ dataNet' \subseteq dataNet /\ ackNet' \subseteq ackNet
           \/ \E p \in dataNet : \E a :
                 dataNet' = dataNet \ {p} /\ ackNet' \subseteq ackNet \union {a}
    PROVE  Pipe' <= Pipe /\ Pipe \in Nat /\ Pipe' \in Nat
<1>1. Cardinality(dataNet) \in Nat /\ Cardinality(ackNet) \in Nat
  BY FS_CardinalityType
<1>2. CASE dataNet' \subseteq dataNet /\ ackNet' \subseteq ackNet
  <2>1. /\ IsFiniteSet(dataNet') /\ Cardinality(dataNet') <= Cardinality(dataNet)
        /\ IsFiniteSet(ackNet') /\ Cardinality(ackNet') <= Cardinality(ackNet)
    BY <1>2, FS_Subset
  <2>2. Cardinality(dataNet') \in Nat /\ Cardinality(ackNet') \in Nat
    BY <2>1, FS_CardinalityType
  <2> QED BY <1>1, <2>1, <2>2 DEF Pipe
<1>3. ASSUME NEW p \in dataNet, NEW a,
             dataNet' = dataNet \ {p}, ackNet' \subseteq ackNet \union {a}
      PROVE  Pipe' <= Pipe /\ Pipe' \in Nat
  <2>1. IsFiniteSet(dataNet') /\ Cardinality(dataNet') = Cardinality(dataNet) - 1
    BY <1>3, FS_RemoveElement
  <2>2. /\ IsFiniteSet(ackNet \union {a})
        /\ Cardinality(ackNet \union {a}) <= Cardinality(ackNet) + 1
    <3>1. /\ IsFiniteSet(ackNet \union {a})
          /\ Cardinality(ackNet \union {a})
               = IF a \in ackNet THEN Cardinality(ackNet) ELSE Cardinality(ackNet) + 1
      BY FS_AddElement
    <3> QED BY <1>1, <3>1
  <2>3. IsFiniteSet(ackNet') /\ Cardinality(ackNet') <= Cardinality(ackNet \union {a})
    BY <1>3, <2>2, FS_Subset
  <2>4. /\ Cardinality(dataNet') \in Nat /\ Cardinality(ackNet') \in Nat
        /\ Cardinality(ackNet \union {a}) \in Nat
    BY <2>1, <2>2, <2>3, FS_CardinalityType
  <2> QED BY <1>1, <2>1, <2>2, <2>3, <2>4 DEF Pipe
<1> QED BY <1>1, <1>2, <1>3 DEF Pipe

\* The window is the initial one or one that UpdateCWnd computed, and the pipe fits
\* in one of them.
WindowInv == cWnd \in CWnds \union {InitCWnd} /\ PipeWithinWindow

LEMMA WindowStep ==
    ASSUME CWnds # {}, IInv, OrderedInv, IInv', OrderedInv', WindowInv, [Next]_vars
    PROVE  WindowInv'
<1>1. /\ IsFiniteSet(dataNet) /\ IsFiniteSet(ackNet) /\ Pipe <= packetsInFlight
      /\ Pipe' <= packetsInFlight' /\ IsFiniteSet(dataNet') /\ IsFiniteSet(ackNet')
  <2>1. TypeOK /\ RecordsKept /\ OrderedInv
          => IsFiniteSet(dataNet) /\ IsFiniteSet(ackNet) /\ Pipe <= packetsInFlight
    BY PipeBounded
  <2>2. (TypeOK /\ RecordsKept /\ OrderedInv
          => IsFiniteSet(dataNet) /\ IsFiniteSet(ackNet) /\ Pipe <= packetsInFlight)'
    BY PipeBounded, PTL
  <2> QED BY <2>1, <2>2 DEF IInv
<1>2. cWnd' \in CWnds \union {InitCWnd}
  <2>1. cWnd' = cWnd \/ cWnd' \in CWnds
    BY Zenon DEF Next, vars, ServerStep, SendParameter, ParamAckRecv, SendDataPackets,
       NotifyPacingPerformed, SendLoopExit, SendSource, SendRepair, Transmit, SendLoopSpin,
       AckRecv, PacketAckRecv, CompleteSend, ClientStep, serverVars
  <2> QED BY <2>1 DEF WindowInv
<1>3. CASE Pipe' <= Pipe /\ Pipe \in Nat /\ Pipe' \in Nat
  <2>1. PICK w \in CWnds : Pipe <= w
    BY DEF WindowInv, PipeWithinWindow, Pipe
  <2>2. Pipe' <= w
    BY <1>3, <2>1, ServerAssumption
  <2> QED BY <1>2, <2>2 DEF WindowInv, PipeWithinWindow, Pipe
<1>4. CASE ServerStep /\ UNCHANGED clientVars
  <2>1. CASE (SendSource \/ SendRepair) /\ open
    <3>1. packetsInFlight' = packetsInFlight + 1 /\ ~LoopOver
      BY <2>1 DEF SendSource, SendRepair, Transmit
    <3>2. packetsInFlight \in Int /\ cWnd \in Nat
      BY DEF IInv, TypeOK, ServerTypeOK
    <3>4. Pipe' \in Int
      BY <1>1, FS_CardinalityType DEF Pipe
    <3>5. Pipe' <= cWnd
      BY <1>1, <3>1, <3>2, <3>4 DEF LoopOver
    <3>3. \E w \in CWnds : cWnd <= w
      <4>1. PICK v \in CWnds : TRUE
        OBVIOUS
      <4>2. v \in Nat /\ v >= InitCWnd
        BY ServerAssumption
      <4>3. CASE cWnd \in CWnds
        BY <3>2, <4>3
      <4>4. CASE cWnd = InitCWnd
        BY <4>1, <4>2, <4>4
      <4> QED BY <4>3, <4>4 DEF WindowInv
    <3>6. \E w \in CWnds : Pipe' <= w
      BY <3>2, <3>3, <3>4, <3>5, ServerAssumption
    <3> QED BY <1>2, <3>6 DEF WindowInv, PipeWithinWindow, Pipe
  <2>2. CASE (SendSource \/ SendRepair) /\ ~open
    BY <1>1, <1>3, <2>2, PipeKept DEF SendSource, SendRepair, Transmit
  <2>3. CASE AckRecv
    BY <1>1, <1>3, <2>3, PipeKept DEF AckRecv
  <2>4. CASE SendParameter \/ ParamAckRecv \/ CompleteSend
    BY <1>1, <1>3, <2>4, PipeKept DEF SendParameter, ParamAckRecv, CompleteSend
  <2>5. CASE SendDataPackets \/ NotifyPacingPerformed \/ SendLoopExit \/ SendLoopSpin
    BY <1>1, <1>3, <2>5, PipeKept DEF SendDataPackets, NotifyPacingPerformed, SendLoopExit,
                                SendLoopSpin, serverVars, netVars
  <2> QED BY <1>4, <2>1, <2>2, <2>3, <2>4, <2>5 DEF ServerStep
<1>5. CASE ClientStep
  <2>1. CASE ParameterRecv
    BY <1>1, <1>3, <2>1, PipeKept DEF ParameterRecv
  <2>2. CASE DataRecv
    <3>1. PICK p \in Deliverable : dataNet' = dataNet \ {p} /\ PacketRecv(p)
      BY <2>2 DEF DataRecv
    <3>2. p \in dataNet
      BY DEF Deliverable
    <3>3. \E a : ackNet' \subseteq ackNet \union {a}
      BY <3>1, Zenon DEF PacketRecv, InorderAckSend
    <3> QED BY <1>1, <1>3, <3>1, <3>2, <3>3, PipeKept
  <2> QED BY <1>5, <2>1, <2>2 DEF ClientStep
<1>6. CASE Lose
  BY <1>1, <1>3, <1>6, PipeKept DEF Lose, LoseData, LoseAck, LosePrm, LoseAckPrm
<1>7. CASE UNCHANGED vars
  BY <1>1, <1>3, <1>7, PipeKept DEF vars, netVars
<1> QED BY <1>4, <1>5, <1>6, <1>7 DEF Next

\* On a path that keeps order what is outstanding never exceeds the largest window
\* UpdateCWnd may compute: an underestimate of the pipe cannot build up.
THEOREM PipeStaysWithinWindow ==
    ASSUME ~Reorder, CWnds # {} PROVE Spec => []PipeWithinWindow
<1>1. Init => WindowInv
  <2>1. PICK w \in CWnds : TRUE
    OBVIOUS
  <2> QED BY <2>1, FS_EmptySet, ServerAssumption
          DEF Init, ServerInit, NetInit, WindowInv, PipeWithinWindow
<1>2. IInv /\ OrderedInv /\ IInv' /\ OrderedInv' /\ WindowInv /\ [Next]_vars => WindowInv'
  BY WindowStep
<1>3. WindowInv => PipeWithinWindow
  BY DEF WindowInv
<1> QED BY <1>1, <1>2, <1>3, Inductive, Ordered, PTL DEF Spec

----------------------------------------------------------------------------
(* Every step is a step of the reliable stream, or a stutter of it.        *)

streamVars == <<enc.nextsid, dec.inorder + 1, enc.headsid, ~open>>

LEMMA ServerRefines ==
    ASSUME IInv, ServerStep, UNCHANGED clientVars
    PROVE  [Stream!Next]_streamVars
<1>0. /\ enc \in Encoder /\ dec \in Decoder /\ lastSent \in IdPair /\ N \in Nat
      /\ dec' = dec
  BY NAssumption DEF IInv, TypeOK, ServerTypeOK, ClientTypeOK, clientVars
<1>1. CASE SendSource
  <2>1. /\ enc.nextsid < N
        /\ enc'.nextsid = enc.nextsid + 1 /\ enc'.headsid = enc.headsid
    BY <1>0, <1>1 DEF SendSource, TimeToSendRepairPacket, IInv, SentSound, Encoder
  <2>2. open' = open
    BY <1>1 DEF SendSource, Transmit
  <2> QED  BY <1>0, <2>1, <2>2 DEF Stream!Next, Stream!Send
<1>2. CASE SendRepair
  <2>1. /\ enc'.nextsid = enc.nextsid /\ enc'.headsid = enc.headsid
        /\ open' = open
    BY <1>0, <1>2 DEF SendRepair, Transmit, Encoder
  <2> QED  BY <1>0, <2>1 DEF streamVars
<1>3. CASE AckRecv
  <2>1. PICK a \in DeliverableAcks :
           IF open THEN PacketAckRecv(a) ELSE UNCHANGED serverVars
    BY <1>3 DEF AckRecv
  <2>2. a \in ackNet /\ a.inorder \in Int /\ a.inorder <= dec.inorder
    BY DEF DeliverableAcks, IInv, FlushSafe, TypeOK, NetTypeOK, Ack
  <2>3. CASE UNCHANGED serverVars
    BY <1>0, <2>3 DEF serverVars, streamVars
  <2>4. CASE ~ UNCHANGED serverVars
    <3>1. /\ open
          /\ enc' = FlushOnAck(a)
          /\ IF AllAcked(a) THEN StopApplication ELSE UNCHANGED <<open, pacingTimer>>
      BY <2>1, <2>4, Zenon DEF PacketAckRecv
    <3>2. CASE AllAcked(a)
      <4>1. enc' = enc /\ open' = FALSE
        BY <3>1, <3>2, Zenon DEF FlushOnAck, StopApplication
      <4>2. dec.inorder + 1 = N
        BY <1>0, <2>2, <3>2 DEF AllAcked, IInv, DecoderSound, SentSound, Decoder, Encoder
      <4> QED  BY <1>0, <3>1, <4>1, <4>2 DEF Stream!Next, Stream!Close
    <3>3. CASE ~AllAcked(a)
      <4>1. open' = open /\ enc'.nextsid = enc.nextsid
        BY <1>0, <3>1, <3>3 DEF FlushOnAck, FlushAcked, Encoder
      <4>2. enc'.headsid = enc.headsid
            \/ enc'.headsid \in (enc.headsid + 1) .. (dec.inorder + 1)
        <5>1. enc'.headsid <= dec.inorder + 1
          BY <2>2, <3>1, FlushBounded DEF IInv
        <5>2. enc'.headsid >= enc.headsid /\ enc'.headsid \in Nat
          BY <1>0, <2>2, <3>1, FlushType DEF FlushOnAck, FlushAcked, Encoder
        <5> QED  BY <1>0, <5>1, <5>2 DEF Encoder, Decoder
      <4> QED  BY <1>0, <3>1, <4>1, <4>2 DEF Stream!Next, Stream!Release, streamVars
    <3> QED  BY <3>2, <3>3
  <2> QED  BY <2>3, <2>4
<1>4. CASE SendParameter \/ ParamAckRecv \/ CompleteSend
  BY <1>0, <1>4 DEF SendParameter, ParamAckRecv, CompleteSend, streamVars
<1>5. CASE SendDataPackets \/ NotifyPacingPerformed \/ SendLoopExit \/ SendLoopSpin
  BY <1>0, <1>5 DEF SendDataPackets, NotifyPacingPerformed, SendLoopExit,
                    SendLoopSpin, serverVars, streamVars
<1> QED  BY <1>1, <1>2, <1>3, <1>4, <1>5 DEF ServerStep

LEMMA ClientRefines ==
    ASSUME IInv, ClientStep, UNCHANGED serverVars
    PROVE  [Stream!Next]_streamVars
<1>0. enc' = enc /\ open' = open
  BY DEF serverVars
<1>1. CASE ParameterRecv
  <2>1. dec' = dec
    BY <1>1 DEF ParameterRecv, InitializeDecoder, AcceptsParameters, IInv, DecoderSound
  <2> QED  BY <1>0, <2>1 DEF streamVars
<1>2. CASE DataRecv
  <2>1. PICK p \in Deliverable : PacketRecv(p)
    BY <1>2 DEF DataRecv
  <2>2. CASE dec' = dec
    BY <1>0, <2>2 DEF streamVars
  <2>3. CASE dec' = ReceivePacket(dec, p)
    <3>1. /\ p \in Packet /\ p.we < enc.nextsid /\ enc.nextsid \in Nat
          /\ dec \in Decoder /\ dec.win_e < enc.nextsid /\ dec.inorder <= dec.win_e
      BY DEF IInv, TypeOK, ServerTypeOK, ClientTypeOK, NetTypeOK, SentSound,
             DecoderSound, Deliverable, Encoder
    <3>2. /\ dec' \in Decoder /\ dec'.inorder >= dec.inorder
          /\ dec'.inorder <= dec'.win_e /\ dec'.win_e < enc.nextsid
      BY <2>3, <3>1, DecoderReceives, DecoderBounded
    <3>3. dec'.inorder + 1 = dec.inorder + 1
          \/ dec'.inorder + 1 \in (dec.inorder + 1 + 1) .. enc.nextsid
      BY <3>1, <3>2 DEF Decoder
    <3> QED  BY <1>0, <3>3 DEF Stream!Next, Stream!Deliver, streamVars
  <2> QED  BY <2>1, <2>2, <2>3 DEF PacketRecv
<1> QED  BY <1>1, <1>2 DEF ClientStep

\* A transfer implements the reliable stream, for every transfer, window and path.
THEOREM Refinement == Spec => ImplementsStream
<1>1. Init => Stream!Init
  BY DEF Init, ServerInit, ClientInit, InitEncoder, InitDecoder, Stream!Init
<1>2. IInv /\ [Next]_vars => [Stream!Next]_streamVars
  <2> SUFFICES ASSUME IInv, [Next]_vars PROVE [Stream!Next]_streamVars
    OBVIOUS
  <2>1. CASE ServerStep /\ UNCHANGED clientVars
    BY <2>1, ServerRefines
  <2>2. CASE ClientStep /\ UNCHANGED serverVars
    BY <2>2, ClientRefines
  <2>3. CASE UNCHANGED <<serverVars, clientVars>>
    BY <2>3 DEF serverVars, clientVars, streamVars
  <2> QED  BY <2>1, <2>2, <2>3 DEF Next, vars
<1> QED  BY <1>1, <1>2, Inductive, PTL DEF Spec, ImplementsStream, Stream!Spec, streamVars
=============================================================================
