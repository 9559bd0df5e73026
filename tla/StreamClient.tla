--------------------------- MODULE StreamClient ---------------------------
(***************************************************************************)
(* StreamClientApp, the receiver: each packet the socket hands to          *)
(* HandleRead is one action.                                               *)
(***************************************************************************)
EXTENDS ScUdpNet

VARIABLES
    decReady,       \* m_dec points to an initialised decoder
    dec,            \* *m_dec
    established,    \* m_established: a DATA_PACKET has been read
    nSource,        \* m_nSource: source packets counted
    nRepair,        \* m_nRepair: repair packets counted
    lastAckedN      \* m_lastAckedN: nSource + nRepair at the last ACK

clientVars == <<decReady, dec, established, nSource, nRepair, lastAckedN>>

ClientTypeOK == /\ decReady \in BOOLEAN
                /\ dec \in Decoder
                /\ established \in BOOLEAN
                /\ nSource \in Nat
                /\ nRepair \in Nat
                /\ lastAckedN \in Nat

ClientInit == /\ decReady = FALSE
              /\ dec = InitDecoder
              /\ established = FALSE
              /\ nSource = 0 /\ nRepair = 0 /\ lastAckedN = 0

Delivered == dec.inorder = N - 1

\* Parameters are taken only until the first data packet.
AcceptsParameters == ~established

\* (mutant: the decoder is not made)
NoDecoder == UNCHANGED <<decReady, dec>>

\* m_dec = initialize_decoder(&m_cp)
InitializeDecoder == decReady' = TRUE /\ dec' = InitDecoder

\* HandleRead, PARAMETER: until data has arrived the decoder is made afresh
\* and the parameters are acknowledged.
ParameterRecv ==
    /\ prmNet > 0
    /\ prmNet' = prmNet - 1
    /\ IF AcceptsParameters
       THEN /\ InitializeDecoder
            /\ ackPrmNet' = ackPrmNet + 1
       ELSE UNCHANGED <<decReady, dec, ackPrmNet>>
    /\ UNCHANGED <<established, nSource, nRepair, lastAckedN,
                   dataNet, ackNet, completeNet, losses>>

\* (mutant: reports what is new instead of totals)
InorderAckDelta(p, d, ns, nr) ==
    [type |-> p.type, id |-> p.id, inorder |-> d.inorder,
     nSource |-> ns - lastAckedN, nRepair |-> nr]

\* The acknowledgement InorderAckSend builds from m_newpacketInfo, the decoder
\* and the counters (its dwWidth and dof fields are never used by the server).
InorderAck(p, d, ns, nr) ==
    [type |-> p.type, id |-> p.id, inorder |-> d.inorder,
     nSource |-> ns, nRepair |-> nr]

\* InorderAckSend: only when something new was counted since the last ACK.
InorderAckSend(p, d, ns, nr) ==
    IF ns + nr # lastAckedN
    THEN /\ ackNet' = ackNet \union {InorderAck(p, d, ns, nr)}
         /\ lastAckedN' = ns + nr
    ELSE UNCHANGED <<ackNet, lastAckedN>>

\* PacketRecv: nothing at all once everything is delivered; otherwise the packet
\* is counted, decoded and acknowledged.
PacketRecv(p) ==
    IF Delivered
    THEN UNCHANGED <<dec, nSource, nRepair, lastAckedN, ackNet>>
    ELSE LET ns == IF p.type = "source" THEN nSource + 1 ELSE nSource
             nr == IF p.type = "repair" THEN nRepair + 1 ELSE nRepair
             d  == ReceivePacket(dec, p)
         IN  /\ nSource' = ns
             /\ nRepair' = nr
             /\ dec' = d
             /\ InorderAckSend(p, d, ns, nr)

\* HandleRead, DATA_PACKET.
DataRecv == \E p \in Deliverable :
    /\ dataNet' = dataNet \ {p}
    /\ established' = TRUE
    /\ PacketRecv(p)
    /\ UNCHANGED <<decReady, prmNet, ackPrmNet, completeNet, losses>>
=============================================================================
