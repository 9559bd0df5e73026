----------------------------- MODULE ScUdpNet -----------------------------
(***************************************************************************)
(* The UDP path between the two applications: what is in flight in each    *)
(* direction.  Links lose packets (the RateErrorModel of the simulation),  *)
(* never duplicate them, and reorder them only where the simulation        *)
(* changes a link's delay while packets are in flight.                     *)
(***************************************************************************)
EXTENDS StreamCodec

CONSTANTS
    Reorder,        \* TRUE: in-flight packets may overtake each other
    MaxLoss,        \* bound: packets the links lose in one behaviour
    MaxPrm          \* bound: PARAMETER and ACK_PRM packets in flight at once

ASSUME NetAssumption == /\ Reorder \in BOOLEAN
                        /\ MaxLoss \in Nat
                        /\ MaxPrm \in Nat \ {0}

VARIABLES
    dataNet,        \* DATA_PACKETs in flight, server to client
    ackNet,         \* INORDER acknowledgements in flight, client to server
    prmNet,         \* number of PARAMETER packets in flight
    ackPrmNet,      \* number of ACK_PRM packets in flight
    completeNet,    \* a COMPLETE packet was put on the wire
    losses          \* packets lost so far

netVars == <<dataNet, ackNet, prmNet, ackPrmNet, completeNet, losses>>

\* An acknowledgement: the packet just received, and the receiver's state.
Ack == [type : PacketType, id : Nat, inorder : Int,
        nSource : Nat, nRepair : Nat]

Received(a) == a.nSource + a.nRepair

NetTypeOK == /\ dataNet \subseteq Packet
             /\ ackNet \subseteq Ack
             /\ prmNet \in Nat
             /\ ackPrmNet \in Nat
             /\ completeNet \in BOOLEAN
             /\ losses \in Nat

NetInit == /\ dataNet = {} /\ ackNet = {}
           /\ prmNet = 0 /\ ackPrmNet = 0
           /\ completeNet = FALSE
           /\ losses = 0

\* The packets the path may deliver next: any, or the oldest.
Deliverable == {p \in dataNet : Reorder \/ \A q \in dataNet : p.seq <= q.seq}

DeliverableAcks ==
    {a \in ackNet : Reorder \/ \A b \in ackNet : Received(a) <= Received(b)}

LoseData == \E p \in dataNet :
                /\ dataNet' = dataNet \ {p}
                /\ UNCHANGED <<ackNet, prmNet, ackPrmNet>>

LoseAck == \E a \in ackNet :
                /\ ackNet' = ackNet \ {a}
                /\ UNCHANGED <<dataNet, prmNet, ackPrmNet>>

LosePrm == /\ prmNet > 0
           /\ prmNet' = prmNet - 1
           /\ UNCHANGED <<dataNet, ackNet, ackPrmNet>>

LoseAckPrm == /\ ackPrmNet > 0
              /\ ackPrmNet' = ackPrmNet - 1
              /\ UNCHANGED <<dataNet, ackNet, prmNet>>

\* A link drops one packet of any kind.
Lose == /\ losses < MaxLoss
        /\ losses' = losses + 1
        /\ completeNet' = completeNet
        /\ LoseData \/ LoseAck \/ LosePrm \/ LoseAckPrm
=============================================================================
