------------------------------ MODULE FecBlock ------------------------------
(***************************************************************************)
(* The sending side of the FEC extension of TcpSocketBase: the block of    *)
(* new segments a repair packet covers.  Sequence numbers count octets,    *)
(* and the octets sent are those below highTxMark.                         *)
(*                                                                         *)
(* SendDataPacket sends a repair packet in place of the segment it was     *)
(* asked for whenever the block is full, whoever asked: new data or a      *)
(* retransmission.                                                         *)
(***************************************************************************)
EXTENDS FecSegments

CONSTANTS
    Writes,             \* the numbers of octets an application writes at once
    FirstSeq,           \* the sequence number of the first octet of data
    MaxOctets           \* bound: the octets of the transfer

ASSUME FecBlockAssumption ==
    /\ Writes \subseteq Nat \ {0}
    /\ FirstSeq \in Nat \ {0}
    /\ MaxOctets \in Nat

VARIABLES
    written,            \* the end of the data in m_txBuffer
    highTxMark,
    head,               \* m_txBuffer->HeadSequence()
    fecCounter, fecHeadSeqNum, fecLastFresh,
    covered,            \* history: the end of the last repair packet's block
    segments            \* history: new segments sent since then

blockVars == <<written, highTxMark, head, fecCounter, fecHeadSeqNum, fecLastFresh, covered,
          segments>>

End == FirstSeq + MaxOctets

BlockTypeOK ==
    /\ written \in FirstSeq..End
    /\ highTxMark \in FirstSeq..written
    /\ head \in FirstSeq..highTxMark
    /\ fecCounter \in 0..BlockSegments
    /\ fecHeadSeqNum \in 0..End /\ fecLastFresh \in 0..End
    /\ covered \in FirstSeq..End
    /\ segments \in Nat

-----------------------------------------------------------------------------
\* Whether SendDataPacket takes a segment for one "never sent before".
Fresh(seq) == fecLastFresh = 0 \/ fecLastFresh + SegmentSize = seq

\* Whether a repair packet takes the place of the segment.
BlockFull == fecCounter = BlockSegments

BlockInit ==
    /\ written = FirstSeq /\ highTxMark = FirstSeq /\ head = FirstSeq
    /\ fecCounter = 0 /\ fecHeadSeqNum = 0 /\ fecLastFresh = 0
    /\ covered = FirstSeq /\ segments = 0

\* The application gives the socket n octets.
Write(n) ==
    /\ written + n <= End
    /\ written' = written + n
    /\ UNCHANGED <<highTxMark, head, fecCounter, fecHeadSeqNum, fecLastFresh, covered,
                   segments>>

\* The counter of the block when a segment goes out.
Count(seq) ==
    IF Fresh(seq)
    THEN /\ fecHeadSeqNum' = IF fecCounter = 0 THEN seq ELSE fecHeadSeqNum
         /\ fecCounter' = fecCounter + 1
         /\ fecLastFresh' = seq
    ELSE UNCHANGED <<fecHeadSeqNum, fecCounter, fecLastFresh>>

\* (mutant: the counter is not reset)
KeepCounting == fecCounter' = fecCounter - 1

ResetCounter == fecCounter' = 0

\* SendFecPacket: the block of fecCounter segments from fecHeadSeqNum.
SendBlock ==
    /\ ResetCounter
    /\ covered' = fecHeadSeqNum + BlockSegments * SegmentSize
    /\ segments' = 0
    /\ UNCHANGED <<written, highTxMark, head, fecHeadSeqNum, fecLastFresh>>

\* SendPendingData of new data: a short segment waits for the rest of it unless
\* nothing is unacknowledged (Nagle).
SendNew ==
    LET size == Smaller(SegmentSize, written - highTxMark)
    IN  /\ written > highTxMark
        /\ size = SegmentSize \/ head = highTxMark
        /\ IF BlockFull THEN SendBlock
           ELSE /\ highTxMark' = highTxMark + size
                /\ Count(highTxMark)
                /\ segments' = segments + 1
                /\ UNCHANGED <<written, head, covered>>

\* A segment is sent again, from an octet at which one was sent before.
Retransmit ==
    /\ head < highTxMark
    /\ IF BlockFull THEN SendBlock
       ELSE /\ \E k \in 0..(MaxOctets \div SegmentSize) :
                /\ head + k * SegmentSize < highTxMark
                /\ Count(head + k * SegmentSize)
            /\ UNCHANGED <<written, highTxMark, head, covered, segments>>

\* An ACK of some of the data sent, or of all of it.
Acknowledge ==
    /\ head < highTxMark
    /\ \E k \in 1..(MaxOctets \div SegmentSize + 1) :
        head' = Smaller(head + k * SegmentSize, highTxMark)
    /\ UNCHANGED <<written, highTxMark, fecCounter, fecHeadSeqNum, fecLastFresh, covered,
                   segments>>

BlockNext == (\E n \in Writes : Write(n)) \/ SendNew \/ Retransmit \/ Acknowledge

BlockSpec == BlockInit /\ [][BlockNext]_blockVars

-----------------------------------------------------------------------------
\* The block counted so far is exactly what was first sent since the last repair
\* packet, whatever is retransmitted or acknowledged meanwhile.
BlockIsFresh ==
    /\ covered + fecCounter * SegmentSize = highTxMark
    /\ fecCounter > 0 => fecHeadSeqNum = covered

\* Every segment sent for the first time is counted ("a packet never sent before is
\* to be sent", tcp-socket-base.cc:3215), and so will be repaired.
NewSegmentsCounted == segments = fecCounter
=============================================================================
