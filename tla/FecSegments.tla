---------------------------- MODULE FecSegments ----------------------------
(***************************************************************************)
(* What both sides of the FEC extension of TcpSocketBase know: the size of *)
(* a segment and the segments of a block.  Sequence numbers count octets.  *)
(***************************************************************************)
EXTENDS Integers

CONSTANTS
    SegmentSize,
    BlockSegments       \* m_fecRatio, which never changes

ASSUME FecSegmentsAssumption ==
    /\ SegmentSize \in Nat \ {0}
    /\ BlockSegments \in Nat \ {0}

Smaller(a, b) == IF a <= b THEN a ELSE b
Larger(a, b) == IF a >= b THEN a ELSE b
=============================================================================
