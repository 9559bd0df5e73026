----------------------------- MODULE FecProofs -----------------------------
(***************************************************************************)
(* What the sender counts is exactly the block it will repair, for every   *)
(* ratio, segment size and interleaving of new data, retransmissions and   *)
(* ACKs, if the application writes whole segments.  Then the types of the  *)
(* three models of the extension, as the run composes them.                *)
(***************************************************************************)
EXTENDS MCFec, FecReceiverProofs, FecRecoveryProofs

\* The data waiting is a whole number of segments.
Waiting == \E n \in Nat : written = highTxMark + n * SegmentSize

BlockInv ==
    /\ BlockTypeOK
    /\ Waiting
    /\ BlockIsFresh
    /\ NewSegmentsCounted
    /\ fecLastFresh = 0 => highTxMark = FirstSeq
    /\ fecLastFresh /= 0 => fecLastFresh + SegmentSize = highTxMark

LEMMA InitBlockInv == BlockInit => BlockInv
<1> SUFFICES ASSUME BlockInit PROVE BlockInv
  OBVIOUS
<1>1. FirstSeq \in Nat /\ End \in Nat /\ FirstSeq <= End /\ BlockSegments \in Nat
  BY FecSegmentsAssumption, FecBlockAssumption DEF End
<1>2. BlockTypeOK /\ fecLastFresh = 0 /\ highTxMark = FirstSeq
  BY <1>1 DEF BlockInit, BlockTypeOK
<1>3. 0 * SegmentSize = 0
  BY Products, FecSegmentsAssumption, FecBlockAssumption
<1>4. Waiting
  BY <1>1, <1>3, written = highTxMark + 0 * SegmentSize DEF BlockInit, Waiting
<1> QED BY <1>1, <1>2, <1>3, <1>4 DEF BlockInit, BlockInv, BlockIsFresh, NewSegmentsCounted

\* A segment counted is the first of its octets beyond the mark.
LEMMA OnlyNewIsFresh ==
    ASSUME BlockInv, NEW seq \in Nat, seq < highTxMark, seq >= FirstSeq
    PROVE  ~Fresh(seq)
<1>1. highTxMark \in Nat /\ FirstSeq \in Nat /\ fecLastFresh \in Nat /\ SegmentSize \in Nat
  BY FecSegmentsAssumption, FecBlockAssumption DEF BlockInv, BlockTypeOK, End
<1> QED BY <1>1 DEF BlockInv, Fresh

\* Emitting the repair packet of a full block begins the next one at the mark.
LEMMA RepairStep ==
    ASSUME BlockInv, BlockFull, SendBlock
    PROVE  BlockInv'
<1>1. /\ BlockSegments \in Nat \ {0} /\ SegmentSize \in Nat \ {0}
      /\ highTxMark \in Nat /\ covered \in Nat /\ fecHeadSeqNum \in Nat
      /\ FirstSeq \in Nat /\ highTxMark >= FirstSeq /\ highTxMark <= End /\ End \in Nat
  BY FecSegmentsAssumption, FecBlockAssumption DEF BlockInv, BlockTypeOK, End
<1>2. covered' = highTxMark
  <2>1. fecHeadSeqNum = covered /\ covered + BlockSegments * SegmentSize = highTxMark
    BY <1>1 DEF BlockInv, BlockIsFresh, BlockFull
  <2> QED BY <2>1 DEF SendBlock
<1>3. fecCounter' = 0 /\ segments' = 0
      /\ UNCHANGED <<written, highTxMark, head, fecHeadSeqNum, fecLastFresh>>
  BY DEF SendBlock, ResetCounter
<1>4. 0 * SegmentSize = 0
  BY <1>1, Products
<1>5. BlockTypeOK'
  BY <1>1, <1>2, <1>3 DEF BlockInv, BlockTypeOK
<1>6. BlockIsFresh'
  BY <1>1, <1>2, <1>3, <1>4 DEF BlockIsFresh
<1>7. Waiting'
  BY <1>3 DEF BlockInv, Waiting
<1> QED BY <1>3, <1>5, <1>6, <1>7 DEF BlockInv, NewSegmentsCounted

\* A segment of new data extends the block by one.
LEMMA NewStep ==
    ASSUME BlockInv, SendNew, ~BlockFull
    PROVE  BlockInv'
<1> DEFINE size == Smaller(SegmentSize, written - highTxMark)
<1>1. /\ BlockSegments \in Nat \ {0} /\ SegmentSize \in Nat \ {0}
      /\ highTxMark \in Nat /\ covered \in Nat /\ written \in Nat
      /\ FirstSeq \in Nat \ {0} /\ highTxMark >= FirstSeq /\ written <= End /\ End \in Nat
      /\ fecCounter \in 0..(BlockSegments - 1) /\ head \in FirstSeq..highTxMark
      /\ fecHeadSeqNum \in 0..End
  BY FecSegmentsAssumption, FecBlockAssumption DEF BlockInv, BlockTypeOK, End, BlockFull
<1>2. PICK n \in Nat : written = highTxMark + n * SegmentSize
  BY DEF BlockInv, Waiting
<1>3. written > highTxMark
  BY DEF SendNew
<1>4. n > 0
  <2>1. ASSUME n = 0 PROVE FALSE
    <3>1. n * SegmentSize = 0
      BY <2>1, <1>1, Products
    <3> QED BY <1>1, <1>2, <1>3, <3>1
  <2> QED BY <2>1
<1>5. size = SegmentSize /\ highTxMark + SegmentSize <= written
  <2>1. n * SegmentSize >= SegmentSize /\ n * SegmentSize \in Nat
    BY <1>1, <1>4, Products
  <2> QED BY <1>1, <1>2, <2>1 DEF Smaller
<1>6. /\ highTxMark' = highTxMark + SegmentSize
      /\ Count(highTxMark)
      /\ segments' = segments + 1
      /\ UNCHANGED <<written, head, covered>>
  BY <1>5 DEF SendNew
<1>7. Fresh(highTxMark)
  BY DEF BlockInv, Fresh
<1>8. /\ fecHeadSeqNum' = IF fecCounter = 0 THEN highTxMark ELSE fecHeadSeqNum
      /\ fecCounter' = fecCounter + 1
      /\ fecLastFresh' = highTxMark
  BY <1>6, <1>7 DEF Count
<1>9. BlockTypeOK'
  BY <1>1, <1>5, <1>6, <1>8 DEF BlockInv, BlockTypeOK
<1>10. BlockIsFresh'
  <2>1. (fecCounter + 1) * SegmentSize = fecCounter * SegmentSize + SegmentSize
        /\ fecCounter * SegmentSize \in Nat /\ 0 * SegmentSize = 0
    BY <1>1, Products
  <2>2. covered + fecCounter * SegmentSize = highTxMark
    BY DEF BlockInv, BlockIsFresh
  <2>3. covered + (fecCounter + 1) * SegmentSize = highTxMark + SegmentSize
    BY <1>1, <2>1, <2>2
  <2>4. fecCounter = 0 => covered = highTxMark
    BY <1>1, <2>1, <2>2
  <2>5. fecHeadSeqNum' = covered
    BY <1>1, <1>8, <2>4 DEF BlockInv, BlockIsFresh
  <2> QED BY <1>6, <1>8, <2>3, <2>5 DEF BlockIsFresh
<1>11. Waiting'
  <2>1. PICK k \in Nat : n = k + 1
    BY <1>4, n - 1 \in Nat
  <2>2. n * SegmentSize = k * SegmentSize + SegmentSize /\ k * SegmentSize \in Nat
    BY <1>1, <2>1, Products
  <2>3. written' = highTxMark' + k * SegmentSize
    BY <1>1, <1>2, <1>6, <2>2
  <2> QED BY <2>3 DEF Waiting
<1> QED BY <1>1, <1>6, <1>8, <1>9, <1>10, <1>11 DEF BlockInv, NewSegmentsCounted

\* Every step keeps the invariant.
LEMMA StepBlockInv ==
    ASSUME Writes = {SegmentSize}, BlockInv, [BlockNext]_blockVars
    PROVE  BlockInv'
<1>0. /\ BlockSegments \in Nat \ {0} /\ SegmentSize \in Nat \ {0} /\ FirstSeq \in Nat \ {0}
      /\ End \in Nat /\ highTxMark \in Nat /\ head \in Nat /\ MaxOctets \in Nat
      /\ head >= FirstSeq /\ head <= highTxMark
  BY FecSegmentsAssumption, FecBlockAssumption DEF BlockInv, BlockTypeOK, End
<1>1. ASSUME NEW n \in Writes, Write(n) PROVE BlockInv'
  <2>1. n = SegmentSize /\ written' = written + SegmentSize /\ written' <= End
        /\ UNCHANGED <<highTxMark, head, fecCounter, fecHeadSeqNum, fecLastFresh, covered,
                       segments>>
    BY <1>1 DEF Write
  <2>2. PICK k \in Nat : written = highTxMark + k * SegmentSize
    BY DEF BlockInv, Waiting
  <2>3. Waiting'
    <3>1. (k + 1) * SegmentSize = k * SegmentSize + SegmentSize /\ k * SegmentSize \in Nat
      BY <1>0, Products
    <3>2. written' = highTxMark' + (k + 1) * SegmentSize
      BY <1>0, <2>1, <2>2, <3>1
    <3> QED BY <3>2 DEF Waiting
  <2>4. BlockTypeOK'
    BY <1>0, <2>1 DEF BlockInv, BlockTypeOK
  <2> QED BY <2>1, <2>3, <2>4 DEF BlockInv, BlockIsFresh, NewSegmentsCounted
<1>2. CASE SendNew
  <2>1. CASE BlockFull
    BY <1>2, <2>1, RepairStep DEF SendNew
  <2> QED BY <1>2, <2>1, NewStep
<1>3. CASE Retransmit
  <2>1. CASE BlockFull
    BY <1>3, <2>1, RepairStep DEF Retransmit
  <2>2. CASE ~BlockFull
    <3>1. PICK k \in 0..(MaxOctets \div SegmentSize) :
            /\ head + k * SegmentSize < highTxMark
            /\ Count(head + k * SegmentSize)
      BY <1>3, <2>2 DEF Retransmit
    <3>2. MaxOctets \div SegmentSize \in Nat
      BY <1>0
    <3>3. k \in Nat
      BY <3>2
    <3>4. k * SegmentSize \in Nat
      BY <1>0, <3>3, Products
    <3>5. ~Fresh(head + k * SegmentSize)
      BY <1>0, <3>1, <3>4, OnlyNewIsFresh
    <3>6. UNCHANGED blockVars
      BY <1>3, <2>2, <3>1, <3>5 DEF Retransmit, Count, blockVars
    <3> QED BY <3>6 DEF blockVars, BlockInv, BlockTypeOK, Waiting, BlockIsFresh, NewSegmentsCounted
  <2> QED BY <2>1, <2>2
<1>4. CASE Acknowledge
  <2>1. head' \in head..highTxMark
    <3>1. PICK k \in 1..(MaxOctets \div SegmentSize + 1) :
            head' = Smaller(head + k * SegmentSize, highTxMark)
      BY <1>4 DEF Acknowledge
    <3>2. MaxOctets \div SegmentSize \in Nat
      BY <1>0
    <3>3. k * SegmentSize \in Nat
      BY <1>0, <3>2, Products
    <3> QED BY <1>0, <3>1, <3>3 DEF Smaller
  <2>2. UNCHANGED <<written, highTxMark, fecCounter, fecHeadSeqNum, fecLastFresh, covered,
                    segments>>
    BY <1>4 DEF Acknowledge
  <2>3. BlockTypeOK'
    BY <1>0, <2>1, <2>2 DEF BlockInv, BlockTypeOK
  <2> QED BY <2>2, <2>3 DEF BlockInv, Waiting, BlockIsFresh, NewSegmentsCounted
<1>5. CASE UNCHANGED blockVars
  BY <1>5 DEF blockVars, BlockInv, BlockTypeOK, Waiting, BlockIsFresh, NewSegmentsCounted
<1> QED BY <1>1, <1>2, <1>3, <1>4, <1>5 DEF BlockNext

LEMMA BlockInductive == Writes = {SegmentSize} => (BlockSpec => []BlockInv)
<1>1. Writes = {SegmentSize} /\ BlockInv /\ [BlockNext]_blockVars => BlockInv'
  BY StepBlockInv
<1> QED
  <2> SUFFICES ASSUME Writes = {SegmentSize} PROVE BlockSpec => []BlockInv
    OBVIOUS
  <2>1. BlockInv /\ [BlockNext]_blockVars => BlockInv'
    BY <1>1
  <2> QED BY InitBlockInv, <2>1, PTL DEF BlockSpec

\* The block counted is always what was first sent since the last repair packet.
THEOREM BlockStaysFresh == ASSUME Writes = {SegmentSize} PROVE BlockSpec => []BlockIsFresh
<1>1. BlockInv => BlockIsFresh
  BY DEF BlockInv
<1>2. BlockSpec => []BlockInv
  BY BlockInductive
<1> QED BY <1>1, <1>2, PTL

\* Every segment sent for the first time is counted.
THEOREM EverySegmentCounted == ASSUME Writes = {SegmentSize} PROVE BlockSpec => []NewSegmentsCounted
<1>1. BlockInv => NewSegmentsCounted
  BY DEF BlockInv
<1>2. BlockSpec => []BlockInv
  BY BlockInductive
<1> QED BY <1>1, <1>2, PTL

\* The variables keep their types.
THEOREM BlockTypeCorrect == ASSUME Writes = {SegmentSize} PROVE BlockSpec => []BlockTypeOK
<1>1. BlockInv => BlockTypeOK
  BY DEF BlockInv
<1>2. BlockSpec => []BlockInv
  BY BlockInductive
<1> QED BY <1>1, <1>2, PTL

-----------------------------------------------------------------------------
(***************************************************************************)
(* The three models together                                               *)
(***************************************************************************)

\* Each model keeps its own invariant, loss recovery that of the constants it moves with.
PartsInv ==
    /\ part \in {"block", "receiver", "recovery", "short"}
    /\ IF part = "short" THEN Short!IInv ELSE IInv
    /\ BlockInv
    /\ ReceiverInv

LEMMA ShortAssumed == Short!FecRecoveryAssumption
BY FecRecoveryAssumption DEF FecRecoveryAssumption, Short!FecRecoveryAssumption

LEMMA InitParts == PartsInit => PartsInv
<1> SUFFICES ASSUME PartsInit PROVE PartsInv
  OBVIOUS
<1>1. IF part = "short" THEN Short!IInv ELSE IInv
  BY ShortAssumed, InitIInv, Short!InitIInv DEF PartsInit
<1> QED BY <1>1, InitBlockInv, InitInv DEF PartsInit, PartsInv

LEMMA StepParts ==
    ASSUME Writes = {SegmentSize}, PartsInv, [PartsNext]_partsVars
    PROVE  PartsInv'
<1>1. part' = part
  BY DEF PartsNext, partsVars
<1>2. [BlockNext]_blockVars /\ [ReceiverNext]_receiverVars
  BY DEF PartsNext, partsVars
<1>3. IF part = "short" THEN [Short!Next]_vars ELSE [Next]_vars
  BY DEF PartsNext, partsVars
<1>4. BlockInv'
  BY <1>2, StepBlockInv DEF PartsInv
<1>5. ReceiverInv'
  BY <1>2, StepInv DEF PartsInv
<1>6. CASE part = "short"
  <2>1. [Short!Next]_(Short!vars)
    BY <1>3, <1>6 DEF vars, Short!vars
  <2>2. Short!IInv'
    BY <1>6, <2>1, ShortAssumed, Short!NextIInv DEF PartsInv
  <2> QED BY <1>1, <1>4, <1>5, <1>6, <2>2 DEF PartsInv
<1>7. CASE part /= "short"
  <2>1. IInv'
    BY <1>3, <1>7, NextIInv DEF PartsInv
  <2> QED BY <1>1, <1>4, <1>5, <1>7, <2>1 DEF PartsInv
<1> QED BY <1>6, <1>7

\* The variables of the three models keep their types as the run composes them: where loss
\* recovery moves with the constants of the short transfer, the types of that one.
THEOREM PartsTypeCorrect == ASSUME Writes = {SegmentSize} PROVE PartsSpec => []PartsTypeOK
<1>1. PartsInv /\ [PartsNext]_partsVars => PartsInv'
  BY StepParts
<1>2. PartsInv => PartsTypeOK
  <2> SUFFICES ASSUME PartsInv PROVE PartsTypeOK
    OBVIOUS
  <2>1. BlockTypeOK
    BY DEF PartsInv, BlockInv
  <2>2. ReceiverTypeOK
    BY ReceiverTyped DEF PartsInv
  <2>3. IF part = "short" THEN Short!TypeOK ELSE TypeOK
    BY Typed, ShortAssumed, Short!Typed DEF PartsInv
  <2> QED BY <2>1, <2>2, <2>3 DEF PartsTypeOK
<1> QED BY <1>1, <1>2, InitParts, PTL DEF PartsSpec
=============================================================================
