---------------------------- MODULE FecReceiver ----------------------------
(***************************************************************************)
(* The receiving side of the FEC extension: what TcpSocketBase makes of a  *)
(* repair packet from the SACK list of TcpRxBuffer, and the ACK that tells *)
(* the sender.  Sequence numbers count octets; data begins with octet 1.   *)
(*                                                                         *)
(* The path carries each block of segments and then its repair packet.  A  *)
(* packet that does not arrive in its turn is lost or late: a segment may  *)
(* still arrive, retransmitted, and a repair packet too if reordering.     *)
(***************************************************************************)
EXTENDS FecSegments, Sequences, FiniteSets, FiniteSetsExt, SequencesExt

CONSTANTS
    Blocks,             \* bound: the blocks of the transfer
    WordValues,         \* the values of uncoveredSegs, 2^32 in the code
    FirstArrives        \* whether the first segment is never lost

ASSUME FecReceiverAssumption ==
    /\ Blocks \in Nat \ {0}
    /\ WordValues \in Nat /\ WordValues > BlockSegments * SegmentSize
    /\ FirstArrives \in BOOLEAN

VARIABLES
    rxBuffer,           \* nextRxSeq, the octets stored, and the SACK list
    fecProcessed, fecFailed,
    fecUnrecovered,     \* in segments
    delAckCount,
    turn,               \* the packets of the path whose turn has come
    reordering,         \* whether a repair packet may be overtaken on this path
    sound               \* history: octets received, or that a block determines

receiverVars == <<rxBuffer, fecProcessed, fecFailed, fecUnrecovered, delAckCount, turn,
                  reordering, sound>>

MaxSackBlocks == 4
DelAckMaxCount == 2

SegmentSeq(k) == 1 + k * SegmentSize
Octets(seq) == seq..(seq + SegmentSize - 1)
StreamEnd == SegmentSeq(Blocks * BlockSegments)

\* The next octet expected is the first one not stored.
ReceiverTypeOK ==
    /\ rxBuffer.next \in 1..StreamEnd
    /\ 1..(rxBuffer.next - 1) \subseteq rxBuffer.stored
    /\ rxBuffer.next \notin rxBuffer.stored
    /\ rxBuffer.stored \subseteq 1..StreamEnd
    /\ Len(rxBuffer.sack) <= MaxSackBlocks
    /\ fecProcessed \in BOOLEAN /\ fecFailed \in BOOLEAN
    /\ fecUnrecovered \in 0..(WordValues - 1)
    /\ delAckCount \in 0..(DelAckMaxCount - 1)
    /\ turn \in 0..(Blocks * (BlockSegments + 1))
    /\ reordering \in BOOLEAN
    /\ sound \subseteq 1..StreamEnd

-----------------------------------------------------------------------------
\* What is left of a list without some blocks.
Without(list, gone) ==
    LET rest[i \in 0..Len(list)] ==
            IF i = 0 THEN <<>>
            ELSE IF list[i] \in gone THEN rest[i - 1] ELSE Append(rest[i - 1], list[i])
    IN  rest[Len(list)]

\* UpdateSackList: the new block first, merged with those it touches.
UpdateSackList(list, left, right) ==
    LET touching == {x \in ToSet(list) : x[2] = left \/ x[1] = right}
        merged == <<Min({left} \cup {x[1] : x \in touching}),
                    Max({right} \cup {x[2] : x \in touching})>>
        whole == <<merged>> \o Without(list, touching)
    IN  SubSeq(whole, 1, Smaller(Len(whole), MaxSackBlocks))

\* ClearSackList.
ClearSackList(list, next) == Without(list, {x \in ToSet(list) : x[2] <= next})

\* m_nextRxSeq once more is stored: all the data that follows on it is available.
NextRxSeq(stored, next) == Min({o \in next..(StreamEnd + 1) : o \notin stored})

\* TcpRxBuffer::Add of a segment at seq, trimmed to the octets not stored yet.
Add(b, seq) ==
    LET new == {o \in Octets(seq) : o >= b.next} \ b.stored
        left == Min(new)
        right == Max(new) + 1
        stored == b.stored \cup new
        next == NextRxSeq(stored, b.next)
        sack == IF left > b.next THEN UpdateSackList(b.sack, left, right) ELSE b.sack
    IN  IF new = {} THEN b
        ELSE [next |-> next, stored |-> stored, sack |-> ClearSackList(sack, next)]

\* Whether data is stored out of order.
HasGap(b) == \E o \in b.stored : o > b.next

-----------------------------------------------------------------------------
ReceiverInit ==
    /\ rxBuffer = [next |-> 1, stored |-> {}, sack |-> <<>>]
    /\ fecProcessed = FALSE /\ fecFailed = FALSE /\ fecUnrecovered = 0
    /\ delAckCount = 0
    /\ turn = 0 /\ reordering \in BOOLEAN /\ sound = {}

\* Whether the ACK of a segment stored may be delayed.
Delayable(b) == ~HasGap(b) /\ b.next <= rxBuffer.next + SegmentSize

\* What ReceivedData does once the FEC option is dealt with: p, of seq, is added to b,
\* and acknowledged at once unless it is in sequence.  An ACK takes the FEC report.
Store(b, seq, processed) ==
    LET after == Add(b, seq)
        delayed == after /= b /\ Delayable(after) /\ delAckCount + 1 < DelAckMaxCount
    IN  /\ rxBuffer' = after
        /\ delAckCount' = IF delayed THEN delAckCount + 1 ELSE 0
        /\ fecProcessed' = (processed /\ delayed)

\* (mutant: any segment clears the failure)
SegmentClearsFailure(k) ==
    /\ Store(rxBuffer, SegmentSeq(k), fecProcessed)
    /\ sound' = sound \cup Octets(SegmentSeq(k))
    /\ fecFailed' = FALSE /\ fecUnrecovered' = 0

ReceivedSegment(k) ==
    /\ Store(rxBuffer, SegmentSeq(k), fecProcessed)
    /\ sound' = sound \cup Octets(SegmentSeq(k))
    /\ UNCHANGED <<fecFailed, fecUnrecovered>>

\* DelAckTimeout.
DelAckExpires ==
    /\ delAckCount > 0
    /\ delAckCount' = 0 /\ fecProcessed' = FALSE
    /\ UNCHANGED <<rxBuffer, fecFailed, fecUnrecovered, turn, reordering, sound>>

-----------------------------------------------------------------------------
LeftEdge(x, start) == Larger(x[1], start)
RightEdge(x, end) == Smaller(x[2], end)

\* nSeg, for a SACK block that is not in front of the FEC block: one after its end makes
\* the difference negative, and nSeg huge.
NSeg(x, start, end) ==
    IF x[2] < start THEN 0
    ELSE ((RightEdge(x, end) - LeftEdge(x, start)) % WordValues) \div SegmentSize

Covered(start, end) ==
    LET count[i \in 0..Len(rxBuffer.sack)] ==
            IF i = 0 THEN 0 ELSE count[i - 1] + NSeg(rxBuffer.sack[i], start, end)
    IN  count[Len(rxBuffer.sack)]

\* (mutant: the expected segment is not counted)
UncoveredAfterExpected(start, end) ==
    LET window == IF rxBuffer.next < start THEN BlockSegments
                  ELSE (end - SegmentSize - rxBuffer.next) \div SegmentSize
    IN  (window - Covered(start, end)) % WordValues

\* uncoveredSegs; end is that of the last octet plus one.
Uncovered(start, end) ==
    LET window == IF rxBuffer.next < start THEN BlockSegments
                  ELSE (end - SegmentSize - rxBuffer.next) \div SegmentSize + 1
    IN  (window - Covered(start, end)) % WordValues

\* lostSegSeq: the end of the last SACK block of the list that does not reach the
\* block's, zero if there is none and the block is ahead of what is expected.
LostSegSeq(start, end) ==
    LET sack == rxBuffer.sack
        short == {i \in DOMAIN sack : sack[i][2] >= start /\ RightEdge(sack[i], end) < end}
    IN  IF short /= {} THEN sack[Max(short)][2]
        ELSE IF rxBuffer.next < start THEN 0 ELSE rxBuffer.next

\* (mutant: a segment recovered in a block further ahead is not stored)
NoRecovered(start, end) == rxBuffer

\* The buffer with the segment recovered in a block ahead of what is expected.
Recovered(start, end) ==
    IF rxBuffer.next < start /\ Uncovered(start, end) = 1
    THEN Add(rxBuffer, LostSegSeq(start, end)) ELSE rxBuffer

BlockStart(n) == SegmentSeq(n * BlockSegments)
BlockEnd(n) == SegmentSeq((n + 1) * BlockSegments)
Block(n) == {SegmentSeq(k) : k \in (n * BlockSegments)..((n + 1) * BlockSegments - 1)}
Missing(n) == {s \in Block(n) : ~(Octets(s) \subseteq rxBuffer.stored)}

\* ReceivedData of the repair packet of block n: a failure is not acknowledged.
ReceivedRepair(n) ==
    LET start == BlockStart(n)
        end == BlockEnd(n)
        behind == rxBuffer.next > end - SegmentSize
        uncovered == Uncovered(start, end)
        seq == IF rxBuffer.next >= start /\ ~behind THEN rxBuffer.next ELSE start
    IN  /\ IF ~behind /\ uncovered > 1
           THEN /\ fecFailed' = TRUE /\ fecUnrecovered' = uncovered
                /\ fecProcessed' = TRUE
                /\ UNCHANGED <<rxBuffer, delAckCount>>
           ELSE /\ fecFailed' = FALSE /\ fecUnrecovered' = 0
                /\ Store(IF behind THEN rxBuffer ELSE Recovered(start, end), seq, TRUE)
        /\ sound' = IF Cardinality(Missing(n)) = 1
                    THEN sound \cup UNION {Octets(s) : s \in Missing(n)} ELSE sound

-----------------------------------------------------------------------------
\* The t-th packet of the path: block n, then whether it is its repair packet.
BlockOf(t) == t \div (BlockSegments + 1)
IsRepair(t) == t % (BlockSegments + 1) = BlockSegments
SegmentOf(t) == BlockOf(t) * BlockSegments + (t % (BlockSegments + 1))

Receive(t) ==
    IF IsRepair(t) THEN ReceivedRepair(BlockOf(t)) ELSE ReceivedSegment(SegmentOf(t))

\* A packet arrives in its turn.
Arrive ==
    /\ turn < Blocks * (BlockSegments + 1)
    /\ turn' = turn + 1
    /\ Receive(turn)
    /\ UNCHANGED reordering

\* A packet is lost, or held up on the path.
Miss ==
    /\ turn < Blocks * (BlockSegments + 1)
    /\ FirstArrives => turn > 0
    /\ turn' = turn + 1
    /\ UNCHANGED <<rxBuffer, fecProcessed, fecFailed, fecUnrecovered, delAckCount, reordering,
                   sound>>

\* A segment sent before arrives, retransmitted or held up, and so may a repair packet.
ArriveLate ==
    /\ \E t \in 0..(turn - 1) : (IsRepair(t) => reordering) /\ Receive(t)
    /\ UNCHANGED <<turn, reordering>>

ReceiverNext == Arrive \/ Miss \/ ArriveLate \/ DelAckExpires

ReceiverSpec == ReceiverInit /\ [][ReceiverNext]_receiverVars

-----------------------------------------------------------------------------
\* Every octet stored was received, or is determined by a block of which it alone was
\* missing: FEC makes up no data.
StreamIsSound == rxBuffer.stored \subseteq sound

\* Whether a step is the arrival of the repair packet of block n.
RepairArrives(n) ==
    /\ ReceivedRepair(n)
    /\ \/ turn' = turn + 1 /\ IsRepair(turn) /\ BlockOf(turn) = n
       \/ turn' = turn /\ reordering /\ turn >= (n + 1) * (BlockSegments + 1)

\* Whether the SACK list, which drops its oldest block when it is full, still names the
\* segments of block n stored out of order.
Listed(n) ==
    \A s \in Block(n) \ Missing(n) :
        s > rxBuffer.next
        => \E x \in ToSet(rxBuffer.sack) : x[1] <= s /\ s + SegmentSize <= x[2]

\* "Count missing segments in the covered window. If it is 1, FEC can recover the
\* segment" (tcp-socket-base.cc:3684): a repair packet that arrives when one segment
\* of its block is missing and the others are listed leaves none missing, unless the
\* next block has overtaken it: SACK blocks beyond the block make NSeg huge.
RepairsOne ==
    [][\A n \in 0..(Blocks - 1) :
        ~reordering /\ Cardinality(Missing(n)) = 1 /\ Listed(n) /\ RepairArrives(n)
        => Missing(n)' = {}]_receiverVars

\* A failure is not forgotten before an ACK has carried it; only an overtaken repair
\* packet, of another block, can replace it.
FailureReported ==
    [][~reordering /\ fecProcessed /\ fecFailed => fecFailed' \/ ~fecProcessed']_receiverVars
=============================================================================
