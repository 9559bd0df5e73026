# SC-UDP in TLA+

A TLA+ development kept beside the SC-UDP repository: a reliable transport over UDP whose
redundancy comes from a streaming code, implemented as two ns-3 applications, together with the
TCP variants it is compared with: BBR, Copa, Copa2, and TCP with forward error correction (FEC).
Paths below are relative to the repository, with `scudp/` for
`src/ns-3.33-scudp/examples/streamc-udp/` and `internet/` for
`src/ns-3.33-scudp/src/internet/model/`.

## 1. The system

| Component | State | Operations | Modelled in |
|---|---|---|---|
| SC-UDP server, `scudp/stream-server-app.cc` | handshake flag and timer, encoder, window, packets in flight, last ids sent and acknowledged, packet records, pacing timer, socket | `SendParameter`, `HandleRead`, `SendDataPackets`, `PacketAckRecv`, `CompleteSend`, `StopApplication` | `StreamServer` |
| SC-UDP client, `scudp/stream-client-app.cc` | decoder, established flag, counters | `HandleRead`, `PacketRecv`, `InorderAckSend` | `StreamClient` |
| Packet formats and records, `scudp/handlepacket.*`, `scudp/infoqueue.*` | one record per packet sent | serialisers; `add`, `find` | records in `StreamCodec` and `ScUdpNet`; `Record` in `StreamServer` |
| Streaming code library (only `scudp/streamcodec.h` is present) | encoder and decoder windows | `output_source_packet`, `output_repair_packet`, `flush_acked_packets`, `receive_packet` | `StreamCodec` (external) |
| Path, `scudp/stream-server-client-sim.cc` | packets in flight | loss; reordering when a link's delay is lowered | `ScUdpNet` |
| Windowed min/max filter, `internet/windowed-filter.h` | three (sample, time) estimates, window length | `Update`, `Reset`, `SetWindowLength` | `WindowedFilter` |
| BBR, `internet/tcp-bbr.*` | mode, gain cycle, rounds, saved window, full-pipe search, long-term estimate, aggregation slots | `CongControl`, `CongestionStateSet`, `GetSsThresh` | `BbrModes`, `BbrLongTerm`, `BbrAckAggregation` |
| Copa, `internet/tcp-copa.*` | slow start, velocity and direction | `CongControl` | `Copa` |
| Copa2, `internet/tcp-copa2.*` | cycle, PROBE_RTT, lossy mode | `CongControl` | `Copa2` |
| FEC extension of TCP, `internet/tcp-socket-base.*`, `tcp-tx-buffer.cc`, `tcp-rx-buffer.cc` | block counted; SACK list and last repair; duplicate ACKs, scoreboard, timer | `SendDataPacket`, `SendFecPacket`, `ReceivedData`, `ReceivedAck`, `ReTxTimeout` | `FecBlock`, `FecReceiver`, `FecRecovery` |
| TCP client, server and sink, `src/tcp-client/` | bytes left | traffic generation | not modelled |
| Simulation drivers, plotting scripts, ns-3 | | | not modelled, see 8 |

**Interaction.** The SC-UDP server repeats `PARAMETER` on a timer until the client, which makes its
decoder, answers `ACK_PRM`. That starts `SendDataPackets`, which sends source and repair packets while
`m_packetsInFlight < m_cWnd`. For every packet that counts, the client answers an `INORDER`
acknowledgement with the packet's type and id, its in-order index and its counters. `PacketAckRecv` looks
the packet up, recomputes loss, packets in flight and window, flushes the encoder and posts
another `SendDataPackets`. When the in-order index reaches the last packet the server schedules
`CompleteSend` and closes.

`TcpSocketBase` calls a congestion control on every ACK (`CongControl`) after it has itself changed
the state of loss recovery, and with it `m_cWnd` and `m_ssThresh`; BBR, Copa and Copa2 each lay their own
window over that. BBR and the Copas keep bandwidth and RTT history in `WindowedFilter`. With FEC,
`SendDataPacket` sends a repair packet in the place of the segment it was asked for once a block is full;
the receiver rebuilds a segment from its SACK list; the outcome travels back on an ACK and
changes the count of duplicate ACKs that starts loss recovery.

**What is hard.** SC-UDP has no retransmission: reliability rests on new repair packets, sent only when an
ACK or the pacing timer says so, while ACKs may be lost or overtaken. Three events enter the same
sending loop. The handshake races its own timer, and the last ACK races completion. In BBR, recoveries,
timeouts and PROBE_RTT cut the same window in any nesting and each believes it restores it; narrow bit fields count rounds.
In Copa, velocity and direction are changed from two places on different clocks. In FEC, every caller of `SendDataPacket`
goes on as if its segment had been sent, sequence numbers alone tell what is new, and the repair
trusts a SACK list with four entries. PROJECT.json lists these as hazards, each at its line, with the
properties that cover it. Where none does, or one covers a part, a note there says so: most of these are what section 6 lists
as not met by the code (an overtaken ACK, a velocity that wraps, a Copa2 probe within a cycle, an overtaken repair).

## 2. Modules

`StreamCodec` ← `ScUdpNet` ← `StreamServer`, `StreamClient` ← `ScUdp` ← `ScUdpProofs`, `MCScUdp` ← `MCScUdpLive`;
`ReliableStream` is the abstract specification that `ScUdp` refines.
`WindowedFilter` ← `MCWindowedFilter` ← `WindowedFilterProofs`.
`BbrModes`, `BbrLongTerm`, `BbrAckAggregation` ← `MCBbr` ← `BbrProofs`.
`Copa`, `Copa2` ← `MCCopa` ← `CopaProofs`; `Copa2` ← `Copa2Proofs`, which `CopaProofs` instantiates.
`FecSegments` ← `FecBlock`; `FecSegments` ← `FecReceiver` ← `FecReceiverProofs`; `FecRecovery` ← `FecRecoveryProofs`;
the three models ← `MCFec`; `MCFec` and the two modules of proofs ← `FecProofs`. `MCFec` takes the short transfer of loss recovery as
an instance of `FecRecoveryProofs`, so that the lemmas hold of it too.

A module of proofs extends the MC module where its theorems are about a property stated there (`PartsTypeOK`,
`BothTypeOK`, `WorseningCovered`), and the component's own module otherwise.

**One run for several models.** `MCBbr`, `MCCopa` and `MCFec` put independent models side by side: a variable
chosen initially (`part`, `control`) says which of them moves, the others stay in their initial states. The
reachable states are those of each model, added, not multiplied. `MCWindowedFilter` chooses how samples
arrive, `MCScUdpLive` whether the server paces, and `BbrModes!path` what a path adds to a clean
one, in the same way.

**StreamCodec** (external). The encoder is `headsid`, `nextsid` and a repair count; the decoder an in-order
index, the end of its window, and the packets buffered in between. Coefficients are in *general position*: a
window is decoded exactly when each suffix of it has as many repair packets reaching into it as it misses
source packets (`Decodable`). A random code over GF(2^8) does this up to a small probability. When the
encoding window is empty the library is taken to return NULL, which nothing in its header
excludes; see *Spinning* below.

**ScUdpNet.** Packets in flight are sets of records. `Reorder` chooses between delivering the oldest
packet and any packet. `Lose` drops one packet of any kind.

**StreamServer.** One action per event, each the whole handler:

| Action | Code |
|---|---|
| `SendParameter` | the timer event; sends first, looks at `m_paramAcked` afterwards |
| `ParamAckRecv` | `HandleRead`, `ACK_PRM` |
| `SendDataPackets`, `NotifyPacingPerformed` | the two ways into the loop |
| `SendSource`, `SendRepair`, `SendLoopSpin`, `SendLoopExit` | a turn of the loop, and its end |
| `AckRecv` | `HandleRead`, `INORDER`, with all of `PacketAckRecv` |
| `CompleteSend` | the scheduled event |

The loop of `SendDataPackets` is split into one action per turn, so that a path action may fall in between;
while `sending` holds no other event of the server runs, as in the code. `Quiet` says that events posted
with `ScheduleNow` run before the next datagram is read. The arithmetic of RTT, bandwidth and loss rate is
abstracted to what it decides: the new window is any member of `CWnds`
(none below `InitCWnd`, as in the code) and `m_lossRate + m_extraRepair` any percentage of `Targets`. The
loss *count*, the in-flight count and all ids are exact.

**StreamClient.** `ParameterRecv` and `DataRecv` are `HandleRead` for the two packets that reach the client.
`COMPLETE` has no action, because none is ever sent (`NoComplete`, proved).

**ScUdp** composes them, states properties, inductive invariant, fairness and the refinement of
**ReliableStream**: *N* packets are produced in order, delivered in order, released by the
sender only once delivered, and the sender closes only when all are delivered.

**WindowedFilter** has one action for `Update` (the reset test, `Recorded`, `Promoted` and `Spread`, in the code's order
and with its early returns) and one for `SetWindowLength`. `Maximum` selects the comparison. `now` and `seen` are
history variables.

**BbrModes** has the mode machine as `TcpSocketBase` drives it. `ReceivedAck` is an ACK: `ProcessAck` may enter or end a
recovery, then `CongControl` runs `UpdateModel` and `SetCongestionWindow`
(`UpdateModelAndWindow`). Everything is counted in segments. A packet in flight is *fresh* if its delivery will
end the round (`rs.m_priorDelivered >= m_nextRttDelivered`), *old* otherwise, which is all a round needs to know.
The bandwidth is one of `Bandwidths`, in segments per minimum RTT; what the max filter, the long-term estimate and the
aggregation slots contribute is chosen from sets here and modelled in the modules named after them. Clocks are ages that
saturate. `rs.m_bytesLoss` is the difference the socket takes between segments marked and segments repaired. `rs.m_priorDelivered` is
from `PriorDelivered`: where the code takes it for the packets in flight only its size matters. The RTT is known from the
handshake on; a lost segment is delivered by its retransmission only; ECN and CWR are left out, and
DISORDER is OPEN, as BBR treats it.

**BbrLongTerm** is `LongTermBandwidthSampling` and what it calls, with its 7-bit count; whether two intervals agree is an
input. **BbrAckAggregation** is `UpdateAckAggregation` with its two slots.

**Copa** compares the delay with its target by one input: the path is *clear*, or not, or the flow's own window is above `Capacity`.
The width of `velocity`, the conversion of an oversized quotient, and the assertion of
`AddAndCheckOverflow` are kept. **Copa2** keeps the three timers of a cycle, the probe and its interval, and the loss
count that `ReceivedAck` takes from the scoreboard; the minimum RTT is a constant. Both leave the pacing rate
out, which neither reads.

**FecBlock** is the sender's side of a block, in octets, with short writes and Nagle. **FecReceiver** is what
`ReceivedData` makes of a repair packet from the SACK list: `UpdateSackList`, `ClearSackList`, the count of uncovered
segments in its word width, and the report; sequence numbers count octets. Both take the size of a segment and of a
block from **FecSegments**. The path gives each packet a turn; what does not arrive in its
turn is lost or late. The ACK for data wholly out of the receive window, at the head of `ForwardUp` (`tcp-socket-base.cc:1260`), has no action: it
carries the report and the list as they are, as the expiry of a delayed ACK does. **FecRecovery** composes a paced sender with its scoreboard (`Update`, `IsLost`, `NextSeg`), the
duplicate-ACK and retransmission-timer machinery of `TcpSocketBase`, a receiver with delayed ACKs that repairs as
`FecReceiver` does on an ordered path, and a path that loses packets either way. Congestion control may close the
window further than `Window`, but for one segment. Full segments only; ECN, CWR, FIN and the limit on data retries
are left out, and `m_fecNeedRetrans` is never read by the code. An ACK does first what its FEC option says (`ProcessFecReport`: a
failure sets `m_dupAckCount`, and a report may renew the ratio), then updates the scoreboard, then `ProcessAck`, whose retransmission
may be the packet that puts the ratio to use. The ratio renewed is always the old one (`tcp-socket-base.cc:4698`); what changes is the threshold,
from `m_retxThresh`'s initial value, an attribute, to the ratio. `LostBelow` counts every SACKed segment above another: the code counts down from
`m_highestSack`, which the segment just below it, SACKed after it, moves back to itself (`tcp-tx-buffer.cc:839`); it then counts one
SACKed segment fewer and may mark a segment as lost an ACK later. `Debug` says whether `NS_ASSERT` stops the program.

Definitions marked `(mutant: ...)` are deliberate slips of the definition that follows. No specification uses
them; substituting one for its original must make a property fail, which shows that the property depends on
that piece of code.

## 3. Runs

| Run | Instance | What it shows | States |
|---|---|---|---|
| `fifo` | ordered path, N=4, 2 losses, windows {2,3}, targets {5,50} % | the window bounds what is on the path; `m_packetsInFlight` covers it; loss estimate not negative and `m_newAcked` positive | 277,763 |
| `reorder` | reordering path, N=3, 1 loss | flush safe, ACKs known, decoder ready, close only when delivered, refinement of `ReliableStream` | 1,150,306 |
| `live` | fair, ordered path, N=3, 1 loss, with and without pacing | delivery completes unless the loop spins | 108,006 |
| `filter` | max filter: windows {2,4}, 4 values, 5 samples; and windows {5,6} with worsening samples at least one in every unit of time, 16 of them | times ordered, best fresh, nothing later underestimated; the last half of a window is covered | 1,566,052 |
| `bbr` | two nested losses; or one loss with marked segments, or with a policer; or odd samples; long-term count with its real widths (4, 48, 128); aggregation with 3-round slots | the window saved, restored, drained; rounds of evidence; counts below their widths; slots forget | 194,763 |
| `bbr_live` | one loss, one bandwidth, windows from 1 | every PROBE_RTT ends | 35,629 |
| `copa` | Copa: windows 1..20, 3-bit velocity, threshold 3; Copa2: 2 segments a cycle | velocity and direction; a flow alone grows; window covers delivery; probes recur | 88,561 |
| `fec` | block of 3 over 16 octets; receiver with 3 blocks of 3; recovery of 7 segments, ratio 2, threshold from 3 (falls), 2 losses; liveness with 4 segments, threshold from 1 (rises) | block is what is new; repairs are right and reported; duplicate ACKs within the threshold, never stalls, completes | 443,846 |
| `window_lost`, `late_acks`, `bbr_probe_up`, `fec_first` | | violations, see 6 | |

**Bounds.** Every bound is a constant marked so and tested in a guard. In SC-UDP, N=4 with windows of 2 and 3
reaches every phase: packets before and after the window opens, both kinds of repair packet, flushes that leave a partial
window, and a tail in which only repair packets are left; N=3 with reordering lets an ACK be overtaken by two others. In the filter,
five samples reach every branch, including the second promotion; with three values `Recorded`'s last branch is
hidden behind equal samples, hence four. Worsening samples meet every branch within three windows of five; windows of five and
six have the two remainders that matter, and `HalfStaysCovered` proves the rest. In BBR, two losses suffice to nest a timeout in a recovery and both in a
PROBE_RTT in every order; a third adds no new pair. A cycle of three phases has each kind of gain. `ProbeTime` and `Expiry` of
zero leave one tick of waiting each. A velocity of 3 bits wraps after three doublings; the 32-bit
window is 20 so that slow start can reach its end. In FEC, three blocks of three let a SACK block lie before, across and
beyond the block repaired. A ratio that a report has renewed is put to use by a later repair packet, which takes `2 * FecRatio` new
segments: four segments and a retransmission in the short transfer; seven in the other, so that the threshold also falls below the
two duplicate ACKs already counted of a window of four. In both, the ACK that carries the report puts it to use itself when its
retransmission (on entering a recovery; in the short transfer also a partial ACK's) is replaced by a repair packet. `uncoveredSegs` has 16 bits in place of 32 (`WordValues`): a difference that wraps is out
of the range of any count either way. `RepairsOne` has been checked once with four blocks of one-octet segments (1,587,756 states), where
the SACK list overflows: hence its condition `Listed`.

**Deadlock** is checked in the BBR and Copa runs. It is not in the others: a finished transfer has nothing left to do, and the bounded
filter, block and path run out. That a transfer does not stop early is the business of the liveness properties.

**Fairness** is weak and per event, since the ns-3 event loop runs every scheduled event and reads every packet
that arrives, and a path delivers what it does not lose; nothing obliges it to lose.
`ScUdp!Fairness`: each of the nine events; `SendLoopSpin` needs none. `BbrModes!FairSpec`: weak for sending, time and ACKs that
deliver; strong for the end of a recovery, which ACKs may postpone again and again but which happens when its last
hole is filled. `Copa!FairSpec`, `Copa2!FairSpec`: time and ACKs. `FecRecovery!FairSpec`: the retransmission timer, the
delayed-ACK timer, arrivals either way, and sending when nothing is in flight, because any window has room then.

**Spinning.** When a repair packet is due and everything sent has been acknowledged and flushed, the encoding
window is empty. If `output_repair_packet` then returns NULL, no variable of the loop's condition changes and `SendDataPackets`
never returns. TLC reaches this with a high measured loss rate. `DeliversUnlessSpinning` admits it, since
the behaviour of the external library is an assumption; it is a hazard to look at, not a finding.

**Ordered paths only.** `PipeWithinWindow`, `PipeCounted` and `EstimatesSane` are properties of an ordered path. With
reordering an old ACK moves `m_lastAckedSourceId` back; this is the cause of the `late_acks` finding.
`RepairsOne` and `FailureReported` are about repair packets that are not overtaken; the receiver's soundness
(`StreamIsSound`) is about all of them. There the first segment of the transfer is assumed to arrive; `fec_first` shows why.

## 4. Assumptions

ns-3 runs one event at a time; a datagram is delivered once or never; a closed socket refuses to send. Packets are not
corrupted. A transfer has at least one packet. The constants satisfy the named `ASSUME`s of their modules, each as
weak as the code allows, which TLC evaluates in the passing runs. For the filter, callers pass times that do not go back and
samples other than `zero_value`, as `windowed-filter.h` requires.

## 5. Proofs

TLAPS checks each for every value of the constants.

**ScUdpProofs**: `TypeCorrect`, `FlushIsSafe`, `AcksAreKnown`, `DecoderIsReady`, `ClosesWhenDelivered`,
`InorderNeverRegresses`, and `Refinement`: the transfer implements **ReliableStream**. All follow from
`Inductive == Spec => []IInv`. `FlushSafe` by itself speaks of what is *in flight*: the encoder is flushed by an ACK that left the
client some time ago, so `IInv` bounds every ACK's and repair packet's index by the decoder's, which only grows
(`DecoderReceives`) because a late `PARAMETER` cannot re-make a decoder that has seen data
(`DecoderSound`). No data is sent before a decoder exists because the first ACK_PRM came from a client that made one
(`Handshake`). `RecordsKept` carries the record of each packet through its flight into its
ACK. `CloseSound` ties the pending `CompleteSend` to a closed socket. `SentSound` adds that ids and encoder agree. In the refinement
`SendSource` is a `Send`, `DataRecv` a `Deliver` or a stutter, `AckRecv` a `Release`, the `Close` or a
stutter, and every other action stutters.

On an ordered path (`~Reorder`) three more hold: `EstimatesStaySane`, `PipeStaysCounted` and `PipeStaysWithinWindow`. Their invariant is
`OrderedInv`: packets are numbered as they are sent and still to come in that order, and each carries the count the one before it
left (`Numbered`, `InOrder`, `CountsInOrder`). As the ids that may still be on the path then lie
between the last acknowledged and the last sent, there are at most as many packets as ids (`FewIds`), which is
what `m_packetsInFlight` counts (`PipeBounded`). A packet is sent only while that is below the window, and an ACK
that shrinks the window leaves the packets where they are: hence the bound is the largest window.

**WindowedFilterProofs**: `TimesStayOrdered`, with which the unsigned ages cannot wrap, `SamplesStayOrdered`,
`NeverUnderestimates`, and `BestStaysFresh`: two promotions are enough because the first test of `Update` guarantees a fresh third
estimate. `Promise` collects what the estimates promise about the samples so far: recording a sample extends it
(`RecordKeeps`), and moving estimates up or refreshing them keeps it (`ShiftKeeps`).
`HalfStaysCovered` is what the head of `windowed-filter.h` is after: while every sample is worse than the last, and there is at least
one in every unit of time, the best estimate is as good as everything in the last half of the window, for every
window of five or more (with four it fails). `Dense` lists the shapes the three estimates go through: one sample; the second a
quarter after the first; and from then on a quarter, a half and the rest of the window apart, in turn.

**BbrProofs**, modes: `TypeCorrect`, `SavedCorrect`, `WindowRestored`, `ModeCorrect`, `DrainedCorrect`, `ProbeRttRound`,
`FullEvidence`: all the safety of the modes that run `bbr` checks. None is inductive alone. `Synced` says that BBR has
seen every state of the socket, so that *not cut* is the same for both, and that a
recovery has an `m_ssThresh` to go back to (the window would otherwise become zero). `Evidence` ties the count without
growth to the rounds since the last timeout. `Echoes` says that once a probe is timed no packet but one sent since can end a round.
`CongControlKeeps` proves the invariant for `CongControl` under what `ReceivedAck` may hand it (`Brings`), one step per part of the
invariant; the other actions have a lemma each.
Long-term estimate: `CountStaysBelowLimit` and `TwoIntervals`. The invariant bounds the count by the rounds of the evidence in
each state of the sampling, so that neither the interval nor the use of the estimate can outlive the 7 bits, for any
widths with `4 * IntervalRtts + 1 < CountValues` and `MaxRtts < CountValues`.
Ack aggregation: `SlotsCorrect`. The slots alone do not say which rounds they stand for; `AggregationInv` does: the slot in use is the
largest of the rounds since the window last moved on, the other the largest of the `WinRtts` rounds before.
`PartsTypeCorrect` puts the three invariants side by side for the specification the run checks.

**Copa2Proofs**: `TypeCorrect` and `CycleCovered`. The window set at the end of a cycle covers what was delivered since it was last set
because all of that is still in `m_bytesAckedInCycle` (`Counted`), however many ACKs returned early or took other
branches; a recovery has an `m_ssThresh` to go back to (`Saved`).

**CopaProofs**: `VelocityCorrect`, `FastAlong`, `DoublesLate`. `Sound(s, t)` is what `CheckAndUpdateDirection` and `ChangeDirection` keep:
the velocity is the power of two its count of windows accounts for, modulo its width (`Matches`), and those windows have
taken the time the direction has lasted (`Lasts`). The powers are a recursive function, `Power`, which is shown to be well
defined from the order of the naturals (`PowerDefined`). `EitherTypeCorrect` and `DeliveryCovered` carry both controls
over to the specification the run checks, Copa2's by instantiating its proofs.

**FecProofs**: `BlockStaysFresh` and `EverySegmentCounted`, if the application writes whole segments
(`Writes = {SegmentSize}`, which section 6 shows to be necessary); and `PartsTypeCorrect`, the types of the three
models for the specification the run checks. Its invariant is that of each model, for loss recovery with the
constants of the transfer that moves (`Short!IInv` or `IInv`).

**FecRecoveryProofs**: `CountStaysWithinThreshold` and `SenderNeverStalls`. The invariant `Good` of the sender's record has three parts: `InRange`, the
ranges of numbers and flags; `Timer`, that the timer runs whenever something is in flight; and `Counts`, that outside a
recovery the duplicate ACKs are below the threshold, which a repair packet may replace by the ratio at any time: on the ACK whose
report renewed it, the report is applied first (`ReportKeeps`), and everything the ACK does afterwards starts from that. Each operation of the sender (`SendDataPacket`,
`DupAck`, `PartialAck`, `NewAck`, ...) has a lemma that it keeps `Good`, and the actions compose them.

**FecReceiverProofs**, for every size of segment and block and every word of `uncoveredSegs` that can count the octets of a block:
- `ReceiverTypeCorrect`: the octet expected is the first one not stored, and the SACK list has at most four blocks. This needs `BufferOK`:
  beyond what is expected whole segments are stored, and the blocks of the list are whole segments, stored, and do not touch
  (`UpdateKeeps`, `ClearKeeps`, `AddKeeps`). `NS_ASSERT (i->first > expectedSeq)` is part of it.
- `FailureIsReported`. Not inductive alone: `FailureWaits` says that a failure not yet reported has a delayed segment with it, so that the
  next is acknowledged at once, or that what is expected is still in front of the block's end, so that the repair of a later block
  leaves a gap (`RepairIsReported`).
- `StreamStaysSound` and `RepairsMissing`, where the first segment arrives (`FirstArrives`, shown necessary by `fec_first`) and no repair packet is
  overtaken. `PathInv` says that nothing of a later block is stored when a repair packet comes in its turn, so no difference
  of `nSeg` is negative, and that what is expected stays at the end of a segment (`NextAligned`). Then
  `uncoveredSegs` is the number of segments that the list does not name (`CoveredCounts`, `UncoveredCounts`: a recursive sum equals a
  cardinality because the blocks are apart). A segment that is missing is not named (`MissingUnnamed`), so whatever a repair packet
  stores was stored before, or is the only one missing (`RepairStores`). Conversely, where one is missing and the others are named,
  the SACK block in front of it ends at it, whose end is `lostSegSeq`, or it is the first of its block (`LostAhead`).
- `StreamAlwaysSound`, where the first segment arrives and repair packets are overtaken too. Each SACK block after the repaired
  one then adds nothing or a huge `nSeg`. `NSegWraps` gives its size, the quotient of the word by the segment size less what the block is ahead
  (the rounding depends on how the word divides, `Quotient`); `CoveredWraps` adds up the at most four of them, and `UncoveredWraps`
  concludes that if the count comes out as none or one, it is the number of segments not named, or all are named. The same
  `RepairStores` then applies; `StepSound` is the step for both kinds of path. It is assumed that the word
  is wide enough, `4 * StreamEnd <= WordValues`: for the code's 2^32 a transfer of up to 2^30 octets. With words of a few
  octets more than a block (segments of 2, blocks of 2, a transfer of 3 blocks, 7 values) TLC finds unsound data: the sums do come out small.

Recursion over a list (`Without`, `Covered`) is a recursive function in the model; that such a function is defined is proved
once, from the order of the naturals (`Iterated`), since the induction theorems of the library cannot be used.

**Only model-checked:**
- Liveness under fairness (`DeliversUnlessSpinning`, `ProbeRttEnds`, `AloneGrows`, `ProbesRecur`, `RecoveryCompletes`), which is beyond the prover.

Properties that are proved and in no run: `SamplesOrdered`, `InorderMonotone`, `NoComplete`, `NewSegmentsCounted`, and the type
invariants that a run checks as one.

## 6. Findings

Runs that show one:

- `window_lost`: the repository's README calls SC-UDP reliable. If all packets of a window, or all their ACKs, are lost,
  nothing triggers another transmission (`scudp/stream-server-app.cc:471`).
- `late_acks`: an ACK overtaken by a newer one moves the last acknowledged id back (`scudp/stream-server-app.cc:406`) and raises
  `m_packetsInFlight`. At the tail nothing corrects it: two losses stall a transfer with a window of three for good.
- `bbr_probe_up`: `internet/tcp-bbr.cc:819` says that the fast phase tries to raise the packets in flight to its gain times the
  BDP. `IsNextCyclePhase` passes the total ever delivered where the packets in flight are meant (`:817`): once
  that is large the phase ends after one minimum RTT whatever is in flight.
- `fec_first`: `internet/tcp-socket-base.cc:3724` says that the lost segment is recovered. If the missing segment is the first of
  its block, and the SACK block covers the rest, `lostSegSeq` is left at zero (`:3688`) and a segment no packet determined is stored.

Stated in the modules, not met by the code, and without a run of their own; each was checked once:

| Property | Line | Difference |
|---|---|---|
| `ScUdp!ParameterOnlyUntilAcked` | `scudp/stream-server.h:51` | the pending event sends `PARAMETER` once more after it is confirmed; harmless |
| `ScUdp!SendsOnlyWhenPaced` | `scudp/stream-server-app.cc:470` | while the window has its initial value the running pacing timer holds nothing back |
| `BbrModes!RestoresSaved` | `internet/tcp-bbr.cc:727`, `:760` | the socket sets `m_cWnd` to `m_ssThresh` before BBR takes the larger of it and the saved window; `m_ssThresh` may still be its initial 65535 |
| `Copa!DoublesAfterThreeRtts` | `internet/tcp-copa.cc:242`, `:277` | the record open at a turn counts for the new direction: two RTTs and a little |
| `Copa!NoOverflow` | `internet/tcp-copa.cc:20`, `:154` | slow start doubles a window the application does not use until the assertion fails |
| `Copa!GrowsWhenClear` | `internet/tcp-copa.cc:162`, `:268` | at the minimum window the velocity doubles until it wraps to zero; `velocity > 1` no longer sees it and the window stays |
| `Copa2!LossIsMarked` | `internet/tcp-rate-ops.h:146`, `tcp-socket-base.cc:1917` | segments repaired count as lost once more: the difference is taken without its sign |
| `FecRecovery!DisorderStartsAtOne` | `internet/tcp-socket-base.cc:1706`, `:1825` | a failure report sets `m_dupAckCount` without the state, and the assertion on the next duplicate ACK fails |
| `FecRecovery!RecoveryRetransmits` | `internet/tcp-socket-base.cc:1672`, `:3110` | a repair packet may take the place of the first retransmission |
| `FecBlock!NewSegmentsCounted` with short writes | `internet/tcp-socket-base.cc:3215` | after a short segment no new one is counted any more |
| `FecReceiver!RepairsOne` when overtaken | `internet/tcp-socket-base.cc:3684`, `:3708` | a SACK block beyond the repaired block makes an unsigned count wrap |

Noticed and not stated: a Copa2 probe may begin and end within a cycle and never cut the window (`internet/tcp-copa2.cc:80`); whether
a cycle was limited by the application is read from its last ACK only (`:116`). The head of `windowed-filter.h` (`:14`)
says that the later estimates bound the error when samples worsen. They do for a sample in every unit of time (`HalfStaysCovered`), but not
for irregular ones: in a window of 20, with samples at most 5 apart, the three estimates can close up until they expire together,
and `GetBest` falls to the newest sample. Under reordering the success of another
block may replace a failure report not yet sent.

## 7. Plan

Done: the modules of section 2 and their proofs. Left:

1. `FecRecovery` with the windows of a congestion control in the place of `Window`.
2. ECN and CWR in `BbrModes` and `FecRecovery`.

## 8. Not modelled

- The ns-3 simulator, and with it all Python of the repository (some 770,000 lines in 208 files): it is generated API bindings
  (`bindings/modulegen__*.py`), the waf build, and upstream test and utility scripts, without which SC-UDP works the same and which
  have no behaviour of their own to specify. The program is its C++ code.
- `src/datascripts/`: scripts that read a log and draw a figure, with no state that lasts.
- The TCP client, server and sink and the simulation drivers: they generate traffic, build a topology and parse a command line. Their
  link events are in `ScUdpNet`; their writes are `Writes` in `FecBlock`.
- RTT, bandwidth, pacing-rate and loss-ratio arithmetic (numeric filters with no control of their own), `BwEstimationTibet` (never called), byte
  layouts, and the negotiation of options in the handshake of TCP.
