------------------------- MODULE FecRecoveryProofs -------------------------
(***************************************************************************)
(* FecRecovery never stalls and never counts more duplicate ACKs than its  *)
(* threshold, for every length of the transfer, block, threshold and       *)
(* window, and any number of losses.                                       *)
(*                                                                         *)
(* The invariant is about the sender's record: each operator of            *)
(* FecRecovery is shown to keep it, then each action.                      *)
(***************************************************************************)
EXTENDS FecRecovery, WellFoundedInduction, FiniteSetTheorems, TLAPS

USE FecRecoveryAssumption

\* A set of numbers that is not empty has a smallest element.
LEMMA MinExists ==
    ASSUME NEW S \in SUBSET Nat, S /= {}
    PROVE  Min(S) \in S /\ \A y \in S : Min(S) <= y
<1> DEFINE R == OpToRel(<, Nat)
<1>1. IsWellFoundedOn(R, Nat)
  BY NatLessThanWellFounded
<1>2. \E x \in S : \A y \in S : ~(<<y, x>> \in R)
  <2> HIDE DEF R
  <2> QED BY <1>1, WFMin
<1>3. \A x \in S, y \in S : ~(<<y, x>> \in R) => x <= y
  BY DEF OpToRel
<1>4. \E x \in S : \A y \in S : x =< y
  BY <1>2, <1>3
<1> QED BY <1>4 DEF Min

-----------------------------------------------------------------------------
CongStates == {"OPEN", "DISORDER", "RECOVERY", "LOSS"}
Packets == {"DATA", "REPAIR"} \X Nat

Sender == [una : Nat, nxt : Nat, sacked : SUBSET Nat, lost : SUBSET Nat,
           retrans : SUBSET Nat, congState : CongStates, dupAckCount : Int,
           retxThresh : Nat, newRatio : BOOLEAN, recover : Nat,
           recoverActive : BOOLEAN, fecCounter : Nat, retxEvent : BOOLEAN,
           out : Seq(Packets)]

\* What a packet carries has been sent by a sender that is up to n.
Carried(p, n) == /\ p \in Packets
                 /\ p[1] = "DATA" => p[2] < n
                 /\ p[1] = "REPAIR" => p[2] + FecRatio <= n

Outstanding(s) == s.una..(s.nxt - 1)

\* The scoreboard and the block are consistent.
InRange(s) ==
    /\ s \in Sender
    /\ s.una <= s.nxt /\ s.nxt <= Segments
    /\ s.sacked \subseteq Outstanding(s) /\ s.lost \subseteq Outstanding(s)
    /\ s.retrans \subseteq Outstanding(s)
    /\ s.sacked \cap s.lost = {}
    /\ s.una \notin s.sacked
    /\ s.recover <= s.nxt
    /\ s.fecCounter <= FecRatio /\ s.fecCounter <= s.nxt
    /\ \A i \in 1..Len(s.out) : Carried(s.out[i], s.nxt)

\* Without a timer everything outstanding is lost or SACKed: a timeout came last.
Timer(s) ==
    s.una < s.nxt /\ ~s.retxEvent
    => s.congState = "LOSS" /\ s.retrans = {} /\ s.lost = Outstanding(s) \ s.sacked

\* The duplicate ACKs counted, by state.
Counts(s) ==
    /\ s.retxThresh \in {ReTxThreshold, FecRatio}
    /\ s.dupAckCount \in 0..s.retxThresh
    /\ s.congState /= "RECOVERY" => s.dupAckCount < s.retxThresh
    /\ s.congState \in {"OPEN", "DISORDER"} => ~s.recoverActive

Good(s) == InRange(s) /\ Timer(s) /\ Counts(s)

\* t is s after something else than an ACK of new data.
Onward(s, t) == t.una = s.una /\ t.sacked \subseteq s.sacked /\ t.nxt >= s.nxt

\* What may be sent next: a segment outstanding, or the first one that is new.
Sendable(s, k) == k \in s.una..s.nxt /\ (k = s.nxt => s.nxt < Segments)

-----------------------------------------------------------------------------
\* Sending a segment, or the repair packet that takes its place.
LEMMA SendKeeps ==
    ASSUME NEW s, Good(s), NEW k, Sendable(s, k)
    PROVE  LET t == SendDataPacket(s, k)
           IN  Good(t) /\ Onward(s, t) /\ t.congState = s.congState
               /\ (s.retxEvent => t.retxEvent)
<1> USE DEF Good
<1>0. /\ s \in Sender /\ s.una \in Nat /\ s.nxt \in Nat /\ k \in Nat
      /\ s.out \in Seq(Packets) /\ s.fecCounter \in Nat
      /\ FecRatio \in Nat \ {0} /\ ReTxThreshold \in Nat \ {0} /\ Segments \in Nat
  BY DEF InRange, Sender, Sendable
<1>1. CASE s.fecCounter = FecRatio
  <2> DEFINE p == <<"REPAIR", s.nxt - FecRatio>>
             t == SendFecPacket(s)
  <2>1. p \in Packets /\ Carried(p, s.nxt)
    BY <1>0, <1>1 DEF InRange, Packets, Carried
  <2>2. /\ t = [s EXCEPT !.fecCounter = 0, !.out = Append(s.out, p), !.newRatio = FALSE,
                         !.retxThresh = IF s.newRatio THEN FecRatio ELSE s.retxThresh,
                         !.dupAckCount = IF s.newRatio /\ s.dupAckCount >= FecRatio
                                         THEN FecRatio - 1 ELSE s.dupAckCount]
    BY <1>0 DEF SendFecPacket, Sender
  <2>3. /\ t \in Sender
        /\ t.una = s.una /\ t.nxt = s.nxt /\ t.sacked = s.sacked /\ t.lost = s.lost
        /\ t.retrans = s.retrans /\ t.congState = s.congState /\ t.recover = s.recover
        /\ (t.recoverActive <=> s.recoverActive) /\ (t.retxEvent <=> s.retxEvent)
        /\ t.fecCounter = 0 /\ t.out = Append(s.out, p)
        /\ t.retxThresh = (IF s.newRatio THEN FecRatio ELSE s.retxThresh)
        /\ t.dupAckCount = IF s.newRatio /\ s.dupAckCount >= FecRatio
                           THEN FecRatio - 1 ELSE s.dupAckCount
    <3> DEFINE o == Append(s.out, p)
               th == IF s.newRatio THEN FecRatio ELSE s.retxThresh
               d == IF s.newRatio /\ s.dupAckCount >= FecRatio
                    THEN FecRatio - 1 ELSE s.dupAckCount
    <3>1. o \in Seq(Packets)
      BY <1>0, <2>1
    <3>2. th \in Nat /\ d \in Int
      BY <1>0 DEF Sender
    <3>3. t = [s EXCEPT !.fecCounter = 0, !.out = o, !.newRatio = FALSE,
                        !.retxThresh = th, !.dupAckCount = d]
      BY <2>2
    <3> HIDE DEF t, p, o, th, d
    <3>4. t \in Sender
      BY <1>0, <3>1, <3>2, <3>3 DEF Sender
    <3>5. /\ t.una = s.una /\ t.nxt = s.nxt /\ t.sacked = s.sacked /\ t.lost = s.lost
          /\ t.retrans = s.retrans /\ t.congState = s.congState /\ t.recover = s.recover
          /\ (t.recoverActive <=> s.recoverActive) /\ (t.retxEvent <=> s.retxEvent)
          /\ t.fecCounter = 0 /\ t.out = o /\ t.retxThresh = th /\ t.dupAckCount = d
      BY <1>0, <3>3 DEF Sender
    <3> QED BY <3>4, <3>5 DEF o, th, d
  <2>4. SendDataPacket(s, k) = t
    BY <1>1 DEF SendDataPacket
  <2>5. \A i \in 1..Len(t.out) : Carried(t.out[i], t.nxt)
    <3> HIDE DEF t, p
    <3> QED BY <1>0, <2>1, <2>3 DEF InRange
  <2> HIDE DEF t, p
  <2>6. InRange(t)
    <3>1. InRange(s)
      BY <1>0
    <3>2. Outstanding(t) = Outstanding(s)
      BY <2>3 DEF Outstanding
    <3>3. 0 <= FecRatio /\ 0 <= t.nxt
      BY <1>0, <2>3
    <3> QED BY <2>3, <2>5, <3>1, <3>2, <3>3 DEF InRange
  <2>7. Counts(t)
    <3>1. /\ s.dupAckCount \in Nat /\ s.dupAckCount <= s.retxThresh
          /\ s.congState /= "RECOVERY" => s.dupAckCount < s.retxThresh
          /\ s.congState \in {"OPEN", "DISORDER"} => ~s.recoverActive
          /\ s.retxThresh \in {ReTxThreshold, FecRatio} /\ s.retxThresh \in Nat
      BY <1>0 DEF Counts, Sender
    <3>2. CASE ~s.newRatio
      BY <2>3, <3>1, <3>2 DEF Counts
    <3>3. CASE s.newRatio
      <4>1. t.retxThresh = FecRatio /\ FecRatio \in Nat /\ FecRatio > 0
        BY <1>0, <2>3, <3>3
      <4>2. t.dupAckCount \in Nat /\ t.dupAckCount < FecRatio
        BY <2>3, <3>1, <3>3, <4>1
      <4> QED BY <2>3, <3>1, <4>1, <4>2 DEF Counts
    <3> QED BY <3>2, <3>3
  <2>8. Timer(t) /\ Onward(s, t)
    BY <1>0, <2>3 DEF Timer, Onward, Outstanding
  <2> QED BY <2>3, <2>4, <2>6, <2>7, <2>8
<1>2. CASE s.fecCounter /= FecRatio
  <2> DEFINE p == <<"DATA", k>>
             t == SendDataPacket(s, k)
             new == k = s.nxt
  <2>1. p \in Packets
    BY <1>0 DEF Packets
  <2>2. t = [s EXCEPT !.out = Append(s.out, p),
                      !.retxEvent = TRUE,
                      !.nxt = IF new THEN k + 1 ELSE s.nxt,
                      !.fecCounter = IF new THEN s.fecCounter + 1 ELSE s.fecCounter,
                      !.retrans = IF new THEN s.retrans ELSE s.retrans \cup {k}]
    BY <1>0, <1>2 DEF SendDataPacket, Sender
  <2>3. /\ t \in Sender
        /\ t.una = s.una /\ t.sacked = s.sacked /\ t.lost = s.lost
        /\ t.congState = s.congState /\ t.recover = s.recover /\ t.retxEvent
        /\ (t.recoverActive <=> s.recoverActive)
        /\ t.retxThresh = s.retxThresh /\ t.dupAckCount = s.dupAckCount
        /\ t.nxt = (IF new THEN k + 1 ELSE s.nxt)
        /\ t.fecCounter = (IF new THEN s.fecCounter + 1 ELSE s.fecCounter)
        /\ t.retrans = (IF new THEN s.retrans ELSE s.retrans \cup {k})
        /\ t.out = Append(s.out, p)
    <3> DEFINE o == Append(s.out, p)
               n == IF new THEN k + 1 ELSE s.nxt
               c == IF new THEN s.fecCounter + 1 ELSE s.fecCounter
               r == IF new THEN s.retrans ELSE s.retrans \cup {k}
    <3>1. o \in Seq(Packets)
      BY <1>0, <2>1
    <3>2. n \in Nat /\ c \in Nat /\ r \in SUBSET Nat
      BY <1>0 DEF Sender
    <3>3. t = [s EXCEPT !.out = o, !.retxEvent = TRUE, !.nxt = n, !.fecCounter = c,
                        !.retrans = r]
      BY <2>2
    <3> HIDE DEF t, p, o, n, c, r
    <3>4. t \in Sender
      BY <1>0, <3>1, <3>2, <3>3 DEF Sender
    <3>5. /\ t.una = s.una /\ t.sacked = s.sacked /\ t.lost = s.lost
          /\ t.congState = s.congState /\ t.recover = s.recover /\ t.retxEvent
          /\ (t.recoverActive <=> s.recoverActive)
          /\ t.retxThresh = s.retxThresh /\ t.dupAckCount = s.dupAckCount
          /\ t.nxt = n /\ t.fecCounter = c /\ t.retrans = r /\ t.out = o
      BY <1>0, <3>3 DEF Sender
    <3> QED BY <3>4, <3>5 DEF o, n, c, r
  <2>5. \A i \in 1..Len(t.out) : Carried(t.out[i], t.nxt)
    <3>1. Carried(p, t.nxt)
      <4> HIDE DEF t
      <4> QED BY <1>0, <2>1, <2>3 DEF Carried, Sendable
    <3>2. \A q : Carried(q, s.nxt) => Carried(q, t.nxt)
      <4> HIDE DEF t
      <4> QED BY <1>0, <2>3 DEF Carried, Packets
    <3> HIDE DEF t, p
    <3> QED BY <1>0, <2>1, <2>3, <3>1, <3>2 DEF InRange
  <2> HIDE DEF t, p
  <2>6. InRange(t)
    <3>1. /\ t.una <= t.nxt /\ t.nxt <= Segments /\ t.recover <= t.nxt
          /\ t.fecCounter <= FecRatio /\ t.fecCounter <= t.nxt
      <4>1. /\ s.una \in Nat /\ s.nxt \in Nat /\ s.recover \in Nat /\ s.fecCounter \in Nat
            /\ Segments \in Nat /\ FecRatio \in Nat
        BY <1>0, FecRecoveryAssumption DEF Sender
      <4>2. /\ s.una <= s.nxt /\ s.nxt <= Segments /\ s.recover <= s.nxt
            /\ s.fecCounter <= FecRatio /\ s.fecCounter <= s.nxt
        BY <1>0 DEF InRange
      <4>3. s.fecCounter /= FecRatio /\ (new => k = s.nxt /\ s.nxt < Segments)
        BY <1>0, <1>2 DEF Sendable
      <4> QED BY <2>3, <4>1, <4>2, <4>3
    <3>2. Outstanding(s) \subseteq Outstanding(t) /\ (~new => k \in Outstanding(t))
      BY <1>0, <2>3 DEF Outstanding, Sendable
    <3> QED BY <2>3, <2>5, <3>1, <3>2 DEF InRange
  <2>7. Counts(t)
    BY <2>3 DEF Counts
  <2>8. Timer(t) /\ Onward(s, t)
    BY <1>0, <2>3 DEF Timer, Onward
  <2> QED BY <2>3, <2>6, <2>7, <2>8 DEF t
<1> QED BY <1>1, <1>2

\* NextSeg names a segment that may be sent, or none.
LEMMA NextSegSendable ==
    ASSUME NEW s, InRange(s), NEW isRecovery, NextSeg(s, isRecovery) /= NoSegment
    PROVE  Sendable(s, NextSeg(s, isRecovery))
<1> DEFINE again == s.lost \ s.retrans
           rule3 == (s.una..(s.nxt - 1)) \ (s.sacked \cup s.retrans)
<1>1. /\ s.una \in Nat /\ s.nxt \in Nat /\ s.una <= s.nxt
      /\ again \subseteq s.una..(s.nxt - 1) /\ rule3 \subseteq s.una..(s.nxt - 1)
      /\ again \in SUBSET Nat /\ rule3 \in SUBSET Nat
  BY DEF InRange, Sender, Outstanding
<1>2. CASE again /= {}
  BY <1>1, <1>2, MinExists DEF NextSeg, Sendable
<1>3. CASE again = {} /\ s.nxt < Segments
  BY <1>1, <1>3 DEF NextSeg, Sendable
<1>4. CASE again = {} /\ ~(s.nxt < Segments)
  BY <1>1, <1>4, MinExists DEF NextSeg, Sendable
<1> QED BY <1>2, <1>3, <1>4

LEMMA SendNextKeeps ==
    ASSUME NEW s, Good(s), CanSend(s)
    PROVE  LET t == SendNext(s)
           IN  Good(t) /\ Onward(s, t) /\ t.congState = s.congState
<1>1. Sendable(s, NextSeg(s, s.congState = "RECOVERY"))
  BY NextSegSendable DEF CanSend, Good
<1> QED BY <1>1, SendKeeps DEF SendNext

LEMMA DoRetransmitKeeps ==
    ASSUME NEW s, Good(s), s.una < s.nxt
    PROVE  LET t == DoRetransmit(s)
           IN  Good(t) /\ Onward(s, t) /\ t.congState = s.congState
               /\ (s.retxEvent => t.retxEvent)
<1>1. s.una \in Nat /\ s.nxt \in Nat
  BY DEF Good, InRange, Sender
<1>2. Sendable(s, s.una)
  BY <1>1 DEF Sendable
<1>3. NextSeg(s, FALSE) /= NoSegment => Sendable(s, NextSeg(s, FALSE))
  BY NextSegSendable DEF Good
<1> QED BY <1>2, <1>3, SendKeeps DEF DoRetransmit

-----------------------------------------------------------------------------
\* Entering recovery: the timer is running, for something is outstanding in OPEN or
\* DISORDER.
LEMMA EnterRecoveryKeeps ==
    ASSUME NEW s, InRange(s), Timer(s), s.una < s.nxt, s.congState = "DISORDER",
           s.retxThresh \in {ReTxThreshold, FecRatio}, s.dupAckCount \in 0..s.retxThresh
    PROVE  LET t == EnterRecovery(s) IN Good(t) /\ Onward(s, t)
<1>0. /\ s \in Sender /\ s.una \in Nat /\ s.nxt \in Nat /\ InRange(s) /\ s.retxEvent
  BY DEF InRange, Sender, Timer
<1> DEFINE lost == IsLost(s, s.una)
           l == IF lost THEN s.lost ELSE s.lost \cup {s.una}
           k == IF lost THEN s.sacked ELSE s.sacked \ {s.una}
           r == IF lost THEN s.retrans ELSE s.retrans \ {s.una}
           h == IF lost THEN s ELSE MarkHeadAsLost(s)
           m == [h EXCEPT !.recover = s.nxt, !.recoverActive = TRUE,
                          !.congState = "RECOVERY"]
<1> HIDE DEF lost
<1>1. /\ l \in SUBSET Nat /\ k \in SUBSET Nat /\ r \in SUBSET Nat
      /\ l \subseteq Outstanding(s) /\ k \subseteq Outstanding(s) /\ r \subseteq Outstanding(s)
      /\ k \subseteq s.sacked /\ k \cap l = {} /\ s.una \notin k
  <2>1. s.una \in Outstanding(s)
    BY <1>0 DEF Outstanding
  <2> QED BY <1>0, <2>1 DEF Sender, InRange
<1>2. h = [s EXCEPT !.lost = l, !.sacked = k, !.retrans = r]
  BY <1>0 DEF MarkHeadAsLost, Sender
<1> HIDE DEF l, k, r, h
<1>3. /\ m \in Sender
      /\ m.una = s.una /\ m.nxt = s.nxt /\ m.sacked = k /\ m.lost = l /\ m.retrans = r
      /\ m.congState = "RECOVERY" /\ m.recover = s.nxt /\ m.recoverActive
      /\ m.dupAckCount = s.dupAckCount /\ m.retxThresh = s.retxThresh
      /\ m.fecCounter = s.fecCounter /\ m.retxEvent /\ m.out = s.out
  <2>1. /\ h \in Sender
        /\ h.una = s.una /\ h.nxt = s.nxt /\ h.sacked = k /\ h.lost = l /\ h.retrans = r
        /\ h.dupAckCount = s.dupAckCount /\ h.retxThresh = s.retxThresh
        /\ h.fecCounter = s.fecCounter /\ h.retxEvent /\ h.out = s.out
    BY <1>0, <1>1, <1>2 DEF Sender
  <2>2. m = [h EXCEPT !.recover = s.nxt, !.recoverActive = TRUE, !.congState = "RECOVERY"]
    OBVIOUS
  <2> HIDE DEF m
  <2>3. m \in Sender
    BY <1>0, <2>1, <2>2 DEF Sender, CongStates
  <2> QED BY <1>0, <2>1, <2>2, <2>3 DEF Sender
<1> HIDE DEF m
<1>4. InRange(m)
  BY <1>0, <1>1, <1>3 DEF InRange, Outstanding
<1>5. Good(m)
  BY <1>3, <1>4 DEF Good, Timer, Counts
<1>6. EnterRecovery(s) = DoRetransmit(m)
  BY DEF EnterRecovery, m, h, lost
<1>7. Good(DoRetransmit(m)) /\ Onward(m, DoRetransmit(m))
  BY <1>3, <1>5, DoRetransmitKeeps
<1>8. m.una = s.una /\ m.nxt = s.nxt /\ m.sacked \subseteq s.sacked
  BY <1>1, <1>3
<1> DEFINE d == DoRetransmit(m)
<1>9. Good(d) /\ d.una = m.una /\ d.sacked \subseteq m.sacked /\ d.nxt >= m.nxt
  BY <1>7 DEF Onward
<1> HIDE DEF d
<1>10. Good(d) /\ Onward(s, d)
  BY <1>8, <1>9 DEF Onward
<1> QED BY <1>6, <1>10 DEF d

\* DupAck, of an ACK that SACKs something beyond the head.
LEMMA DupAckKeeps ==
    ASSUME NEW s, Good(s), s.una < s.nxt
    PROVE  LET t == DupAck(s) IN Good(t) /\ Onward(s, t)
<1>0. /\ s \in Sender /\ InRange(s) /\ s.nxt \in Nat /\ s.congState \in CongStates
      /\ s.dupAckCount \in Int /\ s.retxThresh \in Nat
      /\ Onward(s, s)
  <2>1. s \in Sender /\ InRange(s)
    BY Zenon DEF Good, InRange
  <2>2. /\ s.nxt \in Nat /\ s.congState \in CongStates
        /\ s.dupAckCount \in Int /\ s.retxThresh \in Nat
    BY <2>1, Zenon DEF Sender
  <2>3. Onward(s, s)
    BY <2>2 DEF Onward
  <2> QED BY <2>1, <2>2, <2>3
<1>1. CASE s.congState = "LOSS"
  BY <1>0, <1>1 DEF DupAck
<1>2. CASE s.congState = "RECOVERY"
  <2>1. DupAck(s) = [s EXCEPT !.dupAckCount = s.dupAckCount]
    BY <1>2 DEF DupAck, DupAckCountAfter
  <2>2. DupAck(s) = s
    BY <1>0, <2>1 DEF Sender
  <2> QED BY <1>0, <2>2
<1>3. CASE s.congState \in {"OPEN", "DISORDER"}
  <2> DEFINE count == s.dupAckCount + 1
             t == [s EXCEPT !.dupAckCount = count, !.congState = "DISORDER"]
             enters == count = s.retxThresh /\ (s.una >= s.recover \/ ~s.recoverActive)
  <2>1. DupAck(s) = IF enters \/ IsLost(t, t.una + 1) THEN EnterRecovery(t) ELSE t
    BY <1>3 DEF DupAck, DupAckCountAfter
  <2>2. /\ t \in Sender /\ t.una = s.una /\ t.nxt = s.nxt /\ t.sacked = s.sacked
        /\ t.lost = s.lost /\ t.retrans = s.retrans /\ t.congState = "DISORDER"
        /\ t.recover = s.recover /\ (t.recoverActive <=> s.recoverActive)
        /\ t.dupAckCount = count /\ t.retxThresh = s.retxThresh
        /\ t.fecCounter = s.fecCounter /\ (t.retxEvent <=> s.retxEvent) /\ t.out = s.out
    <3>1. count \in Int
      BY <1>0
    <3> HIDE DEF count
    <3>2. t \in Sender
      BY <1>0, <3>1 DEF Sender, CongStates
    <3> QED BY <1>0, <3>2 DEF Sender
  <2> HIDE DEF t
  <2>3. InRange(t) /\ Timer(t) /\ Onward(s, t)
    BY <1>0, <1>3, <2>2 DEF InRange, Timer, Good, Outstanding, Onward
  <2>4. count \in 0..s.retxThresh /\ ~t.recoverActive /\ ~s.recoverActive
        /\ s.retxThresh \in {ReTxThreshold, FecRatio}
    BY <1>0, <1>3, <2>2 DEF Good, Counts
  <2>5. Good(EnterRecovery(t)) /\ Onward(t, EnterRecovery(t))
    BY <2>2, <2>3, <2>4, EnterRecoveryKeeps
  <2>6. ~enters => Good(t)
    BY <2>2, <2>3, <2>4 DEF Good, Counts
  <2>7. Onward(s, EnterRecovery(t))
    BY <2>2, <2>5 DEF Onward
  <2> QED BY <2>1, <2>3, <2>5, <2>6, <2>7
<1> QED BY <1>0, <1>1, <1>2, <1>3 DEF CongStates

-----------------------------------------------------------------------------
\* NewAck, whatever the timer was.
LEMMA NewAckKeeps ==
    ASSUME NEW s, InRange(s), Counts(s)
    PROVE  Good(NewAck(s)) /\ Onward(s, NewAck(s))
<1> DEFINE running == s.una < Segments
           t == NewAck(s)
<1>0. s \in Sender /\ s.una \in Nat /\ s.nxt \in Nat /\ running \in BOOLEAN
  BY DEF InRange, Sender
<1> HIDE DEF running
<1>1. t = [s EXCEPT !.retxEvent = running]
  BY DEF NewAck, running
<1> HIDE DEF t
<1>2. t \in Sender
  BY <1>0, <1>1 DEF Sender
<1>3. /\ t.una = s.una /\ t.nxt = s.nxt /\ t.sacked = s.sacked /\ t.lost = s.lost
      /\ t.retrans = s.retrans /\ t.congState = s.congState /\ t.recover = s.recover
      /\ (t.recoverActive <=> s.recoverActive) /\ t.dupAckCount = s.dupAckCount
      /\ t.retxThresh = s.retxThresh /\ t.fecCounter = s.fecCounter
      /\ (t.retxEvent <=> running) /\ t.out = s.out
  BY <1>0, <1>1 DEF Sender
<1>4. InRange(t) /\ Counts(t) /\ Onward(s, t)
  BY <1>0, <1>2, <1>3 DEF InRange, Counts, Outstanding, Onward
<1>5. Timer(t)
  BY <1>0, <1>3 DEF Timer, running, InRange
<1> QED BY <1>4, <1>5 DEF Good, t

\* The same scoreboard, block and packets: t differs from s in counts, state or timer.
Alike(s, t) ==
    /\ t.una = s.una /\ t.nxt = s.nxt /\ t.sacked = s.sacked /\ t.lost = s.lost
    /\ t.retrans = s.retrans /\ t.recover = s.recover /\ t.fecCounter = s.fecCounter
    /\ t.out = s.out

LEMMA AlikeInRange ==
    ASSUME NEW s, NEW t \in Sender, InRange(s), Alike(s, t)
    PROVE  InRange(t) /\ Onward(s, t)
<1>1. s.nxt \in Nat
  BY DEF InRange, Sender
<1> QED BY <1>1 DEF InRange, Alike, Outstanding, Onward

\* The cumulative part of ProcessAck.
LEMMA AdvanceKeeps ==
    ASSUME NEW s, Good(s), NEW isDupack \in BOOLEAN
    PROVE  LET t == Advance(s, isDupack) IN Good(t) /\ Onward(s, t)
<1> DEFINE d == IF isDupack THEN s.dupAckCount ELSE 0
           t == [s EXCEPT !.dupAckCount = IF isDupack THEN @ ELSE 0]
           a == t.recoverActive /\ t.una < t.recover
           settled == [t EXCEPT !.recoverActive = @ /\ t.una < t.recover]
           e == IF t.congState = "RECOVERY" THEN 0 ELSE settled.dupAckCount
           opened == [settled EXCEPT !.congState = "OPEN",
                          !.dupAckCount = IF t.congState = "RECOVERY" THEN 0 ELSE @]
<1>0. /\ s \in Sender /\ InRange(s) /\ s.una \in Nat /\ s.nxt \in Nat /\ s.recover \in Nat
      /\ s.dupAckCount \in Int /\ s.recoverActive \in BOOLEAN /\ s.congState \in CongStates
      /\ s.retxThresh \in Nat /\ s.retxThresh > 0 /\ s.retxEvent \in BOOLEAN
  BY DEF Good, InRange, Sender, Counts
<1>1. d \in Int
  BY <1>0
<1>2. t = [s EXCEPT !.dupAckCount = d]
  BY <1>0 DEF Sender
<1> HIDE DEF t, d
<1>3. /\ t \in Sender /\ InRange(t) /\ Onward(s, t)
      /\ t.dupAckCount = d /\ (t.recoverActive <=> s.recoverActive)
      /\ t.congState = s.congState
      /\ t.retxThresh = s.retxThresh /\ t.una = s.una /\ t.nxt = s.nxt
      /\ t.recover = s.recover /\ (t.retxEvent <=> s.retxEvent)
      /\ t.retrans = s.retrans /\ t.lost = s.lost /\ t.sacked = s.sacked
  <2>1. t \in Sender
    BY <1>0, <1>1, <1>2 DEF Sender
  <2>2. /\ t.dupAckCount = d /\ (t.recoverActive <=> s.recoverActive)
        /\ t.congState = s.congState /\ t.retxThresh = s.retxThresh
        /\ (t.retxEvent <=> s.retxEvent) /\ Alike(s, t)
    BY <1>0, <1>2 DEF Sender, Alike
  <2> QED BY <1>0, <2>1, <2>2, AlikeInRange DEF Alike
<1>4. Good(t)
  <2>1. Counts(t)
    BY <1>0, <1>3 DEF Good, Counts, d
  <2>2. Timer(t)
    BY <1>3 DEF Good, Timer, Outstanding
  <2> QED BY <1>3, <2>1, <2>2 DEF Good
<1>5. t \in Sender
  BY <1>3 DEF InRange
<1> HIDE DEF t
<1>6. CASE t.una < t.recover /\ t.congState = "RECOVERY"
  <2> DEFINE u == PartialAck(t)
  <2>1. t.una < t.nxt /\ t.nxt <= Segments
    BY <1>0, <1>3, <1>6 DEF InRange
  <2>2. Good(u) /\ Onward(t, u)
    <3>1. Onward(t, t)
      BY <1>0, <1>3 DEF Onward
    <3>2. Good(DoRetransmit(t)) /\ Onward(t, DoRetransmit(t))
      BY <1>4, <2>1, DoRetransmitKeeps
    <3> QED BY <1>4, <3>1, <3>2 DEF PartialAck
  <2>3. u \in Sender /\ u.retxEvent \in BOOLEAN
    BY <2>2 DEF Good, InRange, Sender
  <2>4. [u EXCEPT !.retxEvent = @ /\ t.una < Segments] = [u EXCEPT !.retxEvent = u.retxEvent]
    <3>1. t.una < Segments
      BY <1>0, <1>3, <2>1
    <3>2. u.retxEvent /\ t.una < Segments <=> u.retxEvent
      BY <3>1
    <3>3. (u.retxEvent /\ t.una < Segments) = u.retxEvent
      BY <2>3, <3>2
    <3> HIDE DEF u
    <3> QED BY <2>3, <3>3 DEF Sender
  <2>5. [u EXCEPT !.retxEvent = u.retxEvent] = u
    <3> HIDE DEF u
    <3> QED BY <2>3 DEF Sender
  <2>6. Advance(s, isDupack) = [u EXCEPT !.retxEvent = @ /\ t.una < Segments]
    BY <1>6 DEF Advance, t
  <2>7. Onward(s, u)
    BY <1>0, <1>3, <2>2 DEF Onward, Good, InRange, Sender
  <2> QED BY <2>2, <2>4, <2>5, <2>6, <2>7
<1>7. CASE t.una < t.recover /\ t.congState = "LOSS"
  <2>1. Advance(s, isDupack) = NewAck(t)
    BY <1>7 DEF Advance, t
  <2>2. Good(NewAck(t)) /\ Onward(t, NewAck(t))
    BY <1>4, NewAckKeeps DEF Good
  <2> QED BY <1>0, <1>3, <2>1, <2>2 DEF Onward, Good, InRange, Sender
<1>8. CASE ~(t.una < t.recover /\ t.congState \in {"RECOVERY", "LOSS"})
  <2>0. t.dupAckCount \in Int /\ t.congState \in CongStates /\ a \in BOOLEAN
        /\ settled = [t EXCEPT !.recoverActive = a]
    <3>1. t.dupAckCount \in Int /\ t.congState \in CongStates /\ t.recoverActive \in BOOLEAN
      BY <1>5 DEF Sender
    <3> QED BY <1>5, <3>1 DEF Sender
  <2> HIDE DEF a, settled
  <2>1. /\ settled \in Sender /\ InRange(settled) /\ Onward(t, settled) /\ Alike(t, settled)
        /\ settled.dupAckCount = t.dupAckCount /\ (settled.recoverActive <=> a)
        /\ settled.congState = t.congState /\ settled.retxThresh = t.retxThresh
        /\ (settled.retxEvent <=> t.retxEvent)
    <3>1. settled \in Sender
      BY <1>5, <2>0 DEF Sender
    <3>2. /\ Alike(t, settled)
          /\ settled.dupAckCount = t.dupAckCount /\ (settled.recoverActive <=> a)
          /\ settled.congState = t.congState /\ settled.retxThresh = t.retxThresh
          /\ (settled.retxEvent <=> t.retxEvent)
      BY <1>5, <2>0 DEF Sender, Alike
    <3> QED BY <1>3, <3>1, <3>2, AlikeInRange
  <2>2. a => t.recoverActive /\ t.una < t.recover
    BY DEF a
  <2>3. CASE t.congState = "DISORDER" /\ isDupack
    <3>1. Advance(s, isDupack) = settled
      BY <1>8, <2>3 DEF Advance, t, settled
    <3>2. Good(settled)
      BY <1>4, <2>1, <2>2 DEF Good, Timer, Counts, Outstanding, Alike
    <3> QED BY <1>0, <1>3, <2>1, <3>1, <3>2 DEF Onward, InRange, Sender
  <2>4. CASE ~(t.congState = "DISORDER" /\ isDupack)
    <3>1. Advance(s, isDupack) = NewAck(opened)
      BY <1>8, <2>4 DEF Advance, t, settled
    <3>2. e \in Int
      BY <1>0, <2>0, <2>1
    <3>3. opened = [settled EXCEPT !.congState = "OPEN", !.dupAckCount = e]
      BY <2>1 DEF Sender
    <3>4. /\ InRange(opened) /\ Onward(settled, opened)
          /\ opened.dupAckCount = e /\ (opened.recoverActive <=> settled.recoverActive)
          /\ opened.congState = "OPEN" /\ opened.retxThresh = settled.retxThresh
      <4> HIDE DEF e, opened
      <4>1. opened \in Sender
        BY <2>1, <3>2, <3>3 DEF Sender, CongStates
      <4>2. /\ Alike(settled, opened)
            /\ opened.dupAckCount = e /\ (opened.recoverActive <=> settled.recoverActive)
            /\ opened.congState = "OPEN" /\ opened.retxThresh = settled.retxThresh
        BY <2>1, <3>3 DEF Sender, Alike
      <4> QED BY <2>1, <4>1, <4>2, AlikeInRange
    <3>5. Counts(opened)
      <4>1. ~a
        BY <1>3, <1>4, <1>8, <1>0, <2>2 DEF Good, Counts, CongStates
      <4>2. e \in 0..t.retxThresh /\ e < t.retxThresh
        BY <1>0, <1>3, <1>4, <2>1 DEF Good, Counts
      <4> HIDE DEF opened, e
      <4> QED BY <1>4, <2>1, <3>4, <4>1, <4>2 DEF Good, Counts
    <3> HIDE DEF opened
    <3>6. Good(NewAck(opened)) /\ Onward(opened, NewAck(opened))
      BY <3>4, <3>5, NewAckKeeps
    <3>7. Onward(s, NewAck(opened))
      <4>1. InRange(NewAck(opened)) /\ Onward(opened, NewAck(opened))
        BY <3>6 DEF Good
      <4> HIDE DEF settled, InRange
      <4>2. s.nxt \in Nat /\ NewAck(opened).nxt \in Nat /\ opened.nxt \in Nat
        BY <1>0, <3>4, <4>1 DEF InRange, Sender
      <4> QED BY <1>3, <2>1, <3>4, <4>1, <4>2 DEF Onward, Alike
    <3> QED BY <3>1, <3>6, <3>7
  <2> QED BY <2>3, <2>4
<1> QED BY <1>6, <1>7, <1>8

-----------------------------------------------------------------------------
\* The report of the receiver only prepares the ratio and sets the count.
LEMMA ReportKeeps ==
    ASSUME NEW s, Good(s), NEW report, NEW renews \in BOOLEAN
    PROVE  LET t == ProcessFecReport(s, report, renews) IN Good(t) /\ Alike(s, t)
<1> DEFINE t == ProcessFecReport(s, report, renews)
           d == IF report = "R_FAIL" THEN s.retxThresh - 1 ELSE s.dupAckCount
           b == s.newRatio \/ renews
<1>0. /\ s \in Sender /\ InRange(s) /\ s.retxThresh \in Nat /\ s.retxThresh > 0 /\ d \in Int
      /\ b \in BOOLEAN
  <2>1. s \in Sender /\ InRange(s)
    BY DEF Good, InRange
  <2>2. s.retxThresh \in Nat /\ s.dupAckCount \in Int
    BY <2>1 DEF Sender
  <2>3. s.retxThresh \in {ReTxThreshold, FecRatio}
    BY DEF Good, Counts
  <2>4. s.retxThresh > 0
    BY <2>2, <2>3, FecRecoveryAssumption
  <2> QED BY <2>1, <2>2, <2>4
<1>1. t = [s EXCEPT !.newRatio = b, !.dupAckCount = d]
  BY <1>0 DEF ProcessFecReport, ProcessOptionFecForAck, Sender
<1>2. d \in 0..s.retxThresh /\ (s.congState /= "RECOVERY" => d < s.retxThresh)
  BY <1>0 DEF Good, Counts
<1> HIDE DEF t, d, b
<1>3. /\ t \in Sender /\ t.dupAckCount = d /\ (t.recoverActive <=> s.recoverActive)
      /\ t.congState = s.congState /\ t.retxThresh = s.retxThresh
      /\ (t.retxEvent <=> s.retxEvent) /\ Alike(s, t)
  BY <1>0, <1>1 DEF Sender, Alike
<1>4. InRange(t)
  BY <1>0, <1>3, AlikeInRange
<1>5. Timer(t) /\ Counts(t)
  BY <1>0, <1>2, <1>3 DEF Good, Timer, Counts, Alike, Outstanding
<1> QED BY <1>3, <1>4, <1>5 DEF Good, t

\* SACK blocks beyond the head.
LEMMA ScoreboardKeeps ==
    ASSUME NEW s, Good(s), NEW sack \in SUBSET Nat, s.una \notin sack
    PROVE  LET t == Update(s, sack)
           IN  /\ Good(t) /\ t.una = s.una /\ t.nxt = s.nxt
               /\ t.sacked \subseteq s.sacked \cup sack
               /\ t.sacked /= s.sacked => \E k \in sack : k \in Outstanding(s)
<1> DEFINE new == (sack \cap s.una..(s.nxt - 1)) \ s.sacked
           k == s.sacked \cup new
           l == s.lost \ new
           m == [s EXCEPT !.sacked = @ \cup new, !.lost = @ \ new]
           b == l \cup LostBelow(m)
           t == Update(s, sack)
<1>0. /\ s \in Sender /\ InRange(s) /\ s.una \in Nat /\ s.nxt \in Nat
      /\ new \in SUBSET Nat /\ k \in SUBSET Nat /\ l \in SUBSET Nat
  BY DEF Good, InRange, Sender
<1>1. CASE new = {}
  BY <1>1 DEF Update
<1>2. CASE new /= {}
  <2>1. m = [s EXCEPT !.sacked = k, !.lost = l]
    BY <1>0 DEF Sender
  <2>2. t = [m EXCEPT !.lost = @ \cup LostBelow(m)]
    BY <1>2 DEF Update
  <2>3. /\ m \in Sender /\ m.una = s.una /\ m.nxt = s.nxt /\ m.sacked = k /\ m.lost = l
        /\ m.retrans = s.retrans /\ m.congState = s.congState /\ m.recover = s.recover
        /\ (m.recoverActive <=> s.recoverActive) /\ m.dupAckCount = s.dupAckCount
        /\ m.retxThresh = s.retxThresh /\ m.fecCounter = s.fecCounter
        /\ (m.retxEvent <=> s.retxEvent) /\ m.out = s.out
    <3> HIDE DEF m, k, l
    <3> QED BY <1>0, <2>1 DEF Sender
  <2>4. LostBelow(m) \subseteq Outstanding(s) \ k
    <3> HIDE DEF m, k
    <3> QED BY <2>3 DEF LostBelow, Outstanding
  <2>5. b \in SUBSET Nat
    <3>1. Outstanding(s) \in SUBSET Nat
      BY <1>0 DEF Outstanding
    <3>2. LostBelow(m) \in SUBSET Nat
      <4> HIDE DEF m, k
      <4> QED BY <2>4, <3>1
    <3> HIDE DEF m, l
    <3> QED BY <1>0, <3>2
  <2>6. t = [m EXCEPT !.lost = b]
    <3> HIDE DEF m, l, t
    <3> QED BY <2>2, <2>3 DEF Sender
  <2>7. /\ t \in Sender /\ t.una = s.una /\ t.nxt = s.nxt /\ t.sacked = k /\ t.lost = b
        /\ t.retrans = s.retrans /\ t.congState = s.congState /\ t.recover = s.recover
        /\ (t.recoverActive <=> s.recoverActive) /\ t.dupAckCount = s.dupAckCount
        /\ t.retxThresh = s.retxThresh /\ t.fecCounter = s.fecCounter
        /\ (t.retxEvent <=> s.retxEvent) /\ t.out = s.out
    <3> HIDE DEF t, m, k, l, b
    <3> QED BY <2>3, <2>5, <2>6 DEF Sender
  <2>8. /\ new \subseteq Outstanding(s) /\ s.una \notin new /\ new \subseteq sack
        /\ k = s.sacked \cup new /\ l = s.lost \ new
        /\ b \subseteq l \cup (Outstanding(s) \ k) /\ l \subseteq b
    <3>1. b \subseteq l \cup (Outstanding(s) \ k) /\ l \subseteq b
      <4> HIDE DEF m, k, l
      <4> QED BY <2>4
    <3> QED BY <3>1 DEF Outstanding
  <2> HIDE DEF t, m, k, l, b, new
  <2>9. InRange(t)
    <3>1. k \subseteq Outstanding(s) /\ b \subseteq Outstanding(s) /\ k \cap b = {}
          /\ s.una \notin k
      BY <1>0, <2>8 DEF InRange
    <3> QED BY <1>0, <2>7, <3>1 DEF InRange, Outstanding
  <2>10. Timer(t) /\ Counts(t)
    <3>1. s.lost = Outstanding(s) \ s.sacked => b = Outstanding(s) \ k
      BY <2>8
    <3> QED BY <2>7, <3>1 DEF Good, Timer, Counts, Outstanding
  <2>11. \E j \in sack : j \in Outstanding(s)
    BY <1>2, <2>8
  <2> QED BY <2>7, <2>8, <2>9, <2>10, <2>11 DEF Good, t
<1> QED BY <1>1, <1>2

\* The head moves on to a segment that is not SACKed.
LEMMA DiscardKeeps ==
    ASSUME NEW s, Good(s), NEW ack \in s.una..s.nxt, ack \notin s.sacked
    PROVE  LET t == DiscardUpTo(s, ack)
           IN  Good(t) /\ t.una = ack /\ t.nxt = s.nxt /\ t.sacked \subseteq s.sacked
<1> DEFINE kept == ack..(s.nxt - 1)
           k == s.sacked \cap kept
           l == s.lost \cap kept
           r == s.retrans \cap kept
           t == DiscardUpTo(s, ack)
<1>0. /\ s \in Sender /\ InRange(s) /\ s.una \in Nat /\ s.nxt \in Nat /\ ack \in Nat
      /\ k \in SUBSET Nat /\ l \in SUBSET Nat /\ r \in SUBSET Nat
  <2>1. s \in Sender /\ InRange(s)
    BY DEF Good, InRange
  <2>2. /\ s.una \in Nat /\ s.nxt \in Nat /\ s.sacked \in SUBSET Nat
        /\ s.lost \in SUBSET Nat /\ s.retrans \in SUBSET Nat
    BY <2>1 DEF Sender
  <2> QED BY <2>1, <2>2
<1>1. t = [s EXCEPT !.una = ack, !.sacked = k, !.lost = l, !.retrans = r]
  BY <1>0 DEF DiscardUpTo, Sender
<1>2. /\ k \subseteq kept /\ l \subseteq kept /\ r \subseteq kept
      /\ kept \subseteq Outstanding(s) /\ k \subseteq s.sacked /\ ack \notin k /\ k \cap l = {}
      /\ s.lost = Outstanding(s) \ s.sacked => l = kept \ k
      /\ s.retrans = {} => r = {}
  BY <1>0 DEF Outstanding, InRange
<1>3. /\ t \in Sender /\ t.una = ack /\ t.nxt = s.nxt /\ t.sacked = k /\ t.lost = l
      /\ t.retrans = r /\ t.congState = s.congState /\ t.recover = s.recover
      /\ (t.recoverActive <=> s.recoverActive) /\ t.dupAckCount = s.dupAckCount
      /\ t.retxThresh = s.retxThresh /\ t.fecCounter = s.fecCounter
      /\ (t.retxEvent <=> s.retxEvent) /\ t.out = s.out
  <2> HIDE DEF t, k, l, r
  <2> QED BY <1>0, <1>1 DEF Sender
<1>4. Outstanding(t) = kept
  <2> HIDE DEF t
  <2> QED BY <1>3 DEF Outstanding
<1> HIDE DEF t, k, l, r, kept
<1>5. InRange(t)
  BY <1>0, <1>2, <1>3, <1>4 DEF InRange
<1>6. Timer(t) /\ Counts(t)
  BY <1>0, <1>2, <1>3, <1>4 DEF Good, Timer, Counts
<1> QED BY <1>2, <1>3, <1>5, <1>6 DEF Good, t

-----------------------------------------------------------------------------
Acks == [got : SUBSET Nat, report : Report]
Receiver == [got : SUBSET Nat, delayed : BOOLEAN, report : Report]

\* What the receiver had, g, accounts for what the sender knows.
Covers(s, g) == 0..(s.una - 1) \subseteq g /\ s.sacked \subseteq g

\* The path to the receiver.
Forward(s, d) == d \in Seq(Packets) /\ \A i \in 1..Len(d) : Carried(d[i], s.nxt)

\* The receiver and the path back.
Back(s, r, a) ==
    /\ r \in Receiver
    /\ r.got \subseteq 0..(s.nxt - 1)
    /\ Covers(s, r.got)
    /\ a \in Seq(Acks)
    /\ \A i \in 1..Len(a) : a[i].got \subseteq r.got /\ Covers(s, a[i].got)
    /\ \A i, j \in 1..Len(a) : i <= j => a[i].got \subseteq a[j].got

IInv ==
    /\ Good(snd) /\ snd.out = <<>>
    /\ Forward(snd, data)
    /\ Back(snd, rcv, acks)
    /\ losses \in 0..MaxLosses
    /\ "threshold" \notin asserts

\* The sender goes on to s and puts on the path what it has sent.
LEMMA BecomesKeeps ==
    ASSUME IInv, NEW s, Good(s), s.nxt >= snd.nxt, Becomes(s)
    PROVE  /\ Good(snd') /\ snd'.out = <<>> /\ Forward(snd', data')
           /\ snd'.una = s.una /\ snd'.sacked = s.sacked /\ snd'.nxt = s.nxt
<1> DEFINE t == [s EXCEPT !.out = <<>>]
<1>0. /\ s \in Sender /\ InRange(s) /\ s.out \in Seq(Packets) /\ s.nxt \in Nat
      /\ snd.nxt \in Nat /\ Forward(snd, data)
  BY DEF IInv, Good, InRange, Sender
<1>1. snd' = t /\ data' = data \o s.out
  BY DEF Becomes
<1>2. /\ t \in Sender /\ t.una = s.una /\ t.nxt = s.nxt /\ t.sacked = s.sacked
      /\ t.lost = s.lost /\ t.retrans = s.retrans /\ t.congState = s.congState
      /\ t.recover = s.recover /\ (t.recoverActive <=> s.recoverActive)
      /\ t.dupAckCount = s.dupAckCount /\ t.retxThresh = s.retxThresh
      /\ t.fecCounter = s.fecCounter /\ (t.retxEvent <=> s.retxEvent) /\ t.out = <<>>
  <2>1. <<>> \in Seq(Packets)
    OBVIOUS
  <2>2. t \in Sender
    BY <1>0, <2>1 DEF Sender
  <2> QED BY <1>0, <2>2 DEF Sender
<1> HIDE DEF t
<1>3. InRange(t)
  BY <1>0, <1>2 DEF InRange, Outstanding
<1>4. Timer(t) /\ Counts(t)
  BY <1>2 DEF Good, Timer, Counts, Outstanding
<1>5. Forward(t, data \o s.out)
  <2>1. \A p : Carried(p, snd.nxt) => Carried(p, s.nxt)
    BY <1>0 DEF Carried, Packets
  <2>2. \A i \in 1..Len(s.out) : Carried(s.out[i], s.nxt)
    BY <1>0 DEF InRange
  <2> QED BY <1>0, <1>2, <2>1, <2>2 DEF Forward
<1> QED BY <1>1, <1>2, <1>3, <1>4, <1>5 DEF Good

\* What the receiver had still accounts for a sender that has gone on.
LEMMA BackKeeps ==
    ASSUME NEW s, NEW t, NEW r, NEW a, Back(s, r, a), s.nxt \in Nat, t.nxt \in Nat,
           Onward(s, t)
    PROVE  Back(t, r, a)
BY DEF Back, Covers, Onward

LEMMA SendPendingDataKeeps ==
    ASSUME IInv, SendPendingData
    PROVE  IInv'
<1> DEFINE s == SendNext(snd)
<1>1. Good(s) /\ Onward(snd, s)
  BY SendNextKeeps DEF IInv, SendPendingData
<1>2. Becomes(s) /\ UNCHANGED <<rcv, acks, losses, asserts>>
  BY DEF SendPendingData
<1> HIDE DEF s
<1>3. snd.nxt \in Nat /\ s.nxt \in Nat
  BY <1>1 DEF IInv, Good, InRange, Sender
<1>4. /\ Good(snd') /\ snd'.out = <<>> /\ Forward(snd', data')
      /\ snd'.una = s.una /\ snd'.sacked = s.sacked /\ snd'.nxt = s.nxt
  BY <1>1, <1>2, BecomesKeeps DEF Onward
<1>5. Back(snd', rcv, acks)
  BY <1>1, <1>3, <1>4, BackKeeps DEF IInv, Onward
<1> QED BY <1>2, <1>4, <1>5 DEF IInv

LEMMA ReTxTimeoutKeeps ==
    ASSUME IInv, ReTxTimeout
    PROVE  IInv'
<1> DEFINE l == (snd.una..(snd.nxt - 1)) \ snd.sacked
           s == [SetSentListLost(snd) EXCEPT
                     !.dupAckCount = 0, !.recover = snd.nxt, !.recoverActive = TRUE,
                     !.congState = "LOSS", !.retxEvent = FALSE]
           t == IF CanSend(s) THEN SendNext(s) ELSE s
<1>0. /\ snd \in Sender /\ InRange(snd) /\ Good(snd) /\ snd.una \in Nat /\ snd.nxt \in Nat
      /\ l \in SUBSET Nat
  <2>1. Good(snd)
    BY DEF IInv
  <2>2. InRange(snd) /\ snd \in Sender
    BY <2>1 DEF Good, InRange
  <2>3. snd.una \in Nat /\ snd.nxt \in Nat
    BY <2>2 DEF Sender
  <2>4. l \in SUBSET Nat
    BY <2>3
  <2> QED BY <2>1, <2>2, <2>3, <2>4
<1>1. SetSentListLost(snd) = [snd EXCEPT !.lost = l, !.retrans = {}]
  BY DEF SetSentListLost
<1>2. /\ s \in Sender /\ s.una = snd.una /\ s.nxt = snd.nxt /\ s.sacked = snd.sacked
      /\ s.lost = l /\ s.retrans = {} /\ s.congState = "LOSS" /\ s.recover = snd.nxt
      /\ s.dupAckCount = 0 /\ s.retxThresh = snd.retxThresh
      /\ s.fecCounter = snd.fecCounter /\ s.out = snd.out
  <2> DEFINE h == SetSentListLost(snd)
  <2> HIDE DEF l
  <2>1. /\ h \in Sender /\ h.una = snd.una /\ h.nxt = snd.nxt /\ h.sacked = snd.sacked
        /\ h.lost = l /\ h.retrans = {} /\ h.retxThresh = snd.retxThresh
        /\ h.fecCounter = snd.fecCounter /\ h.out = snd.out
    BY <1>0, <1>1 DEF Sender
  <2> HIDE DEF h
  <2>2. s = [h EXCEPT !.dupAckCount = 0, !.recover = snd.nxt, !.recoverActive = TRUE,
                      !.congState = "LOSS", !.retxEvent = FALSE]
    BY DEF h
  <2> HIDE DEF s
  <2>3. s \in Sender
    <3>1. 0 \in Int /\ "LOSS" \in CongStates
      BY DEF CongStates
    <3>2. h \in Sender /\ snd.nxt \in Nat
      BY <1>0, <2>1
    <3> QED BY <2>2, <3>1, <3>2, Zenon DEF Sender
  <2> QED BY <1>0, <2>1, <2>2, <2>3 DEF Sender
<1> HIDE DEF s
<1>3. InRange(s)
  BY <1>0, <1>2 DEF InRange, Outstanding
<1>4. Good(s) /\ Onward(snd, s)
  BY <1>0, <1>2, <1>3 DEF Good, Timer, Counts, Outstanding, Onward
<1>5. Good(t) /\ Onward(snd, t)
  <2>1. CanSend(s) => Good(SendNext(s)) /\ Onward(s, SendNext(s))
    BY <1>4, SendNextKeeps
  <2>2. Onward(s, SendNext(s)) => Onward(snd, SendNext(s))
    BY <1>2 DEF Onward
  <2> QED BY <1>4, <2>1, <2>2
<1>6. Becomes(t) /\ UNCHANGED <<rcv, acks, losses, asserts>>
  BY DEF ReTxTimeout, s
<1> HIDE DEF t
<1>7. t.nxt \in Nat
  BY <1>5 DEF Good, InRange, Sender
<1>8. /\ Good(snd') /\ snd'.out = <<>> /\ Forward(snd', data')
      /\ snd'.una = t.una /\ snd'.sacked = t.sacked /\ snd'.nxt = t.nxt
  BY <1>5, <1>6, BecomesKeeps DEF Onward
<1>9. Back(snd', rcv, acks)
  BY <1>0, <1>5, <1>7, <1>8, BackKeeps DEF IInv, Onward
<1> QED BY <1>6, <1>8, <1>9 DEF IInv

-----------------------------------------------------------------------------
\* ProcessAck, once the scoreboard is up to date.
LEMMA ProcessAckKeeps ==
    ASSUME NEW s, Good(s), NEW old, NEW isDupack \in BOOLEAN,
           isDupack => s.una < s.nxt
    PROVE  LET t == ProcessAck(s, old, isDupack) IN Good(t) /\ Onward(s, t)
<1> DEFINE u == IF isDupack THEN DupAck(s) ELSE s
<1>0. s.una \in Nat /\ s.nxt \in Nat
  BY DEF Good, InRange, Sender
<1>1. Good(u) /\ Onward(s, u)
  <2>1. Onward(s, s)
    BY <1>0 DEF Onward
  <2>2. isDupack => Good(DupAck(s)) /\ Onward(s, DupAck(s))
    BY DupAckKeeps
  <2> QED BY <2>1, <2>2
<1> HIDE DEF u
<1>2. Good(Advance(u, isDupack)) /\ Onward(u, Advance(u, isDupack))
  BY <1>1, AdvanceKeeps
<1>3. Onward(s, Advance(u, isDupack))
  <2>1. u.nxt \in Nat /\ Advance(u, isDupack).nxt \in Nat
    BY <1>1, <1>2 DEF Good, InRange, Sender
  <2> QED BY <1>0, <1>1, <1>2, <2>1 DEF Onward
<1>4. ProcessAck(s, old, isDupack) = IF u.una > old THEN Advance(u, isDupack) ELSE u
  BY DEF ProcessAck, u
<1> QED BY <1>1, <1>2, <1>3, <1>4

\* The assertion on the threshold holds in DupAck.
LEMMA ThresholdHolds ==
    ASSUME NEW s, Good(s)
    PROVE  "threshold" \notin FailedInDupAck(s)
<1>1. s.dupAckCount \in Int /\ s.retxThresh \in Nat
  BY DEF Good, InRange, Sender
<1>2. s.congState \in {"OPEN", "DISORDER"} => s.dupAckCount + 1 <= s.retxThresh
  BY <1>1 DEF Good, Counts
<1> QED BY <1>1, <1>2 DEF FailedInDupAck, DupAckCountAfter

\* The ACK names the first segment missing, between the head and the end.
LEMMA AckInWindow ==
    ASSUME IInv, acks /= <<>>
    PROVE  LET a == Head(acks)
               ack == Min((0..Segments) \ a.got)
           IN  /\ ack \in snd.una..snd.nxt /\ ack \notin a.got
               /\ 0..(ack - 1) \subseteq a.got
               /\ a \in Acks /\ Covers(snd, a.got)
<1> DEFINE a == Head(acks)
           missing == (0..Segments) \ a.got
           ack == Min(missing)
<1>0. snd.una \in Nat /\ snd.nxt \in Nat /\ snd.nxt <= Segments /\ Segments \in Nat
  BY DEF IInv, Good, InRange, Sender
<1>1. /\ acks \in Seq(Acks) /\ 1 \in 1..Len(acks) /\ a = acks[1]
  BY DEF IInv, Back
<1>2. /\ a \in Acks /\ Covers(snd, a.got) /\ a.got \subseteq 0..(snd.nxt - 1)
  BY <1>1 DEF IInv, Back
<1> HIDE DEF a
<1>3. snd.nxt \in missing /\ missing \in SUBSET Nat
  BY <1>0, <1>2
<1>4. ack \in missing /\ \A n \in missing : ack <= n
  BY <1>3, MinExists
<1> HIDE DEF ack
<1>5. ack \in Nat /\ ack <= snd.nxt
  BY <1>0, <1>3, <1>4
<1>6. 0..(ack - 1) \subseteq a.got
  BY <1>0, <1>4, <1>5
<1>7. snd.una <= ack
  BY <1>0, <1>2, <1>4, <1>5 DEF Covers
<1>8. ack \in snd.una..snd.nxt /\ ack \notin a.got
  BY <1>0, <1>4, <1>5, <1>7
<1> QED BY <1>2, <1>6, <1>8, Zenon DEF a, ack

LEMMA ReceivedAckKeeps ==
    ASSUME IInv, ReceivedAck
    PROVE  IInv'
<1>16. PICK renews \in BOOLEAN, sends \in BOOLEAN :
         LET a == Head(acks)
             ack == Min((0..Segments) \ a.got)
             sack == {k \in a.got : k > ack}
             reported == ProcessFecReport(snd, a.report, renews)
             updated == Update(reported, sack)
             isDupack == updated.sacked /= reported.sacked
         IN  \E discarded \in {DiscardUpTo(updated, ack)} :
             \E done \in {ProcessAck(discarded, snd.una, isDupack)} :
                 LET failed == IF isDupack THEN FailedInDupAck(discarded) ELSE {}
                 IN  /\ renews => a.report /= "NONE"
                     /\ asserts' = asserts \cup failed
                     /\ IF Debug /\ failed /= {} THEN UNCHANGED <<snd, data>>
                        ELSE /\ sends => CanSend(done) /\ done.out = <<>>
                             /\ Becomes(IF sends THEN SendNext(done) ELSE done)
  BY Zenon DEF ReceivedAck
<1> DEFINE a == Head(acks)
           ack == Min((0..Segments) \ a.got)
           sack == {k \in a.got : k > ack}
           reported == ProcessFecReport(snd, a.report, renews)
           updated == Update(reported, sack)
           isDupack == updated.sacked /= reported.sacked
           discarded == DiscardUpTo(updated, ack)
           failed == IF isDupack THEN FailedInDupAck(discarded) ELSE {}
           done == ProcessAck(discarded, snd.una, isDupack)
<1>0. acks /= <<>> /\ acks' = Tail(acks) /\ UNCHANGED <<rcv, losses>>
      /\ asserts' = asserts \cup failed
  BY <1>16 DEF ReceivedAck
<1>17. IF Debug /\ failed /= {} THEN UNCHANGED <<snd, data>>
       ELSE /\ sends => CanSend(done)
            /\ Becomes(IF sends THEN SendNext(done) ELSE done)
  BY <1>16, Zenon
<1>1. /\ ack \in snd.una..snd.nxt /\ ack \notin a.got /\ 0..(ack - 1) \subseteq a.got
      /\ a \in Acks /\ Covers(snd, a.got)
  BY <1>0, AckInWindow
<1>2. snd.una \in Nat /\ snd.nxt \in Nat /\ Good(snd) /\ a.got \in SUBSET Nat
  BY <1>1 DEF IInv, Good, InRange, Sender, Acks
<1>3. Good(reported) /\ Alike(snd, reported)
  BY <1>2, <1>16, ReportKeeps
<1>4. sack \in SUBSET Nat /\ reported.una \notin sack /\ sack \subseteq a.got
  <2> HIDE DEF reported, ack, a
  <2> QED BY <1>1, <1>2, <1>3 DEF Alike
<1> HIDE DEF reported, sack
<1>5. /\ Good(updated) /\ updated.una = snd.una /\ updated.nxt = snd.nxt
      /\ updated.sacked \subseteq snd.sacked \cup sack
      /\ isDupack => \E k \in sack : k \in Outstanding(snd)
  <2>1. /\ Good(updated) /\ updated.una = reported.una /\ updated.nxt = reported.nxt
        /\ updated.sacked \subseteq reported.sacked \cup sack
        /\ isDupack => \E k \in sack : k \in Outstanding(reported)
    BY <1>3, <1>4, ScoreboardKeeps
  <2> HIDE DEF updated
  <2> QED BY <1>3, <2>1 DEF Alike, Outstanding
<1>6. updated.sacked \subseteq a.got
  <2> HIDE DEF updated, a
  <2> QED BY <1>1, <1>4, <1>5 DEF Covers
<1> HIDE DEF updated
<1>7. /\ Good(discarded) /\ discarded.una = ack /\ discarded.nxt = snd.nxt
      /\ discarded.sacked \subseteq a.got
  <2> HIDE DEF ack, a
  <2>1. ack \in updated.una..updated.nxt /\ ack \notin updated.sacked
    BY <1>1, <1>5, <1>6
  <2> QED BY <1>5, <1>6, <2>1, DiscardKeeps
<1>8. isDupack => discarded.una < discarded.nxt
  <2> HIDE DEF discarded, ack, a, isDupack
  <2>1. \A k \in sack : k > ack
    BY DEF sack
  <2>2. ack \in Nat
    BY <1>1, <1>2
  <2>3. \A k \in Outstanding(snd) : k \in Int /\ k < snd.nxt
    BY <1>2 DEF Outstanding
  <2> QED BY <1>2, <1>5, <1>7, <2>1, <2>2, <2>3
<1>9. "threshold" \notin failed
  BY <1>7, ThresholdHolds
<1> HIDE DEF discarded, failed
<1>10. Good(done) /\ Onward(discarded, done)
  <2>1. isDupack \in BOOLEAN
    OBVIOUS
  <2> HIDE DEF isDupack
  <2> QED BY <1>7, <1>8, <2>1, ProcessAckKeeps
<1> HIDE DEF done, isDupack
\* The ACKs still on the path know at least as much as this one.
<1>12. /\ Tail(acks) \in Seq(Acks)
       /\ \A i \in 1..Len(Tail(acks)) :
              /\ Tail(acks)[i].got \subseteq rcv.got /\ a.got \subseteq Tail(acks)[i].got
              /\ Covers(snd, Tail(acks)[i].got)
       /\ \A i, j \in 1..Len(Tail(acks)) :
              i <= j => Tail(acks)[i].got \subseteq Tail(acks)[j].got
       /\ a.got \subseteq rcv.got
  <2>1. /\ acks \in Seq(Acks) /\ a = acks[1] /\ 1 \in 1..Len(acks)
        /\ Tail(acks) \in Seq(Acks) /\ Len(Tail(acks)) = Len(acks) - 1
        /\ \A i \in 1..Len(Tail(acks)) : Tail(acks)[i] = acks[i + 1]
    BY <1>0 DEF IInv, Back
  <2>2. \A i \in 1..Len(Tail(acks)) : i + 1 \in 1..Len(acks) /\ 1 <= i + 1
    BY <2>1
  <2> HIDE DEF a
  <2>3. /\ \A i \in 1..Len(acks) : acks[i].got \subseteq rcv.got /\ Covers(snd, acks[i].got)
        /\ \A i, j \in 1..Len(acks) : i <= j => acks[i].got \subseteq acks[j].got
    BY DEF IInv, Back
  <2>4. \A i \in 1..Len(Tail(acks)) :
            /\ Tail(acks)[i].got \subseteq rcv.got /\ a.got \subseteq Tail(acks)[i].got
            /\ Covers(snd, Tail(acks)[i].got)
    BY <2>1, <2>2, <2>3
  <2>5. ASSUME NEW i \in 1..Len(Tail(acks)), NEW j \in 1..Len(Tail(acks)), i <= j
        PROVE  Tail(acks)[i].got \subseteq Tail(acks)[j].got
    <3>1. i + 1 <= j + 1
      BY <2>5
    <3> QED BY <2>1, <2>2, <2>3, <3>1
  <2> QED BY <2>1, <2>3, <2>4, <2>5
<1>13. Back(snd, rcv, Tail(acks))
  BY <1>12 DEF IInv, Back
<1>14. CASE Debug /\ failed /= {}
  <2>1. UNCHANGED <<snd, data>>
    BY <1>14, <1>17
  <2> QED BY <1>0, <1>9, <1>13, <2>1 DEF IInv
<1>15. CASE ~(Debug /\ failed /= {})
  <2> DEFINE t == IF sends THEN SendNext(done) ELSE done
  <2>3. sends => CanSend(done)
    BY <1>15, <1>17
  <2>4. Becomes(t)
    BY <1>15, <1>17
  <2>5. discarded.nxt \in Nat /\ done.nxt \in Nat
    BY <1>7, <1>10 DEF Good, InRange, Sender
  <2>6. Good(t) /\ Onward(discarded, t)
    <3>1. sends => Good(SendNext(done)) /\ Onward(done, SendNext(done))
      BY <1>10, <2>3, SendNextKeeps
    <3>2. Good(SendNext(done)) => SendNext(done).nxt \in Nat
      BY DEF Good, InRange, Sender
    <3>3. sends => Onward(discarded, SendNext(done))
      BY <1>10, <2>5, <3>1, <3>2 DEF Onward
    <3> QED BY <1>10, <3>1, <3>3
  <2> HIDE DEF t
  <2>7. t.nxt >= snd.nxt /\ t.nxt \in Nat
    BY <1>2, <1>7, <2>5, <2>6 DEF Onward, Good, InRange, Sender
  <2>8. /\ Good(snd') /\ snd'.out = <<>> /\ Forward(snd', data')
        /\ snd'.una = t.una /\ snd'.sacked = t.sacked /\ snd'.nxt = t.nxt
    BY <2>4, <2>6, <2>7, BecomesKeeps
  <2>9. \A g : a.got \subseteq g => Covers(snd', g)
    <3>1. t.una = ack /\ t.sacked \subseteq a.got
      BY <1>7, <2>6 DEF Onward
    <3> HIDE DEF a, ack
    <3> QED BY <1>1, <2>8, <3>1 DEF Covers
  <2>10. Back(snd', rcv, Tail(acks))
    <3> HIDE DEF a
    <3>1. rcv.got \subseteq 0..(snd'.nxt - 1)
      BY <1>2, <1>13, <2>7, <2>8 DEF Back
    <3> QED BY <1>12, <1>13, <2>9, <3>1 DEF Back
  <2> QED BY <1>0, <1>9, <2>8, <2>10 DEF IInv
<1> QED BY <1>14, <1>15

-----------------------------------------------------------------------------
\* The receiver is r once it knows more, and has sent or delayed an ACK.
LEMMA AcknowledgesKeeps ==
    ASSUME IInv, NEW r \in Receiver, NEW mayDelay, rcv.got \subseteq r.got,
           r.got \subseteq 0..(snd.nxt - 1), Acknowledges(r, mayDelay)
    PROVE  Back(snd, rcv', acks')
<1>0. /\ Back(snd, rcv, acks) /\ acks \in Seq(Acks)
      /\ r.got \in SUBSET Nat /\ r.report \in Report /\ r.delayed \in BOOLEAN
  BY DEF IInv, Back, Receiver
<1>1. rcv' \in Receiver /\ rcv'.got = r.got
  <2>1. CASE rcv' = [r EXCEPT !.delayed = FALSE, !.report = "NONE"]
    BY <2>1 DEF Receiver, Report
  <2>2. CASE rcv' = [r EXCEPT !.delayed = TRUE]
    BY <2>2 DEF Receiver
  <2> QED BY <2>1, <2>2 DEF Acknowledges
<1>2. Covers(snd, rcv'.got)
  BY <1>0, <1>1 DEF Back, Covers
<1>3. CASE acks' = acks
  BY <1>0, <1>1, <1>2, <1>3 DEF Back
<1>4. CASE acks' = Append(acks, [got |-> r.got, report |-> r.report])
  <2> DEFINE a == [got |-> r.got, report |-> r.report]
  <2>1. a \in Acks /\ a.got = r.got
    BY <1>0 DEF Acks
  <2> HIDE DEF a
  <2>2. /\ acks' \in Seq(Acks)
        /\ \A i \in 1..Len(acks') : \/ i \in 1..Len(acks) /\ acks'[i] = acks[i]
                                    \/ i = Len(acks) + 1 /\ acks'[i] = a
    BY <1>0, <1>4, <2>1 DEF a
  <2>3. \A i \in 1..Len(acks') : acks'[i].got \subseteq r.got /\ Covers(snd, acks'[i].got)
    BY <1>0, <1>1, <1>2, <2>1, <2>2 DEF Back
  <2>4. \A i, j \in 1..Len(acks') : i <= j => acks'[i].got \subseteq acks'[j].got
    <3> SUFFICES ASSUME NEW i \in 1..Len(acks'), NEW j \in 1..Len(acks'), i <= j
                 PROVE  acks'[i].got \subseteq acks'[j].got
      OBVIOUS
    <3>1. CASE j = Len(acks) + 1 /\ acks'[j] = a
      BY <2>1, <2>3, <3>1
    <3>2. CASE j \in 1..Len(acks) /\ acks'[j] = acks[j]
      <4>1. i \in 1..Len(acks) /\ acks'[i] = acks[i]
        BY <1>0, <2>2, <3>2
      <4> QED BY <1>0, <3>2, <4>1 DEF Back
    <3> QED BY <2>2, <3>1, <3>2
  <2> QED BY <1>1, <1>2, <2>2, <2>3, <2>4 DEF Back
<1> QED BY <1>3, <1>4 DEF Acknowledges

\* Taking a packet off a path leaves the others.
LEMMA ForwardTail ==
    ASSUME NEW s, NEW d, Forward(s, d), d /= <<>>
    PROVE  Forward(s, Tail(d)) /\ Head(d) \in Packets /\ Carried(Head(d), s.nxt)
<1>1. d \in Seq(Packets) /\ 1 \in 1..Len(d) /\ Head(d) = d[1]
  BY DEF Forward
<1>2. /\ Tail(d) \in Seq(Packets) /\ Len(Tail(d)) = Len(d) - 1
      /\ \A i \in 1..Len(Tail(d)) : Tail(d)[i] = d[i + 1] /\ i + 1 \in 1..Len(d)
  BY <1>1
<1> QED BY <1>1, <1>2 DEF Forward

LEMMA BackTail ==
    ASSUME NEW s, NEW r, NEW a, Back(s, r, a), a /= <<>>
    PROVE  Back(s, r, Tail(a))
<1>1. a \in Seq(Acks) /\ 1 \in 1..Len(a)
  BY DEF Back
<1>2. /\ Tail(a) \in Seq(Acks) /\ Len(Tail(a)) = Len(a) - 1
      /\ \A i \in 1..Len(Tail(a)) : Tail(a)[i] = a[i + 1] /\ i + 1 \in 1..Len(a)
  BY <1>1
<1>3. \A i, j \in 1..Len(Tail(a)) : i <= j => i + 1 <= j + 1
  BY <1>1, <1>2
<1> QED BY <1>2, <1>3 DEF Back

LEMMA ReceivedDataKeeps ==
    ASSUME IInv, ReceivedData
    PROVE  IInv'
<1> DEFINE p == Head(data)
           k == p[2]
           block == k..(k + FecRatio - 1)
           repaired == rcv.got \cup block
<1>0. /\ data /= <<>> /\ data' = Tail(data) /\ UNCHANGED <<snd, losses, asserts>>
  BY DEF ReceivedData
<1>1. Forward(snd, data') /\ p \in Packets /\ Carried(p, snd.nxt)
  BY <1>0, ForwardTail DEF IInv
<1>2. /\ rcv \in Receiver /\ rcv.got \in SUBSET Nat /\ k \in Nat
      /\ rcv.got \subseteq 0..(snd.nxt - 1) /\ snd.nxt \in Nat /\ FecRatio \in Nat \ {0}
      /\ p[1] \in {"DATA", "REPAIR"} /\ p = <<p[1], k>>
  <2>1. rcv \in Receiver /\ rcv.got \subseteq 0..(snd.nxt - 1) /\ snd \in Sender
    BY DEF IInv, Back, Good, InRange
  <2>2. k \in Nat /\ p[1] \in {"DATA", "REPAIR"} /\ p = <<p[1], k>>
    <3> HIDE DEF p
    <3> QED BY <1>1 DEF Packets
  <2> QED BY <2>1, <2>2, FecRecoveryAssumption DEF Receiver, Sender
<1>3. Back(snd, rcv', acks')
  <2>1. CASE p[1] = "DATA"
    <3> DEFINE g == rcv.got \cup {k}
               r == [rcv EXCEPT !.got = g]
    <3>1. Acknowledges(r, k \notin rcv.got /\ InOrder(g) /\ InOrder(rcv.got))
      BY <1>2, <2>1 DEF ReceivedData, Receiver
    <3>2. g \in SUBSET Nat /\ g \subseteq 0..(snd.nxt - 1)
      BY <1>1, <1>2, <2>1 DEF Carried
    <3> HIDE DEF p, k, g
    <3>3. r \in Receiver /\ r.got = g
      BY <1>2, <3>2 DEF Receiver
    <3> HIDE DEF r
    <3> QED BY <3>1, <3>2, <3>3, AcknowledgesKeeps DEF g
  <2>2. CASE p[1] = "REPAIR" /\ Cardinality(block \ rcv.got) <= 1
    <3> DEFINE r == [rcv EXCEPT !.got = repaired, !.report = "R_SUCCESS"]
    <3>1. Acknowledges(r, repaired /= rcv.got /\ InOrder(rcv.got) /\ InOrder(repaired))
      BY <1>2, <2>2 DEF ReceivedData
    <3>2. repaired \in SUBSET Nat /\ repaired \subseteq 0..(snd.nxt - 1)
      <4>1. k + FecRatio <= snd.nxt
        BY <1>1, <2>2 DEF Carried
      <4> HIDE DEF p, k
      <4> QED BY <1>2, <4>1
    <3>3. rcv.got \subseteq repaired
      OBVIOUS
    <3> HIDE DEF p, k, repaired
    <3>4. r \in Receiver /\ r.got = repaired
      BY <1>2, <3>2 DEF Receiver, Report
    <3> HIDE DEF r
    <3> QED BY <3>1, <3>2, <3>3, <3>4, AcknowledgesKeeps
  <2>3. CASE p[1] = "REPAIR" /\ ~(Cardinality(block \ rcv.got) <= 1)
    <3>1. rcv' = [rcv EXCEPT !.report = "R_FAIL"] /\ UNCHANGED acks
      BY <1>2, <2>3 DEF ReceivedData
    <3>2. rcv' \in Receiver /\ rcv'.got = rcv.got
      BY <1>2, <3>1 DEF Receiver, Report
    <3> QED BY <3>1, <3>2 DEF IInv, Back
  <2> QED BY <1>2, <2>1, <2>2, <2>3
<1> QED BY <1>0, <1>1, <1>3 DEF IInv

LEMMA DelAckTimeoutKeeps ==
    ASSUME IInv, DelAckTimeout
    PROVE  IInv'
<1>1. rcv \in Receiver /\ rcv.got \subseteq 0..(snd.nxt - 1)
  BY DEF IInv, Back
<1>2. Back(snd, rcv', acks')
  BY <1>1, AcknowledgesKeeps DEF DelAckTimeout
<1> QED BY <1>2 DEF IInv, DelAckTimeout

LEMMA LoseKeeps ==
    ASSUME IInv, Lose
    PROVE  IInv'
<1>1. UNCHANGED <<snd, rcv, asserts>> /\ losses' \in 0..MaxLosses
  BY DEF IInv, Lose
<1>2. Forward(snd, data') /\ Back(snd, rcv, acks')
  <2>1. CASE data /= <<>> /\ data' = Tail(data) /\ UNCHANGED acks
    BY <2>1, ForwardTail DEF IInv
  <2>2. CASE acks /= <<>> /\ acks' = Tail(acks) /\ UNCHANGED data
    BY <2>2, BackTail DEF IInv
  <2> QED BY <2>1, <2>2 DEF Lose
<1> QED BY <1>1, <1>2 DEF IInv

LEMMA InitIInv == Init => IInv
<1> SUFFICES ASSUME Init PROVE IInv
  OBVIOUS
<1>1. /\ snd.una = 0 /\ snd.nxt = 0 /\ snd.sacked = {} /\ snd.lost = {}
      /\ snd.retrans = {} /\ snd.congState = "OPEN" /\ snd.dupAckCount = 0
      /\ snd.retxThresh = ReTxThreshold /\ snd.newRatio = FALSE /\ snd.recover = 0
      /\ snd.recoverActive = FALSE /\ snd.fecCounter = 0 /\ snd.retxEvent = FALSE
      /\ snd.out = <<>>
  BY DEF Init
<1>2. snd \in Sender
  BY DEF Init, Sender, CongStates
<1>3. Good(snd)
  BY <1>1, <1>2 DEF Good, InRange, Timer, Counts, Outstanding
<1>4. Forward(snd, data)
  BY DEF Init, Forward
<1>5. Back(snd, rcv, acks)
  <2>1. rcv \in Receiver /\ rcv.got = {} /\ acks = <<>>
    BY DEF Init, Receiver, Report
  <2> QED BY <1>1, <2>1 DEF Back, Covers
<1> QED BY <1>1, <1>3, <1>4, <1>5 DEF IInv, Init

LEMMA NextIInv == IInv /\ [Next]_vars => IInv'
<1> SUFFICES ASSUME IInv, [Next]_vars PROVE IInv'
  OBVIOUS
<1>1. CASE Next
  BY <1>1, SendPendingDataKeeps, ReTxTimeoutKeeps, ReceivedAckKeeps, ReceivedDataKeeps,
     DelAckTimeoutKeeps, LoseKeeps DEF Next
<1>2. CASE UNCHANGED vars
  BY <1>2 DEF vars, IInv, Forward, Back
<1> QED BY <1>1, <1>2

\* Every reachable state satisfies the invariant.
THEOREM Inductive == Spec => []IInv
<1> QED BY InitIInv, NextIInv, PTL DEF Spec

-----------------------------------------------------------------------------
LEMMA Typed == ASSUME IInv PROVE TypeOK
<1>0. /\ snd.una \in Nat /\ snd.nxt \in Nat /\ Segments \in Nat /\ snd.recover \in Nat
      /\ snd.fecCounter \in Nat /\ FecRatio \in Nat /\ ReTxThreshold \in Nat
      /\ snd.retxThresh \in Nat /\ snd.dupAckCount \in Int
      /\ snd.congState \in CongStates /\ snd.newRatio \in BOOLEAN
      /\ snd.recoverActive \in BOOLEAN /\ snd.retxEvent \in BOOLEAN
  BY DEF IInv, Good, InRange, Sender
<1>1. /\ snd.una \in 0..snd.nxt /\ snd.nxt \in 0..Segments /\ snd.recover \in 0..snd.nxt
      /\ snd.fecCounter \in 0..FecRatio
  BY <1>0 DEF IInv, Good, InRange
<1>2. /\ \A flag \in {snd.sacked, snd.lost, snd.retrans} : flag \subseteq Outstanding(snd)
      /\ snd.sacked \cap snd.lost = {}
  BY DEF IInv, Good, InRange
<1>3. /\ snd.retxThresh \in {ReTxThreshold, FecRatio}
      /\ snd.dupAckCount \in 0..(ReTxThreshold + FecRatio + Segments)
  BY <1>0 DEF IInv, Good, Counts
<1>4. rcv.got \subseteq 0..(snd.nxt - 1) /\ rcv.delayed \in BOOLEAN /\ rcv.report \in Report
  BY DEF IInv, Back, Receiver
<1>5. losses \in 0..MaxLosses
  BY DEF IInv
<1> QED BY <1>0, <1>1, <1>2, <1>3, <1>4, <1>5, Zenon DEF TypeOK, Outstanding, CongStates

\* The type invariant: sequence numbers, scoreboard, and counters stay in their ranges,
\* and what the receiver has was sent.
THEOREM TypeCorrect == Spec => []TypeOK
<1>1. IInv => TypeOK
  BY Typed
<1> QED BY <1>1, Inductive, PTL

\* The assertion of DupAck on the number of duplicate ACKs never fails, for any ratio and
\* any initial threshold, above the ratio or below it: also not after an ACK whose report
\* both sets the count and renews the ratio, and whose own retransmission, replaced by a
\* repair packet, puts the ratio in the place of the threshold.
THEOREM CountStaysWithinThreshold == Spec => []CountWithinThreshold
<1>1. IInv => CountWithinThreshold
  BY DEF IInv, CountWithinThreshold
<1> QED BY <1>1, Inductive, PTL

\* While something is unacknowledged, either the timer is running or nothing is in
\* flight and the sender may send: no packet replaced by a repair packet, no report and
\* no late ACK leaves the connection without either.
THEOREM SenderNeverStalls == Spec => []NeverStalls
<1>1. ASSUME IInv PROVE NeverStalls
  <2> SUFFICES ASSUME snd.una < snd.nxt, ~snd.retxEvent
               PROVE  InFlight(snd) = 0 /\ CanSend(snd)
    BY DEF NeverStalls
  <2> DEFINE O == snd.una..(snd.nxt - 1)
  <2>0. /\ snd.una \in Nat /\ snd.nxt \in Nat /\ snd.lost \in SUBSET Nat
        /\ snd.sacked \subseteq O /\ snd.una \notin snd.sacked
    BY <1>1 DEF IInv, Good, InRange, Sender, Outstanding
  <2>1. snd.retrans = {} /\ snd.lost = O \ snd.sacked
    BY <1>1 DEF IInv, Good, Timer, Outstanding
  <2>2. IsFiniteSet(O) /\ Cardinality(O) = snd.nxt - snd.una
    <3>1. /\ snd.una \in Int /\ snd.nxt - 1 \in Int /\ ~(snd.una > snd.nxt - 1)
          /\ snd.nxt - 1 - snd.una + 1 = snd.nxt - snd.una
      BY <2>0
    <3>2. /\ IsFiniteSet(O)
          /\ Cardinality(O) = IF snd.una > snd.nxt - 1 THEN 0 ELSE snd.nxt - 1 - snd.una + 1
      BY <3>1, FS_Interval
    <3> QED BY <3>1, <3>2
  <2>3. InFlight(snd) = 0
    <3>1. IsFiniteSet(snd.sacked) /\ O \cap snd.sacked = snd.sacked
      BY <2>0, <2>2, FS_Subset
    <3> HIDE DEF O
    <3>2. /\ Cardinality(O \ snd.sacked) = Cardinality(O) - Cardinality(snd.sacked)
          /\ Cardinality(snd.sacked) \in Nat
      BY <2>2, <3>1, FS_Difference, FS_CardinalityType
    <3>3. Cardinality(snd.retrans) = 0
      BY <2>1, FS_EmptySet
    <3> QED BY <2>0, <2>1, <2>2, <3>2, <3>3 DEF InFlight
  <2>4. CanSend(snd)
    <3>1. snd.una \in snd.lost /\ snd.lost \ snd.retrans = snd.lost
      BY <2>0, <2>1
    <3>2. Min(snd.lost) \in Nat
      BY <2>0, <3>1, MinExists
    <3>3. NextSeg(snd, snd.congState = "RECOVERY") = Min(snd.lost)
      BY <3>1 DEF NextSeg
    <3> QED BY <2>3, <3>2, <3>3 DEF CanSend, NoSegment
  <2> QED BY <2>3, <2>4
<1> QED BY <1>1, Inductive, PTL
=============================================================================
