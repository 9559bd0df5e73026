---------------------------- MODULE StreamCodec ----------------------------
(***************************************************************************)
(* The streaming code of libstreamc, as SC-UDP uses it.  The library is    *)
(* not in this repository: only its header, streamcodec.h, is.  The        *)
(* definitions below say what the calls made by StreamServerApp and        *)
(* StreamClientApp do to the fields those applications read.               *)
(*                                                                         *)
(* Coding coefficients are taken to be in general position (a set of       *)
(* received packets determines the window unless it is too small for some  *)
(* suffix of it), which is what a random code over GF(2^8) gives up to a   *)
(* small probability.                                                      *)
(***************************************************************************)
EXTENDS Integers, FiniteSets

CONSTANT N          \* m_numPackets: source packets of the transfer, ids 0..N-1

ASSUME NAssumption == N \in Nat \ {0}

SourceIds == 0 .. N - 1

----------------------------------------------------------------------------
(* The encoder: headsid is the oldest source packet still buffered,        *)
(* nextsid the next one to send, rcount the number of repairs sent.        *)

InitEncoder == [headsid |-> 0, nextsid |-> 0, rcount |-> 0]

\* The encoding window is [headsid, nextsid - 1].
WindowEmpty(e) == e.headsid >= e.nextsid

PacketType == {"source", "repair"}

\* A packet is identified by its type and id and carries its coding window;
\* seq is its place in the order of sending (not on the wire).
Packet == [type : PacketType, id : Nat, ws : Nat, we : Nat, seq : Nat]

SourcePacket(e) == [type |-> "source", id |-> e.nextsid, ws |-> e.nextsid,
                    we |-> e.nextsid, seq |-> e.nextsid + e.rcount]

RepairPacket(e) == [type |-> "repair", id |-> e.rcount, ws |-> e.headsid,
                    we |-> e.nextsid - 1, seq |-> e.nextsid + e.rcount]

\* flush_acked_packets drops every buffered packet up to ack_sid.
FlushAcked(e, ackSid) ==
    [e EXCEPT !.headsid = IF ackSid >= @ THEN ackSid + 1 ELSE @]

----------------------------------------------------------------------------
(* The decoder: inorder is the last source packet delivered in order;      *)
(* beyond it, up to win_e, got are the source packets received and reps    *)
(* the repair packets that cover some of the missing ones.                 *)

InitDecoder == [inorder |-> -1, win_e |-> -1, got |-> {}, reps |-> {}]

Decoder == [inorder : Int, win_e : Int, got : SUBSET Nat,
            reps : SUBSET [id : Nat, we : Nat]]

\* The decoder's state once p is in its buffer.
Buffered(d, p) ==
    [inorder |-> d.inorder,
     win_e   |-> IF p.we > d.win_e THEN p.we ELSE d.win_e,
     got     |-> IF p.type = "source" THEN d.got \union {p.id} ELSE d.got,
     reps    |-> IF p.type = "repair" THEN d.reps \union {[id |-> p.id, we |-> p.we]}
                                      ELSE d.reps]

\* The window has full rank: every repair packet covers the window from its
\* start, so it suffices that each suffix of the window has at least as many
\* repair packets reaching into it as it misses source packets.
Decodable(d) ==
    \A e \in d.inorder .. d.win_e - 1 :
        Cardinality(((e + 1) .. d.win_e) \ d.got)
            <= Cardinality({r \in d.reps : r.we > e})

\* receive_packet: a packet wholly in the delivered prefix is ignored; one
\* that completes the window delivers all of it and deactivates the decoder.
ReceivePacket(d, p) ==
    IF p.we <= d.inorder THEN d
    ELSE LET b == Buffered(d, p)
         IN  IF Decodable(b)
             THEN [inorder |-> b.win_e, win_e |-> b.win_e, got |-> {}, reps |-> {}]
             ELSE b
=============================================================================
