-------------------------- MODULE ReliableStream --------------------------
(***************************************************************************)
(* What an SC-UDP transfer promises, without packets: N source packets are *)
(* produced in order, delivered in order, released by the sender once      *)
(* delivered, and the sender closes when all of them are delivered.        *)
(***************************************************************************)
EXTENDS Integers

CONSTANT N

VARIABLES
    sent,           \* source packets handed to the path at least once
    delivered,      \* source packets delivered in order
    released,       \* source packets the sender has forgotten
    closed          \* the sender has closed

Init == sent = 0 /\ delivered = 0 /\ released = 0 /\ closed = FALSE

Send == /\ sent < N
        /\ sent' = sent + 1
        /\ UNCHANGED <<delivered, released, closed>>

Deliver == /\ delivered' \in (delivered + 1) .. sent
           /\ UNCHANGED <<sent, released, closed>>

Release == /\ ~closed
           /\ released' \in (released + 1) .. delivered
           /\ UNCHANGED <<sent, delivered, closed>>

Close == /\ ~closed
         /\ delivered = N
         /\ closed' = TRUE
         /\ UNCHANGED <<sent, delivered, released>>

Next == Send \/ Deliver \/ Release \/ Close

Spec == Init /\ [][Next]_<<sent, delivered, released, closed>>
=============================================================================
