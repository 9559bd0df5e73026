------------------------------ MODULE MCScUdp ------------------------------
(* Small instances of ScUdp for TLC: the sets its constants take.          *)
EXTENDS ScUdp

\* Windows the server may compute.
SmallWindows == {2, 3}
OnlyTwo      == {2}
OnlyThree    == {3}

\* Repair targets, in percent: none, only the margin of m_extraRepair, and that
\* or a high measured loss rate.
NoRepair     == {0}
LowOnly      == {5}
LowAndHigh   == {5, 50}
=============================================================================
