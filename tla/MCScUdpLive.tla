---------------------------- MODULE MCScUdpLive ----------------------------
(***************************************************************************)
(* The liveness of ScUdp for TLC, of servers with and without pacing.      *)
(***************************************************************************)
EXTENDS MCScUdp

VARIABLE pacing     \* the pacing of the server, otherwise the constant Pacing

Paced == INSTANCE ScUdp WITH Pacing <- TRUE

PacingInit == pacing \in BOOLEAN /\ Init

PacingNext == UNCHANGED pacing /\ IF pacing THEN Paced!Next ELSE Next

\* The events of ScUdp!Fairness.
Event(paced, plain) == IF pacing THEN paced ELSE plain

PacingFairness ==
    /\ WF_vars(Event(Paced!SendParameter, SendParameter) /\ UNCHANGED clientVars)
    /\ WF_vars(Event(Paced!ParamAckRecv, ParamAckRecv) /\ UNCHANGED clientVars)
    /\ WF_vars(Event(Paced!SendDataPackets, SendDataPackets) /\ UNCHANGED clientVars)
    /\ WF_vars(Event(Paced!NotifyPacingPerformed, NotifyPacingPerformed)
                  /\ UNCHANGED clientVars)
    /\ WF_vars(Event(Paced!SendLoopExit \/ Paced!SendSource \/ Paced!SendRepair,
                     SendLoopExit \/ SendSource \/ SendRepair) /\ UNCHANGED clientVars)
    /\ WF_vars(Event(Paced!AckRecv, AckRecv) /\ UNCHANGED clientVars)
    /\ WF_vars(Event(Paced!CompleteSend, CompleteSend) /\ UNCHANGED clientVars)
    /\ WF_vars(ParameterRecv /\ UNCHANGED serverVars)
    /\ WF_vars(DataRecv /\ UNCHANGED serverVars)

PacingSpec == PacingInit /\ [][PacingNext]_<<pacing, vars>> /\ PacingFairness
=============================================================================
