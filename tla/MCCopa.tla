------------------------------- MODULE MCCopa -------------------------------
(***************************************************************************)
(* Copa and Copa2 for TLC: each behaviour is of a socket with one of them, *)
(* the state of the other stays initial.                                   *)
(***************************************************************************)
EXTENDS Copa

VARIABLES
    control,            \* the congestion control of the socket
    lostOut, cycleAge, probeAge, probeRtt, lossyMode, bytesAckedInCycle,
    ackedRound, lostRound, since

Second == INSTANCE Copa2 WITH
    Alpha <- 1, InvTolerance <- 2, MinRtt <- 1, LossyDelay <- 0, ProbeInterval <- 2,
    MaxDelivered <- 2, MaxLost <- 1, MaxRound <- 5

ASSUME SecondAssumption == Second!Copa2Assumption

copaVars == <<isSlowStart, doubleAge, ackBytesRound, velocityState, clear, overflowed, same>>
copa2Vars == <<lostOut, cycleAge, probeAge, probeRtt, lossyMode, bytesAckedInCycle,
               ackedRound, lostRound, since>>

EitherInit == control \in {"Copa", "Copa2"} /\ Init /\ Second!Init

EitherNext ==
    /\ UNCHANGED control
    /\ \/ control = "Copa" /\ Next /\ UNCHANGED copa2Vars
       \/ control = "Copa2" /\ Second!Next /\ UNCHANGED copaVars

secondVars == <<socket, losses, copa2Vars>>

\* The fairness of Copa!FairSpec and of Copa2!FairSpec.
EitherSpec ==
    /\ EitherInit /\ [][EitherNext]_<<control, vars, copa2Vars>>
    /\ WF_vars(control = "Copa" /\ Tick) /\ WF_vars(control = "Copa" /\ Progress)
    /\ WF_secondVars(control = "Copa2" /\ Second!Tick)
    /\ WF_secondVars(control = "Copa2" /\ Second!Ack)

-----------------------------------------------------------------------------
\* The variables of the congestion control of the socket have their types.
BothTypeOK == IF control = "Copa" THEN TypeOK ELSE Second!TypeOK

\* The window Copa2 sets at the end of a cycle covers what was delivered in it.
WindowCoversDelivery == Second!WindowCoversDelivery

\* A flow that Copa leaves alone on its path leaves the minimum window, unless its
\* velocity has wrapped to zero.
AloneGrows == control = "Copa" => GrowsUnlessWrapped

\* The probes of Copa2 keep beginning and ending.
ProbesRecur == control = "Copa2" => Second!ProbesRecur
=============================================================================
