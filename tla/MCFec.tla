------------------------------- MODULE MCFec -------------------------------
(***************************************************************************)
(* The FEC extension for TLC: in each behaviour one of its three models    *)
(* moves, the others stay in their initial states.  Loss recovery moves    *)
(* with a shorter transfer, and another threshold, where liveness is       *)
(* checked.                                                                *)
(***************************************************************************)
EXTENDS FecRecovery, FecBlock, FecReceiver

VARIABLE part           \* the model that moves

\* An instance of the module with the proofs, whose lemmas then speak of it too. Its
\* threshold begins below the ratio, so that a report raises it; in the other transfer
\* it begins above, and falls.
Short == INSTANCE FecRecoveryProofs WITH
    Segments <- 4, FecRatio <- 2, ReTxThreshold <- 1, Window <- 3, Debug <- FALSE,
    MaxLosses <- 2, MaxChannel <- 3

Whole == {SegmentSize}

PartsInit ==
    /\ part \in {"block", "receiver", "recovery", "short"}
    /\ IF part = "short" THEN Short!Init ELSE Init
    /\ BlockInit
    /\ ReceiverInit /\ (part /= "receiver" => ~reordering)

PartsNext ==
    /\ UNCHANGED part
    /\ \/ part = "block" /\ BlockNext /\ UNCHANGED <<vars, receiverVars>>
       \/ part = "receiver" /\ ReceiverNext /\ UNCHANGED <<vars, blockVars>>
       \/ part = "recovery" /\ Next /\ UNCHANGED <<blockVars, receiverVars>>
       \/ part = "short" /\ Short!Next /\ UNCHANGED <<blockVars, receiverVars>>

partsVars == <<part, vars, blockVars, receiverVars>>

\* The fairness of FecRecovery!FairSpec, for the short transfer.
PartsSpec ==
    /\ PartsInit /\ [][PartsNext]_partsVars
    /\ WF_vars(part = "short" /\ Short!SendWhenIdle)
    /\ WF_vars(part = "short" /\ Short!ReTxTimeout)
    /\ WF_vars(part = "short" /\ Short!ReceivedAck)
    /\ WF_vars(part = "short" /\ Short!ReceivedData)
    /\ WF_vars(part = "short" /\ Short!DelAckTimeout)

-----------------------------------------------------------------------------
\* The variables of the models have their types; those of loss recovery, that of the
\* transfer that moves.
PartsTypeOK ==
    /\ IF part = "short" THEN Short!TypeOK ELSE TypeOK
    /\ BlockTypeOK /\ ReceiverTypeOK

\* A transfer completes, in spite of losses and of repair packets sent in the place of
\* segments.
RecoveryCompletes == part = "short" => Short!Completes
=============================================================================
