------------------------------- MODULE MCBbr -------------------------------
(***************************************************************************)
(* BBR for TLC.  In each behaviour one model moves, the others stay in     *)
(* their initial states: the modes, the long-term sampling, or the ack     *)
(* aggregation.                                                            *)
(***************************************************************************)
EXTENDS BbrModes, BbrLongTerm, BbrAckAggregation

VARIABLE part       \* the model that moves

PartsInit ==
    /\ part \in {"modes", "longTerm", "aggregation"}
    /\ Init /\ LongTermInit /\ AggregationInit
    /\ part /= "modes" => path = "nested"

PartsNext ==
    /\ UNCHANGED part
    /\ \/ part = "modes" /\ Next /\ UNCHANGED <<longTermVars, aggregationVars>>
       \/ part = "longTerm" /\ LongTermNext /\ UNCHANGED <<vars, aggregationVars>>
       \/ /\ part = "aggregation" /\ UpdateAckAggregation
          /\ UNCHANGED <<vars, longTermVars>>

PartsSpec == PartsInit /\ [][PartsNext]_<<part, vars, longTermVars, aggregationVars>>

-----------------------------------------------------------------------------
\* The variables of the three models have their types.
PartsTypeOK == TypeOK /\ LongTermTypeOK /\ AggregationTypeOK
=============================================================================
