------------------------- MODULE MCWindowedFilter -------------------------
(***************************************************************************)
(* WindowedFilter for TLC, as a maximum filter: a few samples of any value *)
(* and at any time, under windows that change, or many samples, at least   *)
(* one in every unit of time (a round of BBR), each worse than the one     *)
(* before it, the case the head of windowed-filter.h speaks of.            *)
(***************************************************************************)
EXTENDS WindowedFilter

VARIABLE arrivals   \* how the samples arrive

Few == INSTANCE WindowedFilter WITH
    Samples <- 1..4, Windows <- {2, 4}, MaxTime <- 8, MaxSeen <- 5

\* Worse than all before it.
Worse == IF Maximum THEN MaxSeen - Cardinality(seen) ELSE Cardinality(seen) + 1

Worsens == \E t \in now..(now + 1) : Update(Worse, t)

ArrivalsInit ==
    /\ arrivals \in {"any", "worsening"}
    /\ IF arrivals = "any" THEN Few!Init ELSE Init

ArrivalsNext ==
    /\ UNCHANGED arrivals
    /\ IF arrivals = "any" THEN Few!Next ELSE Worsens

ArrivalsSpec == ArrivalsInit /\ [][ArrivalsNext]_<<arrivals, vars>>

-----------------------------------------------------------------------------
\* For samples that worsen, the best covers the last half of the window.
WorseningCovered == arrivals = "worsening" => HalfCovered
=============================================================================
