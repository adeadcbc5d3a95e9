-------------------------- MODULE MCTimedEvidence --------------------------
(***************************************************************************)
(* One stay under TimedEvidence, with any one failing call, changed        *)
(* threshold or crash in it.                                               *)
(***************************************************************************)
EXTENDS TimedEvidence

\* Bound: one mishap.
OneMishap ==
    (MaxFaults - budget.faults) + (MaxUpdates - budget.updates) + crashes <= 1
=============================================================================
