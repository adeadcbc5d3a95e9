--------------------------- MODULE MCFireDelivery ---------------------------
(***************************************************************************)
(* Fire delivery for model checking; the channels are interchangeable.     *)
(***************************************************************************)
EXTENDS FireDelivery, TLC

Symmetry == Permutations(Channels)

\* Bound: one failing call or one stop, crash and restart.
OneMishap == faults + restarts <= 1
=============================================================================
