----------------------------- MODULE MCFireAlarm -----------------------------
(***************************************************************************)
(* Fire alarms for model checking: the frames of a versioned sensor that   *)
(* reports a fire and its end.                                             *)
(***************************************************************************)
EXTENDS FireAlarm

Frame(version, boot, seq, fire) ==
    [version |-> version, boot |-> boot, seq |-> seq, detected |-> fire]

\* A versioned sensor reports a fire and its end.
FireAndEnd == {Frame("V2", "B1", 1, TRUE), Frame("V2", "B1", 2, FALSE)}
FireOnly == {Frame("V2", "B1", 1, TRUE)}
=============================================================================
