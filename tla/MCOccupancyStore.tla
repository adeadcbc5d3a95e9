-------------------------- MODULE MCOccupancyStore --------------------------
(***************************************************************************)
(* The store alone, with nobody's schedule: any command may be admitted at *)
(* any time, any runnable row reduced, any row purged or deferred.         *)
(***************************************************************************)
EXTENDS OccupancyStore

BothSources ==
    {HallFrame("S1", "V2", "b1", 1, "OCCUPIED"), HallFrame("S1", "V2", "b1", 2, "VACANT")}

Camera(n, action, area, at) ==
    [slot |-> "S1", ident |-> <<"S1", n>>, action |-> action, area |-> area,
     object |-> "o1", auth |-> TRUE, at |-> at]

SkewedCamera ==
    {Camera(1, "INTRUSION", "A1", 1), Camera(2, "EXIT", "A1", 0)}
=============================================================================
