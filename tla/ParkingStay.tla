---------------------------- MODULE ParkingStay ----------------------------
(***************************************************************************)
(* What the server promises about the stay of a car on a charging slot,    *)
(* without timers, captures, text recognition or restarts.  A stay is      *)
(* judged a violation while the car is there or not at all; the violation  *)
(* is announced at most once and never after the departure.  Images are    *)
(* added while the car is there; a judged stay keeps them, and whoever     *)
(* left in time leaves none behind.                                        *)
(***************************************************************************)
EXTENDS Sequences

CONSTANTS Sessions

VARIABLES
    stay,      \* stay[s]: "none", "parked" or "left"
    judged,    \* judged[s]: is the stay a violation?
    told,      \* told[s]: the announcements made, in order
    images     \* images[s]

Init ==
    /\ stay = [s \in Sessions |-> "none"]
    /\ judged = [s \in Sessions |-> FALSE]
    /\ told = [s \in Sessions |-> <<>>]
    /\ images = [s \in Sessions |-> {}]

Arrive(s) ==
    /\ stay[s] = "none" /\ stay' = [stay EXCEPT ![s] = "parked"]
    /\ UNCHANGED <<judged, told, images>>

Leave(s) ==
    /\ stay[s] = "parked" /\ stay' = [stay EXCEPT ![s] = "left"]
    /\ UNCHANGED <<judged, told, images>>

Judge(s) ==
    /\ stay[s] = "parked" /\ ~judged[s]
    /\ judged' = [judged EXCEPT ![s] = TRUE]
    /\ UNCHANGED <<stay, told, images>>

TellViolation(s) ==
    /\ judged[s] /\ told[s] = <<>>
    /\ told' = [told EXCEPT ![s] = <<"VIOLATION">>]
    /\ UNCHANGED <<stay, judged, images>>

Store(s) ==
    /\ stay[s] = "parked"
    /\ \E i \in {"START", "OVERSTAY", "30", "60"} \ images[s] :
         images' = [images EXCEPT ![s] = @ \cup {i}]
    /\ UNCHANGED <<stay, judged, told>>

\* The departure may be announced again; what it removes is gone for good.
TellDeparture(s) ==
    /\ stay[s] = "left"
    /\ told' = [told EXCEPT ![s] = Append(@, "DEPARTURE")]
    /\ \/ ~judged[s] /\ images' = [images EXCEPT ![s] = {}]
       \/ UNCHANGED images
    /\ UNCHANGED <<stay, judged>>

Next ==
    \E s \in Sessions :
        \/ Arrive(s) \/ Leave(s) \/ Judge(s) \/ TellViolation(s)
        \/ Store(s) \/ TellDeparture(s)

Spec == Init /\ [][Next]_<<stay, judged, told, images>>
=============================================================================
