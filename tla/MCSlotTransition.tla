-------------------------- MODULE MCSlotTransition --------------------------
(***************************************************************************)
(* Inputs for model checking the slot-transition core.  A frame or a       *)
(* signal may be delivered at any time, in any order and more than once.   *)
(***************************************************************************)
EXTENDS SlotTransitionActor

CameraEvent(s, n, action, area, object, auth, at) ==
    [slot |-> s, ident |-> <<s, n>>, action |-> action, area |-> area,
     object |-> object, auth |-> auth, at |-> at]

ShortStay == {HallFrame("S1", "V2", "b1", 1, "OCCUPIED"),
              HallFrame("S1", "V2", "b1", 2, "VACANT")}

\* Two stays in a slot that two areas see, with exits of each area, and an exit
\* that carries no authority in the other.
TwoStays ==
    {CameraEvent("S1", 1, "INTRUSION", "A1", "o1", TRUE, 0),
     CameraEvent("S1", 2, "EXIT", "A1", NoObject, TRUE, 0),
     CameraEvent("S1", 3, "EXIT", "A2", NoObject, TRUE, 0),
     CameraEvent("S1", 4, "INTRUSION", "A1", "o1", TRUE, 0),
     CameraEvent("S2", 1, "EXIT", "A1", NoObject, FALSE, 0)}

\* A signal that names a track, and one that names none.
Tracks == {CameraEvent("S1", 1, "INTRUSION", "A1", "o1", TRUE, 0),
           CameraEvent("S1", 2, "INTRUSION", "A1", NoObject, TRUE, 0)}

NoHallFrames == {}
NoCameraEvents == {}

\* Runs in which the producers submit the facts of one script, in its order;
\* when each is submitted, and everything else, stays open.
Follows(script) ==
    submissions' # submissions =>
        /\ submissions' \in DOMAIN script
        /\ Last(ingress').cmd.fact = script[submissions']

\* A vehicle both sources saw; the camera reports its exit, and again after
\* the exit was held by the Hall sensor; then the sensor reports VACANT.
HybridScript ==
    <<HallFrame("S1", "V2", "b1", 1, "OCCUPIED"),
      CameraEvent("S1", 1, "INTRUSION", "A1", NoObject, TRUE, 0),
      CameraEvent("S1", 2, "EXIT", "A1", NoObject, TRUE, 1),
      CameraEvent("S1", 3, "EXIT", "A1", NoObject, TRUE, 2),
      HallFrame("S1", "V2", "b1", 2, "VACANT")>>

HallOf(script) == {f \in Range(script) : "state" \in DOMAIN f}
CameraOf(script) == Range(script) \ HallOf(script)
HybridHall == HallOf(HybridScript)
HybridCamera == CameraOf(HybridScript)

HybridSpec == Init /\ [][Next /\ Follows(HybridScript)]_vars /\ Fairness

\* OCCUPIED, VACANT, OCCUPIED of one sensor.
FlickerScript ==
    <<HallFrame("S1", "V2", "b1", 1, "OCCUPIED"), HallFrame("S1", "V2", "b1", 2, "VACANT"),
      HallFrame("S1", "V2", "b1", 3, "OCCUPIED")>>
Flicker == HallOf(FlickerScript)

FlickerSpec == Init /\ [][Next /\ Follows(FlickerScript)]_vars
=============================================================================
