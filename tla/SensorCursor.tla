---------------------------- MODULE SensorCursor ----------------------------
(***************************************************************************)
(* One sensor's cursor under an arbitrary delivery of frames: the LoRa and *)
(* UART links may lose, repeat and reorder them.  accepted is a history    *)
(* variable: every frame the policy let through.                           *)
(***************************************************************************)
EXTENDS SensorSequencePolicy

CONSTANTS
    BootIds,       \* boot IDs the firmware can announce
    MaxSequence    \* bound on the frame counter

ASSUME BootAssumption == NoBoot \notin BootIds
ASSUME SequenceAssumption == MaxSequence \in Nat

VARIABLES cursor, accepted

vars == <<cursor, accepted>>

LegacyFacts == [version : {"V1"}, boot : {NoBoot} \cup BootIds,
                seq : 0..MaxSequence \cup {NoSequence}]
VersionedFacts == [version : {"V2"}, boot : {NoBoot} \cup BootIds,
                   seq : 0..MaxSequence \cup {NoSequence}]
Facts == LegacyFacts \cup VersionedFacts

Init == cursor = UnseenCursor /\ accepted = {}

\* A frame arrives; a rejected one leaves the cursor alone.
Receive(f) ==
    /\ Accepts(cursor, f)
    /\ cursor' = commitSensorSequence(cursor, f)
    /\ accepted' = accepted \cup {f}

Next == \E f \in Facts : Receive(f)

Spec == Init /\ [][Next]_vars

(***************************************************************************)
(* Properties                                                              *)
(***************************************************************************)

\* Type invariant of the cursor row and of the history.
TypeOK ==
    /\ cursor \in [mode : Modes, boot : {NoBoot} \cup BootIds,
                   last : 0..MaxSequence \cup {NoSequence},
                   retired : SUBSET BootIds]
    /\ accepted \subseteq Facts

\* The stored row never reaches the shape for which evaluateSensorSequence
\* answers "stored versioned cursor is incomplete", and a boot epoch that was
\* left is never the active one.
CursorComplete ==
    /\ cursor.mode = "VERSIONED" => cursor.boot # NoBoot /\ cursor.last # NoSequence
    /\ cursor.mode # "VERSIONED" => cursor.boot = NoBoot /\ cursor.retired = {}
    /\ cursor.boot \notin cursor.retired

\* Everything a versioned sensor was ever believed about is behind the cursor:
\* in a retired epoch, or at or below the watermark of the active one.  This is
\* what makes a replayed frame detectable from the cursor alone.
AcceptedIsBehindCursor ==
    \A f \in accepted : f.version = "V2" =>
        /\ cursor.mode = "VERSIONED"
        /\ \/ f.boot \in cursor.retired
           \/ f.boot = cursor.boot /\ f.seq <= cursor.last

\* A versioned frame is acted on at most once, however often and in whatever
\* order the links deliver it, across any number of sensor reboots.
NoVersionedReplay ==
    [][\A f \in VersionedFacts : Receive(f) => f \notin accepted]_vars

\* Retired boot IDs stay retired and the versioned mode is never left: one
\* legacy frame cannot reopen the replay window.
EpochsOnlyAdvance ==
    [][/\ cursor.retired \subseteq cursor'.retired
       /\ cursor.mode = "VERSIONED" => cursor'.mode = "VERSIONED"
       /\ cursor'.mode = "VERSIONED" /\ cursor'.boot = cursor.boot
            => cursor'.last > cursor.last]_vars
=============================================================================
