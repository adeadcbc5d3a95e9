------------------------- MODULE SensorCursorProofs -------------------------
(***************************************************************************)
(* Proofs about the replay policy, for every set of boot IDs, every        *)
(* counter range and every threshold.                                      *)
(***************************************************************************)
EXTENDS SensorCursor, TLAPS

\* What one accepted versioned frame does: it is new to the active epoch or
\* opens one that was never retired, and the cursor moves onto it.
LEMMA AcceptedVersioned ==
    ASSUME NEW f \in VersionedFacts, TypeOK, CursorComplete, Receive(f)
    PROVE  /\ f.boot \in BootIds \ cursor.retired /\ f.seq \in 0..MaxSequence
           /\ cursor'.mode = "VERSIONED" /\ cursor'.boot = f.boot /\ cursor'.last = f.seq
           /\ cursor.mode = "VERSIONED" /\ f.boot = cursor.boot => f.seq > cursor.last
           /\ cursor'.retired = IF cursor.mode = "VERSIONED" /\ cursor.boot # f.boot
                                THEN cursor.retired \cup {cursor.boot} ELSE cursor.retired
  BY BootAssumption, SequenceAssumption
     DEF VersionedFacts, TypeOK, Modes, CursorComplete, Receive, Accepts,
         evaluateSensorSequence, VersionedDecision, VersionedOrder, commitSensorSequence, RetiredBoots,
         NoBoot, NoSequence

\* A legacy frame is accepted only by a sensor that was never versioned.
LEMMA AcceptedLegacy ==
    ASSUME NEW f \in LegacyFacts, TypeOK, CursorComplete, Receive(f)
    PROVE  /\ cursor.mode # "VERSIONED"
           /\ cursor'.mode = "LEGACY" /\ cursor'.boot = NoBoot
           /\ cursor'.retired = cursor.retired
           /\ cursor'.last \in 0..MaxSequence \cup {NoSequence}
  BY BootAssumption, SequenceAssumption
     DEF LegacyFacts, TypeOK, Modes, CursorComplete, Receive, Accepts,
         evaluateSensorSequence, LegacyDecision, LegacyCounter, commitSensorSequence, RetiredBoots,
         NoBoot, NoSequence

Inv == TypeOK /\ CursorComplete /\ AcceptedIsBehindCursor

LEMMA InvInit == Init => Inv
  BY SequenceAssumption
     DEF Init, Inv, TypeOK, CursorComplete, AcceptedIsBehindCursor, UnseenCursor, Modes,
         NoBoot, NoSequence

LEMMA InvStep == Inv /\ [Next]_vars => Inv'
<1> SUFFICES ASSUME Inv, [Next]_vars PROVE Inv'
  OBVIOUS
<1>1. CASE UNCHANGED vars
  BY <1>1 DEF Inv, vars, TypeOK, CursorComplete, AcceptedIsBehindCursor
<1>2. ASSUME NEW f \in Facts, Receive(f) PROVE Inv'
  <2>1. CASE f \in VersionedFacts
    <3>1. TypeOK'
      BY <1>2, <2>1, AcceptedVersioned
         DEF Inv, TypeOK, Receive, commitSensorSequence, RetiredBoots, Modes, CursorComplete, VersionedFacts, Facts
    <3>2. CursorComplete'
      BY <1>2, <2>1, AcceptedVersioned, BootAssumption, SequenceAssumption
         DEF Inv, TypeOK, CursorComplete, NoSequence
    <3>3. ASSUME NEW g \in accepted', g.version = "V2"
          PROVE  /\ cursor'.mode = "VERSIONED"
                 /\ \/ g.boot \in cursor'.retired
                    \/ g.boot = cursor'.boot /\ g.seq <= cursor'.last
      <4>1. g \in accepted \/ g = f
        BY <1>2, <3>3 DEF Receive
      <4>2. CASE g = f
        BY <1>2, <2>1, <4>2, AcceptedVersioned, SequenceAssumption DEF Inv
      <4>3. CASE g \in accepted
        <5>1. /\ cursor.mode = "VERSIONED"
              /\ g.boot \in cursor.retired \/ (g.boot = cursor.boot /\ g.seq <= cursor.last)
          BY <3>3, <4>3 DEF Inv, AcceptedIsBehindCursor
        <5>2. CASE f.boot = cursor.boot
          <6>1. f.seq > cursor.last /\ cursor'.last = f.seq /\ f.seq \in Int
                /\ cursor'.boot = f.boot /\ cursor'.mode = "VERSIONED"
                /\ cursor'.retired = cursor.retired
            BY <1>2, <2>1, <5>1, <5>2, AcceptedVersioned, SequenceAssumption DEF Inv
          <6>2. cursor.last \in Int /\ g.seq \in Int
            BY <4>3, SequenceAssumption
               DEF Inv, TypeOK, Facts, LegacyFacts, VersionedFacts, NoSequence
          <6> QED BY <5>1, <5>2, <6>1, <6>2
        <5>3. CASE f.boot # cursor.boot
          BY <1>2, <2>1, <5>1, <5>3, AcceptedVersioned DEF Inv
        <5> QED BY <5>2, <5>3
      <4> QED BY <4>1, <4>2, <4>3
    <3> QED BY <3>1, <3>2, <3>3 DEF Inv, AcceptedIsBehindCursor
  <2>2. CASE f \in LegacyFacts
    <3>1. TypeOK'
      BY <1>2, <2>2, AcceptedLegacy
         DEF Inv, TypeOK, Receive, commitSensorSequence, RetiredBoots, Modes, LegacyFacts, Facts
    <3>2. CursorComplete' /\ AcceptedIsBehindCursor'
      BY <1>2, <2>2, AcceptedLegacy
         DEF Inv, CursorComplete, AcceptedIsBehindCursor, Receive, TypeOK, LegacyFacts
    <3> QED BY <3>1, <3>2 DEF Inv
  <2> QED BY <1>2, <2>1, <2>2 DEF Facts
<1> QED BY <1>1, <1>2 DEF Next

\* Type correctness of the cursor row and of the history of accepted frames.
THEOREM CursorTypeSafety == Spec => []TypeOK
  BY InvInit, InvStep, PTL DEF Spec, Inv

\* The stored row is always complete: evaluateSensorSequence never answers
\* "stored versioned cursor is incomplete".
THEOREM CursorIsComplete == Spec => []CursorComplete
  BY InvInit, InvStep, PTL DEF Spec, Inv

\* Whatever was accepted from a versioned sensor is behind its cursor.
THEOREM HistoryBehindCursor == Spec => []AcceptedIsBehindCursor
  BY InvInit, InvStep, PTL DEF Spec, Inv

\* No versioned frame is acted on twice, however the links repeat and reorder
\* frames and however often the sensor reboots.
THEOREM ReplaySafety == Spec => NoVersionedReplay
<1>1. Inv /\ [Next]_vars
        => [\A f \in VersionedFacts : Receive(f) => f \notin accepted]_vars
  BY AcceptedVersioned, SequenceAssumption
     DEF Inv, AcceptedIsBehindCursor, TypeOK, VersionedFacts, NoSequence
<1> QED BY <1>1, InvInit, InvStep, PTL DEF Spec, NoVersionedReplay

\* A retired boot ID stays retired, a versioned sensor stays versioned, and within
\* a boot epoch the watermark only rises.
THEOREM EpochsAdvance == Spec => EpochsOnlyAdvance
<1> DEFINE Advances ==
             /\ cursor.retired \subseteq cursor'.retired
             /\ cursor.mode = "VERSIONED" => cursor'.mode = "VERSIONED"
             /\ cursor'.mode = "VERSIONED" /\ cursor'.boot = cursor.boot
                  => cursor'.last > cursor.last
<1>1. Inv /\ [Next]_vars => [Advances]_vars
  <2> SUFFICES ASSUME Inv, NEW f \in Facts, Receive(f) PROVE Advances
    BY DEF Next
  <2>1. CASE f \in VersionedFacts
    <3>1. CASE cursor.mode = "VERSIONED"
      BY <2>1, <3>1, AcceptedVersioned DEF Inv
    <3>2. CASE cursor.mode # "VERSIONED"
      <4>1. cursor.boot = NoBoot /\ cursor.retired = {} /\ cursor'.boot \in BootIds
        BY <2>1, <3>2, AcceptedVersioned DEF Inv, CursorComplete
      <4> QED BY <3>2, <4>1, BootAssumption
    <3> QED BY <3>1, <3>2
  <2>2. CASE f \in LegacyFacts
    BY <2>2, AcceptedLegacy DEF Inv
  <2> QED BY <2>1, <2>2 DEF Facts
<1>2. Spec => [][Advances]_vars
  BY <1>1, InvInit, InvStep, PTL DEF Spec
<1> QED BY <1>2 DEF EpochsOnlyAdvance
=============================================================================
