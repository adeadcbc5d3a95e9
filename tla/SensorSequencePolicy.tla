------------------------ MODULE SensorSequencePolicy ------------------------
(***************************************************************************)
(* The replay policy for Hall-sensor frames                                *)
(* (Pi_Server/include/sensor/SensorSequencePolicy.hpp).  A frame carries   *)
(* either a bare counter (the legacy protocol, V1) or a boot ID and a      *)
(* counter (V2).  The policy compares the frame with the durable cursor of *)
(* its sensor; the caller stores the new cursor only for accepted frames.  *)
(***************************************************************************)
EXTENDS Integers

CONSTANTS
    RebootDropThreshold   \* kLegacySequenceRebootDropThreshold

ASSUME ThresholdAssumption == RebootDropThreshold \in Nat

NoBoot == "no-boot"       \* std::nullopt / empty boot ID
NoSequence == -1          \* std::nullopt sequence

Modes == {"UNSEEN", "LEGACY", "VERSIONED"}

\* A sensor whose cursor row does not exist yet.
UnseenCursor ==
    [mode |-> "UNSEEN", boot |-> NoBoot, last |-> NoSequence, retired |-> {}]

\* A legacy counter that falls by more than the threshold was restarted.
LegacyCounter(state, fact) ==
    IF \/ fact.seq = NoSequence \/ state.mode = "UNSEEN" \/ state.last = NoSequence
    THEN "Accept"
    ELSE IF fact.seq = state.last THEN "Duplicate"
    ELSE IF fact.seq > state.last \/ state.last - fact.seq > RebootDropThreshold
    THEN "Accept"
    ELSE "Stale"

\* Plausible bug: the versioned mode is not sticky.
BugLegacyDowngrades(state, fact) ==
    IF fact.boot # NoBoot THEN "Invalid" ELSE LegacyCounter(state, fact)

LegacyDecision(state, fact) ==
    IF fact.boot # NoBoot THEN "Invalid"
    ELSE IF state.mode = "VERSIONED" THEN "LegacyDowngrade"
    ELSE LegacyCounter(state, fact)

\* Plausible bug: only the exact repetition is refused.
BugOlderAccepted(state, fact) ==
    IF fact.boot = state.boot /\ fact.seq = state.last THEN "Duplicate" ELSE "Accept"

\* Within a boot epoch the counter only grows; a new boot ID opens a new epoch.
VersionedOrder(state, fact) ==
    IF fact.boot # state.boot THEN "Accept"
    ELSE IF fact.seq = state.last THEN "Duplicate"
    ELSE IF fact.seq < state.last THEN "Stale"
    ELSE "Accept"

\* Plausible bug: boot IDs that were left are not looked up.
BugRetiredForgotten(state, fact) ==
    IF fact.boot = NoBoot \/ fact.seq = NoSequence THEN "Invalid"
    ELSE IF state.mode # "VERSIONED" THEN "Accept"
    ELSE VersionedOrder(state, fact)

VersionedDecision(state, fact) ==
    IF fact.boot = NoBoot \/ fact.seq = NoSequence THEN "Invalid"
    ELSE IF fact.boot \in state.retired THEN "RetiredBootId"
    ELSE IF state.mode # "VERSIONED" THEN "Accept"
    ELSE IF state.boot = NoBoot \/ state.last = NoSequence THEN "Invalid"
    ELSE VersionedOrder(state, fact)

evaluateSensorSequence(state, fact) ==
    IF fact.version = "V1" THEN LegacyDecision(state, fact)
                           ELSE VersionedDecision(state, fact)

Accepts(state, fact) == evaluateSensorSequence(state, fact) = "Accept"

\* Leaving a boot epoch retires its ID.
RetiredBoots(state, fact) ==
    IF state.mode = "VERSIONED" /\ state.boot # NoBoot /\ state.boot # fact.boot
    THEN state.retired \cup {state.boot}
    ELSE state.retired

\* The cursor after an accepted frame.
commitSensorSequence(state, fact) ==
    IF fact.version = "V1"
    THEN [state EXCEPT !.mode = "LEGACY", !.boot = NoBoot,
                       !.last = IF fact.seq = NoSequence THEN @ ELSE fact.seq]
    ELSE [mode |-> "VERSIONED", boot |-> fact.boot, last |-> fact.seq,
          retired |-> RetiredBoots(state, fact)]
=============================================================================
