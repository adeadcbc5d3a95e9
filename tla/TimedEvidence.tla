--------------------------- MODULE TimedEvidence ---------------------------
(***************************************************************************)
(* The captures, the evidence and the timer of charging slots, driven by   *)
(* the committed transitions: HallParkingService::applyCommittedEffects    *)
(* (Pi_Server/src/sensor), called at least once and in order for each      *)
(* session (OccupancyLedger), and the restart of main.cpp.                 *)
(***************************************************************************)
EXTENDS HallCapture

CONSTANTS MaxCrashes   \* bound: the process dies

ASSUME CrashAssumption == MaxCrashes \in Nat

VARIABLES
    owed,        \* transitions of a session whose effects are not acknowledged
    sink,        \* the session whose end the sink is applying
    process,     \* is it up, and which timers does a restart still restore?
    crashes

sinkVars == <<owed, sink>>
vars == <<overstayVars, hallVars, owed, sink, process, crashes>>

Init ==
    /\ OverstayInit /\ HallInit
    /\ owed = [s \in Sessions |-> <<>>] /\ sink = Idle
    /\ process = [up |-> TRUE, restoring |-> {}] /\ crashes = 0

Running == process.up /\ process.restoring = {}

-----------------------------------------------------------------------------
(***************************************************************************)
(* Transitions of the occupancy store, and the clock                       *)
(***************************************************************************)
LongestStay == CHOOSE t \in Thresholds : \A u \in Thresholds : u <= t

Arrive(s) ==
    /\ Running /\ rows[s].stay = "none" /\ now + LongestStay <= MaxTime
    /\ rows' = [rows EXCEPT ![s].stay = "parked", ![s].entry = now]
    /\ owed' = [owed EXCEPT ![s] = Append(@, "start")]
    /\ UNCHANGED <<clockVars, policyVars, mutex, timerVars, evidenceVars, told, missed,
                   hallVars, sink, process, crashes>>

Leave(s) ==
    /\ Running /\ Open(s)
    /\ rows' = [rows EXCEPT ![s].stay = "left"]
    /\ owed' = [owed EXCEPT ![s] = Append(@, "end")]
    /\ UNCHANGED <<clockVars, policyVars, mutex, timerVars, evidenceVars, told, missed,
                   hallVars, sink, process, crashes>>

Tick ==
    /\ now < MaxTime /\ now' = now + 1
    /\ UNCHANGED <<budget, rows, policyVars, mutex, timerVars, evidenceVars, told, missed,
                   hallVars, sinkVars, process, crashes>>

-----------------------------------------------------------------------------
(***************************************************************************)
(* applyCommittedEffects                                                   *)
(***************************************************************************)
Owes(s, effect) == Running /\ sink = Idle /\ owed[s] # <<>> /\ Head(owed[s]) = effect

\* The sink says true and the effect is acknowledged, or it comes again.
Acknowledge(s) ==
    \/ owed' = [owed EXCEPT ![s] = Tail(@)] /\ UNCHANGED budget
    \/ Fails /\ UNCHANGED owed

\* Coordinator, scheduler and evidence worker know a session already, or take
\* it; jobs_ is shared by all slots, and the evidence worker may have no room.
SessionStarted(s) ==
    /\ Owes(s, "start")
    /\ policy' = IF IsBound(s) THEN policy ELSE [policy EXCEPT ![s] = Bound]
    /\ sched' = IF sched[s] = Untracked THEN [sched EXCEPT ![s] = Tracked] ELSE sched
    /\ \/ /\ jobs' = IF s \in booked THEN jobs ELSE jobs \cup JobsFor(s, Reasons)
          /\ booked' = booked \cup {s}
          /\ Acknowledge(s)
       \/ s \notin booked /\ Fails /\ UNCHANGED <<jobs, booked, owed>>
    /\ UNCHANGED <<now, rows, policyVars, mutex, timerVars, evidence, told, missed,
                   batch, queue, canceled, th, sink, process, crashes>>

\* handleCommittedExit waits for transition_mutex_; cancelSession.
SessionEnded(s) ==
    /\ Owes(s, "end") /\ mutex = "free"
    /\ scheduled' = scheduled \ {s}
    /\ jobs' = {j \in jobs : j.session # s} /\ booked' = booked \ {s}
    /\ sink' = [pc |-> "release", session |-> s]
    /\ UNCHANGED <<clockVars, rows, policyVars, mutex, timers, generations, timer, evidence,
                   told, missed, hallVars, owed, process, crashes>>

SettledAtClose(p) == p.result = "Pending" /\ p.attempts > 0

\* The coordinator and the scheduler let go of the session.
ReleaseSession ==
    /\ sink.pc = "release"
    /\ rows' = [rows EXCEPT ![sink.session].unresolved =
                    @ \/ SettledAtClose(policy[sink.session])]
    /\ policy' = [policy EXCEPT ![sink.session] = Unbound]
    /\ sched' = [sched EXCEPT ![sink.session] = Untracked]
    /\ sink' = [sink EXCEPT !.pc = "depart"]
    /\ UNCHANGED <<clockVars, policyVars, mutex, timerVars, evidenceVars, told, missed,
                   batch, queue, canceled, th, owed, process, crashes>>

\* writeOcrFailure throws in between: the effect comes again.
ReleaseThrows ==
    /\ sink.pc = "release" /\ SettledAtClose(policy[sink.session]) /\ Fails
    /\ policy' = [policy EXCEPT ![sink.session] = Unbound]
    /\ sink' = Idle
    /\ UNCHANGED <<now, rows, policyVars, mutex, timerVars, evidenceVars, told, missed,
                   sched, batch, queue, canceled, th, owed, process, crashes>>

RemovesImages(s) == ~rows[s].violated

\* cancelSession of the OCR, DEPARTURE, removeEarlyDepartureImages; the
\* announcement may not be heard and the removal may fail.
Depart ==
    /\ sink.pc = "depart"
    /\ canceled' = canceled \cup {sink.session}
    /\ told' = [told EXCEPT ![sink.session] = Append(@, "DEPARTURE")]
    /\ \/ /\ rows' = IF RemovesImages(sink.session)
                     THEN [rows EXCEPT ![sink.session].images = {}] ELSE rows
          /\ Acknowledge(sink.session)
       \/ RemovesImages(sink.session) /\ Fails /\ UNCHANGED <<rows, owed>>
    /\ sink' = Idle
    /\ UNCHANGED <<now, policyVars, mutex, timerVars, evidenceVars, missed,
                   captureVars, policy, queue, th, process, crashes>>

Sink ==
    \/ \E s \in Sessions : SessionStarted(s) \/ SessionEnded(s)
    \/ ReleaseSession \/ ReleaseThrows \/ Depart

-----------------------------------------------------------------------------
(***************************************************************************)
(* The process                                                             *)
(***************************************************************************)
Crash ==
    /\ process.up /\ crashes < MaxCrashes
    /\ crashes' = crashes + 1
    /\ process' = [up |-> FALSE, restoring |-> {}]
    /\ mutex' = "free"
    /\ timers' = {} /\ generations' = [s \in Sessions |-> 0] /\ scheduled' = {}
    /\ timer' = Idle
    /\ jobs' = {} /\ booked' = {} /\ evidence' = Idle
    /\ sched' = [s \in Sessions |-> Untracked] /\ batch' = {}
    /\ policy' = [s \in Sessions |-> Unbound]
    /\ queue' = <<>> /\ canceled' = {}
    /\ th' = [t \in Threads |-> Idle] /\ sink' = Idle
    /\ setting' = [setting EXCEPT !.updating = FALSE]
    /\ UNCHANGED <<clockVars, rows, timeout, healthy, told, missed, owed>>

\* Evidence a restart schedules again: restoreSession, as long as there is room.
Missing(s) == Reasons \ rows[s].images

\* initialize() of the setting, then the evidence of every active session; the
\* captures and the reading of plates are not restored.
Restart ==
    /\ ~process.up
    /\ timeout' = setting.threshold /\ healthy' = TRUE
    /\ LET wanted == {s \in Sessions : Active(s) /\ Missing(s) # {}}
       IN  \E which \in SUBSET wanted :
              /\ jobs' = UNION {JobsFor(s, Missing(s)) : s \in which}
              /\ booked' = which
              /\ \/ which = wanted /\ UNCHANGED budget
                 \/ Fails
    /\ missed' = {}
    /\ process' = [up |-> TRUE,
                   restoring |-> {s \in Sessions : Active(s) /\ rows[s].plate # NoPlate}]
    /\ UNCHANGED <<now, rows, setting, mutex, timerVars, evidence, told,
                   hallVars, sinkVars, crashes>>

\* restoreActiveSessions: nobody is connected yet who could hear of a violation.
RestoreTimer ==
    /\ mutex = "free"
    /\ \E s \in process.restoring :
         /\ process' = [process EXCEPT !.restoring = @ \ {s}]
         /\ rows' = IF MarksNonEv(s, rows[s].plate)
                    THEN [rows EXCEPT ![s].violated = TRUE] ELSE rows
         /\ LET which == {r \in {s} : StartsTimer(r, rows[r].plate)}
            IN  Schedule(which, timeout) /\ scheduled' = scheduled \cup which
    /\ UNCHANGED <<clockVars, policyVars, mutex, timer, evidenceVars, told, missed,
                   hallVars, sinkVars, crashes>>

Startup == Restart \/ RestoreTimer

-----------------------------------------------------------------------------
Rest == UNCHANGED <<hallVars, sinkVars, process, crashes>>

Timer == process.up /\ TimerWorker /\ Rest
Evidence == process.up /\ EvidenceWorker /\ Rest
Settings == Running /\ ((\E t \in Thresholds : UpdateSetting(t)) \/ UpdateTimers) /\ Rest
CaptureRuntime == process.up /\ CaptureThread /\ UNCHANGED <<sinkVars, process, crashes>>
Ocr == process.up /\ OcrThread /\ UNCHANGED <<sinkVars, process, crashes>>

Next ==
    \/ \E s \in Sessions : Arrive(s) \/ Leave(s)
    \/ Tick \/ Sink \/ Timer \/ Evidence \/ Settings \/ CaptureRuntime \/ Ocr
    \/ Crash \/ Startup

Spec == Init /\ [][Next]_vars

\* Time passes, the threads of timer, captures and OCR run, and a dead process
\* is started again; neither the evidence worker nor the sink is relied on.
FairSpec ==
    /\ Spec
    /\ WF_vars(Tick) /\ WF_vars(Timer) /\ WF_vars(CaptureRuntime) /\ WF_vars(Ocr)
    /\ WF_vars(Startup)

-----------------------------------------------------------------------------
(***************************************************************************)
(* Properties                                                              *)
(***************************************************************************)
PS == INSTANCE ParkingStay WITH
        stay <- [s \in Sessions |-> rows[s].stay],
        judged <- [s \in Sessions |-> rows[s].violated],
        images <- [s \in Sessions |-> rows[s].images]

\* Captures, evidence, timer, plates, restarts and repeated effects implement
\* ParkingStay: a stay is judged while the car is there, a second announcement
\* of its violation or one after the departure is never made, no image is
\* stored of a car that left, and a judged stay keeps its images.
StaySpec == PS!Spec

\* TimerManager.cpp:229: a timer that a changed threshold replaced judges
\* nobody: a car whose plate is known is judged at the threshold in force, or
\* later, unless a failing call kept its timer from being set.
NoEarlyViolation ==
    [][\A s \in Sessions :
          (/\ timer.pc = "expired" /\ timer'.pc = "tell" /\ timer.item.session = s
           /\ healthy /\ s \notin missed /\ rows[s].plate = "EV")
            => now >= rows[s].entry + timeout]_vars

\* PLATE_OCR_UNRESOLVED is recorded of an open session only when OcrAttempts of
\* its captures gave no plate: no image is counted twice, and a plate that is
\* known came of yet another one, over two threads, retries, rejected images
\* and restarts.  With two attempts (the default) no plate is known; with one
\* (AppConfig.cpp:215 allows it) the other image may still give one.
UnresolvedIsUnknown ==
    \A s \in Sessions : Open(s) /\ rows[s].unresolved =>
        OcrAttempts + (IF rows[s].plate = NoPlate THEN 0 ELSE 1)
            <= Cardinality(rows[s].images \cap Stages)

\* Once the end of an unjudged stay is acknowledged, none of its images is left
\* behind, whatever capture was under way.
EndedInTimeIsForgotten ==
    \A s \in Sessions :
        rows[s].stay = "left" /\ owed[s] = <<>> /\ ~rows[s].violated => rows[s].images = {}

\* A 60-second image that waits for the reading of the first is read or given
\* up: no path of the first reading forgets it.
HeldImageIsDecided ==
    \A s \in Sessions : policy[s].stage["60"] = "Held" ~> policy[s].stage["60"] # "Held"

\* An electric car whose plate is known is judged or leaves: its timer outlives
\* changed thresholds, waits for evidence, failing updates and restarts.
KnownEvIsJudged ==
    \A s \in Sessions :
        Active(s) /\ rows[s].plate = "EV" /\ s \notin missed
          ~> ~Active(s) \/ rows[s].plate # "EV" \/ s \in missed
=============================================================================
