--------------------------- MODULE OverstayTimer ---------------------------
(***************************************************************************)
(* How long a car may stay on a charging slot: the timer worker            *)
(* (Pi_Server/src/timer/TimerManager.cpp), the policy in front of it       *)
(* (src/timer/ParkingSlotManager.cpp), the threshold that changes at run   *)
(* time (src/settings/OverstayThresholdService.cpp) and the worker that    *)
(* takes the evidence (src/parking/EvidenceCaptureWorker.cpp).             *)
(*                                                                         *)
(* A session is one stay; rows is what the database says of it.            *)
(* transition_mutex_ is a variable, since a violation is recorded and told *)
(* in two steps under it; a step under any other mutex is one action.      *)
(***************************************************************************)
EXTENDS Integers, FiniteSets, Sequences

CONSTANTS
    Sessions,          \* stays; each has a session ID of its own
    Thresholds,        \* overstay_threshold_seconds, in ticks
    Reasons,           \* evidence images of a session: "START" and "OVERSTAY"
    EvidenceRetries,   \* how often a timer waits for its evidence
    MaxTime,           \* bound on the clock
    MaxFaults,         \* bound: calls that fail
    MaxUpdates         \* bound: changes of the threshold

ASSUME OverstayAssumption ==
    /\ Thresholds # {} /\ Thresholds \subseteq Nat \ {0}
    /\ "OVERSTAY" \in Reasons /\ Reasons \subseteq {"START", "OVERSTAY"}
    /\ EvidenceRetries \in Nat /\ MaxTime \in Nat
    /\ MaxFaults \in Nat /\ MaxUpdates \in Nat

VARIABLES
    now,         \* the clock
    rows,        \* PARKING_SESSION, IMAGE_LOG and EVENT_LOG of a session
    setting,     \* the stored threshold, overstayDelay, and the update under way
    timeout,     \* parking_timeout_
    healthy,     \* runtime_applied_ and runtime_healthy_
    mutex,       \* who holds transition_mutex_
    timers,      \* queue_ of the timer
    generations, \* generations_, 0 if none
    scheduled,   \* scheduled_session_ids_
    timer,       \* the timer worker and the item it took
    jobs,        \* jobs_ of the evidence worker
    booked,      \* scheduledSessions_
    evidence,    \* the evidence worker and the job it took
    told,        \* history: what was announced of a session, in order
    missed,      \* history: sessions whose timing a failing call prevented
    budget       \* faults and updates that are left

policyVars == <<setting, timeout, healthy>>
timerVars == <<timers, generations, scheduled, timer>>
evidenceVars == <<jobs, booked, evidence>>
clockVars == <<now, budget>>

Classes == {"EV", "NON_EV", "UNKNOWN"}   \* what classifyVehicle says of a plate
NoPlate == "none"
Idle == [pc |-> "idle"]

OverstayInit ==
    /\ now = 0
    /\ rows = [s \in Sessions |->
                 [stay |-> "none", entry |-> 0, plate |-> NoPlate, violated |-> FALSE,
                  unresolved |-> FALSE, images |-> {}]]
    /\ \E t \in Thresholds :
         setting = [threshold |-> t, updating |-> FALSE] /\ timeout = t
    /\ healthy = TRUE /\ mutex = "free"
    /\ timers = {} /\ generations = [s \in Sessions |-> 0] /\ scheduled = {}
    /\ timer = Idle
    /\ jobs = {} /\ booked = {} /\ evidence = Idle
    /\ told = [s \in Sessions |-> <<>>] /\ missed = {}
    /\ budget = [faults |-> MaxFaults, updates |-> MaxUpdates]

\* exit_time IS NULL; status = 'ACTIVE'
Open(s) == rows[s].stay = "parked"
Active(s) == Open(s) /\ ~rows[s].violated

\* A call of the database, the camera, a queue or a sink fails.
Fails ==
    /\ budget.faults > 0
    /\ budget' = [budget EXCEPT !.faults = @ - 1]

Mark(s) == rows' = [rows EXCEPT ![s].violated = TRUE]

\* The callback of a violation; whether the broker hears of it is not asked.
TellViolation(s) == told' = [told EXCEPT ![s] = Append(@, "VIOLATION")]

-----------------------------------------------------------------------------
(***************************************************************************)
(* Scheduling                                                              *)
(***************************************************************************)
Later(a, b) == IF a < b THEN b ELSE a

\* remainingDelay counts from the entry, and is never in the past.
Deadline(s, t) == Later(now, rows[s].entry + t)

TimerItem(s, g, t) == [session |-> s, gen |-> g, due |-> Deadline(s, t), tries |-> 0]

\* Plausible bug: the generation is not counted up.
BugSameGeneration(which, t) ==
    /\ timers' = timers \cup {TimerItem(s, 1, t) : s \in which}
    /\ generations' = [s \in Sessions |-> IF s \in which THEN 1 ELSE generations[s]]

\* scheduleImpl: the item of an earlier generation stays where it is.
Schedule(which, t) ==
    /\ timers' = timers \cup {TimerItem(s, generations[s] + 1, t) : s \in which}
    /\ generations' = [s \in Sessions |->
                         IF s \in which THEN generations[s] + 1 ELSE generations[s]]

-----------------------------------------------------------------------------
(***************************************************************************)
(* The timer worker                                                        *)
(***************************************************************************)
TakeExpired ==
    /\ timer = Idle
    /\ \E i \in timers :
         /\ i.due <= now /\ \A j \in timers : i.due <= j.due
         /\ timers' = timers \ {i}
         /\ timer' = [pc |-> "expired", item |-> i]
    /\ UNCHANGED <<clockVars, rows, policyVars, mutex, generations, scheduled,
                   evidenceVars, told, missed>>

isCurrent(i) == generations[i.session] = i.gen

\* The worker looks at the item it took, under transition_mutex_.
Expired == timer.pc = "expired" /\ mutex = "free"

DropReplaced ==
    /\ Expired /\ ~isCurrent(timer.item)
    /\ timer' = Idle
    /\ UNCHANGED <<clockVars, rows, policyVars, mutex, timers, generations, scheduled,
                   evidenceVars, told, missed>>

ImageMissing(s) == "OVERSTAY" \notin rows[s].images

\* The evidence provider, and expediteOverstay if there is no image.
AskForEvidence(s) ==
    jobs' = {IF ImageMissing(s) /\ j.session = s /\ j.reason = "OVERSTAY"
             THEN [j EXCEPT !.due = now] ELSE j : j \in jobs}

Waits(i) == ImageMissing(i.session) /\ i.tries < EvidenceRetries

\* retryAfterEvidencePending
AwaitEvidence ==
    /\ Expired /\ isCurrent(timer.item) /\ Waits(timer.item)
    /\ AskForEvidence(timer.item.session)
    /\ timers' = timers \cup {[timer.item EXCEPT !.due = now, !.tries = @ + 1]}
    /\ timer' = Idle
    /\ UNCHANGED <<clockVars, rows, policyVars, mutex, generations, scheduled,
                   booked, evidence, told, missed>>

\* Nothing to wait for, or the provider throws before it asks.
EndsWaiting(i) ==
    \/ ~Waits(i) /\ AskForEvidence(i.session) /\ UNCHANGED budget
    \/ Fails /\ UNCHANGED jobs

\* Plausible bug: the update does not ask whether the row is still ACTIVE, and
\* answers true of a stay that is a VIOLATION already.
BugMarksAgain(s) == Open(s)

\* The conditional update of markViolation changes a row.
markViolation(s) == Active(s)

MarkOverstay ==
    /\ Expired /\ isCurrent(timer.item) /\ EndsWaiting(timer.item)
    /\ markViolation(timer.item.session)
    /\ Mark(timer.item.session)
    /\ generations' = [generations EXCEPT ![timer.item.session] = 0]
    /\ mutex' = "timer"
    /\ timer' = [timer EXCEPT !.pc = "tell"]
    /\ UNCHANGED <<now, policyVars, timers, scheduled, booked, evidence, told, missed>>

\* The car left or was marked before.
MarkNothing ==
    /\ Expired /\ isCurrent(timer.item) /\ EndsWaiting(timer.item)
    /\ ~markViolation(timer.item.session)
    /\ timer' = Idle
    /\ UNCHANGED <<now, rows, policyVars, mutex, timers, generations, scheduled,
                   booked, evidence, told, missed>>

\* Plausible bug: an item whose update failed is not queued again.
BugForgetItem(i) == timers

RetryItem(i) == timers \cup {[i EXCEPT !.due = now]}

\* retryAfterDatabaseError; a database that fails may fail the provider too.
MarkThrows ==
    /\ Expired /\ isCurrent(timer.item) /\ Fails
    /\ \/ ~Waits(timer.item) /\ AskForEvidence(timer.item.session)
       \/ UNCHANGED jobs
    /\ timers' = RetryItem(timer.item)
    /\ timer' = Idle
    /\ UNCHANGED <<now, rows, policyVars, mutex, generations, scheduled, booked,
                   evidence, told, missed>>

TellOverstay ==
    /\ timer.pc = "tell"
    /\ TellViolation(timer.item.session)
    /\ mutex' = "free" /\ timer' = Idle
    /\ UNCHANGED <<clockVars, rows, policyVars, timers, generations, scheduled,
                   evidenceVars, missed>>

TimerWorker ==
    \/ TakeExpired \/ DropReplaced \/ AwaitEvidence
    \/ MarkOverstay \/ MarkNothing \/ MarkThrows \/ TellOverstay

-----------------------------------------------------------------------------
(***************************************************************************)
(* The threshold changes                                                   *)
(***************************************************************************)

\* OverstayThresholdService::update stores the setting; updateOverstayDelay.
UpdateSetting(t) ==
    /\ ~setting.updating /\ budget.updates > 0
    /\ t # setting.threshold \/ ~healthy
    /\ budget' = [budget EXCEPT !.updates = @ - 1]
    /\ setting' = [threshold |-> t, updating |-> TRUE]
    /\ jobs' = {IF j.reason = "OVERSTAY" THEN [j EXCEPT !.due = rows[j.session].entry + t]
                                         ELSE j : j \in jobs}
    /\ UNCHANGED <<now, rows, timeout, healthy, mutex, timerVars, booked, evidence,
                   told, missed>>

\* Sessions whose timer is replaced.
TimedByRow == {s \in Sessions : Active(s) /\ rows[s].plate = "EV"}

\* updateParkingTimeout; when it throws, the timers from some session on stay.
UpdateTimers ==
    /\ setting.updating /\ mutex = "free"
    /\ setting' = [setting EXCEPT !.updating = FALSE]
    /\ timeout' = setting.threshold
    /\ \E which \in SUBSET TimedByRow :
         /\ \/ which = TimedByRow /\ healthy' = TRUE /\ UNCHANGED budget
            \/ healthy' = FALSE /\ Fails
         /\ Schedule(which, setting.threshold)
         /\ scheduled' = scheduled \cup which
         /\ missed' = missed \ which
    /\ UNCHANGED <<now, rows, mutex, timer, evidenceVars, told>>

-----------------------------------------------------------------------------
(***************************************************************************)
(* The evidence worker.  canceledSessions_ is left out: it only spares the *)
(* capture of an image that the database would refuse.                     *)
(***************************************************************************)

\* scheduleSessionImpl, for the images asked for; the last job ends the booking.
JobsFor(s, reasons) ==
    {[session |-> s, reason |-> r,
      due |-> IF r = "START" THEN now ELSE rows[s].entry + setting.threshold,
      last |-> r = "OVERSTAY" \/ "OVERSTAY" \notin reasons] : r \in reasons}

TakeJob ==
    /\ evidence = Idle
    /\ \E j \in jobs :
         /\ j.due <= now /\ \A k \in jobs : j.due <= k.due
         /\ jobs' = jobs \ {j}
         /\ evidence' = [pc |-> "shoot", job |-> j]
    /\ UNCHANGED <<clockVars, rows, policyVars, mutex, timerVars, booked, told, missed>>

\* Plausible bug: the image of a car that left is stored.
BugInsertsAnyStay(s, image) == image \notin rows[s].images

\* insertEvidenceImage and insertHallCaptureImage say Inserted.
Inserts(s, image) == Open(s) /\ image \notin rows[s].images

StoreImage(s, image) == rows' = [rows EXCEPT ![s].images = @ \cup {image}]

\* The capture may fail, and the insert may throw or refuse.
FinishJob ==
    /\ evidence.pc = "shoot"
    /\ LET s == evidence.job.session
           image == evidence.job.reason
       IN  \/ Inserts(s, image) /\ StoreImage(s, image) /\ UNCHANGED budget
           \/ ~Inserts(s, image) /\ UNCHANGED <<rows, budget>>
           \/ Inserts(s, image) /\ Fails /\ UNCHANGED rows
    /\ booked' = IF evidence.job.last THEN booked \ {evidence.job.session} ELSE booked
    /\ evidence' = Idle
    /\ UNCHANGED <<now, policyVars, mutex, timerVars, jobs, told, missed>>

EvidenceWorker == TakeJob \/ FinishJob
=============================================================================
