---------------------------- MODULE HallCapture ----------------------------
(***************************************************************************)
(* The two scheduled captures of a session and the reading of its plate:   *)
(* CaptureScheduler and its runtime, HallCaptureExecutor,                  *)
(* HallCaptureCoordinator with HallOcrPolicy (Pi_Server/src/parking) and   *)
(* OcrWorker (src/ocr).  A plate that is read goes to                      *)
(* ParkingSlotManager::handleRecognizedSession.                            *)
(*                                                                         *)
(* The capture thread and the OCR thread both run the coordinator: an      *)
(* image the OCR queue rejects is folded by whoever submitted it.  How     *)
(* long 30 and 60 seconds are next to the threshold is left open.          *)
(***************************************************************************)
EXTENDS OverstayTimer

CONSTANTS
    CaptureRetries,    \* maxRetries of the scheduler
    OcrAttempts        \* maxAttempts of the policy

ASSUME CaptureAssumption == CaptureRetries \in Nat /\ OcrAttempts \in Nat \ {0}

VARIABLES
    sched,       \* captures of a session in sessions_ of the scheduler
    batch,       \* what due() returned and is not dispatched yet
    policy,      \* bindings_ and HallOcrPolicy; "none" if the session is unbound
    queue,       \* hall images in the queue of OcrWorker
    canceled,    \* canceled_session_ids_
    th           \* where the two threads are

Stages == {"30", "60"}
Threads == {"capture", "ocr"}

captureVars == <<sched, batch>>
hallVars == <<sched, batch, policy, queue, canceled, th>>
overstayVars == <<now, budget, rows, setting, timeout, healthy, mutex, timers,
                  generations, scheduled, timer, jobs, booked, evidence, told, missed>>

Untracked == [k \in Stages |-> [phase |-> "none", attempt |-> 0]]
Tracked == [k \in Stages |-> [phase |-> "Pending", attempt |-> 1]]
Unbound == [result |-> "none", stage |-> [k \in Stages |-> "NotArrived"], attempts |-> 0]
Bound == [Unbound EXCEPT !.result = "Pending"]

HallInit ==
    /\ sched = [s \in Sessions |-> Untracked] /\ batch = {}
    /\ policy = [s \in Sessions |-> Unbound]
    /\ queue = <<>> /\ canceled = {}
    /\ th = [t \in Threads |-> Idle]

IsBound(s) == policy[s].result # "none"

At(t, pc) == th[t].pc = pc
GoTo(t, pc) == th' = [th EXCEPT ![t].pc = pc]

\* What a thread does when the coordinator returns.
Return(t) == IF t = "capture" THEN [th[t] EXCEPT !.pc = "report"] ELSE Idle

-----------------------------------------------------------------------------
(***************************************************************************)
(* The capture thread                                                      *)
(***************************************************************************)
Capture(s, k) == [session |-> s, stage |-> k]

\* due(): the 30-second capture is due before the 60-second one.
due ==
    /\ At("capture", "idle") /\ batch = {}
    /\ \E ready \in SUBSET {c \in [session : Sessions, stage : Stages] :
                              sched[c.session][c.stage].phase = "Pending"} :
         /\ ready # {}
         /\ \A s \in Sessions :
              Capture(s, "60") \in ready /\ sched[s]["30"] = Tracked["30"]
                => Capture(s, "30") \in ready
         /\ batch' = ready
         /\ sched' = [s \in Sessions |-> [k \in Stages |->
                        IF Capture(s, k) \in ready
                        THEN [sched[s][k] EXCEPT !.phase = "Dispatching"]
                        ELSE sched[s][k]]]
    /\ UNCHANGED <<overstayVars, policy, queue, canceled, th>>

Dispatch(c, pc, ok) ==
    th' = [th EXCEPT !["capture"] =
             [pc |-> pc, session |-> c.session, stage |-> c.stage, plate |-> NoPlate,
              shot |-> c.stage, ok |-> ok]]

\* HallOcrPolicy::onImageArrived
Image(s, k) ==
    IF policy[s].result # "Pending" \/ policy[s].stage[k] # "NotArrived"
    THEN "EvidenceOnly"
    ELSE IF k = "60" /\ policy[s].stage["30"] = "Running" THEN "Held" ELSE "Running"

\* HallCaptureExecutor::execute: the camera fails, the image is refused, or it
\* is stored and may have to be read.
execute ==
    /\ At("capture", "idle")
    /\ \E c \in batch :
         /\ c.stage = "60" => Capture(c.session, "30") \notin batch
         /\ batch' = batch \ {c}
         /\ \/ Fails /\ Dispatch(c, "report", FALSE) /\ UNCHANGED <<rows, policy>>
            \/ /\ ~IsBound(c.session) \/ ~Inserts(c.session, c.stage)
               /\ Dispatch(c, "report", TRUE) /\ UNCHANGED <<rows, policy, budget>>
            \/ /\ UNCHANGED budget /\ IsBound(c.session) /\ Inserts(c.session, c.stage)
               /\ StoreImage(c.session, c.stage)
               /\ LET action == Image(c.session, c.stage)
                  IN  /\ Dispatch(c, IF action = "Running" THEN "submit" ELSE "report", TRUE)
                      /\ policy' = IF action = "EvidenceOnly" THEN policy
                           ELSE [policy EXCEPT ![c.session].stage[c.stage] = action]
    /\ UNCHANGED <<now, policyVars, mutex, timerVars, evidenceVars, told, missed,
                   sched, queue, canceled>>

AfterDispatch(capture, ok) ==
    IF ~ok /\ capture.attempt < 1 + CaptureRetries
    THEN [phase |-> "Pending", attempt |-> capture.attempt + 1]
    ELSE [capture EXCEPT !.phase = "Done"]

\* onDispatchResult: a session that ended meanwhile is not tracked any more.
onDispatchResult ==
    /\ At("capture", "report")
    /\ LET s == th["capture"].session
           k == th["capture"].shot
           after == [sched[s] EXCEPT ![k] = AfterDispatch(@, th["capture"].ok)]
       IN  sched' = IF sched[s][k].phase # "Dispatching" THEN sched
                    ELSE [sched EXCEPT ![s] =
                            IF \A l \in Stages : after[l].phase = "Done" THEN Untracked
                                                                         ELSE after]
    /\ th' = [th EXCEPT !["capture"] = Idle]
    /\ UNCHANGED <<overstayVars, batch, policy, queue, canceled>>

-----------------------------------------------------------------------------
(***************************************************************************)
(* The OCR thread, and the coordinator on either thread                    *)
(***************************************************************************)

\* enqueueHallCapture; the queue is shared, and may be full at any time.
enqueueHallCapture(t) ==
    /\ At(t, "submit")
    /\ \/ /\ th[t].session \notin canceled
          /\ queue' = Append(queue, Capture(th[t].session, th[t].stage))
          /\ th' = [th EXCEPT ![t] = Return(t)]
          /\ UNCHANGED budget
       \/ /\ th[t].session \in canceled
          /\ GoTo(t, "fold") /\ UNCHANGED <<queue, budget>>
       \/ Fails /\ GoTo(t, "fold") /\ UNCHANGED queue
    /\ UNCHANGED <<now, rows, policyVars, mutex, timerVars, evidenceVars, told, missed,
                   captureVars, policy, canceled>>

TakeTask ==
    /\ At("ocr", "idle") /\ queue # <<>>
    /\ queue' = Tail(queue)
    /\ th' = IF Head(queue).session \in canceled THEN th
             ELSE [th EXCEPT !["ocr"] =
                     [pc |-> "read", session |-> Head(queue).session,
                      stage |-> Head(queue).stage, plate |-> NoPlate]]
    /\ UNCHANGED <<overstayVars, captureVars, policy, canceled>>

\* The remote service reads a plate, reads none, or fails.
ReadPlate ==
    /\ At("ocr", "read")
    /\ IF th["ocr"].session \in canceled THEN th' = [th EXCEPT !["ocr"] = Idle]
       ELSE \/ GoTo("ocr", "fold")
            \/ \E p \in Classes :
                 th' = [th EXCEPT !["ocr"].pc = "apply", !["ocr"].plate = p]
    /\ UNCHANGED <<overstayVars, captureVars, policy, queue, canceled>>

\* applyPlateOcrWithEntrance; the result counts as recognized even if it failed.
ApplyPlate ==
    /\ At("ocr", "apply")
    /\ LET s == th["ocr"].session
       IN  \/ /\ Open(s)
              /\ rows' = [rows EXCEPT ![s].plate = th["ocr"].plate]
              /\ UNCHANGED <<missed, budget>>
           \/ ~Open(s) /\ UNCHANGED <<rows, missed, budget>>
           \/ Open(s) /\ Fails /\ missed' = missed \cup {s} /\ UNCHANGED rows
    /\ th' = IF th["ocr"].session \in canceled THEN [th EXCEPT !["ocr"] = Idle]
             ELSE [th EXCEPT !["ocr"].pc = "fold"]
    /\ UNCHANGED <<now, policyVars, mutex, timerVars, evidenceVars, told,
                   captureVars, policy, queue, canceled>>

\* Plausible bug: the image that waits is forgotten.
BugForgetHeld(p) == p

\* A held image that nobody needs to read any more.
Settle(p) == [p EXCEPT !.stage["60"] = IF @ = "Held" THEN "Done" ELSE @]

\* Plausible bug: exhausted one attempt early.
BugExhausted(attempts) == attempts + 1 >= OcrAttempts

Exhausted(attempts) == attempts >= OcrAttempts

\* onOcrOutcome and HallOcrPolicy::onOcrResult
onOcrOutcome(t) ==
    /\ At(t, "fold")
    /\ LET s == th[t].session
           k == th[t].stage
           done == [policy[s] EXCEPT !.stage[k] = "Done"]
           failed == [done EXCEPT !.attempts = @ + 1]
           Becomes(p) == policy' = [policy EXCEPT ![s] = p]
       IN  IF ~IsBound(s) \/ policy[s].stage[k] # "Running"
           THEN th' = [th EXCEPT ![t] = Return(t)] /\ UNCHANGED policy
           ELSE \/ /\ th[t].plate # NoPlate
                   /\ Becomes(Settle([done EXCEPT !.result = "Resolved"]))
                   /\ GoTo(t, "judge")
                \/ /\ th[t].plate = NoPlate /\ Exhausted(failed.attempts)
                   /\ Becomes(Settle([failed EXCEPT !.result = "Failed"]))
                   /\ GoTo(t, "unresolved")
                \/ /\ th[t].plate = NoPlate /\ ~Exhausted(failed.attempts)
                   /\ IF failed.stage["60"] = "Held"
                      THEN /\ Becomes([failed EXCEPT !.stage["60"] = "Running"])
                           /\ th' = [th EXCEPT ![t] = [@ EXCEPT !.pc = "submit", !.stage = "60"]]
                      ELSE /\ Becomes(failed)
                           /\ th' = [th EXCEPT ![t] = Return(t)]
    /\ UNCHANGED <<overstayVars, captureVars, queue, canceled>>

\* writeOcrFailure; when it throws the capture counts as failed.
writeOcrFailure(t) ==
    /\ At(t, "unresolved")
    /\ \/ /\ rows' = [rows EXCEPT ![th[t].session].unresolved = TRUE]
          /\ th' = [th EXCEPT ![t] = Return(t)]
          /\ UNCHANGED budget
       \/ /\ Fails
          /\ th' = [th EXCEPT ![t] =
                      IF t = "capture" THEN [Return(t) EXCEPT !.ok = FALSE] ELSE Idle]
          /\ UNCHANGED rows
    /\ UNCHANGED <<now, policyVars, mutex, timerVars, evidenceVars, told, missed,
                   captureVars, policy, queue, canceled>>

StartsTimer(s, plate) == Open(s) /\ plate = "EV" /\ s \notin scheduled
MarksNonEv(s, plate) == plate = "NON_EV" /\ markViolation(s)

\* handleRecognizedSession, for the plate that was read.
Judge ==
    /\ At("ocr", "judge") /\ mutex = "free"
    /\ LET s == th["ocr"].session
           plate == th["ocr"].plate
       IN  \/ /\ MarksNonEv(s, plate)
              /\ Mark(s) /\ mutex' = "ocr"
              /\ GoTo("ocr", "alert")
              /\ UNCHANGED <<timers, generations, scheduled, missed, budget>>
           \/ /\ StartsTimer(s, plate)
              /\ Schedule({s}, timeout) /\ scheduled' = scheduled \cup {s}
              /\ th' = [th EXCEPT !["ocr"] = Idle]
              /\ UNCHANGED <<rows, mutex, missed, budget>>
           \/ /\ ~MarksNonEv(s, plate) /\ ~StartsTimer(s, plate)
              /\ th' = [th EXCEPT !["ocr"] = Idle]
              /\ UNCHANGED <<rows, mutex, timers, generations, scheduled, missed, budget>>
           \/ /\ Fails /\ missed' = missed \cup {s}
              /\ th' = [th EXCEPT !["ocr"] = Idle]
              /\ UNCHANGED <<rows, mutex, timers, generations, scheduled>>
    /\ UNCHANGED <<now, policyVars, timer, evidenceVars, told,
                   captureVars, policy, queue, canceled>>

Alert ==
    /\ At("ocr", "alert")
    /\ TellViolation(th["ocr"].session)
    /\ mutex' = "free" /\ th' = [th EXCEPT !["ocr"] = Idle]
    /\ UNCHANGED <<clockVars, rows, policyVars, timerVars, evidenceVars, missed,
                   captureVars, policy, queue, canceled>>

Coordinator(t) == enqueueHallCapture(t) \/ onOcrOutcome(t) \/ writeOcrFailure(t)
CaptureThread == due \/ execute \/ onDispatchResult \/ Coordinator("capture")
OcrThread == TakeTask \/ ReadPlate \/ ApplyPlate \/ Judge \/ Alert \/ Coordinator("ocr")
=============================================================================
