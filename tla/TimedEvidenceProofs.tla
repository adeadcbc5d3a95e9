------------------------ MODULE TimedEvidenceProofs ------------------------
(***************************************************************************)
(* The captures, the evidence and the timer implement ParkingStay, a stay  *)
(* that ended in time is forgotten, a plate is given up only after images  *)
(* that gave none, and no violation is early: for every number of stays,   *)
(* threshold, retry limit, failure, crash and time.                        *)
(*                                                                         *)
(* StayInv: whoever tells a violation holds the mutex; what is owed of a   *)
(* stay that ended.  ReadingInv: where an image is while its plate is      *)
(* read.  FailuresInv: which images bear a failure.  DuesInv: how late     *)
(* the timers are due.                                                     *)
(***************************************************************************)
EXTENDS TimedEvidence, SequenceTheorems, FiniteSetTheorems, TLAPS

Rows == [stay : {"none", "parked", "left"}, entry : Nat, plate : Classes \cup {NoPlate},
         violated : BOOLEAN, unresolved : BOOLEAN,
         images : SUBSET ({"START", "OVERSTAY"} \cup Stages)]
Items == [session : Sessions, gen : Nat, due : Nat, tries : Nat]
Jobs == [session : Sessions, reason : Reasons, due : Nat, last : BOOLEAN]
Captures == [session : Sessions, stage : Stages]

ClockType == now \in Nat /\ setting \in [threshold : Thresholds, updating : BOOLEAN]
             /\ timeout \in Thresholds
RowsType == rows \in [Sessions -> Rows]
Announcements == Seq({"VIOLATION", "DEPARTURE"})
ToldType == told \in [Sessions -> Announcements]
TimerType ==
    /\ timers \subseteq Items /\ generations \in [Sessions -> Nat]
    /\ timer \in {Idle} \cup [pc : {"expired", "tell"}, item : Items]
JobType == jobs \subseteq Jobs /\ evidence \in {Idle} \cup [pc : {"shoot"}, job : Jobs]
CaptureStates == {Idle} \cup
    [pc : {"report", "submit", "fold", "unresolved"}, session : Sessions,
     stage : Stages, plate : {NoPlate}, shot : Stages, ok : BOOLEAN]
OcrStates == {Idle} \cup
    [pc : {"read", "apply", "submit", "fold", "unresolved", "judge", "alert"},
     session : Sessions, stage : Stages, plate : Classes \cup {NoPlate}]
ThreadStates(t) == IF t = "capture" THEN CaptureStates ELSE OcrStates
CaptureType ==
    /\ batch \subseteq Captures /\ queue \in Seq(Captures)
    /\ th = [t \in Threads |-> th[t]]
    /\ \A t \in Threads : th[t] \in ThreadStates(t)
SinkType ==
    /\ sink \in {Idle} \cup [pc : {"release", "depart"}, session : Sessions]
    /\ process \in [up : BOOLEAN, restoring : SUBSET Sessions]

TypeInv ==
    ClockType /\ RowsType /\ ToldType /\ TimerType /\ JobType /\ CaptureType /\ SinkType

-----------------------------------------------------------------------------
LEMMA ThresholdsPositive ==
    Thresholds \subseteq Nat \ {0} /\ Reasons \subseteq {"START", "OVERSTAY"}
BY OverstayAssumption DEF OverstayAssumption

LEMMA StoredRow ==
    ASSUME RowsType, NEW s \in Sessions, NEW i \in {"START", "OVERSTAY"} \cup Stages,
           StoreImage(s, i)
    PROVE  RowsType'
BY DEF StoreImage, RowsType, Rows

LEMMA OneMoreTold ==
    ASSUME ToldType, NEW s, NEW a \in {"VIOLATION", "DEPARTURE"},
           told' = [told EXCEPT ![s] = Append(@, a)]
    PROVE  ToldType'
<1>1. \A w \in Announcements : Append(w, a) \in Announcements
  BY DEF Announcements
<1> QED BY <1>1 DEF ToldType

LEMMA ItemType ==
    ASSUME ClockType, RowsType, TimerType, NEW s \in Sessions, NEW g \in Nat, NEW t \in Nat
    PROVE  TimerItem(s, g, t) \in Items
BY DEF TimerItem, Items, Deadline, Later, ClockType, RowsType, Rows

LEMMA ScheduleType ==
    ASSUME ClockType, RowsType, TimerType, NEW which \in SUBSET Sessions, NEW t \in Nat,
           Schedule(which, t)
    PROVE  timers' \subseteq Items /\ generations' \in [Sessions -> Nat]
<1>1. generations \in [Sessions -> Nat] /\ timers \subseteq Items
  BY DEF TimerType
<1>2. ASSUME NEW s \in which PROVE TimerItem(s, generations[s] + 1, t) \in Items
  BY <1>1, ItemType
<1>3. timers' \subseteq Items
  BY <1>1, <1>2 DEF Schedule
<1>4. generations' \in [Sessions -> Nat]
  BY <1>1 DEF Schedule
<1> QED BY <1>3, <1>4

LEMMA JobsForType ==
    ASSUME ClockType, RowsType, NEW s \in Sessions, NEW r \in SUBSET Reasons
    PROVE  JobsFor(s, r) \subseteq Jobs
<1> DEFINE J(q) == [session |-> s, reason |-> q,
                    due |-> IF q = "START" THEN now ELSE rows[s].entry + setting.threshold,
                    last |-> q = "OVERSTAY" \/ "OVERSTAY" \notin r]
<1>1. now \in Nat /\ rows[s].entry + setting.threshold \in Nat
  <2>1. rows[s].entry \in Nat
    BY DEF RowsType, Rows
  <2>2. setting.threshold \in Nat /\ now \in Nat
    BY ThresholdsPositive DEF ClockType
  <2> QED BY <2>1, <2>2
<1>2. \A q \in Reasons, d \in Nat, l \in BOOLEAN :
        [session |-> s, reason |-> q, due |-> d, last |-> l] \in Jobs
  BY DEF Jobs
<1>3. ASSUME NEW q \in r PROVE J(q) \in Jobs
  <2>1. (q = "OVERSTAY" \/ "OVERSTAY" \notin r) \in BOOLEAN
    OBVIOUS
  <2>2. (IF q = "START" THEN now ELSE rows[s].entry + setting.threshold) \in Nat
    BY <1>1
  <2> QED BY <1>2, <2>1, <2>2
<1>4. JobsFor(s, r) = {J(q) : q \in r}
  BY DEF JobsFor
<1> HIDE DEF J
<1> QED BY <1>3, <1>4

LEMMA DueChanged ==
    ASSUME NEW j \in Jobs, NEW d \in Nat PROVE [j EXCEPT !.due = d] \in Jobs
BY DEF Jobs

LEMMA ItemChanged ==
    ASSUME NEW i \in Items, NEW d \in Nat
    PROVE  /\ [i EXCEPT !.due = d] \in Items
           /\ [i EXCEPT !.due = d, !.tries = @ + 1] \in Items
<1>1. i.tries + 1 \in Nat /\ i \in Items
  BY DEF Items
<1>2. \A n \in Nat : [i EXCEPT !.due = d, !.tries = n] \in Items
  BY <1>1 DEF Items
<1>3. [i EXCEPT !.due = d] \in Items
  BY <1>1 DEF Items
<1> QED BY <1>1, <1>2, <1>3

LEMMA AskType ==
    ASSUME ClockType, JobType, NEW s, AskForEvidence(s) PROVE jobs' \subseteq Jobs
<1>1. \A j \in jobs : j \in Jobs /\ [j EXCEPT !.due = now] \in Jobs
  BY DueChanged DEF ClockType, JobType
<1>2. jobs' \subseteq jobs \cup {[j EXCEPT !.due = now] : j \in jobs}
  BY DEF AskForEvidence
<1> QED BY <1>1, <1>2

LEMMA MarkType ==
    ASSUME RowsType, NEW s \in Sessions, Mark(s) PROVE RowsType'
BY DEF Mark, RowsType, Rows

LEMMA RowChanged ==
    ASSUME RowsType, NEW s \in Sessions
    PROVE  /\ \A b \in BOOLEAN : [rows EXCEPT ![s].unresolved = b] \in [Sessions -> Rows]
           /\ \A p \in Classes : [rows EXCEPT ![s].plate = p] \in [Sessions -> Rows]
           /\ [rows EXCEPT ![s].images = {}] \in [Sessions -> Rows]
           /\ [rows EXCEPT ![s].stay = "left"] \in [Sessions -> Rows]
           /\ \A n \in Nat : [rows EXCEPT ![s].stay = "parked", ![s].entry = n]
                               \in [Sessions -> Rows]
<1> USE DEF RowsType
<1>1. rows[s] \in Rows
  OBVIOUS
<1>2. ASSUME NEW b \in BOOLEAN PROVE [rows[s] EXCEPT !.unresolved = b] \in Rows
  BY <1>1 DEF Rows
<1>3. ASSUME NEW p \in Classes PROVE [rows[s] EXCEPT !.plate = p] \in Rows
  BY <1>1 DEF Rows
<1>4. [rows[s] EXCEPT !.images = {}] \in Rows /\ [rows[s] EXCEPT !.stay = "left"] \in Rows
  BY <1>1 DEF Rows
<1>5. ASSUME NEW n \in Nat PROVE [rows[s] EXCEPT !.stay = "parked", !.entry = n] \in Rows
  BY <1>1 DEF Rows
<1>6. ASSUME NEW r \in Rows PROVE [rows EXCEPT ![s] = r] \in [Sessions -> Rows]
  OBVIOUS
<1>7. \A n \in Nat : [rows EXCEPT ![s].stay = "parked", ![s].entry = n]
                    = [rows EXCEPT ![s] = [rows[s] EXCEPT !.stay = "parked", !.entry = n]]
  OBVIOUS
<1> QED BY <1>2, <1>3, <1>4, <1>5, <1>6, <1>7

LEMMA QueueType ==
    ASSUME queue \in Seq(Captures), NEW c \in Captures
    PROVE  Append(queue, c) \in Seq(Captures)
           /\ (queue # <<>> => Tail(queue) \in Seq(Captures) /\ Head(queue) \in Captures)
OBVIOUS

LEMMA TypeInit == Init => TypeInv
BY ThresholdsPositive
   DEF Init, OverstayInit, HallInit, TypeInv, ClockType, RowsType, Rows, ToldType, Announcements,
       TimerType, JobType, CaptureType, SinkType, Captures, Idle, Threads, Items, Jobs,
       ThreadStates, CaptureStates, OcrStates

-----------------------------------------------------------------------------
LEMMA TimerWorkerType ==
    ASSUME TypeInv, TimerWorker, Rest PROVE TypeInv'
<1> USE DEF TypeInv, ClockType, ToldType, TimerType, JobType, CaptureType, SinkType,
            Rest, hallVars, sinkVars, policyVars, timerVars, evidenceVars, clockVars
<1>0. timer # Idle => timer \in [pc : {"expired", "tell"}, item : Items]
  OBVIOUS
<1>1. ASSUME timer # Idle PROVE timer.item \in Items /\ timer.item.session \in Sessions
  BY <1>0, <1>1 DEF Items
<1>2. CASE TakeExpired
  BY <1>2 DEF TakeExpired, RowsType
<1>3. CASE DropReplaced
  BY <1>3 DEF DropReplaced, RowsType
<1>4. CASE AwaitEvidence
  <2>1. timer.item \in Items
    BY <1>1, <1>4 DEF AwaitEvidence, Expired, Idle
  <2>2. timers' \subseteq Items
    <3>1. [timer.item EXCEPT !.due = now, !.tries = @ + 1] \in Items
      BY <2>1, ItemChanged
    <3>2. timers' = timers \cup {[timer.item EXCEPT !.due = now, !.tries = @ + 1]}
      BY <1>4 DEF AwaitEvidence
    <3> QED BY <3>1, <3>2
  <2>3. jobs' \subseteq Jobs
    BY <1>4, AskType DEF AwaitEvidence
  <2> QED BY <1>4, <2>2, <2>3 DEF AwaitEvidence, RowsType
<1>5. CASE MarkOverstay
  <2>1. timer.item \in Items /\ timer.item.session \in Sessions
    BY <1>1, <1>5 DEF MarkOverstay, Expired, Idle
  <2>2. RowsType'
    BY <2>1, <1>5, MarkType DEF MarkOverstay
  <2>3. jobs' \subseteq Jobs
    BY <1>5, AskType DEF MarkOverstay, EndsWaiting, JobType
  <2>4. timer' \in [pc : {"expired", "tell"}, item : Items]
    <3>1. timer \in [pc : {"expired", "tell"}, item : Items]
      BY <1>0, <1>5 DEF MarkOverstay, Expired, Idle
    <3>2. timer' = [timer EXCEPT !.pc = "tell"]
      BY <1>5 DEF MarkOverstay
    <3> HIDE DEF TypeInv
    <3> QED BY <3>1, <3>2
  <2>5. generations' \in [Sessions -> Nat]
    BY <1>5 DEF MarkOverstay
  <2> QED BY <1>5, <2>2, <2>3, <2>4, <2>5 DEF MarkOverstay
<1>6. CASE MarkNothing
  <2>1. jobs' \subseteq Jobs
    BY <1>6, AskType DEF MarkNothing, EndsWaiting, JobType
  <2> QED BY <1>6, <2>1 DEF MarkNothing, RowsType
<1>7. CASE MarkThrows
  <2>1. timer.item \in Items
    BY <1>1, <1>7 DEF MarkThrows, Expired, Idle
  <2>2. timers' \subseteq Items
    BY <2>1, <1>7, ItemChanged DEF MarkThrows, RetryItem
  <2>3. jobs' \subseteq Jobs
    BY <1>7, AskType DEF MarkThrows, JobType
  <2> QED BY <1>7, <2>2, <2>3 DEF MarkThrows, RowsType
<1>8. CASE TellOverstay
  <2>1. ToldType'
    BY <1>8, OneMoreTold DEF TellOverstay, TellViolation
  <2> QED BY <1>8, <2>1 DEF TellOverstay, RowsType
<1> QED BY <1>2, <1>3, <1>4, <1>5, <1>6, <1>7, <1>8 DEF TimerWorker

LEMMA EvidenceWorkerType ==
    ASSUME TypeInv, EvidenceWorker, Rest PROVE TypeInv'
<1> USE DEF TypeInv, ClockType, ToldType, TimerType, JobType, CaptureType, SinkType,
            Rest, hallVars, sinkVars, policyVars, timerVars, evidenceVars, clockVars
<1>1. CASE TakeJob
  BY <1>1 DEF TakeJob, RowsType
<1>2. CASE FinishJob
  <2>1. evidence.job \in Jobs
    BY <1>2 DEF FinishJob, Idle
  <2>2. evidence.job.session \in Sessions
        /\ evidence.job.reason \in {"START", "OVERSTAY"} \cup Stages
    BY <2>1, ThresholdsPositive DEF Jobs
  <2>3. RowsType'
    <3>1. CASE UNCHANGED rows
      BY <3>1 DEF RowsType
    <3>2. CASE StoreImage(evidence.job.session, evidence.job.reason)
      BY <2>2, <3>2, StoredRow
    <3> QED BY <1>2, <3>1, <3>2 DEF FinishJob
  <2> QED BY <1>2, <2>3 DEF FinishJob
<1> QED BY <1>1, <1>2 DEF EvidenceWorker

LEMMA SettingsType ==
    ASSUME TypeInv, Settings PROVE TypeInv'
<1> USE DEF TypeInv, ClockType, ToldType, TimerType, JobType, CaptureType, SinkType,
            Rest, hallVars, sinkVars, policyVars, timerVars, evidenceVars, clockVars
<1>1. ASSUME NEW t \in Thresholds, UpdateSetting(t), Rest PROVE TypeInv'
  <2>1. \A j \in jobs : /\ j \in Jobs
                        /\ [j EXCEPT !.due = rows[j.session].entry + t] \in Jobs
    <3> SUFFICES ASSUME NEW j \in jobs
                 PROVE  [j EXCEPT !.due = rows[j.session].entry + t] \in Jobs
      OBVIOUS
    <3>1. j.session \in Sessions
      BY DEF Jobs
    <3>2. rows[j.session].entry + t \in Nat
      BY <3>1, ThresholdsPositive DEF RowsType, Rows
    <3> QED BY <3>2, DueChanged
  <2>2. jobs' \subseteq jobs \cup {[j EXCEPT !.due = rows[j.session].entry + t] : j \in jobs}
    BY <1>1 DEF UpdateSetting
  <2>3. jobs' \subseteq Jobs
    BY <2>1, <2>2
  <2> QED BY <1>1, <2>3 DEF UpdateSetting, RowsType
<1>2. CASE UpdateTimers /\ Rest
  <2>1. PICK which \in SUBSET TimedByRow : Schedule(which, setting.threshold)
    BY <1>2 DEF UpdateTimers
  <2>2. which \in SUBSET Sessions /\ setting.threshold \in Nat
    BY ThresholdsPositive DEF TimedByRow
  <2>3. timers' \subseteq Items /\ generations' \in [Sessions -> Nat]
    <3>1. ClockType /\ RowsType /\ TimerType
      OBVIOUS
    <3> HIDE DEF TypeInv, ClockType, ToldType, TimerType, JobType, CaptureType, SinkType
    <3> QED BY <2>1, <2>2, <3>1, ScheduleType
  <2>4. setting' \in [threshold : Thresholds, updating : BOOLEAN] /\ timeout' \in Thresholds
    BY <1>2 DEF UpdateTimers
  <2> QED BY <1>2, <2>3, <2>4 DEF UpdateTimers, RowsType
<1> QED BY <1>1, <1>2 DEF Settings

Held == <<sinkVars, process, crashes>>

\* Where a thread may be, and how it gets there.
LEMMA ThreadSet ==
    ASSUME CaptureType, NEW t \in Threads, NEW v \in ThreadStates(t),
           th' = [th EXCEPT ![t] = v]
    PROVE  /\ th' = [u \in Threads |-> th'[u]]
           /\ \A u \in Threads : th'[u] \in ThreadStates(u)
BY DEF CaptureType, ThreadStates

LEMMA Moved ==
    ASSUME NEW t \in Threads, NEW v \in ThreadStates(t), v.pc # "idle",
           NEW pc \in {"submit", "fold", "unresolved"}
                     \cup (IF t = "ocr" THEN {"apply", "judge", "alert"} ELSE {"report"})
    PROVE  /\ [v EXCEPT !.pc = pc] \in ThreadStates(t)
           /\ [v EXCEPT !.pc = pc, !.stage = "60"] \in ThreadStates(t)
<1>1. CASE t = "capture"
  <2>1. v \in [pc : {"report", "submit", "fold", "unresolved"}, session : Sessions,
             stage : Stages, plate : {NoPlate}, shot : Stages, ok : BOOLEAN]
    BY <1>1 DEF ThreadStates, CaptureStates, Idle
  <2>2. pc \in {"report", "submit", "fold", "unresolved"} /\ "60" \in Stages
    BY <1>1 DEF Stages
  <2> QED BY <1>1, <2>1, <2>2 DEF ThreadStates, CaptureStates
<1>2. CASE t = "ocr"
  <2>1. v \in [pc : {"read", "apply", "submit", "fold", "unresolved", "judge", "alert"},
             session : Sessions, stage : Stages, plate : Classes \cup {NoPlate}]
    BY <1>2 DEF ThreadStates, OcrStates, Idle
  <2>2. pc \in {"submit", "fold", "unresolved", "apply", "judge", "alert"}
        /\ "60" \in Stages
    BY <1>2 DEF Stages
  <2> QED BY <1>2, <2>1, <2>2 DEF ThreadStates, OcrStates
<1> QED BY <1>1, <1>2 DEF Threads

LEMMA Returned ==
    ASSUME CaptureType, NEW t \in Threads, th[t].pc # "idle"
    PROVE  /\ Return(t) \in ThreadStates(t)
           /\ t = "capture" => [Return(t) EXCEPT !.ok = FALSE] \in ThreadStates(t)
           /\ Idle \in ThreadStates(t)
<1>1. th[t] \in ThreadStates(t)
  BY DEF CaptureType
<1>2. CASE t = "capture"
  <2>1. th[t] \in [pc : {"report", "submit", "fold", "unresolved"}, session : Sessions,
                 stage : Stages, plate : {NoPlate}, shot : Stages, ok : BOOLEAN]
    BY <1>1, <1>2 DEF ThreadStates, CaptureStates, Idle
  <2>2. Return(t) = [th[t] EXCEPT !.pc = "report"]
    BY <1>2 DEF Return
  <2>3. Return(t) \in [pc : {"report", "submit", "fold", "unresolved"}, session : Sessions,
                      stage : Stages, plate : {NoPlate}, shot : Stages, ok : BOOLEAN]
    BY <2>1, <2>2
  <2>4. [Return(t) EXCEPT !.ok = FALSE] \in
          [pc : {"report", "submit", "fold", "unresolved"}, session : Sessions,
           stage : Stages, plate : {NoPlate}, shot : Stages, ok : BOOLEAN]
    BY <2>3
  <2> QED BY <1>2, <2>3, <2>4 DEF ThreadStates, CaptureStates
<1>3. CASE t = "ocr"
  BY <1>3 DEF Return, ThreadStates, OcrStates
<1> QED BY <1>2, <1>3 DEF Threads

LEMMA GoToType ==
    ASSUME CaptureType, NEW t \in Threads, th[t].pc # "idle",
           NEW pc \in {"submit", "fold", "unresolved"}
                     \cup (IF t = "ocr" THEN {"apply", "judge", "alert"} ELSE {"report"}),
           GoTo(t, pc)
    PROVE  /\ th' = [u \in Threads |-> th'[u]]
           /\ \A u \in Threads : th'[u] \in ThreadStates(u)
<1>1. th[t] \in ThreadStates(t) /\ th = [u \in Threads |-> th[u]]
  BY DEF CaptureType
<1>2. th' = [th EXCEPT ![t] = [th[t] EXCEPT !.pc = pc]]
  BY DEF GoTo
<1>3. [th[t] EXCEPT !.pc = pc] \in ThreadStates(t)
  BY <1>1, Moved
<1> QED BY <1>2, <1>3, ThreadSet

LEMMA CoordinatorType ==
    ASSUME TypeInv, NEW t \in Threads, Coordinator(t), UNCHANGED Held PROVE TypeInv'
<1> USE DEF TypeInv, ClockType, ToldType, TimerType, JobType, SinkType, Held, overstayVars,
            captureVars, sinkVars, policyVars, timerVars, evidenceVars, clockVars
<1> DEFINE Threaded == /\ th' = [u \in Threads |-> th'[u]]
                       /\ \A u \in Threads : th'[u] \in ThreadStates(u)
<1>0. ASSUME th[t].pc # "idle"
      PROVE  /\ th[t] \in ThreadStates(t)
             /\ th[t].session \in Sessions /\ th[t].stage \in Stages
  BY <1>0 DEF CaptureType, ThreadStates, CaptureStates, OcrStates, Idle
<1>r. ASSUME th[t].pc # "idle", th' = [th EXCEPT ![t] = Return(t)] PROVE Threaded
  BY <1>r, Returned, ThreadSet
<1>1. CASE enqueueHallCapture(t)
  <2>1. th[t].pc # "idle"
    BY <1>1 DEF enqueueHallCapture, At
  <2>2. th' = [th EXCEPT ![t] = Return(t)] \/ GoTo(t, "fold")
    BY <1>1 DEF enqueueHallCapture
  <2>4. Threaded
    BY <1>r, <2>1, <2>2, GoToType
  <2>3. queue' \in Seq(Captures)
    <3>1. Capture(th[t].session, th[t].stage) \in Captures
      BY <1>0, <2>1 DEF Capture, Captures
    <3>2. queue \in Seq(Captures)
      BY DEF CaptureType
    <3>3. queue' = queue \/ queue' = Append(queue, Capture(th[t].session, th[t].stage))
      BY <1>1 DEF enqueueHallCapture
    <3> HIDE DEF TypeInv
    <3> QED BY <3>1, <3>2, <3>3, QueueType
  <2> QED BY <1>1, <2>4, <2>3 DEF enqueueHallCapture, RowsType, CaptureType
<1>2. CASE onOcrOutcome(t)
  <2>1. th[t].pc # "idle" /\ th[t] \in ThreadStates(t)
    BY <1>0, <1>2 DEF onOcrOutcome, At
  <2>2. \/ th' = [th EXCEPT ![t] = Return(t)]
        \/ th[t].plate # NoPlate /\ GoTo(t, "judge")
        \/ GoTo(t, "unresolved")
        \/ th' = [th EXCEPT ![t] = [th[t] EXCEPT !.pc = "submit", !.stage = "60"]]
    BY <1>2 DEF onOcrOutcome, CaptureType
  <2>3. th[t].plate # NoPlate => t = "ocr"
    BY <2>1 DEF ThreadStates, CaptureStates, Idle, Threads
  <2>4. [th[t] EXCEPT !.pc = "submit", !.stage = "60"] \in ThreadStates(t)
    BY <2>1, Moved
  <2>5. Threaded
    BY <1>r, <2>1, <2>2, <2>3, <2>4, GoToType, ThreadSet
  <2> QED BY <1>2, <2>5 DEF onOcrOutcome, RowsType, CaptureType
<1>3. CASE writeOcrFailure(t)
  <2>1. th[t].pc # "idle"
    BY <1>3 DEF writeOcrFailure, At
  <2>2. \/ th' = [th EXCEPT ![t] = Return(t)]
        \/ th' = [th EXCEPT ![t] =
                     IF t = "capture" THEN [Return(t) EXCEPT !.ok = FALSE] ELSE Idle]
    BY <1>3 DEF writeOcrFailure
  <2>3. Threaded
    <3> DEFINE v == IF t = "capture" THEN [Return(t) EXCEPT !.ok = FALSE] ELSE Idle
    <3>1. v \in ThreadStates(t)
      BY <2>1, Returned
    <3>2. CASE th' = [th EXCEPT ![t] = v]
      <4> HIDE DEF v
      <4> QED BY <3>1, <3>2, ThreadSet
    <3> QED BY <1>r, <2>1, <2>2, <3>2
  <2>4. RowsType'
    <3>1. rows' = rows \/ rows' = [rows EXCEPT ![th[t].session].unresolved = TRUE]
      BY <1>3 DEF writeOcrFailure
    <3>2. rows \in [Sessions -> Rows] /\ th[t].session \in Sessions
      BY <1>0, <2>1 DEF RowsType
    <3> HIDE DEF TypeInv
    <3>3. [rows EXCEPT ![th[t].session].unresolved = TRUE] \in [Sessions -> Rows]
      BY <3>2, RowChanged DEF RowsType
    <3> QED BY <3>1, <3>2, <3>3 DEF RowsType
  <2> QED BY <1>3, <2>3, <2>4 DEF writeOcrFailure, CaptureType
<1> QED BY <1>1, <1>2, <1>3 DEF Coordinator

LEMMA CaptureRuntimeType ==
    ASSUME TypeInv, CaptureRuntime PROVE TypeInv'
<1> USE DEF TypeInv, ClockType, ToldType, TimerType, JobType, SinkType, overstayVars,
            captureVars, sinkVars, policyVars, timerVars, evidenceVars, clockVars
<1>c. "capture" \in Threads
  BY DEF Threads
<1>r. CaptureRuntime => UNCHANGED Held
  BY DEF CaptureRuntime, Held
<1>1. CASE due
  <2>1. batch' \subseteq Captures
    BY <1>1 DEF due, Captures
  <2> QED BY <1>1, <1>r, <2>1 DEF due, RowsType, CaptureType, Held
<1>2. CASE execute
  <2>1. PICK c \in batch :
          /\ batch' = batch \ {c}
          /\ \E pc \in {"report", "submit"}, ok \in BOOLEAN : Dispatch(c, pc, ok)
          /\ UNCHANGED rows \/ StoreImage(c.session, c.stage)
    BY <1>2 DEF execute
  <2>2. c.session \in Sessions /\ c.stage \in Stages
    BY DEF CaptureType, Captures
  <2>3. RowsType'
    <3>1. CASE UNCHANGED rows
      BY <3>1 DEF RowsType
    <3>2. CASE StoreImage(c.session, c.stage)
      BY <2>2, <3>2, StoredRow
    <3> QED BY <2>1, <3>1, <3>2
  <2>4. /\ th' = [u \in Threads |-> th'[u]]
        /\ \A u \in Threads : th'[u] \in ThreadStates(u)
    <3>1. PICK pc \in {"report", "submit"}, ok \in BOOLEAN : Dispatch(c, pc, ok)
      BY <2>1
    <3> DEFINE v == [pc |-> pc, session |-> c.session, stage |-> c.stage, plate |-> NoPlate,
                     shot |-> c.stage, ok |-> ok]
    <3>2. v \in ThreadStates("capture")
      BY <2>2 DEF ThreadStates, CaptureStates
    <3>3. th' = [th EXCEPT !["capture"] = v]
      BY <3>1 DEF Dispatch
    <3> HIDE DEF v
    <3> QED BY <1>c, <3>2, <3>3, ThreadSet
  <2> QED BY <1>2, <1>r, <2>1, <2>3, <2>4 DEF execute, CaptureType, Held
<1>3. CASE onDispatchResult
  <2>1. Idle \in ThreadStates("capture") /\ th' = [th EXCEPT !["capture"] = Idle]
    BY <1>3 DEF onDispatchResult, ThreadStates, CaptureStates
  <2>2. /\ th' = [u \in Threads |-> th'[u]]
        /\ \A u \in Threads : th'[u] \in ThreadStates(u)
    BY <1>c, <2>1, ThreadSet
  <2> QED BY <1>3, <1>r, <2>2 DEF onDispatchResult, RowsType, CaptureType, Held
<1>4. CASE Coordinator("capture")
  BY <1>4, <1>c, <1>r, CoordinatorType
<1> QED BY <1>1, <1>2, <1>3, <1>4 DEF CaptureRuntime, CaptureThread

LEMMA OcrType ==
    ASSUME TypeInv, Ocr PROVE TypeInv'
<1> USE DEF TypeInv, ClockType, ToldType, TimerType, JobType, SinkType, overstayVars,
            captureVars, sinkVars, policyVars, timerVars, evidenceVars, clockVars
<1>o. "ocr" \in Threads
  BY DEF Threads
<1>r. UNCHANGED Held
  BY DEF Ocr, Held
<1> DEFINE Threaded == /\ th' = [u \in Threads |-> th'[u]]
                       /\ \A u \in Threads : th'[u] \in ThreadStates(u)
<1>i. ASSUME th' = [th EXCEPT !["ocr"] = Idle] PROVE Threaded
  <2>1. Idle \in ThreadStates("ocr")
    BY DEF ThreadStates, OcrStates
  <2> QED BY <1>i, <1>o, <2>1, ThreadSet
<1>s. th["ocr"].pc # "idle" =>
        /\ th["ocr"] \in [pc : {"read", "apply", "submit", "fold", "unresolved", "judge", "alert"},
                          session : Sessions, stage : Stages, plate : Classes \cup {NoPlate}]
        /\ th["ocr"].session \in Sessions
  BY <1>o DEF CaptureType, ThreadStates, OcrStates, Idle
<1>1. CASE TakeTask
  <2>1. queue \in Seq(Captures) /\ queue # <<>>
    BY <1>1 DEF TakeTask, CaptureType
  <2>2. queue' \in Seq(Captures) /\ Head(queue) \in Captures
    <3> HIDE DEF TypeInv
    <3> QED BY <1>1, <2>1, QueueType DEF TakeTask
  <2>3. Threaded
    <3> DEFINE v == [pc |-> "read", session |-> Head(queue).session,
                     stage |-> Head(queue).stage, plate |-> NoPlate]
    <3>1. Head(queue).session \in Sessions /\ Head(queue).stage \in Stages
      BY <2>2 DEF Captures
    <3>2. v \in ThreadStates("ocr")
      BY <3>1 DEF ThreadStates, OcrStates
    <3>3. th' = th \/ th' = [th EXCEPT !["ocr"] = v]
      BY <1>1 DEF TakeTask
    <3> HIDE DEF v
    <3> QED BY <1>o, <3>2, <3>3, ThreadSet DEF CaptureType
  <2> QED BY <1>1, <1>r, <2>2, <2>3 DEF TakeTask, RowsType, CaptureType, Held
<1>2. CASE ReadPlate
  <2>1. th["ocr"].pc # "idle"
    BY <1>2 DEF ReadPlate, At
  <2>2. Threaded
    <3>1. ASSUME NEW p \in Classes, th' = [th EXCEPT !["ocr"].pc = "apply", !["ocr"].plate = p]
          PROVE  Threaded
      <4> DEFINE v == [th["ocr"] EXCEPT !.pc = "apply", !.plate = p]
      <4>1. v \in ThreadStates("ocr")
        BY <1>s, <2>1 DEF ThreadStates, OcrStates
      <4>2. th' = [th EXCEPT !["ocr"] = v]
        BY <3>1 DEF CaptureType
      <4> HIDE DEF v
      <4> QED BY <1>o, <4>1, <4>2, ThreadSet
    <3>2. \/ th' = [th EXCEPT !["ocr"] = Idle]
          \/ GoTo("ocr", "fold")
          \/ \E p \in Classes : th' = [th EXCEPT !["ocr"].pc = "apply", !["ocr"].plate = p]
      BY <1>2 DEF ReadPlate
    <3> QED BY <1>i, <1>o, <2>1, <3>1, <3>2, GoToType
  <2> QED BY <1>2, <1>r, <2>2 DEF ReadPlate, RowsType, CaptureType, Held
<1>3. CASE ApplyPlate
  <2>1. th["ocr"].pc = "apply"
    BY <1>3 DEF ApplyPlate, At
  <2>2. Threaded
    <3>1. \/ th' = [th EXCEPT !["ocr"] = Idle]
          \/ GoTo("ocr", "fold")
      BY <1>3 DEF ApplyPlate, GoTo
    <3> QED BY <1>i, <1>o, <2>1, <3>1, GoToType
  <2>3. RowsType'
    <3>1. UNCHANGED rows \/ rows' = [rows EXCEPT ![th["ocr"].session].plate = th["ocr"].plate]
      BY <1>3 DEF ApplyPlate
    <3>2. th["ocr"].session \in Sessions /\ th["ocr"].plate \in Classes \cup {NoPlate}
      BY <1>s, <2>1
    <3>3. rows \in [Sessions -> Rows]
      BY DEF RowsType
    <3> HIDE DEF TypeInv
    <3>4. [rows[th["ocr"].session] EXCEPT !.plate = th["ocr"].plate] \in Rows
      BY <3>2, <3>3 DEF Rows
    <3> QED BY <3>1, <3>2, <3>3, <3>4 DEF RowsType
  <2> QED BY <1>3, <1>r, <2>2, <2>3 DEF ApplyPlate, CaptureType, Held
<1>4. CASE Judge
  <2>1. th["ocr"].pc = "judge"
    BY <1>4 DEF Judge, At
  <2>2. th["ocr"].session \in Sessions
    BY <1>s, <2>1
  <2>3. Threaded
    <3>1. th' = [th EXCEPT !["ocr"] = Idle] \/ GoTo("ocr", "alert")
      BY <1>4 DEF Judge
    <3> QED BY <1>i, <1>o, <2>1, <3>1, GoToType
  <2>4. RowsType'
    <3>1. UNCHANGED rows \/ Mark(th["ocr"].session)
      BY <1>4 DEF Judge
    <3> QED BY <2>2, <3>1, MarkType DEF RowsType
  <2>5. timers' \subseteq Items /\ generations' \in [Sessions -> Nat]
    <3>1. UNCHANGED <<timers, generations>> \/ Schedule({th["ocr"].session}, timeout)
      BY <1>4 DEF Judge
    <3>2. timeout \in Nat
      BY ThresholdsPositive
    <3>3. /\ ClockType /\ RowsType /\ TimerType
          /\ timers \subseteq Items /\ generations \in [Sessions -> Nat]
      OBVIOUS
    <3> HIDE DEF TypeInv, ClockType, ToldType, TimerType, JobType, CaptureType, SinkType
    <3> QED BY <2>2, <3>1, <3>2, <3>3, ScheduleType
  <2> QED BY <1>4, <1>r, <2>3, <2>4, <2>5 DEF Judge, CaptureType, Held
<1>5. CASE Alert
  <2>1. Threaded
    BY <1>5, <1>i DEF Alert
  <2>2. ToldType'
    BY <1>5, OneMoreTold DEF Alert, TellViolation
  <2> QED BY <1>5, <1>r, <2>1, <2>2 DEF Alert, RowsType, CaptureType, Held
<1>6. CASE Coordinator("ocr")
  BY <1>6, <1>o, <1>r, CoordinatorType
<1> QED BY <1>1, <1>2, <1>3, <1>4, <1>5, <1>6 DEF Ocr, OcrThread

LEMMA SessionType ==
    ASSUME TypeInv, NEW s \in Sessions, Arrive(s) \/ Leave(s) PROVE TypeInv'
<1> USE DEF TypeInv, ClockType, ToldType, TimerType, JobType, CaptureType, SinkType, hallVars,
            captureVars, sinkVars, policyVars, timerVars, evidenceVars, clockVars
<1>1. CASE Arrive(s)
  <2>1. rows' = [rows EXCEPT ![s].stay = "parked", ![s].entry = now]
    BY <1>1 DEF Arrive
  <2>2. RowsType'
    BY <2>1, RowChanged DEF RowsType
  <2> QED BY <1>1, <2>2 DEF Arrive
<1>2. CASE Leave(s)
  <2>1. rows' = [rows EXCEPT ![s].stay = "left"]
    BY <1>2 DEF Leave
  <2>2. RowsType'
    BY <2>1, RowChanged DEF RowsType
  <2> QED BY <1>2, <2>2 DEF Leave
<1> QED BY <1>1, <1>2

LEMMA TickType ==
    ASSUME TypeInv, Tick PROVE TypeInv'
BY DEF Tick, TypeInv, ClockType, ToldType, TimerType, JobType, CaptureType, SinkType, hallVars,
       captureVars, sinkVars, policyVars, timerVars, evidenceVars, clockVars, RowsType

LEMMA SinkWorkType ==
    ASSUME TypeInv, Sink PROVE TypeInv'
<1> USE DEF TypeInv, ClockType, ToldType, TimerType, JobType, CaptureType, SinkType, hallVars,
            captureVars, sinkVars, policyVars, timerVars, evidenceVars, clockVars
<1>s. sink # Idle => sink \in [pc : {"release", "depart"}, session : Sessions]
                     /\ sink.session \in Sessions
  OBVIOUS
<1>1. ASSUME NEW s \in Sessions, SessionStarted(s) PROVE TypeInv'
  <2>1. jobs' \subseteq Jobs
    <3>1. jobs' = jobs \/ jobs' = jobs \cup JobsFor(s, Reasons)
      BY <1>1 DEF SessionStarted
    <3> QED BY <3>1, JobsForType
  <2> QED BY <1>1, <2>1 DEF SessionStarted, RowsType
<1>2. ASSUME NEW s \in Sessions, SessionEnded(s) PROVE TypeInv'
  BY <1>2 DEF SessionEnded, RowsType
<1>3. CASE ReleaseSession
  <2>1. sink.session \in Sessions /\ sink' = [sink EXCEPT !.pc = "depart"]
    BY <1>3, <1>s DEF ReleaseSession, Idle
  <2>2. sink' \in [pc : {"release", "depart"}, session : Sessions]
    BY <1>3, <2>1, <1>s DEF ReleaseSession, Idle
  <2>3. RowsType'
    <3>1. PICK b \in BOOLEAN : rows' = [rows EXCEPT ![sink.session].unresolved = b]
      <4> DEFINE c == rows[sink.session].unresolved \/ SettledAtClose(policy[sink.session])
      <4>1. rows[sink.session].unresolved \in BOOLEAN
        BY <2>1 DEF RowsType, Rows
      <4>2. c \in BOOLEAN
        BY <4>1 DEF SettledAtClose
      <4>3. rows' = [rows EXCEPT ![sink.session].unresolved = c]
        BY <1>3, <2>1 DEF ReleaseSession, RowsType
      <4> QED BY <4>2, <4>3
    <3> QED BY <2>1, <3>1, RowChanged DEF RowsType
  <2> QED BY <1>3, <2>2, <2>3 DEF ReleaseSession
<1>4. CASE ReleaseThrows
  BY <1>4 DEF ReleaseThrows, RowsType
<1>5. CASE Depart
  <2>1. sink.session \in Sessions
    BY <1>5, <1>s DEF Depart, Idle
  <2>2. RowsType'
    <3>1. rows' = rows \/ rows' = [rows EXCEPT ![sink.session].images = {}]
      BY <1>5 DEF Depart
    <3>2. RowsType
      OBVIOUS
    <3> HIDE DEF TypeInv
    <3>3. [rows EXCEPT ![sink.session].images = {}] \in [Sessions -> Rows]
      BY <2>1, <3>2, RowChanged
    <3>4. CASE rows' = rows
      BY <3>2, <3>4 DEF RowsType
    <3> QED BY <3>1, <3>3, <3>4 DEF RowsType
  <2>3. ToldType'
    BY <1>5, OneMoreTold DEF Depart
  <2> QED BY <1>5, <2>2, <2>3 DEF Depart
<1> QED BY <1>1, <1>2, <1>3, <1>4, <1>5 DEF Sink

LEMMA CrashType ==
    ASSUME TypeInv, Crash PROVE TypeInv'
<1> USE DEF TypeInv, ClockType, ToldType, TimerType, JobType, CaptureType, SinkType, clockVars
<1>1. \A t \in Threads : Idle \in ThreadStates(t)
  BY DEF ThreadStates, CaptureStates, OcrStates
<1>2. queue' \in Seq(Captures) /\ generations' \in [Sessions -> Nat]
  BY DEF Crash
<1> QED BY <1>1, <1>2 DEF Crash, RowsType

LEMMA StartupType ==
    ASSUME TypeInv, Startup PROVE TypeInv'
<1> USE DEF TypeInv, ClockType, ToldType, TimerType, JobType, CaptureType, SinkType, hallVars,
            captureVars, sinkVars, policyVars, timerVars, evidenceVars, clockVars
<1>1. CASE Restart
  <2>1. jobs' \subseteq Jobs
    <3>1. ASSUME NEW s \in Sessions PROVE JobsFor(s, Missing(s)) \subseteq Jobs
      BY JobsForType DEF Missing
    <3>2. PICK which \in SUBSET Sessions :
            jobs' = UNION {JobsFor(s, Missing(s)) : s \in which}
      BY <1>1 DEF Restart
    <3> QED BY <3>1, <3>2
  <2> QED BY <1>1, <2>1 DEF Restart, RowsType
<1>2. CASE RestoreTimer
  <2>1. PICK s \in process.restoring :
          /\ process' = [process EXCEPT !.restoring = @ \ {s}]
          /\ rows' = IF MarksNonEv(s, rows[s].plate)
                     THEN [rows EXCEPT ![s].violated = TRUE] ELSE rows
          /\ LET which == {r \in {s} : StartsTimer(r, rows[r].plate)}
             IN  Schedule(which, timeout)
    BY <1>2 DEF RestoreTimer
  <2>2. s \in Sessions /\ timeout \in Nat
    BY ThresholdsPositive
  <2>3. timers' \subseteq Items /\ generations' \in [Sessions -> Nat]
    <3>1. PICK which \in SUBSET {s} : Schedule(which, timeout)
      BY <2>1
    <3>2. which \in SUBSET Sessions
      BY <2>2, <3>1
    <3>3. ClockType /\ RowsType /\ TimerType
      OBVIOUS
    <3> HIDE DEF TypeInv, ClockType, ToldType, TimerType, JobType, CaptureType, SinkType
    <3> QED BY <2>2, <3>1, <3>2, <3>3, ScheduleType
  <2>4. RowsType'
    <3>1. rows' = rows \/ Mark(s)
      BY <2>1 DEF Mark
    <3>2. RowsType
      OBVIOUS
    <3> HIDE DEF TypeInv
    <3> QED BY <2>2, <3>1, <3>2, MarkType DEF RowsType
  <2> QED BY <1>2, <2>1, <2>3, <2>4 DEF RestoreTimer
<1> QED BY <1>1, <1>2 DEF Startup

LEMMA StutterType ==
    ASSUME TypeInv, UNCHANGED vars PROVE TypeInv'
BY DEF vars, overstayVars, hallVars, TypeInv, ClockType, RowsType, ToldType, TimerType,
       JobType, CaptureType, SinkType

\* Every variable keeps its type, whatever the constants.
THEOREM TypeCorrect == Spec => []TypeInv
<1>1. TypeInv /\ [Next]_vars => TypeInv'
  <2> SUFFICES ASSUME TypeInv, [Next]_vars PROVE TypeInv'
    OBVIOUS
  <2>1. CASE \E s \in Sessions : Arrive(s) \/ Leave(s)
    BY <2>1, SessionType
  <2>2. CASE Timer
    BY <2>2, TimerWorkerType DEF Timer
  <2>3. CASE Evidence
    BY <2>3, EvidenceWorkerType DEF Evidence
  <2> QED BY <2>1, <2>2, <2>3, TickType, SinkWorkType, SettingsType, CaptureRuntimeType,
             OcrType, CrashType, StartupType, StutterType DEF Next
<1> QED BY TypeInit, <1>1, PTL DEF Spec

-----------------------------------------------------------------------------
(***************************************************************************)
(* Who may announce a violation, and which effects are still owed          *)
(***************************************************************************)
TimerTells == timer.pc = "tell"
OcrAlerts == th["ocr"].pc = "alert"
Teller(s) == (TimerTells /\ timer.item.session = s) \/ (OcrAlerts /\ th["ocr"].session = s)
MutexInv ==
    /\ TimerTells <=> mutex = "timer"
    /\ OcrAlerts <=> mutex = "ocr"

\* A violation that is being told was never told, and the car has not been
\* seen off: the end waits for the mutex.
ToldInv ==
    \A s \in Sessions :
        /\ Teller(s) => /\ rows[s].violated /\ told[s] = <<>>
                        /\ sink # Idle => sink.session # s
        /\ told[s] # <<>> => rows[s].violated \/ rows[s].stay = "left"

OwedInv ==
    /\ owed \in [Sessions -> Seq({"start", "end"})]
    /\ \A s \in Sessions :
         /\ rows[s].stay = "none" => owed[s] = <<>>
         /\ rows[s].stay = "parked" => owed[s] \in {<<>>, <<"start">>}
         /\ rows[s].stay = "left" => owed[s] \in {<<>>, <<"end">>, <<"start", "end">>}
    /\ sink # Idle => rows[sink.session].stay = "left" /\ owed[sink.session] = <<"end">>

StayInv == MutexInv /\ ToldInv /\ OwedInv /\ EndedInTimeIsForgotten

StayVars == <<[s \in Sessions |-> rows[s].stay], [s \in Sessions |-> rows[s].violated],
              told, [s \in Sessions |-> rows[s].images]>>

\* What most steps leave alone.
QuietRow(s) == /\ rows'[s].stay = rows[s].stay
               /\ rows'[s].violated = rows[s].violated
               /\ rows'[s].images = rows[s].images
QuietTellers == /\ UNCHANGED <<mutex, TimerTells, OcrAlerts>>
                /\ \A s \in Sessions : Teller(s)' => Teller(s)
Quiet == QuietTellers /\ UNCHANGED <<told, owed, sink>>

LEMMA StayInit == Init => StayInv
BY DEF Init, OverstayInit, HallInit, StayInv, MutexInv, ToldInv, OwedInv, EndedInTimeIsForgotten,
       TimerTells, OcrAlerts, Teller, Idle, Threads

LEMMA QuietStep ==
    ASSUME StayInv, Quiet, \A s \in Sessions : QuietRow(s), SinkType
    PROVE  StayInv' /\ UNCHANGED StayVars
<1> USE DEF StayInv, Quiet, QuietTellers, QuietRow
<1>1. MutexInv'
  BY DEF MutexInv
<1>2. ToldInv'
  BY DEF ToldInv
<1>3. OwedInv'
  <2>1. sink # Idle => sink.session \in Sessions
    BY DEF SinkType
  <2> QED BY <2>1 DEF OwedInv
<1>4. EndedInTimeIsForgotten'
  BY DEF EndedInTimeIsForgotten
<1>5. UNCHANGED StayVars
  BY DEF StayVars
<1> QED BY <1>1, <1>2, <1>3, <1>4, <1>5

\* An image is stored, and nothing else happens that the promise is about.
LEMMA StoreStep ==
    ASSUME TypeInv, StayInv, Quiet, NEW s \in Sessions,
           NEW i \in {"START", "OVERSTAY"} \cup Stages, Inserts(s, i), StoreImage(s, i)
    PROVE  StayInv' /\ [PS!Next]_StayVars
<1> USE DEF StayInv, Quiet, QuietTellers, StoreImage, Inserts, Open
<1>0. rows \in [Sessions -> Rows] /\ SinkType
  BY DEF TypeInv, RowsType
<1>r. /\ \A u \in Sessions : rows'[u].stay = rows[u].stay /\ rows'[u].violated = rows[u].violated
      /\ \A u \in Sessions \ {s} : rows'[u].images = rows[u].images
      /\ rows'[s].images = rows[s].images \cup {i}
  BY <1>0 DEF Rows
<1>1. MutexInv'
  BY DEF MutexInv
<1>2. ToldInv'
  BY <1>r DEF ToldInv
<1>3. OwedInv'
  <2>1. sink # Idle => sink.session \in Sessions
    BY <1>0 DEF SinkType
  <2> QED BY <1>r, <2>1 DEF OwedInv
<1>4. EndedInTimeIsForgotten'
  BY <1>r DEF EndedInTimeIsForgotten
<1>5. PS!Store(s)
  <2>1. [u \in Sessions |-> rows'[u].images]
          = [[u \in Sessions |-> rows[u].images] EXCEPT ![s] = @ \cup {i}]
    BY <1>r
  <2>2. i \in {"START", "OVERSTAY", "30", "60"} \ rows[s].images
    BY DEF Stages
  <2>3. UNCHANGED <<[u \in Sessions |-> rows[u].stay], [u \in Sessions |-> rows[u].violated], told>>
    BY <1>r
  <2> QED BY <2>1, <2>2, <2>3 DEF PS!Store
<1> QED BY <1>1, <1>2, <1>3, <1>4, <1>5 DEF PS!Next

\* The row of an active session is marked; who marks it may go on to tell.
LEMMA MarkStep ==
    ASSUME TypeInv, StayInv, NEW s \in Sessions, Active(s), Mark(s), MutexInv',
           \A u \in Sessions : Teller(u)' => u = s,
           UNCHANGED <<told, owed, sink>>
    PROVE  StayInv' /\ [PS!Next]_StayVars
<1> USE DEF StayInv, Mark, Active, Open
<1>0. rows \in [Sessions -> Rows] /\ SinkType
  BY DEF TypeInv, RowsType
<1>r. /\ \A u \in Sessions : rows'[u].stay = rows[u].stay /\ rows'[u].images = rows[u].images
      /\ \A u \in Sessions \ {s} : rows'[u].violated = rows[u].violated
      /\ rows'[s].violated
  BY <1>0 DEF Rows
<1>s. sink # Idle => sink.session \in Sessions /\ sink.session # s
  BY <1>0 DEF SinkType, OwedInv
<1>2. ToldInv'
  BY <1>r, <1>s DEF ToldInv
<1>3. OwedInv'
  BY <1>r, <1>s DEF OwedInv
<1>4. EndedInTimeIsForgotten'
  BY <1>r DEF EndedInTimeIsForgotten
<1>5. PS!Judge(s)
  <2>1. [u \in Sessions |-> rows'[u].violated]
          = [[u \in Sessions |-> rows[u].violated] EXCEPT ![s] = TRUE]
    <3>1. rows'[s].violated = TRUE
      BY <1>0 DEF Rows
    <3>2. \A u \in Sessions : rows'[u].violated = IF u = s THEN TRUE ELSE rows[u].violated
      BY <1>r, <3>1
    <3>3. [u \in Sessions |-> rows'[u].violated]
            = [u \in Sessions |-> IF u = s THEN TRUE ELSE rows[u].violated]
      BY <3>2
    <3>4. [[u \in Sessions |-> rows[u].violated] EXCEPT ![s] = TRUE]
            = [u \in Sessions |-> IF u = s THEN TRUE ELSE rows[u].violated]
      BY Zenon
    <3> QED BY <3>3, <3>4
  <2>3. UNCHANGED <<[u \in Sessions |-> rows[u].stay], told, [u \in Sessions |-> rows[u].images]>>
    BY <1>r
  <2> QED BY <2>1, <2>3 DEF PS!Judge
<1> QED BY <1>2, <1>3, <1>4, <1>5 DEF PS!Next

\* The violation is told, and the mutex is free again.
LEMMA TellStep ==
    ASSUME TypeInv, StayInv, NEW s \in Sessions, Teller(s), TellViolation(s),
           mutex' = "free", ~TimerTells', ~OcrAlerts', UNCHANGED <<rows, owed, sink>>
    PROVE  StayInv' /\ [PS!Next]_StayVars
<1> USE DEF StayInv, TellViolation
<1>0. told \in [Sessions -> Announcements] /\ SinkType
  BY DEF TypeInv, ToldType
<1>t. told' = [told EXCEPT ![s] = <<"VIOLATION">>] /\ told[s] = <<>> /\ rows[s].violated
  <2>1. Append(<<>>, "VIOLATION") = <<"VIOLATION">>
    OBVIOUS
  <2> QED BY <1>0, <2>1 DEF ToldInv
<1>1. MutexInv'
  BY DEF MutexInv
<1>2. ToldInv'
  BY <1>0, <1>t DEF ToldInv, Teller
<1>3. OwedInv'
  BY DEF OwedInv
<1>4. EndedInTimeIsForgotten'
  BY DEF EndedInTimeIsForgotten
<1>5. PS!TellViolation(s)
  BY <1>t DEF PS!TellViolation
<1> QED BY <1>1, <1>2, <1>3, <1>4, <1>5 DEF PS!Next

-----------------------------------------------------------------------------
(***************************************************************************)
(* Every action keeps StayInv and is a step of ParkingStay or none         *)
(***************************************************************************)
Good == StayInv' /\ [PS!Next]_StayVars

LEMMA SameRows ==
    ASSUME TypeInv, StayInv, Quiet, UNCHANGED rows PROVE Good
BY QuietStep DEF Good, QuietRow, TypeInv

LEMMA TimerStay ==
    ASSUME TypeInv, StayInv, Timer PROVE Good
<1> USE DEF hallVars, sinkVars, policyVars, timerVars, evidenceVars, clockVars, Rest, Timer
<1>0. timer # Idle => timer \in [pc : {"expired", "tell"}, item : Items]
                      /\ timer.item.session \in Sessions
  BY DEF TypeInv, TimerType, Items
<1>m. MutexInv
  BY DEF StayInv
<1>1. ASSUME TakeExpired \/ DropReplaced \/ AwaitEvidence \/ MarkNothing \/ MarkThrows
      PROVE  Good
  <2>1. ~TimerTells /\ ~TimerTells'
    BY <1>1 DEF TakeExpired, DropReplaced, AwaitEvidence, MarkNothing, MarkThrows, Expired,
                TimerTells, Idle
  <2>2. UNCHANGED <<rows, told, mutex, th, owed, sink>>
    BY <1>1 DEF TakeExpired, DropReplaced, AwaitEvidence, MarkNothing, MarkThrows
  <2>3. Quiet
    BY <2>1, <2>2 DEF Quiet, QuietTellers, Teller, TimerTells, OcrAlerts
  <2> QED BY <2>2, <2>3, SameRows
<1>2. CASE MarkOverstay
  <2> DEFINE s == timer.item.session
  <2>1. timer \in [pc : {"expired", "tell"}, item : Items] /\ s \in Sessions
    BY <1>0, <1>2 DEF MarkOverstay, Expired, Idle
  <2>2. /\ Active(s) /\ Mark(s) /\ mutex = "free" /\ mutex' = "timer"
        /\ timer' = [timer EXCEPT !.pc = "tell"] /\ UNCHANGED <<told, owed, sink, th>>
    BY <1>2 DEF MarkOverstay, Expired, markViolation
  <2>3. timer'.pc = "tell" /\ timer'.item = timer.item
    <3>1. timer' = [timer EXCEPT !.pc = "tell"]
          /\ timer \in [pc : {"expired", "tell"}, item : Items]
      BY <2>1, <2>2
    <3> HIDE DEF s
    <3> QED BY <3>1
  <2>4. MutexInv'
    BY <1>m, <2>2, <2>3 DEF MutexInv, TimerTells, OcrAlerts
  <2>5. \A u \in Sessions : Teller(u)' => u = s
    BY <1>m, <2>2, <2>3 DEF Teller, MutexInv, OcrAlerts
  <2> QED BY <2>1, <2>2, <2>4, <2>5, MarkStep DEF Good
<1>3. CASE TellOverstay
  <2> DEFINE s == timer.item.session
  <2>1. s \in Sessions /\ Teller(s) /\ TimerTells
    BY <1>0, <1>3 DEF TellOverstay, Idle, Teller, TimerTells
  <2>2. mutex' = "free" /\ timer' = Idle /\ UNCHANGED <<rows, th, owed, sink>>
        /\ TellViolation(s)
    BY <1>3 DEF TellOverstay
  <2>3. ~TimerTells' /\ ~OcrAlerts'
    BY <1>m, <2>1, <2>2 DEF MutexInv, TimerTells, OcrAlerts, Idle
  <2> QED BY <2>1, <2>2, <2>3, TellStep DEF Good
<1> QED BY <1>1, <1>2, <1>3 DEF TimerWorker

LEMMA EvidenceStay ==
    ASSUME TypeInv, StayInv, Evidence PROVE Good
<1> USE DEF hallVars, sinkVars, policyVars, timerVars, evidenceVars, clockVars, Rest, Evidence
<1>1. Quiet
  BY DEF EvidenceWorker, TakeJob, FinishJob, Quiet, QuietTellers, Teller, TimerTells, OcrAlerts
<1>2. CASE UNCHANGED rows
  BY <1>1, <1>2, SameRows
<1>3. CASE ~UNCHANGED rows
  <2>1. evidence \in [pc : {"shoot"}, job : Jobs]
    BY <1>3 DEF EvidenceWorker, TakeJob, FinishJob, TypeInv, JobType, Idle
  <2>2. evidence.job.session \in Sessions
        /\ evidence.job.reason \in {"START", "OVERSTAY"} \cup Stages
    BY <2>1, ThresholdsPositive DEF Jobs
  <2>3. /\ Inserts(evidence.job.session, evidence.job.reason)
        /\ StoreImage(evidence.job.session, evidence.job.reason)
    BY <1>3 DEF EvidenceWorker, TakeJob, FinishJob
  <2> QED BY <1>1, <2>2, <2>3, StoreStep DEF Good
<1> QED BY <1>2, <1>3

LEMMA SettingsStay ==
    ASSUME TypeInv, StayInv, Settings PROVE Good
<1> USE DEF hallVars, sinkVars, policyVars, timerVars, evidenceVars, clockVars, Rest
<1>1. UNCHANGED <<rows, told, mutex, timer, th, owed, sink>>
  BY DEF Settings, UpdateSetting, UpdateTimers
<1>2. Quiet
  BY <1>1 DEF Quiet, QuietTellers, Teller, TimerTells, OcrAlerts
<1> QED BY <1>1, <1>2, SameRows

\* A step of the coordinator, on either thread.
LEMMA CoordinatorStay ==
    ASSUME TypeInv, StayInv, NEW t \in Threads, Coordinator(t), UNCHANGED Held PROVE Good
<1> USE DEF overstayVars, captureVars, sinkVars, policyVars, timerVars, evidenceVars,
            clockVars, Held
<1>0. UNCHANGED <<told, mutex, timer, owed, sink>>
  BY DEF Coordinator, enqueueHallCapture, onOcrOutcome, writeOcrFailure
<1>1. PICK v : th' = [th EXCEPT ![t] = v] /\ (t = "ocr" => v.pc # "alert")
  <2>1. CASE t = "capture"
    BY <2>1 DEF Coordinator, enqueueHallCapture, onOcrOutcome, writeOcrFailure, GoTo
  <2>2. CASE t = "ocr"
    <3>1. th = [u \in Threads |-> th[u]]
      BY DEF TypeInv, CaptureType
    <3>2. th["ocr"].pc # "idle" =>
            th["ocr"] \in [pc : {"read", "apply", "submit", "fold", "unresolved", "judge", "alert"},
                           session : Sessions, stage : Stages, plate : Classes \cup {NoPlate}]
      BY <2>2 DEF TypeInv, CaptureType, ThreadStates, OcrStates, Idle
    <3>3. th["ocr"].pc # "idle"
      BY <2>2 DEF Coordinator, enqueueHallCapture, onOcrOutcome, writeOcrFailure, At
    <3>4. ASSUME NEW pc \in {"fold", "judge", "unresolved"}, GoTo(t, pc)
          PROVE  th' = [th EXCEPT !["ocr"] = [th["ocr"] EXCEPT !.pc = pc]]
                 /\ [th["ocr"] EXCEPT !.pc = pc].pc # "alert"
      BY <2>2, <3>1, <3>2, <3>3, <3>4 DEF GoTo
    <3>5. [th["ocr"] EXCEPT !.pc = "submit", !.stage = "60"].pc # "alert"
          /\ Return("ocr").pc # "alert" /\ Idle.pc # "alert"
      BY <3>2, <3>3 DEF Return, Idle
    <3>6. \/ \E pc \in {"fold", "judge", "unresolved"} : GoTo(t, pc)
          \/ th' = [th EXCEPT !["ocr"] = Return("ocr")] \/ th' = [th EXCEPT !["ocr"] = Idle]
          \/ th' = [th EXCEPT !["ocr"] = [th["ocr"] EXCEPT !.pc = "submit", !.stage = "60"]]
      BY <2>2, <3>1 DEF Coordinator, enqueueHallCapture, onOcrOutcome, writeOcrFailure
    <3> QED BY <2>2, <3>4, <3>5, <3>6
  <2> QED BY <2>1, <2>2 DEF Threads
<1>2. th = [u \in Threads |-> th[u]] /\ Threads = {"capture", "ocr"}
  BY DEF TypeInv, CaptureType, Threads
<1>3. At(t, "submit") \/ At(t, "fold") \/ At(t, "unresolved")
  BY DEF Coordinator, enqueueHallCapture, onOcrOutcome, writeOcrFailure
<1>4. Quiet
  <2>1. CASE t = "capture"
    <3>1. th'["ocr"] = th["ocr"]
      BY <1>1, <1>2, <2>1
    <3> QED BY <1>0, <3>1 DEF Quiet, QuietTellers, Teller, TimerTells, OcrAlerts
  <2>2. CASE t = "ocr"
    <3>1. th'["ocr"].pc # "alert" /\ th["ocr"].pc # "alert"
      BY <1>1, <1>2, <1>3, <2>2 DEF At
    <3> QED BY <1>0, <3>1 DEF Quiet, QuietTellers, Teller, TimerTells, OcrAlerts
  <2> QED BY <1>2, <2>1, <2>2
<1>5. \A s \in Sessions : QuietRow(s)
  <2>1. rows \in [Sessions -> Rows]
    BY DEF TypeInv, RowsType
  <2>2. UNCHANGED rows \/ rows' = [rows EXCEPT ![th[t].session].unresolved = TRUE]
    BY DEF Coordinator, enqueueHallCapture, onOcrOutcome, writeOcrFailure
  <2> QED BY <2>1, <2>2 DEF QuietRow, Rows
<1> QED BY <1>4, <1>5, QuietStep DEF Good, TypeInv

LEMMA CaptureStay ==
    ASSUME TypeInv, StayInv, CaptureRuntime PROVE Good
<1> USE DEF overstayVars, captureVars, sinkVars, policyVars, timerVars, evidenceVars, clockVars
<1>1. CASE Coordinator("capture")
  BY <1>1, CoordinatorStay DEF CaptureRuntime, Held, Threads
<1>2. ASSUME due \/ execute \/ onDispatchResult PROVE Good
  <2>1. UNCHANGED <<told, mutex, timer, owed, sink>> /\ th'["ocr"] = th["ocr"]
    BY <1>2 DEF due, execute, Dispatch, onDispatchResult, CaptureRuntime, TypeInv, CaptureType,
                Threads
  <2>2. Quiet
    BY <2>1 DEF Quiet, QuietTellers, Teller, TimerTells, OcrAlerts
  <2>3. CASE UNCHANGED rows
    BY <2>2, <2>3, SameRows
  <2>4. CASE ~UNCHANGED rows
    <3>1. PICK c \in batch : Inserts(c.session, c.stage) /\ StoreImage(c.session, c.stage)
      BY <1>2, <2>4 DEF due, execute, onDispatchResult
    <3>2. c.session \in Sessions /\ c.stage \in {"START", "OVERSTAY"} \cup Stages
      BY DEF TypeInv, CaptureType, Captures
    <3> QED BY <2>2, <3>1, <3>2, StoreStep DEF Good
  <2> QED BY <2>3, <2>4
<1> QED BY <1>1, <1>2 DEF CaptureRuntime, CaptureThread

LEMMA OcrStay ==
    ASSUME TypeInv, StayInv, Ocr PROVE Good
<1> USE DEF overstayVars, captureVars, sinkVars, policyVars, timerVars, evidenceVars, clockVars
<1> DEFINE s == th["ocr"].session
<1>m. MutexInv /\ th = [u \in Threads |-> th[u]] /\ "ocr" \in Threads
  BY DEF StayInv, TypeInv, CaptureType, Threads
<1>s. th["ocr"].pc # "idle" =>
        /\ th["ocr"] \in [pc : {"read", "apply", "submit", "fold", "unresolved", "judge", "alert"},
                          session : Sessions, stage : Stages, plate : Classes \cup {NoPlate}]
        /\ s \in Sessions
  BY <1>m DEF TypeInv, CaptureType, ThreadStates, OcrStates, Idle
<1>1. CASE Coordinator("ocr")
  BY <1>1, <1>m, CoordinatorStay DEF Ocr, Held
<1>q. ASSUME UNCHANGED <<told, mutex, timer, owed, sink>>, ~OcrAlerts, ~OcrAlerts' PROVE Quiet
  BY <1>q DEF Quiet, QuietTellers, Teller, TimerTells, OcrAlerts
<1>2. ASSUME TakeTask \/ ReadPlate PROVE Good
  <2>1. UNCHANGED <<rows, told, mutex, timer, owed, sink>> /\ ~OcrAlerts
    BY <1>2 DEF TakeTask, ReadPlate, Ocr, OcrAlerts, At, Idle
  <2>2. ~OcrAlerts'
    <3>1. CASE TakeTask
      BY <2>1, <3>1, <1>m DEF TakeTask, OcrAlerts
    <3>2. CASE ReadPlate
      <4>1. \/ th' = [th EXCEPT !["ocr"] = Idle]
            \/ th' = [th EXCEPT !["ocr"].pc = "fold"]
            \/ \E p \in Classes :
                 th' = [th EXCEPT !["ocr"] = [[th["ocr"] EXCEPT !.pc = "apply"] EXCEPT !.plate = p]]
        BY <3>2, <1>m DEF ReadPlate, GoTo
      <4>2. \A p \in Classes : [[th["ocr"] EXCEPT !.pc = "apply"] EXCEPT !.plate = p].pc = "apply"
        BY <3>2, <1>s DEF ReadPlate, At
      <4>3. Idle.pc # "alert" /\ [th["ocr"] EXCEPT !.pc = "fold"].pc # "alert"
        BY <3>2, <1>s DEF ReadPlate, At, Idle
      <4>4. PICK v : th' = [th EXCEPT !["ocr"] = v] /\ v.pc # "alert"
        <5>1. CASE th' = [th EXCEPT !["ocr"].pc = "fold"]
          BY <5>1, <4>3
        <5> QED BY <4>1, <4>2, <4>3, <5>1
      <4> QED BY <1>m, <4>4 DEF OcrAlerts
    <3> QED BY <1>2, <3>1, <3>2
  <2> QED BY <1>q, <2>1, <2>2, SameRows
<1>3. CASE ApplyPlate
  <2>1. UNCHANGED <<told, mutex, timer, owed, sink>> /\ ~OcrAlerts
    BY <1>3 DEF ApplyPlate, Ocr, OcrAlerts, At
  <2>2. ~OcrAlerts'
    BY <1>3, <1>m, <1>s DEF ApplyPlate, OcrAlerts, At, Idle
  <2>3. \A u \in Sessions : QuietRow(u)
    <3>1. UNCHANGED rows \/ rows' = [rows EXCEPT ![s].plate = th["ocr"].plate]
      BY <1>3 DEF ApplyPlate
    <3>2. rows \in [Sessions -> Rows]
      BY DEF TypeInv, RowsType
    <3> HIDE DEF s
    <3> QED BY <3>1, <3>2 DEF QuietRow, Rows
  <2> QED BY <1>q, <2>1, <2>2, <2>3, QuietStep DEF Good, TypeInv
<1>4. CASE Judge
  <2>1. UNCHANGED <<told, timer, owed, sink>> /\ mutex = "free" /\ s \in Sessions
        /\ th["ocr"].pc = "judge"
    BY <1>4, <1>s DEF Judge, Ocr, At
  <2>2. ~OcrAlerts /\ ~TimerTells
    BY <1>m, <2>1 DEF MutexInv
  <2>3. CASE UNCHANGED <<rows, mutex>> /\ th' = [th EXCEPT !["ocr"] = Idle]
    <3>1. ~OcrAlerts'
      BY <1>m, <2>3 DEF OcrAlerts, Idle
    <3> QED BY <1>q, <2>1, <2>2, <2>3, <3>1, SameRows
  <2>4. CASE MarksNonEv(s, th["ocr"].plate) /\ Mark(s) /\ mutex' = "ocr" /\ GoTo("ocr", "alert")
    <3>1. th'["ocr"].pc = "alert" /\ th'["ocr"].session = th["ocr"].session
      BY <1>m, <1>s, <2>1, <2>4 DEF GoTo
    <3>2. MutexInv'
      BY <2>1, <2>2, <2>4, <3>1 DEF MutexInv, TimerTells, OcrAlerts
    <3>3. \A u \in Sessions : Teller(u)' => u = s
      BY <2>1, <2>2, <3>1 DEF Teller, TimerTells
    <3>4. Active(s)
      BY <2>4 DEF MarksNonEv, markViolation
    <3> QED BY <2>1, <2>4, <3>2, <3>3, <3>4, MarkStep DEF Good
  <2> QED BY <1>4, <2>3, <2>4 DEF Judge
<1>5. CASE Alert
  <2>1. s \in Sessions /\ Teller(s) /\ OcrAlerts
    BY <1>5, <1>s DEF Alert, At, Teller, OcrAlerts
  <2>2. /\ mutex' = "free" /\ th' = [th EXCEPT !["ocr"] = Idle] /\ TellViolation(s)
        /\ UNCHANGED <<rows, timer, owed, sink>>
    BY <1>5 DEF Alert, Ocr
  <2>3. ~TimerTells' /\ ~OcrAlerts'
    BY <1>m, <2>1, <2>2 DEF MutexInv, TimerTells, OcrAlerts, Idle
  <2> QED BY <2>1, <2>2, <2>3, TellStep DEF Good
<1> QED BY <1>1, <1>2, <1>3, <1>4, <1>5 DEF Ocr, OcrThread

LEMMA EndAppended == Append(<<"start">>, "end") = <<"start", "end">>
<1> DEFINE p == Append(<<"start">>, "end")
           q == <<"start", "end">>
           S == {"start", "end"}
<1>1. <<"start">> \in Seq(S)
  OBVIOUS
<1>2. q \in Seq(S) /\ Len(q) = 2 /\ q[1] = "start" /\ q[2] = "end"
  OBVIOUS
<1>3. p \in Seq(S) /\ Len(p) = 2 /\ p[1] = "start" /\ p[2] = "end"
  BY <1>1
<1>4. \A i \in 1..2 : i = 1 \/ i = 2
  OBVIOUS
<1> HIDE DEF p, q, S
<1>5. p = q
  BY <1>2, <1>3, <1>4, SeqEqual
<1> QED BY <1>5 DEF p, q

\* A transition is stored, and its effect is owed from then on.
LEMMA SessionStay ==
    ASSUME TypeInv, StayInv, NEW s \in Sessions, Arrive(s) \/ Leave(s) PROVE Good
<1> USE DEF StayInv, hallVars, policyVars, timerVars, evidenceVars, clockVars
<1>0. rows \in [Sessions -> Rows] /\ SinkType
  BY DEF TypeInv, RowsType
<1>t. UNCHANGED <<told, mutex, timer, th, sink>>
  BY DEF Arrive, Leave
<1>o. \A u \in Sessions \ {s} : rows'[u] = rows[u] /\ owed'[u] = owed[u]
  BY <1>0 DEF Arrive, Leave, OwedInv
<1>s. sink # Idle => sink.session \in Sessions /\ sink.session # s
  BY <1>0 DEF SinkType, OwedInv, Arrive, Leave, Open
<1>r. /\ rows'[s].violated = rows[s].violated /\ rows'[s].images = rows[s].images
      /\ \/ rows[s].stay = "none" /\ rows'[s].stay = "parked" /\ owed'[s] = Append(owed[s], "start")
         \/ rows[s].stay = "parked" /\ rows'[s].stay = "left" /\ owed'[s] = Append(owed[s], "end")
  BY <1>0 DEF Arrive, Leave, Open, OwedInv, Rows
<1>1. MutexInv'
  BY <1>t DEF MutexInv, TimerTells, OcrAlerts
<1>2. ToldInv'
  BY <1>t, <1>o, <1>r DEF ToldInv, Teller, TimerTells, OcrAlerts
<1>e. /\ Append(<<>>, "start") = <<"start">> /\ Append(<<>>, "end") = <<"end">>
      /\ Append(<<"start">>, "end") = <<"start", "end">>
  BY EndAppended
<1>p. /\ rows'[s].stay = "parked" => owed'[s] = <<"start">>
      /\ rows'[s].stay = "left" => owed'[s] \in {<<"end">>, <<"start", "end">>}
  BY <1>r, <1>e DEF OwedInv
<1>3. OwedInv'
  <2>1. owed' \in [Sessions -> Seq({"start", "end"})]
    <3>1. PICK e \in {"start", "end"} : owed' = [owed EXCEPT ![s] = Append(@, e)]
      BY DEF Arrive, Leave
    <3>2. Append(owed[s], e) \in Seq({"start", "end"})
      BY DEF OwedInv
    <3> QED BY <3>1, <3>2 DEF OwedInv
  <2>2. sink' # Idle => rows'[sink'.session].stay = "left" /\ owed'[sink'.session] = <<"end">>
    BY <1>t, <1>s, <1>o DEF OwedInv
  <2>3. ASSUME NEW u \in Sessions
        PROVE /\ rows'[u].stay = "none" => owed'[u] = <<>>
              /\ rows'[u].stay = "parked" => owed'[u] \in {<<>>, <<"start">>}
              /\ rows'[u].stay = "left" => owed'[u] \in {<<>>, <<"end">>, <<"start", "end">>}
    BY <1>o, <1>r, <1>p DEF OwedInv
  <2> QED BY <2>1, <2>2, <2>3 DEF OwedInv
<1>4. EndedInTimeIsForgotten'
  <2>1. owed'[s] # <<>>
    BY <1>r, <1>p
  <2> QED BY <1>o, <2>1 DEF EndedInTimeIsForgotten
<1>5. [PS!Next]_StayVars
  <2>1. UNCHANGED <<[u \in Sessions |-> rows[u].violated], told,
                    [u \in Sessions |-> rows[u].images]>>
    BY <1>t, <1>o, <1>r
  <2>2. \/ /\ rows[s].stay = "none"
           /\ [u \in Sessions |-> rows'[u].stay]
                = [[u \in Sessions |-> rows[u].stay] EXCEPT ![s] = "parked"]
        \/ /\ rows[s].stay = "parked"
           /\ [u \in Sessions |-> rows'[u].stay]
                = [[u \in Sessions |-> rows[u].stay] EXCEPT ![s] = "left"]
    BY <1>o, <1>r
  <2>3. PS!Arrive(s) \/ PS!Leave(s)
    BY <2>1, <2>2 DEF PS!Arrive, PS!Leave
  <2> QED BY <2>3 DEF PS!Next
<1> QED BY <1>1, <1>2, <1>3, <1>4, <1>5 DEF Good

LEMMA TickStay ==
    ASSUME TypeInv, StayInv, Tick PROVE Good
<1>1. Quiet /\ UNCHANGED rows
  BY DEF Tick, hallVars, sinkVars, policyVars, timerVars, evidenceVars, Quiet, QuietTellers,
         Teller, TimerTells, OcrAlerts
<1> QED BY <1>1, SameRows

LEMMA CrashStay ==
    ASSUME TypeInv, StayInv, Crash PROVE Good
<1> USE DEF StayInv
<1>1. UNCHANGED <<rows, told, owed>> /\ mutex' = "free" /\ sink' = Idle
      /\ ~TimerTells' /\ ~OcrAlerts'
  BY DEF Crash, TimerTells, OcrAlerts, Idle, Threads
<1>2. MutexInv' /\ ToldInv' /\ OwedInv' /\ EndedInTimeIsForgotten'
  BY <1>1 DEF MutexInv, ToldInv, OwedInv, EndedInTimeIsForgotten, Teller
<1> QED BY <1>1, <1>2 DEF Good, StayVars

LEMMA StartupStay ==
    ASSUME TypeInv, StayInv, Startup PROVE Good
<1> USE DEF hallVars, sinkVars, policyVars, timerVars, evidenceVars, clockVars
<1>1. UNCHANGED <<told, mutex, timer, th, owed, sink>>
  BY DEF Startup, Restart, RestoreTimer
<1>2. Quiet
  BY <1>1 DEF Quiet, QuietTellers, Teller, TimerTells, OcrAlerts
<1>3. CASE UNCHANGED rows
  BY <1>2, <1>3, SameRows
<1>4. CASE ~UNCHANGED rows
  <2>1. PICK s \in process.restoring : MarksNonEv(s, rows[s].plate) /\ Mark(s)
    BY <1>4 DEF Startup, Restart, RestoreTimer, Mark
  <2>2. s \in Sessions /\ Active(s)
    BY <2>1 DEF TypeInv, SinkType, MarksNonEv, markViolation
  <2>3. mutex = "free" /\ MutexInv
    BY <1>4 DEF Startup, Restart, RestoreTimer, StayInv
  <2>4. MutexInv' /\ \A u \in Sessions : ~Teller(u)'
    BY <1>1, <2>3 DEF MutexInv, Teller, TimerTells, OcrAlerts
  <2> QED BY <1>1, <2>1, <2>2, <2>4, MarkStep DEF Good
<1> QED BY <1>3, <1>4

\* An effect that is acknowledged is the first that was owed.
LEMMA OwedStep ==
    ASSUME OwedInv, NEW s \in Sessions, owed[s] # <<>>, Acknowledge(s)
    PROVE  /\ owed' \in [Sessions -> Seq({"start", "end"})]
           /\ \A u \in Sessions \ {s} : owed'[u] = owed[u]
           /\ owed'[s] = owed[s] \/ owed'[s] = Tail(owed[s])
<1>1. owed[s] \in Seq({"start", "end"}) /\ owed \in [Sessions -> Seq({"start", "end"})]
  BY DEF OwedInv
<1>2. Tail(owed[s]) \in Seq({"start", "end"})
  BY <1>1
<1>3. owed' = owed \/ owed' = [owed EXCEPT ![s] = Tail(owed[s])]
  BY DEF Acknowledge
<1> QED BY <1>1, <1>2, <1>3

LEMMA StartStay ==
    ASSUME TypeInv, StayInv, NEW s \in Sessions, SessionStarted(s) PROVE Good
<1> USE DEF StayInv, hallVars, policyVars, timerVars, evidenceVars, clockVars
<1>1. UNCHANGED <<rows, told, mutex, timer, th, sink>> /\ sink = Idle
      /\ owed[s] # <<>> /\ Head(owed[s]) = "start"
  BY DEF SessionStarted, Owes
<1>2. UNCHANGED owed \/ Acknowledge(s)
  BY DEF SessionStarted
<1>3. owed[s] \in {<<"start">>, <<"start", "end">>}
      /\ (rows[s].stay = "left" => owed[s] = <<"start", "end">>)
      /\ rows[s].stay # "none"
  <2>1. rows[s].stay \in {"none", "parked", "left"}
    BY DEF TypeInv, RowsType, Rows
  <2>2. Head(<<"end">>) = "end" /\ <<"start", "end">> # <<>>
    OBVIOUS
  <2> QED BY <1>1, <2>1, <2>2 DEF OwedInv
<1>4. Tail(<<"start">>) = <<>> /\ Tail(<<"start", "end">>) = <<"end">>
  OBVIOUS
<1>5. OwedInv'
  <2>1. CASE UNCHANGED owed
    BY <1>1, <2>1 DEF OwedInv
  <2>2. CASE Acknowledge(s)
    <3>1. /\ owed' \in [Sessions -> Seq({"start", "end"})]
          /\ \A u \in Sessions \ {s} : owed'[u] = owed[u]
          /\ owed'[s] = owed[s] \/ owed'[s] = Tail(owed[s])
      BY <1>1, <2>2, OwedStep
    <3> QED BY <1>1, <1>3, <1>4, <3>1 DEF OwedInv
  <2> QED BY <1>2, <2>1, <2>2
<1>6. EndedInTimeIsForgotten'
  <2>1. \A u \in Sessions \ {s} : owed'[u] = owed[u]
    BY <1>1, <1>2, OwedStep
  <2>2. rows[s].stay = "left" => owed'[s] # <<>>
    <3>1. owed'[s] = owed[s] \/ owed'[s] = Tail(owed[s])
      BY <1>1, <1>2, OwedStep
    <3>2. <<"end">> # <<>> /\ <<"start", "end">> # <<>>
      OBVIOUS
    <3> QED BY <1>3, <1>4, <3>1, <3>2
  <2> QED BY <1>1, <2>1, <2>2 DEF EndedInTimeIsForgotten
<1>7. MutexInv' /\ ToldInv' /\ UNCHANGED StayVars
  BY <1>1 DEF MutexInv, ToldInv, Teller, TimerTells, OcrAlerts, StayVars
<1> QED BY <1>5, <1>6, <1>7 DEF Good

LEMMA EndStay ==
    ASSUME TypeInv, StayInv, NEW s \in Sessions, SessionEnded(s) PROVE Good
<1> USE DEF StayInv, hallVars, policyVars, timerVars, evidenceVars, clockVars
<1>1. UNCHANGED <<rows, told, mutex, timer, th, owed>> /\ mutex = "free"
      /\ sink' = [pc |-> "release", session |-> s]
      /\ owed[s] # <<>> /\ Head(owed[s]) = "end"
  BY DEF SessionEnded, Owes
<1>2. owed[s] = <<"end">> /\ rows[s].stay = "left"
  <2>1. rows[s].stay \in {"none", "parked", "left"}
    BY DEF TypeInv, RowsType, Rows
  <2>2. Head(<<"start">>) = "start" /\ Head(<<"start", "end">>) = "start"
    OBVIOUS
  <2> QED BY <1>1, <2>1, <2>2 DEF OwedInv
<1>3. \A u \in Sessions : ~Teller(u)'
  BY <1>1 DEF MutexInv, Teller, TimerTells, OcrAlerts
<1>4. MutexInv' /\ ToldInv' /\ UNCHANGED StayVars
  BY <1>1, <1>3 DEF MutexInv, ToldInv, TimerTells, OcrAlerts, StayVars
<1>5. OwedInv' /\ EndedInTimeIsForgotten'
  BY <1>1, <1>2 DEF OwedInv, EndedInTimeIsForgotten
<1> QED BY <1>4, <1>5 DEF Good

LEMMA ReleaseStay ==
    ASSUME TypeInv, StayInv, ReleaseSession \/ ReleaseThrows PROVE Good
<1> USE DEF StayInv, hallVars, captureVars, policyVars, timerVars, evidenceVars, clockVars
<1>1. UNCHANGED <<told, mutex, timer, th, owed>> /\ sink.pc = "release"
  BY DEF ReleaseSession, ReleaseThrows
<1>2. sink \in [pc : {"release", "depart"}, session : Sessions] /\ sink # Idle
      /\ rows \in [Sessions -> Rows]
  BY <1>1 DEF TypeInv, SinkType, RowsType, Idle
<1>3. sink' = Idle \/ sink'.session = sink.session
  BY <1>2 DEF ReleaseSession, ReleaseThrows
<1>4. \A u \in Sessions : QuietRow(u)
  <2>1. CASE ReleaseThrows
    BY <2>1 DEF ReleaseThrows, QuietRow
  <2>2. CASE ReleaseSession
    BY <1>2, <2>2 DEF ReleaseSession, QuietRow, Rows
  <2> QED BY <2>1, <2>2
<1>5. MutexInv' /\ UNCHANGED StayVars
  BY <1>1, <1>4 DEF MutexInv, TimerTells, OcrAlerts, StayVars, QuietRow
<1>6. ToldInv'
  BY <1>1, <1>2, <1>3, <1>4 DEF ToldInv, Teller, TimerTells, OcrAlerts, QuietRow
<1>7. OwedInv' /\ EndedInTimeIsForgotten'
  <2>1. sink.session \in Sessions
    BY <1>2
  <2> QED BY <1>1, <1>2, <1>3, <1>4, <2>1 DEF OwedInv, EndedInTimeIsForgotten, QuietRow
<1> QED BY <1>5, <1>6, <1>7 DEF Good

\* The departure is told; the images of an unjudged stay go before the end is
\* acknowledged.
LEMMA DepartStay ==
    ASSUME TypeInv, StayInv, Depart PROVE Good
<1> USE DEF StayInv, captureVars, policyVars, timerVars, evidenceVars, clockVars
<1>s. PICK s \in Sessions : s = sink.session
  BY DEF Depart, TypeInv, SinkType, Idle
<1>1. UNCHANGED <<mutex, timer, th>> /\ sink.pc = "depart" /\ sink' = Idle
      /\ told' = [told EXCEPT ![s] = Append(@, "DEPARTURE")]
  BY <1>s DEF Depart
<1>2. s \in Sessions /\ s = sink.session /\ sink # Idle /\ rows \in [Sessions -> Rows]
      /\ told \in [Sessions -> Announcements]
  BY <1>s, <1>1 DEF TypeInv, SinkType, RowsType, ToldType, Idle
<1>3. rows[s].stay = "left" /\ owed[s] = <<"end">>
  BY <1>2 DEF OwedInv
<1>4. /\ \A u \in Sessions : rows'[u].stay = rows[u].stay /\ rows'[u].violated = rows[u].violated
      /\ \A u \in Sessions \ {s} : rows'[u].images = rows[u].images
      /\ rows'[s].images = rows[s].images \/ (~rows[s].violated /\ rows'[s].images = {})
  <2>1. rows' = rows \/ (~rows[s].violated /\ rows' = [rows EXCEPT ![s].images = {}])
    BY <1>2 DEF Depart, RemovesImages
  <2>2. CASE rows' = [rows EXCEPT ![s].images = {}] /\ ~rows[s].violated
    BY <1>2, <2>2 DEF Rows
  <2> QED BY <2>1, <2>2
<1>5. /\ owed' \in [Sessions -> Seq({"start", "end"})]
      /\ \A u \in Sessions \ {s} : owed'[u] = owed[u]
      /\ owed'[s] \in {<<"end">>, <<>>}
      /\ owed'[s] = <<>> => rows[s].violated \/ rows'[s].images = {}
  <2>1. owed' = owed \/ Acknowledge(s)
    BY <1>2 DEF Depart
  <2>2. Tail(<<"end">>) = <<>> /\ <<"end">> # <<>>
    OBVIOUS
  <2>3. /\ owed' \in [Sessions -> Seq({"start", "end"})]
        /\ \A u \in Sessions \ {s} : owed'[u] = owed[u]
        /\ owed'[s] = owed[s] \/ owed'[s] = Tail(owed[s])
    <3>1. CASE owed' = owed
      BY <3>1 DEF OwedInv
    <3> QED BY <1>2, <1>3, <2>1, <2>2, <3>1, OwedStep
  <2>4. owed' = owed \/ rows[s].violated \/ rows'[s].images = {}
    <3>1. CASE rows' = [rows EXCEPT ![s].images = {}]
      BY <1>2, <3>1 DEF Rows
    <3>2. owed' = owed \/ rows[s].violated \/ rows' = [rows EXCEPT ![s].images = {}]
      BY <1>2 DEF Depart, RemovesImages
    <3> QED BY <3>1, <3>2
  <2> QED BY <1>3, <2>2, <2>3, <2>4
<1>6. MutexInv'
  BY <1>1 DEF MutexInv, TimerTells, OcrAlerts
<1>7. ToldInv'
  <2>1. ~Teller(s)
    BY <1>2 DEF ToldInv
  <2>2. \A u \in Sessions : Teller(u)' => Teller(u) /\ u # s
    BY <1>1, <2>1 DEF Teller, TimerTells, OcrAlerts
  <2>3. \A u \in Sessions \ {s} : told'[u] = told[u]
    BY <1>1, <1>2
  <2> QED BY <1>1, <1>3, <1>4, <2>2, <2>3 DEF ToldInv
<1>8. OwedInv'
  BY <1>1, <1>3, <1>4, <1>5 DEF OwedInv
<1>9. EndedInTimeIsForgotten'
  BY <1>4, <1>5 DEF EndedInTimeIsForgotten
<1>10. PS!TellDeparture(s)
  <2>1. UNCHANGED <<[u \in Sessions |-> rows[u].stay], [u \in Sessions |-> rows[u].violated]>>
    BY <1>4
  <2>2. CASE rows'[s].images = rows[s].images
    <3>1. UNCHANGED [u \in Sessions |-> rows[u].images]
      BY <1>4, <2>2
    <3> QED BY <1>1, <1>2, <1>3, <2>1, <3>1 DEF PS!TellDeparture
  <2>3. CASE ~rows[s].violated /\ rows'[s].images = {}
    <3>1. [u \in Sessions |-> rows'[u].images]
            = [[u \in Sessions |-> rows[u].images] EXCEPT ![s] = {}]
      BY <1>4, <2>3
    <3> QED BY <1>1, <1>2, <1>3, <2>1, <2>3, <3>1 DEF PS!TellDeparture
  <2> QED BY <1>4, <2>2, <2>3
<1>11. PS!Next
  BY <1>10 DEF PS!Next
<1> QED BY <1>6, <1>7, <1>8, <1>9, <1>11 DEF Good

LEMMA StutterStay ==
    ASSUME TypeInv, StayInv, UNCHANGED vars PROVE Good
<1>1. Quiet /\ UNCHANGED rows
  BY DEF vars, overstayVars, hallVars, Quiet, QuietTellers, Teller, TimerTells, OcrAlerts
<1> QED BY <1>1, SameRows

LEMMA StepIsGood == TypeInv /\ StayInv /\ [Next]_vars => Good
<1> SUFFICES ASSUME TypeInv, StayInv, [Next]_vars PROVE Good
  OBVIOUS
<1>1. CASE \E s \in Sessions : Arrive(s) \/ Leave(s)
  BY <1>1, SessionStay
<1>2. CASE Sink
  BY <1>2, StartStay, EndStay, ReleaseStay, DepartStay DEF Sink
<1> QED BY <1>1, <1>2, TickStay, TimerStay, EvidenceStay, SettingsStay, CaptureStay, OcrStay,
           CrashStay, StartupStay, StutterStay DEF Next

-----------------------------------------------------------------------------
\* Who tells a violation holds the mutex, what is told is marked, and the end
\* of a stay is owed until its images are gone.
THEOREM StayInvAlways == Spec => [](TypeInv /\ StayInv)
<1>1. TypeInv /\ StayInv /\ [Next]_vars => StayInv'
  BY StepIsGood DEF Good
<1> QED BY TypeCorrect, StayInit, <1>1, PTL DEF Spec

\* Once the end of an unjudged stay is acknowledged, none of its images is left
\* (HallParkingService::removeEarlyDepartureImages and the open session that
\* every insert asks for), over captures under way, failures and crashes.
THEOREM ForgottenAlways == Spec => []EndedInTimeIsForgotten
BY StayInvAlways, PTL DEF StayInv

\* Timer, captures, OCR, evidence, repeated effects and restarts implement the
\* promise of ParkingStay.
THEOREM ImplementsParkingStay == Spec => StaySpec
<1>1. Init => PS!Init
  BY DEF Init, OverstayInit, PS!Init
<1>2. TypeInv /\ StayInv /\ [Next]_vars => [PS!Next]_StayVars
  BY StepIsGood DEF Good
<1> QED BY <1>1, <1>2, StayInvAlways, PTL DEF Spec, StaySpec, PS!Spec, StayVars

-----------------------------------------------------------------------------
(***************************************************************************)
(* Where an image is while its plate is read                               *)
(***************************************************************************)
Staying(s) == rows[s].stay # "left"

Place == {"submit", "read", "apply", "fold"}
Holds(t, s, k) == th[t].pc \in Place /\ th[t].session = s /\ th[t].stage = k
InQueue(s, k) == \E i \in 1..Len(queue) : queue[i] = Capture(s, k)
Once(s, k) ==
    \A i, j \in 1..Len(queue) : queue[i] = Capture(s, k) /\ queue[j] = Capture(s, k) => i = j

\* An image that is read is in one place, stored, and Running in the policy.
ReadInv(s) ==
    \A k \in Stages :
        /\ Once(s, k)
        /\ InQueue(s, k) => policy[s].stage[k] = "Running" /\ \A t \in Threads : ~Holds(t, s, k)
        /\ \A t \in Threads : Holds(t, s, k) => policy[s].stage[k] = "Running"
        /\ ~(Holds("capture", s, k) /\ Holds("ocr", s, k))
        /\ policy[s].stage[k] # "NotArrived" => k \in rows[s].images

\* No plate can come of this image any more.
Used(s, k) ==
    /\ k \in rows[s].images /\ policy[s].stage[k] # "Held" /\ ~InQueue(s, k)
    /\ \A t \in Threads : Holds(t, s, k) => th[t].pc = "fold"

PlateIsUsed(s) == rows[s].plate # NoPlate => \E k \in Stages : Used(s, k)

Results == {"none", "Pending", "Resolved", "Failed"}
StageStates == {"NotArrived", "Running", "Held", "Done"}
Policies == [result : Results, stage : [Stages -> StageStates], attempts : Nat]
PolicyType ==
    /\ policy \in [Sessions -> Policies]
    /\ \A s \in Sessions : ~IsBound(s) => policy[s] = Unbound
    /\ \A s \in Sessions : s \in canceled => rows[s].stay = "left"
    /\ th["ocr"].pc = "apply" => th["ocr"].plate # NoPlate

ReadingInv ==
    PolicyType /\ \A s \in Sessions : Staying(s) => ReadInv(s) /\ PlateIsUsed(s)

\* What a step may do to a session without adding to what is read of it.
Fewer(s) ==
    /\ policy'[s].stage = policy[s].stage
    /\ rows'[s].plate = rows[s].plate /\ rows[s].images \subseteq rows'[s].images
    /\ \A k \in Stages :
         /\ InQueue(s, k)' => InQueue(s, k)
         /\ Once(s, k) => Once(s, k)'
         /\ \A t \in Threads :
              Holds(t, s, k)' => Holds(t, s, k) /\ (th[t].pc = "fold" => th'[t].pc = "fold")

\* What every step does for a session that stays.
Keeps(s) ==
    Staying(s)' => /\ ReadInv(s)' /\ PlateIsUsed(s)'
                   /\ \A k \in Stages : Used(s, k) => Used(s, k)'

LEMMA FewerKeeps ==
    ASSUME ReadingInv, NEW s \in Sessions, Staying(s)' => Staying(s) /\ Fewer(s)
    PROVE  Keeps(s)
<1> SUFFICES ASSUME Staying(s)'
             PROVE  /\ ReadInv(s)' /\ PlateIsUsed(s)'
                    /\ \A k \in Stages : Used(s, k) => Used(s, k)'
  BY DEF Keeps
<1>1. ReadInv(s) /\ PlateIsUsed(s) /\ Fewer(s)
  BY DEF ReadingInv
<1>2. ReadInv(s)'
  <2> SUFFICES ASSUME NEW k \in Stages
               PROVE  /\ Once(s, k)'
                      /\ InQueue(s, k)' => /\ policy'[s].stage[k] = "Running"
                                          /\ \A t \in Threads : ~Holds(t, s, k)'
                      /\ \A t \in Threads : Holds(t, s, k)' => policy'[s].stage[k] = "Running"
                      /\ ~(Holds("capture", s, k)' /\ Holds("ocr", s, k)')
                      /\ policy'[s].stage[k] # "NotArrived" => k \in rows'[s].images
    BY DEF ReadInv
  <2>1. /\ policy'[s].stage = policy[s].stage /\ rows[s].images \subseteq rows'[s].images
        /\ InQueue(s, k)' => InQueue(s, k)
        /\ Once(s, k) => Once(s, k)'
        /\ \A t \in Threads : Holds(t, s, k)' => Holds(t, s, k)
    BY <1>1 DEF Fewer
  <2>2. "capture" \in Threads /\ "ocr" \in Threads
    BY DEF Threads
  <2> QED BY <1>1, <2>1, <2>2 DEF ReadInv
<1>3. ASSUME NEW k \in Stages, Used(s, k) PROVE Used(s, k)'
  BY <1>1, <1>3 DEF Fewer, Used
<1>4. PlateIsUsed(s)'
  BY <1>1, <1>3 DEF Fewer, PlateIsUsed
<1> QED BY <1>2, <1>3, <1>4

LEMMA QueueGrows ==
    ASSUME queue \in Seq(Captures), NEW s \in Sessions, NEW k \in Stages,
           queue' = Append(queue, Capture(s, k))
    PROVE  /\ \A u \in Sessions, l \in Stages : ~(u = s /\ l = k) =>
                (InQueue(u, l)' => InQueue(u, l)) /\ (Once(u, l) => Once(u, l)')
           /\ ~InQueue(s, k) => Once(s, k)'
<1> DEFINE c == Capture(s, k)
           n == Len(queue)
<1>1. c \in Captures /\ n \in Nat
  BY DEF Capture, Captures
<1>2. /\ Len(queue') = n + 1 /\ queue'[n + 1] = c
      /\ \A i \in 1..n : queue'[i] = queue[i]
  BY <1>1
<1>3. \A i \in 1..(n + 1) : i \in 1..n \/ i = n + 1
  BY <1>1
<1>4. ASSUME NEW u \in Sessions, NEW l \in Stages, ~(u = s /\ l = k)
      PROVE  (InQueue(u, l)' => InQueue(u, l)) /\ (Once(u, l) => Once(u, l)')
  <2>1. Capture(u, l) # c
    BY <1>4 DEF Capture
  <2> HIDE DEF c, n
  <2>2. \A i \in 1..(n + 1) : queue'[i] = Capture(u, l) => i \in 1..n /\ queue[i] = Capture(u, l)
    BY <1>2, <1>3, <2>1
  <2> QED BY <1>2, <2>2 DEF InQueue, Once, n
<1>5. ASSUME ~InQueue(s, k) PROVE Once(s, k)'
  <2>1. \A i \in 1..n : queue[i] # c
    BY <1>5 DEF InQueue
  <2> HIDE DEF n
  <2>2. \A i \in 1..(n + 1) : queue'[i] = c => i = n + 1
    BY <1>2, <1>3, <2>1
  <2> QED BY <1>2, <2>2 DEF Once
<1> QED BY <1>4, <1>5

LEMMA QueueShrinks ==
    ASSUME queue \in Seq(Captures), queue # <<>>, queue' = Tail(queue),
           NEW s \in Sessions, NEW k \in Stages
    PROVE  /\ InQueue(s, k)' => InQueue(s, k)
           /\ Once(s, k) => Once(s, k)'
           /\ Head(queue) = Capture(s, k) => InQueue(s, k) /\ (Once(s, k) => ~InQueue(s, k)')
<1> DEFINE c == Capture(s, k)
           n == Len(queue)
<1>1. n \in Nat \ {0} /\ Head(queue) = queue[1]
  OBVIOUS
<1>2. Len(queue') = n - 1 /\ \A i \in 1..(n - 1) : queue'[i] = queue[i + 1]
  BY <1>1
<1>3. \A i \in 1..(n - 1) : i + 1 \in 1..n /\ i + 1 # 1
  BY <1>1
<1>4. 1 \in 1..n
  BY <1>1
<1> HIDE DEF c, n
<1>5. InQueue(s, k)' => InQueue(s, k)
  BY <1>2, <1>3 DEF InQueue, n
<1>6. Once(s, k) => Once(s, k)'
  <2> SUFFICES ASSUME Once(s, k), NEW i \in 1..(n - 1), NEW j \in 1..(n - 1),
                      queue'[i] = Capture(s, k), queue'[j] = Capture(s, k)
               PROVE  i = j
    BY <1>2 DEF Once, n
  <2>1. i + 1 = j + 1
    BY <1>2, <1>3 DEF Once, n
  <2> QED BY <2>1
<1>7. ASSUME Head(queue) = Capture(s, k)
      PROVE  InQueue(s, k) /\ (Once(s, k) => ~InQueue(s, k)')
  BY <1>1, <1>2, <1>3, <1>4, <1>7 DEF InQueue, Once, n
<1> QED BY <1>5, <1>6, <1>7

\* The record of a thread that is at work.
LEMMA AtWork ==
    ASSUME TypeInv, NEW t \in Threads, th[t].pc # "idle"
    PROVE  /\ th[t].session \in Sessions /\ th[t].stage \in Stages
           /\ th[t].plate \in Classes \cup {NoPlate}
           /\ t = "capture" => th[t].plate = NoPlate /\ th[t].pc \notin {"read", "apply"}
           /\ \A pc : /\ [th[t] EXCEPT !.pc = pc].pc = pc
                      /\ [th[t] EXCEPT !.pc = pc].session = th[t].session
                      /\ [th[t] EXCEPT !.pc = pc].stage = th[t].stage
                      /\ [th[t] EXCEPT !.pc = pc].plate = th[t].plate
<1>1. CASE t = "capture"
  <2>1. th[t] \in [pc : {"report", "submit", "fold", "unresolved"}, session : Sessions,
                   stage : Stages, plate : {NoPlate}, shot : Stages, ok : BOOLEAN]
    BY <1>1 DEF TypeInv, CaptureType, ThreadStates, CaptureStates, Idle
  <2> QED BY <1>1, <2>1
<1>2. CASE t = "ocr"
  <2>1. th[t] \in [pc : {"read", "apply", "submit", "fold", "unresolved", "judge", "alert"},
                   session : Sessions, stage : Stages, plate : Classes \cup {NoPlate}]
    BY <1>2 DEF TypeInv, CaptureType, ThreadStates, OcrStates, Idle
  <2> QED BY <1>2, <2>1
<1> QED BY <1>1, <1>2 DEF Threads

\* A thread that gives up its image, or only moves on with it.
LEMMA ThreadKeeps ==
    ASSUME TypeInv, ReadingInv, NEW t \in Threads, NEW v, th' = [th EXCEPT ![t] = v],
           NEW s \in Sessions, UNCHANGED <<policy, queue>>,
           rows'[s].stay = rows[s].stay, rows'[s].plate = rows[s].plate,
           rows'[s].images = rows[s].images,
           v.pc \in Place => /\ th[t].pc \in Place /\ v.session = th[t].session
                             /\ v.stage = th[t].stage /\ (th[t].pc = "fold" => v.pc = "fold")
    PROVE  Keeps(s)
<1>1. th'[t] = v /\ \A u \in Threads \ {t} : th'[u] = th[u]
  BY DEF TypeInv, CaptureType
<1>2. \A k \in Stages, u \in Threads :
        Holds(u, s, k)' => Holds(u, s, k) /\ (th[u].pc = "fold" => th'[u].pc = "fold")
  BY <1>1 DEF Holds
<1>3. Fewer(s)
  BY <1>2 DEF Fewer, InQueue, Once
<1> QED BY <1>3, FewerKeeps DEF Staying

\* Most steps leave the readings alone.
LEMMA CalmKeeps ==
    ASSUME TypeInv, ReadingInv, UNCHANGED <<policy, queue, th>>, NEW s \in Sessions,
           rows'[s].stay # "left" =>
              /\ rows[s].stay # "left" /\ rows'[s].plate = rows[s].plate
              /\ rows[s].images \subseteq rows'[s].images
    PROVE  Keeps(s)
<1>1. Staying(s)' => Staying(s) /\ Fewer(s)
  BY DEF Staying, Fewer, InQueue, Once, Holds
<1> QED BY <1>1, FewerKeeps

\* A thread that works on one session leaves the others alone.
LEMMA OthersKeep ==
    ASSUME TypeInv, ReadingInv, NEW t \in Threads, NEW v, th' = [th EXCEPT ![t] = v],
           NEW s \in Sessions, NEW u \in Sessions \ {s}, v.pc \in Place => v.session = s,
           policy'[u].stage = policy[u].stage, rows'[u] = rows[u],
           \A k \in Stages : (InQueue(u, k)' => InQueue(u, k)) /\ (Once(u, k) => Once(u, k)')
    PROVE  Keeps(u)
<1>1. th'[t] = v /\ \A x \in Threads \ {t} : th'[x] = th[x]
  BY DEF TypeInv, CaptureType
<1>2. \A k \in Stages, x \in Threads : Holds(x, u, k)' => Holds(x, u, k) /\ th'[x] = th[x]
  BY <1>1 DEF Holds
<1>3. Fewer(u)
  BY <1>2 DEF Fewer
<1> QED BY <1>3, FewerKeeps DEF Staying

\* The image is stored, and the policy says whether it is read now, held or not.
LEMMA StoredKeeps ==
    ASSUME TypeInv, ReadingInv, NEW s \in Sessions, NEW k \in Stages, NEW v,
           Inserts(s, k), StoreImage(s, k), UNCHANGED queue,
           th' = [th EXCEPT !["capture"] = v], v.session = s, v.stage = k,
           \/ v.pc = "report" /\ UNCHANGED policy
           \/ v.pc = "report" /\ policy' = [policy EXCEPT ![s].stage[k] = "Held"]
           \/ v.pc = "submit" /\ policy' = [policy EXCEPT ![s].stage[k] = "Running"]
    PROVE  \A u \in Sessions : Keeps(u)
<1>0. /\ rows \in [Sessions -> Rows] /\ "capture" \in Threads /\ Threads = {"capture", "ocr"}
      /\ policy \in [Sessions -> Policies]
  BY DEF TypeInv, RowsType, Threads, ReadingInv, PolicyType
<1>1. /\ th'["capture"] = v /\ th'["ocr"] = th["ocr"]
      /\ rows'[s].images = rows[s].images \cup {k} /\ rows'[s].plate = rows[s].plate
      /\ rows'[s].stay = "parked" /\ rows[s].stay = "parked" /\ k \notin rows[s].images
      /\ \A u \in Sessions \ {s} : rows'[u] = rows[u] /\ policy'[u] = policy[u]
  BY <1>0 DEF TypeInv, CaptureType, StoreImage, Inserts, Open, Rows, Policies
<1>2. /\ ReadInv(s) /\ PlateIsUsed(s)
      /\ \A l \in Stages : (InQueue(s, l)' <=> InQueue(s, l)) /\ (Once(s, l)' <=> Once(s, l))
  BY <1>1 DEF ReadingInv, Staying, InQueue, Once
<1>3. /\ policy[s].stage[k] = "NotArrived" /\ ~InQueue(s, k) /\ Once(s, k)
      /\ \A t \in Threads : ~Holds(t, s, k)
  BY <1>1, <1>2 DEF ReadInv
<1>4. \A l \in Stages \ {k} : /\ policy'[s].stage[l] = policy[s].stage[l]
                              /\ ~Holds("capture", s, l)'
                              /\ Holds("ocr", s, l)' <=> Holds("ocr", s, l)
  BY <1>0, <1>1 DEF Holds, Policies
<1>5. ~Holds("ocr", s, k)' /\ (Holds("capture", s, k)' => policy'[s].stage[k] = "Running")
  BY <1>0, <1>1, <1>3 DEF Holds, Place, Policies
<1>6. ReadInv(s)'
  <2>1. ASSUME NEW l \in Stages \ {k}
        PROVE  /\ Once(s, l)'
               /\ InQueue(s, l)' => policy'[s].stage[l] = "Running" /\ ~Holds("ocr", s, l)'
               /\ Holds("ocr", s, l)' => policy'[s].stage[l] = "Running"
               /\ policy'[s].stage[l] # "NotArrived" => l \in rows'[s].images
    BY <1>0, <1>1, <1>2, <1>4 DEF ReadInv
  <2> QED BY <1>0, <1>1, <1>2, <1>3, <1>4, <1>5, <2>1 DEF ReadInv
<1>7. ASSUME NEW l \in Stages, Used(s, l) PROVE Used(s, l)'
  <2>1. l # k
    BY <1>1, <1>7 DEF Used
  <2> QED BY <1>0, <1>1, <1>2, <1>4, <1>7, <2>1 DEF Used, Holds
<1>8. Keeps(s)
  BY <1>1, <1>2, <1>6, <1>7 DEF Keeps, PlateIsUsed
<1>9. ASSUME NEW u \in Sessions \ {s} PROVE Keeps(u)
  <2>1. \A l \in Stages : (InQueue(u, l)' => InQueue(u, l)) /\ (Once(u, l) => Once(u, l)')
    BY DEF InQueue, Once
  <2>2. policy'[u].stage = policy[u].stage /\ rows'[u] = rows[u]
    BY <1>1
  <2> QED BY <1>0, <2>1, <2>2, OthersKeep
<1> QED BY <1>8, <1>9

LEMMA ExecuteKeeps ==
    ASSUME TypeInv, ReadingInv, execute PROVE \A u \in Sessions : Keeps(u)
<1>1. PICK c \in batch :
        \/ /\ \E ok \in BOOLEAN : Dispatch(c, "report", ok)
           /\ UNCHANGED <<rows, policy, queue>>
        \/ /\ IsBound(c.session) /\ Inserts(c.session, c.stage) /\ StoreImage(c.session, c.stage)
           /\ UNCHANGED queue
           /\ LET action == Image(c.session, c.stage)
              IN  /\ Dispatch(c, IF action = "Running" THEN "submit" ELSE "report", TRUE)
                  /\ policy' = IF action = "EvidenceOnly" THEN policy
                               ELSE [policy EXCEPT ![c.session].stage[c.stage] = action]
  BY DEF execute
<1>2. PICK s \in Sessions, k \in Stages : s = c.session /\ k = c.stage
  BY DEF TypeInv, CaptureType, Captures
<1>3. "capture" \in Threads
  BY DEF Threads
<1>4. CASE (\E ok \in BOOLEAN : Dispatch(c, "report", ok)) /\ UNCHANGED <<rows, policy, queue>>
  <2>1. PICK v : v.pc = "report" /\ th' = [th EXCEPT !["capture"] = v]
    BY <1>4 DEF Dispatch
  <2> QED BY <1>3, <1>4, <2>1, ThreadKeeps DEF Place
<1>5. CASE /\ Inserts(s, k) /\ StoreImage(s, k) /\ UNCHANGED queue
           /\ LET action == Image(s, k)
              IN  /\ Dispatch(c, IF action = "Running" THEN "submit" ELSE "report", TRUE)
                  /\ policy' = IF action = "EvidenceOnly" THEN policy
                               ELSE [policy EXCEPT ![s].stage[k] = action]
  <2> DEFINE pc == IF Image(s, k) = "Running" THEN "submit" ELSE "report"
             v == [pc |-> pc, session |-> c.session, stage |-> c.stage, plate |-> NoPlate,
                   shot |-> c.stage, ok |-> TRUE]
  <2>1. th' = [th EXCEPT !["capture"] = v]
    BY <1>5 DEF Dispatch
  <2>2. v.session = s /\ v.stage = k /\ v.pc = pc
    BY <1>2
  <2>3. \/ Image(s, k) = "EvidenceOnly" /\ pc = "report" /\ UNCHANGED policy
        \/ Image(s, k) = "Held" /\ pc = "report" /\ policy' = [policy EXCEPT ![s].stage[k] = "Held"]
        \/ Image(s, k) = "Running" /\ pc = "submit"
           /\ policy' = [policy EXCEPT ![s].stage[k] = "Running"]
    BY <1>5 DEF Image
  <2>4. Inserts(s, k) /\ StoreImage(s, k) /\ UNCHANGED queue
    BY <1>5
  <2> HIDE DEF pc, v
  <2> QED BY <2>1, <2>2, <2>3, <2>4, StoredKeeps
<1> QED BY <1>1, <1>2, <1>4, <1>5

\* An image goes from the thread that has it to the queue.
LEMMA EnqueueKeeps ==
    ASSUME TypeInv, ReadingInv, NEW t \in Threads, enqueueHallCapture(t)
    PROVE  \A u \in Sessions : Keeps(u)
<1>0. th[t].pc = "submit" /\ th[t].pc # "idle"
  BY DEF enqueueHallCapture, At
<1>w. /\ th[t].session \in Sessions /\ th[t].stage \in Stages
      /\ \A pc : /\ [th[t] EXCEPT !.pc = pc].pc = pc
                 /\ [th[t] EXCEPT !.pc = pc].session = th[t].session
                 /\ [th[t] EXCEPT !.pc = pc].stage = th[t].stage
  BY <1>0, AtWork
<1>1. CASE GoTo(t, "fold") /\ UNCHANGED queue
  <2> DEFINE v == [th[t] EXCEPT !.pc = "fold"]
  <2>1. UNCHANGED <<policy, rows>> /\ th' = [th EXCEPT ![t] = v]
    BY <1>1 DEF enqueueHallCapture, GoTo
  <2>2. v.pc = "fold" /\ v.session = th[t].session /\ v.stage = th[t].stage
    BY <1>w
  <2>3. th[t].pc \in Place
    BY <1>0 DEF Place
  <2> HIDE DEF v
  <2> QED BY <1>0, <1>1, <2>1, <2>2, <2>3, ThreadKeeps
<1>2. CASE /\ queue' = Append(queue, Capture(th[t].session, th[t].stage))
           /\ th' = [th EXCEPT ![t] = Return(t)]
  <2>1. PICK s \in Sessions, k \in Stages : s = th[t].session /\ k = th[t].stage
    BY <1>w
  <2>2. UNCHANGED <<policy, rows>> /\ queue \in Seq(Captures) /\ Threads = {"capture", "ocr"}
    BY DEF enqueueHallCapture, TypeInv, CaptureType, Threads
  <2>3. Return(t).pc \notin Place
    BY <1>w DEF Return, Place, Idle
  <2>4. /\ \A u \in Sessions, l \in Stages : ~(u = s /\ l = k) =>
             (InQueue(u, l)' => InQueue(u, l)) /\ (Once(u, l) => Once(u, l)')
        /\ ~InQueue(s, k) => Once(s, k)'
    BY <1>2, <2>1, <2>2, QueueGrows
  <2>5. /\ \A x \in Threads \ {t}, l \in Stages : Holds(x, s, l)' <=> Holds(x, s, l)
        /\ \A x \in Threads \ {t} : th'[x] = th[x]
        /\ \A l \in Stages : ~Holds(t, s, l)'
        /\ Holds(t, s, k)
    BY <1>0, <1>2, <2>1, <2>3 DEF TypeInv, CaptureType, Holds, Place
  <2>6. ASSUME Staying(s)'
        PROVE  ReadInv(s)' /\ PlateIsUsed(s)' /\ \A l \in Stages : Used(s, l) => Used(s, l)'
    <3>1. ReadInv(s) /\ PlateIsUsed(s)
      BY <2>2, <2>6 DEF ReadingInv, Staying
    <3>2. ~InQueue(s, k) /\ \A x \in Threads \ {t} : ~Holds(x, s, k)
      BY <2>2, <2>5, <3>1 DEF ReadInv
    <3>3. policy[s].stage[k] = "Running"
      BY <2>5, <3>1 DEF ReadInv
    <3>4. ReadInv(s)'
      <4>1. ASSUME NEW l \in Stages \ {k}
            PROVE  /\ Once(s, l)'
                   /\ InQueue(s, l)' => /\ policy'[s].stage[l] = "Running"
                                       /\ \A x \in Threads : ~Holds(x, s, l)'
                   /\ \A x \in Threads : Holds(x, s, l)' => policy'[s].stage[l] = "Running"
                   /\ ~(Holds("capture", s, l)' /\ Holds("ocr", s, l)')
                   /\ policy'[s].stage[l] # "NotArrived" => l \in rows'[s].images
        <5>1. /\ Once(s, l) => Once(s, l)'
              /\ InQueue(s, l)' => InQueue(s, l)
              /\ \A x \in Threads : Holds(x, s, l)' => Holds(x, s, l)
          BY <2>4, <2>5
        <5> QED BY <2>2, <3>1, <5>1 DEF ReadInv
      <4>2. /\ Once(s, k)' /\ \A x \in Threads : ~Holds(x, s, k)'
            /\ policy'[s].stage[k] = "Running" /\ k \in rows'[s].images
        BY <2>2, <2>4, <2>5, <3>1, <3>2, <3>3 DEF ReadInv
      <4> QED BY <2>2, <4>1, <4>2 DEF ReadInv
    <3>5. ASSUME NEW l \in Stages, Used(s, l) PROVE Used(s, l)'
      <4>1. l # k
        BY <1>0, <2>5, <3>5 DEF Used
      <4>2. /\ InQueue(s, l)' => InQueue(s, l)
            /\ \A x \in Threads : Holds(x, s, l)' => Holds(x, s, l) /\ th'[x] = th[x]
        BY <2>4, <2>5, <4>1
      <4> QED BY <2>2, <3>5, <4>2 DEF Used
    <3> QED BY <2>2, <3>1, <3>4, <3>5 DEF PlateIsUsed
  <2>7. ASSUME NEW u \in Sessions \ {s} PROVE Keeps(u)
    BY <1>2, <2>2, <2>3, <2>4, <2>7, OthersKeep
  <2> QED BY <2>6, <2>7 DEF Keeps
<1> QED BY <1>1, <1>2 DEF enqueueHallCapture
\* The plate that was read of an image is on its way to the policy.
FoldsPlate(s, k) ==
    /\ th["ocr"].pc = "fold" /\ th["ocr"].session = s /\ th["ocr"].stage = k
    /\ th["ocr"].plate # NoPlate

\* A stored image that no longer waits to be read: its reading is over, has
\* given a plate, or never comes.
Spent(s, k) ==
    /\ k \in rows[s].images
    /\ policy[s].stage[k] \notin {"Running", "Held"} \/ FoldsPlate(s, k)

SpentImages(s) == (IF Spent(s, "30") THEN 1 ELSE 0) + (IF Spent(s, "60") THEN 1 ELSE 0)

\* n failed readings, and a plate if one is known, are of as many spent images.
Bears(s, n) == n + (IF rows[s].plate = NoPlate THEN 0 ELSE 1) <= SpentImages(s)

\* The attempts that failed are borne by the images, and so is a failure that
\* is recorded, or about to be.
FailInv(s) ==
    /\ Bears(s, policy[s].attempts)
    /\ \A t \in Threads : th[t].pc = "unresolved" /\ th[t].session = s
         => OcrAttempts <= policy[s].attempts
    /\ rows[s].unresolved => Bears(s, OcrAttempts)

FailuresInv == \A s \in Sessions : Staying(s) => FailInv(s)

LEMMA TakeKeeps ==
    ASSUME TypeInv, ReadingInv, TakeTask, UNCHANGED rows PROVE \A u \in Sessions : Keeps(u)
<1>0. /\ queue \in Seq(Captures) /\ queue # <<>> /\ queue' = Tail(queue) /\ UNCHANGED policy
      /\ "ocr" \in Threads /\ th["ocr"].pc = "idle"
  BY DEF TakeTask, TypeInv, CaptureType, At, Threads
<1>1. PICK s \in Sessions, k \in Stages : Head(queue) = Capture(s, k)
  <2>1. Head(queue) \in Captures
    BY <1>0
  <2> QED BY <2>1 DEF Captures, Capture
<1>2. ASSUME NEW u \in Sessions, NEW l \in Stages
      PROVE  (InQueue(u, l)' => InQueue(u, l)) /\ (Once(u, l) => Once(u, l)')
  BY <1>0, QueueShrinks
<1>3. CASE UNCHANGED th
  <2> SUFFICES ASSUME NEW u \in Sessions PROVE Keeps(u)
    OBVIOUS
  <2>1. Fewer(u)
    BY <1>0, <1>2, <1>3 DEF Fewer, Holds
  <2> QED BY <2>1, FewerKeeps DEF Staying
<1>4. CASE th' = [th EXCEPT !["ocr"] = [pc |-> "read", session |-> Head(queue).session,
                                        stage |-> Head(queue).stage, plate |-> NoPlate]]
  <2> DEFINE v == [pc |-> "read", session |-> Head(queue).session,
                   stage |-> Head(queue).stage, plate |-> NoPlate]
  <2>1. v.pc = "read" /\ v.session = s /\ v.stage = k /\ th' = [th EXCEPT !["ocr"] = v]
    BY <1>1, <1>4 DEF Capture
  <2> HIDE DEF v
  <2>2. /\ th'["ocr"] = v /\ th'["capture"] = th["capture"] /\ Threads = {"capture", "ocr"}
    BY <2>1 DEF TypeInv, CaptureType, Threads
  <2>3. InQueue(s, k) /\ (Once(s, k) => ~InQueue(s, k)')
    BY <1>0, <1>1, QueueShrinks
  <2>4. ASSUME Staying(s)'
        PROVE  ReadInv(s)' /\ PlateIsUsed(s)' /\ \A l \in Stages : Used(s, l) => Used(s, l)'
    <3>1. ReadInv(s) /\ PlateIsUsed(s)
      BY <2>4 DEF ReadingInv, Staying
    <3>2. \A l \in Stages : /\ Holds("capture", s, l)' <=> Holds("capture", s, l)
                            /\ Holds("ocr", s, l)' => l = k
      BY <2>1, <2>2 DEF Holds
    <3>3. /\ Once(s, k)' /\ ~InQueue(s, k)' /\ ~Holds("capture", s, k)'
          /\ policy'[s].stage[k] = "Running" /\ k \in rows'[s].images
      BY <1>0, <1>2, <2>2, <2>3, <3>1, <3>2 DEF ReadInv
    <3>4. ASSUME NEW l \in Stages \ {k}
          PROVE  /\ Once(s, l)'
                 /\ InQueue(s, l)' => /\ policy'[s].stage[l] = "Running"
                                     /\ \A x \in Threads : ~Holds(x, s, l)'
                 /\ \A x \in Threads : Holds(x, s, l)' => policy'[s].stage[l] = "Running"
                 /\ ~(Holds("capture", s, l)' /\ Holds("ocr", s, l)')
                 /\ policy'[s].stage[l] # "NotArrived" => l \in rows'[s].images
      BY <1>0, <1>2, <2>2, <3>1, <3>2 DEF ReadInv
    <3>5. ReadInv(s)'
      BY <2>2, <3>3, <3>4 DEF ReadInv
    <3>6. ASSUME NEW l \in Stages, Used(s, l) PROVE Used(s, l)'
      <4>1. l # k
        BY <2>3, <3>6 DEF Used
      <4> QED BY <1>0, <1>2, <2>2, <3>2, <3>6, <4>1 DEF Used
    <3> QED BY <3>1, <3>5, <3>6 DEF PlateIsUsed
  <2>5. ASSUME NEW u \in Sessions \ {s} PROVE Keeps(u)
    BY <1>0, <1>2, <2>1, <2>5, OthersKeep
  <2> QED BY <2>4, <2>5 DEF Keeps
<1> QED BY <1>3, <1>4 DEF TakeTask

LEMMA ReadKeeps ==
    ASSUME TypeInv, ReadingInv, ReadPlate, UNCHANGED rows PROVE \A u \in Sessions : Keeps(u)
<1>0. UNCHANGED <<policy, queue>> /\ "ocr" \in Threads /\ th["ocr"].pc = "read"
  BY DEF ReadPlate, At, Threads
<1>1. PICK v : /\ th' = [th EXCEPT !["ocr"] = v]
               /\ v.pc \in Place => /\ v.session = th["ocr"].session
                                    /\ v.stage = th["ocr"].stage
  <2>1. CASE th' = [th EXCEPT !["ocr"] = Idle]
    <3>1. Idle.pc \notin Place
      BY DEF Idle, Place
    <3> QED BY <2>1, <3>1
  <2>2. CASE GoTo("ocr", "fold")
    <3> DEFINE v == [th["ocr"] EXCEPT !.pc = "fold"]
    <3>1. th' = [th EXCEPT !["ocr"] = v]
      BY <2>2 DEF GoTo
    <3>2. v.session = th["ocr"].session /\ v.stage = th["ocr"].stage
      BY <1>0, AtWork
    <3> HIDE DEF v
    <3> QED BY <3>1, <3>2
  <2>3. ASSUME NEW p \in Classes,
               th' = [th EXCEPT !["ocr"].pc = "apply", !["ocr"].plate = p]
        PROVE  \E v : /\ th' = [th EXCEPT !["ocr"] = v]
                      /\ v.session = th["ocr"].session /\ v.stage = th["ocr"].stage
    <3> DEFINE w == [th["ocr"] EXCEPT !.pc = "apply"]
               v == [w EXCEPT !.plate = p]
    <3>1. th' = [th EXCEPT !["ocr"] = v]
      BY <1>0, <2>3 DEF TypeInv, CaptureType
    <3>2. w.session = th["ocr"].session /\ w.stage = th["ocr"].stage
      BY <1>0, AtWork
    <3>3. v.session = w.session /\ v.stage = w.stage
      OBVIOUS
    <3> HIDE DEF w, v
    <3> QED BY <3>1, <3>2, <3>3
  <2> QED BY <2>1, <2>2, <2>3 DEF ReadPlate
<1>2. th["ocr"].pc \in Place /\ th["ocr"].pc # "fold"
  BY <1>0 DEF Place
<1> QED BY <1>0, <1>1, <1>2, ThreadKeeps

\* The plate is written; its image is used up by then.
LEMMA ApplyKeeps ==
    ASSUME TypeInv, ReadingInv, ApplyPlate PROVE \A u \in Sessions : Keeps(u)
<1>0. /\ UNCHANGED <<policy, queue>> /\ th["ocr"].pc = "apply" /\ Threads = {"capture", "ocr"}
      /\ th["ocr"].pc # "idle" /\ rows \in [Sessions -> Rows]
  BY DEF ApplyPlate, At, Threads, TypeInv, RowsType
<1>1. PICK s \in Sessions, k \in Stages : s = th["ocr"].session /\ k = th["ocr"].stage
  BY <1>0, AtWork
<1>2. /\ \A u \in Sessions : rows'[u].stay = rows[u].stay /\ rows'[u].images = rows[u].images
      /\ \A u \in Sessions \ {s} : rows'[u] = rows[u]
  BY <1>0, <1>1 DEF ApplyPlate, Rows
<1>3. PICK v : /\ th' = [th EXCEPT !["ocr"] = v]
               /\ v = Idle \/ (v.pc = "fold" /\ v.session = s /\ v.stage = k)
  <2>1. CASE th' = [th EXCEPT !["ocr"] = Idle]
    BY <2>1
  <2>2. CASE th' = [th EXCEPT !["ocr"].pc = "fold"]
    <3> DEFINE v == [th["ocr"] EXCEPT !.pc = "fold"]
    <3>1. th' = [th EXCEPT !["ocr"] = v]
      BY <2>2
    <3>2. v.pc = "fold" /\ v.session = s /\ v.stage = k
      BY <1>0, <1>1, AtWork
    <3> HIDE DEF v
    <3> QED BY <3>1, <3>2
  <2> QED BY <2>1, <2>2 DEF ApplyPlate
<1>4. th'["ocr"] = v /\ th'["capture"] = th["capture"]
  BY <1>0, <1>3 DEF TypeInv, CaptureType
<1>5. ASSUME Staying(s)'
      PROVE  ReadInv(s)' /\ PlateIsUsed(s)' /\ \A l \in Stages : Used(s, l) => Used(s, l)'
  <2>1. ReadInv(s) /\ Holds("ocr", s, k)
    BY <1>0, <1>1, <1>2, <1>5 DEF ReadingInv, Staying, Holds, Place
  <2>2. /\ \A l \in Stages : Holds("ocr", s, l)' => l = k /\ th'["ocr"].pc = "fold"
        /\ \A l \in Stages : Holds("ocr", s, l)' => Holds("ocr", s, l)
        /\ \A l \in Stages : Holds("capture", s, l)' <=> Holds("capture", s, l)
    BY <1>0, <1>1, <1>3, <1>4, <2>1 DEF Holds, Place, Idle
  <2>3. \A l \in Stages : (InQueue(s, l)' <=> InQueue(s, l)) /\ (Once(s, l)' <=> Once(s, l))
    BY <1>0 DEF InQueue, Once
  <2>4. ReadInv(s)'
    BY <1>0, <1>2, <2>1, <2>2, <2>3 DEF ReadInv
  <2>5. Used(s, k)'
    BY <1>0, <1>2, <2>1, <2>2, <2>3 DEF ReadInv, Used
  <2>6. \A l \in Stages : Used(s, l) => Used(s, l)'
    BY <1>0, <1>2, <1>4, <2>2, <2>3 DEF Used
  <2> QED BY <2>4, <2>5, <2>6 DEF PlateIsUsed
<1>6. ASSUME NEW u \in Sessions \ {s} PROVE Keeps(u)
  <2>1. \A l \in Stages : (InQueue(u, l)' => InQueue(u, l)) /\ (Once(u, l) => Once(u, l)')
    BY <1>0 DEF InQueue, Once
  <2>2. v.pc \in Place => v.session = s
    BY <1>3 DEF Idle, Place
  <2> QED BY <1>0, <1>2, <1>3, <1>6, <2>1, <2>2, OthersKeep
<1> QED BY <1>5, <1>6 DEF Keeps

\* What an EXCEPT of the policy's record says of its fields.
LEMMA PolicyFields ==
    ASSUME NEW p \in Policies
    PROVE  /\ p = [result |-> p.result, stage |-> p.stage, attempts |-> p.attempts]
           /\ \A r \in Results : LET q == [p EXCEPT !.result = r]
                                 IN  /\ q.result = r /\ q.stage = p.stage
                                     /\ q.attempts = p.attempts /\ q \in Policies
           /\ \A n \in Nat : LET q == [p EXCEPT !.attempts = n]
                             IN  /\ q.result = p.result /\ q.stage = p.stage
                                 /\ q.attempts = n /\ q \in Policies
           /\ \A k \in Stages, x \in StageStates :
                LET q == [p EXCEPT !.stage[k] = x]
                IN  /\ q.result = p.result /\ q.stage = [p.stage EXCEPT ![k] = x]
                    /\ q.attempts = p.attempts /\ q \in Policies
           /\ LET x == IF p.stage["60"] = "Held" THEN "Done" ELSE p.stage["60"]
              IN  Settle(p) = [result |-> p.result, stage |-> [p.stage EXCEPT !["60"] = x],
                               attempts |-> p.attempts]
<1>1. p = [result |-> p.result, stage |-> p.stage, attempts |-> p.attempts]
  BY DEF Policies
<1>2. ASSUME NEW r \in Results
      PROVE  LET q == [p EXCEPT !.result = r]
             IN  /\ q.result = r /\ q.stage = p.stage
                 /\ q.attempts = p.attempts /\ q \in Policies
  BY DEF Policies
<1>3. ASSUME NEW n \in Nat
      PROVE  LET q == [p EXCEPT !.attempts = n]
             IN  /\ q.result = p.result /\ q.stage = p.stage
                 /\ q.attempts = n /\ q \in Policies
  BY DEF Policies
<1>4. ASSUME NEW k \in Stages, NEW x \in StageStates
      PROVE  LET q == [p EXCEPT !.stage[k] = x]
             IN  /\ q.result = p.result /\ q.stage = [p.stage EXCEPT ![k] = x]
                 /\ q.attempts = p.attempts /\ q \in Policies
  BY DEF Policies
<1>5. LET x == IF p.stage["60"] = "Held" THEN "Done" ELSE p.stage["60"]
      IN  Settle(p) = [result |-> p.result, stage |-> [p.stage EXCEPT !["60"] = x],
                       attempts |-> p.attempts]
  <2> DEFINE x == IF p.stage["60"] = "Held" THEN "Done" ELSE p.stage["60"]
             z == [p.stage EXCEPT !["60"] = x]
  <2>1. Settle(p) = [p EXCEPT !.stage = z]
    BY DEF Settle
  <2> HIDE DEF x, z
  <2>2. [p EXCEPT !.stage = z] = [result |-> p.result, stage |-> z, attempts |-> p.attempts]
    BY DEF Policies
  <2> QED BY <2>1, <2>2 DEF x, z
<1> QED BY <1>1, <1>2, <1>3, <1>4, <1>5

\* What comes of the reading of image k of session s by thread t.
Folded(t, s, k, v, r, n, st) ==
    /\ r \in Results /\ n \in Nat /\ st \in [Stages -> StageStates]
    /\ th' = [th EXCEPT ![t] = v]
    /\ policy' = [policy EXCEPT ![s] = [result |-> r, stage |-> st, attempts |-> n]]
    /\ st[k] = "Done" /\ st["60"] # "Held"
    /\ \A l \in Stages \ {k} :
         \/ st[l] = policy[s].stage[l]
         \/ l = "60" /\ k = "30" /\ policy[s].stage[l] = "Held" /\ st[l] = "Done"
         \/ /\ l = "60" /\ k = "30" /\ policy[s].stage[l] = "Held" /\ st[l] = "Running"
            /\ v.pc = "submit" /\ v.session = s /\ v.stage = l
    /\ \/ /\ th[t].plate # NoPlate /\ v.pc = "judge" /\ v.session = s /\ v.plate = th[t].plate
          /\ r = "Resolved" /\ n = policy[s].attempts
       \/ /\ th[t].plate = NoPlate /\ n = policy[s].attempts + 1 /\ Exhausted(n)
          /\ v.pc = "unresolved" /\ v.session = s /\ r = "Failed"
       \/ /\ th[t].plate = NoPlate /\ n = policy[s].attempts + 1 /\ ~Exhausted(n)
          /\ r = policy[s].result
          /\ \/ /\ k = "30" /\ policy[s].stage["60"] = "Held" /\ st["60"] = "Running"
                /\ v.pc = "submit" /\ v.session = s /\ v.stage = "60"
             \/ v.pc \in {"report", "idle"}

\* Whatever comes of a reading, its image is Done; a held one is read or given up.
LEMMA Folding ==
    ASSUME TypeInv, ReadingInv, NEW t \in Threads, onOcrOutcome(t), NEW s \in Sessions,
           NEW k \in Stages, th[t].session = s, th[t].stage = k,
           IsBound(s), policy[s].stage[k] = "Running"
    PROVE  \E v, r, n, st : Folded(t, s, k, v, r, n, st)
<1> DEFINE p == policy[s]
           done == [p EXCEPT !.stage[k] = "Done"]
           failed == [done EXCEPT !.attempts = done.attempts + 1]
           Becomes(q) == policy' = [policy EXCEPT ![s] = q]
           st == [done.stage EXCEPT !["60"] = IF done.stage["60"] = "Held" THEN "Done"
                                              ELSE done.stage["60"]]
<1>0. /\ p \in Policies /\ th[t].pc = "fold" /\ th[t].pc # "idle"
      /\ "60" \in Stages /\ "30" \in Stages /\ Stages = {"30", "60"}
      /\ "Resolved" \in Results /\ "Failed" \in Results
  BY DEF ReadingInv, PolicyType, onOcrOutcome, At, Stages, Results
<1>1. /\ done.result = p.result /\ done.attempts = p.attempts
      /\ done.stage = [p.stage EXCEPT ![k] = "Done"] /\ done \in Policies
  <2>1. "Done" \in StageStates
    BY DEF StageStates
  <2> QED BY <1>0, <2>1, PolicyFields
<1>2. p.attempts \in Nat /\ p.stage \in [Stages -> StageStates] /\ p.result \in Results
  BY <1>0 DEF Policies
<1>3. /\ failed.result = p.result /\ failed.attempts = p.attempts + 1
      /\ failed.stage = done.stage /\ failed \in Policies
  <2>1. done.attempts + 1 \in Nat
    BY <1>1, <1>2
  <2> HIDE DEF done
  <2> QED BY <1>1, <2>1, PolicyFields
<1>4. \/ /\ th[t].plate # NoPlate /\ Becomes(Settle([done EXCEPT !.result = "Resolved"]))
         /\ GoTo(t, "judge")
      \/ /\ th[t].plate = NoPlate /\ Exhausted(failed.attempts)
         /\ Becomes(Settle([failed EXCEPT !.result = "Failed"])) /\ GoTo(t, "unresolved")
      \/ /\ th[t].plate = NoPlate /\ ~Exhausted(failed.attempts)
         /\ IF failed.stage["60"] = "Held"
            THEN /\ Becomes([failed EXCEPT !.stage["60"] = "Running"])
                 /\ th' = [th EXCEPT ![t] = [@ EXCEPT !.pc = "submit", !.stage = "60"]]
            ELSE Becomes(failed) /\ th' = [th EXCEPT ![t] = Return(t)]
  BY DEF onOcrOutcome
<1>v. \A pc : /\ [th[t] EXCEPT !.pc = pc].pc = pc
              /\ [th[t] EXCEPT !.pc = pc].session = s
              /\ [th[t] EXCEPT !.pc = pc].stage = k
              /\ [th[t] EXCEPT !.pc = pc].plate = th[t].plate
  BY <1>0, AtWork
<1>d. done.stage[k] = "Done" /\ \A l \in Stages \ {k} : done.stage[l] = p.stage[l]
  BY <1>1, <1>2
<1> HIDE DEF done, failed
<1>5. /\ st \in [Stages -> StageStates] /\ st[k] = "Done" /\ st["60"] # "Held"
      /\ \A l \in Stages \ {k} :
           \/ st[l] = p.stage[l]
           \/ l = "60" /\ k = "30" /\ p.stage[l] = "Held" /\ st[l] = "Done"
  BY <1>0, <1>1, <1>2, <1>d DEF StageStates
<1>6. CASE /\ th[t].plate # NoPlate /\ Becomes(Settle([done EXCEPT !.result = "Resolved"]))
           /\ GoTo(t, "judge")
  <2> DEFINE v == [th[t] EXCEPT !.pc = "judge"]
             q == [done EXCEPT !.result = "Resolved"]
  <2>1. v.pc = "judge" /\ v.session = s /\ v.plate = th[t].plate
    BY <1>v
  <2>2. th' = [th EXCEPT ![t] = v]
    BY <1>6 DEF GoTo
  <2>3. /\ q.result = "Resolved" /\ q.stage = done.stage /\ q.attempts = p.attempts
        /\ q \in Policies
    BY <1>0, <1>1, PolicyFields
  <2>4. Becomes(Settle(q))
    BY <1>6
  <2> HIDE DEF q
  <2>5. Settle(q) = [result |-> "Resolved", stage |-> st, attempts |-> p.attempts]
    BY <2>3, PolicyFields
  <2>6. policy' = [policy EXCEPT ![s] =
                     [result |-> "Resolved", stage |-> st, attempts |-> p.attempts]]
    BY <2>4, <2>5
  <2> HIDE DEF v, st
  <2>8. Folded(t, s, k, v, "Resolved", p.attempts, st)
    BY <1>0, <1>2, <1>5, <1>6, <2>1, <2>2, <2>6 DEF Folded
  <2> QED BY <2>8
<1>7. CASE /\ th[t].plate = NoPlate /\ Exhausted(failed.attempts)
           /\ Becomes(Settle([failed EXCEPT !.result = "Failed"])) /\ GoTo(t, "unresolved")
  <2> DEFINE v == [th[t] EXCEPT !.pc = "unresolved"]
             q == [failed EXCEPT !.result = "Failed"]
             n == p.attempts + 1
  <2>1. v.pc = "unresolved" /\ v.session = s
    BY <1>v
  <2>2. th' = [th EXCEPT ![t] = v]
    BY <1>7 DEF GoTo
  <2>3. q.result = "Failed" /\ q.stage = done.stage /\ q.attempts = n /\ q \in Policies
    BY <1>0, <1>3, PolicyFields
  <2>4. Becomes(Settle(q)) /\ Exhausted(n) /\ n \in Nat
    BY <1>2, <1>3, <1>7
  <2> HIDE DEF q, n
  <2>5. Settle(q) = [result |-> "Failed", stage |-> st, attempts |-> n]
    BY <2>3, PolicyFields
  <2>6. policy' = [policy EXCEPT ![s] = [result |-> "Failed", stage |-> st, attempts |-> n]]
    BY <2>4, <2>5
  <2> HIDE DEF v, st
  <2>8. Folded(t, s, k, v, "Failed", n, st)
    BY <1>0, <1>5, <1>7, <2>1, <2>2, <2>4, <2>6 DEF Folded, n
  <2> QED BY <2>8
<1>8. CASE /\ th[t].plate = NoPlate /\ ~Exhausted(failed.attempts)
           /\ failed.stage["60"] = "Held"
           /\ Becomes([failed EXCEPT !.stage["60"] = "Running"])
           /\ th' = [th EXCEPT ![t] = [@ EXCEPT !.pc = "submit", !.stage = "60"]]
  <2> DEFINE w == [th[t] EXCEPT !.pc = "submit"]
             v == [w EXCEPT !.stage = "60"]
             q == [failed EXCEPT !.stage["60"] = "Running"]
             nx == [done.stage EXCEPT !["60"] = "Running"]
             n == p.attempts + 1
  <2>0. w.pc = "submit" /\ w.session = s
    BY <1>v
  <2>1. v.pc = w.pc /\ v.session = w.session /\ v.stage = "60"
    <3>1. th[t] \in ThreadStates(t) /\ t \in {"capture", "ocr"}
      BY DEF TypeInv, CaptureType, Threads
    <3>2. v = [th[t] EXCEPT !.pc = "submit", !.stage = "60"]
      OBVIOUS
    <3> QED BY <1>0, <3>1, <3>2 DEF ThreadStates, CaptureStates, OcrStates, Idle
  <2>2. th' = [th EXCEPT ![t] = v]
    BY <1>8
  <2>3. q.result = p.result /\ q.stage = nx /\ q.attempts = n /\ q \in Policies
    <3>1. "Running" \in StageStates
      BY DEF StageStates
    <3> QED BY <1>0, <1>3, <3>1, PolicyFields
  <2>4. Becomes(q) /\ ~Exhausted(n) /\ n \in Nat
    BY <1>2, <1>3, <1>8
  <2> HIDE DEF q, n
  <2>5. q = [result |-> p.result, stage |-> nx, attempts |-> n]
    BY <2>3, PolicyFields
  <2>6. policy' = [policy EXCEPT ![s] = [result |-> p.result, stage |-> nx, attempts |-> n]]
    BY <2>4, <2>5
  <2>7. k = "30" /\ p.stage["60"] = "Held"
    BY <1>0, <1>3, <1>8, <1>d
  <2>8. /\ nx \in [Stages -> StageStates] /\ nx[k] = "Done" /\ nx["60"] = "Running"
        /\ \A l \in Stages \ {k} : l = "60"
    BY <1>0, <1>1, <1>2, <1>d, <2>7 DEF StageStates
  <2> HIDE DEF v, w, nx
  <2>9. Folded(t, s, k, v, p.result, n, nx)
    BY <1>2, <1>8, <2>0, <2>1, <2>2, <2>4, <2>6, <2>7, <2>8 DEF Folded, n
  <2> QED BY <2>9
<1>9. CASE /\ th[t].plate = NoPlate /\ ~Exhausted(failed.attempts)
           /\ failed.stage["60"] # "Held"
           /\ Becomes(failed) /\ th' = [th EXCEPT ![t] = Return(t)]
  <2> DEFINE v == Return(t)
             nx == done.stage
             n == p.attempts + 1
  <2>1. v.pc \in {"report", "idle"} /\ th' = [th EXCEPT ![t] = v]
    BY <1>v, <1>9 DEF Return, Idle
  <2>2. Becomes(failed) /\ ~Exhausted(n) /\ n \in Nat
    BY <1>2, <1>3, <1>9
  <2>3. failed = [result |-> p.result, stage |-> nx, attempts |-> n]
    BY <1>3, PolicyFields
  <2>4. policy' = [policy EXCEPT ![s] = [result |-> p.result, stage |-> nx, attempts |-> n]]
    BY <2>2, <2>3
  <2>5. /\ nx \in [Stages -> StageStates] /\ nx[k] = "Done" /\ nx["60"] # "Held"
        /\ \A l \in Stages \ {k} : nx[l] = p.stage[l]
    BY <1>1, <1>2, <1>3, <1>9, <1>d DEF StageStates
  <2> HIDE DEF v, nx, n
  <2>6. Folded(t, s, k, v, p.result, n, nx)
    BY <1>2, <1>9, <2>1, <2>2, <2>4, <2>5 DEF Folded, n
  <2> QED BY <2>6
<1> QED BY <1>4, <1>6, <1>7, <1>8, <1>9

\* The image is done with; the one it made wait is read by the same thread.
LEMMA FoldKeeps ==
    ASSUME TypeInv, ReadingInv, NEW t \in Threads, onOcrOutcome(t)
    PROVE  \A u \in Sessions : Keeps(u)
<1>0. /\ UNCHANGED <<rows, queue>> /\ Threads = {"capture", "ocr"}
      /\ th[t].pc = "fold" /\ th[t].pc # "idle" /\ policy \in [Sessions -> Policies]
  BY DEF onOcrOutcome, At, Threads, overstayVars, ReadingInv, PolicyType
<1>1. PICK s \in Sessions, k \in Stages : s = th[t].session /\ k = th[t].stage
  BY <1>0, AtWork
<1>2. CASE ~IsBound(s) \/ policy[s].stage[k] # "Running"
  <2> DEFINE v == Return(t)
  <2>1. th' = [th EXCEPT ![t] = v] /\ UNCHANGED policy
    BY <1>1, <1>2 DEF onOcrOutcome
  <2>2. v.pc \notin Place
    BY <1>0, AtWork DEF Return, Place, Idle
  <2> HIDE DEF v
  <2> QED BY <1>0, <2>1, <2>2, ThreadKeeps
<1>3. CASE IsBound(s) /\ policy[s].stage[k] = "Running"
  <2>1. PICK v, r, n, st : Folded(t, s, k, v, r, n, st)
    BY <1>1, <1>3, Folding
  <2>2. /\ th'[t] = v /\ \A x \in Threads \ {t} : th'[x] = th[x]
        /\ policy'[s].stage = st /\ \A u \in Sessions \ {s} : policy'[u] = policy[u]
    BY <1>0, <2>1 DEF Folded, TypeInv, CaptureType
  <2>3. \A l \in Stages : Holds(t, s, l)' =>
          l = "60" /\ k = "30" /\ policy[s].stage[l] = "Held" /\ st[l] = "Running"
    BY <2>1, <2>2 DEF Folded, Holds, Place
  <2>4. \A x \in Threads \ {t}, l \in Stages : Holds(x, s, l)' <=> Holds(x, s, l)
    BY <2>2 DEF Holds
  <2>5. \A l \in Stages : (InQueue(s, l)' <=> InQueue(s, l)) /\ (Once(s, l)' <=> Once(s, l))
    BY <1>0 DEF InQueue, Once
  <2>6. ASSUME Staying(s)'
        PROVE  ReadInv(s)' /\ PlateIsUsed(s)' /\ \A l \in Stages : Used(s, l) => Used(s, l)'
    <3>1. ReadInv(s) /\ PlateIsUsed(s) /\ Holds(t, s, k)
      BY <1>0, <1>1, <2>6 DEF ReadingInv, Staying, Holds, Place
    <3>2. ~InQueue(s, k) /\ (\A x \in Threads \ {t} : ~Holds(x, s, k)) /\ k \in rows[s].images
      BY <1>0, <1>3, <3>1 DEF ReadInv
    <3>3. /\ Once(s, k)' /\ ~InQueue(s, k)' /\ (\A x \in Threads : ~Holds(x, s, k)')
          /\ k \in rows'[s].images /\ policy'[s].stage[k] = "Done"
      BY <1>0, <1>3, <2>1, <2>2, <2>3, <2>4, <2>5, <3>1, <3>2 DEF ReadInv, Folded
    <3>4. ASSUME NEW l \in Stages \ {k}
          PROVE  /\ Once(s, l)'
                 /\ InQueue(s, l)' => /\ policy'[s].stage[l] = "Running"
                                     /\ \A x \in Threads : ~Holds(x, s, l)'
                 /\ \A x \in Threads : Holds(x, s, l)' => policy'[s].stage[l] = "Running"
                 /\ ~(Holds("capture", s, l)' /\ Holds("ocr", s, l)')
                 /\ policy'[s].stage[l] # "NotArrived" => l \in rows'[s].images
      <4>1. \/ st[l] = policy[s].stage[l]
            \/ policy[s].stage[l] = "Held" /\ st[l] \in {"Done", "Running"}
        BY <2>1 DEF Folded
      <4>2. CASE Holds(t, s, l)'
        BY <1>0, <2>2, <2>3, <2>4, <2>5, <3>1, <4>2 DEF ReadInv
      <4>3. CASE ~Holds(t, s, l)'
        <5>1. Once(s, l) /\ (policy[s].stage[l] # "NotArrived" => l \in rows[s].images)
          BY <3>1 DEF ReadInv
        <5>2. \A x \in Threads : Holds(x, s, l)' => Holds(x, s, l) /\ x # t
          BY <2>4, <4>3
        <5>3. policy[s].stage[l] = "Running" => policy'[s].stage[l] = "Running"
          BY <2>2, <4>1
        <5>4. /\ InQueue(s, l) => /\ policy[s].stage[l] = "Running"
                                 /\ \A x \in Threads : ~Holds(x, s, l)
              /\ \A x \in Threads : Holds(x, s, l) => policy[s].stage[l] = "Running"
          BY <3>1 DEF ReadInv
        <5> QED BY <1>0, <2>2, <2>5, <4>1, <4>3, <5>1, <5>2, <5>3, <5>4
      <4> QED BY <4>2, <4>3
    <3>5. ReadInv(s)'
      BY <1>0, <3>3, <3>4 DEF ReadInv
    <3>6. ASSUME NEW l \in Stages, Used(s, l) PROVE Used(s, l)'
      <4>1. CASE l = k
        BY <1>0, <3>3, <4>1 DEF Used
      <4>2. CASE l # k
        <5>1. policy[s].stage[l] # "Held" /\ policy'[s].stage[l] # "Held"
          BY <2>1, <2>2, <3>6, <4>2 DEF Used, Folded
        <5> QED BY <1>0, <2>2, <2>3, <2>4, <2>5, <3>6, <5>1 DEF Used
      <4> QED BY <4>1, <4>2
    <3> QED BY <1>0, <3>1, <3>5, <3>6 DEF PlateIsUsed
  <2>7. ASSUME NEW u \in Sessions \ {s} PROVE Keeps(u)
    <3>1. v.pc \in Place => v.session = s
      BY <2>1 DEF Folded, Place
    <3>2. \A l \in Stages : (InQueue(u, l)' => InQueue(u, l)) /\ (Once(u, l) => Once(u, l)')
      BY <1>0 DEF InQueue, Once
    <3>3. th' = [th EXCEPT ![t] = v] /\ rows'[u] = rows[u] /\ policy'[u].stage = policy[u].stage
      BY <1>0, <2>1, <2>2 DEF Folded
    <3> QED BY <3>1, <3>2, <3>3, OthersKeep
  <2> QED BY <2>6, <2>7 DEF Keeps
<1> QED BY <1>2, <1>3

LEMMA FailureKeeps ==
    ASSUME TypeInv, ReadingInv, NEW t \in Threads, writeOcrFailure(t)
    PROVE  \A u \in Sessions : Keeps(u)
<1>0. /\ UNCHANGED <<policy, queue>> /\ th[t].pc = "unresolved" /\ th[t].pc # "idle"
      /\ rows \in [Sessions -> Rows]
  BY DEF writeOcrFailure, At, TypeInv, RowsType
<1>1. \A u \in Sessions : /\ rows'[u].stay = rows[u].stay /\ rows'[u].plate = rows[u].plate
                          /\ rows'[u].images = rows[u].images
  BY <1>0 DEF writeOcrFailure, Rows
<1>2. PICK v : th' = [th EXCEPT ![t] = v] /\ v.pc \notin Place
  <2>1. CASE th' = [th EXCEPT ![t] = Return(t)]
    <3>1. Return(t).pc \notin Place
      BY <1>0, AtWork DEF Return, Place, Idle
    <3> QED BY <2>1, <3>1
  <2>2. CASE th' = [th EXCEPT ![t] = IF t = "capture" THEN [Return(t) EXCEPT !.ok = FALSE]
                                                     ELSE Idle]
    <3> DEFINE v == IF t = "capture" THEN [Return(t) EXCEPT !.ok = FALSE] ELSE Idle
    <3>1. v.pc \notin Place
      <4>1. CASE t = "capture"
        <5>1. th[t] \in [pc : {"report", "submit", "fold", "unresolved"}, session : Sessions,
                         stage : Stages, plate : {NoPlate}, shot : Stages, ok : BOOLEAN]
          BY <1>0, <4>1 DEF TypeInv, CaptureType, ThreadStates, CaptureStates, Idle
        <5> QED BY <4>1, <5>1 DEF Return, Place
      <4>2. CASE t # "capture"
        BY <4>2 DEF Place, Idle
      <4> QED BY <4>1, <4>2
    <3>2. th' = [th EXCEPT ![t] = v]
      BY <2>2
    <3> HIDE DEF v
    <3> QED BY <3>1, <3>2
  <2> QED BY <2>1, <2>2 DEF writeOcrFailure
<1> QED BY <1>0, <1>1, <1>2, ThreadKeeps

LEMMA JudgeKeeps ==
    ASSUME TypeInv, ReadingInv, Judge \/ Alert PROVE \A u \in Sessions : Keeps(u)
<1>0. /\ UNCHANGED <<policy, queue>> /\ th["ocr"].pc \in {"judge", "alert"}
      /\ "ocr" \in Threads /\ rows \in [Sessions -> Rows] /\ th["ocr"].pc # "idle"
  BY DEF Judge, Alert, At, TypeInv, RowsType, Threads
<1>1. \A u \in Sessions : /\ rows'[u].stay = rows[u].stay /\ rows'[u].plate = rows[u].plate
                          /\ rows'[u].images = rows[u].images
  BY <1>0 DEF Judge, Alert, Mark, Rows
<1>2. PICK v : th' = [th EXCEPT !["ocr"] = v] /\ v.pc \notin Place
  <2>1. CASE th' = [th EXCEPT !["ocr"] = Idle]
    <3>1. Idle.pc \notin Place
      BY DEF Idle, Place
    <3> QED BY <2>1, <3>1
  <2>2. CASE GoTo("ocr", "alert")
    <3> DEFINE v == [th["ocr"] EXCEPT !.pc = "alert"]
    <3>1. th' = [th EXCEPT !["ocr"] = v]
      BY <2>2 DEF GoTo
    <3>2. v.pc = "alert"
      BY <1>0, AtWork
    <3> HIDE DEF v
    <3> QED BY <3>1, <3>2 DEF Place
  <2> QED BY <2>1, <2>2 DEF Judge, Alert
<1> QED BY <1>0, <1>1, <1>2, ThreadKeeps

\* Rows change only as these fields do, in all but a few steps.
LEMMA CalmCapture ==
    ASSUME TypeInv, ReadingInv, due \/ onDispatchResult PROVE \A u \in Sessions : Keeps(u)
<1>1. UNCHANGED <<policy, queue, rows>>
  BY DEF due, onDispatchResult, overstayVars
<1>2. CASE UNCHANGED th
  BY <1>1, <1>2, CalmKeeps
<1>3. CASE th' = [th EXCEPT !["capture"] = Idle]
  <2>1. Idle.pc \notin Place /\ "capture" \in Threads
    BY DEF Idle, Place, Threads
  <2> QED BY <1>1, <1>3, <2>1, ThreadKeeps
<1> QED BY <1>2, <1>3 DEF due, onDispatchResult

LEMMA ThreadsKeep ==
    ASSUME TypeInv, ReadingInv, CaptureThread \/ OcrThread PROVE \A u \in Sessions : Keeps(u)
<1>1. ASSUME NEW t \in Threads, Coordinator(t) PROVE \A u \in Sessions : Keeps(u)
  BY <1>1, EnqueueKeeps, FoldKeeps, FailureKeeps DEF Coordinator
<1>2. "capture" \in Threads /\ "ocr" \in Threads
  BY DEF Threads
<1>3. CASE TakeTask \/ ReadPlate
  <2>1. UNCHANGED rows
    BY <1>3 DEF TakeTask, ReadPlate, overstayVars
  <2> QED BY <1>3, <2>1, TakeKeeps, ReadKeeps
<1> QED BY <1>1, <1>2, <1>3, CalmCapture, ExecuteKeeps, ApplyKeeps, JudgeKeeps
        DEF CaptureThread, OcrThread

\* Timer, evidence, thresholds and the clock know nothing of the readings.
LEMMA OverstayKeeps ==
    ASSUME TypeInv, ReadingInv, TimerWorker \/ EvidenceWorker \/ UpdateTimers
             \/ (\E d \in Thresholds : UpdateSetting(d)) \/ UNCHANGED rows,
           UNCHANGED <<policy, queue, th>>
    PROVE  \A u \in Sessions : Keeps(u)
<1>0. rows \in [Sessions -> Rows]
  BY DEF TypeInv, RowsType
<1>1. \A u \in Sessions : /\ rows'[u].stay = rows[u].stay /\ rows'[u].plate = rows[u].plate
                          /\ rows[u].images \subseteq rows'[u].images
  <2>1. CASE UNCHANGED rows
    BY <2>1
  <2>2. ASSUME NEW s, Mark(s)
        PROVE  \A u \in Sessions : /\ rows'[u].stay = rows[u].stay
                                   /\ rows'[u].plate = rows[u].plate
                                   /\ rows[u].images \subseteq rows'[u].images
    BY <1>0, <2>2 DEF Mark, Rows
  <2>3. ASSUME NEW s, NEW i, StoreImage(s, i)
        PROVE  \A u \in Sessions : /\ rows'[u].stay = rows[u].stay
                                   /\ rows'[u].plate = rows[u].plate
                                   /\ rows[u].images \subseteq rows'[u].images
    BY <1>0, <2>3 DEF StoreImage, Rows
  <2>4. CASE TimerWorker
    BY <2>1, <2>2, <2>4 DEF TimerWorker, TakeExpired, DropReplaced, AwaitEvidence,
       MarkOverstay, MarkNothing, MarkThrows, TellOverstay
  <2>5. CASE EvidenceWorker
    BY <2>1, <2>3, <2>5 DEF EvidenceWorker, TakeJob, FinishJob
  <2> QED BY <2>1, <2>4, <2>5 DEF UpdateTimers, UpdateSetting
<1> QED BY <1>1, CalmKeeps

LEMMA SessionKeeps ==
    ASSUME TypeInv, ReadingInv, NEW s \in Sessions, Arrive(s) \/ Leave(s)
    PROVE  \A u \in Sessions : Keeps(u)
<1>0. rows \in [Sessions -> Rows] /\ UNCHANGED <<policy, queue, th>>
  BY DEF TypeInv, RowsType, Arrive, Leave, hallVars
<1>1. \A u \in Sessions : rows'[u].stay # "left" =>
              /\ rows[u].stay # "left" /\ rows'[u].plate = rows[u].plate
              /\ rows[u].images \subseteq rows'[u].images
  BY <1>0 DEF Arrive, Leave, Open, Rows
<1> QED BY <1>0, <1>1, CalmKeeps

\* A session that is bound, or has ended, has no readings to lose.
LEMMA SinkKeeps ==
    ASSUME TypeInv, StayInv, ReadingInv, Sink PROVE \A u \in Sessions : Keeps(u)
<1>0. rows \in [Sessions -> Rows] /\ UNCHANGED <<queue, th>> /\ policy \in [Sessions -> Policies]
  BY DEF TypeInv, RowsType, Sink, SessionStarted, SessionEnded, ReleaseSession, ReleaseThrows,
     Depart, hallVars, ReadingInv, PolicyType
<1>1. CASE \E s \in Sessions : SessionStarted(s)
  <2> SUFFICES ASSUME NEW u \in Sessions PROVE Keeps(u)
    OBVIOUS
  <2>1. PICK s \in Sessions : SessionStarted(s)
    BY <1>1
  <2>2. UNCHANGED rows
    BY <2>1 DEF SessionStarted
  <2>3. policy'[u].stage = policy[u].stage
    <3>1. policy' = policy \/ (policy[s] = Unbound /\ policy' = [policy EXCEPT ![s] = Bound])
      BY <2>1 DEF SessionStarted, ReadingInv, PolicyType
    <3>2. Bound.stage = Unbound.stage
      BY DEF Bound, Unbound
    <3> QED BY <1>0, <3>1, <3>2
  <2>4. Fewer(u)
    BY <1>0, <2>2, <2>3 DEF Fewer, InQueue, Once, Holds
  <2> QED BY <2>2, <2>4, FewerKeeps DEF Staying
<1>2. CASE \E s \in Sessions : SessionEnded(s)
  <2>1. UNCHANGED <<policy, rows>>
    BY <1>2 DEF SessionEnded, hallVars
  <2> QED BY <1>0, <2>1, CalmKeeps
<1>3. CASE ReleaseSession \/ ReleaseThrows \/ Depart
  <2> SUFFICES ASSUME NEW u \in Sessions PROVE Keeps(u)
    OBVIOUS
  <2>1. PICK s \in Sessions : s = sink.session /\ rows[s].stay = "left"
    BY <1>3 DEF StayInv, OwedInv, TypeInv, SinkType, Idle, ReleaseSession, ReleaseThrows, Depart
  <2>2. /\ rows'[s].stay = "left" /\ \A x \in Sessions \ {s} : rows'[x] = rows[x]
        /\ \A x \in Sessions \ {s} : policy'[x] = policy[x]
    BY <1>0, <1>3, <2>1 DEF ReleaseSession, ReleaseThrows, Depart, Rows
  <2>3. CASE u = s
    BY <2>2, <2>3 DEF Keeps, Staying
  <2>4. CASE u # s
    <3>1. Fewer(u)
      BY <1>0, <2>2, <2>4 DEF Fewer, InQueue, Once, Holds
    <3> QED BY <2>2, <2>4, <3>1, FewerKeeps DEF Staying
  <2> QED BY <2>3, <2>4
<1> QED BY <1>1, <1>2, <1>3 DEF Sink

\* The readings die with the process; what was used up stays so.
LEMMA CrashKeeps ==
    ASSUME TypeInv, ReadingInv, Crash PROVE \A u \in Sessions : Keeps(u)
<1> SUFFICES ASSUME NEW u \in Sessions PROVE Keeps(u)
  OBVIOUS
<1>1. /\ UNCHANGED rows /\ queue' = <<>> /\ \A t \in Threads : th'[t].pc = "idle"
      /\ \A k \in Stages : policy'[u].stage[k] = "NotArrived"
  BY DEF Crash, Idle, Unbound
<1>2. \A k \in Stages : /\ ~InQueue(u, k)' /\ Once(u, k)'
                        /\ \A t \in Threads : ~Holds(t, u, k)'
  BY <1>1 DEF InQueue, Once, Holds, Place
<1>3. "capture" \in Threads
  BY DEF Threads
<1> QED BY <1>1, <1>2, <1>3 DEF Keeps, ReadInv, Used, PlateIsUsed, ReadingInv, Staying

LEMMA StartupKeeps ==
    ASSUME TypeInv, ReadingInv, Startup PROVE \A u \in Sessions : Keeps(u)
<1>0. rows \in [Sessions -> Rows] /\ UNCHANGED <<policy, queue, th>>
  BY DEF TypeInv, RowsType, Startup, Restart, RestoreTimer, hallVars
<1>1. \A u \in Sessions : /\ rows'[u].stay = rows[u].stay /\ rows'[u].plate = rows[u].plate
                          /\ rows[u].images \subseteq rows'[u].images
  <2>1. UNCHANGED rows \/ \E s : rows' = [rows EXCEPT ![s].violated = TRUE]
    BY DEF Startup, Restart, RestoreTimer
  <2> QED BY <1>0, <2>1 DEF Rows
<1> QED BY <1>0, <1>1, CalmKeeps

LEMMA StepKeeps ==
    ASSUME TypeInv, StayInv, ReadingInv, [Next]_vars PROVE \A u \in Sessions : Keeps(u)
<1>1. CASE \E s \in Sessions : Arrive(s) \/ Leave(s)
  BY <1>1, SessionKeeps
<1>2. CASE Timer \/ Evidence \/ Settings
  BY <1>2, OverstayKeeps DEF Timer, Evidence, Settings, Rest, hallVars
<1>3. CASE Tick \/ UNCHANGED vars
  BY <1>3, OverstayKeeps DEF Tick, vars, overstayVars, hallVars
<1>4. CASE CaptureRuntime \/ Ocr
  BY <1>4, ThreadsKeep DEF CaptureRuntime, Ocr
<1> QED BY <1>1, <1>2, <1>3, <1>4, SinkKeeps, CrashKeeps, StartupKeeps DEF Next

-----------------------------------------------------------------------------
\* A step as the policy sees it: which session and how its record changes.
PolicyChanges ==
    \/ UNCHANGED policy
    \/ \E s \in Sessions, p \in Policies :
         /\ policy' = [policy EXCEPT ![s] = p]
         /\ p.result = "none" => p = Unbound
    \/ policy' = [s \in Sessions |-> Unbound]

LEMMA UnboundType == Unbound \in Policies /\ Bound \in Policies /\ Bound.result = "Pending"
                     /\ Bound.stage = Unbound.stage /\ Bound.attempts = 0
                     /\ Unbound.result = "none"
<1>1. Unbound \in Policies
  BY DEF Unbound, Policies, Results, StageStates
<1>2. "Pending" \in Results
  BY DEF Results
<1>3. Unbound.result = "none" /\ Unbound.attempts = 0
  BY DEF Unbound
<1> QED BY <1>1, <1>2, <1>3, PolicyFields DEF Bound

LEMMA PolicyStep ==
    ASSUME TypeInv, ReadingInv, [Next]_vars PROVE PolicyChanges
<1>0. policy \in [Sessions -> Policies] /\ \A s \in Sessions : ~IsBound(s) => policy[s] = Unbound
  BY DEF ReadingInv, PolicyType
<1>1. CASE execute
  <2>1. PICK c \in batch : \/ UNCHANGED policy
                           \/ /\ IsBound(c.session) /\ Image(c.session, c.stage) # "EvidenceOnly"
                              /\ policy' = [policy EXCEPT ![c.session].stage[c.stage] =
                                                            Image(c.session, c.stage)]
    BY <1>1 DEF execute
  <2>2. PICK s \in Sessions, k \in Stages : s = c.session /\ k = c.stage
    BY DEF TypeInv, CaptureType, Captures
  <2>3. CASE /\ IsBound(s) /\ Image(s, k) # "EvidenceOnly"
             /\ policy' = [policy EXCEPT ![s].stage[k] = Image(s, k)]
    <3> DEFINE x == Image(s, k)
               p == [policy[s] EXCEPT !.stage[k] = x]
    <3>1. x \in StageStates
      BY <2>3 DEF Image, StageStates
    <3>2. policy' = [policy EXCEPT ![s] = p]
      BY <2>3
    <3> HIDE DEF x
    <3>3. p \in Policies /\ p.result = policy[s].result
      BY <1>0, <3>1, PolicyFields
    <3> HIDE DEF p
    <3> QED BY <2>3, <3>2, <3>3 DEF PolicyChanges, IsBound
  <2> QED BY <2>1, <2>2, <2>3 DEF PolicyChanges
<1>2. ASSUME NEW t \in Threads, onOcrOutcome(t) PROVE PolicyChanges
  <2>0. th[t].pc # "idle"
    BY <1>2 DEF onOcrOutcome, At
  <2>1. PICK s \in Sessions, k \in Stages : s = th[t].session /\ k = th[t].stage
    BY <2>0, AtWork
  <2>2. CASE ~IsBound(s) \/ policy[s].stage[k] # "Running"
    BY <1>2, <2>1, <2>2 DEF onOcrOutcome, PolicyChanges
  <2>3. CASE IsBound(s) /\ policy[s].stage[k] = "Running"
    <3>1. PICK v, r, n, st : Folded(t, s, k, v, r, n, st)
      BY <1>2, <2>1, <2>3, Folding
    <3> DEFINE p == [result |-> r, stage |-> st, attempts |-> n]
    <3>2. p \in Policies /\ p.result = r
      BY <3>1 DEF Folded, Policies
    <3>3. r # "none"
      BY <2>3, <3>1 DEF Folded, IsBound
    <3>4. policy' = [policy EXCEPT ![s] = p]
      BY <3>1 DEF Folded
    <3> HIDE DEF p
    <3> QED BY <3>2, <3>3, <3>4 DEF PolicyChanges
  <2> QED BY <2>2, <2>3
<1>3. CASE CaptureThread \/ OcrThread
  <2>1. "capture" \in Threads /\ "ocr" \in Threads
    BY DEF Threads
  <2>2. \/ UNCHANGED policy \/ execute
        \/ \E t \in Threads : onOcrOutcome(t)
    BY <1>3, <2>1 DEF CaptureThread, OcrThread, Coordinator, due, onDispatchResult, TakeTask,
       ReadPlate, ApplyPlate, Judge, Alert, enqueueHallCapture, writeOcrFailure
  <2> QED BY <1>1, <1>2, <2>2 DEF PolicyChanges
<1>4. CASE Sink
  <2>1. \/ UNCHANGED policy
        \/ \E s \in Sessions : policy' = [policy EXCEPT ![s] = Bound]
        \/ sink.session \in Sessions /\ policy' = [policy EXCEPT ![sink.session] = Unbound]
    BY <1>4 DEF Sink, SessionStarted, SessionEnded, ReleaseSession, ReleaseThrows, Depart, hallVars,
       TypeInv, SinkType, Idle
  <2> QED BY <2>1, UnboundType DEF PolicyChanges
<1>5. CASE Crash
  BY <1>5 DEF Crash, PolicyChanges
<1>6. CASE \/ \E s \in Sessions : Arrive(s) \/ Leave(s)
           \/ Tick \/ Timer \/ Evidence \/ Settings \/ Startup \/ UNCHANGED vars
  BY <1>6 DEF PolicyChanges, Arrive, Leave, Tick, Timer, Evidence, Settings, Startup, Restart,
     RestoreTimer, Rest, hallVars, vars
<1> QED BY <1>3, <1>4, <1>5, <1>6 DEF Next, CaptureRuntime, Ocr

\* Only a plate that was read goes on to be written.
LEMMA PlateStep ==
    ASSUME TypeInv, ReadingInv, [Next]_vars
    PROVE  th'["ocr"].pc = "apply" => th'["ocr"].plate # NoPlate
<1>0. /\ th["ocr"].pc = "apply" => th["ocr"].plate # NoPlate
      /\ Threads = {"capture", "ocr"} /\ NoPlate \notin Classes
  BY DEF ReadingInv, PolicyType, Threads, NoPlate, Classes
<1>1. ASSUME NEW t \in Threads, NEW v, v.pc # "apply", th' = [th EXCEPT ![t] = v]
      PROVE  th'["ocr"].pc = "apply" => th'["ocr"].plate # NoPlate
  BY <1>0, <1>1 DEF TypeInv, CaptureType
<1>2. ASSUME NEW t \in Threads, th[t].pc # "idle"
      PROVE  \A pc : [th[t] EXCEPT !.pc = pc].pc = pc
  BY <1>2, AtWork
<1>i. Idle.pc # "apply"
  BY DEF Idle
<1>3. ASSUME NEW t \in Threads, NEW pc, GoTo(t, pc), pc # "apply", th[t].pc # "idle"
      PROVE  th'["ocr"].pc = "apply" => th'["ocr"].plate # NoPlate
  <2> DEFINE v == [th[t] EXCEPT !.pc = pc]
  <2>1. th' = [th EXCEPT ![t] = v]
    BY <1>3 DEF GoTo
  <2>2. v.pc # "apply"
    BY <1>2, <1>3
  <2> HIDE DEF v
  <2> QED BY <1>1, <2>1, <2>2
<1>4. ASSUME NEW t \in Threads, th' = [th EXCEPT ![t] = Return(t)], th[t].pc # "idle"
      PROVE  th'["ocr"].pc = "apply" => th'["ocr"].plate # NoPlate
  <2>1. Return(t).pc # "apply"
    BY <1>2, <1>4, <1>i DEF Return
  <2> QED BY <1>1, <1>4, <2>1
<1>5. ASSUME NEW t \in Threads, Coordinator(t)
      PROVE  th'["ocr"].pc = "apply" => th'["ocr"].plate # NoPlate
  <2>1. CASE enqueueHallCapture(t)
    BY <1>3, <1>4, <2>1 DEF enqueueHallCapture, At
  <2>2. CASE onOcrOutcome(t)
    <3>0. th[t].pc # "idle"
      BY <2>2 DEF onOcrOutcome, At
    <3>1. PICK s \in Sessions, k \in Stages : s = th[t].session /\ k = th[t].stage
      BY <3>0, AtWork
    <3>2. CASE ~IsBound(s) \/ policy[s].stage[k] # "Running"
      BY <1>4, <2>2, <3>0, <3>1, <3>2 DEF onOcrOutcome
    <3>3. CASE IsBound(s) /\ policy[s].stage[k] = "Running"
      <4>1. PICK v, r, n, st : Folded(t, s, k, v, r, n, st)
        BY <2>2, <3>1, <3>3, Folding
      <4> QED BY <1>1, <4>1 DEF Folded
    <3> QED BY <3>2, <3>3
  <2>3. CASE writeOcrFailure(t)
    <3>0. th[t].pc # "idle"
      BY <2>3 DEF writeOcrFailure, At
    <3>1. CASE t = "capture"
      <4>1. th'["ocr"] = th["ocr"]
        BY <1>0, <2>3, <3>1 DEF writeOcrFailure, TypeInv, CaptureType
      <4> QED BY <1>0, <4>1
    <3>2. CASE t # "capture"
      <4>1. th' = [th EXCEPT ![t] = Return(t)] \/ th' = [th EXCEPT ![t] = Idle]
        BY <2>3, <3>2 DEF writeOcrFailure
      <4> QED BY <1>1, <1>4, <1>i, <3>0, <4>1
    <3> QED BY <3>1, <3>2
  <2> QED BY <1>5, <2>1, <2>2, <2>3 DEF Coordinator
<1>6. CASE ReadPlate
  <2>0. th["ocr"].pc # "idle"
    BY <1>6 DEF ReadPlate, At
  <2>1. ASSUME NEW p \in Classes, th' = [th EXCEPT !["ocr"].pc = "apply", !["ocr"].plate = p]
        PROVE  th'["ocr"].plate # NoPlate
    <3>1. th'["ocr"].plate = p
      BY <1>0, <2>0, <2>1 DEF TypeInv, CaptureType, ThreadStates, OcrStates, Idle
    <3> QED BY <1>0, <3>1
  <2> QED BY <1>0, <1>1, <1>3, <1>6, <1>i, <2>0, <2>1 DEF ReadPlate
<1>7. CASE TakeTask
  <2>1. ASSUME NEW c, th' = [th EXCEPT !["ocr"] =
                        [pc |-> "read", session |-> c.session, stage |-> c.stage, plate |-> NoPlate]]
        PROVE  th'["ocr"].pc = "apply" => th'["ocr"].plate # NoPlate
    <3> DEFINE v == [pc |-> "read", session |-> c.session, stage |-> c.stage, plate |-> NoPlate]
    <3>1. v.pc # "apply" /\ th' = [th EXCEPT !["ocr"] = v]
      BY <2>1
    <3> HIDE DEF v
    <3> QED BY <1>0, <1>1, <3>1
  <2> QED BY <1>0, <1>7, <2>1 DEF TakeTask
<1>8. CASE ApplyPlate \/ Judge \/ Alert
  <2>0. th["ocr"].pc # "idle"
    BY <1>8 DEF ApplyPlate, Judge, Alert, At
  <2>1. \/ th' = [th EXCEPT !["ocr"] = Idle] \/ GoTo("ocr", "fold") \/ GoTo("ocr", "alert")
    BY <1>8 DEF ApplyPlate, Judge, Alert, GoTo
  <2> QED BY <1>0, <1>1, <1>3, <1>i, <2>0, <2>1
<1>9. CASE due \/ execute \/ onDispatchResult
  <2>1. th'["ocr"] = th["ocr"]
    BY <1>0, <1>9 DEF due, execute, onDispatchResult, Dispatch, TypeInv, CaptureType
  <2> QED BY <1>0, <2>1
<1>10. CASE Crash
  <2>1. th'["ocr"] = Idle
    BY <1>0, <1>10 DEF Crash
  <2> QED BY <1>i, <2>1
<1>11. CASE \/ \E s \in Sessions : Arrive(s) \/ Leave(s)
            \/ Tick \/ Sink \/ Timer \/ Evidence \/ Settings \/ Startup \/ UNCHANGED vars
  <2>1. UNCHANGED th
    BY <1>11 DEF Arrive, Leave, Tick, Timer, Evidence, Settings, Startup, Restart, Sink,
       SessionStarted, SessionEnded, ReleaseSession, ReleaseThrows, Depart,
       RestoreTimer, Rest, hallVars, vars
  <2> QED BY <1>0, <2>1
<1> QED BY <1>0, <1>5, <1>6, <1>7, <1>8, <1>9, <1>10, <1>11
        DEF Next, CaptureRuntime, Ocr, CaptureThread, OcrThread

\* A stay that left has left for good.
LEMMA LeftStays ==
    ASSUME TypeInv, StayInv, [Next]_vars, NEW s \in Sessions, rows[s].stay = "left"
    PROVE  rows'[s].stay = "left"
<1> DEFINE stay == [u \in Sessions |-> rows[u].stay]
<1>1. [PS!Next]_StayVars
  BY StepIsGood DEF Good
<1>2. stay'[s] = "left"
  <2>1. stay[s] = "left"
    OBVIOUS
  <2>2. UNCHANGED stay \/ \E u \in Sessions : /\ stay[u] \in {"none", "parked"}
                                              /\ \E x : stay' = [stay EXCEPT ![u] = x]
    BY <1>1 DEF StayVars, PS!Next, PS!Arrive, PS!Leave, PS!Judge, PS!TellViolation, PS!Store,
       PS!TellDeparture
  <2> QED BY <2>1, <2>2
<1> QED BY <1>2

LEMMA ReadingStep == TypeInv /\ StayInv /\ ReadingInv /\ [Next]_vars => ReadingInv'
<1> SUFFICES ASSUME TypeInv, StayInv, ReadingInv, [Next]_vars PROVE ReadingInv'
  OBVIOUS
<1>1. \A s \in Sessions : Staying(s)' => ReadInv(s)' /\ PlateIsUsed(s)'
  BY StepKeeps DEF Keeps
<1>2. /\ policy' \in [Sessions -> Policies]
      /\ \A s \in Sessions : policy'[s].result = "none" => policy'[s] = Unbound
  <2>1. /\ policy \in [Sessions -> Policies]
        /\ \A s \in Sessions : policy[s].result = "none" => policy[s] = Unbound
    BY DEF ReadingInv, PolicyType, IsBound
  <2> QED BY <2>1, PolicyStep, UnboundType DEF PolicyChanges
<1>3. \A s \in Sessions : s \in canceled' => rows'[s].stay = "left"
  <2>1. canceled' \subseteq canceled \/ Depart
    BY DEF Next, Arrive, Leave, Tick, Timer, Evidence, Settings, Startup, Restart, Sink,
       SessionStarted, SessionEnded, ReleaseSession, ReleaseThrows, RestoreTimer, Rest, hallVars,
       vars, Crash, CaptureRuntime, Ocr, CaptureThread, OcrThread, Coordinator, due, execute,
       onDispatchResult, TakeTask, ReadPlate, ApplyPlate, Judge, Alert, enqueueHallCapture,
       onOcrOutcome, writeOcrFailure
  <2>2. CASE Depart
    <3>1. canceled' = canceled \cup {sink.session} /\ rows[sink.session].stay = "left"
      BY <2>2 DEF Depart, StayInv, OwedInv, Idle
    <3> QED BY <3>1, LeftStays DEF ReadingInv, PolicyType
  <2> QED BY <2>1, <2>2, LeftStays DEF ReadingInv, PolicyType
<1> QED BY <1>1, <1>2, <1>3, PlateStep DEF ReadingInv, PolicyType, IsBound

LEMMA ReadingInit == Init => ReadingInv
<1> SUFFICES ASSUME Init PROVE ReadingInv
  OBVIOUS
<1>1. /\ policy = [s \in Sessions |-> Unbound] /\ canceled = {} /\ queue = <<>>
      /\ \A t \in Threads : th[t].pc = "idle"
      /\ \A s \in Sessions : rows[s].plate = NoPlate
  BY DEF Init, OverstayInit, HallInit, Idle
<1>2. \A s \in Sessions, k \in Stages :
        /\ ~InQueue(s, k) /\ Once(s, k) /\ policy[s].stage[k] = "NotArrived"
        /\ \A t \in Threads : ~Holds(t, s, k)
  BY <1>1 DEF InQueue, Once, Holds, Place, Unbound
<1>3. PolicyType
  BY <1>1, UnboundType DEF PolicyType, Threads, IsBound
<1>4. "capture" \in Threads
  BY DEF Threads
<1> QED BY <1>1, <1>2, <1>3, <1>4 DEF ReadingInv, ReadInv, PlateIsUsed

\* An image that is read is in one place, and what is known of a plate came of
\* an image that is not read any more.
THEOREM ReadingAlways == Spec => []ReadingInv
<1> QED BY StayInvAlways, ReadingInit, ReadingStep, PTL DEF Spec

-----------------------------------------------------------------------------
(***************************************************************************)
(* Unresolved means that the images gave no plate                          *)
(***************************************************************************)
\* The steps of the two threads, but for the outcome of a reading.
Unfolding ==
    \/ due \/ execute \/ onDispatchResult \/ TakeTask \/ ReadPlate \/ ApplyPlate \/ Judge \/ Alert
    \/ \E t \in Threads : enqueueHallCapture(t) \/ writeOcrFailure(t)

\* Only an outcome leads from a fold or to a failure.
LEMMA ThreadMoves ==
    ASSUME TypeInv, Unfolding
    PROVE  \/ UNCHANGED th
           \/ \E t \in Threads : \E v : /\ th' = [th EXCEPT ![t] = v] /\ v.pc # "unresolved"
                                         /\ th[t].pc # "fold"
<1>0. "capture" \in Threads /\ "ocr" \in Threads
  BY DEF Threads
<1>1. ASSUME NEW t \in Threads, th[t].pc # "idle"
      PROVE  \A pc : [th[t] EXCEPT !.pc = pc].pc = pc
  BY <1>1, AtWork
<1> DEFINE Moves == \E t \in Threads : \E v : /\ th' = [th EXCEPT ![t] = v] /\ v.pc # "unresolved"
                                               /\ th[t].pc # "fold"
<1>2. ASSUME NEW t \in Threads, NEW pc, GoTo(t, pc), pc # "unresolved", th[t].pc \notin {"fold", "idle"}
      PROVE  Moves
  <2> DEFINE v == [th[t] EXCEPT !.pc = pc]
  <2>1. th' = [th EXCEPT ![t] = v]
    BY <1>2 DEF GoTo
  <2>2. v.pc # "unresolved"
    BY <1>1, <1>2
  <2> HIDE DEF v
  <2> QED BY <1>2, <2>1, <2>2
<1>i. Idle.pc # "unresolved"
  BY DEF Idle
<1>3. ASSUME NEW t \in Threads, th' = [th EXCEPT ![t] = Idle], th[t].pc # "fold" PROVE Moves
  BY <1>3, <1>i
<1>4. ASSUME NEW t \in Threads, th' = [th EXCEPT ![t] = Return(t)], th[t].pc \notin {"fold", "idle"}
      PROVE  Moves
  <2>1. Return(t).pc # "unresolved"
    BY <1>1, <1>4, <1>i DEF Return
  <2> QED BY <1>4, <2>1
<1>5. ASSUME NEW t \in Threads, enqueueHallCapture(t) PROVE Moves
  BY <1>2, <1>4, <1>5 DEF enqueueHallCapture, At
<1>6. ASSUME NEW t \in Threads, writeOcrFailure(t) PROVE Moves
  <2>0. th[t].pc = "unresolved" /\ th[t].pc # "idle"
    BY <1>6 DEF writeOcrFailure, At
  <2>1. CASE t = "capture" /\ th' = [th EXCEPT ![t] = [Return(t) EXCEPT !.ok = FALSE]]
    <3> DEFINE v == [Return(t) EXCEPT !.ok = FALSE]
    <3>1. v.pc # "unresolved"
      <4>1. th[t] \in [pc : {"report", "submit", "fold", "unresolved"}, session : Sessions,
                       stage : Stages, plate : {NoPlate}, shot : Stages, ok : BOOLEAN]
        BY <2>0, <2>1 DEF TypeInv, CaptureType, ThreadStates, CaptureStates, Idle
      <4> QED BY <2>1, <4>1 DEF Return
    <3>2. th' = [th EXCEPT ![t] = v]
      BY <2>1
    <3> HIDE DEF v
    <3> QED BY <2>0, <3>1, <3>2
  <2>2. \/ th' = [th EXCEPT ![t] = Return(t)] \/ th' = [th EXCEPT ![t] = Idle]
        \/ t = "capture" /\ th' = [th EXCEPT ![t] = [Return(t) EXCEPT !.ok = FALSE]]
    BY <1>6 DEF writeOcrFailure
  <2> QED BY <1>3, <1>4, <2>0, <2>1, <2>2
<1>7. ASSUME TakeTask PROVE UNCHANGED th \/ Moves
  <2> DEFINE v == [pc |-> "read", session |-> Head(queue).session,
                   stage |-> Head(queue).stage, plate |-> NoPlate]
  <2>1. UNCHANGED th \/ th' = [th EXCEPT !["ocr"] = v]
    BY <1>7 DEF TakeTask
  <2>2. v.pc # "unresolved" /\ th["ocr"].pc # "fold"
    BY <1>7 DEF TakeTask, At
  <2> HIDE DEF v
  <2> QED BY <1>0, <2>1, <2>2
<1>8. ASSUME ReadPlate PROVE Moves
  <2>0. th["ocr"].pc = "read"
    BY <1>8 DEF ReadPlate, At
  <2>1. ASSUME NEW p \in Classes,
               th' = [th EXCEPT !["ocr"].pc = "apply", !["ocr"].plate = p]
        PROVE  Moves
    <3> DEFINE v == [th["ocr"] EXCEPT !.pc = "apply", !.plate = p]
    <3>1. th' = [th EXCEPT !["ocr"] = v]
      BY <1>0, <2>1 DEF TypeInv, CaptureType
    <3>2. v.pc # "unresolved"
      <4>1. th["ocr"] \in [pc : {"read", "apply", "submit", "fold", "unresolved", "judge", "alert"},
                           session : Sessions, stage : Stages, plate : Classes \cup {NoPlate}]
        BY <1>0, <2>0 DEF TypeInv, CaptureType, ThreadStates, OcrStates, Idle
      <4> QED BY <4>1
    <3> HIDE DEF v
    <3>3. th["ocr"].pc # "fold"
      BY <2>0
    <3> QED BY <1>0, <3>1, <3>2, <3>3
  <2>2. th["ocr"].pc \notin {"fold", "idle"}
    BY <2>0
  <2> QED BY <1>0, <1>2, <1>3, <1>8, <2>1, <2>2 DEF ReadPlate
<1>9. ASSUME ApplyPlate \/ Judge \/ Alert PROVE Moves
  <2>0. th["ocr"].pc \in {"apply", "judge", "alert"}
    BY <1>9 DEF ApplyPlate, Judge, Alert, At
  <2>1. \/ th' = [th EXCEPT !["ocr"] = Idle] \/ GoTo("ocr", "fold") \/ GoTo("ocr", "alert")
    BY <1>9 DEF ApplyPlate, Judge, Alert, GoTo
  <2>2. th["ocr"].pc \notin {"fold", "idle"}
    BY <2>0
  <2> QED BY <1>0, <1>2, <1>3, <2>1, <2>2
<1>10. ASSUME execute PROVE Moves
  <2>0. th["capture"].pc # "fold"
    BY <1>10 DEF execute, At
  <2>1. PICK c, pc, ok : Dispatch(c, pc, ok) /\ pc \in {"report", "submit"}
    BY <1>10 DEF execute
  <2> DEFINE v == [pc |-> pc, session |-> c.session, stage |-> c.stage, plate |-> NoPlate,
                   shot |-> c.stage, ok |-> ok]
  <2>2. th' = [th EXCEPT !["capture"] = v] /\ v.pc # "unresolved"
    BY <2>1 DEF Dispatch
  <2> HIDE DEF v
  <2> QED BY <1>0, <2>0, <2>2
<1>11. ASSUME onDispatchResult PROVE Moves
  BY <1>0, <1>3, <1>11 DEF onDispatchResult, At
<1>12. due => UNCHANGED th
  BY DEF due
<1> HIDE DEF Moves
<1>13. UNCHANGED th \/ Moves
  BY <1>0, <1>5, <1>6, <1>7, <1>8, <1>9, <1>10, <1>11, <1>12 DEF Unfolding
<1> QED BY <1>13 DEF Moves

\* What other steps leave of the readings of a session and its failure.
CalmThreads(s) ==
    /\ \A k \in Stages : FoldsPlate(s, k) => FoldsPlate(s, k)'
    /\ \A t \in Threads : th'[t].pc = "unresolved" /\ th'[t].session = s
                            => th[t].pc = "unresolved" /\ th[t].session = s

LEMMA MoveIsCalm ==
    ASSUME TypeInv, Unfolding, NEW s \in Sessions PROVE CalmThreads(s)
<1>1. CASE UNCHANGED th
  BY <1>1 DEF CalmThreads, FoldsPlate
<1>2. ASSUME NEW t \in Threads, NEW v, th' = [th EXCEPT ![t] = v],
             v.pc # "unresolved", th[t].pc # "fold"
      PROVE  CalmThreads(s)
  <2>1. th'[t] = v /\ \A x \in Threads \ {t} : th'[x] = th[x]
    BY <1>2 DEF TypeInv, CaptureType
  <2>2. "ocr" \in Threads
    BY DEF Threads
  <2>3. th["ocr"].pc = "fold" => th'["ocr"] = th["ocr"]
    BY <1>2, <2>1, <2>2
  <2>4. \A k \in Stages : FoldsPlate(s, k) => FoldsPlate(s, k)'
    BY <2>3 DEF FoldsPlate
  <2> QED BY <1>2, <2>1, <2>4 DEF CalmThreads
<1> QED BY <1>1, <1>2, ThreadMoves

\* What a step may do to a session without bringing it closer to a failure.
Calmly(s) ==
    /\ policy'[s].attempts = policy[s].attempts
    /\ rows'[s].plate = rows[s].plate
    /\ rows'[s].unresolved => rows[s].unresolved
    /\ \A k \in Stages : Spent(s, k) => Spent(s, k)'
    /\ CalmThreads(s)

\* Images that are spent stay so.
LEMMA SpentGrows ==
    ASSUME NEW s \in Sessions, \A k \in Stages : Spent(s, k) => Spent(s, k)'
    PROVE  SpentImages(s) \in 0..2 /\ SpentImages(s)' \in 0..2 /\ SpentImages(s) <= SpentImages(s)'
BY DEF SpentImages, Stages

LEMMA CalmlyFails ==
    ASSUME ReadingInv, NEW s \in Sessions, FailInv(s), Calmly(s) PROVE FailInv(s)'
<1>1. policy[s].attempts \in Nat /\ OcrAttempts \in Nat
  BY CaptureAssumption DEF ReadingInv, PolicyType, Policies, CaptureAssumption
<1>2. /\ SpentImages(s) \in 0..2 /\ SpentImages(s)' \in 0..2
      /\ SpentImages(s) <= SpentImages(s)'
  BY SpentGrows DEF Calmly
<1>3. \A n \in Nat : Bears(s, n) => n + (IF rows'[s].plate = NoPlate THEN 0 ELSE 1) <= SpentImages(s)'
  BY <1>2 DEF Bears, Calmly
<1> QED BY <1>1, <1>3 DEF FailInv, Calmly, CalmThreads, Bears

\* Images are added, their readings go on.
LEMMA SameStages ==
    ASSUME NEW s \in Sessions, CalmThreads(s), policy'[s].stage = policy[s].stage,
           rows[s].images \subseteq rows'[s].images
    PROVE  \A k \in Stages : Spent(s, k) => Spent(s, k)'
BY DEF Spent, CalmThreads

\* One more image is spent, of which there was a plate or a failed attempt.
LEMMA OneMoreSpent ==
    ASSUME NEW s \in Sessions, NEW k \in Stages, ~Spent(s, k), Spent(s, k)',
           \A l \in Stages : Spent(s, l) => Spent(s, l)'
    PROVE  SpentImages(s) \in 0..2 /\ SpentImages(s)' \in 0..2 /\ SpentImages(s) + 1 <= SpentImages(s)'
BY DEF SpentImages, Stages

\* A plate is written of an image that is being read.
LEMMA ApplyFails ==
    ASSUME TypeInv, ReadingInv, FailuresInv, ApplyPlate, NEW s \in Sessions, Staying(s)'
    PROVE  FailInv(s)'
<1>0. /\ UNCHANGED policy /\ th["ocr"].pc = "apply" /\ Threads = {"capture", "ocr"}
      /\ th["ocr"].pc # "idle" /\ rows \in [Sessions -> Rows] /\ th["ocr"].plate # NoPlate
      /\ policy[s].attempts \in Nat /\ OcrAttempts \in Nat
  BY CaptureAssumption DEF ApplyPlate, At, Threads, TypeInv, RowsType, ReadingInv, PolicyType,
     Policies, CaptureAssumption
<1>1. PICK u \in Sessions, k \in Stages : u = th["ocr"].session /\ k = th["ocr"].stage
  BY <1>0, AtWork
<1>2. /\ rows'[s].stay = rows[s].stay /\ rows'[s].images = rows[s].images
      /\ rows'[s].unresolved = rows[s].unresolved
      /\ s # u => rows'[s].plate = rows[s].plate
  BY <1>0, <1>1 DEF ApplyPlate, Rows
<1>3. Staying(s) /\ FailInv(s)
  BY <1>2 DEF Staying, FailuresInv
<1>4. CalmThreads(s)
  BY MoveIsCalm DEF Unfolding
<1>5. \A l \in Stages : Spent(s, l) => Spent(s, l)'
  BY <1>0, <1>2, <1>4, SameStages
<1>7. CASE s # u
  <2>1. Calmly(s)
    BY <1>0, <1>2, <1>4, <1>5, <1>7 DEF Calmly
  <2> QED BY <1>3, <2>1, CalmlyFails
<1>8. CASE s = u
  <2>1. s \notin canceled
    BY <1>3 DEF ReadingInv, PolicyType, Staying
  <2>2. FoldsPlate(s, k)'
    <3> DEFINE v == [th["ocr"] EXCEPT !.pc = "fold"]
    <3>1. th' = [th EXCEPT !["ocr"] = v]
      BY <1>1, <1>8, <2>1 DEF ApplyPlate
    <3>2. v.pc = "fold" /\ v.session = u /\ v.stage = k /\ v.plate # NoPlate
      BY <1>0, <1>1, AtWork
    <3> HIDE DEF v
    <3>3. th'["ocr"] = v
      BY <1>0, <3>1 DEF TypeInv, CaptureType
    <3> QED BY <1>8, <3>2, <3>3 DEF FoldsPlate
  <2>3. policy[s].stage[k] = "Running" /\ k \in rows[s].images
    <3>1. Holds("ocr", s, k)
      BY <1>0, <1>1, <1>8 DEF Holds, Place
    <3> QED BY <1>0, <1>3, <3>1 DEF ReadingInv, ReadInv
  <2>4. ~Spent(s, k) /\ Spent(s, k)'
    BY <1>0, <1>2, <2>2, <2>3 DEF Spent, FoldsPlate
  <2>5. /\ SpentImages(s) \in 0..2 /\ SpentImages(s)' \in 0..2
        /\ SpentImages(s) + 1 <= SpentImages(s)'
    BY <1>5, <2>4, OneMoreSpent
  <2>6. \A n \in Nat : Bears(s, n) => n + 1 <= SpentImages(s)'
    BY <2>5 DEF Bears
  <2>7. \A n \in Nat :
          Bears(s, n) => n + (IF rows'[s].plate = NoPlate THEN 0 ELSE 1) <= SpentImages(s)'
    BY <2>5, <2>6
  <2> QED BY <1>0, <1>2, <1>3, <1>4, <2>7 DEF FailInv, CalmThreads, Bears
<1> QED BY <1>7, <1>8

\* A failure is recorded of a session whose attempts are used up.
LEMMA RecordFails ==
    ASSUME TypeInv, ReadingInv, FailuresInv, NEW t \in Threads, writeOcrFailure(t),
           NEW s \in Sessions, Staying(s)'
    PROVE  FailInv(s)'
<1>0. /\ UNCHANGED policy /\ th[t].pc = "unresolved" /\ rows \in [Sessions -> Rows]
      /\ th[t].pc # "idle" /\ policy[s].attempts \in Nat /\ OcrAttempts \in Nat
  BY CaptureAssumption DEF writeOcrFailure, At, TypeInv, RowsType, ReadingInv, PolicyType, Policies,
     CaptureAssumption
<1>1. PICK u \in Sessions : u = th[t].session
  BY <1>0, AtWork
<1>2. /\ rows'[s].stay = rows[s].stay /\ rows'[s].images = rows[s].images
      /\ rows'[s].plate = rows[s].plate
      /\ s # u => rows'[s].unresolved = rows[s].unresolved
  BY <1>0, <1>1 DEF writeOcrFailure, Rows
<1>3. Staying(s) /\ FailInv(s)
  BY <1>2 DEF Staying, FailuresInv
<1>4. CalmThreads(s)
  BY MoveIsCalm DEF Unfolding
<1>5. \A l \in Stages : Spent(s, l) => Spent(s, l)'
  BY <1>0, <1>2, <1>4, SameStages
<1>6. CASE s # u
  <2>1. Calmly(s)
    BY <1>0, <1>2, <1>4, <1>5, <1>6 DEF Calmly
  <2> QED BY <1>3, <2>1, CalmlyFails
<1>7. CASE s = u
  <2>1. OcrAttempts <= policy[s].attempts
    BY <1>0, <1>1, <1>3, <1>7 DEF FailInv
  <2>2. /\ SpentImages(s) \in 0..2 /\ SpentImages(s)' \in 0..2
        /\ SpentImages(s) <= SpentImages(s)'
    BY <1>5, SpentGrows
  <2>3. policy[s].attempts + (IF rows'[s].plate = NoPlate THEN 0 ELSE 1) <= SpentImages(s)'
    BY <1>0, <1>2, <1>3, <2>2 DEF FailInv, Bears
  <2>4. OcrAttempts + (IF rows'[s].plate = NoPlate THEN 0 ELSE 1) <= SpentImages(s)'
    BY <1>0, <2>1, <2>2, <2>3
  <2> QED BY <1>0, <1>3, <1>4, <2>3, <2>4 DEF FailInv, CalmThreads, Bears
<1> QED BY <1>6, <1>7

\* An image is stored that no reading has seen.
LEMMA ExecuteFails ==
    ASSUME TypeInv, ReadingInv, FailuresInv, execute, NEW s \in Sessions, Staying(s)'
    PROVE  FailInv(s)'
<1>0. rows \in [Sessions -> Rows] /\ policy \in [Sessions -> Policies]
  BY DEF TypeInv, RowsType, ReadingInv, PolicyType
<1>1. PICK c \in batch :
        \/ UNCHANGED <<rows, policy>>
        \/ /\ Inserts(c.session, c.stage) /\ StoreImage(c.session, c.stage)
           /\ LET action == Image(c.session, c.stage)
              IN  policy' = IF action = "EvidenceOnly" THEN policy
                            ELSE [policy EXCEPT ![c.session].stage[c.stage] = action]
  BY DEF execute
<1>2. PICK u \in Sessions, k \in Stages : u = c.session /\ k = c.stage
  BY DEF TypeInv, CaptureType, Captures
<1>3. CalmThreads(s)
  BY MoveIsCalm DEF Unfolding
<1>4. CASE UNCHANGED <<rows, policy>>
  <2>1. Calmly(s) /\ FailInv(s)
    BY <1>3, <1>4, SameStages DEF Calmly, FailuresInv, Staying
  <2> QED BY <2>1, CalmlyFails
<1>5. CASE /\ Inserts(u, k) /\ StoreImage(u, k)
           /\ policy' = IF Image(u, k) = "EvidenceOnly" THEN policy
                        ELSE [policy EXCEPT ![u].stage[k] = Image(u, k)]
  <2>1. /\ rows'[s].stay = rows[s].stay /\ rows[s].images \subseteq rows'[s].images
        /\ rows'[s].plate = rows[s].plate /\ rows'[s].unresolved = rows[s].unresolved
        /\ k \notin rows[u].images
    BY <1>0, <1>5 DEF StoreImage, Inserts, Rows
  <2>2. FailInv(s)
    BY <2>1 DEF FailuresInv, Staying
  <2>3. /\ policy'[s].attempts = policy[s].attempts
        /\ \A l \in Stages : policy'[s].stage[l] = policy[s].stage[l] \/ (s = u /\ l = k)
    BY <1>0, <1>5 DEF Policies
  <2>4. \A l \in Stages : Spent(s, l) => Spent(s, l)'
    BY <1>3, <2>1, <2>3 DEF Spent, CalmThreads
  <2>5. Calmly(s)
    BY <1>3, <2>1, <2>3, <2>4 DEF Calmly
  <2> QED BY <2>2, <2>5, CalmlyFails
<1> QED BY <1>1, <1>2, <1>4, <1>5

\* An image that gave no plate counts as one attempt, and is spent by it.
LEMMA FoldFails ==
    ASSUME TypeInv, ReadingInv, FailuresInv, NEW t \in Threads, onOcrOutcome(t),
           NEW s \in Sessions, Staying(s)'
    PROVE  FailInv(s)'
<1>0. /\ UNCHANGED rows /\ Threads = {"capture", "ocr"} /\ th[t].pc = "fold"
      /\ th[t].pc # "idle" /\ policy \in [Sessions -> Policies]
      /\ Stages = {"30", "60"} /\ OcrAttempts \in Nat
  BY CaptureAssumption DEF onOcrOutcome, At, Threads, overstayVars, ReadingInv, PolicyType, Stages,
     CaptureAssumption
<1>1. PICK u \in Sessions, k \in Stages : u = th[t].session /\ k = th[t].stage
  BY <1>0, AtWork
<1>2. Staying(s) /\ FailInv(s) /\ ReadInv(s)
  BY <1>0 DEF Staying, FailuresInv, ReadingInv
<1>h. Holds(t, u, k)
  BY <1>0, <1>1 DEF Holds, Place
<1>p. th["capture"].pc = "fold" => th["capture"].plate = NoPlate
  BY <1>0 DEF TypeInv, CaptureType, ThreadStates, CaptureStates, Idle
<1>3. CASE ~IsBound(u) \/ policy[u].stage[k] # "Running"
  <2>1. UNCHANGED policy /\ th' = [th EXCEPT ![t] = Return(t)]
    BY <1>1, <1>3 DEF onOcrOutcome
  <2>2. Return(t).pc # "unresolved"
    BY <1>0, AtWork DEF Return, Idle
  <2>3. s # u
    <3>1. s = u => policy[s].stage[k] = "Running"
      BY <1>2, <1>h DEF ReadInv
    <3> QED BY <1>3, <3>1 DEF ReadingInv, PolicyType, Unbound
  <2>4. th'[t] = Return(t) /\ \A x \in Threads \ {t} : th'[x] = th[x]
    BY <2>1 DEF TypeInv, CaptureType
  <2>5. th["ocr"].session = s => th'["ocr"] = th["ocr"]
    BY <1>0, <1>1, <2>3, <2>4
  <2>6. CalmThreads(s)
    BY <2>2, <2>4, <2>5 DEF CalmThreads, FoldsPlate
  <2>7. Calmly(s)
    BY <1>0, <2>1, <2>6, SameStages DEF Calmly
  <2> QED BY <1>2, <2>7, CalmlyFails
<1>4. CASE IsBound(u) /\ policy[u].stage[k] = "Running"
  <2>1. PICK v, r, n, st : Folded(t, u, k, v, r, n, st)
    BY <1>1, <1>4, Folding
  <2>2. /\ th'[t] = v /\ \A x \in Threads \ {t} : th'[x] = th[x]
        /\ \A x \in Sessions \ {u} : policy'[x] = policy[x]
        /\ policy'[u].result = r /\ policy'[u].attempts = n /\ policy'[u].stage = st
        /\ v.pc = "unresolved" => v.session = u
    BY <1>0, <2>1 DEF Folded, TypeInv, CaptureType
  <2>3. CASE s # u
    <3>1. th["ocr"].session = s => th'["ocr"] = th["ocr"]
      BY <1>0, <1>1, <2>2, <2>3
    <3>2. CalmThreads(s)
      BY <2>2, <2>3, <3>1 DEF CalmThreads, FoldsPlate
    <3>3. policy'[s] = policy[s]
      BY <2>2, <2>3
    <3>4. Calmly(s)
      BY <1>0, <3>2, <3>3, SameStages DEF Calmly
    <3> QED BY <1>2, <3>4, CalmlyFails
  <2>4. CASE s = u
    <3>1. k \in rows[s].images /\ Spent(s, k)'
      BY <1>0, <1>2, <1>4, <2>1, <2>2, <2>4 DEF ReadInv, Spent, Folded
    <3>2. ASSUME NEW l \in Stages \ {k}, Spent(s, l) PROVE Spent(s, l)'
      <4>1. CASE policy[s].stage[l] \notin {"Running", "Held"}
        BY <1>0, <2>1, <2>2, <2>4, <3>2, <4>1 DEF Spent, Folded
      <4>2. CASE FoldsPlate(s, l)
        <5>1. th'["ocr"] = th["ocr"]
          BY <1>0, <1>1, <2>2, <2>4, <3>2, <4>2 DEF FoldsPlate
        <5> QED BY <1>0, <3>2, <4>2, <5>1 DEF Spent, FoldsPlate
      <4> QED BY <3>2, <4>1, <4>2 DEF Spent
    <3>3. \A l \in Stages : Spent(s, l) => Spent(s, l)'
      BY <3>1, <3>2
    <3>4. policy[s].attempts \in Nat /\ n \in Nat
      BY <1>0, <2>1 DEF Policies, Folded
    <3>5. Bears(s, n)'
      <4>1. CASE n = policy[s].attempts
        <5>1. /\ SpentImages(s) \in 0..2 /\ SpentImages(s)' \in 0..2
              /\ SpentImages(s) <= SpentImages(s)'
          BY <3>3, SpentGrows
        <5> QED BY <1>0, <1>2, <3>4, <4>1, <5>1 DEF FailInv, Bears
      <4>2. CASE n = policy[s].attempts + 1 /\ th[t].plate = NoPlate
        <5>1. ~FoldsPlate(s, k)
          <6>1. FoldsPlate(s, k) => Holds("ocr", s, k)
            BY DEF FoldsPlate, Holds, Place
          <6>2. FoldsPlate(s, k) => t = "capture"
            BY <1>0, <4>2 DEF FoldsPlate
          <6> QED BY <1>2, <1>h, <2>4, <6>1, <6>2 DEF ReadInv
        <5>2. ~Spent(s, k)
          BY <1>4, <2>4, <5>1 DEF Spent
        <5>3. /\ SpentImages(s) \in 0..2 /\ SpentImages(s)' \in 0..2
              /\ SpentImages(s) + 1 <= SpentImages(s)'
          BY <3>1, <3>3, <5>2, OneMoreSpent
        <5> QED BY <1>0, <1>2, <3>4, <4>2, <5>3 DEF FailInv, Bears
      <4> QED BY <2>1, <2>4, <4>1, <4>2 DEF Folded
    <3>6. \A x \in Threads : th'[x].pc = "unresolved" /\ th'[x].session = s
            => OcrAttempts <= policy'[s].attempts
      <4>1. policy[s].attempts <= n
        BY <2>1, <2>4, <3>4 DEF Folded
      <4>2. v.pc = "unresolved" => OcrAttempts <= n
        BY <1>0, <2>1, <3>4 DEF Folded, Exhausted
      <4>3. ASSUME NEW x \in Threads, th[x].pc = "unresolved", th[x].session = s
            PROVE  OcrAttempts <= n
        BY <1>0, <1>2, <3>4, <4>1, <4>3 DEF FailInv
      <4> QED BY <2>2, <2>4, <4>2, <4>3
    <3>7. rows'[s].unresolved => Bears(s, OcrAttempts)'
      <4>1. /\ SpentImages(s) \in 0..2 /\ SpentImages(s)' \in 0..2
            /\ SpentImages(s) <= SpentImages(s)'
        BY <3>3, SpentGrows
      <4> QED BY <1>0, <1>2, <4>1 DEF FailInv, Bears
    <3> QED BY <2>2, <2>4, <3>5, <3>6, <3>7 DEF FailInv, Bears
  <2> QED BY <2>3, <2>4
<1> QED BY <1>3, <1>4

LEMMA ThreadsFail ==
    ASSUME TypeInv, ReadingInv, FailuresInv, CaptureThread \/ OcrThread,
           NEW s \in Sessions, Staying(s)'
    PROVE  FailInv(s)'
<1>1. "capture" \in Threads /\ "ocr" \in Threads
  BY DEF Threads
<1>2. CASE \E t \in Threads : onOcrOutcome(t)
  BY <1>2, FoldFails
<1>3. CASE \E t \in Threads : writeOcrFailure(t)
  BY <1>3, RecordFails
<1>4. CASE execute \/ ApplyPlate
  BY <1>4, ExecuteFails, ApplyFails
<1>5. CASE \/ due \/ onDispatchResult \/ TakeTask \/ ReadPlate \/ Judge \/ Alert
           \/ \E t \in Threads : enqueueHallCapture(t)
  <2>1. CalmThreads(s)
    BY <1>5, MoveIsCalm DEF Unfolding
  <2>2. UNCHANGED policy /\ (UNCHANGED rows \/ \E u : Mark(u)) /\ rows \in [Sessions -> Rows]
    BY <1>5 DEF due, onDispatchResult, TakeTask, ReadPlate, Judge, Alert, enqueueHallCapture,
       overstayVars, TypeInv, RowsType
  <2>3. /\ rows'[s].stay = rows[s].stay /\ rows'[s].plate = rows[s].plate
        /\ rows'[s].images = rows[s].images /\ rows'[s].unresolved = rows[s].unresolved
    BY <2>2 DEF Mark, Rows
  <2>4. Calmly(s) /\ FailInv(s)
    BY <2>1, <2>2, <2>3, SameStages DEF Calmly, FailuresInv, Staying
  <2> QED BY <2>4, CalmlyFails
<1> QED BY <1>1, <1>2, <1>3, <1>4, <1>5 DEF CaptureThread, OcrThread, Coordinator

\* The others touch neither threads nor readings.
LEMMA OthersFail ==
    ASSUME TypeInv, ReadingInv, FailuresInv, UNCHANGED th, NEW s \in Sessions,
           Staying(s)' => Staying(s),
           rows'[s].plate = rows[s].plate, rows[s].images \subseteq rows'[s].images,
           rows'[s].unresolved = rows[s].unresolved,
           \/ policy'[s] = policy[s]
           \/ policy[s] = Unbound /\ policy'[s] = Bound,
           Staying(s)'
    PROVE  FailInv(s)'
<1>1. CalmThreads(s)
  BY DEF CalmThreads, FoldsPlate
<1>2. policy'[s].stage = policy[s].stage /\ policy'[s].attempts = policy[s].attempts
  BY UnboundType DEF Unbound
<1>3. Calmly(s)
  BY <1>1, <1>2, SameStages DEF Calmly
<1> QED BY <1>3, CalmlyFails DEF FailuresInv

LEMMA FailuresStep ==
    ASSUME TypeInv, StayInv, ReadingInv, FailuresInv, [Next]_vars
    PROVE  FailuresInv'
<1> SUFFICES ASSUME NEW s \in Sessions, Staying(s)' PROVE FailInv(s)'
  BY DEF FailuresInv
<1>0. Staying(s) /\ rows \in [Sessions -> Rows] /\ policy \in [Sessions -> Policies]
  BY LeftStays DEF Staying, TypeInv, RowsType, ReadingInv, PolicyType
<1>1. CASE CaptureRuntime \/ Ocr
  BY <1>1, ThreadsFail DEF CaptureRuntime, Ocr
<1>2. CASE Crash
  <2>1. /\ UNCHANGED rows /\ policy'[s] = Unbound /\ \A t \in Threads : th'[t].pc = "idle"
    BY <1>2 DEF Crash, Idle
  <2>2. policy'[s].attempts = 0 /\ \A k \in Stages : policy'[s].stage[k] = "NotArrived"
    BY <2>1 DEF Unbound
  <2>3. \A k \in Stages : Spent(s, k) => Spent(s, k)'
    BY <2>1, <2>2 DEF Spent
  <2>4. /\ SpentImages(s) \in 0..2 /\ SpentImages(s)' \in 0..2
        /\ SpentImages(s) <= SpentImages(s)'
    BY <2>3, SpentGrows
  <2>5. policy[s].attempts \in Nat /\ OcrAttempts \in Nat
    BY <1>0, CaptureAssumption DEF Policies, CaptureAssumption
  <2>6. FailInv(s)
    BY <1>0 DEF FailuresInv
  <2>7. Bears(s, 0)'
    BY <2>1, <2>4, <2>5, <2>6 DEF FailInv, Bears
  <2>8. rows'[s].unresolved => Bears(s, OcrAttempts)'
    BY <2>1, <2>4, <2>5, <2>6 DEF FailInv, Bears
  <2> QED BY <2>1, <2>2, <2>7, <2>8 DEF FailInv, Bears
<1>3. CASE \E u \in Sessions : Arrive(u) \/ Leave(u)
  <2>1. UNCHANGED <<th, policy>>
    BY <1>3 DEF Arrive, Leave, hallVars
  <2>2. \E u : \/ rows' = [rows EXCEPT ![u].stay = "left"]
               \/ rows' = [rows EXCEPT ![u].stay = "parked", ![u].entry = now]
    BY <1>3 DEF Arrive, Leave
  <2>3. /\ rows'[s].plate = rows[s].plate /\ rows'[s].images = rows[s].images
        /\ rows'[s].unresolved = rows[s].unresolved
    BY <1>0, <2>2 DEF Rows
  <2> QED BY <1>0, <2>1, <2>3, OthersFail
<1>4. CASE Timer \/ Evidence \/ Settings \/ Tick \/ Startup \/ UNCHANGED vars
  <2>1. UNCHANGED <<th, policy>>
    BY <1>4 DEF Timer, Evidence, Settings, Tick, Startup, Restart, RestoreTimer, Rest, hallVars, vars
  <2>2. \/ UNCHANGED rows \/ \E u : Mark(u) \/ \E i : StoreImage(u, i)
    <3>1. CASE TimerWorker
      BY <3>1 DEF TimerWorker, TakeExpired, DropReplaced, AwaitEvidence, MarkOverstay, MarkNothing,
         MarkThrows, TellOverstay
    <3>2. CASE EvidenceWorker
      BY <3>2 DEF EvidenceWorker, TakeJob, FinishJob
    <3>3. CASE Startup
      BY <3>3 DEF Startup, Restart, RestoreTimer, Mark
    <3> QED BY <1>4, <3>1, <3>2, <3>3 DEF Timer, Evidence, Settings, UpdateTimers, UpdateSetting,
            Tick, vars, overstayVars
  <2>3. /\ rows'[s].plate = rows[s].plate /\ rows[s].images \subseteq rows'[s].images
        /\ rows'[s].unresolved = rows[s].unresolved
    BY <1>0, <2>2 DEF Mark, StoreImage, Rows
  <2> QED BY <1>0, <2>1, <2>3, OthersFail
<1>5. CASE Sink
  <2>1. UNCHANGED th
    BY <1>5 DEF Sink, SessionStarted, SessionEnded, ReleaseSession, ReleaseThrows, Depart, hallVars
  <2>2. CASE \E u \in Sessions : SessionStarted(u)
    <3>1. PICK u \in Sessions : SessionStarted(u)
      BY <2>2
    <3>2. UNCHANGED rows
      BY <3>1 DEF SessionStarted
    <3>3. policy' = policy \/ (policy[u] = Unbound /\ policy' = [policy EXCEPT ![u] = Bound])
      BY <3>1 DEF SessionStarted, ReadingInv, PolicyType
    <3>4. policy'[s] = policy[s] \/ (policy[s] = Unbound /\ policy'[s] = Bound)
      BY <1>0, <3>3
    <3> QED BY <1>0, <2>1, <3>2, <3>4, OthersFail
  <2>3. CASE \E u \in Sessions : SessionEnded(u)
    <3>1. UNCHANGED <<policy, rows>>
      BY <2>3 DEF SessionEnded, hallVars
    <3> QED BY <1>0, <2>1, <3>1, OthersFail
  <2>4. CASE ReleaseSession \/ ReleaseThrows \/ Depart
    <3>1. PICK u \in Sessions : u = sink.session /\ rows[u].stay = "left"
      BY <2>4 DEF StayInv, OwedInv, TypeInv, SinkType, Idle, ReleaseSession, ReleaseThrows, Depart
    <3>2. s # u
      BY <1>0, <3>1 DEF Staying
    <3>3. rows'[s] = rows[s] /\ policy'[s] = policy[s]
      BY <1>0, <2>4, <3>1, <3>2 DEF ReleaseSession, ReleaseThrows, Depart
    <3> QED BY <1>0, <2>1, <3>3, OthersFail
  <2> QED BY <1>5, <2>2, <2>3, <2>4 DEF Sink
<1> QED BY <1>1, <1>2, <1>3, <1>4, <1>5 DEF Next

LEMMA FailuresInit == Init => FailuresInv
<1> SUFFICES ASSUME Init, NEW s \in Sessions PROVE FailInv(s)
  BY DEF FailuresInv
<1>1. /\ policy[s] = Unbound /\ \A t \in Threads : th[t].pc = "idle"
      /\ rows[s].plate = NoPlate /\ ~rows[s].unresolved
  BY DEF Init, OverstayInit, HallInit, Idle
<1>2. policy[s].attempts = 0 /\ 0 <= SpentImages(s)
  BY <1>1 DEF SpentImages, Unbound
<1> QED BY <1>1, <1>2 DEF FailInv, Bears

\* There are as many captures stored as images are spent, or more.
LEMMA StoredCaptures ==
    ASSUME NEW s \in Sessions
    PROVE  /\ Cardinality(rows[s].images \cap Stages) \in Nat
           /\ SpentImages(s) <= Cardinality(rows[s].images \cap Stages)
<1> DEFINE C == rows[s].images \cap Stages
<1>1. /\ Cardinality({}) = 0 /\ Cardinality({"30"}) = 1 /\ Cardinality({"60"}) = 1
      /\ Cardinality({"30", "60"}) = 2
  <2>1. \A x : Cardinality({x}) = 1 /\ IsFiniteSet({x})
    BY FS_Singleton
  <2>2. {"30", "60"} = {"30"} \cup {"60"} /\ "60" \notin {"30"}
    OBVIOUS
  <2>3. Cardinality({"30"} \cup {"60"}) = Cardinality({"30"}) + 1
    BY <2>1, <2>2, FS_AddElement, Zenon
  <2>4. Cardinality({}) = 0
    BY FS_EmptySet
  <2>5. Cardinality({"30", "60"}) = 1 + 1
    BY <2>1, <2>2, <2>3, Zenon
  <2>6. Cardinality({"30"}) = 1 /\ Cardinality({"60"}) = 1
    BY <2>1
  <2>7. Cardinality({"30", "60"}) = 2
    BY <2>5
  <2> QED BY <2>4, <2>6, <2>7
<1>2. C = {} \/ C = {"30"} \/ C = {"60"} \/ C = {"30", "60"}
  BY DEF Stages
<1>3. /\ Spent(s, "30") => "30" \in C
      /\ Spent(s, "60") => "60" \in C
  BY DEF Spent, Stages
<1>4. /\ C = {} => SpentImages(s) = 0
      /\ C = {"30"} \/ C = {"60"} => SpentImages(s) <= 1
      /\ SpentImages(s) <= 2
  BY <1>3 DEF SpentImages
<1> HIDE DEF C
<1>5. Cardinality(C) \in Nat /\ SpentImages(s) <= Cardinality(C)
  BY <1>1, <1>2, <1>4
<1> QED BY <1>5 DEF C

\* PLATE_OCR_UNRESOLVED is recorded of an open session only when OcrAttempts of
\* its captures gave no plate, and a plate that is known came of another one
\* (HallOcrPolicy::onOcrResult): for every number of attempts, whichever thread
\* folds a reading, over rejected images, retries and restarts.
THEOREM UnresolvedAlways == Spec => []UnresolvedIsUnknown
<1>1. TypeInv /\ StayInv /\ ReadingInv /\ FailuresInv /\ [Next]_vars => FailuresInv'
  BY FailuresStep
<1>2. FailuresInv => UnresolvedIsUnknown
  <2> SUFFICES ASSUME FailuresInv, NEW s \in Sessions, Open(s), rows[s].unresolved
               PROVE  OcrAttempts + (IF rows[s].plate = NoPlate THEN 0 ELSE 1)
                        <= Cardinality(rows[s].images \cap Stages)
    BY DEF UnresolvedIsUnknown
  <2>1. Bears(s, OcrAttempts)
    BY DEF FailuresInv, FailInv, Staying, Open
  <2>2. OcrAttempts \in Nat /\ SpentImages(s) \in Nat
    BY CaptureAssumption DEF CaptureAssumption, SpentImages
  <2> QED BY <2>1, <2>2, StoredCaptures DEF Bears
<1> QED BY StayInvAlways, ReadingAlways, FailuresInit, <1>1, <1>2, PTL DEF Spec
-----------------------------------------------------------------------------
(***************************************************************************)
(* The timers                                                              *)
(***************************************************************************)
Outstanding == timers \cup (IF timer.pc = "expired" THEN {timer.item} ELSE {})

\* A timer in force is due no earlier than the threshold in force says.  One
\* whose plate was overwritten is not renewed, but then both images are used up
\* and no plate brings it back into force.
DueInv(s) ==
    \A i \in Outstanding : i.session = s =>
        /\ rows[s].stay # "none"
        /\ Active(s) => i.gen <= generations[s]
        /\ Active(s) /\ isCurrent(i) /\ s \notin missed =>
             /\ rows[s].plate # "EV" => \A k \in Stages : Used(s, k)
             /\ rows[s].plate = "EV" /\ healthy => rows[s].entry + timeout <= i.due

\* What the OCR thread judges is what it wrote.
JudgedInv ==
    /\ th["ocr"].pc \in {"read", "submit"} => th["ocr"].plate = NoPlate
    /\ th["ocr"].pc # "idle" => rows[th["ocr"].session].stay # "none"
    /\ th["ocr"].pc \in {"fold", "judge"} =>
         (th["ocr"].plate = "EV" /\ Open(th["ocr"].session) /\ th["ocr"].session \notin missed
            => rows[th["ocr"].session].plate = "EV")

DownInv ==
    /\ timer.pc = "expired" => timer.item.due <= now
    /\ ~process.up => Outstanding = {} /\ th["ocr"] = Idle /\ process.restoring = {}
    /\ \A s \in Sessions : rows[s].stay = "none" => rows[s].images = {}

DuesInv == DownInv /\ JudgedInv /\ \A s \in Sessions : DueInv(s)

\* What a step does to the row of a stay that has begun, but for a new plate.
RowOn(s) ==
    rows[s].stay # "none" =>
        /\ rows'[s].stay # "none"
        /\ Open(s)' => /\ Open(s) /\ rows'[s].plate = rows[s].plate
                       /\ rows'[s].entry = rows[s].entry
                       /\ rows[s].violated => rows'[s].violated

LEMMA RowsOn ==
    ASSUME TypeInv, [Next]_vars, ~ApplyPlate, NEW s \in Sessions
    PROVE  RowOn(s) /\ (rows'[s].stay = "none" => rows[s].stay = "none")
<1>0. rows \in [Sessions -> Rows]
  BY DEF TypeInv, RowsType
<1>1. \/ UNCHANGED rows
      \/ \E u : \/ rows' = [rows EXCEPT ![u].violated = TRUE]
                \/ \E b : rows' = [rows EXCEPT ![u].unresolved = b]
                \/ \E n : rows' = [rows EXCEPT ![u].images = n]
                \/ rows' = [rows EXCEPT ![u].stay = "left"]
                \/ /\ rows[u].stay = "none" /\ u \in Sessions
                   /\ rows' = [rows EXCEPT ![u].stay = "parked", ![u].entry = now]
  <2>1. CASE \E u \in Sessions : Arrive(u) \/ Leave(u)
    BY <2>1 DEF Arrive, Leave
  <2>2. CASE Tick \/ Crash \/ UNCHANGED vars
    BY <2>2 DEF Tick, Crash, vars, overstayVars
  <2>3. CASE Sink
    <3>1. CASE ReleaseSession
      <4> DEFINE b == rows[sink.session].unresolved \/ SettledAtClose(policy[sink.session])
      <4>1. rows' = [rows EXCEPT ![sink.session].unresolved = b]
        BY <3>1 DEF ReleaseSession
      <4> HIDE DEF b
      <4> QED BY <4>1
    <3>2. CASE Depart
      BY <3>2 DEF Depart
    <3> QED BY <2>3, <3>1, <3>2 DEF Sink, SessionStarted, SessionEnded, ReleaseThrows
  <2>4. CASE Timer
    BY <2>4 DEF Timer, TimerWorker, TakeExpired, DropReplaced, AwaitEvidence,
       MarkOverstay, MarkNothing, MarkThrows, TellOverstay, Mark
  <2>5. CASE Evidence
    BY <2>5 DEF Evidence, EvidenceWorker, TakeJob, FinishJob, StoreImage
  <2>6. CASE Settings
    BY <2>6 DEF Settings, UpdateSetting, UpdateTimers
  <2>7. CASE Startup
    BY <2>7 DEF Startup, Restart, RestoreTimer
  <2>8. CASE CaptureRuntime \/ Ocr
    <3>1. ASSUME NEW t, Coordinator(t)
          PROVE  UNCHANGED rows \/ \E u, b : rows' = [rows EXCEPT ![u].unresolved = b]
      BY <3>1 DEF Coordinator, enqueueHallCapture, onOcrOutcome, writeOcrFailure, overstayVars
    <3>2. CASE execute
      BY <3>2 DEF execute, StoreImage
    <3>3. CASE due \/ onDispatchResult \/ TakeTask \/ ReadPlate \/ Alert
      BY <3>3 DEF due, onDispatchResult, TakeTask, ReadPlate, Alert, overstayVars
    <3>4. CASE Judge
      BY <3>4 DEF Judge, Mark
    <3> QED BY <2>8, <3>1, <3>2, <3>3, <3>4 DEF CaptureRuntime, Ocr, CaptureThread, OcrThread
  <2> QED BY <2>1, <2>2, <2>3, <2>4, <2>5, <2>6, <2>7, <2>8 DEF Next
<1>2. CASE UNCHANGED rows
  BY <1>2 DEF RowOn, Open
<1>3. ASSUME NEW u, \/ rows' = [rows EXCEPT ![u].violated = TRUE]
                    \/ \E b : rows' = [rows EXCEPT ![u].unresolved = b]
                    \/ \E n : rows' = [rows EXCEPT ![u].images = n]
      PROVE  RowOn(s) /\ (rows'[s].stay = "none" => rows[s].stay = "none")
  BY <1>0, <1>3 DEF RowOn, Open, Rows
<1>4. ASSUME NEW u, \/ rows' = [rows EXCEPT ![u].stay = "left"]
                    \/ /\ rows[u].stay = "none" /\ u \in Sessions
                       /\ rows' = [rows EXCEPT ![u].stay = "parked", ![u].entry = now]
      PROVE  RowOn(s) /\ (rows'[s].stay = "none" => rows[s].stay = "none")
  BY <1>0, <1>4 DEF RowOn, Open, Rows
<1> QED BY <1>1, <1>2, <1>3, <1>4

\* A timer that a step leaves alone, or moves to a later time.
Kept(s) ==
    /\ \A i \in Outstanding' : i.session = s =>
         \E j \in Outstanding : j.session = s /\ j.gen = i.gen /\ j.due <= i.due
    /\ Active(s)' /\ rows[s].stay # "none" =>
         /\ generations'[s] = generations[s]
         /\ s \notin missed' => s \notin missed
         /\ rows'[s].plate = "EV" /\ healthy' => healthy /\ timeout' = timeout

LEMMA Typed ==
    ASSUME TypeInv
    PROVE  /\ Outstanding \subseteq Items /\ timeout \in Nat /\ now \in Nat
           /\ generations \in [Sessions -> Nat] /\ rows \in [Sessions -> Rows]
           /\ \A s \in Sessions : rows[s].entry \in Nat
<1>1. timer.pc = "expired" => timer.item \in Items
  BY DEF TypeInv, TimerType, Idle
<1>2. timeout \in Nat /\ now \in Nat
  BY ThresholdsPositive DEF TypeInv, ClockType
<1> QED BY <1>1, <1>2 DEF TypeInv, TimerType, RowsType, Rows, Outstanding

LEMMA KeptIsDue ==
    ASSUME TypeInv, TypeInv', NEW s \in Sessions, DueInv(s), Keeps(s), RowOn(s), Kept(s)
    PROVE  DueInv(s)'
<1> SUFFICES ASSUME NEW i \in Outstanding', i.session = s
             PROVE  /\ rows'[s].stay # "none"
                    /\ Active(s)' => i.gen <= generations'[s]
                    /\ Active(s)' /\ isCurrent(i)' /\ s \notin missed' =>
                         /\ rows'[s].plate # "EV" => \A k \in Stages : Used(s, k)'
                         /\ rows'[s].plate = "EV" /\ healthy'
                              => rows'[s].entry + timeout' <= i.due
  BY DEF DueInv
<1>1. PICK j \in Outstanding : j.session = s /\ j.gen = i.gen /\ j.due <= i.due
  BY DEF Kept
<1>2. /\ rows[s].stay # "none"
      /\ Active(s) => j.gen <= generations[s]
      /\ Active(s) /\ isCurrent(j) /\ s \notin missed =>
           /\ rows[s].plate # "EV" => \A k \in Stages : Used(s, k)
           /\ rows[s].plate = "EV" /\ healthy => rows[s].entry + timeout <= j.due
  BY <1>1 DEF DueInv
<1>3. rows'[s].stay # "none"
  BY <1>2 DEF RowOn
<1>4. ASSUME Active(s)'
      PROVE  /\ Active(s) /\ rows'[s].plate = rows[s].plate /\ rows'[s].entry = rows[s].entry
             /\ generations'[s] = generations[s]
             /\ s \notin missed' => s \notin missed
             /\ rows'[s].plate = "EV" /\ healthy' => healthy /\ timeout' = timeout
  BY <1>2, <1>4 DEF RowOn, Kept, Active
<1>5. Active(s)' => Staying(s)'
  BY DEF Active, Open, Staying
<1>6. j \in Items /\ i \in Items /\ timeout \in Nat /\ rows[s].entry \in Nat
  <2>1. Outstanding' \subseteq Items
    <3>1. timer'.pc = "expired" => timer'.item \in Items
      BY TypeInv' DEF TypeInv, TimerType, Idle
    <3> QED BY <3>1, TypeInv' DEF TypeInv, TimerType, Outstanding
  <2> QED BY <2>1, Typed
<1>7. isCurrent(i)' => (Active(s)' => isCurrent(j))
  BY <1>1, <1>4 DEF isCurrent
<1> QED BY <1>1, <1>2, <1>3, <1>4, <1>5, <1>6, <1>7 DEF Keeps, Items

LEMMA UntimedKept ==
    ASSUME TypeInv, NEW s \in Sessions, missed \subseteq missed',
           UNCHANGED <<timers, timer, generations, timeout, healthy>>
    PROVE  Kept(s)
<1>1. Outstanding' = Outstanding /\ \A i \in Outstanding : i.due \in Nat
  BY Typed DEF Outstanding, Items
<1>2. \A i \in Outstanding : i.due <= i.due
  BY <1>1
<1> QED BY <1>1, <1>2 DEF Kept

LEMMA NoneIsDue ==
    ASSUME Outstanding' = {}, NEW s \in Sessions PROVE DueInv(s)'
BY DEF DueInv

LEMMA ItemFields ==
    ASSUME NEW i \in Items, NEW d \in Nat
    PROVE  /\ LET j == [i EXCEPT !.due = d]
              IN  j.session = i.session /\ j.gen = i.gen /\ j.due = d
           /\ LET j == [i EXCEPT !.due = d, !.tries = @ + 1]
              IN  j.session = i.session /\ j.gen = i.gen /\ j.due = d
<1>1. LET j == [i EXCEPT !.due = d]
      IN  j.session = i.session /\ j.gen = i.gen /\ j.due = d
  BY DEF Items
<1>2. LET j == [i EXCEPT !.due = d, !.tries = @ + 1]
      IN  j.session = i.session /\ j.gen = i.gen /\ j.due = d
  BY DEF Items
<1> QED BY <1>1, <1>2

LEMMA TimerKept ==
    ASSUME TypeInv, DownInv, TimerWorker, NEW s \in Sessions PROVE Kept(s)
<1>0. /\ UNCHANGED <<timeout, healthy, missed>> /\ now \in Nat
      /\ \A i \in Outstanding : i \in Items /\ i.due <= i.due
      /\ rows \in [Sessions -> Rows]
  BY Typed DEF TimerWorker, TakeExpired, DropReplaced, AwaitEvidence, MarkOverstay, MarkNothing,
     MarkThrows, TellOverstay, policyVars, evidenceVars, Items
<1>e. ASSUME timer.pc = "expired"
      PROVE  timer.item \in Outstanding /\ timer.item \in Items /\ timer.item.due <= now
  BY <1>0, <1>e DEF DownInv, Outstanding
<1>1. ASSUME Outstanding' \subseteq Outstanding,
             UNCHANGED generations \/ (Active(s)' => generations'[s] = generations[s])
      PROVE  Kept(s)
  BY <1>0, <1>1 DEF Kept
<1>2. CASE TakeExpired
  <2>1. PICK i \in timers : timers' = timers \ {i} /\ timer' = [pc |-> "expired", item |-> i]
    BY <1>2 DEF TakeExpired
  <2>2. Outstanding' \subseteq Outstanding
    BY <2>1 DEF Outstanding
  <2> QED BY <1>1, <1>2, <2>2 DEF TakeExpired
<1>3. CASE DropReplaced \/ MarkNothing \/ TellOverstay
  <2>1. Outstanding' \subseteq Outstanding
    BY <1>3 DEF Outstanding, DropReplaced, MarkNothing, TellOverstay, timerVars, Idle
  <2> QED BY <1>1, <1>3, <2>1 DEF DropReplaced, MarkNothing, TellOverstay, timerVars
<1>4. CASE MarkOverstay
  <2>1. Outstanding' \subseteq Outstanding /\ timer.pc = "expired"
    <3>1. timer \in [pc : {"expired", "tell"}, item : Items]
      BY <1>4 DEF MarkOverstay, Expired, TypeInv, TimerType, Idle
    <3>2. timer'.pc = "tell" /\ timers' = timers
      BY <1>4, <3>1 DEF MarkOverstay
    <3> QED BY <1>4, <3>2 DEF Outstanding, MarkOverstay, Expired
  <2>2. timer.item.session = s => ~Active(s)'
    BY <1>0, <1>4 DEF MarkOverstay, Mark, Active, Rows
  <2>3. Active(s)' => generations'[s] = generations[s]
    BY <1>4, <2>2, Typed DEF MarkOverstay
  <2> QED BY <1>1, <2>1, <2>3
<1>5. CASE AwaitEvidence \/ MarkThrows
  <2>1. timer.pc = "expired" /\ UNCHANGED generations /\ timer'.pc = "idle"
    BY <1>5 DEF AwaitEvidence, MarkThrows, Expired, Idle
  <2>2. PICK j : /\ timers' = timers \cup {j}
                 /\ \/ j = [timer.item EXCEPT !.due = now]
                    \/ j = [timer.item EXCEPT !.due = now, !.tries = @ + 1]
    BY <1>5 DEF AwaitEvidence, MarkThrows, RetryItem
  <2>3. j.session = timer.item.session /\ j.gen = timer.item.gen /\ j.due = now
    <3>1. timer.item \in Items /\ now \in Nat
      BY <1>0, <1>e, <2>1
    <3> DEFINE a == [timer.item EXCEPT !.due = now]
               b == [timer.item EXCEPT !.due = now, !.tries = @ + 1]
    <3>2. a.session = timer.item.session /\ a.gen = timer.item.gen /\ a.due = now
      BY <3>1, ItemFields
    <3>3. b.session = timer.item.session /\ b.gen = timer.item.gen /\ b.due = now
      BY <3>1, ItemFields
    <3>4. j = a \/ j = b
      BY <2>2
    <3> HIDE DEF a, b
    <3> QED BY <3>2, <3>3, <3>4
  <2>4. \A i \in Outstanding' : i \in Outstanding \/ i = j
    BY <2>1, <2>2 DEF Outstanding
  <2> QED BY <1>0, <1>e, <2>1, <2>3, <2>4 DEF Kept
<1> QED BY <1>2, <1>3, <1>4, <1>5 DEF TimerWorker

\* Timers are replaced: those of which are due at the threshold now in force.
LEMMA ScheduledIsDue ==
    ASSUME TypeInv, TypeInv', NEW s \in Sessions, DueInv(s), Keeps(s), RowOn(s),
           NEW which \in SUBSET Sessions, Schedule(which, timeout'), UNCHANGED timer,
           s \in which => Open(s) /\ (s \notin missed' => rows[s].plate = "EV"),
           s \notin which /\ Active(s)' =>
             /\ s \notin missed' => s \notin missed
             /\ rows'[s].plate = "EV" /\ healthy' => healthy /\ timeout' = timeout
    PROVE  DueInv(s)'
<1>0. /\ generations \in [Sessions -> Nat] /\ Outstanding \subseteq Items /\ now \in Nat
      /\ timeout' \in Nat /\ \A u \in Sessions : rows[u].entry \in Nat
  BY Typed, TypeInv', ThresholdsPositive DEF TypeInv, ClockType
<1>1. \A i \in Outstanding' : i \in Outstanding
                              \/ \E u \in which : i = TimerItem(u, generations[u] + 1, timeout')
  BY DEF Outstanding, Schedule
<1>2. \A u \in Sessions : LET i == TimerItem(u, generations[u] + 1, timeout')
                          IN  /\ i.session = u /\ i.gen = generations[u] + 1
                              /\ rows[u].entry + timeout' <= i.due
  BY <1>0 DEF TimerItem, Deadline, Later
<1>3. CASE s \in which
  <2> SUFFICES ASSUME NEW i \in Outstanding', i.session = s
               PROVE  /\ rows'[s].stay # "none"
                      /\ Active(s)' => i.gen <= generations'[s]
                      /\ Active(s)' /\ isCurrent(i)' /\ s \notin missed' =>
                           /\ rows'[s].plate # "EV" => \A k \in Stages : Used(s, k)'
                           /\ rows'[s].plate = "EV" /\ healthy'
                                => rows'[s].entry + timeout' <= i.due
    BY DEF DueInv
  <2>1. generations'[s] = generations[s] + 1 /\ rows[s].stay = "parked"
    BY <1>3 DEF Schedule, Open
  <2>2. /\ rows'[s].stay # "none"
        /\ Active(s)' => /\ Active(s) /\ rows'[s].plate = rows[s].plate
                         /\ rows'[s].entry = rows[s].entry
    BY <2>1 DEF RowOn, Active
  <2>3. CASE i \in Outstanding
    <3>1. i.gen \in Nat /\ (Active(s) => i.gen <= generations[s])
      BY <1>0, <2>3 DEF DueInv, Items
    <3>2. Active(s)' => i.gen <= generations'[s] /\ ~isCurrent(i)'
      BY <1>0, <2>1, <2>2, <3>1 DEF isCurrent
    <3> QED BY <2>2, <3>2
  <2>4. CASE \E u \in which : i = TimerItem(u, generations[u] + 1, timeout')
    <3>1. i.gen = generations'[s] /\ rows[s].entry + timeout' <= i.due
      BY <1>2, <2>1, <2>4
    <3> QED BY <1>0, <1>3, <2>1, <2>2, <3>1
  <2> QED BY <1>1, <2>3, <2>4
<1>4. CASE s \notin which
  <2>1. \A i \in Outstanding' : i.session = s => i \in Outstanding /\ i.due <= i.due
    BY <1>0, <1>1, <1>2, <1>4 DEF Items
  <2>2. generations'[s] = generations[s]
    BY <1>4 DEF Schedule
  <2>3. Kept(s)
    BY <1>4, <2>1, <2>2 DEF Kept
  <2> QED BY <2>3, KeptIsDue
<1> QED BY <1>3, <1>4

\* A plate that overwrites another one uses up the second image.
LEMMA ApplyDue ==
    ASSUME TypeInv, TypeInv', ReadingInv, ApplyPlate, NEW s \in Sessions, DueInv(s), Keeps(s)
    PROVE  DueInv(s)'
<1>0. /\ th["ocr"].pc = "apply" /\ th["ocr"].pc # "idle" /\ "ocr" \in Threads
      /\ UNCHANGED <<timers, timer, generations, timeout, healthy, policy, queue>>
      /\ missed \subseteq missed' /\ rows \in [Sessions -> Rows]
      /\ th["ocr"].plate # NoPlate
  BY DEF ApplyPlate, At, Threads, timerVars, policyVars, TypeInv, RowsType, ReadingInv, PolicyType
<1>1. PICK u \in Sessions, k \in Stages : u = th["ocr"].session /\ k = th["ocr"].stage
  BY <1>0, AtWork
<1>2. CASE rows' = rows \/ u # s
  <2>1. rows'[s] = rows[s]
    BY <1>0, <1>1, <1>2 DEF ApplyPlate
  <2>2. RowOn(s)
    BY <2>1 DEF RowOn, Open
  <2> QED BY <1>0, <2>2, UntimedKept, KeptIsDue
<1>3. CASE u = s /\ Open(s) /\ rows' = [rows EXCEPT ![s].plate = th["ocr"].plate]
  <2> SUFFICES ASSUME NEW i \in Outstanding', i.session = s
               PROVE  /\ rows'[s].stay # "none"
                      /\ Active(s)' => i.gen <= generations'[s]
                      /\ Active(s)' /\ isCurrent(i)' /\ s \notin missed' =>
                           /\ rows'[s].plate # "EV" => \A l \in Stages : Used(s, l)'
                           /\ rows'[s].plate = "EV" /\ healthy'
                                => rows'[s].entry + timeout' <= i.due
    BY DEF DueInv
  <2>1. /\ rows'[s].stay = rows[s].stay /\ rows'[s].violated = rows[s].violated
        /\ rows'[s].entry = rows[s].entry /\ rows'[s].images = rows[s].images
    BY <1>0, <1>3 DEF Rows
  <2>2. i \in Outstanding /\ (isCurrent(i)' <=> isCurrent(i)) /\ (Active(s)' <=> Active(s))
    BY <1>0, <2>1 DEF Outstanding, isCurrent, Active, Open
  <2>3. /\ rows[s].stay # "none"
        /\ Active(s) => i.gen <= generations[s]
        /\ Active(s) /\ isCurrent(i) /\ s \notin missed =>
             /\ rows[s].plate # "EV" => \A l \in Stages : Used(s, l)
             /\ rows[s].plate = "EV" /\ healthy => rows[s].entry + timeout <= i.due
    BY <2>2 DEF DueInv
  <2>4. Staying(s) /\ Staying(s)' /\ Holds("ocr", s, k)
    BY <1>0, <1>1, <1>3, <2>1 DEF Staying, Open, Holds, Place
  <2>5. ~Used(s, k)
    BY <1>0, <2>4 DEF Used
  <2>6. ASSUME rows[s].plate = "EV" PROVE \A l \in Stages : Used(s, l)'
    <3>1. ReadInv(s) /\ PlateIsUsed(s)
      BY <2>4 DEF ReadingInv
    <3>2. PICK l \in Stages : Used(s, l)
      BY <2>6, <3>1 DEF PlateIsUsed, NoPlate
    <3>3. Used(s, l)' /\ Stages = {k, l}
      BY <2>4, <2>5, <3>2 DEF Keeps, Stages
    <3>4. Used(s, k)'
      <4>1. /\ policy[s].stage[k] = "Running" /\ ~InQueue(s, k) /\ k \in rows[s].images
            /\ ~Holds("capture", s, k)
        BY <1>0, <2>4, <3>1 DEF ReadInv
      <4>2. th'["ocr"].pc \in {"idle", "fold"} /\ th'["capture"] = th["capture"]
        <5> DEFINE v == [th["ocr"] EXCEPT !.pc = "fold"]
        <5>1. th'["ocr"] = Idle \/ th'["ocr"] = v
          BY <1>0 DEF ApplyPlate, TypeInv, CaptureType
        <5>2. v.pc = "fold"
          BY <1>0, AtWork
        <5>3. th'["capture"] = th["capture"]
          BY DEF ApplyPlate, TypeInv, CaptureType
        <5> HIDE DEF v
        <5> QED BY <5>1, <5>2, <5>3 DEF Idle
      <4>3. ~InQueue(s, k)' /\ ~Holds("capture", s, k)'
        BY <1>0, <4>1, <4>2 DEF InQueue, Holds
      <4>4. Holds("ocr", s, k)' => th'["ocr"].pc = "fold"
        BY <4>2 DEF Holds, Place
      <4> QED BY <1>0, <2>1, <4>1, <4>3, <4>4 DEF Used, Threads
    <3> QED BY <3>3, <3>4
  <2> QED BY <1>0, <2>1, <2>2, <2>3, <2>5, <2>6
<1> QED BY <1>1, <1>2, <1>3 DEF ApplyPlate

LEMMA JudgeDue ==
    ASSUME TypeInv, TypeInv', JudgedInv, Judge, NEW s \in Sessions, DueInv(s), Keeps(s), RowOn(s)
    PROVE  DueInv(s)'
<1>0. /\ th["ocr"].pc = "judge" /\ th["ocr"].pc # "idle" /\ "ocr" \in Threads
      /\ UNCHANGED <<timer, timeout, healthy>> /\ missed \subseteq missed'
  BY DEF Judge, At, Threads, policyVars
<1>1. PICK u \in Sessions : u = th["ocr"].session
  BY <1>0, AtWork
<1>2. CASE UNCHANGED <<timers, generations>>
  BY <1>0, <1>2, UntimedKept, KeptIsDue
<1>3. CASE StartsTimer(u, th["ocr"].plate) /\ Schedule({u}, timeout) /\ UNCHANGED missed
  <2>1. Open(u) /\ (u \notin missed' => rows[u].plate = "EV")
    BY <1>0, <1>1, <1>3 DEF JudgedInv, StartsTimer
  <2>2. {u} \in SUBSET Sessions /\ Schedule({u}, timeout')
    BY <1>0, <1>3 DEF Schedule
  <2> QED BY <1>0, <1>3, <2>1, <2>2, ScheduledIsDue
<1> QED BY <1>1, <1>2, <1>3 DEF Judge

LEMMA UpdateDue ==
    ASSUME TypeInv, TypeInv', UpdateTimers, NEW s \in Sessions, DueInv(s), Keeps(s), RowOn(s)
    PROVE  DueInv(s)'
<1>1. PICK which \in SUBSET TimedByRow :
        /\ which = TimedByRow \/ healthy' = FALSE
        /\ Schedule(which, setting.threshold) /\ missed' = missed \ which
  BY DEF UpdateTimers
<1>2. which \in SUBSET Sessions /\ UNCHANGED <<timer, rows>> /\ timeout' = setting.threshold
  BY <1>1 DEF UpdateTimers, TimedByRow
<1>3. Schedule(which, timeout')
  BY <1>1, <1>2 DEF Schedule
<1>4. s \in which => Open(s) /\ (s \notin missed' => rows[s].plate = "EV")
  BY <1>1 DEF TimedByRow, Active
<1>5. s \notin which /\ Active(s)' =>
        /\ s \notin missed' => s \notin missed
        /\ rows'[s].plate = "EV" /\ healthy' => healthy /\ timeout' = timeout
  BY <1>1, <1>2 DEF TimedByRow, Active, Open
<1> QED BY <1>2, <1>3, <1>4, <1>5, ScheduledIsDue

LEMMA RestoreDue ==
    ASSUME TypeInv, TypeInv', RestoreTimer, NEW s \in Sessions, DueInv(s), Keeps(s), RowOn(s)
    PROVE  DueInv(s)'
<1>1. PICK u \in process.restoring :
        Schedule({r \in {u} : StartsTimer(r, rows[r].plate)}, timeout)
  BY DEF RestoreTimer
<1> DEFINE which == {r \in {u} : StartsTimer(r, rows[r].plate)}
<1>2. UNCHANGED <<timer, timeout, healthy, missed>>
  BY DEF RestoreTimer, policyVars
<1>3. which \in SUBSET Sessions
  BY DEF TypeInv, SinkType
<1>4. \A r \in which : Open(r) /\ rows[r].plate = "EV"
  BY DEF StartsTimer
<1>5. Schedule(which, timeout)
  BY <1>1
<1> HIDE DEF which
<1>6. Schedule(which, timeout')
  BY <1>2, <1>5 DEF Schedule
<1> QED BY <1>2, <1>3, <1>4, <1>6, ScheduledIsDue

LEMMA DueStep ==
    ASSUME TypeInv, TypeInv', StayInv, ReadingInv, DuesInv, [Next]_vars, NEW s \in Sessions
    PROVE  DueInv(s)'
<1>0. DueInv(s) /\ Keeps(s) /\ (~ApplyPlate => RowOn(s))
  BY StepKeeps, RowsOn DEF DuesInv
<1>1. ASSUME UNCHANGED <<timers, timer, generations, timeout, healthy>>, missed \subseteq missed',
             ~ApplyPlate
      PROVE  DueInv(s)'
  BY <1>0, <1>1, UntimedKept, KeptIsDue
<1>2. CASE ApplyPlate
  BY <1>0, <1>2, ApplyDue
<1>3. CASE ~ApplyPlate
  <2>1. CASE Timer
    BY <1>0, <1>3, <2>1, TimerKept, KeptIsDue DEF Timer, DuesInv
  <2>2. CASE Settings
    BY <1>0, <1>1, <1>3, <2>2, UpdateDue DEF Settings, UpdateSetting, timerVars
  <2>3. CASE Crash
    <3>1. Outstanding' = {}
      BY <2>3 DEF Crash, Outstanding, Idle
    <3> QED BY <3>1, NoneIsDue
  <2>4. CASE Startup
    <3>1. CASE Restart
      <4>1. Outstanding' = {}
        BY <3>1 DEF Restart, timerVars, DuesInv, DownInv, Outstanding
      <4> QED BY <4>1, NoneIsDue
    <3> QED BY <1>0, <1>3, <2>4, <3>1, RestoreDue DEF Startup
  <2>5. CASE \E u \in Sessions : Arrive(u) \/ Leave(u)
    BY <1>1, <1>3, <2>5 DEF Arrive, Leave, timerVars, policyVars
  <2>6. CASE Tick \/ UNCHANGED vars
    BY <1>1, <1>3, <2>6 DEF Tick, vars, overstayVars, timerVars, policyVars
  <2>7. CASE Sink
    BY <1>1, <1>3, <2>7 DEF Sink, SessionStarted, SessionEnded, ReleaseSession, ReleaseThrows,
       Depart, timerVars, policyVars
  <2>8. CASE Evidence
    BY <1>1, <1>3, <2>8 DEF Evidence, EvidenceWorker, TakeJob, FinishJob, timerVars, policyVars
  <2>9. CASE CaptureRuntime \/ Ocr
    <3>1. CASE Judge
      BY <1>0, <1>3, <3>1, JudgeDue DEF DuesInv
    <3>2. ASSUME NEW t, Coordinator(t)
          PROVE  UNCHANGED <<timers, timer, generations, timeout, healthy, missed>>
      BY <3>2 DEF Coordinator, enqueueHallCapture, onOcrOutcome, writeOcrFailure, overstayVars,
         timerVars, policyVars
    <3>3. CASE due \/ execute \/ onDispatchResult \/ TakeTask \/ ReadPlate \/ Alert
      BY <1>1, <1>3, <3>3 DEF due, execute, onDispatchResult, TakeTask, ReadPlate, Alert,
         overstayVars, timerVars, policyVars
    <3> QED BY <1>1, <1>3, <2>9, <3>1, <3>2, <3>3 DEF CaptureRuntime, Ocr, CaptureThread, OcrThread
  <2> QED BY <2>1, <2>2, <2>3, <2>4, <2>5, <2>6, <2>7, <2>8, <2>9 DEF Next
<1> QED BY <1>2, <1>3

LEMMA Resubmitted ==
    ASSUME TypeInv, NEW t \in Threads, th[t].pc # "idle"
    PROVE  LET v == [th[t] EXCEPT !.pc = "submit", !.stage = "60"]
           IN  v.pc = "submit" /\ v.session = th[t].session /\ v.plate = th[t].plate
<1>1. th[t] \in ThreadStates(t) /\ t \in {"capture", "ocr"}
  BY DEF TypeInv, CaptureType, Threads
<1> QED BY <1>1 DEF ThreadStates, CaptureStates, OcrStates, Idle

\* The OCR thread goes on with its session; only what it has written is judged.
LEMMA OcrMoves ==
    ASSUME TypeInv, JudgedInv, OcrThread, ~TakeTask
    PROVE  \/ th'["ocr"].pc = "idle"
           \/ /\ th["ocr"].pc # "idle" /\ th'["ocr"].session = th["ocr"].session
              /\ th'["ocr"].pc \in {"read", "submit"} => th'["ocr"].plate = NoPlate
              /\ th'["ocr"].pc \in {"fold", "judge"} =>
                   \/ th'["ocr"].plate = NoPlate
                   \/ /\ th'["ocr"].plate = th["ocr"].plate
                      /\ th["ocr"].pc \in {"fold", "judge"} \/ ApplyPlate
<1> DEFINE Moves == \/ th'["ocr"].pc = "idle"
                    \/ /\ th["ocr"].pc # "idle" /\ th'["ocr"].session = th["ocr"].session
                       /\ th'["ocr"].pc \in {"read", "submit"} => th'["ocr"].plate = NoPlate
                       /\ th'["ocr"].pc \in {"fold", "judge"} =>
                            \/ th'["ocr"].plate = NoPlate
                            \/ /\ th'["ocr"].plate = th["ocr"].plate
                               /\ th["ocr"].pc \in {"fold", "judge"} \/ ApplyPlate
<1> SUFFICES Moves
  OBVIOUS
<1>0. "ocr" \in Threads /\ Return("ocr") = Idle /\ \A v : th' = [th EXCEPT !["ocr"] = v] => th'["ocr"] = v
  BY DEF Threads, TypeInv, CaptureType, Return
<1>1. ASSUME th' = [th EXCEPT !["ocr"] = Idle] PROVE Moves
  BY <1>0, <1>1 DEF Idle
<1>2. ASSUME th["ocr"].pc # "idle", NEW pc, th' = [th EXCEPT !["ocr"].pc = pc],
             pc \in {"fold", "judge", "apply", "alert", "unresolved"},
             pc \in {"fold", "judge"} => \/ th["ocr"].plate = NoPlate
                                        \/ th["ocr"].pc \in {"fold", "judge"} \/ ApplyPlate
      PROVE  Moves
  <2> DEFINE v == [th["ocr"] EXCEPT !.pc = pc]
  <2>1. v.pc = pc /\ v.session = th["ocr"].session /\ v.plate = th["ocr"].plate
    BY <1>0, <1>2, AtWork
  <2>2. th'["ocr"] = v
    BY <1>0, <1>2
  <2> HIDE DEF v
  <2> QED BY <1>2, <2>1, <2>2
<1>3. CASE ReadPlate
  <2>1. th["ocr"].pc = "read" /\ th["ocr"].pc # "idle" /\ th["ocr"].plate = NoPlate
    BY <1>3 DEF ReadPlate, At, JudgedInv
  <2>2. ASSUME NEW p \in Classes, th' = [th EXCEPT !["ocr"].pc = "apply", !["ocr"].plate = p]
        PROVE  Moves
    <3> DEFINE w == [th["ocr"] EXCEPT !.pc = "apply"]
               v == [w EXCEPT !.plate = p]
    <3>1. th'["ocr"] = v
      BY <1>0, <2>1, <2>2 DEF TypeInv, CaptureType
    <3>2. w.session = th["ocr"].session /\ w.pc = "apply"
      BY <1>0, <2>1, AtWork
    <3>3. v.session = w.session /\ v.pc = w.pc
      OBVIOUS
    <3> HIDE DEF w, v
    <3> QED BY <2>1, <3>1, <3>2, <3>3
  <2> QED BY <1>1, <1>2, <1>3, <2>1, <2>2 DEF ReadPlate, GoTo
<1>4. CASE ApplyPlate
  BY <1>1, <1>2, <1>4 DEF ApplyPlate, At
<1>5. CASE Judge \/ Alert
  BY <1>1, <1>2, <1>5 DEF Judge, Alert, At, GoTo
<1>6. CASE enqueueHallCapture("ocr") \/ writeOcrFailure("ocr")
  <2>1. /\ th["ocr"].pc # "idle"
        /\ th["ocr"].pc = "submit" => th["ocr"].plate = NoPlate
    BY <1>6 DEF enqueueHallCapture, writeOcrFailure, At, JudgedInv
  <2> QED BY <1>0, <1>1, <1>2, <1>6, <2>1 DEF enqueueHallCapture, writeOcrFailure, At, GoTo
<1>7. CASE onOcrOutcome("ocr")
  <2>1. th["ocr"].pc = "fold" /\ th["ocr"].pc # "idle"
    BY <1>7 DEF onOcrOutcome, At
  <2>2. \/ th' = [th EXCEPT !["ocr"] = Return("ocr")]
        \/ GoTo("ocr", "judge") \/ GoTo("ocr", "unresolved")
        \/ /\ th["ocr"].plate = NoPlate
           /\ th' = [th EXCEPT !["ocr"] = [th["ocr"] EXCEPT !.pc = "submit", !.stage = "60"]]
    BY <1>7 DEF onOcrOutcome, TypeInv, CaptureType
  <2>3. ASSUME th["ocr"].plate = NoPlate,
               th' = [th EXCEPT !["ocr"] = [th["ocr"] EXCEPT !.pc = "submit", !.stage = "60"]]
        PROVE  Moves
    <3> DEFINE v == [th["ocr"] EXCEPT !.pc = "submit", !.stage = "60"]
    <3>1. v.pc = "submit" /\ v.session = th["ocr"].session /\ v.plate = th["ocr"].plate
      BY <1>0, <2>1, Resubmitted
    <3>2. th'["ocr"] = v
      BY <1>0, <2>3
    <3> HIDE DEF v
    <3> QED BY <2>1, <2>3, <3>1, <3>2
  <2> QED BY <1>0, <1>1, <1>2, <2>1, <2>2, <2>3 DEF GoTo
<1> HIDE DEF Moves
<1>8. \/ ReadPlate \/ ApplyPlate \/ Judge \/ Alert
      \/ enqueueHallCapture("ocr") \/ writeOcrFailure("ocr") \/ onOcrOutcome("ocr")
  BY DEF OcrThread, Coordinator
<1> QED BY <1>3, <1>4, <1>5, <1>6, <1>7, <1>8

\* What the sink, the timer and the rest leave of the OCR thread and of missed.
LEMMA OcrOn ==
    ASSUME TypeInv, DownInv, [Next]_vars, ~(process.up /\ OcrThread)
    PROVE  /\ th'["ocr"] = th["ocr"] \/ th'["ocr"] = Idle
           /\ \A s \in Sessions : s \in missed /\ s \notin missed' =>
                th["ocr"] = Idle \/ (rows[s].plate = "EV" /\ UNCHANGED rows)
<1>0. \A v : th' = [th EXCEPT !["capture"] = v] => th'["ocr"] = th["ocr"]
  BY DEF TypeInv, CaptureType, Threads
<1>1. CASE UNCHANGED <<th, missed>>
  BY <1>1
<1>2. CASE Settings
  BY <1>2 DEF Settings, UpdateSetting, UpdateTimers, Rest, hallVars, TimedByRow
<1>3. CASE Startup
  BY <1>3 DEF Startup, Restart, RestoreTimer, hallVars, DownInv
<1>4. CASE Crash
  BY <1>4 DEF Crash, Threads
<1>5. CASE CaptureRuntime
  <2>1. ASSUME Coordinator("capture")
        PROVE  UNCHANGED missed /\ \E v : th' = [th EXCEPT !["capture"] = v]
    <3>1. UNCHANGED missed
      BY <2>1 DEF Coordinator, enqueueHallCapture, onOcrOutcome, writeOcrFailure, overstayVars
    <3>2. CASE enqueueHallCapture("capture")
      BY <3>2 DEF enqueueHallCapture, GoTo
    <3>3. CASE writeOcrFailure("capture")
      BY <3>3 DEF writeOcrFailure
    <3>4. CASE onOcrOutcome("capture")
      <4> DEFINE w == [th["capture"] EXCEPT !.pc = "submit", !.stage = "60"]
      <4>1. \/ th' = [th EXCEPT !["capture"] = Return("capture")]
            \/ GoTo("capture", "judge") \/ GoTo("capture", "unresolved")
            \/ th' = [th EXCEPT !["capture"] = w]
        BY <3>4 DEF onOcrOutcome, TypeInv, CaptureType
      <4>2. ASSUME NEW pc, GoTo("capture", pc) PROVE \E v : th' = [th EXCEPT !["capture"] = v]
        BY <4>2 DEF GoTo
      <4> HIDE DEF w
      <4> QED BY <3>1, <4>1, <4>2
    <3> QED BY <2>1, <3>1, <3>2, <3>3, <3>4 DEF Coordinator
  <2>2. CASE due \/ onDispatchResult \/ execute
    <3>1. UNCHANGED missed
      BY <2>2 DEF due, onDispatchResult, execute, overstayVars
    <3>2. UNCHANGED th \/ \E v : th' = [th EXCEPT !["capture"] = v]
      <4>1. ASSUME execute PROVE \E v : th' = [th EXCEPT !["capture"] = v]
        BY <4>1 DEF execute, Dispatch
      <4> QED BY <2>2, <4>1 DEF due, onDispatchResult
    <3> QED BY <1>0, <3>1, <3>2
  <2> QED BY <1>0, <1>5, <2>1, <2>2 DEF CaptureRuntime, CaptureThread
<1>6. CASE Timer \/ Evidence
  BY <1>1, <1>6 DEF Timer, Evidence, Rest, hallVars, TimerWorker, TakeExpired, DropReplaced,
     AwaitEvidence, MarkOverstay, MarkNothing, MarkThrows, TellOverstay, EvidenceWorker, TakeJob,
     FinishJob
<1>7. CASE Sink
  BY <1>1, <1>7 DEF Sink, SessionStarted, SessionEnded, ReleaseSession, ReleaseThrows, Depart,
     hallVars
<1>8. CASE Tick \/ UNCHANGED vars \/ \E s \in Sessions : Arrive(s) \/ Leave(s)
  BY <1>1, <1>8 DEF Tick, vars, overstayVars, Arrive, Leave, hallVars
<1> QED BY <1>2, <1>3, <1>4, <1>5, <1>6, <1>7, <1>8 DEF Next, Ocr

LEMMA JudgedStep ==
    ASSUME TypeInv, ReadingInv, DuesInv, [Next]_vars PROVE JudgedInv'
<1>0. /\ JudgedInv /\ "ocr" \in Threads /\ NoPlate # "EV" /\ rows \in [Sessions -> Rows]
      /\ th["ocr"].pc # "idle" => th["ocr"].session \in Sessions
  <2>1. "ocr" \in Threads
    BY DEF Threads
  <2> QED BY <2>1, AtWork DEF DuesInv, NoPlate, TypeInv, RowsType
<1>1. CASE th'["ocr"].pc = "idle"
  BY <1>1 DEF JudgedInv
<1>2. CASE ~(process.up /\ OcrThread) /\ th'["ocr"].pc # "idle"
  <2>1. /\ th'["ocr"] = th["ocr"]
        /\ \A s \in Sessions : s \in missed /\ s \notin missed' =>
             rows[s].plate = "EV" /\ UNCHANGED rows
    BY <1>2, OcrOn DEF DuesInv, Idle
  <2>2. ~ApplyPlate
    <3>1. ApplyPlate => missed \subseteq missed'
      BY DEF ApplyPlate
    <3>2. ApplyPlate => th["ocr"].pc = "apply" /\ th'["ocr"].pc # "apply"
      <4> SUFFICES ASSUME ApplyPlate PROVE th["ocr"].pc = "apply" /\ th'["ocr"].pc # "apply"
        OBVIOUS
      <4> DEFINE v == [th["ocr"] EXCEPT !.pc = "fold"]
      <4>1. th["ocr"].pc = "apply"
        BY DEF ApplyPlate, At
      <4>2. th'["ocr"] = Idle \/ th'["ocr"] = v
        BY <1>0 DEF ApplyPlate, TypeInv, CaptureType
      <4>3. v.pc = "fold"
        BY <1>0, <4>1, AtWork
      <4> HIDE DEF v
      <4> QED BY <4>1, <4>2, <4>3 DEF Idle
    <3> QED BY <2>1, <3>2
  <2>3. PICK s \in Sessions : s = th["ocr"].session /\ rows[s].stay # "none"
    BY <1>0, <1>2, <2>1 DEF JudgedInv
  <2>4. RowOn(s)
    BY <2>2, <2>3, RowsOn
  <2>5. /\ rows'[s].stay # "none" /\ (Open(s)' => Open(s) /\ rows'[s].plate = rows[s].plate)
        /\ s \in missed /\ s \notin missed' => rows'[s].plate = "EV"
    BY <2>1, <2>3, <2>4 DEF RowOn
  <2> QED BY <1>0, <2>1, <2>3, <2>5 DEF JudgedInv
<1>3. CASE TakeTask /\ process.up
  <2>1. UNCHANGED rows /\ queue # <<>> /\ Head(queue) \in Captures /\ queue[1] = Head(queue)
    BY <1>3, QueueType DEF TakeTask, overstayVars, TypeInv, CaptureType
  <2>2. PICK s \in Sessions, k \in Stages : Head(queue) = Capture(s, k)
    BY <2>1 DEF Captures, Capture
  <2>3. rows[s].stay # "none"
    <3> SUFFICES ASSUME rows[s].stay = "none" PROVE FALSE
      OBVIOUS
    <3>1. InQueue(s, k)
      BY <2>1, <2>2 DEF InQueue, TypeInv, CaptureType
    <3>2. ReadInv(s)
      BY DEF ReadingInv, Staying
    <3>3. k \in rows[s].images
      BY <3>1, <3>2 DEF ReadInv
    <3> QED BY <3>3 DEF DuesInv, DownInv
  <2>4. Capture(s, k).session = s
    BY DEF Capture
  <2>5. \/ th'["ocr"].pc = "idle"
        \/ th'["ocr"].pc = "read" /\ th'["ocr"].session = s /\ th'["ocr"].plate = NoPlate
    BY <1>0, <1>3, <2>2, <2>4 DEF TakeTask, At, TypeInv, CaptureType
  <2> QED BY <2>1, <2>3, <2>5 DEF JudgedInv
<1>4. CASE process.up /\ OcrThread /\ ~TakeTask /\ th'["ocr"].pc # "idle"
  <2>1. /\ th["ocr"].pc # "idle" /\ th'["ocr"].session = th["ocr"].session
        /\ th'["ocr"].pc \in {"read", "submit"} => th'["ocr"].plate = NoPlate
        /\ th'["ocr"].pc \in {"fold", "judge"} =>
             \/ th'["ocr"].plate = NoPlate
             \/ /\ th'["ocr"].plate = th["ocr"].plate
                /\ th["ocr"].pc \in {"fold", "judge"} \/ ApplyPlate
    BY <1>0, <1>4, OcrMoves
  <2>2. PICK s \in Sessions : s = th["ocr"].session /\ rows[s].stay # "none"
    BY <1>0, <2>1 DEF JudgedInv
  <2>3. missed \subseteq missed'
    BY <1>4 DEF OcrThread, Coordinator, enqueueHallCapture, onOcrOutcome, writeOcrFailure,
       TakeTask, ReadPlate, ApplyPlate, Judge, Alert, overstayVars
  <2>4. CASE ApplyPlate
    <3>1. rows'[s].stay = rows[s].stay
          /\ (Open(s)' => s \in missed' \/ rows'[s].plate = th["ocr"].plate)
      <4>1. CASE Open(s) /\ rows' = [rows EXCEPT ![s].plate = th["ocr"].plate]
        BY <1>0, <2>2, <4>1 DEF Open, Rows
      <4>2. CASE rows' = rows /\ (~Open(s) \/ s \in missed')
        BY <4>2 DEF Open
      <4> QED BY <2>2, <2>4, <4>1, <4>2 DEF ApplyPlate
    <3> QED BY <1>0, <2>1, <2>2, <3>1 DEF JudgedInv
  <2>5. CASE ~ApplyPlate
    <3>1. RowOn(s)
      BY <2>2, <2>5, RowsOn
    <3> QED BY <1>0, <2>1, <2>2, <2>3, <2>5, <3>1 DEF JudgedInv, RowOn
  <2> QED BY <2>4, <2>5
<1> QED BY <1>1, <1>2, <1>3, <1>4

\* Nothing is stored of a stay before it begins.
LEMMA NewStays ==
    ASSUME TypeInv, StayInv, [Next]_vars, NEW s \in Sessions, rows'[s].stay = "none"
    PROVE  rows[s].stay = "none" /\ rows'[s].images = rows[s].images
<1> DEFINE stay == [u \in Sessions |-> rows[u].stay]
           images == [u \in Sessions |-> rows[u].images]
<1>1. [PS!Next]_StayVars
  BY StepIsGood DEF Good
<1>2. /\ UNCHANGED stay \/ \E u \in Sessions : \E x \in {"parked", "left"} :
                                              stay' = [stay EXCEPT ![u] = x]
      /\ UNCHANGED images \/ \E u \in Sessions : /\ stay[u] # "none" /\ UNCHANGED stay
                                                /\ \E x : images' = [images EXCEPT ![u] = x]
  BY <1>1 DEF StayVars, PS!Next, PS!Arrive, PS!Leave, PS!Judge, PS!TellViolation, PS!Store,
     PS!TellDeparture
<1>3. stay'[s] = "none" => stay[s] = "none" /\ images'[s] = images[s]
  <2>1. DOMAIN stay = Sessions /\ DOMAIN images = Sessions
    OBVIOUS
  <2> HIDE DEF stay, images
  <2> QED BY <1>2, <2>1
<1> QED BY <1>3

\* Only its own thread, and a crash, move the timer.
LEMMA TimerMoves ==
    ASSUME [Next]_vars, ~Timer PROVE UNCHANGED timer \/ timer' = Idle
<1>1. CASE \E s \in Sessions : Arrive(s) \/ Leave(s)
  BY <1>1 DEF Arrive, Leave, timerVars
<1>2. CASE Tick \/ Crash \/ UNCHANGED vars
  BY <1>2 DEF Tick, Crash, vars, overstayVars, timerVars
<1>3. CASE Sink
  BY <1>3 DEF Sink, SessionStarted, SessionEnded, ReleaseSession, ReleaseThrows, Depart, timerVars
<1>4. CASE Evidence \/ Settings
  BY <1>4 DEF Evidence, EvidenceWorker, TakeJob, FinishJob, Settings, UpdateSetting,
     UpdateTimers, timerVars
<1>5. CASE Startup
  BY <1>5 DEF Startup, Restart, RestoreTimer, timerVars
<1>6. ASSUME NEW t, Coordinator(t) PROVE UNCHANGED timer
  BY <1>6 DEF Coordinator, enqueueHallCapture, onOcrOutcome, writeOcrFailure, overstayVars, timerVars
<1>7. CASE CaptureRuntime \/ Ocr
  BY <1>6, <1>7 DEF CaptureRuntime, Ocr, CaptureThread, OcrThread, due, execute,
     onDispatchResult, TakeTask, ReadPlate, ApplyPlate, Judge, Alert, overstayVars, timerVars
<1> QED BY <1>1, <1>2, <1>3, <1>4, <1>5, <1>7 DEF Next

LEMMA DownStep ==
    ASSUME TypeInv, TypeInv', StayInv, DuesInv, [Next]_vars PROVE DownInv'
<1>0. /\ DownInv /\ now \in Nat /\ \A i \in Outstanding : i.due \in Nat
      /\ rows \in [Sessions -> Rows]
  BY Typed DEF DuesInv, Items
<1>1. timer'.pc = "expired" => timer'.item.due <= now'
  <2>1. CASE UNCHANGED timer
    <3>1. now' \in Nat /\ now <= now'
      <4>1. now' = now \/ now' = now + 1
        BY DEF Next, vars, overstayVars, clockVars, Arrive, Leave, Tick, Sink, SessionStarted,
           SessionEnded, ReleaseSession, ReleaseThrows, Depart, Crash, Startup, Restart,
           RestoreTimer, Timer, TimerWorker, TakeExpired, DropReplaced, AwaitEvidence,
           MarkOverstay, MarkNothing, MarkThrows, TellOverstay, Evidence, EvidenceWorker,
           TakeJob, FinishJob, Settings, UpdateSetting, UpdateTimers, CaptureRuntime, Ocr,
           CaptureThread, OcrThread, Coordinator, due, execute, onDispatchResult,
           enqueueHallCapture, onOcrOutcome, writeOcrFailure, TakeTask, ReadPlate, ApplyPlate,
           Judge, Alert
      <4> QED BY <1>0, <4>1
    <3>2. timer.pc = "expired" => timer.item.due \in Nat
      BY <1>0 DEF Outstanding
    <3> QED BY <1>0, <2>1, <3>1, <3>2 DEF DownInv
  <2>2. CASE TakeExpired
    BY <2>2 DEF TakeExpired, clockVars
  <2>3. CASE timer'.pc # "expired"
    BY <2>3
  <2>4. UNCHANGED timer \/ TakeExpired \/ timer'.pc # "expired"
    <3>1. CASE Timer
      <4>1. ASSUME MarkOverstay PROVE timer'.pc = "tell"
        <5>1. timer \in [pc : {"expired", "tell"}, item : Items]
          BY <4>1 DEF MarkOverstay, Expired, TypeInv, TimerType, Idle
        <5> QED BY <4>1, <5>1 DEF MarkOverstay
      <4> QED BY <3>1, <4>1 DEF Timer, TimerWorker, DropReplaced, AwaitEvidence, MarkNothing,
                MarkThrows, TellOverstay, Idle
    <3>2. CASE ~Timer
      BY <3>2, TimerMoves DEF Idle
    <3> QED BY <3>1, <3>2
  <2> QED BY <2>1, <2>2, <2>3, <2>4
<1>2. ~process'.up => Outstanding' = {} /\ th'["ocr"] = Idle /\ process'.restoring = {}
  <2>1. CASE Crash
    BY <2>1 DEF Crash, Outstanding, Idle, Threads
  <2>2. CASE Startup
    <3>1. CASE Restart
      BY <3>1 DEF Restart
    <3>2. CASE RestoreTimer
      <4>1. process.restoring # {} /\ process \in [up : BOOLEAN, restoring : SUBSET Sessions]
        BY <3>2 DEF RestoreTimer, TypeInv, SinkType
      <4>2. process.up /\ process'.up = process.up
        BY <1>0, <3>2, <4>1 DEF RestoreTimer, DownInv
      <4> QED BY <4>2
    <3> QED BY <2>2, <3>1, <3>2 DEF Startup
  <2>3. CASE process.up /\ UNCHANGED process
    BY <2>3
  <2>4. CASE ~process.up /\ UNCHANGED <<process, timers, timer, th>>
    BY <1>0, <2>4 DEF DownInv, Outstanding
  <2>5. Crash \/ Startup \/ (process.up /\ UNCHANGED process)
        \/ (~process.up /\ UNCHANGED <<process, timers, timer, th>>)
    BY DEF Next, vars, overstayVars, hallVars, timerVars, Arrive, Leave, Running, Tick, Sink,
       SessionStarted, SessionEnded, ReleaseSession, ReleaseThrows, Depart, Timer, Evidence,
       Settings, CaptureRuntime, Ocr, Rest
  <2> QED BY <2>1, <2>2, <2>3, <2>4, <2>5
<1>3. ASSUME NEW s \in Sessions, rows'[s].stay = "none" PROVE rows'[s].images = {}
  <2>1. rows[s].stay = "none" /\ rows'[s].images = rows[s].images
    BY <1>3, NewStays
  <2>2. rows[s].images = {}
    BY <1>0, <2>1 DEF DownInv
  <2> QED BY <2>1, <2>2
<1> QED BY <1>1, <1>2, <1>3 DEF DownInv

LEMMA DuesInit == Init => DuesInv
<1> SUFFICES ASSUME Init PROVE DuesInv
  OBVIOUS
<1>1. /\ Outstanding = {} /\ timer.pc = "idle" /\ th["ocr"].pc = "idle" /\ process.up
      /\ \A s \in Sessions : rows[s].images = {}
  BY DEF Init, OverstayInit, HallInit, Outstanding, Idle, Threads
<1> QED BY <1>1 DEF DuesInv, DownInv, JudgedInv, DueInv

LEMMA DuesStep ==
    TypeInv /\ TypeInv' /\ StayInv /\ ReadingInv /\ DuesInv /\ [Next]_vars => DuesInv'
BY DownStep, JudgedStep, DueStep DEF DuesInv

\* Every timer in force is due at the threshold in force or later, and the plate
\* that is judged is the one that was written.
THEOREM DuesAlways == Spec => []DuesInv
<1> QED BY TypeCorrect, StayInvAlways, ReadingAlways, DuesInit, DuesStep, PTL DEF Spec

LEMMA EarlyStep ==
    TypeInv /\ DuesInv /\ [Next]_vars =>
      \A s \in Sessions :
        (/\ timer.pc = "expired" /\ timer'.pc = "tell" /\ timer.item.session = s
         /\ healthy /\ s \notin missed /\ rows[s].plate = "EV")
          => now >= rows[s].entry + timeout
<1> SUFFICES ASSUME TypeInv, DuesInv, [Next]_vars, NEW s \in Sessions,
                    timer.pc = "expired", timer'.pc = "tell", timer.item.session = s,
                    healthy, s \notin missed, rows[s].plate = "EV"
             PROVE  now >= rows[s].entry + timeout
  OBVIOUS
<1>1. MarkOverstay
  BY TimerMoves DEF Idle, Timer, TimerWorker, TakeExpired, DropReplaced, AwaitEvidence,
     MarkNothing, MarkThrows, TellOverstay
<1>2. Active(s) /\ isCurrent(timer.item) /\ timer.item \in Outstanding
  BY <1>1 DEF MarkOverstay, markViolation, Outstanding
<1>3. rows[s].entry + timeout <= timer.item.due /\ timer.item.due <= now
  BY <1>2 DEF DuesInv, DueInv, DownInv
<1>4. timer.item.due \in Nat /\ now \in Nat /\ rows[s].entry \in Nat /\ timeout \in Nat
  BY <1>2, Typed DEF Items
<1> QED BY <1>3, <1>4

\* No car whose plate is known to be electric is judged before the threshold in
\* force, however often thresholds, plates and timers were replaced
\* (TimerManager.cpp:229).
THEOREM NoEarlyViolationAlways == Spec => NoEarlyViolation
<1> QED BY TypeCorrect, DuesAlways, EarlyStep, PTL DEF Spec, NoEarlyViolation
=============================================================================
