------------------------- MODULE SlotTransitionActor -------------------------
(***************************************************************************)
(* Pi_Server/src/parking/SlotTransitionActor.cpp: one worker thread that   *)
(* takes commands from a bounded in-memory ingress queue, admits them to   *)
(* the durable inbox, reduces them, and hands committed starts and ends to *)
(* an effect sink.  The queue is lost in a crash, the store is not.        *)
(*                                                                         *)
(* mode   "down" before start() and after the worker left its loop,        *)
(*        "replay" inside start(), "running" while the worker loops        *)
(* phase  where the worker (or start()) is in its turn:                    *)
(*        ingress -> reduce1 -> deadlines -> reduce2                       *)
(*                -> deliver <-> acknowledge                               *)
(***************************************************************************)
EXTENDS OccupancyStore, SequencesExt

CONSTANTS
    TransportCapacity,   \* transportAdmissionCapacity
    MaxSubmissions,      \* bound: commands the producers submit
    LastInputTime,       \* bound: no input after this tick
    MaxFaults,           \* bound: failing store calls and sink calls
    MaxStops,            \* bound: calls of stopAndDrain()
    MaxStarts            \* bound: calls of start(); all but one follow a crash or a stop

ASSUME ActorAssumption ==
    /\ TransportCapacity \in Nat \ {0} /\ MaxSubmissions \in Nat
    /\ LastInputTime \in Nat /\ MaxFaults \in Nat /\ MaxStops \in Nat
    /\ MaxStarts \in Nat

VARIABLES
    ingress,     \* ingress_by_slot_: all lanes in transport order
    mode,        \* started_, ingress_open_
    stopping,    \* stop_requested_
    cutoff,      \* drain_cutoff_epoch_ms_
    phase, progressed,
    blocked,     \* slots excluded from this turn's deadline batch
    batch,       \* ordinals of the effects listed in this turn
    delivered,   \* history: what the effect sink accepted, per slot
    submissions, faults, stops, starts   \* used budgets

actor == <<mode, stopping, cutoff, phase, progressed, blocked, batch>>
budgets == <<submissions, faults, stops, starts>>
vars == <<storeVars, ingress, actor, delivered, budgets>>

Phases == {"ingress", "reduce1", "deadlines", "reduce2", "deliver", "acknowledge"}

-----------------------------------------------------------------------------
(***************************************************************************)
(* Producers                                                               *)
(***************************************************************************)

\* Plausible bug: the queue is not bounded.
BugUnboundedQueue(c) ==
    /\ mode = "running" /\ ~stopping
    /\ ingress' = Append(ingress, [cmd |-> c, next |-> 0])

\* A queued redelivery of the same identity, and anything past the queue's
\* capacity, is turned away without a trace.
submit(c) ==
    /\ mode = "running" /\ ~stopping
    /\ \A i \in DOMAIN ingress : CommandKey(ingress[i].cmd) # CommandKey(c)
    /\ Len(ingress) < TransportCapacity
    /\ ingress' = Append(ingress, [cmd |-> c, next |-> 0])

Input ==
    /\ submissions < MaxSubmissions /\ now <= LastInputTime
    /\ \E c \in CommandsReceivedAt(now) : submit(c)
    /\ submissions' = submissions + 1
    /\ UNCHANGED <<storeVars, actor, delivered, faults, stops, starts>>

-----------------------------------------------------------------------------
(***************************************************************************)
(* The worker's turn                                                       *)
(***************************************************************************)
Working(p) == mode \in {"replay", "running"} /\ phase = p

MoveTo(p) ==
    /\ phase' = p
    /\ UNCHANGED <<mode, stopping, cutoff, progressed, blocked, batch>>

\* progressed decides whether a turn is the last one; nobody asks while the
\* worker simply runs, so it is recorded only when someone will.
Recorded == mode = "replay" \/ stopping

StayProgressed ==
    /\ progressed' = Recorded
    /\ UNCHANGED <<mode, stopping, cutoff, phase, blocked, batch>>

\* A store or sink call fails; never so late that the clock ends before the retry.
Fault ==
    /\ faults < MaxFaults /\ now + RetryDelay <= MaxTime
    /\ faults' = faults + 1
    /\ UNCHANGED <<submissions, stops, starts>>

LaneHead(i) == \A j \in 1..(i - 1) : ingress[j].cmd.slot # ingress[i].cmd.slot
ReadyHead(i) == LaneHead(i) /\ ingress[i].next <= now
SelectedHead(i) ==
    /\ i \in DOMAIN ingress /\ ReadyHead(i)
    /\ \A j \in 1..(i - 1) : ~ReadyHead(j)

DeferHead(i) == ingress' = [ingress EXCEPT ![i].next = now + RetryDelay]

\* processIngress, one lane head: admitted or refused for good it leaves the
\* queue; a full inbox or a failing store makes it wait at the head.
AdmitHead ==
    /\ Working("ingress")
    /\ \E i \in DOMAIN ingress :
         /\ SelectedHead(i)
         /\ LET c == ingress[i].cmd
            IN  \/ /\ admitSlotTransitionCommand(c)
                   /\ ingress' = RemoveAt(ingress, i)
                   /\ UNCHANGED budgets
                \/ /\ Admission(c) \in
                        {"Existing", "AlreadyTerminal", "RejectedStale", "Conflict"}
                   /\ ingress' = RemoveAt(ingress, i)
                   /\ UNCHANGED <<storeVars, budgets>>
                \/ /\ Admission(c) = "CapacityFull"
                   /\ DeferHead(i)
                   /\ UNCHANGED <<storeVars, budgets>>
                \/ DeferHead(i) /\ Fault /\ UNCHANGED storeVars
    /\ StayProgressed
    /\ UNCHANGED delivered

IngressDone ==
    /\ Working("ingress")
    /\ ~\E i \in DOMAIN ingress : SelectedHead(i)
    /\ MoveTo("reduce1")
    /\ UNCHANGED <<storeVars, ingress, delivered, budgets>>

Reducing == Working("reduce1") \/ Working("reduce2")

\* processRunnable, one row.
ReduceHead ==
    /\ Reducing
    /\ \E r \in inbox : applySlotTransitionCommand(r)
    /\ StayProgressed
    /\ UNCHANGED <<ingress, delivered, budgets>>

\* The transaction threw: the row keeps its place and is tried again later.
ReduceDeferred ==
    /\ Reducing
    /\ \E r \in inbox :
         /\ Runnable(r)
         /\ \/ ApplyThrows(r) /\ UNCHANGED budgets
            \/ Fault
         /\ deferSlotTransitionCommand(r)
    /\ StayProgressed
    /\ UNCHANGED <<ingress, delivered>>

\* processDueDeadlines, under mutex_: a slot with queued input is left out of
\* this batch.  A submit after this point is ordered after the deadline.
LinearizeDeadlines ==
    /\ Working("reduce1")
    /\ ~\E r \in inbox : Runnable(r)
    /\ phase' = IF \E d \in deadlines : d.state = "SCHEDULED"
                THEN "deadlines" ELSE "reduce2"
    /\ blocked' = {ingress[i].cmd.slot : i \in DOMAIN ingress}
    /\ UNCHANGED <<storeVars, ingress, mode, stopping, cutoff, progressed, batch,
                   delivered, budgets>>

\* ... and the transaction, after mutex_ was released.
AdmitDeadlines ==
    /\ Working("deadlines")
    /\ \/ admitDueSlotDeadlines(blocked) /\ progressed' = Recorded /\ UNCHANGED budgets
       \/ /\ DueDeadlines(blocked) = {} \/ Room <= 0
          /\ UNCHANGED <<storeVars, progressed, budgets>>
       \/ DueDeadlines(blocked) # {} /\ Fault /\ UNCHANGED <<storeVars, progressed>>
    /\ phase' = "reduce2"
    /\ blocked' = {}
    /\ UNCHANGED <<ingress, mode, stopping, cutoff, batch, delivered>>

\* processEffects lists at most one effect per slot, the oldest.
ListEffects ==
    /\ Working("reduce2")
    /\ ~\E r \in inbox : Runnable(r)
    /\ phase' = "deliver"
    /\ batch' = {r.ordinal : r \in listPendingSlotTransitionEffects}
    /\ UNCHANGED <<storeVars, ingress, mode, stopping, cutoff, progressed, blocked,
                   delivered, budgets>>

NextEffect(r) == r.ordinal \in batch /\ \A n \in batch : r.ordinal <= n

\* The sink takes the transition; the acknowledgement is a later transaction.
DeliverEffect ==
    /\ Working("deliver")
    /\ \E r \in inbox :
         /\ NextEffect(r)
         /\ delivered' = [delivered EXCEPT ![r.slot] =
                            Append(@, <<r.result, r.session>>)]
    /\ MoveTo("acknowledge")
    /\ UNCHANGED <<storeVars, ingress, budgets>>

\* The sink refuses (capture scheduling, timer projection or publish failed).
RefuseEffect ==
    /\ Working("deliver")
    /\ \E r \in inbox :
         /\ NextEffect(r)
         /\ deferSlotTransitionEffects(r)
         /\ batch' = batch \ {r.ordinal}
    /\ Fault
    /\ progressed' = Recorded
    /\ UNCHANGED <<ingress, mode, stopping, cutoff, phase, blocked, delivered>>

AcknowledgeEffect ==
    /\ Working("acknowledge")
    /\ \E r \in inbox :
         /\ NextEffect(r)
         /\ \/ completeSlotTransitionEffects(r) /\ UNCHANGED budgets
            \/ deferSlotTransitionEffects(r) /\ Fault
         /\ batch' = batch \ {r.ordinal}
    /\ phase' = "deliver"
    /\ progressed' = Recorded
    /\ UNCHANGED <<ingress, mode, stopping, cutoff, blocked, delivered>>

TurnOver == Working("deliver") /\ batch = {}

MustContinue == progressed \/ ingress # <<>> \/ DrainRemains(cutoff)

\* End of a turn of run(): the purge, if its interval is over, then the loop is
\* left if a stop was asked for and nothing remains.
EndTurn ==
    /\ TurnOver /\ mode = "running"
    /\ \/ purgeSettledSlotTransitionCommands
       \/ UNCHANGED storeVars
    /\ \/ (~stopping \/ MustContinue) /\ mode' = mode /\ phase' = "ingress"
       \/ (stopping /\ ~MustContinue) /\ mode' = "down" /\ phase' = "ingress"
    /\ progressed' = FALSE
    /\ UNCHANGED <<ingress, stopping, cutoff, blocked, batch, delivered, budgets>>

-----------------------------------------------------------------------------
(***************************************************************************)
(* Start, stop and crash                                                   *)
(***************************************************************************)
Start ==
    /\ mode = "down" /\ starts < MaxStarts
    /\ mode' = "replay" /\ phase' = "reduce1" /\ progressed' = FALSE
    /\ stopping' = FALSE /\ cutoff' = 0
    /\ starts' = starts + 1
    /\ UNCHANGED <<storeVars, ingress, blocked, batch, delivered, submissions,
                   faults, stops>>

\* The end of one round of start()'s replay loop.
ReplayRound ==
    /\ TurnOver /\ mode = "replay"
    /\ IF progressed
       THEN mode' = mode /\ phase' = "reduce1"
       ELSE mode' = "running" /\ phase' = "ingress"
    /\ progressed' = FALSE
    /\ UNCHANGED <<storeVars, ingress, stopping, cutoff, blocked, batch, delivered, budgets>>

\* The turn that the request interrupts may or may not have progressed.
stopAndDrain ==
    /\ mode = "running" /\ ~stopping /\ stops < MaxStops
    /\ stopping' = TRUE /\ cutoff' = now /\ progressed' \in BOOLEAN
    /\ stops' = stops + 1
    /\ UNCHANGED <<storeVars, ingress, mode, phase, blocked, batch, delivered,
                   submissions, faults, starts>>

Crash ==
    /\ mode # "down" /\ starts < MaxStarts
    /\ mode' = "down" /\ phase' = "ingress" /\ progressed' = FALSE
    /\ stopping' = FALSE /\ cutoff' = 0
    /\ ingress' = <<>> /\ blocked' = {} /\ batch' = {}
    /\ UNCHANGED <<storeVars, delivered, budgets>>

-----------------------------------------------------------------------------
Init ==
    /\ StoreInit
    /\ ingress = <<>> /\ mode = "down" /\ stopping = FALSE /\ cutoff = 0
    /\ phase = "ingress" /\ progressed = FALSE /\ blocked = {} /\ batch = {}
    /\ delivered = [s \in Slots |-> <<>>]
    /\ submissions = 0 /\ faults = 0 /\ stops = 0 /\ starts = 0

Clock == Tick /\ UNCHANGED <<ingress, actor, delivered, budgets>>

Worker ==
    \/ AdmitHead \/ IngressDone \/ ReduceHead \/ ReduceDeferred
    \/ LinearizeDeadlines \/ AdmitDeadlines \/ ListEffects
    \/ DeliverEffect \/ RefuseEffect \/ AcknowledgeEffect
    \/ EndTurn \/ ReplayRound

Next == Worker \/ Input \/ Clock \/ Start \/ stopAndDrain \/ Crash

Spec == Init /\ [][Next]_vars

\* The worker thread is scheduled, time passes, and a process that failed is
\* started again by its supervisor (systemd, Restart=on-failure).
Fairness == WF_vars(Worker) /\ WF_vars(Clock) /\ WF_vars(~stopping /\ Start)

FairSpec == Spec /\ Fairness

-----------------------------------------------------------------------------
(***************************************************************************)
(* Properties                                                              *)
(***************************************************************************)

\* Type invariant of the actor and of the tables below it.
TypeOK ==
    /\ StoreTypeOK
    /\ \A i \in DOMAIN ingress :
         /\ \E t \in 0..now : ingress[i].cmd \in CommandsReceivedAt(t)
         /\ ingress[i].next \in Nat
    /\ Len(ingress) <= TransportCapacity
    /\ mode \in {"down", "replay", "running"} /\ phase \in Phases
    /\ stopping \in BOOLEAN /\ progressed \in BOOLEAN /\ cutoff \in Nat
    /\ blocked \subseteq Slots /\ batch \subseteq Nat

\* The sessions of a slot, as the start and end events they owe.
SlotEvents(s) ==
    LET mine == {k \in DOMAIN sessions : sessions[k].slot = s}
    IN  {<<"SESSION_STARTED", k>> : k \in mine}
            \cup {<<"SESSION_ENDED", k>> : k \in {j \in mine : sessions[j].exit # None}}

\* What the actor promises the rest of the server.
Ledger == INSTANCE OccupancyLedger
            WITH log <- [s \in Slots |-> SlotEvents(s)], out <- delivered

LedgerSpec == Ledger!Spec

\* Every admitted row is settled, however often the store fails or the process
\* dies in between, unless the actor was told to stop.  (A deadline is a row of
\* its own, and none is scheduled under HALL.)
EveryRowSettles ==
    \A n \in 1..(IF Policy = "HALL" THEN 1 ELSE 2) * MaxSubmissions :
        (\E r \in Pending : r.ordinal = n)
            ~> ~(\E r \in Pending : r.ordinal = n) \/ stopping

\* After an orderly stop the sink has heard of every start and every end that
\* the store ever committed: nothing was purged before it was delivered, given
\* up after a refusal or lost in a crash, and the stop did not come too soon.
StoppedIsHeard ==
    mode = "down" /\ stopping => \A s \in Slots : Ledger!Heard(s) = SlotEvents(s)

\* stopAndDrain() comes to its end.
StopCompletes == stopping ~> ~stopping \/ mode = "down"

\* architecture/README.md: a session both sources confirmed ends when both
\* report VACANT.  Here the camera has let go and the sensor's VACANT waits.
VacantWaits(s) ==
    \E r \in Pending : /\ r.kind = "HALL_OBSERVATION" /\ r.slot = s
                      /\ r.fact.state = "VACANT" /\ Accepts(cursor[s], r.fact)

CameraLetGo(k) ==
    /\ k \in DOMAIN sessions /\ sessions[k].exit = None
    /\ sessions[k].hallConfirmed /\ sessions[k].ivaConfirmed
    /\ ~sessions[k].ivaOccupied

BothVacantEnds ==
    \A k \in 1..MaxSubmissions, s \in Slots :
        (CameraLetGo(k) /\ sessions[k].slot = s /\ VacantWaits(s)) ~> ~CameraLetGo(k)

\* EventDatabaseOccupancy.cpp:364-366: an OCCUPIED frame that gets no row of its
\* own, since the slot has a Hall candidate already, shares one not yet due.
SharedIsNotYetDue ==
    [][\A i \in DOMAIN ingress :
         LET c == ingress[i].cmd
         IN  (/\ AdmitHead /\ SelectedHead(i) /\ Len(ingress') < Len(ingress)
              /\ c.kind = "HALL_OBSERVATION" /\ c.fact.state = "OCCUPIED"
              /\ Admission(c) = "Existing")
             => \E r \in HallCandidates(c.slot) :
                    CommandKey(r) = CommandKey(c) \/ now < r.due]_vars

\* IVA_VEHICLE_DETECTION.md: an exit is decided when its confirmation time is
\* over; repeated EXITs do not postpone it.
ExitIsDecided ==
    \A s \in Slots : (iva[s].observed = "VACANT_PENDING")
                        ~> (iva[s].observed # "VACANT_PENDING")
=============================================================================
