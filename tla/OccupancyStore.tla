--------------------------- MODULE OccupancyStore ---------------------------
(***************************************************************************)
(* The durable half of the slot-transition core: the SQLite tables and the *)
(* transactions of Pi_Server/src/database/EventDatabaseOccupancy.cpp.      *)
(* Every action is one transaction run under db_mutex_.  The callers are   *)
(* left open here (any command may be admitted at any time, any runnable   *)
(* row reduced); SlotTransitionActor says who calls what, and when.        *)
(*                                                                         *)
(* Times are ticks.  An occupancy attempt ID is "occupancy:" + the entry   *)
(* command, one per session, so rows carry the session ID alone.           *)
(***************************************************************************)
EXTENDS SensorSequencePolicy, FiniteSets, Sequences

CONSTANTS
    Slots,              \* parking slots; each has one Hall sensor
    Areas,              \* camera areas configured for a slot
    Policy,             \* PARKING_OCCUPANCY_SOURCE
    HallFrames,         \* Hall frames the links may deliver
    CameraEvents,       \* camera IVA signals the event source may deliver
    HallConfirm,        \* PARKING_OCCUPANCY_CONFIRM_MS
    ExitConfirm,        \* CAMERA_IVA_EXIT_CONFIRM_MS
    CorrelationWindow,  \* BESTSHOT_CORRELATION_WINDOW_MS
    RetryDelay,         \* SlotTransitionActorConfig.retryDelay
    Retention,          \* OCCUPANCY_INBOX_RETENTION_DAYS; 0 turns the purge off
    PendingCapacity,    \* durablePendingCapacity
    MaxTime             \* bound on the clock

None == -1              \* SQL NULL

Policies == {"HALL", "CAMERA_IVA", "HYBRID_OR"}
Kinds == {"HALL_OBSERVATION", "CAMERA_OBSERVATION", "EXIT_DEADLINE"}
Results == {"NONE", "SESSION_STARTED", "SESSION_ENDED", "NO_CHANGE",
            "EXIT_SCHEDULED", "STALE_GENERATION", "REJECTED_INVALID_TIMESTAMP"}
DeadlineFacts == [slot : Slots, gen : Nat, session : Nat]

ASSUME PolicyAssumption == Policy \in Policies
ASSUME TimingAssumption ==
    /\ HallConfirm \in Nat /\ ExitConfirm \in Nat /\ CorrelationWindow \in Nat
    /\ RetryDelay \in Nat /\ Retention \in Nat /\ PendingCapacity \in Nat
    /\ MaxTime \in Nat
ASSUME HallFrameAssumption ==
    \A f \in HallFrames : /\ f.slot \in Slots
                          /\ f.state \in {"OCCUPIED", "VACANT"}
                          /\ f.seq \in Nat \cup {NoSequence}
\* source_identity of a versioned frame: it names slot, boot ID and counter.
ASSUME IdentityAssumption ==
    \A f, g \in HallFrames :
        f.version = "V2" /\ g.ident = f.ident =>
            g.version = "V2" /\ g.slot = f.slot /\ g.boot = f.boot /\ g.seq = f.seq
ASSUME CameraEventAssumption ==
    \A e \in CameraEvents : /\ e.slot \in Slots /\ e.area \in Areas
                            /\ e.action \in {"ENTER", "INTRUSION", "EXIT"}
                            /\ e.at \in Nat

VARIABLES
    now,          \* wall clock
    inbox,        \* OCCUPANCY_COMMAND_INBOX
    sessions,     \* PARKING_SESSION; the session ID is the position
    slotStatus,   \* PARKING_SLOT.status
    iva,          \* IVA_SLOT_OBSERVATION_STATE
    deadlines,    \* OCCUPANCY_EXIT_DEADLINE
    cursor,       \* OCCUPANCY_SENSOR_SEQUENCE_STATE, SENSOR_RETIRED_BOOT_ID
    bindings      \* PARKING_CORRELATION_BINDING

domain == <<sessions, slotStatus, iva, deadlines, cursor, bindings>>
storeVars == <<now, inbox, domain>>

-----------------------------------------------------------------------------
(***************************************************************************)
(* Commands.  source_identity is what a redelivery has in common with the  *)
(* first delivery; receive time, and so the due times, are not part of it. *)
(***************************************************************************)

\* A frame as the parser leaves it; its identity has no receive time in it.
HallFrame(slot, version, boot, seq, state) ==
    [slot |-> slot, ident |-> <<slot, version, boot, seq>>, version |-> version,
     boot |-> boot, seq |-> seq, state |-> state]

makeHallCommand(f, received) ==
    [kind |-> "HALL_OBSERVATION", slot |-> f.slot, fact |-> f, ident |-> f.ident,
     occurred |-> received, exitDue |-> received,
     due |-> IF f.state = "OCCUPIED" THEN received + HallConfirm ELSE received]

\* The reducer runs at once; only the exit deadline is delayed.
makeCameraCommand(e, received) ==
    [kind |-> "CAMERA_OBSERVATION", slot |-> e.slot, fact |-> e, ident |-> e.ident,
     occurred |-> e.at, due |-> received,
     exitDue |-> IF e.action = "EXIT" /\ e.auth THEN received + ExitConfirm
                                               ELSE received]

\* A due deadline becomes a command that happens at its due time.
deadlineCommand(d) ==
    [kind |-> "EXIT_DEADLINE", slot |-> d.slot,
     fact |-> [slot |-> d.slot, gen |-> d.gen, session |-> d.session],
     ident |-> <<d.slot, d.gen, d.session>>,
     occurred |-> d.due, due |-> d.due, exitDue |-> d.due]

\* Which inputs handleLine and handleCameraIvaSignal let through at all.
HallInputs == {f \in HallFrames : Policy \in {"HALL", "HYBRID_OR"}}
CameraInputs == {e \in CameraEvents : Policy = "HALL" => e.action = "INTRUSION"}

CommandsReceivedAt(t) ==
    {makeHallCommand(f, t) : f \in HallInputs}
        \cup {makeCameraCommand(e, t) : e \in CameraInputs}

CommandKey(c) == <<c.kind, c.ident>>
sameSlotSourceFact(a, b) == CommandKey(a) = CommandKey(b) /\ a.fact = b.fact

-----------------------------------------------------------------------------
(***************************************************************************)
(* The inbox                                                               *)
(***************************************************************************)

\* The creation time is kept only where there is a purge to look at it.
InboxRow(c, ordinal) ==
    [kind |-> c.kind, slot |-> c.slot, fact |-> c.fact, ident |-> c.ident,
     occurred |-> c.occurred, due |-> c.due, exitDue |-> c.exitDue,
     ordinal |-> ordinal, status |-> "PENDING_UNPREPARED", next |-> 0,
     result |-> "NONE", session |-> None, effect |-> "NONE", effectNext |-> 0,
     created |-> IF Retention > 0 THEN now ELSE 0]

PendingIn(rows) == {r \in rows : r.status = "PENDING_UNPREPARED"}
Pending == PendingIn(inbox)
\* What durablePendingCapacity leaves for new rows.
Room == PendingCapacity - Cardinality(Pending)
\* COALESCE(MAX(admission_ordinal),0)+1, as a one-element set.
NextOrdinal ==
    {n \in {1} \cup {r.ordinal + 1 : r \in inbox} : \A r \in inbox : r.ordinal < n}

\* Plausible bug: settled rows, too, are waited for.
BugWaitsForSettled(r) ==
    r \in Pending /\ \A q \in inbox : q.slot = r.slot => r.ordinal <= q.ordinal

\* Rows of a slot are reduced strictly in admission order: a row waits for
\* every earlier pending row of its slot, due or not.
IsPendingHead(r) ==
    /\ r \in Pending
    /\ \A q \in Pending : q.slot = r.slot => r.ordinal <= q.ordinal

Runnable(r) == IsPendingHead(r) /\ r.due <= now /\ r.next <= now

Replace(rows, old, new) == (rows \ {old}) \cup {new}

(***************************************************************************)
(* Durable admission of one command                                        *)
(***************************************************************************)

\* The Hall OCCUPIED row of the slot that is still pending, if any.
HallCandidates(slot) ==
    {r \in Pending : /\ r.slot = slot
                     /\ r.kind = "HALL_OBSERVATION"
                     /\ r.fact.state = "OCCUPIED"}

HallCandidate(slot) ==
    {r \in HallCandidates(slot) :
        \A q \in HallCandidates(slot) : r.ordinal <= q.ordinal}

\* Plausible bug: the comparison with the due time is inverted.
BugCancelsDue(c) ==
    IF c.kind = "HALL_OBSERVATION" /\ c.fact.state = "VACANT"
    THEN {r \in HallCandidate(c.slot) : c.occurred >= r.due}
    ELSE {}

\* A VACANT seen before the candidate was due cancels it.
CanceledBy(c) ==
    IF c.kind = "HALL_OBSERVATION" /\ c.fact.state = "VACANT"
    THEN {r \in HallCandidate(c.slot) : c.occurred < r.due}
    ELSE {}

AfterCancellation(c) ==
    (inbox \ CanceledBy(c))
        \cup {[r EXCEPT !.status = "APPLIED", !.result = "NO_CHANGE"] :
                r \in CanceledBy(c)}

Admission(c) ==
    LET same == {r \in inbox : CommandKey(r) = CommandKey(c)}
        hall == c.kind = "HALL_OBSERVATION"
    IN  CASE same # {} ->
              IF \A r \in same : sameSlotSourceFact(r, c)
              THEN IF same \subseteq Pending THEN "Existing" ELSE "AlreadyTerminal"
              ELSE "Conflict"
          [] same = {} /\ hall /\ ~Accepts(cursor[c.slot], c.fact) ->
              IF evaluateSensorSequence(cursor[c.slot], c.fact) = "Invalid"
              THEN "Conflict" ELSE "RejectedStale"
          [] same = {} /\ hall /\ Accepts(cursor[c.slot], c.fact)
             /\ c.fact.state = "OCCUPIED" /\ HallCandidate(c.slot) # {} ->
              "Existing"
          [] OTHER ->
              IF Cardinality(PendingIn(AfterCancellation(c))) >= PendingCapacity
              THEN "CapacityFull" ELSE "Admitted"

\* Only an Admitted command changes anything: on CapacityFull the transaction
\* is rolled back, the cancellation with it.
admitSlotTransitionCommand(c) ==
    /\ Admission(c) = "Admitted"
    /\ \E n \in NextOrdinal : inbox' = AfterCancellation(c) \cup {InboxRow(c, n)}
    /\ UNCHANGED <<now, domain>>

(***************************************************************************)
(* Durable admission of due exit deadlines                                 *)
(***************************************************************************)

DueDeadlines(blocked) ==
    {d \in deadlines : d.state = "SCHEDULED" /\ d.due <= now /\ d.slot \notin blocked}

\* Plausible bug: the state of the deadline is not written back.
BugMarkLost(ds, state) == deadlines' = deadlines

MarkDeadlines(ds, state) ==
    deadlines' = {IF d \in ds THEN [d EXCEPT !.state = state] ELSE d : d \in deadlines}

\* One batch, oldest due time first, never past the inbox capacity.
admitDueSlotDeadlines(blocked) ==
    LET due == DueDeadlines(blocked)
    IN  /\ Room > 0
        /\ \E batch \in SUBSET due \ {{}} :
             /\ Cardinality(batch) =
                    IF Cardinality(due) < Room THEN Cardinality(due) ELSE Room
             /\ \A d \in batch, e \in due \ batch : d.due <= e.due
             /\ \E pos \in [batch -> 0..PendingCapacity] :
                  /\ \A d \in batch : pos[d] < Cardinality(batch)
                  /\ \A d, e \in batch : d # e => pos[d] # pos[e]
                  /\ \A d, e \in batch : d.due < e.due => pos[d] < pos[e]
                  /\ \E n \in NextOrdinal : inbox' = inbox \cup
                       {InboxRow(deadlineCommand(d), n + pos[d]) : d \in batch}
             /\ MarkDeadlines(batch, "ADMITTED")
        /\ UNCHANGED <<now, sessions, slotStatus, iva, cursor, bindings>>

-----------------------------------------------------------------------------
(***************************************************************************)
(* The reducer: applySlotTransitionCommand.  Each action below is one      *)
(* branch of it, ending in the same UPDATE of the row it reduced.          *)
(***************************************************************************)

\* The IDs of the slot's open sessions; a unique index keeps it to one.
find_active(slot) ==
    {k \in DOMAIN sessions : sessions[k].slot = slot /\ sessions[k].exit = None}

\* An effect is owed exactly for a start or an end.
EffectOwed(result) ==
    IF result \in {"SESSION_STARTED", "SESSION_ENDED"} THEN "PENDING" ELSE "NONE"

\* The closing UPDATE of the row.
Finish(r, result, session) ==
    inbox' = Replace(inbox, r,
        [r EXCEPT !.status = IF result = "REJECTED_INVALID_TIMESTAMP"
                             THEN "REJECTED_INVALID" ELSE "APPLIED",
                  !.result = result, !.session = session,
                  !.effect = EffectOwed(result)])

NextSessionId == Len(sessions) + 1

create_session(r) ==
    /\ \A k \in DOMAIN sessions : sessions[k].entryCmd # CommandKey(r)
    /\ sessions' = Append(sessions,
         [slot |-> r.slot, entry |-> r.occurred, exit |-> None,
          entryCmd |-> CommandKey(r), exitCmd |-> <<>>,
          hallConfirmed |-> r.kind = "HALL_OBSERVATION",
          ivaConfirmed |-> r.kind = "CAMERA_OBSERVATION",
          hallOccupied |-> r.kind = "HALL_OBSERVATION",
          ivaOccupied |-> r.kind = "CAMERA_OBSERVATION"])
    /\ slotStatus' = [slotStatus EXCEPT ![r.slot] = "OCCUPIED"]

NotBeforeEntry(r, p) == r.occurred >= sessions[p].entry

\* Plausible bug: the bindings outlive the session.
BugBindingsKept(p) == bindings

EndedBindings(p) ==
    {IF b.session = p THEN [b EXCEPT !.state = "ENDED"] ELSE b : b \in bindings}

close_session(r, p) ==
    /\ NotBeforeEntry(r, p)
    /\ \A k \in DOMAIN sessions : sessions[k].exitCmd # CommandKey(r)
    /\ sessions' = [sessions EXCEPT ![p].exit = r.occurred, ![p].exitCmd = CommandKey(r),
                       ![p].hallOccupied = FALSE, ![p].ivaOccupied = FALSE]
    /\ slotStatus' = [slotStatus EXCEPT ![r.slot] = "VACANT"]
    /\ bindings' = EndedBindings(p)

\* Plausible bug: the observation row keeps the closed session.
BugIvaKept(slot, p) == iva

\* clear_iva: the observation row forgets the session that just closed.
ClearedIva(slot, p) ==
    IF iva[slot].session = p
    THEN [iva EXCEPT ![slot].session = None, ![slot].observed = "VACANT"]
    ELSE iva

update_hall_state(p, occupied) ==
    sessions' = [sessions EXCEPT ![p].hallConfirmed = @ \/ occupied,
                                 ![p].hallOccupied = occupied]

update_iva_state(p) ==
    sessions' = [sessions EXCEPT ![p].ivaConfirmed = TRUE, ![p].ivaOccupied = TRUE]

\* Plausible bug: the cursor is left to legacy frames, as the inbox knows the
\* identity of every versioned one.
BugInboxIsEnough(r) ==
    cursor' = [cursor EXCEPT ![r.slot] =
                 IF r.fact.seq = NoSequence \/ r.fact.version = "V2" THEN @
                 ELSE commitSensorSequence(@, r.fact)]

commit_sequence(r) ==
    cursor' = [cursor EXCEPT ![r.slot] =
                 IF r.fact.seq = NoSequence THEN @
                 ELSE commitSensorSequence(@, r.fact)]

(***************************************************************************)
(* Hall branch                                                             *)
(***************************************************************************)
HallRow(r) == r.kind = "HALL_OBSERVATION" /\ Runnable(r)
AcceptedHallRow(r, state) ==
    /\ HallRow(r)
    /\ r.fact.state = state
    /\ Accepts(cursor[r.slot], r.fact)

\* A later frame was committed while this one waited for its confirmation.
HallOvertaken(r) ==
    /\ HallRow(r)
    /\ ~Accepts(cursor[r.slot], r.fact)
    /\ Finish(r, "NO_CHANGE", None)
    /\ UNCHANGED <<now, domain>>

HallOccupiedStarts(r) ==
    /\ AcceptedHallRow(r, "OCCUPIED")
    /\ find_active(r.slot) = {}
    /\ create_session(r)
    /\ commit_sequence(r)
    /\ Finish(r, "SESSION_STARTED", NextSessionId)
    /\ UNCHANGED <<now, iva, deadlines, bindings>>

HallOccupiedConfirms(r) ==
    /\ AcceptedHallRow(r, "OCCUPIED")
    /\ \E p \in find_active(r.slot) :
         /\ update_hall_state(p, TRUE)
         /\ Finish(r, "NO_CHANGE", p)
    /\ commit_sequence(r)
    /\ UNCHANGED <<now, slotStatus, iva, deadlines, bindings>>

HallVacantIdle(r) ==
    /\ AcceptedHallRow(r, "VACANT")
    /\ find_active(r.slot) = {}
    /\ slotStatus' = [slotStatus EXCEPT ![r.slot] = "VACANT"]
    /\ commit_sequence(r)
    /\ Finish(r, "NO_CHANGE", None)
    /\ UNCHANGED <<now, sessions, iva, deadlines, bindings>>

HallVacantTooEarly(r) ==
    /\ AcceptedHallRow(r, "VACANT")
    /\ \E p \in find_active(r.slot) :
         /\ ~NotBeforeEntry(r, p)
         /\ Finish(r, "REJECTED_INVALID_TIMESTAMP", p)
    /\ UNCHANGED <<now, domain>>

\* Under HYBRID_OR a sensor that never confirmed the session cannot end it.
HallVacantIgnored(r) ==
    /\ AcceptedHallRow(r, "VACANT")
    /\ Policy = "HYBRID_OR"
    /\ \E p \in find_active(r.slot) :
         /\ NotBeforeEntry(r, p)
         /\ ~sessions[p].hallConfirmed
         /\ Finish(r, "NO_CHANGE", p)
    /\ commit_sequence(r)
    /\ UNCHANGED <<now, sessions, slotStatus, iva, deadlines, bindings>>

\* Plausible bug: the observed state is asked, not what the camera confirmed.
BugHeldByObserved(p) ==
    Policy = "HYBRID_OR" /\ iva[sessions[p].slot].observed = "OCCUPIED"

HeldByIva(p) ==
    Policy = "HYBRID_OR" /\ sessions[p].ivaConfirmed /\ sessions[p].ivaOccupied

HallVacantHeld(r) ==
    /\ AcceptedHallRow(r, "VACANT")
    /\ \E p \in find_active(r.slot) :
         /\ NotBeforeEntry(r, p)
         /\ sessions[p].hallConfirmed
         /\ HeldByIva(p)
         /\ update_hall_state(p, FALSE)
         /\ Finish(r, "NO_CHANGE", p)
    /\ commit_sequence(r)
    /\ UNCHANGED <<now, slotStatus, iva, deadlines, bindings>>

HallVacantEnds(r) ==
    /\ AcceptedHallRow(r, "VACANT")
    /\ \E p \in find_active(r.slot) :
         /\ Policy = "HYBRID_OR" => sessions[p].hallConfirmed
         /\ ~HeldByIva(p)
         /\ close_session(r, p)
         /\ iva' = ClearedIva(r.slot, p)
         /\ Finish(r, "SESSION_ENDED", p)
    /\ commit_sequence(r)
    /\ UNCHANGED <<now, deadlines>>

(***************************************************************************)
(* Camera branch                                                           *)
(***************************************************************************)
NoObject == "no-object"

\* The IVA observation row after an upsert.
persist_iva(slot, session, gen, observed, areas) ==
    iva' = [iva EXCEPT ![slot] = [session |-> session, gen |-> gen,
                                  observed |-> observed, areas |-> areas]]

TrackBindings(r, session) ==
    {b \in bindings : /\ b.session = session
                      /\ b.area = r.fact.area /\ b.object = r.fact.object}

\* Binds the camera track to the session, or extends the binding it has.
commit_correlation(r, session) ==
    LET known == TrackBindings(r, session)
        expires == r.occurred + CorrelationWindow
    IN  \/ /\ r.fact.object = NoObject
           /\ UNCHANGED bindings
        \/ /\ r.fact.object # NoObject /\ known = {}
           /\ \A b \in bindings : b.correlation # r.ident
           /\ bindings' = bindings \cup
                {[correlation |-> r.ident, session |-> session, area |-> r.fact.area,
                  object |-> r.fact.object, expires |-> expires, revision |-> 1,
                  state |-> "COMMITTED"]}
        \/ /\ r.fact.object # NoObject
           /\ \E b \in known :
                /\ b.state = "COMMITTED"
                /\ bindings' = IF expires <= b.expires THEN bindings
                     ELSE Replace(bindings, b,
                            [b EXCEPT !.expires = expires, !.revision = @ + 1])

AnyCameraRow(r) == r.kind = "CAMERA_OBSERVATION" /\ Runnable(r)

\* Under HALL a camera signal may only name the vehicle of a Hall session.
CameraCorrelates(r) ==
    /\ AnyCameraRow(r) /\ Policy = "HALL"
    /\ r.fact.object # NoObject
    /\ \/ /\ find_active(r.slot) = {}
          /\ Finish(r, "NO_CHANGE", None)
          /\ UNCHANGED bindings
       \/ \E p \in find_active(r.slot) :
            /\ commit_correlation(r, p)
            /\ Finish(r, "NO_CHANGE", p)
    /\ UNCHANGED <<now, sessions, slotStatus, iva, deadlines, cursor>>

\* An invalid payload is made terminal without touching the domain.
CameraRejected(r) ==
    /\ AnyCameraRow(r) /\ Policy = "HALL"
    /\ r.fact.object = NoObject
    /\ Finish(r, "REJECTED_INVALID_TIMESTAMP", None)
    /\ UNCHANGED <<now, domain>>

CameraRow(r) == AnyCameraRow(r) /\ Policy # "HALL"

ExitPrecedesEntry(r) ==
    \E p \in find_active(r.slot) : r.fact.action = "EXIT" /\ ~NotBeforeEntry(r, p)

CameraExitTooEarly(r) ==
    /\ CameraRow(r)
    /\ ExitPrecedesEntry(r)
    /\ \E p \in find_active(r.slot) : Finish(r, "REJECTED_INVALID_TIMESTAMP", p)
    /\ UNCHANGED <<now, domain>>

CameraIgnored(r) ==
    /\ CameraRow(r) /\ ~ExitPrecedesEntry(r)
    /\ r.fact.action = "ENTER" \/ (r.fact.action = "EXIT" /\ ~r.fact.auth)
    /\ Finish(r, "NO_CHANGE", None)
    /\ UNCHANGED <<now, domain>>

\* INTRUSION: the generation moves on and a scheduled exit loses its ground.
IntrusionGeneration(row, area) ==
    IF row.areas[area] # "active" \/ row.observed # "OCCUPIED"
    THEN row.gen + 1 ELSE row.gen

ScheduledDeadlines(slot) == {d \in deadlines : d.slot = slot /\ d.state = "SCHEDULED"}

IntrusionObserved(r, session) ==
    LET row == iva[r.slot]
    IN  /\ MarkDeadlines(ScheduledDeadlines(r.slot), "SUPERSEDED")
        /\ persist_iva(r.slot, session, IntrusionGeneration(row, r.fact.area),
                       "OCCUPIED", [row.areas EXCEPT ![r.fact.area] = "active"])
        /\ commit_correlation(r, session)

IntrusionStarts(r) ==
    /\ CameraRow(r) /\ r.fact.action = "INTRUSION"
    /\ find_active(r.slot) = {}
    /\ create_session(r)
    /\ IntrusionObserved(r, NextSessionId)
    /\ Finish(r, "SESSION_STARTED", NextSessionId)
    /\ UNCHANGED <<now, cursor>>

IntrusionConfirms(r) ==
    /\ CameraRow(r) /\ r.fact.action = "INTRUSION"
    /\ \E p \in find_active(r.slot) :
         /\ update_iva_state(p)
         /\ IntrusionObserved(r, p)
         /\ Finish(r, "NO_CHANGE", p)
    /\ UNCHANGED <<now, slotStatus, cursor>>

\* EXIT: the area goes quiet; only a slot all of whose areas are known and
\* quiet may schedule the end of its session.
ExitRow(r) ==
    /\ CameraRow(r) /\ ~ExitPrecedesEntry(r)
    /\ r.fact.action = "EXIT" /\ r.fact.auth

ExitAreas(r) == [iva[r.slot].areas EXCEPT ![r.fact.area] = "inactive"]
ExitGeneration(r) ==
    IF iva[r.slot].areas[r.fact.area] = "active"
    THEN iva[r.slot].gen + 1 ELSE iva[r.slot].gen

\* Plausible bug: one quiet area speaks for the slot.
BugAnyQuiet(areas) == \E a \in Areas : areas[a] = "inactive"

AllQuiet(areas) == \A a \in Areas : areas[a] = "inactive"

ExitObserved(r) ==
    /\ ExitRow(r)
    /\ \/ /\ find_active(r.slot) = {}
          /\ persist_iva(r.slot, None, ExitGeneration(r), "VACANT", ExitAreas(r))
          /\ Finish(r, "NO_CHANGE", None)
       \/ /\ ~AllQuiet(ExitAreas(r))
          /\ \E p \in find_active(r.slot) :
               /\ persist_iva(r.slot, p, ExitGeneration(r), "OCCUPIED", ExitAreas(r))
               /\ Finish(r, "NO_CHANGE", p)
    /\ UNCHANGED <<now, sessions, slotStatus, deadlines, cursor, bindings>>

LiveDeadlines(slot) ==
    {d \in deadlines : d.slot = slot /\ d.state \in {"SCHEDULED", "ADMITTED"}}

\* deadline_id is "iva-exit:slot:generation:session", the primary key.
DeadlineIdTaken(slot, gen, session) ==
    \E d \in deadlines : d.slot = slot /\ d.gen = gen /\ d.session = session

ExitSchedules(r) ==
    /\ ExitRow(r)
    /\ AllQuiet(ExitAreas(r))
    /\ \E p \in find_active(r.slot) :
         /\ \/ /\ LiveDeadlines(r.slot) # {}
               /\ UNCHANGED deadlines
            \/ /\ LiveDeadlines(r.slot) = {}
               /\ ~DeadlineIdTaken(r.slot, ExitGeneration(r), p)
               /\ deadlines' = deadlines \cup
                    {[slot |-> r.slot, gen |-> ExitGeneration(r), session |-> p,
                      due |-> r.exitDue, state |-> "SCHEDULED"]}
         /\ persist_iva(r.slot, p, ExitGeneration(r), "VACANT_PENDING", ExitAreas(r))
         /\ Finish(r, "EXIT_SCHEDULED", p)
    /\ UNCHANGED <<now, sessions, slotStatus, cursor, bindings>>

(***************************************************************************)
(* Exit-deadline branch                                                    *)
(***************************************************************************)
DeadlineRow(r) == r.kind = "EXIT_DEADLINE" /\ Runnable(r)

AdmittedDeadline(r) ==
    {d \in deadlines : /\ d.slot = r.slot /\ d.gen = r.fact.gen
                       /\ d.session = r.fact.session /\ d.state = "ADMITTED"}

\* Plausible bug: the deadline expects the slot to be vacant already.
BugOwnsVacant(r) ==
    /\ iva[r.slot].session = r.fact.session
    /\ iva[r.slot].observed = "VACANT"
    /\ r.fact.session \in find_active(r.slot)

\* The observation row still says what it said when the exit was scheduled.
OwnsObservation(r) ==
    /\ iva[r.slot].session = r.fact.session
    /\ iva[r.slot].gen = r.fact.gen
    /\ iva[r.slot].observed = "VACANT_PENDING"
    /\ r.fact.session \in find_active(r.slot)

DeadlineStale(r) ==
    /\ DeadlineRow(r)
    /\ ~(AdmittedDeadline(r) # {} /\ OwnsObservation(r))
    /\ MarkDeadlines(AdmittedDeadline(r), "SUPERSEDED")
    /\ Finish(r, "STALE_GENERATION", None)
    /\ UNCHANGED <<now, sessions, slotStatus, iva, cursor, bindings>>

HeldByHall(p) ==
    Policy = "HYBRID_OR" /\ sessions[p].hallConfirmed /\ sessions[p].hallOccupied

DeadlineHeld(r) ==
    /\ DeadlineRow(r) /\ OwnsObservation(r) /\ AdmittedDeadline(r) # {}
    /\ MarkDeadlines(AdmittedDeadline(r), "APPLIED")
    /\ \E p \in find_active(r.slot) :
         /\ HeldByHall(p)
         /\ sessions' = [sessions EXCEPT ![p].ivaOccupied = FALSE]
         /\ Finish(r, "NO_CHANGE", p)
    /\ iva' = [iva EXCEPT ![r.slot].observed = "VACANT"]
    /\ UNCHANGED <<now, slotStatus, cursor, bindings>>

DeadlineEnds(r) ==
    /\ DeadlineRow(r) /\ OwnsObservation(r) /\ AdmittedDeadline(r) # {}
    /\ MarkDeadlines(AdmittedDeadline(r), "APPLIED")
    /\ \E p \in find_active(r.slot) :
         /\ ~HeldByHall(p)
         /\ close_session(r, p)
         /\ iva' = ClearedIva(r.slot, p)
         /\ Finish(r, "SESSION_ENDED", p)
    /\ UNCHANGED <<now, cursor>>

(***************************************************************************)
(* All branches, and the one left over: a constraint of the schema or a    *)
(* check inside the transaction throws, and everything is rolled back.     *)
(***************************************************************************)
applySlotTransitionCommand(r) ==
    \/ HallOvertaken(r) \/ HallOccupiedStarts(r) \/ HallOccupiedConfirms(r)
    \/ HallVacantIdle(r) \/ HallVacantTooEarly(r) \/ HallVacantIgnored(r)
    \/ HallVacantHeld(r) \/ HallVacantEnds(r)
    \/ CameraCorrelates(r) \/ CameraRejected(r) \/ CameraExitTooEarly(r)
    \/ CameraIgnored(r) \/ IntrusionStarts(r) \/ IntrusionConfirms(r)
    \/ ExitObserved(r) \/ ExitSchedules(r)
    \/ DeadlineStale(r) \/ DeadlineHeld(r) \/ DeadlineEnds(r)

StartThrows(r) ==
    /\ find_active(r.slot) = {}
    /\ \/ AcceptedHallRow(r, "OCCUPIED")
       \/ CameraRow(r) /\ r.fact.action = "INTRUSION"
    /\ \E k \in DOMAIN sessions : sessions[k].entryCmd = CommandKey(r)

CloseThrows(r) ==
    \E p \in find_active(r.slot) :
        /\ \/ /\ AcceptedHallRow(r, "VACANT") /\ NotBeforeEntry(r, p)
              /\ Policy = "HYBRID_OR" => sessions[p].hallConfirmed
              /\ ~HeldByIva(p)
           \/ /\ DeadlineRow(r) /\ OwnsObservation(r) /\ AdmittedDeadline(r) # {}
              /\ ~HeldByHall(p)
        /\ ~NotBeforeEntry(r, p) \/ \E k \in DOMAIN sessions : sessions[k].exitCmd = CommandKey(r)

ScheduleThrows(r) ==
    /\ ExitRow(r) /\ AllQuiet(ExitAreas(r)) /\ LiveDeadlines(r.slot) = {}
    /\ \E p \in find_active(r.slot) : DeadlineIdTaken(r.slot, ExitGeneration(r), p)

CorrelationThrows(r) ==
    /\ AnyCameraRow(r) /\ r.fact.action = "INTRUSION" /\ r.fact.object # NoObject
    /\ Policy = "HALL" => find_active(r.slot) # {}
    /\ LET session == IF find_active(r.slot) = {} THEN NextSessionId
                      ELSE CHOOSE p \in find_active(r.slot) : TRUE
           known == TrackBindings(r, session)
       IN  \/ known = {} /\ \E b \in bindings : b.correlation = r.ident
           \/ \E b \in known : b.state # "COMMITTED"

ApplyThrows(r) ==
    StartThrows(r) \/ CloseThrows(r) \/ ScheduleThrows(r) \/ CorrelationThrows(r)

deferSlotTransitionCommand(r) ==
    /\ r \in Pending
    /\ inbox' = Replace(inbox, r, [r EXCEPT !.next = now + RetryDelay])
    /\ UNCHANGED <<now, domain>>

-----------------------------------------------------------------------------
(***************************************************************************)
(* Committed effects, retention, the drain query                           *)
(***************************************************************************)
OwesEffect(r) == r \in inbox /\ r.status = "APPLIED" /\ r.effect = "PENDING"

\* Plausible bug: effects of one slot overtake each other.
BugEffectsUnordered == {r \in inbox : OwesEffect(r) /\ r.effectNext <= now}

listPendingSlotTransitionEffects ==
    {r \in inbox :
        /\ OwesEffect(r) /\ r.effectNext <= now
        /\ \A q \in inbox : OwesEffect(q) /\ q.slot = r.slot => r.ordinal <= q.ordinal}

completeSlotTransitionEffects(r) ==
    /\ OwesEffect(r)
    /\ inbox' = Replace(inbox, r, [r EXCEPT !.effect = "APPLIED", !.effectNext = 0])
    /\ UNCHANGED <<now, domain>>

deferSlotTransitionEffects(r) ==
    /\ OwesEffect(r)
    /\ inbox' = Replace(inbox, r, [r EXCEPT !.effectNext = now + RetryDelay])
    /\ UNCHANGED <<now, domain>>

\* Plausible bug: the purge does not ask whether the effect was delivered.
BugSettledUndelivered(r) == r.status = "APPLIED" /\ r.created < now - Retention

Settled(r) ==
    r.status = "APPLIED" /\ r.effect \in {"NONE", "APPLIED"} /\ r.created < now - Retention

\* The oldest settled rows, as many as purgeBatchSize allows.
purgeSettledSlotTransitionCommands ==
    /\ Retention > 0
    /\ \E last \in {r \in inbox : Settled(r)} :
         inbox' = {r \in inbox : ~(Settled(r) /\ r.ordinal <= last.ordinal)}
    /\ UNCHANGED <<now, domain>>

\* Plausible bug: rows that owe nothing are waited for.
BugDrainNeverDone(cutoff) == \E r \in inbox : r.effect # "APPLIED"

\* What a stop must still finish: work that was due when the stop was asked.
DrainRemains(cutoff) ==
    \/ \E r \in Pending : r.due <= cutoff
    \/ \E r \in inbox : OwesEffect(r)
    \/ \E d \in deadlines : d.state = "SCHEDULED" /\ d.due <= cutoff

-----------------------------------------------------------------------------
StoreInit ==
    /\ now = 0
    /\ inbox = {} /\ sessions = <<>> /\ deadlines = {} /\ bindings = {}
    /\ slotStatus = [s \in Slots |-> "VACANT"]
    /\ iva = [s \in Slots |-> [session |-> None, gen |-> 0, observed |-> "UNKNOWN",
                               areas |-> [a \in Areas |-> "unknown"]]]
    /\ cursor = [s \in Slots |-> UnseenCursor]

Tick == now < MaxTime /\ now' = now + 1 /\ UNCHANGED <<inbox, domain>>

ReduceRow == \E r \in inbox : applySlotTransitionCommand(r)

StoreNext ==
    \/ \E t \in 0..now : \E c \in CommandsReceivedAt(t) : admitSlotTransitionCommand(c)
    \/ \E blocked \in SUBSET Slots : admitDueSlotDeadlines(blocked)
    \/ ReduceRow
    \/ \E r \in inbox : deferSlotTransitionCommand(r)
    \/ \E r \in inbox : completeSlotTransitionEffects(r) \/ deferSlotTransitionEffects(r)
    \/ purgeSettledSlotTransitionCommands
    \/ Tick

StoreSpec == StoreInit /\ [][StoreNext]_storeVars

-----------------------------------------------------------------------------
(***************************************************************************)
(* Properties                                                              *)
(***************************************************************************)
Idents == {f.ident : f \in HallFrames} \cup {e.ident : e \in CameraEvents}
              \cup (Slots \X Nat \X Nat)
Boots == {NoBoot} \cup {f.boot : f \in HallFrames}

InboxRows ==
    [kind : Kinds, slot : Slots, fact : HallFrames \cup CameraEvents \cup DeadlineFacts,
     ident : Idents, occurred : Nat, due : Nat, exitDue : Nat, ordinal : Nat,
     status : {"PENDING_UNPREPARED", "APPLIED", "REJECTED_INVALID"}, next : Nat,
     result : Results, session : Nat \cup {None},
     effect : {"NONE", "PENDING", "APPLIED"}, effectNext : Nat, created : Nat]
SessionRows ==
    [slot : Slots, entry : Nat, exit : Nat \cup {None}, entryCmd : Kinds \X Idents,
     exitCmd : (Kinds \X Idents) \cup {<<>>}, hallConfirmed : BOOLEAN,
     ivaConfirmed : BOOLEAN, hallOccupied : BOOLEAN, ivaOccupied : BOOLEAN]
IvaRows ==
    [session : Nat \cup {None}, gen : Nat,
     observed : {"UNKNOWN", "OCCUPIED", "VACANT_PENDING", "VACANT"},
     areas : [Areas -> {"unknown", "inactive", "active"}]]
DeadlineRows ==
    [slot : Slots, gen : Nat, session : Nat, due : Nat,
     state : {"SCHEDULED", "ADMITTED", "SUPERSEDED", "APPLIED"}]
CursorRows ==
    [mode : Modes, boot : Boots, last : Nat \cup {NoSequence}, retired : SUBSET Boots]
BindingRows ==
    [correlation : Idents, session : Nat, area : Areas,
     object : {e.object : e \in CameraEvents}, expires : Nat, revision : Nat,
     state : {"COMMITTED", "ENDED"}]

RowOK(r) ==
    /\ r \in InboxRows
    /\ r.kind = "HALL_OBSERVATION" => r.fact \in HallInputs /\ r.ident = r.fact.ident
    /\ r.kind = "CAMERA_OBSERVATION" => r.fact \in CameraInputs
    /\ r.kind = "EXIT_DEADLINE" => r.fact \in DeadlineFacts
    /\ r.slot = r.fact.slot
InboxOK == \A r \in inbox : RowOK(r)

\* Type invariant of the tables, and the fact each kind of row carries.
StoreTypeOK ==
    /\ now \in Nat
    /\ InboxOK
    /\ sessions \in Seq(SessionRows)
    /\ slotStatus \in [Slots -> {"VACANT", "OCCUPIED"}]
    /\ iva \in [Slots -> IvaRows]
    /\ deadlines \subseteq DeadlineRows
    /\ cursor \in [Slots -> CursorRows]
    /\ bindings \subseteq BindingRows

\* The camera observation row never names a session that was closed by the
\* other source, and never waits for the exit of no session at all.
IvaTracksOpenSession ==
    \A s \in Slots :
        /\ iva[s].session # None => iva[s].session \in find_active(s)
        /\ iva[s].observed \in {"OCCUPIED", "VACANT_PENDING"} => iva[s].session # None

AreaActive(s) == \E a \in Areas : iva[s].areas[a] = "active"
CameraHolds(p) == sessions[p].ivaConfirmed /\ sessions[p].ivaOccupied

\* While some camera area still sees a vehicle, the slot has an open session
\* that the camera holds: no deadline and no Hall VACANT closed it under the
\* camera's eyes.
ActiveAreaHoldsSession ==
    \A s \in Slots : AreaActive(s) => \E p \in find_active(s) : CameraHolds(p)

\* Both, slot by slot, with what makes them inductive: a slot has one open
\* session at most and its status says so, an exit waits only in a slot whose
\* areas are all quiet, and under HALL no area is ever active.
SlotInv(s) ==
    /\ \A p, q \in find_active(s) : p = q
    /\ slotStatus[s] = "OCCUPIED" <=> find_active(s) # {}
    /\ iva[s].session # None => iva[s].session \in find_active(s)
    /\ iva[s].observed \in {"OCCUPIED", "VACANT_PENDING"} => iva[s].session # None
    /\ AreaActive(s) => \E p \in find_active(s) : CameraHolds(p)
    /\ iva[s].observed = "VACANT_PENDING" => AllQuiet(iva[s].areas)
    /\ Policy = "HALL" => ~AreaActive(s)

\* The inductive invariant over all slots.
SessionInv == \A s \in Slots : SlotInv(s)

\* A slot has at most one live exit deadline, and a deadline is ADMITTED
\* exactly while its command waits in the inbox: none is orphaned by a crash,
\* none is executed twice.
DeadlineHasOneOwner ==
    /\ \A s \in Slots : \A d, e \in LiveDeadlines(s) : d = e
    /\ \A d \in deadlines : d.state = "ADMITTED" <=>
         \E r \in Pending : /\ r.kind = "EXIT_DEADLINE"
                            /\ r.ident = <<d.slot, d.gen, d.session>>

\* PARKING_OCCUPANCY_CONFIRM_MS: an OCCUPIED report that a VACANT contradicted
\* within its confirmation time is not left behind to start a session later.
ContradictedIsCanceled ==
    \A s \in Slots : \A r \in HallCandidates(s), q \in Pending :
        (q.slot = s /\ q.kind = "HALL_OBSERVATION" /\ q.fact.state = "VACANT"
            /\ q.ordinal > r.ordinal) => q.occurred >= r.due

\* A camera track is bound at most once to a session, and the binding lives
\* exactly as long as the session is open, whichever source ends it.
BindingFollowsSession ==
    \A b \in bindings :
        /\ b.session \in DOMAIN sessions
        /\ b.state = "COMMITTED" <=> sessions[b.session].exit = None
        /\ \A c \in bindings :
             c.session = b.session /\ c.area = b.area /\ c.object = b.object => c = b

\* No step ends a session while a camera area still sees the vehicle.  Under
\* HYBRID_OR either source can hold the session: what the other one still
\* reports as occupied can be ended only by that source itself.
NoEndWhileHeld ==
    [][\A k \in DOMAIN sessions :
         sessions[k].exit = None /\ sessions'[k].exit # None =>
            /\ \A a \in Areas : iva[sessions[k].slot].areas[a] # "active"
            /\ Policy = "HYBRID_OR" =>
                 /\ sessions[k].hallConfirmed /\ sessions[k].hallOccupied
                       => sessions'[k].exitCmd[1] = "HALL_OBSERVATION"
                 /\ sessions[k].ivaConfirmed /\ sessions[k].ivaOccupied
                       => sessions'[k].exitCmd[1] = "EXIT_DEADLINE"]_storeVars

\* A versioned frame never makes the reducer throw, and so never blocks its slot
\* for ever.  Session rows, whose command IDs are unique, outlive the inbox rows
\* that deduplicate; once the purge has forgotten a frame, only the cursor, at
\* admission or at reduction, stands between its redelivery and that constraint.
VersionedNeverThrows ==
    \A r \in inbox :
        r.kind = "HALL_OBSERVATION" /\ r.fact.version = "V2" => ~ApplyThrows(r)
=============================================================================
