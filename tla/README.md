# Formal models of the EV parking server

This directory holds TLA+ models of `Pi_Server`, the server of the EV parking
system: what it does when a sensor or a camera says that a car came or left, how
long the car may stay and what evidence is kept of it, how a fire alarm reaches
its subscribers, how the server stops, and how all of this survives crashes and
failing calls. The modules are translated from the C++ source. TLC checks them on
small instances; TLAPS proves the theorems for every value of the constants.

Paths are relative to `Pi_Server/` unless they say otherwise.

## 1. The system

`Pi_Server` (C++, SQLite) runs on a Raspberry Pi. Hall sensors report over
LoRa/UART through STM32 nodes (`STM/`); cameras report IVA events
(ENTER / INTRUSION / EXIT per configured area) over MQTT or ONVIF and serve images
(`cv_snapshot_api/`); `Qt_Client/` shows the state.

| Component | State it keeps | Operations | What makes it correct | Modelled |
|---|---|---|---|---|
| Sensor sequence policy (`include/sensor/SensorSequencePolicy.hpp`) | per sensor: protocol mode, active boot ID, last counter, retired boot IDs | evaluate, commit | a versioned frame is acted on once; epochs are never reopened | `SensorSequencePolicy`, `SensorCursor` |
| Durable slot-transition store (`src/database/EventDatabaseOccupancy.cpp`, schema in `EventDatabaseTimer.cpp`) | command inbox, sessions, slot status, camera observation row, exit deadlines, cursors, track bindings | admit, admit due deadlines, reduce, defer, list/complete/defer effects, purge | one open session per slot, ended only when nothing holds it; deadlines have one owner; nothing owed is forgotten | `OccupancyStore` |
| Slot-transition actor (`src/parking/SlotTransitionActor.cpp`) | ingress lanes, worker phase, drain cutoff | submit, start (replay), turn of the worker, stopAndDrain | starts and ends reach the sink in order, at least once, over crashes; an orderly stop is drained | `SlotTransitionActor` |
| Front end (`src/sensor/HallParkingService.cpp`) | – | build Hall and camera commands; apply committed effects | policy filter, due times; an effect that is applied again does no harm | commands in `OccupancyStore`, `applyCommittedEffects` in `TimedEvidence` |
| Captures and plates (`src/parking/CaptureScheduler*.cpp`, `HallCapture*.cpp`, `HallOcrPolicy.cpp`, `src/ocr/OcrWorker.cpp`) | scheduled captures, bindings, stages and attempts of the readings, OCR queue | schedule, dispatch, retry; hold, read, resolve, give up | every image is read or given up; "unresolved" means unknown | `HallCapture` |
| Overstay timer and evidence (`src/timer/`, `src/settings/OverstayThresholdService.cpp`, `src/parking/EvidenceCaptureWorker.cpp`) | timer queue and generations, threshold, evidence jobs | schedule, reschedule, expire, retry; shoot, expedite, cancel, restore | a violation at the threshold in force, once, before the departure; nothing kept of who left in time | `OverstayTimer` |
| The stay as a whole | the rows of a session | the three above, driven by committed transitions, over restarts | `ParkingStay` | `TimedEvidence` |
| Fire delivery (`src/event/FireDeliveryCoordinator.cpp`, `src/database/EventDatabaseFire.cpp`, `src/mqtt/MosquittoTransport.cpp`) | outbox rows, epochs, readiness, permits of regular messages | publish, acknowledge, expire, reset; mutation and egress boundaries | a revision is shown and told in order; regular traffic waits for a synchronized alarm state | `FireDelivery` |
| Fire alarm (`src/event/FireAlarmService.cpp`) | command queue, alarm rows, cursors | signal, acknowledge, manual clear; requeue | commands of a channel keep their order; cursor and alarm agree | `FireAlarm` |
| Callback leases, endpoint, shutdown (`include/app/CallbackLeaseGate.hpp`, `src/mqtt/MqttEndpoint.cpp`, `src/app/RuntimeShutdown.cpp`, hooks of `src/main.cpp`) | gates and leases, state of the endpoint, outcome of the shutdown | acquire, release, close, drain; start, quiesce, stop; hooks | nothing runs on what is gone; every caller gets the one answer | `CallbackLeaseGate`, `MqttEndpoint`, `RuntimeShutdown` |
| MQTT bridge (`src/mqtt/MqttEventBridge.cpp`) | subscriptions | publish, dispatch | – | its publishes in `FireDelivery` and `MqttEndpoint` |
| Sensor links, drivers, best-shot correlation, IVA intake, entrance, HTTP, auth, notification, Qt, STM32, snapshot application | | | | no (section 7) |

How they interact. Camera, MQTT and serial threads call `HallParkingService`, which
builds a `SlotTransitionCommand` and calls `SlotTransitionActor::submit` (memory only,
under `mutex_`). The actor's single worker thread runs turns: admit queued commands to
SQLite, reduce runnable rows, admit due deadlines, reduce again, hand committed effects
to the sink, purge. The sink is `applyCommittedEffects`: it starts and ends the
captures, the evidence jobs and the timer of the session, and tells the subscribers. The
capture thread, the OCR thread, the evidence worker and the timer worker then run on
their own; they meet in the rows of the session and under `transition_mutex_`. Fire
commands have a worker of their own; between `beginDomainMutation` and
`completeDomainMutation` it commits a revision, which the delivery coordinator's
worker brings to the broker, while every other publisher asks for a permit. At the
end, one caller of `shutdown()` closes the gates and joins all of these in order.
Every store call is one transaction under `db_mutex_`.

## 2. Modules

| Module | Source | Content |
|---|---|---|
| `SensorSequencePolicy` | `SensorSequencePolicy.hpp` | the pure policy: decision and next cursor |
| `SensorCursor` | the policy and its durable caller | one sensor, any delivery of frames |
| `OccupancyStore` | `EventDatabaseOccupancy.cpp`, occupancy tables of `EventDatabaseTimer.cpp`, command builders of `HallParkingService.cpp` | the tables, one action per transaction and one per branch of the reducer; `StoreSpec` leaves the callers open |
| `OccupancyLedger` | abstract | per slot a ledger of alternating starts and ends; the sink hears it in order, each entry at least once |
| `SlotTransitionActor` | `SlotTransitionActor.cpp` | queue, worker phases, start/replay, stop, crash, failing calls; composes `OccupancyStore`, instantiates `OccupancyLedger` |
| `OverstayTimer` | `TimerManager.cpp`, `ParkingSlotManager.cpp`, `OverstayThresholdService.cpp`, `EvidenceCaptureWorker.cpp` | timer worker, changed thresholds, evidence worker |
| `HallCapture` | `CaptureScheduler.cpp`, `HallCaptureExecutor.cpp`, `HallCaptureCoordinator.cpp`, `HallOcrPolicy.cpp`, `OcrWorker.cpp` | capture thread and OCR thread, both of which run the coordinator |
| `TimedEvidence` | `applyCommittedEffects`, the restart in `main.cpp` | composes the two; arrivals and departures, sink, crash, restart |
| `ParkingStay` | abstract | judged while parked or not at all, told once and before the departure, images only of a parked car |
| `FireDelivery` | `FireDeliveryCoordinator.cpp`, outbox of `EventDatabaseFire.cpp`, `MosquittoTransport.cpp` | the coordinator's worker, transport and broker, the domain mutation, the publishers of regular messages, crash and stop |
| `FireChannel` | abstract | the retained message moves forward along the revisions; every revision is told, in order, not before it is shown |
| `FireAlarm` | `FireAlarmService.cpp`, domain half of `EventDatabaseFire.cpp` | the command queue on top of `FireDelivery`, with the cursor of `SensorSequencePolicy` |
| `CallbackLeaseGate` | `CallbackLeaseGate.hpp` | a gate, its leases, drained |
| `MqttEndpoint` | `MqttEndpoint.cpp` | start, quiesce, stop, dispatch, tracked and plain publishes |
| `RuntimeShutdown` | `RuntimeShutdown.cpp`, hooks of `main.cpp` | callers, hooks, what is still alive |
| `...Proofs` | – | theorems (section 5) |
| `MC...` | – | inputs, scripts, views and bounds for TLC |

Correspondence of state, occupancy core:

| TLA+ | Code |
|---|---|
| `inbox` | `OCCUPANCY_COMMAND_INBOX`; `status`, `result`, `effect`, `next`, `effectNext`, `ordinal`, `created` are its columns |
| `sessions`, `slotStatus` | `PARKING_SESSION` (the ID is the position), `PARKING_SLOT.status` |
| `iva` | `IVA_SLOT_OBSERVATION_STATE`; `areas` is `area_states_json` |
| `deadlines` | `OCCUPANCY_EXIT_DEADLINE`, primary key (slot, generation, session) |
| `cursor` | `OCCUPANCY_SENSOR_SEQUENCE_STATE` and `SENSOR_RETIRED_BOOT_ID` |
| `bindings` | `PARKING_CORRELATION_BINDING` |
| `ingress` | `ingress_by_slot_`: one sequence in transport order; a lane is the subsequence of a slot |
| `mode`, `stopping`, `cutoff` | `started_`/`ingress_open_`, `stop_requested_`, `drain_cutoff_epoch_ms_` |
| `phase`, `blocked`, `batch` | the position in `run()` and its locals: blocked slots of `processDueDeadlines`, list of `processEffects` |
| `delivered` | history: what the sink accepted |

Timed evidence:

| TLA+ | Code |
|---|---|
| `rows` | `PARKING_SESSION` (`exit_time`, `plate_number`, `violation_at`), `IMAGE_LOG`, the `PLATE_OCR_UNRESOLVED` rows of `EVENT_LOG` |
| `setting`, `timeout`, `healthy` | the stored setting with `overstayDelay`, `parking_timeout_`, `runtime_applied_`/`runtime_healthy_` |
| `mutex` | the holder of `transition_mutex_` while a violation is recorded and told |
| `timers`, `generations`, `scheduled`, `timer` | `queue_`, `generations_`, `scheduled_session_ids_`, the item in `processExpired` |
| `jobs`, `booked`, `evidence` | `jobs_`, `scheduledSessions_`, the job in `process` |
| `sched`, `batch` | `sessions_` of the scheduler, what `due()` returned |
| `policy`, `queue`, `canceled`, `th` | `bindings_` with `HallOcrPolicy`, hall images in `queue_` of `OcrWorker`, `canceled_session_ids_`, the two threads |
| `owed`, `sink` | effects the actor still has to deliver, the end the sink is applying |
| `told`, `missed` | history: the announcements of a session, in their order; sessions whose timing a failing call prevented |

Fire: `retained`, `lifecycle` are the outbox rows, `co` the coordinator's members under
`mutex_`, `w` the worker's own members and the locals of its turn, `link`, `wire`, `acks`
the transport, `held`, `heard` the broker, `mutation` and `egress` the boundaries;
`alarm`, `cursor`, `detected` are columns of `FIRE_ALARM_STATE`, `queue`, `job`,
`blocked`, `service` the members of `FireAlarmService`. Shutdown: `gate` holds the four
gates and their leases, `op` the endpoint operation that has `lifecycle_mutex_`, `hook` and
`phase` the position in `RuntimeShutdown::shutdown`, `alive` what is not stopped yet.

Each action of `OccupancyStore` is one transaction. `applySlotTransitionCommand` is
the disjunction of its branches (`HallOccupiedStarts`, `ExitSchedules`, ...), each of
which ends in the same `Finish`. `ApplyThrows` says when a constraint of the schema or a
check rolls the transaction back. A deadline admission is split in the code's own
way: the blocked slots are read under `mutex_` (`LinearizeDeadlines`), the
transaction runs after it is released (`AdmitDeadlines`); in between producers may
submit. Delivery and acknowledgement of an effect are two steps with a possible
crash in between. The same rule holds elsewhere: a step under a mutex, or one
transaction, is one action; whatever the code does after it has let go is another.

Abstractions, occupancy core. Times are ticks; names and identities are model values or
tuples; a payload is the record of the fields the reducer reads; the topology check of the
camera areas and the frozen policy are constants. `submit` answers (`Conflict`,
`QueueFull`, `Existing`) that change nothing are no step. A frame without a counter
appears in `SensorCursor` only: the identity of such a frame holds its receive time,
and the runs of the store do not enumerate it. `SensorCursor` commits an accepted V1
frame without a counter as the policy header does, while the store's `commit_sequence`
skips it as its code does. `processIngress` reads the clock once per pass; the model
lets it advance between two heads. The purge interval is left open (a turn may or may
not purge), and its batch is any number of the oldest settled rows.
Out-of-range payloads are rejected by the builders and do not reach the inbox.

Abstractions, timed evidence. A plate is the class its vehicle has in the registry. How
long the 30 and 60 seconds of the captures are next to the threshold is left open: `due`
may come at any time, the 30-second capture before the 60-second one. The waits of the
retries are zero ticks. Queues that all slots share (`jobs_`, the OCR queue) may be full
at any time, as a fault. `canceledSessions_` of the evidence worker and its generation check
are left out: the one only spares a capture that the database would refuse, the other
never holds, since `updateOverstayDelay` renews every waiting job. A session has one
slot of the charging zone with a complete configuration.

Abstractions, fire. Message IDs do not collide (`registerPublishUnlocked`);
acknowledged subscriptions are part of `SubscriptionsReady`; a blocked channel is derived
from the ticket that blocks it; the compare-and-set of a revision cannot fail with one
worker. A command that repeats an earlier one, or moves only the cursor, tells the coordinator
of its channel as well (`notifyUnchanged`). Where the worker waits, and how long, is left out. A shutdown whose drain times out
ends the process and is a `Crash`. Commands that were not done are lost with the process:
the queue is memory.

Abstractions, shutdown. The eight hooks between the MQTT ingress and the fire drain are one,
`drainDomain`: each joins the threads of one service or throws. The in-flight HTTP requests
are leases of a gate, as `ParkingHttpServer` counts them. A build without fire channels, a
recursive `shutdown()` and a second `stop()` after a failed one are not modelled.

## 3. Hard behaviours and properties

The hazards are listed at their lines in `PROJECT.json`. In short:

- *Radio link*: repeated, late and reordered frames over reboots —
  `NoVersionedReplay`, `EpochsOnlyAdvance`, `CursorComplete`.
- *Confirmation*: an OCCUPIED waits durably; a VACANT cancels it or comes too late —
  `ContradictedIsCanceled`; a report that comes after that — `SharedIsNotYetDue` (violated).
- *Two sources, several areas, one session* — `NoEndWhileHeld`, `SessionInv`,
  `BindingFollowsSession`.
- *Two clocks*: a camera that is ahead — no property of a run (section 4, Disagreements).
- *Deadlines*: scheduled, admitted, superseded, applied; racing intrusions, repeated
  exits, crashes — `DeadlineHasOneOwner`, `ExitIsDecided`.
- *Effects over crashes and refusals* — the refinement `LedgerSpec`, and on the side of
  the sink `StaySpec` and `EndedInTimeIsForgotten`.
- *Retention*: what the purge forgets, and what may come again — `VersionedNeverThrows`,
  `StoppedIsHeard`.
- *Progress and stop of the core* — `EveryRowSettles`, `StoppedIsHeard`, `StopCompletes`.
- *Timer against departure*, on two threads — `StaySpec`; *replaced timers* —
  `NoEarlyViolation`; *failing updates, missing evidence, restarts* — `KnownEvIsJudged`.
- *Two images, two threads, one plate* — `HeldImageIsDecided`, `UnresolvedIsUnknown`.
- *A capture in flight while its car leaves* — `EndedInTimeIsForgotten`.
- *Acknowledgements of other connections, overwritten revisions, lost facts* —
  `ReadyIsCurrent`, `IdleIsDelivered`, `ReleaseFollowsSync`, `RegularComesLast`, and the
  refinement `ChannelSpec`; *permits against mutations* — `DrainedMutation`.
- *Fire commands that fail and come again* — `CommandsInOrder`, `AlarmFollowsSensor`,
  `AckOnlyShown`, `AlarmsSettle`.
- *Callbacks, requests and publishers during the shutdown* — `UsedIsAlive`,
  `AcceptedPublishIsHeard`, `TrueMeansGone`, `ShutdownReturns`.

## 4. Runs

All deadlock checks are off: inputs, clocks, faults and connections are bounded, or the
server is stopped in the end, so every instance comes to rest. `MCFireDelivery` uses symmetry
of the channels and checks no liveness.

| Run | Question | Bounds | States |
|---|---|---|---|
| `MCSensorCursor` | can any delivery of V1/V2 frames make the server act twice or reopen an epoch? | three boot IDs, counters 0..2, threshold 1: falls below, at and above it | 21,526 |
| `MCOccupancyStore` | do the tables (and the track bindings) agree whoever calls, in any order, and is a frame harmless that comes again after the purge? | HYBRID_OR, one slot, Hall and camera, camera clock one tick off, capacity 1, clock to 2, purge on | 650,691 |
| `MCCamera` | CAMERA_IVA, two slots that share inbox, clock and deadline batch: has a deadline one owner, is every exit decided, and does the exit of one area leave alone what another sees? | five signals (two visits seen by two areas; an exit without authority), 4 submissions at the first tick, fair | 134,562 |
| `MCStop` | HALL: does what was committed reach the sink in order, do rows settle, is what was contradicted canceled, and does a stop come to an end, with everything heard? | two frames of one epoch, two track signals, 2 submissions, one crash, one fault, one stop, purge on; fair | 301,755 |
| `MCTimedEvidence` | is a stay judged in time, told once, and forgotten if it ended in time? | one stay, thresholds 1 and 2, the overstay image and both captures, one mishap out of a failing call, a changed threshold and a crash; fair | 265,735 |
| `MCFireDelivery` | is what is called ready, idle or released at the broker? | two channels, one publisher, two revisions each, two connections, one mishap out of a fault, a stop and a crash | 1,500,620 |
| `MCFireAlarm` | do commands keep their order, and rows and broker agree? | one channel, fire and its end, two commands, three revisions, one fault and one crash or stop | 1,620,323 |
| `MCFireLive` | is every command answered, does every revision reach the broker? | fair, one channel, two commands, two connections, one fault | 391,581 |
| `MCShutdown` | can anything run on what is gone; does `shutdown()` return? | two callers, two requests, every drain may time out, every hook throw; fair | 6,491 |

Bounds and why they are enough. Two submissions suffice for a stay, or a candidate and its
contradiction; four for two visits, or one visit and the exit of both areas; in
`MCOccupancyStore` nothing but the clock and the purge bounds them. A redelivery is a
submission of the same input. `MaxTime` exceeds `LastInputTime` by the confirmation time, so
that everything submitted becomes due. `Fault`
is offered only while the clock still reaches the retry; otherwise the bounded clock, not
the code, would strand the row. `HallConfirm`, `ExitConfirm` and `RetryDelay` of one tick
order every pair of events both ways. Stays share nothing in `TimedEvidence` but the two
queues, which may be full as a fault, and the mutex, whose other holders only delay; one
stay therefore shows what several would (the proofs are for any number). The start image is
left out of the run, the code treats it like the overstay image that is due at once. Two
plate readings are the default of `HallOcrPolicy`. Two connections are what a stale
acknowledgement needs, two revisions what an overwritten one needs, and three what the end
of an alarm needs. What the bounds leave out of a safety property or a refinement, the theorems
of section 5 make up for; of a liveness property, only the arguments above.

Fairness.
- Core: `WF(Worker)`, one thread that loops with a bounded wait; `WF(Clock)`; `WF(Start)`
  after a crash, since `deploy/pi-server.service` restarts on failure; after an orderly stop
  nobody starts it again. Producers, faults, crashes and the stop request are unfair.
  `EveryRowSettles` ends where a stop is asked for: the drain waits only for what was due then.
- Timed evidence: `WF` on the clock, the timer worker, the capture runtime, the OCR thread
  (each a loop with a bounded wait, each call with a timeout) and the restart. The evidence
  worker and the sink are not relied on: a violation waits only ten times for its image.
- Fire: `WF` on the two workers, on the retry time of every command and channel, on the
  network as long as it uses up no fault, and on the start of the process.
- Shutdown: `WF` on the hooks, on the endpoint's operations, on the waiting callers, on
  the fire worker's steps, on copying and returning from an observer's fact; `SF` on the
  exit of the network thread and on the two joins, which other threads may disable and enable
  again. None on message handlers and requests: they may hang, and the drain times out.

Every property of a passing run is paired in `PROJECT.json` with a mutant, an operator
`Bug...` next to the definition it replaces, under which TLC finds it violated.

### Disagreements

Three are shown by runs that TLC finds violated; the first two follow a short script of
reports, whose timing stays open:

| Run | Property | What happens |
|---|---|---|
| `MCHybridExit` | `BothVacantEnds` | The Hall sensor holds an exit deadline; the camera reports EXIT again with no new INTRUSION, the generation is unchanged, and the insert of the same `deadline_id` fails on every retry. The row stays at the head of its slot, and the Hall VACANT behind it is never reduced. `docs/architecture/README.md:72` promises that the session ends when both are VACANT. |
| `MCDueCandidate` | `SharedIsNotYetDue` | `EventDatabaseOccupancy.cpp:364-366` says that repeated OCCUPIED frames share the first *not-yet-due* candidate; the query (382-389) does not look at the clock. OCCUPIED (due, not yet reduced), VACANT, OCCUPIED: the last report is answered with the first one's row and lost; the stay that is reduced ends with the VACANT. |
| `MCLostFacts` | `FreshEpochResynchronizes` | Reading back an acknowledged row throws while the facts of the next connection wait in the same batch. They are lost with it, the abort names the old epoch and is refused, and the worker does not learn of the new connection. `tests/integration/FireDeliveryIntegrationTest.cpp:857` expects a fresh epoch to resynchronize. |

Three more concern the core; the models have the branches, but no run is spent on them:

- `:297`: the identity of a legacy frame carries no boot ID, and admission answers it from the
  retained inbox row before the policy is asked, whereas `docs/UART_LORA_PROTOCOL.md:47-49`
  accepts a large drop as a reboot.
- `:1402`: INTRUSION, EXIT, a Hall candidate still waiting, INTRUSION, EXIT. The second EXIT
  sees the live, already admitted deadline of the first generation and schedules none; that
  one is then superseded, and the exit waits for ever.
- `:851`: the entry is the camera's time, the deadline the server's. If the camera is ahead
  by more than the confirmation time, the end precedes the entry, the transaction throws on
  every retry, for its two times do not change, and the row blocks its slot.

`ExitIsDecided` thus passes for the inputs of `MCCamera` (one clock, no Hall sensor), not
for all. Smaller things met in the timed evidence, none
of which breaks a stated promise of the run:

- If the registry update behind a read plate fails, the result still counts as recognized:
  the car is timed, but neither a changed threshold nor a restart finds its timer again
  (`missed` in the model; `README.md:169` speaks of all active sessions). An exception in
  `handleRecognizedSession` is swallowed by `OcrWorker` and leaves the car untimed until then.
- A plate that a second reading overwrites as unknown leaves a timer which a changed threshold
  does not replace.
- At the end of a session `PLATE_OCR_UNRESOLVED` may be recorded although a reading has just
  stored the plate. With a single attempt per session (`AppConfig.cpp:215` allows 1 and 2) it
  may be recorded of an open one whose plate is read: the 60-second image is read before the
  30-second one is stored, or a restart came in between; both are `Running`, one fails and the
  other is recognized. `UnresolvedIsUnknown` is about open sessions and says as much for either
  setting: as many captures as attempts gave no plate, and a known plate came of one more. With
  two attempts, the default, no capture is left for it.
- A crash loses the captures and plate readings of open sessions; only evidence and timers
  are restored. A violation found at a restart is told before MQTT is connected.
- If recording the failure throws at the end of a session, its binding is already gone and the
  record is not made when the effect comes again.
- Normal slots shoot a `PARKING_ENTRY_IMAGE` whose insert refuses that type
  (`EventDatabaseTimer.cpp:1308-1311`), so it is never stored. Normal slots are not modelled.
- In the delivery, a push-back of an acknowledgement may exceed its reserve by one, and a lost
  fact taken off the queue lets readiness reopen for one turn with a dead epoch; the
  transport's own epoch check keeps messages of it back.

## 5. Proofs

Every invariant, action property and refinement that a passing run checks is also a theorem;
"about" in `PROJECT.json` says which. The theorems hold for any slots, sessions, channels,
publishers, callers, capacities, thresholds and clocks, and for any number of crashes and
failing calls.

- `SensorCursorProofs`: `CursorTypeSafety`, `CursorIsComplete`, `HistoryBehindCursor`,
  `ReplaySafety`, `EpochsAdvance`. `AcceptedIsBehindCursor` is inductive only together with
  `CursorComplete`: an accepted frame can stay behind the cursor only if leaving an epoch
  really retires a boot ID. `NoVersionedReplay` follows: whatever is behind the cursor is
  refused.
- `OccupancyStoreProofs`, five inductive invariants:
  - `StoreInv == StoreTypeOK /\ SessionInv`. That a slot has one open session at most, and is
    OCCUPIED while it has, is not inductive by itself. A deadline that ends a session needs to
    know that the observation row names the open session (`IvaTracksOpenSession`), and that it
    waits only while all areas are quiet; a Hall VACANT needs `ActiveAreaHoldsSession` (an active area means the camera holds the
    session), which needs in turn that no area is active under HALL. `SlotInv(s)` is
    the conjunction for one slot. A reducer branch changes one slot only (`OnlyThisSlot`),
    and to that slot a session starts, ends or continues (`SessionStarts`, `SessionEnds`,
    `SessionContinues`); the three lemmas on the Hall, camera and deadline branches reduce
    each branch to one of these. `StoreTypeSafety`, `SlotStateAgrees`,
    `ObservationTracksSession`, `ActiveAreasHaveSessions` and the action property
    `NoPrematureEnd` follow.
  - `InboxInv`: ordinals differ, what owes an effect lies before what is pending of its slot
    (`InboxOrder`), a slot has one Hall candidate at most (`OneHallCandidate`), and with these
    `ContradictedIsCanceled`. Most steps only rewrite rows in ways that `InboxShrinks` allows;
    an admission cancels first and adds one row. `ContradictionCancels`.
  - `DeadlineInv`: a deadline is named by its key, is never forgotten, has one row at most,
    and is ADMITTED exactly while one row waits for it. Without the last part in both
    directions an admission could find its deadline owned already. `DeadlinesAreOwned`.
  - `BindingFollowsSession`, inductive on the typed store: `BindingsFollowSessions`.
  - `CommandsPassed`: the V2 frame that started or ended a session is one the cursor of its
    slot has passed, by its counter or by its retired boot ID. The purge forgets the inbox row
    of a frame, never the cursor; so a frame that comes again is refused on admission or, if it
    was admitted before the cursor moved, stale when it is reduced, and cannot meet the unique
    index of the session's command. `VersionedRedeliveryIsHarmless`.
- `SlotTransitionProofs`: `ActorImplementsStore`, every step of the actor is a step of the
  store or leaves it alone; with it the store's theorems hold of the actor
  (`ActorKeepsSessions`, `ActorEndsNoHeldSession`, `ActorCancelsContradicted`,
  `ActorKeepsOwners`). `ActorImplementsLedger` is the refinement of `OccupancyLedger`, a set of entries for each slot with the place of each; its invariant
  `LedgerInv` says that what is owed was committed and is owed in the order of the ledger
  (`DebtsInOrder`), that an open session is the last of its slot (`OpenIsLast`), that the
  sink has heard a beginning of the ledger and the rest is owed (`HeardInOrder`), and that
  the list the worker delivers from is due: of each slot what is owed first (`BatchIsDue`).
  The last part is where a crash between delivery and acknowledgement is harmless, and why
  a refused effect must block the rest of its slot. `StopMeansHeard` joins it with a lemma on
  the stop (`OrderlyStopDrains`: nothing that was due at the request is left when the loop
  ends, nor turns up later): what the sink has not heard would be owed, and nothing is.
- `TimedEvidenceProofs`: `TypeCorrect`, then
  - `StayInvAlways`. `StayInv` joins three things: who tells a violation holds
    `transition_mutex_`, and only they do (`MutexInv`); the session that is being told of is
    marked, untold, and not the one whose end the sink is applying, and whatever was told was
    violated or has left (`ToldInv`); what is owed of a stay agrees with its row, and the sink
    works only on a stay that left and owes just its end (`OwedInv`). With it
    `EndedInTimeIsForgotten` is inductive (`ForgottenAlways`): images are stored of open stays
    only, the last acknowledgement of an unjudged stay comes with the removal, and a stay that
    left is not judged any more. Each action is one of four kinds (it leaves the stay alone,
    stores, marks or tells) with a lemma for each kind. `ImplementsParkingStay` maps each kind
    to a step of `ParkingStay`. `told` is the sequence of announcements, so that a second one of
    the same violation would be a step, and one `ParkingStay` does not have.
  - `ReadingAlways`. `ReadingInv` says where an image is while its plate is read: once in the
    queue, or with one of the two threads, stored, and `Running` in the policy. An image is
    *used* if no plate can come of it any more; a plate in a row means that one image of the
    stay is used, and what is used stays so (`StepKeeps`).
  - `UnresolvedAlways`, with `FailuresInv`. An image is *spent* once it is stored and its reading
    is over, has given a plate, or never comes. As long as a session is open, its failed
    attempts, and a plate if the row has one, are of as many spent images, no image counted
    twice. Attempts are lost with the process, a recorded failure is not: it stays borne by the
    images in the same way, over any crash. The theorem is for every `OcrAttempts`.
  - `DuesAlways` and `NoEarlyViolationAlways`, with `DuesInv`: a timer in force, in the heap or
    in the worker's hand, is due no earlier than `entry + timeout`. This is not inductive by
    itself: a changed threshold renews only the timers of cars whose plate the row knows as
    electric. A timer that is not renewed because another reading overwrote the plate could
    come into force again with a third; but then both images are used (`ReadingInv`), and a
    session has no third. What the OCR thread judges is what it wrote (`JudgedInv`), a
    process that is down has no timers, and an expired item is due (`DownInv`).
- `FireDeliveryProofs`: `TypeCorrect`, `DrainedMutationAlways`, `ReadyIsCurrentAlways`. The
  argument: a mutation that is let in has counted every permit out (with cardinalities of the
  set of permits that are still asked for), and while it is open none is given; readiness is
  told under the mutex only with no mutation open, and the mutation takes it back first.
- `FireOrderProofs`: what the worker believes of the broker never runs ahead of it. For every
  message in `inflight`, on the wire, or acknowledged, the invariant says how it lies to `held`
  and `heard`; messages on the wire are sorted; an acknowledged row of the outbox is one
  the broker has heard. From it `IdleIsDeliveredAlways`, `ReleaseFollowsSyncAlways`,
  `RegularComesLastAlways` and the refinement `ImplementsFireChannel` follow, for any
  channels, publishers, connections, faults and restarts.
- `FireAlarmProofs`: every step of the alarm service is a step of the delivery or leaves it
  alone, so the delivery's invariants hold under the service (`AlarmsKeepDelivery`,
  `AlarmsImplementChannel`). `ServiceInv` adds: the job that mutates is the job in hand
  (`JobOwnsMutation`); tickets differ, and where a later command of a channel stands before an
  earlier one, the channel is blocked by that one (`QueueInv`: without the block, a requeued
  command could be overtaken); cursor and alarm row agree (`AlarmInv`); what the worker
  claims of a revision was shown, over every connection (`ShownInv`), and an acknowledgement
  is decided while the row is the one shown, no other revision being committed before its
  own (`AckIsShown`). `AlarmTypeSafety`, `CommandsKeepOrder`, `AlarmsRestOnSignals` and
  `OnlyShownAreAcknowledged` follow.
- `RuntimeShutdownProofs`: the inductive invariant says who holds a lease of which gate, told
  by where the thread is; that the observers are shut only behind the tracked publishers; and
  what each ended target took to end. `TypeCorrect`, `UsedIsAliveAlways` and
  `AcceptedPublishAlways` follow. `TrueMeansGoneAlways` also needs that the transport is joined
  before the endpoint counts as stopped and is not brought up again (`TransportInv`), and what
  the shutdown has done by the time an answer exists (`AnswerInv`).

Assumptions: only the `ASSUME`s of the modules on the constants: the types of frames, events,
timings and capacities, and that the identity of a V2 frame names its version, slot, boot and
counter (`IdentityAssumption`). All sets and bounds are arbitrary.

Only model-checked: liveness (`ExitIsDecided`, `StopCompletes`, `EveryRowSettles`,
`HeldImageIsDecided`, `KnownEvIsJudged`, `AlarmsSettle`,
`ShutdownReturns`) and `ENABLED`, which are outside what the provers do, as is what a
recursively defined operator computes for every input. What the three violated runs
refute is of course not proved.

## 6. Plan

What is left, most important first. The number of runs is kept small; a new component
takes over places by merging.

1. *Proofs*: the safety part of what liveness rests on: that a row which waits has a time at
   which it is tried again, that a known electric car which is not judged has a timer or is in
   `missed`, that an image that is held waits for one that is read.
2. *Core, continued*: redelivery after the purge of legacy frames and camera signals (the
   `StartThrows` branch; V2 frames are done), a configuration change over a restart, a clock
   that goes backwards.
3. *Composition*: the actor's sink replaced by `TimedEvidence` instead of accept or refuse.
   `OccupancyLedger` is the contract between the two at present: `LedgerSpec` shows that the
   actor keeps it, and `owed` in `TimedEvidence` is a ledger of one stay.
4. *Entrance vehicles* and *correlation of best shots*: matching of a plate at the entrance
   with a session, over their tables.
5. *Sensor links*: reconnect and staged reopening.

## 7. Not modelled

- Image processing and remote services (the Gemini OCR client, Telegram, the camera's
  snapshot application): they compute or wait, and the models see success or failure.
- Entrance vehicles, best-shot correlation, IVA intake: parsing and matching beside the core;
  the core sees their signals, or only the bindings it writes itself.
- HTTP, authentication, Qt client: request handling over the database. The gate of the
  requests is in `RuntimeShutdown`.
- STM32 firmware and drivers: their frames are inputs, delivered any number of times in
  any order. Most lines of the repository are vendored vendor libraries of that firmware
  (CMSIS, HAL), which are third-party code.
- Of the modelled components: normal slots, unmapped slots and configuration errors, the plate
  light, the registry's own changes, the stand-alone `handleEntry`/`handleExit` of the timer.
- How long the fire worker waits: after a failure every channel has a retry time, and with no
  connection nothing clears it, so that a wait may be over at once again and again
  (`FireDeliveryCoordinator.cpp:547`). The models have no durations.
- Migrations of older databases: the models start from the current schema.
- Failures the code cannot act on: a store call that fails while a failure is being
  recorded (`defer` failing), or `listRunnable` failing in the middle of a pass.
- `waitUntilIdle` and the wake-up computation of the actor: they change no state, and
  `WF(Worker)` stands for the bounded wait.
