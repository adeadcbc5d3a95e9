---------------------------- MODULE FireDelivery ----------------------------
(***************************************************************************)
(* Delivery of fire-alarm revisions to the MQTT broker                     *)
(* (Pi_Server/src/event/FireDeliveryCoordinator.cpp with the outbox of     *)
(* src/database/EventDatabaseFire.cpp and the transport of src/mqtt).      *)
(* Every revision of a channel has a retained message, overwritten by the  *)
(* next one, and a lifecycle message of its own.  One worker publishes     *)
(* them; whoever publishes anything else has to ask first.                 *)
(*                                                                         *)
(* Four threads meet here: the coordinator's worker, the transport's       *)
(* callbacks, the fire-alarm worker that commits a revision between        *)
(* beginDomainMutation and completeDomainMutation, and the publishers of   *)
(* regular messages.                                                       *)
(***************************************************************************)
EXTENDS Integers, Sequences

CONSTANTS
    Channels,        \* configured fire channels
    Publishers,      \* threads that publish regular messages
    FactCapacity,    \* factQueueCapacity
    MaxRevision,     \* kMaxFireRevision
    FailingPhases,   \* phases of a turn in which a store call may throw
    MaxEpoch,        \* bound: connections the transport opens
    MaxFaults,       \* bound: lost connections, refusals, failing calls
    MaxRestarts      \* bound: crashes and stops of the process

Worker == "worker"

ASSUME FireAssumption ==
    /\ Channels # {} /\ Worker \notin Publishers
    /\ FactCapacity \in Nat \ {0} /\ MaxRevision \in Nat \ {0}
    /\ MaxEpoch \in Nat /\ MaxFaults \in Nat /\ MaxRestarts \in Nat

VARIABLES
    retained,   \* retained[c]: the RETAINED_STATE row of the channel; its rev
                \* is also FIRE_ALARM_STATE.fire_revision
    lifecycle,  \* lifecycle[c][r]: delivery_state of the LIFECYCLE_EVENT row
    co,         \* the coordinator's members under mutex_
    w,          \* the worker's own members and the locals of its turn
    link,       \* the transport's connection
    wire, acks, \* messages to the broker, its acknowledgements on their way
    held,       \* held[c]: revision of the broker's retained message, 0 if none
    heard,      \* heard[c]: revision of the last lifecycle message at the broker
    mutation,   \* the fire-alarm worker's domain mutation
    egress,     \* egress[p]: the regular publish of a thread
    faults, restarts   \* used bounds

outbox == <<retained, lifecycle>>
broker == <<wire, acks, held, heard>>
used == <<faults, restarts>>
fireVars == <<outbox, co, w, link, broker, mutation, egress, used>>

Unsent == [c \in Channels |-> 0]
Lifecycle(r) == r \in 2..MaxRevision   \* revision 1 is the silent bootstrap

Message(kind, c, r) == [kind |-> kind, channel |-> c, rev |-> r]
Fact(kind, e, m) == [kind |-> kind, epoch |-> e, message |-> m]
NoMessage == Message("none", "none", 0)

NewWorker ==
    [phase |-> "wait", taken |-> <<>>, overflow |-> FALSE, overflowEpoch |-> 0,
     due |-> FALSE, epoch |-> 0, subscribed |-> FALSE, synced |-> Unsent,
     inflight |-> {}, deferred |-> {}, listed |-> Unsent, todo |-> {},
     unsynced |-> FALSE, quiet |-> FALSE]

NewCoordinator ==
    [running |-> TRUE, stopping |-> FALSE, ready |-> Unsent, open |-> {},
     releasing |-> FALSE, egressEpoch |-> 0, idle |-> FALSE, active |-> 0,
     fresh |-> {}, facts |-> <<>>, changed |-> FALSE, overflow |-> FALSE,
     overflowEpoch |-> 0]

NoMutation == [phase |-> "none", channel |-> "none"]
NoEgress == [phase |-> "off", epoch |-> 0]

\* FireAlarmService::initialize() and FireDeliveryCoordinator::start() on a
\* fresh database: revision 1 of every channel says RESOLVED.
Init ==
    /\ retained = [c \in Channels |-> [rev |-> 1, state |-> "PENDING"]]
    /\ lifecycle = [c \in Channels |-> [r \in 2..MaxRevision |-> "ABSENT"]]
    /\ co = NewCoordinator
    /\ w = NewWorker
    /\ link = [epoch |-> 0, phase |-> "none"]
    /\ wire = <<>> /\ acks = <<>>
    /\ held = Unsent /\ heard = [c \in Channels |-> 1]
    /\ mutation = NoMutation
    /\ egress = [p \in Publishers |-> NoEgress]
    /\ faults = 0 /\ restarts = 0

Fault == faults < MaxFaults /\ faults' = faults + 1 /\ UNCHANGED restarts

-----------------------------------------------------------------------------
(***************************************************************************)
(* Readiness.  The two generation counters of the code only ever grow      *)
(* together and are only compared for equality; fresh is the set of        *)
(* threads whose copy is still the current one.                            *)
(***************************************************************************)
invalidateRegularEgress(s) ==
    [s EXCEPT !.fresh = {}, !.egressEpoch = 0, !.idle = FALSE]
failCloseAllReadiness(s) == invalidateRegularEgress([s EXCEPT !.ready = Unsent])
CloseChannel(s, c) ==
    [invalidateRegularEgress([s EXCEPT !.ready[c] = 0]) EXCEPT !.changed = TRUE]

AllReady(s) == \A c \in Channels : s.ready[c] # 0

\* A fact that ends or starts an epoch closes readiness before it is queued.
enqueueTransportFact(s, f) ==
    LET closed == IF f.kind = "Acked" THEN s ELSE failCloseAllReadiness(s)
    IN  IF ~s.running \/ s.stopping THEN s
        ELSE IF Len(s.facts) >= FactCapacity
        THEN failCloseAllReadiness([closed EXCEPT !.overflow = TRUE,
                                                  !.overflowEpoch = f.epoch])
        ELSE [closed EXCEPT !.facts = Append(@, f)]

-----------------------------------------------------------------------------
(***************************************************************************)
(* The transport: one MQTT session per epoch, never resumed.               *)
(***************************************************************************)
Connected ==
    /\ co.running /\ link.phase = "none" /\ link.epoch < MaxEpoch
    /\ link' = [epoch |-> link.epoch + 1, phase |-> "connected"]
    /\ wire' = <<>> /\ acks' = <<>>
    /\ co' = enqueueTransportFact(co, Fact("Connected", link.epoch + 1, NoMessage))
    /\ UNCHANGED <<outbox, w, held, heard, mutation, egress, used>>

SubscriptionsReady ==
    /\ link.phase = "connected"
    /\ link' = [link EXCEPT !.phase = "ready"]
    /\ co' = enqueueTransportFact(co, Fact("Ready", link.epoch, NoMessage))
    /\ UNCHANGED <<outbox, w, broker, mutation, egress, used>>

\* The connection ends: aborted by this side, or lost; the broker may have
\* restarted without its retained messages.  EpochFaulted is handled alike.
Disconnected ==
    /\ \/ link.phase = "aborting" /\ UNCHANGED <<wire, held, used>>
       \/ link.phase \in {"connected", "ready"} /\ Fault
            /\ \/ UNCHANGED <<wire, held>>
               \/ wire' = <<>> /\ held' = Unsent
    /\ link' = [link EXCEPT !.phase = "none"]
    /\ acks' = <<>>
    /\ co' = enqueueTransportFact(co, Fact("Down", link.epoch, NoMessage))
    /\ UNCHANGED <<outbox, w, heard, mutation, egress>>

\* abortActiveEpoch(e), answered only by the connection it names.
Aborted(e) ==
    IF e = link.epoch /\ link.phase \in {"connected", "ready"}
    THEN [link EXCEPT !.phase = "aborting"] ELSE link

\* Plausible bug: the transport publishes in whatever epoch is active.
BugAnyEpoch(e) == link.phase = "ready"

\* publishTracked and publishInEpoch take a message for one epoch only.
PublishableIn(e) == link.phase = "ready" /\ link.epoch = e

BrokerReceives ==
    /\ wire # <<>>
    /\ LET m == Head(wire)
       IN  /\ held' = IF m.kind = "retained"
                      THEN [held EXCEPT ![m.channel] = m.rev] ELSE held
           /\ heard' = IF m.kind = "lifecycle"
                       THEN [heard EXCEPT ![m.channel] = m.rev] ELSE heard
           /\ acks' = IF link.phase = "none" THEN acks ELSE Append(acks, m)
    /\ wire' = Tail(wire)
    /\ UNCHANGED <<outbox, co, w, link, mutation, egress, used>>

PublishAcknowledged ==
    /\ acks # <<>> /\ link.phase \in {"connected", "ready"}
    /\ co' = enqueueTransportFact(co, Fact("Acked", link.epoch, Head(acks)))
    /\ acks' = Tail(acks)
    /\ UNCHANGED <<outbox, w, link, wire, held, heard, mutation, egress, used>>

Transport == Connected \/ SubscriptionsReady \/ Disconnected \/ PublishAcknowledged

-----------------------------------------------------------------------------
(***************************************************************************)
(* Rows.  Every update names the revision it is about.                     *)
(***************************************************************************)
RowIs(m) ==
    IF m.kind = "retained"
    THEN IF retained[m.channel].rev = m.rev THEN retained[m.channel].state ELSE "ABSENT"
    ELSE lifecycle[m.channel][m.rev]

\* The rows that state names; a row that meanwhile has another revision stays.
UpdateRows(state) ==
    /\ retained' = [c \in Channels |->
           LET m == Message("retained", c, retained[c].rev)
           IN  IF m \in DOMAIN state THEN [retained[c] EXCEPT !.state = state[m]]
               ELSE retained[c]]
    /\ lifecycle' = [c \in Channels |-> [r \in 2..MaxRevision |->
           LET m == Message("lifecycle", c, r)
           IN  IF m \in DOMAIN state THEN state[m] ELSE lifecycle[c][r]]]

\* markFireDeliveryInFlight, markFireDeliveryPending, acknowledgeFireDelivery
SetRows(M, st) == UpdateRows([m \in M |-> st])

PendingLifecycle(c) ==
    {r \in 2..MaxRevision : lifecycle[c][r] \in {"PENDING", "IN_FLIGHT"}}

InFlight(kind, c) == \E m \in w.inflight : m.kind = kind /\ m.channel = c

-----------------------------------------------------------------------------
(***************************************************************************)
(* The worker's turn: facts -> pump -> list -> publish -> release -> tell  *)
(* -> idle -> settle -> wait.                                              *)
(***************************************************************************)
At(p) == co.running /\ w.phase = p

TakeFacts ==
    /\ At("wait") /\ ~co.stopping
    /\ co.facts # <<>> \/ co.changed \/ co.overflow \/ w.due
    /\ w' = [w EXCEPT !.phase = "facts", !.taken = co.facts, !.due = FALSE,
                      !.overflow = co.overflow, !.overflowEpoch = co.overflowEpoch]
    /\ co' = [co EXCEPT !.facts = <<>>, !.changed = FALSE,
                        !.overflow = FALSE, !.overflowEpoch = 0]
    /\ UNCHANGED <<outbox, link, broker, mutation, egress, used>>

\* Plausible bug: what the broker held in the last epoch counts in the next.
BugTrustsLastEpoch(ww) == [ww EXCEPT !.inflight = {}, !.epoch = 0,
                                     !.subscribed = FALSE, !.deferred = {}]

\* Members of the worker after disconnectEpoch(active_epoch_).
Forget(ww) == [ww EXCEPT !.inflight = {}, !.epoch = 0, !.subscribed = FALSE,
                         !.synced = Unsent, !.deferred = {}]

disconnectEpoch(ww) ==
    /\ SetRows(w.inflight, "PENDING")
    /\ w' = Forget(ww)
    /\ co' = failCloseAllReadiness(co)

FactConnected(f, ww) ==
    /\ f.kind = "Connected" /\ f.epoch >= w.epoch
    /\ SetRows(w.inflight, "PENDING")
    /\ w' = [Forget(ww) EXCEPT !.epoch = f.epoch,
                               !.deferred = IF w.epoch = 0 THEN w.deferred ELSE {}]
    /\ co' = failCloseAllReadiness(co)

\* Plausible bug: the subscription of a new epoch ends the waits but is not noted.
BugReadyNotNoted(f, ww) ==
    /\ f.kind = "Ready" /\ f.epoch = w.epoch
    /\ w' = [ww EXCEPT !.deferred = {}]
    /\ UNCHANGED <<outbox, co>>

FactReady(f, ww) ==
    /\ f.kind = "Ready" /\ f.epoch = w.epoch
    /\ w' = [ww EXCEPT !.subscribed = TRUE, !.deferred = {}]
    /\ UNCHANGED <<outbox, co>>

FactDown(f, ww) == f.kind = "Down" /\ f.epoch = w.epoch /\ disconnectEpoch(ww)

AckInFlight(f) == f.kind = "Acked" /\ f.epoch = w.epoch /\ f.message \in w.inflight

\* stored: the update reached the row while it was IN_FLIGHT at that revision.
FactAcked(f, ww, stored) ==
    /\ AckInFlight(f)
    /\ IF stored THEN SetRows({f.message}, "ACKED") ELSE UNCHANGED outbox
    /\ w' = [ww EXCEPT !.inflight = @ \ {f.message},
                       !.deferred = @ \ {f.message.channel},
                       !.synced[f.message.channel] =
                            IF stored /\ f.message.kind = "retained" THEN f.message.rev
                            ELSE @]
    /\ UNCHANGED co

FactIgnored(f, ww) ==
    /\ \/ f.kind = "Connected" /\ f.epoch < w.epoch
       \/ f.kind \in {"Ready", "Down"} /\ f.epoch # w.epoch
       \/ f.kind = "Acked" /\ ~AckInFlight(f)
    /\ w' = ww
    /\ UNCHANGED <<outbox, co>>

processFact ==
    /\ At("facts") /\ w.taken # <<>>
    /\ LET f == Head(w.taken)
           ww == [w EXCEPT !.taken = Tail(@)]
       IN  \/ /\ \/ FactConnected(f, ww) \/ FactReady(f, ww)
                 \/ FactDown(f, ww) \/ FactIgnored(f, ww)
                 \/ FactAcked(f, ww, RowIs(f.message) = "IN_FLIGHT")
              /\ UNCHANGED used
           \/ FactAcked(f, ww, FALSE) /\ Fault
    /\ UNCHANGED <<link, broker, mutation, egress>>

\* Facts were dropped: the epoch of the last one is aborted.
HandleOverflow ==
    /\ At("facts") /\ w.taken = <<>> /\ w.overflow
    /\ LET e == IF w.overflowEpoch # 0 THEN w.overflowEpoch ELSE w.epoch
           ww == [w EXCEPT !.overflow = FALSE, !.overflowEpoch = 0]
       IN  /\ IF e # 0 /\ e = w.epoch THEN disconnectEpoch(ww)
              ELSE w' = ww /\ UNCHANGED <<outbox, co>>
           /\ link' = Aborted(e)
    /\ UNCHANGED <<broker, mutation, egress, used>>

FactsDone ==
    /\ At("facts") /\ w.taken = <<>> /\ ~w.overflow
    /\ w' = [w EXCEPT !.phase = "pump"]
    /\ UNCHANGED <<outbox, co, link, broker, mutation, egress, used>>

\* An acknowledgement is overdue: the epoch is given up.
expirePubAckDeadline ==
    /\ At("facts") /\ w.taken = <<>> /\ ~w.overflow
    /\ w.epoch # 0 /\ w.inflight # {}
    /\ disconnectEpoch([w EXCEPT !.phase = "pump"])
    /\ link' = Aborted(w.epoch)
    /\ Fault
    /\ UNCHANGED <<broker, mutation, egress>>

\* pump() reads the generation first and the rows after it.
ObserveGeneration ==
    /\ At("pump")
    /\ IF w.epoch = 0 \/ ~w.subscribed
       THEN w' = [w EXCEPT !.phase = "idle"] /\ UNCHANGED co
       ELSE /\ w' = [w EXCEPT !.phase = "list"]
            /\ co' = [co EXCEPT !.fresh = @ \cup {Worker}]
    /\ UNCHANGED <<outbox, link, broker, mutation, egress, used>>

Unsynced(c) == w.synced[c] # retained[c].rev

ListRetained ==
    /\ At("list")
    /\ w' = [w EXCEPT !.phase = "publish",
                      !.listed = [c \in Channels |-> retained[c].rev],
                      !.unsynced = \E c \in Channels : Unsynced(c),
                      !.todo = {c \in Channels : /\ Unsynced(c) /\ c \notin w.deferred
                                                 /\ ~InFlight("retained", c)}]
    /\ UNCHANGED <<outbox, co, link, broker, mutation, egress, used>>

\* publish(m): mark the row, hand the message to the transport, remember it.
publish(m) ==
    LET ww == [w EXCEPT !.todo = @ \ {m.channel}]
        delayed == [ww EXCEPT !.deferred = @ \cup {m.channel}]
    IN  \/ /\ RowIs(m) = "ABSENT"
           /\ w' = delayed
           /\ UNCHANGED <<outbox, link, wire, used>>
        \/ /\ RowIs(m) # "ABSENT" /\ PublishableIn(w.epoch)
           /\ SetRows({m}, "IN_FLIGHT")
           /\ w' = [ww EXCEPT !.inflight = @ \cup {m}, !.deferred = @ \ {m.channel}]
           /\ wire' = Append(wire, m)
           /\ UNCHANGED <<link, used>>
        \/ /\ RowIs(m) # "ABSENT" /\ ~PublishableIn(w.epoch)
           /\ SetRows({m}, "PENDING")
           /\ w' = delayed
           /\ UNCHANGED <<link, wire, used>>
        \/ \* mosquitto_publish fails: the transport aborts the epoch
           /\ RowIs(m) # "ABSENT" /\ PublishableIn(w.epoch)
           /\ SetRows({m}, "PENDING")
           /\ w' = delayed
           /\ link' = Aborted(w.epoch)
           /\ Fault /\ UNCHANGED wire

PublishRetained(c) ==
    /\ At("publish") /\ c \in w.todo
    /\ publish(Message("retained", c, w.listed[c]))
    /\ UNCHANGED <<co, acks, held, heard, mutation, egress>>

\* Plausible bug: what happened since the generation was read is ignored.
BugReadyUnseen(c) ==
    /\ c \notin co.open
    /\ w.epoch # 0 /\ w.subscribed
    /\ w.synced[c] = w.listed[c]

ReadyNow(c) ==
    /\ Worker \in co.fresh /\ c \notin co.open
    /\ w.epoch # 0 /\ w.subscribed
    /\ w.synced[c] = w.listed[c]

recomputeReadiness ==
    /\ At("publish") /\ w.todo = {}
    /\ co' = [co EXCEPT
           !.ready = [c \in Channels |-> IF ReadyNow(c) THEN w.listed[c] ELSE 0],
           !.egressEpoch = IF \A c \in Channels : ReadyNow(c) THEN w.epoch ELSE 0]
    /\ w' = [w EXCEPT !.phase = IF w.unsynced THEN "idle" ELSE "release",
                      !.listed = Unsent, !.unsynced = FALSE]
    /\ UNCHANGED <<outbox, link, broker, mutation, egress, used>>

\* Plausible bug: what happened since the rows were listed is ignored.
BugReleasesUnseen ==
    ~co.releasing /\ w.epoch # 0 /\ w.subscribed /\ co.open = {}

MayRelease ==
    /\ ~co.releasing /\ Worker \in co.fresh
    /\ w.epoch # 0 /\ w.subscribed
    /\ AllReady(co) /\ co.open = {}

\* From here to the end of the release no domain mutation may begin; of each
\* channel the first pending lifecycle row is published.
beginLifecycleRelease ==
    /\ At("release")
    /\ IF MayRelease
       THEN /\ co' = [co EXCEPT !.releasing = TRUE]
            /\ w' = [w EXCEPT !.phase = "tell",
                     !.todo = {c \in Channels : /\ PendingLifecycle(c) # {}
                                                /\ c \notin w.deferred
                                                /\ ~InFlight("lifecycle", c)}]
       ELSE w' = [w EXCEPT !.phase = "idle"] /\ UNCHANGED co
    /\ UNCHANGED <<outbox, link, broker, mutation, egress, used>>

FirstPending(c, r) ==
    r \in PendingLifecycle(c) /\ \A k \in PendingLifecycle(c) : r <= k

PublishLifecycle(c) ==
    /\ At("tell") /\ c \in w.todo
    /\ \E r \in 2..MaxRevision :
         FirstPending(c, r) /\ publish(Message("lifecycle", c, r))
    /\ UNCHANGED <<co, acks, held, heard, mutation, egress>>

endLifecycleRelease ==
    /\ At("tell") /\ w.todo = {}
    /\ co' = [co EXCEPT !.releasing = FALSE]
    /\ w' = [w EXCEPT !.phase = "idle"]
    /\ UNCHANGED <<outbox, link, broker, mutation, egress, used>>

\* updateIdleState reads the rows, then takes the mutex.
ReadPending ==
    /\ At("idle")
    /\ w' = [w EXCEPT !.phase = "settle",
                      !.quiet = \A c \in Channels : PendingLifecycle(c) = {}]
    /\ UNCHANGED <<outbox, co, link, broker, mutation, egress, used>>

\* Plausible bug: messages in flight are not waited for.
BugIdleInFlight == AllReady(co) /\ w.inflight = {}

IdleNow == AllReady(co) /\ w.quiet /\ w.inflight = {}

updateIdleState ==
    /\ At("settle")
    /\ co' = [co EXCEPT !.idle = IdleNow, !.fresh = @ \ {Worker}]
    /\ w' = [w EXCEPT !.phase = "wait", !.quiet = FALSE]
    /\ UNCHANGED <<outbox, link, broker, mutation, egress, used>>

\* Reading back an acknowledged retained row is the one call that may throw
\* while the facts are processed.
ReadsBack(f) ==
    AckInFlight(f) /\ f.message.kind = "retained" /\ RowIs(f.message) = "IN_FLIGHT"

\* A store call throws: the rest of the turn is dropped, facts that were taken
\* but not processed included, and the epoch the worker knows is aborted.
recoverActorFailure ==
    /\ co.running /\ w.phase \in FailingPhases
    /\ w.phase = "facts" => w.taken # <<>> /\ ReadsBack(Head(w.taken))
    /\ UpdateRows([m \in w.inflight |->
           IF w.phase = "facts" /\ m = Head(w.taken).message THEN "ACKED" ELSE "PENDING"])
    /\ w' = [Forget(NewWorker) EXCEPT !.deferred = Channels]
    /\ co' = failCloseAllReadiness(
                 [co EXCEPT !.releasing = FALSE, !.fresh = @ \ {Worker}])
    /\ link' = Aborted(w.epoch)
    /\ Fault
    /\ UNCHANGED <<broker, mutation, egress>>

\* retry_after_ of a channel passes; the wait of the worker ends with it.
RetryElapses(c) ==
    /\ co.running /\ c \in w.deferred
    /\ w' = [w EXCEPT !.deferred = @ \ {c}, !.due = TRUE]
    /\ UNCHANGED <<outbox, co, link, broker, mutation, egress, used>>

Turn ==
    \/ TakeFacts \/ processFact \/ HandleOverflow \/ FactsDone \/ expirePubAckDeadline
    \/ ObserveGeneration \/ ListRetained \/ recomputeReadiness
    \/ beginLifecycleRelease \/ endLifecycleRelease
    \/ ReadPending \/ updateIdleState \/ recoverActorFailure
    \/ \E c \in Channels : PublishRetained(c) \/ PublishLifecycle(c)

-----------------------------------------------------------------------------
(***************************************************************************)
(* A domain mutation of the fire-alarm worker                              *)
(***************************************************************************)
Mutating(p) == mutation.phase = p

beginDomainMutation(c) ==
    /\ Mutating("none") /\ co.running /\ ~co.stopping /\ ~co.releasing
    /\ co' = CloseChannel([co EXCEPT !.open = @ \cup {c}], c)
    /\ mutation' = [phase |-> "waiting", channel |-> c]
    /\ UNCHANGED <<outbox, w, link, broker, egress, used>>

LeaveBoundary(s) ==
    [invalidateRegularEgress([s EXCEPT !.open = @ \ {mutation.channel}])
        EXCEPT !.changed = TRUE]

\* Plausible bug: the wait ends whether or not the publishers are done.
BugImpatient ==
    /\ Mutating("waiting") /\ ~co.stopping
    /\ mutation' = [mutation EXCEPT !.phase = "open"]
    /\ UNCHANGED <<outbox, co, w, link, broker, egress, used>>

MutationDrained ==
    /\ Mutating("waiting") /\ co.active = 0 /\ ~co.stopping
    /\ mutation' = [mutation EXCEPT !.phase = "open"]
    /\ UNCHANGED <<outbox, co, w, link, broker, egress, used>>

\* regularEgressDrainTimeout passes, or the coordinator is being stopped.
MutationTimesOut ==
    /\ Mutating("waiting")
    /\ co.active > 0 \/ co.stopping
    /\ co' = LeaveBoundary(co)
    /\ mutation' = NoMutation
    /\ UNCHANGED <<outbox, w, link, broker, egress, used>>

\* applyFireStateMutation: the state, the retained row and a new lifecycle row.
CommitRevision ==
    /\ Mutating("open")
    /\ LET c == mutation.channel
           r == retained[c].rev + 1
       IN  /\ r <= MaxRevision
           /\ retained' = [retained EXCEPT ![c] = [rev |-> r, state |-> "PENDING"]]
           /\ lifecycle' = [lifecycle EXCEPT ![c][r] = "PENDING"]
    /\ mutation' = [mutation EXCEPT !.phase = "committed"]
    /\ UNCHANGED <<co, w, link, broker, egress, used>>

\* The transaction is rolled back.
MutationFails ==
    /\ Mutating("open")
    /\ Fault
    /\ mutation' = [mutation EXCEPT !.phase = "failed"]
    /\ UNCHANGED <<outbox, co, w, link, broker, egress>>

completeDomainMutation ==
    /\ mutation.phase \in {"committed", "failed"}
    /\ co' = LeaveBoundary(co)
    /\ mutation' = IF Mutating("committed") THEN [mutation EXCEPT !.phase = "notify"]
                   ELSE NoMutation
    /\ UNCHANGED <<outbox, w, link, broker, egress, used>>

notifyOutboxChanged ==
    /\ Mutating("notify")
    /\ co' = CloseChannel(co, mutation.channel)
    /\ mutation' = NoMutation
    /\ UNCHANGED <<outbox, w, link, broker, egress, used>>

\* notifyOutboxChanged for a command that repeated an earlier one or moved only
\* the cursor: no revision was committed before it.
notifyUnchanged(c) ==
    /\ Mutating("none") /\ co.running
    /\ co' = CloseChannel(co, c)
    /\ UNCHANGED <<outbox, w, link, broker, mutation, egress, used>>

Boundary ==
    \/ MutationDrained \/ MutationTimesOut \/ MutationFails
    \/ completeDomainMutation \/ notifyOutboxChanged
    \/ \E c \in Channels : notifyUnchanged(c)

-----------------------------------------------------------------------------
(***************************************************************************)
(* A regular publish (MqttEventBridge::publish)                            *)
(***************************************************************************)
NoMutationOpen == AllReady(co) /\ co.open = {}

beginRegularEgress(p) ==
    /\ egress[p].phase = "off"
    /\ co.running /\ ~co.stopping /\ co.idle /\ co.egressEpoch # 0
    /\ NoMutationOpen
    /\ co' = [co EXCEPT !.active = @ + 1, !.fresh = @ \cup {p}]
    /\ egress' = [egress EXCEPT ![p] = [phase |-> "granted", epoch |-> co.egressEpoch]]
    /\ UNCHANGED <<outbox, w, link, broker, mutation, used>>

isRegularEgressGrantCurrent(p) ==
    /\ co.running /\ ~co.stopping /\ co.idle
    /\ p \in co.fresh /\ egress[p].epoch = co.egressEpoch
    /\ NoMutationOpen

CheckGrant(p) ==
    /\ egress[p].phase = "granted"
    /\ egress' = [egress EXCEPT ![p].phase =
                      IF isRegularEgressGrantCurrent(p) THEN "checked" ELSE "done"]
    /\ UNCHANGED <<outbox, co, w, link, broker, mutation, used>>

\* publishInEpoch, in the epoch of the grant.
PublishRegular(p) ==
    /\ egress[p].phase = "checked"
    /\ egress' = [egress EXCEPT ![p].phase =
                      IF PublishableIn(egress[p].epoch) THEN "sent" ELSE "done"]
    /\ UNCHANGED <<outbox, co, w, link, broker, mutation, used>>

completeRegularEgress(p) ==
    /\ egress[p].phase \in {"sent", "done"}
    /\ egress' = [egress EXCEPT ![p] = NoEgress]
    /\ co' = [co EXCEPT !.active = IF @ = 0 THEN 0 ELSE @ - 1, !.fresh = @ \ {p}]
    /\ UNCHANGED <<outbox, w, link, broker, mutation, used>>

RegularPublish(p) == CheckGrant(p) \/ PublishRegular(p) \/ completeRegularEgress(p)

-----------------------------------------------------------------------------
(***************************************************************************)
(* The process                                                             *)
(***************************************************************************)
Restart == restarts < MaxRestarts /\ restarts' = restarts + 1 /\ UNCHANGED faults

\* stop(): the worker leaves its loop at the end of the turn.
stop ==
    /\ co.running /\ ~co.stopping
    /\ Restart
    /\ co' = failCloseAllReadiness([co EXCEPT !.stopping = TRUE])
    /\ UNCHANGED <<outbox, w, link, broker, mutation, egress>>

WorkerStops ==
    /\ At("wait") /\ co.stopping
    /\ SetRows(w.inflight, "PENDING")
    /\ w' = NewWorker
    /\ co' = [co EXCEPT !.running = FALSE]
    /\ UNCHANGED <<link, broker, mutation, egress, used>>

\* The process dies: every thread and the connection with it.
Crash ==
    /\ co.running
    /\ Restart
    /\ w' = NewWorker
    /\ co' = [NewCoordinator EXCEPT !.running = FALSE]
    /\ link' = [link EXCEPT !.phase = "none"]
    /\ acks' = <<>>
    /\ mutation' = NoMutation
    /\ egress' = [p \in Publishers |-> NoEgress]
    /\ UNCHANGED <<outbox, wire, held, heard>>

Reset(st) == IF st = "IN_FLIGHT" THEN "PENDING" ELSE st

\* A new process: rows that were in flight are due again.
start ==
    /\ ~co.running
    /\ retained' = [c \in Channels |-> [retained[c] EXCEPT !.state = Reset(@)]]
    /\ lifecycle' = [c \in Channels |-> [r \in 2..MaxRevision |-> Reset(lifecycle[c][r])]]
    /\ co' = NewCoordinator
    /\ w' = NewWorker
    /\ link' = [link EXCEPT !.phase = "none"]
    /\ acks' = <<>>
    /\ mutation' = NoMutation
    /\ egress' = [p \in Publishers |-> NoEgress]
    /\ UNCHANGED <<wire, held, heard, used>>

Process == stop \/ WorkerStops \/ Crash \/ start

Next ==
    \/ Transport \/ BrokerReceives
    \/ Turn \/ \E c \in Channels : RetryElapses(c)
    \/ (\E c \in Channels : beginDomainMutation(c)) \/ CommitRevision \/ Boundary
    \/ \E p \in Publishers : beginRegularEgress(p) \/ RegularPublish(p)
    \/ Process

Spec == Init /\ [][Next]_fireVars

-----------------------------------------------------------------------------
(***************************************************************************)
(* Properties                                                              *)
(***************************************************************************)
Messages ==
    [kind : {"retained", "lifecycle"}, channel : Channels, rev : 1..MaxRevision]
Facts == [kind : {"Connected", "Ready", "Down", "Acked"}, epoch : Nat,
          message : Messages \cup {NoMessage}]
RowStates == {"ABSENT", "PENDING", "IN_FLIGHT", "ACKED"}
Revisions == [Channels -> 0..MaxRevision]
Phases == {"wait", "facts", "pump", "list", "publish", "release", "tell", "idle", "settle"}

Coordinators ==
    [running : BOOLEAN, stopping : BOOLEAN, ready : Revisions, open : SUBSET Channels,
     releasing : BOOLEAN, egressEpoch : Nat, idle : BOOLEAN, active : Nat,
     fresh : SUBSET (Publishers \cup {Worker}), facts : Seq(Facts), changed : BOOLEAN,
     overflow : BOOLEAN, overflowEpoch : Nat]
WorkerStates ==
    [phase : Phases, taken : Seq(Facts), overflow : BOOLEAN, overflowEpoch : Nat,
     due : BOOLEAN, epoch : Nat, subscribed : BOOLEAN, synced : Revisions,
     inflight : SUBSET Messages, deferred : SUBSET Channels, listed : Revisions,
     todo : SUBSET Channels, unsynced : BOOLEAN, quiet : BOOLEAN]

\* Type invariant of the outbox, the coordinator, its worker and the network.
TypeOK ==
    /\ retained \in [Channels -> [rev : 1..MaxRevision, state : RowStates]]
    /\ lifecycle \in [Channels -> [2..MaxRevision -> RowStates]]
    /\ co \in Coordinators /\ w \in WorkerStates
    /\ link \in [epoch : Nat, phase : {"none", "connected", "ready", "aborting"}]
    /\ wire \in Seq(Messages) /\ acks \in Seq(Messages)
    /\ held \in Revisions /\ heard \in Revisions
    /\ mutation \in [phase : {"none", "waiting", "open", "committed", "failed", "notify"},
                     channel : Channels \cup {"none"}]
    /\ egress \in [Publishers -> [phase : {"off", "granted", "checked", "sent", "done"},
                                  epoch : Nat]]
    /\ faults \in Nat /\ restarts \in Nat

\* A revision is never committed while a regular message is being published:
\* beginDomainMutation waits for every permit that was given out, and none is
\* given while it is open.
DrainedMutation ==
    mutation.phase \in {"open", "committed", "failed"} =>
        \A p \in Publishers : egress[p].phase = "off"

\* Readiness that is shown to the outside never names an older revision than
\* the committed one, whatever commits and facts overlap with the worker's turn.
ReadyIsCurrent ==
    \A c \in Channels : co.ready[c] \in {0, retained[c].rev}

\* drainDeliveries tells the truth: when the coordinator calls itself idle, the
\* broker has heard of every committed revision.
IdleIsDelivered ==
    co.idle => \A c \in Channels : heard[c] = retained[c].rev

\* A regular message is handed over only while the broker's retained state of
\* every channel is the committed one and no lifecycle message is owed, over
\* reconnects, broker restarts and commits that overlap with the publish.
RegularComesLast ==
    [][\A p \in Publishers : egress'[p].phase = "sent" /\ egress[p].phase # "sent" =>
          \A c \in Channels : held[c] = retained[c].rev /\ heard[c] = retained[c].rev]_fireVars

\* A lifecycle message is handed over only while the broker's retained state of
\* every channel, not only of its own, is the committed one.
ReleaseFollowsSync ==
    [][Len(wire') > Len(wire) /\ wire'[Len(wire')].kind = "lifecycle" =>
          \A c \in Channels : held[c] = retained[c].rev]_fireVars

FC == INSTANCE FireChannel WITH
        committed <- [c \in Channels |-> retained[c].rev],
        shown <- held, told <- heard

\* The coordinator implements FireChannel: what a subscriber sees moves forward,
\* and no lifecycle message is skipped or early.
ChannelSpec == FC!Spec
=============================================================================
