------------------------------ MODULE FireAlarm ------------------------------
(***************************************************************************)
(* Fire alarms (Pi_Server/src/event/FireAlarmService.cpp and the domain    *)
(* half of src/database/EventDatabaseFire.cpp), on top of their delivery.  *)
(* Sensor signals, acknowledgements and manual clears are commands of one  *)
(* bounded queue; one worker turns them into revisions of their channel.   *)
(* A command that cannot be done now stays admitted and is tried again.    *)
(*                                                                         *)
(* Each channel has one sensor.  The alarm ID is named by the revision     *)
(* that opened the alarm, as in the code.                                  *)
(***************************************************************************)
EXTENDS FireDelivery, SensorSequencePolicy, SequencesExt

CONSTANTS
    Signals,         \* [version, boot, seq, detected]: what a fire sensor may send
    QueueCapacity,   \* commandQueueCapacity
    ChannelCount,    \* bindings_.size()
    MaxCommands      \* bound: commands that are admitted

ASSUME AlarmAssumption ==
    /\ QueueCapacity \in Nat \ {0} /\ ChannelCount \in Nat \ {0}
    /\ MaxCommands \in Nat
    /\ Signals \subseteq [version : {"V1", "V2"}, boot : STRING,
                          seq : Nat \cup {NoSequence}, detected : BOOLEAN]

VARIABLES
    alarm,      \* alarm[c]: desired_lifecycle and active_alarm_id of the row
    cursor,     \* cursor[c]: protocol_mode, active_boot_id, last_source_sequence
    detected,   \* detected[c]: what last_signal_json says
    queue,      \* queue_
    job,        \* the command in process() and how far it is
    blocked,    \* blocked[c]: blocked_channel_ticket_, 0 if none
    service,    \* ingress and tickets
    shown       \* history: the highest revision the broker ever retained

rows == <<alarm, cursor, detected>>
commands == <<queue, job, blocked, service>>
alarmVars == <<rows, commands, shown>>
allVars == <<fireVars, alarmVars>>

NoSignal == [version |-> "none", boot |-> NoBoot, seq |-> NoSequence, detected |-> FALSE]
Command(kind, c, s, a) ==
    [kind |-> kind, channel |-> c, signal |-> s, alarm |-> a, ticket |-> 0,
     delayed |-> FALSE]
NoJob == [phase |-> "none", command |-> Command("none", "none", NoSignal, 0)]

AlarmInit ==
    /\ Init
    /\ alarm = [c \in Channels |-> [life |-> "RESOLVED", id |-> 0]]
    /\ cursor = [c \in Channels |-> UnseenCursor]
    /\ detected = [c \in Channels |-> FALSE]
    /\ queue = <<>> /\ job = NoJob
    /\ blocked = [c \in Channels |-> 0]
    /\ service = [mode |-> "accepting", tickets |-> 0]
    /\ shown = Unsent

Seen == shown' = [c \in Channels |-> IF held'[c] > shown[c] THEN held'[c] ELSE shown[c]]

-----------------------------------------------------------------------------
(***************************************************************************)
(* Admission                                                               *)
(***************************************************************************)
AckCapacity ==
    QueueCapacity - (IF QueueCapacity < ChannelCount THEN QueueCapacity ELSE ChannelCount)

\* pending_ack_ticket_: the same acknowledgement is admitted and not answered.
AckPending(k) ==
    \/ job.command.kind = "Acknowledge"
         /\ job.command.channel = k.channel /\ job.command.alarm = k.alarm
    \/ \E i \in DOMAIN queue :
         queue[i].kind = "Acknowledge" /\ queue[i].channel = k.channel
         /\ queue[i].alarm = k.alarm

HasRoom(k) ==
    /\ Len(queue) < QueueCapacity
    /\ k.kind = "Acknowledge" => Len(queue) < AckCapacity

enqueue(k) ==
    /\ co.running /\ service.mode = "accepting"
    /\ service.tickets < MaxCommands
    /\ k.kind = "Acknowledge" => ~AckPending(k)
    /\ HasRoom(k)
    /\ queue' = Append(queue, [k EXCEPT !.ticket = service.tickets + 1])
    /\ service' = [service EXCEPT !.tickets = @ + 1]
    /\ UNCHANGED <<fireVars, rows, job, blocked, shown>>

submitSignal(c) == \E s \in Signals : enqueue(Command("Signal", c, s, 0))
submitAcknowledge(c) ==
    \E r \in 2..retained[c].rev : enqueue(Command("Acknowledge", c, NoSignal, r))
submitManualClear(c) == enqueue(Command("ManualClear", c, NoSignal, 0))

-----------------------------------------------------------------------------
(***************************************************************************)
(* The worker takes the first command that is due and not behind another   *)
(* one of its channel that failed.                                         *)
(***************************************************************************)
Working(p) == co.running /\ job.phase = p

Due(i) ==
    /\ blocked[queue[i].channel] \in {0, queue[i].ticket}
    /\ ~queue[i].delayed

TakeCommand ==
    /\ Working("none")
    /\ \E i \in DOMAIN queue :
         /\ Due(i) /\ \A j \in 1..(i - 1) : ~Due(j)
         /\ job' = [phase |-> "decide", command |-> queue[i]]
         /\ queue' = RemoveAt(queue, i)
    /\ UNCHANGED <<fireVars, rows, blocked, service, shown>>

\* transientFailureRetryDelay of a command passes.
RetryDelayElapses(t) ==
    /\ co.running
    /\ \E i \in DOMAIN queue :
         /\ queue[i].ticket = t /\ queue[i].delayed
         /\ queue' = [queue EXCEPT ![i].delayed = FALSE]
    /\ UNCHANGED <<fireVars, rows, job, blocked, service, shown>>

\* Plausible bug: a command that failed lets later ones of its channel pass.
BugRequeueUnblocked(blocks) ==
    /\ queue' = Append(queue, [job.command EXCEPT !.delayed = TRUE])
    /\ job' = NoJob
    /\ UNCHANGED <<blocked, service>>

\* A retryable result: back to the end of the queue, with or without the block
\* of the channel.
Requeue(blocks) ==
    LET k == job.command
    IN  /\ queue' = Append(queue, [k EXCEPT !.delayed = TRUE])
        /\ blocked' = [blocked EXCEPT ![k.channel] =
                           IF blocks THEN k.ticket ELSE IF @ = k.ticket THEN 0 ELSE @]
        /\ job' = NoJob
        /\ UNCHANGED service

FinishCommand ==
    /\ Working("finish")
    /\ LET k == job.command
       IN  blocked' = [blocked EXCEPT ![k.channel] = IF @ = k.ticket THEN 0 ELSE @]
    /\ job' = NoJob
    /\ UNCHANGED <<fireVars, rows, queue, service, shown>>

-----------------------------------------------------------------------------
(***************************************************************************)
(* What a command amounts to, from the durable state of its channel        *)
(***************************************************************************)
Active(c) == alarm[c].life \in {"OPEN", "ACKNOWLEDGED"}

\* The row's cursor after a signal.  Other than the slots' cursor it forgets
\* the counter when a legacy signal brings none.
FireCursor(c, s) ==
    [mode |-> IF s.version = "V2" THEN "VERSIONED" ELSE "LEGACY",
     boot |-> s.boot, last |-> s.seq, retired |-> RetiredBoots(cursor[c], s)]

Transition(c) == IF retained[c].rev = MaxRevision THEN "Failed" ELSE "Transition"

SignalVerdict(c, s) ==
    LET decision == evaluateSensorSequence(cursor[c], s)
    IN  IF decision = "Duplicate" /\ detected[c] = s.detected THEN "Idempotent"
        ELSE IF decision # "Accept" THEN "Rejected"
        ELSE IF s.detected # Active(c) THEN Transition(c)
        ELSE IF FireCursor(c, s) = cursor[c] THEN "Idempotent"
        ELSE "CursorOnly"

\* Plausible bug: nobody waits for the broker.
BugAckAtOnce(c, a) ==
    IF alarm[c].id # a \/ ~Active(c) THEN "Rejected"
    ELSE IF alarm[c].life = "ACKNOWLEDGED" THEN "Idempotent"
    ELSE Transition(c)

\* isRevisionSynchronized: only an alarm the broker shows is acknowledged.
AckVerdict(c, a) ==
    IF alarm[c].id # a \/ ~Active(c) THEN "Rejected"
    ELSE IF co.ready[c] # retained[c].rev THEN "Wait"
    ELSE IF alarm[c].life = "ACKNOWLEDGED" THEN "Idempotent"
    ELSE Transition(c)

ClearVerdict(c) == IF Active(c) THEN Transition(c) ELSE "Idempotent"

Verdict(k) ==
    IF k.kind = "Signal" THEN SignalVerdict(k.channel, k.signal)
    ELSE IF k.kind = "Acknowledge" THEN AckVerdict(k.channel, k.alarm)
    ELSE ClearVerdict(k.channel)

process ==
    /\ Working("decide")
    /\ LET k == job.command
           v == Verdict(k)
       IN  \/ /\ v = "Wait"
              /\ Requeue(FALSE) /\ UNCHANGED rows
           \/ /\ v # "Wait"
              /\ job' = [job EXCEPT !.phase =
                             IF v = "Transition" THEN "begin"
                             ELSE IF v \in {"Idempotent", "CursorOnly"} THEN "notify"
                             ELSE "finish"]
              /\ IF v = "CursorOnly"
                 THEN /\ cursor' = [cursor EXCEPT ![k.channel] = FireCursor(k.channel, k.signal)]
                      /\ detected' = [detected EXCEPT ![k.channel] = k.signal.detected]
                      /\ UNCHANGED alarm
                 ELSE UNCHANGED rows
              /\ UNCHANGED <<queue, blocked, service>>
    /\ UNCHANGED <<fireVars, shown>>

\* A store call throws or is refused.
processFails ==
    /\ Working("decide")
    /\ Requeue(TRUE)
    /\ Fault
    /\ UNCHANGED <<rows, outbox, co, w, link, broker, mutation, egress, shown>>

-----------------------------------------------------------------------------
(***************************************************************************)
(* applyTransition: the revision is committed inside the boundary that     *)
(* beginDomainMutation opens.                                              *)
(***************************************************************************)
BeginTransition ==
    /\ Working("begin")
    /\ beginDomainMutation(job.command.channel)
    /\ job' = [job EXCEPT !.phase = "boundary"]
    /\ UNCHANGED <<rows, queue, blocked, service, shown>>

TransitionRefused ==
    /\ Working("begin")
    /\ co.stopping \/ co.releasing
    /\ Requeue(TRUE)
    /\ UNCHANGED <<fireVars, rows, shown>>

BoundaryDrains ==
    MutationDrained /\ UNCHANGED alarmVars

BoundaryTimesOut ==
    MutationTimesOut /\ Requeue(TRUE) /\ UNCHANGED <<rows, shown>>

\* Plausible bug: an alarm that is over keeps its ID.
BugIdKept(k) ==
    IF k.kind = "Acknowledge" THEN [alarm[k.channel] EXCEPT !.life = "ACKNOWLEDGED"]
    ELSE IF k.signal.detected THEN [life |-> "OPEN", id |-> retained[k.channel].rev + 1]
    ELSE [alarm[k.channel] EXCEPT !.life = "RESOLVED"]

AlarmAfter(k) ==
    IF k.kind = "Acknowledge" THEN [alarm[k.channel] EXCEPT !.life = "ACKNOWLEDGED"]
    ELSE IF k.signal.detected THEN [life |-> "OPEN", id |-> retained[k.channel].rev + 1]
    ELSE [life |-> "RESOLVED", id |-> 0]

\* Plausible bug: the cursor stays behind the revision it belongs to.
BugCursorLater(k) == UNCHANGED <<cursor, detected>>

\* An acknowledgement and a manual clear leave the cursor and the last signal.
FollowSignal(k) ==
    IF k.kind = "Signal"
    THEN /\ cursor' = [cursor EXCEPT ![k.channel] = FireCursor(k.channel, k.signal)]
         /\ detected' = [detected EXCEPT ![k.channel] = k.signal.detected]
    ELSE UNCHANGED <<cursor, detected>>

CommitTransition ==
    /\ Working("boundary")
    /\ CommitRevision
    /\ alarm' = [alarm EXCEPT ![job.command.channel] = AlarmAfter(job.command)]
    /\ FollowSignal(job.command)
    /\ UNCHANGED <<commands, shown>>

TransitionFails == MutationFails /\ UNCHANGED alarmVars

EndBoundary ==
    /\ completeDomainMutation
    /\ IF Mutating("failed") THEN Requeue(TRUE)
       ELSE job' = [job EXCEPT !.phase = "notify"] /\ UNCHANGED <<queue, blocked, service>>
    /\ UNCHANGED <<rows, shown>>

\* The observer of a committed or repeated command.
notify ==
    /\ Working("notify")
    /\ notifyOutboxChanged \/ notifyUnchanged(job.command.channel)
    /\ job' = [job EXCEPT !.phase = "finish"]
    /\ UNCHANGED <<rows, queue, blocked, service, shown>>

AlarmWorker ==
    \/ TakeCommand \/ process \/ processFails
    \/ BeginTransition \/ TransitionRefused \/ BoundaryDrains \/ BoundaryTimesOut
    \/ CommitTransition \/ TransitionFails \/ EndBoundary \/ notify \/ FinishCommand

-----------------------------------------------------------------------------
(***************************************************************************)
(* Shutdown, crash and restart; the commands are in memory only.           *)
(***************************************************************************)
closeIngress ==
    /\ co.running /\ service.mode = "accepting"
    /\ restarts < MaxRestarts
    /\ service' = [service EXCEPT !.mode = "closing"]
    /\ UNCHANGED <<fireVars, rows, queue, job, blocked, shown>>

\* FireAlarmService::stop() returns true; the coordinator is stopped after it.
StopAlarms ==
    /\ co.running /\ service.mode = "closing"
    /\ queue = <<>> /\ job = NoJob
    /\ service' = [service EXCEPT !.mode = "stopped"]
    /\ UNCHANGED <<fireVars, rows, queue, job, blocked, shown>>

StopDelivery ==
    service.mode = "stopped" /\ stop /\ UNCHANGED alarmVars

\* A shutdown whose drain times out ends like a crash.
ProcessDies ==
    /\ Crash
    /\ queue' = <<>> /\ job' = NoJob /\ blocked' = [c \in Channels |-> 0]
    /\ service' = [service EXCEPT !.mode = "accepting"]
    /\ UNCHANGED <<rows, shown>>

ProcessStarts ==
    /\ start
    /\ service' = [service EXCEPT !.mode = "accepting"]
    /\ UNCHANGED <<rows, queue, job, blocked, shown>>

DeliveryWorker == (Turn \/ WorkerStops) /\ UNCHANGED alarmVars
DeliveryTimer(c) == RetryElapses(c) /\ UNCHANGED alarmVars
Network == (Transport \/ BrokerReceives) /\ Seen /\ UNCHANGED <<rows, commands>>
Publisher(p) ==
    (beginRegularEgress(p) \/ RegularPublish(p)) /\ UNCHANGED alarmVars

AlarmNext ==
    \/ \E c \in Channels :
         \/ submitSignal(c) \/ submitAcknowledge(c) \/ submitManualClear(c)
         \/ DeliveryTimer(c)
    \/ AlarmWorker \/ \E t \in 1..MaxCommands : RetryDelayElapses(t)
    \/ DeliveryWorker \/ Network \/ \E p \in Publishers : Publisher(p)
    \/ closeIngress \/ StopAlarms \/ StopDelivery \/ ProcessDies \/ ProcessStarts

\* Threads run, timers fire, the broker answers and a dead process is started
\* again; nothing is assumed of commands, publishers, faults or stops.
Fairness ==
    /\ WF_allVars(AlarmWorker)
    /\ WF_allVars(\E t \in 1..MaxCommands : RetryDelayElapses(t))
    /\ WF_allVars(DeliveryWorker)
    /\ \A c \in Channels : WF_allVars(DeliveryTimer(c))
    /\ WF_allVars(Network /\ (used' = used))
    /\ WF_allVars(ProcessStarts)

AlarmSpec == AlarmInit /\ [][AlarmNext]_allVars
FairAlarmSpec == AlarmSpec /\ Fairness

-----------------------------------------------------------------------------
(***************************************************************************)
(* Properties                                                              *)
(***************************************************************************)
Lives == {"RESOLVED", "OPEN", "ACKNOWLEDGED"}
Commands ==
    [kind : {"Signal", "Acknowledge", "ManualClear"}, channel : Channels,
     signal : Signals \cup {NoSignal}, alarm : 0..MaxRevision,
     ticket : 1..MaxCommands, delayed : BOOLEAN]

\* Type invariant of the alarm rows and of the service.  An alarm is active
\* exactly while it has an ID, and the ID is that of an earlier revision.
AlarmTypeOK ==
    /\ alarm \in [Channels -> [life : Lives, id : 0..MaxRevision]]
    /\ \A c \in Channels : (alarm[c].id # 0) = Active(c) /\ alarm[c].id <= retained[c].rev
    /\ \A c \in Channels : cursor[c].mode \in Modes
    /\ detected \in [Channels -> BOOLEAN]
    /\ \A i \in DOMAIN queue : queue[i] \in Commands
    /\ job.phase \in {"none", "decide", "begin", "boundary", "notify", "finish"}
    /\ job.phase # "none" => job.command \in Commands
    /\ blocked \in [Channels -> 0..MaxCommands]
    /\ service.mode \in {"accepting", "closing", "stopped"}
    /\ shown \in Revisions

\* No command overtakes an earlier signal or clear of its channel, however
\* often that one fails and is put back behind it.
CommandsInOrder ==
    job.phase # "none" => \A i \in DOMAIN queue :
        ~ /\ queue[i].channel = job.command.channel
          /\ queue[i].kind # "Acknowledge"
          /\ queue[i].ticket < job.command.ticket

\* An alarm becomes ACKNOWLEDGED only after the broker has shown it open, even
\* if the connection is lost between the check and the commit.
AckOnlyShown ==
    [][\A c \in Channels :
          alarm'[c].life = "ACKNOWLEDGED" /\ alarm[c].life # "ACKNOWLEDGED"
            => shown[c] = retained[c].rev]_allVars

\* An active alarm rests on a signal that the cursor knows: cursor and revision
\* are committed together, so a frame that is repeated after a crash is a
\* duplicate and opens no second alarm.
AlarmFollowsSensor == \A c \in Channels : Active(c) => detected[c]

\* Again and again everything is at rest at once: no command waits or is worked
\* on, which is what drainCommitted waits for, and of each channel the broker
\* shows the revision that is committed and has told it.  No failing store, no
\* acknowledgement that waits for the broker, no block of a channel and no lost
\* connection holds a command or a revision forever.
AlarmsSettle ==
    []<>(/\ queue = <<>> /\ job = NoJob
         /\ \A c \in Channels :
              held[c] = retained[c].rev /\ heard[c] = retained[c].rev)

\* FireDeliveryIntegrationTest.cpp: a recovered actor must resynchronize on a
\* fresh epoch.  As long as a connection stays up the channels become ready.
FreshEpochResynchronizes ==
    link.phase = "ready" ~> link.phase # "ready" \/ AllReady(co)
=============================================================================
