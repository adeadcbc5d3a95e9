--------------------------- MODULE FireAlarmProofs ---------------------------
(***************************************************************************)
(* For any number of channels, commands and revisions, any queue size and  *)
(* any signals of the sensors: commands of a channel keep their order      *)
(* through failures and retries, an alarm rests on a signal of its sensor, *)
(* only a shown alarm is acknowledged, and the commands of this service    *)
(* leave every promise of the delivery below it intact.                    *)
(***************************************************************************)
EXTENDS FireAlarm, FireOrderProofs, SequenceTheorems

JobPhases == {"none", "decide", "begin", "boundary", "notify", "finish"}
ServiceModes == {"accepting", "closing", "stopped"}
Jobs == Commands \cup {NoJob.command}

\* A command that is no signal brings none.
Plain(k) == k.kind # "Signal" => k.signal = NoSignal

CommandsTyped ==
    /\ queue \in Seq(Commands) /\ \A i \in 1..Len(queue) : Plain(queue[i])
    /\ job \in [phase : JobPhases, command : Jobs] /\ Plain(job.command)
    /\ job.phase # "none" => job.command \in Commands
    /\ blocked \in [Channels -> 0..MaxCommands]
    /\ service \in [mode : ServiceModes, tickets : 0..MaxCommands]

AlarmsTyped ==
    /\ alarm \in [Channels -> [life : Lives, id : 0..MaxRevision]]
    /\ \A c \in Channels : (alarm[c].id # 0) = Active(c) /\ alarm[c].id <= Rev(c)
    /\ cursor = [c \in Channels |-> cursor[c]]
    /\ \A c \in Channels : cursor[c].mode \in Modes
    /\ detected \in [Channels -> BOOLEAN]

\* The domain mutation of the coordinator is the one of the command in process.
JobOwnsMutation ==
    /\ job.phase = "boundary" =>
           /\ mutation.phase \in {"waiting", "open", "committed", "failed"}
           /\ mutation.channel = job.command.channel
    /\ job.phase = "notify" => mutation.phase \in {"none", "notify"}
    /\ job.phase \notin {"boundary", "notify"} => mutation.phase = "none"

\* The coordinator is stopped after the service, and both when nothing is left.
StoppedIsDone ==
    /\ service.mode = "stopped" => queue = <<>> /\ job.phase = "none"
    /\ co.stopping => service.mode = "stopped"
    /\ ~co.running => queue = <<>> /\ job.phase = "none"

-----------------------------------------------------------------------------
(***************************************************************************)
(* The queue                                                               *)
(***************************************************************************)
LEMMA Removed ==
    ASSUME NEW S, NEW s \in Seq(S), NEW i \in 1..Len(s)
    PROVE  /\ RemoveAt(s, i) \in Seq(S)
           /\ Len(RemoveAt(s, i)) = Len(s) - 1
           /\ \A j \in 1..(Len(s) - 1) :
                 RemoveAt(s, i)[j] = IF j < i THEN s[j] ELSE s[j + 1]
<1> DEFINE a == SubSeq(s, 1, i - 1)
           b == SubSeq(s, i + 1, Len(s))
<1>1. /\ a \in Seq(S) /\ Len(a) = i - 1
      /\ \A j \in 1..(i - 1) : a[j] = s[j]
  OBVIOUS
<1>2. /\ b \in Seq(S) /\ Len(b) = Len(s) - i
      /\ \A j \in 1..(Len(s) - i) : b[j] = s[i + j]
  OBVIOUS
<1>3. RemoveAt(s, i) = a \o b
  BY DEF RemoveAt
<1> HIDE DEF a, b
<1>4. /\ a \o b \in Seq(S) /\ Len(a \o b) = Len(a) + Len(b)
      /\ \A j \in 1..(Len(a) + Len(b)) :
             (a \o b)[j] = IF j <= Len(a) THEN a[j] ELSE b[j - Len(a)]
  BY <1>1, <1>2, ConcatProperties
<1>5. ASSUME NEW j \in 1..(Len(s) - 1)
      PROVE  (a \o b)[j] = IF j < i THEN s[j] ELSE s[j + 1]
  <2>1. CASE j < i
    BY <1>1, <1>4, <2>1
  <2>2. CASE ~(j < i)
    <3> DEFINE m == j - (i - 1)
    <3>1. m \in 1..(Len(s) - i) /\ i + m = j + 1
      BY <2>2
    <3>2. j \in 1..(Len(a) + Len(b)) /\ ~(j <= Len(a)) /\ j - Len(a) = m
      BY <1>1, <1>2, <2>2
    <3> HIDE DEF m
    <3>3. b[m] = s[j + 1]
      BY <1>2, <3>1
    <3> QED BY <1>4, <2>2, <3>2, <3>3
  <2> QED BY <2>1, <2>2
<1> QED BY <1>1, <1>2, <1>3, <1>4, <1>5

LEMMA Replaced ==
    ASSUME NEW S, NEW s \in Seq(S), NEW i \in 1..Len(s), NEW x \in S
    PROVE  /\ [s EXCEPT ![i] = x] \in Seq(S)
           /\ Len([s EXCEPT ![i] = x]) = Len(s)
           /\ DOMAIN [s EXCEPT ![i] = x] = DOMAIN s
           /\ [s EXCEPT ![i] = x][i] = x
           /\ \A j \in 1..Len(s) : j # i => [s EXCEPT ![i] = x][j] = s[j]
OBVIOUS

\* A command keeps everything but its delay.
LEMMA Redelayed ==
    ASSUME NEW k \in Commands, NEW b \in BOOLEAN
    PROVE  LET kd == [k EXCEPT !.delayed = b]
           IN  /\ kd \in Commands /\ (Plain(k) => Plain(kd))
               /\ kd.ticket = k.ticket /\ kd.channel = k.channel /\ kd.kind = k.kind
               /\ kd.delayed = b
BY DEF Commands, Plain

LEMMA CommandFields ==
    ASSUME NEW k \in Commands
    PROVE  /\ k.ticket \in Nat \ {0} /\ k.ticket \in 0..MaxCommands
           /\ k.channel \in Channels
BY AlarmAssumption DEF Commands

\* What a step does to the commands.
Stays ==
    /\ \E p \in JobPhases :
           job' = [job EXCEPT !.phase = p] /\ (p = "none" <=> job.phase = "none")
    /\ \E m \in ServiceModes : service' = [service EXCEPT !.mode = m]
    /\ UNCHANGED <<queue, blocked>>

Admits ==
    \E k \in Commands :
        /\ Plain(k) /\ ~k.delayed /\ k.ticket = service.tickets + 1
        /\ queue' = Append(queue, k)
        /\ service.tickets < MaxCommands
        /\ service' = [service EXCEPT !.tickets = @ + 1]
        /\ UNCHANGED <<job, blocked>>

Elapses ==
    /\ \E i \in 1..Len(queue) : queue' = [queue EXCEPT ![i].delayed = FALSE]
    /\ UNCHANGED <<job, blocked, service>>

Takes ==
    /\ job.phase = "none"
    /\ \E i \in 1..Len(queue) :
           /\ Due(i) /\ \A j \in 1..(i - 1) : ~Due(j)
           /\ job' = [phase |-> "decide", command |-> queue[i]]
           /\ queue' = RemoveAt(queue, i)
    /\ UNCHANGED <<blocked, service>>

Requeues ==
    /\ job.phase # "none"
    /\ \E blocks \in BOOLEAN :
           (blocks \/ job.command.kind = "Acknowledge") /\ Requeue(blocks)

Finishes ==
    /\ job.phase # "none" /\ job' = NoJob
    /\ LET k == job.command
       IN  blocked' = [blocked EXCEPT ![k.channel] = IF @ = k.ticket THEN 0 ELSE @]
    /\ UNCHANGED <<queue, service>>

Dies ==
    /\ queue' = <<>> /\ job' = NoJob /\ blocked' = [c \in Channels |-> 0]
    /\ \E m \in ServiceModes : service' = [service EXCEPT !.mode = m]

CommandMoves == Stays \/ Admits \/ Elapses \/ Takes \/ Requeues \/ Finishes \/ Dies

\* Only an acknowledgement waits.
LEMMA OnlyAckWaits ==
    ASSUME NEW k \in Commands, Verdict(k) = "Wait"
    PROVE  k.kind = "Acknowledge"
BY DEF Verdict, SignalVerdict, ClearVerdict, Transition

\* A command as it is queued.
LEMMA Ticketed ==
    ASSUME NEW kind \in {"Signal", "Acknowledge", "ManualClear"}, NEW c \in Channels,
           NEW s \in Signals \cup {NoSignal}, NEW a \in 0..MaxRevision,
           NEW t \in 1..MaxCommands, kind # "Signal" => s = NoSignal
    PROVE  LET k == [Command(kind, c, s, a) EXCEPT !.ticket = t]
           IN  k \in Commands /\ Plain(k) /\ ~k.delayed /\ k.ticket = t
<1> DEFINE k == Command(kind, c, s, a)
<1>1. k \in [kind : {"Signal", "Acknowledge", "ManualClear"}, channel : Channels,
             signal : Signals \cup {NoSignal}, alarm : 0..MaxRevision,
             ticket : {0}, delayed : BOOLEAN]
  BY DEF Command
<1>2. k.kind = kind /\ k.signal = s /\ ~k.delayed
  BY DEF Command
<1> HIDE DEF k
<1>3. [k EXCEPT !.ticket = t] \in Commands
  BY <1>1 DEF Commands
<1>4. /\ [k EXCEPT !.ticket = t].kind = kind /\ [k EXCEPT !.ticket = t].signal = s
      /\ ~[k EXCEPT !.ticket = t].delayed /\ [k EXCEPT !.ticket = t].ticket = t
  BY <1>1, <1>2
<1> QED BY <1>3, <1>4 DEF Plain, k

LEMMA JobStays ==
    ASSUME CommandsTyped, NEW p \in JobPhases, p = "none" <=> job.phase = "none",
           job' = [job EXCEPT !.phase = p], UNCHANGED <<queue, blocked, service>>
    PROVE  Stays
<1>1. service' = [service EXCEPT !.mode = service.mode] /\ service.mode \in ServiceModes
  BY DEF CommandsTyped
<1> QED BY <1>1 DEF Stays

LEMMA CommandsStay ==
    ASSUME CommandsTyped, UNCHANGED commands
    PROVE  Stays
<1>1. job' = [job EXCEPT !.phase = job.phase] /\ job.phase \in JobPhases
  BY DEF CommandsTyped, commands
<1> QED BY <1>1, JobStays DEF commands

LEMMA CommandStep ==
    ASSUME IType, CommandsTyped, JobOwnsMutation, [AlarmNext]_allVars
    PROVE  CommandMoves
<1> USE DEF commands, allVars, alarmVars
<1>1. CASE UNCHANGED allVars
  BY <1>1, CommandsStay DEF CommandMoves
<1>3. ASSUME NEW c \in Channels, submitSignal(c) \/ submitAcknowledge(c) \/ submitManualClear(c)
      PROVE  CommandMoves
  <2>1. PICK kind \in {"Signal", "Acknowledge", "ManualClear"},
             s \in Signals \cup {NoSignal}, a \in 0..MaxRevision :
             enqueue(Command(kind, c, s, a)) /\ (kind # "Signal" => s = NoSignal)
    <3>1. CASE submitSignal(c)
      BY <3>1, FireAssumption DEF submitSignal
    <3>2. CASE submitAcknowledge(c)
      <4>1. PICK r \in 2..retained[c].rev : enqueue(Command("Acknowledge", c, NoSignal, r))
        BY <3>2 DEF submitAcknowledge
      <4>2. r \in 0..MaxRevision
        BY FireAssumption DEF IType, TypeOK
      <4> QED BY <4>1, <4>2
    <3>3. CASE submitManualClear(c)
      BY <3>3, FireAssumption DEF submitManualClear
    <3> QED BY <1>3, <3>1, <3>2, <3>3
  <2> DEFINE t == service.tickets + 1
             kk == [Command(kind, c, s, a) EXCEPT !.ticket = t]
  <2>2. t \in 1..MaxCommands
    BY <2>1, AlarmAssumption DEF enqueue, CommandsTyped
  <2>3. kk \in Commands /\ Plain(kk) /\ ~kk.delayed /\ kk.ticket = t
    BY <2>1, <2>2, Ticketed
  <2>4. /\ queue' = Append(queue, kk) /\ service.tickets < MaxCommands
        /\ service' = [service EXCEPT !.tickets = @ + 1] /\ UNCHANGED <<job, blocked>>
    BY <2>1 DEF enqueue
  <2> HIDE DEF kk
  <2> QED BY <2>3, <2>4 DEF CommandMoves, Admits
<1>4. CASE TakeCommand
  <2>0. DOMAIN queue = 1..Len(queue)
    BY DEF CommandsTyped
  <2> QED BY <1>4, <2>0 DEF TakeCommand, Working, CommandMoves, Takes
<1>5. CASE process
  <2>0. job.phase = "decide" /\ job.command \in Commands
    BY <1>5 DEF process, Working, CommandsTyped
  <2>1. CASE Requeue(FALSE) /\ Verdict(job.command) = "Wait"
    BY <2>0, <2>1, OnlyAckWaits DEF CommandMoves, Requeues
  <2>2. CASE ~(Requeue(FALSE) /\ Verdict(job.command) = "Wait")
    <3>1. \E p \in {"begin", "notify", "finish"} : job' = [job EXCEPT !.phase = p]
      BY <1>5, <2>2 DEF process
    <3>2. UNCHANGED <<queue, blocked, service>>
      BY <1>5, <2>2 DEF process
    <3> QED BY <2>0, <3>1, <3>2, JobStays DEF CommandMoves, JobPhases
  <2> QED BY <2>1, <2>2
<1>6. CASE processFails \/ TransitionRefused
  BY <1>6 DEF processFails, TransitionRefused, Working, CommandMoves, Requeues
<1>7. CASE BeginTransition
  BY <1>7, JobStays DEF BeginTransition, Working, CommandMoves, JobPhases
<1>8. CASE BoundaryTimesOut
  <2>1. job.phase = "boundary"
    BY <1>8 DEF BoundaryTimesOut, MutationTimesOut, Mutating, JobOwnsMutation
  <2> QED BY <1>8, <2>1 DEF BoundaryTimesOut, CommandMoves, Requeues
<1>9. CASE EndBoundary
  <2>1. job.phase = "boundary"
    BY <1>9 DEF EndBoundary, completeDomainMutation, JobOwnsMutation
  <2>2. CASE Mutating("failed")
    BY <1>9, <2>1, <2>2 DEF EndBoundary, CommandMoves, Requeues
  <2>3. CASE ~Mutating("failed")
    <3>1. job' = [job EXCEPT !.phase = "notify"] /\ UNCHANGED <<queue, blocked, service>>
      BY <1>9, <2>3 DEF EndBoundary
    <3> QED BY <2>1, <3>1, JobStays DEF CommandMoves, JobPhases
  <2> QED BY <2>2, <2>3
<1>10. CASE notify
  BY <1>10, JobStays DEF notify, Working, CommandMoves, JobPhases
<1>11. CASE FinishCommand
  BY <1>11 DEF FinishCommand, Working, CommandMoves, Finishes
<1>12. CASE \E t \in 1..MaxCommands : RetryDelayElapses(t)
  <2>0. DOMAIN queue = 1..Len(queue)
    BY DEF CommandsTyped
  <2> QED BY <1>12, <2>0 DEF RetryDelayElapses, CommandMoves, Elapses
<1>13. CASE BoundaryDrains \/ CommitTransition \/ TransitionFails \/ DeliveryWorker \/ Network
            \/ StopDelivery \/ (\E c \in Channels : DeliveryTimer(c))
            \/ (\E p \in Publishers : Publisher(p))
  <2>1. UNCHANGED commands
    BY <1>13 DEF BoundaryDrains, CommitTransition, TransitionFails, DeliveryWorker, Network,
                 StopDelivery, DeliveryTimer, Publisher
  <2> QED BY <2>1, CommandsStay DEF CommandMoves
<1>14. CASE closeIngress \/ StopAlarms \/ ProcessStarts
  <2>1. /\ \E m \in ServiceModes : service' = [service EXCEPT !.mode = m]
        /\ UNCHANGED <<queue, job, blocked>>
    BY <1>14 DEF closeIngress, StopAlarms, ProcessStarts, ServiceModes
  <2>2. job' = [job EXCEPT !.phase = job.phase] /\ job.phase \in JobPhases
    BY <2>1 DEF CommandsTyped
  <2> QED BY <2>1, <2>2 DEF CommandMoves, Stays
<1>15. CASE ProcessDies
  BY <1>15 DEF ProcessDies, CommandMoves, Dies, ServiceModes
<1> QED BY <1>1, <1>3, <1>4, <1>5, <1>6, <1>7, <1>8, <1>9, <1>10, <1>11, <1>12, <1>13,
           <1>14, <1>15 DEF AlarmNext, AlarmWorker

-----------------------------------------------------------------------------
(***************************************************************************)
(* The command types                                                       *)
(***************************************************************************)
LEMMA CommandsType ==
    ASSUME CommandsTyped, CommandMoves
    PROVE  CommandsTyped'
<1>0. /\ NoJob.phase = "none" /\ NoJob.command \in Jobs /\ Plain(NoJob.command)
      /\ NoJob \in [phase : JobPhases, command : Jobs]
  BY DEF NoJob, Jobs, Command, Plain, JobPhases
<1>1. CASE Stays
  BY <1>1 DEF Stays, CommandsTyped
<1>2. CASE Admits
  <2>1. PICK k \in Commands : /\ Plain(k) /\ queue' = Append(queue, k)
                              /\ service.tickets < MaxCommands
                              /\ service' = [service EXCEPT !.tickets = @ + 1]
                              /\ UNCHANGED <<job, blocked>>
    BY <1>2 DEF Admits
  <2>2. queue' \in Seq(Commands) /\ \A i \in 1..Len(queue') : Plain(queue'[i])
    BY <2>1 DEF CommandsTyped
  <2>3. service' \in [mode : ServiceModes, tickets : 0..MaxCommands]
    BY <2>1, AlarmAssumption DEF CommandsTyped
  <2> QED BY <2>1, <2>2, <2>3 DEF CommandsTyped
<1>3. CASE Elapses
  <2>1. PICK i \in 1..Len(queue) : queue' = [queue EXCEPT ![i].delayed = FALSE]
    BY <1>3 DEF Elapses
  <2>2. queue[i] \in Commands
    BY DEF CommandsTyped
  <2> DEFINE kd == [queue[i] EXCEPT !.delayed = FALSE]
  <2>3. kd \in Commands /\ Plain(kd)
    BY <2>2, Redelayed DEF CommandsTyped
  <2> HIDE DEF kd
  <2>5. queue' = [queue EXCEPT ![i] = kd]
    BY <2>1 DEF kd
  <2>4. queue' \in Seq(Commands) /\ \A j \in 1..Len(queue') : Plain(queue'[j])
    BY <2>3, <2>5, Replaced DEF CommandsTyped
  <2> QED BY <1>3, <2>4 DEF CommandsTyped, Elapses
<1>4. CASE Takes
  <2>1. PICK i \in 1..Len(queue) : /\ job' = [phase |-> "decide", command |-> queue[i]]
                                   /\ queue' = RemoveAt(queue, i)
    BY <1>4 DEF Takes
  <2>2. queue[i] \in Commands /\ Plain(queue[i])
    BY DEF CommandsTyped
  <2>3. /\ job' \in [phase : JobPhases, command : Jobs] /\ Plain(job'.command)
        /\ job'.command \in Commands
    BY <2>1, <2>2 DEF JobPhases, Jobs
  <2>4. /\ queue' \in Seq(Commands) /\ Len(queue') = Len(queue) - 1
        /\ \A j \in 1..(Len(queue) - 1) : queue'[j] = IF j < i THEN queue[j] ELSE queue[j + 1]
    BY <2>1, Removed DEF CommandsTyped
  <2>5. \A j \in 1..Len(queue') : Plain(queue'[j])
    <3>1. \A j \in 1..Len(queue') : j \in 1..Len(queue) /\ j + 1 \in 1..Len(queue)
      BY <2>4
    <3> QED BY <2>4, <3>1 DEF CommandsTyped
  <2> QED BY <1>4, <2>3, <2>4, <2>5 DEF CommandsTyped, Takes
<1>5. CASE Requeues
  <2> DEFINE k == job.command
             kd == [k EXCEPT !.delayed = TRUE]
  <2>1. PICK blocks \in BOOLEAN : Requeue(blocks)
    BY <1>5 DEF Requeues
  <2>2. k \in Commands /\ Plain(k)
    BY <1>5 DEF Requeues, CommandsTyped
  <2>3. kd \in Commands /\ Plain(kd) /\ k.ticket \in 0..MaxCommands /\ k.channel \in Channels
    BY <2>2, Redelayed, CommandFields
  <2>4. /\ queue' = Append(queue, kd) /\ job' = NoJob /\ UNCHANGED service
        /\ blocked' = [blocked EXCEPT ![k.channel] =
                           IF blocks THEN k.ticket ELSE IF @ = k.ticket THEN 0 ELSE @]
    BY <2>1 DEF Requeue
  <2> HIDE DEF kd
  <2>5. queue' \in Seq(Commands) /\ \A i \in 1..Len(queue') : Plain(queue'[i])
    BY <2>3, <2>4 DEF CommandsTyped
  <2>6. blocked' \in [Channels -> 0..MaxCommands]
    BY <2>3, <2>4, AlarmAssumption DEF CommandsTyped
  <2> QED BY <1>0, <2>4, <2>5, <2>6 DEF CommandsTyped
<1>6. CASE Finishes
  <2> DEFINE k == job.command
             b == IF blocked[k.channel] = k.ticket THEN 0 ELSE blocked[k.channel]
  <2>1. blocked' = [blocked EXCEPT ![k.channel] = b] /\ k \in Commands
    BY <1>6 DEF Finishes, CommandsTyped
  <2>2. b \in 0..MaxCommands
    BY <2>1, CommandFields, AlarmAssumption DEF CommandsTyped
  <2> HIDE DEF k, b
  <2>3. blocked' \in [Channels -> 0..MaxCommands]
    BY <2>1, <2>2 DEF CommandsTyped
  <2> QED BY <1>0, <1>6, <2>3 DEF Finishes, CommandsTyped
<1>7. CASE Dies
  <2>1. blocked' \in [Channels -> 0..MaxCommands]
    BY <1>7, AlarmAssumption DEF Dies
  <2>2. service' \in [mode : ServiceModes, tickets : 0..MaxCommands]
    BY <1>7 DEF Dies, CommandsTyped
  <2> QED BY <1>0, <1>7, <2>1, <2>2 DEF Dies, CommandsTyped
<1> QED BY <1>1, <1>2, <1>3, <1>4, <1>5, <1>6, <1>7 DEF CommandMoves

-----------------------------------------------------------------------------
(***************************************************************************)
(* The order of the commands                                               *)
(***************************************************************************)
\* No two admitted commands have the same ticket, and the next one is new.
TicketsDiffer ==
    /\ \A i \in 1..Len(queue) : queue[i].ticket <= service.tickets
    /\ \A i, j \in 1..Len(queue) : i # j => queue[i].ticket # queue[j].ticket
    /\ job.phase # "none" =>
           /\ job.command.ticket <= service.tickets
           /\ \A i \in 1..Len(queue) : queue[i].ticket # job.command.ticket
    /\ \A c \in Channels : blocked[c] <= service.tickets

Ordered(k) == k.kind # "Acknowledge"

\* A signal or clear that stands behind a later command of its channel, or
\* waits, holds the channel; whoever holds it is the oldest of the channel.
BlockKeepsOrder ==
    /\ job.phase # "none" => blocked[job.command.channel] \in {0, job.command.ticket}
    /\ \A i \in 1..Len(queue) : Ordered(queue[i]) /\ queue[i].delayed =>
           blocked[queue[i].channel] = queue[i].ticket
    /\ \A i \in 1..Len(queue) : Ordered(queue[i]) => blocked[queue[i].channel] <= queue[i].ticket
    /\ \A i, j \in 1..Len(queue) :
           /\ i < j /\ queue[i].channel = queue[j].channel /\ Ordered(queue[j])
           /\ queue[j].ticket < queue[i].ticket
           => blocked[queue[j].channel] = queue[j].ticket

QueueInv == TicketsDiffer /\ BlockKeepsOrder /\ CommandsInOrder

LEMMA QueueFields ==
    ASSUME CommandsTyped
    PROVE  /\ DOMAIN queue = 1..Len(queue) /\ Len(queue) \in Nat
           /\ \A i \in 1..Len(queue) :
                 /\ queue[i] \in Commands
                 /\ queue[i].ticket \in Nat \ {0} /\ queue[i].channel \in Channels
           /\ job.phase # "none" =>
                 job.command.ticket \in Nat \ {0} /\ job.command.channel \in Channels
           /\ \A c \in Channels : blocked[c] \in Nat
           /\ service.tickets \in Nat
<1>1. \A k \in Commands : k.ticket \in Nat \ {0} /\ k.channel \in Channels
  BY CommandFields
<1>2. \A i \in 1..Len(queue) : queue[i] \in Commands
  BY DEF CommandsTyped
<1> QED BY <1>1, <1>2, AlarmAssumption DEF CommandsTyped

LEMMA QueueAdmits == ASSUME CommandsTyped, QueueInv, Admits PROVE QueueInv'
<1>1. PICK k \in Commands : /\ ~k.delayed /\ k.ticket = service.tickets + 1
                            /\ queue' = Append(queue, k)
                            /\ service' = [service EXCEPT !.tickets = @ + 1]
                            /\ UNCHANGED <<job, blocked>>
  BY DEF Admits
<1> DEFINE n == Len(queue)
<1>2. /\ Len(queue') = n + 1 /\ DOMAIN queue' = 1..(n + 1) /\ queue'[n + 1] = k
      /\ \A i \in 1..n : queue'[i] = queue[i]
      /\ service'.tickets = service.tickets + 1 /\ n \in Nat
  BY <1>1 DEF CommandsTyped
<1>3. k.channel \in Channels /\ k.ticket \in Nat
  BY AlarmAssumption DEF Commands
<1>4. \A i \in 1..(n + 1) : i = n + 1 \/ i \in 1..n
  BY <1>2
<1> HIDE DEF n
<1>5. TicketsDiffer'
  BY <1>1, <1>2, <1>3, <1>4, QueueFields DEF QueueInv, TicketsDiffer, n
<1>6. BlockKeepsOrder'
  <2>1. \A i \in 1..(n + 1) : Ordered(queue'[i]) /\ queue'[i].delayed =>
            blocked'[queue'[i].channel] = queue'[i].ticket
    BY <1>1, <1>2, <1>4 DEF QueueInv, BlockKeepsOrder, n
  <2>2. \A i \in 1..(n + 1) : Ordered(queue'[i]) =>
            blocked'[queue'[i].channel] <= queue'[i].ticket
    BY <1>1, <1>2, <1>3, <1>4, QueueFields DEF QueueInv, TicketsDiffer, BlockKeepsOrder, n
  <2>3. ASSUME NEW i \in 1..(n + 1), NEW j \in 1..(n + 1), i < j,
               queue'[i].channel = queue'[j].channel, Ordered(queue'[j]),
               queue'[j].ticket < queue'[i].ticket
        PROVE  blocked'[queue'[j].channel] = queue'[j].ticket
    <3>1. i \in 1..n
      BY <1>2, <2>3
    <3>2. queue[i].ticket <= service.tickets
      BY <3>1 DEF QueueInv, TicketsDiffer, n
    <3>3. j \in 1..n
      BY <1>1, <1>2, <1>4, <2>3, <3>1, <3>2, QueueFields DEF n
    <3> QED BY <1>1, <1>2, <2>3, <3>1, <3>3 DEF QueueInv, BlockKeepsOrder, n
  <2>4. job'.phase # "none" => blocked'[job'.command.channel] \in {0, job'.command.ticket}
    BY <1>1 DEF QueueInv, BlockKeepsOrder
  <2> QED BY <1>2, <2>1, <2>2, <2>3, <2>4 DEF BlockKeepsOrder, Ordered
<1>7. CommandsInOrder'
  BY <1>1, <1>2, <1>3, <1>4, QueueFields DEF QueueInv, TicketsDiffer, CommandsInOrder, n
<1> QED BY <1>5, <1>6, <1>7 DEF QueueInv

LEMMA QueueElapses == ASSUME CommandsTyped, QueueInv, Elapses PROVE QueueInv'
<1>1. PICK e \in 1..Len(queue) : queue' = [queue EXCEPT ![e].delayed = FALSE]
  BY DEF Elapses
<1>2. UNCHANGED <<job, blocked, service>>
  BY DEF Elapses
<1> DEFINE kd == [queue[e] EXCEPT !.delayed = FALSE]
<1>3. /\ kd \in Commands /\ kd.ticket = queue[e].ticket /\ kd.channel = queue[e].channel
      /\ kd.kind = queue[e].kind /\ ~kd.delayed
  BY QueueFields, Redelayed
<1> HIDE DEF kd
<1>4. queue' = [queue EXCEPT ![e] = kd]
  BY <1>1 DEF kd
<1>5. /\ Len(queue') = Len(queue) /\ DOMAIN queue' = DOMAIN queue
      /\ \A i \in 1..Len(queue) :
            /\ queue'[i].ticket = queue[i].ticket /\ queue'[i].channel = queue[i].channel
            /\ queue'[i].kind = queue[i].kind
            /\ queue'[i].delayed => queue[i].delayed
  BY <1>3, <1>4, Replaced DEF CommandsTyped
<1>6. TicketsDiffer'
  BY <1>2, <1>5 DEF QueueInv, TicketsDiffer
<1>7. BlockKeepsOrder'
  BY <1>2, <1>5 DEF QueueInv, BlockKeepsOrder, Ordered
<1>8. CommandsInOrder'
  BY <1>2, <1>5, QueueFields DEF QueueInv, CommandsInOrder
<1> QED BY <1>6, <1>7, <1>8 DEF QueueInv

LEMMA QueueTakes == ASSUME CommandsTyped, QueueInv, Takes PROVE QueueInv'
<1>1. PICK t \in 1..Len(queue) : /\ Due(t) /\ \A j \in 1..(t - 1) : ~Due(j)
                                 /\ job' = [phase |-> "decide", command |-> queue[t]]
                                 /\ queue' = RemoveAt(queue, t)
  BY DEF Takes
<1>2. UNCHANGED <<blocked, service>>
  BY DEF Takes
<1> DEFINE From(i) == IF i < t THEN i ELSE i + 1
<1>3. /\ queue' \in Seq(Commands) /\ Len(queue') = Len(queue) - 1
      /\ DOMAIN queue' = 1..(Len(queue) - 1)
      /\ \A i \in 1..Len(queue') : /\ queue'[i] = queue[From(i)]
                                   /\ From(i) \in 1..Len(queue) /\ From(i) # t
      /\ \A i, j \in 1..Len(queue') : i < j => From(i) < From(j)
  <2>1. /\ queue' \in Seq(Commands) /\ Len(queue') = Len(queue) - 1
        /\ \A i \in 1..(Len(queue) - 1) :
              queue'[i] = IF i < t THEN queue[i] ELSE queue[i + 1]
    BY <1>1, Removed DEF CommandsTyped
  <2> QED BY <2>1, QueueFields
<1>4. job'.phase = "decide" /\ job'.command = queue[t]
  BY <1>1
<1> HIDE DEF From
<1>5. TicketsDiffer'
  <2>1. \A i, j \in 1..Len(queue') : i # j => From(i) # From(j)
    BY <1>3 DEF From
  <2> QED BY <1>2, <1>3, <1>4, <2>1, QueueFields DEF QueueInv, TicketsDiffer
<1>6. BlockKeepsOrder'
  <2>1. blocked[queue[t].channel] \in {0, queue[t].ticket}
    BY <1>1 DEF Due
  <2>2. \A i, j \in 1..Len(queue') :
            /\ i < j /\ queue'[i].channel = queue'[j].channel /\ Ordered(queue'[j])
            /\ queue'[j].ticket < queue'[i].ticket
            => blocked'[queue'[j].channel] = queue'[j].ticket
    BY <1>2, <1>3 DEF QueueInv, BlockKeepsOrder
  <2>3. \A i \in 1..Len(queue') :
            /\ Ordered(queue'[i]) /\ queue'[i].delayed =>
                   blocked'[queue'[i].channel] = queue'[i].ticket
            /\ Ordered(queue'[i]) => blocked'[queue'[i].channel] <= queue'[i].ticket
    BY <1>2, <1>3 DEF QueueInv, BlockKeepsOrder
  <2> QED BY <1>2, <1>4, <2>1, <2>2, <2>3 DEF BlockKeepsOrder, Ordered
<1>7. ASSUME NEW i \in 1..Len(queue), queue[i].channel = queue[t].channel,
             Ordered(queue[i]), queue[i].ticket < queue[t].ticket
      PROVE  FALSE
  <2> DEFINE c == queue[t].channel
  <2>1. c \in Channels /\ queue[i].ticket \in Nat \ {0} /\ queue[t].ticket \in Nat
    BY QueueFields
  <2>2. blocked[c] \in {0, queue[t].ticket}
    BY <1>1 DEF Due
  <2>3. blocked[c] <= queue[i].ticket
    BY <1>7 DEF QueueInv, BlockKeepsOrder
  <2>4. blocked[c] = 0
    BY <1>7, <2>1, <2>2, <2>3
  <2>5. CASE i > t
    BY <1>7, <2>1, <2>4, <2>5 DEF QueueInv, BlockKeepsOrder
  <2>6. CASE i < t
    <3>1. ~Due(i)
      BY <1>1, <2>6
    <3>2. queue[i].delayed
      BY <1>7, <2>4, <3>1 DEF Due
    <3> QED BY <1>7, <2>1, <2>4, <3>2 DEF QueueInv, BlockKeepsOrder
  <2> QED BY <1>7, <2>1, <2>5, <2>6
<1>8. CommandsInOrder'
  BY <1>3, <1>4, <1>7 DEF CommandsInOrder, Ordered
<1> QED BY <1>5, <1>6, <1>8 DEF QueueInv

LEMMA QueueRequeues == ASSUME CommandsTyped, QueueInv, Requeues PROVE QueueInv'
<1> DEFINE k == job.command
           kd == [k EXCEPT !.delayed = TRUE]
           n == Len(queue)
           c == k.channel
<1>1. PICK blocks \in BOOLEAN : /\ blocks \/ k.kind = "Acknowledge"
                                /\ Requeue(blocks)
  BY DEF Requeues
<1>2. k \in Commands /\ job.phase # "none"
  BY DEF Requeues, CommandsTyped
<1>3. /\ kd.ticket = k.ticket /\ kd.channel = c /\ kd.kind = k.kind /\ kd.delayed
      /\ c \in Channels /\ k.ticket \in Nat \ {0} /\ kd \in Commands
  BY <1>2, Redelayed, CommandFields
<1>4. /\ queue' = Append(queue, kd) /\ job' = NoJob /\ UNCHANGED service
      /\ blocked' = [blocked EXCEPT ![c] =
                         IF blocks THEN k.ticket ELSE IF @ = k.ticket THEN 0 ELSE @]
  BY <1>1 DEF Requeue
<1> HIDE DEF kd
<1>5. /\ Len(queue') = n + 1 /\ DOMAIN queue' = 1..(n + 1) /\ queue'[n + 1] = kd
      /\ \A i \in 1..n : queue'[i] = queue[i]
      /\ n \in Nat
  BY <1>3, <1>4 DEF CommandsTyped
<1>6. \A i \in 1..(n + 1) : i = n + 1 \/ i \in 1..n
  BY <1>5
<1>7. job'.phase = "none"
  BY <1>4 DEF NoJob
<1>8. /\ \A d \in Channels : d # c => blocked'[d] = blocked[d]
      /\ blocked'[c] = IF blocks THEN k.ticket ELSE 0
      /\ \A d \in Channels : blocked[d] \in Nat
  BY <1>2, <1>3, <1>4, QueueFields DEF QueueInv, BlockKeepsOrder, CommandsTyped
<1>9. /\ k.ticket <= service.tickets /\ \A i \in 1..n : queue[i].ticket # k.ticket
      /\ \A i \in 1..n : queue[i].channel = c /\ Ordered(queue[i]) => k.ticket < queue[i].ticket
  BY <1>2, <1>3, QueueFields DEF QueueInv, TicketsDiffer, CommandsInOrder, Ordered
<1> HIDE DEF k, c, n
<1>10. TicketsDiffer'
  BY <1>3, <1>4, <1>5, <1>6, <1>7, <1>8, <1>9, QueueFields DEF QueueInv, TicketsDiffer, n
\* The channel was not held by a queued command.
<1>11. \A i \in 1..n : queue[i].channel = c => blocked[c] # queue[i].ticket
  BY <1>2, <1>3, <1>9, QueueFields DEF QueueInv, BlockKeepsOrder, k, c, n
<1>12. \A i \in 1..n : Ordered(queue[i]) /\ queue[i].delayed => queue[i].channel # c
  BY <1>11 DEF QueueInv, BlockKeepsOrder, n
<1>13. \A i, j \in 1..n : /\ i < j /\ queue[i].channel = queue[j].channel /\ Ordered(queue[j])
                          /\ queue[j].ticket < queue[i].ticket
                          => /\ queue[j].channel # c
                             /\ blocked[queue[j].channel] = queue[j].ticket
  BY <1>11 DEF QueueInv, BlockKeepsOrder, n
<1>14. Ordered(kd) => blocks
  BY <1>1, <1>3 DEF Ordered
<1>15. \A i \in 1..(n + 1) : Ordered(queue'[i]) /\ queue'[i].delayed =>
           blocked'[queue'[i].channel] = queue'[i].ticket
  BY <1>3, <1>5, <1>6, <1>8, <1>12, <1>14, QueueFields DEF QueueInv, BlockKeepsOrder, n
<1>16. \A i \in 1..(n + 1) : Ordered(queue'[i]) =>
           blocked'[queue'[i].channel] <= queue'[i].ticket
  BY <1>3, <1>5, <1>6, <1>8, <1>9, <1>14, QueueFields DEF QueueInv, BlockKeepsOrder, n
<1>17. ASSUME NEW i \in 1..(n + 1), NEW j \in 1..(n + 1), i < j,
              queue'[i].channel = queue'[j].channel, Ordered(queue'[j]),
              queue'[j].ticket < queue'[i].ticket
       PROVE  blocked'[queue'[j].channel] = queue'[j].ticket
  <2>1. i \in 1..n
    BY <1>5, <1>17
  <2>2. CASE j \in 1..n
    <3>1. queue'[i] = queue[i] /\ queue'[j] = queue[j] /\ queue[j].channel \in Channels
      BY <1>5, <2>1, <2>2, QueueFields DEF n
    <3> QED BY <1>8, <1>13, <1>17, <2>1, <2>2, <3>1
  <2>3. CASE j = n + 1
    BY <1>3, <1>5, <1>8, <1>14, <1>17, <2>3
  <2> QED BY <1>6, <2>2, <2>3
<1>18. BlockKeepsOrder'
  BY <1>5, <1>7, <1>15, <1>16, <1>17 DEF BlockKeepsOrder, Ordered
<1>19. CommandsInOrder'
  BY <1>7 DEF CommandsInOrder
<1> QED BY <1>10, <1>18, <1>19 DEF QueueInv

LEMMA QueueFinishes == ASSUME CommandsTyped, QueueInv, Finishes PROVE QueueInv'
<1> DEFINE k == job.command
           c == k.channel
<1>1. /\ job.phase # "none" /\ job'.phase = "none" /\ UNCHANGED <<queue, service>>
      /\ blocked' = [blocked EXCEPT ![c] = IF @ = k.ticket THEN 0 ELSE @]
  BY DEF Finishes, NoJob
<1>2. /\ \A d \in Channels : d # c => blocked'[d] = blocked[d]
      /\ c \in Channels /\ blocked'[c] = 0
  BY <1>1, QueueFields DEF QueueInv, BlockKeepsOrder, CommandsTyped
<1>3. \A i \in 1..Len(queue) : queue[i].channel = c => blocked[c] # queue[i].ticket
  BY <1>1, QueueFields DEF QueueInv, TicketsDiffer, BlockKeepsOrder
<1> HIDE DEF k, c
<1>4. TicketsDiffer'
  BY <1>1, <1>2, QueueFields DEF QueueInv, TicketsDiffer
<1>5. BlockKeepsOrder'
  BY <1>1, <1>2, <1>3, QueueFields DEF QueueInv, BlockKeepsOrder, Ordered
<1>6. CommandsInOrder'
  BY <1>1 DEF CommandsInOrder
<1> QED BY <1>4, <1>5, <1>6 DEF QueueInv

LEMMA QueueStep == ASSUME CommandsTyped, QueueInv, CommandMoves PROVE QueueInv'
<1>1. CASE Stays
  <2>1. /\ UNCHANGED <<queue, blocked>> /\ job'.command = job.command
        /\ job'.phase = "none" <=> job.phase = "none"
        /\ service'.tickets = service.tickets
    BY <1>1 DEF Stays, CommandsTyped
  <2> QED BY <2>1 DEF QueueInv, TicketsDiffer, BlockKeepsOrder, CommandsInOrder, Ordered
<1>2. CASE Dies
  <2>1. /\ Len(queue') = 0 /\ DOMAIN queue' = {} /\ job'.phase = "none"
        /\ \A c \in Channels : blocked'[c] = 0
        /\ service'.tickets = service.tickets
    BY <1>2 DEF Dies, NoJob, CommandsTyped
  <2> QED BY <2>1, QueueFields DEF QueueInv, TicketsDiffer, BlockKeepsOrder, CommandsInOrder
<1> QED BY <1>1, <1>2, QueueAdmits, QueueElapses, QueueTakes, QueueRequeues, QueueFinishes
        DEF CommandMoves

-----------------------------------------------------------------------------
(***************************************************************************)
(* What a command does to the delivery                                     *)
(***************************************************************************)
\* A store call of a command fails: nothing but the fault is recorded.
FaultOnly ==
    /\ UNCHANGED <<outbox, co, w, link, broker, mutation, egress, restarts>>
    /\ faults' \in Nat

\* Every step of the service is a step of the delivery, or leaves it alone.
LEMMA FireStep ==
    ASSUME IType, CommandsTyped, [AlarmNext]_allVars
    PROVE  [Next]_fireVars \/ FaultOnly
<1> USE DEF allVars, alarmVars
<1>1. CASE UNCHANGED fireVars
  BY <1>1
<1>2. CASE processFails
  <2>1. faults' \in Nat
    BY <1>2 DEF processFails, Fault, IType, TypeOK
  <2> QED BY <1>2, <2>1 DEF processFails, Fault, FaultOnly
<1>3. CASE BeginTransition
  <2>1. job.command.channel \in Channels
    BY <1>3, CommandFields DEF BeginTransition, Working, CommandsTyped
  <2>2. beginDomainMutation(job.command.channel)
    BY <1>3 DEF BeginTransition
  <2> QED BY <2>1, <2>2 DEF Next
<1>4. CASE notify
  <2>1. job.command.channel \in Channels
    BY <1>4, CommandFields DEF notify, Working, CommandsTyped
  <2>2. notifyOutboxChanged \/ notifyUnchanged(job.command.channel)
    BY <1>4 DEF notify
  <2> QED BY <2>1, <2>2 DEF Next, Boundary
<1>5. CASE TakeCommand \/ process \/ TransitionRefused \/ FinishCommand \/ closeIngress
           \/ StopAlarms \/ (\E t \in 1..MaxCommands : RetryDelayElapses(t))
  BY <1>1, <1>5 DEF TakeCommand, process, TransitionRefused, FinishCommand, closeIngress,
                    StopAlarms, RetryDelayElapses
<1>6. CASE \E c \in Channels : submitSignal(c) \/ submitAcknowledge(c) \/ submitManualClear(c)
  BY <1>1, <1>6 DEF submitSignal, submitAcknowledge, submitManualClear, enqueue
<1>7. CASE BoundaryDrains \/ BoundaryTimesOut \/ CommitTransition \/ TransitionFails \/ EndBoundary
  BY <1>7 DEF BoundaryDrains, BoundaryTimesOut, CommitTransition, TransitionFails, EndBoundary,
              Next, Boundary
<1>8. CASE DeliveryWorker \/ Network \/ (\E c \in Channels : DeliveryTimer(c))
           \/ (\E p \in Publishers : Publisher(p))
  BY <1>8 DEF DeliveryWorker, Network, DeliveryTimer, Publisher, Next, Process
<1>9. CASE StopDelivery \/ ProcessDies \/ ProcessStarts
  BY <1>9 DEF StopDelivery, ProcessDies, ProcessStarts, Next, Process
<1> QED BY <1>1, <1>2, <1>3, <1>4, <1>5, <1>6, <1>7, <1>8, <1>9 DEF AlarmNext, AlarmWorker

LEMMA FaultKeeps == ASSUME OrderInv, FaultOnly PROVE OrderInv'
<1> USE DEF FaultOnly, outbox, broker, Known, FactsOf, Rev
<1>1. IType'
  <2>1. IType
    BY DEF OrderInv, TurnInv
  <2> QED BY <2>1 DEF IType, TypeOK
<1>2. MutationInv'
  <2>1. Out' = Out
    BY DEF Out
  <2> QED BY <2>1 DEF OrderInv, TurnInv, MutationInv
<1>3. ReadyInv'
  <2>1. AllReady(co)' <=> AllReady(co)
    BY DEF AllReady
  <2>2. \A c \in Channels : PendingLifecycle(c)' = PendingLifecycle(c)
    BY DEF PendingLifecycle
  <2> QED BY <2>1, <2>2 DEF OrderInv, TurnInv, ReadyInv, ReadyIsCurrent
<1>4. EpochInv'
  BY DEF OrderInv, EpochInv
<1>5. RowsInv' /\ AckInv'
  BY DEF OrderInv, RowsInv, AckInv
<1>6. WireInv'
  BY DEF OrderInv, WireInv, InOrder
<1>7. CurrentInv'
  BY DEF OrderInv, CurrentInv
<1>8. IdleIsDelivered'
  BY DEF OrderInv, IdleIsDelivered
<1> QED BY <1>1, <1>2, <1>3, <1>4, <1>5, <1>6, <1>7, <1>8 DEF OrderInv, TurnInv

LEMMA OrderKept ==
    ASSUME OrderInv, CommandsTyped, [AlarmNext]_allVars
    PROVE  OrderInv'
<1>1. IType
  BY DEF OrderInv, TurnInv
<1> QED BY <1>1, FireStep, FaultKeeps, OrderStep

-----------------------------------------------------------------------------
(***************************************************************************)
(* The process goes on, or is stopped, dies or starts                      *)
(***************************************************************************)
Steady(s, t) == t.running = s.running /\ t.stopping = s.stopping

LEMMA SteadyClose ==
    ASSUME NEW s \in Coordinators
    PROVE  /\ Steady(s, failCloseAllReadiness(s))
           /\ Steady(s, invalidateRegularEgress(s))
           /\ \A c \in Channels : Steady(s, CloseChannel(s, c))
<1>1. Steady(s, failCloseAllReadiness(s)) /\ Steady(s, invalidateRegularEgress(s))
  BY UnsentType DEF failCloseAllReadiness, invalidateRegularEgress, Coordinators, Steady
<1>2. ASSUME NEW c \in Channels PROVE Steady(s, CloseChannel(s, c))
  <2> DEFINE shut == [s EXCEPT !.ready[c] = 0]
             t == invalidateRegularEgress(shut)
  <2>1. s.ready \in Revisions
    BY DEF Coordinators
  <2>2. [s.ready EXCEPT ![c] = 0] \in Revisions
    BY <2>1, FireAssumption DEF Revisions
  <2>3. shut \in Coordinators /\ Steady(s, shut)
    BY <2>2 DEF Coordinators, Steady
  <2> HIDE DEF shut
  <2>4. t \in Coordinators /\ Steady(shut, t)
    BY <2>3, Invalidated DEF invalidateRegularEgress, Coordinators, Steady
  <2>5. CloseChannel(s, c) = [t EXCEPT !.changed = TRUE]
    BY DEF CloseChannel, shut
  <2> HIDE DEF t
  <2> QED BY <2>3, <2>4, <2>5 DEF Coordinators, Steady
<1> QED BY <1>1, <1>2

LEMMA SteadyQueue ==
    ASSUME NEW s \in Coordinators, NEW f \in Facts
    PROVE  Steady(s, enqueueTransportFact(s, f))
<1> DEFINE closed == IF f.kind = "Acked" THEN s ELSE failCloseAllReadiness(s)
           lost == [closed EXCEPT !.overflow = TRUE, !.overflowEpoch = f.epoch]
           kept == [closed EXCEPT !.facts = Append(@, f)]
<1>1. closed \in Coordinators /\ Steady(s, closed)
  BY FailClosed, SteadyClose DEF Steady
<1> HIDE DEF closed
<1>2. lost \in Coordinators /\ Steady(closed, lost)
  BY <1>1 DEF Coordinators, Facts, Steady
<1>3. Steady(closed, kept)
  BY <1>1 DEF Coordinators, Steady
<1> HIDE DEF lost, kept
<1>4. Steady(lost, failCloseAllReadiness(lost))
  BY <1>2, SteadyClose
<1>5. enqueueTransportFact(s, f) \in {s, failCloseAllReadiness(lost), kept}
  BY DEF enqueueTransportFact, closed, lost, kept
<1> QED BY <1>1, <1>2, <1>3, <1>4, <1>5 DEF Steady

LEMMA SteadyTransport ==
    ASSUME IType, Transport
    PROVE  Steady(co, co')
<1>1. co \in Coordinators /\ link.epoch \in Nat /\ acks \in Seq(Messages)
  BY DEF IType, TypeOK
<1>2. ASSUME NEW f \in Facts, co' = enqueueTransportFact(co, f) PROVE Steady(co, co')
  BY <1>1, <1>2, SteadyQueue
<1>3. CASE Connected
  <2>1. Fact("Connected", link.epoch + 1, NoMessage) \in Facts
    BY <1>1, FactType
  <2> QED BY <1>2, <1>3, <2>1 DEF Connected
<1>4. CASE SubscriptionsReady
  <2>1. Fact("Ready", link.epoch, NoMessage) \in Facts
    BY <1>1, FactType
  <2> QED BY <1>2, <1>4, <2>1 DEF SubscriptionsReady
<1>5. CASE Disconnected
  <2>1. Fact("Down", link.epoch, NoMessage) \in Facts
    BY <1>1, FactType
  <2> QED BY <1>2, <1>5, <2>1 DEF Disconnected
<1>6. CASE PublishAcknowledged
  <2>1. Head(acks) \in Messages
    BY <1>1, <1>6 DEF PublishAcknowledged
  <2>2. Fact("Acked", link.epoch, Head(acks)) \in Facts
    BY <1>1, <2>1, FactType
  <2> QED BY <1>2, <1>6, <2>2 DEF PublishAcknowledged
<1> QED BY <1>3, <1>4, <1>5, <1>6 DEF Transport

LEMMA SteadyTurn ==
    ASSUME IType, Turn \/ \E c \in Channels : RetryElapses(c)
    PROVE  Steady(co, co') /\ UNCHANGED mutation
<1>0. co \in Coordinators /\ w \in WorkerStates
  BY DEF IType, TypeOK
<1>m. UNCHANGED mutation
  BY DEF Turn, TakeFacts, processFact, HandleOverflow, FactsDone, expirePubAckDeadline,
         ObserveGeneration, ListRetained, recomputeReadiness, beginLifecycleRelease,
         endLifecycleRelease, ReadPending, updateIdleState, recoverActorFailure,
         RetryElapses, PublishRetained, PublishLifecycle
<1> SUFFICES Steady(co, co')
  BY <1>m
<1>1. CASE co' \in {co, failCloseAllReadiness(co)}
  BY <1>0, <1>1, SteadyClose DEF Steady
<1>2. CASE processFact \/ HandleOverflow \/ expirePubAckDeadline
  BY <1>1, <1>2 DEF processFact, FactConnected, FactReady, FactDown, FactIgnored, FactAcked,
                    HandleOverflow, expirePubAckDeadline, disconnectEpoch
<1>3. CASE TakeFacts \/ ObserveGeneration \/ beginLifecycleRelease \/ endLifecycleRelease
           \/ updateIdleState
  BY <1>0, <1>3 DEF TakeFacts, ObserveGeneration, beginLifecycleRelease, endLifecycleRelease,
                    updateIdleState, Coordinators, Steady
<1>4. CASE recomputeReadiness
  <2> DEFINE ready == [c \in Channels |-> IF ReadyNow(c) THEN w.listed[c] ELSE 0]
             epoch == IF \A c \in Channels : ReadyNow(c) THEN w.epoch ELSE 0
  <2>1. co' = [co EXCEPT !.ready = ready, !.egressEpoch = epoch]
    BY <1>4 DEF recomputeReadiness
  <2> HIDE DEF ready, epoch
  <2> QED BY <1>0, <2>1 DEF Coordinators, Steady
<1>5. CASE recoverActorFailure
  <2> DEFINE s == [co EXCEPT !.releasing = FALSE, !.fresh = @ \ {Worker}]
  <2>1. s \in Coordinators /\ Steady(co, s) /\ co' = failCloseAllReadiness(s)
    BY <1>0, <1>5 DEF Coordinators, recoverActorFailure, Steady
  <2> HIDE DEF s
  <2> QED BY <2>1, SteadyClose DEF Steady
<1>6. CASE FactsDone \/ ListRetained \/ ReadPending
           \/ (\E c \in Channels : RetryElapses(c) \/ PublishRetained(c) \/ PublishLifecycle(c))
  BY <1>1, <1>6 DEF FactsDone, ListRetained, ReadPending, RetryElapses, PublishRetained,
                    PublishLifecycle, outbox
<1> QED BY <1>2, <1>3, <1>4, <1>5, <1>6 DEF Turn

\* Delivery, network and publishers leave the mutation alone, and the
\* coordinator too unless its worker ends.
LEMMA DeliveryKeeps ==
    ASSUME IType,
           \/ DeliveryWorker \/ Network \/ (\E c \in Channels : DeliveryTimer(c))
           \/ (\E p \in Publishers : Publisher(p))
    PROVE  /\ UNCHANGED mutation
           /\ Steady(co, co') \/ WorkerStops
<1>0. co \in Coordinators
  BY DEF IType, TypeOK
<1>1. CASE DeliveryWorker \/ \E c \in Channels : DeliveryTimer(c)
  BY <1>1, SteadyTurn DEF DeliveryWorker, DeliveryTimer, WorkerStops
<1>2. CASE Network
  <2>1. UNCHANGED mutation
    BY <1>2 DEF Network, Transport, Connected, SubscriptionsReady, Disconnected,
                PublishAcknowledged, BrokerReceives
  <2> QED BY <1>2, <2>1, SteadyTransport DEF Network, BrokerReceives, Steady
<1>3. CASE \E p \in Publishers : Publisher(p)
  BY <1>0, <1>3 DEF Publisher, beginRegularEgress, RegularPublish, CheckGrant, PublishRegular,
                    completeRegularEgress, Coordinators, Steady
<1> QED BY <1>1, <1>2, <1>3

\* The commands' part in a mutation closes readiness and nothing else.
LEMMA BoundaryKeeps ==
    ASSUME IType,
           \/ \E c \in Channels : beginDomainMutation(c) \/ notifyUnchanged(c)
           \/ MutationDrained \/ MutationTimesOut \/ CommitRevision \/ MutationFails
           \/ completeDomainMutation \/ notifyOutboxChanged
    PROVE  Steady(co, co')
<1>0. co \in Coordinators
  BY DEF IType, TypeOK
<1>1. ASSUME NEW c \in Channels, beginDomainMutation(c) PROVE Steady(co, co')
  <2> DEFINE s == [co EXCEPT !.open = @ \cup {c}]
  <2>1. s \in Coordinators /\ Steady(co, s) /\ co' = CloseChannel(s, c)
    BY <1>0, <1>1 DEF Coordinators, beginDomainMutation, Steady
  <2> HIDE DEF s
  <2> QED BY <2>1, SteadyClose DEF Steady
<1>2. CASE MutationTimesOut \/ completeDomainMutation
  <2> DEFINE s == [co EXCEPT !.open = @ \ {mutation.channel}]
             t == invalidateRegularEgress(s)
  <2>1. s \in Coordinators /\ Steady(co, s)
    BY <1>0 DEF Coordinators, Steady
  <2>2. co' = [t EXCEPT !.changed = TRUE]
    BY <1>2 DEF MutationTimesOut, completeDomainMutation, LeaveBoundary
  <2> HIDE DEF s
  <2>3. t \in Coordinators /\ Steady(s, t)
    BY <2>1, Invalidated, SteadyClose
  <2> HIDE DEF t
  <2> QED BY <2>1, <2>2, <2>3 DEF Coordinators, Steady
<1>3. CASE notifyOutboxChanged \/ \E c \in Channels : notifyUnchanged(c)
  <2>1. PICK c \in Channels : co' = CloseChannel(co, c)
    BY <1>3 DEF notifyOutboxChanged, notifyUnchanged, Mutating, IType
  <2> QED BY <1>0, <2>1, SteadyClose
<1>4. CASE MutationDrained \/ CommitRevision \/ MutationFails
  BY <1>4 DEF MutationDrained, CommitRevision, MutationFails, Steady
<1> QED BY <1>1, <1>2, <1>3, <1>4

-----------------------------------------------------------------------------
(***************************************************************************)
(* Who owns the mutation, and what a stopped service leaves                *)
(***************************************************************************)
Mutations == {"waiting", "open", "committed", "failed"}

\* A step of the command in process.
LEMMA OwnerWorks ==
    ASSUME IType, CommandsTyped, JobOwnsMutation, StoppedIsDone,
           AlarmWorker \/ \E t \in 1..MaxCommands : RetryDelayElapses(t)
    PROVE  JobOwnsMutation' /\ StoppedIsDone'
<1>0. /\ mutation \in [phase : Mutations \cup {"none", "notify"}, channel : Channels \cup {"none"}]
      /\ job \in [phase : JobPhases, command : Jobs]
      /\ NoJob.phase = "none" /\ NoMutation.phase = "none"
  BY DEF IType, TypeOK, Mutations, CommandsTyped, NoJob, NoMutation
<1> DEFINE k == job.command
<1>c. job.phase # "none" => k.channel \in Channels
  BY CommandFields DEF CommandsTyped
<1>q. ASSUME NEW b \in BOOLEAN, Requeue(b) PROVE job'.phase = "none" /\ UNCHANGED service
  BY <1>0, <1>q DEF Requeue
<1>s. ASSUME job.phase # "none" \/ queue # <<>>, Steady(co, co'), service'.mode = service.mode
      PROVE  StoppedIsDone'
  BY <1>s DEF StoppedIsDone, Steady
<1>1. CASE \E t \in 1..MaxCommands : RetryDelayElapses(t)
  <2>1. queue # <<>> /\ UNCHANGED <<co, job, mutation, service>>
    BY <1>1, QueueFields DEF RetryDelayElapses, fireVars
  <2> QED BY <1>s, <2>1 DEF Steady, JobOwnsMutation
<1>2. CASE TakeCommand
  <2>1. /\ queue # <<>> /\ job.phase = "none" /\ job'.phase = "decide"
        /\ UNCHANGED <<co, mutation, service>>
    BY <1>2, QueueFields DEF TakeCommand, Working, fireVars
  <2> QED BY <1>s, <2>1 DEF Steady, JobOwnsMutation
<1>3. CASE process \/ processFails
  <2>1. job.phase = "decide" /\ UNCHANGED <<co, mutation, service>>
    BY <1>3, <1>q DEF process, processFails, Working, fireVars
  <2>2. job'.phase \in {"none", "begin", "notify", "finish"}
    BY <1>0, <1>3, <1>q DEF process, processFails
  <2> QED BY <1>s, <2>1, <2>2 DEF Steady, JobOwnsMutation
<1>4. CASE BeginTransition
  <2>1. /\ job.phase = "begin" /\ job' = [job EXCEPT !.phase = "boundary"]
        /\ mutation' = [phase |-> "waiting", channel |-> k.channel]
        /\ beginDomainMutation(k.channel) /\ UNCHANGED service
    BY <1>4 DEF BeginTransition, Working, beginDomainMutation
  <2>2. Steady(co, co')
    BY <1>c, <2>1, BoundaryKeeps
  <2>3. job'.phase = "boundary" /\ job'.command = k
    BY <1>0, <2>1
  <2> QED BY <1>s, <2>1, <2>2, <2>3 DEF JobOwnsMutation
<1>5. CASE TransitionRefused \/ FinishCommand
  <2>1. /\ job.phase \in {"begin", "finish"} /\ job'.phase = "none"
        /\ UNCHANGED <<co, mutation, service>>
    BY <1>0, <1>5, <1>q DEF TransitionRefused, FinishCommand, Working, fireVars
  <2> QED BY <1>s, <2>1 DEF Steady, JobOwnsMutation
<1>6. CASE BoundaryDrains \/ CommitTransition \/ TransitionFails
  <2>1. /\ mutation.phase \in {"waiting", "open"} /\ Steady(co, co')
        /\ UNCHANGED <<job, service>>
        /\ \E p \in Mutations : mutation' = [mutation EXCEPT !.phase = p]
    BY <1>6, BoundaryKeeps DEF BoundaryDrains, CommitTransition, TransitionFails, alarmVars,
          commands, MutationDrained, CommitRevision, MutationFails, Mutating, Mutations
  <2>2. job.phase = "boundary"
    BY <2>1 DEF JobOwnsMutation
  <2>3. mutation'.phase \in Mutations /\ mutation'.channel = mutation.channel
    BY <1>0, <2>1
  <2> QED BY <1>s, <2>1, <2>2, <2>3 DEF JobOwnsMutation, Mutations
<1>7. CASE BoundaryTimesOut
  <2>1. /\ mutation.phase = "waiting" /\ Steady(co, co') /\ UNCHANGED service
        /\ job'.phase = "none" /\ mutation'.phase = "none"
    BY <1>0, <1>7, <1>q, BoundaryKeeps DEF BoundaryTimesOut, MutationTimesOut, Mutating
  <2>2. job.phase = "boundary"
    BY <2>1 DEF JobOwnsMutation
  <2> QED BY <1>s, <2>1, <2>2 DEF JobOwnsMutation
<1>8. CASE EndBoundary
  <2>1. mutation.phase \in {"committed", "failed"} /\ Steady(co, co') /\ UNCHANGED service
    BY <1>8, <1>q, BoundaryKeeps DEF EndBoundary, completeDomainMutation
  <2>2. job.phase = "boundary"
    BY <2>1 DEF JobOwnsMutation
  <2>3. \/ job'.phase = "none" /\ mutation'.phase = "none"
        \/ job'.phase = "notify" /\ mutation'.phase = "notify"
    BY <1>0, <1>8, <1>q, <2>1 DEF EndBoundary, completeDomainMutation, Mutating
  <2> QED BY <1>s, <2>1, <2>2, <2>3 DEF JobOwnsMutation
<1>9. CASE notify
  <2>1. /\ job.phase = "notify" /\ job' = [job EXCEPT !.phase = "finish"]
        /\ notifyOutboxChanged \/ notifyUnchanged(k.channel)
        /\ UNCHANGED service
    BY <1>9 DEF notify, Working
  <2>2. mutation'.phase = "none" /\ Steady(co, co')
    BY <1>0, <1>c, <2>1, BoundaryKeeps DEF notifyOutboxChanged, notifyUnchanged, Mutating
  <2>3. job'.phase = "finish"
    BY <1>0, <2>1
  <2> QED BY <1>s, <2>1, <2>2, <2>3 DEF JobOwnsMutation
<1> QED BY <1>1, <1>2, <1>3, <1>4, <1>5, <1>6, <1>7, <1>8, <1>9 DEF AlarmWorker

LEMMA OwnerStep ==
    ASSUME IType, CommandsTyped, JobOwnsMutation, StoppedIsDone, [AlarmNext]_allVars
    PROVE  JobOwnsMutation' /\ StoppedIsDone'
<1> USE DEF allVars, alarmVars, commands, fireVars
<1>0. NoJob.phase = "none" /\ NoMutation.phase = "none" /\ co \in Coordinators
  BY DEF NoJob, NoMutation, IType, TypeOK
<1>1. CASE UNCHANGED allVars
  BY <1>1 DEF JobOwnsMutation, StoppedIsDone
<1>2. CASE \E c \in Channels : submitSignal(c) \/ submitAcknowledge(c) \/ submitManualClear(c)
  <2>1. PICK kk : enqueue(kk)
    BY <1>2 DEF submitSignal, submitAcknowledge, submitManualClear
  <2>2. /\ co.running /\ service.mode = "accepting" /\ UNCHANGED <<co, job, mutation>>
        /\ service'.mode = service.mode
    BY <2>1 DEF enqueue, CommandsTyped
  <2> QED BY <2>2 DEF JobOwnsMutation, StoppedIsDone
<1>3. CASE \/ DeliveryWorker \/ Network \/ (\E c \in Channels : DeliveryTimer(c))
           \/ (\E p \in Publishers : Publisher(p))
  <2>1. UNCHANGED <<queue, job, service, mutation>>
    BY <1>3, DeliveryKeeps DEF DeliveryWorker, Network, DeliveryTimer, Publisher
  <2>2. CASE Steady(co, co')
    BY <2>1, <2>2 DEF Steady, JobOwnsMutation, StoppedIsDone
  <2>3. CASE WorkerStops
    <3>1. co.stopping /\ co'.stopping
      BY <1>0, <2>3 DEF WorkerStops, Coordinators
    <3> QED BY <2>1, <3>1 DEF JobOwnsMutation, StoppedIsDone
  <2> QED BY <1>3, <2>2, <2>3, DeliveryKeeps
<1>4. CASE closeIngress \/ StopAlarms
  <2>1. /\ UNCHANGED <<co, job, queue, mutation>> /\ service.mode # "stopped"
        /\ service'.mode = "stopped" => queue = <<>> /\ job = NoJob
        /\ co.running
    BY <1>4 DEF closeIngress, StopAlarms, CommandsTyped
  <2> QED BY <1>0, <2>1 DEF JobOwnsMutation, StoppedIsDone
<1>5. CASE StopDelivery
  <2>1. service.mode = "stopped" /\ UNCHANGED <<job, queue, service, mutation>>
    BY <1>5 DEF StopDelivery, stop
  <2> QED BY <2>1 DEF JobOwnsMutation, StoppedIsDone
<1>6. CASE ProcessDies
  <2>1. /\ queue' = <<>> /\ job'.phase = "none" /\ mutation'.phase = "none"
        /\ ~co'.stopping
    BY <1>0, <1>6 DEF ProcessDies, Crash, NewCoordinator
  <2> QED BY <2>1 DEF JobOwnsMutation, StoppedIsDone
<1>7. CASE ProcessStarts
  <2>1. /\ job.phase = "none" /\ UNCHANGED <<job, queue>> /\ mutation'.phase = "none"
        /\ co'.running /\ ~co'.stopping
        /\ service'.mode = "accepting"
    BY <1>0, <1>7 DEF ProcessStarts, start, NewCoordinator, StoppedIsDone, CommandsTyped
  <2> QED BY <2>1 DEF JobOwnsMutation, StoppedIsDone
<1> QED BY <1>1, <1>2, <1>3, <1>4, <1>5, <1>6, <1>7, OwnerWorks DEF AlarmNext

-----------------------------------------------------------------------------
(***************************************************************************)
(* The alarm rows                                                          *)
(***************************************************************************)
\* A signal that moves only the cursor.
Learns ==
    LET k == job.command
    IN  /\ job.phase = "decide" /\ k.kind = "Signal"
        /\ SignalVerdict(k.channel, k.signal) = "CursorOnly"
        /\ cursor' = [cursor EXCEPT ![k.channel] = FireCursor(k.channel, k.signal)]
        /\ detected' = [detected EXCEPT ![k.channel] = k.signal.detected]
        /\ UNCHANGED alarm

LEMMA AlarmRowsStep ==
    ASSUME IType, CommandsTyped, [AlarmNext]_allVars
    PROVE  UNCHANGED rows \/ (Learns /\ process) \/ CommitTransition
<1> USE DEF allVars, alarmVars, rows
<1>1. CASE process
  <2>1. job.phase = "decide" /\ job.command \in Commands
    BY <1>1 DEF process, Working, CommandsTyped
  <2>2. CASE Verdict(job.command) = "CursorOnly"
    <3>1. job.command.kind = "Signal"
      BY <2>2 DEF Verdict, AckVerdict, ClearVerdict, Transition
    <3> QED BY <1>1, <2>1, <2>2, <3>1 DEF process, Learns, Verdict
  <2>3. CASE Verdict(job.command) # "CursorOnly"
    BY <1>1, <2>3 DEF process
  <2> QED BY <2>2, <2>3
<1>2. CASE ~process /\ AlarmWorker
  BY <1>2 DEF AlarmWorker, TakeCommand, processFails, BeginTransition, TransitionRefused,
              BoundaryDrains, BoundaryTimesOut, TransitionFails, EndBoundary, notify,
              FinishCommand
<1>3. CASE ~AlarmWorker
  BY <1>3 DEF AlarmNext, submitSignal, submitAcknowledge, submitManualClear, enqueue,
              RetryDelayElapses, DeliveryWorker, Network, DeliveryTimer, Publisher,
              closeIngress, StopAlarms, StopDelivery, ProcessDies, ProcessStarts
<1> QED BY <1>1, <1>2, <1>3 DEF AlarmWorker

\* A command on its way to a commit was decided by process, and stays.
Committing(j) == j.phase \in {"begin", "boundary"}

LEMMA CommittingStep ==
    ASSUME IType, CommandsTyped, JobOwnsMutation, [AlarmNext]_allVars, Committing(job')
    PROVE  /\ job'.command = job.command
           /\ \/ Committing(job)
              \/ process /\ job.phase = "decide" /\ Verdict(job.command) = "Transition"
<1> USE DEF allVars, alarmVars, commands, Committing
<1>0. job \in [phase : JobPhases, command : Jobs] /\ NoJob.phase = "none"
  BY DEF CommandsTyped, NoJob
<1>1. CASE UNCHANGED job
  BY <1>1
<1>q. ASSUME NEW b, Requeue(b) PROVE FALSE
  BY <1>0, <1>q DEF Requeue
<1>2. CASE process
  <2>1. /\ job.phase = "decide" /\ Verdict(job.command) # "Wait"
        /\ job' = [job EXCEPT !.phase =
                      IF Verdict(job.command) = "Transition" THEN "begin"
                      ELSE IF Verdict(job.command) \in {"Idempotent", "CursorOnly"}
                           THEN "notify" ELSE "finish"]
    BY <1>2, <1>q DEF process, Working
  <2> DEFINE v == Verdict(job.command)
             p == IF v = "Transition" THEN "begin"
                  ELSE IF v \in {"Idempotent", "CursorOnly"} THEN "notify" ELSE "finish"
  <2>2. job' = [job EXCEPT !.phase = p]
    BY <2>1
  <2>3. p = "begin" => v = "Transition"
    OBVIOUS
  <2> HIDE DEF p, v
  <2>4. job'.phase = p /\ job'.command = job.command
    BY <1>0, <2>2
  <2>5. p # "boundary"
    BY DEF p
  <2> QED BY <1>2, <2>1, <2>3, <2>4, <2>5 DEF v
<1>3. CASE BeginTransition
  <2>1. job.phase = "begin" /\ job' = [job EXCEPT !.phase = "boundary"]
    BY <1>3 DEF BeginTransition, Working
  <2> QED BY <1>0, <2>1
<1>4. CASE TakeCommand \/ processFails \/ TransitionRefused \/ BoundaryTimesOut \/ EndBoundary
           \/ notify \/ FinishCommand
  <2>1. CASE processFails \/ TransitionRefused \/ BoundaryTimesOut
    BY <1>q, <2>1 DEF processFails, TransitionRefused, BoundaryTimesOut
  <2>2. CASE EndBoundary \/ notify
    <3>1. job' \in {[job EXCEPT !.phase = "notify"], [job EXCEPT !.phase = "finish"]}
      BY <1>q, <2>2 DEF EndBoundary, notify
    <3> QED BY <1>0, <3>1
  <2>3. CASE TakeCommand
    <3>1. job'.phase = "decide"
      BY <2>3 DEF TakeCommand
    <3> QED BY <3>1
  <2>4. CASE FinishCommand
    BY <1>0, <2>4 DEF FinishCommand
  <2> QED BY <1>4, <2>1, <2>2, <2>3, <2>4
<1>5. CASE BoundaryDrains \/ CommitTransition \/ TransitionFails
  BY <1>1, <1>5 DEF BoundaryDrains, CommitTransition, TransitionFails
<1>6. CASE ~AlarmWorker
  <2>1. UNCHANGED job \/ job' = NoJob
    BY <1>6 DEF AlarmNext, submitSignal, submitAcknowledge, submitManualClear, enqueue,
                RetryDelayElapses, DeliveryWorker, Network, DeliveryTimer, Publisher,
                closeIngress, StopAlarms, StopDelivery, ProcessDies, ProcessStarts
  <2> QED BY <1>0, <1>1, <2>1
<1> QED BY <1>2, <1>3, <1>4, <1>5, <1>6 DEF AlarmWorker

\* An acknowledgement on its way to a commit has an active alarm.
AckOfActive == Committing(job) /\ job.command.kind = "Acknowledge" => Active(job.command.channel)

AlarmInv == AlarmsTyped /\ AlarmFollowsSensor /\ AckOfActive

LEMMA AlarmStep ==
    ASSUME IType, IType', CommandsTyped, JobOwnsMutation, AlarmInv, [AlarmNext]_allVars
    PROVE  AlarmInv'
<1> USE DEF AlarmInv, Rev
<1>r. /\ \A c \in Channels : Rev(c) \in 1..MaxRevision /\ Rev(c)' \in 1..MaxRevision
      /\ ~CommitRevision => \A c \in Channels : Rev(c)' = Rev(c)
  <2>1. ~CommitRevision /\ FaultOnly => \A c \in Channels : Rev(c)' = Rev(c)
    BY DEF FaultOnly, outbox
  <2>2. \A c \in Channels : Rev(c) \in 1..MaxRevision /\ Rev(c)' \in 1..MaxRevision
    BY DEF IType, TypeOK
  <2> QED BY <2>1, <2>2, FireStep, RevisionsKept
<1>c. ASSUME CommitRevision
      PROVE  \A c \in Channels : Rev(c)' = IF c = mutation.channel THEN Rev(c) + 1 ELSE Rev(c)
  BY <1>c, CommitEffect
<1>m. \A c \in Channels : Rev(c) <= Rev(c)'
  BY <1>r, <1>c
<1> DEFINE k == job.command
<1>1. CASE UNCHANGED rows
  <2>1. AlarmsTyped' /\ AlarmFollowsSensor'
    BY <1>1, <1>r, <1>m DEF rows, AlarmsTyped, AlarmFollowsSensor, Active
  <2>2. \A c \in Channels : Active(c)' = Active(c)
    BY <1>1 DEF rows, Active
  <2>3. AckOfActive'
    <3> SUFFICES ASSUME Committing(job'), job'.command.kind = "Acknowledge"
                 PROVE  Active(job.command.channel)'
      BY DEF AckOfActive, Committing
    <3>1. job'.command = k /\ k.channel \in Channels
      BY CommittingStep, CommandFields DEF CommandsTyped, Committing
    <3>2. Active(k.channel)
      BY <3>1, CommittingStep DEF AckOfActive, Verdict, AckVerdict
    <3> QED BY <1>1, <3>1, <3>2 DEF rows, Active
  <2> QED BY <2>1, <2>3
<1>2. CASE Learns /\ process
  <2>1. /\ k \in Commands /\ k.kind = "Signal" /\ k.channel \in Channels
    BY <1>2, CommandFields DEF Learns, CommandsTyped
  <2>2. k.signal.detected = Active(k.channel)
    BY <1>2 DEF Learns, SignalVerdict, Transition
  <2>3. Active(k.channel) \in BOOLEAN /\ \A c \in Channels : Active(c)' = Active(c)
    BY <1>2 DEF Learns, Active
  <2>4. detected' \in [Channels -> BOOLEAN] /\ AlarmFollowsSensor'
    BY <1>2, <2>1, <2>2, <2>3 DEF Learns, AlarmsTyped, AlarmFollowsSensor
  <2>5. /\ cursor' = [c \in Channels |-> cursor'[c]]
        /\ \A c \in Channels : cursor'[c].mode \in Modes
    <3> DEFINE fc == FireCursor(k.channel, k.signal)
    <3>1. fc.mode \in Modes
      BY DEF FireCursor, Modes
    <3>2. cursor' = [cursor EXCEPT ![k.channel] = fc]
      BY <1>2 DEF Learns
    <3> HIDE DEF fc
    <3> QED BY <2>1, <3>1, <3>2 DEF AlarmsTyped
  <2>6. AlarmsTyped'
    BY <1>2, <1>r, <1>m, <2>3, <2>4, <2>5 DEF Learns, AlarmsTyped
  <2>7. AckOfActive'
    BY <2>1, CommittingStep, <1>2 DEF Learns, AckOfActive, Committing, Verdict
  <2> QED BY <2>4, <2>6, <2>7
<1>3. CASE CommitTransition
  <2> DEFINE c == k.channel
             a == AlarmAfter(k)
  <2>1. /\ job.phase = "boundary" /\ CommitRevision /\ UNCHANGED job
        /\ alarm' = [alarm EXCEPT ![c] = a] /\ FollowSignal(k)
        /\ k \in Commands /\ c \in Channels /\ mutation.channel = c
    BY <1>3, CommandFields DEF CommitTransition, Working, CommandsTyped, JobOwnsMutation, commands
  <2>2. alarm[c] \in [life : Lives, id : 0..MaxRevision] /\ alarm[c].id <= Rev(c)
    BY <2>1 DEF AlarmsTyped
  <2>3. /\ k.signal.detected \in BOOLEAN
        /\ k.kind # "Signal" => ~k.signal.detected
    <3>1. Plain(k)
      BY DEF CommandsTyped
    <3>2. k.signal \in Signals \cup {NoSignal}
      BY <2>1 DEF Commands
    <3>3. k.signal \in Signals => k.signal.detected \in BOOLEAN
      BY AlarmAssumption
    <3>4. NoSignal.detected = FALSE
      BY DEF NoSignal
    <3> QED BY <3>1, <3>2, <3>3, <3>4 DEF Plain
  <2>4. Rev(c)' = Rev(c) + 1
    BY <1>c, <2>1
  <2>5. /\ a \in [life : Lives, id : 0..MaxRevision]
        /\ (a.id # 0) = (a.life \in {"OPEN", "ACKNOWLEDGED"})
        /\ a.id <= Rev(c)'
        /\ k.kind # "Acknowledge" =>
               (a.life \in {"OPEN", "ACKNOWLEDGED"} <=> k.signal.detected)
    <3>1. CASE k.kind = "Acknowledge"
      <4>1. alarm[c].id # 0
        BY <2>1, <3>1 DEF AckOfActive, Committing, AlarmsTyped
      <4>2. a = [alarm[c] EXCEPT !.life = "ACKNOWLEDGED"]
        BY <3>1 DEF AlarmAfter
      <4> HIDE DEF a
      <4>3. a.id = alarm[c].id /\ a.life = "ACKNOWLEDGED"
            /\ a \in [life : Lives, id : 0..MaxRevision]
        BY <2>2, <4>2 DEF Lives
      <4> QED BY <1>r, <2>1, <2>2, <2>4, <3>1, <4>1, <4>3
    <3>2. CASE k.kind # "Acknowledge" /\ k.signal.detected
      <4>1. a = [life |-> "OPEN", id |-> Rev(c) + 1]
        BY <3>2 DEF AlarmAfter
      <4>2. Rev(c) + 1 \in 1..MaxRevision /\ Rev(c) + 1 # 0
        BY <1>r, <2>1, <2>4
      <4>3. a.life = "OPEN" /\ a.id = Rev(c) + 1 /\ k.signal.detected = TRUE
        BY <2>3, <3>2, <4>1
      <4>4. a \in [life : Lives, id : 0..MaxRevision]
        BY <4>1, <4>2, FireAssumption DEF Lives
      <4> HIDE DEF a
      <4> QED BY <2>4, <3>2, <4>2, <4>3, <4>4
    <3>3. CASE k.kind # "Acknowledge" /\ ~k.signal.detected
      <4>1. a = [life |-> "RESOLVED", id |-> 0]
        BY <3>3 DEF AlarmAfter
      <4> QED BY <1>r, <2>1, <2>3, <3>3, <4>1, FireAssumption DEF Lives
    <3> QED BY <2>3, <3>1, <3>2, <3>3
  <2> HIDE DEF a
  <2>6. alarm' \in [Channels -> [life : Lives, id : 0..MaxRevision]]
        /\ \A d \in Channels : alarm'[d] = IF d = c THEN a ELSE alarm[d]
    BY <2>1, <2>5 DEF AlarmsTyped
  <2>7. ASSUME NEW d \in Channels
        PROVE  (alarm'[d].id # 0) = Active(d)' /\ alarm'[d].id <= Rev(d)'
    <3>1. CASE d = c
      BY <2>1, <2>5, <2>6, <3>1 DEF Active
    <3>2. CASE d # c
      <4>1. alarm'[d] = alarm[d]
        BY <2>6, <3>2
      <4>2. (alarm'[d].id # 0) = Active(d)'
        BY <4>1 DEF AlarmsTyped, Active
      <4>3. alarm[d].id <= Rev(d) /\ Rev(d) <= Rev(d)' /\ alarm[d].id \in Int
        BY <1>m, FireAssumption DEF AlarmsTyped
      <4> QED BY <1>r, <4>1, <4>2, <4>3
    <3> QED BY <3>1, <3>2
  <2>8. /\ cursor' = [d \in Channels |-> cursor'[d]]
        /\ \A d \in Channels : cursor'[d].mode \in Modes
        /\ detected' \in [Channels -> BOOLEAN]
        /\ \A d \in Channels : detected'[d] = IF d = c /\ k.kind = "Signal"
                                              THEN k.signal.detected ELSE detected[d]
    <3> DEFINE fc == FireCursor(c, k.signal)
    <3>1. fc.mode \in Modes
      BY DEF FireCursor, Modes
    <3>2. \/ cursor' = [cursor EXCEPT ![c] = fc]
          \/ UNCHANGED cursor
      BY <2>1 DEF FollowSignal
    <3> HIDE DEF fc
    <3>3. /\ cursor' = [d \in Channels |-> cursor'[d]]
          /\ \A d \in Channels : cursor'[d].mode \in Modes
      BY <2>1, <3>1, <3>2 DEF AlarmsTyped
    <3> QED BY <2>1, <2>3, <3>3 DEF FollowSignal, AlarmsTyped
  <2>9. AlarmsTyped'
    BY <2>6, <2>7, <2>8 DEF AlarmsTyped
  <2>10. AlarmFollowsSensor'
    <3> SUFFICES ASSUME NEW d \in Channels, Active(d)' PROVE detected'[d]
      BY DEF AlarmFollowsSensor
    <3>1. CASE d # c
      BY <2>6, <2>8, <3>1 DEF AlarmFollowsSensor, Active
    <3>2. CASE d = c /\ k.kind = "Acknowledge"
      BY <2>1, <2>8, <3>2 DEF AckOfActive, Committing, AlarmFollowsSensor
    <3>3. CASE d = c /\ k.kind # "Acknowledge"
      <4>1. k.signal.detected
        BY <2>1, <2>5, <2>6, <3>3 DEF Active
      <4> QED BY <2>1, <2>3, <2>8, <3>3, <4>1
    <3> QED BY <3>1, <3>2, <3>3
  <2>11. AckOfActive'
    BY <2>1, <2>5, <2>6 DEF AckOfActive, Committing, Active, AlarmAfter, a
  <2> QED BY <2>9, <2>10, <2>11
<1> QED BY <1>1, <1>2, <1>3, AlarmRowsStep

-----------------------------------------------------------------------------
(***************************************************************************)
(* What the broker has shown                                               *)
(***************************************************************************)
ShownBounds(c) ==
    /\ held[c] <= shown[c] /\ shown[c] <= Rev(c)
    /\ w.synced[c] <= shown[c] /\ co.ready[c] <= shown[c]

\* Whatever the worker or readiness claims was shown, over every connection;
\* an acknowledgement is decided while the row is the one shown, and no other
\* revision is committed before its own.
ShownInv ==
    /\ shown \in Revisions
    /\ \A c \in Channels : ShownBounds(c)
    /\ \A i \in 1..Len(acks) :
           acks[i].kind = "retained" => acks[i].rev <= shown[acks[i].channel]
    /\ \A f \in Known : f.kind = "Acked" /\ f.message.kind = "retained" =>
           f.message.rev <= shown[f.message.channel]

AckIsShown ==
    /\ Committing(job) /\ job.command.kind = "Acknowledge"
    /\ mutation.phase \notin {"committed", "failed"}
    => shown[job.command.channel] = Rev(job.command.channel)

LEMMA ShownMoves ==
    ASSUME IType, IType', ShownInv, [AlarmNext]_allVars
    PROVE  /\ shown' \in Revisions
           /\ \A c \in Channels : shown[c] <= shown'[c] /\ held'[c] <= shown'[c]
           /\ \A c \in Channels : shown'[c] \in {shown[c], held'[c]}
<1> USE DEF allVars, alarmVars
<1>0. /\ shown \in [Channels -> 0..MaxRevision]
      /\ \A c \in Channels : /\ held[c] \in 0..MaxRevision /\ held'[c] \in 0..MaxRevision
                             /\ held[c] <= shown[c] /\ shown[c] \in 0..MaxRevision
  BY DEF IType, TypeOK, Revisions, ShownInv, ShownBounds
<1>1. CASE Network
  <2>1. shown' = [c \in Channels |-> IF held'[c] > shown[c] THEN held'[c] ELSE shown[c]]
    BY <1>1 DEF Network, Seen
  <2>2. shown' \in Revisions
    BY <1>0, <2>1 DEF Revisions
  <2>3. \A c \in Channels : shown'[c] = IF held'[c] > shown[c] THEN held'[c] ELSE shown[c]
    BY <2>1
  <2> HIDE DEF Revisions
  <2> QED BY <1>0, <2>2, <2>3, FireAssumption
<1>2. CASE UNCHANGED <<held, shown>>
  BY <1>0, <1>2, FireAssumption DEF Revisions
<1>3. CASE AlarmWorker
  BY <1>2, <1>3 DEF AlarmWorker, TakeCommand, process, processFails, BeginTransition,
        TransitionRefused, BoundaryDrains, BoundaryTimesOut, CommitTransition, TransitionFails,
        EndBoundary, notify, FinishCommand, beginDomainMutation, MutationDrained,
        MutationTimesOut, CommitRevision, MutationFails, completeDomainMutation,
        notifyOutboxChanged, notifyUnchanged, fireVars, broker
<1>4. CASE DeliveryWorker \/ (\E c \in Channels : DeliveryTimer(c))
           \/ (\E p \in Publishers : Publisher(p))
  BY <1>2, <1>4 DEF DeliveryWorker, DeliveryTimer, Publisher, Turn, TakeFacts, processFact,
        HandleOverflow, FactsDone, expirePubAckDeadline, ObserveGeneration, ListRetained,
        recomputeReadiness, beginLifecycleRelease, endLifecycleRelease, ReadPending,
        updateIdleState, recoverActorFailure, RetryElapses, PublishRetained, PublishLifecycle,
        WorkerStops, beginRegularEgress, RegularPublish, CheckGrant, PublishRegular,
        completeRegularEgress, broker
<1>5. CASE StopDelivery \/ ProcessDies \/ ProcessStarts
  BY <1>2, <1>5 DEF StopDelivery, stop, ProcessDies, Crash, ProcessStarts, start, broker
<1>6. CASE closeIngress \/ StopAlarms \/ (\E t \in 1..MaxCommands : RetryDelayElapses(t))
           \/ (\E c \in Channels : submitSignal(c) \/ submitAcknowledge(c) \/ submitManualClear(c))
           \/ UNCHANGED allVars
  BY <1>2, <1>6 DEF closeIngress, StopAlarms, RetryDelayElapses, submitSignal,
        submitAcknowledge, submitManualClear, enqueue, fireVars, broker
<1> QED BY <1>1, <1>3, <1>4, <1>5, <1>6 DEF AlarmNext

LEMMA ShownStep ==
    ASSUME OrderInv, OrderInv', CommandsTyped, ShownInv, [AlarmNext]_allVars
    PROVE  ShownInv'
<1>0. /\ IType /\ IType' /\ RowsInv /\ AckInv /\ WireInv /\ WireInv'
  BY DEF OrderInv, TurnInv
<1>1. /\ shown' \in Revisions /\ shown \in Revisions
      /\ \A c \in Channels :
            /\ shown[c] <= shown'[c] /\ held'[c] <= shown'[c]
            /\ shown'[c] \in {shown[c], held'[c]}
  BY <1>0, ShownMoves DEF ShownInv
<1>2. \A c \in Channels : /\ shown[c] \in Int /\ shown'[c] \in Int
                          /\ Rev(c) \in Int /\ Rev(c)' \in Int
                          /\ held'[c] <= Rev(c)'
  BY <1>0, <1>1, RevType, FireAssumption DEF Revisions, WireInv, Rev, IType, TypeOK
<1>3. \A m \in Messages : m.channel \in Channels /\ m.rev \in Int
  BY <1>0, BrokerType
<1>4. \A m \in Messages : m.rev <= shown[m.channel] => m.rev <= shown'[m.channel]
  BY <1>1, <1>2, <1>3
<1>a. acks \in Seq(Messages) /\ \A i \in 1..Len(acks) : acks[i] \in Messages
  BY <1>0, BrokerType
<1>f. \A f \in Known : f.kind = "Acked" /\ f.message.kind = "retained" =>
          f.message \in Messages /\ f.message.rev <= shown[f.message.channel]
  <2>1. \A f \in Facts : f.message \in Messages \cup {NoMessage}
    BY DEF Facts
  <2>2. NoMessage.kind # "retained"
    BY DEF NoMessage, Message
  <2> QED BY <1>0, <2>1, <2>2, KnownType DEF ShownInv
<1>5. CASE FaultOnly
  <2>1. /\ \A c \in Channels : Rev(c)' = Rev(c)
        /\ UNCHANGED <<w, co, acks, held>>
    BY <1>5 DEF FaultOnly, outbox, broker, Rev
  <2>2. Known' = Known
    BY <2>1 DEF Known, FactsOf
  <2>3. \A c \in Channels : w.synced[c] \in Int /\ co.ready[c] \in Int
    BY <1>0, FireAssumption DEF IType, TypeOK, WorkerStates, Coordinators, Revisions
  <2>4. ASSUME NEW c \in Channels PROVE ShownBounds(c)'
    <3>1. ShownBounds(c)
      BY DEF ShownInv
    <3> QED BY <1>1, <1>2, <2>1, <2>3, <3>1 DEF ShownBounds
  <2>5. \A i \in 1..Len(acks') :
           acks'[i].kind = "retained" => acks'[i].rev <= shown'[acks'[i].channel]
    BY <1>4, <1>a, <2>1 DEF ShownInv
  <2>6. \A f \in Known' : f.kind = "Acked" /\ f.message.kind = "retained" =>
           f.message.rev <= shown'[f.message.channel]
    BY <1>4, <1>f, <2>2
  <2> QED BY <1>1, <2>4, <2>5, <2>6 DEF ShownInv
<1>6. CASE [Next]_fireVars
  <2>1. \A c \in Channels : Rev(c) <= Rev(c)'
    BY <1>0, <1>6, OutboxStep
  <2>2. ASSUME NEW c \in Channels PROVE ShownBounds(c)'
    <3>0. /\ w.synced[c] \in Int /\ co.ready[c] \in Int /\ Unsent[c] = 0
          /\ w.synced \in Revisions /\ 0 <= shown[c]
      BY <1>0, <1>1, FireAssumption DEF IType, TypeOK, WorkerStates, Coordinators, Revisions, Unsent
    <3>1. w.synced[c] <= shown[c] /\ co.ready[c] <= shown[c] /\ shown[c] <= Rev(c)
      BY DEF ShownInv, ShownBounds
    <3>2. held'[c] <= shown'[c] /\ shown'[c] <= Rev(c)'
      BY <1>1, <1>2, <2>1, <3>1
    <3>3. w'.synced[c] <= shown'[c]
      <4>1. CASE w'.synced \in {w.synced, Unsent}
        BY <1>1, <1>2, <3>0, <3>1, <4>1
      <4>2. ASSUME NEW f \in Known, Learned(f) PROVE w'.synced[c] <= shown'[c]
        <5> DEFINE m == f.message
        <5>1. CASE w'.synced = [w.synced EXCEPT ![m.channel] = m.rev] /\ m.kind = "retained"
          <6>1. m \in Messages /\ m.rev <= shown[m.channel]
            BY <1>f, <4>2, <5>1 DEF Learned
          <6>2. w'.synced[c] = IF c = m.channel THEN m.rev ELSE w.synced[c]
            BY <3>0, <5>1 DEF Revisions
          <6> HIDE DEF m
          <6> QED BY <1>1, <1>2, <1>3, <3>0, <3>1, <6>1, <6>2
        <5>2. CASE w'.synced = w.synced
          BY <4>1, <5>2
        <5> QED BY <4>2, <5>1, <5>2 DEF Learned
      <4> QED BY <1>0, <1>6, <4>1, <4>2, WorkerStep DEF WorkerMove
    <3>4. co'.ready[c] <= shown'[c]
      <4>1. co'.ready[c] \in {0, co.ready[c], w.synced[c]}
        BY <1>0, <1>6, ReadinessStep
      <4> QED BY <1>1, <1>2, <3>0, <3>1, <4>1
    <3> QED BY <3>2, <3>3, <3>4 DEF ShownBounds
  <2>3. ASSUME NEW i \in 1..Len(acks'), acks'[i].kind = "retained"
        PROVE  acks'[i].rev <= shown'[acks'[i].channel]
    <3>1. CASE i \in 1..Len(acks) /\ acks'[i] = acks[i]
      BY <1>4, <1>a, <2>3, <3>1 DEF ShownInv
    <3>2. CASE acks' \in {acks, <<>>}
      BY <1>a, <2>3, <3>1, <3>2
    <3>3. CASE PublishAcknowledged
      <4>1. acks' = Tail(acks) /\ acks # <<>>
        BY <3>3 DEF PublishAcknowledged
      <4>2. i + 1 \in 1..Len(acks) /\ acks'[i] = acks[i + 1]
        BY <1>a, <2>3, <4>1
      <4> QED BY <1>4, <1>a, <2>3, <4>2 DEF ShownInv
    <3>4. CASE BrokerReceives
      <4> DEFINE m == Head(wire)
      <4>1. acks' \in {acks, Append(acks, m)} /\ wire # <<>> /\ wire \in Seq(Messages)
        BY <1>0, <3>4, BrokerType DEF BrokerReceives
      <4>2. m \in Messages
        BY <4>1
      <4>3. CASE acks' = Append(acks, m) /\ i = Len(acks) + 1
        <5>1. acks'[i] = m /\ m.kind = "retained"
          BY <1>a, <2>3, <4>3
        <5>2. held'[m.channel] = m.rev
          BY <1>0, <1>3, <3>4, <4>2, <5>1, Receives
        <5> QED BY <1>1, <1>3, <4>2, <5>1, <5>2
      <4>4. CASE ~(acks' = Append(acks, m) /\ i = Len(acks) + 1)
        BY <1>a, <2>3, <3>1, <4>1, <4>2, <4>4
      <4> QED BY <4>3, <4>4
    <3> QED BY <1>0, <1>6, <3>2, <3>3, <3>4, WireStep
  <2>4. ASSUME NEW f \in Known', f.kind = "Acked", f.message.kind = "retained"
        PROVE  f.message.rev <= shown'[f.message.channel]
    <3>1. CASE f \in Known
      BY <1>4, <1>f, <2>4, <3>1
    <3>2. CASE f \notin Known
      <4>1. PublishAcknowledged /\ f.message = Head(acks)
        BY <1>0, <1>6, <2>4, <3>2, KnownStep DEF NewFact
      <4>2. 1 \in 1..Len(acks) /\ f.message = acks[1]
        BY <1>a, <4>1 DEF PublishAcknowledged
      <4> QED BY <1>4, <1>a, <2>4, <4>2 DEF ShownInv
    <3> QED BY <3>1, <3>2
  <2> QED BY <1>1, <2>2, <2>3, <2>4 DEF ShownInv
<1> QED BY <1>0, <1>5, <1>6, FireStep

\* A boundary that was decided stays so until its command leaves it.
LEMMA DecidedStays ==
    ASSUME IType, CommandsTyped, JobOwnsMutation, StoppedIsDone, [AlarmNext]_allVars,
           Committing(job'), mutation.phase \in {"committed", "failed"}
    PROVE  mutation'.phase \in {"committed", "failed"}
<1> USE DEF allVars, alarmVars, fireVars, Mutating
<1>0. NoJob.phase = "none" /\ job \in [phase : JobPhases, command : Jobs]
  BY DEF NoJob, CommandsTyped
<1>1. CASE UNCHANGED mutation
  BY <1>1
<1>2. CASE EndBoundary
  <2>1. job'.phase \in {"none", "notify"}
    BY <1>0, <1>2 DEF EndBoundary, Requeue
  <2> QED BY <2>1 DEF Committing
<1>3. CASE AlarmWorker /\ ~EndBoundary
  BY <1>1, <1>3 DEF AlarmWorker, TakeCommand, process, processFails, BeginTransition,
        TransitionRefused, BoundaryDrains, BoundaryTimesOut, CommitTransition, TransitionFails,
        notify, FinishCommand, beginDomainMutation, MutationDrained, MutationTimesOut,
        CommitRevision, MutationFails, notifyOutboxChanged, notifyUnchanged
<1>4. CASE \/ DeliveryWorker \/ Network \/ (\E c \in Channels : DeliveryTimer(c))
           \/ (\E p \in Publishers : Publisher(p))
  BY <1>1, <1>4, DeliveryKeeps
<1>5. CASE ProcessDies \/ ProcessStarts
  BY <1>0, <1>5 DEF ProcessDies, ProcessStarts, start, StoppedIsDone, Committing
<1>6. CASE StopDelivery \/ closeIngress \/ StopAlarms \/ UNCHANGED allVars
           \/ (\E t \in 1..MaxCommands : RetryDelayElapses(t))
           \/ (\E c \in Channels : submitSignal(c) \/ submitAcknowledge(c) \/ submitManualClear(c))
  BY <1>1, <1>6 DEF StopDelivery, stop, closeIngress, StopAlarms, RetryDelayElapses,
        submitSignal, submitAcknowledge, submitManualClear, enqueue
<1> QED BY <1>2, <1>3, <1>4, <1>5, <1>6 DEF AlarmNext

LEMMA AckShownStep ==
    ASSUME OrderInv, CommandsTyped, CommandsTyped', JobOwnsMutation, StoppedIsDone,
           ShownInv, ShownInv', AckIsShown, IType', [AlarmNext]_allVars
    PROVE  AckIsShown'
<1> SUFFICES ASSUME Committing(job'), job'.command.kind = "Acknowledge",
                    mutation'.phase \notin {"committed", "failed"}
             PROVE  shown'[job'.command.channel] = Rev(job.command.channel)'
  BY DEF AckIsShown, Committing
<1>0. IType
  BY DEF OrderInv, TurnInv
<1>1. job'.command = job.command /\ job.command.channel \in Channels
  <2>1. job'.command \in Commands
    BY DEF CommandsTyped, Committing
  <2> QED BY <1>0, <2>1, CommittingStep, CommandFields
<1>2. PICK c \in Channels : c = job.command.channel
  BY <1>1
<1>3. /\ Rev(c) \in Int /\ shown[c] \in Int /\ shown'[c] \in Int /\ Rev(c)' \in Int
      /\ shown[c] <= shown'[c] /\ shown'[c] <= Rev(c)' /\ shown[c] <= Rev(c)
  <2>1. ShownBounds(c) /\ ShownBounds(c)' /\ shown \in Revisions /\ shown' \in Revisions
    BY DEF ShownInv
  <2>2. shown[c] <= shown'[c]
    BY <1>0, ShownMoves
  <2>3. Rev(c) \in Int /\ Rev(c)' \in Int
    BY <1>0, FireAssumption DEF Rev, IType, TypeOK
  <2>4. shown[c] \in Int /\ shown'[c] \in Int
    BY <2>1, FireAssumption DEF Revisions
  <2> QED BY <2>1, <2>2, <2>3, <2>4 DEF ShownBounds
<1>4. ~CommitRevision
  <2>1. mutation \in [phase : {"none", "waiting", "open", "committed", "failed", "notify"},
                      channel : Channels \cup {"none"}]
    BY <1>0 DEF IType, TypeOK
  <2> QED BY <2>1 DEF CommitRevision
<1>5. Rev(c)' = Rev(c)
  <2>1. FaultOnly => Rev(c)' = Rev(c)
    BY DEF FaultOnly, outbox, Rev
  <2> QED BY <1>0, <1>4, <2>1, FireStep, RevisionsKept DEF Rev
<1>6. shown[c] = Rev(c)
  <2>1. CASE process /\ job.phase = "decide" /\ Verdict(job.command) = "Transition"
    <3>1. co.ready[c] = retained[c].rev
      BY <1>1, <1>2, <2>1 DEF Verdict, AckVerdict
    <3>2. co.ready[c] <= shown[c]
      BY DEF ShownInv, ShownBounds
    <3> QED BY <1>3, <3>1, <3>2 DEF Rev
  <2>2. CASE Committing(job)
    <3>1. mutation.phase \notin {"committed", "failed"}
      BY <1>0, DecidedStays
    <3> QED BY <1>1, <1>2, <2>2, <3>1 DEF AckIsShown
  <2> QED BY <1>0, <2>1, <2>2, CommittingStep
<1> QED BY <1>1, <1>2, <1>3, <1>5, <1>6

-----------------------------------------------------------------------------
(***************************************************************************)
(* The inductive invariant and what follows from it                        *)
(***************************************************************************)
ServiceInv ==
    /\ OrderInv
    /\ CommandsTyped /\ JobOwnsMutation /\ StoppedIsDone /\ QueueInv
    /\ AlarmInv /\ ShownInv /\ AckIsShown

LEMMA ServiceInit == AlarmInit => ServiceInv
<1> SUFFICES ASSUME AlarmInit PROVE ServiceInv
  OBVIOUS
<1>1. OrderInv
  BY OrderInit DEF AlarmInit
<1>2. /\ NoJob.phase = "none" /\ NoJob.command \in Jobs /\ Plain(NoJob.command)
      /\ NoJob \in [phase : JobPhases, command : Jobs]
  BY DEF NoJob, Jobs, Command, Plain, JobPhases
<1>3. /\ queue = <<>> /\ Len(queue) = 0 /\ DOMAIN queue = {} /\ job = NoJob
      /\ queue \in Seq(Commands)
  BY DEF AlarmInit
<1>4. CommandsTyped
  BY <1>2, <1>3, AlarmAssumption DEF AlarmInit, CommandsTyped, ServiceModes
<1>5. QueueInv
  BY <1>2, <1>3 DEF AlarmInit, QueueInv, TicketsDiffer, BlockKeepsOrder, CommandsInOrder
<1>6. JobOwnsMutation /\ StoppedIsDone
  BY <1>2, <1>3 DEF AlarmInit, Init, JobOwnsMutation, StoppedIsDone, NoMutation, NewCoordinator
<1>7. AlarmInv
  <2>1. \A c \in Channels : Rev(c) = 1
    BY DEF AlarmInit, Init, Rev
  <2>2. AlarmsTyped /\ AlarmFollowsSensor
    BY <2>1, FireAssumption DEF AlarmInit, AlarmsTyped, AlarmFollowsSensor, Active, Lives,
                                UnseenCursor, Modes
  <2> QED BY <1>2, <1>3, <2>2 DEF AlarmInv, AckOfActive, Committing
<1>8. ShownInv
  <2>1. Known = {}
    BY FactsOfEmpty DEF AlarmInit, Init, NewCoordinator, NewWorker, Known
  <2>2. shown \in Revisions /\ acks = <<>>
    BY UnsentType DEF AlarmInit, Init
  <2>3. ASSUME NEW c \in Channels PROVE ShownBounds(c)
    <3>1. /\ held[c] = 0 /\ shown[c] = 0 /\ retained[c].rev = 1
          /\ w.synced[c] = 0 /\ co.ready[c] = 0
      BY DEF AlarmInit, Init, NewCoordinator, NewWorker, Unsent
    <3> QED BY <3>1 DEF ShownBounds, Rev
  <2> QED BY <2>1, <2>2, <2>3 DEF ShownInv
<1>9. AckIsShown
  BY <1>2, <1>3 DEF AckIsShown, Committing
<1> QED BY <1>1, <1>4, <1>5, <1>6, <1>7, <1>8, <1>9 DEF ServiceInv

LEMMA ServiceStep == ServiceInv /\ [AlarmNext]_allVars => ServiceInv'
<1> SUFFICES ASSUME ServiceInv, [AlarmNext]_allVars PROVE ServiceInv'
  OBVIOUS
<1>0. /\ OrderInv /\ IType /\ CommandsTyped /\ JobOwnsMutation /\ StoppedIsDone /\ QueueInv
      /\ AlarmInv /\ ShownInv /\ AckIsShown
  BY DEF ServiceInv, OrderInv, TurnInv
<1>1. OrderInv' /\ IType'
  BY <1>0, OrderKept DEF OrderInv, TurnInv
<1>2. CommandsTyped' /\ QueueInv'
  BY <1>0, CommandStep, CommandsType, QueueStep
<1>3. JobOwnsMutation' /\ StoppedIsDone'
  BY <1>0, OwnerStep
<1>4. AlarmInv'
  BY <1>0, <1>1, AlarmStep
<1>5. ShownInv'
  BY <1>0, <1>1, ShownStep
<1>6. AckIsShown'
  BY <1>0, <1>1, <1>2, <1>5, AckShownStep
<1> QED BY <1>1, <1>2, <1>3, <1>4, <1>5, <1>6 DEF ServiceInv

LEMMA ServiceInvariance == AlarmSpec => []ServiceInv
BY ServiceInit, ServiceStep, PTL DEF AlarmSpec

\* The types of every reachable state of the alarm service: an alarm has an ID
\* exactly while it is active, and the ID is that of a committed revision.
THEOREM AlarmTypeSafety == AlarmSpec => []AlarmTypeOK
<1>1. ServiceInv => AlarmTypeOK
  <2> SUFFICES ASSUME ServiceInv PROVE AlarmTypeOK
    OBVIOUS
  <2>1. CommandsTyped /\ AlarmsTyped /\ shown \in Revisions
    BY DEF ServiceInv, AlarmInv, ShownInv
  <2>2. \A i \in DOMAIN queue : queue[i] \in Commands
    BY <2>1, QueueFields
  <2> QED BY <2>1, <2>2 DEF AlarmTypeOK, CommandsTyped, AlarmsTyped, JobPhases, ServiceModes, Rev
<1> QED BY <1>1, ServiceInvariance, PTL

\* No command overtakes an earlier signal or clear of its channel, through any
\* number of failures, waits and retries.
THEOREM CommandsKeepOrder == AlarmSpec => []CommandsInOrder
<1>1. ServiceInv => CommandsInOrder
  BY DEF ServiceInv, QueueInv
<1> QED BY <1>1, ServiceInvariance, PTL

\* An active alarm rests on a signal that the durable cursor knows.
THEOREM AlarmsRestOnSignals == AlarmSpec => []AlarmFollowsSensor
<1>1. ServiceInv => AlarmFollowsSensor
  BY DEF ServiceInv, AlarmInv
<1> QED BY <1>1, ServiceInvariance, PTL

\* An alarm is acknowledged only after the broker has shown it open, whatever
\* is lost between the check and the commit.
THEOREM OnlyShownAreAcknowledged == AlarmSpec => AckOnlyShown
<1> DEFINE Safe ==
        \A c \in Channels :
            alarm'[c].life = "ACKNOWLEDGED" /\ alarm[c].life # "ACKNOWLEDGED"
                => shown[c] = retained[c].rev
<1>1. ServiceInv /\ [AlarmNext]_allVars => [Safe]_allVars
  <2> SUFFICES ASSUME ServiceInv, [AlarmNext]_allVars, NEW c \in Channels,
                      alarm'[c].life = "ACKNOWLEDGED", alarm[c].life # "ACKNOWLEDGED"
               PROVE  shown[c] = retained[c].rev
    OBVIOUS
  <2>0. /\ IType /\ CommandsTyped /\ JobOwnsMutation /\ AlarmsTyped /\ AckIsShown
    BY DEF ServiceInv, OrderInv, TurnInv, AlarmInv
  <2>1. CommitTransition
    BY <2>0, AlarmRowsStep DEF rows, Learns
  <2>2. /\ job.phase = "boundary" /\ mutation.phase = "open"
        /\ alarm' = [alarm EXCEPT ![job.command.channel] = AlarmAfter(job.command)]
    BY <2>1 DEF CommitTransition, Working, CommitRevision, Mutating
  <2>3. job.command.channel = c /\ AlarmAfter(job.command).life = "ACKNOWLEDGED"
    BY <2>0, <2>2 DEF AlarmsTyped
  <2>4. job.command.kind = "Acknowledge"
    BY <2>3 DEF AlarmAfter
  <2> QED BY <2>0, <2>2, <2>3, <2>4 DEF AckIsShown, Committing, Rev
<1> QED BY <1>1, ServiceInvariance, PTL DEF AlarmSpec, AckOnlyShown

\* With the commands of this service in place of arbitrary mutations, the
\* delivery keeps every promise, the order that a subscriber sees included.
THEOREM AlarmsKeepDelivery ==
    AlarmSpec => /\ [](DrainedMutation /\ ReadyIsCurrent /\ IdleIsDelivered)
                 /\ ReleaseFollowsSync /\ RegularComesLast
<1>1. ServiceInv => DrainedMutation /\ ReadyIsCurrent /\ IdleIsDelivered
  BY TurnIsDrained DEF ServiceInv, OrderInv, TurnInv, ReadyInv
<1>2. ServiceInv /\ [AlarmNext]_allVars =>
          [ReleasesSynced]_fireVars /\ [PublishesLast]_fireVars
  <2> SUFFICES ASSUME ServiceInv, [AlarmNext]_allVars
               PROVE  ReleasesSynced /\ PublishesLast
    OBVIOUS
  <2>0. OrderInv /\ IType /\ CommandsTyped /\ wire \in Seq(Messages)
    BY DEF ServiceInv, OrderInv, TurnInv, IType, TypeOK
  <2>1. CASE FaultOnly
    BY <2>0, <2>1 DEF FaultOnly, broker, ReleasesSynced, PublishesLast
  <2>2. CASE [Next]_fireVars
    BY <2>0, <2>2, ReleaseStep, PublishStep DEF ReleasesSynced, PublishesLast, Rev
  <2> QED BY <2>0, <2>1, <2>2, FireStep
<1> QED BY <1>1, <1>2, ServiceInvariance, PTL
        DEF AlarmSpec, ReleaseFollowsSync, RegularComesLast, ReleasesSynced, PublishesLast

\* A subscriber of the alarms sees each channel go forward, without a gap in
\* the lifecycle messages and none ahead of the state it is about.
THEOREM AlarmsImplementChannel == AlarmSpec => ChannelSpec
<1>1. AlarmInit => FC!Init
  BY ChannelInit DEF AlarmInit
<1>2. ServiceInv /\ [AlarmNext]_allVars => [FC!Next]_ChannelVars
  <2> SUFFICES ASSUME ServiceInv, [AlarmNext]_allVars PROVE [FC!Next]_ChannelVars
    OBVIOUS
  <2>0. OrderInv /\ IType /\ CommandsTyped
    BY DEF ServiceInv, OrderInv, TurnInv
  <2>1. CASE FaultOnly
    BY <2>1 DEF FaultOnly, outbox, broker, ChannelVars, Rev
  <2> QED BY <2>0, <2>1, FireStep, ChannelStep
<1> QED BY <1>1, <1>2, ServiceInvariance, PTL
        DEF AlarmSpec, ChannelSpec, FC!Spec, ChannelVars, Rev
=============================================================================
