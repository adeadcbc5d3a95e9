--------------------------- MODULE FireOrderProofs ---------------------------
(***************************************************************************)
(* What the coordinator knows of the broker, and what the broker has.      *)
(* Acknowledgements of the current connection never run ahead of the       *)
(* broker; messages on their way to it are sorted; a lifecycle row is      *)
(* acknowledged only if the broker has heard of it.  From these follow the *)
(* order a subscriber sees, and that idle means delivered.                 *)
(***************************************************************************)
EXTENDS FireDeliveryProofs

Rev(c) == retained[c].rev

FactsOf(s) == {s[i] : i \in 1..Len(s)}
Known == FactsOf(co.facts) \cup FactsOf(w.taken)

LEMMA FactsOfEmpty == FactsOf(<<>>) = {}
BY DEF FactsOf

LEMMA FactsOfTail ==
    ASSUME NEW S, NEW s \in Seq(S), s # <<>>
    PROVE  FactsOf(Tail(s)) \subseteq FactsOf(s)
<1> SUFFICES ASSUME NEW i \in 1..Len(Tail(s)) PROVE \E j \in 1..Len(s) : s[j] = Tail(s)[i]
  BY DEF FactsOf
<1>1. i + 1 \in 1..Len(s) /\ Tail(s)[i] = s[i + 1]
  OBVIOUS
<1> QED BY <1>1

LEMMA FactsOfHead ==
    ASSUME NEW S, NEW s \in Seq(S), s # <<>>
    PROVE  Head(s) \in FactsOf(s)
<1>1. 1 \in 1..Len(s) /\ Head(s) = s[1]
  OBVIOUS
<1> QED BY <1>1 DEF FactsOf

LEMMA FactsOfAppend ==
    ASSUME NEW S, NEW s \in Seq(S), NEW f \in S
    PROVE  FactsOf(Append(s, f)) \subseteq FactsOf(s) \cup {f}
<1> SUFFICES ASSUME NEW i \in 1..Len(Append(s, f)), Append(s, f)[i] # f
             PROVE  \E j \in 1..Len(s) : s[j] = Append(s, f)[i]
  BY DEF FactsOf
<1>1. i \in 1..Len(s) /\ Append(s, f)[i] = s[i]
  OBVIOUS
<1> QED BY <1>1

LEMMA KnownType == ASSUME IType PROVE Known \subseteq Facts
<1>1. co.facts \in Seq(Facts) /\ w.taken \in Seq(Facts)
  BY DEF IType, TypeOK, Coordinators, WorkerStates
<1> QED BY <1>1 DEF Known, FactsOf

-----------------------------------------------------------------------------
(***************************************************************************)
(* Who changes what                                                        *)
(***************************************************************************)
\* The connection: a new epoch, or the same one that may end.
LEMMA LinkStep ==
    ASSUME IType, [Next]_fireVars
    PROVE  \/ Connected
           \/ /\ link'.epoch = link.epoch
              /\ link'.phase # "none" => link.phase # "none"
<1> USE DEF outbox, fireVars
<1> DEFINE Same == /\ link'.epoch = link.epoch
                   /\ link'.phase # "none" => link.phase # "none"
<1>0. link \in [epoch : Nat, phase : {"none", "connected", "ready", "aborting"}]
  BY DEF IType, TypeOK
<1>1. ASSUME NEW e, link' = Aborted(e) PROVE Same
  BY <1>0, <1>1 DEF Aborted
<1>2. CASE UNCHANGED link
  BY <1>2
<1>3. CASE Transport
  BY <1>0, <1>3 DEF Transport, SubscriptionsReady, Disconnected, PublishAcknowledged
<1>4. CASE BrokerReceives
  BY <1>4 DEF BrokerReceives
<1>5. ASSUME NEW m, publish(m) PROVE Same
  BY <1>1, <1>5 DEF publish
<1>6. CASE Turn \/ \E c \in Channels : RetryElapses(c)
  <2>1. ASSUME NEW c \in Channels, PublishRetained(c) \/ PublishLifecycle(c) PROVE Same
    BY <1>5, <2>1 DEF PublishRetained, PublishLifecycle
  <2> QED BY <1>1, <1>6, <2>1
             DEF Turn, TakeFacts, processFact, HandleOverflow, FactsDone, expirePubAckDeadline,
                 ObserveGeneration, ListRetained, recomputeReadiness, beginLifecycleRelease,
                 endLifecycleRelease, ReadPending, updateIdleState, recoverActorFailure,
                 RetryElapses
<1>7. CASE (\E c \in Channels : beginDomainMutation(c)) \/ CommitRevision \/ Boundary
  BY <1>7 DEF beginDomainMutation, CommitRevision, Boundary, MutationDrained, MutationTimesOut,
              MutationFails, completeDomainMutation, notifyOutboxChanged, notifyUnchanged
<1>8. CASE \E p \in Publishers : beginRegularEgress(p) \/ RegularPublish(p)
  BY <1>8 DEF beginRegularEgress, RegularPublish, CheckGrant, PublishRegular,
              completeRegularEgress
<1>9. CASE Process
  BY <1>0, <1>9 DEF Process, stop, WorkerStops, Crash, start
<1> QED BY <1>2, <1>3, <1>4, <1>6, <1>7, <1>8, <1>9 DEF Next

\* The broker learns by receiving and forgets when the connection ends.
LEMMA BrokerStep ==
    ASSUME IType, [Next]_fireVars
    PROVE  \/ BrokerReceives
           \/ /\ Disconnected /\ link'.phase = "none" /\ UNCHANGED heard
              /\ wire' = <<>> /\ held' = Unsent
           \/ UNCHANGED <<held, heard>>
<1> USE DEF outbox, broker, fireVars
<1>0. link \in [epoch : Nat, phase : {"none", "connected", "ready", "aborting"}]
  BY DEF IType, TypeOK
<1>1. CASE Transport
  BY <1>0, <1>1 DEF Transport, Connected, SubscriptionsReady, Disconnected, PublishAcknowledged
<1>2. CASE Turn \/ \E c \in Channels : RetryElapses(c)
  BY <1>2 DEF Turn, TakeFacts, processFact, HandleOverflow, FactsDone, expirePubAckDeadline,
              ObserveGeneration, ListRetained, recomputeReadiness, beginLifecycleRelease,
              endLifecycleRelease, ReadPending, updateIdleState, recoverActorFailure,
              RetryElapses, PublishRetained, PublishLifecycle
<1>3. CASE (\E c \in Channels : beginDomainMutation(c)) \/ CommitRevision \/ Boundary
  BY <1>3 DEF beginDomainMutation, CommitRevision, Boundary, MutationDrained, MutationTimesOut,
              MutationFails, completeDomainMutation, notifyOutboxChanged, notifyUnchanged
<1>4. CASE \E p \in Publishers : beginRegularEgress(p) \/ RegularPublish(p)
  BY <1>4 DEF beginRegularEgress, RegularPublish, CheckGrant, PublishRegular,
              completeRegularEgress
<1>5. CASE Process
  BY <1>5 DEF Process, stop, WorkerStops, Crash, start
<1> QED BY <1>1, <1>2, <1>3, <1>4, <1>5 DEF Next

Sends == \E c \in Channels : PublishRetained(c) \/ PublishLifecycle(c)

\* Messages and acknowledgements on their way.
LEMMA WireStep ==
    ASSUME IType, [Next]_fireVars
    PROVE  /\ BrokerReceives \/ Sends \/ wire' \in {wire, <<>>}
           /\ BrokerReceives \/ PublishAcknowledged \/ acks' \in {acks, <<>>}
<1> USE DEF outbox, broker, fireVars
<1>1. CASE Transport
  BY <1>1 DEF Transport, Connected, SubscriptionsReady, Disconnected, PublishAcknowledged
<1>2. CASE Turn \/ \E c \in Channels : RetryElapses(c)
  BY <1>2 DEF Turn, TakeFacts, processFact, HandleOverflow, FactsDone, expirePubAckDeadline,
              ObserveGeneration, ListRetained, recomputeReadiness, beginLifecycleRelease,
              endLifecycleRelease, ReadPending, updateIdleState, recoverActorFailure,
              RetryElapses, PublishRetained, PublishLifecycle, Sends
<1>3. CASE (\E c \in Channels : beginDomainMutation(c)) \/ CommitRevision \/ Boundary
  BY <1>3 DEF beginDomainMutation, CommitRevision, Boundary, MutationDrained, MutationTimesOut,
              MutationFails, completeDomainMutation, notifyOutboxChanged, notifyUnchanged
<1>4. CASE \E p \in Publishers : beginRegularEgress(p) \/ RegularPublish(p)
  BY <1>4 DEF beginRegularEgress, RegularPublish, CheckGrant, PublishRegular,
              completeRegularEgress
<1>5. CASE Process
  BY <1>5 DEF Process, stop, WorkerStops, Crash, start
<1> QED BY <1>1, <1>2, <1>3, <1>4, <1>5 DEF Next

\* A new fact is about the connection; an acknowledgement is the first of acks.
NewFact(f) ==
    /\ f.epoch = link'.epoch
    /\ f.kind = "Acked" => PublishAcknowledged /\ f.message = Head(acks)

LEMMA QueuedStep ==
    ASSUME IType, [Next]_fireVars, NEW f \in FactsOf(co'.facts), f \notin FactsOf(co.facts)
    PROVE  NewFact(f)
<1> USE DEF fireVars
<1> DEFINE Same == co'.facts \in {co.facts, <<>>}
<1>0. /\ co \in Coordinators /\ co.facts \in Seq(Facts) /\ link.epoch \in Nat
      /\ failCloseAllReadiness(co).facts = co.facts
  <2>1. co \in Coordinators /\ link.epoch \in Nat
    BY DEF IType, TypeOK
  <2> QED BY <2>1, FailClosed DEF Coordinators
<1>1. ~Same
  BY FactsOfEmpty
<1>2. ASSUME NEW g \in Facts, co' = enqueueTransportFact(co, g)
      PROVE  f = g
  <2>1. co'.facts \in {co.facts, Append(co.facts, g)}
    BY <1>0, <1>2, Enqueued
  <2>2. FactsOf(Append(co.facts, g)) \subseteq FactsOf(co.facts) \cup {g}
    BY <1>0, FactsOfAppend
  <2> QED BY <2>1, <2>2
<1>3. CASE Transport
  <2>1. CASE Connected
    <3> DEFINE g == Fact("Connected", link.epoch + 1, NoMessage)
    <3>1. g \in Facts /\ g.epoch = link'.epoch /\ g.kind = "Connected"
      <4>1. link.epoch + 1 \in Nat /\ link'.epoch = link.epoch + 1
        BY <1>0, <2>1 DEF Connected
      <4>2. g \in Facts
        BY <4>1, FactType
      <4> QED BY <4>1, <4>2 DEF Fact
    <3>2. co' = enqueueTransportFact(co, g)
      BY <2>1 DEF Connected
    <3> HIDE DEF g
    <3> QED BY <1>2, <3>1, <3>2 DEF NewFact
  <2>2. CASE SubscriptionsReady
    <3> DEFINE g == Fact("Ready", link.epoch, NoMessage)
    <3>1. g \in Facts /\ g.epoch = link'.epoch /\ g.kind = "Ready"
      BY <1>0, <2>2, FactType DEF SubscriptionsReady, Fact, IType, TypeOK
    <3>2. co' = enqueueTransportFact(co, g)
      BY <2>2 DEF SubscriptionsReady
    <3> HIDE DEF g
    <3> QED BY <1>2, <3>1, <3>2 DEF NewFact
  <2>3. CASE Disconnected
    <3> DEFINE g == Fact("Down", link.epoch, NoMessage)
    <3>1. g \in Facts /\ g.epoch = link'.epoch /\ g.kind = "Down"
      BY <1>0, <2>3, FactType DEF Disconnected, Fact, IType, TypeOK
    <3>2. co' = enqueueTransportFact(co, g)
      BY <2>3 DEF Disconnected
    <3> HIDE DEF g
    <3> QED BY <1>2, <3>1, <3>2 DEF NewFact
  <2>4. CASE PublishAcknowledged
    <3> DEFINE g == Fact("Acked", link.epoch, Head(acks))
    <3>1. Head(acks) \in Messages
      BY <2>4 DEF PublishAcknowledged, IType, TypeOK
    <3>2. g \in Facts /\ g.epoch = link'.epoch /\ g.message = Head(acks)
      BY <1>0, <2>4, <3>1, FactType DEF PublishAcknowledged, Fact
    <3>3. co' = enqueueTransportFact(co, g)
      BY <2>4 DEF PublishAcknowledged
    <3> HIDE DEF g
    <3> QED BY <1>2, <2>4, <3>2, <3>3 DEF NewFact
  <2> QED BY <1>3, <2>1, <2>2, <2>3, <2>4 DEF Transport
<1>4. ~BrokerReceives
  BY <1>1 DEF BrokerReceives
<1>5. CASE Turn \/ \E c \in Channels : RetryElapses(c)
  <2> DEFINE ready == [c \in Channels |-> IF ReadyNow(c) THEN w.listed[c] ELSE 0]
             epoch == IF \A c \in Channels : ReadyNow(c) THEN w.epoch ELSE 0
  <2>1. ASSUME recoverActorFailure PROVE Same
    <3> DEFINE s == [co EXCEPT !.releasing = FALSE, !.fresh = @ \ {Worker}]
    <3>1. s \in Coordinators /\ s.facts = co.facts /\ co' = failCloseAllReadiness(s)
      BY <1>0, <2>1 DEF Coordinators, recoverActorFailure
    <3> HIDE DEF s
    <3> QED BY <3>1, FailClosed
  <2>2. ASSUME recomputeReadiness PROVE Same
    <3>1. co' = [co EXCEPT !.ready = ready, !.egressEpoch = epoch]
      BY <2>2 DEF recomputeReadiness
    <3> HIDE DEF ready, epoch
    <3> QED BY <1>0, <3>1 DEF Coordinators
  <2>3. ASSUME processFact \/ HandleOverflow \/ expirePubAckDeadline PROVE Same
    <3>1. co' \in {co, failCloseAllReadiness(co)}
      BY <2>3 DEF processFact, FactConnected, FactReady, FactDown, FactIgnored, FactAcked,
                  HandleOverflow, expirePubAckDeadline, disconnectEpoch
    <3> QED BY <1>0, <3>1
  <2>4. ASSUME TakeFacts \/ ObserveGeneration \/ beginLifecycleRelease
               \/ endLifecycleRelease \/ updateIdleState
        PROVE  Same
    <3>1. ASSUME TakeFacts PROVE co'.facts = <<>>
      BY <1>0, <3>1 DEF TakeFacts, Coordinators
    <3>2. ASSUME ~TakeFacts PROVE co'.facts = co.facts
      BY <1>0, <2>4, <3>2 DEF ObserveGeneration, beginLifecycleRelease, endLifecycleRelease,
                              updateIdleState, Coordinators
    <3> QED BY <3>1, <3>2
  <2> QED BY <1>1, <1>5, <2>1, <2>2, <2>3, <2>4
             DEF Turn, FactsDone, ListRetained, ReadPending, RetryElapses,
                 PublishRetained, PublishLifecycle
<1>6. CASE (\E c \in Channels : beginDomainMutation(c)) \/ CommitRevision \/ Boundary
  <2>1. ASSUME NEW c \in Channels, beginDomainMutation(c) PROVE Same
    <3> DEFINE s == [co EXCEPT !.open = @ \cup {c}]
    <3>1. s \in Coordinators /\ s.facts = co.facts /\ co' = CloseChannel(s, c)
      BY <1>0, <2>1 DEF Coordinators, beginDomainMutation
    <3> HIDE DEF s
    <3> QED BY <3>1, ChannelClosed
  <2>2. ASSUME MutationTimesOut \/ completeDomainMutation PROVE Same
    <3> DEFINE s == [co EXCEPT !.open = @ \ {mutation.channel}]
               t == invalidateRegularEgress(s)
    <3>1. s \in Coordinators /\ s.facts = co.facts
      BY <1>0 DEF Coordinators
    <3>2. co' = [t EXCEPT !.changed = TRUE]
      BY <2>2 DEF MutationTimesOut, completeDomainMutation, LeaveBoundary
    <3> HIDE DEF s
    <3>3. t \in Coordinators /\ t.facts = s.facts
      BY <3>1, Invalidated
    <3> HIDE DEF t
    <3> QED BY <3>1, <3>2, <3>3 DEF Coordinators
  <2>3. ASSUME notifyOutboxChanged \/ \E c \in Channels : notifyUnchanged(c) PROVE Same
    <3>1. PICK c \in Channels : co' = CloseChannel(co, c)
      BY <2>3 DEF notifyOutboxChanged, notifyUnchanged, Mutating, IType
    <3> QED BY <1>0, <3>1, ChannelClosed
  <2> QED BY <1>1, <1>6, <2>1, <2>2, <2>3
             DEF CommitRevision, Boundary, MutationDrained, MutationFails
<1>7. CASE \E p \in Publishers : beginRegularEgress(p) \/ RegularPublish(p)
  <2>1. Same
    BY <1>0, <1>7 DEF beginRegularEgress, RegularPublish, CheckGrant, PublishRegular,
                      completeRegularEgress, Coordinators
  <2> QED BY <1>1, <2>1
<1>8. CASE Process
  <2>1. ASSUME stop PROVE Same
    <3> DEFINE s == [co EXCEPT !.stopping = TRUE]
    <3>1. s \in Coordinators /\ s.facts = co.facts /\ co' = failCloseAllReadiness(s)
      BY <1>0, <2>1 DEF Coordinators, stop
    <3> HIDE DEF s
    <3> QED BY <3>1, FailClosed
  <2>2. ASSUME WorkerStops \/ Crash \/ start PROVE Same
    BY <1>0, <2>2 DEF WorkerStops, Crash, start, NewCoordinator, Coordinators
  <2> QED BY <1>1, <1>8, <2>1, <2>2 DEF Process
<1>9. ~UNCHANGED fireVars
  BY <1>1
<1> QED BY <1>3, <1>4, <1>5, <1>6, <1>7, <1>8, <1>9 DEF Next

\* What the worker may learn in a step, and from where.
Learned(f) ==
    /\ f.kind = "Acked" /\ f.epoch = w.epoch /\ w'.epoch = w.epoch
    /\ f.message \in Messages
    /\ w'.synced \in {w.synced, [w.synced EXCEPT ![f.message.channel] = f.message.rev]}
    /\ f.message.kind # "retained" => w'.synced = w.synced

WorkerMove ==
    /\ FactsOf(w'.taken) \subseteq Known
    /\ w'.epoch \in {0, w.epoch} \cup {f.epoch : f \in Known}
    /\ \/ w'.synced = w.synced /\ w'.epoch = w.epoch
       \/ w'.synced = Unsent
       \/ \E f \in Known : Learned(f)
    /\ \A m \in w'.inflight : m \in w.inflight \/ (Sends /\ publish(m))

LEMMA WorkerMoveFact ==
    ASSUME IType, processFact
    PROVE  WorkerMove
<1> DEFINE f == Head(w.taken)
           ww == [w EXCEPT !.taken = Tail(@)]
<1>0. w \in WorkerStates /\ w.taken \in Seq(Facts) /\ w.taken # <<>>
  BY DEF IType, TypeOK, WorkerStates, processFact
<1>1. f \in Known /\ f \in Facts /\ ww \in WorkerStates
  BY <1>0, FactsOfHead, HeadFact DEF Known
<1>2. FactsOf(ww.taken) \subseteq Known
  BY <1>0, FactsOfTail DEF Known, WorkerStates
<1>3. /\ ww.epoch = w.epoch /\ ww.synced = w.synced /\ ww.inflight = w.inflight
  BY <1>0 DEF WorkerStates
<1>4. \/ FactConnected(f, ww) \/ FactReady(f, ww) \/ FactDown(f, ww) \/ FactIgnored(f, ww)
      \/ \E stored \in BOOLEAN : FactAcked(f, ww, stored)
  BY DEF processFact
<1> HIDE DEF f, ww
<1>f. /\ Forget(ww) \in WorkerStates /\ Forget(ww).taken = ww.taken
      /\ Forget(ww).epoch = 0 /\ Forget(ww).synced = Unsent /\ Forget(ww).inflight = {}
  BY <1>1, ForgetType DEF Forget, WorkerStates
<1>5. CASE FactConnected(f, ww)
  <2> DEFINE d == IF w.epoch = 0 THEN w.deferred ELSE {}
  <2>1. w' = [Forget(ww) EXCEPT !.epoch = f.epoch, !.deferred = d]
    BY <1>5 DEF FactConnected
  <2> HIDE DEF d
  <2>2. /\ w'.taken = ww.taken /\ w'.epoch = f.epoch /\ w'.synced = Unsent
        /\ w'.inflight = {}
    BY <1>f, <2>1 DEF WorkerStates
  <2> QED BY <1>1, <1>2, <2>2 DEF WorkerMove
<1>6. CASE FactReady(f, ww)
  <2>1. /\ w'.taken = ww.taken /\ w'.epoch = w.epoch /\ w'.synced = w.synced
        /\ w'.inflight = w.inflight
    BY <1>1, <1>3, <1>6 DEF FactReady, WorkerStates
  <2> QED BY <1>2, <2>1 DEF WorkerMove
<1>7. CASE FactDown(f, ww)
  BY <1>2, <1>f, <1>7 DEF FactDown, disconnectEpoch, WorkerMove
<1>8. CASE FactIgnored(f, ww)
  BY <1>2, <1>3, <1>8 DEF FactIgnored, WorkerMove
<1>9. ASSUME NEW stored \in BOOLEAN, FactAcked(f, ww, stored) PROVE WorkerMove
  <2> DEFINE m == f.message
             rev == IF stored /\ m.kind = "retained" THEN m.rev ELSE ww.synced[m.channel]
             synced == [ww.synced EXCEPT ![m.channel] = rev]
  <2>1. /\ w' = [ww EXCEPT !.inflight = @ \ {m}, !.deferred = @ \ {m.channel},
                           !.synced = synced]
        /\ f.kind = "Acked" /\ f.epoch = w.epoch /\ m \in w.inflight
    BY <1>1, <1>9 DEF FactAcked, AckInFlight, WorkerStates
  <2>2. m \in Messages
    BY <1>0, <2>1 DEF WorkerStates
  <2>3. synced \in {w.synced, [w.synced EXCEPT ![m.channel] = m.rev]}
        /\ (m.kind # "retained" => synced = w.synced)
    BY <1>0, <1>3 DEF WorkerStates, Revisions
  <2> HIDE DEF synced, rev, m
  <2>4. /\ w'.taken = ww.taken /\ w'.epoch = w.epoch /\ w'.synced = synced
        /\ w'.inflight = w.inflight \ {m}
    BY <1>1, <1>3, <2>1 DEF WorkerStates
  <2>5. Learned(f)
    BY <2>1, <2>2, <2>3, <2>4 DEF Learned, m
  <2> QED BY <1>1, <1>2, <2>4, <2>5 DEF WorkerMove
<1> QED BY <1>4, <1>5, <1>6, <1>7, <1>8, <1>9

LEMMA WorkerStep ==
    ASSUME IType, [Next]_fireVars
    PROVE  WorkerMove
<1> USE DEF fireVars
<1>0. w \in WorkerStates /\ co \in Coordinators
  BY DEF IType, TypeOK
<1>s. ASSUME FactsOf(w'.taken) \subseteq Known, w'.epoch = w.epoch, w'.synced = w.synced,
             w'.inflight = w.inflight
      PROVE  WorkerMove
  BY <1>s DEF WorkerMove
<1>k. FactsOf(w.taken) \subseteq Known /\ FactsOf(co.facts) \subseteq Known
  BY DEF Known
<1>1. CASE UNCHANGED w
  BY <1>1, <1>k, <1>s
<1>f. ASSUME NEW v \in WorkerStates, v.taken \in {w.taken, <<>>}, w' = Forget(v)
      PROVE  WorkerMove
  <2>1. /\ w'.taken = v.taken /\ w'.epoch = 0 /\ w'.synced = Unsent /\ w'.inflight = {}
    BY <1>f DEF Forget, WorkerStates
  <2> QED BY <1>f, <1>k, <2>1, FactsOfEmpty DEF WorkerMove
<1>n. ASSUME w' = NewWorker PROVE WorkerMove
  BY <1>n, FactsOfEmpty DEF NewWorker, WorkerMove
<1>2. CASE TakeFacts
  <2>1. /\ w'.taken = co.facts /\ w'.epoch = w.epoch /\ w'.synced = w.synced
        /\ w'.inflight = w.inflight
    BY <1>0, <1>2 DEF TakeFacts, WorkerStates
  <2> QED BY <2>1, <1>k, <1>s
<1>3. CASE HandleOverflow
  <2> DEFINE ww == [w EXCEPT !.overflow = FALSE, !.overflowEpoch = 0]
  <2>1. /\ ww \in WorkerStates /\ ww.taken = w.taken /\ ww.epoch = w.epoch
        /\ ww.synced = w.synced /\ ww.inflight = w.inflight
    BY <1>0 DEF WorkerStates
  <2>2. w' = Forget(ww) \/ w' = ww
    BY <1>3 DEF HandleOverflow, disconnectEpoch
  <2> HIDE DEF ww
  <2> QED BY <1>f, <1>k, <1>s, <2>1, <2>2
<1>4. CASE expirePubAckDeadline
  <2> DEFINE ww == [w EXCEPT !.phase = "pump"]
  <2>1. ww \in WorkerStates /\ ww.taken = w.taken
    BY <1>0 DEF WorkerStates, Phases
  <2>2. w' = Forget(ww)
    BY <1>4 DEF expirePubAckDeadline, disconnectEpoch
  <2> HIDE DEF ww
  <2> QED BY <1>f, <2>1, <2>2
<1>5. CASE recoverActorFailure
  <2>1. /\ w'.taken = <<>> /\ w'.synced = Unsent /\ w'.epoch = 0 /\ w'.inflight = {}
    BY <1>5 DEF recoverActorFailure, Forget, NewWorker
  <2> QED BY <2>1, FactsOfEmpty DEF WorkerMove
<1>6. ASSUME NEW m, publish(m), Sends PROVE WorkerMove
  <2> DEFINE ww == [w EXCEPT !.todo = @ \ {m.channel}]
             delayed == [ww EXCEPT !.deferred = @ \cup {m.channel}]
             sent == [ww EXCEPT !.inflight = @ \cup {m}, !.deferred = @ \ {m.channel}]
  <2>1. w' = delayed \/ w' = sent
    BY <1>6 DEF publish
  <2>2. /\ w'.taken = w.taken /\ w'.epoch = w.epoch /\ w'.synced = w.synced
        /\ w'.inflight \subseteq w.inflight \cup {m}
    BY <1>0, <2>1 DEF WorkerStates
  <2> QED BY <1>6, <1>k, <2>2 DEF WorkerMove
<1>7. ASSUME NEW c \in Channels, PublishRetained(c) \/ PublishLifecycle(c) PROVE WorkerMove
  <2>1. Sends /\ \E m : publish(m)
    BY <1>7 DEF Sends, PublishRetained, PublishLifecycle
  <2> QED BY <1>6, <2>1
<1>8. CASE FactsDone \/ ObserveGeneration \/ ListRetained \/ recomputeReadiness
           \/ beginLifecycleRelease \/ endLifecycleRelease \/ ReadPending \/ updateIdleState
           \/ \E c \in Channels : RetryElapses(c)
  <2>1. /\ w'.taken = w.taken /\ w'.epoch = w.epoch /\ w'.synced = w.synced
        /\ w'.inflight = w.inflight
    BY <1>0, <1>8 DEF FactsDone, ObserveGeneration, ListRetained, recomputeReadiness,
                beginLifecycleRelease, endLifecycleRelease, ReadPending, updateIdleState,
                RetryElapses, WorkerStates
  <2> QED BY <2>1, <1>k, <1>s
<1>9. CASE Transport \/ BrokerReceives
  BY <1>1, <1>9 DEF Transport, Connected, SubscriptionsReady, Disconnected,
                    PublishAcknowledged, BrokerReceives
<1>10. CASE (\E c \in Channels : beginDomainMutation(c)) \/ CommitRevision \/ Boundary
  BY <1>1, <1>10 DEF beginDomainMutation, CommitRevision, Boundary, MutationDrained,
                     MutationTimesOut, MutationFails, completeDomainMutation,
                     notifyOutboxChanged, notifyUnchanged
<1>11. CASE \E p \in Publishers : beginRegularEgress(p) \/ RegularPublish(p)
  BY <1>1, <1>11 DEF beginRegularEgress, RegularPublish, CheckGrant, PublishRegular,
                     completeRegularEgress
<1>12. CASE Process
  BY <1>1, <1>n, <1>12 DEF Process, stop, WorkerStops, Crash, start
<1> QED BY <1>1, <1>2, <1>3, <1>4, <1>5, <1>7, <1>8, <1>9, <1>10, <1>11, <1>12,
           WorkerMoveFact DEF Next, Turn

\* What is known after a step was known before it or is new.
LEMMA KnownStep ==
    ASSUME IType, [Next]_fireVars, NEW f \in Known', f \notin Known
    PROVE  NewFact(f)
<1>1. FactsOf(w'.taken) \subseteq Known
  BY WorkerStep DEF WorkerMove
<1>2. Known' = FactsOf(co'.facts) \cup FactsOf(w'.taken)
  BY DEF Known, FactsOf
<1> QED BY <1>1, <1>2, QueuedStep DEF Known

\* Readiness shrinks, or is computed anew from what the worker has synced.
LEMMA ReadinessStep ==
    ASSUME IType, [Next]_fireVars
    PROVE  \/ /\ co'.egressEpoch \in {0, co.egressEpoch}
              /\ \A c \in Channels : co'.ready[c] \in {0, co.ready[c]}
           \/ /\ recomputeReadiness
              /\ co'.egressEpoch \in {0, w.epoch}
              /\ \A c \in Channels : co'.ready[c] \in {0, w.synced[c]}
<1> USE DEF fireVars
<1> DEFINE Shrinks == /\ co'.egressEpoch \in {0, co.egressEpoch}
                      /\ \A c \in Channels : co'.ready[c] \in {0, co.ready[c]}
<1>0. /\ co \in Coordinators /\ w \in WorkerStates /\ \A c \in Channels : Unsent[c] = 0
  BY DEF IType, TypeOK, Unsent
<1>c. ASSUME Closes(co, co') PROVE Shrinks
  BY <1>0, <1>c DEF Closes
<1>1. CASE UNCHANGED co
  BY <1>1
<1>2. CASE ClosingStep
  BY <1>2, <1>c, ClosingCo
<1>3. CASE ObserveGeneration \/ beginLifecycleRelease \/ endLifecycleRelease \/ updateIdleState
  BY <1>0, <1>3 DEF ObserveGeneration, beginLifecycleRelease, endLifecycleRelease,
                    updateIdleState, Coordinators
<1>4. CASE recomputeReadiness
  <2> DEFINE ready == [c \in Channels |-> IF ReadyNow(c) THEN w.listed[c] ELSE 0]
             epoch == IF \A c \in Channels : ReadyNow(c) THEN w.epoch ELSE 0
  <2>1. co' = [co EXCEPT !.ready = ready, !.egressEpoch = epoch]
    BY <1>4 DEF recomputeReadiness
  <2>2. epoch \in {0, w.epoch} /\ \A c \in Channels : ready[c] \in {0, w.synced[c]}
    BY DEF ReadyNow
  <2> HIDE DEF ready, epoch
  <2>3. co'.ready = ready /\ co'.egressEpoch = epoch
    BY <1>0, <2>1 DEF Coordinators
  <2> QED BY <1>4, <2>2, <2>3
<1>5. CASE recomputeReadiness \/ recoverActorFailure
  <2>1. ASSUME recoverActorFailure PROVE Shrinks
    <3> DEFINE s == [co EXCEPT !.releasing = FALSE, !.fresh = @ \ {Worker}]
    <3>1. s \in Coordinators /\ co' = failCloseAllReadiness(s)
      BY <1>0, <2>1 DEF Coordinators, recoverActorFailure
    <3> HIDE DEF s
    <3>2. co'.ready = Unsent /\ co'.egressEpoch = 0
      BY <3>1, FailClosed
    <3> QED BY <1>0, <3>2
  <2> QED BY <1>4, <1>5, <2>1
<1>6. ASSUME NEW c \in Channels, beginDomainMutation(c) PROVE Shrinks
  <2> DEFINE s == [co EXCEPT !.open = @ \cup {c}]
  <2>1. s \in Coordinators /\ s.ready = co.ready /\ co' = CloseChannel(s, c)
    BY <1>0, <1>6 DEF Coordinators, beginDomainMutation
  <2> HIDE DEF s
  <2>2. CloseChannel(s, c).ready = [s.ready EXCEPT ![c] = 0]
        /\ CloseChannel(s, c).egressEpoch = 0
    BY <2>1, ChannelClosed
  <2> QED BY <1>0, <2>1, <2>2 DEF Coordinators, Revisions
<1>7. CASE MutationTimesOut \/ completeDomainMutation
  <2> DEFINE s == [co EXCEPT !.open = @ \ {mutation.channel}]
             t == invalidateRegularEgress(s)
  <2>1. s \in Coordinators /\ s.ready = co.ready
    BY <1>0 DEF Coordinators
  <2>2. co' = [t EXCEPT !.changed = TRUE]
    BY <1>7 DEF MutationTimesOut, completeDomainMutation, LeaveBoundary
  <2> HIDE DEF s
  <2>3. t \in Coordinators /\ t.ready = s.ready /\ t.egressEpoch = 0
    BY <2>1, Invalidated
  <2> HIDE DEF t
  <2> QED BY <2>1, <2>2, <2>3 DEF Coordinators
<1>8. CASE notifyOutboxChanged \/ \E c \in Channels : notifyUnchanged(c)
  <2>0. PICK c \in Channels : co' = CloseChannel(co, c)
    BY <1>8 DEF notifyOutboxChanged, notifyUnchanged, Mutating, IType
  <2> DEFINE t == CloseChannel(co, c)
  <2>1. co' = t
    BY <2>0
  <2>2. t.ready = [co.ready EXCEPT ![c] = 0] /\ t.egressEpoch = 0
    BY <1>0, <2>1, ChannelClosed
  <2> HIDE DEF t
  <2> QED BY <1>0, <2>1, <2>2 DEF Coordinators, Revisions
<1>9. CASE ListRetained \/ ReadPending \/ CommitRevision \/ MutationDrained \/ MutationFails
  BY <1>9 DEF ListRetained, ReadPending, CommitRevision, MutationDrained, MutationFails
<1>10. CASE \E p \in Publishers : beginRegularEgress(p) \/ RegularPublish(p)
  BY <1>0, <1>10 DEF beginRegularEgress, RegularPublish, CheckGrant, PublishRegular,
                     completeRegularEgress, Coordinators
<1>11. CASE Crash \/ start
  BY <1>0, <1>11 DEF Crash, start, NewCoordinator
<1> QED BY <1>1, <1>2, <1>3, <1>4, <1>5, <1>6, <1>7, <1>8, <1>9, <1>10, <1>11
        DEF Next, ClosingStep, Turn, Boundary, Process

Holds(g) == g.phase \in {"granted", "checked"}

\* A permit is given by beginRegularEgress, for the epoch of readiness.
LEMMA PermitStep ==
    ASSUME IType, [Next]_fireVars, NEW p \in Publishers
    PROVE  \/ beginRegularEgress(p) /\ egress'[p].epoch = co.egressEpoch
           \/ /\ egress'[p].epoch \in {0, egress[p].epoch}
              /\ Holds(egress'[p]) =>
                     Holds(egress[p]) /\ egress'[p].epoch = egress[p].epoch
<1> USE DEF fireVars
<1>0. egress \in [Publishers -> [phase : {"off", "granted", "checked", "sent", "done"},
                                 epoch : Nat]]
  BY DEF IType, TypeOK
<1>1. CASE UNCHANGED egress
  BY <1>1
<1>2. ASSUME NEW q \in Publishers, beginRegularEgress(q) PROVE
           \/ beginRegularEgress(p) /\ egress'[p].epoch = co.egressEpoch
           \/ egress'[p] = egress[p]
  BY <1>0, <1>2 DEF beginRegularEgress
<1>3. ASSUME NEW q \in Publishers, RegularPublish(q) PROVE
           /\ egress'[p].epoch \in {0, egress[p].epoch}
           /\ Holds(egress'[p]) => Holds(egress[p]) /\ egress'[p].epoch = egress[p].epoch
  <2>1. CASE CheckGrant(q)
    BY <1>0, <2>1 DEF CheckGrant, Holds
  <2>2. CASE PublishRegular(q)
    BY <1>0, <2>2 DEF PublishRegular, Holds
  <2>3. CASE completeRegularEgress(q)
    BY <1>0, <2>3 DEF completeRegularEgress, NoEgress, Holds
  <2> QED BY <1>3, <2>1, <2>2, <2>3 DEF RegularPublish
<1>4. CASE Transport \/ BrokerReceives
  BY <1>1, <1>4 DEF Transport, Connected, SubscriptionsReady, Disconnected,
                    PublishAcknowledged, BrokerReceives
<1>5. CASE Turn \/ \E c \in Channels : RetryElapses(c)
  BY <1>1, <1>5
     DEF Turn, TakeFacts, processFact, HandleOverflow, FactsDone, expirePubAckDeadline,
         ObserveGeneration, ListRetained, recomputeReadiness, beginLifecycleRelease,
         endLifecycleRelease, ReadPending, updateIdleState, recoverActorFailure,
         RetryElapses, PublishRetained, PublishLifecycle
<1>6. CASE (\E c \in Channels : beginDomainMutation(c)) \/ CommitRevision \/ Boundary
  BY <1>1, <1>6 DEF beginDomainMutation, CommitRevision, Boundary, MutationDrained,
                    MutationTimesOut, MutationFails, completeDomainMutation,
                    notifyOutboxChanged, notifyUnchanged
<1>7. CASE Process
  BY <1>1, <1>7 DEF Process, stop, WorkerStops, Crash, start, NoEgress, Holds
<1> QED BY <1>1, <1>2, <1>3, <1>4, <1>5, <1>6, <1>7 DEF Next

-----------------------------------------------------------------------------
(***************************************************************************)
(* Epochs                                                                  *)
(***************************************************************************)
\* Nothing knows of a connection that was never opened.
EpochInv ==
    /\ \A f \in Known : f.epoch <= link.epoch
    /\ w.epoch <= link.epoch
    /\ co.egressEpoch <= link.epoch
    /\ \A p \in Publishers : egress[p].epoch <= link.epoch
    /\ link.phase # "none" => link.epoch > 0

LEMMA EpochInit == Init => EpochInv
<1> SUFFICES ASSUME Init PROVE EpochInv
  OBVIOUS
<1>1. Known = {}
  BY FactsOfEmpty DEF Init, NewCoordinator, NewWorker, Known
<1> QED BY <1>1 DEF Init, EpochInv, NewCoordinator, NewWorker, NoEgress

LEMMA Epochs ==
    ASSUME IType
    PROVE  /\ link.epoch \in Nat /\ w.epoch \in Nat /\ co.egressEpoch \in Nat
           /\ \A f \in Known : f.epoch \in Nat
           /\ \A p \in Publishers : egress[p].epoch \in Nat
           /\ link.phase \in {"none", "connected", "ready", "aborting"}
<1>1. \A f \in Facts : f.epoch \in Nat
  BY DEF Facts
<1> QED BY <1>1, KnownType DEF IType, TypeOK, WorkerStates, Coordinators

LEMMA EpochStep ==
    ASSUME IType, EpochInv, [Next]_fireVars
    PROVE  EpochInv'
<1>0. /\ link.epoch \in Nat /\ w.epoch \in Nat /\ co.egressEpoch \in Nat
      /\ \A f \in Known : f.epoch \in Nat
      /\ \A p \in Publishers : egress[p].epoch \in Nat
  BY Epochs
<1>1. /\ link'.epoch \in {link.epoch, link.epoch + 1}
      /\ link'.phase # "none" => link'.epoch > 0
  BY <1>0, LinkStep DEF EpochInv, Connected
<1>2. ASSUME NEW f \in Known' PROVE f.epoch <= link'.epoch
  <2>1. f \in Known \/ f.epoch = link'.epoch
    BY <1>2, KnownStep DEF NewFact
  <2> QED BY <1>0, <1>1, <2>1 DEF EpochInv
<1>3. w'.epoch <= link'.epoch
  <2>1. w'.epoch \in {0, w.epoch} \cup {f.epoch : f \in Known}
    BY WorkerStep DEF WorkerMove
  <2> QED BY <1>0, <1>1, <2>1 DEF EpochInv
<1>4. co'.egressEpoch <= link'.epoch
  <2>1. co'.egressEpoch \in {0, co.egressEpoch, w.epoch}
    BY ReadinessStep
  <2> QED BY <1>0, <1>1, <2>1 DEF EpochInv
<1>5. ASSUME NEW p \in Publishers PROVE egress'[p].epoch <= link'.epoch
  <2>1. egress'[p].epoch \in {0, egress[p].epoch, co.egressEpoch}
    BY <1>5, PermitStep
  <2> QED BY <1>0, <1>1, <2>1 DEF EpochInv
<1> QED BY <1>1, <1>2, <1>3, <1>4, <1>5 DEF EpochInv

-----------------------------------------------------------------------------
(***************************************************************************)
(* Lifecycle rows                                                          *)
(***************************************************************************)
Owed == {"PENDING", "IN_FLIGHT"}

\* A row is acknowledged if the broker has gone past it, and only if the broker
\* has heard of it; a message in flight has a row that is not acknowledged.
RowsInv ==
    /\ \A c \in Channels, r \in 2..MaxRevision :
           /\ lifecycle[c][r] = "ABSENT" <=> r > Rev(c)
           /\ r < heard[c] => lifecycle[c][r] = "ACKED"
           /\ lifecycle[c][r] = "ACKED" => r <= heard[c]
    /\ \A m \in w.inflight : m.kind = "lifecycle" =>
           m.rev \in 2..MaxRevision /\ lifecycle[m.channel][m.rev] \in Owed

\* The broker has heard of every lifecycle message that was acknowledged.
AckInv ==
    /\ \A i \in 1..Len(acks) :
           acks[i].kind = "lifecycle" => acks[i].rev <= heard[acks[i].channel]
    /\ \A f \in Known : f.kind = "Acked" /\ f.message.kind = "lifecycle" =>
           f.message.rev <= heard[f.message.channel]

RowMoves(c, r) ==
    \/ lifecycle'[c][r] = lifecycle[c][r]
    \/ lifecycle[c][r] \in Owed /\ lifecycle'[c][r] \in Owed
    \/ lifecycle[c][r] \in Owed /\ lifecycle'[c][r] = "ACKED" /\ r <= heard[c]

RowsMove ==
    /\ \A c \in Channels, r \in 2..MaxRevision : RowMoves(c, r)
    /\ \A m \in w'.inflight : m.kind = "lifecycle" =>
           m.rev \in 2..MaxRevision /\ lifecycle'[m.channel][m.rev] \in Owed

LEMMA MessageIs ==
    /\ \A m \in Messages : m = Message(m.kind, m.channel, m.rev)
    /\ \A k, c, r : /\ Message(k, c, r).kind = k /\ Message(k, c, r).channel = c
                    /\ Message(k, c, r).rev = r
BY DEF Messages, Message

\* Everything in flight is due again.
LEMMA RowsGivenUp ==
    ASSUME IType, RowsInv, SetRows(w.inflight, "PENDING"), w'.inflight = {}
    PROVE  RowsMove
<1>0. RowsTyped /\ "PENDING" \in RowStates
  BY RowsOf DEF RowStates
<1>1. ASSUME NEW c \in Channels, NEW r \in 2..MaxRevision PROVE RowMoves(c, r)
  <2> DEFINE m == Message("lifecycle", c, r)
  <2>1. lifecycle'[c][r] = IF m \in w.inflight THEN "PENDING" ELSE lifecycle[c][r]
    BY <1>0, RowsSet
  <2>2. m.kind = "lifecycle" /\ m.channel = c /\ m.rev = r
    BY MessageIs
  <2> HIDE DEF m
  <2> QED BY <2>1, <2>2 DEF RowsInv, RowMoves, Owed
<1> QED BY <1>1 DEF RowsMove

LEMMA RowsPublished ==
    ASSUME IType, RowsInv, NEW m, publish(m), m.kind \in {"retained", "lifecycle"},
           m.kind = "lifecycle" =>
               /\ m.channel \in Channels /\ m.rev \in 2..MaxRevision
               /\ lifecycle[m.channel][m.rev] \in Owed
    PROVE  RowsMove
<1> USE DEF outbox
<1>0. /\ RowsTyped /\ "PENDING" \in RowStates /\ "IN_FLIGHT" \in RowStates
      /\ w \in WorkerStates
  BY RowsOf DEF RowStates, IType, TypeOK
<1>1. \/ UNCHANGED lifecycle
      \/ \E st \in Owed : SetRows({m}, st)
  BY DEF publish, Owed
<1>2. \A n \in w'.inflight : n \in w.inflight \/ n = m
  <2> DEFINE ww == [w EXCEPT !.todo = @ \ {m.channel}]
             delayed == [ww EXCEPT !.deferred = @ \cup {m.channel}]
             sent == [ww EXCEPT !.inflight = @ \cup {m}, !.deferred = @ \ {m.channel}]
  <2>1. w' = delayed \/ w' = sent
    BY DEF publish
  <2>2. w'.inflight \subseteq w.inflight \cup {m}
    BY <1>0, <2>1 DEF WorkerStates
  <2> QED BY <2>2
<1>3. ASSUME NEW c \in Channels, NEW r \in 2..MaxRevision
      PROVE  /\ RowMoves(c, r)
             /\ lifecycle[c][r] \in Owed => lifecycle'[c][r] \in Owed
  <2> DEFINE n == Message("lifecycle", c, r)
  <2>1. n.kind = "lifecycle" /\ n.channel = c /\ n.rev = r
    BY MessageIs
  <2>2. ASSUME NEW st \in Owed, SetRows({m}, st)
        PROVE  lifecycle'[c][r] = IF n = m THEN st ELSE lifecycle[c][r]
    <3>1. lifecycle'[c][r] = IF n \in {m} THEN st ELSE lifecycle[c][r]
      BY <1>0, <2>2, RowsSet DEF Owed
    <3> QED BY <3>1
  <2> HIDE DEF n
  <2> QED BY <1>1, <2>1, <2>2 DEF RowMoves
<1>4. ASSUME NEW n \in w'.inflight, n.kind = "lifecycle"
      PROVE  n.rev \in 2..MaxRevision /\ lifecycle'[n.channel][n.rev] \in Owed
  <2>1. n.rev \in 2..MaxRevision /\ lifecycle[n.channel][n.rev] \in Owed /\ n.channel \in Channels
    BY <1>0, <1>2, <1>4 DEF RowsInv, WorkerStates, Messages
  <2> QED BY <1>3, <2>1
<1> QED BY <1>3, <1>4 DEF RowsMove

LEMMA RowsAcked ==
    ASSUME IType, RowsInv, AckInv, NEW f \in Known, NEW ww \in WorkerStates,
           ww.inflight = w.inflight, NEW stored \in BOOLEAN, FactAcked(f, ww, stored)
    PROVE  RowsMove
<1> USE DEF outbox
<1> DEFINE m == f.message
<1>0. RowsTyped /\ "ACKED" \in RowStates /\ w.inflight \subseteq Messages
  BY RowsOf DEF RowStates, IType, TypeOK, WorkerStates
<1>1. m \in w.inflight /\ f.kind = "Acked" /\ m \in Messages
  BY <1>0 DEF FactAcked, AckInFlight
<1>2. w'.inflight = w.inflight \ {m}
  BY DEF FactAcked, WorkerStates
<1>3. UNCHANGED lifecycle \/ SetRows({m}, "ACKED")
  BY DEF FactAcked
<1> HIDE DEF m
<1>4. m.kind = "lifecycle" =>
          /\ m.rev \in 2..MaxRevision /\ lifecycle[m.channel][m.rev] \in Owed
          /\ m.rev <= heard[m.channel]
  BY <1>1 DEF RowsInv, AckInv, m
<1>5. ASSUME NEW c \in Channels, NEW r \in 2..MaxRevision
      PROVE  /\ RowMoves(c, r)
             /\ Message("lifecycle", c, r) # m => lifecycle'[c][r] = lifecycle[c][r]
  <2> DEFINE n == Message("lifecycle", c, r)
  <2>1. n.kind = "lifecycle" /\ n.channel = c /\ n.rev = r
    BY MessageIs
  <2>2. ASSUME SetRows({m}, "ACKED")
        PROVE  lifecycle'[c][r] = IF n = m THEN "ACKED" ELSE lifecycle[c][r]
    <3>1. lifecycle'[c][r] = IF n \in {m} THEN "ACKED" ELSE lifecycle[c][r]
      BY <1>0, <2>2, RowsSet
    <3> QED BY <3>1
  <2> HIDE DEF n
  <2>3. n # m => lifecycle'[c][r] = lifecycle[c][r]
    BY <1>3, <2>2
  <2>4. RowMoves(c, r)
    BY <1>3, <1>4, <2>1, <2>2 DEF RowMoves
  <2> QED BY <2>3, <2>4 DEF n
<1>6. ASSUME NEW n \in w'.inflight, n.kind = "lifecycle"
      PROVE  n.rev \in 2..MaxRevision /\ lifecycle'[n.channel][n.rev] \in Owed
  <2>1. /\ n \in w.inflight /\ n # m /\ n \in Messages /\ n.channel \in Channels
        /\ n.rev \in 2..MaxRevision /\ lifecycle[n.channel][n.rev] \in Owed
    BY <1>0, <1>2, <1>6 DEF RowsInv, Messages
  <2>2. n = Message("lifecycle", n.channel, n.rev)
    BY <1>6, <2>1, MessageIs
  <2> QED BY <1>5, <2>1, <2>2
<1> QED BY <1>5, <1>6 DEF RowsMove

LEMMA RowsStep ==
    ASSUME IType, RowsInv, AckInv, [Next]_fireVars, ~CommitRevision
    PROVE  RowsMove
<1> USE DEF outbox, fireVars
<1>0. /\ RowsTyped /\ RowStates = {"ABSENT", "PENDING", "IN_FLIGHT", "ACKED"}
      /\ w \in WorkerStates
  BY RowsOf DEF RowStates, IType, TypeOK
<1>s. ASSUME UNCHANGED lifecycle, w'.inflight \subseteq w.inflight PROVE RowsMove
  BY <1>s DEF RowsMove, RowMoves, RowsInv
<1>1. CASE UNCHANGED <<lifecycle, w>>
  BY <1>1, <1>s
<1>2. CASE processFact
  <2> DEFINE f == Head(w.taken)
             ww == [w EXCEPT !.taken = Tail(@)]
  <2>1. f \in Known /\ ww \in WorkerStates /\ ww.inflight = w.inflight
    <3>1. w.taken # <<>> /\ w.taken \in Seq(Facts)
      BY <1>0, <1>2 DEF processFact, WorkerStates
    <3>2. f \in Known /\ ww \in WorkerStates
      BY <3>1, HeadFact, FactsOfHead DEF Known
    <3> QED BY <1>0, <3>2 DEF WorkerStates
  <2>2. \/ FactConnected(f, ww) \/ FactReady(f, ww) \/ FactDown(f, ww) \/ FactIgnored(f, ww)
        \/ \E stored \in BOOLEAN : FactAcked(f, ww, stored)
    BY <1>2 DEF processFact
  <2> HIDE DEF f, ww
  <2>3. Forget(ww) \in WorkerStates /\ Forget(ww).inflight = {}
    BY <2>1, ForgetType DEF Forget, WorkerStates
  <2>4. CASE FactConnected(f, ww)
    <3> DEFINE d == IF w.epoch = 0 THEN w.deferred ELSE {}
    <3>1. w' = [Forget(ww) EXCEPT !.epoch = f.epoch, !.deferred = d]
          /\ SetRows(w.inflight, "PENDING")
      BY <2>4 DEF FactConnected
    <3> HIDE DEF d
    <3>2. w'.inflight = {}
      BY <2>3, <3>1 DEF WorkerStates
    <3> QED BY <3>1, <3>2, RowsGivenUp
  <2>5. CASE FactReady(f, ww)
    <3>1. w'.inflight = w.inflight /\ UNCHANGED lifecycle
      BY <2>1, <2>5 DEF FactReady, WorkerStates
    <3> QED BY <1>s, <3>1
  <2>6. CASE FactDown(f, ww)
    BY <2>3, <2>6, RowsGivenUp DEF FactDown, disconnectEpoch
  <2>7. CASE FactIgnored(f, ww)
    BY <1>s, <2>1, <2>7 DEF FactIgnored
  <2> QED BY <2>1, <2>2, <2>4, <2>5, <2>6, <2>7, RowsAcked
<1>3. CASE HandleOverflow
  <2> DEFINE ww == [w EXCEPT !.overflow = FALSE, !.overflowEpoch = 0]
  <2>1. ww \in WorkerStates /\ ww.inflight = w.inflight
    BY <1>0 DEF WorkerStates
  <2>2. disconnectEpoch(ww) \/ (w' = ww /\ UNCHANGED lifecycle)
    BY <1>3 DEF HandleOverflow
  <2> HIDE DEF ww
  <2>3. Forget(ww).inflight = {}
    BY <2>1 DEF Forget, WorkerStates
  <2> QED BY <1>s, <2>1, <2>2, <2>3, RowsGivenUp DEF disconnectEpoch
<1>4. CASE expirePubAckDeadline
  <2> DEFINE ww == [w EXCEPT !.phase = "pump"]
  <2>1. ww \in WorkerStates
    BY <1>0 DEF WorkerStates, Phases
  <2>2. disconnectEpoch(ww)
    BY <1>4 DEF expirePubAckDeadline
  <2> HIDE DEF ww
  <2>3. Forget(ww).inflight = {}
    BY <2>1 DEF Forget, WorkerStates
  <2> QED BY <2>2, <2>3, RowsGivenUp DEF disconnectEpoch
<1>5. CASE recoverActorFailure
  <2> DEFINE state == [m \in w.inflight |->
                 IF w.phase = "facts" /\ m = Head(w.taken).message THEN "ACKED" ELSE "PENDING"]
  <2>1. /\ state \in [w.inflight -> RowStates] /\ UpdateRows(state)
        /\ w'.inflight = {}
    BY <1>0, <1>5 DEF recoverActorFailure, Forget, NewWorker
  <2>2. \A m \in w.inflight : m.kind = "lifecycle" => state[m] = "PENDING"
    BY <1>5 DEF recoverActorFailure, ReadsBack
  <2> HIDE DEF state
  <2>3. ASSUME NEW c \in Channels, NEW r \in 2..MaxRevision PROVE RowMoves(c, r)
    <3> DEFINE m == Message("lifecycle", c, r)
    <3>1. lifecycle'[c][r] = IF m \in w.inflight THEN state[m] ELSE lifecycle[c][r]
      BY <1>0, <2>1, RowsUpdated
    <3>2. m.kind = "lifecycle" /\ m.channel = c /\ m.rev = r
      BY MessageIs
    <3> HIDE DEF m
    <3> QED BY <2>2, <3>1, <3>2 DEF RowsInv, RowMoves, Owed
  <2> QED BY <2>1, <2>3 DEF RowsMove
<1>6. ASSUME NEW c \in Channels, PublishRetained(c) PROVE RowsMove
  <2> DEFINE m == Message("retained", c, w.listed[c])
  <2>1. publish(m) /\ m.kind = "retained"
    BY <1>6, MessageIs DEF PublishRetained
  <2> HIDE DEF m
  <2> QED BY <2>1, RowsPublished
<1>7. ASSUME NEW c \in Channels, PublishLifecycle(c) PROVE RowsMove
  <2>1. PICK r \in 2..MaxRevision : /\ FirstPending(c, r)
                                    /\ publish(Message("lifecycle", c, r))
    BY <1>7 DEF PublishLifecycle
  <2> DEFINE m == Message("lifecycle", c, r)
  <2>2. m.kind = "lifecycle" /\ m.channel = c /\ m.rev = r /\ publish(m)
    BY <2>1, MessageIs
  <2>3. lifecycle[c][r] \in Owed
    BY <2>1 DEF FirstPending, PendingLifecycle, Owed
  <2> HIDE DEF m
  <2> QED BY <2>2, <2>3, RowsPublished
<1>8. CASE WorkerStops
  BY <1>8, RowsGivenUp DEF WorkerStops, NewWorker
<1>9. CASE start
  <2>1. w'.inflight = {}
    BY <1>9 DEF start, NewWorker
  <2>2. ASSUME NEW c \in Channels, NEW r \in 2..MaxRevision PROVE RowMoves(c, r)
    <3>1. lifecycle'[c][r] = Reset(lifecycle[c][r])
      BY <1>9 DEF start
    <3> QED BY <3>1 DEF Reset, RowMoves, Owed
  <2> QED BY <2>1, <2>2 DEF RowsMove
<1>10. CASE Crash
  BY <1>10, <1>s DEF Crash, NewWorker
<1>11. CASE TakeFacts \/ FactsDone \/ ObserveGeneration \/ ListRetained \/ recomputeReadiness
            \/ beginLifecycleRelease \/ endLifecycleRelease \/ ReadPending \/ updateIdleState
            \/ \E c \in Channels : RetryElapses(c)
  <2>1. w'.inflight = w.inflight /\ UNCHANGED lifecycle
    BY <1>0, <1>11 DEF TakeFacts, FactsDone, ObserveGeneration, ListRetained,
          recomputeReadiness, beginLifecycleRelease, endLifecycleRelease, ReadPending,
          updateIdleState, RetryElapses, WorkerStates
  <2> QED BY <1>s, <2>1
<1>12. CASE Transport \/ BrokerReceives
  BY <1>1, <1>12 DEF Transport, Connected, SubscriptionsReady, Disconnected,
                     PublishAcknowledged, BrokerReceives
<1>13. CASE (\E c \in Channels : beginDomainMutation(c)) \/ Boundary
  BY <1>1, <1>13 DEF beginDomainMutation, Boundary, MutationDrained, MutationTimesOut,
                     MutationFails, completeDomainMutation, notifyOutboxChanged, notifyUnchanged
<1>14. CASE \E p \in Publishers : beginRegularEgress(p) \/ RegularPublish(p)
  BY <1>1, <1>14 DEF beginRegularEgress, RegularPublish, CheckGrant, PublishRegular,
                     completeRegularEgress
<1>15. CASE Process
  BY <1>1, <1>8, <1>9, <1>10, <1>15 DEF Process, stop
<1> QED BY <1>1, <1>2, <1>3, <1>4, <1>5, <1>6, <1>7, <1>11, <1>12, <1>13, <1>14, <1>15
        DEF Next, Turn

\* A commit adds a row for the next revision.
LEMMA CommitEffect ==
    ASSUME IType, CommitRevision
    PROVE  /\ mutation.channel \in Channels
           /\ Rev(mutation.channel) + 1 \in 2..MaxRevision
           /\ \A c \in Channels :
                 Rev(c)' = IF c = mutation.channel THEN Rev(c) + 1 ELSE Rev(c)
           /\ \A c \in Channels, r \in 2..MaxRevision :
                 lifecycle'[c][r] =
                     IF c = mutation.channel /\ r = Rev(c) + 1 THEN "PENDING"
                     ELSE lifecycle[c][r]
           /\ UNCHANGED <<co, w, link, broker, egress>>
<1> DEFINE d == mutation.channel
           k == retained[d].rev + 1
<1>1. /\ d \in Channels /\ k \in 2..MaxRevision
      /\ retained \in [Channels -> [rev : 1..MaxRevision, state : RowStates]]
      /\ lifecycle \in [Channels -> [2..MaxRevision -> RowStates]]
  BY FireAssumption DEF CommitRevision, Mutating, IType, TypeOK
<1>2. /\ retained' = [retained EXCEPT ![d] = [rev |-> k, state |-> "PENDING"]]
      /\ lifecycle' = [lifecycle EXCEPT ![d][k] = "PENDING"]
      /\ UNCHANGED <<co, w, link, broker, egress>>
  BY DEF CommitRevision
<1>3. \A c \in Channels, r \in 2..MaxRevision :
          lifecycle'[c][r] = IF c = d /\ r = k THEN "PENDING" ELSE lifecycle[c][r]
  <2> HIDE DEF d, k
  <2> QED BY <1>1, <1>2
<1>4. retained'[d].rev = k /\ \A c \in Channels : c # d => retained'[c].rev = retained[c].rev
  <2> HIDE DEF d, k
  <2> QED BY <1>1, <1>2
<1>5. /\ Rev(d) + 1 = k
      /\ \A c \in Channels : Rev(c)' = IF c = d THEN Rev(c) + 1 ELSE Rev(c)
  BY <1>4 DEF Rev
<1>6. \A c \in Channels, r \in 2..MaxRevision :
          lifecycle'[c][r] = IF c = d /\ r = Rev(c) + 1 THEN "PENDING" ELSE lifecycle[c][r]
  BY <1>3, <1>5
<1> QED BY <1>1, <1>2, <1>5, <1>6

LEMMA RevType == ASSUME IType PROVE \A c \in Channels : Rev(c) \in 1..MaxRevision
BY DEF IType, TypeOK, Rev

\* Revisions only grow, and what was acknowledged stays so.
LEMMA OutboxStep ==
    ASSUME IType, RowsInv, AckInv, [Next]_fireVars
    PROVE  /\ \A c \in Channels : Rev(c)' \in Int /\ Rev(c) <= Rev(c)'
           /\ \A c \in Channels, r \in 2..MaxRevision :
                 lifecycle[c][r] = "ACKED" => lifecycle'[c][r] = "ACKED"
<1>1. CASE CommitRevision
  <2>1. \A c \in Channels, r \in 2..MaxRevision :
            lifecycle[c][r] = "ACKED" => lifecycle'[c][r] = "ACKED"
    <3> SUFFICES ASSUME NEW c \in Channels, NEW r \in 2..MaxRevision,
                        lifecycle[c][r] = "ACKED"
                 PROVE  lifecycle'[c][r] = "ACKED"
      OBVIOUS
    <3>1. r # Rev(c) + 1
      BY RevType, FireAssumption DEF RowsInv
    <3> QED BY <1>1, <3>1, CommitEffect
  <2>2. ASSUME NEW c \in Channels PROVE Rev(c)' \in Int /\ Rev(c) <= Rev(c)'
    <3>1. Rev(c) \in Int /\ Rev(c)' \in {Rev(c), Rev(c) + 1}
      BY <1>1, <2>2, CommitEffect, RevType
    <3> QED BY <3>1
  <2> QED BY <2>1, <2>2
<1>2. CASE ~CommitRevision
  <2>1. \A c \in Channels : Rev(c)' = Rev(c)
    BY <1>2, RevisionsKept DEF Rev
  <2>2. \A c \in Channels, r \in 2..MaxRevision : RowMoves(c, r)
    BY <1>2, RowsStep DEF RowsMove
  <2> QED BY <2>1, <2>2, RevType DEF RowMoves, Owed
<1> QED BY <1>1, <1>2

-----------------------------------------------------------------------------
(***************************************************************************)
(* Messages on their way                                                   *)
(***************************************************************************)
\* A message that the broker may receive next: it takes nothing back, and a
\* lifecycle message comes after the retained one and in its turn.
InOrder(m) ==
    /\ m.rev <= Rev(m.channel)
    /\ m.kind = "retained" => held[m.channel] <= m.rev
    /\ m.kind = "lifecycle" =>
           /\ heard[m.channel] <= m.rev /\ m.rev <= held[m.channel]
           /\ \A r \in 2..(m.rev - 1) : lifecycle[m.channel][r] = "ACKED"

NotBefore(m, n) == m.kind = n.kind /\ m.channel = n.channel => n.rev <= m.rev

WireInv ==
    /\ \A c \in Channels : held[c] <= Rev(c) /\ 1 <= heard[c] /\ heard[c] <= Rev(c)
    /\ \A i \in 1..Len(wire) : InOrder(wire[i])
    /\ \A i, j \in 1..Len(wire) : i < j => NotBefore(wire[j], wire[i])

LEMMA InOrderKept ==
    ASSUME IType, RowsInv, AckInv, [Next]_fireVars, UNCHANGED <<held, heard>>,
           NEW m \in Messages, InOrder(m)
    PROVE  InOrder(m)'
<1>1. m.channel \in Channels /\ m.rev \in 1..MaxRevision
  BY DEF Messages
<1>2. Rev(m.channel) <= Rev(m.channel)' /\ Rev(m.channel)' \in Int /\ Rev(m.channel) \in Int
  BY <1>1, OutboxStep, RevType
<1>3. m.rev <= Rev(m.channel)'
  BY <1>1, <1>2 DEF InOrder
<1>4. \A r \in 2..(m.rev - 1) :
          lifecycle[m.channel][r] = "ACKED" => lifecycle'[m.channel][r] = "ACKED"
  <2>1. \A r \in 2..(m.rev - 1) : r \in 2..MaxRevision
    BY <1>1, FireAssumption
  <2> QED BY <1>1, <2>1, OutboxStep
<1> QED BY <1>3, <1>4 DEF InOrder

\* The broker receives a message.
LEMMA Receives ==
    ASSUME IType, WireInv, BrokerReceives, NEW c \in Channels
    PROVE  /\ Head(wire) \in Messages /\ InOrder(Head(wire))
           /\ held'[c] = IF Head(wire).kind = "retained" /\ Head(wire).channel = c
                         THEN Head(wire).rev ELSE held[c]
           /\ heard'[c] = IF Head(wire).kind = "lifecycle" /\ Head(wire).channel = c
                          THEN Head(wire).rev ELSE heard[c]
           /\ held'[c] \in Int /\ heard'[c] \in Int
           /\ held[c] <= held'[c] /\ held'[c] <= Rev(c)
           /\ heard[c] <= heard'[c] /\ heard'[c] <= Rev(c)
<1> DEFINE m == Head(wire)
<1>1. wire \in Seq(Messages) /\ wire # <<>>
  BY DEF BrokerReceives, IType, TypeOK
<1>2. m \in Messages /\ InOrder(m)
  <2>1. 1 \in 1..Len(wire) /\ m = wire[1] /\ m \in Messages
    BY <1>1
  <2> QED BY <2>1 DEF WireInv
<1>3. /\ held' = IF m.kind = "retained" THEN [held EXCEPT ![m.channel] = m.rev] ELSE held
      /\ heard' = IF m.kind = "lifecycle" THEN [heard EXCEPT ![m.channel] = m.rev] ELSE heard
  BY DEF BrokerReceives
<1>4. /\ held \in [Channels -> 0..MaxRevision] /\ heard \in [Channels -> 0..MaxRevision]
      /\ Rev(c) \in 1..MaxRevision
  BY RevType DEF IType, TypeOK, Revisions
<1>5. m.rev \in 1..MaxRevision /\ m.channel \in Channels
  BY <1>2 DEF Messages
<1> HIDE DEF m
<1>6. /\ held'[c] = IF m.kind = "retained" /\ m.channel = c THEN m.rev ELSE held[c]
      /\ heard'[c] = IF m.kind = "lifecycle" /\ m.channel = c THEN m.rev ELSE heard[c]
  BY <1>3, <1>4, <1>5
<1>7. held[c] <= Rev(c) /\ heard[c] <= Rev(c)
  BY DEF WireInv
<1>8. /\ held'[c] \in Int /\ heard'[c] \in Int
      /\ held[c] <= held'[c] /\ held'[c] <= Rev(c)
      /\ heard[c] <= heard'[c] /\ heard'[c] <= Rev(c)
  BY <1>2, <1>4, <1>5, <1>6, <1>7, FireAssumption DEF InOrder
<1> QED BY <1>2, <1>6, <1>8 DEF m

LEMMA BrokerType ==
    ASSUME IType
    PROVE  /\ \A c \in Channels : held[c] \in 0..MaxRevision /\ heard[c] \in 0..MaxRevision
           /\ \A i \in 1..Len(wire) : wire[i] \in Messages
           /\ \A i \in 1..Len(acks) : acks[i] \in Messages
           /\ wire \in Seq(Messages) /\ acks \in Seq(Messages)
           /\ \A m \in Messages : m.channel \in Channels /\ m.rev \in 1..MaxRevision
<1>1. wire \in Seq(Messages) /\ acks \in Seq(Messages) /\ held \in Revisions /\ heard \in Revisions
  BY DEF IType, TypeOK
<1>2. \A c \in Channels : held[c] \in 0..MaxRevision /\ heard[c] \in 0..MaxRevision
  BY <1>1 DEF Revisions
<1>3. /\ \A i \in 1..Len(wire) : wire[i] \in Messages
      /\ \A i \in 1..Len(acks) : acks[i] \in Messages
  BY <1>1
<1>4. \A m \in Messages : m.channel \in Channels /\ m.rev \in 1..MaxRevision
  BY DEF Messages
<1> QED BY <1>1, <1>2, <1>3, <1>4

\* The broker does not forget lifecycle messages.
LEMMA HeardGrows ==
    ASSUME IType, WireInv, [Next]_fireVars, NEW c \in Channels
    PROVE  heard'[c] \in Int /\ heard[c] \in Int /\ heard[c] <= heard'[c]
<1>1. heard[c] \in 0..MaxRevision
  BY BrokerType
<1>2. CASE BrokerReceives
  BY <1>1, <1>2, Receives
<1>3. CASE UNCHANGED heard
  BY <1>1, <1>3
<1> QED BY <1>2, <1>3, BrokerStep

LEMMA RowsInvStep ==
    ASSUME IType, RowsInv, AckInv, WireInv, [Next]_fireVars
    PROVE  RowsInv'
<1>0. \A c \in Channels : /\ Rev(c) \in 1..MaxRevision /\ heard[c] \in 0..MaxRevision
                          /\ heard[c] <= Rev(c)
  BY RevType, BrokerType DEF WireInv
<1>1. CASE CommitRevision
  <2>1. /\ UNCHANGED heard /\ UNCHANGED w
    BY <1>1, CommitEffect DEF broker
  <2>2. ASSUME NEW c \in Channels, NEW r \in 2..MaxRevision
        PROVE  /\ lifecycle'[c][r] = "ABSENT" <=> r > Rev(c)'
               /\ r < heard'[c] => lifecycle'[c][r] = "ACKED"
               /\ lifecycle'[c][r] = "ACKED" => r <= heard'[c]
               /\ lifecycle[c][r] \in Owed => lifecycle'[c][r] \in Owed
    <3>1. /\ Rev(c)' = IF c = mutation.channel THEN Rev(c) + 1 ELSE Rev(c)
          /\ lifecycle'[c][r] = IF c = mutation.channel /\ r = Rev(c) + 1 THEN "PENDING"
                                ELSE lifecycle[c][r]
      BY <1>1, <2>2, CommitEffect
    <3>2. /\ lifecycle[c][r] = "ABSENT" <=> r > Rev(c)
          /\ r < heard[c] => lifecycle[c][r] = "ACKED"
          /\ lifecycle[c][r] = "ACKED" => r <= heard[c]
      BY DEF RowsInv
    <3>3. r \in Int /\ Rev(c) \in Int /\ heard[c] \in Int /\ heard[c] <= Rev(c)
      BY <1>0
    <3>4. CASE c = mutation.channel /\ r = Rev(c) + 1
      BY <2>1, <3>1, <3>3, <3>4 DEF Owed
    <3>5. CASE ~(c = mutation.channel /\ r = Rev(c) + 1)
      BY <2>1, <3>1, <3>2, <3>3, <3>5
    <3> QED BY <3>4, <3>5
  <2>3. w.inflight \subseteq Messages
    BY DEF IType, TypeOK, WorkerStates
  <2> QED BY <2>1, <2>2, <2>3, BrokerType DEF RowsInv
<1>2. CASE BrokerReceives
  <2>1. UNCHANGED <<retained, lifecycle, w>>
    BY <1>2 DEF BrokerReceives, outbox
  <2>2. ASSUME NEW c \in Channels, NEW r \in 2..MaxRevision
        PROVE  /\ r < heard'[c] => lifecycle[c][r] = "ACKED"
               /\ lifecycle[c][r] = "ACKED" => r <= heard'[c]
    <3> DEFINE m == Head(wire)
    <3>1. /\ m \in Messages /\ InOrder(m) /\ heard[c] <= heard'[c] /\ heard'[c] \in Int
          /\ heard'[c] = IF m.kind = "lifecycle" /\ m.channel = c THEN m.rev ELSE heard[c]
      BY <1>2, <2>2, Receives
    <3>2. /\ r < heard[c] => lifecycle[c][r] = "ACKED"
          /\ lifecycle[c][r] = "ACKED" => r <= heard[c]
      BY DEF RowsInv
    <3> HIDE DEF m
    <3>3. m.rev \in Int /\ heard[c] \in Int
      BY <1>0, <3>1, BrokerType
    <3> QED BY <3>1, <3>2, <3>3 DEF InOrder
  <2> QED BY <2>1, <2>2 DEF RowsInv, Rev
<1>3. CASE ~CommitRevision /\ ~BrokerReceives
  <2>1. UNCHANGED heard
    BY <1>3, BrokerStep
  <2>2. \A c \in Channels : Rev(c)' = Rev(c)
    BY <1>3, RevisionsKept DEF Rev
  <2>3. RowsMove
    BY <1>3, RowsStep
  <2>4. ASSUME NEW c \in Channels, NEW r \in 2..MaxRevision
        PROVE  /\ lifecycle'[c][r] = "ABSENT" <=> r > Rev(c)'
               /\ r < heard'[c] => lifecycle'[c][r] = "ACKED"
               /\ lifecycle'[c][r] = "ACKED" => r <= heard'[c]
    <3>1. RowMoves(c, r)
      BY <2>3 DEF RowsMove
    <3>2. /\ lifecycle[c][r] = "ABSENT" <=> r > Rev(c)
          /\ r < heard[c] => lifecycle[c][r] = "ACKED"
          /\ lifecycle[c][r] = "ACKED" => r <= heard[c]
      BY DEF RowsInv
    <3> QED BY <2>1, <2>2, <3>1, <3>2 DEF RowMoves, Owed
  <2> QED BY <2>3, <2>4 DEF RowsInv, RowsMove
<1> QED BY <1>1, <1>2, <1>3

LEMMA AckInvStep ==
    ASSUME IType, WireInv, AckInv, [Next]_fireVars
    PROVE  AckInv'
<1>0. \A c \in Channels : heard'[c] \in Int /\ heard[c] \in Int /\ heard[c] <= heard'[c]
  BY HeardGrows
<1>1. ASSUME NEW m \in Messages, m.rev <= heard[m.channel] PROVE m.rev <= heard'[m.channel]
  <2>1. m.channel \in Channels /\ m.rev \in Int
    BY BrokerType
  <2> QED BY <1>0, <1>1, <2>1
<1>2. ASSUME NEW i \in 1..Len(acks'), acks'[i].kind = "lifecycle"
      PROVE  acks'[i].rev <= heard'[acks'[i].channel]
  <2>0. acks \in Seq(Messages)
    BY BrokerType
  <2>1. CASE i \in 1..Len(acks) /\ acks'[i] = acks[i]
    BY <1>1, <1>2, <2>1, BrokerType DEF AckInv
  <2>2. CASE BrokerReceives
    <3> DEFINE m == Head(wire)
    <3>1. acks' = acks \/ acks' = Append(acks, m)
      BY <2>2 DEF BrokerReceives
    <3>2. m \in Messages /\ (m.kind = "lifecycle" => heard'[m.channel] = m.rev)
      <4>1. m \in Messages
        BY <2>2, Receives, FireAssumption
      <4> QED BY <2>2, <4>1, Receives, BrokerType
    <3> HIDE DEF m
    <3>3. m.rev \in Int
      BY <3>2, BrokerType
    <3>4. CASE acks' = Append(acks, m) /\ i = Len(acks) + 1
      BY <1>2, <2>0, <3>2, <3>3, <3>4
    <3>5. CASE ~(acks' = Append(acks, m) /\ i = Len(acks) + 1)
      <4>1. i \in 1..Len(acks) /\ acks'[i] = acks[i]
        BY <1>2, <2>0, <3>1, <3>5
      <4> QED BY <2>1, <4>1
    <3> QED BY <3>4, <3>5
  <2>3. CASE PublishAcknowledged
    <3>1. acks # <<>> /\ acks' = Tail(acks)
      BY <2>3 DEF PublishAcknowledged
    <3>2. i + 1 \in 1..Len(acks) /\ acks'[i] = acks[i + 1]
      BY <1>2, <2>0, <3>1
    <3> QED BY <1>1, <1>2, <3>2, BrokerType DEF AckInv
  <2>4. CASE acks' \in {acks, <<>>}
    BY <1>2, <2>1, <2>4
  <2> QED BY <2>2, <2>3, <2>4, WireStep
<1>3. ASSUME NEW f \in Known', f.kind = "Acked", f.message.kind = "lifecycle"
      PROVE  f.message.rev <= heard'[f.message.channel]
  <2>1. CASE f \in Known
    <3>1. f.message \in Messages
      BY <1>3, <2>1, KnownType DEF Facts, NoMessage, Message
    <3> QED BY <1>1, <1>3, <2>1, <3>1 DEF AckInv
  <2>2. CASE f \notin Known
    <3>1. PublishAcknowledged /\ f.message = Head(acks)
      BY <1>3, <2>2, KnownStep DEF NewFact
    <3>2. 1 \in 1..Len(acks) /\ f.message = acks[1]
      BY <3>1, BrokerType DEF PublishAcknowledged
    <3> QED BY <1>1, <1>3, <3>2, BrokerType DEF AckInv
  <2> QED BY <2>1, <2>2
<1> QED BY <1>2, <1>3 DEF AckInv

-----------------------------------------------------------------------------
(***************************************************************************)
(* The current connection                                                  *)
(***************************************************************************)
\* While a connection lives, what anybody knows from it is what the broker
\* holds; a permit of that epoch means that nothing is owed.
CurrentInv ==
    link.phase # "none" =>
        /\ \A i \in 1..Len(acks) :
               acks[i].kind = "retained" => acks[i].rev <= held[acks[i].channel]
        /\ \A f \in Known :
               f.kind = "Acked" /\ f.epoch = link.epoch /\ f.message.kind = "retained" =>
                   f.message.rev <= held[f.message.channel]
        /\ w.epoch = link.epoch => \A c \in Channels : w.synced[c] <= held[c]
        /\ co.egressEpoch = link.epoch => \A c \in Channels : co.ready[c] <= held[c]
        /\ \A p \in Publishers : Holds(egress[p]) /\ egress[p].epoch = link.epoch =>
               \A c \in Channels : held[c] = Rev(c) /\ heard[c] = Rev(c)

\* A message that is handed to the connection may be received after all others.
LEMMA SentInOrder ==
    ASSUME IType, ReadyInv, RowsInv, WireInv, CurrentInv, Sends, wire' # wire
    PROVE  \E m \in Messages :
               /\ wire' = Append(wire, m)
               /\ InOrder(m)
               /\ \A i \in 1..Len(wire) : NotBefore(m, wire[i])
               /\ m.kind = "lifecycle" => \A c \in Channels : held[c] = Rev(c)
<1>0. \A c \in Channels : /\ Rev(c) \in 1..MaxRevision /\ held[c] \in 0..MaxRevision
                          /\ heard[c] \in 0..MaxRevision /\ held[c] <= Rev(c)
                          /\ w.synced[c] \in 0..MaxRevision
  BY RevType, BrokerType DEF WireInv, IType, TypeOK, WorkerStates, Revisions
<1>1. ASSUME NEW m, publish(m)
      PROVE  /\ wire' = Append(wire, m) /\ RowIs(m) # "ABSENT"
             /\ link.phase = "ready" /\ link.epoch = w.epoch
  BY <1>1 DEF publish, PublishableIn
<1>2. ASSUME NEW c \in Channels, PublishRetained(c)
      PROVE  \E m \in Messages : /\ wire' = Append(wire, m) /\ InOrder(m)
                                 /\ \A i \in 1..Len(wire) : NotBefore(m, wire[i])
                                 /\ m.kind # "lifecycle"
  <2> DEFINE m == Message("retained", c, w.listed[c])
  <2>1. m.kind = "retained" /\ m.channel = c /\ m.rev = w.listed[c]
    BY MessageIs
  <2>2. publish(m)
    BY <1>2 DEF PublishRetained
  <2>3. RowIs(m) # "ABSENT" => w.listed[c] = Rev(c)
    BY <2>1 DEF RowIs, Rev
  <2>4. w.listed[c] = Rev(c) /\ wire' = Append(wire, m)
    BY <1>1, <2>2, <2>3
  <2>5. m \in Messages
    BY <1>0, <2>4 DEF Message, Messages
  <2> HIDE DEF m
  <2>6. InOrder(m)
    BY <1>0, <2>1, <2>4 DEF InOrder
  <2>7. \A i \in 1..Len(wire) : NotBefore(m, wire[i])
    BY <2>1, <2>4 DEF WireInv, InOrder, NotBefore
  <2> QED BY <2>1, <2>4, <2>5, <2>6, <2>7
<1>3. ASSUME NEW c \in Channels, PublishLifecycle(c)
      PROVE  \E m \in Messages : /\ wire' = Append(wire, m) /\ InOrder(m)
                                 /\ \A i \in 1..Len(wire) : NotBefore(m, wire[i])
                                 /\ \A d \in Channels : held[d] = Rev(d)
  <2>1. PICK r \in 2..MaxRevision : /\ FirstPending(c, r)
                                    /\ publish(Message("lifecycle", c, r))
    BY <1>3 DEF PublishLifecycle
  <2> DEFINE m == Message("lifecycle", c, r)
  <2>2. /\ m.kind = "lifecycle" /\ m.channel = c /\ m.rev = r /\ publish(m)
    BY <2>1, MessageIs
  <2>3. m \in Messages /\ r \in 1..MaxRevision
    BY FireAssumption DEF Message, Messages
  <2> HIDE DEF m
  <2>4. /\ wire' = Append(wire, m) /\ link.phase = "ready" /\ link.epoch = w.epoch
    BY <1>1, <2>2
  <2>5. \A d \in Channels : w.synced[d] = Rev(d)
    BY <1>3 DEF PublishLifecycle, At, ReadyInv, Rev
  <2>6. \A d \in Channels : held[d] = Rev(d)
    <3> SUFFICES ASSUME NEW d \in Channels PROVE held[d] = Rev(d)
      OBVIOUS
    <3>1. w.synced[d] <= held[d]
      BY <2>4 DEF CurrentInv
    <3> QED BY <1>0, <2>5, <3>1
  <2>7. lifecycle[c][r] \in Owed
    BY <2>1 DEF FirstPending, PendingLifecycle, Owed
  <2>8. r <= Rev(c) /\ heard[c] <= r
    <3>1. /\ lifecycle[c][r] = "ABSENT" <=> r > Rev(c)
          /\ r < heard[c] => lifecycle[c][r] = "ACKED"
      BY DEF RowsInv
    <3>2. r \in Int /\ Rev(c) \in Int /\ heard[c] \in Int
      BY <1>0
    <3> QED BY <2>7, <3>1, <3>2 DEF Owed
  <2>9. ASSUME NEW k \in 2..(r - 1) PROVE lifecycle[c][k] = "ACKED"
    <3>1. k \in 2..MaxRevision /\ k < r /\ k \in Int /\ r \in Int /\ Rev(c) \in Int
      BY <1>0, FireAssumption
    <3>2. k \notin PendingLifecycle(c)
      BY <2>1, <3>1 DEF FirstPending
    <3>3. lifecycle[c][k] \in RowStates /\ lifecycle[c][k] \notin Owed
      <4>1. lifecycle[c][k] \in RowStates
        <5>1. lifecycle[c] \in [2..MaxRevision -> RowStates]
          BY DEF IType, TypeOK
        <5> QED BY <3>1, <5>1
      <4>2. lifecycle[c][k] \notin Owed
        BY <3>1, <3>2 DEF PendingLifecycle, Owed
      <4> QED BY <4>1, <4>2
    <3>4. lifecycle[c][k] # "ABSENT"
      <4>1. lifecycle[c][k] = "ABSENT" <=> k > Rev(c)
        BY <3>1 DEF RowsInv
      <4> QED BY <2>8, <3>1, <4>1
    <3> QED BY <3>3, <3>4 DEF RowStates, Owed
  <2>10. InOrder(m)
    BY <2>2, <2>6, <2>8, <2>9 DEF InOrder
  <2>11. ASSUME NEW i \in 1..Len(wire) PROVE NotBefore(m, wire[i])
    <3> DEFINE n == wire[i]
    <3>1. n \in Messages /\ InOrder(n)
      BY BrokerType DEF WireInv
    <3> SUFFICES ASSUME n.kind = "lifecycle", n.channel = c PROVE n.rev <= r
      BY <2>2 DEF NotBefore
    <3>2. \A k \in 2..(n.rev - 1) : lifecycle[c][k] = "ACKED"
      BY <3>1 DEF InOrder
    <3>3. n.rev \in Int
      BY <3>1, BrokerType
    <3> HIDE DEF n
    <3>4. ~(r \in 2..(n.rev - 1))
      BY <2>7, <3>2 DEF Owed
    <3> QED BY <3>3, <3>4
  <2> QED BY <2>3, <2>4, <2>6, <2>10, <2>11
<1> QED BY <1>2, <1>3 DEF Sends

LEMMA WireInvStep ==
    ASSUME IType, ReadyInv, RowsInv, AckInv, WireInv, CurrentInv, [Next]_fireVars
    PROVE  WireInv'
<1>0. /\ wire \in Seq(Messages)
      /\ \A c \in Channels : /\ Rev(c) \in Int /\ held[c] \in Int /\ heard[c] \in Int
                             /\ held[c] <= Rev(c) /\ 1 <= heard[c] /\ heard[c] <= Rev(c)
                             /\ Rev(c)' \in Int /\ Rev(c) <= Rev(c)'
  BY RevType, BrokerType, OutboxStep DEF WireInv
<1>1. CASE BrokerReceives
  <2> DEFINE m == Head(wire)
  <2>1. /\ wire # <<>> /\ wire' = Tail(wire) /\ UNCHANGED <<retained, lifecycle>>
    BY <1>1 DEF BrokerReceives, outbox
  <2>2. \A c \in Channels : Rev(c)' = Rev(c)
    BY <2>1 DEF Rev
  <2>3. \A c \in Channels : /\ held'[c] <= Rev(c)' /\ 1 <= heard'[c] /\ heard'[c] <= Rev(c)'
    <3> SUFFICES ASSUME NEW c \in Channels
                 PROVE  held'[c] <= Rev(c)' /\ 1 <= heard'[c] /\ heard'[c] <= Rev(c)'
      OBVIOUS
    <3>1. /\ held'[c] <= Rev(c) /\ heard'[c] <= Rev(c)
          /\ heard[c] <= heard'[c] /\ heard'[c] \in Int
      BY <1>1, Receives
    <3> QED BY <1>0, <2>2, <3>1
  <2>4. \A i \in 1..Len(wire') : i + 1 \in 1..Len(wire) /\ wire'[i] = wire[i + 1]
    BY <1>0, <2>1
  <2>5. 1 \in 1..Len(wire) /\ m = wire[1]
    BY <1>0, <2>1
  <2>6. ASSUME NEW n \in Messages, InOrder(n), NotBefore(n, m) PROVE InOrder(n)'
    <3>1. n.channel \in Channels /\ n.rev \in Int
      BY BrokerType
    <3> DEFINE c == n.channel
    <3>2. /\ held'[c] = IF m.kind = "retained" /\ m.channel = c THEN m.rev ELSE held[c]
          /\ heard'[c] = IF m.kind = "lifecycle" /\ m.channel = c THEN m.rev ELSE heard[c]
          /\ held[c] <= held'[c] /\ held'[c] \in Int
      BY <1>1, <3>1, Receives
    <3>3. n.rev <= Rev(c)'
      BY <2>2, <2>6, <3>1 DEF InOrder
    <3>4. n.kind = "retained" => held'[c] <= n.rev
      BY <2>6, <3>2 DEF InOrder, NotBefore
    <3>5. n.kind = "lifecycle" => heard'[c] <= n.rev
      BY <2>6, <3>2 DEF InOrder, NotBefore
    <3>6. n.kind = "lifecycle" => n.rev <= held'[c]
      BY <1>0, <2>6, <3>1, <3>2 DEF InOrder
    <3>7. n.kind = "lifecycle" => \A r \in 2..(n.rev - 1) : lifecycle'[c][r] = "ACKED"
      BY <2>1, <2>6 DEF InOrder
    <3> QED BY <3>3, <3>4, <3>5, <3>6, <3>7 DEF InOrder
  <2>7. ASSUME NEW i \in 1..Len(wire') PROVE InOrder(wire[i])'
    <3>1. /\ i + 1 \in 1..Len(wire) /\ wire'[i] = wire[i + 1] /\ 1 < i + 1
      BY <2>4
    <3>2. wire[i + 1] \in Messages /\ InOrder(wire[i + 1]) /\ NotBefore(wire[i + 1], m)
      BY <2>5, <3>1, BrokerType DEF WireInv
    <3> QED BY <2>6, <3>1, <3>2 DEF InOrder
  <2>8. ASSUME NEW i \in 1..Len(wire'), NEW j \in 1..Len(wire'), i < j
        PROVE  NotBefore(wire'[j], wire'[i])
    <3>1. /\ i + 1 \in 1..Len(wire) /\ wire'[i] = wire[i + 1]
          /\ j + 1 \in 1..Len(wire) /\ wire'[j] = wire[j + 1] /\ i + 1 < j + 1
      BY <2>4, <2>8
    <3> QED BY <3>1 DEF WireInv
  <2> QED BY <2>3, <2>7, <2>8 DEF WireInv, NotBefore
<1>k. ASSUME UNCHANGED <<held, heard>>, NEW n \in Messages, InOrder(n) PROVE InOrder(n)'
  BY <1>k, InOrderKept
<1>c. ASSUME UNCHANGED <<held, heard>>
      PROVE  \A c \in Channels : held'[c] <= Rev(c)' /\ 1 <= heard'[c] /\ heard'[c] <= Rev(c)'
  <2> SUFFICES ASSUME NEW c \in Channels
               PROVE  held[c] <= Rev(c)' /\ 1 <= heard[c] /\ heard[c] <= Rev(c)'
    BY <1>c
  <2> QED BY <1>0
<1>2. CASE UNCHANGED <<held, heard>> /\ wire' \in {wire, <<>>}
  <2>1. ASSUME NEW i \in 1..Len(wire') PROVE i \in 1..Len(wire) /\ wire' = wire
    BY <1>2, <2>1
  <2>2. ASSUME NEW i \in 1..Len(wire') PROVE InOrder(wire[i])'
    <3>1. wire[i] \in Messages /\ InOrder(wire[i]) /\ wire'[i] = wire[i]
      BY <2>1, <2>2, BrokerType DEF WireInv
    <3> QED BY <1>2, <1>k, <3>1 DEF InOrder
  <2>3. ASSUME NEW i \in 1..Len(wire'), NEW j \in 1..Len(wire'), i < j
        PROVE  NotBefore(wire'[j], wire'[i])
    BY <2>1, <2>3 DEF WireInv
  <2> QED BY <1>2, <1>c, <2>2, <2>3 DEF WireInv, NotBefore
<1>3. CASE UNCHANGED <<held, heard>> /\ Sends /\ wire' # wire
  <2>1. PICK m \in Messages : /\ wire' = Append(wire, m) /\ InOrder(m)
                              /\ \A i \in 1..Len(wire) : NotBefore(m, wire[i])
    BY <1>3, SentInOrder
  <2>2. ASSUME NEW i \in 1..Len(wire')
        PROVE  (i \in 1..Len(wire) /\ wire'[i] = wire[i]) \/ (i = Len(wire) + 1 /\ wire'[i] = m)
    BY <1>0, <2>1
  <2>3. ASSUME NEW i \in 1..Len(wire') PROVE InOrder(wire[i])'
    <3>1. wire'[i] \in Messages /\ \E n \in Messages : n = wire'[i] /\ InOrder(n)
      BY <2>1, <2>2, BrokerType DEF WireInv
    <3>2. PICK n \in Messages : n = wire'[i] /\ InOrder(n)
      BY <3>1
    <3>3. InOrder(n)'
      BY <1>3, <1>k, <3>2
    <3> QED BY <3>2, <3>3 DEF InOrder
  <2>4. ASSUME NEW i \in 1..Len(wire'), NEW j \in 1..Len(wire'), i < j
        PROVE  NotBefore(wire'[j], wire'[i])
    <3>1. i \in 1..Len(wire) /\ wire'[i] = wire[i]
      BY <1>0, <2>2, <2>4, <2>1
    <3>2. CASE j \in 1..Len(wire) /\ wire'[j] = wire[j]
      BY <2>4, <3>1, <3>2 DEF WireInv
    <3>3. CASE wire'[j] = m
      BY <2>1, <3>1, <3>3
    <3> QED BY <2>2, <3>2, <3>3
  <2> QED BY <1>3, <1>c, <2>3, <2>4 DEF WireInv, NotBefore
<1>4. CASE UNCHANGED heard /\ wire' = <<>> /\ held' = Unsent
  <2>1. \A c \in Channels : held'[c] <= Rev(c)' /\ 1 <= heard'[c] /\ heard'[c] <= Rev(c)'
    <3> SUFFICES ASSUME NEW c \in Channels
                 PROVE  0 <= Rev(c)' /\ 1 <= heard[c] /\ heard[c] <= Rev(c)'
      BY <1>4 DEF Unsent
    <3> QED BY <1>0
  <2> QED BY <1>4, <2>1 DEF WireInv
<1>5. \/ BrokerReceives
      \/ UNCHANGED heard /\ wire' = <<>> /\ held' = Unsent
      \/ UNCHANGED <<held, heard>>
  BY BrokerStep
<1>6. BrokerReceives \/ Sends \/ wire' \in {wire, <<>>}
  BY WireStep
<1> QED BY <1>1, <1>2, <1>3, <1>4, <1>5, <1>6

\* What the broker holds only grows while a connection lives.
LEMMA HeldGrows ==
    ASSUME IType, WireInv, [Next]_fireVars, link'.phase # "none", ~Connected
    PROVE  \A c \in Channels : held'[c] \in Int /\ held[c] \in Int /\ held[c] <= held'[c]
<1> SUFFICES ASSUME NEW c \in Channels
             PROVE  held'[c] \in Int /\ held[c] \in Int /\ held[c] <= held'[c]
  OBVIOUS
<1>1. held[c] \in 0..MaxRevision
  BY BrokerType
<1>2. CASE BrokerReceives
  BY <1>1, <1>2, Receives
<1>3. CASE UNCHANGED held
  BY <1>1, <1>3
<1> QED BY <1>2, <1>3, BrokerStep

\* A permit is given when nothing is owed, and nothing is committed before it
\* is returned.
LEMMA PermitIsTrue ==
    ASSUME IType, TurnInv, EpochInv, WireInv, CurrentInv, IdleIsDelivered, [Next]_fireVars,
           link'.phase # "none", ~Connected,
           NEW p \in Publishers, Holds(egress'[p]), egress'[p].epoch = link'.epoch
    PROVE  \A c \in Channels : held'[c] = Rev(c)' /\ heard'[c] = Rev(c)'
<1>0. /\ link'.epoch = link.epoch /\ link.phase # "none" /\ link.epoch > 0 /\ link.epoch \in Nat
  BY LinkStep, Epochs DEF EpochInv
<1>1. \A c \in Channels : /\ Rev(c) \in Int /\ held[c] \in Int /\ heard[c] \in Int
                          /\ held[c] <= Rev(c) /\ heard[c] <= Rev(c)
  BY RevType, BrokerType DEF WireInv
<1>2. CASE beginRegularEgress(p) /\ egress'[p].epoch = co.egressEpoch
  <2>1. /\ UNCHANGED <<retained, held, heard>> /\ co.egressEpoch = link.epoch
        /\ co.idle /\ AllReady(co)
    BY <1>0, <1>2 DEF beginRegularEgress, NoMutationOpen, outbox, broker
  <2>2. ASSUME NEW c \in Channels PROVE held[c] = Rev(c) /\ heard[c] = Rev(c)
    <3>1. co.ready[c] = Rev(c)
      BY <2>1, <2>2 DEF AllReady, TurnInv, ReadyInv, ReadyIsCurrent, Rev
    <3>2. co.ready[c] <= held[c]
      BY <1>0, <2>1, <2>2 DEF CurrentInv
    <3>3. heard[c] = Rev(c)
      BY <2>1, <2>2 DEF IdleIsDelivered, Rev
    <3> QED BY <1>1, <2>2, <3>1, <3>2, <3>3
  <2> QED BY <2>1, <2>2 DEF Rev
<1>3. CASE Holds(egress[p]) /\ egress'[p].epoch = egress[p].epoch
  <2>1. \A c \in Channels : held[c] = Rev(c) /\ heard[c] = Rev(c)
    BY <1>0, <1>3 DEF CurrentInv
  <2>2. ~CommitRevision
    <3>1. egress[p].phase # "off"
      BY <1>3 DEF Holds
    <3>2. Out # {} /\ co.active # 0
      <4>1. p \in Out
        BY <3>1 DEF Out
      <4> QED BY <4>1, FS_EmptySet DEF TurnInv, MutationInv
    <3> QED BY <3>2 DEF CommitRevision, Mutating, TurnInv, MutationInv
  <2>3. \A c \in Channels : Rev(c)' = Rev(c)
    BY <2>2, RevisionsKept DEF Rev
  <2>4. ASSUME NEW c \in Channels PROVE held'[c] = Rev(c) /\ heard'[c] = Rev(c)
    <3>1. held[c] = Rev(c) /\ heard[c] = Rev(c) /\ Rev(c) \in Int
      BY <1>1, <2>1, <2>4
    <3>2. CASE BrokerReceives
      <4>1. /\ held[c] <= held'[c] /\ held'[c] <= Rev(c) /\ held'[c] \in Int
            /\ heard[c] <= heard'[c] /\ heard'[c] <= Rev(c) /\ heard'[c] \in Int
        BY <3>2, Receives
      <4> QED BY <3>1, <4>1
    <3>3. CASE UNCHANGED <<held, heard>>
      BY <3>1, <3>3
    <3> QED BY <3>2, <3>3, BrokerStep
  <2> QED BY <2>3, <2>4
<1> QED BY <1>2, <1>3, PermitStep

LEMMA CurrentInvStep ==
    ASSUME IType, TurnInv, EpochInv, WireInv, CurrentInv, IdleIsDelivered, [Next]_fireVars
    PROVE  CurrentInv'
<1> SUFFICES ASSUME link'.phase # "none" PROVE CurrentInv'
  BY DEF CurrentInv
<1>e. /\ link.epoch \in Nat /\ w.epoch \in Nat /\ co.egressEpoch \in Nat
      /\ \A f \in Known : f.epoch \in Nat
      /\ \A p \in Publishers : egress[p].epoch \in Nat
  BY Epochs
<1>1. CASE Connected
  <2>1. /\ link'.epoch = link.epoch + 1 /\ acks' = <<>> /\ UNCHANGED <<w, egress>>
    BY <1>1 DEF Connected
  <2>2. Closes(co, co')
    BY <1>1, ClosingCo DEF ClosingStep, Transport
  <2>3. w'.epoch # link'.epoch /\ co'.egressEpoch # link'.epoch
    BY <1>e, <2>1, <2>2 DEF EpochInv, Closes
  <2>4. \A p \in Publishers : egress'[p].epoch # link'.epoch
    BY <1>e, <2>1 DEF EpochInv
  <2>5. ASSUME NEW f \in Known', f.kind = "Acked" PROVE f.epoch # link'.epoch
    <3>1. ~PublishAcknowledged
      BY <1>1 DEF Connected, PublishAcknowledged
    <3>2. f \in Known
      BY <2>5, <3>1, KnownStep DEF NewFact
    <3> QED BY <1>e, <2>1, <3>2 DEF EpochInv
  <2> QED BY <2>1, <2>3, <2>4, <2>5 DEF CurrentInv
<1>2. CASE ~Connected
  <2>1. link'.epoch = link.epoch /\ link.phase # "none" /\ link.epoch > 0
    BY <1>2, LinkStep DEF EpochInv
  <2>2. \A c \in Channels : held'[c] \in Int /\ held[c] \in Int /\ held[c] <= held'[c]
    BY <1>2, HeldGrows
  <2>3. ASSUME NEW m \in Messages, m.rev <= held[m.channel] PROVE m.rev <= held'[m.channel]
    <3>1. m.channel \in Channels /\ m.rev \in Int
      BY BrokerType
    <3> QED BY <2>2, <2>3, <3>1
  <2>4. ASSUME NEW i \in 1..Len(acks'), acks'[i].kind = "retained"
        PROVE  acks'[i].rev <= held'[acks'[i].channel]
    <3>0. acks \in Seq(Messages)
      BY BrokerType
    <3>1. CASE i \in 1..Len(acks) /\ acks'[i] = acks[i]
      BY <2>1, <2>3, <2>4, <3>1, BrokerType DEF CurrentInv
    <3>2. CASE BrokerReceives
      <4> DEFINE m == Head(wire)
      <4>1. acks' = acks \/ acks' = Append(acks, m)
        BY <3>2 DEF BrokerReceives
      <4>2. m \in Messages /\ (m.kind = "retained" => held'[m.channel] = m.rev)
        <5>1. m \in Messages
          BY <3>2, Receives, FireAssumption
        <5> QED BY <3>2, <5>1, Receives, BrokerType
      <4> HIDE DEF m
      <4>3. m.rev \in Int
        BY <4>2, BrokerType
      <4>4. CASE acks' = Append(acks, m) /\ i = Len(acks) + 1
        BY <2>4, <3>0, <4>2, <4>3, <4>4
      <4>5. CASE ~(acks' = Append(acks, m) /\ i = Len(acks) + 1)
        <5>1. i \in 1..Len(acks) /\ acks'[i] = acks[i]
          BY <2>4, <3>0, <4>1, <4>5
        <5> QED BY <3>1, <5>1
      <4> QED BY <4>4, <4>5
    <3>3. CASE PublishAcknowledged
      <4>1. acks # <<>> /\ acks' = Tail(acks)
        BY <3>3 DEF PublishAcknowledged
      <4>2. i + 1 \in 1..Len(acks) /\ acks'[i] = acks[i + 1]
        BY <2>4, <3>0, <4>1
      <4> QED BY <2>1, <2>3, <2>4, <4>2, BrokerType DEF CurrentInv
    <3>4. CASE acks' \in {acks, <<>>}
      BY <2>4, <3>1, <3>4
    <3> QED BY <3>2, <3>3, <3>4, WireStep
  <2>5. ASSUME NEW f \in Known', f.kind = "Acked", f.epoch = link'.epoch,
               f.message.kind = "retained"
        PROVE  f.message.rev <= held'[f.message.channel]
    <3>1. CASE f \in Known
      <4>1. f.message \in Messages
        BY <2>5, <3>1, KnownType DEF Facts, NoMessage, Message
      <4> QED BY <2>1, <2>3, <2>5, <3>1, <4>1 DEF CurrentInv
    <3>2. CASE f \notin Known
      <4>1. PublishAcknowledged /\ f.message = Head(acks)
        BY <2>5, <3>2, KnownStep DEF NewFact
      <4>2. 1 \in 1..Len(acks) /\ f.message = acks[1]
        BY <4>1, BrokerType DEF PublishAcknowledged
      <4> QED BY <2>1, <2>3, <2>5, <4>2, BrokerType DEF CurrentInv
    <3> QED BY <3>1, <3>2
  <2>6. ASSUME w'.epoch = link'.epoch, NEW c \in Channels PROVE w'.synced[c] <= held'[c]
    <3>0. w.synced \in [Channels -> 0..MaxRevision] /\ held[c] \in 0..MaxRevision
      BY BrokerType DEF IType, TypeOK, WorkerStates, Revisions
    <3>h. held'[c] \in Int /\ held[c] \in Int /\ held[c] <= held'[c] /\ 0 <= held[c]
      BY <2>2, <3>0
    <3>1. CASE w'.synced = w.synced /\ w'.epoch = w.epoch
      <4>1. w.synced[c] <= held[c]
        BY <2>1, <2>6, <3>1 DEF CurrentInv
      <4> QED BY <3>0, <3>h, <3>1, <4>1
    <3>2. CASE w'.synced = Unsent
      BY <3>h, <3>2 DEF Unsent
    <3>3. ASSUME NEW f \in Known, Learned(f) PROVE w'.synced[c] <= held'[c]
      <4> DEFINE m == f.message
      <4>1. /\ f.kind = "Acked" /\ f.epoch = link.epoch /\ w.epoch = link.epoch
            /\ m \in Messages
        BY <2>1, <2>6, <3>3 DEF Learned
      <4>2. w.synced[c] <= held[c]
        BY <2>1, <4>1 DEF CurrentInv
      <4>3. m.kind = "retained" => m.rev <= held[m.channel]
        BY <2>1, <3>3, <4>1 DEF CurrentInv
      <4>4. /\ w'.synced \in {w.synced, [w.synced EXCEPT ![m.channel] = m.rev]}
            /\ m.kind # "retained" => w'.synced = w.synced
        BY <3>3 DEF Learned
      <4>5. m.rev \in Int /\ m.channel \in Channels
        BY <4>1, BrokerType
      <4> HIDE DEF m
      <4>6. w'.synced[c] = w.synced[c]
            \/ (m.kind = "retained" /\ c = m.channel /\ w'.synced[c] = m.rev)
        BY <3>0, <4>4, <4>5
      <4> QED BY <3>0, <3>h, <4>2, <4>3, <4>5, <4>6
    <3> QED BY <3>1, <3>2, <3>3, WorkerStep DEF WorkerMove
  <2>7. ASSUME co'.egressEpoch = link'.epoch, NEW c \in Channels
        PROVE  co'.ready[c] <= held'[c]
    <3>0. /\ w.synced[c] \in 0..MaxRevision /\ co.ready[c] \in 0..MaxRevision
          /\ held[c] \in 0..MaxRevision
      BY BrokerType DEF IType, TypeOK, WorkerStates, Coordinators, Revisions
    <3>h. held'[c] \in Int /\ held[c] \in Int /\ held[c] <= held'[c] /\ 0 <= held[c]
      BY <2>2, <3>0
    <3>1. CASE /\ co'.egressEpoch \in {0, co.egressEpoch}
               /\ co'.ready[c] \in {0, co.ready[c]}
      <4>1. co.ready[c] <= held[c]
        BY <1>e, <2>1, <2>7, <3>1 DEF CurrentInv
      <4> QED BY <3>0, <3>h, <3>1, <4>1
    <3>2. CASE /\ co'.egressEpoch \in {0, w.epoch}
               /\ co'.ready[c] \in {0, w.synced[c]}
      <4>1. w.synced[c] <= held[c]
        BY <1>e, <2>1, <2>7, <3>2 DEF CurrentInv
      <4> QED BY <3>0, <3>h, <3>2, <4>1
    <3> QED BY <3>1, <3>2, ReadinessStep
  <2>8. ASSUME NEW p \in Publishers, Holds(egress'[p]), egress'[p].epoch = link'.epoch
        PROVE  \A c \in Channels : held'[c] = Rev(c)' /\ heard'[c] = Rev(c)'
    BY <1>2, <2>8, PermitIsTrue
  <2> QED BY <2>4, <2>5, <2>6, <2>7, <2>8 DEF CurrentInv, Holds
<1> QED BY <1>1, <1>2

-----------------------------------------------------------------------------
(***************************************************************************)
(* Idle                                                                    *)
(***************************************************************************)
LEMMA IdleStep ==
    ASSUME IType, [Next]_fireVars, co'.idle
    PROVE  co.idle \/ (updateIdleState /\ IdleNow)
<1> USE DEF fireVars
<1>0. co \in Coordinators
  BY DEF IType, TypeOK
<1>1. CASE UNCHANGED co
  BY <1>1
<1>2. CASE ClosingStep
  BY <1>2, ClosingCo DEF Closes
<1>3. CASE updateIdleState
  <2>1. co' = [co EXCEPT !.idle = IdleNow, !.fresh = @ \ {Worker}]
    BY <1>3 DEF updateIdleState
  <2>2. co'.idle = IdleNow
    BY <1>0, <2>1 DEF Coordinators
  <2> QED BY <1>3, <2>2
<1>4. CASE ObserveGeneration \/ beginLifecycleRelease \/ endLifecycleRelease
           \/ recomputeReadiness
  <2> DEFINE ready == [c \in Channels |-> IF ReadyNow(c) THEN w.listed[c] ELSE 0]
             epoch == IF \A c \in Channels : ReadyNow(c) THEN w.epoch ELSE 0
  <2>1. CASE recomputeReadiness
    <3>1. co' = [co EXCEPT !.ready = ready, !.egressEpoch = epoch]
      BY <2>1 DEF recomputeReadiness
    <3> HIDE DEF ready, epoch
    <3> QED BY <1>0, <3>1 DEF Coordinators
  <2>2. CASE ~recomputeReadiness
    BY <1>0, <1>4, <2>2 DEF ObserveGeneration, beginLifecycleRelease, endLifecycleRelease,
                            Coordinators
  <2> QED BY <2>1, <2>2
<1>5. CASE recoverActorFailure
  <2> DEFINE s == [co EXCEPT !.releasing = FALSE, !.fresh = @ \ {Worker}]
  <2>1. s \in Coordinators /\ co' = failCloseAllReadiness(s)
    BY <1>0, <1>5 DEF Coordinators, recoverActorFailure
  <2> HIDE DEF s
  <2> QED BY <2>1, FailClosed
<1>6. ASSUME NEW c \in Channels, beginDomainMutation(c) PROVE co.idle
  <2> DEFINE s == [co EXCEPT !.open = @ \cup {c}]
  <2>1. s \in Coordinators /\ co' = CloseChannel(s, c)
    BY <1>0, <1>6 DEF Coordinators, beginDomainMutation
  <2> HIDE DEF s
  <2> QED BY <2>1, ChannelClosed
<1>7. CASE MutationTimesOut \/ completeDomainMutation
  <2> DEFINE s == [co EXCEPT !.open = @ \ {mutation.channel}]
             t == invalidateRegularEgress(s)
  <2>1. s \in Coordinators
    BY <1>0 DEF Coordinators
  <2>2. co' = [t EXCEPT !.changed = TRUE]
    BY <1>7 DEF MutationTimesOut, completeDomainMutation, LeaveBoundary
  <2> HIDE DEF s
  <2>3. t \in Coordinators /\ t.idle = FALSE
    BY <2>1, Invalidated
  <2> HIDE DEF t
  <2> QED BY <2>2, <2>3 DEF Coordinators
<1>8. CASE notifyOutboxChanged \/ \E c \in Channels : notifyUnchanged(c)
  <2>1. PICK c \in Channels : co' = CloseChannel(co, c)
    BY <1>8 DEF notifyOutboxChanged, notifyUnchanged, Mutating, IType
  <2> QED BY <1>0, <2>1, ChannelClosed
<1>9. CASE ListRetained \/ ReadPending \/ CommitRevision \/ MutationDrained \/ MutationFails
  BY <1>9 DEF ListRetained, ReadPending, CommitRevision, MutationDrained, MutationFails
<1>10. CASE \E p \in Publishers : beginRegularEgress(p) \/ RegularPublish(p)
  BY <1>0, <1>10 DEF beginRegularEgress, RegularPublish, CheckGrant, PublishRegular,
                     completeRegularEgress, Coordinators
<1>11. CASE Crash \/ start
  BY <1>11 DEF Crash, start, NewCoordinator
<1> QED BY <1>1, <1>2, <1>3, <1>4, <1>5, <1>6, <1>7, <1>8, <1>9, <1>10, <1>11
        DEF Next, ClosingStep, Turn, Boundary, Process

LEMMA IdleInvStep ==
    ASSUME TurnInv, RowsInv, AckInv, WireInv, IdleIsDelivered, [Next]_fireVars
    PROVE  IdleIsDelivered'
<1> SUFFICES ASSUME co'.idle PROVE \A c \in Channels : heard'[c] = Rev(c)'
  BY DEF IdleIsDelivered, Rev
<1>i. IType
  BY DEF TurnInv
<1>0. \A c \in Channels : /\ Rev(c) \in 1..MaxRevision /\ heard[c] \in 0..MaxRevision
                          /\ 1 <= heard[c] /\ heard[c] <= Rev(c)
  BY <1>i, RevType, BrokerType DEF WireInv
<1>1. CASE updateIdleState /\ IdleNow
  <2>1. /\ w.phase = "settle" /\ w.quiet /\ AllReady(co)
        /\ UNCHANGED <<retained, heard>>
    BY <1>1 DEF updateIdleState, At, IdleNow, outbox, broker
  <2>2. ASSUME NEW c \in Channels PROVE heard[c] = Rev(c)
    <3>1. PendingLifecycle(c) = {}
      BY <2>1 DEF TurnInv, ReadyInv
    <3>2. CASE Rev(c) = 1
      BY <1>0, <3>2
    <3>3. CASE Rev(c) # 1
      <4> DEFINE k == Rev(c)
      <4>1. k \in 2..MaxRevision
        BY <1>0, <3>3, FireAssumption
      <4>2. lifecycle[c] \in [2..MaxRevision -> RowStates]
        BY <1>i DEF IType, TypeOK
      <4>3. lifecycle[c][k] \in RowStates
        BY <4>1, <4>2
      <4>4. lifecycle[c][k] \notin {"PENDING", "IN_FLIGHT"}
        BY <3>1, <4>1 DEF PendingLifecycle
      <4>5. /\ lifecycle[c][k] = "ABSENT" <=> k > Rev(c)
            /\ lifecycle[c][k] = "ACKED" => k <= heard[c]
        BY <4>1 DEF RowsInv
      <4>6. k <= heard[c]
        BY <1>0, <4>3, <4>4, <4>5 DEF RowStates
      <4> QED BY <1>0, <4>6
    <3> QED BY <3>2, <3>3
  <2> QED BY <2>1, <2>2 DEF Rev
<1>2. CASE co.idle
  <2>1. ~CommitRevision
    <3>1. co.open = {}
      BY <1>2 DEF TurnInv, MutationInv
    <3> QED BY <3>1 DEF CommitRevision, Mutating, TurnInv, MutationInv
  <2>2. \A c \in Channels : Rev(c)' = Rev(c)
    BY <1>i, <2>1, RevisionsKept DEF Rev
  <2>3. ASSUME NEW c \in Channels PROVE heard'[c] = Rev(c)
    <3>1. heard[c] = Rev(c)
      BY <1>2, <2>3 DEF IdleIsDelivered, Rev
    <3>2. CASE BrokerReceives
      <4>1. heard[c] <= heard'[c] /\ heard'[c] <= Rev(c) /\ heard'[c] \in Int
        BY <1>i, <3>2, Receives
      <4> QED BY <1>0, <3>1, <4>1
    <3> QED BY <1>i, <3>1, <3>2, BrokerStep
  <2> QED BY <2>2, <2>3
<1> QED BY <1>i, <1>1, <1>2, IdleStep

\* Only publishInEpoch sends a regular message.
LEMMA SentByPublish ==
    ASSUME IType, [Next]_fireVars, NEW p \in Publishers,
           egress'[p].phase = "sent", egress[p].phase # "sent"
    PROVE  PublishRegular(p) /\ PublishableIn(egress[p].epoch)
<1> USE DEF fireVars
<1>0. egress \in [Publishers -> [phase : {"off", "granted", "checked", "sent", "done"},
                                 epoch : Nat]]
  BY DEF IType, TypeOK
<1>1. egress' # egress
  OBVIOUS
<1>2. ASSUME NEW q \in Publishers, beginRegularEgress(q) PROVE FALSE
  BY <1>0, <1>2 DEF beginRegularEgress
<1>3. ASSUME NEW q \in Publishers, RegularPublish(q)
      PROVE  PublishRegular(p) /\ PublishableIn(egress[p].epoch)
  <2>1. CASE CheckGrant(q)
    BY <1>0, <2>1 DEF CheckGrant
  <2>2. CASE PublishRegular(q)
    <3>1. q = p
      BY <1>0, <2>2 DEF PublishRegular
    <3> QED BY <1>0, <2>2, <3>1 DEF PublishRegular
  <2>3. CASE completeRegularEgress(q)
    BY <1>0, <2>3 DEF completeRegularEgress, NoEgress
  <2> QED BY <1>3, <2>1, <2>2, <2>3 DEF RegularPublish
<1>4. CASE Transport \/ BrokerReceives
  BY <1>1, <1>4 DEF Transport, Connected, SubscriptionsReady, Disconnected,
                    PublishAcknowledged, BrokerReceives
<1>5. CASE Turn \/ \E c \in Channels : RetryElapses(c)
  BY <1>1, <1>5
     DEF Turn, TakeFacts, processFact, HandleOverflow, FactsDone, expirePubAckDeadline,
         ObserveGeneration, ListRetained, recomputeReadiness, beginLifecycleRelease,
         endLifecycleRelease, ReadPending, updateIdleState, recoverActorFailure,
         RetryElapses, PublishRetained, PublishLifecycle
<1>6. CASE (\E c \in Channels : beginDomainMutation(c)) \/ CommitRevision \/ Boundary
  BY <1>1, <1>6 DEF beginDomainMutation, CommitRevision, Boundary, MutationDrained,
                    MutationTimesOut, MutationFails, completeDomainMutation,
                    notifyOutboxChanged, notifyUnchanged
<1>7. CASE Process
  BY <1>1, <1>7 DEF Process, stop, WorkerStops, Crash, start, NoEgress
<1> QED BY <1>1, <1>2, <1>3, <1>4, <1>5, <1>6, <1>7 DEF Next

-----------------------------------------------------------------------------
(***************************************************************************)
(* The inductive invariant and what follows from it                        *)
(***************************************************************************)
OrderInv ==
    /\ TurnInv /\ EpochInv /\ RowsInv /\ AckInv /\ WireInv /\ CurrentInv
    /\ IdleIsDelivered

LEMMA OrderInit == Init => OrderInv
<1> SUFFICES ASSUME Init PROVE OrderInv
  OBVIOUS
<1>1. TurnInv
  BY TypeInit, MutationInit, ReadyInit DEF TurnInv
<1>2. EpochInv
  BY EpochInit
<1>3. Known = {}
  BY FactsOfEmpty DEF Init, NewCoordinator, NewWorker, Known
<1>4. RowsInv
  <2>1. \A c \in Channels : Rev(c) = 1 /\ heard[c] = 1
    BY DEF Init, Rev
  <2>2. \A c \in Channels, r \in 2..MaxRevision : lifecycle[c][r] = "ABSENT" /\ r > 1
    BY DEF Init
  <2>3. w.inflight = {}
    BY DEF Init, NewWorker
  <2> QED BY <2>1, <2>2, <2>3 DEF RowsInv
<1>5. AckInv
  BY <1>3 DEF Init, AckInv
<1>6. WireInv
  BY DEF Init, WireInv, Rev, Unsent
<1>7. CurrentInv
  BY DEF Init, CurrentInv
<1>8. IdleIsDelivered
  BY DEF Init, NewCoordinator, IdleIsDelivered
<1> QED BY <1>1, <1>2, <1>4, <1>5, <1>6, <1>7, <1>8 DEF OrderInv

LEMMA OrderStep == OrderInv /\ [Next]_fireVars => OrderInv'
<1> SUFFICES ASSUME OrderInv, [Next]_fireVars PROVE OrderInv'
  OBVIOUS
<1>0. /\ IType /\ TurnInv /\ MutationInv /\ ReadyInv /\ EpochInv /\ RowsInv /\ AckInv
      /\ WireInv /\ CurrentInv /\ IdleIsDelivered
  BY DEF OrderInv, TurnInv
<1>1. TurnInv'
  <2>1. IType'
    BY <1>0, TypeStep
  <2> QED BY <1>0, <2>1, MutationStep, ReadyStep DEF TurnInv
<1>2. EpochInv'
  BY <1>0, EpochStep
<1>3. RowsInv' /\ AckInv' /\ WireInv'
  BY <1>0, RowsInvStep, AckInvStep, WireInvStep
<1>4. CurrentInv' /\ IdleIsDelivered'
  BY <1>0, CurrentInvStep, IdleInvStep
<1> QED BY <1>1, <1>2, <1>3, <1>4 DEF OrderInv

LEMMA OrderInvariance == Spec => []OrderInv
BY OrderInit, OrderStep, PTL DEF Spec

\* When the coordinator calls itself idle, the broker has heard of everything.
THEOREM IdleIsDeliveredAlways == Spec => []IdleIsDelivered
<1>1. OrderInv => IdleIsDelivered
  BY DEF OrderInv
<1> QED BY <1>1, OrderInvariance, PTL

\* What a step may hand to the transport.
ReleasesSynced ==
    Len(wire') > Len(wire) /\ wire'[Len(wire')].kind = "lifecycle" =>
        \A c \in Channels : held[c] = retained[c].rev

PublishesLast ==
    \A p \in Publishers : egress'[p].phase = "sent" /\ egress[p].phase # "sent" =>
        \A c \in Channels : held[c] = retained[c].rev /\ heard[c] = retained[c].rev

LEMMA ReleaseStep ==
    ASSUME OrderInv, [Next]_fireVars, Len(wire') > Len(wire),
           wire'[Len(wire')].kind = "lifecycle"
    PROVE  \A c \in Channels : held[c] = retained[c].rev
<1>0. /\ IType /\ ReadyInv /\ RowsInv /\ WireInv /\ CurrentInv /\ wire \in Seq(Messages)
  BY DEF OrderInv, TurnInv, IType, TypeOK
<1>1. wire' # wire /\ wire' # <<>>
  BY <1>0
<1>2. ~BrokerReceives
  <2>1. ASSUME BrokerReceives PROVE FALSE
    <3>1. wire # <<>> /\ wire' = Tail(wire)
      BY <2>1 DEF BrokerReceives
    <3> QED BY <1>0, <3>1
  <2> QED BY <2>1
<1>3. Sends
  BY <1>0, <1>1, <1>2, WireStep
<1>4. PICK m \in Messages : /\ wire' = Append(wire, m)
                            /\ m.kind = "lifecycle" => \A c \in Channels : held[c] = Rev(c)
  BY <1>0, <1>1, <1>3, SentInOrder
<1>5. wire'[Len(wire')] = m
  BY <1>0, <1>4
<1> QED BY <1>4, <1>5 DEF Rev

LEMMA PublishStep ==
    ASSUME OrderInv, [Next]_fireVars, NEW p \in Publishers,
           egress'[p].phase = "sent", egress[p].phase # "sent"
    PROVE  \A c \in Channels : held[c] = Rev(c) /\ heard[c] = Rev(c)
<1>0. IType /\ CurrentInv
  BY DEF OrderInv, TurnInv
<1>1. PublishRegular(p) /\ PublishableIn(egress[p].epoch)
  BY <1>0, SentByPublish
<1>2. /\ Holds(egress[p]) /\ link.phase = "ready" /\ link.epoch = egress[p].epoch
  BY <1>1 DEF PublishRegular, PublishableIn, Holds
<1> QED BY <1>0, <1>2 DEF CurrentInv

\* A lifecycle message is handed over only after every retained state.
THEOREM ReleaseFollowsSyncAlways == Spec => ReleaseFollowsSync
<1>1. OrderInv /\ [Next]_fireVars => [ReleasesSynced]_fireVars
  BY ReleaseStep DEF ReleasesSynced
<1> QED BY <1>1, OrderInvariance, PTL DEF Spec, ReleaseFollowsSync, ReleasesSynced

\* A regular message is handed over only when nothing is owed.
THEOREM RegularComesLastAlways == Spec => RegularComesLast
<1>1. OrderInv /\ [Next]_fireVars => [PublishesLast]_fireVars
  BY PublishStep DEF PublishesLast, Rev
<1> QED BY <1>1, OrderInvariance, PTL DEF Spec, RegularComesLast, PublishesLast

-----------------------------------------------------------------------------
(***************************************************************************)
(* The refinement                                                          *)
(***************************************************************************)
ChannelVars == <<[c \in Channels |-> Rev(c)], held, heard>>

\* A revision that is committed is a revision more of one channel.
LEMMA CommitCommits ==
    ASSUME IType, CommitRevision
    PROVE  \E c \in Channels : FC!Commit(c)
<1>1. UNCHANGED <<held, heard>>
  BY DEF CommitRevision, broker
<1>2. [c \in Channels |-> Rev(c)'] =
          [[c \in Channels |-> Rev(c)] EXCEPT ![mutation.channel] = @ + 1]
  BY CommitEffect
<1>3. PICK c \in Channels : c = mutation.channel
  BY CommitEffect
<1>4. FC!Commit(c)
  BY <1>1, <1>2, <1>3 DEF FC!Commit, Rev
<1> QED BY <1>4

\* A message that is received moves the channel forward by what it may skip.
LEMMA ReceiptAdvances ==
    ASSUME IType, RowsInv, WireInv, BrokerReceives
    PROVE  [FC!Next]_ChannelVars
<1> DEFINE m == Head(wire)
           c == m.channel
<1>0. UNCHANGED [d \in Channels |-> Rev(d)]
  BY DEF BrokerReceives, outbox, Rev
<1>1. /\ held' = IF m.kind = "retained" THEN [held EXCEPT ![c] = m.rev] ELSE held
      /\ heard' = IF m.kind = "lifecycle" THEN [heard EXCEPT ![c] = m.rev] ELSE heard
  BY DEF BrokerReceives
<1>2. m \in Messages /\ c \in Channels /\ m.rev \in 1..MaxRevision /\ InOrder(m)
  <2>1. Channels # {}
    BY FireAssumption
  <2>2. m \in Messages /\ InOrder(m)
    BY <2>1, Receives
  <2> QED BY <2>2, BrokerType
<1>3. /\ held \in Revisions /\ heard \in Revisions
      /\ held[c] \in Int /\ heard[c] \in Int /\ Rev(c) \in Int
      /\ 1 <= heard[c]
  <2>1. held \in Revisions /\ heard \in Revisions
    BY DEF IType, TypeOK
  <2> QED BY <1>2, <2>1, RevType, BrokerType DEF WireInv
<1>4. CASE m.kind = "retained"
  <2>1. held[c] <= m.rev /\ m.rev <= Rev(c)
    BY <1>2, <1>4 DEF InOrder
  <2>2. heard' = heard /\ held' = [held EXCEPT ![c] = m.rev]
    BY <1>1, <1>4
  <2>3. CASE held[c] = m.rev
    <3>1. held' = held
      BY <1>3, <2>2, <2>3 DEF Revisions
    <3> QED BY <1>0, <2>2, <3>1 DEF ChannelVars
  <2>4. CASE held[c] # m.rev
    <3>1. m.rev \in (held[c] + 1)..[d \in Channels |-> Rev(d)][c]
      BY <1>2, <1>3, <2>1, <2>4
    <3>2. FC!Show(c)
      BY <1>0, <2>2, <3>1 DEF FC!Show, Rev
    <3> QED BY <1>2, <3>2 DEF FC!Next
  <2> QED BY <2>3, <2>4
<1>5. CASE m.kind = "lifecycle"
  <2>1. /\ heard[c] <= m.rev /\ m.rev <= held[c]
        /\ \A r \in 2..(m.rev - 1) : lifecycle[c][r] = "ACKED"
    BY <1>2, <1>5 DEF InOrder
  <2>2. held' = held /\ heard' = [heard EXCEPT ![c] = m.rev]
    BY <1>1, <1>5
  <2>3. m.rev <= heard[c] + 1
    <3>1. SUFFICES ASSUME m.rev > heard[c] + 1 PROVE FALSE
      BY <1>2, <1>3
    <3>2. m.rev - 1 \in 2..(m.rev - 1) /\ m.rev - 1 \in 2..MaxRevision
      BY <1>2, <1>3, <3>1, FireAssumption
    <3>3. m.rev - 1 <= heard[c]
      BY <1>2, <2>1, <3>2 DEF RowsInv
    <3> QED BY <1>2, <1>3, <3>1, <3>3
  <2>4. CASE heard[c] = m.rev
    <3>1. heard' = heard
      BY <1>3, <2>2, <2>4 DEF Revisions
    <3> QED BY <1>0, <2>2, <3>1 DEF ChannelVars
  <2>5. CASE heard[c] # m.rev
    <3>1. m.rev = heard[c] + 1
      BY <1>2, <1>3, <2>1, <2>3, <2>5
    <3>2. FC!Tell(c)
      BY <1>0, <2>1, <2>2, <3>1 DEF FC!Tell, Rev
    <3> QED BY <1>2, <3>2 DEF FC!Next
  <2> QED BY <2>4, <2>5
<1> QED BY <1>2, <1>4, <1>5 DEF Messages

LEMMA ChannelInit == Init => FC!Init
BY DEF Init, FC!Init, Unsent, Rev

LEMMA ChannelStep ==
    ASSUME OrderInv, [Next]_fireVars
    PROVE  [FC!Next]_ChannelVars
<1> USE DEF Rev
<1>0. IType /\ RowsInv /\ WireInv
  BY DEF OrderInv, TurnInv
<1>1. CASE CommitRevision
  BY <1>0, <1>1, CommitCommits DEF FC!Next
<1>2. CASE BrokerReceives
  BY <1>0, <1>2, ReceiptAdvances
<1>3. CASE ~CommitRevision /\ ~BrokerReceives
  <2>1. UNCHANGED [c \in Channels |-> Rev(c)]
    BY <1>0, <1>3, RevisionsKept
  <2>2. UNCHANGED <<held, heard>> \/ (held' = Unsent /\ heard' = heard)
    BY <1>0, <1>3, BrokerStep
  <2>3. CASE UNCHANGED <<held, heard>>
    BY <2>1, <2>3 DEF ChannelVars
  <2>4. CASE held' = Unsent /\ heard' = heard
    <3>1. FC!Forget
      BY <2>1, <2>4 DEF FC!Forget, Unsent
    <3> QED BY <3>1 DEF FC!Next
  <2> QED BY <2>2, <2>3, <2>4
<1> QED BY <1>1, <1>2, <1>3

\* The coordinator implements the channel a subscriber sees.
THEOREM ImplementsFireChannel == Spec => ChannelSpec
<1>1. OrderInv /\ [Next]_fireVars => [FC!Next]_ChannelVars
  BY ChannelStep
<1> QED BY <1>1, ChannelInit, OrderInvariance, PTL
        DEF Spec, ChannelSpec, FC!Spec, ChannelVars, Rev
=============================================================================
