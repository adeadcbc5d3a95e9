------------------------- MODULE FireDeliveryProofs -------------------------
(***************************************************************************)
(* For any number of channels, publishers and revisions, any queue size    *)
(* and any number of connections, faults and restarts: what the delivery   *)
(* of fire revisions calls ready, idle or released is what the broker      *)
(* holds, and a subscriber sees the revisions in order.                    *)
(***************************************************************************)
EXTENDS FireDelivery, FiniteSets, FiniteSetTheorems, TLAPS

Rows == [Channels -> [rev : 1..MaxRevision, state : RowStates]]
LifecycleRows == [Channels -> [2..MaxRevision -> RowStates]]

\* Readiness is taken back or left as it is.
Closes(s, t) ==
    /\ t.open = s.open /\ t.releasing = s.releasing /\ t.active = s.active
    /\ t.ready \in {s.ready, Unsent}
    /\ t.fresh \subseteq s.fresh
    /\ t.idle => s.idle
    /\ t.egressEpoch \in {s.egressEpoch, 0}

LEMMA UnsentType == Unsent \in Revisions
BY FireAssumption DEF Unsent, Revisions

LEMMA FailClosed ==
    ASSUME NEW s \in Coordinators
    PROVE  /\ failCloseAllReadiness(s) \in Coordinators
           /\ Closes(s, failCloseAllReadiness(s))
           /\ failCloseAllReadiness(s).facts = s.facts
           /\ failCloseAllReadiness(s).overflowEpoch = s.overflowEpoch
           /\ failCloseAllReadiness(s).ready = Unsent
           /\ failCloseAllReadiness(s).egressEpoch = 0
           /\ failCloseAllReadiness(s).idle = FALSE
BY UnsentType DEF failCloseAllReadiness, invalidateRegularEgress, Coordinators, Closes

LEMMA Enqueued ==
    ASSUME NEW s \in Coordinators, NEW f \in Facts
    PROVE  /\ enqueueTransportFact(s, f) \in Coordinators
           /\ Closes(s, enqueueTransportFact(s, f))
           /\ enqueueTransportFact(s, f).facts \in {s.facts, Append(s.facts, f)}
<1> DEFINE closed == IF f.kind = "Acked" THEN s ELSE failCloseAllReadiness(s)
           lost == [closed EXCEPT !.overflow = TRUE, !.overflowEpoch = f.epoch]
           kept == [closed EXCEPT !.facts = Append(@, f)]
<1>1. closed \in Coordinators /\ Closes(s, closed) /\ closed.facts = s.facts
  BY FailClosed DEF Closes
<1> HIDE DEF closed
<1>2. lost \in Coordinators /\ Closes(closed, lost) /\ lost.facts = s.facts
  <2>1. f.epoch \in Nat
    BY DEF Facts
  <2>2. lost \in Coordinators
    BY <1>1, <2>1 DEF Coordinators
  <2>3. /\ lost.open = closed.open /\ lost.releasing = closed.releasing
        /\ lost.active = closed.active /\ lost.running = closed.running
        /\ lost.ready = closed.ready /\ lost.fresh = closed.fresh
        /\ lost.idle = closed.idle /\ lost.egressEpoch = closed.egressEpoch
        /\ lost.facts = closed.facts
    BY <1>1 DEF Coordinators
  <2> QED BY <1>1, <2>2, <2>3 DEF Closes
<1>3. kept \in Coordinators /\ Closes(closed, kept) /\ kept.facts = Append(s.facts, f)
  <2>1. Append(closed.facts, f) \in Seq(Facts)
    BY <1>1 DEF Coordinators
  <2>2. kept \in Coordinators
    BY <1>1, <2>1 DEF Coordinators
  <2>3. /\ kept.open = closed.open /\ kept.releasing = closed.releasing
        /\ kept.active = closed.active /\ kept.running = closed.running
        /\ kept.ready = closed.ready /\ kept.fresh = closed.fresh
        /\ kept.idle = closed.idle /\ kept.egressEpoch = closed.egressEpoch
        /\ kept.facts = Append(closed.facts, f)
    BY <1>1 DEF Coordinators
  <2> QED BY <1>1, <2>2, <2>3 DEF Closes
<1> HIDE DEF lost, kept
<1>4. /\ failCloseAllReadiness(lost) \in Coordinators
      /\ Closes(lost, failCloseAllReadiness(lost))
      /\ failCloseAllReadiness(lost).facts = s.facts
  BY <1>2, FailClosed
<1>5. enqueueTransportFact(s, f) \in {s, failCloseAllReadiness(lost), kept}
  BY DEF enqueueTransportFact, closed, lost, kept
<1> QED BY <1>1, <1>2, <1>3, <1>4, <1>5 DEF Closes

LEMMA Invalidated ==
    ASSUME NEW s \in Coordinators
    PROVE  /\ invalidateRegularEgress(s) \in Coordinators
           /\ Closes(s, invalidateRegularEgress(s))
           /\ invalidateRegularEgress(s).ready = s.ready
           /\ invalidateRegularEgress(s).facts = s.facts
           /\ invalidateRegularEgress(s).fresh = {}
           /\ invalidateRegularEgress(s).egressEpoch = 0
           /\ invalidateRegularEgress(s).idle = FALSE
BY DEF invalidateRegularEgress, Coordinators, Closes

LEMMA ChannelClosed ==
    ASSUME NEW s \in Coordinators, NEW c \in Channels
    PROVE  /\ CloseChannel(s, c) \in Coordinators
           /\ CloseChannel(s, c).ready = [s.ready EXCEPT ![c] = 0]
           /\ CloseChannel(s, c).open = s.open
           /\ CloseChannel(s, c).releasing = s.releasing
           /\ CloseChannel(s, c).active = s.active
           /\ CloseChannel(s, c).facts = s.facts
           /\ CloseChannel(s, c).fresh = {}
           /\ CloseChannel(s, c).egressEpoch = 0
           /\ CloseChannel(s, c).idle = FALSE
<1> DEFINE shut == [s EXCEPT !.ready[c] = 0]
<1>1. shut \in Coordinators /\ shut.ready = [s.ready EXCEPT ![c] = 0]
  <2>1. [s.ready EXCEPT ![c] = 0] \in Revisions
    BY FireAssumption DEF Coordinators, Revisions
  <2> QED BY <2>1 DEF Coordinators
<1>2. /\ shut.open = s.open /\ shut.releasing = s.releasing /\ shut.active = s.active
      /\ shut.facts = s.facts
  BY DEF Coordinators
<1> HIDE DEF shut
<1>3. CloseChannel(s, c) = [invalidateRegularEgress(shut) EXCEPT !.changed = TRUE]
  BY DEF CloseChannel, shut
<1> DEFINE t == invalidateRegularEgress(shut)
<1>4. /\ t \in Coordinators /\ Closes(shut, t)
      /\ t.ready = shut.ready /\ t.facts = shut.facts /\ t.fresh = {}
      /\ t.egressEpoch = 0 /\ t.idle = FALSE
  BY <1>1, Invalidated
<1> HIDE DEF t
<1>5. CloseChannel(s, c) \in Coordinators
  BY <1>3, <1>4 DEF Coordinators, t
<1>6. /\ CloseChannel(s, c).ready = t.ready /\ CloseChannel(s, c).facts = t.facts
      /\ CloseChannel(s, c).fresh = {} /\ CloseChannel(s, c).egressEpoch = 0
      /\ CloseChannel(s, c).idle = FALSE /\ CloseChannel(s, c).open = t.open
      /\ CloseChannel(s, c).releasing = t.releasing /\ CloseChannel(s, c).active = t.active
  BY <1>3, <1>4 DEF Coordinators, t
<1> QED BY <1>1, <1>2, <1>4, <1>5, <1>6 DEF Closes

-----------------------------------------------------------------------------
(***************************************************************************)
(* Rows                                                                    *)
(***************************************************************************)
RowsTyped == retained \in Rows /\ lifecycle \in LifecycleRows

LEMMA RowsUpdated ==
    ASSUME RowsTyped, NEW M, NEW state \in [M -> RowStates], UpdateRows(state)
    PROVE  /\ RowsTyped'
           /\ \A c \in Channels : retained'[c].rev = retained[c].rev
           /\ \A c \in Channels, r \in 2..MaxRevision :
                 lifecycle'[c][r] = LET m == Message("lifecycle", c, r)
                                    IN  IF m \in M THEN state[m] ELSE lifecycle[c][r]
<1>1. ASSUME NEW c \in Channels
      PROVE  /\ retained'[c] \in [rev : 1..MaxRevision, state : RowStates]
             /\ retained'[c].rev = retained[c].rev
             /\ lifecycle'[c] \in [2..MaxRevision -> RowStates]
  <2> DEFINE m == Message("retained", c, retained[c].rev)
  <2>1. retained'[c] \in {retained[c], [retained[c] EXCEPT !.state = state[m]]}
    BY DEF UpdateRows
  <2>2. m \in M => state[m] \in RowStates
    OBVIOUS
  <2>3. retained'[c] = IF m \in M THEN [retained[c] EXCEPT !.state = state[m]] ELSE retained[c]
    BY DEF UpdateRows
  <2>4. retained[c] \in [rev : 1..MaxRevision, state : RowStates]
    BY DEF RowsTyped, Rows
  <2>5. \A r \in 2..MaxRevision : lifecycle[c][r] \in RowStates
    BY DEF RowsTyped, LifecycleRows
  <2>6. lifecycle'[c] \in [2..MaxRevision -> RowStates]
    BY <2>5 DEF UpdateRows
  <2> HIDE DEF m
  <2> QED BY <2>2, <2>3, <2>4, <2>6
<1>2. retained' \in Rows /\ lifecycle' \in LifecycleRows
  <2>1. retained' = [c \in Channels |-> retained'[c]] /\ lifecycle' = [c \in Channels |-> lifecycle'[c]]
    BY DEF UpdateRows
  <2> QED BY <1>1, <2>1 DEF Rows, LifecycleRows
<1> QED BY <1>1, <1>2 DEF UpdateRows, RowsTyped

LEMMA RowsSet ==
    ASSUME RowsTyped, NEW M, NEW st \in RowStates, SetRows(M, st)
    PROVE  /\ RowsTyped'
           /\ \A c \in Channels : retained'[c].rev = retained[c].rev
           /\ \A c \in Channels, r \in 2..MaxRevision :
                 lifecycle'[c][r] =
                     IF Message("lifecycle", c, r) \in M THEN st ELSE lifecycle[c][r]
<1>1. [m \in M |-> st] \in [M -> RowStates]
  OBVIOUS
<1> QED BY <1>1, RowsUpdated DEF SetRows

-----------------------------------------------------------------------------
(***************************************************************************)
(* Types                                                                   *)
(***************************************************************************)
IType ==
    /\ TypeOK
    /\ mutation.phase # "none" => mutation.channel \in Channels

LEMMA WorkerType == NewWorker \in WorkerStates /\ NewCoordinator \in Coordinators
<1>1. /\ <<>> \in Seq(Facts) /\ {} \in SUBSET Messages /\ {} \in SUBSET Channels
      /\ Unsent \in Revisions /\ "wait" \in Phases /\ 0 \in Nat
  BY UnsentType DEF Phases
<1> QED BY <1>1 DEF NewWorker, NewCoordinator, WorkerStates, Coordinators

LEMMA TypeInit == Init => IType
<1> SUFFICES ASSUME Init PROVE IType
  OBVIOUS
<1>1. /\ retained \in [Channels -> [rev : 1..MaxRevision, state : RowStates]]
      /\ lifecycle \in [Channels -> [2..MaxRevision -> RowStates]]
      /\ heard \in Revisions
  BY FireAssumption DEF Init, RowStates, Revisions
<1>2. wire \in Seq(Messages) /\ acks \in Seq(Messages)
  BY DEF Init
<1>3. /\ link \in [epoch : Nat, phase : {"none", "connected", "ready", "aborting"}]
      /\ mutation \in [phase : {"none", "waiting", "open", "committed", "failed", "notify"},
                     channel : Channels \cup {"none"}]
      /\ egress \in [Publishers -> [phase : {"off", "granted", "checked", "sent", "done"},
                                  epoch : Nat]]
      /\ mutation.phase = "none"
  BY DEF Init, NoMutation, NoEgress
<1>4. held \in Revisions /\ faults \in Nat /\ restarts \in Nat
  BY UnsentType DEF Init
<1> QED BY <1>1, <1>2, <1>3, <1>4, WorkerType DEF Init, IType, TypeOK

LEMMA FactType ==
    ASSUME NEW kind \in {"Connected", "Ready", "Down", "Acked"}, NEW e \in Nat,
           NEW m \in Messages \cup {NoMessage}
    PROVE  Fact(kind, e, m) \in Facts
BY DEF Fact, Facts

\* What the transport and the broker do.
LEMMA TypeTransport ==
    ASSUME IType, Transport \/ BrokerReceives
    PROVE  IType'
<1> USE DEF outbox, broker, used
<1>0. \A e \in Nat : Aborted(e) \in [epoch : Nat, phase : {"none", "connected", "ready", "aborting"}]
  BY DEF IType, TypeOK, Aborted
<1>1. CASE Connected
  <2>1. /\ Fact("Connected", link.epoch + 1, NoMessage) \in Facts
        /\ link' \in [epoch : Nat, phase : {"none", "connected", "ready", "aborting"}]
    BY <1>1, FactType DEF Connected, IType, TypeOK
  <2>2. co' \in Coordinators
    BY <1>1, <2>1, Enqueued DEF Connected, IType, TypeOK
  <2> QED BY <1>1, <2>1, <2>2 DEF Connected, IType, TypeOK
<1>2. CASE SubscriptionsReady
  <2>1. /\ Fact("Ready", link.epoch, NoMessage) \in Facts
        /\ link' \in [epoch : Nat, phase : {"none", "connected", "ready", "aborting"}]
    BY <1>2, FactType DEF SubscriptionsReady, IType, TypeOK
  <2>2. co' \in Coordinators
    BY <1>2, <2>1, Enqueued DEF SubscriptionsReady, IType, TypeOK
  <2> QED BY <1>2, <2>1, <2>2 DEF SubscriptionsReady, IType, TypeOK
<1>3. CASE Disconnected
  <2>1. /\ Fact("Down", link.epoch, NoMessage) \in Facts
        /\ link' \in [epoch : Nat, phase : {"none", "connected", "ready", "aborting"}]
    BY <1>3, FactType DEF Disconnected, IType, TypeOK
  <2>2. co' \in Coordinators
    BY <1>3, <2>1, Enqueued DEF Disconnected, IType, TypeOK
  <2>3. wire' \in {wire, <<>>} /\ acks' = <<>> /\ held' \in {held, Unsent}
    BY <1>3 DEF Disconnected
  <2>4. faults' \in {faults, faults + 1} /\ restarts' = restarts
    BY <1>3 DEF Disconnected, Fault
  <2>5. /\ wire' \in Seq(Messages) /\ acks' \in Seq(Messages) /\ held' \in Revisions
        /\ faults' \in Nat /\ restarts' \in Nat
    <3>1. <<>> \in Seq(Messages) /\ wire \in Seq(Messages) /\ held \in Revisions
      BY DEF IType, TypeOK
    <3>2. faults' \in Nat /\ restarts' \in Nat
      BY <2>4 DEF IType, TypeOK
    <3> QED BY <2>3, <3>1, <3>2, UnsentType
  <2> QED BY <1>3, <2>1, <2>2, <2>5 DEF Disconnected, IType, TypeOK
<1>4. CASE PublishAcknowledged
  <2>1. Head(acks) \in Messages /\ Tail(acks) \in Seq(Messages)
    BY <1>4 DEF PublishAcknowledged, IType, TypeOK
  <2>2. Fact("Acked", link.epoch, Head(acks)) \in Facts
    BY <2>1, FactType DEF IType, TypeOK
  <2>3. co' \in Coordinators
    BY <1>4, <2>2, Enqueued DEF PublishAcknowledged, IType, TypeOK
  <2> QED BY <1>4, <2>1, <2>3 DEF PublishAcknowledged, IType, TypeOK
<1>5. CASE BrokerReceives
  <2>1. Head(wire) \in Messages /\ Tail(wire) \in Seq(Messages)
    BY <1>5 DEF BrokerReceives, IType, TypeOK
  <2>2. held' \in Revisions /\ heard' \in Revisions
    <3> DEFINE m == Head(wire)
    <3>1. m.rev \in 0..MaxRevision
      BY <2>1, FireAssumption DEF Messages
    <3>2. /\ held' \in {held, [held EXCEPT ![m.channel] = m.rev]}
          /\ heard' \in {heard, [heard EXCEPT ![m.channel] = m.rev]}
      BY <1>5 DEF BrokerReceives
    <3> HIDE DEF m
    <3> QED BY <3>1, <3>2 DEF IType, TypeOK, Revisions
  <2>3. acks' \in Seq(Messages)
    BY <1>5, <2>1 DEF BrokerReceives, IType, TypeOK
  <2> QED BY <1>5, <2>1, <2>2, <2>3 DEF BrokerReceives, IType, TypeOK
<1> QED BY <1>1, <1>2, <1>3, <1>4, <1>5 DEF Transport

\* What the fire-alarm worker does.
LEMMA TypeMutation ==
    ASSUME IType, (\E c \in Channels : beginDomainMutation(c)) \/ CommitRevision \/ Boundary
    PROVE  IType'
<1> USE DEF outbox, broker, used
<1> DEFINE MutationStates ==
        [phase : {"none", "waiting", "open", "committed", "failed", "notify"},
         channel : Channels \cup {"none"}]
<1>0. /\ co \in Coordinators /\ mutation \in MutationStates /\ NoMutation \in MutationStates
      /\ NoMutation.phase = "none"
  BY DEF IType, TypeOK, NoMutation
<1>l. LeaveBoundary(co) \in Coordinators
  <2> DEFINE s == [co EXCEPT !.open = @ \ {mutation.channel}]
  <2>1. s \in Coordinators
    BY <1>0 DEF Coordinators
  <2> HIDE DEF s
  <2>2. invalidateRegularEgress(s) \in Coordinators
    BY <2>1, Invalidated
  <2>3. LeaveBoundary(co) = [invalidateRegularEgress(s) EXCEPT !.changed = TRUE]
    BY DEF LeaveBoundary, s
  <2> QED BY <2>2, <2>3 DEF Coordinators
<1>1. ASSUME NEW c \in Channels, beginDomainMutation(c) PROVE IType'
  <2>1. [co EXCEPT !.open = @ \cup {c}] \in Coordinators
    BY <1>0 DEF Coordinators
  <2>2. co' \in Coordinators
    BY <1>1, <2>1, ChannelClosed DEF beginDomainMutation
  <2> QED BY <1>1, <2>2 DEF beginDomainMutation, IType, TypeOK
<1>2. CASE CommitRevision
  <2> DEFINE c == mutation.channel
             r == retained[c].rev + 1
  <2>1. c \in Channels /\ r \in 2..MaxRevision /\ r \in 1..MaxRevision
    BY <1>2, FireAssumption DEF CommitRevision, Mutating, IType, TypeOK
  <2>2. /\ retained' = [retained EXCEPT ![c] = [rev |-> r, state |-> "PENDING"]]
        /\ lifecycle' = [lifecycle EXCEPT ![c][r] = "PENDING"]
    BY <1>2 DEF CommitRevision
  <2>3. /\ retained \in [Channels -> [rev : 1..MaxRevision, state : RowStates]]
        /\ lifecycle \in [Channels -> [2..MaxRevision -> RowStates]]
        /\ "PENDING" \in RowStates
    BY DEF IType, TypeOK, RowStates
  <2>4. mutation' \in MutationStates /\ mutation'.channel = mutation.channel
    BY <1>0, <1>2 DEF CommitRevision
  <2> HIDE DEF c, r
  <2>5. retained' \in [Channels -> [rev : 1..MaxRevision, state : RowStates]]
    BY <2>1, <2>2, <2>3
  <2>6. lifecycle' \in [Channels -> [2..MaxRevision -> RowStates]]
    BY <2>1, <2>2, <2>3
  <2> QED BY <1>2, <2>1, <2>4, <2>5, <2>6 DEF CommitRevision, IType, TypeOK, c
<1>3. CASE MutationDrained
  BY <1>3, <1>0 DEF MutationDrained, Mutating, IType, TypeOK
<1>4. CASE MutationTimesOut
  BY <1>4, <1>0, <1>l DEF MutationTimesOut, IType, TypeOK
<1>5. CASE MutationFails
  <2>1. /\ mutation' \in MutationStates /\ mutation'.channel = mutation.channel
        /\ mutation.phase = "open"
    BY <1>0, <1>5 DEF MutationFails, Mutating
  <2>2. faults' \in Nat /\ restarts' \in Nat
    BY <1>5 DEF MutationFails, Fault, IType, TypeOK
  <2> QED BY <1>5, <2>1, <2>2 DEF MutationFails, IType, TypeOK
<1>6. CASE completeDomainMutation
  BY <1>6, <1>0, <1>l DEF completeDomainMutation, Mutating, IType, TypeOK
<1>7. CASE notifyOutboxChanged
  <2>1. mutation.channel \in Channels
    BY <1>7 DEF notifyOutboxChanged, Mutating, IType
  <2>2. co' \in Coordinators
    BY <1>0, <1>7, <2>1, ChannelClosed DEF notifyOutboxChanged
  <2> QED BY <1>0, <1>7, <2>2 DEF notifyOutboxChanged, IType, TypeOK
<1>8. ASSUME NEW c \in Channels, notifyUnchanged(c) PROVE IType'
  <2>1. co' \in Coordinators
    BY <1>0, <1>8, ChannelClosed DEF notifyUnchanged
  <2> QED BY <1>0, <1>8, <2>1 DEF notifyUnchanged, IType, TypeOK
<1> QED BY <1>1, <1>2, <1>3, <1>4, <1>5, <1>6, <1>7, <1>8 DEF Boundary

\* What the publishers of regular messages do.
LEMMA TypeEgress ==
    ASSUME IType, NEW p \in Publishers, beginRegularEgress(p) \/ RegularPublish(p)
    PROVE  IType'
<1> USE DEF outbox, broker, used
<1> DEFINE Egress == [phase : {"off", "granted", "checked", "sent", "done"}, epoch : Nat]
<1>0. /\ co \in Coordinators /\ egress \in [Publishers -> Egress] /\ NoEgress \in Egress
  BY DEF IType, TypeOK, NoEgress
<1>1. CASE beginRegularEgress(p)
  <2>1. co' \in Coordinators /\ co.egressEpoch \in Nat
    <3>1. /\ co.egressEpoch \in Nat /\ co.active + 1 \in Nat
          /\ co.fresh \cup {p} \in SUBSET (Publishers \cup {Worker})
      BY <1>0 DEF Coordinators
    <3>2. co' = [co EXCEPT !.active = @ + 1, !.fresh = @ \cup {p}]
      BY <1>1 DEF beginRegularEgress
    <3> QED BY <1>0, <3>1, <3>2 DEF Coordinators
  <2>2. egress' \in [Publishers -> Egress]
    BY <1>0, <1>1, <2>1 DEF beginRegularEgress
  <2> QED BY <1>1, <2>1, <2>2 DEF beginRegularEgress, IType, TypeOK
<1>2. CASE CheckGrant(p)
  <2>1. egress' \in [Publishers -> Egress]
    BY <1>0, <1>2 DEF CheckGrant
  <2> QED BY <1>2, <2>1 DEF CheckGrant, IType, TypeOK
<1>3. CASE PublishRegular(p)
  <2>1. egress' \in [Publishers -> Egress]
    BY <1>0, <1>3 DEF PublishRegular
  <2> QED BY <1>3, <2>1 DEF PublishRegular, IType, TypeOK
<1>4. CASE completeRegularEgress(p)
  <2>1. co' \in Coordinators
    <3>1. /\ (IF co.active = 0 THEN 0 ELSE co.active - 1) \in Nat
          /\ co.fresh \ {p} \in SUBSET (Publishers \cup {Worker})
      BY <1>0 DEF Coordinators
    <3>2. co' = [co EXCEPT !.active = IF @ = 0 THEN 0 ELSE @ - 1, !.fresh = @ \ {p}]
      BY <1>4 DEF completeRegularEgress
    <3> QED BY <1>0, <3>1, <3>2 DEF Coordinators
  <2>2. egress' \in [Publishers -> Egress]
    BY <1>0, <1>4 DEF completeRegularEgress
  <2> QED BY <1>4, <2>1, <2>2 DEF completeRegularEgress, IType, TypeOK
<1> QED BY <1>1, <1>2, <1>3, <1>4 DEF RegularPublish

\* The process and its ends.
LEMMA TypeProcess ==
    ASSUME IType, Process
    PROVE  IType'
<1> USE DEF outbox, broker, used
<1> DEFINE Egress == [phase : {"off", "granted", "checked", "sent", "done"}, epoch : Nat]
           Links == [epoch : Nat, phase : {"none", "connected", "ready", "aborting"}]
           MutationStates ==
               [phase : {"none", "waiting", "open", "committed", "failed", "notify"},
                channel : Channels \cup {"none"}]
<1>0. /\ co \in Coordinators /\ NoMutation \in MutationStates /\ NoMutation.phase = "none"
      /\ [p \in Publishers |-> NoEgress] \in [Publishers -> Egress]
      /\ [link EXCEPT !.phase = "none"] \in Links /\ <<>> \in Seq(Messages)
  <2>1. NoMutation \in MutationStates /\ NoMutation.phase = "none" /\ NoEgress \in Egress
    BY DEF NoMutation, NoEgress
  <2>2. co \in Coordinators /\ [link EXCEPT !.phase = "none"] \in Links
    BY DEF IType, TypeOK
  <2>3. <<>> \in Seq(Messages)
    OBVIOUS
  <2> QED BY <2>1, <2>2, <2>3
<1>1. CASE stop
  <2>1. [co EXCEPT !.stopping = TRUE] \in Coordinators
    BY <1>0 DEF Coordinators
  <2>2. co' \in Coordinators
    BY <1>1, <2>1, FailClosed DEF stop
  <2>3. faults' \in Nat /\ restarts' \in Nat
    BY <1>1 DEF stop, Restart, IType, TypeOK
  <2> QED BY <1>1, <2>2, <2>3 DEF stop, IType, TypeOK
<1>2. CASE WorkerStops
  <2>1. RowsTyped'
    BY <1>2, RowsSet DEF WorkerStops, IType, TypeOK, RowsTyped, Rows, LifecycleRows, RowStates
  <2>2. co' \in Coordinators
    BY <1>0, <1>2 DEF WorkerStops, Coordinators
  <2> QED BY <1>2, <2>1, <2>2, WorkerType
          DEF WorkerStops, IType, TypeOK, RowsTyped, Rows, LifecycleRows
<1>3. CASE Crash
  <2>1. co' \in Coordinators
    BY <1>3, WorkerType DEF Crash, Coordinators
  <2>2. faults' \in Nat /\ restarts' \in Nat
    BY <1>3 DEF Crash, Restart, IType, TypeOK
  <2> QED BY <1>0, <1>3, <2>1, <2>2, WorkerType DEF Crash, IType, TypeOK
<1>4. CASE start
  <2>1. \A st \in RowStates : Reset(st) \in RowStates
    BY DEF Reset, RowStates
  <2>2. ASSUME NEW c \in Channels
        PROVE  /\ retained'[c] \in [rev : 1..MaxRevision, state : RowStates]
               /\ lifecycle'[c] \in [2..MaxRevision -> RowStates]
    <3>1. /\ retained'[c] = [retained[c] EXCEPT !.state = Reset(retained[c].state)]
          /\ lifecycle'[c] = [r \in 2..MaxRevision |-> Reset(lifecycle[c][r])]
      BY <1>4 DEF start
    <3>2. /\ retained[c] \in [rev : 1..MaxRevision, state : RowStates]
          /\ \A r \in 2..MaxRevision : lifecycle[c][r] \in RowStates
      BY DEF IType, TypeOK
    <3> QED BY <2>1, <3>1, <3>2
  <2>3. /\ retained' = [c \in Channels |-> retained'[c]]
        /\ lifecycle' = [c \in Channels |-> lifecycle'[c]]
    BY <1>4 DEF start
  <2>4. RowsTyped'
    BY <2>2, <2>3 DEF RowsTyped, Rows, LifecycleRows
  <2> QED BY <1>0, <1>4, <2>4, WorkerType
          DEF start, IType, TypeOK, RowsTyped, Rows, LifecycleRows
<1> QED BY <1>1, <1>2, <1>3, <1>4 DEF Process

LEMMA RowsOf == ASSUME IType PROVE RowsTyped
BY DEF IType, TypeOK, RowsTyped, Rows, LifecycleRows

LEMMA ForgetType == ASSUME NEW ww \in WorkerStates PROVE Forget(ww) \in WorkerStates
BY UnsentType DEF Forget, WorkerStates

LEMMA AbortedType ==
    ASSUME IType, NEW e
    PROVE  Aborted(e) \in [epoch : Nat, phase : {"none", "connected", "ready", "aborting"}]
BY DEF IType, TypeOK, Aborted

LEMMA DisconnectType ==
    ASSUME IType, NEW ww \in WorkerStates, disconnectEpoch(ww)
    PROVE  RowsTyped' /\ w' \in WorkerStates /\ co' \in Coordinators
<1>1. "PENDING" \in RowStates /\ SetRows(w.inflight, "PENDING") /\ co \in Coordinators
  BY DEF disconnectEpoch, RowStates, IType, TypeOK
<1> QED BY <1>1, RowsOf, RowsSet, ForgetType, FailClosed DEF disconnectEpoch

\* One message is published.
LEMMA PublishType ==
    ASSUME IType, NEW m, m.kind \in {"retained", "lifecycle"}, m.channel \in Channels,
           RowIs(m) # "ABSENT" => m \in Messages,
           publish(m)
    PROVE  /\ RowsTyped' /\ w' \in WorkerStates /\ wire' \in Seq(Messages)
           /\ link' \in [epoch : Nat, phase : {"none", "connected", "ready", "aborting"}]
           /\ faults' \in Nat /\ restarts' \in Nat
<1> USE DEF outbox, used
<1> DEFINE Links == [epoch : Nat, phase : {"none", "connected", "ready", "aborting"}]
           ww == [w EXCEPT !.todo = @ \ {m.channel}]
           delayed == [ww EXCEPT !.deferred = @ \cup {m.channel}]
           sent == [ww EXCEPT !.inflight = @ \cup {m}, !.deferred = @ \ {m.channel}]
<1>0. /\ w \in WorkerStates /\ link \in Links /\ wire \in Seq(Messages)
      /\ faults \in Nat /\ restarts \in Nat
  BY DEF IType, TypeOK
<1>1. ww \in WorkerStates
  BY <1>0 DEF WorkerStates
<1>2. delayed \in WorkerStates /\ (m \in Messages => sent \in WorkerStates)
  BY <1>1 DEF WorkerStates
<1>3. w' = delayed \/ (m \in Messages /\ w' = sent)
  BY DEF publish
<1>4. RowsTyped'
  <2>1. SetRows({m}, "IN_FLIGHT") \/ SetRows({m}, "PENDING") \/ UNCHANGED outbox
    BY DEF publish
  <2>2. "IN_FLIGHT" \in RowStates /\ "PENDING" \in RowStates
    BY DEF RowStates
  <2> QED BY <2>1, <2>2, RowsOf, RowsSet DEF RowsTyped
<1>5. wire' \in Seq(Messages)
  <2>1. wire' = wire \/ (m \in Messages /\ wire' = Append(wire, m))
    BY DEF publish
  <2> QED BY <1>0, <2>1
<1>6. link' \in Links
  BY <1>0, AbortedType DEF publish
<1>7. faults' \in Nat /\ restarts' \in Nat
  BY <1>0 DEF publish, Fault
<1> HIDE DEF delayed, sent
<1> QED BY <1>2, <1>3, <1>4, <1>5, <1>6, <1>7

LEMMA HeadFact ==
    ASSUME IType, w.taken # <<>>
    PROVE  Head(w.taken) \in Facts /\ [w EXCEPT !.taken = Tail(@)] \in WorkerStates
<1>0. w \in WorkerStates
  BY DEF IType, TypeOK
<1>1. w.taken \in Seq(Facts)
  BY <1>0 DEF WorkerStates
<1>2. Head(w.taken) \in Facts /\ Tail(w.taken) \in Seq(Facts)
  BY <1>1
<1> QED BY <1>0, <1>2 DEF WorkerStates

\* One fact is processed.
LEMMA FactStepType ==
    ASSUME IType, processFact
    PROVE  IType'
<1> USE DEF outbox, broker, used
<1> DEFINE f == Head(w.taken)
           ww == [w EXCEPT !.taken = Tail(@)]
<1>0. w \in WorkerStates /\ co \in Coordinators /\ faults \in Nat /\ restarts \in Nat
  BY DEF IType, TypeOK
<1>1. f \in Facts /\ ww \in WorkerStates
  BY HeadFact DEF processFact
<1>2. \/ FactConnected(f, ww) \/ FactReady(f, ww) \/ FactDown(f, ww) \/ FactIgnored(f, ww)
      \/ \E stored \in BOOLEAN : FactAcked(f, ww, stored)
  BY DEF processFact
<1>3. faults' \in Nat /\ restarts' \in Nat
  <2>1. UNCHANGED used \/ Fault
    BY DEF processFact
  <2> QED BY <1>0, <2>1 DEF Fault
<1>4. UNCHANGED <<link, broker, mutation, egress>>
  BY DEF processFact
<1> HIDE DEF f, ww
<1>r. f.epoch \in Nat
  BY <1>1 DEF Facts
<1>5. RowsTyped' /\ w' \in WorkerStates /\ co' \in Coordinators
  <2>1. CASE FactConnected(f, ww)
    <3> DEFINE d == IF w.epoch = 0 THEN w.deferred ELSE {}
    <3>1. RowsTyped'
      BY <2>1, RowsOf, RowsSet DEF FactConnected, RowStates
    <3>2. co' \in Coordinators
      BY <1>0, <2>1, FailClosed DEF FactConnected
    <3>3. Forget(ww) \in WorkerStates /\ d \in SUBSET Channels
      BY <1>0, <1>1, ForgetType DEF WorkerStates
    <3>4. w' = [Forget(ww) EXCEPT !.epoch = f.epoch, !.deferred = d]
      BY <2>1 DEF FactConnected
    <3> HIDE DEF d
    <3> QED BY <1>r, <3>1, <3>2, <3>3, <3>4 DEF WorkerStates
  <2>2. CASE FactReady(f, ww)
    BY <1>0, <1>1, <2>2, RowsOf DEF FactReady, WorkerStates, RowsTyped
  <2>3. CASE FactDown(f, ww)
    BY <1>1, <2>3, DisconnectType DEF FactDown
  <2>4. CASE FactIgnored(f, ww)
    BY <1>0, <1>1, <2>4, RowsOf DEF FactIgnored, RowsTyped
  <2>5. ASSUME NEW stored \in BOOLEAN, FactAcked(f, ww, stored)
        PROVE  RowsTyped' /\ w' \in WorkerStates /\ co' \in Coordinators
    <3> DEFINE m == f.message
               rev == IF stored /\ m.kind = "retained" THEN m.rev ELSE ww.synced[m.channel]
    <3>1. m \in Messages
      BY <1>0, <2>5 DEF FactAcked, AckInFlight, WorkerStates
    <3>2. RowsTyped'
      BY <2>5, RowsOf, RowsSet DEF FactAcked, RowStates, RowsTyped
    <3>3. m.channel \in Channels /\ m.rev \in 0..MaxRevision
      BY <3>1, FireAssumption DEF Messages
    <3>4. [ww.synced EXCEPT ![m.channel] = rev] \in Revisions
      BY <1>1, <3>3 DEF WorkerStates, Revisions
    <3>5. w' = [ww EXCEPT !.inflight = @ \ {m}, !.deferred = @ \ {m.channel},
                          !.synced = [ww.synced EXCEPT ![m.channel] = rev]]
      BY <1>1, <2>5 DEF FactAcked, WorkerStates
    <3> HIDE DEF rev, m
    <3>6. w' \in WorkerStates
      BY <1>1, <3>4, <3>5 DEF WorkerStates
    <3> QED BY <1>0, <2>5, <3>2, <3>6 DEF FactAcked
  <2> QED BY <1>2, <2>1, <2>2, <2>3, <2>4, <2>5
<1> QED BY <1>3, <1>4, <1>5 DEF IType, TypeOK, RowsTyped, Rows, LifecycleRows

\* The worker's turn.
LEMMA TypeTurn ==
    ASSUME IType, Turn \/ \E c \in Channels : RetryElapses(c)
    PROVE  IType'
<1> USE DEF outbox, broker, used
<1> DEFINE Links == [epoch : Nat, phase : {"none", "connected", "ready", "aborting"}]
<1>0. /\ w \in WorkerStates /\ co \in Coordinators /\ faults \in Nat /\ restarts \in Nat
      /\ link \in Links
  BY DEF IType, TypeOK
<1>w. \A e : Aborted(e) \in Links
  BY AbortedType
<1>p. {"wait", "facts", "pump", "list", "publish", "release", "tell", "idle", "settle"} \subseteq Phases
  BY DEF Phases
<1>1. CASE TakeFacts
  <2>1. w' \in WorkerStates
    BY <1>0, <1>1, <1>p DEF TakeFacts, WorkerStates, Coordinators
  <2>2. co' \in Coordinators
    <3>1. <<>> \in Seq(Facts)
      OBVIOUS
    <3>2. co' = [co EXCEPT !.facts = <<>>, !.changed = FALSE,
                           !.overflow = FALSE, !.overflowEpoch = 0]
      BY <1>1 DEF TakeFacts
    <3> QED BY <1>0, <3>1, <3>2 DEF Coordinators
  <2> QED BY <1>1, <2>1, <2>2 DEF TakeFacts, IType, TypeOK
<1>2. CASE processFact
  BY <1>2, FactStepType
<1>3. CASE HandleOverflow
  <2> DEFINE ww == [w EXCEPT !.overflow = FALSE, !.overflowEpoch = 0]
  <2>1. ww \in WorkerStates
    BY <1>0 DEF WorkerStates
  <2>2. disconnectEpoch(ww) \/ (w' = ww /\ UNCHANGED <<outbox, co>>)
    BY <1>3 DEF HandleOverflow
  <2>3. RowsTyped' /\ w' \in WorkerStates /\ co' \in Coordinators
    BY <1>0, <2>1, <2>2, DisconnectType, RowsOf DEF RowsTyped
  <2>4. link' \in Links
    BY <1>3, <1>w DEF HandleOverflow
  <2> QED BY <1>3, <2>3, <2>4 DEF HandleOverflow, IType, TypeOK, RowsTyped, Rows, LifecycleRows
<1>4. CASE FactsDone
  BY <1>0, <1>4, <1>p DEF FactsDone, IType, TypeOK, WorkerStates
<1>5. CASE expirePubAckDeadline
  <2>1. [w EXCEPT !.phase = "pump"] \in WorkerStates
    BY <1>0, <1>p DEF WorkerStates
  <2>2. RowsTyped' /\ w' \in WorkerStates /\ co' \in Coordinators
    BY <1>5, <2>1, DisconnectType DEF expirePubAckDeadline
  <2>3. link' \in Links /\ faults' \in Nat /\ restarts' \in Nat
    BY <1>0, <1>5, <1>w DEF expirePubAckDeadline, Fault
  <2> QED BY <1>5, <2>2, <2>3
          DEF expirePubAckDeadline, IType, TypeOK, RowsTyped, Rows, LifecycleRows
<1>6. CASE ObserveGeneration
  <2>1. co' \in Coordinators
    BY <1>0, <1>6 DEF ObserveGeneration, Coordinators
  <2>2. w' \in WorkerStates
    BY <1>0, <1>6, <1>p DEF ObserveGeneration, WorkerStates
  <2> QED BY <1>6, <2>1, <2>2 DEF ObserveGeneration, IType, TypeOK
<1>7. CASE ListRetained
  <2>1. [c \in Channels |-> retained[c].rev] \in Revisions
    BY FireAssumption DEF IType, TypeOK, Revisions
  <2>2. (\E c \in Channels : Unsynced(c)) \in BOOLEAN
    OBVIOUS
  <2> DEFINE todo == {c \in Channels : /\ Unsynced(c) /\ c \notin w.deferred
                                       /\ ~InFlight("retained", c)}
             some == \E c \in Channels : Unsynced(c)
             revs == [c \in Channels |-> retained[c].rev]
  <2>3. todo \subseteq Channels
    OBVIOUS
  <2>4. w' = [w EXCEPT !.phase = "publish", !.listed = revs, !.unsynced = some, !.todo = todo]
    BY <1>7 DEF ListRetained
  <2>5. w' \in WorkerStates
    <3> HIDE DEF todo, some, revs
    <3>1. revs \in Revisions /\ some \in BOOLEAN
      BY <2>1, <2>2 DEF revs, some
    <3> QED BY <1>0, <1>p, <2>3, <2>4, <3>1 DEF WorkerStates
  <2> QED BY <1>7, <2>5 DEF ListRetained, IType, TypeOK
<1>8. CASE recomputeReadiness
  <2> DEFINE ready == [c \in Channels |-> IF ReadyNow(c) THEN w.listed[c] ELSE 0]
             epoch == IF \A c \in Channels : ReadyNow(c) THEN w.epoch ELSE 0
  <2>1. ready \in Revisions /\ epoch \in Nat
    BY <1>0, FireAssumption DEF WorkerStates, Revisions
  <2>2. co' = [co EXCEPT !.ready = ready, !.egressEpoch = epoch]
    BY <1>8 DEF recomputeReadiness
  <2> HIDE DEF ready, epoch
  <2>3. co' \in Coordinators
    BY <1>0, <2>1, <2>2 DEF Coordinators
  <2>4. w' \in WorkerStates
    BY <1>0, <1>8, <1>p, UnsentType DEF recomputeReadiness, WorkerStates
  <2> QED BY <1>8, <2>3, <2>4 DEF recomputeReadiness, IType, TypeOK
<1>9. CASE beginLifecycleRelease
  <2> DEFINE todo == {c \in Channels : /\ PendingLifecycle(c) # {} /\ c \notin w.deferred
                                       /\ ~InFlight("lifecycle", c)}
  <2>1. todo \subseteq Channels
    OBVIOUS
  <2>2. w' = [w EXCEPT !.phase = "tell", !.todo = todo] \/ w' = [w EXCEPT !.phase = "idle"]
    BY <1>9 DEF beginLifecycleRelease
  <2> HIDE DEF todo
  <2>3. w' \in WorkerStates
    BY <1>0, <1>p, <2>1, <2>2 DEF WorkerStates
  <2>4. co' \in Coordinators
    BY <1>0, <1>9 DEF beginLifecycleRelease, Coordinators
  <2> QED BY <1>9, <2>3, <2>4 DEF beginLifecycleRelease, IType, TypeOK
<1>10. CASE endLifecycleRelease
  BY <1>0, <1>10, <1>p DEF endLifecycleRelease, IType, TypeOK, WorkerStates, Coordinators
<1>11. CASE ReadPending
  <2> DEFINE quiet == \A c \in Channels : PendingLifecycle(c) = {}
  <2>1. quiet \in BOOLEAN
    OBVIOUS
  <2>2. w' = [w EXCEPT !.phase = "settle", !.quiet = quiet]
    BY <1>11 DEF ReadPending
  <2> HIDE DEF quiet
  <2>3. w' \in WorkerStates
    BY <1>0, <1>p, <2>1, <2>2 DEF WorkerStates
  <2> QED BY <1>11, <2>3 DEF ReadPending, IType, TypeOK
<1>12. CASE updateIdleState
  <2>1. IdleNow \in BOOLEAN
    BY DEF IdleNow, AllReady
  <2>2. co' = [co EXCEPT !.idle = IdleNow, !.fresh = @ \ {Worker}]
    BY <1>12 DEF updateIdleState
  <2>3. co' \in Coordinators
    BY <1>0, <2>1, <2>2 DEF Coordinators
  <2>4. w' \in WorkerStates
    BY <1>0, <1>12, <1>p DEF updateIdleState, WorkerStates
  <2> QED BY <1>12, <2>3, <2>4 DEF updateIdleState, IType, TypeOK
<1>13. CASE recoverActorFailure
  <2> DEFINE state == [m \in w.inflight |->
                 IF w.phase = "facts" /\ m = Head(w.taken).message THEN "ACKED" ELSE "PENDING"]
             s == [co EXCEPT !.releasing = FALSE, !.fresh = @ \ {Worker}]
  <2>1. state \in [w.inflight -> RowStates] /\ UpdateRows(state)
    BY <1>13 DEF recoverActorFailure, RowStates
  <2>2. RowsTyped'
    <3> HIDE DEF state
    <3> QED BY <2>1, RowsOf, RowsUpdated
  <2>3. s \in Coordinators
    BY <1>0 DEF Coordinators
  <2>4. co' \in Coordinators
    BY <1>13, <2>3, FailClosed DEF recoverActorFailure
  <2>5. w' \in WorkerStates
    <3>1. Forget(NewWorker) \in WorkerStates
      BY WorkerType, ForgetType
    <3>2. w' = [Forget(NewWorker) EXCEPT !.deferred = Channels]
      BY <1>13 DEF recoverActorFailure
    <3> QED BY <3>1, <3>2 DEF WorkerStates
  <2>6. link' \in Links /\ faults' \in Nat /\ restarts' \in Nat
    BY <1>0, <1>13, <1>w DEF recoverActorFailure, Fault
  <2> QED BY <1>13, <2>2, <2>4, <2>5, <2>6
          DEF recoverActorFailure, IType, TypeOK, RowsTyped, Rows, LifecycleRows
<1>14. ASSUME NEW c \in Channels, PublishRetained(c) PROVE IType'
  <2> DEFINE m == Message("retained", c, w.listed[c])
  <2>1. m.kind = "retained" /\ m.channel = c /\ m.rev = w.listed[c]
    BY DEF Message
  <2>2. RowIs(m) # "ABSENT" => m \in Messages
    <3>1. RowIs(m) # "ABSENT" => w.listed[c] = retained[c].rev
      BY <2>1 DEF RowIs
    <3> QED BY <3>1, <1>14 DEF IType, TypeOK, Message, Messages
  <2>3. publish(m)
    BY <1>14 DEF PublishRetained
  <2> HIDE DEF m
  <2>4. /\ RowsTyped' /\ w' \in WorkerStates /\ wire' \in Seq(Messages) /\ link' \in Links
        /\ faults' \in Nat /\ restarts' \in Nat
    BY <1>14, <2>1, <2>2, <2>3, PublishType
  <2> QED BY <1>14, <2>4 DEF PublishRetained, IType, TypeOK, RowsTyped, Rows, LifecycleRows
<1>15. ASSUME NEW c \in Channels, PublishLifecycle(c) PROVE IType'
  <2>1. PICK r \in 2..MaxRevision : publish(Message("lifecycle", c, r))
    BY <1>15 DEF PublishLifecycle
  <2> DEFINE m == Message("lifecycle", c, r)
  <2>2. m.kind = "lifecycle" /\ m.channel = c /\ m \in Messages
    <3>1. r \in 1..MaxRevision
      BY FireAssumption
    <3> QED BY <1>15, <3>1 DEF Message, Messages
  <2> HIDE DEF m
  <2>3. /\ RowsTyped' /\ w' \in WorkerStates /\ wire' \in Seq(Messages) /\ link' \in Links
        /\ faults' \in Nat /\ restarts' \in Nat
    BY <1>15, <2>1, <2>2, PublishType DEF m
  <2> QED BY <1>15, <2>3 DEF PublishLifecycle, IType, TypeOK, RowsTyped, Rows, LifecycleRows
<1>16. ASSUME NEW c \in Channels, RetryElapses(c) PROVE IType'
  BY <1>0, <1>16 DEF RetryElapses, IType, TypeOK, WorkerStates
<1> QED BY <1>1, <1>2, <1>3, <1>4, <1>5, <1>6, <1>7, <1>8, <1>9, <1>10, <1>11, <1>12,
           <1>13, <1>14, <1>15, <1>16 DEF Turn

LEMMA TypeStep == IType /\ [Next]_fireVars => IType'
<1> SUFFICES ASSUME IType, [Next]_fireVars PROVE IType'
  OBVIOUS
<1>1. CASE UNCHANGED fireVars
  BY <1>1 DEF fireVars, outbox, broker, used, IType, TypeOK
<1>2. CASE Next
  BY <1>2, TypeTransport, TypeMutation, TypeEgress, TypeProcess, TypeTurn DEF Next
<1> QED BY <1>1, <1>2

\* The types of every reachable state.
THEOREM TypeCorrect == Spec => []TypeOK
<1>1. IType => TypeOK
  BY DEF IType
<1> QED BY <1>1, TypeInit, TypeStep, PTL DEF Spec

-----------------------------------------------------------------------------
(***************************************************************************)
(* Steps that take readiness back or leave it alone                        *)
(***************************************************************************)
ClosingStep ==
    \/ Transport \/ BrokerReceives
    \/ TakeFacts \/ processFact \/ HandleOverflow \/ FactsDone \/ expirePubAckDeadline
    \/ (\E c \in Channels : PublishRetained(c) \/ PublishLifecycle(c) \/ RetryElapses(c))
    \/ stop \/ WorkerStops

\* The later phases of a turn keep what they have read.
Keeps(v, u) ==
    u.phase \in {"publish", "release", "tell", "settle"} =>
        /\ u.phase = v.phase /\ u.listed = v.listed /\ u.synced = v.synced
        /\ u.quiet = v.quiet

LEMMA ClosesSame == \A s \in Coordinators : Closes(s, s)
BY DEF Closes

LEMMA ClosingCo ==
    ASSUME IType, ClosingStep
    PROVE  Closes(co, co') /\ UNCHANGED <<mutation, egress>>
<1>0. co \in Coordinators /\ w \in WorkerStates /\ link.epoch \in Nat /\ Closes(co, co)
  BY ClosesSame DEF IType, TypeOK
<1>1. CASE Transport
  <2>1. CASE Connected
    <3>1. Fact("Connected", link.epoch + 1, NoMessage) \in Facts
      BY <1>0, FactType
    <3> QED BY <1>0, <2>1, <3>1, Enqueued DEF Connected
  <2>2. CASE SubscriptionsReady
    <3>1. Fact("Ready", link.epoch, NoMessage) \in Facts
      BY <1>0, FactType
    <3> QED BY <1>0, <2>2, <3>1, Enqueued DEF SubscriptionsReady
  <2>3. CASE Disconnected
    <3>1. Fact("Down", link.epoch, NoMessage) \in Facts
      BY <1>0, FactType
    <3> QED BY <1>0, <2>3, <3>1, Enqueued DEF Disconnected
  <2>4. CASE PublishAcknowledged
    <3>1. Head(acks) \in Messages
      BY <2>4 DEF PublishAcknowledged, IType, TypeOK
    <3>2. Fact("Acked", link.epoch, Head(acks)) \in Facts
      BY <1>0, <3>1, FactType
    <3> QED BY <1>0, <2>4, <3>2, Enqueued DEF PublishAcknowledged
  <2> QED BY <1>1, <2>1, <2>2, <2>3, <2>4 DEF Transport
<1>2. CASE BrokerReceives
  BY <1>0, <1>2 DEF BrokerReceives
<1>3. CASE TakeFacts
  BY <1>0, <1>3 DEF TakeFacts, Coordinators, Closes
<1>4. CASE processFact
  <2>1. co' = co \/ co' = failCloseAllReadiness(co)
    BY <1>4 DEF processFact, FactConnected, FactReady, FactDown, FactIgnored, FactAcked,
                disconnectEpoch
  <2> QED BY <1>0, <1>4, <2>1, FailClosed DEF processFact
<1>5. CASE HandleOverflow
  <2>1. co' = co \/ co' = failCloseAllReadiness(co)
    BY <1>5 DEF HandleOverflow, disconnectEpoch
  <2> QED BY <1>0, <1>5, <2>1, FailClosed DEF HandleOverflow
<1>6. CASE FactsDone
  BY <1>0, <1>6 DEF FactsDone
<1>7. CASE expirePubAckDeadline
  BY <1>0, <1>7, FailClosed DEF expirePubAckDeadline, disconnectEpoch
<1>8. ASSUME NEW c \in Channels, PublishRetained(c) \/ PublishLifecycle(c) \/ RetryElapses(c)
      PROVE  Closes(co, co') /\ UNCHANGED <<mutation, egress>>
  BY <1>0, <1>8 DEF PublishRetained, PublishLifecycle, RetryElapses
<1>9. CASE stop
  <2> DEFINE s == [co EXCEPT !.stopping = TRUE]
  <2>1. s \in Coordinators /\ Closes(co, s)
    BY <1>0 DEF Coordinators, Closes
  <2>2. co' = failCloseAllReadiness(s) /\ UNCHANGED <<mutation, egress>>
    BY <1>9 DEF stop
  <2> HIDE DEF s
  <2> QED BY <2>1, <2>2, FailClosed DEF Closes
<1>10. CASE WorkerStops
  BY <1>0, <1>10 DEF WorkerStops, Coordinators, Closes
<1> QED BY <1>1, <1>2, <1>3, <1>4, <1>5, <1>6, <1>7, <1>8, <1>9, <1>10 DEF ClosingStep

LEMMA ClosingWorker ==
    ASSUME IType, ClosingStep
    PROVE  /\ Keeps(w, w')
           /\ w'.phase = "settle" => UNCHANGED lifecycle
<1>0. w \in WorkerStates
  BY DEF IType, TypeOK
<1>1. CASE Transport \/ BrokerReceives
  BY <1>1 DEF Transport, Connected, SubscriptionsReady, Disconnected, PublishAcknowledged,
              BrokerReceives, outbox, Keeps
<1>2. CASE TakeFacts
  BY <1>0, <1>2 DEF TakeFacts, At, Keeps, WorkerStates
<1>3. CASE processFact
  <2> DEFINE f == Head(w.taken)
             ww == [w EXCEPT !.taken = Tail(@)]
  <2>1. w.phase = "facts" /\ ww.phase = w.phase
    BY <1>0, <1>3 DEF processFact, At, WorkerStates
  <2>2. ww \in WorkerStates
    BY <1>3, HeadFact DEF processFact
  <2>3. \/ FactConnected(f, ww) \/ FactReady(f, ww) \/ FactDown(f, ww) \/ FactIgnored(f, ww)
        \/ \E stored \in BOOLEAN : FactAcked(f, ww, stored)
    BY <1>3 DEF processFact
  <2> HIDE DEF ww, f
  <2>4. w'.phase = ww.phase
    BY <2>2, <2>3 DEF FactConnected, FactReady, FactDown, FactIgnored, FactAcked,
                      disconnectEpoch, Forget, WorkerStates
  <2> QED BY <2>1, <2>4 DEF Keeps
<1>4. CASE HandleOverflow
  <2>1. w'.phase = "facts"
    BY <1>0, <1>4 DEF HandleOverflow, At, disconnectEpoch, Forget, WorkerStates
  <2> QED BY <2>1 DEF Keeps
<1>5. CASE FactsDone
  BY <1>0, <1>5 DEF FactsDone, Keeps, WorkerStates
<1>6. CASE expirePubAckDeadline
  BY <1>0, <1>6 DEF expirePubAckDeadline, disconnectEpoch, Forget, Keeps, WorkerStates
<1>7. ASSUME NEW c \in Channels, RetryElapses(c)
      PROVE  /\ Keeps(w, w')
             /\ w'.phase = "settle" => UNCHANGED lifecycle
  BY <1>0, <1>7 DEF RetryElapses, outbox, Keeps, WorkerStates
<1>8. ASSUME NEW m, publish(m), w.phase \in {"publish", "tell"}
      PROVE  /\ Keeps(w, w')
             /\ w'.phase = "settle" => UNCHANGED lifecycle
  <2>1. /\ w'.phase = w.phase /\ w'.listed = w.listed /\ w'.synced = w.synced
        /\ w'.quiet = w.quiet
    BY <1>0, <1>8 DEF publish, WorkerStates
  <2> QED BY <1>8, <2>1 DEF Keeps
<1>9. ASSUME NEW c \in Channels, PublishRetained(c) \/ PublishLifecycle(c)
      PROVE  /\ Keeps(w, w')
             /\ w'.phase = "settle" => UNCHANGED lifecycle
  BY <1>8, <1>9 DEF PublishRetained, PublishLifecycle, At
<1>10. CASE stop
  BY <1>10 DEF stop, outbox, Keeps
<1>11. CASE WorkerStops
  BY <1>11 DEF WorkerStops, NewWorker, Keeps
<1> QED BY <1>1, <1>2, <1>3, <1>4, <1>5, <1>6, <1>7, <1>9, <1>10, <1>11 DEF ClosingStep

\* Only a commit gives a channel another revision.
LEMMA RevisionsKept ==
    ASSUME IType, [Next]_fireVars, ~CommitRevision
    PROVE  \A c \in Channels : retained'[c].rev = retained[c].rev
<1> USE DEF outbox, fireVars
<1> DEFINE Kept == \A c \in Channels : retained'[c].rev = retained[c].rev
<1>0. RowsTyped /\ "PENDING" \in RowStates /\ "IN_FLIGHT" \in RowStates /\ "ACKED" \in RowStates
  BY RowsOf DEF RowStates
<1>1. ASSUME NEW M, NEW st \in RowStates, SetRows(M, st) PROVE Kept
  BY <1>0, <1>1, RowsSet
<1>2. CASE UNCHANGED retained
  BY <1>2
<1>3. CASE processFact \/ HandleOverflow \/ expirePubAckDeadline
  <2>1. UNCHANGED retained \/ \E M : SetRows(M, "PENDING") \/ SetRows(M, "ACKED")
    BY <1>3 DEF processFact, FactConnected, FactReady, FactDown, FactIgnored, FactAcked,
                HandleOverflow, expirePubAckDeadline, disconnectEpoch
  <2> QED BY <1>0, <1>1, <2>1
<1>4. ASSUME NEW c \in Channels, PublishRetained(c) \/ PublishLifecycle(c) PROVE Kept
  <2>1. \E m : publish(m)
    BY <1>4 DEF PublishRetained, PublishLifecycle
  <2>2. UNCHANGED retained \/ \E M : SetRows(M, "PENDING") \/ SetRows(M, "IN_FLIGHT")
    BY <2>1 DEF publish
  <2> QED BY <1>0, <1>1, <2>2
<1>5. CASE recoverActorFailure
  <2> DEFINE state == [m \in w.inflight |->
                 IF w.phase = "facts" /\ m = Head(w.taken).message THEN "ACKED" ELSE "PENDING"]
  <2>1. state \in [w.inflight -> RowStates] /\ UpdateRows(state)
    BY <1>0, <1>5 DEF recoverActorFailure
  <2> HIDE DEF state
  <2> QED BY <1>0, <2>1, RowsUpdated
<1>6. CASE WorkerStops
  BY <1>0, <1>1, <1>6 DEF WorkerStops
<1>7. CASE start
  <2>1. ASSUME NEW c \in Channels PROVE retained'[c].rev = retained[c].rev
    <3>1. retained'[c] = [retained[c] EXCEPT !.state = Reset(retained[c].state)]
      BY <1>7 DEF start
    <3>2. retained[c] \in [rev : 1..MaxRevision, state : RowStates]
      BY <1>0 DEF RowsTyped, Rows
    <3> QED BY <3>1, <3>2
  <2> QED BY <2>1
<1>8. CASE Transport \/ BrokerReceives
  BY <1>8 DEF Transport, Connected, SubscriptionsReady, Disconnected, PublishAcknowledged,
              BrokerReceives
<1>9. CASE Turn \/ \E c \in Channels : RetryElapses(c)
  BY <1>3, <1>4, <1>5, <1>9
     DEF Turn, TakeFacts, FactsDone, ObserveGeneration, ListRetained, recomputeReadiness,
         beginLifecycleRelease, endLifecycleRelease, ReadPending, updateIdleState, RetryElapses
<1>10. CASE (\E c \in Channels : beginDomainMutation(c)) \/ Boundary
  BY <1>10 DEF beginDomainMutation, Boundary, MutationDrained, MutationTimesOut, MutationFails,
               completeDomainMutation, notifyOutboxChanged, notifyUnchanged
<1>11. CASE \E p \in Publishers : beginRegularEgress(p) \/ RegularPublish(p)
  BY <1>11 DEF beginRegularEgress, RegularPublish, CheckGrant, PublishRegular,
               completeRegularEgress
<1>12. CASE Process
  BY <1>6, <1>7, <1>12 DEF Process, stop, Crash
<1> QED BY <1>2, <1>8, <1>9, <1>10, <1>11, <1>12 DEF Next

-----------------------------------------------------------------------------
(***************************************************************************)
(* Mutations and permits                                                   *)
(***************************************************************************)
Out == {p \in Publishers : egress[p].phase # "off"}

\* A channel in mutation is not ready, a boundary that has drained stays
\* drained, and permits are counted.
MutationInv ==
    /\ \A c \in co.open : co.ready[c] = 0
    /\ mutation.phase \in {"waiting", "open", "committed", "failed"} =>
           mutation.channel \in co.open
    /\ mutation.phase \in {"open", "committed", "failed"} => co.active = 0
    /\ IsFiniteSet(Out) /\ Cardinality(Out) = co.active
    /\ co.idle => co.open = {}

LEMMA MutationInit == Init => MutationInv
<1> SUFFICES ASSUME Init PROVE MutationInv
  OBVIOUS
<1>1. Out = {}
  BY DEF Init, NoEgress, Out
<1> QED BY <1>1, FS_EmptySet DEF Init, MutationInv, NewCoordinator, NoMutation

\* A step that closes and leaves mutation and permits alone.
LEMMA MutationQuiet ==
    ASSUME IType, MutationInv, UNCHANGED <<mutation, egress>>,
           co'.open = co.open, co'.active = co.active, co'.idle => co.idle,
           \A c \in Channels : co'.ready[c] # 0 => co.ready[c] # 0
    PROVE  MutationInv'
<1>1. Out' = Out
  BY DEF Out
<1>2. co.open \subseteq Channels
  BY DEF IType, TypeOK, Coordinators
<1> QED BY <1>1, <1>2 DEF MutationInv

LEMMA MutationStep ==
    ASSUME IType, IType', MutationInv, [Next]_fireVars
    PROVE  MutationInv'
<1>0. /\ co \in Coordinators /\ co.open \subseteq Channels
      /\ co.active \in Nat /\ \A c \in Channels : Unsent[c] = 0
  BY DEF IType, TypeOK, Coordinators, Unsent
<1>c. ASSUME Closes(co, co'), UNCHANGED <<mutation, egress>> PROVE MutationInv'
  BY <1>0, <1>c, MutationQuiet DEF Closes
<1>1. CASE UNCHANGED fireVars
  BY <1>0, <1>1, <1>c, ClosesSame DEF fireVars
<1>2. CASE ClosingStep
  BY <1>2, <1>c, ClosingCo
<1>3. CASE ObserveGeneration \/ ListRetained \/ ReadPending \/ beginLifecycleRelease
           \/ endLifecycleRelease
  <2>1. /\ co'.open = co.open /\ co'.active = co.active /\ co'.idle = co.idle
        /\ co'.ready = co.ready /\ UNCHANGED <<mutation, egress>>
    BY <1>0, <1>3 DEF ObserveGeneration, ListRetained, ReadPending, beginLifecycleRelease,
                      endLifecycleRelease, Coordinators
  <2> QED BY <2>1, MutationQuiet
<1>4. CASE recomputeReadiness
  <2> DEFINE ready == [c \in Channels |-> IF ReadyNow(c) THEN w.listed[c] ELSE 0]
             epoch == IF \A c \in Channels : ReadyNow(c) THEN w.epoch ELSE 0
  <2>1. co' = [co EXCEPT !.ready = ready, !.egressEpoch = epoch]
        /\ UNCHANGED <<mutation, egress>>
    BY <1>4 DEF recomputeReadiness
  <2>2. \A c \in co.open : ready[c] = 0
    BY <1>0 DEF ReadyNow
  <2> HIDE DEF ready, epoch
  <2>3. /\ co'.ready = ready /\ co'.open = co.open /\ co'.active = co.active
        /\ co'.idle = co.idle
    BY <1>0, <2>1 DEF Coordinators
  <2> QED BY <2>1, <2>2, <2>3 DEF MutationInv, Out
<1>5. CASE updateIdleState
  <2>1. IdleNow => co.open = {}
    BY <1>0 DEF IdleNow, AllReady, MutationInv
  <2>2. co' = [co EXCEPT !.idle = IdleNow, !.fresh = @ \ {Worker}]
        /\ UNCHANGED <<mutation, egress>>
    BY <1>5 DEF updateIdleState
  <2>3. /\ co'.ready = co.ready /\ co'.open = co.open /\ co'.active = co.active
        /\ co'.idle = IdleNow
    BY <1>0, <2>2 DEF Coordinators
  <2> QED BY <2>1, <2>2, <2>3 DEF MutationInv, Out
<1>6. CASE recoverActorFailure
  <2> DEFINE s == [co EXCEPT !.releasing = FALSE, !.fresh = @ \ {Worker}]
  <2>1. /\ s \in Coordinators /\ s.open = co.open /\ s.active = co.active
        /\ s.idle = co.idle
    BY <1>0 DEF Coordinators
  <2>2. co' = failCloseAllReadiness(s) /\ UNCHANGED <<mutation, egress>>
    BY <1>6 DEF recoverActorFailure
  <2> HIDE DEF s
  <2>3. /\ co'.open = co.open /\ co'.active = co.active /\ co'.ready = Unsent
        /\ co'.idle = FALSE
    BY <2>1, <2>2, FailClosed DEF Closes
  <2> QED BY <1>0, <2>2, <2>3, MutationQuiet
<1>7. ASSUME NEW c \in Channels, beginDomainMutation(c) PROVE MutationInv'
  <2> DEFINE s == [co EXCEPT !.open = @ \cup {c}]
  <2>1. /\ s \in Coordinators /\ s.open = co.open \cup {c} /\ s.active = co.active
        /\ s.ready = co.ready
    BY <1>0 DEF Coordinators
  <2>2. co' = CloseChannel(s, c) /\ UNCHANGED egress
        /\ mutation'.phase = "waiting" /\ mutation'.channel = c
    BY <1>7 DEF beginDomainMutation
  <2> HIDE DEF s
  <2>3. /\ co'.open = co.open \cup {c} /\ co'.active = co.active
        /\ co'.ready = [co.ready EXCEPT ![c] = 0] /\ co'.idle = FALSE
    <3>1. /\ CloseChannel(s, c).open = s.open /\ CloseChannel(s, c).active = s.active
          /\ CloseChannel(s, c).ready = [s.ready EXCEPT ![c] = 0]
          /\ CloseChannel(s, c).idle = FALSE
      BY <2>1, ChannelClosed
    <3> QED BY <2>1, <2>2, <3>1
  <2>4. \A d \in co'.open : co'.ready[d] = 0
    BY <1>0, <2>3 DEF MutationInv, Coordinators, Revisions
  <2> QED BY <2>2, <2>3, <2>4 DEF MutationInv, Out
<1>8. CASE CommitRevision \/ MutationDrained \/ MutationFails
  <2>1. /\ UNCHANGED <<co, egress>> /\ mutation'.channel = mutation.channel
        /\ mutation.phase \in {"waiting", "open"}
        /\ mutation'.phase \in {"open", "committed", "failed"}
        /\ mutation.phase = "waiting" => co.active = 0
    BY <1>8 DEF CommitRevision, MutationDrained, MutationFails, Mutating, IType, TypeOK
  <2> QED BY <2>1 DEF MutationInv, Out
<1>l. /\ LeaveBoundary(co).open \subseteq co.open /\ LeaveBoundary(co).active = co.active
      /\ LeaveBoundary(co).ready = co.ready /\ LeaveBoundary(co).idle = FALSE
  <2> DEFINE s == [co EXCEPT !.open = @ \ {mutation.channel}]
             t == invalidateRegularEgress(s)
  <2>1. /\ s \in Coordinators /\ s.open \subseteq co.open /\ s.active = co.active
        /\ s.ready = co.ready
    BY <1>0 DEF Coordinators
  <2>2. LeaveBoundary(co) = [t EXCEPT !.changed = TRUE]
    BY DEF LeaveBoundary
  <2> HIDE DEF s
  <2>3. /\ t \in Coordinators /\ t.open = s.open /\ t.active = s.active /\ t.ready = s.ready
        /\ t.idle = FALSE
    BY <2>1, Invalidated DEF Closes
  <2> HIDE DEF t
  <2> QED BY <2>1, <2>2, <2>3 DEF Coordinators
<1>9. CASE MutationTimesOut \/ completeDomainMutation
  <2>1. /\ co' = LeaveBoundary(co) /\ UNCHANGED egress
        /\ mutation'.phase \in {"none", "notify"}
    BY <1>9 DEF MutationTimesOut, completeDomainMutation, NoMutation, Mutating, IType, TypeOK
  <2> QED BY <1>l, <2>1 DEF MutationInv, Out
<1>10. CASE notifyOutboxChanged \/ \E c \in Channels : notifyUnchanged(c)
  <2>1. PICK c \in Channels : co' = CloseChannel(co, c)
    BY <1>10 DEF notifyOutboxChanged, notifyUnchanged, Mutating, IType
  <2>2. UNCHANGED egress /\ mutation'.phase = "none"
    BY <1>10 DEF notifyOutboxChanged, notifyUnchanged, NoMutation, Mutating
  <2>3. /\ co'.open = co.open /\ co'.active = co.active /\ co'.idle = FALSE
        /\ co'.ready = [co.ready EXCEPT ![c] = 0]
    BY <1>0, <2>1, ChannelClosed
  <2>4. \A d \in co'.open : co'.ready[d] = 0
    BY <1>0, <2>3 DEF MutationInv, Coordinators, Revisions
  <2> QED BY <2>2, <2>4, <2>3 DEF MutationInv, Out
<1>11. ASSUME NEW p \in Publishers, beginRegularEgress(p) PROVE MutationInv'
  <2>1. /\ co.open = {} /\ egress[p].phase = "off" /\ UNCHANGED mutation
        /\ co' = [co EXCEPT !.active = @ + 1, !.fresh = @ \cup {p}]
        /\ egress' = [egress EXCEPT ![p] = [phase |-> "granted", epoch |-> co.egressEpoch]]
    BY <1>11 DEF beginRegularEgress, NoMutationOpen
  <2>2. /\ co'.open = co.open /\ co'.active = co.active + 1 /\ co'.ready = co.ready
        /\ co'.idle = co.idle
    BY <1>0, <2>1 DEF Coordinators
  <2>3. Out' = Out \cup {p} /\ p \notin Out
    BY <2>1 DEF Out, IType, TypeOK
  <2>4. IsFiniteSet(Out') /\ Cardinality(Out') = Cardinality(Out) + 1
    BY <2>3, FS_AddElement DEF MutationInv
  <2> QED BY <2>1, <2>2, <2>4 DEF MutationInv
<1>12. ASSUME NEW p \in Publishers, CheckGrant(p) \/ PublishRegular(p) PROVE MutationInv'
  <2>1. /\ UNCHANGED <<co, mutation>> /\ egress[p].phase # "off"
        /\ \E ph \in {"checked", "sent", "done"} : egress' = [egress EXCEPT ![p].phase = ph]
    BY <1>12 DEF CheckGrant, PublishRegular
  <2>2. Out' = Out
    BY <2>1 DEF Out, IType, TypeOK
  <2> QED BY <2>1, <2>2 DEF MutationInv
<1>13. ASSUME NEW p \in Publishers, completeRegularEgress(p) PROVE MutationInv'
  <2>1. /\ egress[p].phase # "off" /\ egress' = [egress EXCEPT ![p] = NoEgress]
        /\ co' = [co EXCEPT !.active = IF @ = 0 THEN 0 ELSE @ - 1, !.fresh = @ \ {p}]
        /\ UNCHANGED mutation
    BY <1>13 DEF completeRegularEgress
  <2>2. /\ co'.open = co.open /\ co'.active = (IF co.active = 0 THEN 0 ELSE co.active - 1)
        /\ co'.ready = co.ready /\ co'.idle = co.idle
    BY <1>0, <2>1 DEF Coordinators
  <2>3. p \in Out /\ Out' = Out \ {p}
    BY <2>1 DEF Out, NoEgress, IType, TypeOK
  <2>4. IsFiniteSet(Out') /\ Cardinality(Out') = Cardinality(Out) - 1
    BY <2>3, FS_RemoveElement DEF MutationInv
  <2>5. co.active # 0
    BY <1>0, <2>3, <2>4, FS_EmptySet DEF MutationInv
  <2> QED BY <2>1, <2>2, <2>4, <2>5 DEF MutationInv
<1>14. CASE Crash \/ start
  <2>1. /\ co'.open = {} /\ co'.active = 0
        /\ mutation'.phase = "none" /\ Out' = {}
    BY <1>14 DEF Crash, start, NewCoordinator, NoMutation, NoEgress, Out
  <2> QED BY <2>1, FS_EmptySet DEF MutationInv
<1> QED BY <1>1, <1>2, <1>3, <1>4, <1>5, <1>6, <1>7, <1>8, <1>9, <1>10, <1>11, <1>12,
           <1>13, <1>14 DEF Next, ClosingStep, Turn, Boundary, RegularPublish, Process

-----------------------------------------------------------------------------
(***************************************************************************)
(* What the worker has read, phase by phase                                *)
(***************************************************************************)
\* A copy counts as long as nothing began or ended since; a channel that has
\* changed since the worker read it is in mutation, or nothing is fresh.
ReadyInv ==
    /\ ReadyIsCurrent
    /\ w.phase = "publish" /\ Worker \in co.fresh =>
           \A c \in Channels \ co.open : w.listed[c] = retained[c].rev
    /\ w.phase = "release" => \A c \in Channels : co.ready[c] \in {0, w.synced[c]}
    /\ w.phase = "tell" =>
           /\ co.releasing /\ co.open = {}
           /\ \A c \in Channels : w.synced[c] = retained[c].rev
    /\ w.phase = "settle" /\ w.quiet /\ AllReady(co) =>
           \A c \in Channels : PendingLifecycle(c) = {}

LEMMA ReadyInit == Init => ReadyInv
BY DEF Init, ReadyInv, ReadyIsCurrent, NewCoordinator, NewWorker, Unsent

\* A step that takes readiness back and keeps the revisions, in a turn that
\* goes on or is given up.
LEMMA ReadyQuiet ==
    ASSUME IType, ReadyInv, Keeps(w, w'),
           w'.phase = "settle" => UNCHANGED lifecycle,
           \A c \in Channels : retained'[c].rev = retained[c].rev,
           \A c \in Channels : co'.ready[c] \in {0, co.ready[c]},
           w.phase \in {"publish", "tell"} /\ w'.phase = w.phase =>
               /\ Worker \in co'.fresh => Worker \in co.fresh /\ co'.open = co.open
               /\ w.phase = "tell" => co'.open = co.open /\ co'.releasing = co.releasing
    PROVE  ReadyInv'
<1>1. ReadyIsCurrent'
  BY DEF ReadyInv, ReadyIsCurrent
<1>2. ASSUME w'.phase = "publish", Worker \in co'.fresh
      PROVE  \A c \in Channels \ co'.open : w'.listed[c] = retained'[c].rev
  BY <1>2 DEF ReadyInv, Keeps
<1>3. ASSUME w'.phase = "release"
      PROVE  \A c \in Channels : co'.ready[c] \in {0, w'.synced[c]}
  BY <1>3 DEF ReadyInv, Keeps
<1>4. ASSUME w'.phase = "tell"
      PROVE  /\ co'.releasing /\ co'.open = {}
             /\ \A c \in Channels : w'.synced[c] = retained'[c].rev
  BY <1>4 DEF ReadyInv, Keeps
<1>5. ASSUME w'.phase = "settle", w'.quiet, AllReady(co')
      PROVE  \A c \in Channels : PendingLifecycle(c)' = {}
  <2>1. AllReady(co)
    BY <1>5 DEF AllReady
  <2> QED BY <1>5, <2>1 DEF ReadyInv, Keeps, PendingLifecycle
<1> QED BY <1>1, <1>2, <1>3, <1>4, <1>5 DEF ReadyInv, ReadyIsCurrent, AllReady, PendingLifecycle

LEMMA ReadyStep ==
    ASSUME IType, MutationInv, ReadyInv, [Next]_fireVars
    PROVE  ReadyInv'
<1> USE DEF outbox, fireVars
<1>0. /\ co \in Coordinators /\ w \in WorkerStates /\ co.open \subseteq Channels
      /\ \A c \in Channels : Unsent[c] = 0
      /\ \A c \in Channels : retained[c].rev \in 1..MaxRevision
  BY DEF IType, TypeOK, Coordinators, Unsent
<1>r. ~CommitRevision => \A c \in Channels : retained'[c].rev = retained[c].rev
  BY RevisionsKept
<1>c. ASSUME Closes(co, co'), Keeps(w, w'), w'.phase = "settle" => UNCHANGED lifecycle,
             ~CommitRevision
      PROVE  ReadyInv'
  <2>1. \A c \in Channels : co'.ready[c] \in {0, co.ready[c]}
    BY <1>0, <1>c DEF Closes
  <2>2. /\ Worker \in co'.fresh => Worker \in co.fresh
        /\ co'.open = co.open /\ co'.releasing = co.releasing
    BY <1>c DEF Closes
  <2> QED BY <1>c, <1>r, <2>1, <2>2, ReadyQuiet
<1>k. UNCHANGED w => Keeps(w, w')
  BY DEF Keeps
<1>1. CASE UNCHANGED fireVars
  <2>1. /\ ReadyIsCurrent' = ReadyIsCurrent
        /\ \A c \in Channels : PendingLifecycle(c)' = PendingLifecycle(c)
    BY <1>1 DEF ReadyIsCurrent, PendingLifecycle
  <2> QED BY <1>1, <2>1 DEF ReadyInv, AllReady
<1>2. CASE ClosingStep
  <2>1. ~CommitRevision
    BY <1>2, ClosingCo DEF CommitRevision, Mutating, IType, TypeOK
  <2> QED BY <1>2, <1>c, <2>1, ClosingCo, ClosingWorker
<1>3. CASE ObserveGeneration
  <2>1. /\ w'.phase \in {"idle", "list"} /\ ~CommitRevision
        /\ co'.ready = co.ready
    BY <1>0, <1>3 DEF ObserveGeneration, At, CommitRevision, Mutating, WorkerStates,
                      Coordinators, IType, TypeOK
  <2> QED BY <1>0, <1>r, <2>1, ReadyQuiet DEF Keeps, ReadyInv, ReadyIsCurrent
<1>4. CASE ListRetained
  <2>1. /\ w'.phase = "publish" /\ w'.listed = [c \in Channels |-> retained[c].rev]
        /\ UNCHANGED <<co, outbox>>
    <3> DEFINE todo == {c \in Channels : /\ Unsynced(c) /\ c \notin w.deferred
                                         /\ ~InFlight("retained", c)}
               some == \E c \in Channels : Unsynced(c)
               revs == [c \in Channels |-> retained[c].rev]
    <3>1. w' = [w EXCEPT !.phase = "publish", !.listed = revs, !.unsynced = some, !.todo = todo]
          /\ UNCHANGED <<co, outbox>>
      BY <1>4 DEF ListRetained
    <3> HIDE DEF todo, some, revs
    <3>2. w'.phase = "publish" /\ w'.listed = revs
      BY <1>0, <3>1 DEF WorkerStates
    <3> QED BY <3>1, <3>2 DEF revs
  <2> QED BY <2>1 DEF ReadyInv, ReadyIsCurrent
<1>5. CASE recomputeReadiness
  <2> DEFINE ready == [c \in Channels |-> IF ReadyNow(c) THEN w.listed[c] ELSE 0]
             epoch == IF \A c \in Channels : ReadyNow(c) THEN w.epoch ELSE 0
  <2>1. /\ co' = [co EXCEPT !.ready = ready, !.egressEpoch = epoch]
        /\ w' = [w EXCEPT !.phase = IF w.unsynced THEN "idle" ELSE "release",
                          !.listed = Unsent, !.unsynced = FALSE]
        /\ UNCHANGED outbox /\ w.phase = "publish"
    BY <1>5 DEF recomputeReadiness, At
  <2>2. \A c \in Channels : ready[c] \in {0, retained[c].rev} /\ ready[c] \in {0, w.synced[c]}
    <3> SUFFICES ASSUME NEW c \in Channels, ReadyNow(c)
                 PROVE  w.listed[c] = retained[c].rev /\ w.listed[c] = w.synced[c]
      OBVIOUS
    <3> QED BY <2>1 DEF ReadyNow, ReadyInv
  <2> HIDE DEF ready, epoch
  <2>3. /\ co'.ready = ready /\ w'.synced = w.synced /\ w'.phase \in {"idle", "release"}
    BY <1>0, <2>1 DEF Coordinators, WorkerStates
  <2> QED BY <2>1, <2>2, <2>3 DEF ReadyInv, ReadyIsCurrent
<1>6. CASE beginLifecycleRelease
  <2>1. CASE ~MayRelease
    <3>1. w'.phase = "idle" /\ UNCHANGED <<co, outbox>>
      BY <1>0, <1>6, <2>1 DEF beginLifecycleRelease, WorkerStates
    <3> QED BY <3>1 DEF ReadyInv, ReadyIsCurrent
  <2>2. CASE MayRelease
    <3> DEFINE todo == {c \in Channels : /\ PendingLifecycle(c) # {} /\ c \notin w.deferred
                                         /\ ~InFlight("lifecycle", c)}
    <3>1. /\ w.phase = "release" /\ co' = [co EXCEPT !.releasing = TRUE]
          /\ w' = [w EXCEPT !.phase = "tell", !.todo = todo] /\ UNCHANGED outbox
      BY <1>6, <2>2 DEF beginLifecycleRelease, At
    <3> HIDE DEF todo
    <3>2. /\ co'.releasing = TRUE /\ co'.open = co.open /\ co'.ready = co.ready
          /\ w'.phase = "tell" /\ w'.synced = w.synced
      BY <1>0, <3>1 DEF Coordinators, WorkerStates
    <3>3. co.open = {} /\ \A c \in Channels : w.synced[c] = retained[c].rev
      BY <2>2, <3>1 DEF MayRelease, AllReady, ReadyInv, ReadyIsCurrent
    <3> QED BY <3>1, <3>2, <3>3 DEF ReadyInv, ReadyIsCurrent
  <2> QED BY <2>1, <2>2
<1>7. CASE endLifecycleRelease
  <2>1. w'.phase = "idle" /\ co'.ready = co.ready /\ UNCHANGED outbox
    BY <1>0, <1>7 DEF endLifecycleRelease, WorkerStates, Coordinators
  <2> QED BY <2>1 DEF ReadyInv, ReadyIsCurrent
<1>8. CASE ReadPending
  <2> DEFINE quiet == \A c \in Channels : PendingLifecycle(c) = {}
  <2>1. w' = [w EXCEPT !.phase = "settle", !.quiet = quiet] /\ UNCHANGED <<co, outbox>>
    BY <1>8 DEF ReadPending
  <2>2. w'.phase = "settle" /\ w'.quiet = quiet
    <3> HIDE DEF quiet
    <3> QED BY <1>0, <2>1 DEF WorkerStates
  <2>3. \A c \in Channels : PendingLifecycle(c)' = PendingLifecycle(c)
    BY <2>1 DEF PendingLifecycle
  <2> QED BY <2>1, <2>2, <2>3 DEF ReadyInv, ReadyIsCurrent
<1>9. CASE updateIdleState
  <2>1. w'.phase = "wait" /\ co'.ready = co.ready /\ UNCHANGED outbox
    BY <1>0, <1>9 DEF updateIdleState, WorkerStates, Coordinators
  <2> QED BY <2>1 DEF ReadyInv, ReadyIsCurrent
<1>10. CASE recoverActorFailure
  <2> DEFINE s == [co EXCEPT !.releasing = FALSE, !.fresh = @ \ {Worker}]
  <2>1. s \in Coordinators
    BY <1>0 DEF Coordinators
  <2>2. co'.ready = Unsent
    BY <1>10, <2>1, FailClosed DEF recoverActorFailure
  <2>3. w'.phase = "wait"
    BY <1>10 DEF recoverActorFailure, Forget, NewWorker
  <2> QED BY <1>0, <2>2, <2>3 DEF ReadyInv, ReadyIsCurrent
<1>11. ASSUME NEW c \in Channels, beginDomainMutation(c) PROVE ReadyInv'
  <2> DEFINE s == [co EXCEPT !.open = @ \cup {c}]
  <2>1. s \in Coordinators /\ s.ready = co.ready
    BY <1>0 DEF Coordinators
  <2>2. co' = CloseChannel(s, c) /\ ~co.releasing /\ UNCHANGED <<w, outbox>>
    BY <1>11 DEF beginDomainMutation
  <2> HIDE DEF s
  <2>3. CloseChannel(s, c).fresh = {} /\ CloseChannel(s, c).ready = [s.ready EXCEPT ![c] = 0]
    BY <2>1, ChannelClosed
  <2>4. co'.fresh = {} /\ co'.ready = [co.ready EXCEPT ![c] = 0]
    BY <2>1, <2>2, <2>3
  <2>5. \A d \in Channels : co'.ready[d] \in {0, co.ready[d]}
    BY <1>0, <2>4 DEF Coordinators, Revisions
  <2>6. w.phase # "tell"
    BY <2>2 DEF ReadyInv
  <2>7. \A d \in Channels : retained'[d].rev = retained[d].rev
    BY <2>2
  <2> QED BY <1>k, <2>2, <2>4, <2>5, <2>6, <2>7, ReadyQuiet
<1>12. CASE MutationDrained \/ MutationFails
  <2>1. UNCHANGED <<co, w, outbox>>
    BY <1>12 DEF MutationDrained, MutationFails
  <2>2. \A c \in Channels : PendingLifecycle(c)' = PendingLifecycle(c)
    BY <2>1 DEF PendingLifecycle
  <2> QED BY <2>1, <2>2 DEF ReadyInv, ReadyIsCurrent
<1>l. LeaveBoundary(co).ready = co.ready /\ LeaveBoundary(co).fresh = {}
  <2> DEFINE s == [co EXCEPT !.open = @ \ {mutation.channel}]
             t == invalidateRegularEgress(s)
  <2>1. s \in Coordinators /\ s.ready = co.ready
    BY <1>0 DEF Coordinators
  <2>2. LeaveBoundary(co) = [t EXCEPT !.changed = TRUE]
    BY DEF LeaveBoundary
  <2> HIDE DEF s
  <2>3. t \in Coordinators /\ t.ready = s.ready /\ t.fresh = {}
    BY <2>1, Invalidated
  <2> HIDE DEF t
  <2> QED BY <2>1, <2>2, <2>3 DEF Coordinators
<1>13. CASE MutationTimesOut \/ completeDomainMutation
  <2>1. co' = LeaveBoundary(co) /\ UNCHANGED <<w, outbox>> /\ mutation.channel \in co.open
    BY <1>13 DEF MutationTimesOut, completeDomainMutation, Mutating, MutationInv
  <2>2. w.phase # "tell"
    BY <2>1 DEF ReadyInv
  <2>3. \A d \in Channels : retained'[d].rev = retained[d].rev /\ co'.ready[d] = co.ready[d]
    BY <1>l, <2>1
  <2> QED BY <1>k, <1>l, <2>1, <2>2, <2>3, ReadyQuiet
<1>14. CASE notifyOutboxChanged \/ \E c \in Channels : notifyUnchanged(c)
  <2>0. PICK c \in Channels : co' = CloseChannel(co, c)
    BY <1>14 DEF notifyOutboxChanged, notifyUnchanged, Mutating, IType
  <2> DEFINE t == CloseChannel(co, c)
  <2>1. co' = t /\ UNCHANGED <<w, outbox>>
    BY <1>14, <2>0 DEF notifyOutboxChanged, notifyUnchanged
  <2>2. /\ t.ready = [co.ready EXCEPT ![c] = 0] /\ t.fresh = {}
        /\ t.open = co.open /\ t.releasing = co.releasing
    BY <1>0, <2>1, ChannelClosed
  <2>3. \A d \in Channels : co'.ready[d] \in {0, co.ready[d]}
    BY <1>0, <2>1, <2>2 DEF Coordinators, Revisions
  <2>4. \A d \in Channels : retained'[d].rev = retained[d].rev
    BY <2>1
  <2> HIDE DEF t
  <2> QED BY <1>k, <2>1, <2>2, <2>3, <2>4, ReadyQuiet
<1>15. CASE CommitRevision
  <2> DEFINE d == mutation.channel
  <2>1. /\ UNCHANGED <<co, w>> /\ d \in co.open /\ co.ready[d] = 0
        /\ \A c \in Channels \ {d} : retained'[c].rev = retained[c].rev
    BY <1>15 DEF CommitRevision, Mutating, MutationInv, IType, TypeOK
  <2>2. d \in Channels
    BY <1>0, <2>1
  <2>3. ~AllReady(co)
    BY <2>1, <2>2 DEF AllReady
  <2> HIDE DEF d
  <2>4. ReadyIsCurrent'
    BY <2>1 DEF ReadyInv, ReadyIsCurrent
  <2> QED BY <2>1, <2>3, <2>4 DEF ReadyInv, ReadyIsCurrent
<1>16. ASSUME NEW p \in Publishers, beginRegularEgress(p) PROVE ReadyInv'
  <2>1. /\ co' = [co EXCEPT !.active = @ + 1, !.fresh = @ \cup {p}]
        /\ UNCHANGED <<w, outbox>> /\ p # Worker
    BY <1>16, FireAssumption DEF beginRegularEgress
  <2>2. /\ co'.ready = co.ready /\ co'.open = co.open /\ co'.releasing = co.releasing
        /\ Worker \in co'.fresh => Worker \in co.fresh
    BY <1>0, <2>1 DEF Coordinators
  <2>3. \A c \in Channels : retained'[c].rev = retained[c].rev
    BY <2>1
  <2> QED BY <1>k, <2>1, <2>2, <2>3, ReadyQuiet
<1>17. ASSUME NEW p \in Publishers, RegularPublish(p) PROVE ReadyInv'
  <2>1. /\ UNCHANGED <<w, outbox>>
        /\ \/ UNCHANGED co
           \/ co' = [co EXCEPT !.active = IF @ = 0 THEN 0 ELSE @ - 1, !.fresh = @ \ {p}]
    BY <1>17 DEF RegularPublish, CheckGrant, PublishRegular, completeRegularEgress
  <2>2. /\ co'.ready = co.ready /\ co'.open = co.open /\ co'.releasing = co.releasing
        /\ Worker \in co'.fresh => Worker \in co.fresh
    BY <1>0, <2>1 DEF Coordinators
  <2>3. \A c \in Channels : retained'[c].rev = retained[c].rev
    BY <2>1
  <2> QED BY <1>k, <2>1, <2>2, <2>3, ReadyQuiet
<1>18. CASE Crash \/ start
  <2>1. co'.ready = Unsent /\ w'.phase = "wait"
    BY <1>18 DEF Crash, start, NewCoordinator, NewWorker
  <2> QED BY <1>0, <2>1 DEF ReadyInv, ReadyIsCurrent
<1> QED BY <1>1, <1>2, <1>3, <1>4, <1>5, <1>6, <1>7, <1>8, <1>9, <1>10, <1>11, <1>12,
           <1>13, <1>14, <1>15, <1>16, <1>17, <1>18
        DEF Next, ClosingStep, Turn, Boundary, Process

-----------------------------------------------------------------------------
TurnInv == IType /\ MutationInv /\ ReadyInv

LEMMA TurnInvariance == Spec => []TurnInv
<1>1. Init => TurnInv
  BY TypeInit, MutationInit, ReadyInit DEF TurnInv
<1>2. TurnInv /\ [Next]_fireVars => TurnInv'
  <2> SUFFICES ASSUME TurnInv, [Next]_fireVars PROVE TurnInv'
    OBVIOUS
  <2>1. IType'
    BY TypeStep DEF TurnInv
  <2> QED BY <2>1, MutationStep, ReadyStep DEF TurnInv
<1> QED BY <1>1, <1>2, PTL DEF Spec

LEMMA TurnIsDrained == TurnInv => DrainedMutation
<1> SUFFICES ASSUME TurnInv, mutation.phase \in {"open", "committed", "failed"},
                    NEW p \in Publishers
             PROVE  egress[p].phase = "off"
  BY DEF DrainedMutation
<1>1. IsFiniteSet(Out) /\ Cardinality(Out) = 0
  BY DEF TurnInv, MutationInv
<1> QED BY <1>1, FS_EmptySet DEF Out

\* No revision is committed while a regular message is under way.
THEOREM DrainedMutationAlways == Spec => []DrainedMutation
BY TurnIsDrained, TurnInvariance, PTL

\* Readiness never names an older revision than the committed one.
THEOREM ReadyIsCurrentAlways == Spec => []ReadyIsCurrent
<1>1. TurnInv => ReadyIsCurrent
  BY DEF TurnInv, ReadyInv
<1> QED BY <1>1, TurnInvariance, PTL
=============================================================================
