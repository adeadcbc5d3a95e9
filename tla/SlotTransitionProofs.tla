------------------------ MODULE SlotTransitionProofs ------------------------
(***************************************************************************)
(* The worker uses the store only as the store's own specification allows: *)
(* whatever is proved of every behaviour of the store holds of the actor,  *)
(* through every crash, restart, retry and stop.                           *)
(***************************************************************************)
EXTENDS SlotTransitionActor, OccupancyStoreProofs

\* What the queue may hold at tick n: commands received no later than n.
QueuedBy(n) ==
    [cmd : UNION {CommandsReceivedAt(t) : t \in 0..n}, next : Nat]

ActorInv ==
    /\ now \in Nat
    /\ ingress \in Seq(QueuedBy(now))
    /\ blocked \subseteq Slots

LEMMA QueuedSlots ==
    ASSUME ActorInv
    PROVE  {ingress[i].cmd.slot : i \in DOMAIN ingress} \subseteq Slots
<1> SUFFICES ASSUME NEW i \in DOMAIN ingress PROVE ingress[i].cmd.slot \in Slots
  OBVIOUS
<1>1. ingress[i] \in QueuedBy(now)
  BY DEF ActorInv
<1>2. PICK t \in 0..now : ingress[i].cmd \in CommandsReceivedAt(t)
  BY <1>1 DEF QueuedBy
<1>3. t \in Nat
  BY DEF ActorInv
<1> QED BY <1>2, <1>3, ReceivedCommandOK DEF CommandOK

LEMMA RemovedHead ==
    ASSUME NEW S, NEW q \in Seq(S), NEW i \in DOMAIN q
    PROVE  RemoveAt(q, i) \in Seq(S)
<1>1. i \in 1..Len(q)
  OBVIOUS
<1>2. SubSeq(q, 1, i - 1) \in Seq(S)
  BY <1>1
<1>3. SubSeq(q, i + 1, Len(q)) \in Seq(S)
  BY <1>1
<1> QED BY <1>2, <1>3 DEF RemoveAt

LEMMA DeferredHead ==
    ASSUME ActorInv, NEW i \in DOMAIN ingress, DeferHead(i)
    PROVE  ingress' \in Seq(QueuedBy(now))
<1> DEFINE later == now + RetryDelay
           row == [ingress[i] EXCEPT !.next = later]
<1>1. later \in Nat /\ ingress[i] \in QueuedBy(now)
  BY TimingAssumption DEF ActorInv
<1> HIDE DEF later
<1>2. row \in QueuedBy(now)
  BY <1>1 DEF QueuedBy
<1>3. ingress' = [ingress EXCEPT ![i] = row]
  BY DEF DeferHead, later
<1> HIDE DEF row
<1> QED BY <1>2, <1>3 DEF ActorInv

\* A step of the actor, seen from below, is one transaction of the store or none.
LEMMA WorkerUsesStore ==
    ASSUME ActorInv, Next
    PROVE  StoreNext \/ UNCHANGED storeVars
<1>1. CASE AdmitHead
  <2>1. PICK i \in DOMAIN ingress :
             \/ admitSlotTransitionCommand(ingress[i].cmd)
             \/ UNCHANGED storeVars
    BY <1>1 DEF AdmitHead
  <2>2. ingress[i] \in QueuedBy(now)
    BY DEF ActorInv
  <2>3. \E t \in 0..now : ingress[i].cmd \in CommandsReceivedAt(t)
    BY <2>2 DEF QueuedBy
  <2> QED BY <2>1, <2>3 DEF StoreNext
<1>2. CASE ReduceHead \/ ReduceDeferred
  BY <1>2 DEF ReduceHead, ReduceDeferred, StoreNext, ReduceRow
<1>3. CASE AdmitDeadlines
  BY <1>3 DEF AdmitDeadlines, ActorInv, StoreNext
<1>4. CASE RefuseEffect \/ AcknowledgeEffect
  BY <1>4 DEF RefuseEffect, AcknowledgeEffect, StoreNext
<1>5. CASE EndTurn
  BY <1>5 DEF EndTurn, StoreNext
<1>6. CASE Clock
  BY <1>6 DEF Clock, StoreNext
<1>7. CASE \/ IngressDone \/ LinearizeDeadlines \/ ListEffects \/ DeliverEffect
           \/ ReplayRound \/ Input \/ Start \/ stopAndDrain \/ Crash
  BY <1>7 DEF IngressDone, LinearizeDeadlines, ListEffects, DeliverEffect, ReplayRound,
              Input, Start, stopAndDrain, Crash
<1> QED BY <1>1, <1>2, <1>3, <1>4, <1>5, <1>6, <1>7 DEF Next, Worker

LEMMA ActorInvStep ==
    ASSUME ActorInv, Next
    PROVE  ActorInv'
<1>1. CASE Clock
  <2>1. now' = now + 1 /\ UNCHANGED <<ingress, blocked>>
    BY <1>1 DEF Clock, Tick, actor
  <2>2. QueuedBy(now) \subseteq QueuedBy(now')
    BY <2>1 DEF QueuedBy, ActorInv
  <2>3. ingress' \in Seq(QueuedBy(now'))
    BY <2>1, <2>2 DEF ActorInv
  <2> QED BY <2>1, <2>3 DEF ActorInv
<1>2. ASSUME UNCHANGED now, ingress' \in Seq(QueuedBy(now)), blocked' \subseteq Slots
      PROVE  ActorInv'
  <2>1. QueuedBy(now') = QueuedBy(now)
    BY <1>2
  <2> QED BY <1>2, <2>1 DEF ActorInv
<1>3. CASE Input
  <2>1. PICK c \in CommandsReceivedAt(now) : ingress' = Append(ingress, [cmd |-> c, next |-> 0])
    BY <1>3 DEF Input, submit
  <2>2. [cmd |-> c, next |-> 0] \in QueuedBy(now)
    BY DEF QueuedBy, ActorInv
  <2> QED BY <1>2, <1>3, <2>1, <2>2 DEF Input, storeVars, actor, ActorInv
<1>4. CASE AdmitHead
  <2>1. PICK i \in DOMAIN ingress : ingress' = RemoveAt(ingress, i) \/ DeferHead(i)
    BY <1>4 DEF AdmitHead
  <2>2. ingress' \in Seq(QueuedBy(now))
    BY <2>1, RemovedHead, DeferredHead DEF ActorInv
  <2>3. UNCHANGED <<now, blocked>>
    BY <1>4 DEF AdmitHead, StayProgressed, admitSlotTransitionCommand, storeVars
  <2> QED BY <1>2, <2>2, <2>3 DEF ActorInv
<1>5. CASE LinearizeDeadlines
  BY <1>2, <1>5, QueuedSlots DEF LinearizeDeadlines, storeVars, ActorInv
<1>6. CASE Crash
  BY <1>2, <1>6 DEF Crash, storeVars
<1>7. CASE ReduceHead \/ ReduceDeferred
  <2>1. UNCHANGED <<now, ingress, blocked>>
    BY <1>7 DEF ReduceHead, ReduceDeferred, StayProgressed, deferSlotTransitionCommand,
         applySlotTransitionCommand, HallOvertaken, HallOccupiedStarts,
         HallOccupiedConfirms, HallVacantIdle, HallVacantTooEarly, HallVacantIgnored,
         HallVacantHeld, HallVacantEnds, CameraCorrelates, CameraRejected,
         CameraExitTooEarly, CameraIgnored, IntrusionStarts, IntrusionConfirms,
         ExitObserved, ExitSchedules, DeadlineStale, DeadlineHeld, DeadlineEnds
  <2> QED BY <1>2, <2>1 DEF ActorInv
<1>8. CASE AdmitDeadlines
  BY <1>2, <1>8 DEF AdmitDeadlines, admitDueSlotDeadlines, storeVars, ActorInv
<1>9. CASE \/ IngressDone \/ ListEffects \/ DeliverEffect \/ RefuseEffect
           \/ AcknowledgeEffect \/ EndTurn \/ ReplayRound \/ Start \/ stopAndDrain
  <2>1. UNCHANGED <<now, ingress, blocked>>
    BY <1>9 DEF IngressDone, ListEffects, DeliverEffect, RefuseEffect, AcknowledgeEffect,
         EndTurn, ReplayRound, Start, stopAndDrain, MoveTo, storeVars,
         deferSlotTransitionEffects, completeSlotTransitionEffects,
         purgeSettledSlotTransitionCommands
  <2> QED BY <1>2, <2>1 DEF ActorInv
<1> QED BY <1>1, <1>3, <1>4, <1>5, <1>6, <1>7, <1>8, <1>9 DEF Next, Worker

LEMMA ActorInvInit == Init => ActorInv
  BY DEF Init, StoreInit, ActorInv

\* The worker, its queue, its retries, crashes and stops add no way to use the
\* tables that the transactions alone do not have: the actor refines the store.
THEOREM ActorImplementsStore == Spec => StoreSpec
<1>1. Init => StoreInit
  BY DEF Init
<1>2. ActorInv /\ [Next]_vars => ActorInv' /\ [StoreNext]_storeVars
  <2>1. ActorInv /\ Next => ActorInv' /\ [StoreNext]_storeVars
    BY ActorInvStep, WorkerUsesStore
  <2>2. ActorInv /\ UNCHANGED vars => ActorInv' /\ UNCHANGED storeVars
    BY DEF vars, actor, storeVars, ActorInv, QueuedBy, CommandsReceivedAt, HallInputs,
           CameraInputs
  <2> QED BY <2>1, <2>2
<1> QED BY <1>1, <1>2, ActorInvInit, PTL DEF Spec, StoreSpec

\* So the tables agree about every slot under the running server, and no frame
\* that the links repeat blocks one ...
THEOREM ActorKeepsSessions == Spec => [](SessionInv /\ VersionedNeverThrows)
  BY ActorImplementsStore, SlotStateAgrees, VersionedRedeliveryIsHarmless, PTL

\* ... and the server never ends one that a source still holds.
THEOREM ActorEndsNoHeldSession == Spec => NoEndWhileHeld
  BY ActorImplementsStore, NoPrematureEnd

-----------------------------------------------------------------------------
(***************************************************************************)
(* The types of the actor                                                  *)
(***************************************************************************)
ActorTypes ==
    /\ Len(ingress) <= TransportCapacity
    /\ mode \in {"down", "replay", "running"} /\ phase \in Phases
    /\ stopping \in BOOLEAN /\ progressed \in BOOLEAN /\ cutoff \in Nat
    /\ batch \subseteq Nat

\* The queue grows only in submit, which asks for room first.
LEMMA QueueBounded ==
    ASSUME ActorInv, Len(ingress) <= TransportCapacity, Next
    PROVE  Len(ingress') <= TransportCapacity
<1>1. ingress \in Seq(QueuedBy(now)) /\ TransportCapacity \in Nat \ {0}
  BY ActorAssumption DEF ActorInv
<1>2. CASE Input
  <2>1. PICK c : submit(c)
    BY <1>2 DEF Input
  <2> QED BY <1>1, <2>1 DEF submit
<1>3. CASE AdmitHead
  <2>1. PICK i \in DOMAIN ingress : ingress' = RemoveAt(ingress, i) \/ DeferHead(i)
    BY <1>3 DEF AdmitHead
  <2>2. CASE ingress' = RemoveAt(ingress, i)
    <3>1. i \in 1..Len(ingress) /\ Len(ingress) \in Nat
      BY <1>1
    <3>2. Len(SubSeq(ingress, 1, i - 1)) = i - 1
      BY <1>1, <3>1
    <3>3. Len(SubSeq(ingress, i + 1, Len(ingress))) = Len(ingress) - i
      BY <1>1, <3>1
    <3>4. Len(ingress') = Len(ingress) - 1
      <4>1. SubSeq(ingress, 1, i - 1) \in Seq(QueuedBy(now))
        BY <1>1, <3>1
      <4>2. SubSeq(ingress, i + 1, Len(ingress)) \in Seq(QueuedBy(now))
        BY <1>1, <3>1
      <4>3. Len(SubSeq(ingress, 1, i - 1) \o SubSeq(ingress, i + 1, Len(ingress)))
              = (i - 1) + (Len(ingress) - i)
        BY <3>2, <3>3, <4>1, <4>2
      <4>4. Len(ingress') = (i - 1) + (Len(ingress) - i)
        BY <2>2, <4>3 DEF RemoveAt
      <4> HIDE <2>2
      <4> QED BY <3>1, <4>4
    <3> QED BY <1>1, <3>1, <3>4
  <2>3. CASE DeferHead(i)
    BY <1>1, <2>3 DEF DeferHead
  <2> QED BY <2>1, <2>2, <2>3
<1>4. CASE Crash
  BY <1>1, <1>4 DEF Crash
<1>5. CASE Next /\ ~(Input \/ AdmitHead \/ Crash)
  <2>1. ingress' = ingress
    BY <1>5 DEF Next, Worker, IngressDone, ReduceHead, ReduceDeferred, LinearizeDeadlines,
         AdmitDeadlines, ListEffects, DeliverEffect, RefuseEffect, AcknowledgeEffect,
         EndTurn, ReplayRound, Clock, Start, stopAndDrain
  <2> QED BY <2>1
<1> QED BY <1>2, <1>3, <1>4, <1>5

LEMMA ActorTypesStep ==
    ASSUME ActorInv, StoreTypeOK, ActorTypes, Next
    PROVE  ActorTypes'
<1>1. Len(ingress') <= TransportCapacity
  BY QueueBounded DEF ActorTypes
<1> DEFINE Rest == /\ mode' \in {"down", "replay", "running"} /\ phase' \in Phases
                   /\ stopping' \in BOOLEAN /\ progressed' \in BOOLEAN
                   /\ cutoff' \in Nat /\ batch' \subseteq Nat
<1>2. Recorded \in BOOLEAN
  BY DEF Recorded, ActorTypes
<1>3. ASSUME AdmitHead \/ ReduceHead \/ ReduceDeferred PROVE Rest
  <2>1. StayProgressed
    BY <1>3 DEF AdmitHead, ReduceHead, ReduceDeferred
  <2> QED BY <1>2, <2>1 DEF StayProgressed, ActorTypes
<1>4. ASSUME IngressDone \/ DeliverEffect PROVE Rest
  <2>1. \E p \in Phases : MoveTo(p)
    BY <1>4 DEF IngressDone, DeliverEffect, Phases
  <2> QED BY <2>1 DEF MoveTo, ActorTypes
<1>5. ASSUME LinearizeDeadlines PROVE Rest
  BY <1>5 DEF LinearizeDeadlines, ActorTypes, Phases
<1>6. ASSUME AdmitDeadlines PROVE Rest
  <2>1. progressed' \in BOOLEAN
    BY <1>2, <1>6 DEF AdmitDeadlines, ActorTypes
  <2> QED BY <1>6, <2>1 DEF AdmitDeadlines, ActorTypes, Phases
<1>7. ASSUME ListEffects PROVE Rest
  <2>1. \A r \in inbox : r.ordinal \in Nat
    BY DEF StoreTypeOK, InboxOK, RowOK, InboxRows
  <2> QED BY <1>7, <2>1 DEF ListEffects, listPendingSlotTransitionEffects, ActorTypes, Phases
<1>8. ASSUME RefuseEffect \/ AcknowledgeEffect PROVE Rest
  <2>1. batch' \subseteq Nat
    BY <1>8 DEF RefuseEffect, AcknowledgeEffect, ActorTypes
  <2> QED BY <1>2, <1>8, <2>1 DEF RefuseEffect, AcknowledgeEffect, ActorTypes, Phases
<1>9. ASSUME EndTurn PROVE Rest
  BY <1>9 DEF EndTurn, ActorTypes, Phases
<1>10. ASSUME ReplayRound PROVE Rest
  BY <1>10 DEF ReplayRound, ActorTypes, Phases
<1>11. ASSUME Input \/ Clock PROVE Rest
  BY <1>11 DEF Input, Clock, actor, ActorTypes
<1>12. ASSUME Start PROVE Rest
  BY <1>12 DEF Start, ActorTypes, Phases
<1>13. ASSUME stopAndDrain PROVE Rest
  BY <1>13 DEF stopAndDrain, ActorTypes, StoreTypeOK
<1>14. ASSUME Crash PROVE Rest
  BY <1>14 DEF Crash, ActorTypes, Phases
<1>15. Rest
  BY <1>3, <1>4, <1>5, <1>6, <1>7, <1>8, <1>9, <1>10, <1>11, <1>12, <1>13, <1>14
     DEF Next, Worker
<1> QED BY <1>1, <1>15 DEF ActorTypes

LEMMA ActorInvHolds == Spec => []ActorInv
<1>1. ActorInv /\ [Next]_vars => ActorInv'
  <2>1. ActorInv /\ UNCHANGED vars => ActorInv'
    BY DEF vars, actor, storeVars, ActorInv, QueuedBy, CommandsReceivedAt, HallInputs,
           CameraInputs
  <2> QED BY <2>1, ActorInvStep
<1> QED BY <1>1, ActorInvInit, PTL DEF Spec

LEMMA StoreTypesUnderActor == Spec => []StoreTypeOK
  BY ActorImplementsStore, StoreTypeSafety, PTL

\* Every variable of the actor keeps its type, the ingress queue its bound, and
\* every queued command is one that some link delivered at an earlier tick.
THEOREM ActorTypeSafety == Spec => []TypeOK
<1>1. Init => ActorTypes
  <2>1. Init => Len(ingress) <= TransportCapacity
    <3>1. Len(<<>>) = 0
      OBVIOUS
    <3> QED BY <3>1, ActorAssumption DEF Init
  <2>2. Init => batch \subseteq Nat /\ cutoff \in Nat
    BY DEF Init
  <2>3. Init => mode = "down" /\ phase = "ingress" /\ ~stopping /\ ~progressed
                  /\ stopping \in BOOLEAN /\ progressed \in BOOLEAN
    BY DEF Init
  <2> QED BY <2>1, <2>2, <2>3 DEF ActorTypes, Phases
<1>2. ActorInv /\ StoreTypeOK /\ ActorTypes /\ [Next]_vars => ActorTypes'
  <2>1. ActorTypes /\ UNCHANGED vars => ActorTypes'
    BY DEF vars, actor, ActorTypes
  <2> QED BY <2>1, ActorTypesStep
<1>3. ActorInv /\ StoreTypeOK /\ ActorTypes => TypeOK
  <2> SUFFICES ASSUME ActorInv, StoreTypeOK, ActorTypes PROVE TypeOK
    OBVIOUS
  <2>1. ASSUME NEW i \in DOMAIN ingress
        PROVE  /\ \E t \in 0..now : ingress[i].cmd \in CommandsReceivedAt(t)
               /\ ingress[i].next \in Nat
    <3>1. ingress[i] \in QueuedBy(now)
      BY DEF ActorInv
    <3> QED BY <3>1 DEF QueuedBy
  <2> QED BY <2>1 DEF TypeOK, ActorInv, ActorTypes
<1> QED BY <1>1, <1>2, <1>3, ActorInvHolds, StoreTypesUnderActor, PTL DEF Spec

-----------------------------------------------------------------------------
(***************************************************************************)
(* The orderly stop                                                        *)
(***************************************************************************)

\* A worker that left its loop because it was asked to left nothing behind that
\* was due when it was asked, and no queued command.
OrderlyStopIsDrained ==
    mode = "down" /\ stopping => ingress = <<>> /\ ~DrainRemains(cutoff)

\* A purge takes nothing away that a stop would have waited for, and adds
\* nothing either.
LEMMA PurgeKeepsDrained ==
    ASSUME purgeSettledSlotTransitionCommands, ~DrainRemains(cutoff), UNCHANGED cutoff
    PROVE  ~DrainRemains(cutoff)'
<1>1. inbox' \subseteq inbox /\ deadlines' = deadlines
  BY DEF purgeSettledSlotTransitionCommands, domain
<1> QED BY <1>1 DEF DrainRemains, Pending, PendingIn, OwesEffect

LEMMA OrderlyStopStep ==
    ASSUME OrderlyStopIsDrained, Next
    PROVE  OrderlyStopIsDrained'
<1>1. CASE EndTurn
  <2> SUFFICES ASSUME mode' = "down" PROVE ingress' = <<>> /\ ~DrainRemains(cutoff)'
    BY DEF OrderlyStopIsDrained
  <2>1. ~MustContinue
    BY <1>1 DEF EndTurn, TurnOver, Working
  <2>2. ingress' = <<>> /\ ~DrainRemains(cutoff) /\ UNCHANGED cutoff
    BY <1>1, <2>1 DEF EndTurn, MustContinue
  <2>3. CASE purgeSettledSlotTransitionCommands
    BY <2>2, <2>3, PurgeKeepsDrained
  <2>4. CASE UNCHANGED storeVars
    BY <2>2, <2>4 DEF storeVars, domain, DrainRemains, Pending, PendingIn, OwesEffect
  <2> QED BY <1>1, <2>2, <2>3, <2>4 DEF EndTurn
<1>2. CASE Clock
  BY <1>2 DEF Clock, Tick, domain, actor, OrderlyStopIsDrained, DrainRemains, Pending,
       PendingIn, OwesEffect
<1>3. CASE Start \/ Crash
  BY <1>3 DEF Start, Crash, OrderlyStopIsDrained
<1>4. CASE Next /\ ~(EndTurn \/ Clock \/ Start \/ Crash)
  <2>1. mode' # "down"
    BY <1>4 DEF Next, Worker, AdmitHead, IngressDone, ReduceHead, ReduceDeferred,
         LinearizeDeadlines, AdmitDeadlines, ListEffects, DeliverEffect, RefuseEffect,
         AcknowledgeEffect, ReplayRound, Input, submit, stopAndDrain, Working, Reducing,
         TurnOver, MoveTo, StayProgressed, actor
  <2> QED BY <2>1 DEF OrderlyStopIsDrained
<1> QED BY <1>1, <1>2, <1>3, <1>4

\* stopAndDrain leaves the loop only when nothing that was due at the request is
\* left, and nothing turns up afterwards: not even a purge, which may run in the
\* very turn that ends the loop.
LEMMA OrderlyStopDrains == Spec => []OrderlyStopIsDrained
<1>1. Init => OrderlyStopIsDrained
  BY DEF Init, OrderlyStopIsDrained
<1>2. OrderlyStopIsDrained /\ [Next]_vars => OrderlyStopIsDrained'
  <2>1. OrderlyStopIsDrained /\ UNCHANGED vars => OrderlyStopIsDrained'
    BY DEF vars, storeVars, domain, actor, OrderlyStopIsDrained, DrainRemains, Pending,
         PendingIn, OwesEffect
  <2> QED BY <2>1, OrderlyStopStep
<1> QED BY <1>1, <1>2, PTL DEF Spec

\* What the store keeps for every caller it keeps under the running server, where
\* the runs check it: no candidate that was contradicted in time, ...
THEOREM ActorCancelsContradicted == Spec => []ContradictedIsCanceled
  BY ActorImplementsStore, ContradictionCancels, PTL

\* ... bindings that live as long as their session, deadlines with one owner.
THEOREM ActorKeepsOwners == Spec => [](BindingFollowsSession /\ DeadlineHasOneOwner)
  BY ActorImplementsStore, BindingsFollowSessions, DeadlinesAreOwned, PTL

-----------------------------------------------------------------------------
(***************************************************************************)
(* The ledger.  What relates the tables to it is what is owed: an entry    *)
(* that the sink has not heard is owed by a row of the inbox, rows of a    *)
(* slot owe in the order of its ledger, and the batch names what is owed   *)
(* first.  A crash loses the batch and the queue, never a debt.            *)
(***************************************************************************)
Event(r) == <<r.result, r.session>>
Debt(r) == [n |-> r.ordinal, slot |-> r.slot, event |-> Event(r)]

\* The effects that are owed, without the bookkeeping of their rows.
Debts == {Debt(r) : r \in {q \in inbox : Owes(q)}}

Events == {"SESSION_STARTED", "SESSION_ENDED"} \X (Nat \ {0})

\* What is owed was committed, and is owed in the order of the ledger.
DebtsInOrder ==
    /\ \A d \in Debts : d.event \in SlotEvents(d.slot)
    /\ \A c, d \in Debts :
         c.slot = d.slot /\ c.n <= d.n => Ledger!Place(c.event) <= Ledger!Place(d.event)

\* An open session is the last one of its slot.
OpenIsLast ==
    \A s \in Slots : \A p \in find_active(s), k \in DOMAIN sessions :
        sessions[k].slot = s => k <= p

\* The sink heard a beginning of each slot's ledger; the rest is owed.
HeardInOrder ==
    \A s \in Slots :
        /\ Ledger!Heard(s) \subseteq SlotEvents(s)
        /\ \A e \in SlotEvents(s) :
             e \in Ledger!Heard(s) \/ \E d \in Debts : d.slot = s /\ d.event = e
        /\ \A h \in Ledger!Heard(s), d \in Debts :
             d.slot = s => Ledger!Place(h) <= Ledger!Place(d.event)
        /\ \A h \in Ledger!Heard(s) :
             Ledger!Place(h) <= Ledger!Place(delivered[s][Len(delivered[s])])

\* The worker delivers what it listed: of each slot, what is owed first; and it
\* acknowledges what it delivered.
BatchIsDue ==
    /\ phase \notin {"deliver", "acknowledge"} => batch = {}
    /\ mode = "down" => phase = "ingress"
    /\ \A r \in inbox : r.ordinal \in batch =>
         /\ Owes(r)
         /\ \A d \in Debts : d.slot = r.slot => r.ordinal <= d.n
    /\ phase = "acknowledge" =>
         \A r \in inbox : NextEffect(r) => Event(r) \in Ledger!Heard(r.slot)

LedgerInv ==
    /\ delivered \in [Slots -> Seq(Events)]
    /\ DebtsInOrder /\ OpenIsLast /\ HeardInOrder /\ BatchIsDue

-----------------------------------------------------------------------------
(***************************************************************************)
(* What is owed                                                            *)
(***************************************************************************)
LEMMA DebtRows ==
    /\ \A r \in inbox : Owes(r) => Debt(r) \in Debts
    /\ \A d \in Debts : \E r \in inbox : Owes(r) /\ d = Debt(r)
  BY DEF Debts

LEMMA RewrittenDebts ==
    ASSUME InboxOrder, NEW r \in inbox, NEW q, inbox' = Replace(inbox, r, q)
    PROVE  Debts' = (Debts \ {Debt(r)}) \cup {x \in {Debt(q)} : Owes(q)}
<1>1. \A p \in inbox : Debt(p) = Debt(r) => p = r
  BY DEF Debt, InboxOrder
<1>2. Debts' = {Debt(p) : p \in {y \in (inbox \ {r}) \cup {q} : Owes(y)}}
  BY DEF Debts, Replace
<1> QED BY <1>1, <1>2 DEF Debts

LEMMA KeptDebts ==
    ASSUME InboxOrder, NEW r \in inbox, NEW q, inbox' = Replace(inbox, r, q),
           Owes(q) <=> Owes(r), Owes(r) => Debt(q) = Debt(r)
    PROVE  Debts' = Debts
<1>1. \A p \in inbox : Debt(p) = Debt(r) => p = r
  BY DEF Debt, InboxOrder
<1>2. ~Owes(r) => Debt(r) \notin Debts
  BY <1>1, DebtRows
<1> QED BY <1>2, RewrittenDebts, DebtRows

LEMMA SameOwedRows ==
    ASSUME \A r : (r \in inbox' /\ Owes(r)) <=> (r \in inbox /\ Owes(r))
    PROVE  Debts' = Debts
<1>1. {q \in inbox' : Owes(q)} = {q \in inbox : Owes(q)}
  OBVIOUS
<1> QED BY <1>1 DEF Debts

LEMMA AdmissionDebts ==
    ASSUME StoreTypeOK, InboxOrder, NEW c, admitSlotTransitionCommand(c)
    PROVE  Debts' = Debts
<1>1. PICK n \in NextOrdinal : inbox' = AfterCancellation(c) \cup {InboxRow(c, n)}
  BY DEF admitSlotTransitionCommand
<1>2. ~Owes(InboxRow(c, n))
  BY DEF Owes, InboxRow
<1>3. \A r \in CanceledBy(c) : r \in Pending
  BY DEF CanceledBy, HallCandidate, HallCandidates
<1>4. ASSUME NEW r \in CanceledBy(c)
      PROVE  ~Owes(r) /\ ~Owes([r EXCEPT !.status = "APPLIED", !.result = "NO_CHANGE"])
  <2>1. r \in InboxRows /\ r.effect = "NONE"
    BY <1>3, <1>4 DEF StoreTypeOK, InboxOK, RowOK, Pending, PendingIn, InboxOrder
  <2> QED BY <2>1 DEF Owes, InboxRows
<1> QED BY <1>1, <1>2, <1>4, SameOwedRows DEF AfterCancellation

LEMMA DeadlineAdmissionDebts ==
    ASSUME NEW s, admitDueSlotDeadlines(s)
    PROVE  Debts' = Debts
<1>1. PICK due \in SUBSET DueDeadlines(s) :
        \E pos \in [due -> 0..PendingCapacity] : \E n \in NextOrdinal :
          inbox' = inbox \cup {InboxRow(deadlineCommand(d), n + pos[d]) : d \in due}
  BY DEF admitDueSlotDeadlines
<1>2. \A c, n : ~Owes(InboxRow(c, n))
  BY DEF Owes, InboxRow
<1> QED BY <1>1, <1>2, SameOwedRows

LEMMA PurgeDebts ==
    ASSUME purgeSettledSlotTransitionCommands
    PROVE  Debts' = Debts
<1>1. \A r : Owes(r) => ~Settled(r)
  BY DEF Owes, Settled
<1> QED BY <1>1, SameOwedRows DEF purgeSettledSlotTransitionCommands

LEMMA DeferralDebts ==
    ASSUME StoreTypeOK, InboxOrder, NEW r \in inbox,
           deferSlotTransitionCommand(r) \/ deferSlotTransitionEffects(r)
    PROVE  Debts' = Debts
<1>1. r \in InboxRows
  BY DEF StoreTypeOK, InboxOK, RowOK
<1> DEFINE later == now + RetryDelay
           q == [r EXCEPT !.next = later]
           p == [r EXCEPT !.effectNext = later]
<1>2. inbox' = Replace(inbox, r, q) \/ inbox' = Replace(inbox, r, p)
  BY DEF deferSlotTransitionCommand, deferSlotTransitionEffects
<1> HIDE DEF later
<1>3. /\ Owes(q) <=> Owes(r)
      /\ Owes(p) <=> Owes(r)
      /\ Debt(q) = Debt(r) /\ Debt(p) = Debt(r)
  BY <1>1 DEF Owes, Debt, Event, InboxRows
<1> HIDE DEF q, p
<1> QED BY <1>2, <1>3, KeptDebts

LEMMA AcknowledgedDebts ==
    ASSUME StoreTypeOK, InboxOrder, NEW r \in inbox, completeSlotTransitionEffects(r)
    PROVE  Debts' = Debts \ {Debt(r)}
<1>1. r \in InboxRows
  BY DEF StoreTypeOK, InboxOK, RowOK
<1> DEFINE q == [r EXCEPT !.effect = "APPLIED", !.effectNext = 0]
<1>2. inbox' = Replace(inbox, r, q)
  BY DEF completeSlotTransitionEffects
<1>3. ~Owes(q)
  BY <1>1 DEF Owes, InboxRows
<1> HIDE DEF q
<1> QED BY <1>2, <1>3, RewrittenDebts

-----------------------------------------------------------------------------
(***************************************************************************)
(* What a reduction adds to the ledger                                     *)
(***************************************************************************)
SameLedger ==
    /\ \A s : SlotEvents(s)' = SlotEvents(s)
    /\ Debts' = Debts

\* The entry goes to the end of the slot's ledger and of what is owed to it.
Commits(r, e) ==
    /\ e \in Events
    /\ SlotEvents(r.slot)' = SlotEvents(r.slot) \cup {e}
    /\ \A s \in Slots \ {r.slot} : SlotEvents(s)' = SlotEvents(s)
    /\ Debts' = Debts \cup {[n |-> r.ordinal, slot |-> r.slot, event |-> e]}
    /\ \A d \in Debts : d.slot = r.slot => d.n < r.ordinal
    /\ \A f \in SlotEvents(r.slot) : Ledger!Place(f) < Ledger!Place(e)

LEMMA SameSpansSameEvents == SameSpans => \A s : SlotEvents(s)' = SlotEvents(s)
  BY DEF SameSpans, SlotEvents

LEMMA SpansByName == UNCHANGED sessions => SameSpans
  BY DEF SameSpans

LEMMA ReducedDebt ==
    ASSUME StoreTypeOK, InboxOrder, NEW r \in inbox, Runnable(r),
           NEW result \in {"SESSION_STARTED", "SESSION_ENDED"}, NEW k \in Nat \ {0},
           Finish(r, result, k)
    PROVE  /\ <<result, k>> \in Events
           /\ Debts' = Debts \cup {[n |-> r.ordinal, slot |-> r.slot, event |-> <<result, k>>]}
           /\ \A d \in Debts : d.slot = r.slot => d.n < r.ordinal
<1>1. PICK q : /\ Rewrites(r, q) /\ q.result = result /\ q.session = k /\ Owes(q)
  BY FinishRewrites
<1>2. r \in Pending /\ ~Owes(r)
  BY DEF Runnable, IsPendingHead, Pending, PendingIn, Owes
<1>3. Debt(r) \notin Debts
  <2>1. \A p \in inbox : Debt(p) = Debt(r) => p = r
    BY DEF Debt, InboxOrder
  <2> QED BY <1>2, <2>1, DebtRows
<1>4. Debts' = Debts \cup {Debt(q)}
  BY <1>1, <1>3, RewrittenDebts DEF Rewrites
<1>5. Debt(q) = [n |-> r.ordinal, slot |-> r.slot, event |-> <<result, k>>]
  BY <1>1 DEF Debt, Event, Rewrites, SameCommand
<1>6. ASSUME NEW d \in Debts, d.slot = r.slot PROVE d.n < r.ordinal
  <2>1. PICK p \in inbox : Owes(p) /\ d = Debt(p)
    BY DebtRows
  <2> QED BY <1>2, <1>6, <2>1 DEF InboxOrder, Debt
<1> QED BY <1>4, <1>5, <1>6 DEF Events

LEMMA StartCommits ==
    ASSUME StoreTypeOK, InboxOrder, NEW r \in inbox, Runnable(r), Starts(r)
    PROVE  Commits(r, <<"SESSION_STARTED", NextSessionId>>)
<1> DEFINE n == NextSessionId
<1>1. /\ Len(sessions) \in Nat /\ DOMAIN sessions = 1..Len(sessions)
      /\ n = Len(sessions) + 1 /\ n \in Nat \ {0}
  BY DEF StoreTypeOK, NextSessionId
<1>2. /\ DOMAIN sessions' = DOMAIN sessions \cup {n}
      /\ sessions'[n].slot = r.slot /\ sessions'[n].exit = None
      /\ \A k \in DOMAIN sessions : sessions'[k] = sessions[k]
  BY <1>1 DEF Starts, create_session, StoreTypeOK
<1>3. \A k \in DOMAIN sessions : k < n
  BY <1>1
<1> HIDE DEF n
<1>4. SlotEvents(r.slot)' = SlotEvents(r.slot) \cup {<<"SESSION_STARTED", n>>}
  BY <1>2, <1>3 DEF SlotEvents
<1>5. ASSUME NEW s \in Slots \ {r.slot} PROVE SlotEvents(s)' = SlotEvents(s)
  BY <1>2, <1>3 DEF SlotEvents
<1>6. ASSUME NEW f \in SlotEvents(r.slot)
      PROVE  Ledger!Place(f) < Ledger!Place(<<"SESSION_STARTED", n>>)
  <2>1. PICK k \in DOMAIN sessions : f[2] = k
    BY DEF SlotEvents
  <2>2. k < n /\ k \in Nat
    BY <1>1, <1>3
  <2> QED BY <1>1, <2>1, <2>2 DEF Ledger!Place
<1>7. Finish(r, "SESSION_STARTED", n)
  BY DEF Starts, n
<1> QED BY <1>1, <1>4, <1>5, <1>6, <1>7, ReducedDebt DEF Commits, n

LEMMA EndCommits ==
    ASSUME StoreTypeOK, InboxOrder, OpenIsLast, NEW r \in inbox, Runnable(r),
           NEW p \in find_active(r.slot), close_session(r, p),
           Finish(r, "SESSION_ENDED", p)
    PROVE  Commits(r, <<"SESSION_ENDED", p>>)
<1>1. /\ Len(sessions) \in Nat /\ DOMAIN sessions = 1..Len(sessions)
      /\ p \in DOMAIN sessions /\ p \in Nat \ {0}
      /\ sessions[p] \in SessionRows /\ sessions[p].slot = r.slot /\ sessions[p].exit = None
  BY DEF StoreTypeOK, find_active
<1>2. r \in InboxRows /\ r.occurred # None /\ r.slot \in Slots
  BY DEF StoreTypeOK, InboxOK, RowOK, InboxRows, None
<1>3. /\ DOMAIN sessions' = DOMAIN sessions
      /\ sessions'[p].slot = r.slot /\ sessions'[p].exit # None
      /\ \A k \in DOMAIN sessions \ {p} : sessions'[k] = sessions[k]
  BY <1>1, <1>2 DEF close_session, StoreTypeOK, SessionRows
<1>4. SlotEvents(r.slot)' = SlotEvents(r.slot) \cup {<<"SESSION_ENDED", p>>}
  BY <1>1, <1>3 DEF SlotEvents
<1>5. ASSUME NEW s \in Slots \ {r.slot} PROVE SlotEvents(s)' = SlotEvents(s)
  BY <1>1, <1>3 DEF SlotEvents
<1>6. ASSUME NEW f \in SlotEvents(r.slot)
      PROVE  Ledger!Place(f) < Ledger!Place(<<"SESSION_ENDED", p>>)
  <2>1. PICK k \in DOMAIN sessions :
             /\ sessions[k].slot = r.slot
             /\ \/ f = <<"SESSION_STARTED", k>>
                \/ f = <<"SESSION_ENDED", k>> /\ sessions[k].exit # None
    BY DEF SlotEvents
  <2>2. k <= p /\ k \in Nat
    BY <1>1, <1>2, <2>1 DEF OpenIsLast
  <2>3. f = <<"SESSION_STARTED", k>> \/ (f = <<"SESSION_ENDED", k>> /\ k < p)
    BY <1>1, <2>1, <2>2
  <2> QED BY <1>1, <2>2, <2>3 DEF Ledger!Place
<1> QED BY <1>1, <1>4, <1>5, <1>6, ReducedDebt DEF Commits

-----------------------------------------------------------------------------
(***************************************************************************)
(* The invariant is kept                                                   *)
(***************************************************************************)
LEMMA EventsTyped ==
    ASSUME StoreTypeOK
    PROVE  \A s : SlotEvents(s) \subseteq Events
  BY DEF StoreTypeOK, SlotEvents, Events

\* Two entries never share a place.
LEMMA Places ==
    /\ \A e \in Events : Ledger!Place(e) \in Nat
    /\ \A e, f \in Events : Ledger!Place(e) = Ledger!Place(f) => e = f
<1>1. ASSUME NEW e \in Events
      PROVE  /\ Ledger!Place(e) \in Nat /\ e[2] \in Nat /\ e = <<e[1], e[2]>>
             /\ e[1] \in {"SESSION_STARTED", "SESSION_ENDED"}
             /\ Ledger!Place(e) = 2 * e[2] + (IF e[1] = "SESSION_ENDED" THEN 1 ELSE 0)
  BY DEF Events, Ledger!Place
<1>2. ASSUME NEW e \in Events, NEW f \in Events, Ledger!Place(e) = Ledger!Place(f)
      PROVE  e = f
  <2>1. e[2] = f[2] /\ (e[1] = "SESSION_ENDED" <=> f[1] = "SESSION_ENDED")
    BY <1>1, <1>2
  <2> QED BY <1>1, <2>1
<1> QED BY <1>1, <1>2

LEMMA DebtsTyped ==
    ASSUME StoreTypeOK, DebtsInOrder, NEW d \in Debts
    PROVE  d.n \in Nat /\ d.slot \in Slots /\ d.event \in Events
<1>1. PICK r \in inbox : Owes(r) /\ d = Debt(r)
  BY DebtRows
<1>2. r.ordinal \in Nat /\ r.slot \in Slots
  BY DEF StoreTypeOK, InboxOK, RowOK, InboxRows
<1> QED BY <1>1, <1>2, EventsTyped DEF Debt, DebtsInOrder

LEMMA SameLedgerKeeps ==
    ASSUME SameLedger, UNCHANGED delivered
    PROVE  /\ DebtsInOrder => DebtsInOrder'
           /\ HeardInOrder => HeardInOrder'
<1>1. DebtsInOrder => DebtsInOrder'
  BY DEF SameLedger, DebtsInOrder, Ledger!Place
<1>2. ASSUME NEW s PROVE Ledger!Heard(s)' = Ledger!Heard(s)
  BY DEF Ledger!Heard
<1>3. HeardInOrder => HeardInOrder'
  BY <1>2 DEF SameLedger, HeardInOrder, Ledger!Place
<1> QED BY <1>1, <1>3

LEMMA CommitsKeep ==
    ASSUME StoreTypeOK, DebtsInOrder, HeardInOrder, NEW r \in inbox, NEW e, Commits(r, e),
           UNCHANGED delivered
    PROVE  DebtsInOrder' /\ HeardInOrder'
<1> DEFINE new == [n |-> r.ordinal, slot |-> r.slot, event |-> e]
           P(f) == Ledger!Place(f)
<1>1. /\ e \in Events
      /\ SlotEvents(r.slot)' = SlotEvents(r.slot) \cup {e}
      /\ \A s \in Slots \ {r.slot} : SlotEvents(s)' = SlotEvents(s)
      /\ Debts' = Debts \cup {new}
      /\ \A d \in Debts : d.slot = r.slot => d.n < r.ordinal
      /\ \A f \in SlotEvents(r.slot) : P(f) < P(e)
  BY DEF Commits
<1>2. new.n = r.ordinal /\ new.slot = r.slot /\ new.event = e
  OBVIOUS
<1>3. r.ordinal \in Nat /\ r.slot \in Slots
  BY DEF StoreTypeOK, InboxOK, RowOK, InboxRows
<1>4. \A f \in Events : P(f) \in Nat
  BY Places
<1>5. \A d \in Debts : d.n \in Nat /\ d.slot \in Slots /\ d.event \in Events
  BY DebtsTyped
<1>6. \A s \in Slots : Ledger!Heard(s)' = Ledger!Heard(s)
  BY DEF Ledger!Heard
<1>7. \A s : SlotEvents(s) \subseteq Events
  BY EventsTyped
<1>8. \A f : Ledger!Place(f)' = P(f)
  BY DEF Ledger!Place
<1> HIDE DEF new, P
<1>9. ASSUME NEW d \in Debts' PROVE d.event \in SlotEvents(d.slot)'
  BY <1>1, <1>2, <1>5, <1>9 DEF DebtsInOrder
<1>10. ASSUME NEW c \in Debts', NEW d \in Debts', c.slot = d.slot, c.n <= d.n
       PROVE  P(c.event) <= P(d.event)
  <2>1. CASE c \in Debts /\ d \in Debts
    BY <1>10, <2>1 DEF DebtsInOrder, P
  <2>2. CASE c \in Debts /\ d = new
    <3>1. c.event \in SlotEvents(r.slot)
      BY <1>2, <1>10, <2>2 DEF DebtsInOrder
    <3> QED BY <1>1, <1>2, <1>4, <1>5, <2>2, <3>1
  <2>3. CASE c = new /\ d \in Debts
    BY <1>1, <1>2, <1>3, <1>5, <1>10, <2>3
  <2>4. CASE c = new /\ d = new
    BY <1>1, <1>2, <1>4, <2>4
  <2> QED BY <1>1, <1>10, <2>1, <2>2, <2>3, <2>4
<1>11. ASSUME NEW s \in Slots, NEW f \in SlotEvents(s)'
       PROVE  f \in Ledger!Heard(s) \/ \E d \in Debts' : d.slot = s /\ d.event = f
  <2>1. CASE f \in SlotEvents(s)
    BY <1>1, <2>1 DEF HeardInOrder
  <2>2. CASE f \notin SlotEvents(s)
    BY <1>1, <1>2, <1>11, <2>2
  <2> QED BY <2>1, <2>2
<1>12. ASSUME NEW s \in Slots, NEW h \in Ledger!Heard(s), NEW d \in Debts', d.slot = s
       PROVE  P(h) <= P(d.event)
  <2>1. CASE d \in Debts
    BY <1>12, <2>1 DEF HeardInOrder, P
  <2>2. CASE d = new
    <3>1. h \in SlotEvents(r.slot)
      BY <1>2, <1>12, <2>2 DEF HeardInOrder
    <3> QED BY <1>1, <1>2, <1>4, <1>7, <2>2, <3>1
  <2> QED BY <1>1, <2>1, <2>2
<1>13. \A s \in Slots : Ledger!Heard(s) \subseteq SlotEvents(s)'
  BY <1>1 DEF HeardInOrder
<1>14. \A s \in Slots : \A h \in Ledger!Heard(s) :
          P(h) <= P(delivered'[s][Len(delivered'[s])])
  BY DEF HeardInOrder, P
<1>15. DebtsInOrder'
  BY <1>8, <1>9, <1>10 DEF DebtsInOrder
<1>16. HeardInOrder'
  BY <1>6, <1>8, <1>11, <1>12, <1>13, <1>14 DEF HeardInOrder
<1> QED BY <1>15, <1>16

LEMMA SpansKeepLast == SameSpans /\ OpenIsLast => OpenIsLast'
  BY DEF SameSpans, OpenIsLast, find_active

LEMMA StartIsLast ==
    ASSUME StoreTypeOK, OpenIsLast, NEW r \in inbox, create_session(r),
           find_active(r.slot) = {}
    PROVE  OpenIsLast'
<1> DEFINE n == Len(sessions) + 1
<1>1. /\ Len(sessions) \in Nat /\ DOMAIN sessions = 1..Len(sessions)
      /\ DOMAIN sessions' = DOMAIN sessions \cup {n}
      /\ \A k \in DOMAIN sessions : sessions'[k] = sessions[k]
      /\ \A k \in DOMAIN sessions : k <= n
      /\ n <= n
      /\ sessions'[n].slot = r.slot
  BY DEF create_session, StoreTypeOK
<1> HIDE DEF n
<1>2. ASSUME NEW s \in Slots, NEW p \in find_active(s)', NEW k \in DOMAIN sessions',
             sessions'[k].slot = s
      PROVE  k <= p
  <2>1. p \in DOMAIN sessions' /\ sessions'[p].slot = s /\ sessions'[p].exit = None
    BY DEF find_active
  <2>2. CASE p = n
    BY <1>1, <2>2
  <2>3. CASE p \in DOMAIN sessions /\ k \in DOMAIN sessions
    BY <1>1, <1>2, <2>1, <2>3 DEF OpenIsLast, find_active
  <2>4. CASE p \in DOMAIN sessions /\ k = n
    BY <1>1, <1>2, <2>1, <2>4 DEF find_active
  <2> QED BY <1>1, <2>1, <2>2, <2>3, <2>4
<1> QED BY <1>2 DEF OpenIsLast

LEMMA EndIsLast ==
    ASSUME StoreTypeOK, OpenIsLast, NEW r \in inbox, NEW p \in find_active(r.slot),
           close_session(r, p)
    PROVE  OpenIsLast'
<1>1. /\ DOMAIN sessions' = DOMAIN sessions
      /\ sessions'[p].slot = sessions[p].slot /\ sessions'[p].exit # None
      /\ \A k \in DOMAIN sessions \ {p} : sessions'[k] = sessions[k]
  <2>1. p \in DOMAIN sessions /\ sessions[p] \in SessionRows
    BY DEF StoreTypeOK, find_active
  <2>2. r.occurred # None
    BY DEF StoreTypeOK, InboxOK, RowOK, InboxRows, None
  <2> QED BY <2>1, <2>2 DEF close_session, StoreTypeOK, SessionRows
<1> QED BY <1>1 DEF OpenIsLast, find_active

\* What a reduction does to the ledger: nothing, or one more entry at its end.
LEMMA ReductionLedger ==
    ASSUME StoreTypeOK, InboxOrder, DebtsInOrder, OpenIsLast, HeardInOrder,
           NEW r \in inbox, applySlotTransitionCommand(r), UNCHANGED delivered
    PROVE  /\ DebtsInOrder' /\ OpenIsLast' /\ HeardInOrder'
           /\ \/ SameLedger
              \/ find_active(r.slot) = {} /\ Commits(r, <<"SESSION_STARTED", NextSessionId>>)
              \/ \E p \in find_active(r.slot) : Commits(r, <<"SESSION_ENDED", p>>)
<1>1. Runnable(r) /\ (Continues(r) \/ Starts(r) \/ Ends(r))
  BY ReductionOutcome
<1>2. CASE Continues(r)
  <2>1. PICK result \in Results \ {"SESSION_STARTED", "SESSION_ENDED"} :
             \E session : Finish(r, result, session)
    BY <1>2 DEF Continues
  <2>2. PICK q : Rewrites(r, q) /\ ~Owes(q)
    BY <1>1, <2>1, FinishRewrites
  <2>3. ~Owes(r)
    BY <1>1 DEF Runnable, IsPendingHead, Pending, PendingIn, Owes
  <2>4. Debts' = Debts
    BY <2>2, <2>3, KeptDebts DEF Rewrites
  <2>5. SameSpans
    BY <1>2 DEF Continues
  <2>6. SameLedger
    BY <2>4, <2>5, SameSpansSameEvents DEF SameLedger
  <2> QED BY <2>5, <2>6, SameLedgerKeeps, SpansKeepLast
<1>3. CASE Starts(r)
  <2>1. Commits(r, <<"SESSION_STARTED", NextSessionId>>)
    BY <1>1, <1>3, StartCommits
  <2>2. find_active(r.slot) = {} /\ create_session(r)
    BY <1>3 DEF Starts
  <2> QED BY <2>1, <2>2, CommitsKeep, StartIsLast
<1>4. CASE Ends(r)
  <2>1. PICK p \in find_active(r.slot) : close_session(r, p) /\ Finish(r, "SESSION_ENDED", p)
    BY <1>4 DEF Ends
  <2>2. Commits(r, <<"SESSION_ENDED", p>>)
    BY <1>1, <2>1, EndCommits
  <2> QED BY <2>1, <2>2, CommitsKeep, EndIsLast
<1> QED BY <1>1, <1>2, <1>3, <1>4

LEMMA TheNextEffect ==
    ASSUME StoreTypeOK, InboxOrder, NEW p \in inbox, NextEffect(p),
           NEW q \in inbox, NextEffect(q)
    PROVE  p = q
<1>1. p.ordinal \in Nat /\ q.ordinal \in Nat
  BY DEF StoreTypeOK, InboxOK, RowOK, InboxRows
<1>2. p.ordinal <= q.ordinal /\ q.ordinal <= p.ordinal
  BY DEF NextEffect
<1> QED BY <1>1, <1>2 DEF InboxOrder

\* The effect the worker delivers is the first one owed in its slot.
LEMMA NextIsFirst ==
    ASSUME StoreTypeOK, DebtsInOrder, BatchIsDue, NEW r \in inbox, NextEffect(r)
    PROVE  /\ Debt(r) \in Debts /\ r.slot \in Slots
           /\ Event(r) \in SlotEvents(r.slot)
           /\ \A d \in Debts : d.slot = r.slot =>
                 Ledger!Place(Event(r)) <= Ledger!Place(d.event)
<1>1. Debt(r) \in Debts
  BY DebtRows DEF NextEffect, BatchIsDue
<1>2. Debt(r).n = r.ordinal /\ Debt(r).slot = r.slot /\ Debt(r).event = Event(r)
  BY DEF Debt
<1>3. r.slot \in Slots
  BY DEF StoreTypeOK, InboxOK, RowOK, InboxRows
<1> QED BY <1>1, <1>2, <1>3 DEF DebtsInOrder, BatchIsDue, NextEffect

LEMMA DeliveryStep ==
    ASSUME StoreTypeOK, delivered \in [Slots -> Seq(Events)], DebtsInOrder, HeardInOrder,
           BatchIsDue, NEW r \in inbox, NextEffect(r), UNCHANGED storeVars,
           delivered' = [delivered EXCEPT ![r.slot] = Append(@, Event(r))]
    PROVE  /\ delivered' \in [Slots -> Seq(Events)]
           /\ HeardInOrder' /\ Event(r) \in Ledger!Heard(r.slot)'
           /\ Ledger!Deliver(r.slot)
<1> DEFINE s == r.slot
           e == Event(r)
           P(f) == Ledger!Place(f)
           n == Len(delivered[s])
<1>1. /\ Debt(r) \in Debts /\ s \in Slots /\ e \in SlotEvents(s)
      /\ \A d \in Debts : d.slot = s => P(e) <= P(d.event)
  BY NextIsFirst
<1>2. e \in Events /\ SlotEvents(s) \subseteq Events
  BY <1>1, EventsTyped
<1>3. /\ delivered[s] \in Seq(Events) /\ n \in Nat
      /\ delivered' \in [Slots -> Seq(Events)]
      /\ delivered'[s] = Append(delivered[s], e)
      /\ \A t \in Slots \ {s} : delivered'[t] = delivered[t]
  BY <1>1, <1>2
<1>4. /\ Len(delivered'[s]) = n + 1 /\ delivered'[s][n + 1] = e
      /\ DOMAIN delivered'[s] = DOMAIN delivered[s] \cup {n + 1}
      /\ \A i \in DOMAIN delivered[s] : delivered'[s][i] = delivered[s][i]
  <2>1. DOMAIN delivered[s] = 1..n
    BY <1>3
  <2> QED BY <1>2, <1>3, <2>1
<1>5. /\ \A f \in Events : P(f) \in Nat
      /\ \A f, g \in Events : P(f) = P(g) => f = g
  BY Places
<1>6. \A f : Ledger!Place(f)' = P(f)
  BY DEF Ledger!Place
<1>7. /\ Ledger!Heard(s)' = Ledger!Heard(s) \cup {e}
      /\ \A t \in Slots \ {s} : Ledger!Heard(t)' = Ledger!Heard(t)
  BY <1>3, <1>4 DEF Ledger!Heard
<1>8. /\ Debts' = Debts
      /\ \A t : SlotEvents(t)' = SlotEvents(t)
  BY DEF storeVars, domain, Debts, SlotEvents
<1>9. Debt(r).slot = s /\ Debt(r).event = e
  BY DEF Debt
<1> HIDE DEF s, e, P, n
<1>10. \A h \in Ledger!Heard(s) : P(h) <= P(e)
  BY <1>1, <1>9 DEF HeardInOrder, P
<1>11. HeardInOrder'
  <2>1. ASSUME NEW t \in Slots \ {s}
        PROVE  /\ Ledger!Heard(t)' \subseteq SlotEvents(t)'
               /\ \A f \in SlotEvents(t)' :
                    f \in Ledger!Heard(t)' \/ \E d \in Debts' : d.slot = t /\ d.event = f
               /\ \A h \in Ledger!Heard(t)', d \in Debts' : d.slot = t => P(h) <= P(d.event)
               /\ \A h \in Ledger!Heard(t)' :
                    P(h) <= P(delivered'[t][Len(delivered'[t])])
    BY <1>3, <1>7, <1>8 DEF HeardInOrder, P
  <2>2. Ledger!Heard(s)' \subseteq SlotEvents(s)'
    BY <1>1, <1>7, <1>8 DEF HeardInOrder
  <2>3. \A f \in SlotEvents(s)' :
           f \in Ledger!Heard(s)' \/ \E d \in Debts' : d.slot = s /\ d.event = f
    BY <1>1, <1>7, <1>8 DEF HeardInOrder
  <2>4. \A h \in Ledger!Heard(s)', d \in Debts' : d.slot = s => P(h) <= P(d.event)
    BY <1>1, <1>7, <1>8 DEF HeardInOrder, P
  <2>5. \A h \in Ledger!Heard(s)' : P(h) <= P(delivered'[s][Len(delivered'[s])])
    BY <1>2, <1>4, <1>5, <1>7, <1>10
  <2> QED BY <1>6, <2>1, <2>2, <2>3, <2>4, <2>5 DEF HeardInOrder
<1>12. \/ \A f \in SlotEvents(s) : f \in Ledger!Heard(s) <=> P(f) < P(e)
       \/ delivered[s] # <<>> /\ e = delivered[s][n]
  <2>1. CASE e \in Ledger!Heard(s)
    <3>1. n \in DOMAIN delivered[s] /\ delivered[s] # <<>>
      BY <1>3, <2>1 DEF Ledger!Heard, n
    <3>2. delivered[s][n] \in Ledger!Heard(s) /\ delivered[s][n] \in Events
      BY <1>3, <3>1 DEF Ledger!Heard
    <3>3. P(e) <= P(delivered[s][n]) /\ P(delivered[s][n]) <= P(e)
      BY <1>1, <1>10, <2>1, <3>2 DEF HeardInOrder, P, n
    <3> QED BY <1>2, <1>5, <3>1, <3>2, <3>3
  <2>2. CASE e \notin Ledger!Heard(s)
    <3>1. ASSUME NEW f \in SlotEvents(s), f \in Ledger!Heard(s) PROVE P(f) < P(e)
      <4>1. P(f) <= P(e) /\ f # e
        BY <1>10, <2>2, <3>1
      <4> QED BY <1>2, <1>5, <4>1
    <3>2. ASSUME NEW f \in SlotEvents(s), P(f) < P(e) PROVE f \in Ledger!Heard(s)
      <4>1. ASSUME NEW d \in Debts, d.slot = s, d.event = f PROVE FALSE
        BY <1>1, <1>2, <1>5, <3>2, <4>1
      <4> QED BY <1>1, <4>1 DEF HeardInOrder
    <3> QED BY <3>1, <3>2
  <2> QED BY <2>1, <2>2
<1>13. Ledger!Deliver(s)
  <2>1. [t \in Slots |-> SlotEvents(t)][s] = SlotEvents(s)
    BY <1>1
  <2>2. [t \in Slots |-> SlotEvents(t)]' = [t \in Slots |-> SlotEvents(t)]
    BY <1>8
  <2> QED BY <1>1, <1>12, <2>1, <2>2 DEF Ledger!Deliver, P, n, s, e
<1> QED BY <1>3, <1>7, <1>11, <1>13 DEF s, e

-----------------------------------------------------------------------------
(***************************************************************************)
(* The worker's batch                                                      *)
(***************************************************************************)
LEMMA EmptyBatchIsDue ==
    ASSUME batch' = {}, mode' = "down" => phase' = "ingress"
    PROVE  BatchIsDue'
  BY DEF BatchIsDue, NextEffect

LEMMA BatchUntouched ==
    ASSUME BatchIsDue, UNCHANGED <<inbox, batch, phase, mode, delivered>>
    PROVE  BatchIsDue'
<1>1. Debts' = Debts
  BY DEF Debts
<1> QED BY <1>1 DEF BatchIsDue, NextEffect, Ledger!Heard

LEMMA ListedIsDue ==
    ASSUME StoreTypeOK, InboxOrder, ListEffects
    PROVE  BatchIsDue'
<1>1. /\ inbox' = inbox /\ phase' = "deliver" /\ mode' # "down"
      /\ batch' = {r.ordinal : r \in listPendingSlotTransitionEffects}
  BY DEF ListEffects, storeVars, Working
<1>2. ASSUME NEW r \in inbox', r.ordinal \in batch'
      PROVE  Owes(r) /\ \A d \in Debts' : d.slot = r.slot => r.ordinal <= d.n
  <2>1. r \in listPendingSlotTransitionEffects
    BY <1>1, <1>2 DEF listPendingSlotTransitionEffects, InboxOrder
  <2>2. ASSUME NEW d \in Debts', d.slot = r.slot PROVE r.ordinal <= d.n
    <3>1. PICK q \in inbox : Owes(q) /\ d = Debt(q)
      BY <1>1 DEF Debts
    <3> QED BY <2>1, <2>2, <3>1
            DEF listPendingSlotTransitionEffects, OwesEffect, Owes, Debt
  <2> QED BY <2>1, <2>2 DEF listPendingSlotTransitionEffects, OwesEffect, Owes
<1> QED BY <1>1, <1>2 DEF BatchIsDue

LEMMA SettledIsDue ==
    ASSUME BatchIsDue, NEW r \in inbox, NEW q, q.ordinal = r.ordinal,
           inbox' = Replace(inbox, r, q), Debts' \subseteq Debts,
           batch' = batch \ {r.ordinal}, phase' = "deliver", mode' # "down"
    PROVE  BatchIsDue'
<1>1. \A p \in inbox' : p.ordinal \in batch' => p \in inbox /\ p.ordinal \in batch
  BY DEF Replace
<1> QED BY <1>1 DEF BatchIsDue

\* An effect leaves the debts only after the sink has heard it.
LEMMA AcknowledgedHeard ==
    ASSUME DebtsInOrder, HeardInOrder, NEW e, NEW d, d.event = e,
           \A s \in Slots : d.slot = s => e \in Ledger!Heard(s),
           Debts' = Debts \ {d}, UNCHANGED <<sessions, delivered>>
    PROVE  DebtsInOrder' /\ HeardInOrder'
<1>1. \A s : SlotEvents(s)' = SlotEvents(s) /\ Ledger!Heard(s)' = Ledger!Heard(s)
  BY DEF SlotEvents, Ledger!Heard
<1>2. DebtsInOrder'
  BY <1>1 DEF DebtsInOrder, Ledger!Place
<1>3. ASSUME NEW s \in Slots, NEW f \in SlotEvents(s)
      PROVE  f \in Ledger!Heard(s) \/ \E x \in Debts' : x.slot = s /\ x.event = f
  BY DEF HeardInOrder
<1>4. HeardInOrder'
  BY <1>1, <1>3 DEF HeardInOrder, Ledger!Place
<1> QED BY <1>2, <1>4

-----------------------------------------------------------------------------
(***************************************************************************)
(* Every step of the actor is a step of the ledger, or none                *)
(***************************************************************************)
Promised == Ledger!Next \/ UNCHANGED <<[s \in Slots |-> SlotEvents(s)], delivered>>

LEMMA SilentStep ==
    ASSUME StoreTypeOK, InboxOrder, LedgerInv, SameSpans, Debts' = Debts,
           UNCHANGED delivered
    PROVE  /\ delivered' \in [Slots -> Seq(Events)]
           /\ DebtsInOrder' /\ OpenIsLast' /\ HeardInOrder' /\ Promised
<1>1. SameLedger
  BY SameSpansSameEvents DEF SameLedger
<1>2. DebtsInOrder' /\ OpenIsLast' /\ HeardInOrder'
  BY <1>1, SameLedgerKeeps, SpansKeepLast DEF LedgerInv
<1>3. Promised
  BY <1>1 DEF SameLedger, Promised
<1> QED BY <1>2, <1>3 DEF LedgerInv

LEMMA StartIsPromised ==
    ASSUME StoreTypeOK, NEW r \in inbox, find_active(r.slot) = {},
           Commits(r, <<"SESSION_STARTED", NextSessionId>>), UNCHANGED delivered
    PROVE  Promised
<1> DEFINE log == [s \in Slots |-> SlotEvents(s)]
           n == NextSessionId
<1>1. r.slot \in Slots
  BY DEF StoreTypeOK, InboxOK, RowOK, InboxRows
<1>2. log' = [log EXCEPT ![r.slot] = @ \cup {<<"SESSION_STARTED", n>>}]
  BY <1>1 DEF Commits
<1>3. /\ Len(sessions) \in Nat /\ DOMAIN sessions = 1..Len(sessions) /\ n = Len(sessions) + 1
      /\ \A k \in DOMAIN sessions : sessions[k].slot \in Slots
  <2>1. sessions \in Seq(SessionRows)
    BY DEF StoreTypeOK
  <2>2. \A k \in DOMAIN sessions : sessions[k] \in SessionRows
    BY <2>1
  <2> QED BY <2>1, <2>2 DEF NextSessionId, SessionRows
<1>4. Ledger!Started = DOMAIN sessions
  <2>1. ASSUME NEW k \in Ledger!Started PROVE k \in DOMAIN sessions
    <3>1. PICK s \in Slots : \E e \in SlotEvents(s) : k = e[2]
      BY DEF Ledger!Started
    <3> QED BY <3>1 DEF SlotEvents
  <2>2. ASSUME NEW k \in DOMAIN sessions PROVE k \in Ledger!Started
    <3> DEFINE e == <<"SESSION_STARTED", k>>
    <3>1. e \in SlotEvents(sessions[k].slot) /\ sessions[k].slot \in Slots
      BY <1>3 DEF SlotEvents
    <3>2. e \in UNION {log[s] : s \in Slots} /\ e[2] = k
      BY <3>1
    <3> QED BY <3>2 DEF Ledger!Started
  <2> QED BY <2>1, <2>2
<1>5. n \in {1} \cup {k + 1 : k \in Ledger!Started} /\ \A k \in Ledger!Started : k < n
  <2>1. \A k \in Ledger!Started : k < n
    BY <1>3, <1>4
  <2>2. CASE Len(sessions) = 0
    BY <1>3, <2>1, <2>2
  <2>3. CASE Len(sessions) # 0
    <3>1. Len(sessions) \in Ledger!Started
      BY <1>3, <1>4, <2>3
    <3> QED BY <1>3, <2>1, <3>1
  <2> QED BY <2>2, <2>3
<1>6. Ledger!Open(r.slot) = {}
  <2>1. log[r.slot] = SlotEvents(r.slot)
    BY <1>1
  <2>2. ASSUME NEW e \in SlotEvents(r.slot)
        PROVE  <<"SESSION_ENDED", e[2]>> \in SlotEvents(r.slot)
    BY DEF SlotEvents, find_active
  <2> QED BY <2>1, <2>2 DEF Ledger!Open
<1> HIDE DEF n
<1>7. Ledger!Start(r.slot)
  BY <1>2, <1>5, <1>6 DEF Ledger!Start
<1> QED BY <1>1, <1>7 DEF Ledger!Next, Promised

LEMMA EndIsPromised ==
    ASSUME StoreTypeOK, NEW r \in inbox, NEW p \in find_active(r.slot),
           Commits(r, <<"SESSION_ENDED", p>>), UNCHANGED delivered
    PROVE  Promised
<1> DEFINE log == [s \in Slots |-> SlotEvents(s)]
<1>1. r.slot \in Slots
  BY DEF StoreTypeOK, InboxOK, RowOK, InboxRows
<1>2. log' = [log EXCEPT ![r.slot] = @ \cup {<<"SESSION_ENDED", p>>}]
  BY <1>1 DEF Commits
<1>3. p \in Ledger!Open(r.slot)
  <2>1. log[r.slot] = SlotEvents(r.slot)
    BY <1>1
  <2> DEFINE e == <<"SESSION_STARTED", p>>
  <2>2. e \in SlotEvents(r.slot) /\ e[2] = p
    BY DEF SlotEvents, find_active
  <2>3. <<"SESSION_ENDED", p>> \notin SlotEvents(r.slot)
    BY DEF SlotEvents, find_active
  <2> QED BY <2>1, <2>2, <2>3 DEF Ledger!Open
<1>4. Ledger!End(r.slot)
  BY <1>2, <1>3 DEF Ledger!End
<1> QED BY <1>1, <1>4 DEF Ledger!Next, Promised

LEMMA LedgerStep ==
    ASSUME StoreTypeOK, InboxOrder, LedgerInv, Next
    PROVE  LedgerInv' /\ Promised
<1> DEFINE Kept == /\ delivered' \in [Slots -> Seq(Events)]
                   /\ DebtsInOrder' /\ OpenIsLast' /\ HeardInOrder' /\ Promised
<1>1. LedgerInv => BatchIsDue /\ DebtsInOrder /\ OpenIsLast /\ HeardInOrder
  BY DEF LedgerInv
<1>2. ASSUME UNCHANGED <<inbox, sessions, delivered>> PROVE Kept
  <2>1. Debts' = Debts /\ SameSpans
    BY <1>2, SpansByName DEF Debts
  <2> QED BY <1>2, <2>1, SilentStep
<1>3. ASSUME UNCHANGED <<sessions, delivered>>, Debts' = Debts PROVE Kept
  BY <1>3, SpansByName, SilentStep
<1>4. CASE Input \/ Clock \/ stopAndDrain
  <2>1. UNCHANGED <<inbox, sessions, batch, phase, mode, delivered>>
    BY <1>4 DEF Input, Clock, Tick, stopAndDrain, storeVars, domain, actor
  <2> QED BY <1>1, <1>2, <2>1, BatchUntouched DEF LedgerInv
<1>5. CASE IngressDone \/ LinearizeDeadlines \/ Start \/ Crash \/ ReplayRound
  <2>1. UNCHANGED <<inbox, sessions, delivered>>
    BY <1>5 DEF IngressDone, LinearizeDeadlines, Start, Crash, ReplayRound, storeVars, domain
  <2>2. batch' = {} /\ (mode' = "down" => phase' = "ingress")
    BY <1>1, <1>5 DEF IngressDone, LinearizeDeadlines, Start, Crash, ReplayRound, MoveTo,
         Working, TurnOver, BatchIsDue
  <2> QED BY <1>2, <2>1, <2>2, EmptyBatchIsDue DEF LedgerInv
<1>6. CASE AdmitHead
  <2>1. UNCHANGED <<sessions, delivered>> /\ Debts' = Debts
    <3>1. UNCHANGED storeVars \/ \E c : admitSlotTransitionCommand(c)
      BY <1>6 DEF AdmitHead
    <3>2. UNCHANGED storeVars => Debts' = Debts
      BY DEF storeVars, Debts
    <3> QED BY <1>6, <3>1, <3>2, AdmissionDebts
            DEF AdmitHead, admitSlotTransitionCommand, storeVars, domain
  <2>2. batch' = {} /\ mode' # "down"
    BY <1>1, <1>6 DEF AdmitHead, StayProgressed, Working, BatchIsDue
  <2> QED BY <1>3, <2>1, <2>2, EmptyBatchIsDue DEF LedgerInv
<1>7. CASE AdmitDeadlines
  <2>1. UNCHANGED <<sessions, delivered>> /\ Debts' = Debts
    <3>1. UNCHANGED storeVars => Debts' = Debts
      BY DEF storeVars, Debts
    <3> QED BY <1>7, <3>1, DeadlineAdmissionDebts
            DEF AdmitDeadlines, admitDueSlotDeadlines, storeVars, domain
  <2>2. batch' = {} /\ mode' # "down"
    BY <1>1, <1>7 DEF AdmitDeadlines, Working, BatchIsDue
  <2> QED BY <1>3, <2>1, <2>2, EmptyBatchIsDue DEF LedgerInv
<1>8. CASE ReduceDeferred
  <2>1. PICK r \in inbox : deferSlotTransitionCommand(r)
    BY <1>8 DEF ReduceDeferred
  <2>2. UNCHANGED <<sessions, delivered>> /\ Debts' = Debts
    BY <1>8, <2>1, DeferralDebts DEF ReduceDeferred, deferSlotTransitionCommand, domain
  <2>3. batch' = {} /\ mode' # "down"
    BY <1>1, <1>8 DEF ReduceDeferred, Reducing, StayProgressed, Working, BatchIsDue
  <2> QED BY <1>3, <2>2, <2>3, EmptyBatchIsDue DEF LedgerInv
<1>9. CASE ReduceHead
  <2>1. PICK r \in inbox : applySlotTransitionCommand(r)
    BY <1>9 DEF ReduceHead
  <2>2. UNCHANGED delivered
    BY <1>9 DEF ReduceHead
  <2>3. /\ DebtsInOrder' /\ OpenIsLast' /\ HeardInOrder'
        /\ \/ SameLedger
           \/ find_active(r.slot) = {} /\ Commits(r, <<"SESSION_STARTED", NextSessionId>>)
           \/ \E p \in find_active(r.slot) : Commits(r, <<"SESSION_ENDED", p>>)
    BY <1>1, <2>1, <2>2, ReductionLedger
  <2>4. SameLedger => Promised
    BY <2>2 DEF SameLedger, Promised
  <2>5. Promised
    BY <2>2, <2>3, <2>4, StartIsPromised, EndIsPromised
  <2>6. batch' = {} /\ mode' # "down"
    BY <1>1, <1>9 DEF ReduceHead, Reducing, StayProgressed, Working, BatchIsDue
  <2> QED BY <2>2, <2>3, <2>5, <2>6, EmptyBatchIsDue DEF LedgerInv
<1>10. CASE ListEffects
  <2>1. UNCHANGED <<inbox, sessions, delivered>>
    BY <1>10 DEF ListEffects, storeVars, domain
  <2> QED BY <1>2, <1>10, <2>1, ListedIsDue DEF LedgerInv
<1>11. CASE DeliverEffect
  <2>1. PICK r \in inbox :
             /\ NextEffect(r)
             /\ delivered' = [delivered EXCEPT ![r.slot] = Append(@, Event(r))]
    BY <1>11 DEF DeliverEffect, Event
  <2>2. /\ UNCHANGED storeVars /\ UNCHANGED <<inbox, sessions, batch, mode>>
        /\ phase' = "acknowledge" /\ mode # "down"
    BY <1>11 DEF DeliverEffect, MoveTo, Working, storeVars, domain
  <2>3. /\ delivered' \in [Slots -> Seq(Events)]
        /\ HeardInOrder' /\ Event(r) \in Ledger!Heard(r.slot)'
        /\ Ledger!Deliver(r.slot)
    BY <1>1, <2>1, <2>2, DeliveryStep DEF LedgerInv
  <2>4. /\ Debts' = Debts /\ DebtsInOrder' /\ OpenIsLast'
    BY <1>1, <2>2 DEF Debts, DebtsInOrder, SlotEvents, OpenIsLast, find_active, Ledger!Place
  <2>5. r.slot \in Slots
    BY DEF StoreTypeOK, InboxOK, RowOK, InboxRows
  <2>6. Promised
    BY <2>3, <2>5 DEF Ledger!Next, Promised
  <2>7. \A q \in inbox' : NextEffect(q)' => Event(q) \in Ledger!Heard(q.slot)'
    <3>1. \A q : NextEffect(q)' <=> NextEffect(q)
      BY <2>2 DEF NextEffect
    <3>2. \A q \in inbox : NextEffect(q) => q = r
      BY <2>1, TheNextEffect
    <3> QED BY <2>2, <2>3, <3>1, <3>2
  <2>8. BatchIsDue'
    BY <1>1, <2>2, <2>4, <2>7 DEF BatchIsDue
  <2> QED BY <2>3, <2>4, <2>6, <2>8 DEF LedgerInv
<1>12. ASSUME NEW r \in inbox, NEW q, Rewrites(r, q), Debts' \subseteq Debts,
              batch' = batch \ {r.ordinal}, phase' = "deliver", mode' # "down"
       PROVE  BatchIsDue'
  BY <1>1, <1>12, SettledIsDue DEF Rewrites, SameCommand
<1>13. CASE RefuseEffect
  <2>1. PICK r \in inbox : deferSlotTransitionEffects(r) /\ batch' = batch \ {r.ordinal}
    BY <1>13 DEF RefuseEffect
  <2>2. UNCHANGED <<sessions, delivered>> /\ Debts' = Debts
    BY <1>13, <2>1, DeferralDebts DEF RefuseEffect, deferSlotTransitionEffects, domain
  <2>3. phase' = "deliver" /\ mode' # "down"
    BY <1>13 DEF RefuseEffect, Working
  <2>4. PICK q : Rewrites(r, q)
    BY <2>1, BookkeepingRewrites
  <2>5. BatchIsDue'
    BY <1>12, <2>1, <2>2, <2>3, <2>4
  <2> QED BY <1>3, <2>2, <2>5 DEF LedgerInv
<1>14. CASE AcknowledgeEffect
  <2>1. PICK r \in inbox :
             /\ NextEffect(r) /\ batch' = batch \ {r.ordinal}
             /\ completeSlotTransitionEffects(r) \/ deferSlotTransitionEffects(r)
    BY <1>14 DEF AcknowledgeEffect
  <2>2. /\ UNCHANGED <<sessions, delivered>>
        /\ phase' = "deliver" /\ mode' # "down" /\ phase = "acknowledge"
    BY <1>14, <2>1 DEF AcknowledgeEffect, Working, completeSlotTransitionEffects,
         deferSlotTransitionEffects, domain
  <2>3. PICK q : Rewrites(r, q)
    BY <2>1, BookkeepingRewrites
  <2>4. CASE deferSlotTransitionEffects(r)
    <3>1. Debts' = Debts
      BY <2>4, DeferralDebts
    <3>2. BatchIsDue'
      BY <1>12, <2>1, <2>2, <2>3, <3>1
    <3> QED BY <1>3, <2>2, <3>1, <3>2 DEF LedgerInv
  <2>5. CASE completeSlotTransitionEffects(r)
    <3>1. Debts' = Debts \ {Debt(r)}
      BY <2>5, AcknowledgedDebts
    <3>2. BatchIsDue'
      BY <1>12, <2>1, <2>2, <2>3, <3>1
    <3>3. Event(r) \in Ledger!Heard(r.slot)
      BY <1>1, <2>1, <2>2 DEF BatchIsDue
    <3>4. Debt(r).slot = r.slot /\ Debt(r).event = Event(r)
      BY DEF Debt
    <3>5. DebtsInOrder' /\ HeardInOrder'
      BY <1>1, <2>2, <3>1, <3>3, <3>4, AcknowledgedHeard
    <3>6. OpenIsLast' /\ Promised
      <4>1. SameSpans
        BY <2>2, SpansByName
      <4>2. OpenIsLast'
        BY <1>1, <4>1, SpansKeepLast
      <4>3. \A s : SlotEvents(s)' = SlotEvents(s)
        BY <4>1, SameSpansSameEvents
      <4> QED BY <2>2, <4>2, <4>3 DEF Promised
    <3> QED BY <2>2, <3>2, <3>5, <3>6 DEF LedgerInv
  <2> QED BY <2>1, <2>4, <2>5
<1>15. CASE EndTurn
  <2>1. UNCHANGED <<sessions, delivered>> /\ Debts' = Debts
    <3>1. UNCHANGED storeVars => Debts' = Debts
      BY DEF storeVars, Debts
    <3> QED BY <1>15, <3>1, PurgeDebts
            DEF EndTurn, purgeSettledSlotTransitionCommands, storeVars, domain
  <2>2. batch' = {} /\ phase' = "ingress"
    BY <1>15 DEF EndTurn, TurnOver
  <2> QED BY <1>3, <2>1, <2>2, EmptyBatchIsDue DEF LedgerInv
<1> QED BY <1>4, <1>5, <1>6, <1>7, <1>8, <1>9, <1>10, <1>11, <1>13, <1>14, <1>15
        DEF Next, Worker

LEMMA LedgerInvInit == Init => LedgerInv /\ Ledger!Init
<1> SUFFICES ASSUME Init PROVE LedgerInv /\ Ledger!Init
  OBVIOUS
<1>1. /\ inbox = {} /\ sessions = <<>> /\ batch = {} /\ phase = "ingress"
      /\ delivered = [s \in Slots |-> <<>>]
  BY DEF Init, StoreInit
<1>2. Debts = {} /\ \A s : SlotEvents(s) = {}
  BY <1>1 DEF Debts, SlotEvents
<1>3. \A s \in Slots : Ledger!Heard(s) = {}
  BY <1>1 DEF Ledger!Heard
<1>4. delivered \in [Slots -> Seq(Events)]
  BY <1>1
<1>5. DebtsInOrder /\ HeardInOrder
  BY <1>2, <1>3 DEF DebtsInOrder, HeardInOrder
<1>6. OpenIsLast /\ BatchIsDue
  BY <1>1 DEF OpenIsLast, find_active, BatchIsDue
<1> QED BY <1>1, <1>2, <1>4, <1>5, <1>6 DEF LedgerInv, Ledger!Init

LEMMA LedgerInvStep ==
    StoreTypeOK /\ InboxInv /\ LedgerInv /\ [Next]_vars =>
        LedgerInv' /\ [Ledger!Next]_<<[s \in Slots |-> SlotEvents(s)], delivered>>
<1>1. LedgerInv /\ UNCHANGED vars => LedgerInv' /\ Promised
  <2> SUFFICES ASSUME LedgerInv, UNCHANGED vars PROVE LedgerInv' /\ Promised
    OBVIOUS
  <2>1. UNCHANGED <<inbox, sessions, batch, phase, mode, delivered>>
    BY DEF vars, storeVars, domain, actor
  <2>2. BatchIsDue'
    BY <2>1, BatchUntouched DEF LedgerInv
  <2>3. SameLedger /\ SameSpans
    BY <2>1, SpansByName, SameSpansSameEvents DEF SameLedger, Debts
  <2> QED BY <2>1, <2>2, <2>3, SameLedgerKeeps, SpansKeepLast
          DEF LedgerInv, Promised, SameLedger
<1>2. StoreTypeOK /\ InboxInv /\ LedgerInv /\ [Next]_vars => LedgerInv' /\ Promised
  BY <1>1, LedgerStep DEF InboxInv
<1> QED BY <1>2 DEF Promised

LEMMA LedgerInvHolds == Spec => [](StoreTypeOK /\ InboxInv /\ LedgerInv)
<1>1. Spec => []InboxInv
  BY ActorImplementsStore, InboxInvHolds, PTL
<1> QED BY <1>1, LedgerInvInit, LedgerInvStep, StoreTypesUnderActor, PTL DEF Spec

\* What the rest of the server relies on: through failing calls, retries, crashes
\* and restarts the sink hears, slot by slot, the starts and ends that were
\* committed, in their order, from the first one on, each at least once.
THEOREM ActorImplementsLedger == Spec => LedgerSpec
  BY LedgerInvInit, LedgerInvStep, LedgerInvHolds, PTL DEF Spec, LedgerSpec, Ledger!Spec

\* What the sink has not heard is owed, and an orderly stop waits for what is owed:
\* then all that was ever committed has been heard.
THEOREM StopMeansHeard == Spec => []StoppedIsHeard
<1>1. LedgerInv /\ OrderlyStopIsDrained => StoppedIsHeard
  <2> SUFFICES ASSUME LedgerInv, OrderlyStopIsDrained, mode = "down", stopping, NEW s \in Slots
               PROVE  Ledger!Heard(s) = SlotEvents(s)
    BY DEF StoppedIsHeard
  <2>1. Debts = {}
    BY DEF OrderlyStopIsDrained, DrainRemains, OwesEffect, Debts, Owes
  <2> QED BY <2>1 DEF LedgerInv, HeardInOrder
<1> QED BY <1>1, LedgerInvHolds, OrderlyStopDrains, PTL
=============================================================================
