------------------------ MODULE OccupancyStoreProofs ------------------------
(***************************************************************************)
(* Proofs about the occupancy store, for every set of slots, areas, frames *)
(* and signals, every policy and every timing.                             *)
(***************************************************************************)
EXTENDS OccupancyStore, TLAPS

-----------------------------------------------------------------------------
(***************************************************************************)
(* Types: commands and inbox rows                                          *)
(***************************************************************************)
CommandOK(c) ==
    /\ c.kind \in Kinds /\ c.slot \in Slots /\ c.ident \in Idents
    /\ c.fact \in HallFrames \cup CameraEvents \cup DeadlineFacts
    /\ c.occurred \in Nat /\ c.due \in Nat /\ c.exitDue \in Nat
    /\ c.kind = "HALL_OBSERVATION" => c.fact \in HallInputs /\ c.ident = c.fact.ident
    /\ c.kind = "CAMERA_OBSERVATION" => c.fact \in CameraInputs
    /\ c.kind = "EXIT_DEADLINE" => c.fact \in DeadlineFacts
    /\ c.slot = c.fact.slot

LEMMA ReceivedCommandOK ==
    ASSUME NEW t \in Nat, NEW c \in CommandsReceivedAt(t)
    PROVE  CommandOK(c)
<1>1. CASE \E f \in HallInputs : c = makeHallCommand(f, t)
  BY <1>1, HallFrameAssumption, TimingAssumption
     DEF CommandOK, makeHallCommand, HallInputs, Kinds, Idents
<1>2. CASE \E e \in CameraInputs : c = makeCameraCommand(e, t)
  BY <1>2, CameraEventAssumption, TimingAssumption
     DEF CommandOK, makeCameraCommand, CameraInputs, Kinds, Idents
<1> QED BY <1>1, <1>2 DEF CommandsReceivedAt

LEMMA DeadlineCommandOK ==
    ASSUME NEW d \in DeadlineRows
    PROVE  CommandOK(deadlineCommand(d))
  BY DEF CommandOK, deadlineCommand, DeadlineRows, DeadlineFacts, Kinds, Idents

LEMMA NewRowOK ==
    ASSUME NEW c, CommandOK(c), NEW n \in Nat, now \in Nat
    PROVE  RowOK(InboxRow(c, n))
  BY DEF CommandOK, RowOK, InboxRow, InboxRows, None, Results

LEMMA NextOrdinalType == ASSUME InboxOK PROVE NextOrdinal \subseteq Nat
  BY DEF InboxOK, RowOK, InboxRows, NextOrdinal

\* Whatever becomes of a row, it stays the row of its command.
SameCommand(q, r) ==
    /\ q.kind = r.kind /\ q.slot = r.slot /\ q.fact = r.fact /\ q.ident = r.ident
    /\ q.occurred = r.occurred /\ q.due = r.due /\ q.ordinal = r.ordinal

LEMMA RowUpdateOK ==
    ASSUME NEW r, RowOK(r), NEW q \in InboxRows, SameCommand(q, r)
    PROVE  RowOK(q)
  BY DEF RowOK, SameCommand

LEMMA FinishOK ==
    ASSUME InboxOK, NEW r \in inbox, NEW result \in Results,
           NEW session \in Nat \cup {None}, Finish(r, result, session)
    PROVE  InboxOK'
<1> DEFINE q == [r EXCEPT !.status = IF result = "REJECTED_INVALID_TIMESTAMP"
                             THEN "REJECTED_INVALID" ELSE "APPLIED",
                  !.result = result, !.session = session,
                  !.effect = EffectOwed(result)]
<1>1. RowOK(r)
  BY DEF InboxOK
<1>2. q \in InboxRows /\ SameCommand(q, r)
  BY <1>1 DEF RowOK, InboxRows, EffectOwed, SameCommand
<1>3. RowOK(q)
  BY <1>1, <1>2, RowUpdateOK
<1>4. inbox' = (inbox \ {r}) \cup {q}
  BY DEF Finish, Replace
<1> HIDE DEF q
<1> QED BY <1>3, <1>4 DEF InboxOK, RowOK, InboxRows, HallInputs, CameraInputs

-----------------------------------------------------------------------------
(***************************************************************************)
(* Types: the domain tables                                                *)
(***************************************************************************)
LEMMA ActiveInDomain ==
    ASSUME sessions \in Seq(SessionRows), NEW s, NEW p \in find_active(s)
    PROVE  p \in Nat /\ p \in 1..Len(sessions) /\ sessions[p] \in SessionRows
           /\ sessions[p].slot = s /\ sessions[p].exit = None
  BY DEF find_active

\* Overwriting one row of the session table.
LEMMA SessionUpdateType ==
    ASSUME sessions \in Seq(SessionRows), NEW p \in 1..Len(sessions),
           NEW row \in SessionRows
    PROVE  [sessions EXCEPT ![p] = row] \in Seq(SessionRows)
  OBVIOUS

LEMMA create_sessionOK ==
    ASSUME StoreTypeOK, NEW r \in inbox, create_session(r)
    PROVE  /\ sessions' \in Seq(SessionRows)
           /\ slotStatus' \in [Slots -> {"VACANT", "OCCUPIED"}]
           /\ NextSessionId \in Nat
  BY DEF create_session, StoreTypeOK, InboxOK, RowOK, InboxRows, SessionRows, CommandKey,
         NextSessionId

LEMMA close_sessionOK ==
    ASSUME StoreTypeOK, NEW r \in inbox, NEW p \in find_active(r.slot), close_session(r, p)
    PROVE  /\ sessions' \in Seq(SessionRows)
           /\ slotStatus' \in [Slots -> {"VACANT", "OCCUPIED"}]
           /\ bindings' \subseteq BindingRows
<1>1. p \in 1..Len(sessions) /\ sessions[p] \in SessionRows
  BY ActiveInDomain DEF StoreTypeOK
<1>2. r.slot \in Slots /\ r.occurred \in Nat /\ CommandKey(r) \in Kinds \X Idents
  BY DEF StoreTypeOK, InboxOK, RowOK, InboxRows, CommandKey
<1> DEFINE row == [sessions[p] EXCEPT !.exit = r.occurred, !.exitCmd = CommandKey(r),
                                      !.hallOccupied = FALSE, !.ivaOccupied = FALSE]
<1>3. row \in SessionRows
  BY <1>1, <1>2 DEF SessionRows
<1>4. sessions' = [sessions EXCEPT ![p] = row]
  BY DEF close_session
<1>5. sessions' \in Seq(SessionRows)
  <2> HIDE DEF row
  <2> QED BY <1>1, <1>3, <1>4, SessionUpdateType DEF StoreTypeOK
<1>6. slotStatus' \in [Slots -> {"VACANT", "OCCUPIED"}]
  BY <1>2 DEF close_session, StoreTypeOK
<1>7. bindings' \subseteq BindingRows
  BY DEF close_session, EndedBindings, StoreTypeOK, BindingRows
<1> QED BY <1>5, <1>6, <1>7

LEMMA update_hall_stateOK ==
    ASSUME StoreTypeOK, NEW s, NEW p \in find_active(s), NEW occupied \in BOOLEAN,
           update_hall_state(p, occupied)
    PROVE  sessions' \in Seq(SessionRows)
<1> DEFINE row == [sessions[p] EXCEPT !.hallConfirmed = @ \/ occupied, !.hallOccupied = occupied]
<1>1. p \in 1..Len(sessions) /\ sessions[p] \in SessionRows
  BY ActiveInDomain DEF StoreTypeOK
<1>2. row \in SessionRows
  BY <1>1 DEF SessionRows
<1>3. sessions' = [sessions EXCEPT ![p] = row]
  BY DEF update_hall_state
<1> HIDE DEF row
<1> QED BY <1>1, <1>2, <1>3, SessionUpdateType DEF StoreTypeOK

LEMMA update_iva_stateOK ==
    ASSUME StoreTypeOK, NEW s, NEW p \in find_active(s), update_iva_state(p)
    PROVE  sessions' \in Seq(SessionRows)
<1> DEFINE row == [sessions[p] EXCEPT !.ivaConfirmed = TRUE, !.ivaOccupied = TRUE]
<1>1. p \in 1..Len(sessions) /\ sessions[p] \in SessionRows
  BY ActiveInDomain DEF StoreTypeOK
<1>2. row \in SessionRows
  BY <1>1 DEF SessionRows
<1>3. sessions' = [sessions EXCEPT ![p] = row]
  BY DEF update_iva_state
<1> HIDE DEF row
<1> QED BY <1>1, <1>2, <1>3, SessionUpdateType DEF StoreTypeOK

LEMMA commit_sequenceOK ==
    ASSUME StoreTypeOK, NEW r \in inbox, r.kind = "HALL_OBSERVATION", commit_sequence(r)
    PROVE  cursor' \in [Slots -> CursorRows]
<1>1. r.slot \in Slots /\ r.fact \in HallFrames
  BY DEF StoreTypeOK, InboxOK, RowOK, InboxRows, HallInputs
<1>2. r.fact.boot \in Boots /\ r.fact.seq \in Nat \cup {NoSequence}
  BY <1>1, HallFrameAssumption DEF Boots
<1>3. cursor[r.slot] \in CursorRows
  BY <1>1 DEF StoreTypeOK
<1>4. commitSensorSequence(cursor[r.slot], r.fact) \in CursorRows
  BY <1>2, <1>3 DEF commitSensorSequence, RetiredBoots, CursorRows, Modes, Boots
<1> QED BY <1>1, <1>3, <1>4 DEF commit_sequence, StoreTypeOK

LEMMA persist_ivaOK ==
    ASSUME StoreTypeOK, NEW s \in Slots, NEW session \in Nat \cup {None}, NEW gen \in Nat,
           NEW observed \in {"UNKNOWN", "OCCUPIED", "VACANT_PENDING", "VACANT"},
           NEW areas \in [Areas -> {"unknown", "inactive", "active"}],
           persist_iva(s, session, gen, observed, areas)
    PROVE  iva' \in [Slots -> IvaRows]
  BY DEF persist_iva, StoreTypeOK, IvaRows

LEMMA ClearedIvaType ==
    ASSUME StoreTypeOK, NEW s \in Slots, NEW p
    PROVE  ClearedIva(s, p) \in [Slots -> IvaRows]
<1> DEFINE row == [iva[s] EXCEPT !.session = None, !.observed = "VACANT"]
<1>1. row \in IvaRows
  BY DEF StoreTypeOK, IvaRows
<1>2. [iva EXCEPT ![s].session = None, ![s].observed = "VACANT"] = [iva EXCEPT ![s] = row]
  BY DEF StoreTypeOK
<1> HIDE DEF row
<1> QED BY <1>1, <1>2 DEF ClearedIva, StoreTypeOK

LEMMA commit_correlationOK ==
    ASSUME StoreTypeOK, NEW r \in inbox, r.kind = "CAMERA_OBSERVATION",
           NEW session \in Nat, commit_correlation(r, session)
    PROVE  bindings' \subseteq BindingRows
<1>1. r.fact \in CameraEvents /\ r.ident \in Idents /\ r.occurred \in Nat
  BY DEF StoreTypeOK, InboxOK, RowOK, InboxRows, CameraInputs
<1>2. r.fact.area \in Areas /\ r.fact.object \in {e.object : e \in CameraEvents}
  BY <1>1, CameraEventAssumption
<1>3. r.occurred + CorrelationWindow \in Nat
  BY <1>1, TimingAssumption
<1>4. CASE UNCHANGED bindings
  BY <1>4 DEF StoreTypeOK
<1>5. CASE bindings' = bindings \cup
              {[correlation |-> r.ident, session |-> session, area |-> r.fact.area,
                object |-> r.fact.object, expires |-> r.occurred + CorrelationWindow,
                revision |-> 1, state |-> "COMMITTED"]}
  BY <1>1, <1>2, <1>3, <1>5 DEF StoreTypeOK, BindingRows
<1>6. CASE \E b \in bindings :
             bindings' = Replace(bindings, b,
                [b EXCEPT !.expires = r.occurred + CorrelationWindow, !.revision = @ + 1])
  <2> DEFINE newer(b) == [b EXCEPT !.expires = r.occurred + CorrelationWindow,
                                   !.revision = @ + 1]
  <2>1. PICK b \in bindings : bindings' = (bindings \ {b}) \cup {newer(b)}
    BY <1>6 DEF Replace
  <2>2. b \in BindingRows
    BY DEF StoreTypeOK
  <2>3. newer(b) \in BindingRows
    <3>1. b.revision + 1 \in Nat
      BY <2>2 DEF BindingRows
    <3> DEFINE expires == r.occurred + CorrelationWindow
    <3>2. expires \in Nat
      BY <1>3
    <3> HIDE DEF expires
    <3>3. [b EXCEPT !.expires = expires, !.revision = @ + 1] \in BindingRows
      BY <2>2, <3>1, <3>2 DEF BindingRows
    <3> QED BY <3>3 DEF expires
  <2> HIDE DEF newer
  <2> QED BY <2>1, <2>3 DEF StoreTypeOK
<1> QED BY <1>4, <1>5, <1>6 DEF commit_correlation, TrackBindings

LEMMA MarkDeadlinesOK ==
    ASSUME StoreTypeOK, NEW ds,
           NEW state \in {"ADMITTED", "SUPERSEDED", "APPLIED"}, MarkDeadlines(ds, state)
    PROVE  deadlines' \subseteq DeadlineRows
  BY DEF StoreTypeOK, MarkDeadlines, DeadlineRows

LEMMA IntrusionObservedOK ==
    ASSUME StoreTypeOK, NEW r \in inbox, r.kind = "CAMERA_OBSERVATION",
           NEW session \in Nat, IntrusionObserved(r, session)
    PROVE  /\ deadlines' \subseteq DeadlineRows
           /\ iva' \in [Slots -> IvaRows]
           /\ bindings' \subseteq BindingRows
<1>1. r.slot \in Slots /\ iva[r.slot] \in IvaRows
  BY DEF StoreTypeOK, InboxOK, RowOK, InboxRows
<1>2. deadlines' \subseteq DeadlineRows
  BY MarkDeadlinesOK DEF IntrusionObserved
<1>3. iva' \in [Slots -> IvaRows]
  <2>1. IntrusionGeneration(iva[r.slot], r.fact.area) \in Nat
    BY <1>1 DEF IntrusionGeneration, IvaRows
  <2>2. [iva[r.slot].areas EXCEPT ![r.fact.area] = "active"]
          \in [Areas -> {"unknown", "inactive", "active"}]
    BY <1>1 DEF IvaRows
  <2> QED BY <1>1, <2>1, <2>2, persist_ivaOK DEF IntrusionObserved
<1> QED BY <1>2, <1>3, commit_correlationOK DEF IntrusionObserved

-----------------------------------------------------------------------------
(***************************************************************************)
(* Type correctness                                                        *)
(***************************************************************************)
LEMMA AdmissionType ==
    ASSUME StoreTypeOK, NEW t \in Nat, NEW c \in CommandsReceivedAt(t),
           admitSlotTransitionCommand(c)
    PROVE  StoreTypeOK'
<1>1. PICK n \in NextOrdinal : inbox' = AfterCancellation(c) \cup {InboxRow(c, n)}
  BY DEF admitSlotTransitionCommand
<1>2. RowOK(InboxRow(c, n))
  BY NextOrdinalType, ReceivedCommandOK, NewRowOK DEF StoreTypeOK
<1>3. ASSUME NEW r \in inbox
      PROVE  RowOK([r EXCEPT !.status = "APPLIED", !.result = "NO_CHANGE"])
  <2>1. RowOK(r)
    BY DEF StoreTypeOK, InboxOK
  <2>2. [r EXCEPT !.status = "APPLIED", !.result = "NO_CHANGE"] \in InboxRows
    BY <2>1 DEF RowOK, InboxRows, Results
  <2> QED BY <2>1, <2>2 DEF RowOK, InboxRows
<1>4. \A q \in AfterCancellation(c) : RowOK(q)
  BY <1>3 DEF AfterCancellation, CanceledBy, HallCandidate, HallCandidates, Pending,
              PendingIn, StoreTypeOK, InboxOK
<1>5. InboxOK'
  BY <1>1, <1>2, <1>4 DEF InboxOK, RowOK, InboxRows, HallInputs, CameraInputs
<1> QED BY <1>5 DEF StoreTypeOK, admitSlotTransitionCommand, domain

LEMMA DeadlineAdmissionType ==
    ASSUME StoreTypeOK, NEW blocked, admitDueSlotDeadlines(blocked)
    PROVE  StoreTypeOK'
<1>1. PICK batch \in SUBSET DueDeadlines(blocked) :
        /\ \E pos \in [batch -> 0..PendingCapacity], n \in NextOrdinal :
             inbox' = inbox \cup {InboxRow(deadlineCommand(d), n + pos[d]) : d \in batch}
        /\ MarkDeadlines(batch, "ADMITTED")
  BY DEF admitDueSlotDeadlines
<1>2. PICK pos \in [batch -> 0..PendingCapacity], n \in NextOrdinal :
        inbox' = inbox \cup {InboxRow(deadlineCommand(d), n + pos[d]) : d \in batch}
  BY <1>1
<1>3. n \in Nat /\ batch \subseteq DeadlineRows
  BY NextOrdinalType DEF StoreTypeOK, DueDeadlines
<1>4. ASSUME NEW d \in batch PROVE RowOK(InboxRow(deadlineCommand(d), n + pos[d]))
  <2>1. n + pos[d] \in Nat
    BY <1>3, TimingAssumption
  <2> QED BY <1>3, <2>1, DeadlineCommandOK, NewRowOK DEF StoreTypeOK
<1>5. InboxOK'
  BY <1>2, <1>4 DEF StoreTypeOK, InboxOK, RowOK, InboxRows, HallInputs, CameraInputs
<1>6. deadlines' \subseteq DeadlineRows
  BY <1>1, MarkDeadlinesOK
<1> QED BY <1>5, <1>6 DEF StoreTypeOK, admitDueSlotDeadlines

LEMMA HallReductionType ==
    ASSUME StoreTypeOK, NEW r \in inbox,
           \/ HallOvertaken(r) \/ HallOccupiedStarts(r) \/ HallOccupiedConfirms(r)
           \/ HallVacantIdle(r) \/ HallVacantTooEarly(r) \/ HallVacantIgnored(r)
           \/ HallVacantHeld(r) \/ HallVacantEnds(r)
    PROVE  StoreTypeOK'
<1>1. r.slot \in Slots
  BY DEF StoreTypeOK, InboxOK, RowOK, InboxRows
<1> USE DEF HallRow, AcceptedHallRow
<1>2. \A p \in find_active(r.slot) : p \in Nat
  BY ActiveInDomain DEF StoreTypeOK
<1>3. CASE HallOvertaken(r)
  BY <1>3, FinishOK DEF HallOvertaken, StoreTypeOK, domain, Results
<1>4. CASE HallOccupiedStarts(r)
  <2>1. sessions' \in Seq(SessionRows) /\ NextSessionId \in Nat
        /\ slotStatus' \in [Slots -> {"VACANT", "OCCUPIED"}]
    BY <1>4, create_sessionOK DEF HallOccupiedStarts
  <2>2. InboxOK'
    BY <1>4, <2>1, FinishOK DEF HallOccupiedStarts, StoreTypeOK, Results
  <2>3. cursor' \in [Slots -> CursorRows]
    BY <1>4, commit_sequenceOK DEF HallOccupiedStarts
  <2> QED BY <1>4, <2>1, <2>2, <2>3 DEF HallOccupiedStarts, StoreTypeOK
<1>5. CASE HallOccupiedConfirms(r)
  <2>1. PICK p \in find_active(r.slot) :
             update_hall_state(p, TRUE) /\ Finish(r, "NO_CHANGE", p)
    BY <1>5 DEF HallOccupiedConfirms
  <2>2. sessions' \in Seq(SessionRows)
    BY <2>1, update_hall_stateOK
  <2>3. InboxOK'
    BY <1>2, <2>1, FinishOK DEF StoreTypeOK, Results
  <2>4. cursor' \in [Slots -> CursorRows]
    BY <1>5, commit_sequenceOK DEF HallOccupiedConfirms
  <2> QED BY <1>5, <2>2, <2>3, <2>4 DEF HallOccupiedConfirms, StoreTypeOK
<1>6. CASE HallVacantIdle(r)
  <2>1. cursor' \in [Slots -> CursorRows]
    BY <1>6, commit_sequenceOK DEF HallVacantIdle
  <2> QED BY <1>1, <1>6, <2>1, FinishOK DEF HallVacantIdle, StoreTypeOK, Results
<1>7. CASE HallVacantTooEarly(r)
  BY <1>2, <1>7, FinishOK DEF HallVacantTooEarly, StoreTypeOK, domain, Results
<1>8. CASE HallVacantIgnored(r)
  <2>1. cursor' \in [Slots -> CursorRows]
    BY <1>8, commit_sequenceOK DEF HallVacantIgnored
  <2>2. InboxOK'
    BY <1>2, <1>8, FinishOK DEF HallVacantIgnored, StoreTypeOK, Results
  <2> QED BY <1>8, <2>1, <2>2 DEF HallVacantIgnored, StoreTypeOK
<1>9. CASE HallVacantHeld(r)
  <2>1. PICK p \in find_active(r.slot) :
             update_hall_state(p, FALSE) /\ Finish(r, "NO_CHANGE", p)
    BY <1>9 DEF HallVacantHeld
  <2>2. sessions' \in Seq(SessionRows)
    BY <2>1, update_hall_stateOK
  <2>3. InboxOK'
    BY <1>2, <2>1, FinishOK DEF StoreTypeOK, Results
  <2>4. cursor' \in [Slots -> CursorRows]
    BY <1>9, commit_sequenceOK DEF HallVacantHeld
  <2> QED BY <1>9, <2>2, <2>3, <2>4 DEF HallVacantHeld, StoreTypeOK
<1>10. CASE HallVacantEnds(r)
  <2>1. PICK p \in find_active(r.slot) :
             close_session(r, p) /\ iva' = ClearedIva(r.slot, p) /\ Finish(r, "SESSION_ENDED", p)
    BY <1>10 DEF HallVacantEnds
  <2>2. /\ sessions' \in Seq(SessionRows) /\ bindings' \subseteq BindingRows
        /\ slotStatus' \in [Slots -> {"VACANT", "OCCUPIED"}]
    BY <2>1, close_sessionOK
  <2>3. iva' \in [Slots -> IvaRows]
    BY <1>1, <2>1, ClearedIvaType
  <2>4. InboxOK'
    BY <1>2, <2>1, FinishOK DEF StoreTypeOK, Results
  <2>5. cursor' \in [Slots -> CursorRows]
    BY <1>10, commit_sequenceOK DEF HallVacantEnds
  <2> QED BY <1>10, <2>2, <2>3, <2>4, <2>5 DEF HallVacantEnds, StoreTypeOK
<1> QED BY <1>3, <1>4, <1>5, <1>6, <1>7, <1>8, <1>9, <1>10

LEMMA CameraReductionType ==
    ASSUME StoreTypeOK, NEW r \in inbox,
           \/ CameraCorrelates(r) \/ CameraRejected(r) \/ CameraExitTooEarly(r)
           \/ CameraIgnored(r) \/ IntrusionStarts(r) \/ IntrusionConfirms(r)
           \/ ExitObserved(r) \/ ExitSchedules(r)
    PROVE  StoreTypeOK'
<1>1. r.slot \in Slots /\ iva[r.slot] \in IvaRows /\ r.exitDue \in Nat
  BY DEF StoreTypeOK, InboxOK, RowOK, InboxRows
<1>2. \A p \in find_active(r.slot) : p \in Nat
  BY ActiveInDomain DEF StoreTypeOK
<1>3. /\ ExitGeneration(r) \in Nat
      /\ ExitAreas(r) \in [Areas -> {"unknown", "inactive", "active"}]
  <2>1. /\ iva[r.slot].gen \in Nat
        /\ iva[r.slot].areas \in [Areas -> {"unknown", "inactive", "active"}]
    BY <1>1 DEF IvaRows
  <2>2. ExitAreas(r) \in [Areas -> {"unknown", "inactive", "active"}]
    BY <2>1 DEF ExitAreas
  <2> QED BY <2>1, <2>2 DEF ExitGeneration
<1> USE DEF AnyCameraRow, CameraRow, ExitRow
<1>4. CASE CameraCorrelates(r)
  <2>1. bindings' \subseteq BindingRows
    BY <1>2, <1>4, commit_correlationOK DEF CameraCorrelates, StoreTypeOK
  <2>2. InboxOK'
    BY <1>2, <1>4, FinishOK DEF CameraCorrelates, StoreTypeOK, Results
  <2> QED BY <1>4, <2>1, <2>2 DEF CameraCorrelates, StoreTypeOK
<1>5. CASE CameraRejected(r)
  BY <1>5, FinishOK DEF CameraRejected, StoreTypeOK, domain, Results
<1>6. CASE CameraExitTooEarly(r)
  BY <1>2, <1>6, FinishOK DEF CameraExitTooEarly, StoreTypeOK, domain, Results
<1>7. CASE CameraIgnored(r)
  BY <1>7, FinishOK DEF CameraIgnored, StoreTypeOK, domain, Results
<1>8. CASE IntrusionStarts(r)
  <2>1. /\ sessions' \in Seq(SessionRows) /\ NextSessionId \in Nat
        /\ slotStatus' \in [Slots -> {"VACANT", "OCCUPIED"}]
    BY <1>8, create_sessionOK DEF IntrusionStarts
  <2>2. /\ deadlines' \subseteq DeadlineRows /\ iva' \in [Slots -> IvaRows]
        /\ bindings' \subseteq BindingRows
    BY <1>8, <2>1, IntrusionObservedOK DEF IntrusionStarts
  <2>3. InboxOK'
    BY <1>8, <2>1, FinishOK DEF IntrusionStarts, StoreTypeOK, Results
  <2> QED BY <1>8, <2>1, <2>2, <2>3 DEF IntrusionStarts, StoreTypeOK
<1>9. CASE IntrusionConfirms(r)
  <2>1. PICK p \in find_active(r.slot) :
             update_iva_state(p) /\ IntrusionObserved(r, p) /\ Finish(r, "NO_CHANGE", p)
    BY <1>9 DEF IntrusionConfirms
  <2>2. sessions' \in Seq(SessionRows)
    BY <2>1, update_iva_stateOK
  <2>3. /\ deadlines' \subseteq DeadlineRows /\ iva' \in [Slots -> IvaRows]
        /\ bindings' \subseteq BindingRows
    BY <1>2, <1>9, <2>1, IntrusionObservedOK DEF IntrusionConfirms
  <2>4. InboxOK'
    BY <1>2, <2>1, FinishOK DEF StoreTypeOK, Results
  <2> QED BY <1>9, <2>2, <2>3, <2>4 DEF IntrusionConfirms, StoreTypeOK
<1>10. CASE ExitObserved(r)
  <2>1. iva' \in [Slots -> IvaRows]
    BY <1>1, <1>2, <1>3, <1>10, persist_ivaOK DEF ExitObserved
  <2>2. InboxOK'
    BY <1>2, <1>10, FinishOK DEF ExitObserved, StoreTypeOK, Results
  <2> QED BY <1>10, <2>1, <2>2 DEF ExitObserved, StoreTypeOK
<1>11. CASE ExitSchedules(r)
  <2>1. iva' \in [Slots -> IvaRows]
    BY <1>1, <1>2, <1>3, <1>11, persist_ivaOK DEF ExitSchedules
  <2>2. InboxOK'
    BY <1>2, <1>11, FinishOK DEF ExitSchedules, StoreTypeOK, Results
  <2>3. deadlines' \subseteq DeadlineRows
    BY <1>1, <1>2, <1>3, <1>11 DEF ExitSchedules, StoreTypeOK, DeadlineRows
  <2> QED BY <1>11, <2>1, <2>2, <2>3 DEF ExitSchedules, StoreTypeOK
<1> QED BY <1>4, <1>5, <1>6, <1>7, <1>8, <1>9, <1>10, <1>11

LEMMA DeadlineReductionType ==
    ASSUME StoreTypeOK, NEW r \in inbox,
           DeadlineStale(r) \/ DeadlineHeld(r) \/ DeadlineEnds(r)
    PROVE  StoreTypeOK'
<1>1. r.slot \in Slots
  BY DEF StoreTypeOK, InboxOK, RowOK, InboxRows
<1>2. \A p \in find_active(r.slot) : p \in Nat
  BY ActiveInDomain DEF StoreTypeOK
<1>3. CASE DeadlineStale(r)
  <2>1. deadlines' \subseteq DeadlineRows
    BY <1>3, MarkDeadlinesOK DEF DeadlineStale
  <2>2. InboxOK'
    BY <1>3, FinishOK DEF DeadlineStale, StoreTypeOK, Results
  <2> QED BY <1>3, <2>1, <2>2 DEF DeadlineStale, StoreTypeOK
<1>4. CASE DeadlineHeld(r)
  <2>1. PICK p \in find_active(r.slot) :
             sessions' = [sessions EXCEPT ![p].ivaOccupied = FALSE] /\ Finish(r, "NO_CHANGE", p)
    BY <1>4 DEF DeadlineHeld
  <2>2. sessions' \in Seq(SessionRows)
    <3> DEFINE row == [sessions[p] EXCEPT !.ivaOccupied = FALSE]
    <3>1. p \in 1..Len(sessions) /\ sessions[p] \in SessionRows
      BY ActiveInDomain DEF StoreTypeOK
    <3>2. row \in SessionRows
      BY <3>1 DEF SessionRows
    <3>3. sessions' = [sessions EXCEPT ![p] = row]
      BY <2>1
    <3> HIDE DEF row
    <3> QED BY <3>1, <3>2, <3>3, SessionUpdateType DEF StoreTypeOK
  <2>3. iva' \in [Slots -> IvaRows]
    <3> DEFINE row == [iva[r.slot] EXCEPT !.observed = "VACANT"]
    <3>1. row \in IvaRows
      BY <1>1 DEF StoreTypeOK, IvaRows
    <3>2. iva' = [iva EXCEPT ![r.slot] = row]
      BY <1>4 DEF DeadlineHeld
    <3> HIDE DEF row
    <3> QED BY <3>1, <3>2 DEF StoreTypeOK
  <2>4. deadlines' \subseteq DeadlineRows
    BY <1>4, MarkDeadlinesOK DEF DeadlineHeld
  <2>5. InboxOK'
    BY <1>2, <2>1, FinishOK DEF StoreTypeOK, Results
  <2> QED BY <1>4, <2>2, <2>3, <2>4, <2>5 DEF DeadlineHeld, StoreTypeOK
<1>5. CASE DeadlineEnds(r)
  <2>1. PICK p \in find_active(r.slot) :
             close_session(r, p) /\ iva' = ClearedIva(r.slot, p) /\ Finish(r, "SESSION_ENDED", p)
    BY <1>5 DEF DeadlineEnds
  <2>2. /\ sessions' \in Seq(SessionRows) /\ bindings' \subseteq BindingRows
        /\ slotStatus' \in [Slots -> {"VACANT", "OCCUPIED"}]
    BY <2>1, close_sessionOK
  <2>3. iva' \in [Slots -> IvaRows]
    BY <1>1, <2>1, ClearedIvaType
  <2>4. deadlines' \subseteq DeadlineRows
    BY <1>5, MarkDeadlinesOK DEF DeadlineEnds
  <2>5. InboxOK'
    BY <1>2, <2>1, FinishOK DEF StoreTypeOK, Results
  <2> QED BY <1>5, <2>2, <2>3, <2>4, <2>5 DEF DeadlineEnds, StoreTypeOK
<1> QED BY <1>3, <1>4, <1>5

\* Transactions that only touch the bookkeeping columns of the inbox.
LEMMA BookkeepingType ==
    ASSUME StoreTypeOK,
           \/ \E r \in inbox : \/ deferSlotTransitionCommand(r)
                               \/ completeSlotTransitionEffects(r)
                               \/ deferSlotTransitionEffects(r)
           \/ purgeSettledSlotTransitionCommands
           \/ Tick
    PROVE  StoreTypeOK'
<1>1. CASE Tick
  BY <1>1 DEF Tick, StoreTypeOK, domain, InboxOK, RowOK, InboxRows, HallInputs, CameraInputs
<1>2. CASE purgeSettledSlotTransitionCommands
  BY <1>2 DEF purgeSettledSlotTransitionCommands, StoreTypeOK, domain, InboxOK, RowOK,
              InboxRows, HallInputs, CameraInputs
<1>3. ASSUME NEW r \in inbox,
             \/ deferSlotTransitionCommand(r) \/ completeSlotTransitionEffects(r)
             \/ deferSlotTransitionEffects(r)
      PROVE  StoreTypeOK'
  <2>1. RowOK(r) /\ now + RetryDelay \in Nat
    BY TimingAssumption DEF StoreTypeOK, InboxOK
  <2>2. PICK q \in InboxRows : /\ inbox' = (inbox \ {r}) \cup {q}
                               /\ SameCommand(q, r)
    <3>1. CASE deferSlotTransitionCommand(r)
      <4> DEFINE later == now + RetryDelay
                 q == [r EXCEPT !.next = later]
      <4>1. later \in Nat
        BY <2>1
      <4>2. inbox' = (inbox \ {r}) \cup {q}
        BY <3>1 DEF deferSlotTransitionCommand, Replace
      <4> HIDE DEF later
      <4>3. q \in InboxRows /\ SameCommand(q, r)
        BY <2>1, <4>1 DEF RowOK, InboxRows, SameCommand
      <4> QED BY <4>2, <4>3
    <3>2. CASE completeSlotTransitionEffects(r)
      <4> DEFINE q == [r EXCEPT !.effect = "APPLIED", !.effectNext = 0]
      <4>1. inbox' = (inbox \ {r}) \cup {q}
        BY <3>2 DEF completeSlotTransitionEffects, Replace
      <4>2. q \in InboxRows /\ SameCommand(q, r)
        BY <2>1 DEF RowOK, InboxRows, SameCommand
      <4> QED BY <4>1, <4>2
    <3>3. CASE deferSlotTransitionEffects(r)
      <4> DEFINE later == now + RetryDelay
                 q == [r EXCEPT !.effectNext = later]
      <4>1. later \in Nat
        BY <2>1
      <4>2. inbox' = (inbox \ {r}) \cup {q}
        BY <3>3 DEF deferSlotTransitionEffects, Replace
      <4> HIDE DEF later
      <4>3. q \in InboxRows /\ SameCommand(q, r)
        BY <2>1, <4>1 DEF RowOK, InboxRows, SameCommand
      <4> QED BY <4>2, <4>3
    <3> QED BY <1>3, <3>1, <3>2, <3>3
  <2>3. RowOK(q)
    BY <2>1, <2>2, RowUpdateOK
  <2>4. InboxOK'
    BY <2>2, <2>3 DEF StoreTypeOK, InboxOK, RowOK, InboxRows, HallInputs, CameraInputs
  <2> QED BY <1>3, <2>4
          DEF StoreTypeOK, domain, deferSlotTransitionCommand, completeSlotTransitionEffects,
              deferSlotTransitionEffects
<1> QED BY <1>1, <1>2, <1>3

LEMMA StoreTypeInit == StoreInit => StoreTypeOK
  BY DEF StoreInit, StoreTypeOK, InboxOK, IvaRows, CursorRows, UnseenCursor, Modes, Boots,
         None, NoSequence, NoBoot, SessionRows

LEMMA StoreTypeStep == StoreTypeOK /\ [StoreNext]_storeVars => StoreTypeOK'
<1> SUFFICES ASSUME StoreTypeOK, [StoreNext]_storeVars PROVE StoreTypeOK'
  OBVIOUS
<1>1. CASE UNCHANGED storeVars
  BY <1>1 DEF storeVars, domain, StoreTypeOK, InboxOK, RowOK, InboxRows, HallInputs,
              CameraInputs
<1>2. ASSUME NEW t \in 0..now, NEW c \in CommandsReceivedAt(t), admitSlotTransitionCommand(c)
      PROVE  StoreTypeOK'
  BY <1>2, AdmissionType DEF StoreTypeOK
<1>3. ASSUME NEW blocked, admitDueSlotDeadlines(blocked) PROVE StoreTypeOK'
  BY <1>3, DeadlineAdmissionType
<1>4. ASSUME NEW r \in inbox, applySlotTransitionCommand(r) PROVE StoreTypeOK'
  BY <1>4, HallReductionType, CameraReductionType, DeadlineReductionType
     DEF applySlotTransitionCommand
<1>5. ASSUME \/ \E r \in inbox : \/ deferSlotTransitionCommand(r)
                                 \/ completeSlotTransitionEffects(r)
                                 \/ deferSlotTransitionEffects(r)
             \/ purgeSettledSlotTransitionCommands
             \/ Tick
      PROVE  StoreTypeOK'
  BY <1>5, BookkeepingType
<1> QED BY <1>1, <1>2, <1>3, <1>4, <1>5 DEF StoreNext, ReduceRow

\* Every table always holds rows of its own type, and every inbox row a fact
\* that its source can report under the policy in force.
THEOREM StoreTypeSafety == StoreSpec => []StoreTypeOK
  BY StoreTypeInit, StoreTypeStep, PTL DEF StoreSpec

-----------------------------------------------------------------------------
(***************************************************************************)
(* Sessions and camera observation                                         *)
(*                                                                         *)
(* The session invariants, from their inductive form SessionInv.           *)
(***************************************************************************)
StoreInv == StoreTypeOK /\ SessionInv

LEMMA SessionInvParts ==
    SessionInv => IvaTracksOpenSession /\ ActiveAreaHoldsSession
  BY DEF SessionInv, SlotInv, IvaTracksOpenSession, ActiveAreaHoldsSession, AreaActive,
         CameraHolds

LEMMA TheActiveSession ==
    ASSUME SessionInv, NEW s \in Slots, NEW p \in find_active(s)
    PROVE  find_active(s) = {p}
  BY DEF SessionInv, SlotInv

LEMMA ActiveAfterCreate ==
    ASSUME StoreTypeOK, NEW r \in inbox, create_session(r)
    PROVE  /\ \A s : find_active(s)' = IF s = r.slot THEN find_active(s) \cup {NextSessionId}
                                       ELSE find_active(s)
           /\ \A k \in DOMAIN sessions : sessions'[k] = sessions[k]
           /\ sessions'[NextSessionId].ivaConfirmed = (r.kind = "CAMERA_OBSERVATION")
           /\ sessions'[NextSessionId].ivaOccupied = (r.kind = "CAMERA_OBSERVATION")
<1> DEFINE row == [slot |-> r.slot, entry |-> r.occurred, exit |-> None,
          entryCmd |-> CommandKey(r), exitCmd |-> <<>>,
          hallConfirmed |-> r.kind = "HALL_OBSERVATION",
          ivaConfirmed |-> r.kind = "CAMERA_OBSERVATION",
          hallOccupied |-> r.kind = "HALL_OBSERVATION",
          ivaOccupied |-> r.kind = "CAMERA_OBSERVATION"]
<1>1. /\ row.slot = r.slot /\ row.exit = None
      /\ row.ivaConfirmed = (r.kind = "CAMERA_OBSERVATION")
      /\ row.ivaOccupied = (r.kind = "CAMERA_OBSERVATION")
  OBVIOUS
<1>2. sessions' = Append(sessions, row)
  BY DEF create_session
<1> HIDE DEF row
<1>3. /\ DOMAIN sessions = 1..Len(sessions) /\ Len(sessions) \in Nat
      /\ DOMAIN sessions' = 1..(Len(sessions) + 1)
      /\ \A k \in 1..Len(sessions) : sessions'[k] = sessions[k]
      /\ sessions'[Len(sessions) + 1] = row
  BY <1>2 DEF StoreTypeOK
<1> QED BY <1>1, <1>3 DEF find_active, NextSessionId

LEMMA ActiveAfterClose ==
    ASSUME StoreTypeOK, NEW r \in inbox, NEW p \in find_active(r.slot), close_session(r, p)
    PROVE  /\ \A s : find_active(s)' = find_active(s) \ {p}
           /\ \A k \in DOMAIN sessions \ {p} : sessions'[k] = sessions[k]
<1>1. r.occurred \in Nat /\ r.occurred # None
  BY DEF StoreTypeOK, InboxOK, RowOK, InboxRows, None
<1>2. p \in DOMAIN sessions /\ sessions[p] \in SessionRows
  BY ActiveInDomain DEF StoreTypeOK
<1>3. /\ DOMAIN sessions' = DOMAIN sessions
      /\ \A k \in DOMAIN sessions \ {p} : sessions'[k] = sessions[k]
      /\ sessions'[p].exit = r.occurred
  BY <1>2 DEF close_session, SessionRows, StoreTypeOK
<1> QED BY <1>1, <1>3 DEF find_active

\* Overwriting source flags of p opens and closes nothing.
LEMMA ActiveAfterUpdate ==
    ASSUME StoreTypeOK, NEW p \in 1..Len(sessions), NEW row \in SessionRows,
           row.slot = sessions[p].slot, row.exit = sessions[p].exit,
           sessions' = [sessions EXCEPT ![p] = row]
    PROVE  /\ \A s : find_active(s)' = find_active(s)
           /\ \A k \in DOMAIN sessions \ {p} : sessions'[k] = sessions[k]
           /\ sessions'[p] = row
<1>1. /\ DOMAIN sessions' = DOMAIN sessions
      /\ \A k \in DOMAIN sessions \ {p} : sessions'[k] = sessions[k]
      /\ sessions'[p] = row
  BY DEF StoreTypeOK
<1> QED BY <1>1 DEF find_active

\* Nothing the invariant speaks of has changed.
LEMMA Untouched ==
    ASSUME SessionInv, UNCHANGED <<sessions, slotStatus, iva>>
    PROVE  SessionInv'
  BY DEF SessionInv, SlotInv, AreaActive, CameraHolds, AllQuiet, find_active

\* A transaction works on the rows of one slot: only that slot is to be checked.
LEMMA OnlyThisSlot ==
    ASSUME SessionInv, NEW t \in Slots, SlotInv(t)',
           \A s \in Slots \ {t} :
              /\ find_active(s)' = find_active(s)
              /\ \A p \in find_active(s) : sessions'[p] = sessions[p]
              /\ slotStatus'[s] = slotStatus[s] /\ iva'[s] = iva[s]
    PROVE  SessionInv'
<1> SUFFICES ASSUME NEW s \in Slots, s # t PROVE SlotInv(s)'
  BY DEF SessionInv
<1> QED BY DEF SessionInv, SlotInv, AreaActive, CameraHolds, AllQuiet

LEMMA SessionStarts ==
    ASSUME StoreInv, NEW r \in inbox, find_active(r.slot) = {}, create_session(r),
           \/ r.kind = "HALL_OBSERVATION" /\ UNCHANGED iva
           \/ /\ r.kind = "CAMERA_OBSERVATION" /\ Policy # "HALL"
              /\ \E gen, areas : persist_iva(r.slot, NextSessionId, gen, "OCCUPIED", areas)
    PROVE  SessionInv'
<1>1. r.slot \in Slots
  BY DEF StoreInv, StoreTypeOK, InboxOK, RowOK, InboxRows
<1>2. /\ \A s : find_active(s)' = IF s = r.slot THEN {NextSessionId} ELSE find_active(s)
      /\ \A k \in DOMAIN sessions : sessions'[k] = sessions[k]
      /\ r.kind = "CAMERA_OBSERVATION" => /\ sessions'[NextSessionId].ivaConfirmed
                                          /\ sessions'[NextSessionId].ivaOccupied
  BY ActiveAfterCreate DEF StoreInv
<1>3. NextSessionId # None /\ slotStatus' = [slotStatus EXCEPT ![r.slot] = "OCCUPIED"]
  BY DEF StoreInv, StoreTypeOK, NextSessionId, None, create_session
<1>4. SlotInv(r.slot)
  BY <1>1 DEF StoreInv, SessionInv
<1>5. SlotInv(r.slot)'
  <2>1. CASE r.kind = "HALL_OBSERVATION" /\ UNCHANGED iva
    BY <1>1, <1>2, <1>3, <1>4, <2>1 DEF SlotInv, AreaActive, AllQuiet, StoreInv, StoreTypeOK
  <2>2. ASSUME NEW gen, NEW areas, r.kind = "CAMERA_OBSERVATION", Policy # "HALL",
               persist_iva(r.slot, NextSessionId, gen, "OCCUPIED", areas)
        PROVE  SlotInv(r.slot)'
    <3>1. /\ iva'[r.slot].session = NextSessionId /\ iva'[r.slot].observed = "OCCUPIED"
          /\ slotStatus'[r.slot] = "OCCUPIED"
      BY <1>1, <1>3, <2>2 DEF StoreInv, StoreTypeOK, persist_iva
    <3> QED BY <1>2, <1>3, <2>2, <3>1 DEF SlotInv, CameraHolds
  <2> QED BY <2>1, <2>2
<1>6. \A s \in Slots \ {r.slot} : slotStatus'[s] = slotStatus[s] /\ iva'[s] = iva[s]
  BY <1>3 DEF StoreInv, StoreTypeOK, persist_iva
<1> QED BY <1>1, <1>2, <1>5, <1>6, OnlyThisSlot DEF StoreInv, find_active

\* A session may be closed only in a slot without an active area, and the
\* observation row must let go of it.
LEMMA SessionEnds ==
    ASSUME StoreInv, NEW r \in inbox, NEW p \in find_active(r.slot), close_session(r, p),
           ~AreaActive(r.slot), iva' = ClearedIva(r.slot, p)
    PROVE  SessionInv'
<1>1. r.slot \in Slots
  BY DEF StoreInv, StoreTypeOK, InboxOK, RowOK, InboxRows
<1>2. SlotInv(r.slot) /\ find_active(r.slot) = {p}
  BY <1>1, TheActiveSession DEF StoreInv, SessionInv
<1>3. /\ \A s : find_active(s)' = find_active(s) \ {p}
      /\ \A k \in DOMAIN sessions \ {p} : sessions'[k] = sessions[k]
  BY ActiveAfterClose DEF StoreInv
<1>4. slotStatus' = [slotStatus EXCEPT ![r.slot] = "VACANT"]
  BY DEF close_session
<1>5. iva'[r.slot].areas = iva[r.slot].areas
  BY <1>1 DEF ClearedIva, StoreInv, StoreTypeOK, IvaRows
<1>6. iva'[r.slot].session = None /\ iva'[r.slot].observed \notin {"OCCUPIED", "VACANT_PENDING"}
  BY <1>1, <1>2 DEF ClearedIva, StoreInv, StoreTypeOK, IvaRows, SlotInv
<1>7. SlotInv(r.slot)'
  BY <1>1, <1>2, <1>3, <1>4, <1>5, <1>6 DEF SlotInv, AreaActive, StoreInv, StoreTypeOK
<1>8. \A s \in Slots \ {r.slot} : slotStatus'[s] = slotStatus[s] /\ iva'[s] = iva[s]
  BY <1>1, <1>4 DEF ClearedIva, StoreInv, StoreTypeOK
<1>9. \A s \in Slots \ {r.slot} : p \notin find_active(s)
  BY DEF find_active
<1> QED BY <1>1, <1>3, <1>7, <1>8, <1>9, OnlyThisSlot DEF StoreInv, find_active

\* Flags of the open session and the observation row are rewritten together.
LEMMA SessionContinues ==
    ASSUME StoreInv, NEW t \in Slots, NEW p \in find_active(t), UNCHANGED slotStatus,
           \A s : find_active(s)' = find_active(s),
           \A k \in DOMAIN sessions \ {p} : sessions'[k] = sessions[k],
           \A s \in Slots \ {t} : iva'[s] = iva[s],
           iva'[t].session \in {p, None},
           iva'[t].observed \in {"OCCUPIED", "VACANT_PENDING"} => iva'[t].session = p,
           AreaActive(t)' => CameraHolds(p)' /\ Policy # "HALL",
           iva'[t].observed = "VACANT_PENDING" => AllQuiet(iva'[t].areas)
    PROVE  SessionInv'
<1>1. SlotInv(t) /\ find_active(t) = {p}
  BY TheActiveSession DEF StoreInv, SessionInv
<1>2. p \in Nat
  BY ActiveInDomain DEF StoreInv, StoreTypeOK
<1>3. SlotInv(t)'
  BY <1>1, <1>2 DEF SlotInv, None
<1>4. \A s \in Slots \ {t} : \A k \in find_active(s) : k \in DOMAIN sessions \ {p}
  BY DEF find_active
<1> QED BY <1>3, <1>4, OnlyThisSlot DEF StoreInv

LEMMA HallReductionSessions ==
    ASSUME StoreInv, NEW r \in inbox,
           \/ HallOvertaken(r) \/ HallOccupiedStarts(r) \/ HallOccupiedConfirms(r)
           \/ HallVacantIdle(r) \/ HallVacantTooEarly(r) \/ HallVacantIgnored(r)
           \/ HallVacantHeld(r) \/ HallVacantEnds(r)
    PROVE  SessionInv'
<1>1. /\ r.slot \in Slots /\ SlotInv(r.slot)
      /\ r.kind = "HALL_OBSERVATION" => Policy \in {"HALL", "HYBRID_OR"}
  BY DEF StoreInv, SessionInv, StoreTypeOK, InboxOK, RowOK, InboxRows, HallInputs
<1> USE DEF HallRow, AcceptedHallRow
<1>2. CASE HallOvertaken(r) \/ HallVacantTooEarly(r) \/ HallVacantIgnored(r)
  BY <1>2, Untouched
     DEF StoreInv, HallOvertaken, HallVacantTooEarly, HallVacantIgnored, domain
<1>3. CASE HallVacantIdle(r)
  <2>1. slotStatus[r.slot] = "VACANT"
    BY <1>1, <1>3 DEF HallVacantIdle, SlotInv, StoreInv, StoreTypeOK
  <2>2. UNCHANGED slotStatus
    BY <1>1, <1>3, <2>1 DEF HallVacantIdle, StoreInv, StoreTypeOK
  <2> QED BY <1>3, <2>2, Untouched DEF HallVacantIdle, StoreInv
<1>4. CASE HallOccupiedStarts(r)
  BY <1>4, SessionStarts DEF HallOccupiedStarts
<1>5. ASSUME NEW p \in find_active(r.slot), NEW occupied \in BOOLEAN,
             update_hall_state(p, occupied), UNCHANGED <<slotStatus, iva>>
      PROVE  SessionInv'
  <2> DEFINE row == [sessions[p] EXCEPT !.hallConfirmed = @ \/ occupied,
                                        !.hallOccupied = occupied]
  <2>1. p \in 1..Len(sessions) /\ sessions[p] \in SessionRows
    BY ActiveInDomain DEF StoreInv, StoreTypeOK
  <2>2. /\ row \in SessionRows /\ row.slot = sessions[p].slot /\ row.exit = sessions[p].exit
        /\ row.ivaConfirmed = sessions[p].ivaConfirmed
        /\ row.ivaOccupied = sessions[p].ivaOccupied
    BY <2>1 DEF SessionRows
  <2>3. sessions' = [sessions EXCEPT ![p] = row]
    BY <1>5 DEF update_hall_state
  <2> HIDE DEF row
  <2>4. /\ \A s : find_active(s)' = find_active(s)
        /\ \A k \in DOMAIN sessions \ {p} : sessions'[k] = sessions[k]
        /\ sessions'[p] = row
    BY <2>1, <2>2, <2>3, ActiveAfterUpdate DEF StoreInv
  <2>5. find_active(r.slot) = {p}
    BY <1>1, TheActiveSession DEF StoreInv
  <2>6. AreaActive(r.slot)' => CameraHolds(p)' /\ Policy # "HALL"
    BY <1>1, <1>5, <2>2, <2>4, <2>5 DEF SlotInv, AreaActive, CameraHolds
  <2>7. /\ iva'[r.slot].session \in {p, None}
        /\ iva'[r.slot].observed \in {"OCCUPIED", "VACANT_PENDING"} => iva'[r.slot].session = p
        /\ iva'[r.slot].observed = "VACANT_PENDING" => AllQuiet(iva'[r.slot].areas)
    BY <1>1, <1>5, <2>5 DEF SlotInv
  <2> QED BY <1>1, <1>5, <2>4, <2>6, <2>7, SessionContinues
<1>6. CASE HallOccupiedConfirms(r)
  BY <1>5, <1>6 DEF HallOccupiedConfirms
<1>7. CASE HallVacantHeld(r)
  BY <1>5, <1>7 DEF HallVacantHeld
<1>8. CASE HallVacantEnds(r)
  <2>1. PICK p \in find_active(r.slot) :
             ~HeldByIva(p) /\ close_session(r, p) /\ iva' = ClearedIva(r.slot, p)
    BY <1>8 DEF HallVacantEnds
  <2>2. find_active(r.slot) = {p}
    BY <1>1, TheActiveSession DEF StoreInv
  <2>3. ~AreaActive(r.slot)
    BY <1>1, <1>8, <2>1, <2>2 DEF HallVacantEnds, SlotInv, HeldByIva, CameraHolds
  <2> QED BY <2>1, <2>3, SessionEnds
<1> QED BY <1>2, <1>3, <1>4, <1>6, <1>7, <1>8

LEMMA CameraReductionSessions ==
    ASSUME StoreInv, NEW r \in inbox,
           \/ CameraCorrelates(r) \/ CameraRejected(r) \/ CameraExitTooEarly(r)
           \/ CameraIgnored(r) \/ IntrusionStarts(r) \/ IntrusionConfirms(r)
           \/ ExitObserved(r) \/ ExitSchedules(r)
    PROVE  SessionInv'
<1>1. /\ r.slot \in Slots /\ SlotInv(r.slot) /\ iva[r.slot] \in IvaRows
      /\ iva[r.slot].areas \in [Areas -> {"unknown", "inactive", "active"}]
  BY DEF StoreInv, SessionInv, StoreTypeOK, InboxOK, RowOK, InboxRows, IvaRows
<1>2. r.slot \in DOMAIN iva /\ DOMAIN iva = Slots
  BY <1>1 DEF StoreInv, StoreTypeOK
<1>3. \A a \in Areas : ExitAreas(r)[a] = "active" => AreaActive(r.slot)
  BY <1>1 DEF ExitAreas, AreaActive
<1> USE DEF AnyCameraRow, CameraRow, ExitRow
<1>4. CASE CameraCorrelates(r) \/ CameraRejected(r) \/ CameraExitTooEarly(r) \/ CameraIgnored(r)
  BY <1>4, Untouched
     DEF StoreInv, CameraCorrelates, CameraRejected, CameraExitTooEarly, CameraIgnored, domain
<1>5. CASE IntrusionStarts(r)
  BY <1>5, SessionStarts DEF IntrusionStarts, IntrusionObserved
<1>6. CASE IntrusionConfirms(r)
  <2>1. PICK p \in find_active(r.slot) : update_iva_state(p) /\ IntrusionObserved(r, p)
    BY <1>6 DEF IntrusionConfirms
  <2> DEFINE row == [sessions[p] EXCEPT !.ivaConfirmed = TRUE, !.ivaOccupied = TRUE]
  <2>2. p \in 1..Len(sessions) /\ sessions[p] \in SessionRows
    BY ActiveInDomain DEF StoreInv, StoreTypeOK
  <2>3. /\ row \in SessionRows /\ row.slot = sessions[p].slot /\ row.exit = sessions[p].exit
        /\ row.ivaConfirmed /\ row.ivaOccupied
    BY <2>2 DEF SessionRows
  <2>4. sessions' = [sessions EXCEPT ![p] = row]
    BY <2>1 DEF update_iva_state
  <2> HIDE DEF row
  <2>5. /\ \A s : find_active(s)' = find_active(s)
        /\ \A k \in DOMAIN sessions \ {p} : sessions'[k] = sessions[k]
        /\ sessions'[p] = row
    BY <2>2, <2>3, <2>4, ActiveAfterUpdate DEF StoreInv
  <2>6. CameraHolds(p)' /\ Policy # "HALL"
    BY <1>6, <2>3, <2>5 DEF IntrusionConfirms, CameraHolds
  <2>7. /\ iva'[r.slot].session = p /\ iva'[r.slot].observed = "OCCUPIED"
        /\ \A s \in Slots \ {r.slot} : iva'[s] = iva[s]
    BY <1>2, <2>1 DEF IntrusionObserved, persist_iva
  <2> QED BY <1>1, <1>6, <2>5, <2>6, <2>7, SessionContinues DEF IntrusionConfirms
<1>7. CASE ExitObserved(r) /\ find_active(r.slot) = {}
  <2>1. ~AreaActive(r.slot)
    BY <1>1, <1>7 DEF SlotInv
  <2>2. /\ iva'[r.slot].session = None /\ iva'[r.slot].observed = "VACANT"
        /\ iva'[r.slot].areas = ExitAreas(r)
        /\ \A s \in Slots \ {r.slot} : iva'[s] = iva[s]
    BY <1>2, <1>7 DEF ExitObserved, persist_iva
  <2>3. ~AreaActive(r.slot)'
    BY <1>3, <2>1, <2>2 DEF AreaActive
  <2>4. find_active(r.slot)' = {} /\ \A s : find_active(s)' = find_active(s)
    BY <1>7 DEF ExitObserved, find_active
  <2>5. SlotInv(r.slot)'
    BY <1>1, <1>7, <2>2, <2>3, <2>4 DEF ExitObserved, SlotInv
  <2> QED BY <1>1, <1>7, <2>2, <2>4, <2>5, OnlyThisSlot DEF ExitObserved, StoreInv
<1>8. ASSUME NEW p \in find_active(r.slot), NEW gen, NEW observed, Policy # "HALL",
             observed = "VACANT_PENDING" => AllQuiet(ExitAreas(r)),
             persist_iva(r.slot, p, gen, observed, ExitAreas(r)),
             UNCHANGED <<sessions, slotStatus>>
      PROVE  SessionInv'
  <2>1. find_active(r.slot) = {p}
    BY <1>1, TheActiveSession DEF StoreInv
  <2>2. /\ iva'[r.slot].session = p /\ iva'[r.slot].observed = observed
        /\ iva'[r.slot].areas = ExitAreas(r)
        /\ \A s \in Slots \ {r.slot} : iva'[s] = iva[s]
    BY <1>2, <1>8 DEF persist_iva
  <2>3. AreaActive(r.slot)' => CameraHolds(p)'
    BY <1>1, <1>3, <1>8, <2>1, <2>2 DEF AreaActive, SlotInv, CameraHolds
  <2>4. \A s : find_active(s)' = find_active(s)
    BY <1>8 DEF find_active
  <2> QED BY <1>1, <1>8, <2>2, <2>3, <2>4, SessionContinues
<1>9. CASE ExitObserved(r) /\ find_active(r.slot) # {}
  BY <1>8, <1>9 DEF ExitObserved
<1>10. CASE ExitSchedules(r)
  BY <1>8, <1>10 DEF ExitSchedules
<1> QED BY <1>4, <1>5, <1>6, <1>7, <1>9, <1>10

LEMMA DeadlineReductionSessions ==
    ASSUME StoreInv, NEW r \in inbox,
           DeadlineStale(r) \/ DeadlineHeld(r) \/ DeadlineEnds(r)
    PROVE  SessionInv'
<1>1. /\ r.slot \in Slots /\ SlotInv(r.slot)
      /\ iva[r.slot] \in IvaRows
  BY DEF StoreInv, SessionInv, StoreTypeOK, InboxOK, RowOK, InboxRows
<1>2. CASE DeadlineStale(r)
  BY <1>2, Untouched DEF StoreInv, DeadlineStale
<1>3. OwnsObservation(r) => ~AreaActive(r.slot)
  BY <1>1 DEF OwnsObservation, SlotInv, AreaActive, AllQuiet
<1>4. CASE DeadlineHeld(r)
  <2>1. PICK p \in find_active(r.slot) : sessions' = [sessions EXCEPT ![p].ivaOccupied = FALSE]
    BY <1>4 DEF DeadlineHeld
  <2> DEFINE row == [sessions[p] EXCEPT !.ivaOccupied = FALSE]
  <2>2. p \in 1..Len(sessions) /\ sessions[p] \in SessionRows
    BY ActiveInDomain DEF StoreInv, StoreTypeOK
  <2>3. row \in SessionRows /\ row.slot = sessions[p].slot /\ row.exit = sessions[p].exit
    BY <2>2 DEF SessionRows
  <2>4. sessions' = [sessions EXCEPT ![p] = row]
    BY <2>1
  <2> HIDE DEF row
  <2>5. /\ \A s : find_active(s)' = find_active(s)
        /\ \A k \in DOMAIN sessions \ {p} : sessions'[k] = sessions[k]
    BY <2>2, <2>3, <2>4, ActiveAfterUpdate DEF StoreInv
  <2>6. /\ iva'[r.slot].areas = iva[r.slot].areas
        /\ iva'[r.slot].session = iva[r.slot].session
        /\ iva'[r.slot].observed = "VACANT"
        /\ \A s \in Slots \ {r.slot} : iva'[s] = iva[s]
    BY <1>1, <1>4 DEF DeadlineHeld, IvaRows, StoreInv, StoreTypeOK
  <2>7. ~AreaActive(r.slot)'
    BY <1>3, <1>4, <2>6 DEF DeadlineHeld, AreaActive
  <2>8. iva'[r.slot].session \in {p, None}
    <3>1. find_active(r.slot) = {p}
      BY <1>1, TheActiveSession DEF StoreInv
    <3> QED BY <1>1, <2>6, <3>1 DEF SlotInv
  <2> QED BY <1>1, <1>4, <2>5, <2>6, <2>7, <2>8, SessionContinues DEF DeadlineHeld
<1>5. CASE DeadlineEnds(r)
  BY <1>3, <1>5, SessionEnds DEF DeadlineEnds
<1> QED BY <1>2, <1>4, <1>5

LEMMA StoreInvInit == StoreInit => StoreInv
<1>1. StoreInit => SessionInv
  BY DEF StoreInit, SessionInv, SlotInv, AreaActive, find_active, None
<1> QED BY <1>1, StoreTypeInit DEF StoreInv

LEMMA StoreInvStep == StoreInv /\ [StoreNext]_storeVars => StoreInv'
<1> SUFFICES ASSUME StoreInv, [StoreNext]_storeVars PROVE SessionInv'
  BY StoreTypeStep DEF StoreInv
<1>1. CASE UNCHANGED storeVars
  BY <1>1, Untouched DEF storeVars, domain, StoreInv
<1>2. ASSUME NEW c, admitSlotTransitionCommand(c) PROVE SessionInv'
  BY <1>2, Untouched DEF admitSlotTransitionCommand, domain, StoreInv
<1>3. ASSUME NEW blocked, admitDueSlotDeadlines(blocked) PROVE SessionInv'
  BY <1>3, Untouched DEF admitDueSlotDeadlines, StoreInv
<1>4. ASSUME NEW r \in inbox, applySlotTransitionCommand(r) PROVE SessionInv'
  BY <1>4, HallReductionSessions, CameraReductionSessions, DeadlineReductionSessions
     DEF applySlotTransitionCommand
<1>5. ASSUME \/ \E r \in inbox : \/ deferSlotTransitionCommand(r)
                                 \/ completeSlotTransitionEffects(r)
                                 \/ deferSlotTransitionEffects(r)
             \/ purgeSettledSlotTransitionCommands
             \/ Tick
      PROVE  SessionInv'
  BY <1>5, Untouched
     DEF deferSlotTransitionCommand, completeSlotTransitionEffects,
         deferSlotTransitionEffects, purgeSettledSlotTransitionCommands, Tick, domain, StoreInv
<1> QED BY <1>1, <1>2, <1>3, <1>4, <1>5 DEF StoreNext, ReduceRow

LEMMA StoreInvHolds == StoreSpec => []StoreInv
  BY StoreInvInit, StoreInvStep, PTL DEF StoreSpec

\* The whole invariant, slot by slot: what the slot table, the observation row and
\* the open session say of a slot agree at every commit.
THEOREM SlotStateAgrees == StoreSpec => []SessionInv
  BY StoreInvHolds, PTL DEF StoreInv

\* The camera observation row never names a session that another source ended.
THEOREM ObservationTracksSession == StoreSpec => []IvaTracksOpenSession
  BY StoreInvHolds, SessionInvParts, PTL DEF StoreInv

\* A slot in which an area still sees a vehicle has a session the camera holds.
THEOREM ActiveAreasHaveSessions == StoreSpec => []ActiveAreaHoldsSession
  BY StoreInvHolds, SessionInvParts, PTL DEF StoreInv

-----------------------------------------------------------------------------
(***************************************************************************)
(* What may end a session                                                  *)
(***************************************************************************)
EndOf(k) == sessions[k].exit = None /\ sessions'[k].exit # None

JustifiedEnd(k) ==
    /\ \A a \in Areas : iva[sessions[k].slot].areas[a] # "active"
    /\ Policy = "HYBRID_OR" =>
         /\ sessions[k].hallConfirmed /\ sessions[k].hallOccupied
               => sessions'[k].exitCmd[1] = "HALL_OBSERVATION"
         /\ sessions[k].ivaConfirmed /\ sessions[k].ivaOccupied
               => sessions'[k].exitCmd[1] = "EXIT_DEADLINE"

LEMMA WhoseEnd ==
    ASSUME StoreInv, NEW r \in inbox, NEW p \in find_active(r.slot), close_session(r, p),
           NEW k \in DOMAIN sessions, EndOf(k)
    PROVE  k = p /\ sessions[k].slot = r.slot /\ sessions'[k].exitCmd[1] = r.kind
<1>1. p \in DOMAIN sessions /\ sessions[p] \in SessionRows /\ sessions[p].slot = r.slot
  BY ActiveInDomain DEF StoreInv, StoreTypeOK
<1>2. k = p
  BY ActiveAfterClose DEF StoreInv, EndOf
<1>3. sessions'[p].exitCmd = CommandKey(r)
  BY <1>1 DEF close_session, SessionRows, StoreInv, StoreTypeOK
<1> QED BY <1>1, <1>2, <1>3 DEF CommandKey

\* Only the two branches that close a session end one.
LEMMA EndsAreCloses ==
    ASSUME StoreInv, [StoreNext]_storeVars, NEW k \in DOMAIN sessions, EndOf(k)
    PROVE  \E r \in inbox : HallVacantEnds(r) \/ DeadlineEnds(r)
<1> SUFFICES ASSUME NEW r \in inbox, applySlotTransitionCommand(r),
                    ~HallVacantEnds(r), ~DeadlineEnds(r)
             PROVE  sessions'[k].exit = sessions[k].exit
  <2>1. UNCHANGED sessions \/ \E r \in inbox : applySlotTransitionCommand(r)
    BY DEF StoreNext, ReduceRow, storeVars, domain, admitSlotTransitionCommand,
           admitDueSlotDeadlines, deferSlotTransitionCommand,
           completeSlotTransitionEffects, deferSlotTransitionEffects,
           purgeSettledSlotTransitionCommands, Tick
  <2> QED BY <2>1 DEF EndOf
<1>1. k \in 1..Len(sessions) /\ sessions[k] \in SessionRows
  BY DEF StoreInv, StoreTypeOK
<1>2. CASE HallOccupiedStarts(r) \/ IntrusionStarts(r)
  BY <1>2, ActiveAfterCreate DEF HallOccupiedStarts, IntrusionStarts, StoreInv
<1>3. ASSUME NEW p \in find_active(r.slot), NEW occupied \in BOOLEAN,
             \/ update_hall_state(p, occupied) \/ update_iva_state(p)
             \/ sessions' = [sessions EXCEPT ![p].ivaOccupied = FALSE]
      PROVE  sessions'[k].exit = sessions[k].exit
  <2>1. p \in 1..Len(sessions) /\ sessions[p] \in SessionRows
    BY ActiveInDomain DEF StoreInv, StoreTypeOK
  <2>2. CASE k # p
    BY <1>1, <1>3, <2>1, <2>2 DEF update_hall_state, update_iva_state, StoreInv, StoreTypeOK
  <2>3. CASE k = p /\ update_hall_state(p, occupied)
    <3> DEFINE row == [sessions[p] EXCEPT !.hallConfirmed = @ \/ occupied,
                                          !.hallOccupied = occupied]
    <3>1. sessions' = [sessions EXCEPT ![p] = row] /\ row.exit = sessions[p].exit
      BY <2>1, <2>3 DEF update_hall_state, SessionRows
    <3> HIDE DEF row
    <3> QED BY <2>1, <2>3, <3>1 DEF StoreInv, StoreTypeOK
  <2>4. CASE k = p /\ update_iva_state(p)
    <3> DEFINE row == [sessions[p] EXCEPT !.ivaConfirmed = TRUE, !.ivaOccupied = TRUE]
    <3>1. sessions' = [sessions EXCEPT ![p] = row] /\ row.exit = sessions[p].exit
      BY <2>1, <2>4 DEF update_iva_state, SessionRows
    <3> HIDE DEF row
    <3> QED BY <2>1, <2>4, <3>1 DEF StoreInv, StoreTypeOK
  <2>5. CASE k = p /\ sessions' = [sessions EXCEPT ![p].ivaOccupied = FALSE]
    <3> DEFINE row == [sessions[p] EXCEPT !.ivaOccupied = FALSE]
    <3>1. sessions' = [sessions EXCEPT ![p] = row] /\ row.exit = sessions[p].exit
      BY <2>1, <2>5 DEF SessionRows
    <3> HIDE DEF row
    <3> QED BY <2>1, <2>5, <3>1 DEF StoreInv, StoreTypeOK
  <2> QED BY <1>3, <2>2, <2>3, <2>4, <2>5
<1>4. CASE HallOccupiedConfirms(r) \/ HallVacantHeld(r) \/ IntrusionConfirms(r)
           \/ DeadlineHeld(r)
  BY <1>3, <1>4 DEF HallOccupiedConfirms, HallVacantHeld, IntrusionConfirms, DeadlineHeld
<1>5. CASE HallOvertaken(r) \/ HallVacantIdle(r) \/ HallVacantTooEarly(r)
           \/ HallVacantIgnored(r) \/ CameraCorrelates(r) \/ CameraRejected(r)
           \/ CameraExitTooEarly(r) \/ CameraIgnored(r) \/ ExitObserved(r)
           \/ ExitSchedules(r) \/ DeadlineStale(r)
  BY <1>5 DEF HallOvertaken, HallVacantIdle, HallVacantTooEarly, HallVacantIgnored,
              CameraCorrelates, CameraRejected, CameraExitTooEarly, CameraIgnored,
              ExitObserved, ExitSchedules, DeadlineStale, domain
<1> QED BY <1>2, <1>4, <1>5 DEF applySlotTransitionCommand

LEMMA EndsAreJustified ==
    ASSUME StoreInv, [StoreNext]_storeVars, NEW k \in DOMAIN sessions, EndOf(k)
    PROVE  JustifiedEnd(k)
<1>1. PICK r \in inbox : HallVacantEnds(r) \/ DeadlineEnds(r)
  BY EndsAreCloses
<1>2. /\ r.slot \in Slots /\ SlotInv(r.slot)
      /\ r.kind = "HALL_OBSERVATION" => Policy \in {"HALL", "HYBRID_OR"}
  BY DEF StoreInv, SessionInv, StoreTypeOK, InboxOK, RowOK, InboxRows, HallInputs
<1>3. PICK p \in find_active(r.slot) :
        /\ close_session(r, p)
        /\ \/ HallVacantEnds(r) /\ ~HeldByIva(p)
           \/ DeadlineEnds(r) /\ ~HeldByHall(p)
  BY <1>1 DEF HallVacantEnds, DeadlineEnds
<1>4. find_active(r.slot) = {p}
  BY <1>2, TheActiveSession DEF StoreInv
<1>5. k = p /\ sessions[k].slot = r.slot /\ sessions'[k].exitCmd[1] = r.kind
  BY <1>3, WhoseEnd
<1>6. CASE HallVacantEnds(r) /\ ~HeldByIva(p)
  <2>1. r.kind = "HALL_OBSERVATION"
    BY <1>6 DEF HallVacantEnds, AcceptedHallRow, HallRow
  <2>2. ~AreaActive(r.slot)
    BY <1>2, <1>4, <1>6, <2>1 DEF SlotInv, HeldByIva, CameraHolds
  <2> QED BY <1>5, <1>6, <2>1, <2>2 DEF JustifiedEnd, AreaActive, HeldByIva
<1>7. CASE DeadlineEnds(r) /\ ~HeldByHall(p)
  <2>1. r.kind = "EXIT_DEADLINE"
    BY <1>7 DEF DeadlineEnds, DeadlineRow
  <2>2. ~AreaActive(r.slot)
    BY <1>2, <1>7 DEF DeadlineEnds, OwnsObservation, SlotInv, AreaActive, AllQuiet
  <2> QED BY <1>5, <1>7, <2>1, <2>2 DEF JustifiedEnd, AreaActive, HeldByHall
<1> QED BY <1>3, <1>6, <1>7

\* Neither source can end a session that the other one still holds, and nothing
\* ends one while an area of its slot still sees the vehicle.
THEOREM NoPrematureEnd == StoreSpec => NoEndWhileHeld
<1>1. StoreInv /\ [StoreNext]_storeVars =>
        [\A k \in DOMAIN sessions : EndOf(k) => JustifiedEnd(k)]_storeVars
  BY EndsAreJustified
<1>2. StoreSpec => [][\A k \in DOMAIN sessions : EndOf(k) => JustifiedEnd(k)]_storeVars
  BY <1>1, StoreInvHolds, PTL DEF StoreSpec
<1> QED BY <1>2 DEF NoEndWhileHeld, EndOf, JustifiedEnd

-----------------------------------------------------------------------------
(***************************************************************************)
(* The outcome of a reduction: the session goes on as it is, one starts,   *)
(* or one ends.                                                            *)
(***************************************************************************)
SameSpans ==
    /\ DOMAIN sessions' = DOMAIN sessions
    /\ \A k \in DOMAIN sessions : /\ sessions'[k].slot = sessions[k].slot
                                  /\ sessions'[k].exit = sessions[k].exit
                                  /\ sessions'[k].entryCmd = sessions[k].entryCmd
                                  /\ sessions'[k].exitCmd = sessions[k].exitCmd

Continues(r) ==
    /\ SameSpans
    /\ \E result \in Results \ {"SESSION_STARTED", "SESSION_ENDED"} : \E session :
         Finish(r, result, session)
    /\ \/ UNCHANGED bindings
       \/ \E p \in find_active(r.slot) : AnyCameraRow(r) /\ commit_correlation(r, p)

Starts(r) ==
    /\ find_active(r.slot) = {} /\ create_session(r)
    /\ Finish(r, "SESSION_STARTED", NextSessionId)
    /\ \/ UNCHANGED bindings
       \/ AnyCameraRow(r) /\ commit_correlation(r, NextSessionId)

Ends(r) ==
    \E p \in find_active(r.slot) : close_session(r, p) /\ Finish(r, "SESSION_ENDED", p)

LEMMA FlagsKeepSpans ==
    ASSUME StoreTypeOK, NEW s, NEW p \in find_active(s), NEW row \in SessionRows,
           row.slot = sessions[p].slot, row.exit = sessions[p].exit,
           row.entryCmd = sessions[p].entryCmd, row.exitCmd = sessions[p].exitCmd,
           sessions' = [sessions EXCEPT ![p] = row]
    PROVE  SameSpans
<1>1. p \in 1..Len(sessions)
  BY ActiveInDomain DEF StoreTypeOK
<1>2. /\ DOMAIN sessions' = DOMAIN sessions
      /\ \A k \in DOMAIN sessions \ {p} : sessions'[k] = sessions[k]
      /\ sessions'[p] = row
  BY <1>1 DEF StoreTypeOK
<1> QED BY <1>2 DEF SameSpans

LEMMA FlagUpdates ==
    ASSUME StoreTypeOK, NEW s, NEW p \in find_active(s), NEW occupied \in BOOLEAN,
           \/ update_hall_state(p, occupied) \/ update_iva_state(p)
           \/ sessions' = [sessions EXCEPT ![p].ivaOccupied = FALSE]
    PROVE  SameSpans
<1>1. p \in 1..Len(sessions) /\ sessions[p] \in SessionRows
  BY ActiveInDomain DEF StoreTypeOK
<1>2. CASE update_hall_state(p, occupied)
  <2> DEFINE row == [sessions[p] EXCEPT !.hallConfirmed = @ \/ occupied,
                                        !.hallOccupied = occupied]
  <2>1. /\ row \in SessionRows /\ row.slot = sessions[p].slot /\ row.exit = sessions[p].exit
        /\ row.entryCmd = sessions[p].entryCmd /\ row.exitCmd = sessions[p].exitCmd
        /\ sessions' = [sessions EXCEPT ![p] = row]
    BY <1>1, <1>2 DEF update_hall_state, SessionRows
  <2> HIDE DEF row
  <2> QED BY <2>1, FlagsKeepSpans
<1>3. CASE update_iva_state(p)
  <2> DEFINE row == [sessions[p] EXCEPT !.ivaConfirmed = TRUE, !.ivaOccupied = TRUE]
  <2>1. /\ row \in SessionRows /\ row.slot = sessions[p].slot /\ row.exit = sessions[p].exit
        /\ row.entryCmd = sessions[p].entryCmd /\ row.exitCmd = sessions[p].exitCmd
        /\ sessions' = [sessions EXCEPT ![p] = row]
    BY <1>1, <1>3 DEF update_iva_state, SessionRows
  <2> HIDE DEF row
  <2> QED BY <2>1, FlagsKeepSpans
<1>4. CASE sessions' = [sessions EXCEPT ![p].ivaOccupied = FALSE]
  <2> DEFINE row == [sessions[p] EXCEPT !.ivaOccupied = FALSE]
  <2>1. /\ row \in SessionRows /\ row.slot = sessions[p].slot /\ row.exit = sessions[p].exit
        /\ row.entryCmd = sessions[p].entryCmd /\ row.exitCmd = sessions[p].exitCmd
        /\ sessions' = [sessions EXCEPT ![p] = row]
    BY <1>1, <1>4 DEF SessionRows
  <2> HIDE DEF row
  <2> QED BY <2>1, FlagsKeepSpans
<1> QED BY <1>2, <1>3, <1>4

LEMMA ReductionOutcome ==
    ASSUME StoreTypeOK, NEW r \in inbox, applySlotTransitionCommand(r)
    PROVE  /\ Runnable(r) /\ UNCHANGED now
           /\ Continues(r) \/ Starts(r) \/ Ends(r)
<1> USE DEF HallRow, AcceptedHallRow, AnyCameraRow, CameraRow, ExitRow, DeadlineRow
<1>1. /\ {"NO_CHANGE", "EXIT_SCHEDULED", "STALE_GENERATION", "REJECTED_INVALID_TIMESTAMP"}
             \subseteq Results \ {"SESSION_STARTED", "SESSION_ENDED"}
      /\ UNCHANGED sessions => SameSpans
  BY DEF Results, SameSpans
<1>2. CASE HallOvertaken(r) \/ HallVacantIdle(r) \/ HallVacantTooEarly(r)
           \/ HallVacantIgnored(r)
  BY <1>1, <1>2 DEF HallOvertaken, HallVacantIdle, HallVacantTooEarly, HallVacantIgnored,
                    Continues, domain
<1>3. CASE HallOccupiedConfirms(r) \/ HallVacantHeld(r)
  <2>1. PICK p \in find_active(r.slot), occupied \in BOOLEAN : update_hall_state(p, occupied)
    BY <1>3 DEF HallOccupiedConfirms, HallVacantHeld
  <2>2. SameSpans
    BY <2>1, FlagUpdates
  <2> QED BY <1>1, <1>3, <2>2 DEF HallOccupiedConfirms, HallVacantHeld, Continues
<1>4. CASE CameraCorrelates(r) \/ CameraRejected(r) \/ CameraExitTooEarly(r)
           \/ CameraIgnored(r)
  BY <1>1, <1>4 DEF CameraCorrelates, CameraRejected, CameraExitTooEarly, CameraIgnored,
                    Continues, domain
<1>5. CASE ExitObserved(r) \/ ExitSchedules(r) \/ DeadlineStale(r)
  BY <1>1, <1>5 DEF ExitObserved, ExitSchedules, DeadlineStale, Continues
<1>6. CASE IntrusionConfirms(r)
  <2>1. PICK p \in find_active(r.slot) :
             update_iva_state(p) /\ commit_correlation(r, p) /\ Finish(r, "NO_CHANGE", p)
    BY <1>6 DEF IntrusionConfirms, IntrusionObserved
  <2>2. SameSpans
    BY <2>1, FlagUpdates
  <2> QED BY <1>1, <1>6, <2>1, <2>2 DEF IntrusionConfirms, Continues
<1>7. CASE DeadlineHeld(r)
  <2>1. PICK p \in find_active(r.slot) :
             /\ sessions' = [sessions EXCEPT ![p].ivaOccupied = FALSE]
             /\ Finish(r, "NO_CHANGE", p)
    BY <1>7 DEF DeadlineHeld
  <2>2. SameSpans
    BY <2>1, FlagUpdates
  <2> QED BY <1>1, <1>7, <2>1, <2>2 DEF DeadlineHeld, Continues
<1>8. CASE HallOccupiedStarts(r) \/ IntrusionStarts(r)
  BY <1>8 DEF HallOccupiedStarts, IntrusionStarts, IntrusionObserved, Starts
<1>9. CASE HallVacantEnds(r) \/ DeadlineEnds(r)
  BY <1>9 DEF HallVacantEnds, DeadlineEnds, Ends
<1> QED BY <1>2, <1>3, <1>4, <1>5, <1>6, <1>7, <1>8, <1>9 DEF applySlotTransitionCommand

-----------------------------------------------------------------------------
(***************************************************************************)
(* The order of the inbox                                                  *)
(***************************************************************************)
Owes(r) == r.status = "APPLIED" /\ r.effect = "PENDING"

\* No two rows share their place in the order, and what a slot still owes of
\* committed effects precedes all that is still to be reduced in it.
InboxOrder ==
    /\ \A p, q \in inbox : p.ordinal = q.ordinal => p = q
    /\ \A p \in inbox, q \in Pending :
         Owes(p) /\ p.slot = q.slot => p.ordinal < q.ordinal
    /\ \A q \in Pending : q.effect = "NONE"

Rewrites(r, q) ==
    /\ inbox' = Replace(inbox, r, q)
    /\ SameCommand(q, r)
    /\ q.status = "PENDING_UNPREPARED" =>
         r.status = "PENDING_UNPREPARED" /\ q.effect = r.effect
    /\ Owes(q) => Owes(r) \/ IsPendingHead(r)

LEMMA FinishRewrites ==
    ASSUME StoreTypeOK, NEW r \in inbox, NEW result, NEW session,
           Runnable(r), Finish(r, result, session)
    PROVE  \E q : /\ Rewrites(r, q) /\ q.status # "PENDING_UNPREPARED"
                  /\ q.result = result /\ q.session = session
                  /\ Owes(q) <=> result \in {"SESSION_STARTED", "SESSION_ENDED"}
<1> DEFINE q == [r EXCEPT !.status = IF result = "REJECTED_INVALID_TIMESTAMP"
                             THEN "REJECTED_INVALID" ELSE "APPLIED",
                  !.result = result, !.session = session,
                  !.effect = EffectOwed(result)]
<1>1. r \in InboxRows
  BY DEF StoreTypeOK, InboxOK, RowOK
<1>2. inbox' = Replace(inbox, r, q)
  BY DEF Finish
<1>3. SameCommand(q, r)
  BY <1>1 DEF SameCommand, InboxRows
<1>4. q.status \in {"APPLIED", "REJECTED_INVALID"} /\ IsPendingHead(r)
  BY <1>1 DEF InboxRows, Runnable
<1>5. q.result = result /\ q.session = session
  BY <1>1 DEF InboxRows
<1>6. Owes(q) <=> result \in {"SESSION_STARTED", "SESSION_ENDED"}
  BY <1>1 DEF Owes, InboxRows, EffectOwed
<1> HIDE DEF q
<1> QED BY <1>2, <1>3, <1>4, <1>5, <1>6 DEF Rewrites

LEMMA BookkeepingRewrites ==
    ASSUME StoreTypeOK, NEW r \in inbox,
           \/ deferSlotTransitionCommand(r)
           \/ completeSlotTransitionEffects(r) \/ deferSlotTransitionEffects(r)
    PROVE  \E q : Rewrites(r, q) /\ q.status = r.status
<1>1. r \in InboxRows
  BY DEF StoreTypeOK, InboxOK, RowOK
<1>3. CASE deferSlotTransitionCommand(r)
  <2> DEFINE later == now + RetryDelay
             q == [r EXCEPT !.next = later]
  <2>1. inbox' = Replace(inbox, r, q) /\ r.status = "PENDING_UNPREPARED"
    BY <1>3 DEF deferSlotTransitionCommand, Pending, PendingIn
  <2> HIDE DEF later
  <2>2. SameCommand(q, r) /\ q.status = r.status /\ q.effect = r.effect
    BY <1>1 DEF SameCommand, InboxRows
  <2> HIDE DEF q
  <2> QED BY <2>1, <2>2 DEF Rewrites, Owes
<1>4. CASE completeSlotTransitionEffects(r)
  <2> DEFINE q == [r EXCEPT !.effect = "APPLIED", !.effectNext = 0]
  <2>1. inbox' = Replace(inbox, r, q) /\ OwesEffect(r)
    BY <1>4 DEF completeSlotTransitionEffects
  <2>2. SameCommand(q, r) /\ q.status = r.status
    BY <1>1 DEF SameCommand, InboxRows
  <2> HIDE DEF q
  <2> QED BY <2>1, <2>2 DEF Rewrites, Owes, OwesEffect
<1>5. CASE deferSlotTransitionEffects(r)
  <2> DEFINE later == now + RetryDelay
             q == [r EXCEPT !.effectNext = later]
  <2>1. inbox' = Replace(inbox, r, q) /\ OwesEffect(r)
    BY <1>5 DEF deferSlotTransitionEffects
  <2> HIDE DEF later
  <2>2. SameCommand(q, r) /\ q.status = r.status
    BY <1>1 DEF SameCommand, InboxRows
  <2> HIDE DEF q
  <2> QED BY <2>1, <2>2 DEF Rewrites, Owes, OwesEffect
<1> QED BY <1>3, <1>4, <1>5

LEMMA ReductionRewrites ==
    ASSUME StoreTypeOK, NEW r \in inbox, applySlotTransitionCommand(r)
    PROVE  \E q : Rewrites(r, q) /\ q.status # "PENDING_UNPREPARED"
  BY ReductionOutcome, FinishRewrites DEF Continues, Starts, Ends

\* A slot has at most one Hall candidate that waits for its confirmation.
OneHallCandidate ==
    \A s \in Slots : \A p, q \in HallCandidates(s) : p = q

\* The invariant of the inbox as a whole.
InboxInv == InboxOrder /\ OneHallCandidate /\ ContradictedIsCanceled

\* The invariant speaks of what a row was admitted with, of which rows are
\* pending and of which owe an effect: it outlives every step that adds none.
LEMMA InboxShrinks ==
    ASSUME StoreTypeOK, InboxInv, NEW origin,
           \A q \in inbox' : /\ origin[q] \in inbox /\ SameCommand(q, origin[q])
                             /\ q.status = "PENDING_UNPREPARED" =>
                                  origin[q] \in Pending /\ q.effect = origin[q].effect
                             /\ Owes(q) => Owes(origin[q]) \/ IsPendingHead(origin[q]),
           \A p, q \in inbox' : origin[p] = origin[q] => p = q,
           \A p, q \in inbox' : Owes(p) /\ ~Owes(origin[p]) /\ q.status = "PENDING_UNPREPARED"
                                  => p # q
    PROVE  InboxInv'
<1>1. \A q \in Pending' : q \in inbox' /\ q.status = "PENDING_UNPREPARED"
  BY DEF Pending, PendingIn
<1>2. \A q \in inbox' : origin[q].ordinal \in Nat
  BY DEF StoreTypeOK, InboxOK, RowOK, InboxRows
<1>3. \A p, q \in inbox' : p.ordinal = q.ordinal => p = q
  BY DEF InboxInv, InboxOrder, SameCommand
<1>4. ASSUME NEW p \in inbox', NEW q \in Pending', Owes(p), p.slot = q.slot
      PROVE  p.ordinal < q.ordinal
  <2>1. CASE Owes(origin[p])
    BY <1>1, <1>4, <2>1 DEF InboxInv, InboxOrder, SameCommand
  <2>2. CASE ~Owes(origin[p])
    <3>1. IsPendingHead(origin[p]) /\ origin[q] \in Pending /\ p # q
      BY <1>1, <1>4, <2>2
    <3>2. p.ordinal <= q.ordinal
      BY <1>1, <1>4, <3>1 DEF IsPendingHead, SameCommand
    <3>3. p.ordinal # q.ordinal
      BY <1>1, <1>3, <3>1
    <3> QED BY <1>1, <1>2, <3>2, <3>3 DEF SameCommand
  <2> QED BY <2>1, <2>2
<1>5. InboxOrder'
  <2>1. \A q \in Pending' : q.effect = "NONE"
    BY <1>1 DEF InboxInv, InboxOrder
  <2> QED BY <1>3, <1>4, <2>1 DEF InboxOrder, Owes
<1>6. \A s : \A q \in HallCandidates(s)' : origin[q] \in HallCandidates(s)
  BY <1>1 DEF HallCandidates, SameCommand
<1>7. \A s : HallCandidates(s)' \subseteq inbox'
  BY DEF HallCandidates, Pending, PendingIn
<1>8. OneHallCandidate'
  BY <1>6, <1>7 DEF InboxInv, OneHallCandidate
<1>9. ContradictedIsCanceled'
  BY <1>1, <1>6, <1>7 DEF InboxInv, ContradictedIsCanceled, SameCommand
<1> QED BY <1>5, <1>8, <1>9 DEF InboxInv

LEMMA RewritesKeepInboxInv ==
    ASSUME StoreTypeOK, InboxInv, NEW r \in inbox, NEW q, Rewrites(r, q)
    PROVE  InboxInv'
<1> DEFINE origin == [p \in inbox' |-> IF p = q THEN r ELSE p]
<1>1. inbox' = (inbox \ {r}) \cup {q}
  BY DEF Rewrites, Replace
<1>2. \A p \in inbox' : /\ origin[p] \in inbox /\ SameCommand(p, origin[p])
                        /\ p.status = "PENDING_UNPREPARED" =>
                             origin[p] \in Pending /\ p.effect = origin[p].effect
                        /\ Owes(p) => Owes(origin[p]) \/ IsPendingHead(origin[p])
  BY <1>1 DEF Rewrites, SameCommand, Pending, PendingIn
<1>3. \A p, t \in inbox' : origin[p] = origin[t] => p = t
  BY <1>1
<1>4. \A p, t \in inbox' : Owes(p) /\ ~Owes(origin[p]) /\ t.status = "PENDING_UNPREPARED" => p # t
  BY DEF Owes
<1> HIDE DEF origin
<1> QED BY <1>2, <1>3, <1>4, InboxShrinks

LEMMA InboxRestKept ==
    ASSUME StoreTypeOK, InboxInv, inbox' \subseteq inbox
    PROVE  InboxInv'
<1> DEFINE origin == [p \in inbox' |-> p]
<1>1. \A p \in inbox' : /\ origin[p] \in inbox /\ SameCommand(p, origin[p])
                        /\ p.status = "PENDING_UNPREPARED" =>
                             origin[p] \in Pending /\ p.effect = origin[p].effect
                        /\ Owes(p) => Owes(origin[p]) \/ IsPendingHead(origin[p])
  BY DEF SameCommand, Pending, PendingIn
<1>2. \A p, t \in inbox' : origin[p] = origin[t] => p = t
  OBVIOUS
<1>3. \A p, t \in inbox' : Owes(p) /\ ~Owes(origin[p]) /\ t.status = "PENDING_UNPREPARED" => p # t
  OBVIOUS
<1> HIDE DEF origin
<1> QED BY <1>1, <1>2, <1>3, InboxShrinks

LEMMA NewOrdinal ==
    ASSUME NEW n \in NextOrdinal
    PROVE  \A r \in inbox : r.ordinal < n
  BY DEF NextOrdinal

\* What an admitted command may rely on.
LEMMA AdmittedIsNew ==
    ASSUME NEW c, Admission(c) = "Admitted"
    PROVE  /\ \A r \in inbox : CommandKey(r) # CommandKey(c)
           /\ c.kind = "HALL_OBSERVATION" =>
                /\ Accepts(cursor[c.slot], c.fact)
                /\ c.fact.state = "OCCUPIED" => HallCandidate(c.slot) = {}
<1> DEFINE same == {r \in inbox : CommandKey(r) = CommandKey(c)}
<1>1. same = {}
  BY DEF Admission
<1>2. ~(c.kind = "HALL_OBSERVATION" /\ ~Accepts(cursor[c.slot], c.fact))
  BY DEF Admission
<1>3. ~(c.kind = "HALL_OBSERVATION" /\ c.fact.state = "OCCUPIED" /\ HallCandidate(c.slot) # {})
  BY <1>2 DEF Admission
<1> QED BY <1>1, <1>2, <1>3

\* The one candidate of a slot is the one that is merged with or canceled.
LEMMA TheCandidate ==
    ASSUME InboxInv, StoreTypeOK, NEW s \in Slots
    PROVE  HallCandidate(s) = HallCandidates(s)
<1>1. \A q \in HallCandidates(s) : q.ordinal \in Nat
  BY DEF HallCandidates, Pending, PendingIn, StoreTypeOK, InboxOK, RowOK, InboxRows
<1>2. \A p, q \in HallCandidates(s) : p = q
  BY DEF InboxInv, OneHallCandidate
<1>3. \A p, q \in HallCandidates(s) : p.ordinal <= q.ordinal
  <2> SUFFICES ASSUME NEW p \in HallCandidates(s), NEW q \in HallCandidates(s)
               PROVE  p.ordinal <= q.ordinal
    OBVIOUS
  <2>1. p = q
    BY <1>2
  <2> QED BY <1>1, <2>1
<1> QED BY <1>3 DEF HallCandidate

LEMMA CanceledRow ==
    ASSUME StoreTypeOK, NEW r \in inbox
    PROVE  LET q == [r EXCEPT !.status = "APPLIED", !.result = "NO_CHANGE"]
           IN  SameCommand(q, r) /\ q.status = "APPLIED" /\ q.effect = r.effect
<1>1. r \in InboxRows
  BY DEF StoreTypeOK, InboxOK, RowOK
<1> QED BY <1>1 DEF SameCommand, InboxRows

\* A row after an admission is the new one, a canceled candidate, or as it was.
LEMMA AdmittedInbox ==
    ASSUME StoreTypeOK, InboxInv, NEW c, NEW n \in NextOrdinal,
           inbox' = AfterCancellation(c) \cup {InboxRow(c, n)}
    PROVE  \A q \in inbox' :
              \/ q = InboxRow(c, n)
              \/ q \in inbox \ CanceledBy(c)
              \/ \E r \in CanceledBy(c) : /\ SameCommand(q, r) /\ r \in inbox
                                          /\ q.status = "APPLIED" /\ ~Owes(q)
<1> SUFFICES ASSUME NEW q \in inbox', q # InboxRow(c, n), q \notin inbox \ CanceledBy(c)
             PROVE  \E r \in CanceledBy(c) : /\ SameCommand(q, r) /\ r \in inbox
                                             /\ q.status = "APPLIED" /\ ~Owes(q)
  OBVIOUS
<1>1. PICK r \in CanceledBy(c) : q = [r EXCEPT !.status = "APPLIED", !.result = "NO_CHANGE"]
  BY DEF AfterCancellation
<1>2. r \in Pending
  BY DEF CanceledBy, HallCandidate, HallCandidates
<1>3. r \in inbox /\ r.effect = "NONE"
  BY <1>2 DEF Pending, PendingIn, InboxInv, InboxOrder
<1>4. SameCommand(q, r) /\ q.status = "APPLIED" /\ q.effect = r.effect
  BY <1>1, <1>3, CanceledRow
<1> QED BY <1>3, <1>4 DEF Owes

LEMMA NewRow ==
    ASSUME NEW c, NEW n
    PROVE  LET q == InboxRow(c, n)
           IN  /\ q.kind = c.kind /\ q.slot = c.slot /\ q.fact = c.fact /\ q.ident = c.ident
               /\ q.occurred = c.occurred /\ q.due = c.due /\ q.ordinal = n
               /\ q.status = "PENDING_UNPREPARED" /\ q.effect = "NONE" /\ ~Owes(q)
  BY DEF InboxRow, Owes

LEMMA AdmissionInbox ==
    ASSUME StoreTypeOK, InboxInv, NEW t \in Nat, NEW c \in CommandsReceivedAt(t),
           admitSlotTransitionCommand(c)
    PROVE  InboxInv'
<1>1. PICK n \in NextOrdinal : inbox' = AfterCancellation(c) \cup {InboxRow(c, n)}
  BY DEF admitSlotTransitionCommand
<1> DEFINE new == InboxRow(c, n)
<1>2. /\ new.kind = c.kind /\ new.slot = c.slot /\ new.fact = c.fact
      /\ new.occurred = c.occurred /\ new.due = c.due /\ new.ordinal = n
      /\ new.status = "PENDING_UNPREPARED" /\ new.effect = "NONE" /\ ~Owes(new)
  BY NewRow
<1>3. /\ new \in inbox'
      /\ \A q \in inbox' : \/ q = new \/ q \in inbox \ CanceledBy(c)
                           \/ \E r \in CanceledBy(c) : /\ SameCommand(q, r) /\ r \in inbox
                                                       /\ q.status = "APPLIED" /\ ~Owes(q)
  BY <1>1, AdmittedInbox
<1> HIDE DEF new
<1>4. /\ \A r \in inbox : r.ordinal < n /\ r.ordinal \in Nat /\ r.due \in Nat
      /\ n \in Nat /\ c.slot \in Slots /\ c.occurred \in Nat
  BY NewOrdinal, NextOrdinalType, ReceivedCommandOK
     DEF StoreTypeOK, InboxOK, RowOK, InboxRows, CommandOK
<1>5. \A q \in Pending' : q = new \/ q \in Pending \ CanceledBy(c)
  BY <1>3 DEF Pending, PendingIn
<1>6. \A q \in inbox' : q = new \/ (q.ordinal < n /\ q.ordinal \in Nat)
  BY <1>3, <1>4 DEF SameCommand
<1>7. \A p, q \in inbox' : p.ordinal = q.ordinal => p = q
  <2> SUFFICES ASSUME NEW p \in inbox', NEW q \in inbox', p.ordinal = q.ordinal, p # q
               PROVE  FALSE
    OBVIOUS
  <2>1. p # new /\ q # new
    BY <1>2, <1>4, <1>6
  <2>2. \A x, y \in CanceledBy(c) : x = y
    BY <1>4 DEF CanceledBy, HallCandidate, InboxInv, OneHallCandidate
  <2>3. CASE p \in inbox \ CanceledBy(c) /\ q \in inbox \ CanceledBy(c)
    BY <2>3 DEF InboxInv, InboxOrder
  <2>4. CASE p \notin inbox \ CanceledBy(c) /\ q \notin inbox \ CanceledBy(c)
    BY <1>1, <2>1, <2>2, <2>4 DEF AfterCancellation, new
  <2>5. ASSUME NEW x \in inbox \ CanceledBy(c), NEW y \in inbox', y \notin inbox \ CanceledBy(c),
               y # new, x.ordinal = y.ordinal
        PROVE  FALSE
    <3>1. PICK r \in CanceledBy(c) : SameCommand(y, r) /\ r \in inbox
      BY <1>3, <2>5
    <3>2. x = r
      BY <2>5, <3>1 DEF InboxInv, InboxOrder, SameCommand
    <3> QED BY <2>5, <3>2
  <2> QED BY <2>1, <2>3, <2>4, <2>5
<1>8. \A p \in inbox' : Owes(p) => p \in inbox
  BY <1>2, <1>3
<1>9. InboxOrder'
  <2>1. \A q \in Pending' : q.effect = "NONE"
    BY <1>2, <1>5 DEF InboxInv, InboxOrder
  <2>2. ASSUME NEW p \in inbox', NEW q \in Pending', Owes(p), p.slot = q.slot
        PROVE  p.ordinal < q.ordinal
    BY <1>2, <1>4, <1>5, <1>8, <2>2 DEF InboxInv, InboxOrder
  <2> QED BY <1>7, <2>1, <2>2 DEF InboxOrder, Owes
<1>10. c.kind = "HALL_OBSERVATION" /\ c.fact.state = "OCCUPIED" => HallCandidates(c.slot) = {}
  BY <1>4, AdmittedIsNew, TheCandidate DEF admitSlotTransitionCommand
<1>11. \A s \in Slots : \A r \in HallCandidates(s)' :
          \/ r \in HallCandidates(s) \ CanceledBy(c)
          \/ r = new /\ c.slot = s /\ HallCandidates(s) = {}
  BY <1>2, <1>5, <1>10 DEF HallCandidates
<1>12. OneHallCandidate'
  BY <1>11 DEF InboxInv, OneHallCandidate
<1>13. ContradictedIsCanceled'
  <2> SUFFICES ASSUME NEW s \in Slots, NEW r \in HallCandidates(s)', NEW q \in Pending',
                      q.slot = s, q.kind = "HALL_OBSERVATION", q.fact.state = "VACANT",
                      q.ordinal > r.ordinal
               PROVE  q.occurred >= r.due
    BY DEF ContradictedIsCanceled
  <2>1. r \in HallCandidates(s) \ CanceledBy(c)
    <3>1. q.ordinal <= n
      BY <1>2, <1>4, <1>5 DEF Pending, PendingIn
    <3>2. r # new
      BY <1>2, <1>4, <1>5, <3>1 DEF Pending, PendingIn
    <3> QED BY <1>11, <3>2
  <2>2. CASE q = new
    <3>1. r \in HallCandidate(c.slot) /\ c.kind = "HALL_OBSERVATION" /\ c.fact.state = "VACANT"
      BY <1>2, <1>4, <2>1, <2>2, TheCandidate
    <3>2. ~(c.occurred < r.due) /\ r \in inbox
      BY <2>1, <3>1 DEF CanceledBy, HallCandidates, Pending, PendingIn
    <3> QED BY <1>2, <1>4, <2>2, <3>2
  <2>3. CASE q \in Pending
    BY <2>1, <2>3 DEF InboxInv, ContradictedIsCanceled
  <2> QED BY <1>5, <2>2, <2>3
<1> QED BY <1>9, <1>12, <1>13 DEF InboxInv

LEMMA DeadlineAdmissionInbox ==
    ASSUME StoreTypeOK, InboxInv, NEW blocked, admitDueSlotDeadlines(blocked)
    PROVE  InboxInv'
<1>1. PICK batch \in SUBSET DueDeadlines(blocked) :
        \E pos \in [batch -> 0..PendingCapacity], n \in NextOrdinal :
          /\ \A d, e \in batch : d # e => pos[d] # pos[e]
          /\ inbox' = inbox \cup {InboxRow(deadlineCommand(d), n + pos[d]) : d \in batch}
  BY DEF admitDueSlotDeadlines
<1>0. PICK pos \in [batch -> 0..PendingCapacity], n \in NextOrdinal :
        /\ \A d, e \in batch : d # e => pos[d] # pos[e]
        /\ inbox' = inbox \cup {InboxRow(deadlineCommand(d), n + pos[d]) : d \in batch}
  BY <1>1
<1> DEFINE new(d) == InboxRow(deadlineCommand(d), n + pos[d])
<1>2. \A d \in batch : /\ new(d).kind = "EXIT_DEADLINE" /\ new(d).ordinal = n + pos[d]
                       /\ new(d).effect = "NONE" /\ ~Owes(new(d))
  BY NewRow DEF deadlineCommand
<1>3. \A q \in inbox' : q \in inbox \/ \E d \in batch : q = new(d)
  BY <1>0
<1> HIDE DEF new
<1>4. /\ \A r \in inbox : r.ordinal < n /\ r.ordinal \in Nat
      /\ n \in Nat /\ \A d \in batch : pos[d] \in Nat
  BY NewOrdinal, NextOrdinalType, TimingAssumption
     DEF StoreTypeOK, InboxOK, RowOK, InboxRows
<1>5. \A p, q \in inbox' : p.ordinal = q.ordinal => p = q
  <2> SUFFICES ASSUME NEW p \in inbox', NEW q \in inbox', p.ordinal = q.ordinal PROVE p = q
    OBVIOUS
  <2>1. CASE p \in inbox /\ q \in inbox
    BY <2>1 DEF InboxInv, InboxOrder
  <2>2. CASE (p \in inbox /\ q \notin inbox) \/ (p \notin inbox /\ q \in inbox)
    BY <1>2, <1>3, <1>4, <2>2
  <2>3. CASE p \notin inbox /\ q \notin inbox
    <3>1. PICK d \in batch, e \in batch : p = new(d) /\ q = new(e)
      BY <1>3, <2>3
    <3>2. pos[d] = pos[e]
      BY <1>2, <1>4, <3>1
    <3> QED BY <1>0, <3>1, <3>2
  <2> QED BY <2>1, <2>2, <2>3
<1>6. \A q \in Pending' : q \in Pending \/ \E d \in batch : q = new(d)
  BY <1>3 DEF Pending, PendingIn
<1>7. InboxOrder'
  <2>1. \A q \in Pending' : q.effect = "NONE"
    BY <1>2, <1>6 DEF InboxInv, InboxOrder
  <2>2. ASSUME NEW p \in inbox', NEW q \in Pending', Owes(p), p.slot = q.slot
        PROVE  p.ordinal < q.ordinal
    <3>1. p \in inbox
      BY <1>2, <1>3, <2>2
    <3> QED BY <1>2, <1>4, <1>6, <2>2, <3>1 DEF InboxInv, InboxOrder
  <2> QED BY <1>5, <2>1, <2>2 DEF InboxOrder, Owes
<1>8. \A q \in Pending' : q.kind = "HALL_OBSERVATION" => q \in Pending
  BY <1>2, <1>6
<1>9. OneHallCandidate' /\ ContradictedIsCanceled'
  BY <1>8 DEF InboxInv, OneHallCandidate, ContradictedIsCanceled, HallCandidates
<1> QED BY <1>7, <1>9 DEF InboxInv

LEMMA InboxInvInit == StoreInit => InboxInv
  BY DEF StoreInit, InboxInv, InboxOrder, OneHallCandidate, ContradictedIsCanceled,
         HallCandidates, Pending, PendingIn

LEMMA InboxInvStep ==
    ASSUME StoreTypeOK, InboxInv, [StoreNext]_storeVars
    PROVE  InboxInv'
<1>1. CASE inbox' \subseteq inbox
  BY <1>1, InboxRestKept
<1>2. ASSUME NEW t \in 0..now, NEW c \in CommandsReceivedAt(t), admitSlotTransitionCommand(c)
      PROVE  InboxInv'
  BY <1>2, AdmissionInbox DEF StoreTypeOK
<1>3. ASSUME NEW blocked, admitDueSlotDeadlines(blocked) PROVE InboxInv'
  BY <1>3, DeadlineAdmissionInbox
<1>4. ASSUME NEW r \in inbox,
             \/ applySlotTransitionCommand(r) \/ deferSlotTransitionCommand(r)
             \/ completeSlotTransitionEffects(r) \/ deferSlotTransitionEffects(r)
      PROVE  InboxInv'
  BY <1>4, BookkeepingRewrites, ReductionRewrites, RewritesKeepInboxInv
<1>5. UNCHANGED storeVars \/ Tick \/ purgeSettledSlotTransitionCommands => inbox' \subseteq inbox
  BY DEF storeVars, Tick, purgeSettledSlotTransitionCommands
<1> QED BY <1>1, <1>2, <1>3, <1>4, <1>5 DEF StoreNext, ReduceRow

LEMMA InboxInvHolds == StoreSpec => []InboxInv
<1>1. StoreTypeOK /\ InboxInv /\ [StoreNext]_storeVars => InboxInv'
  BY InboxInvStep
<1> QED BY <1>1, InboxInvInit, StoreTypeSafety, PTL DEF StoreSpec

\* No OCCUPIED report contradicted within its confirmation time is left behind.
THEOREM ContradictionCancels == StoreSpec => []ContradictedIsCanceled
  BY InboxInvHolds, PTL DEF InboxInv

-----------------------------------------------------------------------------
(***************************************************************************)
(* Exit deadlines and their rows                                           *)
(***************************************************************************)
DeadlineKey(d) == <<d.slot, d.gen, d.session>>

ExitRows == {r \in Pending : r.kind = "EXIT_DEADLINE"}

Waited == {r.ident : r \in ExitRows}

\* A row names its deadline, and no other row does.
RowsInv ==
    /\ \A r \in ExitRows : r.ident = DeadlineKey(r.fact) /\ r.slot = r.fact.slot
    /\ \A p, q \in ExitRows : p.ident = q.ident => p = q

\* DeadlineHasOneOwner, with what makes it inductive: the key names a deadline,
\* a deadline is never forgotten, and one row at most waits for it.
DeadlineInv ==
    /\ RowsInv
    /\ \A s \in Slots : \A d, e \in LiveDeadlines(s) : d = e
    /\ \A d, e \in deadlines : DeadlineKey(d) = DeadlineKey(e) => d = e
    /\ \A d \in deadlines : d.state = "ADMITTED" <=> DeadlineKey(d) \in Waited
    /\ Waited \subseteq {DeadlineKey(d) : d \in deadlines}

LEMMA DeadlineInvInit == StoreInit => DeadlineInv
  BY DEF StoreInit, DeadlineInv, LiveDeadlines, ExitRows, Pending, PendingIn, RowsInv, Waited

LEMMA DeadlineInvOwner == DeadlineInv => DeadlineHasOneOwner
<1> SUFFICES ASSUME DeadlineInv, NEW d \in deadlines
             PROVE  DeadlineKey(d) \in Waited <=>
                       \E r \in Pending : /\ r.kind = "EXIT_DEADLINE"
                                          /\ r.ident = <<d.slot, d.gen, d.session>>
  BY DEF DeadlineInv, DeadlineHasOneOwner
<1> QED BY DEF Waited, ExitRows, DeadlineKey

\* A reduced row is no longer waiting; any other rewritten row still is.
LEMMA RewrittenExitRow ==
    ASSUME RowsInv, NEW r \in inbox, NEW q, Rewrites(r, q)
    PROVE  /\ RowsInv'
           /\ q.status # "PENDING_UNPREPARED" /\ r \in ExitRows => Waited' = Waited \ {r.ident}
           /\ q.status = r.status \/ r \notin ExitRows => Waited' = Waited
<1>1. inbox' = (inbox \ {r}) \cup {q} /\ SameCommand(q, r)
  BY DEF Rewrites, Replace
<1>2. q \in ExitRows' => r \in ExitRows
  BY <1>1 DEF ExitRows, Pending, PendingIn, Rewrites, SameCommand
<1>3. /\ \A p \in ExitRows \ {r} : p \in ExitRows'
      /\ \A p \in ExitRows' : p = q \/ p \in ExitRows \ {r}
  BY <1>1 DEF ExitRows, Pending, PendingIn
<1>4. RowsInv'
  BY <1>1, <1>2, <1>3 DEF RowsInv, SameCommand
<1>5. ASSUME q.status # "PENDING_UNPREPARED", r \in ExitRows
      PROVE  Waited' = Waited \ {r.ident}
  <2>1. ExitRows' = ExitRows \ {r}
    BY <1>1, <1>3, <1>5 DEF ExitRows, Pending, PendingIn
  <2> QED BY <1>5, <2>1 DEF Waited, RowsInv
<1>6. ASSUME r \notin ExitRows PROVE Waited' = Waited
  <2>1. ExitRows' = ExitRows
    BY <1>2, <1>3, <1>6
  <2> QED BY <2>1 DEF Waited
<1>7. ASSUME r \in ExitRows, q.status = r.status PROVE Waited' = Waited
  <2>1. q \in ExitRows' /\ q.ident = r.ident
    BY <1>1, <1>7 DEF ExitRows, Pending, PendingIn, SameCommand
  <2> QED BY <1>3, <1>7, <2>1 DEF Waited
<1> QED BY <1>4, <1>5, <1>6, <1>7

LEMMA SameExitRows ==
    ASSUME RowsInv, ExitRows' = ExitRows PROVE RowsInv' /\ Waited' = Waited
  BY DEF RowsInv, Waited

LEMMA DeadlinesAlone ==
    ASSUME DeadlineInv, RowsInv', Waited' = Waited, UNCHANGED deadlines
    PROVE  DeadlineInv'
  BY DEF DeadlineInv, LiveDeadlines

\* What MarkDeadlines makes of each deadline.
Marked(ds, state, d) == IF d \in ds THEN [d EXCEPT !.state = state] ELSE d

LEMMA MarkedDeadline ==
    ASSUME StoreTypeOK, NEW ds, NEW state, NEW d \in deadlines
    PROVE  LET m == Marked(ds, state, d)
           IN  /\ DeadlineKey(m) = DeadlineKey(d) /\ m.slot = d.slot
               /\ m.state = IF d \in ds THEN state ELSE d.state
<1>1. d \in DeadlineRows
  BY DEF StoreTypeOK
<1> QED BY <1>1 DEF Marked, DeadlineKey, DeadlineRows

\* Deadlines change their state, and the rows that wait for them with it.
LEMMA MarkedDeadlines ==
    ASSUME StoreTypeOK, DeadlineInv, RowsInv', NEW ds \in SUBSET deadlines,
           NEW state \in {"ADMITTED", "SUPERSEDED", "APPLIED"}, MarkDeadlines(ds, state),
           Waited' \subseteq {DeadlineKey(d) : d \in deadlines},
           state = "ADMITTED" => \A d \in ds : d.state = "SCHEDULED",
           \A d \in deadlines : DeadlineKey(d) \in Waited' <=>
              IF d \in ds THEN state = "ADMITTED" ELSE d.state = "ADMITTED"
    PROVE  DeadlineInv'
<1>1. deadlines' = {Marked(ds, state, d) : d \in deadlines}
  BY DEF MarkDeadlines, Marked
<1>2. \A d \in deadlines :
        LET m == Marked(ds, state, d)
        IN  /\ m \in deadlines' /\ DeadlineKey(m) = DeadlineKey(d) /\ m.slot = d.slot
            /\ m.state = IF d \in ds THEN state ELSE d.state
  BY <1>1, MarkedDeadline
<1>3. \A m \in deadlines' : \E d \in deadlines : m = Marked(ds, state, d)
  BY <1>1
<1>4. \A s \in Slots : \A m, n \in LiveDeadlines(s)' : m = n
  <2> SUFFICES ASSUME NEW s \in Slots, NEW m \in LiveDeadlines(s)', NEW n \in LiveDeadlines(s)'
               PROVE  m = n
    OBVIOUS
  <2>1. m \in deadlines' /\ n \in deadlines'
    BY DEF LiveDeadlines
  <2>2. PICK d \in deadlines, e \in deadlines : m = Marked(ds, state, d) /\ n = Marked(ds, state, e)
    BY <1>3, <2>1
  <2>3. d \in LiveDeadlines(s) /\ e \in LiveDeadlines(s)
    BY <1>2, <2>2 DEF LiveDeadlines
  <2> QED BY <2>2, <2>3 DEF DeadlineInv
<1>5. \A m, n \in deadlines' : DeadlineKey(m) = DeadlineKey(n) => m = n
  BY <1>2, <1>3 DEF DeadlineInv
<1>6. \A m \in deadlines' : m.state = "ADMITTED" <=> DeadlineKey(m) \in Waited'
  BY <1>2, <1>3
<1>7. Waited' \subseteq {DeadlineKey(m) : m \in deadlines'}
  BY <1>2
<1> QED BY <1>4, <1>5, <1>6, <1>7 DEF DeadlineInv

LEMMA AdmissionDeadlines ==
    ASSUME StoreTypeOK, InboxInv, DeadlineInv, NEW t \in Nat, NEW c \in CommandsReceivedAt(t),
           admitSlotTransitionCommand(c)
    PROVE  DeadlineInv'
<1>1. PICK n \in NextOrdinal : inbox' = AfterCancellation(c) \cup {InboxRow(c, n)}
  BY DEF admitSlotTransitionCommand
<1>2. c.kind # "EXIT_DEADLINE"
  BY DEF CommandsReceivedAt, makeHallCommand, makeCameraCommand
<1>3. InboxRow(c, n).kind # "EXIT_DEADLINE"
  BY <1>2, NewRow
<1>4. \A q \in CanceledBy(c) : q.kind = "HALL_OBSERVATION"
  BY DEF CanceledBy, HallCandidate, HallCandidates
<1>5. ExitRows' \subseteq ExitRows
  <2> SUFFICES ASSUME NEW q \in ExitRows' PROVE q \in ExitRows
    OBVIOUS
  <2>1. q \in inbox' /\ q.status = "PENDING_UNPREPARED" /\ q.kind = "EXIT_DEADLINE"
    BY DEF ExitRows, Pending, PendingIn
  <2>2. q \in inbox
    BY <1>1, <1>3, <2>1, AdmittedInbox
  <2> QED BY <2>1, <2>2 DEF ExitRows, Pending, PendingIn
<1>6. ExitRows \subseteq ExitRows'
  <2> SUFFICES ASSUME NEW q \in ExitRows PROVE q \in ExitRows'
    OBVIOUS
  <2>1. q \in inbox \ CanceledBy(c)
    BY <1>4 DEF ExitRows, Pending, PendingIn
  <2>2. q \in inbox'
    BY <1>1, <2>1 DEF AfterCancellation
  <2> QED BY <2>2 DEF ExitRows, Pending, PendingIn
<1>7. RowsInv' /\ Waited' = Waited
  BY <1>5, <1>6, SameExitRows DEF DeadlineInv
<1> QED BY <1>7, DeadlinesAlone DEF admitSlotTransitionCommand, domain

LEMMA DeadlineAdmissionDeadlines ==
    ASSUME StoreTypeOK, DeadlineInv, NEW blocked, admitDueSlotDeadlines(blocked)
    PROVE  DeadlineInv'
<1>1. PICK batch \in SUBSET DueDeadlines(blocked) :
        /\ \E pos \in [batch -> 0..PendingCapacity], n \in NextOrdinal :
             inbox' = inbox \cup {InboxRow(deadlineCommand(d), n + pos[d]) : d \in batch}
        /\ MarkDeadlines(batch, "ADMITTED")
  BY DEF admitDueSlotDeadlines
<1>2. PICK pos \in [batch -> 0..PendingCapacity], n \in NextOrdinal :
        inbox' = inbox \cup {InboxRow(deadlineCommand(d), n + pos[d]) : d \in batch}
  BY <1>1
<1> DEFINE new(d) == InboxRow(deadlineCommand(d), n + pos[d])
<1>3. \A d \in batch : /\ new(d).kind = "EXIT_DEADLINE" /\ new(d).status = "PENDING_UNPREPARED"
                       /\ new(d).ident = DeadlineKey(d)
                       /\ new(d).ident = DeadlineKey(new(d).fact)
                       /\ new(d).slot = new(d).fact.slot
  BY NewRow DEF deadlineCommand, DeadlineKey
<1>4. /\ \A q \in inbox' : q \in inbox \/ \E d \in batch : q = new(d)
      /\ inbox \subseteq inbox' /\ \A d \in batch : new(d) \in inbox'
  BY <1>2
<1> HIDE DEF new
<1>5. batch \in SUBSET deadlines /\ \A d \in batch : d.state = "SCHEDULED"
  BY DEF DueDeadlines
<1>6. \A q : q \in ExitRows' <=> q \in ExitRows \/ \E d \in batch : q = new(d)
  BY <1>3, <1>4 DEF ExitRows, Pending, PendingIn
<1>7. \A d \in batch : DeadlineKey(d) \notin Waited
  BY <1>5 DEF DeadlineInv
<1>8. RowsInv'
  <2>1. \A r \in ExitRows' : r.ident = DeadlineKey(r.fact) /\ r.slot = r.fact.slot
    BY <1>3, <1>6 DEF DeadlineInv, RowsInv
  <2>2. ASSUME NEW p \in ExitRows', NEW q \in ExitRows', p.ident = q.ident PROVE p = q
    <3>1. CASE p \in ExitRows /\ q \in ExitRows
      BY <2>2, <3>1 DEF DeadlineInv, RowsInv
    <3>2. CASE p \notin ExitRows /\ q \notin ExitRows
      <4>1. PICK d \in batch, e \in batch : p = new(d) /\ q = new(e)
        BY <1>6, <3>2
      <4>2. d = e
        BY <1>3, <1>5, <2>2, <4>1 DEF DeadlineInv
      <4> QED BY <4>1, <4>2
    <3>3. CASE (p \in ExitRows /\ q \notin ExitRows) \/ (p \notin ExitRows /\ q \in ExitRows)
      BY <1>3, <1>6, <1>7, <2>2, <3>3 DEF Waited
    <3> QED BY <3>1, <3>2, <3>3
  <2> QED BY <2>1, <2>2 DEF RowsInv
<1>9. \A k : k \in Waited' <=> k \in Waited \/ \E d \in batch : k = DeadlineKey(d)
  BY <1>3, <1>6 DEF Waited
<1>10. \A d \in deadlines : DeadlineKey(d) \in Waited' <=> d \in batch \/ d.state = "ADMITTED"
  BY <1>5, <1>9 DEF DeadlineInv
<1>11. Waited' \subseteq {DeadlineKey(d) : d \in deadlines}
  BY <1>5, <1>9 DEF DeadlineInv
<1> QED BY <1>1, <1>5, <1>8, <1>10, <1>11, MarkedDeadlines

LEMMA BookkeepingDeadlines ==
    ASSUME StoreTypeOK, DeadlineInv,
           \/ UNCHANGED storeVars \/ Tick \/ purgeSettledSlotTransitionCommands
           \/ \E r \in inbox : \/ deferSlotTransitionCommand(r)
                               \/ completeSlotTransitionEffects(r)
                               \/ deferSlotTransitionEffects(r)
    PROVE  DeadlineInv'
<1>1. UNCHANGED deadlines
  BY DEF storeVars, domain, Tick, purgeSettledSlotTransitionCommands,
         deferSlotTransitionCommand, completeSlotTransitionEffects, deferSlotTransitionEffects
<1>2. CASE \/ UNCHANGED storeVars \/ Tick \/ purgeSettledSlotTransitionCommands
  <2>1. ExitRows' = ExitRows
    BY <1>2 DEF storeVars, domain, Tick, purgeSettledSlotTransitionCommands, Settled, ExitRows,
                Pending, PendingIn
  <2> QED BY <1>1, <2>1, SameExitRows, DeadlinesAlone DEF DeadlineInv
<1>3. ASSUME NEW r \in inbox,
             \/ deferSlotTransitionCommand(r) \/ completeSlotTransitionEffects(r)
             \/ deferSlotTransitionEffects(r)
      PROVE  DeadlineInv'
  <2>1. PICK q : Rewrites(r, q) /\ q.status = r.status
    BY <1>3, BookkeepingRewrites
  <2>2. RowsInv' /\ Waited' = Waited
    BY <2>1, RewrittenExitRow DEF DeadlineInv
  <2> QED BY <1>1, <2>2, DeadlinesAlone
<1> QED BY <1>2, <1>3

\* Rows of the sensors and of the camera: an INTRUSION takes a scheduled exit
\* back, an EXIT schedules one.
LEMMA SourceReductionDeadlines ==
    ASSUME StoreTypeOK, DeadlineInv, NEW r \in inbox, applySlotTransitionCommand(r),
           r.kind # "EXIT_DEADLINE"
    PROVE  DeadlineInv'
<1>1. RowsInv' /\ Waited' = Waited
  <2>1. PICK q : Rewrites(r, q)
    BY ReductionRewrites
  <2> QED BY <2>1, RewrittenExitRow DEF DeadlineInv, ExitRows
<1>2. CASE UNCHANGED deadlines
  BY <1>1, <1>2, DeadlinesAlone
<1>3. CASE MarkDeadlines(ScheduledDeadlines(r.slot), "SUPERSEDED")
  <2> DEFINE ds == ScheduledDeadlines(r.slot)
  <2>1. ds \in SUBSET deadlines /\ \A d \in ds : d.state = "SCHEDULED"
    BY DEF ScheduledDeadlines
  <2>2. MarkDeadlines(ds, "SUPERSEDED")
    BY <1>3
  <2> HIDE DEF ds
  <2>3. /\ \A d \in deadlines : DeadlineKey(d) \in Waited' <=> d \notin ds /\ d.state = "ADMITTED"
        /\ Waited' \subseteq {DeadlineKey(d) : d \in deadlines}
    BY <1>1, <2>1 DEF DeadlineInv
  <2> QED BY <1>1, <2>1, <2>2, <2>3, MarkedDeadlines
<1>4. ASSUME NEW new, new.state = "SCHEDULED", LiveDeadlines(new.slot) = {},
             ~DeadlineIdTaken(new.slot, new.gen, new.session), deadlines' = deadlines \cup {new}
      PROVE  DeadlineInv'
  <2>1. \A d \in deadlines : DeadlineKey(d) # DeadlineKey(new)
    BY <1>4 DEF DeadlineIdTaken, DeadlineKey
  <2>2. DeadlineKey(new) \notin Waited
    BY <2>1 DEF DeadlineInv
  <2>3. \A s \in Slots : \A d, e \in LiveDeadlines(s)' : d = e
    BY <1>4 DEF LiveDeadlines, DeadlineInv
  <2>4. \A d, e \in deadlines' : DeadlineKey(d) = DeadlineKey(e) => d = e
    BY <1>4, <2>1 DEF DeadlineInv
  <2>5. /\ \A d \in deadlines' : d.state = "ADMITTED" <=> DeadlineKey(d) \in Waited'
        /\ Waited' \subseteq {DeadlineKey(d) : d \in deadlines'}
    BY <1>1, <1>4, <2>2 DEF DeadlineInv
  <2> QED BY <1>1, <2>3, <2>4, <2>5 DEF DeadlineInv
<1>5. CASE ExitSchedules(r)
  <2>1. ASSUME NEW p, LiveDeadlines(r.slot) = {},
               ~DeadlineIdTaken(r.slot, ExitGeneration(r), p),
               deadlines' = deadlines \cup
                    {[slot |-> r.slot, gen |-> ExitGeneration(r), session |-> p,
                      due |-> r.exitDue, state |-> "SCHEDULED"]}
        PROVE  DeadlineInv'
    <3> DEFINE new == [slot |-> r.slot, gen |-> ExitGeneration(r), session |-> p,
                       due |-> r.exitDue, state |-> "SCHEDULED"]
    <3>1. /\ new.slot = r.slot /\ new.gen = ExitGeneration(r) /\ new.session = p
          /\ new.state = "SCHEDULED" /\ deadlines' = deadlines \cup {new}
      BY <2>1
    <3> HIDE DEF new
    <3> QED BY <1>4, <2>1, <3>1
  <2> QED BY <1>2, <1>5, <2>1 DEF ExitSchedules
<1>6. CASE IntrusionStarts(r) \/ IntrusionConfirms(r)
  BY <1>3, <1>6 DEF IntrusionStarts, IntrusionConfirms, IntrusionObserved
<1>7. CASE \/ HallOvertaken(r) \/ HallOccupiedStarts(r) \/ HallOccupiedConfirms(r)
           \/ HallVacantIdle(r) \/ HallVacantTooEarly(r) \/ HallVacantIgnored(r)
           \/ HallVacantHeld(r) \/ HallVacantEnds(r) \/ CameraCorrelates(r)
           \/ CameraRejected(r) \/ CameraExitTooEarly(r) \/ CameraIgnored(r)
           \/ ExitObserved(r)
  BY <1>2, <1>7 DEF HallOvertaken, HallOccupiedStarts, HallOccupiedConfirms, HallVacantIdle,
                    HallVacantTooEarly, HallVacantIgnored, HallVacantHeld, HallVacantEnds,
                    CameraCorrelates, CameraRejected, CameraExitTooEarly, CameraIgnored,
                    ExitObserved, domain
<1>8. ~(DeadlineStale(r) \/ DeadlineHeld(r) \/ DeadlineEnds(r))
  BY DEF DeadlineStale, DeadlineHeld, DeadlineEnds, DeadlineRow
<1> QED BY <1>5, <1>6, <1>7, <1>8 DEF applySlotTransitionCommand

\* The row of a deadline goes together with the state that waits for it.
LEMMA DeadlineReductionDeadlines ==
    ASSUME StoreTypeOK, DeadlineInv, NEW r \in inbox, applySlotTransitionCommand(r),
           r.kind = "EXIT_DEADLINE"
    PROVE  DeadlineInv'
<1>1. r \in ExitRows
  BY ReductionOutcome DEF Runnable, IsPendingHead, ExitRows
<1>2. RowsInv' /\ Waited' = Waited \ {r.ident}
  <2>1. PICK q : Rewrites(r, q) /\ q.status # "PENDING_UNPREPARED"
    BY ReductionRewrites
  <2> QED BY <1>1, <2>1, RewrittenExitRow DEF DeadlineInv
<1>3. PICK state \in {"SUPERSEDED", "APPLIED"} : MarkDeadlines(AdmittedDeadline(r), state)
  BY DEF applySlotTransitionCommand, DeadlineStale, DeadlineHeld, DeadlineEnds,
         HallOvertaken, HallOccupiedStarts, HallOccupiedConfirms, HallVacantIdle,
         HallVacantTooEarly, HallVacantIgnored, HallVacantHeld, HallVacantEnds,
         CameraCorrelates, CameraRejected, CameraExitTooEarly, CameraIgnored,
         IntrusionStarts, IntrusionConfirms, ExitObserved, ExitSchedules,
         AcceptedHallRow, HallRow, AnyCameraRow, CameraRow, ExitRow
<1> DEFINE ds == AdmittedDeadline(r)
<1>4. \A d \in deadlines : d \in ds <=> DeadlineKey(d) = r.ident /\ d.state = "ADMITTED"
  BY <1>1 DEF AdmittedDeadline, DeadlineKey, DeadlineInv, RowsInv
<1>5. ds \in SUBSET deadlines
  BY DEF AdmittedDeadline
<1> HIDE DEF ds
<1>6. /\ \A d \in deadlines : DeadlineKey(d) \in Waited' <=> d \notin ds /\ d.state = "ADMITTED"
      /\ Waited' \subseteq {DeadlineKey(d) : d \in deadlines}
  BY <1>2, <1>4 DEF DeadlineInv
<1>7. MarkDeadlines(ds, state)
  BY <1>3 DEF ds
<1> QED BY <1>2, <1>5, <1>6, <1>7, MarkedDeadlines

LEMMA DeadlineInvStep ==
    ASSUME StoreTypeOK, InboxInv, DeadlineInv, [StoreNext]_storeVars
    PROVE  DeadlineInv'
<1>1. ASSUME NEW t \in 0..now, NEW c \in CommandsReceivedAt(t), admitSlotTransitionCommand(c)
      PROVE  DeadlineInv'
  BY <1>1, AdmissionDeadlines DEF StoreTypeOK
<1>2. ASSUME NEW blocked, admitDueSlotDeadlines(blocked) PROVE DeadlineInv'
  BY <1>2, DeadlineAdmissionDeadlines
<1>3. ASSUME NEW r \in inbox, applySlotTransitionCommand(r) PROVE DeadlineInv'
  BY <1>3, SourceReductionDeadlines, DeadlineReductionDeadlines
<1>4. CASE \/ UNCHANGED storeVars \/ Tick \/ purgeSettledSlotTransitionCommands
           \/ \E r \in inbox : \/ deferSlotTransitionCommand(r)
                               \/ completeSlotTransitionEffects(r)
                               \/ deferSlotTransitionEffects(r)
  BY <1>4, BookkeepingDeadlines
<1> QED BY <1>1, <1>2, <1>3, <1>4 DEF StoreNext, ReduceRow

\* An exit deadline is never orphaned and never executed twice: it is ADMITTED
\* exactly while its command waits, and a slot has one live deadline at most.
THEOREM DeadlinesAreOwned == StoreSpec => []DeadlineHasOneOwner
<1>1. StoreTypeOK /\ InboxInv /\ DeadlineInv /\ [StoreNext]_storeVars => DeadlineInv'
  BY DeadlineInvStep
<1>2. StoreSpec => []DeadlineInv
  BY <1>1, DeadlineInvInit, StoreTypeSafety, InboxInvHolds, PTL DEF StoreSpec
<1> QED BY <1>2, DeadlineInvOwner, PTL

-----------------------------------------------------------------------------
(***************************************************************************)
(* Bindings of camera tracks                                               *)
(***************************************************************************)
TrackKey(b) == <<b.session, b.area, b.object>>

LEMMA BindingsInvInit == StoreInit => BindingFollowsSession
  BY DEF StoreInit, BindingFollowsSession

\* A step that keeps every session's span keeps what a binding stands for.
LEMMA BoundToOpenSession ==
    ASSUME StoreTypeOK, NEW r \in inbox, r.kind = "CAMERA_OBSERVATION", NEW p,
           commit_correlation(r, p), BindingFollowsSession,
           \A b \in bindings : /\ b.session \in DOMAIN sessions'
                               /\ sessions'[b.session].exit = sessions[b.session].exit,
           p \in DOMAIN sessions', sessions'[p].exit = None
    PROVE  BindingFollowsSession'
<1>1. /\ bindings \subseteq BindingRows
      /\ \A b, c \in bindings : TrackKey(b) = TrackKey(c) => b = c
      /\ \A b \in bindings : /\ b.session \in DOMAIN sessions'
                             /\ b.state = "COMMITTED" <=> sessions'[b.session].exit = None
  BY DEF StoreTypeOK, BindingFollowsSession, TrackKey
<1>2. SUFFICES ASSUME bindings' # bindings
               PROVE  /\ \A b, c \in bindings' : TrackKey(b) = TrackKey(c) => b = c
                      /\ \A b \in bindings' :
                            /\ b.session \in DOMAIN sessions'
                            /\ b.state = "COMMITTED" <=> sessions'[b.session].exit = None
  BY <1>1 DEF BindingFollowsSession, TrackKey
<1>3. ASSUME NEW new, TrackKey(new) = <<p, r.fact.area, r.fact.object>>, new.session = p,
             new.state = "COMMITTED", NEW old \in SUBSET TrackBindings(r, p),
             TrackBindings(r, p) \subseteq old, bindings' = (bindings \ old) \cup {new}
      PROVE  /\ \A b, c \in bindings' : TrackKey(b) = TrackKey(c) => b = c
             /\ \A b \in bindings' :
                   /\ b.session \in DOMAIN sessions'
                   /\ b.state = "COMMITTED" <=> sessions'[b.session].exit = None
  <2>1. \A b \in bindings \ old : TrackKey(b) # TrackKey(new)
    BY <1>3 DEF TrackBindings, TrackKey
  <2> QED BY <1>1, <1>3, <2>1
<1>4. CASE TrackBindings(r, p) = {}
  <2> DEFINE new == [correlation |-> r.ident, session |-> p, area |-> r.fact.area,
                     object |-> r.fact.object, expires |-> r.occurred + CorrelationWindow,
                     revision |-> 1, state |-> "COMMITTED"]
  <2>1. bindings' = bindings \cup {new}
    BY <1>2, <1>4 DEF commit_correlation
  <2>2. /\ TrackKey(new) = <<p, r.fact.area, r.fact.object>> /\ new.session = p
        /\ new.state = "COMMITTED"
    BY DEF TrackKey
  <2> HIDE DEF new
  <2>3. bindings' = (bindings \ {}) \cup {new}
    BY <2>1
  <2> QED BY <1>3, <1>4, <2>2, <2>3
<1>5. CASE TrackBindings(r, p) # {}
  <2> DEFINE later == r.occurred + CorrelationWindow
             new(b) == [b EXCEPT !.expires = later, !.revision = @ + 1]
  <2>1. PICK b \in TrackBindings(r, p) : b.state = "COMMITTED" /\ bindings' = Replace(bindings, b, new(b))
    BY <1>2, <1>5 DEF commit_correlation
  <2>2. b \in BindingRows /\ b \in bindings
    BY <1>1 DEF TrackBindings
  <2>3. /\ TrackKey(new(b)) = TrackKey(b) /\ new(b).session = b.session
        /\ new(b).state = b.state
    <3> HIDE DEF later
    <3> QED BY <2>2 DEF TrackKey, BindingRows
  <2> HIDE DEF new
  <2>4. TrackKey(b) = <<p, r.fact.area, r.fact.object>> /\ b.session = p
    BY DEF TrackBindings, TrackKey
  <2>5. TrackBindings(r, p) \subseteq {b}
    BY <1>1, <2>2, <2>4 DEF TrackBindings, TrackKey
  <2> QED BY <1>3, <2>1, <2>3, <2>4, <2>5 DEF Replace
<1> QED BY <1>4, <1>5

LEMMA EndedBinding ==
    ASSUME StoreTypeOK, NEW p, NEW b \in bindings
    PROVE  LET e == IF b.session = p THEN [b EXCEPT !.state = "ENDED"] ELSE b
           IN  /\ TrackKey(e) = TrackKey(b) /\ e.session = b.session
               /\ e.state = IF b.session = p THEN "ENDED" ELSE b.state
<1>1. b \in BindingRows
  BY DEF StoreTypeOK
<1> QED BY <1>1 DEF TrackKey, BindingRows

LEMMA ReductionBindings ==
    ASSUME StoreTypeOK, BindingFollowsSession, NEW r \in inbox, applySlotTransitionCommand(r)
    PROVE  BindingFollowsSession'
<1>1. CASE Continues(r)
  <2>1. CASE UNCHANGED bindings
    BY <1>1, <2>1 DEF Continues, SameSpans, BindingFollowsSession
  <2>2. ASSUME NEW p \in find_active(r.slot), AnyCameraRow(r), commit_correlation(r, p)
        PROVE  BindingFollowsSession'
    <3>1. p \in DOMAIN sessions /\ sessions[p].exit = None
      BY DEF find_active
    <3> QED BY <1>1, <2>2, <3>1, BoundToOpenSession
            DEF Continues, SameSpans, BindingFollowsSession, AnyCameraRow
  <2> QED BY <1>1, <2>1, <2>2 DEF Continues
<1>2. CASE Starts(r)
  <2>1. /\ \A s : find_active(s)' = IF s = r.slot THEN find_active(s) \cup {NextSessionId}
                                    ELSE find_active(s)
        /\ \A k \in DOMAIN sessions : sessions'[k] = sessions[k]
    BY <1>2, ActiveAfterCreate DEF Starts
  <2>2. DOMAIN sessions \subseteq DOMAIN sessions'
    BY <1>2 DEF Starts, create_session, StoreTypeOK
  <2>3. NextSessionId \in DOMAIN sessions' /\ sessions'[NextSessionId].exit = None
    BY <2>1 DEF find_active
  <2>4. CASE UNCHANGED bindings
    BY <2>1, <2>2, <2>4 DEF BindingFollowsSession
  <2>5. CASE AnyCameraRow(r) /\ commit_correlation(r, NextSessionId)
    BY <2>1, <2>2, <2>3, <2>5, BoundToOpenSession DEF BindingFollowsSession, AnyCameraRow
  <2> QED BY <1>2, <2>4, <2>5 DEF Starts
<1>3. CASE Ends(r)
  <2>1. PICK p \in find_active(r.slot) : close_session(r, p)
    BY <1>3 DEF Ends
  <2>2. \A s : find_active(s)' = find_active(s) \ {p}
    BY <2>1, ActiveAfterClose
  <2>3. DOMAIN sessions' = DOMAIN sessions
        /\ \A k \in DOMAIN sessions \ {p} : sessions'[k] = sessions[k]
    BY <2>1, ActiveAfterClose DEF close_session, StoreTypeOK
  <2>4. p \in DOMAIN sessions /\ sessions[p].exit = None /\ sessions'[p].exit # None
    <3>1. p \in 1..Len(sessions) /\ sessions[p].exit = None /\ sessions[p] \in SessionRows
      BY ActiveInDomain DEF StoreTypeOK
    <3>2. r.occurred # None
      BY DEF StoreTypeOK, InboxOK, RowOK, InboxRows, None
    <3>3. sessions'[p].exit = r.occurred
      BY <2>1, <3>1 DEF close_session, SessionRows, StoreTypeOK
    <3> QED BY <3>1, <3>2, <3>3 DEF StoreTypeOK
  <2>5. bindings' = EndedBindings(p)
    BY <2>1 DEF close_session
  <2>6. \A e \in bindings' : \E b \in bindings :
          /\ e = IF b.session = p THEN [b EXCEPT !.state = "ENDED"] ELSE b
          /\ TrackKey(e) = TrackKey(b) /\ e.session = b.session
          /\ e.state = IF b.session = p THEN "ENDED" ELSE b.state
    BY <2>5, EndedBinding DEF EndedBindings
  <2>7. \A b, c \in bindings : TrackKey(b) = TrackKey(c) => b = c
    BY DEF BindingFollowsSession, TrackKey
  <2>8. \A e, f \in bindings' : TrackKey(e) = TrackKey(f) => e = f
    BY <2>6, <2>7
  <2>9. \A e \in bindings' : /\ e.session \in DOMAIN sessions'
                             /\ e.state = "COMMITTED" <=> sessions'[e.session].exit = None
    BY <2>3, <2>4, <2>6 DEF BindingFollowsSession
  <2> QED BY <2>8, <2>9 DEF BindingFollowsSession, TrackKey
<1> QED BY <1>1, <1>2, <1>3, ReductionOutcome

LEMMA BindingsStep ==
    ASSUME StoreTypeOK, BindingFollowsSession, [StoreNext]_storeVars
    PROVE  BindingFollowsSession'
<1>1. UNCHANGED <<sessions, bindings>> \/ \E r \in inbox : applySlotTransitionCommand(r)
  BY DEF StoreNext, ReduceRow, storeVars, domain, admitSlotTransitionCommand,
         admitDueSlotDeadlines, deferSlotTransitionCommand,
         completeSlotTransitionEffects, deferSlotTransitionEffects,
         purgeSettledSlotTransitionCommands, Tick
<1>2. CASE UNCHANGED <<sessions, bindings>>
  BY <1>2 DEF BindingFollowsSession
<1> QED BY <1>1, <1>2, ReductionBindings

\* A camera track is bound once, and for as long as the session is open.
THEOREM BindingsFollowSessions == StoreSpec => []BindingFollowsSession
<1>1. StoreTypeOK /\ BindingFollowsSession /\ [StoreNext]_storeVars => BindingFollowsSession'
  BY BindingsStep
<1> QED BY <1>1, BindingsInvInit, StoreTypeSafety, PTL DEF StoreSpec

-----------------------------------------------------------------------------
(***************************************************************************)
(* Frames that come again after the purge.  Whatever a versioned frame     *)
(* started or ended, the cursor of its slot has passed that frame.         *)
(***************************************************************************)
Passed(f) ==
    /\ cursor[f.slot].mode = "VERSIONED"
    /\ \/ f.boot \in cursor[f.slot].retired
       \/ f.boot = cursor[f.slot].boot /\ f.seq <= cursor[f.slot].last

CommandOf(f) == <<"HALL_OBSERVATION", f.ident>>

CommandsPassed ==
    \A k \in DOMAIN sessions : \A f \in HallFrames :
        /\ f.version = "V2"
        /\ sessions[k].entryCmd = CommandOf(f) \/ sessions[k].exitCmd = CommandOf(f)
        => Passed(f)

LEMMA PassedIsRefused ==
    ASSUME NEW f \in HallFrames, f.version = "V2", StoreTypeOK, Passed(f)
    PROVE  ~Accepts(cursor[f.slot], f)
<1>1. f.slot \in Slots /\ f.seq \in Int
  BY HallFrameAssumption DEF NoSequence
<1>2. cursor[f.slot].last \in Int
  BY <1>1 DEF StoreTypeOK, CursorRows, NoSequence
<1> QED BY <1>1, <1>2 DEF Passed, Accepts, evaluateSensorSequence, VersionedDecision, VersionedOrder

\* An accepted frame moves the cursor past itself, and leaves behind what was
\* behind.
LEMMA CommitPasses ==
    ASSUME StoreTypeOK, NEW r \in inbox, r.kind = "HALL_OBSERVATION",
           Accepts(cursor[r.slot], r.fact), commit_sequence(r),
           NEW f \in HallFrames, f.version = "V2", Passed(f) \/ f.ident = r.ident
    PROVE  Passed(f)'
<1>1. /\ r.slot \in Slots /\ r.fact \in HallFrames /\ r.slot = r.fact.slot
      /\ r.ident = r.fact.ident
  BY DEF StoreTypeOK, InboxOK, RowOK, InboxRows, HallInputs
<1>2. f.slot \in Slots /\ f.seq \in Int /\ r.fact.seq \in Int
  BY <1>1, HallFrameAssumption DEF NoSequence
<1>3. /\ cursor[r.slot] \in CursorRows /\ cursor[r.slot].last \in Int
      /\ DOMAIN cursor = Slots
  BY <1>1 DEF StoreTypeOK, CursorRows, NoSequence
<1>4. CASE f.ident = r.ident
  <2>1. /\ r.fact.version = "V2" /\ r.fact.slot = f.slot
        /\ r.fact.boot = f.boot /\ r.fact.seq = f.seq
    BY <1>1, <1>4, IdentityAssumption
  <2>2. r.fact.seq # NoSequence
    BY <2>1 DEF Accepts, evaluateSensorSequence, VersionedDecision
  <2>3. cursor'[f.slot] = commitSensorSequence(cursor[r.slot], r.fact)
    BY <1>1, <1>3, <2>1, <2>2 DEF commit_sequence
  <2> QED BY <1>2, <2>1, <2>3 DEF Passed, commitSensorSequence
<1>5. CASE Passed(f) /\ (f.slot # r.slot \/ r.fact.seq = NoSequence)
  <2>1. cursor'[f.slot] = cursor[f.slot]
    BY <1>1, <1>2, <1>3, <1>5 DEF commit_sequence
  <2> QED BY <1>5, <2>1 DEF Passed
<1>6. CASE Passed(f) /\ f.slot = r.slot /\ r.fact.seq # NoSequence
  <2>1. cursor'[f.slot] = commitSensorSequence(cursor[f.slot], r.fact)
    BY <1>1, <1>3, <1>6 DEF commit_sequence
  <2>2. r.fact.version # "V1" /\ VersionedDecision(cursor[f.slot], r.fact) = "Accept"
    BY <1>6 DEF Passed, Accepts, evaluateSensorSequence, LegacyDecision
  <2>3. /\ cursor[f.slot].boot # NoBoot
        /\ r.fact.boot = cursor[f.slot].boot => r.fact.seq > cursor[f.slot].last
    BY <1>2, <1>3, <1>6, <2>2 DEF Passed, VersionedDecision, VersionedOrder
  <2>4. /\ cursor'[f.slot].mode = "VERSIONED" /\ cursor'[f.slot].boot = r.fact.boot
        /\ cursor'[f.slot].last = r.fact.seq
        /\ cursor'[f.slot].retired = RetiredBoots(cursor[f.slot], r.fact)
    BY <2>1, <2>2 DEF commitSensorSequence
  <2> QED BY <1>2, <1>3, <1>6, <2>3, <2>4 DEF Passed, RetiredBoots
<1> QED BY <1>4, <1>5, <1>6

\* A branch either moves the cursor over the frame it reduces, or is not one by
\* which a Hall frame starts or ends a session.
LEMMA CursorFollows ==
    ASSUME NEW r \in inbox, applySlotTransitionCommand(r)
    PROVE  \/ /\ r.kind = "HALL_OBSERVATION" /\ Accepts(cursor[r.slot], r.fact)
              /\ commit_sequence(r)
           \/ UNCHANGED cursor /\ (r.kind # "HALL_OBSERVATION" \/ UNCHANGED sessions)
<1>1. CASE HallOvertaken(r) \/ HallVacantTooEarly(r)
  BY <1>1 DEF HallOvertaken, HallVacantTooEarly, domain
<1>2. CASE HallOccupiedStarts(r) \/ HallOccupiedConfirms(r) \/ HallVacantIdle(r)
           \/ HallVacantIgnored(r) \/ HallVacantHeld(r) \/ HallVacantEnds(r)
  BY <1>2 DEF HallOccupiedStarts, HallOccupiedConfirms, HallVacantIdle, HallVacantIgnored,
              HallVacantHeld, HallVacantEnds, AcceptedHallRow, HallRow
<1>3. CASE CameraCorrelates(r) \/ CameraRejected(r) \/ CameraExitTooEarly(r)
           \/ CameraIgnored(r) \/ IntrusionStarts(r) \/ IntrusionConfirms(r)
           \/ ExitObserved(r) \/ ExitSchedules(r)
  BY <1>3 DEF CameraCorrelates, CameraRejected, CameraExitTooEarly, CameraIgnored,
              IntrusionStarts, IntrusionConfirms, ExitObserved, ExitSchedules, ExitRow,
              CameraRow, AnyCameraRow, domain
<1>4. CASE DeadlineStale(r) \/ DeadlineHeld(r) \/ DeadlineEnds(r)
  BY <1>4 DEF DeadlineStale, DeadlineHeld, DeadlineEnds, DeadlineRow
<1> QED BY <1>1, <1>2, <1>3, <1>4 DEF applySlotTransitionCommand

\* The commands of the sessions after a reduction: those before it, and the one
\* that was reduced.
LEMMA ReducedCommands ==
    ASSUME StoreTypeOK, NEW r \in inbox, applySlotTransitionCommand(r),
           NEW k \in DOMAIN sessions', NEW f
    PROVE  /\ sessions'[k].entryCmd = CommandOf(f) =>
                \/ k \in DOMAIN sessions /\ sessions[k].entryCmd = CommandOf(f)
                \/ CommandKey(r) = CommandOf(f) /\ sessions' # sessions
           /\ sessions'[k].exitCmd = CommandOf(f) =>
                \/ k \in DOMAIN sessions /\ sessions[k].exitCmd = CommandOf(f)
                \/ CommandKey(r) = CommandOf(f) /\ sessions' # sessions
<1>1. CASE Continues(r)
  BY <1>1 DEF Continues, SameSpans
<1>2. CASE Starts(r)
  <2> DEFINE row == [slot |-> r.slot, entry |-> r.occurred, exit |-> None,
          entryCmd |-> CommandKey(r), exitCmd |-> <<>>,
          hallConfirmed |-> r.kind = "HALL_OBSERVATION",
          ivaConfirmed |-> r.kind = "CAMERA_OBSERVATION",
          hallOccupied |-> r.kind = "HALL_OBSERVATION",
          ivaOccupied |-> r.kind = "CAMERA_OBSERVATION"]
  <2>1. sessions' = Append(sessions, row) /\ row.entryCmd = CommandKey(r) /\ row.exitCmd = <<>>
    BY <1>2 DEF Starts, create_session
  <2>2. CommandOf(f) # <<>>
    BY DEF CommandOf
  <2> HIDE DEF row
  <2>3. /\ k \in DOMAIN sessions => sessions'[k] = sessions[k]
        /\ k \notin DOMAIN sessions => sessions'[k] = row
        /\ sessions' # sessions
    BY <2>1 DEF StoreTypeOK
  <2> QED BY <2>1, <2>2, <2>3
<1>3. CASE Ends(r)
  <2>1. PICK p \in find_active(r.slot) : close_session(r, p)
    BY <1>3 DEF Ends
  <2>2. p \in 1..Len(sessions) /\ sessions[p] \in SessionRows
    BY ActiveInDomain DEF StoreTypeOK
  <2>3. DOMAIN sessions' = DOMAIN sessions
        /\ \A j \in DOMAIN sessions \ {p} : sessions'[j] = sessions[j]
    BY <2>1, ActiveAfterClose DEF close_session, StoreTypeOK
  <2>4. /\ sessions'[p].exitCmd = CommandKey(r)
        /\ sessions'[p].entryCmd = sessions[p].entryCmd
        /\ sessions'[p].exit = r.occurred
    BY <2>1, <2>2 DEF close_session, SessionRows, StoreTypeOK
  <2>5. sessions[p].exit = None /\ r.occurred # None
    BY DEF find_active, StoreTypeOK, InboxOK, RowOK, InboxRows, None
  <2> QED BY <2>3, <2>4, <2>5
<1> QED BY <1>1, <1>2, <1>3, ReductionOutcome

LEMMA CommandsPassedStep ==
    ASSUME StoreTypeOK, CommandsPassed, [StoreNext]_storeVars
    PROVE  CommandsPassed'
<1>1. UNCHANGED <<sessions, cursor>> \/ \E r \in inbox : applySlotTransitionCommand(r)
  BY DEF StoreNext, ReduceRow, storeVars, domain, admitSlotTransitionCommand,
         admitDueSlotDeadlines, deferSlotTransitionCommand,
         completeSlotTransitionEffects, deferSlotTransitionEffects,
         purgeSettledSlotTransitionCommands, Tick
<1>2. CASE UNCHANGED <<sessions, cursor>>
  BY <1>2 DEF CommandsPassed, Passed
<1>3. ASSUME NEW r \in inbox, applySlotTransitionCommand(r) PROVE CommandsPassed'
  <2> SUFFICES ASSUME NEW k \in DOMAIN sessions', NEW f \in HallFrames, f.version = "V2",
                      \/ sessions'[k].entryCmd = CommandOf(f)
                      \/ sessions'[k].exitCmd = CommandOf(f)
               PROVE  Passed(f)'
    BY DEF CommandsPassed, Passed
  <2>1. \/ Passed(f)
        \/ CommandKey(r) = CommandOf(f) /\ sessions' # sessions
    BY <1>3, ReducedCommands DEF CommandsPassed
  <2>2. CommandKey(r) = CommandOf(f) => r.kind = "HALL_OBSERVATION" /\ r.ident = f.ident
    BY DEF CommandKey, CommandOf
  <2>3. CASE /\ r.kind = "HALL_OBSERVATION" /\ Accepts(cursor[r.slot], r.fact)
             /\ commit_sequence(r)
    BY <2>1, <2>2, <2>3, CommitPasses
  <2>4. CASE UNCHANGED cursor /\ (r.kind # "HALL_OBSERVATION" \/ UNCHANGED sessions)
    BY <2>1, <2>2, <2>4 DEF Passed
  <2> QED BY <1>3, <2>3, <2>4, CursorFollows
<1> QED BY <1>1, <1>2, <1>3

\* However late a versioned frame is delivered again, before or after the purge of
\* its inbox row, its reduction meets no unique command ID: the slot is not blocked.
THEOREM VersionedRedeliveryIsHarmless == StoreSpec => []VersionedNeverThrows
<1>1. StoreInit => CommandsPassed
  BY DEF StoreInit, CommandsPassed
<1>2. StoreTypeOK /\ CommandsPassed /\ [StoreNext]_storeVars => CommandsPassed'
  BY CommandsPassedStep
<1>3. StoreTypeOK /\ CommandsPassed => VersionedNeverThrows
  <2> SUFFICES ASSUME StoreTypeOK, CommandsPassed, NEW r \in inbox,
                      r.kind = "HALL_OBSERVATION", r.fact.version = "V2", ApplyThrows(r)
               PROVE  FALSE
    BY DEF VersionedNeverThrows
  <2>1. r.fact \in HallFrames /\ r.slot = r.fact.slot /\ CommandKey(r) = CommandOf(r.fact)
    BY DEF StoreTypeOK, InboxOK, RowOK, HallInputs, CommandKey, CommandOf
  <2>2. /\ Accepts(cursor[r.slot], r.fact)
        /\ \E k \in DOMAIN sessions : \/ sessions[k].entryCmd = CommandKey(r)
                                      \/ sessions[k].exitCmd = CommandKey(r)
    BY DEF ApplyThrows, StartThrows, CloseThrows, ScheduleThrows, CorrelationThrows,
           AcceptedHallRow, ExitRow, CameraRow, AnyCameraRow, DeadlineRow
  <2> QED BY <2>1, <2>2, PassedIsRefused DEF CommandsPassed
<1> QED BY <1>1, <1>2, <1>3, StoreTypeSafety, PTL DEF StoreSpec
=============================================================================
