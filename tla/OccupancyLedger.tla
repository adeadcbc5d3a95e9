--------------------------- MODULE OccupancyLedger ---------------------------
(***************************************************************************)
(* What the slot-transition core promises, without inbox, deadlines or     *)
(* worker.  Sessions are numbered as they start.  Each slot has a ledger   *)
(* in which the start and the end of a session alternate, and the effect   *)
(* sink hears the ledger from its first entry on, in order, each entry at  *)
(* least once.                                                             *)
(***************************************************************************)
EXTENDS Integers, Sequences

CONSTANT Slots

VARIABLES
    log,   \* log[s]: the <<event, session>> entries committed so far
    out    \* out[s]: entries the sink accepted so far, repetitions included

\* The numbers say where an entry stands in the ledger of its slot.
Place(e) == 2 * e[2] + (IF e[1] = "SESSION_ENDED" THEN 1 ELSE 0)

Started == {e[2] : e \in UNION {log[s] : s \in Slots}}
Open(s) == {k \in {e[2] : e \in log[s]} : <<"SESSION_ENDED", k>> \notin log[s]}
Heard(s) == {out[s][i] : i \in DOMAIN out[s]}

Init == log = [s \in Slots |-> {}] /\ out = [s \in Slots |-> <<>>]

\* A session ID is never used twice, in this slot or in another.
Start(s) ==
    /\ Open(s) = {}
    /\ \E id \in {1} \cup {k + 1 : k \in Started} :
         /\ \A k \in Started : k < id
         /\ log' = [log EXCEPT ![s] = @ \cup {<<"SESSION_STARTED", id>>}]
    /\ UNCHANGED out

End(s) ==
    /\ \E id \in Open(s) : log' = [log EXCEPT ![s] = @ \cup {<<"SESSION_ENDED", id>>}]
    /\ UNCHANGED out

\* The first entry not heard yet, or once more the one heard last.
Deliver(s) ==
    /\ \E e \in log[s] :
         /\ \/ \A f \in log[s] : f \in Heard(s) <=> Place(f) < Place(e)
            \/ out[s] # <<>> /\ e = out[s][Len(out[s])]
         /\ out' = [out EXCEPT ![s] = Append(@, e)]
    /\ UNCHANGED log

Next == \E s \in Slots : Start(s) \/ End(s) \/ Deliver(s)

Spec == Init /\ [][Next]_<<log, out>>
=============================================================================
