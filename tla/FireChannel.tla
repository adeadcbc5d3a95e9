----------------------------- MODULE FireChannel -----------------------------
(***************************************************************************)
(* What fire delivery promises to a subscriber of the broker, without      *)
(* outbox, epochs or acknowledgements.  The retained message of a channel  *)
(* moves forward along the committed revisions and may skip some of them;  *)
(* the lifecycle messages name every revision, in order, and never one the *)
(* retained message has not reached.  A broker that restarts without its   *)
(* retained messages shows nothing until it is told again.                 *)
(***************************************************************************)
EXTENDS Integers

CONSTANTS Channels

VARIABLES
    committed,   \* committed[c]: last revision of the channel
    shown,       \* shown[c]: revision of the retained message, 0 if none
    told         \* told[c]: last lifecycle message, repetitions left out

Init ==
    /\ committed = [c \in Channels |-> 1]
    /\ shown = [c \in Channels |-> 0]
    /\ told = [c \in Channels |-> 1]

Commit(c) ==
    /\ committed' = [committed EXCEPT ![c] = @ + 1]
    /\ UNCHANGED <<shown, told>>

Show(c) ==
    /\ \E r \in (shown[c] + 1)..committed[c] : shown' = [shown EXCEPT ![c] = r]
    /\ UNCHANGED <<committed, told>>

Tell(c) ==
    /\ told[c] + 1 <= shown[c]
    /\ told' = [told EXCEPT ![c] = @ + 1]
    /\ UNCHANGED <<committed, shown>>

Forget ==
    /\ shown' = [c \in Channels |-> 0]
    /\ UNCHANGED <<committed, told>>

Next == Forget \/ \E c \in Channels : Commit(c) \/ Show(c) \/ Tell(c)

Spec == Init /\ [][Next]_<<committed, shown, told>>
=============================================================================
