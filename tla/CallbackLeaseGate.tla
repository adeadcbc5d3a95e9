-------------------------- MODULE CallbackLeaseGate --------------------------
(***************************************************************************)
(* The admission gate every callback of the server passes                  *)
(* (Pi_Server/include/app/CallbackLeaseGate.hpp).  A gate is its flag and  *)
(* the threads that hold a lease of it; State::active is their number.     *)
(***************************************************************************)

VARIABLE gate    \* gate[g]: [open, leases], one CallbackLeaseGate each

Gates(names, threads) == [names -> [open : BOOLEAN, leases : SUBSET threads]]

OpenGate == [open |-> TRUE, leases |-> {}]

tryAcquire(g, t) ==
    /\ gate[g].open
    /\ gate' = [gate EXCEPT ![g].leases = @ \cup {t}]

release(g, t) == gate' = [gate EXCEPT ![g].leases = @ \ {t}]

close(g) == gate' = [gate EXCEPT ![g].open = FALSE]

Drained(g) == gate[g].leases = {}
=============================================================================
