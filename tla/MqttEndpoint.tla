---------------------------- MODULE MqttEndpoint ----------------------------
(***************************************************************************)
(* The lifecycle of the MQTT connection (Pi_Server/src/mqtt/               *)
(* MqttEndpoint.cpp) over its transport (MosquittoTransport.cpp).          *)
(*                                                                         *)
(* The supervisor thread of the transport delivers messages to the         *)
(* application handler and facts to the observers, each under a lease.     *)
(* The fire coordinator publishes under a lease of its own, and may ask    *)
(* for the active epoch to be aborted.  Start, quiesce and stop hold the   *)
(* lifecycle mutex through every wait.                                     *)
(***************************************************************************)
EXTENDS CallbackLeaseGate

CONSTANTS
    Callers,    \* threads that may call RuntimeShutdown::shutdown
    Requests    \* threads of the HTTP server that run a request

Threads == {"net", "worker"} \cup Requests
Free == "nobody"

ASSUME ThreadAssumption ==
    /\ Callers \cap (Threads \cup {Free}) = {}
    /\ Requests \cap {"net", "worker", Free} = {}

VARIABLES
    state,      \* state_
    bound,      \* applicationHandler_ and transportObservers_ are set
    quiesced,   \* transportObserversQuiesced_
    transport,  \* the transport: "none", "up", "stopping", "joined"
    net,        \* where the supervisor thread is
    worker,     \* where the fire coordinator's thread is
    effect,     \* where a thread of the parking domain is that publishes
    mutex,      \* who holds lifecycle_mutex_ and lifecycleOperationMutex_
    op,         \* the operation under way and the step it is at
    verdict     \* what the last operation of the shutdown returned

NoOp == [name |-> "none", at |-> "none"]

endpointVars == <<gate, state, bound, quiesced, transport, net, worker, effect,
                  mutex, op, verdict>>

GateNames == {"request", "application", "tracked", "observer"}
OpNames == {"none", "start", "quiesceIngress", "quiesceTransportObservers", "stop"}
Steps == {"none", "start", "application", "tracked", "join", "closeTracked",
          "awaitTracked", "observer", "finish"}

EndpointTypeOK ==
    /\ gate \in Gates(GateNames, Threads)
    /\ state \in {"Constructed", "Running", "Quiescing", "Stopped"}
    /\ bound \in BOOLEAN /\ quiesced \in BOOLEAN
    /\ transport \in {"none", "up", "stopping", "joined"}
    /\ net \in {"none", "loop", "admitted", "handler", "exited"}
    /\ worker \in {"idle", "admitted", "publish", "notify", "abort", "gone"}
    /\ effect \in {"idle", "publish", "gone"}
    /\ mutex \in {Free} \cup Callers
    /\ op \in [name : OpNames, at : Steps]
    /\ verdict \in {"none", "done", "failed"}

EndpointInit ==
    /\ gate = [g \in GateNames |-> OpenGate]
    /\ state = "Constructed" /\ bound = TRUE /\ quiesced = FALSE
    /\ transport = "none" /\ net = "none"
    /\ worker = "idle" /\ effect = "idle"
    /\ mutex = Free /\ op = NoOp /\ verdict = "none"

Live == state \in {"Running", "Quiescing"}

(***************************************************************************)
(* The supervisor thread                                                   *)
(***************************************************************************)
\* dispatchApplication or dispatchTransportFact takes its lease.  Messages are
\* dropped once stopping_ is set, facts are not.
NetAdmit(g) ==
    /\ net = "loop"
    /\ g = "application" => transport = "up"
    /\ tryAcquire(g, "net")
    /\ net' = "admitted"
    /\ UNCHANGED <<state, bound, quiesced, transport, worker, effect, mutex, op, verdict>>

NetLease(g) == g \in {"application", "observer"} /\ "net" \in gate[g].leases

\* The handler is copied under stateMutex_; a cleared one is not called.
NetCopy ==
    /\ net = "admitted"
    /\ IF bound THEN net' = "handler" /\ UNCHANGED gate
       ELSE /\ net' = "loop"
            /\ \E g \in GateNames : NetLease(g) /\ release(g, "net")
    /\ UNCHANGED <<state, bound, quiesced, transport, worker, effect, mutex, op, verdict>>

NetReturn(g) ==
    /\ net = "handler" /\ NetLease(g)
    /\ release(g, "net")
    /\ net' = "loop"
    /\ UNCHANGED <<state, bound, quiesced, transport, worker, effect, mutex, op, verdict>>

\* supervisorLoop leaves its loop.
NetExit ==
    /\ net = "loop" /\ transport = "stopping"
    /\ net' = "exited"
    /\ UNCHANGED <<gate, state, bound, quiesced, transport, worker, effect, mutex, op,
                   verdict>>

(***************************************************************************)
(* Publishers                                                              *)
(***************************************************************************)
WorkerAdmit ==
    /\ worker = "idle"
    /\ tryAcquire("tracked", "worker")
    /\ worker' = "admitted"
    /\ UNCHANGED <<state, bound, quiesced, transport, net, effect, mutex, op, verdict>>

WorkerChecks ==
    /\ worker = "admitted"
    /\ IF Live /\ ~quiesced THEN worker' = "publish" /\ UNCHANGED gate
       ELSE worker' = "idle" /\ release("tracked", "worker")
    /\ UNCHANGED <<state, bound, quiesced, transport, net, effect, mutex, op, verdict>>

\* The lease ends with publishTracked; publishTrackedFire goes on to the notifier.
WorkerPublishes ==
    /\ worker = "publish"
    /\ release("tracked", "worker")
    /\ worker' \in {"idle"} \cup (IF transport = "up" THEN {"notify"} ELSE {})
    /\ UNCHANGED <<state, bound, quiesced, transport, net, effect, mutex, op, verdict>>

WorkerNotifies ==
    /\ worker = "notify"
    /\ worker' = "idle"
    /\ UNCHANGED <<gate, state, bound, quiesced, transport, net, effect, mutex, op, verdict>>

\* The coordinator's fault handler.
WorkerFaults ==
    /\ worker = "idle" /\ worker' = "abort"
    /\ UNCHANGED <<gate, state, bound, quiesced, transport, net, effect, mutex, op, verdict>>

\* abortActiveEpoch waits for the lifecycle mutex; the abort itself is short.
WorkerAborts ==
    /\ worker = "abort" /\ mutex = Free /\ worker' = "idle"
    /\ UNCHANGED <<gate, state, bound, quiesced, transport, net, effect, mutex, op, verdict>>

\* publish and publishInEpoch hold no lease between the check and the transport.
EffectChecks ==
    /\ effect = "idle" /\ Live /\ effect' = "publish"
    /\ UNCHANGED <<gate, state, bound, quiesced, transport, net, worker, mutex, op, verdict>>

EffectPublishes ==
    /\ effect = "publish" /\ effect' = "idle"
    /\ UNCHANGED <<gate, state, bound, quiesced, transport, net, worker, mutex, op, verdict>>

(***************************************************************************)
(* Lifecycle operations                                                    *)
(***************************************************************************)
peers == <<net, worker, effect>>

Enter(c, name, at) ==
    /\ mutex = Free
    /\ mutex' = c /\ op' = [name |-> name, at |-> at] /\ verdict' = "none"

Step(at) == op' = [op EXCEPT !.at = at] /\ UNCHANGED <<mutex, verdict>>
Return(answer) == mutex' = Free /\ op' = NoOp /\ verdict' = answer

closeIngressLocked ==
    /\ close("application")
    /\ state' = IF state = "Stopped" THEN state ELSE "Quiescing"

closeIngress ==
    /\ mutex = Free
    /\ closeIngressLocked
    /\ UNCHANGED <<bound, quiesced, transport, peers, mutex, op, verdict>>

start(c) ==
    /\ state = "Constructed"
    /\ Enter(c, "start", "start")
    /\ state' = "Running"
    /\ UNCHANGED <<gate, bound, quiesced, transport, peers>>

\* The supervisor thread runs, or the endpoint is stopped again on the spot.
StartTransport ==
    /\ op.at = "start"
    /\ \/ /\ transport' = "up" /\ net' = "loop" /\ Return("done")
          /\ UNCHANGED <<gate, state>>
       \/ closeIngressLocked /\ Step("application") /\ UNCHANGED <<transport, net>>
    /\ UNCHANGED <<bound, quiesced, worker, effect>>

quiesceIngress(c) ==
    /\ Enter(c, "quiesceIngress", "application")
    /\ closeIngressLocked
    /\ UNCHANGED <<bound, quiesced, transport, peers>>

quiesceTransportObservers(c) ==
    /\ Enter(c, "quiesceTransportObservers", "awaitTracked")
    /\ close("tracked")
    /\ UNCHANGED <<state, bound, quiesced, transport, peers>>

stop(c) ==
    /\ mutex = Free
    /\ IF state = "Stopped"
       THEN verdict' = "done" /\ UNCHANGED <<gate, state, mutex, op>>
       ELSE Enter(c, "stop", "application") /\ closeIngressLocked
    /\ UNCHANGED <<bound, quiesced, transport, peers>>

\* waitForDrainedFor gives up only on a gate that is still held.
AwaitDrained(at, g) == op.at = at /\ Drained(g)
TimesOut(at, g) ==
    /\ op.at = at /\ ~Drained(g)
    /\ Return("failed")
    /\ UNCHANGED <<gate, state, bound, quiesced, transport, peers>>

AwaitApplication ==
    /\ AwaitDrained("application", "application")
    /\ IF op.name = "quiesceIngress" THEN Return("done") /\ UNCHANGED gate
       ELSE Step("tracked") /\ close("tracked")
    /\ UNCHANGED <<state, bound, quiesced, transport, peers>>

\* stopLocked waits for tracked publishers and tells the transport to stop, once.
AwaitTracked ==
    /\ AwaitDrained("tracked", "tracked")
    /\ IF transport = "joined" THEN Step("closeTracked") /\ UNCHANGED transport
       ELSE Step("join") /\ transport' = "stopping"
    /\ UNCHANGED <<gate, state, bound, quiesced, peers>>

\* Mutant: the transport's thread is told to stop and not waited for.
BugDetaches ==
    /\ op.at = "join"
    /\ transport' = "joined"
    /\ Step("closeTracked")
    /\ UNCHANGED <<gate, state, bound, quiesced, peers>>

\* stopAndJoin joins the supervisor thread, for as long as that takes.
JoinTransport ==
    /\ op.at = "join" /\ net \in {"none", "exited"}
    /\ transport' = "joined"
    /\ Step("closeTracked")
    /\ UNCHANGED <<gate, state, bound, quiesced, peers>>

CloseTracked ==
    /\ op.at = "closeTracked"
    /\ close("tracked")
    /\ Step("awaitTracked")
    /\ UNCHANGED <<state, bound, quiesced, transport, peers>>

\* Mutant: the observers are shut while a publisher is still inside.
BugShutsAtOnce ==
    /\ op.at = "awaitTracked"
    /\ quiesced' = TRUE
    /\ close("observer")
    /\ Step("observer")
    /\ UNCHANGED <<state, bound, transport, peers>>

MarkQuiesced ==
    /\ AwaitDrained("awaitTracked", "tracked")
    /\ quiesced' = TRUE
    /\ close("observer")
    /\ Step("observer")
    /\ UNCHANGED <<state, bound, transport, peers>>

AwaitObservers ==
    /\ AwaitDrained("observer", "observer")
    /\ IF op.name = "quiesceTransportObservers" THEN Return("done") ELSE Step("finish")
    /\ UNCHANGED <<gate, state, bound, quiesced, transport, peers>>

\* The handlers are cleared; start that stopped again reports failure.
FinishStop ==
    /\ op.at = "finish"
    /\ bound' = FALSE /\ state' = "Stopped"
    /\ Return(IF op.name = "start" THEN "failed" ELSE "done")
    /\ UNCHANGED <<gate, quiesced, transport, peers>>

Operation ==
    \/ StartTransport
    \/ AwaitApplication \/ TimesOut("application", "application")
    \/ AwaitTracked \/ TimesOut("tracked", "tracked")
    \/ JoinTransport \/ CloseTracked
    \/ MarkQuiesced \/ TimesOut("awaitTracked", "tracked")
    \/ AwaitObservers \/ TimesOut("observer", "observer")
    \/ FinishStop
=============================================================================
