--------------------------- MODULE RuntimeShutdown ---------------------------
(***************************************************************************)
(* The shutdown of the server (Pi_Server/src/app/RuntimeShutdown.cpp with  *)
(* the hooks of src/main.cpp) around the MQTT endpoint and the HTTP        *)
(* server.  One caller runs the hooks in order while callbacks, requests   *)
(* and publishers are under way; the others wait for its answer.           *)
(*                                                                         *)
(* The eight hooks from "sensor-ingress" to "rtsp" are one hook here: each *)
(* joins the threads of one domain service or throws.                      *)
(***************************************************************************)
EXTENDS MqttEndpoint

VARIABLES
    shutdown,   \* state_
    hook,       \* the hook that runs
    phase,      \* how far it is
    caller,     \* caller[c]: where each call of shutdown() is
    alive       \* what the hooks have not stopped, destroyed or closed

shutdownVars == <<shutdown, hook, phase, caller, alive>>
vars == <<endpointVars, shutdownVars>>

Hooks == {"stopHttp", "quiesceMqttApplication", "drainDomain", "drainFire",
          "drainReporter", "stopMqtt", "destroyCallbackTargets", "closeDatabase"}
\* Mutant: the reporter and the notifier stop before the fire delivery does.
BugReporterFirst == [stopHttp |-> "quiesceMqttApplication",
                     quiesceMqttApplication |-> "drainDomain",
                     drainDomain |-> "drainReporter",
                     drainReporter |-> "drainFire",
                     drainFire |-> "stopMqtt",
                     stopMqtt |-> "destroyCallbackTargets",
                     destroyCallbackTargets |-> "closeDatabase",
                     closeDatabase |-> "none"]

After == [stopHttp |-> "quiesceMqttApplication",
          quiesceMqttApplication |-> "drainDomain",
          drainDomain |-> "drainFire",
          drainFire |-> "drainReporter",
          drainReporter |-> "stopMqtt",
          stopMqtt |-> "destroyCallbackTargets",
          destroyCallbackTargets |-> "closeDatabase",
          closeDatabase |-> "none"]

Targets == {"domain", "coordinator", "notifier", "objects", "database"}
Ends == [stopHttp |-> {}, quiesceMqttApplication |-> {}, drainDomain |-> {"domain"},
         drainFire |-> {"coordinator"}, drainReporter |-> {"notifier"}, stopMqtt |-> {},
         destroyCallbackTargets |-> {"objects"}, closeDatabase |-> {"database"}]

Init ==
    /\ EndpointInit
    /\ shutdown = "Running" /\ hook = "none" /\ phase = "begin"
    /\ caller = [c \in Callers |-> "out"]
    /\ alive = Targets

TypeOK ==
    /\ EndpointTypeOK
    /\ shutdown \in {"Running", "Stopping", "Stopped", "Failed"}
    /\ hook \in Hooks \cup {"none"}
    /\ phase \in {"begin", "endpoint", "drain", "await", "join"}
    /\ caller \in [Callers -> {"out", "leading", "waiting", "true", "false"}]
    /\ alive \subseteq Targets

-----------------------------------------------------------------------------
(***************************************************************************)
(* shutdown()                                                              *)
(***************************************************************************)
Answer(s) == IF s = "Stopped" THEN "true" ELSE "false"

Shutdown(c) ==
    /\ caller[c] = "out" /\ mutex # c
    /\ IF shutdown = "Running"
       THEN /\ shutdown' = "Stopping" /\ hook' = "stopHttp" /\ phase' = "begin"
            /\ caller' = [caller EXCEPT ![c] = "leading"]
       ELSE /\ caller' = [caller EXCEPT ![c] =
                            IF shutdown = "Stopping" THEN "waiting" ELSE Answer(shutdown)]
            /\ UNCHANGED <<shutdown, hook, phase>>
    /\ UNCHANGED <<endpointVars, alive>>

Wakes(c) == caller[c] = "waiting" /\ shutdown \in {"Stopped", "Failed"}

Wake(c) ==
    /\ Wakes(c)
    /\ caller' = [caller EXCEPT ![c] = Answer(shutdown)]
    /\ UNCHANGED <<endpointVars, shutdown, hook, phase, alive>>

AnswerLeader(s) ==
    caller' = [c \in Callers |-> IF caller[c] = "leading" THEN Answer(s) ELSE caller[c]]

\* The hook returned.  After the last one the shutdown is complete.
HookReturns ==
    /\ hook' = After[hook] /\ phase' = "begin"
    /\ alive' = alive \ Ends[hook]
    /\ IF After[hook] = "none" THEN shutdown' = "Stopped" /\ AnswerLeader("Stopped")
       ELSE UNCHANGED <<shutdown, caller>>

\* Mutant: the failing caller returns and the state stays Stopping.
BugFailsAlone ==
    /\ hook' = "none" /\ phase' = "begin"
    /\ AnswerLeader("Failed")
    /\ UNCHANGED <<shutdown, alive>>

\* The hook threw: the ones after it do not run, now or later.
HookThrows ==
    /\ hook' = "none" /\ phase' = "begin"
    /\ shutdown' = "Failed" /\ AnswerLeader("Failed")
    /\ UNCHANGED alive

Leader(c) == caller[c] = "leading"
Phase(p) == phase' = p /\ UNCHANGED <<shutdown, hook, caller, alive>>
At(h, p) == hook = h /\ phase = p

\* A hook that called the endpoint waits for its answer.
EndpointAnswers(h) ==
    /\ At(h, "await")
    /\ \/ verdict = "done" /\ h # "drainFire" /\ HookReturns
       \/ verdict = "done" /\ h = "drainFire" /\ Phase("join")
       \/ verdict = "failed" /\ HookThrows
    /\ UNCHANGED endpointVars

(***************************************************************************)
(* The hooks                                                               *)
(***************************************************************************)
\* Request gate, then MQTT ingress, then the wait for the open requests.
CloseHttpIngress ==
    /\ At("stopHttp", "begin")
    /\ close("request")
    /\ Phase("endpoint")
    /\ UNCHANGED <<state, bound, quiesced, transport, peers, mutex, op, verdict>>

CloseMqttIngress ==
    /\ At("stopHttp", "endpoint")
    /\ closeIngress
    /\ Phase("drain")

DrainHttp ==
    /\ At("stopHttp", "drain")
    /\ IF Drained("request") THEN HookReturns ELSE HookThrows
    /\ UNCHANGED endpointVars

CallEndpoint(c) ==
    /\ Leader(c)
    /\ \/ At("quiesceMqttApplication", "begin") /\ quiesceIngress(c)
       \/ At("drainFire", "endpoint") /\ quiesceTransportObservers(c)
       \/ At("stopMqtt", "begin") /\ stop(c)
    /\ Phase("await")

\* The services are joined, or one of them does not drain in time.
DrainDomain ==
    /\ At("drainDomain", "begin")
    /\ \/ effect = "idle" /\ effect' = "gone" /\ HookReturns
       \/ HookThrows /\ UNCHANGED effect
    /\ UNCHANGED <<gate, state, bound, quiesced, transport, net, worker, mutex, op, verdict>>

\* The alarm service has stopped, or its commands do not drain; what is left
\* to deliver stays in the outbox.
StopFireService ==
    /\ At("drainFire", "begin")
    /\ Phase("endpoint") \/ HookThrows
    /\ UNCHANGED endpointVars

\* FireDeliveryCoordinator::stop joins the worker.
JoinCoordinator ==
    /\ At("drainFire", "join")
    /\ worker = "idle" /\ worker' = "gone"
    /\ HookReturns
    /\ UNCHANGED <<gate, state, bound, quiesced, transport, net, effect, mutex, op, verdict>>

StopReporter ==
    /\ At("drainReporter", "begin")
    /\ HookReturns \/ HookThrows
    /\ UNCHANGED endpointVars

Destroy ==
    /\ At("destroyCallbackTargets", "begin") \/ At("closeDatabase", "begin")
    /\ HookReturns
    /\ UNCHANGED endpointVars

-----------------------------------------------------------------------------
(***************************************************************************)
(* Requests and the rest of the process                                    *)
(***************************************************************************)
\* The HTTP server opens last, after MQTT has started.
BeginRequest(r) ==
    /\ transport = "up"
    /\ tryAcquire("request", r)
    /\ UNCHANGED <<state, bound, quiesced, transport, peers, mutex, op, verdict>>
    /\ UNCHANGED shutdownVars

EndRequest(r) ==
    /\ r \in gate["request"].leases
    /\ release("request", r)
    /\ UNCHANGED <<state, bound, quiesced, transport, peers, mutex, op, verdict>>
    /\ UNCHANGED shutdownVars

Start(c) == caller[c] = "out" /\ start(c) /\ UNCHANGED shutdownVars
Operate == Operation /\ UNCHANGED shutdownVars

Net ==
    /\ \/ \E g \in {"application", "observer"} : NetAdmit(g) \/ NetReturn(g)
       \/ NetCopy \/ NetExit
    /\ UNCHANGED shutdownVars

Publish ==
    /\ \/ WorkerAdmit \/ WorkerChecks \/ WorkerPublishes \/ WorkerNotifies
       \/ WorkerFaults \/ WorkerAborts
       \/ EffectChecks \/ EffectPublishes
    /\ UNCHANGED shutdownVars

Hook ==
    \/ CloseHttpIngress \/ CloseMqttIngress \/ DrainHttp
    \/ \E c \in Callers : CallEndpoint(c)
    \/ \E h \in {"quiesceMqttApplication", "drainFire", "stopMqtt"} : EndpointAnswers(h)
    \/ DrainDomain \/ StopFireService \/ JoinCoordinator \/ StopReporter \/ Destroy

Next ==
    \/ \E c \in Callers : Shutdown(c) \/ Wake(c) \/ Start(c)
    \/ Hook \/ Operate \/ Net \/ Publish
    \/ \E r \in Requests : BeginRequest(r) \/ EndRequest(r)

Spec == Init /\ [][Next]_vars

(***************************************************************************)
(* Every wait but two has a deadline, so neither a message handler nor an  *)
(* HTTP request has to return.  The joins have none: an observer only      *)
(* queues its fact, and a turn of a joined thread ends and sees the stop   *)
(* flag, whatever else the thread had found to do.                         *)
(***************************************************************************)
Fairness ==
    /\ WF_vars(Hook) /\ WF_vars(Operate)
    /\ \A c \in Callers : WF_vars(Wake(c))
    /\ WF_vars(NetCopy /\ UNCHANGED shutdownVars)
    /\ WF_vars(NetReturn("observer") /\ UNCHANGED shutdownVars)
    /\ SF_vars(NetExit /\ UNCHANGED shutdownVars)
    /\ WF_vars(WorkerChecks /\ UNCHANGED shutdownVars)
    /\ WF_vars(WorkerPublishes /\ UNCHANGED shutdownVars)
    /\ WF_vars(WorkerNotifies /\ UNCHANGED shutdownVars)
    /\ WF_vars(WorkerAborts /\ UNCHANGED shutdownVars)
    /\ SF_vars(JoinCoordinator)
    /\ SF_vars(DrainDomain)

FairSpec == Spec /\ Fairness

-----------------------------------------------------------------------------
(***************************************************************************)
(* Properties                                                              *)
(***************************************************************************)

\* What a thread may touch where it is.
Uses ==
    (IF net # "handler" THEN {}
     ELSE IF "net" \in gate["application"].leases
          THEN {"domain", "notifier", "objects", "database"} ELSE {"coordinator", "objects"})
    \cup (IF worker = "gone" THEN {} ELSE {"coordinator", "objects", "database"})
    \cup (IF worker = "notify" THEN {"notifier"} ELSE {})
    \cup (IF effect = "publish" THEN {"domain", "notifier", "objects", "database"} ELSE {})
    \cup (IF gate["request"].leases # {} THEN {"domain", "objects", "database"} ELSE {})

\* No callback, request or publisher runs on something a hook has stopped,
\* destroyed or closed, at whatever moment the shutdown came and whichever
\* hook failed (the order of RuntimeShutdown.cpp:59-75 and main.cpp:1266-1364).
UsedIsAlive == Uses \subseteq alive

\* A tracked publish reaches the transport only while the answer to it can
\* still be heard: the publishers are out before the observers are shut
\* (MqttEndpoint.cpp:94-104).
AcceptedPublishIsHeard == worker = "publish" => gate["observer"].open

\* All callers get the same answer, and true means that nothing is left: every
\* thread has ended and every hook has run (RuntimeShutdown.cpp:40-95).
TrueMeansGone ==
    \A c \in Callers : caller[c] = "true" =>
        /\ alive = {} /\ state = "Stopped"
        /\ net \in {"none", "exited"} /\ worker = "gone" /\ effect = "gone"
        /\ \A g \in GateNames : gate[g] = [open |-> FALSE, leases |-> {}]
        /\ \A d \in Callers : caller[d] # "false"

\* Every call of shutdown() returns, even if a message handler or a request
\* hangs: a drain that does not come is an answer of its own.
ShutdownReturns ==
    \A c \in Callers : caller[c] \in {"leading", "waiting"} ~> caller[c] \in {"true", "false"}
=============================================================================
