----------------------- MODULE RuntimeShutdownProofs -----------------------
(***************************************************************************)
(* For any number of callers and of HTTP threads: no callback, request or  *)
(* publisher runs on something the shutdown has ended, and a tracked       *)
(* publish is accepted only while its answer can be heard; a shutdown that *)
(* answers true has ended all of it, whichever caller asks.                *)
(***************************************************************************)
EXTENDS RuntimeShutdown, TLAPS

Shut(g) == ~gate[g].open /\ gate[g].leases = {}

\* Who holds a lease, told by where the thread is.
LeaseInv ==
    /\ gate["application"].leases \cap gate["observer"].leases = {}
    /\ gate["application"].leases \cup gate["observer"].leases =
         (IF net \in {"admitted", "handler"} THEN {"net"} ELSE {})
    /\ gate["tracked"].leases =
         (IF worker \in {"admitted", "publish"} THEN {"worker"} ELSE {})
    /\ state = "Constructed" => net = "none"
    /\ op.at = "start" => net = "none" /\ state # "Constructed"

\* The observers are shut only behind the tracked publishers.
GateInv ==
    /\ ~gate["observer"].open => Shut("tracked")
    /\ op.at = "awaitTracked" => ~gate["tracked"].open
    /\ op.at = "observer" => ~gate["observer"].open

\* What each ended target took to end.
EndInv ==
    /\ "domain" \notin alive => Shut("request") /\ Shut("application") /\ effect = "gone"
    /\ "coordinator" \notin alive =>
         "domain" \notin alive /\ Shut("observer") /\ worker = "gone"
    /\ "notifier" \notin alive => "coordinator" \notin alive
    /\ "objects" \notin alive => "notifier" \notin alive
    /\ "database" \notin alive => "objects" \notin alive

\* What has been reached before each hook.
HookInv ==
    /\ hook = "stopHttp" /\ phase # "begin" => ~gate["request"].open
    /\ hook = "stopHttp" /\ phase = "drain" => state # "Constructed" /\ op = NoOp
    /\ hook = "quiesceMqttApplication" => Shut("request")
    /\ hook = "drainDomain" => Shut("request") /\ Shut("application")
    /\ hook = "drainFire" => "domain" \notin alive
    /\ hook = "drainFire" /\ phase = "join" => Shut("observer")
    /\ hook = "drainReporter" => "coordinator" \notin alive
    /\ hook \in {"stopMqtt", "destroyCallbackTargets"} => "notifier" \notin alive
    /\ hook = "closeDatabase" => "objects" \notin alive

\* The endpoint's answer is the answer to the hook that waits for it.
AwaitInv ==
    /\ hook \in Hooks \ {"stopHttp"} => state # "Constructed"
    /\ hook \in Hooks \ {"stopHttp"} /\ phase # "await" => op = NoOp
    /\ op = NoOp <=> mutex = Free
    /\ op # NoOp => verdict = "none"
    /\ hook = "quiesceMqttApplication" /\ phase = "await" =>
         /\ ~gate["application"].open
         /\ op = NoOp \/ op = [name |-> "quiesceIngress", at |-> "application"]
         /\ verdict = "done" => Shut("application")
    /\ hook = "drainFire" /\ phase = "await" =>
         /\ op = NoOp \/ op.name = "quiesceTransportObservers"
         /\ op # NoOp => op.at \in {"awaitTracked", "observer"}
         /\ verdict = "done" => Shut("observer")

\* The transport is joined before the endpoint counts as stopped, and is not
\* brought up again.
TransportInv ==
    /\ op.at = "start" => transport = "none"
    /\ state = "Constructed" => transport = "none" /\ op = NoOp
    /\ op.at \in {"closeTracked", "finish"} => transport = "joined"
    /\ op.at \in {"awaitTracked", "observer"} =>
         op.name = "quiesceTransportObservers" \/ transport = "joined"
    /\ state = "Stopped" => transport = "joined"
    /\ transport = "joined" => net \in {"none", "exited"}

\* Who has an answer, and what the shutdown has done by then.
AnswerInv ==
    /\ hook # "none" => shutdown = "Stopping"
    /\ \A c \in Callers : /\ caller[c] = "true" => shutdown = "Stopped"
                          /\ caller[c] = "false" => shutdown = "Failed"
    /\ hook = "stopMqtt" /\ phase = "await" =>
         /\ op = NoOp \/ (op.name = "stop" /\ op.at # "start")
         /\ verdict = "done" => state = "Stopped"
    /\ hook \in {"destroyCallbackTargets", "closeDatabase"} => state = "Stopped"
    /\ shutdown = "Stopped" => state = "Stopped" /\ "database" \notin alive

IInv == TypeOK /\ LeaseInv /\ GateInv /\ EndInv /\ HookInv /\ AwaitInv

LEMMA InitIInv == Init => IInv
<1> SUFFICES ASSUME Init PROVE IInv
  OBVIOUS
<1>1. TypeOK
  BY DEF Init, EndpointInit, TypeOK, EndpointTypeOK, Gates, OpenGate, GateNames, NoOp,
         OpNames, Steps, Threads, Targets, Free
<1>2. LeaseInv /\ GateInv /\ EndInv
  BY DEF Init, EndpointInit, OpenGate, GateNames, LeaseInv, GateInv, EndInv, NoOp, Targets
<1>3. HookInv /\ AwaitInv
  BY DEF Init, EndpointInit, HookInv, AwaitInv, Hooks, NoOp
<1> QED BY <1>1, <1>2, <1>3 DEF IInv

LEMMA GateSteps ==
    ASSUME gate \in Gates(GateNames, Threads), NEW g \in GateNames, NEW t \in Threads,
           tryAcquire(g, t) \/ release(g, t) \/ close(g)
    PROVE  gate' \in Gates(GateNames, Threads)
<1> DEFINE Row == [open : BOOLEAN, leases : SUBSET Threads]
<1>1. gate[g] \in Row
  BY DEF Gates
<1>2. /\ [gate[g] EXCEPT !.open = FALSE] \in Row
      /\ [gate[g] EXCEPT !.leases = @ \cup {t}] \in Row
      /\ [gate[g] EXCEPT !.leases = @ \ {t}] \in Row
  BY <1>1
<1>3. \E row \in Row : gate' = [gate EXCEPT ![g] = row]
  BY <1>2 DEF tryAcquire, release, close
<1> HIDE DEF Row
<1>4. gate \in [GateNames -> Row] => gate' \in [GateNames -> Row]
  BY <1>3
<1> QED BY <1>4 DEF Gates, Row

LEMMA TypeStep == ASSUME TypeOK, Next PROVE TypeOK'
<1> USE DEF TypeOK, EndpointTypeOK
<1>0. Free \notin Callers /\ {"net", "worker"} \cup Requests = Threads
  BY ThreadAssumption DEF Threads
<1>1. ASSUME NEW c \in Callers, Shutdown(c) \/ Wake(c) PROVE TypeOK'
  BY <1>1 DEF Shutdown, Wake, Answer, endpointVars, Hooks
<1>2. ASSUME NEW c \in Callers, Start(c) PROVE TypeOK'
  BY <1>2 DEF Start, start, Enter, peers, shutdownVars, OpNames, Steps
<1>3. CASE Net
  BY <1>3, <1>0, GateSteps DEF Net, NetAdmit, NetReturn, NetCopy, NetExit, NetLease,
     shutdownVars, GateNames
<1>4. CASE Publish
  BY <1>4, <1>0, GateSteps DEF Publish, WorkerAdmit, WorkerChecks, WorkerPublishes,
     WorkerNotifies, WorkerFaults, WorkerAborts, EffectChecks, EffectPublishes,
     shutdownVars, GateNames
<1>5. ASSUME NEW r \in Requests, BeginRequest(r) \/ EndRequest(r) PROVE TypeOK'
  BY <1>5, <1>0, GateSteps DEF BeginRequest, EndRequest, peers, shutdownVars, GateNames
<1>6. CASE Operate
  <2>1. UNCHANGED shutdownVars
    BY <1>6 DEF Operate
  <2> USE <1>0, <2>1, GateSteps DEF Step, Return, NoOp, peers, shutdownVars, GateNames,
          OpNames, Steps
  <2>2. ASSUME StartTransport PROVE TypeOK'
    BY <2>2 DEF StartTransport, closeIngressLocked
  <2>3. ASSUME NEW a, NEW g, TimesOut(a, g) PROVE TypeOK'
    BY <2>3 DEF TimesOut
  <2>4. ASSUME AwaitApplication PROVE TypeOK'
    BY <2>4 DEF AwaitApplication
  <2>5. ASSUME AwaitTracked \/ JoinTransport PROVE TypeOK'
    BY <2>5 DEF AwaitTracked, JoinTransport
  <2>6. ASSUME CloseTracked PROVE TypeOK'
    BY <2>6 DEF CloseTracked
  <2>7. ASSUME MarkQuiesced PROVE TypeOK'
    <3>1. quiesced' \in BOOLEAN /\ bound' \in BOOLEAN
      BY <2>7, Zenon DEF MarkQuiesced
    <3> QED BY <2>7, <3>1 DEF MarkQuiesced
  <2>8. ASSUME AwaitObservers PROVE TypeOK'
    BY <2>8 DEF AwaitObservers
  <2>9. ASSUME FinishStop PROVE TypeOK'
    <3>1. quiesced' \in BOOLEAN /\ bound' \in BOOLEAN
      BY <2>9, Zenon DEF FinishStop
    <3> QED BY <2>9, <3>1 DEF FinishStop
  <2> QED BY <1>6, <2>2, <2>3, <2>4, <2>5, <2>6, <2>7, <2>8, <2>9
    DEF Operate, Operation
<1>7. CASE Hook
  BY <1>7, <1>0, GateSteps DEF Hook, CloseHttpIngress, CloseMqttIngress, DrainHttp,
     CallEndpoint, EndpointAnswers, DrainDomain, StopFireService, JoinCoordinator,
     StopReporter, Destroy, HookReturns, HookThrows, Phase, At, AnswerLeader, Answer,
     quiesceIngress, quiesceTransportObservers, stop, Enter, closeIngress,
     closeIngressLocked, After, Ends, Hooks, endpointVars, peers, GateNames, OpNames, Steps
<1> QED BY <1>1, <1>2, <1>3, <1>4, <1>5, <1>6, <1>7 DEF Next

\* What the operations of a gate do to it, and that they do it to no other.
LEMMA Closing ==
    ASSUME gate \in Gates(GateNames, Threads), NEW g \in GateNames, close(g)
    PROVE  /\ ~gate'[g].open
           /\ \A h \in GateNames : gate'[h].leases = gate[h].leases
           /\ \A h \in GateNames \ {g} : gate'[h] = gate[h]
  BY DEF Gates, close

LEMMA Releasing ==
    ASSUME gate \in Gates(GateNames, Threads), NEW g \in GateNames, NEW t, release(g, t)
    PROVE  /\ gate'[g].leases = gate[g].leases \ {t}
           /\ \A h \in GateNames : gate'[h].open = gate[h].open
           /\ \A h \in GateNames \ {g} : gate'[h] = gate[h]
  BY DEF Gates, release

LEMMA Acquiring ==
    ASSUME gate \in Gates(GateNames, Threads), NEW g \in GateNames, NEW t, tryAcquire(g, t)
    PROVE  /\ gate[g].open /\ gate'[g].leases = gate[g].leases \cup {t}
           /\ \A h \in GateNames : gate'[h].open = gate[h].open
           /\ \A h \in GateNames \ {g} : gate'[h] = gate[h]
  BY DEF Gates, tryAcquire

LEMMA LeaseStep == ASSUME TypeOK, LeaseInv, Next PROVE LeaseInv'
<1> DEFINE SameLeases == \A h \in GateNames : gate'[h].leases = gate[h].leases
<1>0. /\ gate \in Gates(GateNames, Threads) /\ op \in [name : OpNames, at : Steps]
      /\ "net" \notin Requests /\ "worker" \notin Requests
      /\ {"application", "observer", "tracked", "request"} = GateNames
  BY ThreadAssumption DEF TypeOK, EndpointTypeOK, GateNames
<1>1. ASSUME NEW c \in Callers, Shutdown(c) \/ Wake(c) PROVE LeaseInv'
  BY <1>1 DEF Shutdown, Wake, endpointVars, LeaseInv
<1>2. ASSUME NEW c \in Callers, Start(c) PROVE LeaseInv'
  BY <1>2 DEF Start, start, Enter, peers, LeaseInv
<1>3. CASE Net
  <2>1. ASSUME NEW g \in {"application", "observer"}, NetAdmit(g) PROVE LeaseInv'
    BY <1>0, <2>1, Acquiring DEF NetAdmit, LeaseInv
  <2>2. ASSUME NEW g \in {"application", "observer"}, NetReturn(g) PROVE LeaseInv'
    BY <1>0, <2>2, Releasing DEF NetReturn, NetLease, LeaseInv
  <2>3. ASSUME NetCopy PROVE LeaseInv'
    BY <1>0, <2>3, Releasing DEF NetCopy, NetLease, LeaseInv
  <2>4. ASSUME NetExit PROVE LeaseInv'
    BY <2>4 DEF NetExit, LeaseInv
  <2> QED BY <1>3, <2>1, <2>2, <2>3, <2>4 DEF Net
<1>4. CASE Publish
  <2>1. ASSUME WorkerAdmit PROVE LeaseInv'
    BY <1>0, <2>1, Acquiring DEF WorkerAdmit, LeaseInv
  <2>2. ASSUME WorkerChecks PROVE LeaseInv'
    BY <1>0, <2>2, Releasing DEF WorkerChecks, LeaseInv
  <2>3. ASSUME WorkerPublishes PROVE LeaseInv'
    <3>1. worker' \in {"idle", "notify"} /\ gate["tracked"].leases = {"worker"}
      BY <2>3 DEF WorkerPublishes, LeaseInv
    <3>2. gate'["tracked"].leases = {}
      BY <1>0, <2>3, <3>1, Releasing DEF WorkerPublishes
    <3>3. \A h \in GateNames \ {"tracked"} : gate'[h] = gate[h]
      BY <1>0, <2>3, Releasing DEF WorkerPublishes
    <3> QED BY <1>0, <2>3, <3>1, <3>2, <3>3 DEF WorkerPublishes, LeaseInv
  <2>4. ASSUME \/ WorkerNotifies \/ WorkerFaults \/ WorkerAborts
               \/ EffectChecks \/ EffectPublishes
        PROVE  LeaseInv'
    BY <2>4 DEF WorkerNotifies, WorkerFaults, WorkerAborts, EffectChecks, EffectPublishes,
                LeaseInv
  <2> QED BY <1>4, <2>1, <2>2, <2>3, <2>4 DEF Publish
<1>5. ASSUME NEW r \in Requests, BeginRequest(r) \/ EndRequest(r) PROVE LeaseInv'
  BY <1>0, <1>5, Acquiring, Releasing DEF BeginRequest, EndRequest, peers, LeaseInv
<1>6. CASE Operate
  <2>1. SameLeases
    BY <1>0, <1>6, Closing DEF Operate, Operation, StartTransport, AwaitApplication,
       AwaitTracked, JoinTransport, CloseTracked, MarkQuiesced, AwaitObservers,
       FinishStop, TimesOut, closeIngressLocked
  <2>2. worker' = worker
    BY <1>6 DEF Operate, Operation, StartTransport, AwaitApplication, AwaitTracked,
       JoinTransport, CloseTracked, MarkQuiesced, AwaitObservers, FinishStop, TimesOut,
       peers
  <2>3. CASE StartTransport
    <3>1. net = "none" /\ net' \in {"none", "loop"} /\ op'.at # "start"
      BY <1>0, <2>3 DEF StartTransport, Step, Return, NoOp, LeaseInv
    <3>2. net' = "none" \/ (state' = state /\ op'.at # "start")
      BY <2>3, <3>1 DEF StartTransport
    <3>3. state' # "Constructed"
      BY <2>3 DEF StartTransport, closeIngressLocked, LeaseInv
    <3> QED BY <1>0, <2>1, <2>2, <3>1, <3>2, <3>3 DEF LeaseInv
  <2>4. CASE ~StartTransport
    <3>1. net' = net /\ op'.at # "start" /\ (state' = "Constructed" => state = "Constructed")
      BY <1>0, <1>6, <2>4 DEF Operate, Operation, AwaitApplication, AwaitTracked,
         JoinTransport, CloseTracked, MarkQuiesced, AwaitObservers, FinishStop, TimesOut,
         peers, Step, Return, NoOp
    <3> QED BY <1>0, <2>1, <2>2, <3>1 DEF LeaseInv
  <2> QED BY <2>3, <2>4
<1>7. CASE Hook
  <2>1. SameLeases
    BY <1>0, <1>7, Closing DEF Hook, CloseHttpIngress, CloseMqttIngress, DrainHttp,
       CallEndpoint, EndpointAnswers, DrainDomain, StopFireService, JoinCoordinator,
       StopReporter, Destroy, quiesceIngress, quiesceTransportObservers, stop,
       closeIngress, closeIngressLocked, endpointVars
  <2> DEFINE Keeps == /\ net' = net
                      /\ (worker' = worker) \/ (worker = "idle" /\ worker' = "gone")
                      /\ (op'.at = "start") => (op.at = "start")
                      /\ (state' = "Constructed") => (state = "Constructed")
  <2>2. ASSUME NEW c \in Callers, CallEndpoint(c) PROVE Keeps
    BY <1>0, <2>2 DEF CallEndpoint, quiesceIngress, quiesceTransportObservers, stop,
       closeIngressLocked, Enter, peers
  <2>3. ASSUME CloseHttpIngress \/ CloseMqttIngress PROVE Keeps
    BY <2>3 DEF CloseHttpIngress, CloseMqttIngress, closeIngress, closeIngressLocked, peers
  <2>4. ASSUME \/ DrainHttp \/ StopFireService \/ StopReporter \/ Destroy
               \/ \E h \in Hooks : EndpointAnswers(h)
        PROVE  Keeps
    BY <2>4 DEF DrainHttp, StopFireService, StopReporter, Destroy, EndpointAnswers,
       endpointVars
  <2>5. ASSUME DrainDomain \/ JoinCoordinator PROVE Keeps
    BY <2>5 DEF DrainDomain, JoinCoordinator
  <2>6. Keeps
    BY <1>7, <2>2, <2>3, <2>4, <2>5 DEF Hook, Hooks
  <2> QED BY <1>0, <2>1, <2>6 DEF LeaseInv
<1> QED BY <1>1, <1>2, <1>3, <1>4, <1>5, <1>6, <1>7 DEF Next

\* No gate is opened again, and a shut one stays shut.
LEMMA ShutStays ==
    ASSUME TypeOK, Next, NEW g \in GateNames
    PROVE  /\ ~gate[g].open => ~gate'[g].open
           /\ Shut(g) => Shut(g)'
<1>0. gate \in Gates(GateNames, Threads)
      /\ {"application", "observer", "tracked", "request"} = GateNames
  BY DEF TypeOK, EndpointTypeOK, GateNames
<1>1. \/ UNCHANGED gate
      \/ \E h \in GateNames : close(h)
      \/ \E h \in GateNames, t \in Threads : tryAcquire(h, t) \/ release(h, t)
  <2>1. CASE Hook
    BY <2>1, <1>0 DEF Hook, CloseHttpIngress, CloseMqttIngress, DrainHttp,
       CallEndpoint, EndpointAnswers, DrainDomain, StopFireService, JoinCoordinator,
       StopReporter, Destroy, quiesceIngress, quiesceTransportObservers, stop,
       closeIngress, closeIngressLocked, endpointVars
  <2>2. CASE Operate
    BY <2>2, <1>0 DEF Operate, Operation, StartTransport, AwaitApplication,
       AwaitTracked, JoinTransport, CloseTracked, MarkQuiesced, AwaitObservers,
       FinishStop, TimesOut, closeIngressLocked
  <2>3. CASE Net
    BY <2>3, <1>0 DEF Net, NetAdmit, NetReturn, NetCopy, NetExit, NetLease, Threads
  <2>4. CASE Publish
    BY <2>4, <1>0 DEF Publish, WorkerAdmit, WorkerChecks, WorkerPublishes,
       WorkerNotifies, WorkerFaults, WorkerAborts, EffectChecks, EffectPublishes, Threads
  <2>5. ASSUME NEW r \in Requests, BeginRequest(r) \/ EndRequest(r)
        PROVE  \E h \in GateNames, t \in Threads : tryAcquire(h, t) \/ release(h, t)
    BY <2>5, <1>0 DEF BeginRequest, EndRequest, Threads
  <2>6. ASSUME NEW c \in Callers, Shutdown(c) \/ Wake(c) \/ Start(c) PROVE UNCHANGED gate
    BY <2>6 DEF Shutdown, Wake, Start, start, endpointVars
  <2> QED BY <2>1, <2>2, <2>3, <2>4, <2>5, <2>6 DEF Next
<1>2. CASE UNCHANGED gate
  BY <1>2 DEF Shut
<1>3. ASSUME NEW h \in GateNames, close(h)
      PROVE  /\ ~gate[g].open => ~gate'[g].open
             /\ Shut(g) => Shut(g)'
  BY <1>0, <1>3, Closing DEF Shut
<1>4. ASSUME NEW h \in GateNames, NEW t \in Threads, tryAcquire(h, t) \/ release(h, t)
      PROVE  /\ ~gate[g].open => ~gate'[g].open
             /\ Shut(g) => Shut(g)'
  BY <1>0, <1>4, Acquiring, Releasing DEF Shut
<1> QED BY <1>1, <1>2, <1>3, <1>4

\* Only MarkQuiesced shuts the observers, behind the publishers it has waited for.
LEMMA GateStep == ASSUME TypeOK, GateInv, Next PROVE GateInv'
<1>0. /\ gate \in Gates(GateNames, Threads) /\ op \in [name : OpNames, at : Steps]
      /\ {"application", "observer", "tracked", "request"} = GateNames
  BY DEF TypeOK, EndpointTypeOK, GateNames
<1>1. /\ ~gate["observer"].open => ~gate'["observer"].open
      /\ ~gate["tracked"].open => ~gate'["tracked"].open
      /\ Shut("tracked") => Shut("tracked")'
  BY <1>0, ShutStays
<1> DEFINE SameObservers == gate'["observer"].open = gate["observer"].open
           SameOp == op'.at \in {"awaitTracked", "observer"} => op' = op
<1>2. CASE Operate
  <2>1. CASE MarkQuiesced
    <3>1. Shut("tracked") /\ close("observer") /\ op'.at = "observer"
      BY <1>0, <2>1 DEF MarkQuiesced, AwaitDrained, Drained, GateInv, Shut, Step
    <3> QED BY <1>0, <1>1, <3>1, Closing DEF GateInv
  <2>2. CASE CloseTracked
    <3>1. close("tracked") /\ op'.at = "awaitTracked"
      BY <1>0, <2>2 DEF CloseTracked, Step
    <3> QED BY <1>0, <1>1, <3>1, Closing DEF GateInv
  <2>3. CASE ~MarkQuiesced /\ ~CloseTracked
    <3>1. SameObservers
      BY <1>0, <1>2, <2>3, Closing DEF Operate, Operation, StartTransport,
         AwaitApplication, AwaitTracked, JoinTransport, AwaitObservers, FinishStop,
         TimesOut, closeIngressLocked
    <3>2. op'.at \notin {"awaitTracked", "observer"}
      BY <1>0, <1>2, <2>3 DEF Operate, Operation, StartTransport, AwaitApplication,
         AwaitTracked, JoinTransport, AwaitObservers, FinishStop, TimesOut, Step, Return,
         NoOp
    <3> QED BY <1>1, <3>1, <3>2 DEF GateInv
  <2> QED BY <2>1, <2>2, <2>3
<1>3. CASE \E c \in Callers : CallEndpoint(c) /\ quiesceTransportObservers(c)
  <2>1. close("tracked") /\ op'.at = "awaitTracked"
    BY <1>3 DEF quiesceTransportObservers, Enter
  <2> QED BY <1>0, <1>1, <2>1, Closing DEF GateInv
<1>4. CASE Hook /\ ~\E c \in Callers : CallEndpoint(c) /\ quiesceTransportObservers(c)
  <2>1. SameObservers
    BY <1>0, <1>4, Closing DEF Hook, CloseHttpIngress, CloseMqttIngress, DrainHttp,
       CallEndpoint, EndpointAnswers, DrainDomain, StopFireService, JoinCoordinator,
       StopReporter, Destroy, quiesceIngress, stop, closeIngress, closeIngressLocked,
       endpointVars
  <2>2. SameOp
    BY <1>0, <1>4 DEF Hook, CloseHttpIngress, CloseMqttIngress, DrainHttp,
       CallEndpoint, EndpointAnswers, DrainDomain, StopFireService, JoinCoordinator,
       StopReporter, Destroy, quiesceIngress, stop, Enter, closeIngress, endpointVars
  <2> QED BY <1>1, <2>1, <2>2 DEF GateInv
<1>5. CASE ~Operate /\ ~Hook
  <2>1. SameObservers
    BY <1>0, <1>5, Acquiring, Releasing DEF Next, Shutdown, Wake, Start, start, Net,
       NetAdmit, NetReturn, NetCopy, NetExit, NetLease, Publish, WorkerAdmit,
       WorkerChecks, WorkerPublishes, WorkerNotifies, WorkerFaults, WorkerAborts,
       EffectChecks, EffectPublishes, BeginRequest, EndRequest, endpointVars
  <2>2. SameOp
    BY <1>5 DEF Next, Shutdown, Wake, Start, start, Enter, Net, NetAdmit, NetReturn,
       NetCopy, NetExit, Publish, WorkerAdmit, WorkerChecks, WorkerPublishes,
       WorkerNotifies, WorkerFaults, WorkerAborts, EffectChecks, EffectPublishes,
       BeginRequest, EndRequest, endpointVars
  <2> QED BY <1>1, <2>1, <2>2 DEF GateInv
<1> QED BY <1>2, <1>3, <1>4, <1>5 DEF Hook

\* What no step takes back.
LEMMA NothingReturns ==
    ASSUME TypeOK, Next
    PROVE  /\ alive' \subseteq alive
           /\ state # "Constructed" => state' # "Constructed"
           /\ effect = "gone" => effect' = "gone"
           /\ worker = "gone" => worker' = "gone"
<1>1. CASE Hook
  <2>1. alive' \subseteq alive
    BY <1>1 DEF Hook, CloseHttpIngress, CloseMqttIngress, DrainHttp, CallEndpoint,
       EndpointAnswers, DrainDomain, StopFireService, JoinCoordinator, StopReporter,
       Destroy, HookReturns, HookThrows, Phase
  <2>2. state # "Constructed" => state' # "Constructed"
    BY <1>1 DEF Hook, CloseHttpIngress, CloseMqttIngress, DrainHttp, CallEndpoint,
       EndpointAnswers, DrainDomain, StopFireService, JoinCoordinator, StopReporter,
       Destroy, quiesceIngress, quiesceTransportObservers, stop, closeIngress,
       closeIngressLocked, endpointVars
  <2>3. /\ effect = "gone" => effect' = "gone"
        /\ worker = "gone" => worker' = "gone"
    BY <1>1 DEF Hook, CloseHttpIngress, CloseMqttIngress, DrainHttp, CallEndpoint,
       EndpointAnswers, DrainDomain, StopFireService, JoinCoordinator, StopReporter,
       Destroy, quiesceIngress, quiesceTransportObservers, stop, closeIngress,
       endpointVars, peers
  <2> QED BY <2>1, <2>2, <2>3
<1>2. CASE ~Hook
  <2>1. alive' = alive
    BY <1>2 DEF Next, Shutdown, Wake, Start, Operate, Net, Publish, BeginRequest,
       EndRequest, shutdownVars
  <2>2. state # "Constructed" => state' # "Constructed"
    BY <1>2 DEF Next, Shutdown, Wake, Start, start, Operate, Operation, StartTransport,
       AwaitApplication, AwaitTracked, JoinTransport, CloseTracked, MarkQuiesced,
       AwaitObservers, FinishStop, TimesOut, closeIngressLocked, Net, NetAdmit, NetReturn,
       NetCopy, NetExit, Publish, WorkerAdmit, WorkerChecks, WorkerPublishes,
       WorkerNotifies, WorkerFaults, WorkerAborts, EffectChecks, EffectPublishes,
       BeginRequest, EndRequest, endpointVars
  <2>3. /\ effect = "gone" => effect' = "gone"
        /\ worker = "gone" => worker' = "gone"
    BY <1>2 DEF Next, Shutdown, Wake, Start, start, Operate, Operation, StartTransport,
       AwaitApplication, AwaitTracked, JoinTransport, CloseTracked, MarkQuiesced,
       AwaitObservers, FinishStop, TimesOut, Net, NetAdmit, NetReturn, NetCopy, NetExit,
       Publish, WorkerAdmit, WorkerChecks, WorkerPublishes, WorkerNotifies, WorkerFaults,
       WorkerAborts, EffectChecks, EffectPublishes, BeginRequest, EndRequest,
       endpointVars, peers
  <2> QED BY <2>1, <2>2, <2>3
<1> QED BY <1>1, <1>2

LEMMA EndStep == ASSUME TypeOK, EndInv, HookInv, Next PROVE EndInv'
<1>1. /\ Shut("request") => Shut("request")'
      /\ Shut("application") => Shut("application")'
      /\ Shut("observer") => Shut("observer")'
  BY ShutStays DEF GateNames
<1>2. CASE alive' = alive
  BY <1>1, <1>2, NothingReturns DEF EndInv
<1>3. CASE hook = "drainDomain" /\ HookReturns /\ effect' = "gone"
  <2>1. alive' = alive \ {"domain"} /\ Shut("request") /\ Shut("application")
    BY <1>3 DEF HookReturns, Ends, HookInv
  <2> QED BY <1>1, <1>3, <2>1, NothingReturns DEF EndInv
<1>4. CASE hook = "drainFire" /\ phase = "join" /\ HookReturns /\ worker' = "gone"
  <2>1. alive' = alive \ {"coordinator"} /\ "domain" \notin alive /\ Shut("observer")
    BY <1>4 DEF HookReturns, Ends, HookInv
  <2> QED BY <1>1, <1>4, <2>1, NothingReturns DEF EndInv
<1>5. CASE hook = "drainReporter" /\ HookReturns
  <2>1. alive' = alive \ {"notifier"} /\ "coordinator" \notin alive
    BY <1>5 DEF HookReturns, Ends, HookInv
  <2> QED BY <1>1, <2>1, NothingReturns DEF EndInv
<1>6. CASE hook \in {"destroyCallbackTargets", "closeDatabase"} /\ HookReturns
  <2>1. \/ alive' = alive \ {"objects"} /\ "notifier" \notin alive
        \/ alive' = alive \ {"database"} /\ "objects" \notin alive
    BY <1>6 DEF HookReturns, Ends, HookInv
  <2> QED BY <1>1, <2>1, NothingReturns DEF EndInv
<1>7. CASE Hook
  <2>1. ASSUME hook \in {"stopHttp", "quiesceMqttApplication", "stopMqtt"}, HookReturns
        PROVE  alive' = alive
    BY <2>1 DEF HookReturns, Ends
  <2>2. ASSUME DrainHttp \/ \E h \in {"quiesceMqttApplication", "drainFire", "stopMqtt"} :
                               EndpointAnswers(h)
        PROVE  alive' = alive
    BY <2>1, <2>2 DEF DrainHttp, EndpointAnswers, HookThrows, Phase, At
  <2> QED
    BY <1>2, <1>3, <1>4, <1>5, <1>6, <1>7, <2>2 DEF Hook, Hooks, CloseHttpIngress,
       CloseMqttIngress, CallEndpoint, DrainDomain, StopFireService, JoinCoordinator,
       StopReporter, Destroy, HookThrows, Phase, At
<1>8. CASE ~Hook
  <2>1. alive' = alive
    BY <1>8 DEF Next, Shutdown, Wake, Start, Operate, Net, Publish, BeginRequest,
       EndRequest, shutdownVars
  <2> QED BY <1>2, <2>1
<1> QED BY <1>7, <1>8

\* While no operation runs and none can start, only a hook begins one.
LEMMA NoOpStays ==
    ASSUME TypeOK, op = NoOp, state # "Constructed", Next,
           ~\E c \in Callers : CallEndpoint(c)
    PROVE  op' = NoOp /\ verdict' = verdict /\ mutex' = mutex
<1>1. ~Operate
  BY DEF Operate, Operation, StartTransport, AwaitApplication, AwaitTracked,
     JoinTransport, CloseTracked, MarkQuiesced, AwaitObservers, FinishStop, TimesOut,
     AwaitDrained, NoOp
<1>2. ASSUME Hook PROVE op' = op /\ verdict' = verdict /\ mutex' = mutex
  BY <1>2 DEF Hook, CloseHttpIngress, CloseMqttIngress, DrainHttp, EndpointAnswers,
     DrainDomain, StopFireService, JoinCoordinator, StopReporter, Destroy, closeIngress,
     endpointVars
<1>3. ASSUME ~Hook PROVE op' = op /\ verdict' = verdict /\ mutex' = mutex
  BY <1>1, <1>3 DEF Next, Shutdown, Wake, Start, start, Net, NetAdmit, NetReturn,
     NetCopy, NetExit, Publish, WorkerAdmit, WorkerChecks, WorkerPublishes,
     WorkerNotifies, WorkerFaults, WorkerAborts, EffectChecks, EffectPublishes,
     BeginRequest, EndRequest, endpointVars
<1> QED BY <1>2, <1>3

LEMMA HookStep == ASSUME IInv, Next PROVE HookInv'
<1> USE DEF IInv
<1>1. /\ ~gate["request"].open => ~gate'["request"].open
      /\ Shut("request") => Shut("request")'
      /\ Shut("application") => Shut("application")'
      /\ Shut("observer") => Shut("observer")'
  BY ShutStays DEF GateNames
<1>2. CASE UNCHANGED <<hook, phase>>
  <2>1. ASSUME hook = "stopHttp", phase = "drain" PROVE op' = NoOp
    <3>1. ~\E c \in Callers : CallEndpoint(c)
      BY <2>1 DEF CallEndpoint, At
    <3> QED BY <2>1, <3>1, NoOpStays DEF HookInv
  <2> QED BY <1>1, <1>2, <2>1, NothingReturns DEF HookInv
<1>3. CASE hook' = "none" \/ (hook' = "stopHttp" /\ phase' = "begin")
  BY <1>3 DEF HookInv
<1>4. CASE Hook
  <2>1. CASE CloseHttpIngress
    <3>1. ~gate'["request"].open /\ hook' = "stopHttp" /\ phase' = "endpoint"
      BY <2>1, Closing DEF CloseHttpIngress, At, Phase, TypeOK, EndpointTypeOK, GateNames
    <3> QED BY <3>1 DEF HookInv
  <2>2. CASE CloseMqttIngress
    <3>1. /\ hook = "stopHttp" /\ phase = "endpoint"
          /\ hook' = "stopHttp" /\ phase' = "drain"
      BY <2>2 DEF CloseMqttIngress, At, Phase
    <3>2. op' = NoOp /\ state' # "Constructed"
      BY <2>2 DEF CloseMqttIngress, closeIngress, closeIngressLocked, AwaitInv
    <3> QED BY <1>1, <3>1, <3>2 DEF HookInv
  <2>3. CASE DrainHttp
    <3>1. CASE HookThrows
      BY <1>3, <3>1 DEF HookThrows
    <3>2. CASE HookReturns /\ Drained("request")
      <4>1. hook' = "quiesceMqttApplication" /\ Shut("request")
        BY <2>3, <3>2 DEF DrainHttp, At, HookReturns, After, HookInv, Shut, Drained
      <4> QED BY <1>1, <4>1 DEF HookInv
    <3> QED BY <2>3, <3>1, <3>2 DEF DrainHttp
  <2>4. ASSUME NEW c \in Callers, CallEndpoint(c) PROVE HookInv'
    BY <1>1, <2>4, NothingReturns DEF CallEndpoint, At, Phase, HookInv
  <2>5. CASE EndpointAnswers("quiesceMqttApplication")
    <3>1. CASE HookThrows
      BY <1>3, <3>1 DEF HookThrows
    <3>2. CASE HookReturns /\ verdict = "done"
      <4>1. hook' = "drainDomain" /\ Shut("request") /\ Shut("application")
        BY <2>5, <3>2 DEF EndpointAnswers, At, HookReturns, After, HookInv, AwaitInv
      <4> QED BY <1>1, <4>1 DEF HookInv
    <3> QED BY <2>5, <3>1, <3>2 DEF EndpointAnswers
  <2>6. CASE EndpointAnswers("drainFire")
    <3>1. CASE HookThrows
      BY <1>3, <3>1 DEF HookThrows
    <3>2. CASE Phase("join") /\ verdict = "done"
      <4>1. hook' = "drainFire" /\ "domain" \notin alive /\ Shut("observer")
        BY <2>6, <3>2 DEF EndpointAnswers, At, Phase, HookInv, AwaitInv
      <4> QED BY <1>1, <4>1, NothingReturns DEF HookInv
    <3> QED BY <2>6, <3>1, <3>2 DEF EndpointAnswers
  <2>7. CASE EndpointAnswers("stopMqtt")
    <3>1. CASE HookThrows
      BY <1>3, <3>1 DEF HookThrows
    <3>2. CASE HookReturns
      <4>1. hook' = "destroyCallbackTargets" /\ "notifier" \notin alive
        BY <2>7, <3>2 DEF EndpointAnswers, At, HookReturns, After, HookInv
      <4> QED BY <4>1, NothingReturns DEF HookInv
    <3> QED BY <2>7, <3>1, <3>2 DEF EndpointAnswers
  <2>8. CASE DrainDomain
    <3>1. CASE HookThrows
      BY <1>3, <3>1 DEF HookThrows
    <3>2. CASE HookReturns
      <4>1. hook' = "drainFire" /\ phase' = "begin" /\ "domain" \notin alive'
        BY <2>8, <3>2 DEF DrainDomain, At, HookReturns, After, Ends
      <4> QED BY <4>1 DEF HookInv
    <3> QED BY <2>8, <3>1, <3>2 DEF DrainDomain
  <2>9. CASE StopFireService
    <3>1. CASE HookThrows
      BY <1>3, <3>1 DEF HookThrows
    <3>2. CASE Phase("endpoint")
      <4>1. hook' = "drainFire" /\ phase' = "endpoint" /\ "domain" \notin alive
        BY <2>9, <3>2 DEF StopFireService, At, Phase, HookInv
      <4> QED BY <4>1, NothingReturns DEF HookInv
    <3> QED BY <2>9, <3>1, <3>2 DEF StopFireService
  <2>10. CASE JoinCoordinator
    <3>1. hook' = "drainReporter" /\ "coordinator" \notin alive'
      BY <2>10 DEF JoinCoordinator, At, HookReturns, After, Ends
    <3> QED BY <3>1 DEF HookInv
  <2>11. CASE StopReporter
    <3>1. CASE HookThrows
      BY <1>3, <3>1 DEF HookThrows
    <3>2. CASE HookReturns
      <4>1. hook' = "stopMqtt" /\ "notifier" \notin alive'
        BY <2>11, <3>2 DEF StopReporter, At, HookReturns, After, Ends
      <4> QED BY <4>1 DEF HookInv
    <3> QED BY <2>11, <3>1, <3>2 DEF StopReporter
  <2>12. CASE Destroy
    <3>1. \/ hook' = "closeDatabase" /\ "objects" \notin alive'
          \/ hook' = "none"
      BY <2>12 DEF Destroy, At, HookReturns, After, Ends
    <3> QED BY <3>1 DEF HookInv
  <2> QED
    BY <1>4, <2>1, <2>2, <2>3, <2>4, <2>5, <2>6, <2>7, <2>8, <2>9, <2>10, <2>11, <2>12
    DEF Hook
<1>5. CASE ~Hook
  <2>1. UNCHANGED <<hook, phase>> \/ (hook' = "stopHttp" /\ phase' = "begin")
    BY <1>5 DEF Next, Shutdown, Wake, Start, Operate, Net, Publish, BeginRequest,
       EndRequest, shutdownVars
  <2> QED BY <1>2, <1>3, <2>1
<1> QED BY <1>4, <1>5

\* The waiting hook's operation goes through its steps and answers.
LEMMA AwaitStep == ASSUME IInv, Next PROVE AwaitInv'
<1> USE DEF IInv
<1>0. /\ op \in [name : OpNames, at : Steps] /\ gate \in Gates(GateNames, Threads)
      /\ {"application", "observer", "tracked"} \subseteq GateNames
      /\ \A c \in Callers : c # Free
  BY ThreadAssumption DEF TypeOK, EndpointTypeOK, GateNames
<1>1. /\ ~gate["application"].open => ~gate'["application"].open
      /\ Shut("application") => Shut("application")'
      /\ Shut("observer") => Shut("observer")'
  BY ShutStays DEF GateNames
<1> DEFINE Idle == UNCHANGED <<op, verdict, mutex>>
<1>2. CASE Idle /\ UNCHANGED <<hook, phase>>
  BY <1>1, <1>2, NothingReturns DEF AwaitInv
<1>3. CASE /\ Idle /\ phase' # "await"
           /\ hook' \in Hooks \ {"stopHttp"} => op = NoOp /\ state # "Constructed"
  BY <1>3, NothingReturns DEF AwaitInv
<1>4. CASE Operate
  <2>1. UNCHANGED <<hook, phase>> /\ op # NoOp /\ verdict = "none"
    BY <1>4 DEF Operate, Operation, StartTransport, AwaitApplication, AwaitTracked,
       JoinTransport, CloseTracked, MarkQuiesced, AwaitObservers, FinishStop, TimesOut,
       AwaitDrained, NoOp, shutdownVars, AwaitInv
  <2>2. \/ op'.name = op.name /\ op' # NoOp /\ UNCHANGED <<mutex, verdict>>
        \/ op' = NoOp /\ mutex' = Free
    <3>1. ASSUME NEW a \in {"application", "tracked", "join", "closeTracked",
                            "awaitTracked", "observer", "finish"}, Step(a)
          PROVE  op'.name = op.name /\ op' # NoOp /\ UNCHANGED <<mutex, verdict>>
      BY <1>0, <3>1 DEF Step, NoOp
    <3> QED BY <1>4, <3>1 DEF Operate, Operation, StartTransport, AwaitApplication,
               AwaitTracked, JoinTransport, CloseTracked, MarkQuiesced, AwaitObservers,
               FinishStop, TimesOut, Return
  <2>3. CASE hook = "quiesceMqttApplication" /\ phase = "await"
    <3>1. op = [name |-> "quiesceIngress", at |-> "application"]
      BY <2>1, <2>3 DEF AwaitInv
    <3>2. /\ op' = NoOp
          /\ verdict' = "done" => Drained("application") /\ UNCHANGED gate
      BY <1>4, <3>1 DEF Operate, Operation, StartTransport, AwaitApplication, AwaitTracked,
         JoinTransport, CloseTracked, MarkQuiesced, AwaitObservers, FinishStop, TimesOut,
         AwaitDrained, Return
    <3> QED BY <1>1, <2>1, <2>2, <2>3, <3>2, NothingReturns
            DEF AwaitInv, Shut, Drained
  <2>4. CASE hook = "drainFire" /\ phase = "await"
    <3>1. op.name = "quiesceTransportObservers" /\ op.at \in {"awaitTracked", "observer"}
      BY <2>1, <2>4 DEF AwaitInv
    <3>2. CASE op.at = "awaitTracked"
      <4>1. (op' = NoOp /\ verdict' = "failed") \/ Step("observer")
        BY <1>4, <3>2 DEF Operate, Operation, StartTransport, AwaitApplication,
           AwaitTracked, JoinTransport, CloseTracked, MarkQuiesced, AwaitObservers,
           FinishStop, TimesOut, AwaitDrained, Return
      <4>2. Step("observer") => op'.at = "observer" /\ verdict' = verdict
        BY <1>0 DEF Step
      <4> QED BY <1>1, <2>1, <2>2, <2>4, <3>1, <4>1, <4>2, NothingReturns DEF AwaitInv
    <3>3. CASE op.at = "observer"
      <4>1. /\ op' = NoOp
            /\ verdict' = "done" => Drained("observer") /\ UNCHANGED gate
        BY <1>4, <3>1, <3>3 DEF Operate, Operation, StartTransport, AwaitApplication,
           AwaitTracked, JoinTransport, CloseTracked, MarkQuiesced, AwaitObservers,
           FinishStop, TimesOut, AwaitDrained, Return
      <4>2. verdict' = "done" => Shut("observer")'
        BY <3>3, <4>1 DEF GateInv, Shut, Drained
      <4> QED BY <1>1, <2>1, <2>2, <2>4, <4>1, <4>2, NothingReturns DEF AwaitInv
    <3> QED BY <3>1, <3>2, <3>3
  <2>5. CASE ~(hook \in {"quiesceMqttApplication", "drainFire"} /\ phase = "await")
    BY <2>1, <2>2, <2>5, NothingReturns DEF AwaitInv
  <2> QED BY <2>3, <2>4, <2>5
<1>5. ASSUME NEW c \in Callers, CallEndpoint(c) PROVE AwaitInv'
  <2>1. op = NoOp /\ hook' = hook /\ phase' = "await" /\ state # "Constructed"
    BY <1>5 DEF CallEndpoint, At, Phase, AwaitInv, Hooks
  <2>2. CASE hook = "quiesceMqttApplication"
    <3>1. /\ op' = [name |-> "quiesceIngress", at |-> "application"] /\ mutex' = c
          /\ verdict' = "none" /\ close("application")
      BY <1>5, <2>2 DEF CallEndpoint, At, quiesceIngress, Enter, closeIngressLocked
    <3>2. op' # NoOp /\ ~gate'["application"].open
      BY <1>0, <3>1, Closing DEF NoOp
    <3> QED BY <1>0, <2>1, <2>2, <3>1, <3>2, NothingReturns DEF AwaitInv
  <2>3. CASE hook = "drainFire"
    <3>1. /\ op' = [name |-> "quiesceTransportObservers", at |-> "awaitTracked"]
          /\ mutex' = c /\ verdict' = "none"
      BY <1>5, <2>3 DEF CallEndpoint, At, quiesceTransportObservers, Enter
    <3> QED BY <1>0, <2>1, <2>3, <3>1, NothingReturns DEF AwaitInv, NoOp
  <2>4. CASE hook = "stopMqtt"
    <3>1. \/ op' = [name |-> "stop", at |-> "application"] /\ mutex' = c /\ verdict' = "none"
          \/ op' = op /\ mutex' = mutex
      BY <1>5, <2>4 DEF CallEndpoint, At, stop, Enter
    <3> QED BY <1>0, <2>1, <2>4, <3>1, NothingReturns DEF AwaitInv, NoOp
  <2> QED BY <1>5, <2>2, <2>3, <2>4 DEF CallEndpoint, At
<1>6. CASE Hook /\ ~\E c \in Callers : CallEndpoint(c)
  <2>1. Idle
    BY <1>6 DEF Hook, CloseHttpIngress, CloseMqttIngress, DrainHttp, EndpointAnswers,
       DrainDomain, StopFireService, JoinCoordinator, StopReporter, Destroy, closeIngress,
       endpointVars
  <2>2. phase' # "await"
    BY <1>6 DEF Hook, CloseHttpIngress, CloseMqttIngress, DrainHttp, EndpointAnswers,
       DrainDomain, StopFireService, JoinCoordinator, StopReporter, Destroy, HookReturns,
       HookThrows, Phase
  <2>3. CASE hook \in Hooks \ {"stopHttp"}
    <3>1. op = NoOp
      BY <1>6, <2>3 DEF Hook, CloseHttpIngress, CloseMqttIngress, DrainHttp,
         EndpointAnswers, DrainDomain, StopFireService, JoinCoordinator, StopReporter,
         Destroy, At, AwaitInv, Hooks
    <3> QED BY <1>3, <2>1, <2>2, <2>3, <3>1 DEF AwaitInv
  <2>4. CASE hook = "stopHttp"
    <3>1. CASE DrainHttp
      BY <1>3, <2>1, <2>2, <2>4, <3>1 DEF DrainHttp, At, HookInv
    <3>2. CASE ~DrainHttp
      <4>1. hook' = "stopHttp"
        BY <1>6, <2>4, <3>2 DEF Hook, CloseHttpIngress, CloseMqttIngress, EndpointAnswers,
           DrainDomain, StopFireService, JoinCoordinator, StopReporter, Destroy, Phase, At
      <4> QED BY <1>3, <2>1, <2>2, <4>1
    <3> QED BY <3>1, <3>2
  <2>5. hook \in Hooks
    BY <1>6 DEF Hook, CloseHttpIngress, CloseMqttIngress, DrainHttp, EndpointAnswers,
       DrainDomain, StopFireService, JoinCoordinator, StopReporter, Destroy, At, Hooks
  <2> QED BY <2>3, <2>4, <2>5
<1>7. ASSUME NEW c \in Callers, Start(c) PROVE AwaitInv'
  <2>1. /\ op' = [name |-> "start", at |-> "start"] /\ mutex' = c /\ verdict' = "none"
        /\ state = "Constructed" /\ UNCHANGED <<hook, phase>>
    BY <1>7 DEF Start, start, Enter, shutdownVars
  <2>2. hook \notin Hooks \ {"stopHttp"}
    BY <2>1 DEF AwaitInv
  <2> QED BY <1>0, <2>1, <2>2 DEF AwaitInv, NoOp, Hooks
<1>8. ASSUME NEW c \in Callers, Shutdown(c) \/ Wake(c) PROVE AwaitInv'
  BY <1>2, <1>3, <1>8 DEF Shutdown, Wake, endpointVars, Hooks
<1>9. CASE Net \/ Publish \/ \E r \in Requests : BeginRequest(r) \/ EndRequest(r)
  BY <1>2, <1>9 DEF Net, NetAdmit, NetReturn, NetCopy, NetExit, Publish, WorkerAdmit,
     WorkerChecks, WorkerPublishes, WorkerNotifies, WorkerFaults, WorkerAborts,
     EffectChecks, EffectPublishes, BeginRequest, EndRequest, shutdownVars
<1> QED BY <1>4, <1>5, <1>6, <1>7, <1>8, <1>9 DEF Next

\* The strengthening holds of every run, from Init on and over each step.
THEOREM Invariance == Spec => []IInv
<1>1. ASSUME IInv, UNCHANGED vars PROVE IInv'
  BY <1>1 DEF IInv, vars, endpointVars, shutdownVars, TypeOK, EndpointTypeOK, LeaseInv,
     GateInv, EndInv, HookInv, AwaitInv, Shut, NoOp
<1>2. ASSUME IInv, Next PROVE IInv'
  <2>1. TypeOK
    BY <1>2 DEF IInv
  <2> QED BY <1>2, <2>1, TypeStep, LeaseStep, GateStep, EndStep, HookStep, AwaitStep DEF IInv
<1> QED BY InitIInv, <1>1, <1>2, PTL DEF Spec

\* Every variable of the endpoint and of the shutdown keeps its type.
THEOREM TypeCorrect == Spec => []TypeOK
<1>1. IInv => TypeOK
  BY DEF IInv
<1> QED BY Invariance, <1>1, PTL

\* No callback, request or publisher runs on something a hook has stopped,
\* destroyed or closed: whoever uses a target still holds what the hook that
\* ends it has waited for.
THEOREM UsedIsAliveAlways == Spec => []UsedIsAlive
<1>1. ASSUME IInv PROVE UsedIsAlive
  <2> USE <1>1 DEF IInv
  <2>1. /\ "database" \notin alive => "objects" \notin alive
        /\ "objects" \notin alive => "notifier" \notin alive
        /\ "notifier" \notin alive => "coordinator" \notin alive
        /\ "coordinator" \notin alive => "domain" \notin alive /\ worker = "gone"
                                            /\ gate["observer"].leases = {}
        /\ "domain" \notin alive => effect = "gone" /\ gate["application"].leases = {}
                                     /\ gate["request"].leases = {}
    BY DEF EndInv, Shut, Targets
  <2>2. /\ net = "handler" /\ "net" \in gate["application"].leases =>
             {"domain", "notifier", "objects", "database"} \subseteq alive
        /\ gate["request"].leases # {} => {"domain", "objects", "database"} \subseteq alive
        /\ effect = "publish" =>
             {"domain", "notifier", "objects", "database"} \subseteq alive
    BY <2>1
  <2>3. /\ worker # "gone" => {"coordinator", "objects", "database"} \subseteq alive
        /\ worker = "notify" => "notifier" \in alive
    BY <2>1
  <2>4. net = "handler" /\ "net" \notin gate["application"].leases =>
          {"coordinator", "objects"} \subseteq alive
    BY <2>1 DEF LeaseInv
  <2> QED BY <2>2, <2>3, <2>4 DEF UsedIsAlive, Uses
<1> QED BY Invariance, <1>1, PTL

\* A tracked publish is let through only while the observers are open: the
\* observers are shut behind the last tracked publisher.
THEOREM AcceptedPublishAlways == Spec => []AcceptedPublishIsHeard
<1>1. IInv => AcceptedPublishIsHeard
  BY DEF IInv, LeaseInv, GateInv, Shut, AcceptedPublishIsHeard
<1> QED BY Invariance, <1>1, PTL

LEMMA TransportStep == ASSUME IInv, TransportInv, Next PROVE TransportInv'
<1>0. op \in [name : OpNames, at : Steps] /\ (op = NoOp <=> mutex = Free)
  BY DEF IInv, TypeOK, EndpointTypeOK, AwaitInv
<1> DEFINE Ended == net \in {"none", "exited"} => net' = net
           SameState == state' = state \/ (state' = "Quiescing" /\ state # "Stopped")
<1>1. ASSUME UNCHANGED <<op, transport>>, Ended, SameState PROVE TransportInv'
  BY <1>1 DEF TransportInv
<1>2. CASE Operate
  <2>1. op # NoOp /\ state # "Constructed" /\ state' # "Constructed"
    <3>1. op # NoOp
      BY <1>2 DEF Operate, Operation, StartTransport, AwaitApplication, AwaitTracked,
         JoinTransport, CloseTracked, MarkQuiesced, AwaitObservers, FinishStop, TimesOut,
         AwaitDrained, NoOp
    <3>2. state # "Constructed"
      BY <3>1 DEF TransportInv
    <3> QED BY <3>1, <3>2, NothingReturns DEF IInv
  <2>2. CASE StartTransport
    <3>1. transport = "none" /\ state # "Stopped"
      BY <2>2 DEF StartTransport, TransportInv
    <3>2. \/ transport' = "up" /\ op' = NoOp /\ state' = state
          \/ transport' = "none" /\ op'.at = "application" /\ state' = "Quiescing"
      BY <1>0, <2>2, <3>1 DEF StartTransport, Return, Step, closeIngressLocked
    <3> QED BY <2>1, <3>1, <3>2 DEF TransportInv, NoOp
  <2>3. CASE AwaitApplication
    <3>1. op' = NoOp \/ op'.at = "tracked"
      BY <1>0, <2>3 DEF AwaitApplication, Return, Step
    <3> QED BY <2>1, <2>3, <3>1 DEF AwaitApplication, TransportInv, NoOp, peers
  <2>4. CASE AwaitTracked
    <3>1. \/ transport = "joined" /\ op'.at = "closeTracked" /\ transport' = transport
          \/ transport # "joined" /\ op'.at = "join" /\ transport' = "stopping"
      BY <1>0, <2>4 DEF AwaitTracked, Step
    <3> QED BY <2>1, <2>4, <3>1 DEF AwaitTracked, TransportInv, peers
  <2>5. CASE JoinTransport
    <3>1. op'.at = "closeTracked"
      BY <1>0, <2>5 DEF JoinTransport, Step
    <3> QED BY <2>1, <2>5, <3>1 DEF JoinTransport, TransportInv, peers
  <2>6. CASE CloseTracked
    <3>1. op'.at = "awaitTracked" /\ transport = "joined"
      BY <1>0, <2>6 DEF CloseTracked, Step, TransportInv
    <3> QED BY <2>1, <2>6, <3>1 DEF CloseTracked, TransportInv, peers
  <2>7. CASE MarkQuiesced
    <3>1. op'.at = "observer" /\ op'.name = op.name /\ op.at = "awaitTracked"
      BY <1>0, <2>7 DEF MarkQuiesced, AwaitDrained, Step
    <3> QED BY <2>1, <2>7, <3>1 DEF MarkQuiesced, TransportInv, peers
  <2>8. CASE AwaitObservers
    <3>1. \/ op' = NoOp
          \/ op'.at = "finish" /\ op.name # "quiesceTransportObservers"
      BY <1>0, <2>8 DEF AwaitObservers, Return, Step
    <3>2. op.at = "observer"
      BY <2>8 DEF AwaitObservers, AwaitDrained
    <3> QED BY <2>1, <2>8, <3>1, <3>2 DEF AwaitObservers, TransportInv, NoOp, peers
  <2>9. CASE FinishStop
    <3>1. op' = NoOp /\ transport = "joined"
      BY <2>9 DEF FinishStop, Return, TransportInv
    <3> QED BY <2>1, <2>9, <3>1 DEF FinishStop, TransportInv, NoOp, peers
  <2>10. ASSUME NEW a, NEW g, TimesOut(a, g) PROVE TransportInv'
    BY <2>1, <2>10 DEF TimesOut, Return, TransportInv, NoOp, peers
  <2> QED BY <1>2, <2>2, <2>3, <2>4, <2>5, <2>6, <2>7, <2>8, <2>9, <2>10
    DEF Operate, Operation
<1>3. ASSUME NEW c \in Callers, Start(c) PROVE TransportInv'
  BY <1>3 DEF Start, start, Enter, peers, TransportInv
<1>4. ASSUME NEW c \in Callers, CallEndpoint(c) PROVE TransportInv'
  <2>1. state # "Constructed" /\ state' # "Constructed"
    <3>1. state # "Constructed"
      BY <1>4 DEF CallEndpoint, At, IInv, AwaitInv, Hooks
    <3> QED BY <3>1, NothingReturns DEF IInv
  <2>2. CASE quiesceIngress(c) \/ stop(c)
    <3>1. \/ op' = op
          \/ op'.at = "application"
      BY <2>2 DEF quiesceIngress, stop, Enter
    <3>2. state' = "Stopped" => state = "Stopped"
      BY <2>2 DEF quiesceIngress, stop, closeIngressLocked
    <3>3. UNCHANGED <<transport, net>>
      BY <2>2 DEF quiesceIngress, stop, peers
    <3> QED BY <2>1, <3>1, <3>2, <3>3 DEF TransportInv
  <2>3. CASE quiesceTransportObservers(c)
    BY <2>1, <2>3 DEF quiesceTransportObservers, Enter, peers, TransportInv
  <2> QED BY <1>4, <2>2, <2>3 DEF CallEndpoint
<1>5. CASE Hook /\ ~\E c \in Callers : CallEndpoint(c)
  <2>1. /\ UNCHANGED <<op, transport, net>>
        /\ SameState
    BY <1>5 DEF Hook, CloseHttpIngress, CloseMqttIngress, DrainHttp, EndpointAnswers,
       DrainDomain, StopFireService, JoinCoordinator, StopReporter, Destroy, closeIngress,
       closeIngressLocked, endpointVars, peers
  <2> QED BY <1>1, <2>1
<1>6. CASE Net
  BY <1>1, <1>6 DEF Net, NetAdmit, NetReturn, NetCopy, NetExit
<1>7. CASE Publish
  BY <1>1, <1>7 DEF Publish, WorkerAdmit, WorkerChecks, WorkerPublishes, WorkerNotifies,
     WorkerFaults, WorkerAborts, EffectChecks, EffectPublishes
<1>8. ASSUME NEW r \in Requests, BeginRequest(r) \/ EndRequest(r) PROVE TransportInv'
  BY <1>1, <1>8 DEF BeginRequest, EndRequest, peers
<1>9. ASSUME NEW c \in Callers, Shutdown(c) \/ Wake(c) PROVE TransportInv'
  BY <1>1, <1>9 DEF Shutdown, Wake, endpointVars
<1> QED BY <1>2, <1>3, <1>4, <1>5, <1>6, <1>7, <1>8, <1>9 DEF Next

\* The steps by which the endpoint comes to rest do not undo one another.
LEMMA StoppedStays == ASSUME IInv, TransportInv, state = "Stopped", Next
                      PROVE  state' = "Stopped"
<1>1. op.at # "start"
  BY DEF TransportInv
<1>2. ASSUME Operate PROVE state' = "Stopped"
  BY <1>1, <1>2 DEF Operate, Operation, StartTransport, AwaitApplication, AwaitTracked,
     JoinTransport, CloseTracked, MarkQuiesced, AwaitObservers, FinishStop, TimesOut
<1>3. ASSUME Hook PROVE state' = "Stopped"
  BY <1>3 DEF Hook, CloseHttpIngress, CloseMqttIngress, DrainHttp, CallEndpoint,
     EndpointAnswers, DrainDomain, StopFireService, JoinCoordinator, StopReporter,
     Destroy, quiesceIngress, quiesceTransportObservers, stop, closeIngress,
     closeIngressLocked, endpointVars
<1>4. ASSUME ~Operate, ~Hook PROVE state' = "Stopped"
  BY <1>4 DEF Next, Shutdown, Wake, Start, start, Net, NetAdmit, NetReturn, NetCopy,
     NetExit, Publish, WorkerAdmit, WorkerChecks, WorkerPublishes, WorkerNotifies,
     WorkerFaults, WorkerAborts, EffectChecks, EffectPublishes, BeginRequest, EndRequest,
     endpointVars
<1> QED BY <1>2, <1>3, <1>4

LEMMA AnswerStep == ASSUME IInv, TransportInv, AnswerInv, Next PROVE AnswerInv'
<1>0. /\ op \in [name : OpNames, at : Steps] /\ (op # NoOp => verdict = "none")
      /\ caller \in [Callers -> {"out", "leading", "waiting", "true", "false"}]
      /\ shutdown \in {"Running", "Stopping", "Stopped", "Failed"}
      /\ state = "Stopped" => state' = "Stopped"
      /\ alive' \subseteq alive
  BY StoppedStays, NothingReturns DEF IInv, TypeOK, EndpointTypeOK, AwaitInv
<1> DEFINE Idle == UNCHANGED <<op, verdict>>
<1>1. ASSUME UNCHANGED <<shutdown, hook, phase, caller>>, Idle PROVE AnswerInv'
  BY <1>0, <1>1 DEF AnswerInv
<1>2. ASSUME NEW c \in Callers, Shutdown(c) \/ Wake(c) PROVE AnswerInv'
  <2>1. Idle /\ UNCHANGED <<state, alive>>
    BY <1>2 DEF Shutdown, Wake, endpointVars
  <2>2. CASE Shutdown(c) /\ shutdown = "Running"
    BY <1>0, <2>1, <2>2 DEF Shutdown, AnswerInv
  <2>3. CASE Wake(c) \/ (Shutdown(c) /\ shutdown # "Running")
    <3>1. UNCHANGED <<shutdown, hook, phase>>
      BY <2>3 DEF Shutdown, Wake
    <3>2. \/ caller' = [caller EXCEPT ![c] = "waiting"]
          \/ shutdown = "Stopped" /\ caller' = [caller EXCEPT ![c] = "true"]
          \/ shutdown = "Failed" /\ caller' = [caller EXCEPT ![c] = "false"]
      BY <1>0, <2>3 DEF Shutdown, Wake, Wakes, Answer
    <3>3. \A d \in Callers : /\ caller'[d] = "true" => shutdown' = "Stopped"
                             /\ caller'[d] = "false" => shutdown' = "Failed"
      BY <1>0, <3>1, <3>2 DEF AnswerInv
    <3> QED BY <2>1, <3>1, <3>3 DEF AnswerInv
  <2> QED BY <1>2, <2>2, <2>3
<1>3. ASSUME hook # "none", HookThrows PROVE AnswerInv'
  BY <1>0, <1>3 DEF HookThrows, AnswerLeader, Answer, AnswerInv
<1>4. ASSUME HookReturns, hook \in Hooks \ {"stopMqtt", "destroyCallbackTargets",
                                            "closeDatabase"}
      PROVE  AnswerInv'
  BY <1>0, <1>4 DEF HookReturns, After, Hooks, AnswerInv
<1>5. ASSUME HookReturns, hook \in {"stopMqtt", "destroyCallbackTargets"}, state = "Stopped"
      PROVE  AnswerInv'
  BY <1>0, <1>5 DEF HookReturns, After, AnswerInv
<1>6. ASSUME HookReturns, hook = "closeDatabase" PROVE AnswerInv'
  <2>1. hook' = "none" /\ shutdown' = "Stopped" /\ "database" \notin alive'
    BY <1>6 DEF HookReturns, After, Ends
  <2>2. state' = "Stopped"
    BY <1>0, <1>6 DEF AnswerInv
  <2>3. \A c \in Callers : caller'[c] # "false"
    BY <1>0, <1>6 DEF HookReturns, After, AnswerLeader, Answer, AnswerInv
  <2> QED BY <2>1, <2>2, <2>3 DEF AnswerInv
<1>7. CASE Operate
  <2>1. UNCHANGED shutdownVars /\ op # NoOp
    BY <1>7 DEF Operate, Operation, StartTransport, AwaitApplication, AwaitTracked,
       JoinTransport, CloseTracked, MarkQuiesced, AwaitObservers, FinishStop, TimesOut,
       AwaitDrained, NoOp
  <2>2. ASSUME hook = "stopMqtt", phase = "await"
        PROVE  /\ op' = NoOp \/ (op'.name = "stop" /\ op'.at # "start")
               /\ verdict' = "done" => state' = "Stopped"
    <3>1. op.name = "stop" /\ op.at # "start" /\ verdict = "none"
      BY <1>0, <2>1, <2>2 DEF AnswerInv
    <3>2. ~StartTransport
      BY <3>1 DEF StartTransport
    <3>3. ASSUME NEW a, NEW g, TimesOut(a, g) PROVE op' = NoOp /\ verdict' = "failed"
      BY <3>3 DEF TimesOut, Return
    <3>4. ASSUME FinishStop PROVE op' = NoOp /\ state' = "Stopped"
      BY <3>4 DEF FinishStop, Return
    <3>5. ASSUME NEW a \in Steps \ {"start"}, Step(a)
          PROVE  op'.name = "stop" /\ op'.at # "start" /\ verdict' = "none"
      BY <1>0, <3>1, <3>5 DEF Step
    <3>6. ASSUME \/ AwaitApplication \/ AwaitTracked \/ JoinTransport \/ CloseTracked
                 \/ MarkQuiesced \/ AwaitObservers
          PROVE  \E a \in Steps \ {"start"} : Step(a)
      BY <3>1, <3>6 DEF AwaitApplication, AwaitTracked, JoinTransport, CloseTracked,
         MarkQuiesced, AwaitObservers, Steps
    <3> QED BY <1>7, <3>2, <3>3, <3>4, <3>5, <3>6 DEF Operate, Operation
  <2> QED BY <1>0, <2>1, <2>2 DEF AnswerInv, shutdownVars
<1>8. ASSUME NEW c \in Callers, CallEndpoint(c) PROVE AnswerInv'
  <2>1. UNCHANGED <<shutdown, hook, caller, alive>>
    BY <1>8 DEF CallEndpoint, Phase
  <2>2. ASSUME hook = "stopMqtt"
        PROVE  /\ op' = NoOp \/ (op'.name = "stop" /\ op'.at # "start")
               /\ verdict' = "done" => state' = "Stopped"
    <3>1. stop(c) /\ op = NoOp
      BY <1>8, <2>2 DEF CallEndpoint, At, IInv, AwaitInv, Hooks
    <3> QED BY <1>0, <3>1 DEF stop, Enter
  <2> QED BY <1>0, <2>1, <2>2 DEF AnswerInv
<1>9. CASE Hook /\ ~\E c \in Callers : CallEndpoint(c)
  <2>1. Idle
    BY <1>9 DEF Hook, CloseHttpIngress, CloseMqttIngress, DrainHttp, EndpointAnswers,
       DrainDomain, StopFireService, JoinCoordinator, StopReporter, Destroy, closeIngress,
       endpointVars
  <2>2. CASE CloseHttpIngress \/ CloseMqttIngress
    BY <1>0, <2>1, <2>2 DEF CloseHttpIngress, CloseMqttIngress, At, Phase, AnswerInv
  <2>3. CASE DrainHttp \/ DrainDomain \/ StopReporter
    BY <1>3, <1>4, <2>3 DEF DrainHttp, DrainDomain, StopReporter, At, Hooks
  <2>4. CASE EndpointAnswers("quiesceMqttApplication")
    BY <1>3, <1>4, <2>4 DEF EndpointAnswers, At, Hooks
  <2>5. CASE EndpointAnswers("drainFire")
    BY <1>0, <1>3, <2>5 DEF EndpointAnswers, At, Phase, AnswerInv
  <2>6. CASE EndpointAnswers("stopMqtt")
    BY <1>3, <1>5, <2>6 DEF EndpointAnswers, At, AnswerInv
  <2>7. CASE StopFireService
    BY <1>0, <1>3, <2>7 DEF StopFireService, At, Phase, AnswerInv
  <2>8. CASE JoinCoordinator
    BY <1>4, <2>8 DEF JoinCoordinator, At, Hooks
  <2>9. CASE Destroy
    <3>1. ASSUME hook = "destroyCallbackTargets" PROVE state = "Stopped"
      BY <3>1 DEF AnswerInv
    <3> QED BY <1>5, <1>6, <2>9, <3>1 DEF Destroy, At
  <2> QED BY <1>9, <2>2, <2>3, <2>4, <2>5, <2>6, <2>7, <2>8, <2>9 DEF Hook
<1>10. ASSUME NEW c \in Callers, Start(c) PROVE AnswerInv'
  <2>1. /\ UNCHANGED <<shutdown, hook, phase, caller, alive>> /\ state = "Constructed"
    BY <1>10 DEF Start, start, shutdownVars
  <2>2. hook \notin Hooks \ {"stopHttp"}
    BY <2>1 DEF IInv, AwaitInv
  <2> QED BY <1>0, <2>1, <2>2 DEF AnswerInv, Hooks
<1>11. CASE Net \/ Publish \/ \E r \in Requests : BeginRequest(r) \/ EndRequest(r)
  BY <1>1, <1>11 DEF Net, NetAdmit, NetReturn, NetCopy, NetExit, Publish, WorkerAdmit,
     WorkerChecks, WorkerPublishes, WorkerNotifies, WorkerFaults, WorkerAborts,
     EffectChecks, EffectPublishes, BeginRequest, EndRequest, shutdownVars
<1> QED BY <1>2, <1>7, <1>8, <1>9, <1>10, <1>11 DEF Next

\* Every caller gets the same answer, and "true" only once every thread has
\* ended, every gate is shut and drained and every hook has run.
THEOREM TrueMeansGoneAlways == Spec => []TrueMeansGone
<1>1. Init => TransportInv /\ AnswerInv
  BY DEF Init, EndpointInit, NoOp, TransportInv, AnswerInv
<1>2. ASSUME IInv, TransportInv /\ AnswerInv, [Next]_vars
      PROVE  (TransportInv /\ AnswerInv)'
  <2>1. CASE UNCHANGED vars
    <3>1. UNCHANGED <<op, verdict, state, transport, net, shutdown, hook, phase, caller,
                      alive>>
      BY <2>1 DEF vars, endpointVars, shutdownVars
    <3> QED BY <1>2, <3>1 DEF TransportInv, AnswerInv, NoOp
  <2> QED BY <1>2, <2>1, TransportStep, AnswerStep
<1>3. ASSUME IInv, TransportInv, AnswerInv PROVE TrueMeansGone
  <2> SUFFICES ASSUME NEW c \in Callers, caller[c] = "true"
               PROVE  /\ alive = {} /\ state = "Stopped"
                      /\ net \in {"none", "exited"} /\ worker = "gone" /\ effect = "gone"
                      /\ \A g \in GateNames : gate[g] = [open |-> FALSE, leases |-> {}]
                      /\ \A d \in Callers : caller[d] # "false"
    BY DEF TrueMeansGone
  <2>1. shutdown = "Stopped" /\ state = "Stopped" /\ "database" \notin alive
    BY <1>3 DEF AnswerInv
  <2>2. alive = {} /\ worker = "gone" /\ effect = "gone"
    BY <1>3, <2>1 DEF IInv, TypeOK, EndInv, Targets
  <2>3. net \in {"none", "exited"}
    BY <1>3, <2>1 DEF TransportInv
  <2>4. ASSUME NEW g \in GateNames PROVE gate[g] = [open |-> FALSE, leases |-> {}]
    <3>1. Shut("request") /\ Shut("application") /\ Shut("observer")
      BY <1>3, <2>2 DEF IInv, EndInv
    <3>2. Shut("tracked")
      BY <1>3, <3>1 DEF IInv, GateInv, Shut
    <3>3. gate[g] \in [open : BOOLEAN, leases : SUBSET Threads] /\ Shut(g)
      BY <1>3, <3>1, <3>2 DEF IInv, TypeOK, EndpointTypeOK, Gates, GateNames
    <3> QED BY <3>3 DEF Shut
  <2>5. \A d \in Callers : caller[d] # "false"
    BY <1>3, <2>1 DEF AnswerInv
  <2> QED BY <2>1, <2>2, <2>3, <2>4, <2>5
<1>4. IInv /\ (TransportInv /\ AnswerInv) => TrueMeansGone
  BY <1>3
<1> QED BY Invariance, <1>1, <1>2, <1>4, PTL DEF Spec
=============================================================================
