------------------------ MODULE ClusterShutdownProofs ------------------------
(***************************************************************************)
(* Theorems about ClusterShutdown, for every number of requests.           *)
(***************************************************************************)
EXTENDS ClusterShutdown, TLAPS

-----------------------------------------------------------------------------
(* The service.  serveErr, of capacity 1, never blocks the goroutine that  *)
(* serves.  run returns only by taking what that goroutine sent, so that   *)
(* it closes the channel after the only send.                              *)

ServeInv ==
  /\ serve = "none" <=> main = "initiator"
  /\ serveErr # "empty" <=> serve = "gone" /\ main # "exited"
  /\ main = "exited" => serve = "gone"
  /\ closed <=> main = "exited"
  /\ exit # "none" <=> main = "exited"
  /\ failed => serve \in {"ended", "gone"}
  /\ serveErr # "empty" => (serveErr = "error" <=> failed)
  /\ main = "exited" => (exit = "error" <=> failed)

\* What main has seen end has ended.
StopInv ==
  /\ main \in {"initiator", "select"} => stopper = "none"
  /\ main \in {"stopping", "forced"} => stopper # "none"
  /\ main \in {"wait", "last"} => stopper = "stopped"
  /\ main = "exited" => stopper \in {"none", "stopped"}
  /\ main = "last" \/ (main = "exited" /\ stopper # "none")
       => loop \in {"off", "ended"}
  /\ stopper = "stopped" => \A h \in Handlers : handler[h] = "none"

ServiceInv == TypeOK /\ ServeInv /\ StopInv

LEMMA ServiceStarts == ClusterInit => ServiceInv
  BY DEF ClusterInit, Init, ServiceInv, TypeOK, ServeInv, StopInv

\* A step of one of the service's own goroutines.
LEMMA ServiceOwnSteps ==
  ASSUME ServiceInv, Signal \/ Main \/ Server \/ LoopBuilds \/ LoopBuilt \/ LoopEnds
  PROVE  ServiceInv'
  <1> USE DEF ServiceInv, TypeOK, ServeInv, StopInv
  <1>1. CASE Signal
    BY <1>1 DEF Signal
  <1>2. CASE LoopBuilds \/ LoopBuilt \/ LoopEnds
    BY <1>2 DEF LoopBuilds, LoopBuilt, LoopEnds
  <1>3. CASE Main
    <2>1. CASE StartServing
      BY <2>1 DEF StartServing
    <2>2. CASE ReceiveFirst
      BY <2>2 DEF ReceiveFirst, ReturnErr
    <2>3. CASE BeginStop
      BY <2>3 DEF BeginStop
    <2>4. CASE Stopped
      BY <2>4 DEF Stopped
    <2>5. CASE ForceStop
      BY <2>5 DEF ForceStop
    <2>6. CASE ForcedStopped
      BY <2>6 DEF ForcedStopped
    <2>7. CASE WaitInitiator
      BY <2>7 DEF WaitInitiator
    <2>8. CASE ReceiveLast
      BY <2>8 DEF ReceiveLast, ReturnErr
    <2> QED
      BY <1>3, <2>1, <2>2, <2>3, <2>4, <2>5, <2>6, <2>7, <2>8 DEF Main
  <1>4. CASE Server
    <2>1. CASE BeginServe
      BY <2>1 DEF BeginServe
    <2>2. CASE EndServe
      BY <2>2 DEF EndServe
    <2>3. CASE SendErr
      BY <2>3 DEF SendErr
    <2>4. CASE Drained
      BY <2>4 DEF Drained
    <2> QED
      BY <1>4, <2>1, <2>2, <2>3, <2>4 DEF Server
  <1> QED
    BY <1>1, <1>2, <1>3, <1>4

\* A step that at most starts, ends or cancels calls, and starts none once
\* GracefulStop has returned.
LEMMA CallsOnly ==
  ASSUME ServiceInv,
         UNCHANGED <<main, exit, signalled, loop, serve, serveErr, closed,
                     stopper, failed>>,
         handler' \in [Handlers -> {"none", "running", "cancelled"}],
         \A h \in Handlers :
           stopper = "stopped" /\ handler[h] = "none" => handler'[h] = "none"
  PROVE  ServiceInv'
  BY DEF ServiceInv, TypeOK, ServeInv, StopInv

LEMMA ServiceInvStep == ServiceInv /\ [ClusterNext]_clusterVars => ServiceInv'
  <1> SUFFICES ASSUME ServiceInv, [ClusterNext]_clusterVars PROVE ServiceInv'
    OBVIOUS
  <1> USE DEF vars
  <1>1. CASE GatewayStep
    BY <1>1, CallsOnly DEF GatewayStep, ServiceInv, TypeOK
  <1>2. CASE ServiceStep
    BY <1>2, ServiceOwnSteps DEF ServiceStep
  <1>3. ASSUME NEW r \in Handlers, GatewayCalls(r) PROVE ServiceInv'
    BY <1>3, CallsOnly DEF GatewayCalls, CallArrives, Accepts, ServiceInv, TypeOK
  <1>4. ASSUME NEW r \in Handlers, ServiceAnswers(r) PROVE ServiceInv'
    BY <1>4, CallsOnly DEF ServiceAnswers, CallEnds, ServiceInv, TypeOK
  <1>5. ASSUME NEW r \in Handlers, GatewayAccepts(r) \/ GatewayAnswers(r)
        PROVE  ServiceInv'
    BY <1>5, CallsOnly DEF GatewayAccepts, GatewayAnswers, ServiceInv, TypeOK
  <1>6. CASE UNCHANGED clusterVars
    BY <1>6, CallsOnly DEF clusterVars, ServiceInv, TypeOK
  <1> QED
    BY <1>1, <1>2, <1>3, <1>4, <1>5, <1>6 DEF ClusterNext

LEMMA ServiceInvariant == ClusterSpec => []ServiceInv
  BY ServiceStarts, ServiceInvStep, PTL DEF ClusterSpec

\* The goroutine that serves never sends on the channel run has closed,
\* whatever the order of signal, failure and stop.
THEOREM NeverSendsOnClosedChannel == ClusterSpec => []NoSendOnClosedChannel
  <1>1. ServiceInv => NoSendOnClosedChannel
    BY DEF ServiceInv, ServeInv, NoSendOnClosedChannel
  <1> QED
    BY <1>1, ServiceInvariant, PTL

\* run returns an error exactly if Serve failed.
THEOREM RunReportsServeError == ClusterSpec => []ServeErrorReported
  <1>1. ServiceInv => ServeErrorReported
    BY DEF ServiceInv, ServeInv, ServeErrorReported
  <1> QED
    BY <1>1, ServiceInvariant, PTL

\* After a stop, no handler and no build of the index outlives run.
THEOREM NothingOutlivesRun == ClusterSpec => []NothingRunsAfterShutdown
  <1>1. ServiceInv => NothingRunsAfterShutdown
    BY DEF ServiceInv, StopInv, NothingRunsAfterShutdown
  <1> QED
    BY <1>1, ServiceInvariant, PTL

-----------------------------------------------------------------------------
(* The gateway.  Here run may return while the goroutine that serves has   *)
(* still to send: only after Shutdown has timed out.                       *)

GatewayServeInv ==
  /\ gServe \in {"none", "starting", "listening", "serving", "ended", "gone"}
  /\ gServe = "none" => gMain = "init" \/ gFailed
  /\ gMain = "init" => gServe = "none" /\ ~gFailed
  /\ gServeErr # "empty" => gServe = "gone" /\ (gServeErr = "error" <=> gFailed)
  /\ gServeErr \in {"empty", "nil", "error"}
  /\ gServe \in {"ended", "gone"} /\ ~gFailed => gShutting
  /\ gFailed => gServe \in {"none", "ended", "gone"}

\* What is known of the outcome wherever main is.
GatewayMainInv ==
  /\ gMain \in {"init", "select", "shutting", "last", "returned", "exited"}
  /\ gMain \in {"init", "select"} => ~gShutting
  /\ gMain \in {"shutting", "last"} => gShutting
  /\ gMain \notin {"returned", "exited"} => ~gLost /\ ~gTimedOut /\ gExit = "none"
  /\ gMain \in {"select", "shutting", "last"} => gServe # "none"
  /\ gMain = "last" => \A r \in Handlers : gRequest[r] = "none"
  /\ gMain \in {"returned", "exited"} =>
       /\ gServe \in {"none", "gone"} \/ gTimedOut
       /\ gExit = "nil" =>
            /\ gServe = "gone" /\ gShutting
            /\ ~gFailed /\ ~gLost /\ ~gTimedOut
            /\ \A r \in Handlers : gRequest[r] = "none"
       /\ gExit # "nil" => gFailed \/ gTimedOut
       /\ gExit = "panic" => gTimedOut

GatewayInv == GatewayServeInv /\ GatewayMainInv

LEMMA GatewayStarts == ClusterInit => GatewayInv
  BY DEF ClusterInit, Gateway!Init, GatewayInv, GatewayServeInv, GatewayMainInv

LEMMA GatewayMainSteps ==
  ASSUME GatewayInv, Gateway!Main
  PROVE  GatewayInv'
  <1> USE DEF GatewayInv, GatewayServeInv, GatewayMainInv
  <1>1. CASE Gateway!Start
    BY <1>1 DEF Gateway!Start
  <1>2. CASE Gateway!StartFails
    BY <1>2 DEF Gateway!StartFails
  <1>3. CASE Gateway!ReceiveFirst
    BY <1>3 DEF Gateway!ReceiveFirst, Gateway!ReturnErr
  <1>4. CASE Gateway!BeginShutdown
    BY <1>4 DEF Gateway!BeginShutdown
  <1>5. CASE Gateway!ShutdownReturns
    BY <1>5 DEF Gateway!ShutdownReturns
  <1>6. CASE Gateway!ShutdownTimesOut
    BY <1>6 DEF Gateway!ShutdownTimesOut
  <1>7. CASE Gateway!ReceiveLast
    BY <1>7 DEF Gateway!ReceiveLast, Gateway!ReturnErr
  <1>8. CASE Gateway!Exit
    BY <1>8 DEF Gateway!Exit
  <1> QED
    BY <1>1, <1>2, <1>3, <1>4, <1>5, <1>6, <1>7, <1>8 DEF Gateway!Main

LEMMA GatewayOtherSteps ==
  ASSUME GatewayInv, Gateway!Signal \/ Gateway!Server \/ Gateway!EndServe
  PROVE  GatewayInv'
  <1> USE DEF GatewayInv, GatewayServeInv, GatewayMainInv
  <1>1. CASE Gateway!Signal
    BY <1>1 DEF Gateway!Signal
  <1>2. CASE Gateway!BeginServe
    BY <1>2 DEF Gateway!BeginServe
  <1>3. CASE Gateway!Listen
    BY <1>3 DEF Gateway!Listen
  <1>4. CASE Gateway!EndServe
    BY <1>4 DEF Gateway!EndServe
  <1>5. CASE Gateway!SendErr
    BY <1>5 DEF Gateway!SendErr, Gateway!Closed
  <1> QED
    BY <1>1, <1>2, <1>3, <1>4, <1>5 DEF Gateway!Server

\* A step that only moves connections: no new one once Shutdown has begun.
LEMMA ConnectionsOnly ==
  ASSUME GatewayInv, NEW r \in Handlers, NEW state,
         UNCHANGED <<gMain, gExit, gSignalled, gServe, gServeErr, gShutting,
                     gTimedOut, gFailed, gLost>>,
         gRequest' = [gRequest EXCEPT ![r] = state],
         gRequest[r] # "none" \/ ~gShutting
  PROVE  GatewayInv'
  BY DEF GatewayInv, GatewayServeInv, GatewayMainInv

LEMMA GatewayInvStep == GatewayInv /\ [ClusterNext]_clusterVars => GatewayInv'
  <1> SUFFICES ASSUME GatewayInv, [ClusterNext]_clusterVars PROVE GatewayInv'
    OBVIOUS
  <1>1. CASE GatewayStep
    BY <1>1, GatewayMainSteps, GatewayOtherSteps DEF GatewayStep
  <1>2. CASE UNCHANGED gatewayVars
    BY <1>2 DEF gatewayVars, GatewayInv, GatewayServeInv, GatewayMainInv
  <1>3. ASSUME NEW r \in Handlers, GatewayAccepts(r) PROVE GatewayInv'
    BY <1>3, ConnectionsOnly DEF GatewayAccepts, Gateway!Connect, Gateway!Handle
  <1>4. ASSUME NEW r \in Handlers, GatewayAnswers(r) PROVE GatewayInv'
    BY <1>4, ConnectionsOnly DEF GatewayAnswers, Gateway!Done
  <1>5. CASE UNCHANGED clusterVars
    BY <1>2, <1>5 DEF clusterVars
  <1> QED
    BY <1>1, <1>2, <1>3, <1>4, <1>5
    DEF ClusterNext, ServiceStep, GatewayCalls, ServiceAnswers

LEMMA GatewayInvariant == ClusterSpec => []GatewayInv
  BY GatewayStarts, GatewayInvStep, PTL DEF ClusterSpec

\* The exit code of the gateway is 0 exactly if it served until the signal and
\* answered every request it had begun to handle.
THEOREM GatewayExitCode == ClusterSpec => []ExitCodeIsTrue
  <1>1. GatewayInv => ExitCodeIsTrue
    BY DEF GatewayInv, GatewayMainInv, ExitCodeIsTrue, Gateway!ExitCodeIsTrue
  <1> QED
    BY <1>1, GatewayInvariant, PTL

\* The gateway panics on the closed channel only after Shutdown has timed out.
THEOREM GatewayPanic == ClusterSpec => []PanicOnlyWhenForced
  <1>1. GatewayInv => PanicOnlyWhenForced
    BY DEF GatewayInv, GatewayMainInv, PanicOnlyWhenForced,
           Gateway!PanicOnlyWhenForced
  <1> QED
    BY <1>1, GatewayInvariant, PTL

-----------------------------------------------------------------------------
(* The gateway with services behind it does nothing it does not do alone:  *)
(* what holds of GatewayLife holds in the cluster.                         *)

\* The processes of the cluster take no step of the gateway that GatewayLife has
\* not, and none of a service disturbs it.
THEOREM GatewayAsAlone == ClusterSpec => Gateway!Spec
  <1>1. ClusterInit => Gateway!Init
    BY DEF ClusterInit
  <1>2. [ClusterNext]_clusterVars => [Gateway!Next]_(Gateway!lifeVars)
    <2> SUFFICES ASSUME [ClusterNext]_clusterVars
                 PROVE  [Gateway!Next]_(Gateway!lifeVars)
      OBVIOUS
    <2>1. CASE GatewayStep
      BY <2>1 DEF GatewayStep, Gateway!Next
    <2>2. ASSUME NEW r \in Handlers, GatewayAccepts(r) \/ GatewayAnswers(r)
          PROVE  Gateway!Next
      BY <2>2 DEF GatewayAccepts, GatewayAnswers, Gateway!Next
    <2>3. CASE UNCHANGED gatewayVars
      BY <2>3 DEF gatewayVars, Gateway!lifeVars
    <2>4. CASE UNCHANGED clusterVars
      BY <2>3, <2>4 DEF clusterVars
    <2> QED
      BY <2>1, <2>2, <2>3, <2>4
      DEF ClusterNext, ServiceStep, GatewayCalls, ServiceAnswers
  <1> QED
    BY <1>1, <1>2, PTL DEF ClusterSpec, Gateway!Spec

-----------------------------------------------------------------------------
(* Nobody waits in vain.  That a signal ends the processes is a matter of  *)
(* fairness and only model-checked, but its two safety halves are proved:  *)
(* whoever is waited for is still there and able to go on, and the         *)
(* processes only ever move on.                                            *)

\* What the main goroutine of the service waits for can still happen: somebody
\* has yet to send on serveErr, and was told to end if main waits for it last;
\* somebody drains the server, with every handler cancelled once Stop was
\* called; the initiator has a signal to end for.
ServiceWaitsCanEnd ==
  /\ main \in {"select", "last"} /\ serveErr = "empty"
       => serve \in {"starting", "serving", "ended"}
  /\ main \in {"stopping", "forced"} => stopper \in {"draining", "stopped"}
  /\ main = "forced" => \A h \in Handlers : handler[h] # "running"
  /\ main = "wait" => signalled /\ loop # "none"
  /\ main = "last" => stopper = "stopped"

\* The same of the main goroutine of the gateway.
GatewayWaitsCanEnd ==
  /\ gMain \in {"select", "last"} /\ gServeErr = "empty"
       => gServe \in {"starting", "listening", "serving", "ended"}
  /\ gMain = "last" => gShutting

\* A handler of the gateway waits only for a handler that runs, uncancelled,
\* in a service that runs.
CallsAreAttended ==
  \A r \in Handlers :
    call[r] = "waiting" =>
      gRequest[r] = "handling" /\ handler[r] = "running" /\ main # "exited"

ServiceWaitInv ==
  /\ ServiceWaitsCanEnd
  /\ main \in {"stopping", "forced", "wait", "last"} => signalled
  /\ loop = "none" <=> main = "initiator"

GatewayWaitInv ==
  /\ gMain \in {"select", "shutting", "last"} /\ gServe = "gone" => gServeErr # "empty"
  /\ gRequest \in [Handlers -> {"none", "connected", "handling", "cut"}]

CallInv ==
  /\ call \in [Handlers -> {"none", "waiting", "over"}]
  /\ CallsAreAttended

\* Steps of the gateway and of the calls cancel and end handlers, and start
\* none once the server is stopped.
LEMMA ServiceWaitFrame ==
  ASSUME ServiceInv, ServiceWaitInv,
         UNCHANGED <<main, signalled, loop, serve, serveErr, stopper>>,
         \A h \in Handlers : stopper # "none" /\ handler[h] # "running"
                               => handler'[h] # "running"
  PROVE  ServiceWaitInv'
  BY DEF ServiceInv, StopInv, ServiceWaitInv, ServiceWaitsCanEnd

LEMMA ServiceWaitStep ==
  ServiceInv /\ ServiceWaitInv /\ [ClusterNext]_clusterVars => ServiceWaitInv'
  <1> SUFFICES ASSUME ServiceInv, ServiceWaitInv, [ClusterNext]_clusterVars
               PROVE  ServiceWaitInv'
    OBVIOUS
  <1>1. CASE GatewayStep
    BY <1>1, ServiceWaitFrame DEF GatewayStep
  <1>2. CASE ServiceStep
    <2> USE DEF ServiceInv, TypeOK, ServeInv, StopInv, ServiceWaitInv, ServiceWaitsCanEnd
    <2>1. CASE Signal
      BY <2>1 DEF Signal
    <2>2. CASE LoopBuilds \/ LoopBuilt \/ LoopEnds
      BY <2>2 DEF LoopBuilds, LoopBuilt, LoopEnds
    <2>3. CASE StartServing
      BY <2>3 DEF StartServing
    <2>4. CASE ReceiveFirst \/ ReceiveLast
      BY <2>4 DEF ReceiveFirst, ReceiveLast, ReturnErr
    <2>5. CASE BeginStop
      BY <2>5 DEF BeginStop
    <2>6. CASE Stopped
      BY <2>6 DEF Stopped
    <2>7. CASE ForceStop
      BY <2>7 DEF ForceStop
    <2>8. CASE ForcedStopped
      BY <2>8 DEF ForcedStopped
    <2>9. CASE WaitInitiator
      BY <2>9 DEF WaitInitiator
    <2>10. CASE BeginServe
      BY <2>10 DEF BeginServe
    <2>11. CASE EndServe
      BY <2>11 DEF EndServe
    <2>12. CASE SendErr
      BY <2>12 DEF SendErr
    <2>13. CASE Drained
      BY <2>13 DEF Drained
    <2> QED
      BY <1>2, <2>1, <2>2, <2>3, <2>4, <2>5, <2>6, <2>7, <2>8, <2>9, <2>10,
         <2>11, <2>12, <2>13
      DEF ServiceStep, Main, Server
  <1>3. ASSUME NEW r \in Handlers, GatewayCalls(r) PROVE ServiceWaitInv'
    BY <1>3, ServiceWaitFrame DEF GatewayCalls, CallArrives, Accepts, vars
  <1>4. ASSUME NEW r \in Handlers, ServiceAnswers(r) PROVE ServiceWaitInv'
    BY <1>4, ServiceWaitFrame DEF ServiceAnswers, CallEnds, ServiceInv, TypeOK
  <1>5. ASSUME NEW r \in Handlers, GatewayAccepts(r) \/ GatewayAnswers(r)
        PROVE  ServiceWaitInv'
    BY <1>5, ServiceWaitFrame DEF GatewayAccepts, GatewayAnswers, vars
  <1>6. CASE UNCHANGED clusterVars
    BY <1>6, ServiceWaitFrame DEF clusterVars, vars
  <1> QED
    BY <1>1, <1>2, <1>3, <1>4, <1>5, <1>6 DEF ClusterNext

LEMMA GatewayWaitStep ==
  GatewayInv /\ GatewayWaitInv /\ [ClusterNext]_clusterVars => GatewayWaitInv'
  <1> SUFFICES ASSUME GatewayInv, GatewayWaitInv, [ClusterNext]_clusterVars
               PROVE  GatewayWaitInv'
    OBVIOUS
  <1> USE DEF GatewayInv, GatewayServeInv, GatewayMainInv, GatewayWaitInv
  <1>1. CASE GatewayStep
    <2>1. CASE Gateway!Signal
      BY <2>1 DEF Gateway!Signal
    <2>2. CASE Gateway!Start \/ Gateway!StartFails
      BY <2>2 DEF Gateway!Start, Gateway!StartFails
    <2>3. CASE Gateway!ReceiveFirst \/ Gateway!ReceiveLast
      BY <2>3 DEF Gateway!ReceiveFirst, Gateway!ReceiveLast, Gateway!ReturnErr
    <2>4. CASE Gateway!BeginShutdown
      BY <2>4 DEF Gateway!BeginShutdown
    <2>5. CASE Gateway!ShutdownReturns
      BY <2>5 DEF Gateway!ShutdownReturns
    <2>6. CASE Gateway!ShutdownTimesOut
      BY <2>6 DEF Gateway!ShutdownTimesOut
    <2>7. CASE Gateway!Exit
      BY <2>7 DEF Gateway!Exit
    <2>8. CASE Gateway!BeginServe
      BY <2>8 DEF Gateway!BeginServe
    <2>9. CASE Gateway!Listen
      BY <2>9 DEF Gateway!Listen
    <2>10. CASE Gateway!EndServe
      BY <2>10 DEF Gateway!EndServe
    <2>11. CASE Gateway!SendErr
      BY <2>11 DEF Gateway!SendErr, Gateway!Closed
    <2> QED
      BY <1>1, <2>1, <2>2, <2>3, <2>4, <2>5, <2>6, <2>7, <2>8, <2>9, <2>10, <2>11
      DEF GatewayStep, Gateway!Main, Gateway!Server
  <1>2. ASSUME NEW r \in Handlers, GatewayAccepts(r) PROVE GatewayWaitInv'
    BY <1>2 DEF GatewayAccepts, Gateway!Connect, Gateway!Handle
  <1>3. ASSUME NEW r \in Handlers, GatewayAnswers(r) PROVE GatewayWaitInv'
    BY <1>3 DEF GatewayAnswers, Gateway!Done
  <1>4. CASE UNCHANGED gatewayVars
    BY <1>4 DEF gatewayVars
  <1>5. CASE UNCHANGED clusterVars
    BY <1>4, <1>5 DEF clusterVars
  <1> QED
    BY <1>1, <1>2, <1>3, <1>4, <1>5
    DEF ClusterNext, ServiceStep, GatewayCalls, ServiceAnswers

LEMMA CallStep ==
  /\ ServiceInv /\ GatewayWaitInv /\ CallInv
  /\ [ClusterNext]_clusterVars
  => CallInv'
  <1> SUFFICES ASSUME ServiceInv, GatewayWaitInv, CallInv, [ClusterNext]_clusterVars
               PROVE  CallInv'
    OBVIOUS
  <1> USE DEF CallInv, CallsAreAttended
  <1>1. CASE GatewayStep
    BY <1>1 DEF GatewayStep
  <1>2. CASE ServiceStep
    <2>1. /\ gRequest' = gRequest
          /\ call' = [r \in Handlers |->
                IF call[r] = "waiting" /\ (handler'[r] = "cancelled" \/ main' = "exited")
                  THEN "over" ELSE call[r]]
      BY <1>2 DEF ServiceStep, gatewayVars
    <2>2. \A r \in Handlers : handler[r] = "running" => handler'[r] \in {"running", "cancelled"}
      <3>1. CASE ForceStop
        BY <3>1 DEF ForceStop
      <3>2. CASE ~ForceStop
        <4>1. handler' = handler
          BY <1>2, <3>2 DEF ServiceStep, Signal, Main, Server, LoopBuilds, LoopBuilt,
             LoopEnds, StartServing, ReceiveFirst, BeginStop, Stopped, ForcedStopped,
             WaitInitiator, ReceiveLast, ReturnErr, BeginServe, EndServe, SendErr, Drained
        <4> QED
          BY <4>1
      <3> QED
        BY <3>1, <3>2
    <2> QED
      BY <2>1, <2>2
  <1>3. ASSUME NEW r \in Handlers, GatewayAccepts(r) PROVE CallInv'
    <2>1. /\ gRequest[r] \in {"none", "connected"}
          /\ \A s \in Handlers \ {r} : gRequest'[s] = gRequest[s]
          /\ UNCHANGED <<main, handler, call>>
      BY <1>3 DEF GatewayAccepts, GatewayWaitInv, Gateway!Connect, Gateway!Handle, vars
    <2> QED
      BY <2>1
  <1>4. ASSUME NEW r \in Handlers, GatewayCalls(r) PROVE CallInv'
    <2>1. /\ gRequest' = gRequest /\ main' = main /\ gRequest[r] = "handling"
          /\ call[r] = "none"
      BY <1>4 DEF GatewayCalls, CallArrives, gatewayVars, vars
    <2>2. CASE CallArrives(r) /\ call' = [call EXCEPT ![r] = "waiting"]
      BY <2>1, <2>2 DEF CallArrives, Accepts, ServiceInv, TypeOK
    <2>3. CASE call' = [call EXCEPT ![r] = "over"] /\ UNCHANGED vars
      BY <2>1, <2>3 DEF vars
    <2> QED
      BY <1>4, <2>2, <2>3 DEF GatewayCalls
  <1>5. ASSUME NEW r \in Handlers, GatewayAnswers(r) PROVE CallInv'
    BY <1>5 DEF GatewayAnswers, GatewayWaitInv, Gateway!Done, vars
  <1>6. ASSUME NEW r \in Handlers, ServiceAnswers(r) PROVE CallInv'
    BY <1>6 DEF ServiceAnswers, CallEnds, gatewayVars, ServiceInv, TypeOK
  <1>7. CASE UNCHANGED clusterVars
    BY <1>7 DEF clusterVars, vars, gatewayVars
  <1> QED
    BY <1>1, <1>2, <1>3, <1>4, <1>5, <1>6, <1>7 DEF ClusterNext

\* Neither main waits for a goroutine that is gone, and no request of the
\* gateway waits for a handler that is.
THEOREM NobodyWaitsInVain ==
  ClusterSpec => [](ServiceWaitsCanEnd /\ GatewayWaitsCanEnd /\ CallsAreAttended)
  <1>1. ClusterInit => ServiceWaitInv /\ GatewayWaitInv /\ CallInv
    BY DEF ClusterInit, Init, Gateway!Init, ServiceWaitInv, ServiceWaitsCanEnd,
           GatewayWaitInv, CallInv, CallsAreAttended
  <1>2. GatewayInv /\ GatewayWaitInv => GatewayWaitsCanEnd
    BY DEF GatewayInv, GatewayServeInv, GatewayMainInv, GatewayWaitInv, GatewayWaitsCanEnd
  <1>3. ServiceWaitInv /\ CallInv => ServiceWaitsCanEnd /\ CallsAreAttended
    BY DEF ServiceWaitInv, CallInv
  <1>4. ClusterSpec => [](GatewayInv /\ ServiceWaitInv /\ GatewayWaitInv /\ CallInv)
    BY <1>1, ServiceInvariant, GatewayInvariant, ServiceWaitStep, GatewayWaitStep,
       CallStep, PTL DEF ClusterSpec
  <1> QED
    BY <1>2, <1>3, <1>4, PTL

\* How far main and the goroutine that serves have to go at most.
GatewayStepsLeft ==
  (CASE gMain = "init" -> 5 [] gMain = "select" -> 4 [] gMain = "shutting" -> 3
     [] gMain = "last" -> 2 [] gMain = "returned" -> 1 [] OTHER -> 0)
  + (CASE gServe = "none" -> 5 [] gServe = "starting" -> 4 [] gServe = "listening" -> 3
       [] gServe = "serving" -> 2 [] gServe = "ended" -> 1 [] OTHER -> 0)

\* How far main, the goroutine that serves and the one that stops the server
\* have to go at most.
ServiceStepsLeft ==
  (CASE main = "initiator" -> 6 [] main = "select" -> 5 [] main = "stopping" -> 4
     [] main = "forced" -> 3 [] main = "wait" -> 2 [] main = "last" -> 1 [] OTHER -> 0)
  + (CASE serve = "none" -> 4 [] serve = "starting" -> 3 [] serve = "serving" -> 2
       [] serve = "ended" -> 1 [] OTHER -> 0)
  + (CASE stopper = "none" -> 2 [] stopper = "draining" -> 1 [] OTHER -> 0)

\* No step of the cluster adds to what the gateway has left to do, and its own
\* steps take from it.
GatewayMovesOn ==
  /\ GatewayStepsLeft \in 0..10 /\ GatewayStepsLeft' <= GatewayStepsLeft
  /\ Gateway!Main \/ Gateway!Server \/ Gateway!EndServe
       => GatewayStepsLeft' < GatewayStepsLeft

\* The same of a service.
ServiceMovesOn ==
  /\ ServiceStepsLeft \in 0..12 /\ ServiceStepsLeft' <= ServiceStepsLeft
  /\ Main \/ Server => ServiceStepsLeft' < ServiceStepsLeft

\* Each step of these goroutines is one step fewer, and no other step adds any:
\* from start to end the gateway takes ten of them at most, a service twelve.
THEOREM ProcessesOnlyMoveOn ==
  ClusterSpec => [][GatewayMovesOn /\ ServiceMovesOn]_clusterVars
  <1>1. ASSUME GatewayInv, ClusterNext PROVE GatewayMovesOn
    <2>1. GatewayStepsLeft \in 0..10
      BY <1>1 DEF GatewayStepsLeft
    <2>2. ASSUME Gateway!Main \/ Gateway!Server \/ Gateway!EndServe
          PROVE  GatewayStepsLeft' < GatewayStepsLeft
      <3> USE DEF GatewayStepsLeft
      <3>1. CASE Gateway!Start \/ Gateway!StartFails
        BY <1>1, <3>1 DEF Gateway!Start, Gateway!StartFails, GatewayInv, GatewayServeInv
      <3>2. CASE Gateway!ReceiveFirst \/ Gateway!ReceiveLast
        BY <3>2 DEF Gateway!ReceiveFirst, Gateway!ReceiveLast, Gateway!ReturnErr
      <3>3. CASE Gateway!BeginShutdown
        BY <3>3 DEF Gateway!BeginShutdown
      <3>4. CASE Gateway!ShutdownReturns
        BY <3>4 DEF Gateway!ShutdownReturns
      <3>5. CASE Gateway!ShutdownTimesOut
        BY <3>5 DEF Gateway!ShutdownTimesOut
      <3>6. CASE Gateway!Exit
        BY <3>6 DEF Gateway!Exit
      <3>7. CASE Gateway!BeginServe
        BY <3>7 DEF Gateway!BeginServe
      <3>8. CASE Gateway!Listen
        BY <3>8 DEF Gateway!Listen
      <3>9. CASE Gateway!EndServe
        BY <3>9 DEF Gateway!EndServe
      <3>10. CASE Gateway!SendErr
        BY <1>1, <3>10 DEF Gateway!SendErr, Gateway!Closed, GatewayInv, GatewayMainInv
      <3> QED
        BY <2>2, <3>1, <3>2, <3>3, <3>4, <3>5, <3>6, <3>7, <3>8, <3>9, <3>10
        DEF Gateway!Main, Gateway!Server
    <2>3. ASSUME ~(Gateway!Main \/ Gateway!Server \/ Gateway!EndServe)
          PROVE  UNCHANGED <<gMain, gServe>>
      BY <1>1, <2>3 DEF ClusterNext, GatewayStep, ServiceStep, GatewayAccepts, GatewayCalls,
         GatewayAnswers, ServiceAnswers, gatewayVars, Gateway!Signal, Gateway!Connect,
         Gateway!Handle, Gateway!Done
    <2>4. UNCHANGED <<gMain, gServe>> => GatewayStepsLeft' = GatewayStepsLeft
      BY DEF GatewayStepsLeft
    <2>5. GatewayStepsLeft' \in Int
      BY DEF GatewayStepsLeft
    <2> HIDE DEF GatewayStepsLeft
    <2> QED
      BY <2>1, <2>2, <2>3, <2>4, <2>5 DEF GatewayMovesOn
  <1>2. ASSUME ServiceInv, ClusterNext PROVE ServiceMovesOn
    <2>1. ServiceStepsLeft \in 0..12
      BY DEF ServiceStepsLeft
    <2>2. ASSUME Main \/ Server PROVE ServiceStepsLeft' < ServiceStepsLeft
      <3> USE DEF ServiceStepsLeft
      <3>1. CASE StartServing
        BY <1>2, <3>1 DEF StartServing, ServiceInv, ServeInv
      <3>2. CASE ReceiveFirst \/ ReceiveLast
        BY <3>2 DEF ReceiveFirst, ReceiveLast, ReturnErr
      <3>3. CASE BeginStop
        BY <1>2, <3>3 DEF BeginStop, ServiceInv, StopInv
      <3>4. CASE Stopped
        BY <3>4 DEF Stopped
      <3>5. CASE ForceStop
        BY <3>5 DEF ForceStop
      <3>6. CASE ForcedStopped
        BY <3>6 DEF ForcedStopped
      <3>7. CASE WaitInitiator
        BY <3>7 DEF WaitInitiator
      <3>8. CASE BeginServe
        BY <3>8 DEF BeginServe
      <3>9. CASE EndServe
        BY <3>9 DEF EndServe
      <3>10. CASE SendErr
        BY <3>10 DEF SendErr
      <3>11. CASE Drained
        BY <3>11 DEF Drained
      <3> QED
        BY <2>2, <3>1, <3>2, <3>3, <3>4, <3>5, <3>6, <3>7, <3>8, <3>9, <3>10, <3>11
        DEF Main, Server
    <2>3. ASSUME ~(Main \/ Server) PROVE UNCHANGED <<main, serve, stopper>>
      BY <1>2, <2>3 DEF ClusterNext, GatewayStep, ServiceStep, GatewayAccepts, GatewayCalls,
         GatewayAnswers, ServiceAnswers, CallArrives, CallEnds, Signal, LoopBuilds,
         LoopBuilt, LoopEnds, vars
    <2>4. UNCHANGED <<main, serve, stopper>> => ServiceStepsLeft' = ServiceStepsLeft
      BY DEF ServiceStepsLeft
    <2>5. ServiceStepsLeft' \in Int
      BY DEF ServiceStepsLeft
    <2> HIDE DEF ServiceStepsLeft
    <2> QED
      BY <2>1, <2>2, <2>3, <2>4, <2>5 DEF ServiceMovesOn
  <1>3. GatewayInv /\ ServiceInv /\ [ClusterNext]_clusterVars
          => [GatewayMovesOn /\ ServiceMovesOn]_clusterVars
    BY <1>1, <1>2
  <1> QED
    BY <1>3, GatewayInvariant, ServiceInvariant, PTL DEF ClusterSpec
=============================================================================
