--------------------------- MODULE ClusterShutdown ---------------------------
(***************************************************************************)
(* The gateway and one of the services behind it, each with a life of its  *)
(* own (GatewayLife and Shutdown), stopped in any order.  What joins them  *)
(* is the gRPC call a handler of the gateway waits for: it ends when the   *)
(* service answers, is stopped or exits, and the service hears of it when  *)
(* the request is cut off or the gateway exits.  A request makes at most   *)
(* one call to the service; slot r of the gateway uses handler r.          *)
(***************************************************************************)
EXTENDS Shutdown

VARIABLES
  gMain, gExit, gSignalled, gServe, gServeErr, gShutting, gTimedOut, gRequest,
  gFailed, gLost,
  call        \* of each request: "none", "waiting" or "over"

gatewayVars == <<gMain, gExit, gSignalled, gServe, gServeErr, gShutting,
                 gTimedOut, gRequest, gFailed, gLost>>
clusterVars == <<vars, gatewayVars, call>>

Gateway == INSTANCE GatewayLife WITH
  Requests  <- Handlers,
  main      <- gMain,
  exit      <- gExit,
  signalled <- gSignalled,
  serve     <- gServe,
  serveErr  <- gServeErr,
  shutting  <- gShutting,
  timedOut  <- gTimedOut,
  request   <- gRequest,
  failed    <- gFailed,
  lost      <- gLost

ClusterInit ==
  /\ Init
  /\ Gateway!Init
  /\ call = [r \in Handlers |-> "none"]

-----------------------------------------------------------------------------
(* The gateway.                                                            *)

\* A step of main, or of the goroutine that serves.  The calls of the requests
\* that are not handled any more end with it: the service is told, or finds
\* the connection broken.
GatewayStep ==
  /\ Gateway!Signal \/ Gateway!Main \/ Gateway!Server \/ Gateway!EndServe
  /\ LET ends(r) == call[r] = "waiting" /\ gRequest'[r] # "handling"
     IN  /\ call' = [r \in Handlers |->
                       IF gRequest'[r] = "none" THEN "none"
                       ELSE IF ends(r) THEN "over"
                       ELSE call[r]]
         /\ handler' = [r \in Handlers |->
                          IF ends(r) /\ handler[r] = "running" THEN "cancelled"
                                                               ELSE handler[r]]
  /\ UNCHANGED <<main, exit, signalled, loop, serve, serveErr, closed, stopper,
                 failed>>

\* A connection, whose slot is free in the service, and its request.
GatewayAccepts(r) ==
  /\ (Gateway!Connect(r) /\ handler[r] = "none") \/ Gateway!Handle(r)
  /\ UNCHANGED <<vars, call>>

\* The handler calls the service; it fails at once if nobody listens there.
GatewayCalls(r) ==
  /\ gRequest[r] = "handling"
  /\ call[r] = "none"
  /\ \/ /\ CallArrives(r)
        /\ call' = [call EXCEPT ![r] = "waiting"]
     \/ /\ ~Accepts
        /\ call' = [call EXCEPT ![r] = "over"]
        /\ UNCHANGED vars
  /\ UNCHANGED gatewayVars

\* The handler returns, with or without having called this service.
GatewayAnswers(r) ==
  /\ call[r] # "waiting"
  /\ Gateway!Done(r)
  /\ call' = [call EXCEPT ![r] = "none"]
  /\ UNCHANGED vars

-----------------------------------------------------------------------------
(* The service.                                                            *)

\* A step of main or of another goroutine of the service.  Stop and the end of
\* the process break the connection: the calls that wait fail.
ServiceStep ==
  /\ Signal \/ Main \/ Server \/ LoopBuilds \/ LoopBuilt \/ LoopEnds
  /\ call' = [r \in Handlers |->
                IF call[r] = "waiting" /\ (handler'[r] = "cancelled" \/ main' = "exited")
                  THEN "over" ELSE call[r]]
  /\ UNCHANGED gatewayVars

\* The service answers a call, or a cancelled handler ends.
ServiceAnswers(r) ==
  /\ CallEnds(r)
  /\ call' = [call EXCEPT ![r] = IF @ = "waiting" THEN "over" ELSE @]
  /\ UNCHANGED gatewayVars

-----------------------------------------------------------------------------

ClusterNext ==
  \/ GatewayStep
  \/ ServiceStep
  \/ \E r \in Handlers :
       \/ GatewayAccepts(r)
       \/ GatewayCalls(r)
       \/ GatewayAnswers(r)
       \/ ServiceAnswers(r)

ClusterSpec == ClusterInit /\ [][ClusterNext]_clusterVars

\* Both processes go on as each of them does alone, and a handler of the
\* gateway whose call is over writes its answer.
ClusterFairSpec ==
  /\ ClusterSpec
  /\ Fairness
  /\ Gateway!Fairness
  /\ \A r \in Handlers : WF_clusterVars(call[r] = "over" /\ GatewayAnswers(r))

-----------------------------------------------------------------------------
(* Properties.                                                             *)

\* The exit code of the gateway tells the truth: 0 only if it listened until it
\* was told to stop and every request it had begun to handle was answered,
\* whatever the service behind it did meanwhile.
ExitCodeIsTrue == Gateway!ExitCodeIsTrue

\* The goroutine that serves finds serveErr closed only after Shutdown gave up.
PanicOnlyWhenForced == Gateway!PanicOnlyWhenForced

\* A signal ends the gateway, although its handlers wait for calls that set no
\* deadline and that the service may never answer.
GatewayEnds == Gateway!GatewayEnds

\* A service that is told to stop lets go of the requests of the gateway that
\* wait for it, although the gateway sets no deadline for its calls and the
\* handlers of the service might work for ever.
StoppedServiceFreesRequests ==
  \A r \in Handlers :
    signalled /\ call[r] = "waiting" ~> gRequest[r] = "none"
=============================================================================
