------------------------------ MODULE Shutdown ------------------------------
(***************************************************************************)
(* The life of a service process: run() in search-services/search/main.go. *)
(* update/main.go and words/main.go are the same without the initiator,    *)
(* which behaves as one that gave up (loop = "off").                       *)
(*                                                                         *)
(* Four goroutines meet in it: main, the one that serves, the one that     *)
(* stops the server, and the initiator.  Of the gRPC server (external) it  *)
(* matters that GracefulStop refuses new calls and returns once no handler *)
(* is left, and that Stop cancels the contexts of the handlers.            *)
(***************************************************************************)
EXTENDS Integers

CONSTANT Handlers   \* slots for gRPC calls in progress

VARIABLES
  main,       \* where run is
  exit,       \* what run returned: "nil" or "error"
  signalled,  \* ctx is done
  loop,       \* the initiator's goroutine
  serve,      \* the goroutine that calls Serve
  serveErr,   \* the channel, of capacity 1: "empty", "nil" or "error"
  closed,     \* serveErr is closed
  stopper,    \* the goroutine that calls GracefulStop
  handler,    \* the calls in progress
  failed      \* history: Serve has failed

vars == <<main, exit, signalled, loop, serve, serveErr, closed, stopper,
          handler, failed>>

Init ==
  /\ main = "initiator"
  /\ exit = "none"
  /\ signalled = FALSE
  /\ loop = "none"
  /\ serve = "none"
  /\ serveErr = "empty"
  /\ closed = FALSE
  /\ stopper = "none"
  /\ handler = [h \in Handlers |-> "none"]
  /\ failed = FALSE

\* SIGINT or SIGTERM, once NotifyContext has been called.
Signal ==
  /\ main # "exited"
  /\ ~signalled
  /\ signalled' = TRUE
  /\ UNCHANGED <<main, exit, loop, serve, serveErr, closed, stopper, handler,
                 failed>>

-----------------------------------------------------------------------------
(* main.                                                                   *)

\* initiator.Run returns, and the goroutine that serves is started.  The
\* initiator runs unless its first build failed.
StartServing ==
  /\ main = "initiator"
  /\ loop' \in {"waiting", "off"}
  /\ serve' = "starting"
  /\ main' = "select"
  /\ UNCHANGED <<exit, signalled, serveErr, closed, stopper, handler, failed>>

\* MUTANT of ReturnErr: run takes what is in serveErr without waiting for it.
ReturnErrAtOnce(from) ==
  /\ main = from
  /\ exit' = serveErr
  /\ serveErr' = "empty"
  /\ closed' = TRUE
  /\ main' = "exited"
  /\ UNCHANGED <<signalled, loop, serve, stopper, handler, failed>>

\* run returns what it received, and its deferred calls close serveErr and the
\* database.
ReturnErr(from) ==
  /\ main = from
  /\ serveErr # "empty"
  /\ exit' = serveErr
  /\ serveErr' = "empty"
  /\ closed' = TRUE
  /\ main' = "exited"
  /\ UNCHANGED <<signalled, loop, serve, stopper, handler, failed>>

\* MUTANT of ReceiveLast: run returns nil without a look at serveErr.
ReceiveLastIgnored ==
  /\ main = "last"
  /\ exit' = "nil"
  /\ closed' = TRUE
  /\ main' = "exited"
  /\ UNCHANGED <<signalled, loop, serve, serveErr, stopper, handler, failed>>

\* return <-serveErr, at the end of run.
ReceiveLast == ReturnErr("last")

\* The first select: Serve ended before any signal was looked at.
ReceiveFirst == ReturnErr("select")

\* The first select: ctx.Done().
BeginStop ==
  /\ main = "select"
  /\ signalled
  /\ stopper' = "draining"
  /\ main' = "stopping"
  /\ UNCHANGED <<exit, signalled, loop, serve, serveErr, closed, handler, failed>>

\* The second select: GracefulStop has returned.
Stopped ==
  /\ main = "stopping"
  /\ stopper = "stopped"
  /\ main' = "wait"
  /\ UNCHANGED <<exit, signalled, loop, serve, serveErr, closed, stopper, handler,
                 failed>>

\* MUTANT of ForceStop: maxShutdownTime passes, but the calls go on.
ForceStopNobody ==
  /\ main = "stopping"
  /\ main' = "forced"
  /\ UNCHANGED <<exit, signalled, loop, serve, serveErr, closed, stopper, handler,
                 failed>>

\* The second select: maxShutdownTime has passed.  Stop cancels the calls.
ForceStop ==
  /\ main = "stopping"
  /\ main' = "forced"
  /\ handler' = [h \in Handlers |-> IF handler[h] = "running" THEN "cancelled"
                                                              ELSE handler[h]]
  /\ UNCHANGED <<exit, signalled, loop, serve, serveErr, closed, stopper, failed>>

\* MUTANT of ForcedStopped: nobody waits for the handlers after Stop.
ForcedStoppedAtOnce ==
  /\ main = "forced"
  /\ main' = "wait"
  /\ UNCHANGED <<exit, signalled, loop, serve, serveErr, closed, stopper, handler,
                 failed>>

\* <-stopped, after Stop.
ForcedStopped ==
  /\ main = "forced"
  /\ stopper = "stopped"
  /\ main' = "wait"
  /\ UNCHANGED <<exit, signalled, loop, serve, serveErr, closed, stopper, handler,
                 failed>>

\* if ok { initiatorWait() }
WaitInitiator ==
  /\ main = "wait"
  /\ loop \in {"off", "ended"}
  /\ main' = "last"
  /\ UNCHANGED <<exit, signalled, loop, serve, serveErr, closed, stopper, handler,
                 failed>>

-----------------------------------------------------------------------------
(* The other goroutines.                                                   *)

\* The server accepts calls.
Accepts == serve = "serving" /\ stopper = "none" /\ main # "exited"

\* Serve begins, unless the server is already stopped: then it returns
\* ErrServerStopped, which counts as no error.
BeginServe ==
  /\ serve = "starting"
  /\ serve' = IF stopper = "none" THEN "serving" ELSE "ended"
  /\ UNCHANGED <<main, exit, signalled, loop, serveErr, closed, stopper, handler,
                 failed>>

\* Serve returns because the server is stopped, or with an error of its
\* listener.
EndServe ==
  /\ serve = "serving"
  /\ \/ stopper # "none" /\ UNCHANGED failed
     \/ stopper = "none" /\ failed' = TRUE
  /\ serve' = "ended"
  /\ UNCHANGED <<main, exit, signalled, loop, serveErr, closed, stopper, handler>>

\* serveErr <- err
SendErr ==
  /\ serve = "ended"
  /\ serveErr = "empty"
  /\ serveErr' = IF failed THEN "error" ELSE "nil"
  /\ serve' = "gone"
  /\ UNCHANGED <<main, exit, signalled, loop, closed, stopper, handler, failed>>

\* GracefulStop returns, and `stopped` is closed.
Drained ==
  /\ stopper = "draining"
  /\ \A h \in Handlers : handler[h] = "none"
  /\ stopper' = "stopped"
  /\ UNCHANGED <<main, exit, signalled, loop, serve, serveErr, closed, handler,
                 failed>>

\* The initiator's select: a tick starts a build, ctx.Done() ends it.  After a
\* signal with a tick pending, either may be taken.
LoopBuilds ==
  /\ loop = "waiting"
  /\ main # "exited"
  /\ loop' = "building"
  /\ UNCHANGED <<main, exit, signalled, serve, serveErr, closed, stopper, handler,
                 failed>>

LoopBuilt ==
  /\ loop = "building"
  /\ main # "exited"
  /\ loop' = "waiting"
  /\ UNCHANGED <<main, exit, signalled, serve, serveErr, closed, stopper, handler,
                 failed>>

LoopEnds ==
  /\ loop = "waiting"
  /\ main # "exited"
  /\ signalled
  /\ loop' = "ended"
  /\ UNCHANGED <<main, exit, signalled, serve, serveErr, closed, stopper, handler,
                 failed>>

CallArrives(h) ==
  /\ Accepts
  /\ handler[h] = "none"
  /\ handler' = [handler EXCEPT ![h] = "running"]
  /\ UNCHANGED <<main, exit, signalled, loop, serve, serveErr, closed, stopper,
                 failed>>

CallEnds(h) ==
  /\ handler[h] # "none"
  /\ main # "exited"
  /\ handler' = [handler EXCEPT ![h] = "none"]
  /\ UNCHANGED <<main, exit, signalled, loop, serve, serveErr, closed, stopper,
                 failed>>

-----------------------------------------------------------------------------

Main ==
  \/ StartServing
  \/ ReceiveFirst
  \/ BeginStop
  \/ Stopped
  \/ ForceStop
  \/ ForcedStopped
  \/ WaitInitiator
  \/ ReceiveLast

Server == BeginServe \/ EndServe \/ SendErr \/ Drained

Next ==
  \/ Signal
  \/ Main
  \/ Server
  \/ LoopBuilds
  \/ LoopBuilt
  \/ LoopEnds
  \/ \E h \in Handlers : CallArrives(h) \/ CallEnds(h)

Spec == Init /\ [][Next]_vars

\* Every goroutine that can go on does.  A handler ends once its context is
\* cancelled (it may run for ever before); a build ends; the select of the
\* initiator does not pick a tick for ever when its context is done.
Fairness ==
  /\ WF_vars(Main)
  /\ WF_vars(BeginServe)
  /\ WF_vars(EndServe /\ stopper # "none")
  /\ WF_vars(SendErr)
  /\ WF_vars(Drained)
  /\ WF_vars(LoopBuilt)
  /\ SF_vars(LoopEnds)
  /\ \A h \in Handlers : WF_vars(CallEnds(h) /\ handler[h] = "cancelled")

FairSpec == Spec /\ Fairness

-----------------------------------------------------------------------------
(* Properties.                                                             *)

TypeOK ==
  /\ main \in {"initiator", "select", "stopping", "forced", "wait", "last", "exited"}
  /\ exit \in {"none", "nil", "error"}
  /\ {signalled, closed, failed} \subseteq BOOLEAN
  /\ loop \in {"none", "off", "waiting", "building", "ended"}
  /\ serve \in {"none", "starting", "serving", "ended", "gone"}
  /\ serveErr \in {"empty", "nil", "error"}
  /\ stopper \in {"none", "draining", "stopped"}
  /\ handler \in [Handlers -> {"none", "running", "cancelled"}]

\* The goroutine that serves never sends on the channel run has closed, in
\* whatever order it, the signal and the stop are scheduled.
NoSendOnClosedChannel == closed => serve = "gone"

\* run returns an error exactly if Serve failed, even when the failure comes
\* together with the signal.
ServeErrorReported == exit # "none" => (exit = "error" <=> failed)

\* When run returns after a signal, nothing uses the database it closes any
\* more: no handler, forced or not, and no build of the index.
NothingRunsAfterShutdown ==
  main = "exited" /\ stopper # "none"
    => loop \in {"off", "ended"} /\ \A h \in Handlers : handler[h] = "none"

\* A signal ends the process, whatever its handlers are doing.
ShutdownEnds == signalled ~> main = "exited"
=============================================================================
