----------------------------- MODULE GatewayLife -----------------------------
(***************************************************************************)
(* The life of the gateway process: run() and main() in                    *)
(* search-services/api/main.go.                                            *)
(*                                                                         *)
(* Of http.Server (external) it matters that Shutdown closes the listener, *)
(* so that ListenAndServe returns ErrServerClosed, and waits for the       *)
(* requests being handled, but no longer than its context allows; that     *)
(* Close cancels the contexts of the requests and does not wait for their  *)
(* handlers; and that a handler which is still running when the process    *)
(* exits is lost.                                                          *)
(***************************************************************************)
EXTENDS Integers

CONSTANT Requests   \* slots for HTTP connections

VARIABLES
  main,       \* where main and run are
  exit,       \* how the process ends: "nil", "error" or "panic"
  signalled,  \* ctx is done
  serve,      \* the goroutine that calls ListenAndServe
  serveErr,   \* the channel, of capacity 1: "empty", "nil" or "error"
  shutting,   \* Shutdown was called
  timedOut,   \* Shutdown gave up after httpShutdownTime
  request,    \* the connections and their requests
  failed,     \* history: ListenAndServe has failed, or run before it
  lost        \* history: a request was cut off

lifeVars == <<main, exit, signalled, serve, serveErr, shutting, timedOut,
              request, failed, lost>>

Init ==
  /\ main = "init"
  /\ exit = "none"
  /\ signalled = FALSE
  /\ serve = "none"
  /\ serveErr = "empty"
  /\ shutting = FALSE
  /\ timedOut = FALSE
  /\ request = [r \in Requests |-> "none"]
  /\ failed = FALSE
  /\ lost = FALSE

\* run has returned and serveErr is closed.
Closed == main \in {"returned", "exited"}

\* SIGINT or SIGTERM, once NotifyContext has been called.
Signal ==
  /\ main \notin {"init", "exited"}
  /\ ~signalled
  /\ signalled' = TRUE
  /\ UNCHANGED <<main, exit, serve, serveErr, shutting, timedOut, request,
                 failed, lost>>

-----------------------------------------------------------------------------
(* main.                                                                   *)

\* The clients and the server are made, and the goroutine that serves is
\* started.
Start ==
  /\ main = "init"
  /\ main' = "select"
  /\ serve' = "starting"
  /\ UNCHANGED <<exit, signalled, serveErr, shutting, timedOut, request,
                 failed, lost>>

\* A client cannot be made, or the administrator is not configured.
StartFails ==
  /\ main = "init"
  /\ main' = "returned"
  /\ exit' = "error"
  /\ failed' = TRUE
  /\ UNCHANGED <<signalled, serve, serveErr, shutting, timedOut, request, lost>>

\* run returns what it received, and its deferred calls close serveErr and the
\* connections to the services.
ReturnErr(from) ==
  /\ main = from
  /\ serveErr # "empty"
  /\ exit' = serveErr
  /\ serveErr' = "empty"
  /\ main' = "returned"
  /\ UNCHANGED <<signalled, serve, shutting, timedOut, request, failed, lost>>

\* The select: ListenAndServe ended before any signal was looked at.
ReceiveFirst == ReturnErr("select")

\* The select: ctx.Done().  Shutdown begins.
BeginShutdown ==
  /\ main = "select"
  /\ signalled
  /\ shutting' = TRUE
  /\ main' = "shutting"
  /\ UNCHANGED <<exit, signalled, serve, serveErr, timedOut, request, failed,
                 lost>>

\* MUTANT of ShutdownReturns: Close is called instead of Shutdown.
ShutdownReturnsAtOnce ==
  /\ main = "shutting"
  /\ request' = [r \in Requests |-> "none"]
  /\ lost' = (lost \/ \E r \in Requests : request[r] = "handling")
  /\ main' = "last"
  /\ UNCHANGED <<exit, signalled, serve, serveErr, shutting, timedOut, failed>>

\* No request is being handled: Shutdown closes the connections and returns nil.
ShutdownReturns ==
  /\ main = "shutting"
  /\ \A r \in Requests : request[r] # "handling"
  /\ request' = [r \in Requests |-> "none"]
  /\ main' = "last"
  /\ UNCHANGED <<exit, signalled, serve, serveErr, shutting, timedOut, failed,
                 lost>>

\* MUTANT of ShutdownTimesOut: Shutdown is given a context without a deadline.
ShutdownTimesOutNever ==
  /\ FALSE
  /\ UNCHANGED lifeVars

\* httpShutdownTime has passed.  Close cuts the requests off, run returns the
\* error of Shutdown: it waits neither for the handlers nor for serveErr.
ShutdownTimesOut ==
  /\ main = "shutting"
  /\ timedOut' = TRUE
  /\ request' = [r \in Requests |-> IF request[r] = "handling" THEN "cut" ELSE "none"]
  /\ lost' = (lost \/ \E r \in Requests : request[r] = "handling")
  /\ exit' = "error"
  /\ main' = "returned"
  /\ UNCHANGED <<signalled, serve, serveErr, shutting, failed>>

\* MUTANT of ReceiveLast: run returns nil without a look at serveErr.
ReceiveLastIgnored ==
  /\ main = "last"
  /\ exit' = "nil"
  /\ main' = "returned"
  /\ UNCHANGED <<signalled, serve, serveErr, shutting, timedOut, request, failed,
                 lost>>

\* return <-serveErr, at the end of run.
ReceiveLast == ReturnErr("last")

\* main returns or calls os.Exit(1), and every goroutine is gone.
Exit ==
  /\ main = "returned"
  /\ main' = "exited"
  /\ lost' = (lost \/ \E r \in Requests : request[r] = "handling")
  /\ request' = [r \in Requests |-> "none"]
  /\ UNCHANGED <<exit, signalled, serve, serveErr, shutting, timedOut, failed>>

-----------------------------------------------------------------------------
(* The goroutine that serves.                                              *)

\* ListenAndServe looks whether the server is shutting down...
BeginServe ==
  /\ serve = "starting"
  /\ main # "exited"
  /\ serve' = IF shutting THEN "ended" ELSE "listening"
  /\ UNCHANGED <<main, exit, signalled, serveErr, shutting, timedOut, request,
                 failed, lost>>

\* ...opens the listener, which may fail, and looks again.
Listen ==
  /\ serve = "listening"
  /\ main # "exited"
  /\ \/ /\ serve' = IF shutting THEN "ended" ELSE "serving"
        /\ UNCHANGED failed
     \/ /\ serve' = "ended"
        /\ failed' = TRUE
  /\ UNCHANGED <<main, exit, signalled, serveErr, shutting, timedOut, request,
                 lost>>

\* It returns ErrServerClosed, which counts as no error, or an error of the
\* listener.
EndServe ==
  /\ serve = "serving"
  /\ main # "exited"
  /\ serve' = "ended"
  /\ \/ shutting /\ UNCHANGED failed
     \/ ~shutting /\ failed' = TRUE
  /\ UNCHANGED <<main, exit, signalled, serveErr, shutting, timedOut, request,
                 lost>>

\* serveErr <- err.  Once run has closed the channel this ends the process.
SendErr ==
  /\ serve = "ended"
  /\ main # "exited"
  /\ serve' = "gone"
  /\ IF Closed
       THEN /\ exit' = "panic"
            /\ main' = "exited"
            /\ lost' = (lost \/ \E r \in Requests : request[r] = "handling")
            /\ request' = [r \in Requests |-> "none"]
            /\ UNCHANGED serveErr
       ELSE /\ serveErr' = IF failed THEN "error" ELSE "nil"
            /\ UNCHANGED <<exit, main, lost, request>>
  /\ UNCHANGED <<signalled, shutting, timedOut, failed>>

-----------------------------------------------------------------------------
(* Connections.                                                            *)

Connect(r) ==
  /\ serve = "serving"
  /\ ~shutting
  /\ main # "exited"
  /\ request[r] = "none"
  /\ request' = [request EXCEPT ![r] = "connected"]
  /\ UNCHANGED <<main, exit, signalled, serve, serveErr, shutting, timedOut,
                 failed, lost>>

\* A request is read, perhaps while Shutdown is waiting, and its handler called.
Handle(r) ==
  /\ request[r] = "connected"
  /\ main # "exited"
  /\ request' = [request EXCEPT ![r] = "handling"]
  /\ UNCHANGED <<main, exit, signalled, serve, serveErr, shutting, timedOut,
                 failed, lost>>

\* The handler returns; if its request was cut off nobody hears of it.
Done(r) ==
  /\ request[r] \in {"handling", "cut"}
  /\ request' = [request EXCEPT ![r] = "none"]
  /\ UNCHANGED <<main, exit, signalled, serve, serveErr, shutting, timedOut,
                 failed, lost>>

-----------------------------------------------------------------------------

\* What ends the process or cuts requests off.
Main ==
  \/ Start
  \/ StartFails
  \/ ReceiveFirst
  \/ BeginShutdown
  \/ ShutdownReturns
  \/ ShutdownTimesOut
  \/ ReceiveLast
  \/ Exit

Server == BeginServe \/ Listen \/ SendErr

Next ==
  \/ Signal
  \/ Main
  \/ Server
  \/ EndServe
  \/ \E r \in Requests : Connect(r) \/ Handle(r) \/ Done(r)

Spec == Init /\ [][Next]_lifeVars

\* Every goroutine of run that can go on does; a listener need not fail, and a
\* handler need not return.
Fairness ==
  /\ WF_lifeVars(Main)
  /\ WF_lifeVars(Server)
  /\ WF_lifeVars(EndServe /\ shutting)

-----------------------------------------------------------------------------
(* Properties.                                                             *)

\* The exit code tells the truth: 0 only if the gateway listened until it was
\* told to stop and every request it had begun to handle was answered.
ExitCodeIsTrue ==
  main = "exited" => (exit = "nil" <=> ~failed /\ ~lost /\ ~timedOut)

\* The goroutine that serves finds serveErr closed only after Shutdown gave
\* up: no other order of failure, signal and end makes it panic.
PanicOnlyWhenForced == exit = "panic" => timedOut

\* A signal ends the process, whatever its handlers are doing.
GatewayEnds == signalled ~> main = "exited"
=============================================================================
