-------------------------- MODULE ServiceLifecycle --------------------------
(***************************************************************************)
(* One instance of the service from start to exit: the goroutine of main   *)
(* and run, which starts everything and then waits in select; the          *)
(* goroutine of the HTTP server; the requests it is handling; and the      *)
(* goroutine that Close starts to shut things down in order, against the   *)
(* deadline of a context.                                                  *)
(***************************************************************************)
CONSTANT Clients   \* requests that may be in progress at once

VARIABLES
  main,      \* the step run is at
  closer,    \* the step the goroutine started by Close is at
  mongoDB,   \* the database client: "none", "open" or "closed"
  health,    \* the health checker: "none", "created", "running" or "stopped"
  server,    \* the HTTP server: "none", "starting", "listening", "failed", "shutdown"
  signals,   \* TRUE: an OS signal is waiting in the channel
  svcErrors, \* TRUE: an error of the server is waiting in the channel
  ctxErr,    \* Err() of the context of Close: "nil" until it is done
  hasShutdownError,
  inFlight,  \* the clients whose requests are being handled
  exit       \* how the process ended: "nil" while it runs

vars == <<main, closer, mongoDB, health, server, signals, svcErrors, ctxErr,
          hasShutdownError, inFlight, exit>>

shutdownVars == <<closer, ctxErr, hasShutdownError>>

Init ==
  /\ main = "GetMongoDB"
  /\ closer = "none"
  /\ mongoDB = "none"
  /\ health = "none"
  /\ server = "none"
  /\ signals = FALSE
  /\ svcErrors = FALSE
  /\ ctxErr = "nil"
  /\ hasShutdownError = FALSE
  /\ inFlight = {}
  /\ exit = "nil"

Running == main # "exited"

-----------------------------------------------------------------------------
(* service/service.go, Run: each dependency may fail to come up, and then  *)
(* the process ends without Close.                                         *)

Fail == main' = "exited" /\ exit' = "error"

GetMongoDB ==
  /\ main = "GetMongoDB"
  /\ \/ main' = "GetHealthCheck" /\ mongoDB' = "open" /\ UNCHANGED exit
     \/ Fail /\ UNCHANGED mongoDB
  /\ UNCHANGED <<shutdownVars, health, server, signals, svcErrors, inFlight>>

GetHealthCheck ==
  /\ main = "GetHealthCheck"
  /\ \/ main' = "registerCheckers" /\ health' = "created" /\ UNCHANGED exit
     \/ Fail /\ UNCHANGED health
  /\ UNCHANGED <<shutdownVars, mongoDB, server, signals, svcErrors, inFlight>>

registerCheckers ==
  /\ main = "registerCheckers"
  /\ \/ main' = "start" /\ UNCHANGED exit
     \/ Fail
  /\ UNCHANGED <<shutdownVars, mongoDB, health, server, signals, svcErrors, inFlight>>

(* HealthCheck.Start, and the goroutine of the server.                     *)
Start ==
  /\ main = "start"
  /\ main' = "select"
  /\ health' = "running"
  /\ server' = "starting"
  /\ UNCHANGED <<shutdownVars, mongoDB, signals, svcErrors, inFlight, exit>>

-----------------------------------------------------------------------------
(* The server's goroutine, and the requests.                               *)

(* The listener opens, or ListenAndServe returns its error: the address    *)
(* cannot be bound, or Shutdown came first.                                *)
ListenAndServe ==
  /\ Running
  /\ \/ server = "starting" /\ server' = "listening" /\ UNCHANGED svcErrors
     \/ server = "starting" /\ server' = "failed" /\ svcErrors' = TRUE
     \/ server = "listening" /\ server' = "failed" /\ svcErrors' = TRUE
  /\ UNCHANGED <<shutdownVars, main, mongoDB, health, signals, inFlight, exit>>

BeginRequest(c) ==
  /\ Running
  /\ server = "listening"
  /\ c \notin inFlight
  /\ inFlight' = inFlight \cup {c}
  /\ UNCHANGED <<shutdownVars, main, mongoDB, health, server, signals, svcErrors, exit>>

EndRequest(c) ==
  /\ Running
  /\ c \in inFlight
  /\ inFlight' = inFlight \ {c}
  /\ UNCHANGED <<shutdownVars, main, mongoDB, health, server, signals, svcErrors, exit>>

-----------------------------------------------------------------------------
(* main.go, run: an OS signal is kept from the first line of run on, and   *)
(* looked at once Run has returned.                                        *)

OSSignal ==
  /\ Running
  /\ ~signals
  /\ signals' = TRUE
  /\ UNCHANGED <<shutdownVars, main, mongoDB, health, server, svcErrors, inFlight, exit>>

Select ==
  /\ main = "select"
  /\ \/ svcErrors /\ svcErrors' = FALSE /\ UNCHANGED signals
     \/ signals /\ signals' = FALSE /\ UNCHANGED svcErrors
  /\ main' = "wait"
  /\ closer' = "StopHealthCheck"
  /\ UNCHANGED <<mongoDB, health, server, ctxErr, hasShutdownError, inFlight, exit>>

-----------------------------------------------------------------------------
(* service/service.go, Close: the goroutine that shuts down.               *)

Closing(step) == Running /\ closer = step

(* Wrong: the health checks go on.                                         *)
StopHealthCheckForgotten ==
  /\ Closing("StopHealthCheck")
  /\ closer' = "Shutdown"
  /\ UNCHANGED <<main, mongoDB, health, server, signals, svcErrors, ctxErr,
                 hasShutdownError, inFlight, exit>>

(* Stop waits for the check in progress and has no deadline of its own.    *)
StopHealthCheck ==
  /\ Closing("StopHealthCheck")
  /\ health' = "stopped"
  /\ closer' = "Shutdown"
  /\ UNCHANGED <<main, mongoDB, server, signals, svcErrors, ctxErr,
                 hasShutdownError, inFlight, exit>>

(* Server.Shutdown closes the listener; ListenAndServe returns at once,    *)
(* with an error that run no longer receives ...                           *)
Shutdown ==
  /\ Closing("Shutdown")
  /\ server' = "shutdown"
  /\ svcErrors' = (svcErrors \/ server # "failed")
  /\ closer' = "AwaitRequests"
  /\ UNCHANGED <<main, mongoDB, health, signals, ctxErr, hasShutdownError, inFlight, exit>>

(* Wrong: Shutdown does not wait for the requests.                         *)
ShutdownAtOnce ==
  /\ Closing("AwaitRequests")
  /\ closer' = "CloseMongoDB"
  /\ UNCHANGED <<main, mongoDB, health, server, signals, svcErrors, ctxErr,
                 hasShutdownError, inFlight, exit>>

(* ... and waits for the requests, or for the deadline.  Closing the       *)
(* listener may have failed.                                               *)
AwaitRequests ==
  /\ Closing("AwaitRequests")
  /\ \/ inFlight = {} /\ hasShutdownError' \in {hasShutdownError, TRUE}
     \/ ctxErr = "DeadlineExceeded" /\ hasShutdownError' = TRUE
  /\ closer' = "CloseMongoDB"
  /\ UNCHANGED <<main, mongoDB, health, server, signals, svcErrors, ctxErr, inFlight, exit>>

(* The goroutine's last step cancels the context, which keeps its first    *)
(* error.                                                                  *)
cancel == ctxErr' = IF ctxErr = "nil" THEN "Canceled" ELSE ctxErr

(* Wrong: an error of Close is only logged.                                *)
CloseMongoDBUnchecked ==
  /\ Closing("CloseMongoDB")
  /\ mongoDB' \in {"open", "closed"}
  /\ cancel
  /\ closer' = "done"
  /\ UNCHANGED <<main, health, server, signals, svcErrors, hasShutdownError, inFlight, exit>>

CloseMongoDB ==
  /\ Closing("CloseMongoDB")
  /\ \/ mongoDB' = "closed" /\ UNCHANGED hasShutdownError
     \/ UNCHANGED mongoDB /\ hasShutdownError' = TRUE
  /\ cancel
  /\ closer' = "done"
  /\ UNCHANGED <<main, health, server, signals, svcErrors, inFlight, exit>>

GracefulShutdownTimeout ==
  /\ main = "wait"
  /\ ctxErr = "nil"
  /\ ctxErr' = "DeadlineExceeded"
  /\ UNCHANGED <<main, closer, mongoDB, health, server, signals, svcErrors,
                 hasShutdownError, inFlight, exit>>

(* Wrong: the goroutine is waited for, not the context.                    *)
CloseReturnsWhenDone ==
  /\ main = "wait"
  /\ closer = "done"
  /\ main' = "exited"
  /\ exit' = IF hasShutdownError THEN "error" ELSE "ok"
  /\ UNCHANGED <<shutdownVars, mongoDB, health, server, signals, svcErrors, inFlight>>

(* Wrong: the deadline is not told from the cancellation.                  *)
CloseReturnsAnyDone ==
  /\ main = "wait"
  /\ ctxErr # "nil"
  /\ main' = "exited"
  /\ exit' = IF hasShutdownError THEN "error" ELSE "ok"
  /\ UNCHANGED <<shutdownVars, mongoDB, health, server, signals, svcErrors, inFlight>>

(* Close returns when its context is done, and the process exits.          *)
CloseReturns ==
  /\ main = "wait"
  /\ ctxErr # "nil"
  /\ main' = "exited"
  /\ exit' = IF ctxErr = "DeadlineExceeded" \/ hasShutdownError THEN "error" ELSE "ok"
  /\ UNCHANGED <<shutdownVars, mongoDB, health, server, signals, svcErrors, inFlight>>

-----------------------------------------------------------------------------

Run == GetMongoDB \/ GetHealthCheck \/ registerCheckers \/ Start

Next ==
  \/ Run
  \/ ListenAndServe
  \/ \E c \in Clients : BeginRequest(c) \/ EndRequest(c)
  \/ OSSignal
  \/ Select
  \/ StopHealthCheck
  \/ Shutdown
  \/ AwaitRequests
  \/ CloseMongoDB
  \/ GracefulShutdownTimeout
  \/ CloseReturns

(* The goroutine of run is scheduled, the calls in Run come back (they     *)
(* have timeouts of their own), and time passes.  Nothing is assumed of    *)
(* the requests, nor of the goroutine of Close.                            *)
Spec == Init /\ [][Next]_vars

FairSpec ==
  Spec /\ WF_vars(Run) /\ WF_vars(Select) /\ WF_vars(CloseReturns)
       /\ WF_vars(GracefulShutdownTimeout)

-----------------------------------------------------------------------------
(* Properties.                                                             *)

(* Types, and how the two goroutines of a shutdown fit together.           *)
TypeOK ==
  /\ main \in {"GetMongoDB", "GetHealthCheck", "registerCheckers", "start",
               "select", "wait", "exited"}
  /\ closer \in {"none", "StopHealthCheck", "Shutdown", "AwaitRequests",
                 "CloseMongoDB", "done"}
  /\ mongoDB \in {"none", "open", "closed"}
  /\ health \in {"none", "created", "running", "stopped"}
  /\ server \in {"none", "starting", "listening", "failed", "shutdown"}
  /\ signals \in BOOLEAN /\ svcErrors \in BOOLEAN /\ hasShutdownError \in BOOLEAN
  /\ ctxErr \in {"nil", "Canceled", "DeadlineExceeded"}
  /\ inFlight \subseteq Clients
  /\ exit \in {"nil", "ok", "error"}
  /\ exit # "nil" <=> main = "exited"
  /\ main = "wait" => closer # "none"
  /\ exit = "ok" => ctxErr = "Canceled" /\ closer = "done"

(* Until the deadline of the shutdown has passed, the database stays open  *)
(* for every request that is being handled.                                *)
RequestsKeepStore ==
  inFlight # {} => mongoDB = "open" \/ ctxErr = "DeadlineExceeded"

(* The health checks never run on a database that is closed or not open    *)
(* yet, not even when the deadline passes in the middle of the shutdown.   *)
ChecksSeeOpenStore == health = "running" => mongoDB = "open"

(* A process that reports success has shut everything down: no request was *)
(* cut off, and the database is closed, also when the deadline came close. *)
CleanExitIsClosed ==
  exit = "ok" => /\ inFlight = {}
                 /\ server = "shutdown"
                 /\ health = "stopped"
                 /\ mongoDB = "closed"

(* A signal ends the process, even when a request never ends or the        *)
(* goroutine of Close is stuck.                                            *)
SignalEndsProcess == signals ~> main = "exited"

=============================================================================
