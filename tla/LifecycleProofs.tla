-------------------------- MODULE LifecycleProofs --------------------------
(***************************************************************************)
(* Proofs about ServiceLifecycle, for any set of clients.  The properties  *)
(* speak of what is open and what is over; the inductive invariant ties    *)
(* both to the step that the goroutine of Close has come to.               *)
(***************************************************************************)
EXTENDS ServiceLifecycle, TLAPS

Past(steps) == closer \in steps

(* What is up while run has not come to select, and at select.             *)
StartOK ==
  /\ main \notin {"wait", "exited"} => closer = "none" /\ ctxErr = "nil"
  /\ main \in {"GetHealthCheck", "registerCheckers", "start", "select"} =>
       mongoDB = "open"
  /\ closer = "none" /\ main # "select" => server = "none"
  /\ server = "none" => inFlight = {}

(* What is over when the goroutine of Close has come to a step.            *)
CloseOK ==
  /\ Past({"StopHealthCheck", "Shutdown", "AwaitRequests", "CloseMongoDB"}) =>
       mongoDB = "open" /\ ctxErr # "Canceled"
  /\ health = "running" => mongoDB = "open" /\ Past({"none", "StopHealthCheck"})
  /\ Past({"Shutdown", "AwaitRequests", "CloseMongoDB", "done"}) => health = "stopped"
  /\ Past({"AwaitRequests", "CloseMongoDB", "done"}) => server = "shutdown"
  /\ Past({"CloseMongoDB", "done"}) => inFlight = {} \/ ctxErr = "DeadlineExceeded"
  /\ Past({"done"}) => ctxErr # "nil" /\ (hasShutdownError \/ mongoDB = "closed")
  /\ Past({"none"}) => ctxErr = "nil" /\ exit # "ok"
  /\ server # "none" /\ Past({"none"}) => mongoDB = "open"
  /\ exit = "ok" => ~hasShutdownError

IInv == TypeOK /\ StartOK /\ CloseOK

(* The process starts with nothing up and nothing over.                    *)
LEMMA InitIInv == Init => IInv
  BY DEF Init, IInv, TypeOK, StartOK, CloseOK, Past

(* Starting up keeps the invariant.                                        *)
LEMMA RunIInv == ASSUME IInv, Run PROVE IInv'
<1>1. CASE GetMongoDB
  BY <1>1 DEF GetMongoDB, Fail, shutdownVars, IInv, TypeOK, StartOK, CloseOK, Past
<1>2. CASE GetHealthCheck
  BY <1>2 DEF GetHealthCheck, Fail, shutdownVars, IInv, TypeOK, StartOK, CloseOK, Past
<1>3. CASE registerCheckers
  BY <1>3 DEF registerCheckers, Fail, shutdownVars, IInv, TypeOK, StartOK, CloseOK, Past
<1>4. CASE Start
  BY <1>4 DEF Start, shutdownVars, IInv, TypeOK, StartOK, CloseOK, Past
<1> QED BY <1>1, <1>2, <1>3, <1>4 DEF Run

(* The server and its requests keep the invariant: after Shutdown no       *)
(* request begins.                                                         *)
LEMMA ServeIInv ==
  ASSUME IInv, ListenAndServe \/ \E c \in Clients : BeginRequest(c) \/ EndRequest(c)
  PROVE  IInv'
<1>1. CASE ListenAndServe
  BY <1>1 DEF ListenAndServe, Running, shutdownVars, IInv, TypeOK, StartOK, CloseOK, Past
<1>2. ASSUME NEW c \in Clients, BeginRequest(c) PROVE IInv'
  BY <1>2 DEF BeginRequest, Running, shutdownVars, IInv, TypeOK, StartOK, CloseOK, Past
<1>3. ASSUME NEW c \in Clients, EndRequest(c) PROVE IInv'
  BY <1>3 DEF EndRequest, Running, shutdownVars, IInv, TypeOK, StartOK, CloseOK, Past
<1> QED BY <1>1, <1>2, <1>3

(* The steps of a shutdown keep the invariant, whatever the deadline does. *)
LEMMA CloseIInv ==
  ASSUME IInv,
         Select \/ StopHealthCheck \/ Shutdown \/ AwaitRequests \/ CloseMongoDB
           \/ GracefulShutdownTimeout \/ CloseReturns
  PROVE  IInv'
<1>1. CASE Select
  BY <1>1 DEF Select, IInv, TypeOK, StartOK, CloseOK, Past
<1>2. CASE StopHealthCheck
  BY <1>2 DEF StopHealthCheck, Closing, Running, IInv, TypeOK, StartOK, CloseOK, Past
<1>3. CASE Shutdown
  BY <1>3 DEF Shutdown, Closing, Running, IInv, TypeOK, StartOK, CloseOK, Past
<1>4. CASE AwaitRequests
  BY <1>4 DEF AwaitRequests, Closing, Running, IInv, TypeOK, StartOK, CloseOK, Past
<1>5. CASE CloseMongoDB
  BY <1>5 DEF CloseMongoDB, cancel, Closing, Running, IInv, TypeOK, StartOK, CloseOK, Past
<1>6. CASE GracefulShutdownTimeout
  BY <1>6 DEF GracefulShutdownTimeout, IInv, TypeOK, StartOK, CloseOK, Past
<1>7. CASE CloseReturns
  BY <1>7 DEF CloseReturns, shutdownVars, IInv, TypeOK, StartOK, CloseOK, Past
<1> QED BY <1>1, <1>2, <1>3, <1>4, <1>5, <1>6, <1>7

(* The invariant is inductive.                                             *)
LEMMA StepIInv == ASSUME IInv, [Next]_vars PROVE IInv'
<1>1. CASE Run BY <1>1, RunIInv
<1>2. CASE ListenAndServe \/ \E c \in Clients : BeginRequest(c) \/ EndRequest(c)
  BY <1>2, ServeIInv
<1>3. CASE Select \/ StopHealthCheck \/ Shutdown \/ AwaitRequests \/ CloseMongoDB
             \/ GracefulShutdownTimeout \/ CloseReturns
  BY <1>3, CloseIInv
<1>4. CASE OSSignal
  BY <1>4 DEF OSSignal, Running, shutdownVars, IInv, TypeOK, StartOK, CloseOK, Past
<1>5. CASE UNCHANGED vars
  BY <1>5 DEF vars, IInv, TypeOK, StartOK, CloseOK, Past
<1> QED BY <1>1, <1>2, <1>3, <1>4, <1>5 DEF Next

LEMMA Invariance == Spec => []IInv
  BY InitIInv, StepIInv, PTL DEF Spec

(* Every variable has its type, and the two goroutines of a shutdown fit   *)
(* together, for any set of clients.                                       *)
THEOREM LifecycleTypes == Spec => []TypeOK
<1>1. IInv => TypeOK BY DEF IInv
<1> QED BY <1>1, Invariance, PTL

(* Close keeps the database open under the requests until its deadline.    *)
THEOREM StoreOutlastsRequests == Spec => []RequestsKeepStore
<1>1. IInv => RequestsKeepStore
  BY DEF IInv, TypeOK, StartOK, CloseOK, Past, RequestsKeepStore
<1> QED BY <1>1, Invariance, PTL

(* Close never leaves the health checks running on a closed database.      *)
THEOREM ChecksOnOpenStore == Spec => []ChecksSeeOpenStore
<1>1. IInv => ChecksSeeOpenStore
  BY DEF IInv, CloseOK, ChecksSeeOpenStore
<1> QED BY <1>1, Invariance, PTL

(* When run returns nil, everything that Run opened is closed.             *)
THEOREM CleanExit == Spec => []CleanExitIsClosed
<1>1. IInv => CleanExitIsClosed
  BY DEF IInv, TypeOK, CloseOK, Past, CleanExitIsClosed
<1> QED BY <1>1, Invariance, PTL

=============================================================================
