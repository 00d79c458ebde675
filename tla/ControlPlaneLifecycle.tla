------------------------ MODULE ControlPlaneLifecycle ------------------------
(***************************************************************************)
(* ResidentControlPlane of aegis/runtime.py: one thread runs the server    *)
(* loop between the start and the stop of the telemetry loop; any thread   *)
(* may request the stop. The two flags of socketserver.BaseServer are as   *)
(* shutdown() and serve_forever() use them. Its hosts are ServiceHost and  *)
(* DesktopHost.                                                            *)
(***************************************************************************)
EXTENDS TelemetryRuntime

CONSTANTS
  Stoppers,      \* threads that call request_stop
  ServeMayFail   \* whether the start and serve_forever may raise

ASSUME ServeAssumption == ServeMayFail \in BOOLEAN

VARIABLES
  host,             \* who runs the control plane, if anybody does
  run,              \* where the thread of run() is
  stopRequested,    \* _stop_requested
  shutdownRequest,  \* BaseServer: shutdown was asked for
  isShutDown,       \* BaseServer: the event serve_forever sets as it ends
  stopper,          \* stopper[s]: where thread s is in request_stop
  socketOpen,       \* the listening socket
  raising           \* whether the finally clause of run() was entered by an exception

serverVars == <<run, stopRequested, shutdownRequest, isShutDown, stopper, socketOpen, raising>>

Hosts == {"none", "service", "desktop"}
Over == run \in {"returned", "raised"}

LifecycleInit ==
  /\ TelemetryInit
  /\ host \in Hosts
  /\ run = "none"
  /\ stopRequested = FALSE /\ shutdownRequest = FALSE
  /\ isShutDown = FALSE /\ socketOpen = FALSE /\ raising = FALSE
  /\ stopper = [s \in Stoppers |-> "absent"]

------------------------------------------------------------------------------
(* The thread of run() *)

\* The constructor opens the service and binds the socket.
Construct ==
  /\ run = "none"
  /\ run' = "constructed" /\ socketOpen' = TRUE
  /\ UNCHANGED <<telemetryVars, stopRequested, shutdownRequest, isShutDown, stopper, raising>>

\* It may raise: a malformed key, an occupied port.
ConstructFails ==
  /\ run = "none"
  /\ run' = "raised"
  /\ UNCHANGED <<telemetryVars, stopRequested, shutdownRequest, isShutDown, stopper, socketOpen, raising>>

\* start_background_services is called outside the try block: what it
\* raises leaves the socket open and the server loop unentered.
StartServices ==
  /\ run = "starting"
  /\ \/ StartLoop /\ run' = "entering"
     \/ ServeMayFail /\ run' = "raised" /\ UNCHANGED telemetryVars
  /\ UNCHANGED <<stopRequested, shutdownRequest, isShutDown, stopper, socketOpen, raising>>

EnterServe ==
  /\ run = "entering"
  /\ run' = "serving" /\ isShutDown' = FALSE
  /\ UNCHANGED <<telemetryVars, stopRequested, shutdownRequest, stopper, socketOpen, raising>>

\* serve_forever returns once it finds the request, or raises.
ServeEnds ==
  /\ run = "serving" /\ run' = "stopping"
  /\ \/ shutdownRequest /\ raising' = FALSE
     \/ ServeMayFail /\ raising' = TRUE
  /\ shutdownRequest' = FALSE
  /\ UNCHANGED <<telemetryVars, stopRequested, stopper, socketOpen>>

\* Variant: a loop that ends does not tell who waits for it.
LeaveServeSilently == ServeEnds /\ UNCHANGED isShutDown

\* Its own finally clause sets the event, whichever it was.
LeaveServe == ServeEnds /\ isShutDown' = TRUE

\* Variant: the telemetry loop is left running.
SkipStopServices ==
  /\ run = "stopping"
  /\ run' = "joining"
  /\ UNCHANGED <<telemetryVars, stopRequested, shutdownRequest, isShutDown, stopper, socketOpen, raising>>

StopServices ==
  /\ run = "stopping"
  /\ SetStop
  /\ run' = "joining"
  /\ UNCHANGED <<stopRequested, shutdownRequest, isShutDown, stopper, socketOpen, raising>>

\* join(5) ends with the thread; five seconds pass only while it collects.
JoinLoop ==
  /\ run = "joining"
  /\ ~Alive(loop) \/ lock = loop
  /\ run' = "closing"
  /\ UNCHANGED <<telemetryVars, stopRequested, shutdownRequest, isShutDown, stopper, socketOpen, raising>>

\* Handler threads are daemons: server_close waits for none of them. What
\* serve_forever raised is raised again.
CloseServer ==
  /\ run = "closing"
  /\ run' = (IF raising THEN "raised" ELSE "returned") /\ socketOpen' = FALSE
  /\ UNCHANGED <<telemetryVars, stopRequested, shutdownRequest, isShutDown, stopper, raising>>

RunStep == StartServices \/ EnterServe \/ LeaveServe \/ StopServices \/ JoinLoop \/ CloseServer

\* The steps that must come: nobody may count on the server loop failing.
RunStepDue == RunStep /\ (run = "serving" => shutdownRequest)

------------------------------------------------------------------------------
(* request_stop *)

\* Variant: a server loop not entered yet is taken for one already stopped.
BeginStopIfServing(s) ==
  /\ stopper[s] = "asking"
  /\ stopRequested' = TRUE
  /\ stopper' = [stopper EXCEPT ![s] = IF stopRequested \/ run # "serving" THEN "returned" ELSE "shutting"]
  /\ UNCHANGED <<telemetryVars, run, shutdownRequest, isShutDown, socketOpen, raising>>

\* A second request returns False at once.
BeginStop(s) ==
  /\ stopper[s] = "asking"
  /\ stopRequested' = TRUE
  /\ stopper' = [stopper EXCEPT ![s] = IF stopRequested THEN "returned" ELSE "shutting"]
  /\ UNCHANGED <<telemetryVars, run, shutdownRequest, isShutDown, socketOpen, raising>>

\* shutdown() asks, and waits for the event.
AskShutdown(s) ==
  /\ stopper[s] = "shutting"
  /\ shutdownRequest' = TRUE
  /\ stopper' = [stopper EXCEPT ![s] = "waiting"]
  /\ UNCHANGED <<telemetryVars, run, stopRequested, isShutDown, socketOpen, raising>>

EndWait(s) ==
  /\ stopper[s] = "waiting" /\ isShutDown
  /\ stopper' = [stopper EXCEPT ![s] = "returned"]
  /\ UNCHANGED <<telemetryVars, run, stopRequested, shutdownRequest, isShutDown, socketOpen, raising>>

StopStep(s) == BeginStop(s) \/ AskShutdown(s) \/ EndWait(s)

------------------------------------------------------------------------------
(* The threads of the telemetry runtime. A handler thread is born of a     *)
(* request the server loop accepted, and may outlive the loop: the call to *)
(* collect_once of one may come at any time after.                         *)

HandlerBegins(t) == (Begin(t) \/ AlreadyRunning(t)) /\ (run = "serving" \/ isShutDown)

TelemetryStep ==
  /\ \/ \E l \in Loops : Collection(l) \/ StoreFails(l) \/ Wait(l)
     \/ \E t \in Callers : HandlerBegins(t) \/ Collect(t) \/ AppendTelemetry(t) \/ SaveRun(t) \/ StoreFails(t)
  /\ UNCHANGED serverVars

ThreadStep == RunStep \/ (\E s \in Stoppers : StopStep(s)) \/ TelemetryStep

------------------------------------------------------------------------------
(* Correctness, of every host *)

\* Once run() has returned or raised the resident loop only winds down: at
\* most the collection the join gave up on is still finished, and beside it
\* none but a handler thread writes to the store.
LoopQuietAfterReturn ==
  Over =>
  /\ \A l \in Loops : pc'[l] # pc[l] =>
       \/ pc[l] = "holding" /\ pc'[l] \in {"waiting", "ended"}
       \/ pc[l] = "waiting" /\ pc'[l] = "ended"
  /\ UNCHANGED <<events, claimed, runs>> \/ lock \in Callers \/ (lock = loop /\ pc[loop] = "holding")

==============================================================================
