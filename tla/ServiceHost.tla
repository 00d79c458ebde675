----------------------------- MODULE ServiceHost -----------------------------
(***************************************************************************)
(* WindowsServiceHost of aegis/windows_service.py: the service main thread *)
(* runs the control plane and reports to the service control manager; a    *)
(* control handler reports too and leaves request_stop to a new thread.    *)
(* The manager delivers a control only while the service accepts it.       *)
(***************************************************************************)
EXTENDS ControlPlaneLifecycle

VARIABLES
  status,        \* the state last reported to the service control manager
  handling,      \* whether a control has been delivered and not yet been reported
  mainDone,      \* whether _service_main has come to its end
  managerFailed  \* whether a call of the service control manager has failed

hostVars == <<status, handling, mainDone, managerFailed>>
serviceVars == <<telemetryVars, serverVars, hostVars>>

ServiceInit ==
  /\ LifecycleInit
  /\ status = "START_PENDING" /\ handling = FALSE
  /\ mainDone = FALSE /\ managerFailed = FALSE

\* SetServiceStatus may fail, which _report raises.
Report(state) ==
  /\ status' = state
  /\ UNCHANGED managerFailed

ReportFails ==
  /\ managerFailed' = TRUE
  /\ UNCHANGED status

\* Without a control handler, or a first report, the service is not run.
RegisterFails ==
  /\ run = "none" /\ ~mainDone
  /\ mainDone' = TRUE
  /\ ReportFails
  /\ UNCHANGED <<telemetryVars, serverVars, handling>>

ConstructRuntime == ~mainDone /\ (Construct \/ ConstructFails) /\ UNCHANGED hostVars

ReportRunning ==
  /\ run = "constructed"
  /\ \/ Report("RUNNING") /\ run' = "starting"
     \/ ReportFails /\ run' = "raised"
  /\ UNCHANGED <<telemetryVars, stopRequested, shutdownRequest, isShutDown, stopper, socketOpen, raising,
                 handling, mainDone>>

\* The finally clause of _service_main reports once.
ReportStopped ==
  /\ Over /\ ~mainDone
  /\ mainDone' = TRUE
  /\ Report("STOPPED") \/ ReportFails
  /\ UNCHANGED <<telemetryVars, serverVars, handling>>

DeliverControl ==
  /\ status = "RUNNING" /\ ~handling
  /\ handling' = TRUE
  /\ UNCHANGED <<telemetryVars, serverVars, status, mainDone, managerFailed>>

\* request_stop is left to a new thread.
StartStopper ==
  /\ \E s \in Stoppers :
       /\ stopper[s] = "absent"
       /\ stopper' = [stopper EXCEPT ![s] = "asking"]
  /\ UNCHANGED <<telemetryVars, run, stopRequested, shutdownRequest, isShutDown, socketOpen, raising>>

\* Variant: the stop is requested before the pending stop is reported.
HandleControlLate ==
  \/ handling /\ StartStopper /\ UNCHANGED hostVars
  \/ /\ handling /\ \A s \in Stoppers : stopper[s] # "absent"
     /\ handling' = FALSE /\ Report("STOP_PENDING")
     /\ UNCHANGED <<telemetryVars, serverVars, mainDone>>

\* STOP_PENDING accepts no further controls; then the thread is started. A
\* report that fails leaves the handler, and the stop is never requested.
HandleControl ==
  /\ handling /\ handling' = FALSE
  /\ \/ Report("STOP_PENDING") /\ StartStopper
     \/ ReportFails /\ UNCHANGED <<telemetryVars, serverVars>>
  /\ UNCHANGED mainDone

InService == host = "service"

ServiceNext ==
  /\ InService /\ UNCHANGED host
  /\ \/ ThreadStep /\ UNCHANGED hostVars
     \/ RegisterFails \/ ConstructRuntime \/ ReportRunning \/ ReportStopped \/ DeliverControl \/ HandleControl

\* Every thread that can run does; collectors end (wevtutil is given 12
\* seconds). No control need ever be delivered.
ServiceFairness ==
  /\ WF_serviceVars(InService /\ RunStepDue /\ UNCHANGED hostVars) /\ WF_serviceVars(InService /\ ConstructRuntime)
  /\ WF_serviceVars(InService /\ ReportRunning) /\ WF_serviceVars(InService /\ ReportStopped)
  /\ WF_serviceVars(InService /\ HandleControl)
  /\ \A s \in Stoppers : WF_serviceVars(InService /\ StopStep(s) /\ UNCHANGED hostVars)
  /\ \A l \in Loops :
       WF_serviceVars(InService /\ (Collection(l) \/ StoreFails(l) \/ Wait(l)) /\ UNCHANGED <<serverVars, hostVars>>)

ServiceSpec == ServiceInit /\ InService /\ [][ServiceNext]_<<host, serviceVars>> /\ ServiceFairness

------------------------------------------------------------------------------

\* A delivered stop control ends the service: every thread on the way
\* returns and STOPPED is reported, a collection in progress included, while
\* the service manager takes the reports.
StopCompletes == handling ~> status = "STOPPED" \/ managerFailed

\* The states reported follow the service's life. It starts once; a stop that
\* was requested is announced before its end is reported; and after STOPPED
\* nothing is, but by the handler of a control that a service was given
\* before it ended of itself.
ReportsFollowLife ==
  status # status' =>
  /\ status' = "RUNNING" => status = "START_PENDING"
  /\ status' = "STOP_PENDING" => status \in {"RUNNING", "STOPPED"} /\ handling /\ ~stopRequested
  /\ status' = "STOPPED" => Over /\ ~mainDone /\ (stopRequested => status = "STOP_PENDING")
  /\ status' # "START_PENDING"

ReportsInOrder == [][ReportsFollowLife]_serviceVars
QuietAfterReturn == [][LoopQuietAfterReturn]_serviceVars

==============================================================================
