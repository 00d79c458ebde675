---------------------------- MODULE MCControlPlane ----------------------------
(***************************************************************************)
(* The telemetry runtime on its own, started and stopped at any moment,    *)
(* and the control plane around it in either of its hosts.                 *)
(***************************************************************************)
EXTENDS ServiceHost, DesktopHost

allVars == <<host, telemetryVars, serverVars, hostVars, deskVars>>
Bare == host = "none"

Init == ServiceInit /\ DesktopInit

\* A host starts one loop thread: which of them makes no difference.
OneLoop == pc'["loop2"] = "unborn"

Next ==
  \/ Bare /\ TelemetryNext /\ UNCHANGED <<host, serverVars, hostVars, deskVars>>
  \/ ServiceNext /\ OneLoop /\ UNCHANGED deskVars
  \/ DesktopNext /\ OneLoop /\ UNCHANGED hostVars

\* LoopFairness and CallerFairness of the bare runtime.
BareFairness ==
  /\ \A l \in Loops : WF_telemetryVars(Bare /\ (Wait(l) \/ Collection(l) \/ StoreFails(l)))
  /\ \A t \in Callers : WF_telemetryVars(Bare /\ pc[t] = "holding" /\ (Collection(t) \/ StoreFails(t)))

Spec == Init /\ [][Next]_allVars /\ BareFairness /\ ServiceFairness /\ DesktopFairness

\* A stop request ends the loop thread, a collection in progress included,
\* unless start is called again or the process ends first (_run_loop, stop).
StopEndsLoop == stopEvent ~> ~stopEvent \/ (\A l \in Loops : ~Alive(l)) \/ desk = "ended"

\* The event log, whose two channels fail each on its own; one of them has an
\* event, which is seen again and again.
EventLogOnly == <<"eventlog">>
SeenBy == [s \in Sources |-> IF s = "System" THEN {} ELSE {"logon"}]

==============================================================================
