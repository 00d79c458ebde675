----------------------------- MODULE DesktopHost -----------------------------
(***************************************************************************)
(* DesktopSession and EmbeddedDesktopRuntime of aegis/desktop.py: the      *)
(* window attaches to a resident service or runs a control plane of its    *)
(* own on a background thread. Two threads stop that runtime: the window's *)
(* closed event and the finally clause of main.                            *)
(***************************************************************************)
EXTENDS ControlPlaneLifecycle

ASSUME StoppersAssumption == Stoppers = {"main", "closed"}

VARIABLES
  desk,     \* where the main thread of the desktop is
  thread,   \* whether EmbeddedDesktopRuntime.thread is set
  closer    \* closer[s]: where thread s is in stop()

deskVars == <<desk, thread, closer>>
desktopVars == <<telemetryVars, serverVars, deskVars>>

DesktopInit ==
  /\ LifecycleInit
  /\ desk = "opening" /\ thread = FALSE
  /\ closer = [s \in Stoppers |-> "out"]

\* DesktopSession.open: a healthy service of the same release is used. What
\* the constructor raises ends main.
Open ==
  \/ /\ desk = "opening" /\ desk' = "attached"
     /\ UNCHANGED <<telemetryVars, serverVars, thread, closer>>
  \/ /\ desk = "opening" /\ desk' = "embedding"
     /\ Construct
     /\ UNCHANGED <<thread, closer>>
  \/ /\ desk = "opening" /\ desk' = "ended"
     /\ ConstructFails
     /\ UNCHANGED <<thread, closer>>

\* EmbeddedDesktopRuntime.start.
StartThread ==
  /\ desk = "embedding" /\ run = "constructed"
  /\ desk' = "probing" /\ thread' = TRUE /\ run' = "starting"
  /\ UNCHANGED <<telemetryVars, stopRequested, shutdownRequest, isShutDown, stopper, socketOpen, raising, closer>>

\* The probes of start: healthy, or neither that nor failed for eight
\* seconds. What run() raised, start() raises, and main ends without a stop.
Probe ==
  /\ desk = "probing"
  /\ \/ run = "serving" /\ desk' = "shown"
     \/ run = "raised" /\ desk' = "ended"
     \/ desk' = "timedout"
  /\ UNCHANGED <<telemetryVars, serverVars, thread, closer>>

CloseWindow ==
  /\ desk \in {"shown", "attached"}
  /\ desk' = "closing"
  /\ UNCHANGED <<telemetryVars, serverVars, thread, closer>>

\* After the window is gone both call close; after a timeout only start's
\* own stop() runs, there being no session yet.
MayStop(s) == desk = "closing" \/ (desk = "timedout" /\ s = "main")

\* stop() returns at once when there is no thread, or requests the stop.
EnterStop(s) ==
  /\ closer[s] = "out" /\ MayStop(s)
  /\ IF thread
     THEN /\ closer' = [closer EXCEPT ![s] = "stopping"]
          /\ stopper' = [stopper EXCEPT ![s] = "asking"]
     ELSE /\ closer' = [closer EXCEPT ![s] = "done"]
          /\ UNCHANGED stopper
  /\ UNCHANGED <<telemetryVars, run, stopRequested, shutdownRequest, isShutDown, socketOpen, raising, desk, thread>>

AwaitRequest(s) ==
  /\ closer[s] = "stopping" /\ stopper[s] = "returned"
  /\ closer' = [closer EXCEPT ![s] = "joining"]
  /\ UNCHANGED <<telemetryVars, serverVars, desk, thread>>

\* join(5) of the runtime's thread, whose own join of the loop may last as
\* long.
JoinRun(s) ==
  /\ closer[s] = "joining"
  /\ Over \/ (run = "joining" /\ lock = loop)
  /\ closer' = [closer EXCEPT ![s] = "done"]
  /\ thread' = FALSE
  /\ UNCHANGED <<telemetryVars, serverVars, desk>>

\* main returns when its own stop() has; the process ends with it.
EndMain ==
  /\ desk \in {"closing", "timedout"} /\ closer["main"] = "done"
  /\ desk' = "ended"
  /\ UNCHANGED <<telemetryVars, serverVars, thread, closer>>

CloserStep(s) == EnterStop(s) \/ AwaitRequest(s) \/ JoinRun(s)

OnDesktop == host = "desktop" /\ desk # "ended"

DesktopNext ==
  /\ OnDesktop /\ UNCHANGED host
  /\ \/ ThreadStep /\ UNCHANGED deskVars
     \/ Open \/ StartThread \/ Probe \/ CloseWindow \/ EndMain
     \/ \E s \in Stoppers : CloserStep(s)

\* Every thread that can run does; the user need not close the window.
DesktopFairness ==
  /\ WF_desktopVars(OnDesktop /\ RunStepDue /\ UNCHANGED deskVars)
  /\ WF_desktopVars(OnDesktop /\ Open) /\ WF_desktopVars(OnDesktop /\ StartThread)
  /\ WF_desktopVars(OnDesktop /\ Probe) /\ WF_desktopVars(OnDesktop /\ EndMain)
  /\ \A s \in Stoppers :
       /\ WF_desktopVars(OnDesktop /\ StopStep(s) /\ UNCHANGED deskVars)
       /\ WF_desktopVars(OnDesktop /\ CloserStep(s))
  /\ \A l \in Loops :
       WF_desktopVars(/\ OnDesktop
                      /\ Collection(l) \/ StoreFails(l) \/ Wait(l)
                      /\ UNCHANGED <<serverVars, deskVars>>)

DesktopSpec == DesktopInit /\ host = "desktop" /\ [][DesktopNext]_<<host, desktopVars>> /\ DesktopFairness

------------------------------------------------------------------------------

\* Closing a portable window orders the scheduler and the API to stop: the
\* process does not end before its server loop has been left and its resident
\* loop told to stop and at most finishing a collection, whichever of the two
\* stopping threads comes first and although a failing start stops nothing
\* (docs/DESKTOP_PRODUCT_GUIDE.md, point 13). What failed before the server
\* loop has started no resident loop.
EndedIsStopped ==
  desk = "ended" =>
  /\ isShutDown \/ (run \in {"none", "raised"} /\ \A l \in Loops : pc[l] = "unborn")
  /\ \A l \in Loops : Alive(l) => stopEvent /\ pc[l] # "due"

\* Once the window is closed, or start has given up, the desktop ends, with
\* its runtime stopped, and however else it ends, so it does. Excepted is a
\* run() that raised before it entered the server loop: the shutdown() of a
\* stop then waits for an event nobody sets.
CloseEnds ==
  desk \in {"closing", "timedout", "ended"} ~>
    \/ desk = "ended" /\ EndedIsStopped
    \/ desk # "ended" /\ run = "raised" /\ ~isShutDown

==============================================================================
