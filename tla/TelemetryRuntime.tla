--------------------------- MODULE TelemetryRuntime ---------------------------
(***************************************************************************)
(* EndpointTelemetryRuntime of aegis/telemetry.py: passive collectors run  *)
(* one after the other under a collection lock nobody waits for, by the    *)
(* resident loop thread and by handler threads of POST                     *)
(* /api/telemetry/collect alike, and append what they see to the telemetry *)
(* table, one transaction per observation.                                 *)
(*                                                                         *)
(* An observation is identified with its digest. Several observations of   *)
(* one collector are appended in any order.                                *)
(***************************************************************************)
EXTENDS Naturals, Sequences, FiniteSets

CONSTANTS
  Loops,       \* threads that start may create, one after the other
  Callers,     \* handler threads that call collect_once
  Collectors,  \* the sequence of collectors
  Channels,    \* the event log channels of the host
  EventsOf     \* EventsOf[s]: the observations collector or channel s may make

Threads == Loops \cup Callers

Sources == {"health", "integrity"} \cup Channels

ASSUME ThreadsAssumption == Loops \cap Callers = {} /\ {"free", "noloop"} \cap Threads = {}
ASSUME CollectorsAssumption ==
  /\ Collectors \in Seq({"health", "integrity", "eventlog"})
  /\ DOMAIN EventsOf = Sources /\ \A s \in Sources : IsFiniteSet(EventsOf[s])

VARIABLES
  events,     \* the telemetry_events table: the digests stored
  claimed,    \* the sum of the inserted counts of the saved runs
  runs,       \* the kinds of run saved: status, and whether anything failed
  lock,       \* the thread that holds the collection lock
  stopEvent,  \* _stop_event
  loop,       \* _thread: the loop thread start created last
  pc,         \* pc[t]: where thread t is
  nth,        \* nth[t]: the collector t has come to
  todo,       \* todo[t]: the observations of that collector still to append
  inserted,   \* inserted[t]: inserted_count of the collection in progress
  results     \* results[t]: the outputs of its collectors so far

telemetryVars == <<events, claimed, runs, lock, stopEvent, loop, pc, nth, todo, inserted, results>>
work == <<nth, todo, inserted, results>>

Free == "free"
NoLoop == "noloop"

Observations == UNION {EventsOf[s] : s \in Sources}
States == {"ACTIVE", "DEGRADED", "ERROR", "NOT_APPLICABLE", "UNAVAILABLE", "PERMISSION_REQUIRED"}
DegradedStates == {"ERROR", "DEGRADED", "PERMISSION_REQUIRED", "UNAVAILABLE"}

Steps == {"unborn", "idle", "due", "holding", "waiting", "ended"}

Alive(l) == l # NoLoop /\ pc[l] \notin {"unborn", "ended"}

TelemetryTypeOK ==
  /\ events \subseteq Observations
  /\ claimed \in Nat
  /\ runs \subseteq [status: {"COMPLETE", "DEGRADED"}, failed: BOOLEAN]
  /\ lock \in Threads \cup {Free}
  /\ stopEvent \in BOOLEAN
  /\ loop \in Loops \cup {NoLoop}
  /\ pc \in [Threads -> Steps]
  /\ nth \in [Threads -> 1 .. Len(Collectors) + 1]
  /\ todo \in [Threads -> SUBSET Observations]
  /\ inserted \in [Threads -> Nat]
  /\ results \in [Threads -> SUBSET [state: States, failed: BOOLEAN]]

TelemetryInit ==
  /\ events = {} /\ claimed = 0 /\ runs = {}
  /\ lock = Free /\ stopEvent = FALSE /\ loop = NoLoop
  /\ pc = [t \in Threads |-> IF t \in Loops THEN "unborn" ELSE "idle"]
  /\ nth = [t \in Threads |-> 1]
  /\ todo = [t \in Threads |-> {}]
  /\ inserted = [t \in Threads |-> 0]
  /\ results = [t \in Threads |-> {}]

------------------------------------------------------------------------------
(* What collectors return. "failed" says that something the collector was  *)
(* to read could not be read.                                              *)

Output(state, failed, seen) == [state |-> state, failed |-> failed, seen |-> seen]

\* A fresh sample of the host.
HealthOutputs == {Output("ACTIVE", FALSE, {o}) : o \in EventsOf["health"]}

\* The manifest of the runtime's files, of which there may be none.
IntegrityOutputs ==
  {Output(state, state = "DEGRADED", {o}) : state \in {"ACTIVE", "DEGRADED"}, o \in EventsOf["integrity"]}

EventLogState(failing, seen) ==
  CASE failing = {}              -> "ACTIVE"
    [] failing # {} /\ seen # {} -> "DEGRADED"
    [] OTHER                     -> "PERMISSION_REQUIRED"

\* Each channel is queried on its own and fails on its own; off Windows,
\* or without wevtutil, none is.
EventLogOutputs ==
  {Output("NOT_APPLICABLE", FALSE, {}), Output("UNAVAILABLE", TRUE, {})} \cup
  UNION {{Output(EventLogState(failing, seen), failing # {}, seen) :
            seen \in SUBSET UNION {EventsOf[c] : c \in Channels \ failing}} : failing \in SUBSET Channels}

\* Any collector may raise, which collect_once turns into an output.
OutputsOf(collector) ==
  {Output("ERROR", TRUE, {})} \cup
    CASE collector = "health"    -> HealthOutputs
      [] collector = "integrity" -> IntegrityOutputs
      [] collector = "eventlog"  -> EventLogOutputs

StatusOf(outputs) == IF \E r \in outputs : r.state \in DegradedStates THEN "DEGRADED" ELSE "COMPLETE"

------------------------------------------------------------------------------
(* collect_once *)

Goto(t, step) == pc' = [pc EXCEPT ![t] = step]

\* collect_once returns to the loop or ends the handler thread.
Return(t) == Goto(t, IF t \in Loops THEN "waiting" ELSE "idle")

\* An exception of the store passes through collect_once: it ends the loop
\* thread as well as a handler thread.
Raise(t) == Goto(t, IF t \in Loops THEN "ended" ELSE "idle")

Called(t) == pc[t] = IF t \in Loops THEN "due" ELSE "idle"

Begin(t) ==
  /\ Called(t) /\ lock = Free
  /\ lock' = t
  /\ Goto(t, "holding")
  /\ UNCHANGED <<events, claimed, runs, stopEvent, loop, work>>

\* ALREADY_RUNNING is answered with the latest run, read from the store.
AlreadyRunning(t) ==
  /\ Called(t) /\ lock # Free
  /\ Return(t) \/ Raise(t)
  /\ UNCHANGED <<events, claimed, runs, lock, stopEvent, loop, work>>

Collect(t) ==
  /\ pc[t] = "holding" /\ todo[t] = {} /\ nth[t] <= Len(Collectors)
  /\ \E output \in OutputsOf(Collectors[nth[t]]) :
       /\ todo' = [todo EXCEPT ![t] = output.seen]
       /\ results' = [results EXCEPT ![t] = @ \cup {[state |-> output.state, failed |-> output.failed]}]
  /\ nth' = [nth EXCEPT ![t] = @ + 1]
  /\ UNCHANGED <<events, claimed, runs, lock, stopEvent, loop, pc, inserted>>

\* Variant: every observation handed to the store counts as inserted.
AppendAndCount(t) ==
  /\ pc[t] = "holding"
  /\ \E o \in todo[t] :
       /\ events' = events \cup {o}
       /\ inserted' = [inserted EXCEPT ![t] = @ + 1]
       /\ todo' = [todo EXCEPT ![t] = @ \ {o}]
  /\ UNCHANGED <<claimed, runs, lock, stopEvent, loop, pc, nth, results>>

\* append_telemetry: INSERT OR IGNORE, counted when a row was inserted.
AppendTelemetry(t) ==
  /\ pc[t] = "holding"
  /\ \E o \in todo[t] :
       /\ events' = events \cup {o}
       /\ inserted' = [inserted EXCEPT ![t] = IF o \in events THEN @ ELSE @ + 1]
       /\ todo' = [todo EXCEPT ![t] = @ \ {o}]
  /\ UNCHANGED <<claimed, runs, lock, stopEvent, loop, pc, nth, results>>

Unlock(t) ==
  /\ lock' = IF lock = t THEN Free ELSE lock
  /\ nth' = [nth EXCEPT ![t] = 1]
  /\ todo' = [todo EXCEPT ![t] = {}]
  /\ inserted' = [inserted EXCEPT ![t] = 0]
  /\ results' = [results EXCEPT ![t] = {}]

Done(t) == pc[t] = "holding" /\ todo[t] = {} /\ nth[t] > Len(Collectors)

\* save_collector_run; the summary read after it may still fail.
SaveRun(t) ==
  /\ Done(t)
  /\ runs' = runs \cup {[status |-> StatusOf(results[t]), failed |-> \E r \in results[t] : r.failed]}
  /\ claimed' = claimed + inserted[t]
  /\ Return(t) \/ Raise(t)
  /\ Unlock(t)
  /\ UNCHANGED <<events, stopEvent, loop>>

\* An append or the save fails; the finally clause releases the lock.
StoreFails(t) ==
  /\ pc[t] = "holding" /\ (todo[t] # {} \/ Done(t))
  /\ Raise(t)
  /\ Unlock(t)
  /\ UNCHANGED <<events, claimed, runs, stopEvent, loop>>

Collection(t) == Begin(t) \/ AlreadyRunning(t) \/ Collect(t) \/ AppendTelemetry(t) \/ SaveRun(t)

------------------------------------------------------------------------------
(* The loop thread *)

\* Variant: the loop sleeps for the interval instead of waiting on the event.
SleepInterval(l) ==
  /\ pc[l] = "waiting"
  /\ Goto(l, "due")
  /\ UNCHANGED <<events, claimed, runs, lock, stopEvent, loop, work>>

\* _stop_event.wait(interval): the interval elapses or the event is set.
Wait(l) ==
  /\ pc[l] = "waiting"
  /\ Goto(l, IF stopEvent THEN "ended" ELSE "due")
  /\ UNCHANGED <<events, claimed, runs, lock, stopEvent, loop, work>>

\* Variant: start does not look for a thread that is still alive.
StartAnother ==
  \E l \in Loops :
    /\ pc[l] = "unborn"
    /\ loop' = l /\ stopEvent' = FALSE
    /\ Goto(l, "due")
    /\ UNCHANGED <<events, claimed, runs, lock, work>>

\* start, when no loop thread is alive; otherwise it only returns False.
StartLoop ==
  /\ ~Alive(loop)
  /\ \E l \in Loops :
       /\ pc[l] = "unborn"
       /\ loop' = l /\ stopEvent' = FALSE
       /\ Goto(l, "due")
  /\ UNCHANGED <<events, claimed, runs, lock, work>>

\* stop sets the event; its caller then joins the thread for 5 seconds.
SetStop ==
  /\ stopEvent' = TRUE
  /\ UNCHANGED <<events, claimed, runs, lock, loop, pc, work>>

TelemetryNext ==
  \/ \E t \in Threads : Collection(t) \/ StoreFails(t)
  \/ \E l \in Loops : Wait(l)
  \/ StartLoop \/ SetStop

\* A thread that can run does; nothing makes a client call, or start and
\* stop be called.
LoopFairness == \A l \in Loops : WF_telemetryVars(Wait(l) \/ Collection(l) \/ StoreFails(l))
CallerFairness == \A t \in Callers : WF_telemetryVars(pc[t] = "holding" /\ (Collection(t) \/ StoreFails(t)))

TelemetrySpec == TelemetryInit /\ [][TelemetryNext]_telemetryVars /\ LoopFairness /\ CallerFairness

------------------------------------------------------------------------------
(* Correctness *)

\* However loop and handler threads come, fail and go, one thread collects
\* at a time and the lock is held exactly while it does (the non-blocking
\* acquire and the finally clause of collect_once).
CollectionIsExclusive ==
  /\ \A t, u \in Threads : pc[t] = "holding" /\ pc[u] = "holding" => t = u
  /\ \A t \in Threads : lock = t <=> pc[t] = "holding"

\* No row is counted as inserted by two collections, so the saved runs never
\* claim more rows than the table holds, overlapping windows and aborted
\* collections included (docs/ENDPOINT_DEPLOYMENT.md, privacy and integrity
\* mechanics, point 4).
NoRowClaimedTwice ==
  \A t \in Threads : claimed + inserted[t] <= Cardinality(events)

\* A collector that could not read all it was to read is visible in the
\* status of the saved run, even if other channels or collectors delivered.
FailuresAreReported == \A r \in runs : r.failed => r.status = "DEGRADED"

\* start never leaves two resident loops running, whatever the timing of
\* earlier starts, stops and store failures.
OneResidentLoop == \A l, m \in Loops : Alive(l) /\ Alive(m) => l = m

==============================================================================
