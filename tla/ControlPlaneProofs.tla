-------------------------- MODULE ControlPlaneProofs --------------------------
(***************************************************************************)
(* What TelemetryRuntime promises for every set of loop and handler        *)
(* threads, every sequence of collectors and every set of observations;    *)
(* and what the control plane around it promises in each of its hosts, for *)
(* every set of threads that may stop it.                                  *)
(***************************************************************************)
EXTENDS ServiceHost, DesktopHost, FiniteSetTheorems, TLAPS

\* A thread that does not collect has counted nothing and seen nothing.
OnlyHolderCounts == \A t \in Threads : pc[t] # "holding" => inserted[t] = 0

\* What fails is degraded before the run is saved, too.
FailuresAreSeen == \A t \in Threads : \A r \in results[t] : r.failed => r.state \in DegradedStates

\* Only the loop thread created last may be alive.
AliveIsLoop == \A l \in Loops : Alive(l) => l = loop

TelemetryInv ==
  /\ TelemetryTypeOK
  /\ CollectionIsExclusive
  /\ IsFiniteSet(events) /\ OnlyHolderCounts /\ NoRowClaimedTwice
  /\ FailuresAreSeen /\ FailuresAreReported
  /\ AliveIsLoop

------------------------------------------------------------------------------
(* Collectors *)

\* Whatever the channels do, the event log collector's output is typed and
\* degraded if a channel failed.
LEMMA EventLogOutput ==
  ASSUME NEW o \in EventLogOutputs
  PROVE  o.state \in States /\ o.failed \in BOOLEAN /\ o.seen \subseteq Observations
           /\ (o.failed => o.state \in DegradedStates)
<1> USE DEF Output, States, DegradedStates
<1>0. CASE o = Output("NOT_APPLICABLE", FALSE, {})
  <2>1. o.state = "NOT_APPLICABLE" /\ o.failed = FALSE /\ o.seen = {}
    BY <1>0
  <2> QED
    BY <2>1
<1>1. CASE o = Output("UNAVAILABLE", TRUE, {})
  <2>1. o.state = "UNAVAILABLE" /\ o.failed = TRUE /\ o.seen = {}
    BY <1>1
  <2> QED
    BY <2>1
<1>2. CASE \E failing \in SUBSET Channels : \E seen \in SUBSET UNION {EventsOf[c] : c \in Channels \ failing} :
             o = Output(EventLogState(failing, seen), failing # {}, seen)
  <2>0. PICK failing \in SUBSET Channels :
          \E seen \in SUBSET UNION {EventsOf[c] : c \in Channels \ failing} :
            o = Output(EventLogState(failing, seen), failing # {}, seen)
    BY <1>2
  <2>1. PICK seen \in SUBSET UNION {EventsOf[c] : c \in Channels \ failing} :
          o = Output(EventLogState(failing, seen), failing # {}, seen)
    BY <2>0
  <2>2. seen \subseteq Observations
    BY DEF Observations, Sources
  <2>3. o.state = EventLogState(failing, seen) /\ o.failed = (failing # {}) /\ o.seen = seen
    BY <2>1
  <2>4. EventLogState(failing, seen) \in States
    BY DEF EventLogState
  <2>5. failing # {} => EventLogState(failing, seen) \in DegradedStates
    BY DEF EventLogState
  <2> QED
    BY <2>2, <2>3, <2>4, <2>5
<1> QED
  BY <1>0, <1>1, <1>2 DEF EventLogOutputs

\* So is every collector's.
LEMMA CollectorOutput ==
  ASSUME NEW collector \in {"health", "integrity", "eventlog"}, NEW o \in OutputsOf(collector)
  PROVE  o.state \in States /\ o.failed \in BOOLEAN /\ o.seen \subseteq Observations
           /\ (o.failed => o.state \in DegradedStates)
<1> USE DEF States, DegradedStates
<1>1. CASE o = Output("ERROR", TRUE, {})
  BY <1>1 DEF Output
<1>2. CASE o \in HealthOutputs
  <2>1. PICK e \in EventsOf["health"] : o = Output("ACTIVE", FALSE, {e})
    BY <1>2 DEF HealthOutputs
  <2>2. e \in Observations
    BY DEF Observations, Sources
  <2>3. o.state = "ACTIVE" /\ o.failed = FALSE /\ o.seen = {e}
    BY <2>1 DEF Output
  <2> QED
    BY <2>2, <2>3
<1>3. CASE o \in IntegrityOutputs
  <2>1. PICK state \in {"ACTIVE", "DEGRADED"}, e \in EventsOf["integrity"] :
          o = Output(state, state = "DEGRADED", {e})
    BY <1>3 DEF IntegrityOutputs
  <2>2. e \in Observations
    BY DEF Observations, Sources
  <2>3. o.state = state /\ o.failed = (state = "DEGRADED") /\ o.seen = {e}
    BY <2>1 DEF Output
  <2> QED
    BY <2>2, <2>3
<1>4. CASE o \in EventLogOutputs
  BY <1>4, EventLogOutput
<1> QED
  BY <1>1, <1>2, <1>3, <1>4 DEF OutputsOf

------------------------------------------------------------------------------
(* The invariant *)

LEMMA TelemetryInitial == TelemetryInit => TelemetryInv
<1> SUFFICES ASSUME TelemetryInit PROVE TelemetryInv
  OBVIOUS
<1> USE ThreadsAssumption, CollectorsAssumption DEF TelemetryInit
<1>1. TelemetryTypeOK
  <2>1. pc \in [Threads -> Steps]
    BY DEF Steps
  <2>2. nth \in [Threads -> 1 .. Len(Collectors) + 1]
    BY DEF Threads
  <2>3. /\ todo \in [Threads -> SUBSET Observations] /\ inserted \in [Threads -> Nat]
        /\ results \in [Threads -> SUBSET [state: States, failed: BOOLEAN]]
    OBVIOUS
  <2> QED
    BY <2>1, <2>2, <2>3 DEF TelemetryTypeOK
<1>2. CollectionIsExclusive
  BY DEF CollectionIsExclusive, Threads, Free
<1>3. IsFiniteSet(events) /\ Cardinality(events) = 0
  BY FS_EmptySet
<1>4. OnlyHolderCounts /\ NoRowClaimedTwice
  BY <1>3 DEF OnlyHolderCounts, NoRowClaimedTwice
<1>5. FailuresAreSeen /\ FailuresAreReported
  BY DEF FailuresAreSeen, FailuresAreReported
<1>6. AliveIsLoop
  BY DEF AliveIsLoop, Alive, Threads
<1> QED
  BY <1>1, <1>2, <1>3, <1>4, <1>5, <1>6 DEF TelemetryInv

\* A step that leaves the tables, the counts and the outputs alone has to
\* respect types, the lock and the loop thread only.
LEMMA MovesOnly ==
  ASSUME TelemetryInv, UNCHANGED <<events, claimed, runs, inserted, results>>,
         TelemetryTypeOK', CollectionIsExclusive', AliveIsLoop',
         \A t \in Threads : pc'[t] # "holding" => pc[t] # "holding"
  PROVE  TelemetryInv'
BY DEF TelemetryInv, OnlyHolderCounts, NoRowClaimedTwice, FailuresAreSeen, FailuresAreReported

LEMMA BeginStep == ASSUME TelemetryInv, NEW t \in Threads, Begin(t) PROVE TelemetryInv'
<1> USE ThreadsAssumption DEF TelemetryInv, Begin, Called, Goto, work
<1>1. TelemetryTypeOK'
  BY DEF TelemetryTypeOK, Steps
<1>2. CollectionIsExclusive'
  BY DEF CollectionIsExclusive, TelemetryTypeOK, Free
<1>3. AliveIsLoop'
  BY DEF AliveIsLoop, Alive, TelemetryTypeOK, Threads
<1> QED
  BY <1>1, <1>2, <1>3, MovesOnly DEF TelemetryTypeOK

LEMMA AlreadyRunningStep == ASSUME TelemetryInv, NEW t \in Threads, AlreadyRunning(t) PROVE TelemetryInv'
<1> USE ThreadsAssumption DEF TelemetryInv, AlreadyRunning, Called, Return, Raise, Goto, work
<1>1. TelemetryTypeOK'
  BY DEF TelemetryTypeOK, Steps
<1>2. CollectionIsExclusive'
  BY DEF CollectionIsExclusive, TelemetryTypeOK
<1>3. AliveIsLoop'
  BY DEF AliveIsLoop, Alive, TelemetryTypeOK, Threads
<1> QED
  BY <1>1, <1>2, <1>3, MovesOnly DEF TelemetryTypeOK

LEMMA WaitStep == ASSUME TelemetryInv, NEW l \in Loops, Wait(l) PROVE TelemetryInv'
<1> USE ThreadsAssumption DEF TelemetryInv, Wait, Goto, work
<1>1. TelemetryTypeOK'
  BY DEF TelemetryTypeOK, Steps, Threads
<1>2. CollectionIsExclusive'
  BY DEF CollectionIsExclusive, TelemetryTypeOK, Threads
<1>3. AliveIsLoop'
  BY DEF AliveIsLoop, Alive, TelemetryTypeOK, Threads
<1> QED
  BY <1>1, <1>2, <1>3, MovesOnly DEF TelemetryTypeOK, Threads

\* start finds no loop thread alive, so the one it creates is the only one.
LEMMA StartStep == ASSUME TelemetryInv, StartLoop PROVE TelemetryInv'
<1>1. PICK l \in Loops : /\ pc[l] = "unborn" /\ loop' = l /\ stopEvent' = FALSE
                         /\ pc' = [pc EXCEPT ![l] = "due"]
  BY DEF StartLoop, Goto
<1> USE <1>1, ThreadsAssumption DEF TelemetryInv, StartLoop, work
<1>2. TelemetryTypeOK'
  BY DEF TelemetryTypeOK, Steps, Threads
<1>3. CollectionIsExclusive'
  BY DEF CollectionIsExclusive, TelemetryTypeOK, Threads
<1>4. \A m \in Loops : ~Alive(m)
  BY DEF AliveIsLoop
<1>5. AliveIsLoop'
  BY <1>4 DEF AliveIsLoop, Alive, TelemetryTypeOK, Threads
<1> QED
  BY <1>2, <1>3, <1>5, MovesOnly DEF TelemetryTypeOK, Threads

LEMMA SetStopStep == ASSUME TelemetryInv, SetStop PROVE TelemetryInv'
<1> USE DEF TelemetryInv, SetStop, work
<1>1. TelemetryTypeOK' /\ CollectionIsExclusive' /\ AliveIsLoop'
  BY DEF TelemetryTypeOK, CollectionIsExclusive, AliveIsLoop, Alive
<1> QED
  BY <1>1, MovesOnly

LEMMA CollectStep == ASSUME TelemetryInv, NEW t \in Threads, Collect(t) PROVE TelemetryInv'
<1>1. Collectors[nth[t]] \in {"health", "integrity", "eventlog"}
  BY CollectorsAssumption DEF Collect, TelemetryInv, TelemetryTypeOK
<1>2. PICK output \in OutputsOf(Collectors[nth[t]]) :
        /\ todo' = [todo EXCEPT ![t] = output.seen]
        /\ results' = [results EXCEPT ![t] = @ \cup {[state |-> output.state, failed |-> output.failed]}]
  BY DEF Collect
<1>3. output.state \in States /\ output.failed \in BOOLEAN /\ output.seen \subseteq Observations
        /\ (output.failed => output.state \in DegradedStates)
  BY <1>1, CollectorOutput
<1> USE DEF TelemetryInv, Collect
<1>4. TelemetryTypeOK'
  <2>1. nth' \in [Threads -> 1 .. Len(Collectors) + 1]
    BY CollectorsAssumption DEF TelemetryTypeOK
  <2>2. todo' \in [Threads -> SUBSET Observations]
    BY <1>2, <1>3 DEF TelemetryTypeOK
  <2>3. results' \in [Threads -> SUBSET [state: States, failed: BOOLEAN]]
    BY <1>2, <1>3 DEF TelemetryTypeOK
  <2> QED
    BY <2>1, <2>2, <2>3 DEF TelemetryTypeOK
<1>5. CollectionIsExclusive' /\ AliveIsLoop' /\ OnlyHolderCounts' /\ NoRowClaimedTwice' /\ FailuresAreReported'
  BY DEF CollectionIsExclusive, AliveIsLoop, Alive, OnlyHolderCounts, NoRowClaimedTwice, FailuresAreReported
<1>6. FailuresAreSeen'
  BY <1>2, <1>3 DEF FailuresAreSeen, TelemetryTypeOK
<1> QED
  BY <1>4, <1>5, <1>6

\* A row is counted exactly when the table grows by it.
LEMMA AppendStep == ASSUME TelemetryInv, NEW t \in Threads, AppendTelemetry(t) PROVE TelemetryInv'
<1>1. PICK o \in todo[t] : /\ events' = events \cup {o}
                           /\ inserted' = [inserted EXCEPT ![t] = IF o \in events THEN @ ELSE @ + 1]
                           /\ todo' = [todo EXCEPT ![t] = @ \ {o}]
  BY DEF AppendTelemetry
<1> USE DEF TelemetryInv, AppendTelemetry
<1>2. /\ IsFiniteSet(events')
      /\ Cardinality(events') = IF o \in events THEN Cardinality(events) ELSE Cardinality(events) + 1
  BY <1>1, FS_AddElement
<1>3. TelemetryTypeOK'
  BY <1>1 DEF TelemetryTypeOK
<1>4. CollectionIsExclusive' /\ AliveIsLoop' /\ FailuresAreSeen' /\ FailuresAreReported'
  BY DEF CollectionIsExclusive, AliveIsLoop, Alive, FailuresAreSeen, FailuresAreReported
<1>5. OnlyHolderCounts'
  BY <1>1 DEF OnlyHolderCounts, TelemetryTypeOK
<1>6. NoRowClaimedTwice'
  <2> SUFFICES ASSUME NEW u \in Threads PROVE claimed + inserted'[u] <= Cardinality(events')
    BY DEF NoRowClaimedTwice
  <2>1. Cardinality(events) \in Nat
    BY FS_CardinalityType
  <2>2. claimed \in Nat /\ inserted[t] \in Nat /\ inserted[u] \in Nat
    BY DEF TelemetryTypeOK
  <2>3. claimed + inserted[t] <= Cardinality(events) /\ claimed + inserted[u] <= Cardinality(events)
    BY DEF NoRowClaimedTwice
  <2>4. CASE u = t
    BY <1>1, <1>2, <2>1, <2>2, <2>3, <2>4 DEF TelemetryTypeOK
  <2>5. CASE u # t
    BY <1>1, <1>2, <2>1, <2>2, <2>3, <2>5 DEF TelemetryTypeOK
  <2> QED
    BY <2>4, <2>5
<1> QED
  BY <1>2, <1>3, <1>4, <1>5, <1>6

\* The lock is given up by the thread that holds it, with its locals.
LEMMA UnlockFacts ==
  ASSUME TelemetryInv, NEW t \in Threads, pc[t] = "holding", Unlock(t),
         NEW step \in Steps \ {"holding", "unborn"}, pc' = [pc EXCEPT ![t] = step]
  PROVE  /\ lock' \in Threads \cup {Free}
         /\ pc' \in [Threads -> Steps]
         /\ nth' \in [Threads -> 1 .. Len(Collectors) + 1]
         /\ todo' \in [Threads -> SUBSET Observations]
         /\ inserted' \in [Threads -> Nat]
         /\ results' \in [Threads -> SUBSET [state: States, failed: BOOLEAN]]
         /\ CollectionIsExclusive' /\ OnlyHolderCounts' /\ FailuresAreSeen'
         /\ \A u \in Threads : inserted'[u] = 0
<1> USE ThreadsAssumption DEF TelemetryInv, TelemetryTypeOK, Unlock
<1>1. lock = t /\ lock' = Free
  BY DEF CollectionIsExclusive
<1>2. pc' \in [Threads -> Steps]
  OBVIOUS
<1>3. nth' \in [Threads -> 1 .. Len(Collectors) + 1]
  BY CollectorsAssumption
<1>4. todo' \in [Threads -> SUBSET Observations] /\ inserted' \in [Threads -> Nat]
        /\ results' \in [Threads -> SUBSET [state: States, failed: BOOLEAN]]
  OBVIOUS
<1>5. \A u \in Threads : pc'[u] # "holding"
  BY DEF CollectionIsExclusive
<1>6. CollectionIsExclusive'
  BY <1>1, <1>5 DEF CollectionIsExclusive, Free
<1>7. \A u \in Threads : inserted'[u] = 0
  BY DEF CollectionIsExclusive, OnlyHolderCounts
<1>8. OnlyHolderCounts' /\ FailuresAreSeen'
  BY <1>7 DEF OnlyHolderCounts, FailuresAreSeen
<1> QED
  BY <1>1, <1>2, <1>3, <1>4, <1>6, <1>7, <1>8

LEMMA StoreFailsStep == ASSUME TelemetryInv, NEW t \in Threads, StoreFails(t) PROVE TelemetryInv'
<1>1. PICK step \in {"ended", "idle"} : pc' = [pc EXCEPT ![t] = step] /\ (t \in Loops => step = "ended")
  BY DEF StoreFails, Raise, Goto
<1>2. step \in Steps \ {"holding", "unborn"} /\ pc[t] = "holding" /\ Unlock(t)
  BY DEF Steps, StoreFails
<1> USE DEF TelemetryInv, StoreFails
<1>3. TelemetryTypeOK'
  BY <1>1, <1>2, UnlockFacts DEF TelemetryTypeOK
<1>4. AliveIsLoop'
  BY <1>1, <1>2, ThreadsAssumption DEF AliveIsLoop, Alive, TelemetryTypeOK, Threads
<1>5. NoRowClaimedTwice'
  <2>1. \A u \in Threads : inserted'[u] = 0
    BY <1>1, <1>2, UnlockFacts
  <2>2. claimed \in Nat /\ inserted[t] \in Nat /\ claimed + inserted[t] <= Cardinality(events)
    BY DEF NoRowClaimedTwice, TelemetryTypeOK
  <2>3. Cardinality(events) \in Nat
    BY FS_CardinalityType
  <2> QED
    BY <2>1, <2>2, <2>3 DEF NoRowClaimedTwice
<1>6. FailuresAreReported' /\ IsFiniteSet(events')
  BY DEF FailuresAreReported
<1> QED
  BY <1>1, <1>2, <1>3, <1>4, <1>5, <1>6, UnlockFacts

\* A saved run adds to the claims what its thread had counted.
LEMMA SaveRunStep == ASSUME TelemetryInv, NEW t \in Threads, SaveRun(t) PROVE TelemetryInv'
<1>1. PICK step \in {"ended", "idle", "waiting"} : pc' = [pc EXCEPT ![t] = step]
  BY DEF SaveRun, Return, Raise, Goto
<1>2. step \in Steps \ {"holding", "unborn"} /\ pc[t] = "holding" /\ Unlock(t)
  BY DEF Steps, SaveRun, Done
<1> DEFINE saved == [status |-> StatusOf(results[t]), failed |-> \E r \in results[t] : r.failed]
<1>3. StatusOf(results[t]) \in {"COMPLETE", "DEGRADED"}
  BY DEF StatusOf
<1>4. saved \in [status: {"COMPLETE", "DEGRADED"}, failed: BOOLEAN] /\ (saved.failed => saved.status = "DEGRADED")
  BY <1>3 DEF TelemetryInv, FailuresAreSeen, StatusOf
<1>5. runs' = runs \cup {saved} /\ claimed' = claimed + inserted[t] /\ UNCHANGED <<events, stopEvent, loop>>
  BY DEF SaveRun
<1> HIDE DEF saved
<1> USE DEF TelemetryInv
<1>6. TelemetryTypeOK'
  <2>1. runs' \subseteq [status: {"COMPLETE", "DEGRADED"}, failed: BOOLEAN]
    BY <1>4, <1>5 DEF TelemetryTypeOK
  <2>2. claimed' \in Nat
    BY <1>5 DEF TelemetryTypeOK
  <2> QED
    BY <1>1, <1>2, <1>5, <2>1, <2>2, UnlockFacts DEF TelemetryTypeOK
<1>7. AliveIsLoop'
  BY <1>1, <1>2, <1>5, ThreadsAssumption DEF AliveIsLoop, Alive, TelemetryTypeOK, Threads
<1>8. NoRowClaimedTwice'
  <2>1. \A u \in Threads : inserted'[u] = 0
    BY <1>1, <1>2, UnlockFacts
  <2>2. claimed' <= Cardinality(events')
    BY <1>5 DEF NoRowClaimedTwice
  <2>3. claimed' \in Nat
    BY <1>5 DEF TelemetryTypeOK
  <2> QED
    BY <2>1, <2>2, <2>3 DEF NoRowClaimedTwice
<1>9. FailuresAreReported'
  BY <1>4, <1>5 DEF FailuresAreReported
<1>10. IsFiniteSet(events')
  BY <1>5
<1> QED
  BY <1>1, <1>2, <1>6, <1>7, <1>8, <1>9, <1>10, UnlockFacts

LEMMA TelemetryPreserved == TelemetryInv /\ [TelemetryNext]_telemetryVars => TelemetryInv'
<1> SUFFICES ASSUME TelemetryInv, [TelemetryNext]_telemetryVars PROVE TelemetryInv'
  OBVIOUS
<1>1. ASSUME NEW t \in Threads, Collection(t) PROVE TelemetryInv'
  BY <1>1, BeginStep, AlreadyRunningStep, CollectStep, AppendStep, SaveRunStep DEF Collection
<1>2. ASSUME NEW t \in Threads, StoreFails(t) PROVE TelemetryInv'
  BY <1>2, StoreFailsStep
<1>3. ASSUME NEW l \in Loops, Wait(l) PROVE TelemetryInv'
  BY <1>3, WaitStep
<1>4. CASE StartLoop
  BY <1>4, StartStep
<1>5. CASE SetStop
  BY <1>5, SetStopStep
<1>6. CASE UNCHANGED telemetryVars
  BY <1>6 DEF telemetryVars, work, TelemetryInv, TelemetryTypeOK, CollectionIsExclusive, OnlyHolderCounts,
       NoRowClaimedTwice, FailuresAreSeen, FailuresAreReported, AliveIsLoop, Alive
<1> QED
  BY <1>1, <1>2, <1>3, <1>4, <1>5, <1>6 DEF TelemetryNext

LEMMA TelemetryInvariant == TelemetrySpec => []TelemetryInv
  BY TelemetryInitial, TelemetryPreserved, PTL DEF TelemetrySpec

------------------------------------------------------------------------------
(* The properties *)

\* Every row, run, lock holder and local stays of its kind.
THEOREM TelemetryIsTyped == TelemetrySpec => []TelemetryTypeOK
<1>1. TelemetryInv => TelemetryTypeOK
  BY DEF TelemetryInv
<1> QED
  BY TelemetryInvariant, <1>1, PTL

\* One thread collects at a time and holds the lock exactly while it does
\* (collect_once), for any number of loop and handler threads.
THEOREM TelemetryIsExclusive == TelemetrySpec => []CollectionIsExclusive
<1>1. TelemetryInv => CollectionIsExclusive
  BY DEF TelemetryInv
<1> QED
  BY TelemetryInvariant, <1>1, PTL

\* The saved runs never claim more rows than the table holds
\* (append_telemetry, save_collector_run).
THEOREM RowsAreClaimedOnce == TelemetrySpec => []NoRowClaimedTwice
<1>1. TelemetryInv => NoRowClaimedTwice
  BY DEF TelemetryInv
<1> QED
  BY TelemetryInvariant, <1>1, PTL

\* A collector's failure is visible in the status of the saved run, whatever
\* the collectors, the channels and their observations.
THEOREM FailuresReachTheRun == TelemetrySpec => []FailuresAreReported
<1>1. TelemetryInv => FailuresAreReported
  BY DEF TelemetryInv
<1> QED
  BY TelemetryInvariant, <1>1, PTL

\* start never leaves two resident loops running (start, stop, _run_loop).
THEOREM ResidentLoopIsUnique == TelemetrySpec => []OneResidentLoop
<1>1. TelemetryInv => OneResidentLoop
  BY DEF TelemetryInv, AliveIsLoop, OneResidentLoop
<1> QED
  BY TelemetryInvariant, <1>1, PTL

------------------------------------------------------------------------------
(* The control plane, in either host *)

\* Before the start of the background services, and if what precedes the
\* server loop failed, there is no loop thread. From stop() on the event stays
\* set, and from the end of the join on no loop thread is about to collect:
\* one that still does finds the event.
Unstarted == run \in {"none", "constructed", "starting"} \/ (run = "raised" /\ ~isShutDown)
Joined == run = "closing" \/ (Over /\ isShutDown)

QuietLoop ==
  /\ Unstarted => \A l \in Loops : pc[l] = "unborn"
  /\ run \in {"none", "constructed", "starting"} => ~isShutDown
  /\ run \in {"stopping", "joining", "closing", "returned"} => isShutDown
  /\ run = "joining" \/ Joined => stopEvent
  /\ Joined => \A l \in Loops : pc[l] # "due"

\* What the threads of the telemetry runtime and its stop do, a start aside.
Proceeds ==
  \/ \E t \in Threads : Collection(t) \/ StoreFails(t)
  \/ \E l \in Loops : Wait(l)
  \/ SetStop \/ UNCHANGED telemetryVars

\* A loop thread begins a collection only when due, becomes due only while
\* the event is clear, and neither is born nor comes back of itself.
LoopMove(l) ==
  \/ pc'[l] = pc[l]
  \/ pc[l] = "due" /\ pc'[l] = "holding"
  \/ pc[l] \in {"due", "holding"} /\ pc'[l] \in {"waiting", "ended"}
  \/ pc[l] = "waiting" /\ (pc'[l] = "ended" \/ (pc'[l] = "due" /\ ~stopEvent))

LEMMA LoopMoves == ASSUME TelemetryInv, Proceeds, NEW l \in Loops PROVE LoopMove(l)
<1> USE ThreadsAssumption DEF Threads, LoopMove
<1>0. pc \in [Threads -> Steps] /\ Loops \subseteq Threads
  BY DEF TelemetryInv, TelemetryTypeOK
<1>1. ASSUME NEW t \in Threads, Begin(t) PROVE LoopMove(l)
  BY <1>0, <1>1 DEF Begin, Goto, Called
<1>2. ASSUME NEW t \in Threads, NEW step \in {"waiting", "ended", "idle"}, pc' = [pc EXCEPT ![t] = step],
             t \in Loops => step # "idle" /\ pc[t] \in {"due", "holding"}
      PROVE  LoopMove(l)
  BY <1>0, <1>2
<1>3. ASSUME NEW t \in Threads, AlreadyRunning(t) \/ SaveRun(t) \/ StoreFails(t) PROVE LoopMove(l)
  <2>1. t \in Loops => pc[t] \in {"due", "holding"}
    BY <1>3 DEF AlreadyRunning, Called, SaveRun, Done, StoreFails
  <2>2. \E step \in {"waiting", "ended", "idle"} : (t \in Loops => step # "idle") /\ pc' = [pc EXCEPT ![t] = step]
    BY <1>3 DEF AlreadyRunning, SaveRun, StoreFails, Return, Raise, Goto
  <2> QED
    BY <1>2, <2>1, <2>2
<1>4. ASSUME NEW t \in Threads, Collect(t) \/ AppendTelemetry(t) PROVE LoopMove(l)
  BY <1>4 DEF Collect, AppendTelemetry
<1>5. ASSUME NEW m \in Loops, Wait(m) PROVE LoopMove(l)
  BY <1>0, <1>5 DEF Wait, Goto
<1>6. ASSUME SetStop \/ UNCHANGED telemetryVars PROVE LoopMove(l)
  BY <1>6 DEF SetStop, telemetryVars
<1> QED
  BY <1>1, <1>3, <1>4, <1>5, <1>6 DEF Proceeds, Collection

\* Whatever the control plane does is a step of the telemetry runtime, or
\* leaves it alone; the loop is started before the server loop only.
LEMMA ProceedsIsStep == Proceeds => [TelemetryNext]_telemetryVars
  BY DEF Proceeds, TelemetryNext

LEMMA RunStepTelemetry == RunStep => Proceeds \/ (StartLoop /\ run = "starting")
  BY DEF RunStep, StartServices, EnterServe, LeaveServe, ServeEnds, StopServices, JoinLoop, CloseServer, Proceeds

LEMMA StopStepTelemetry == \A s \in Stoppers : StopStep(s) => UNCHANGED telemetryVars
  BY DEF StopStep, BeginStop, AskShutdown, EndWait

LEMMA HandlerTelemetry == TelemetryStep => Proceeds
  BY DEF TelemetryStep, Proceeds, HandlerBegins, Collection, Threads

LEMMA ThreadStepTelemetry == ThreadStep => Proceeds \/ (StartLoop /\ run = "starting")
  BY RunStepTelemetry, StopStepTelemetry, HandlerTelemetry DEF ThreadStep, Proceeds

LEMMA StartIsStep == StartLoop => TelemetryNext
  BY DEF TelemetryNext

\* A loop the join has given up, or that has ended, is the only one alive.
LEMMA JoinedIsQuiet ==
  ASSUME TelemetryInv, ~Alive(loop) \/ lock = loop, NEW l \in Loops
  PROVE  pc[l] # "due"
<1>1. Alive(l) => l = loop
  BY DEF TelemetryInv, AliveIsLoop
<1>2. l \in Threads /\ l # NoLoop /\ l # Free
  BY ThreadsAssumption DEF Threads, NoLoop, Free
<1>3. lock = l => pc[l] = "holding"
  BY <1>2 DEF TelemetryInv, CollectionIsExclusive
<1>4. ~Alive(l) => pc[l] # "due"
  BY <1>2 DEF Alive
<1> QED
  BY <1>1, <1>3, <1>4

LEMMA ThreadKeepsQuiet == ASSUME TelemetryInv, QuietLoop, ThreadStep PROVE QuietLoop'
<1> USE DEF QuietLoop, Unstarted, Joined, Over
<1>1. CASE StartServices
  BY <1>1 DEF StartServices, telemetryVars
<1>2. CASE EnterServe \/ LeaveServe
  BY <1>2 DEF EnterServe, LeaveServe, ServeEnds
<1>3. CASE StopServices
  BY <1>3 DEF StopServices, SetStop
<1>4. CASE JoinLoop
  <2>1. run = "joining" /\ run' = "closing" /\ UNCHANGED <<stopEvent, pc, isShutDown>>
    BY <1>4 DEF JoinLoop, telemetryVars
  <2> QED
    BY <1>4, <2>1, JoinedIsQuiet DEF JoinLoop
<1>5. CASE CloseServer
  BY <1>5 DEF CloseServer, telemetryVars
<1>6. CASE \E s \in Stoppers : StopStep(s)
  BY <1>6 DEF StopStep, BeginStop, AskShutdown, EndWait, telemetryVars
<1>7. CASE TelemetryStep
  <2>1. UNCHANGED <<run, isShutDown, stopEvent>>
    BY <1>7 DEF TelemetryStep, HandlerBegins, Collection, Begin, AlreadyRunning, Collect, AppendTelemetry, SaveRun,
         StoreFails, Wait, serverVars
  <2>2. \A l \in Loops : LoopMove(l)
    BY <1>7, HandlerTelemetry, LoopMoves
  <2> QED
    BY <2>1, <2>2 DEF LoopMove
<1> QED
  BY <1>1, <1>2, <1>3, <1>4, <1>5, <1>6, <1>7 DEF ThreadStep, RunStep

\* After the return a loop only winds down, and what is written is written by
\* a handler or by the loop the join gave up.
LEMMA QuietAfterRun ==
  ASSUME TelemetryInv, QuietLoop, Proceeds \/ (StartLoop /\ run = "starting")
  PROVE  LoopQuietAfterReturn
<1> SUFFICES ASSUME Over, Proceeds PROVE LoopQuietAfterReturn
  BY DEF LoopQuietAfterReturn, Over
<1>1. ASSUME NEW l \in Loops, pc'[l] # pc[l]
      PROVE  \/ pc[l] = "holding" /\ pc'[l] \in {"waiting", "ended"}
             \/ pc[l] = "waiting" /\ pc'[l] = "ended"
  <2>1. LoopMove(l)
    BY LoopMoves
  <2>2. Unstarted \/ Joined
    BY DEF QuietLoop, Unstarted, Joined, Over
  <2> QED
    BY <1>1, <2>1, <2>2 DEF LoopMove, QuietLoop
<1>2. UNCHANGED <<events, claimed, runs>> \/ lock \in Callers \/ (lock = loop /\ pc[loop] = "holding")
  <2>1. ASSUME NEW t \in Threads, AppendTelemetry(t) \/ SaveRun(t)
        PROVE  lock \in Callers \/ (lock = loop /\ pc[loop] = "holding")
    <3>1. pc[t] = "holding" /\ lock = t
      BY <2>1 DEF AppendTelemetry, SaveRun, Done, TelemetryInv, CollectionIsExclusive
    <3>2. t \in Loops => Alive(t)
      BY <3>1, ThreadsAssumption DEF Alive, NoLoop, Threads
    <3> QED
      BY <3>1, <3>2 DEF TelemetryInv, AliveIsLoop, Threads
  <2>2. ASSUME NEW t \in Threads, Begin(t) \/ AlreadyRunning(t) \/ Collect(t) \/ StoreFails(t)
        PROVE  UNCHANGED <<events, claimed, runs>>
    BY <2>2 DEF Begin, AlreadyRunning, Collect, StoreFails
  <2>3. ASSUME (\E l \in Loops : Wait(l)) \/ SetStop \/ UNCHANGED telemetryVars
        PROVE  UNCHANGED <<events, claimed, runs>>
    BY <2>3 DEF Wait, SetStop, telemetryVars
  <2> QED
    BY <2>1, <2>2, <2>3 DEF Proceeds, Collection
<1> QED
  BY <1>1, <1>2 DEF LoopQuietAfterReturn

------------------------------------------------------------------------------
(* The Windows service host *)

NoStopAsked == ~stopRequested /\ \A s \in Stoppers : stopper[s] = "absent"

\* The state reported follows the thread of run(), and the one control whose
\* handler reports it precedes every request to stop.
ServiceLife ==
  /\ stopper \in [Stoppers -> {"absent", "asking", "shutting", "waiting", "returned"}]
  /\ status = "START_PENDING" => run \in {"none", "constructed", "raised"}
  /\ run \in {"none", "constructed"} => status = "START_PENDING"
  /\ status \in {"START_PENDING", "RUNNING", "STOP_PENDING", "STOPPED"}
  /\ status = "STOPPED" => mainDone
  /\ mainDone => run \in {"none", "raised", "returned"}
  /\ handling => status \in {"RUNNING", "STOPPED"}
  /\ status \in {"START_PENDING", "RUNNING"} \/ handling => NoStopAsked

ServiceInv == TelemetryInv /\ QuietLoop /\ ServiceLife

LEMMA ServiceInitial == ServiceInit => ServiceInv
  BY TelemetryInitial
  DEF ServiceInit, LifecycleInit, TelemetryInit, ServiceInv, QuietLoop, Unstarted, Joined, Over, ServiceLife,
      NoStopAsked, Threads

\* What a step of the service does to the telemetry runtime.
LEMMA ServiceStepTelemetry == ServiceNext => Proceeds \/ (StartLoop /\ run = "starting")
<1>1. ThreadStep => Proceeds \/ (StartLoop /\ run = "starting")
  BY ThreadStepTelemetry
<1>2. RegisterFails \/ ConstructRuntime \/ ReportRunning \/ ReportStopped \/ DeliverControl \/ HandleControl
        => UNCHANGED telemetryVars
  BY DEF RegisterFails, ConstructRuntime, Construct, ConstructFails, ReportRunning, ReportStopped, DeliverControl,
         HandleControl, StartStopper
<1> QED
  BY <1>1, <1>2 DEF ServiceNext, Proceeds

LEMMA ServiceKeepsQuiet == ASSUME TelemetryInv, QuietLoop, ServiceNext PROVE QuietLoop'
<1> USE DEF QuietLoop, Unstarted, Joined, Over, telemetryVars
<1>1. CASE ThreadStep
  BY <1>1, ThreadKeepsQuiet
<1>2. CASE ConstructRuntime
  BY <1>2 DEF ConstructRuntime, Construct, ConstructFails
<1>3. CASE ReportRunning
  BY <1>3 DEF ReportRunning
<1>4. CASE RegisterFails \/ ReportStopped \/ DeliverControl
  BY <1>4 DEF RegisterFails, ReportStopped, DeliverControl, serverVars
<1>5. CASE HandleControl
  BY <1>5 DEF HandleControl, StartStopper, serverVars
<1> QED
  BY <1>1, <1>2, <1>3, <1>4, <1>5 DEF ServiceNext

LEMMA ServiceLifeStep == ASSUME QuietLoop, ServiceLife, ServiceNext PROVE ServiceLife'
<1> USE DEF ServiceLife, NoStopAsked, Over
<1>1. CASE RunStep /\ UNCHANGED hostVars
  BY <1>1
  DEF RunStep, StartServices, EnterServe, LeaveServe, ServeEnds, StopServices, JoinLoop, CloseServer, hostVars
<1>2. ASSUME NEW s \in Stoppers, StopStep(s), UNCHANGED hostVars PROVE ServiceLife'
  BY <1>2 DEF StopStep, BeginStop, AskShutdown, EndWait, hostVars
<1>3. CASE TelemetryStep /\ UNCHANGED hostVars
  BY <1>3 DEF TelemetryStep, serverVars, hostVars
<1>4. CASE ConstructRuntime \/ RegisterFails
  BY <1>4 DEF ConstructRuntime, Construct, ConstructFails, RegisterFails, ReportFails, serverVars, hostVars
<1>5. CASE ReportRunning
  BY <1>5 DEF ReportRunning, Report, ReportFails
<1>6. CASE ReportStopped \/ DeliverControl
  BY <1>6 DEF ReportStopped, DeliverControl, Report, ReportFails, serverVars
<1>7. CASE HandleControl
  <2>1. CASE Report("STOP_PENDING") /\ StartStopper
    BY <1>7, <2>1 DEF HandleControl, Report, StartStopper
  <2>2. CASE ReportFails /\ UNCHANGED <<telemetryVars, serverVars>>
    BY <1>7, <2>2 DEF HandleControl, ReportFails, serverVars
  <2> QED
    BY <1>7, <2>1, <2>2 DEF HandleControl
<1> QED
  BY <1>1, <1>2, <1>3, <1>4, <1>5, <1>6, <1>7 DEF ServiceNext, ThreadStep

LEMMA ServiceStutter == ASSUME ServiceInv, UNCHANGED <<host, serviceVars>> PROVE ServiceInv'
<1>1. UNCHANGED <<telemetryVars, serverVars, hostVars>>
  BY DEF serviceVars
<1>2. TelemetryInv'
  BY <1>1, TelemetryPreserved DEF ServiceInv
<1>3. QuietLoop'
  BY <1>1 DEF ServiceInv, QuietLoop, Unstarted, Joined, Over, telemetryVars, serverVars
<1>4. ServiceLife'
  BY <1>1 DEF ServiceInv, ServiceLife, NoStopAsked, Over, serverVars, hostVars
<1> QED
  BY <1>2, <1>3, <1>4 DEF ServiceInv

LEMMA ServiceStep == ServiceInv /\ [ServiceNext]_<<host, serviceVars>> => ServiceInv'
<1>1. ASSUME ServiceInv, ServiceNext PROVE ServiceInv'
  <2>1. TelemetryInv'
    BY <1>1, ServiceStepTelemetry, ProceedsIsStep, StartIsStep, TelemetryPreserved DEF ServiceInv
  <2> QED
    BY <1>1, <2>1, ServiceKeepsQuiet, ServiceLifeStep DEF ServiceInv
<1> QED
  BY <1>1, ServiceStutter

LEMMA ServiceInvariant == ServiceSpec => []ServiceInv
  BY ServiceInitial, ServiceStep, PTL DEF ServiceSpec

\* Once run() has returned or raised (run, stop_background_services,
\* _run_loop), the resident loop begins no further collection, and beside the
\* one its join may have given up on, only handler threads still write.
THEOREM ReturnedIsQuiet == ServiceSpec => QuietAfterReturn
<1>1. ServiceInv /\ [ServiceNext]_<<host, serviceVars>> => [LoopQuietAfterReturn]_serviceVars
  <2> SUFFICES ASSUME ServiceInv, ServiceNext PROVE LoopQuietAfterReturn
    BY DEF serviceVars
  <2> QED
    BY ServiceStepTelemetry, QuietAfterRun DEF ServiceInv
<1> QED
  BY ServiceInvariant, <1>1, PTL DEF ServiceSpec, QuietAfterReturn

\* The states reported to the service control manager are in order
\* (_service_main, _control_handler), wherever the control falls, whichever
\* report fails and whether the service is stopped or ends of itself.
THEOREM ReportsAreInOrder == ServiceSpec => ReportsInOrder
<1>1. ServiceInv /\ [ServiceNext]_<<host, serviceVars>> => [ReportsFollowLife]_serviceVars
  <2> SUFFICES ASSUME ServiceLife, ServiceNext PROVE ReportsFollowLife
    BY DEF serviceVars, ServiceInv
  <2> USE DEF ServiceLife, NoStopAsked, ReportsFollowLife, Report, ReportFails
  <2>1. CASE UNCHANGED status
    BY <2>1
  <2>2. CASE ReportRunning
    BY <2>2 DEF ReportRunning
  <2>3. CASE ReportStopped
    BY <2>3 DEF ReportStopped
  <2>4. CASE HandleControl
    BY <2>4 DEF HandleControl
  <2>5. RegisterFails \/ ConstructRuntime \/ DeliverControl \/ UNCHANGED hostVars => UNCHANGED status
    BY DEF RegisterFails, ConstructRuntime, DeliverControl, hostVars
  <2> QED
    BY <2>1, <2>2, <2>3, <2>4, <2>5 DEF ServiceNext
<1> QED
  BY ServiceInvariant, <1>1, PTL DEF ServiceSpec, ReportsInOrder

------------------------------------------------------------------------------
(* The desktop host *)

\* The server loop has been left and no loop thread is about to collect; or
\* there never was one.
Halted == run \in {"joining", "closing", "returned", "raised"} /\ \A l \in Loops : pc[l] # "due"
Left == run = "none" \/ Halted

\* What a thread of the desktop knows of the runtime by where it is: the
\* window's thread before there is a runtime; and who finds no thread, is done
\* with it, or has ended.
DesktopLife ==
  /\ closer \in [Stoppers -> {"out", "stopping", "joining", "done"}]
  /\ desk \in {"opening", "attached"} => run = "none"
  /\ desk = "embedding" => run = "constructed"
  /\ desk \in {"opening", "embedding"} => \A s \in Stoppers : closer[s] = "out"
  /\ desk \in {"probing", "shown", "timedout", "closing"} => thread \/ Left
  /\ \A s \in Stoppers : closer[s] = "done" => Left
  /\ desk = "ended" => Left

DesktopInv == TelemetryInv /\ QuietLoop /\ DesktopLife

LEMMA DesktopInitial == DesktopInit /\ host = "desktop" => DesktopInv
  BY TelemetryInitial
  DEF DesktopInit, LifecycleInit, TelemetryInit, DesktopInv, QuietLoop, Unstarted, Joined, Over, DesktopLife, Threads

LEMMA DesktopStepTelemetry == DesktopNext => Proceeds \/ (StartLoop /\ run = "starting")
<1>1. ThreadStep => Proceeds \/ (StartLoop /\ run = "starting")
  BY ThreadStepTelemetry
<1>2. Open \/ StartThread \/ Probe \/ CloseWindow \/ EndMain \/ (\E s \in Stoppers : CloserStep(s))
        => UNCHANGED telemetryVars
  BY DEF Open, Construct, ConstructFails, StartThread, Probe, CloseWindow, EndMain, CloserStep, EnterStop,
         AwaitRequest, JoinRun
<1> QED
  BY <1>1, <1>2 DEF DesktopNext, Proceeds

LEMMA DesktopKeepsQuiet == ASSUME TelemetryInv, QuietLoop, DesktopNext PROVE QuietLoop'
<1> USE DEF QuietLoop, Unstarted, Joined, Over, telemetryVars
<1>1. CASE ThreadStep
  BY <1>1, ThreadKeepsQuiet
<1>2. CASE Open \/ StartThread
  BY <1>2 DEF Open, Construct, ConstructFails, StartThread, serverVars
<1>3. CASE Probe \/ CloseWindow \/ EndMain \/ \E s \in Stoppers : CloserStep(s)
  BY <1>3 DEF Probe, CloseWindow, EndMain, CloserStep, EnterStop, AwaitRequest, JoinRun, serverVars
<1> QED
  BY <1>1, <1>2, <1>3 DEF DesktopNext

\* A run that has left its loop does not enter it again, and a loop thread that
\* is not about to collect finds the event.
LEMMA LeftForGood == ASSUME TelemetryInv, QuietLoop, ThreadStep, Left PROVE Left'
<1>1. CASE RunStep
  <2>1. run \in {"joining", "closing"}
    BY <1>1 DEF Left, Halted, RunStep, StartServices, EnterServe, LeaveServe, ServeEnds, StopServices, JoinLoop,
         CloseServer
  <2>2. JoinLoop \/ CloseServer
    BY <1>1, <2>1 DEF RunStep, StartServices, EnterServe, LeaveServe, ServeEnds, StopServices
  <2> QED
    BY <2>1, <2>2 DEF Left, Halted, JoinLoop, CloseServer, telemetryVars
<1>2. CASE \E s \in Stoppers : StopStep(s)
  BY <1>2 DEF Left, Halted, StopStep, BeginStop, AskShutdown, EndWait, telemetryVars
<1>3. CASE TelemetryStep
  <2>1. UNCHANGED run
    BY <1>3 DEF TelemetryStep, serverVars
  <2>2. \A l \in Loops : LoopMove(l)
    BY <1>3, HandlerTelemetry, LoopMoves
  <2>3. Halted => stopEvent \/ \A l \in Loops : pc[l] = "unborn"
    BY DEF Halted, QuietLoop, Unstarted, Joined, Over
  <2> QED
    BY <2>1, <2>2, <2>3 DEF Left, Halted, LoopMove
<1> QED
  BY <1>1, <1>2, <1>3 DEF ThreadStep

LEMMA DesktopLifeStep == ASSUME TelemetryInv, QuietLoop, DesktopLife, DesktopNext PROVE DesktopLife'
<1> USE DEF DesktopLife
<1>0. desk # "ended" /\ "main" \in Stoppers
  BY StoppersAssumption DEF DesktopNext, OnDesktop
<1>1. CASE ThreadStep /\ UNCHANGED deskVars
  <2>1. Left => Left'
    BY <1>1, LeftForGood
  <2>2. UNCHANGED <<desk, thread, closer>>
    BY <1>1 DEF deskVars
  <2>3. run \in {"none", "constructed"} => UNCHANGED run
    BY <1>1 DEF ThreadStep, RunStep, StartServices, EnterServe, LeaveServe, ServeEnds, StopServices, JoinLoop,
         CloseServer, StopStep, BeginStop, AskShutdown, EndWait, TelemetryStep, serverVars
  <2> QED
    BY <2>1, <2>2, <2>3
<1>2. CASE Open
  <2>1. desk = "opening" /\ run = "none" /\ UNCHANGED <<closer, pc>>
    BY <1>2 DEF Open, Construct, ConstructFails, telemetryVars
  <2>2. \A l \in Loops : pc[l] = "unborn"
    BY <2>1 DEF QuietLoop, Unstarted
  <2>3. \/ desk' = "attached" /\ run' = "none"
        \/ desk' = "embedding" /\ run' = "constructed"
        \/ desk' = "ended" /\ run' = "raised"
    BY <1>2, <2>1 DEF Open, Construct, ConstructFails, serverVars
  <2> QED
    BY <2>1, <2>2, <2>3 DEF Left, Halted
<1>3. CASE StartThread
  BY <1>3 DEF StartThread
<1>4. CASE Probe \/ CloseWindow
  <2>1. UNCHANGED <<run, pc, thread, closer>>
    BY <1>4 DEF Probe, CloseWindow, serverVars, telemetryVars
  <2>2. run \in {"none", "raised"} => Left
    BY DEF Left, Halted, QuietLoop, Unstarted, Joined, Over
  <2>3. Left' <=> Left
    BY <2>1 DEF Left, Halted
  <2> QED
    BY <1>4, <2>1, <2>2, <2>3 DEF Probe, CloseWindow
<1>5. CASE EndMain
  BY <1>0, <1>5 DEF EndMain, serverVars, telemetryVars, Left, Halted
<1>6. ASSUME NEW s \in Stoppers, EnterStop(s) PROVE DesktopLife'
  BY <1>0, <1>6 DEF EnterStop, MayStop, telemetryVars, Left, Halted
<1>7. ASSUME NEW s \in Stoppers, AwaitRequest(s) PROVE DesktopLife'
  BY <1>0, <1>7 DEF AwaitRequest, serverVars, telemetryVars, Left, Halted
<1>8. ASSUME NEW s \in Stoppers, JoinRun(s) PROVE DesktopLife'
  <2>1. Halted
    <3>1. CASE Over
      BY <3>1 DEF Halted, QuietLoop, Unstarted, Joined, Over
    <3>2. CASE run = "joining" /\ lock = loop
      BY <3>2, JoinedIsQuiet DEF Halted
    <3> QED
      BY <1>8, <3>1, <3>2 DEF JoinRun
  <2>2. UNCHANGED <<run, pc>>
    BY <1>8 DEF JoinRun, serverVars, telemetryVars
  <2> QED
    BY <1>0, <1>8, <2>1, <2>2 DEF JoinRun, Left, Halted
<1> QED
  BY <1>1, <1>2, <1>3, <1>4, <1>5, <1>6, <1>7, <1>8 DEF DesktopNext, CloserStep

LEMMA DesktopStutter == ASSUME DesktopInv, UNCHANGED <<host, desktopVars>> PROVE DesktopInv'
<1>1. UNCHANGED <<telemetryVars, serverVars, deskVars>>
  BY DEF desktopVars
<1>2. TelemetryInv'
  BY <1>1, TelemetryPreserved DEF DesktopInv
<1>3. QuietLoop'
  BY <1>1 DEF DesktopInv, QuietLoop, Unstarted, Joined, Over, telemetryVars, serverVars
<1>4. DesktopLife'
  BY <1>1 DEF DesktopInv, DesktopLife, Left, Halted, telemetryVars, serverVars, deskVars
<1> QED
  BY <1>2, <1>3, <1>4 DEF DesktopInv

LEMMA DesktopStep == DesktopInv /\ [DesktopNext]_<<host, desktopVars>> => DesktopInv'
<1>1. ASSUME DesktopInv, DesktopNext PROVE DesktopInv'
  <2>1. TelemetryInv'
    BY <1>1, DesktopStepTelemetry, ProceedsIsStep, StartIsStep, TelemetryPreserved DEF DesktopInv
  <2> QED
    BY <1>1, <2>1, DesktopKeepsQuiet, DesktopLifeStep DEF DesktopInv
<1> QED
  BY <1>1, DesktopStutter

LEMMA DesktopInvariant == DesktopSpec => []DesktopInv
  BY DesktopInitial, DesktopStep, PTL DEF DesktopSpec

\* The process of a desktop does not end before the server loop of its own
\* runtime has been left and its resident loop told to stop, at most finishing
\* a collection, whichever of the two closers comes first and also when
\* start() raises what run() raised (EmbeddedDesktopRuntime.start, stop,
\* DesktopSession.close); a runtime that failed before its server loop leaves
\* no resident loop.
THEOREM EndedDesktopIsStopped == DesktopSpec => []EndedIsStopped
<1>1. DesktopInv => EndedIsStopped
  <2> SUFFICES ASSUME DesktopInv, desk = "ended" PROVE EndedIsStopped
    BY DEF EndedIsStopped
  <2>1. Left
    BY DEF DesktopInv, DesktopLife
  <2>2. CASE Unstarted
    BY <2>1, <2>2 DEF DesktopInv, QuietLoop, Unstarted, EndedIsStopped, Alive, Left, Halted
  <2>3. CASE ~Unstarted
    BY <2>1, <2>3 DEF DesktopInv, QuietLoop, Unstarted, Joined, Over, EndedIsStopped, Left, Halted
  <2> QED
    BY <2>2, <2>3
<1> QED
  BY DesktopInvariant, <1>1, PTL

\* In the desktop host, too, run() leaves a resident loop that begins no
\* further collection: at most the one the join gave up on still writes.
THEOREM DesktopReturnedIsQuiet == DesktopSpec => [][LoopQuietAfterReturn]_desktopVars
<1>1. DesktopInv /\ [DesktopNext]_<<host, desktopVars>> => [LoopQuietAfterReturn]_desktopVars
  <2> SUFFICES ASSUME DesktopInv, DesktopNext PROVE LoopQuietAfterReturn
    BY DEF desktopVars
  <2> QED
    BY DesktopStepTelemetry, QuietAfterRun DEF DesktopInv
<1> QED
  BY DesktopInvariant, <1>1, PTL DEF DesktopSpec

==============================================================================
