-------------------------- MODULE EvidenceCasesProofs --------------------------
(***************************************************************************)
(* What EvidenceCases promises of concurrent simulate calls, crashes and   *)
(* failing store calls, for any cases, scripts and number of handler       *)
(* threads, while nobody resets the demo: beliefs are backed by evidence,  *)
(* and no event dangles.  And what it promises, resets included, as long   *)
(* as one operation runs at a time: the evidence verifies, scripts stay in *)
(* order and an interruption costs at most one belief update.              *)
(***************************************************************************)
EXTENDS EvidenceCases, FiniteSetTheorems, SequenceTheorems, WellFoundedInduction, TLAPS

\* Only clients that reset the demo give a thread the tables to wipe.
Tasks ==
  [op : {"ensure", "create", "count", "apply"} \cup (IF Resets THEN {"wipe"} ELSE {}), case : Cases, step : Nat]

\* The events are a table of rows.
EvidenceTypeOK ==
  /\ events \in Seq({events[i] : i \in DOMAIN events})
  /\ beliefs \in [Cases -> [Steps -> Nat]]
  /\ todo \in [Workers -> Seq(Tasks)]
  /\ at \in [Workers -> Places]
  /\ DOMAIN local = Workers
  /\ \A t \in Workers :
       /\ local[t] = [prior |-> local[t].prior, stamp |-> local[t].stamp, head |-> local[t].head]
       /\ local[t].prior \in [Steps -> Nat]

\* What a thread has read of the beliefs is backed by evidence, and so is
\* what it will make of it once its event is appended.
PriorBacked(t) ==
  Doing(t, "apply") =>
    \A s \in Steps :
      /\ at[t] \in {"head", "insert"} => local[t].prior[s] <= EventCount(Case(t), s)
      /\ at[t] = "beliefs" => Fold(local[t].prior, Step(t))[s] <= EventCount(Case(t), s)

\* The hash h is that of an event of case k, or no event's.
Known(h, k) == h = GenesisHash \/ \E j \in 1 .. Len(events) : events[j].event_hash = h /\ events[j].event.case = k

\* The head a thread has read is still that of an event of its case.
HeadKnown(t) == Doing(t, "apply") /\ at[t] = "insert" => Known(local[t].head, Case(t))

EvidenceInv ==
  /\ EvidenceTypeOK /\ BeliefsAreBacked /\ AncestryIntact
  /\ \A t \in Workers : PriorBacked(t) /\ HeadKnown(t)

------------------------------------------------------------------------------
(* Tables *)

\* A nonempty set of positions has a last one.
LEMMA LastOne ==
  ASSUME NEW n \in Nat, NEW M, M \subseteq 1 .. n, M # {}
  PROVE  \E i \in M : \A j \in M : j <= i
<1> DEFINE From(i) == {j \in M : i <= j}
           T == {From(i) : i \in M}
<1>1. IsFiniteSet(M)
  <2>1. IsFiniteSet(1 .. n)
    BY FS_Interval
  <2> QED
    BY <2>1, FS_Subset
<1>2. IsWellFoundedOn(StrictSubsetOrdering(M), SUBSET M)
  BY <1>1, FS_StrictSubsetOrderingWellFounded, FS_FiniteSubsetsOfFinite
<1>3. T \subseteq SUBSET M /\ T # {}
  OBVIOUS
<1>4. PICK x \in T : \A y \in T : ~ (<<y, x>> \in StrictSubsetOrdering(M))
  <2> HIDE DEF T
  <2> QED
    BY <1>2, <1>3, WFMin
<1>5. PICK i \in M : x = From(i)
  BY <1>4
<1>6. ASSUME NEW j \in M PROVE j <= i
  <2> SUFFICES ASSUME i < j PROVE FALSE
    BY <1>6
  <2>1. From(j) \subseteq x /\ i \in x /\ i \notin From(j)
    <3>1. \A k \in M : k \in Int
      OBVIOUS
    <3>2. \A k \in M : j <= k => i <= k
      BY <3>1, <1>6
    <3>3. i <= i /\ ~ (j <= i)
      BY <3>1, <1>6
    <3> QED
      BY <1>5, <3>2, <3>3
  <2>2. <<From(j), x>> \in StrictSubsetOrdering(M)
    BY <2>1, <1>3, <1>4 DEF StrictSubsetOrdering
  <2> QED
    BY <2>2, <1>4
<1> QED
  BY <1>6

\* The head of a case is the hash of the last of its events.
LEMMA HeadIsLast ==
  ASSUME NEW k, NEW n \in Nat
  PROVE  \/ PositionsOf(k, n) = {} /\ HeadOf(k, n) = GenesisHash
         \/ \E i \in PositionsOf(k, n) : /\ \A j \in PositionsOf(k, n) : j <= i
                                        /\ HeadOf(k, n) = events[i].event_hash
<1>1. PositionsOf(k, n) \subseteq 1 .. n
  BY DEF PositionsOf
<1>2. CASE PositionsOf(k, n) = {}
  BY <1>2 DEF HeadOf
<1>3. CASE PositionsOf(k, n) # {}
  <2>1. \E i \in PositionsOf(k, n) : \A j \in PositionsOf(k, n) : j <= i
    BY <1>1, <1>3, LastOne
  <2> QED
    BY <1>3, <2>1 DEF HeadOf
<1> QED
  BY <1>2, <1>3

LEMMA HeadIsKnown == ASSUME NEW k, NEW n \in Nat, n <= Len(events), Len(events) \in Nat PROVE Known(HeadOf(k, n), k)
<1>1. HeadOf(k, n) = GenesisHash \/ \E i \in PositionsOf(k, n) : HeadOf(k, n) = events[i].event_hash
  BY HeadIsLast
<1> QED
  BY <1>1 DEF Known, PositionsOf

\* The number of events of a case is a number, and so is what list_events
\* lists of them and the step they call for.
LEMMA PositionsAreFinite == ASSUME NEW k, NEW n \in Nat PROVE IsFiniteSet(PositionsOf(k, n)) /\ Cardinality(PositionsOf(k, n)) \in Nat
<1>1. IsFiniteSet(1 .. n) /\ PositionsOf(k, n) \subseteq 1 .. n
  BY FS_Interval DEF PositionsOf
<1> QED
  BY <1>1, FS_Subset, FS_CardinalityType

LEMMA NextStepIsNat == ASSUME NEW k \in Cases, NEW n \in Nat PROVE NextStep(k, n) \in Nat
<1>1. ListedCount(k, n) \in Nat
  BY PositionsAreFinite, EvidenceAssumption DEF ListedCount
<1>2. ScenarioLength[k] \in Nat \ {0}
  BY EvidenceAssumption
<1> QED
  BY <1>1, <1>2 DEF NextStep

\* The events of a case and a step, as EventCount counts them.
EventsOf(k, s) == {i \in 1 .. Len(events) : events[i].event.case = k /\ events[i].event.step = s}

LEMMA EventCountIsNat ==
  ASSUME NEW k, NEW s, events \in Seq({events[i] : i \in DOMAIN events})
  PROVE  /\ IsFiniteSet(EventsOf(k, s)) /\ EventCount(k, s) = Cardinality(EventsOf(k, s))
         /\ EventCount(k, s) \in Nat
<1>1. Len(events) \in Nat
  BY LenProperties
<1>2. IsFiniteSet(1 .. Len(events)) /\ EventsOf(k, s) \subseteq 1 .. Len(events)
  BY <1>1, FS_Interval DEF EventsOf
<1>3. IsFiniteSet(EventsOf(k, s))
  BY <1>2, FS_Subset
<1> QED
  BY <1>3, FS_CardinalityType DEF EventCount, EventsOf

\* Append keeps a table one, adds one row at its end and leaves the others
\* where they are.
LEMMA AppendedEvent ==
  ASSUME NEW row, events \in Seq({events[i] : i \in DOMAIN events}), events' = Append(events, row)
  PROVE  /\ events' \in Seq({events'[i] : i \in DOMAIN events'})
         /\ Len(events) \in Nat /\ Len(events') = Len(events) + 1
         /\ \A i \in 1 .. Len(events) : events'[i] = events[i]
         /\ events'[Len(events) + 1] = row
<1> DEFINE S == {events[i] : i \in DOMAIN events} \cup {row}
<1>1. events \in Seq(S) /\ row \in S
  <2>1. {events[i] : i \in DOMAIN events} \subseteq S
    OBVIOUS
  <2> QED
    BY <2>1, SeqMonotonic
<1>2. /\ events' \in Seq(S) /\ Len(events') = Len(events) + 1
      /\ \A i \in 1 .. Len(events) : events'[i] = events[i]
      /\ events'[Len(events) + 1] = row
  <2> HIDE DEF S
  <2> QED
    BY <1>1, AppendProperties
<1>3. Len(events) \in Nat
  BY LenProperties
<1>4. events' \in Seq({events'[i] : i \in DOMAIN events'})
  <2>1. events' \in Seq(Range(events'))
    BY <1>2, SeqOfRange
  <2> QED
    BY <2>1 DEF Range
<1> QED
  BY <1>2, <1>3, <1>4

\* An appended event is counted, and takes nothing from the others.
LEMMA AppendCounts ==
  ASSUME NEW row, events \in Seq({events[i] : i \in DOMAIN events}), events' = Append(events, row), NEW k, NEW s
  PROVE  EventCount(k, s)' = IF row.event.case = k /\ row.event.step = s THEN EventCount(k, s) + 1 ELSE EventCount(k, s)
<1> DEFINE n == Len(events) + 1
<1>1. IsFiniteSet(EventsOf(k, s)) /\ EventCount(k, s) = Cardinality(EventsOf(k, s))
  BY EventCountIsNat
<1>2. /\ Len(events) \in Nat /\ Len(events') = Len(events) + 1
      /\ \A i \in 1 .. Len(events) : events'[i] = events[i]
      /\ events'[Len(events) + 1] = row
  BY AppendedEvent
<1>3. EventsOf(k, s)' = IF row.event.case = k /\ row.event.step = s THEN EventsOf(k, s) \cup {n} ELSE EventsOf(k, s)
  BY <1>2 DEF EventsOf
<1>4. n \notin EventsOf(k, s)
  BY <1>2 DEF EventsOf
<1>5. EventCount(k, s)' = Cardinality(EventsOf(k, s)')
  BY DEF EventCount, EventsOf
<1> QED
  BY <1>1, <1>3, <1>4, <1>5, FS_AddElement

\* Nothing that was counted or known is lost while events are only appended.
Grows == events' = events \/ \E row : events' = Append(events, row)

LEMMA NothingIsLost ==
  ASSUME events \in Seq({events[i] : i \in DOMAIN events}), Grows
  PROVE  /\ \A k, s : EventCount(k, s) \in Nat /\ EventCount(k, s)' \in Nat /\ EventCount(k, s) <= EventCount(k, s)'
         /\ \A h, k : Known(h, k) => Known(h, k)'
         /\ events' \in Seq({events'[i] : i \in DOMAIN events'})
<1>1. CASE events' = events
  <2>1. ASSUME NEW k, NEW s
        PROVE  EventCount(k, s)' = EventCount(k, s) /\ EventCount(k, s) \in Nat
    <3>1. EventCount(k, s)' = EventCount(k, s)
      BY <1>1 DEF EventCount
    <3> QED
      BY <3>1, EventCountIsNat
  <2> QED
    BY <1>1, <2>1 DEF Known
<1>2. ASSUME NEW row, events' = Append(events, row)
      PROVE  /\ \A k, s : EventCount(k, s) \in Nat /\ EventCount(k, s)' \in Nat /\ EventCount(k, s) <= EventCount(k, s)'
             /\ \A h, k : Known(h, k) => Known(h, k)'
             /\ events' \in Seq({events'[i] : i \in DOMAIN events'})
  <2>1. ASSUME NEW k, NEW s
        PROVE  EventCount(k, s) \in Nat /\ EventCount(k, s)' \in Nat /\ EventCount(k, s) <= EventCount(k, s)'
    <3>1. EventCount(k, s) \in Nat
      BY EventCountIsNat
    <3>2. EventCount(k, s)' = IF row.event.case = k /\ row.event.step = s THEN EventCount(k, s) + 1 ELSE EventCount(k, s)
      BY <1>2, AppendCounts
    <3> QED
      BY <3>1, <3>2
  <2>2. \A h, k : Known(h, k) => Known(h, k)'
    BY <1>2, AppendedEvent DEF Known
  <2> QED
    BY <1>2, <2>1, <2>2, AppendedEvent
<1> QED
  BY <1>1, <1>2 DEF Grows

------------------------------------------------------------------------------
(* Threads *)

\* Folding a step counts it once more.
LEMMA FoldCounts ==
  ASSUME NEW counts \in [Steps -> Nat], NEW s
  PROVE  /\ Fold(counts, s) \in [Steps -> Nat]
         /\ \A r \in Steps : Fold(counts, s)[r] = IF r = s THEN counts[r] + 1 ELSE counts[r]
<1>1. CASE s \in Steps
  <2>1. counts[s] + 1 \in Nat
    BY <1>1
  <2> QED
    BY <1>1, <2>1 DEF Fold
<1>2. CASE s \notin Steps
  <2>1. Fold(counts, s) = counts
    BY <1>2 DEF Fold
  <2> QED
    BY <1>2, <2>1
<1> QED
  BY <1>1, <1>2

\* A thread that does nothing is as backed as before when evidence grows.
LEMMA ThreadKept ==
  ASSUME EvidenceInv, Grows, NEW u \in Workers,
         todo'[u] = todo[u], at'[u] = at[u], local'[u] = local[u]
  PROVE  PriorBacked(u)' /\ HeadKnown(u)'
<1>1. /\ \A k, s : EventCount(k, s) \in Nat /\ EventCount(k, s)' \in Nat /\ EventCount(k, s) <= EventCount(k, s)'
      /\ \A h, k : Known(h, k) => Known(h, k)'
  BY NothingIsLost DEF EvidenceInv, EvidenceTypeOK
<1>2. Doing(u, "apply")' = Doing(u, "apply") /\ Case(u)' = Case(u) /\ Step(u)' = Step(u)
  BY DEF Doing, Idle, Case, Step
<1>3. local[u].prior \in [Steps -> Nat] /\ Fold(local[u].prior, Step(u)) \in [Steps -> Nat]
  BY FoldCounts DEF EvidenceInv, EvidenceTypeOK
<1>4. PriorBacked(u)'
  <2> SUFFICES ASSUME Doing(u, "apply"), NEW s \in Steps
               PROVE  /\ at[u] \in {"head", "insert"} => local[u].prior[s] <= EventCount(Case(u), s)'
                      /\ at[u] = "beliefs" => Fold(local[u].prior, Step(u))[s] <= EventCount(Case(u), s)'
    BY <1>2 DEF PriorBacked
  <2>1. /\ at[u] \in {"head", "insert"} => local[u].prior[s] <= EventCount(Case(u), s)
        /\ at[u] = "beliefs" => Fold(local[u].prior, Step(u))[s] <= EventCount(Case(u), s)
    BY DEF EvidenceInv, PriorBacked
  <2>2. local[u].prior[s] \in Nat /\ Fold(local[u].prior, Step(u))[s] \in Nat
    BY <1>3
  <2>3. /\ EventCount(Case(u), s) \in Nat /\ EventCount(Case(u), s)' \in Nat
        /\ EventCount(Case(u), s) <= EventCount(Case(u), s)'
    BY <1>1, <1>2
  <2> QED
    BY <2>1, <2>2, <2>3
<1>5. HeadKnown(u)'
  BY <1>1, <1>2 DEF EvidenceInv, HeadKnown
<1> QED
  BY <1>4, <1>5

OthersWait(t) == \A u \in Workers \ {t} : todo'[u] = todo[u] /\ at'[u] = at[u] /\ local'[u] = local[u]

\* A store call that appends nothing preserves the invariant if it keeps
\* beliefs backed and its own thread is backed afterwards.
LEMMA CallKept ==
  ASSUME EvidenceInv, EvidenceTypeOK', UNCHANGED events, BeliefsAreBacked',
         NEW t \in Workers, OthersWait(t), PriorBacked(t)', HeadKnown(t)'
  PROVE  EvidenceInv'
<1>1. Grows
  BY DEF Grows
<1>2. \A u \in Workers \ {t} : PriorBacked(u)' /\ HeadKnown(u)'
  BY <1>1, ThreadKept DEF OthersWait
<1>3. AncestryIntact'
  BY DEF EvidenceInv, AncestryIntact
<1> QED
  BY <1>2, <1>3 DEF EvidenceInv

\* A thread that starts a task has nothing to back.
LEMMA StartingIsBacked == ASSUME NEW t, at'[t] = "start" PROVE PriorBacked(t)' /\ HeadKnown(t)'
  BY DEF PriorBacked, HeadKnown

\* Beliefs stay backed if only evidence grows.
LEMMA BeliefsKept == ASSUME EvidenceInv, Grows, UNCHANGED beliefs PROVE BeliefsAreBacked'
<1>1. \A k, s : EventCount(k, s) \in Nat /\ EventCount(k, s)' \in Nat /\ EventCount(k, s) <= EventCount(k, s)'
  BY NothingIsLost DEF EvidenceInv, EvidenceTypeOK
<1>2. ASSUME NEW k \in Cases, NEW s \in Steps PROVE beliefs[k][s] <= EventCount(k, s)'
  <2>1. beliefs[k][s] \in Nat /\ beliefs[k][s] <= EventCount(k, s)
    BY DEF EvidenceInv, EvidenceTypeOK, BeliefsAreBacked
  <2>2. EventCount(k, s) \in Nat /\ EventCount(k, s)' \in Nat /\ EventCount(k, s) <= EventCount(k, s)'
    BY <1>1
  <2> QED
    BY <2>1, <2>2
<1> QED
  BY <1>2 DEF BeliefsAreBacked

LEMMA NoLocalIsLocal ==
  /\ NoLocal = [prior |-> NoLocal.prior, stamp |-> NoLocal.stamp, head |-> NoLocal.head]
  /\ NoLocal.prior \in [Steps -> Nat]
BY DEF NoLocal, NoCounts

\* What is left of the list of tasks is one.
LEMMA TailOfTasks ==
  ASSUME EvidenceTypeOK, NEW t \in Workers, ~Idle(t)
  PROVE  todo[t][1] \in Tasks /\ Tail(todo[t]) \in Seq(Tasks) /\ Case(t) \in Cases /\ Step(t) \in Nat
<1>1. todo[t] \in Seq(Tasks) /\ todo[t] # << >>
  BY DEF EvidenceTypeOK, Idle
<1>2. todo[t][1] \in Tasks /\ Tail(todo[t]) \in Seq(Tasks)
  BY <1>1, HeadTailProperties, ElementOfSeq, LenProperties
<1> QED
  BY <1>2 DEF Tasks, Case, Step

LEMMA ProceedTypes ==
  ASSUME EvidenceTypeOK, NEW t \in Workers, ~Idle(t), NEW more \in Seq(Tasks), Proceed(t, more),
         beliefs' \in [Cases -> [Steps -> Nat]], events' \in Seq({events'[i] : i \in DOMAIN events'})
  PROVE  EvidenceTypeOK' /\ OthersWait(t) /\ PriorBacked(t)' /\ HeadKnown(t)'
<1>1. more \o Tail(todo[t]) \in Seq(Tasks)
  BY TailOfTasks, ConcatProperties
<1>2. todo' \in [Workers -> Seq(Tasks)]
  BY <1>1 DEF Proceed, EvidenceTypeOK
<1>3. at' \in [Workers -> Places] /\ at'[t] = "start"
  BY DEF Proceed, EvidenceTypeOK, Places
<1>4. DOMAIN local' = Workers /\ local'[t] = NoLocal /\ \A u \in Workers \ {t} : local'[u] = local[u]
  BY DEF Proceed, EvidenceTypeOK
<1>5. ASSUME NEW u \in Workers
      PROVE  /\ local'[u] = [prior |-> local'[u].prior, stamp |-> local'[u].stamp, head |-> local'[u].head]
             /\ local'[u].prior \in [Steps -> Nat]
  <2>1. CASE u = t
    BY <2>1, <1>4, NoLocalIsLocal
  <2>2. CASE u # t
    BY <2>2, <1>4 DEF EvidenceTypeOK
  <2> QED
    BY <2>1, <2>2
<1>6. EvidenceTypeOK'
  BY <1>2, <1>3, <1>4, <1>5 DEF EvidenceTypeOK
<1>7. OthersWait(t)
  BY <1>4 DEF OthersWait, Proceed, EvidenceTypeOK
<1> QED
  BY <1>3, <1>6, <1>7, StartingIsBacked

LEMMA AbandonTypes ==
  ASSUME EvidenceTypeOK, NEW t \in Workers, Abandon(t), UNCHANGED <<beliefs, events>>
  PROVE  EvidenceTypeOK' /\ OthersWait(t) /\ PriorBacked(t)' /\ HeadKnown(t)'
<1>1. todo' \in [Workers -> Seq(Tasks)]
  BY EmptySeq DEF Abandon, EvidenceTypeOK
<1>2. at' \in [Workers -> Places] /\ at'[t] = "start"
  BY DEF Abandon, EvidenceTypeOK, Places
<1>3. DOMAIN local' = Workers /\ local'[t] = NoLocal /\ \A u \in Workers \ {t} : local'[u] = local[u]
  BY DEF Abandon, EvidenceTypeOK
<1>4. ASSUME NEW u \in Workers
      PROVE  /\ local'[u] = [prior |-> local'[u].prior, stamp |-> local'[u].stamp, head |-> local'[u].head]
             /\ local'[u].prior \in [Steps -> Nat]
  <2>1. CASE u = t
    BY <2>1, <1>3, NoLocalIsLocal
  <2>2. CASE u # t
    BY <2>2, <1>3 DEF EvidenceTypeOK
  <2> QED
    BY <2>1, <2>2
<1>5. EvidenceTypeOK'
  BY <1>1, <1>2, <1>3, <1>4 DEF EvidenceTypeOK
<1>6. OthersWait(t)
  BY <1>3 DEF OthersWait, Abandon, EvidenceTypeOK
<1> QED
  BY <1>2, <1>5, <1>6, StartingIsBacked

------------------------------------------------------------------------------
(* Steps *)

\* The constructor's work is a list of tasks.
LEMMA BootstrapIsTasks == Bootstrap \in Seq(Tasks)
<1>1. CaseOrder \in Seq(Cases)
  BY EvidenceAssumption
<1>2. \A i \in 1 .. Len(CaseOrder) : TaskOf("ensure", CaseOrder[i], 1) \in Tasks
  BY <1>1, ElementOfSeq DEF TaskOf, Tasks
<1> QED
  BY <1>1, <1>2, IsASeq, LenProperties DEF Bootstrap

LEMMA EvidenceInitial == Init => EvidenceInv
<1> SUFFICES ASSUME Init PROVE EvidenceInv
  OBVIOUS
<1>1. events = << >> /\ Len(events) = 0 /\ events \in Seq({events[i] : i \in DOMAIN events})
  BY EmptySeq DEF Init
<1>2. Bootstrap \in Seq(Tasks)
  BY BootstrapIsTasks
<1>3. EvidenceTypeOK
  BY <1>1, <1>2, EmptySeq, NoLocalIsLocal DEF Init, EvidenceTypeOK, Places, NoCounts
<1>4. BeliefsAreBacked
  <2>1. \A k, s : EventCount(k, s) \in Nat
    BY <1>1, EventCountIsNat
  <2> QED
    BY <2>1 DEF Init, BeliefsAreBacked, NoCounts
<1>5. AncestryIntact
  BY <1>1 DEF AncestryIntact
<1>6. \A t \in Workers : PriorBacked(t) /\ HeadKnown(t)
  BY DEF Init, PriorBacked, HeadKnown
<1> QED
  BY <1>3, <1>4, <1>5, <1>6 DEF EvidenceInv

\* A request to simulate gives its thread a count to make.
LEMMA SimulateStep == ASSUME EvidenceInv, NEW t \in Threads, Simulate(t) PROVE EvidenceInv'
<1>1. PICK k \in Cases : StartOperation(t, <<TaskOf("count", k, 1)>>)
  BY DEF Simulate
<1> DEFINE tasks == <<TaskOf("count", k, 1)>>
<1>2. tasks \in Seq(Tasks) /\ tasks # << >> /\ tasks[1].op = "count"
  BY DEF TaskOf, Tasks
<1>3. t \in Workers
  BY DEF Workers
<1>4. /\ todo' = [todo EXCEPT ![t] = tasks]
      /\ UNCHANGED <<events, beliefs, at, local>>
  BY <1>1 DEF StartOperation, tables
<1> HIDE DEF tasks
<1>5. EvidenceTypeOK' /\ todo'[t] = tasks
  BY <1>2, <1>3, <1>4 DEF EvidenceInv, EvidenceTypeOK
<1>6. ~Doing(t, "apply")'
  BY <1>2, <1>5 DEF Doing
<1>7. PriorBacked(t)' /\ HeadKnown(t)'
  BY <1>6 DEF PriorBacked, HeadKnown
<1>8. OthersWait(t)
  BY <1>4 DEF OthersWait, EvidenceInv, EvidenceTypeOK
<1>9. BeliefsAreBacked'
  BY <1>4, BeliefsKept DEF Grows
<1> QED
  BY <1>3, <1>4, <1>5, <1>7, <1>8, <1>9, CallKept

\* Store calls that end a task and leave the tables' evidence alone: counting,
\* looking for the case, and a failure.
LEMMA CountedTask ==
  ASSUME EvidenceTypeOK, NEW t \in Workers, ~Idle(t)
  PROVE  <<TaskOf("apply", Case(t), NextStep(Case(t), Len(events)))>> \in Seq(Tasks)
<1>1. Case(t) \in Cases /\ Len(events) \in Nat
  BY TailOfTasks, LenProperties DEF EvidenceTypeOK
<1>2. NextStep(Case(t), Len(events)) \in Nat
  BY <1>1, NextStepIsNat
<1> QED
  BY <1>1, <1>2 DEF TaskOf, Tasks

LEMMA CountStep == ASSUME EvidenceInv, NEW t \in Workers, CountEvents(t) PROVE EvidenceInv'
<1> DEFINE more == <<TaskOf("apply", Case(t), NextStep(Case(t), Len(events)))>>
<1>1. ~Idle(t) /\ Proceed(t, more) /\ UNCHANGED <<events, beliefs>>
  BY DEF CountEvents, Doing, tables
<1>2. more \in Seq(Tasks)
  BY <1>1, CountedTask DEF EvidenceInv
<1> HIDE DEF more
<1>3. EvidenceTypeOK' /\ OthersWait(t) /\ PriorBacked(t)' /\ HeadKnown(t)'
  BY <1>1, <1>2, ProceedTypes DEF EvidenceInv, EvidenceTypeOK
<1>4. BeliefsAreBacked'
  BY <1>1, BeliefsKept DEF Grows
<1> QED
  BY <1>1, <1>3, <1>4, CallKept

LEMMA EstablishIsTasks ==
  ASSUME NEW k \in Cases
  PROVE  /\ Establish(k) \in Seq(Tasks) /\ Len(Establish(k)) = BootLength[k] + 1
         /\ Establish(k)[1] = TaskOf("create", k, 1)
         /\ \A i \in 2 .. BootLength[k] + 1 : Establish(k)[i] = TaskOf("apply", k, i - 1)
<1> DEFINE applied == [s \in 1 .. BootLength[k] |-> TaskOf("apply", k, s)]
           first == <<TaskOf("create", k, 1)>>
<1>1. BootLength[k] \in Nat
  BY EvidenceAssumption
<1>2. applied \in Seq(Tasks) /\ Len(applied) = BootLength[k]
  <2>1. \A s \in 1 .. BootLength[k] : TaskOf("apply", k, s) \in Tasks
    BY <1>1 DEF TaskOf, Tasks
  <2>2. applied \in Seq(Tasks)
    BY <1>1, <2>1, IsASeq
  <2>3. DOMAIN applied = 1 .. BootLength[k] /\ DOMAIN applied = 1 .. Len(applied) /\ Len(applied) \in Nat
    BY <2>2, LenProperties
  <2> QED
    BY <1>1, <2>2, <2>3
<1>3. first \in Seq(Tasks) /\ Len(first) = 1 /\ first[1] = TaskOf("create", k, 1)
  BY DEF TaskOf, Tasks
<1>4. \A i \in 1 .. BootLength[k] : applied[i] = TaskOf("apply", k, i)
  OBVIOUS
<1>5. Establish(k) = first \o applied
  BY DEF Establish
<1> HIDE DEF applied, first
<1>6. /\ first \o applied \in Seq(Tasks) /\ Len(first \o applied) = BootLength[k] + 1
      /\ \A i \in 1 .. BootLength[k] + 1 : (first \o applied)[i] = IF i <= 1 THEN first[i] ELSE applied[i - 1]
  <2>1. /\ first \o applied \in Seq(Tasks) /\ Len(first \o applied) = Len(first) + Len(applied)
        /\ \A i \in 1 .. Len(first) + Len(applied) :
             (first \o applied)[i] = IF i <= Len(first) THEN first[i] ELSE applied[i - Len(first)]
    BY <1>2, <1>3, ConcatProperties
  <2>2. Len(first) + Len(applied) = BootLength[k] + 1
    BY <1>1, <1>2, <1>3
  <2> QED
    BY <1>3, <2>1, <2>2
<1>7. (first \o applied)[1] = first[1]
  BY <1>1, <1>6
<1>8. ASSUME NEW i \in 2 .. BootLength[k] + 1 PROVE (first \o applied)[i] = TaskOf("apply", k, i - 1)
  <2>1. i - 1 \in 1 .. BootLength[k] /\ i \in 1 .. BootLength[k] + 1 /\ ~ (i <= 1)
    BY <1>1
  <2> QED
    BY <1>4, <1>6, <2>1
<1> QED
  BY <1>3, <1>5, <1>6, <1>7, <1>8

LEMMA EnsureStep == ASSUME EvidenceInv, NEW t \in Workers, EnsureCase(t) PROVE EvidenceInv'
<1> DEFINE more == IF Case(t) \in present THEN << >> ELSE Establish(Case(t))
<1>1. ~Idle(t) /\ Proceed(t, more) /\ UNCHANGED <<events, beliefs>>
  BY DEF EnsureCase, Doing, tables
<1>2. Case(t) \in Cases
  BY <1>1, TailOfTasks DEF EvidenceInv
<1>3. more \in Seq(Tasks)
  BY <1>2, EstablishIsTasks, EmptySeq
<1> HIDE DEF more
<1>4. EvidenceTypeOK' /\ OthersWait(t) /\ PriorBacked(t)' /\ HeadKnown(t)'
  BY <1>1, <1>3, ProceedTypes DEF EvidenceInv, EvidenceTypeOK
<1>5. BeliefsAreBacked'
  BY <1>1, BeliefsKept DEF Grows
<1> QED
  BY <1>1, <1>4, <1>5, CallKept

LEMMA AbandonStep ==
  ASSUME EvidenceInv, NEW t \in Workers, Abandon(t), UNCHANGED <<events, beliefs>>
  PROVE  EvidenceInv'
<1>1. EvidenceTypeOK' /\ OthersWait(t) /\ PriorBacked(t)' /\ HeadKnown(t)'
  BY AbandonTypes DEF EvidenceInv
<1>2. BeliefsAreBacked'
  BY BeliefsKept DEF Grows
<1> QED
  BY <1>1, <1>2, CallKept

\* A case that is created believes nothing.
LEMMA CreateStep == ASSUME EvidenceInv, NEW t \in Workers, CreateCase(t) PROVE EvidenceInv'
<1>1. ~Idle(t) /\ Proceed(t, << >>) /\ UNCHANGED events
  BY DEF CreateCase, Doing
<1>2. beliefs' \in [Cases -> [Steps -> Nat]]
  BY DEF CreateCase, EvidenceInv, EvidenceTypeOK, NoCounts
<1>3. EvidenceTypeOK' /\ OthersWait(t) /\ PriorBacked(t)' /\ HeadKnown(t)'
  <2>1. EvidenceTypeOK /\ << >> \in Seq(Tasks)
    BY EmptySeq DEF EvidenceInv
  <2>2. events' \in Seq({events'[i] : i \in DOMAIN events'})
    BY <1>1, <2>1 DEF EvidenceTypeOK
  <2> QED
    BY <1>1, <1>2, <2>1, <2>2, ProceedTypes
<1>4. BeliefsAreBacked'
  <2>1. \A k, s : EventCount(k, s)' = EventCount(k, s)
    BY <1>1 DEF EventCount
  <2>2. \A k, s : EventCount(k, s) \in Nat
    BY EventCountIsNat DEF EvidenceInv, EvidenceTypeOK
  <2>3. \A k \in Cases, s \in Steps : beliefs'[k][s] = beliefs[k][s] \/ beliefs'[k][s] = 0
    BY DEF CreateCase, EvidenceInv, EvidenceTypeOK, NoCounts
  <2> QED
    BY <2>1, <2>2, <2>3 DEF EvidenceInv, BeliefsAreBacked
<1> QED
  BY <1>1, <1>3, <1>4, CallKept

\* A step within a task moves its thread on and may note what it has read.
LEMMA ReachTypes ==
  ASSUME EvidenceTypeOK, EvidenceTypeOK', NEW t \in Workers, ~Idle(t), NEW place, Reach(t, place),
         \A u \in Workers \ {t} : local'[u] = local[u]
  PROVE  /\ OthersWait(t) /\ at'[t] = place
         /\ Doing(t, "apply")' = Doing(t, "apply") /\ Case(t)' = Case(t) /\ Step(t)' = Step(t)
BY DEF Reach, EvidenceTypeOK, OthersWait, Doing, Idle, Case, Step

\* A read notes what it reads and nothing else.
LEMMA ReadCaseNotes ==
  ASSUME EvidenceTypeOK, NEW t \in Workers, ReadCase(t)
  PROVE  /\ EvidenceTypeOK' /\ \A u \in Workers \ {t} : local'[u] = local[u]
         /\ local'[t] = [prior |-> beliefs[Case(t)], stamp |-> clock, head |-> local[t].head]
<1>1. /\ ~Idle(t) /\ Reach(t, "head") /\ UNCHANGED <<events, beliefs>>
      /\ local' = [local EXCEPT ![t].prior = beliefs[Case(t)], ![t].stamp = clock]
  BY DEF ReadCase, Doing, tables
<1>2. Case(t) \in Cases
  BY <1>1, TailOfTasks
<1>3. /\ DOMAIN local' = Workers /\ \A u \in Workers \ {t} : local'[u] = local[u]
      /\ local'[t] = [prior |-> beliefs[Case(t)], stamp |-> clock, head |-> local[t].head]
  <2>1. DOMAIN local = Workers
    BY DEF EvidenceTypeOK
  <2>2. PICK p, c, h : local[t] = [prior |-> p, stamp |-> c, head |-> h]
    BY DEF EvidenceTypeOK
  <2>3. local' = [local EXCEPT ![t] = [@ EXCEPT !.prior = beliefs[Case(t)], !.stamp = clock]]
    BY <1>1, <2>1, <2>2
  <2> QED
    BY <2>1, <2>2, <2>3
<1>4. beliefs[Case(t)] \in [Steps -> Nat]
  BY <1>2 DEF EvidenceTypeOK
<1>5. ASSUME NEW u \in Workers
      PROVE  /\ local'[u] = [prior |-> local'[u].prior, stamp |-> local'[u].stamp, head |-> local'[u].head]
             /\ local'[u].prior \in [Steps -> Nat]
  <2>1. CASE u = t
    BY <1>3, <1>4, <2>1
  <2>2. CASE u # t
    BY <1>3, <2>2 DEF EvidenceTypeOK
  <2> QED
    BY <2>1, <2>2
<1>6. EvidenceTypeOK'
  BY <1>1, <1>3, <1>5 DEF EvidenceTypeOK, Reach, Places
<1> QED
  BY <1>3, <1>6

LEMMA ReadHeadNotes ==
  ASSUME EvidenceTypeOK, NEW t \in Workers, ReadHead(t)
  PROVE  /\ EvidenceTypeOK' /\ \A u \in Workers \ {t} : local'[u] = local[u]
         /\ local'[t] = [prior |-> local[t].prior, stamp |-> local[t].stamp, head |-> HeadOf(Case(t), Len(events))]
<1>1. /\ ~Idle(t) /\ Reach(t, "insert") /\ UNCHANGED <<events, beliefs>>
      /\ local' = [local EXCEPT ![t].head = HeadOf(Case(t), Len(events))]
  BY DEF ReadHead, Doing, tables
<1>2. /\ DOMAIN local' = Workers /\ \A u \in Workers \ {t} : local'[u] = local[u]
      /\ local'[t] = [prior |-> local[t].prior, stamp |-> local[t].stamp, head |-> HeadOf(Case(t), Len(events))]
  <2>1. DOMAIN local = Workers
    BY DEF EvidenceTypeOK
  <2>2. PICK p, c, h : local[t] = [prior |-> p, stamp |-> c, head |-> h]
    BY DEF EvidenceTypeOK
  <2> QED
    BY <1>1, <2>1, <2>2
<1>3. ASSUME NEW u \in Workers
      PROVE  /\ local'[u] = [prior |-> local'[u].prior, stamp |-> local'[u].stamp, head |-> local'[u].head]
             /\ local'[u].prior \in [Steps -> Nat]
  <2>1. CASE u = t
    BY <1>2, <2>1 DEF EvidenceTypeOK
  <2>2. CASE u # t
    BY <1>2, <2>2 DEF EvidenceTypeOK
  <2> QED
    BY <2>1, <2>2
<1>4. EvidenceTypeOK'
  BY <1>1, <1>2, <1>3 DEF EvidenceTypeOK, Reach, Places
<1> QED
  BY <1>2, <1>4

\* The beliefs read are backed by the evidence there is.
LEMMA ReadCaseStep == ASSUME EvidenceInv, NEW t \in Workers, ReadCase(t) PROVE EvidenceInv'
<1>1. ~Idle(t) /\ Reach(t, "head") /\ UNCHANGED <<events, beliefs>>
  BY DEF ReadCase, Doing, tables
<1>2. Case(t) \in Cases
  BY <1>1, TailOfTasks DEF EvidenceInv
<1>3. /\ EvidenceTypeOK' /\ \A u \in Workers \ {t} : local'[u] = local[u]
      /\ local'[t] = [prior |-> beliefs[Case(t)], stamp |-> clock, head |-> local[t].head]
  BY ReadCaseNotes DEF EvidenceInv
<1>4. OthersWait(t) /\ at'[t] = "head" /\ Case(t)' = Case(t)
  BY <1>1, <1>3, ReachTypes DEF EvidenceInv
<1>5. PriorBacked(t)'
  <2>1. \A s \in Steps : EventCount(Case(t), s)' = EventCount(Case(t), s)
    BY <1>1, <1>4 DEF EventCount
  <2> QED
    BY <1>2, <1>3, <1>4, <2>1 DEF PriorBacked, EvidenceInv, BeliefsAreBacked
<1>6. HeadKnown(t)'
  BY <1>4 DEF HeadKnown
<1>7. BeliefsAreBacked'
  BY <1>1, BeliefsKept DEF Grows
<1> QED
  BY <1>1, <1>3, <1>4, <1>5, <1>6, <1>7, CallKept

\* The head read is that of an event of the case.
LEMMA ReadHeadStep == ASSUME EvidenceInv, NEW t \in Workers, ReadHead(t) PROVE EvidenceInv'
<1>1. Doing(t, "apply") /\ at[t] = "head" /\ ~Idle(t) /\ Reach(t, "insert") /\ UNCHANGED <<events, beliefs>>
  BY DEF ReadHead, Doing, tables
<1>2. /\ EvidenceTypeOK' /\ \A u \in Workers \ {t} : local'[u] = local[u]
      /\ local'[t] = [prior |-> local[t].prior, stamp |-> local[t].stamp, head |-> HeadOf(Case(t), Len(events))]
  BY ReadHeadNotes DEF EvidenceInv
<1>3. OthersWait(t) /\ at'[t] = "insert" /\ Case(t)' = Case(t)
  BY <1>1, <1>2, ReachTypes DEF EvidenceInv
<1>4. PriorBacked(t)'
  <2>1. \A s \in Steps : EventCount(Case(t), s)' = EventCount(Case(t), s)
    BY <1>1, <1>3 DEF EventCount
  <2>2. \A s \in Steps : local[t].prior[s] <= EventCount(Case(t), s)
    BY <1>1 DEF EvidenceInv, PriorBacked
  <2> QED
    BY <1>2, <1>3, <2>1, <2>2 DEF PriorBacked
<1>5. HeadKnown(t)'
  <2>1. Known(HeadOf(Case(t), Len(events)), Case(t))
    <3>1. Len(events) \in Nat
      BY LenProperties DEF EvidenceInv, EvidenceTypeOK
    <3> QED
      BY <3>1, HeadIsKnown
  <2> QED
    BY <1>1, <1>2, <1>3, <2>1 DEF HeadKnown, Known
<1>6. BeliefsAreBacked'
  BY <1>1, BeliefsKept DEF Grows
<1> QED
  BY <1>1, <1>2, <1>3, <1>4, <1>5, <1>6, CallKept

\* The appended event extends a known one and backs the posterior.
LEMMA InsertStep == ASSUME EvidenceInv, NEW t \in Workers, InsertEvent(t) PROVE EvidenceInv'
<1> DEFINE row == NewRow(t)
<1>1. /\ Doing(t, "apply") /\ at[t] = "insert" /\ ~Idle(t) /\ Reach(t, "beliefs")
      /\ events' = Append(events, row) /\ UNCHANGED <<beliefs, local>>
  BY DEF InsertEvent, Doing
<1>2. row.event.case = Case(t) /\ row.event.step = Step(t) /\ row.previous_hash = local[t].head
  BY DEF NewRow
<1> HIDE DEF row
<1>3. Grows
  BY <1>1 DEF Grows
<1>4. EvidenceTypeOK'
  BY <1>1, <1>3, NothingIsLost DEF EvidenceInv, EvidenceTypeOK, Reach, Places
<1>5. OthersWait(t) /\ at'[t] = "beliefs" /\ Case(t)' = Case(t) /\ Step(t)' = Step(t)
  BY <1>1, <1>4, ReachTypes DEF EvidenceInv
<1>6. PriorBacked(t)'
  <2> SUFFICES ASSUME NEW s \in Steps
               PROVE  Fold(local[t].prior, Step(t))[s] <= EventCount(Case(t), s)'
    BY <1>1, <1>5 DEF PriorBacked
  <2>1. EventCount(Case(t), s)' = IF s = Step(t) THEN EventCount(Case(t), s) + 1 ELSE EventCount(Case(t), s)
    <3>1. events \in Seq({events[i] : i \in DOMAIN events})
      BY DEF EvidenceInv, EvidenceTypeOK
    <3>2. ASSUME NEW k
          PROVE  EventCount(k, s)' = IF row.event.case = k /\ row.event.step = s
                                     THEN EventCount(k, s) + 1 ELSE EventCount(k, s)
      BY <1>1, <3>1, AppendCounts
    <3> QED
      BY <1>2, <1>5, <3>2
  <2>2. local[t].prior[s] \in Nat /\ local[t].prior[s] <= EventCount(Case(t), s)
    BY <1>1 DEF EvidenceInv, EvidenceTypeOK, PriorBacked
  <2>3. Fold(local[t].prior, Step(t))[s] = IF s = Step(t) THEN local[t].prior[s] + 1 ELSE local[t].prior[s]
    <3>1. local[t].prior \in [Steps -> Nat]
      BY DEF EvidenceInv, EvidenceTypeOK
    <3> QED
      BY <3>1, FoldCounts
  <2>4. EventCount(Case(t), s) \in Nat
    BY EventCountIsNat DEF EvidenceInv, EvidenceTypeOK
  <2> QED
    BY <2>1, <2>2, <2>3, <2>4
<1>7. HeadKnown(t)'
  BY <1>5 DEF HeadKnown
<1>8. \A u \in Workers \ {t} : PriorBacked(u)' /\ HeadKnown(u)'
  BY <1>3, <1>5, ThreadKept DEF OthersWait
<1>9. AncestryIntact'
  <2>1. /\ Len(events) \in Nat /\ Len(events') = Len(events) + 1
        /\ \A i \in 1 .. Len(events) : events'[i] = events[i]
        /\ events'[Len(events) + 1] = row
    BY <1>1, AppendedEvent DEF EvidenceInv, EvidenceTypeOK
  <2>2. Known(row.previous_hash, row.event.case)
    BY <1>1, <1>2 DEF EvidenceInv, HeadKnown
  <2> SUFFICES ASSUME NEW i \in 1 .. Len(events')
               PROVE  \/ events'[i].previous_hash = GenesisHash
                      \/ \E j \in 1 .. (i - 1) : /\ events'[j].event_hash = events'[i].previous_hash
                                               /\ events'[j].event.case = events'[i].event.case
    BY DEF AncestryIntact
  <2>3. CASE i = Len(events) + 1
    BY <2>1, <2>2, <2>3 DEF Known
  <2>4. CASE i \in 1 .. Len(events)
    <3>1. \A j \in 1 .. (i - 1) : j \in 1 .. Len(events)
      BY <2>1, <2>4
    <3> QED
      BY <2>1, <2>4, <3>1 DEF EvidenceInv, AncestryIntact
  <2> QED
    BY <2>1, <2>3, <2>4
<1>10. BeliefsAreBacked'
  BY <1>1, <1>3, BeliefsKept
<1>11. \A u \in Workers : PriorBacked(u)' /\ HeadKnown(u)'
  BY <1>6, <1>7, <1>8
<1> QED
  BY <1>4, <1>9, <1>10, <1>11 DEF EvidenceInv

\* What is written was backed when it was computed, and still is.
LEMMA WriteStep == ASSUME EvidenceInv, NEW t \in Workers, WriteBeliefs(t) PROVE EvidenceInv'
<1>1. /\ Doing(t, "apply") /\ at[t] = "beliefs" /\ ~Idle(t) /\ Proceed(t, << >>) /\ UNCHANGED events
      /\ beliefs' = IF Case(t) \in present THEN [beliefs EXCEPT ![Case(t)] = Fold(local[t].prior, Step(t))] ELSE beliefs
  BY DEF WriteBeliefs, Doing
<1>2. Fold(local[t].prior, Step(t)) \in [Steps -> Nat]
  BY FoldCounts DEF EvidenceInv, EvidenceTypeOK
<1>3. beliefs' \in [Cases -> [Steps -> Nat]]
  BY <1>1, <1>2 DEF EvidenceInv, EvidenceTypeOK
<1>4. EvidenceTypeOK' /\ OthersWait(t) /\ PriorBacked(t)' /\ HeadKnown(t)'
  <2>1. EvidenceTypeOK /\ events' \in Seq({events'[i] : i \in DOMAIN events'})
    BY <1>1 DEF EvidenceInv, EvidenceTypeOK
  <2> QED
    BY <1>1, <1>3, <2>1, ProceedTypes, EmptySeq
<1>5. BeliefsAreBacked'
  <2>1. \A k, s : EventCount(k, s)' = EventCount(k, s)
    BY <1>1 DEF EventCount
  <2>2. \A s \in Steps : Fold(local[t].prior, Step(t))[s] <= EventCount(Case(t), s)
    BY <1>1 DEF EvidenceInv, PriorBacked
  <2>3. \A k \in Cases, s \in Steps :
          beliefs'[k][s] = beliefs[k][s] \/ (k = Case(t) /\ beliefs'[k][s] = Fold(local[t].prior, Step(t))[s])
    BY <1>1 DEF EvidenceInv, EvidenceTypeOK
  <2> QED
    BY <2>1, <2>2, <2>3 DEF EvidenceInv, BeliefsAreBacked
<1> QED
  BY <1>1, <1>4, <1>5, CallKept

\* Nobody is about to wipe the tables.
LEMMA NoWipe == ASSUME ~Resets, EvidenceInv, NEW t \in Workers, Wipe(t) PROVE FALSE
  BY TailOfTasks DEF EvidenceInv, Wipe, Doing, Tasks

\* A restart forgets what threads have read and keeps what they have written.
LEMMA RestartStep == ASSUME EvidenceInv, Restart PROVE EvidenceInv'
<1>1. /\ todo' = [t \in Workers |-> IF t = Boot THEN Bootstrap ELSE << >>]
      /\ at' = [t \in Workers |-> "start"] /\ local' = [t \in Workers |-> NoLocal]
      /\ UNCHANGED <<events, beliefs>>
  BY DEF Restart, tables
<1>2. Bootstrap \in Seq(Tasks)
  BY BootstrapIsTasks
<1>3. EvidenceTypeOK'
  BY <1>1, <1>2, EmptySeq, NoLocalIsLocal DEF EvidenceInv, EvidenceTypeOK, Places
<1>4. \A t \in Workers : PriorBacked(t)' /\ HeadKnown(t)'
  BY <1>1, StartingIsBacked
<1>5. BeliefsAreBacked'
  BY <1>1, BeliefsKept DEF Grows
<1>6. AncestryIntact'
  BY <1>1 DEF EvidenceInv, AncestryIntact
<1> QED
  BY <1>3, <1>4, <1>5, <1>6 DEF EvidenceInv

\* The clock, or nothing, moves.
LEMMA IdleStep ==
  ASSUME EvidenceInv, UNCHANGED <<events, beliefs, todo, at, local>>
  PROVE  EvidenceInv'
<1>1. EvidenceTypeOK'
  BY DEF EvidenceInv, EvidenceTypeOK
<1>2. \A t \in Workers : PriorBacked(t)' /\ HeadKnown(t)'
  BY ThreadKept DEF Grows
<1>3. BeliefsAreBacked'
  BY BeliefsKept DEF Grows
<1>4. AncestryIntact'
  BY DEF EvidenceInv, AncestryIntact
<1> QED
  BY <1>1, <1>2, <1>3, <1>4 DEF EvidenceInv

LEMMA EvidenceStep == ASSUME ~Resets PROVE EvidenceInv /\ [Next]_vars => EvidenceInv'
<1> SUFFICES ASSUME EvidenceInv, [Next]_vars PROVE EvidenceInv'
  OBVIOUS
<1>1. ASSUME NEW t \in Threads, Simulate(t) \/ ResetDemo(t) PROVE EvidenceInv'
  BY <1>1, SimulateStep DEF ResetDemo
<1>2. ASSUME NEW t \in Workers, StoreCall(t) PROVE EvidenceInv'
  <2>1. CASE MissCase(t) \/ RefuseInsert(t)
    BY <2>1, AbandonStep DEF MissCase, RefuseInsert, tables
  <2> QED
    BY <1>2, <2>1, CountStep, EnsureStep, CreateStep, NoWipe, ReadCaseStep, ReadHeadStep, InsertStep, WriteStep
    DEF StoreCall
<1>3. ASSUME NEW t \in Workers, StoreFails(t) PROVE EvidenceInv'
  BY <1>3, AbandonStep DEF StoreFails, tables
<1>4. CASE Restart
  BY <1>4, RestartStep
<1>5. CASE Tick
  BY <1>5, IdleStep DEF Tick, tables
<1>6. CASE UNCHANGED vars
  BY <1>6, IdleStep DEF vars, tables
<1> QED
  BY <1>1, <1>2, <1>3, <1>4, <1>5, <1>6 DEF Next

\* What every reachable state satisfies while nobody resets the demo.
LEMMA EvidenceInvariant == ASSUME ~Resets PROVE Spec => []EvidenceInv
  BY EvidenceInitial, EvidenceStep, PTL DEF Spec

------------------------------------------------------------------------------
(* One operation at a time *)

\* One client thread; the constructor has bootstrapped before it serves.
OneThread == \A t, u \in Threads : t = u

OneAtATime == \A t, u \in Workers : ~Idle(t) /\ ~Idle(u) => t = u

Count(k, n) == Cardinality(PositionsOf(k, n))

\* Bootstrap's next task applies the next event of the same case.
More(t) == Len(todo[t]) > 1 /\ todo[t][2].op = "apply"

\* What a thread is at is what the tables call for: it creates a case that is
\* absent, applies the next step of the script, and what it has read is still so.
TaskInOrder(t) ==
  /\ Doing(t, "create") => Case(t) \notin present
  /\ Doing(t, "apply") =>
       /\ at[t] # "start" => Case(t) \in present /\ local[t].prior = beliefs[Case(t)]
       /\ at[t] = "insert" => local[t].head = HeadOf(Case(t), Len(events))
       /\ at[t] # "beliefs" => Step(t) = NextStep(Case(t), Len(events))
       /\ More(t) => Count(Case(t), Len(events)) = IF at[t] = "beliefs" THEN Step(t) ELSE Step(t) - 1

\* A thread's later tasks are cases to ensure, or a script from its first step.
Follows(next, previous) ==
  /\ next.op \in {"ensure", "apply"}
  /\ next.op = "apply" =>
       /\ previous.op \in {"create", "apply"} /\ previous.case = next.case
       /\ next.step = IF previous.op = "create" THEN 1 ELSE previous.step + 1
       /\ next.step <= BootLength[next.case]
PlanInOrder(t) == \A i \in 2 .. Len(todo[t]) : Follows(todo[t][i], todo[t][i - 1])

\* The thread's event of case k and step s is in the table and not yet folded.
Folding(t, k, s) == Doing(t, "apply") /\ at[t] = "beliefs" /\ Case(t) = k /\ Step(t) = s

\* Only interruptions lose beliefs: one event at most is still to be folded.
LostToInterruptions ==
  \A k \in Cases, s \in Steps :
    EventCount(k, s) <= beliefs[k][s] + interruptions + (IF \E t \in Workers : Folding(t, k, s) THEN 1 ELSE 0)

\* The foreign key: the events are of cases there are.
EventsHaveCases == \A i \in 1 .. Len(events) : events[i].event.case \in present

SerialInv ==
  /\ EvidenceTypeOK /\ interruptions \in Nat /\ OneAtATime
  /\ EvidenceVerifies /\ ScenarioInOrder /\ EventsHaveCases /\ LostToInterruptions
  /\ \A t \in Workers : TaskInOrder(t) /\ PlanInOrder(t)

\* A thread that has nothing to do is where it should be.
LEMMA IdleInOrder == ASSUME NEW u, Idle(u) PROVE TaskInOrder(u) /\ PlanInOrder(u) /\ \A k, s : ~Folding(u, k, s)
BY DEF Idle, TaskInOrder, PlanInOrder, Doing, Folding

\* While a thread works, no other one does.
LEMMA OthersIdle ==
  ASSUME OneAtATime, NEW t \in Workers, ~Idle(t), OthersWait(t)
  PROVE  /\ OneAtATime'
         /\ \A u \in Workers \ {t} : /\ Idle(u) /\ Idle(u)' /\ TaskInOrder(u)' /\ PlanInOrder(u)'
                                     /\ \A k, s : ~Folding(u, k, s) /\ ~Folding(u, k, s)'
<1>1. ASSUME NEW u \in Workers \ {t} PROVE Idle(u) /\ Idle(u)'
  BY DEF OneAtATime, OthersWait, Idle
<1>2. OneAtATime'
  BY <1>1 DEF OneAtATime
<1>3. ASSUME NEW u \in Workers \ {t}
      PROVE  /\ TaskInOrder(u)' /\ PlanInOrder(u)'
             /\ \A k, s : ~Folding(u, k, s) /\ ~Folding(u, k, s)'
  <2>1. Idle(u) /\ Idle(u)'
    BY <1>1
  <2>2. TaskInOrder(u)' /\ PlanInOrder(u)' /\ \A k, s : ~Folding(u, k, s)'
    BY <2>1 DEF Idle, TaskInOrder, PlanInOrder, Doing, Folding
  <2> QED
    BY <2>1, <2>2, IdleInOrder
<1> QED
  BY <1>1, <1>2, <1>3

\* What the table says of a case does not change while the table does not.
LEMMA SameEvents ==
  ASSUME UNCHANGED events
  PROVE  /\ \A k, n : /\ PositionsOf(k, n)' = PositionsOf(k, n) /\ HeadOf(k, n)' = HeadOf(k, n)
                      /\ NextStep(k, n)' = NextStep(k, n) /\ Count(k, n)' = Count(k, n)
         /\ \A k, s : EventCount(k, s)' = EventCount(k, s)
         /\ EvidenceVerifies' = EvidenceVerifies /\ ScenarioInOrder' = ScenarioInOrder
<1>1. \A k, n : PositionsOf(k, n)' = PositionsOf(k, n)
  BY DEF PositionsOf
<1>2. \A k, n : HeadOf(k, n)' = HeadOf(k, n)
  BY DEF HeadOf, PositionsOf
<1>3. \A k, n : NextStep(k, n)' = NextStep(k, n) /\ Count(k, n)' = Count(k, n)
  BY DEF NextStep, ListedCount, Count, PositionsOf
<1>4. \A k, s : EventCount(k, s)' = EventCount(k, s)
  BY DEF EventCount
<1>5. EvidenceVerifies' = EvidenceVerifies
  BY DEF EvidenceVerifies, RecordVerifies, PositionsOf
<1>6. ScenarioInOrder' = ScenarioInOrder
  BY DEF ScenarioInOrder, StepInOrder, PositionsOf
<1> QED
  BY <1>1, <1>2, <1>3, <1>4, <1>5, <1>6

\* Nothing more is lost while tables stay as they are, unless it is paid for.
LEMMA NothingMoreIsLost ==
  ASSUME EvidenceTypeOK, interruptions \in Nat, LostToInterruptions, UNCHANGED <<beliefs, events>>,
         \/ interruptions' = interruptions + 1
         \/ interruptions' = interruptions /\ \A u \in Workers : \A k, s : Folding(u, k, s) => Folding(u, k, s)'
  PROVE  LostToInterruptions'
<1> SUFFICES ASSUME NEW k \in Cases, NEW s \in Steps
             PROVE  EventCount(k, s)' <= beliefs'[k][s] + interruptions' + (IF \E t \in Workers : Folding(t, k, s)' THEN 1 ELSE 0)
  BY DEF LostToInterruptions
<1>1. EventCount(k, s)' = EventCount(k, s) /\ EventCount(k, s) \in Nat
  BY SameEvents, EventCountIsNat DEF EvidenceTypeOK
<1>2. beliefs'[k][s] = beliefs[k][s] /\ beliefs[k][s] \in Nat
  BY DEF EvidenceTypeOK
<1>3. EventCount(k, s) <= beliefs[k][s] + interruptions + (IF \E t \in Workers : Folding(t, k, s) THEN 1 ELSE 0)
  BY DEF LostToInterruptions
<1>4. CASE interruptions' = interruptions + 1
  BY <1>1, <1>2, <1>3, <1>4
<1>5. CASE interruptions' = interruptions /\ \A u \in Workers : Folding(u, k, s) => Folding(u, k, s)'
  BY <1>1, <1>2, <1>3, <1>5
<1> QED
  BY <1>4, <1>5

\* A step that leaves the events alone and whose thread ends in order.
LEMMA SerialKept ==
  ASSUME SerialInv, EvidenceTypeOK', interruptions' \in Nat, LostToInterruptions', UNCHANGED events, present \subseteq present',
         NEW t \in Workers, ~Idle(t), OthersWait(t), TaskInOrder(t)', PlanInOrder(t)'
  PROVE  SerialInv'
<1>1. /\ OneAtATime' /\ \A u \in Workers \ {t} : TaskInOrder(u)' /\ PlanInOrder(u)'
  BY OthersIdle DEF SerialInv
<1>2. EvidenceVerifies' /\ ScenarioInOrder'
  BY SameEvents DEF SerialInv
<1>3. EventsHaveCases'
  BY DEF SerialInv, EventsHaveCases
<1> QED
  BY <1>1, <1>2, <1>3 DEF SerialInv

------------------------------------------------------------------------------
(* Plans *)

LEMMA SomeLeft == ASSUME NEW n \in Nat, n # 0 PROVE 1 \in 1 .. n /\ n + 1 > 1 /\ 2 \in 2 .. n + 1
OBVIOUS

\* The rest of a thread's tasks follow from where they begin.
LEMMA RestInOrder ==
  ASSUME EvidenceTypeOK, NEW t \in Workers, ~Idle(t), PlanInOrder(t), Proceed(t, << >>)
  PROVE  /\ PlanInOrder(t)' /\ at'[t] = "start"
         /\ ~Idle(t)' => Len(todo[t]) > 1 /\ todo'[t][1] = todo[t][2] /\ Follows(todo[t][2], todo[t][1])
<1>1. todo[t] \in Seq(Tasks) /\ todo[t] # << >>
  BY DEF EvidenceTypeOK, Idle
<1>2. /\ Tail(todo[t]) \in Seq(Tasks) /\ Len(Tail(todo[t])) = Len(todo[t]) - 1 /\ Len(todo[t]) \in Nat
      /\ \A i \in 1 .. Len(Tail(todo[t])) : Tail(todo[t])[i] = todo[t][i + 1]
  BY <1>1, HeadTailProperties, LenProperties
<1>3. todo'[t] = Tail(todo[t]) /\ at'[t] = "start"
  <2>1. << >> \o Tail(todo[t]) = Tail(todo[t])
    BY <1>2, ConcatEmptySeq
  <2> QED
    BY <2>1 DEF Proceed, EvidenceTypeOK
<1>4. ASSUME NEW i \in 2 .. Len(todo'[t]) PROVE Follows(todo'[t][i], todo'[t][i - 1])
  <2>1. i \in 1 .. Len(Tail(todo[t])) /\ i - 1 \in 1 .. Len(Tail(todo[t])) /\ i + 1 \in 2 .. Len(todo[t]) /\ (i - 1) + 1 = i /\ (i + 1) - 1 = i
    BY <1>2, <1>3
  <2>2. todo'[t][i] = todo[t][i + 1] /\ todo'[t][i - 1] = todo[t][i]
    BY <1>2, <1>3, <2>1
  <2>3. Follows(todo[t][i + 1], todo[t][(i + 1) - 1])
    BY <2>1 DEF PlanInOrder
  <2> QED
    BY <2>1, <2>2, <2>3
<1>5. ASSUME ~Idle(t)' PROVE Len(todo[t]) > 1 /\ todo'[t][1] = todo[t][2] /\ Follows(todo[t][2], todo[t][1])
  <2>1. Len(Tail(todo[t])) \in Nat \ {0}
    <3>1. Tail(todo[t]) # << >>
      BY <1>3, <1>5 DEF Idle
    <3> QED
      BY <1>2, <3>1, EmptySeq, LenProperties
  <2>2. 1 \in 1 .. Len(Tail(todo[t])) /\ Len(todo[t]) > 1 /\ 2 \in 2 .. Len(todo[t]) /\ 1 + 1 = 2 /\ 2 - 1 = 1
    <3>1. 1 \in 1 .. Len(Tail(todo[t])) /\ Len(Tail(todo[t])) + 1 > 1 /\ 2 \in 2 .. Len(Tail(todo[t])) + 1
      BY <2>1, SomeLeft
    <3>2. Len(todo[t]) = Len(Tail(todo[t])) + 1
      BY <1>2
    <3> QED
      BY <3>1, <3>2
  <2>3. todo'[t][1] = todo[t][2]
    BY <1>2, <1>3, <2>2
  <2>4. Follows(todo[t][2], todo[t][2 - 1])
    BY <2>2 DEF PlanInOrder
  <2> QED
    BY <2>2, <2>3, <2>4
<1>6. PlanInOrder(t)'
  BY <1>4 DEF PlanInOrder, Follows
<1> QED
  BY <1>3, <1>5, <1>6

\* Tasks that a task is replaced by come before cases to ensure.
LEMMA MoreInOrder ==
  ASSUME EvidenceTypeOK, NEW t \in Workers, ~Idle(t), PlanInOrder(t), todo[t][1].op \notin {"create", "apply"},
         NEW more \in Seq(Tasks), Len(more) \in Nat \ {0}, Proceed(t, more),
         \A i \in 2 .. Len(more) : Follows(more[i], more[i - 1])
  PROVE  /\ PlanInOrder(t)' /\ at'[t] = "start" /\ ~Idle(t)' /\ todo'[t][1] = more[1]
         /\ Len(more) = 1 => ~More(t)'
<1>1. todo[t] \in Seq(Tasks) /\ todo[t] # << >>
  BY DEF EvidenceTypeOK, Idle
<1> DEFINE rest == Tail(todo[t])
           n == Len(more)
<1>2. /\ rest \in Seq(Tasks) /\ Len(rest) = Len(todo[t]) - 1 /\ Len(todo[t]) \in Nat /\ Len(rest) \in Nat
      /\ \A i \in 1 .. Len(rest) : rest[i] = todo[t][i + 1]
  BY <1>1, HeadTailProperties, LenProperties
<1>3. todo'[t] = more \o rest /\ at'[t] = "start"
  BY DEF Proceed, EvidenceTypeOK
<1> HIDE DEF rest
<1>4. \A i \in 1 .. Len(rest) : Follows(rest[i], IF i = 1 THEN todo[t][1] ELSE rest[i - 1])
  <2> SUFFICES ASSUME NEW i \in 1 .. Len(rest) PROVE Follows(rest[i], IF i = 1 THEN todo[t][1] ELSE rest[i - 1])
    OBVIOUS
  <2>1. i + 1 \in 2 .. Len(todo[t]) /\ (i + 1) - 1 = i /\ rest[i] = todo[t][i + 1]
    BY <1>2
  <2>2. Follows(todo[t][i + 1], todo[t][(i + 1) - 1])
    BY <2>1 DEF PlanInOrder
  <2>3. CASE i = 1
    BY <2>1, <2>2, <2>3
  <2>4. CASE i # 1
    <3>1. i - 1 \in 1 .. Len(rest) /\ (i - 1) + 1 = i
      BY <1>2, <2>4
    <3>2. rest[i - 1] = todo[t][i]
      BY <1>2, <3>1
    <3> QED
      BY <2>1, <2>2, <2>4, <3>2
  <2> QED
    BY <2>3, <2>4
<1>5. Len(rest) # 0 => rest[1].op = "ensure"
  <2> SUFFICES ASSUME Len(rest) # 0 PROVE rest[1].op = "ensure"
    OBVIOUS
  <2>1. 1 \in 1 .. Len(rest)
    BY <1>2, SomeLeft
  <2>2. Follows(rest[1], todo[t][1])
    BY <1>4, <2>1
  <2> QED
    BY <2>2 DEF Follows
<1>6. /\ more \o rest \in Seq(Tasks) /\ Len(more \o rest) = n + Len(rest)
      /\ \A i \in 1 .. n + Len(rest) : (more \o rest)[i] = IF i <= n THEN more[i] ELSE rest[i - n]
  BY <1>2, ConcatProperties
<1> HIDE DEF n
<1>7. n \in Nat \ {0}
  BY DEF n
<1>8. ASSUME NEW i \in 2 .. Len(todo'[t]) PROVE Follows(todo'[t][i], todo'[t][i - 1])
  <2>1. i \in 2 .. n + Len(rest) /\ i \in 1 .. n + Len(rest) /\ i - 1 \in 1 .. n + Len(rest)
    BY <1>2, <1>3, <1>6, <1>7
  <2>2. CASE i <= n
    <3>1. todo'[t][i] = more[i] /\ todo'[t][i - 1] = more[i - 1] /\ i \in 2 .. n
      BY <1>3, <1>6, <1>7, <2>1, <2>2
    <3> QED
      BY <3>1 DEF n
  <2>3. CASE i = n + 1
    <3>1. i - n = 1 /\ ~ (i <= n) /\ Len(rest) # 0
      BY <1>2, <1>7, <2>1, <2>3
    <3>2. todo'[t][i] = rest[1]
      BY <1>3, <1>6, <2>1, <3>1
    <3> QED
      BY <1>5, <3>1, <3>2 DEF Follows
  <2>4. CASE i > n + 1
    <3>1. i - n \in 1 .. Len(rest) /\ i - n # 1 /\ (i - 1) - n = (i - n) - 1 /\ ~ (i <= n) /\ ~ (i - 1 <= n)
      BY <1>2, <1>7, <2>1, <2>4
    <3>2. todo'[t][i] = rest[i - n] /\ todo'[t][i - 1] = rest[(i - n) - 1]
      BY <1>3, <1>6, <2>1, <3>1
    <3>3. Follows(rest[i - n], rest[(i - n) - 1])
      BY <1>4, <3>1
    <3> QED
      BY <3>2, <3>3
  <2> QED
    BY <1>7, <2>1, <2>2, <2>3, <2>4
<1>9. PlanInOrder(t)'
  BY <1>8 DEF PlanInOrder, Follows
<1>10. ~Idle(t)' /\ todo'[t][1] = more[1]
  <2>1. 1 \in 1 .. n + Len(rest) /\ 1 <= n /\ Len(todo'[t]) # 0
    BY <1>2, <1>3, <1>6, <1>7
  <2>2. Len(<< >>) = 0
    OBVIOUS
  <2> QED
    BY <1>3, <1>6, <2>1, <2>2 DEF Idle
<1>11. ASSUME n = 1, More(t)' PROVE FALSE
  <2>1. Len(rest) # 0 /\ 2 \in 1 .. n + Len(rest) /\ ~ (2 <= n) /\ 2 - n = 1
    BY <1>2, <1>3, <1>6, <1>11 DEF More
  <2>2. todo'[t][2] = rest[1]
    BY <1>3, <1>6, <2>1
  <2> QED
    BY <1>5, <1>11, <2>1, <2>2 DEF More
<1> QED
  BY <1>3, <1>9, <1>10, <1>11 DEF n

------------------------------------------------------------------------------
(* Steps of one operation at a time *)

\* Cases to ensure follow from anything.
LEMMA BootstrapEnsures ==
  /\ Bootstrap \in Seq(Tasks)
  /\ \A i \in 1 .. Len(Bootstrap) : Bootstrap[i].op = "ensure"
<1>1. Bootstrap \in Seq(Tasks)
  BY BootstrapIsTasks
<1>2. \A i \in DOMAIN Bootstrap : Bootstrap[i].op = "ensure"
  BY DEF Bootstrap, TaskOf
<1> QED
  BY <1>1, <1>2, LenProperties

LEMMA SerialInitial == Init => SerialInv
<1> SUFFICES ASSUME Init PROVE SerialInv
  OBVIOUS
<1>1. EvidenceTypeOK
  BY EvidenceInitial DEF EvidenceInv
<1>2. events = << >> /\ Len(events) = 0 /\ interruptions = 0
  BY DEF Init
<1>3. EvidenceVerifies /\ ScenarioInOrder /\ EventsHaveCases
  BY <1>2 DEF EvidenceVerifies, ScenarioInOrder, EventsHaveCases
<1>4. OneAtATime
  BY DEF Init, OneAtATime, Idle
<1>5. LostToInterruptions
  <2>1. \A k, s : EventCount(k, s) = 0
    <3>1. \A k, s : EventCount(k, s) = Cardinality({})
      BY <1>2 DEF EventCount
    <3> QED
      BY <3>1, FS_EmptySet
  <2> QED
    BY <1>2, <2>1 DEF LostToInterruptions, Init, NoCounts
<1>6. ASSUME NEW t \in Workers PROVE TaskInOrder(t) /\ PlanInOrder(t)
  <2>1. CASE t = Boot
    <3>1. todo[t] = Bootstrap /\ Len(Bootstrap) \in Nat
      BY <2>1, BootstrapEnsures, LenProperties DEF Init
    <3>2. ~Idle(t) => todo[t][1].op = "ensure"
      <4> SUFFICES ASSUME ~Idle(t) PROVE 1 \in 1 .. Len(Bootstrap)
        BY <3>1, BootstrapEnsures
      <4>1. Len(Bootstrap) # 0
        BY <3>1, BootstrapEnsures, EmptySeq DEF Idle
      <4> QED
        BY <3>1, <4>1, SomeLeft
    <3>3. \A i \in 2 .. Len(todo[t]) : Follows(todo[t][i], todo[t][i - 1])
      BY <3>1, BootstrapEnsures DEF Follows
    <3> QED
      BY <3>2, <3>3 DEF TaskInOrder, PlanInOrder, Doing
  <2>2. CASE t # Boot
    BY <2>2, IdleInOrder DEF Init, Idle
  <2> QED
    BY <2>1, <2>2
<1> QED
  BY <1>1, <1>2, <1>3, <1>4, <1>5, <1>6 DEF SerialInv

\* A request comes when nobody works and gives its thread a list that begins
\* with the count or the wipe and goes on with cases to ensure.
LEMMA SerialStart ==
  ASSUME OneThread, SerialInv, NEW t \in Threads, NEW tasks \in Seq(Tasks), StartOperation(t, tasks),
         tasks # << >>, tasks[1].op \in {"count", "wipe"}, \A i \in 2 .. Len(tasks) : tasks[i].op = "ensure"
  PROVE  SerialInv'
<1>1. /\ todo' = [todo EXCEPT ![t] = tasks] /\ Idle(t) /\ Idle(Boot) /\ t \in Workers
      /\ UNCHANGED <<present, beliefs, events, at, local, interruptions>>
  BY DEF StartOperation, tables, Workers
<1>2. EvidenceTypeOK'
  BY <1>1 DEF SerialInv, EvidenceTypeOK
<1>3. todo'[t] = tasks /\ \A u \in Workers \ {t} : todo'[u] = todo[u]
  BY <1>1 DEF SerialInv, EvidenceTypeOK
<1>4. ASSUME NEW u \in Workers PROVE Idle(u) /\ (u # t => Idle(u)')
  <2>1. Idle(u)
    BY <1>1 DEF OneThread, Workers
  <2> QED
    BY <1>3, <2>1 DEF Idle
<1>5. OneAtATime'
  BY <1>4 DEF OneAtATime
<1>6. LostToInterruptions'
  <2>1. \A u \in Workers : \A k, s : ~Folding(u, k, s)
    BY <1>4, IdleInOrder
  <2> QED
    BY <1>1, <2>1, NothingMoreIsLost DEF SerialInv
<1>7. EvidenceVerifies' /\ ScenarioInOrder' /\ EventsHaveCases'
  <2>1. EvidenceVerifies' /\ ScenarioInOrder'
    BY <1>1, SameEvents DEF SerialInv
  <2> QED
    BY <1>1, <2>1 DEF SerialInv, EventsHaveCases
<1>8. ASSUME NEW u \in Workers PROVE TaskInOrder(u)' /\ PlanInOrder(u)'
  <2>1. CASE u = t
    BY <1>3, <2>1 DEF TaskInOrder, PlanInOrder, Doing, Follows
  <2>2. CASE u # t
    <3>1. Idle(u)'
      BY <1>4, <2>2
    <3> QED
      BY <3>1 DEF Idle, TaskInOrder, PlanInOrder, Doing
  <2> QED
    BY <2>1, <2>2
<1> QED
  BY <1>1, <1>2, <1>5, <1>6, <1>7, <1>8 DEF SerialInv

LEMMA SerialRequest ==
  ASSUME OneThread, SerialInv, NEW t \in Threads, Simulate(t) \/ ResetDemo(t)
  PROVE  SerialInv'
<1>1. CASE Simulate(t)
  <2>1. PICK k \in Cases : StartOperation(t, <<TaskOf("count", k, 1)>>)
    BY <1>1 DEF Simulate
  <2> DEFINE tasks == <<TaskOf("count", k, 1)>>
  <2>2. tasks \in Seq(Tasks) /\ tasks # << >> /\ tasks[1].op = "count" /\ Len(tasks) = 1
    BY DEF TaskOf, Tasks
  <2> HIDE DEF tasks
  <2>3. \A i \in 2 .. Len(tasks) : tasks[i].op = "ensure"
    BY <2>2
  <2>4. StartOperation(t, tasks)
    BY <2>1 DEF tasks
  <2> QED
    BY <2>2, <2>3, <2>4, SerialStart
<1>2. CASE ResetDemo(t)
  <2> DEFINE first == <<TaskOf("wipe", CaseOrder[1], 1)>>
  <2>1. Resets /\ StartOperation(t, first \o Bootstrap)
    BY <1>2 DEF ResetDemo
  <2>2. CaseOrder[1] \in Cases
    <3>1. CaseOrder \in Seq(Cases) /\ CaseOrder # << >>
      BY EvidenceAssumption
    <3>2. Len(CaseOrder) \in Nat /\ Len(CaseOrder) # 0
      BY <3>1, LenProperties, EmptySeq
    <3>3. 1 \in 1 .. Len(CaseOrder)
      BY <3>2, SomeLeft
    <3> QED
      BY <3>1, <3>3, ElementOfSeq
  <2>3. first \in Seq(Tasks) /\ Len(first) = 1 /\ first[1].op = "wipe"
    BY <2>1, <2>2 DEF TaskOf, Tasks
  <2> HIDE DEF first
  <2>4. Bootstrap \in Seq(Tasks) /\ Len(Bootstrap) \in Nat
    BY BootstrapEnsures, LenProperties
  <2>5. /\ first \o Bootstrap \in Seq(Tasks) /\ Len(first \o Bootstrap) = Len(first) + Len(Bootstrap)
        /\ \A i \in 1 .. Len(first) + Len(Bootstrap) :
             (first \o Bootstrap)[i] = IF i <= Len(first) THEN first[i] ELSE Bootstrap[i - Len(first)]
    BY <2>3, <2>4, ConcatProperties
  <2>6. (first \o Bootstrap)[1].op = "wipe"
    BY <2>3, <2>4, <2>5
  <2>7. ASSUME NEW i \in 2 .. Len(first \o Bootstrap) PROVE (first \o Bootstrap)[i].op = "ensure"
    <3>1. i \in 1 .. Len(first) + Len(Bootstrap) /\ ~ (i <= Len(first)) /\ i - Len(first) \in 1 .. Len(Bootstrap)
      BY <2>3, <2>4, <2>5
    <3> QED
      BY <2>5, <3>1, BootstrapEnsures
  <2>8. first \o Bootstrap # << >>
    <3>1. Len(first \o Bootstrap) # 0
      BY <2>3, <2>4, <2>5
    <3> QED
      BY <3>1
  <2> QED
    BY <2>1, <2>5, <2>6, <2>7, <2>8, SerialStart
<1> QED
  BY <1>1, <1>2

\* A store call of a thread that is not folding loses nothing.
LEMMA NotFolding ==
  ASSUME SerialInv, NEW t \in Workers, ~Idle(t), OthersWait(t), UNCHANGED <<beliefs, events, interruptions>>,
         ~(Doing(t, "apply") /\ at[t] = "beliefs")
  PROVE  LostToInterruptions'
<1>1. \A u \in Workers : \A k, s : ~Folding(u, k, s)
  BY OthersIdle DEF SerialInv, Folding
<1> QED
  BY <1>1, NothingMoreIsLost DEF SerialInv

\* What is true of a thread's first task when it is replaced by none or by more.
LEMMA SerialProceed ==
  ASSUME SerialInv, NEW t \in Workers, ~Idle(t), NEW more \in Seq(Tasks), Proceed(t, more),
         UNCHANGED <<events, interruptions>>, beliefs' \in [Cases -> [Steps -> Nat]], LostToInterruptions',
         present \subseteq present', TaskInOrder(t)', PlanInOrder(t)'
  PROVE  SerialInv'
<1>1. EvidenceTypeOK /\ events' \in Seq({events'[i] : i \in DOMAIN events'})
  BY DEF SerialInv, EvidenceTypeOK
<1>2. EvidenceTypeOK' /\ OthersWait(t)
  BY <1>1, ProceedTypes
<1> QED
  BY <1>2, SerialKept DEF SerialInv

LEMMA SerialCount == ASSUME SerialInv, NEW t \in Workers, CountEvents(t) PROVE SerialInv'
<1> DEFINE more == <<TaskOf("apply", Case(t), NextStep(Case(t), Len(events)))>>
<1>1. /\ Doing(t, "count") /\ ~Idle(t) /\ Proceed(t, more)
      /\ UNCHANGED <<present, beliefs, events, interruptions>>
  BY DEF CountEvents, Doing, tables, Ambient
<1>2. more \in Seq(Tasks) /\ Len(more) = 1
  BY <1>1, CountedTask DEF SerialInv
<1>3. PICK k : Case(t) = k
  OBVIOUS
<1>4. more[1].op = "apply" /\ more[1].case = k /\ more[1].step = NextStep(k, Len(events))
  BY <1>3 DEF TaskOf
<1> HIDE DEF more
<1>5. /\ PlanInOrder(t)' /\ at'[t] = "start" /\ ~Idle(t)' /\ todo'[t][1] = more[1] /\ ~More(t)'
  <2>1. todo[t][1].op \notin {"create", "apply"}
    BY <1>1 DEF Doing
  <2>2. \A i \in 2 .. Len(more) : Follows(more[i], more[i - 1])
    BY <1>2
  <2> QED
    BY <1>1, <1>2, <2>1, <2>2, MoreInOrder DEF SerialInv
<1>6. TaskInOrder(t)'
  <2>1. NextStep(k, Len(events))' = NextStep(k, Len(events))
    BY <1>1, SameEvents
  <2>2. Case(t)' = k /\ Step(t)' = NextStep(k, Len(events))
    BY <1>4, <1>5 DEF Case, Step
  <2> QED
    BY <1>4, <1>5, <2>1, <2>2 DEF TaskInOrder, Doing
<1>7. LostToInterruptions'
  <2>1. OthersWait(t)
    BY <1>1, <1>2, ProceedTypes DEF SerialInv, EvidenceTypeOK
  <2> QED
    BY <1>1, <2>1, NotFolding DEF Doing
<1>8. beliefs' \in [Cases -> [Steps -> Nat]]
  BY <1>1 DEF SerialInv, EvidenceTypeOK
<1> QED
  BY <1>1, <1>2, <1>5, <1>6, <1>7, <1>8, SerialProceed

LEMMA SerialEnsure == ASSUME SerialInv, NEW t \in Workers, EnsureCase(t) PROVE SerialInv'
<1>1. /\ Doing(t, "ensure") /\ ~Idle(t) /\ Proceed(t, IF Case(t) \in present THEN << >> ELSE Establish(Case(t)))
      /\ UNCHANGED <<present, beliefs, events, interruptions>>
  BY DEF EnsureCase, Doing, tables, Ambient
<1>2. PICK k \in Cases : Case(t) = k
  BY <1>1, TailOfTasks DEF SerialInv
<1>3. beliefs' \in [Cases -> [Steps -> Nat]] /\ events' \in Seq({events'[i] : i \in DOMAIN events'})
  BY <1>1 DEF SerialInv, EvidenceTypeOK
<1>4. CASE k \in present
  <2>1. Proceed(t, << >>) /\ << >> \in Seq(Tasks)
    BY <1>1, <1>2, <1>4, EmptySeq
  <2>2. PlanInOrder(t)' /\ at'[t] = "start" /\ (~Idle(t)' => todo'[t][1] = todo[t][2] /\ Follows(todo[t][2], todo[t][1]))
    BY <1>1, <2>1, RestInOrder DEF SerialInv
  <2>3. TaskInOrder(t)'
    BY <1>1, <2>2 DEF TaskInOrder, Doing, Follows
  <2>4. OthersWait(t)
    BY <1>1, <1>3, <2>1, ProceedTypes DEF SerialInv
  <2>5. LostToInterruptions'
    BY <1>1, <2>4, NotFolding DEF Doing
  <2> QED
    BY <1>1, <1>3, <2>1, <2>2, <2>3, <2>5, SerialProceed
<1>5. CASE k \notin present
  <2> DEFINE more == Establish(k)
  <2>1. Proceed(t, more) /\ more \in Seq(Tasks) /\ Len(more) \in Nat \ {0} /\ more[1].op = "create" /\ more[1].case = k
    <3>1. more \in Seq(Tasks) /\ Len(more) = BootLength[k] + 1 /\ more[1] = TaskOf("create", k, 1)
      BY EstablishIsTasks
    <3>2. BootLength[k] \in Nat
      BY EvidenceAssumption
    <3>3. Proceed(t, more)
      BY <1>1, <1>2, <1>5
    <3> HIDE DEF more
    <3>4. Len(more) \in Nat \ {0}
      BY <3>1, <3>2
    <3> QED
      BY <3>1, <3>3, <3>4 DEF TaskOf
  <2>2. \A i \in 2 .. Len(more) : Follows(more[i], more[i - 1])
    <3> SUFFICES ASSUME NEW i \in 2 .. BootLength[k] + 1 PROVE Follows(Establish(k)[i], Establish(k)[i - 1])
      BY EstablishIsTasks
    <3>1. BootLength[k] \in Nat
      BY EvidenceAssumption
    <3>2. Establish(k)[i] = TaskOf("apply", k, i - 1)
      BY EstablishIsTasks
    <3>3. CASE i = 2
      <4>1. Establish(k)[i - 1] = TaskOf("create", k, 1)
        BY <3>3, EstablishIsTasks
      <4> QED
        BY <3>1, <3>2, <3>3, <4>1 DEF Follows, TaskOf
    <3>4. CASE i # 2
      <4>1. i - 1 \in 2 .. BootLength[k] + 1
        BY <3>1, <3>4
      <4>2. Establish(k)[i - 1] = TaskOf("apply", k, (i - 1) - 1)
        BY <4>1, EstablishIsTasks
      <4> QED
        BY <3>1, <3>2, <3>4, <4>2 DEF Follows, TaskOf
    <3> QED
      BY <3>3, <3>4
  <2> HIDE DEF more
  <2>3. PlanInOrder(t)' /\ at'[t] = "start" /\ todo'[t][1] = more[1]
    <3>1. todo[t][1].op \notin {"create", "apply"}
      BY <1>1 DEF Doing
    <3> QED
      BY <1>1, <2>1, <2>2, <3>1, MoreInOrder DEF SerialInv
  <2>4. TaskInOrder(t)'
    BY <1>1, <1>5, <2>1, <2>3 DEF TaskInOrder, Doing, Case
  <2>5. OthersWait(t)
    BY <1>1, <1>3, <2>1, ProceedTypes DEF SerialInv
  <2>6. LostToInterruptions'
    BY <1>1, <2>5, NotFolding DEF Doing
  <2> QED
    BY <1>1, <1>3, <2>1, <2>3, <2>4, <2>6, SerialProceed
<1> QED
  BY <1>4, <1>5

\* A case without events has none to count.
LEMMA NoEventsOfAbsent ==
  ASSUME EvidenceTypeOK, EventsHaveCases, NEW k, k \notin present
  PROVE  Count(k, Len(events)) = 0 /\ \A s : EventCount(k, s) = 0
<1>1. PositionsOf(k, Len(events)) = {}
  BY DEF EventsHaveCases, PositionsOf
<1>2. \A s : EventsOf(k, s) = {}
  BY DEF EventsHaveCases, EventsOf
<1>3. \A s : EventCount(k, s) = Cardinality(EventsOf(k, s))
  BY DEF EventCount, EventsOf
<1> QED
  BY <1>1, <1>2, <1>3, FS_EmptySet DEF Count

\* As many listed events as the first steps of the script took call for the
\* next one.
LEMMA NextInScript ==
  ASSUME NEW k \in Cases, NEW n, Count(k, n) \in Nat, Count(k, n) < BootLength[k]
  PROVE  NextStep(k, n) = Count(k, n) + 1
<1>1. ScenarioLength[k] \in Nat \ {0} /\ BootLength[k] \in Nat /\ BootLength[k] <= ScenarioLength[k]
  BY EvidenceAssumption
<1>2. ListLimit \in Nat /\ BootLength[k] <= ListLimit
  BY EvidenceAssumption
<1>3. ListedCount(k, n) = Count(k, n)
  BY <1>1, <1>2 DEF ListedCount, Count
<1>4. Count(k, n) % ScenarioLength[k] = Count(k, n)
  <2>1. Count(k, n) < ScenarioLength[k]
    BY <1>1
  <2> HIDE DEF Count
  <2> QED
    BY <1>1, <2>1
<1> QED
  BY <1>3, <1>4 DEF NextStep

\* A created case starts its script: it has no events and no beliefs.
LEMMA SerialCreate == ASSUME SerialInv, NEW t \in Workers, CreateCase(t) PROVE SerialInv'
<1>1. /\ Doing(t, "create") /\ ~Idle(t) /\ Proceed(t, << >>) /\ UNCHANGED <<events, interruptions>>
      /\ present' = present \cup {Case(t)}
      /\ beliefs' = IF Case(t) \in present THEN beliefs ELSE [beliefs EXCEPT ![Case(t)] = NoCounts]
  BY DEF CreateCase, Doing, Ambient
<1>2. PICK k \in Cases : Case(t) = k
  BY <1>1, TailOfTasks DEF SerialInv
<1>3. k \notin present /\ todo[t][1].op = "create" /\ todo[t][1].case = k
  BY <1>1, <1>2 DEF SerialInv, TaskInOrder, Doing, Case
<1>4. beliefs' \in [Cases -> [Steps -> Nat]] /\ << >> \in Seq(Tasks)
  BY <1>1, EmptySeq DEF SerialInv, EvidenceTypeOK, NoCounts
<1>5. Count(k, Len(events)) = 0 /\ \A s : EventCount(k, s) = 0
  BY <1>3, NoEventsOfAbsent DEF SerialInv
<1>6. /\ PlanInOrder(t)' /\ at'[t] = "start"
      /\ ~Idle(t)' => todo'[t][1] = todo[t][2] /\ Follows(todo[t][2], todo[t][1])
  BY <1>1, RestInOrder DEF SerialInv
<1>7. TaskInOrder(t)'
  <2> SUFFICES ASSUME Doing(t, "apply")'
               PROVE  /\ Case(t)' = k /\ Step(t)' = NextStep(k, Len(events)) /\ Count(k, Len(events)) = Step(t)' - 1
    <3>1. \A n : NextStep(k, n)' = NextStep(k, n) /\ Count(k, n)' = Count(k, n)
      BY <1>1, SameEvents
    <3>2. ~Doing(t, "create")'
      BY <1>6 DEF Doing, Follows
    <3> QED
      BY <1>1, <1>6, <3>1, <3>2 DEF TaskInOrder
  <2>1. todo'[t][1].op = "apply" /\ todo'[t][1].case = k /\ todo'[t][1].step = 1 /\ 1 <= BootLength[k]
    BY <1>3, <1>6 DEF Doing, Follows
  <2>2. NextStep(k, Len(events)) = 1
    <3>1. Count(k, Len(events)) \in Nat /\ Count(k, Len(events)) < BootLength[k]
      BY <1>5, <2>1, EvidenceAssumption
    <3>2. NextStep(k, Len(events)) = Count(k, Len(events)) + 1
      BY <3>1, NextInScript
    <3> QED
      BY <1>5, <3>2
  <2> QED
    BY <1>5, <2>1, <2>2 DEF Case, Step
<1>8. OthersWait(t)
  <2>1. EvidenceTypeOK /\ events' \in Seq({events'[i] : i \in DOMAIN events'})
    BY <1>1 DEF SerialInv, EvidenceTypeOK
  <2> QED
    BY <1>1, <1>4, <2>1, ProceedTypes
<1>9. LostToInterruptions'
  <2> SUFFICES ASSUME NEW c \in Cases, NEW s \in Steps
               PROVE  EventCount(c, s)' <= beliefs'[c][s] + interruptions' + (IF \E u \in Workers : Folding(u, c, s)' THEN 1 ELSE 0)
    BY DEF LostToInterruptions
  <2>1. EventCount(c, s)' = EventCount(c, s) /\ EventCount(c, s) \in Nat
    BY <1>1, SameEvents, EventCountIsNat DEF SerialInv, EvidenceTypeOK
  <2>2. ~ \E u \in Workers : Folding(u, c, s)
    BY <1>1, <1>8, OthersIdle DEF SerialInv, Folding, Doing
  <2>3. EventCount(c, s) <= beliefs[c][s] + interruptions + 0
    BY <2>2 DEF SerialInv, LostToInterruptions
  <2>4. beliefs'[c][s] \in Nat /\ interruptions \in Nat /\ interruptions' = interruptions
    BY <1>1, <1>4 DEF SerialInv
  <2>5. c # k => beliefs'[c][s] = beliefs[c][s]
    BY <1>1, <1>2 DEF SerialInv, EvidenceTypeOK
  <2>6. c = k => EventCount(c, s) = 0
    BY <1>5
  <2> QED
    BY <2>1, <2>3, <2>4, <2>5, <2>6
<1>10. present \subseteq present'
  BY <1>1
<1> QED
  BY <1>1, <1>4, <1>6, <1>7, <1>9, <1>10, SerialProceed

\* A wipe leaves nothing behind.
LEMMA SerialWipe == ASSUME SerialInv, NEW t \in Workers, Wipe(t) PROVE SerialInv'
<1>1. /\ Doing(t, "wipe") /\ ~Idle(t) /\ Proceed(t, << >>) /\ UNCHANGED interruptions
      /\ events' = << >> /\ beliefs' = [k \in Cases |-> NoCounts]
  BY DEF Wipe, Doing, Ambient
<1>2. /\ beliefs' \in [Cases -> [Steps -> Nat]] /\ << >> \in Seq(Tasks) /\ Len(events') = 0
      /\ events' \in Seq({events'[i] : i \in DOMAIN events'})
  BY <1>1, EmptySeq DEF NoCounts
<1>3. EvidenceTypeOK' /\ OthersWait(t)
  BY <1>1, <1>2, ProceedTypes DEF SerialInv
<1>4. /\ PlanInOrder(t)' /\ (~Idle(t)' => todo'[t][1] = todo[t][2] /\ Follows(todo[t][2], todo[t][1]))
  BY <1>1, RestInOrder DEF SerialInv
<1>5. TaskInOrder(t)'
  BY <1>1, <1>4 DEF TaskInOrder, Doing, Follows
<1>6. OneAtATime' /\ \A u \in Workers \ {t} : TaskInOrder(u)' /\ PlanInOrder(u)'
  BY <1>1, <1>3, OthersIdle DEF SerialInv
<1>7. EvidenceVerifies' /\ ScenarioInOrder' /\ EventsHaveCases'
  BY <1>2 DEF EvidenceVerifies, ScenarioInOrder, EventsHaveCases
<1>8. LostToInterruptions'
  <2>1. \A k, s : EventCount(k, s)' = 0
    <3>1. \A k, s : EventCount(k, s)' = Cardinality({})
      BY <1>2 DEF EventCount
    <3> QED
      BY <3>1, FS_EmptySet
  <2>2. interruptions' \in Nat
    BY <1>1 DEF SerialInv
  <2> QED
    BY <1>1, <2>1, <2>2 DEF LostToInterruptions, NoCounts
<1> QED
  BY <1>1, <1>3, <1>4, <1>5, <1>6, <1>7, <1>8 DEF SerialInv

\* An operation that ends early loses at most the event it was folding.
LEMMA SerialAbandon ==
  ASSUME SerialInv, NEW t \in Workers, ~Idle(t), Abandon(t), UNCHANGED tables,
         \/ interruptions' = interruptions + 1
         \/ UNCHANGED interruptions /\ ~(Doing(t, "apply") /\ at[t] = "beliefs")
  PROVE  SerialInv'
<1>1. UNCHANGED <<present, beliefs, events>>
  BY DEF tables
<1>2. EvidenceTypeOK' /\ OthersWait(t)
  BY <1>1, AbandonTypes DEF SerialInv
<1>3. LostToInterruptions'
  <2>1. UNCHANGED interruptions => \A u \in Workers : \A k, s : ~Folding(u, k, s)
    <3>1. \A u \in Workers \ {t} : \A k, s : ~Folding(u, k, s)
      BY <1>2, OthersIdle DEF SerialInv
    <3>2. UNCHANGED interruptions => ~(Doing(t, "apply") /\ at[t] = "beliefs")
      BY DEF SerialInv
    <3> QED
      BY <3>1, <3>2 DEF Folding
  <2> QED
    BY <1>1, <2>1, NothingMoreIsLost DEF SerialInv
<1>4. todo'[t] = << >>
  BY DEF Abandon, SerialInv, EvidenceTypeOK
<1>5. TaskInOrder(t)' /\ PlanInOrder(t)'
  BY <1>4 DEF Idle, TaskInOrder, PlanInOrder, Doing
<1>6. interruptions' \in Nat
  BY DEF SerialInv
<1> QED
  BY <1>1, <1>2, <1>3, <1>5, <1>6, SerialKept

\* What is read within a task is what the tables say.
LEMMA SerialRead ==
  ASSUME SerialInv, EvidenceTypeOK', NEW t \in Workers, NEW place, Doing(t, "apply"), at[t] # "beliefs", place # "beliefs",
         place # "start", Reach(t, place), UNCHANGED tables, Ambient, \A u \in Workers \ {t} : local'[u] = local[u],
         Case(t) \in present, local'[t].prior = beliefs[Case(t)],
         place = "insert" => local'[t].head = HeadOf(Case(t), Len(events))
  PROVE  SerialInv'
<1>1. UNCHANGED <<present, beliefs, events, interruptions>> /\ ~Idle(t)
  BY DEF tables, Ambient, Doing
<1>2. /\ OthersWait(t) /\ at'[t] = place
      /\ Doing(t, "apply")' /\ Case(t)' = Case(t) /\ Step(t)' = Step(t) /\ todo'[t] = todo[t]
  <2>1. todo'[t] = todo[t]
    BY DEF Reach
  <2> QED
    BY <1>1, <2>1, ReachTypes DEF SerialInv
<1>3. PICK k : Case(t) = k
  OBVIOUS
<1>4. TaskInOrder(t)'
  <2>1. \A n : NextStep(k, n)' = NextStep(k, n) /\ Count(k, n)' = Count(k, n) /\ HeadOf(k, n)' = HeadOf(k, n)
    BY <1>1, SameEvents
  <2>2. More(t)' = More(t) /\ ~Doing(t, "create")'
    BY <1>2 DEF More, Doing
  <2>3. Step(t) = NextStep(k, Len(events)) /\ (More(t) => Count(k, Len(events)) = Step(t) - 1)
    BY <1>3 DEF SerialInv, TaskInOrder
  <2> QED
    BY <1>1, <1>2, <1>3, <2>1, <2>2, <2>3 DEF TaskInOrder
<1>5. PlanInOrder(t)'
  BY <1>2 DEF SerialInv, PlanInOrder
<1>6. LostToInterruptions'
  BY <1>1, <1>2, NotFolding
<1> QED
  BY <1>1, <1>2, <1>4, <1>5, <1>6, SerialKept DEF SerialInv

LEMMA SerialReadCase == ASSUME SerialInv, NEW t \in Workers, ReadCase(t) PROVE SerialInv'
<1>1. /\ Doing(t, "apply") /\ at[t] # "beliefs" /\ Case(t) \in present /\ Reach(t, "head")
      /\ UNCHANGED tables /\ Ambient
  BY DEF ReadCase
<1>2. /\ EvidenceTypeOK' /\ \A u \in Workers \ {t} : local'[u] = local[u]
      /\ local'[t].prior = beliefs[Case(t)]
  <2>1. /\ EvidenceTypeOK' /\ \A u \in Workers \ {t} : local'[u] = local[u]
        /\ local'[t] = [prior |-> beliefs[Case(t)], stamp |-> clock, head |-> local[t].head]
    BY ReadCaseNotes DEF SerialInv
  <2> QED
    BY <2>1
<1> QED
  BY <1>1, <1>2, SerialRead

LEMMA SerialReadHead == ASSUME SerialInv, NEW t \in Workers, ReadHead(t) PROVE SerialInv'
<1>1. /\ Doing(t, "apply") /\ at[t] = "head" /\ Reach(t, "insert") /\ UNCHANGED tables /\ Ambient
  BY DEF ReadHead
<1>2. Case(t) \in present /\ local[t].prior = beliefs[Case(t)]
  BY <1>1 DEF SerialInv, TaskInOrder
<1>3. /\ EvidenceTypeOK' /\ \A u \in Workers \ {t} : local'[u] = local[u]
      /\ local'[t].prior = local[t].prior /\ local'[t].head = HeadOf(Case(t), Len(events))
  <2>1. /\ EvidenceTypeOK' /\ \A u \in Workers \ {t} : local'[u] = local[u]
        /\ local'[t] = [prior |-> local[t].prior, stamp |-> local[t].stamp, head |-> HeadOf(Case(t), Len(events))]
    BY ReadHeadNotes DEF SerialInv
  <2> QED
    BY <2>1
<1> QED
  BY <1>1, <1>2, <1>3, SerialRead

\* An appended event is the last of its case, and what came before it does
\* not change.
LEMMA PositionsAppended ==
  ASSUME NEW row, events \in Seq({events[i] : i \in DOMAIN events}), events' = Append(events, row), NEW k
  PROVE  /\ \A n \in 0 .. Len(events) : PositionsOf(k, n)' = PositionsOf(k, n)
         /\ Count(k, Len(events)) \in Nat
         /\ Count(k, Len(events))' = IF row.event.case = k THEN Count(k, Len(events)) + 1 ELSE Count(k, Len(events))
<1> DEFINE n == Len(events)
<1>1. /\ n \in Nat /\ Len(events') = n + 1
      /\ \A i \in 1 .. n : events'[i] = events[i]
      /\ events'[n + 1] = row
  BY AppendedEvent
<1> HIDE DEF n
<1>2. \A m \in 0 .. n : PositionsOf(k, m)' = PositionsOf(k, m)
  BY <1>1 DEF PositionsOf
<1>3. IsFiniteSet(PositionsOf(k, n)) /\ Cardinality(PositionsOf(k, n)) \in Nat
  BY <1>1, PositionsAreFinite
<1>4. {i \in 1 .. n + 1 : events'[i].event.case = k} =
        IF row.event.case = k THEN PositionsOf(k, n) \cup {n + 1} ELSE PositionsOf(k, n)
  BY <1>1 DEF PositionsOf
<1>5. n + 1 \notin PositionsOf(k, n)
  BY <1>1 DEF PositionsOf
<1>6. Cardinality({i \in 1 .. n + 1 : events'[i].event.case = k}) =
        IF row.event.case = k THEN Cardinality(PositionsOf(k, n)) + 1 ELSE Cardinality(PositionsOf(k, n))
  BY <1>3, <1>4, <1>5, FS_AddElement
<1>7. Count(k, Len(events))' = Cardinality({i \in 1 .. n + 1 : events'[i].event.case = k})
  BY <1>1 DEF Count, PositionsOf
<1> QED
  BY <1>2, <1>3, <1>6, <1>7 DEF n, Count

\* What was appended before verifies and is in order as before.
LEMMA EarlierRecordsKept ==
  ASSUME NEW row, events \in Seq({events[i] : i \in DOMAIN events}), events' = Append(events, row),
         EvidenceVerifies, ScenarioInOrder, NEW i \in 1 .. Len(events)
  PROVE  /\ RecordVerifies(i)'
         /\ StepInOrder(i)'
<1> DEFINE n == Len(events)
<1>1. /\ n \in Nat /\ Len(events') = n + 1
      /\ \A j \in 1 .. n : events'[j] = events[j]
      /\ events'[n + 1] = row
  BY AppendedEvent
<1>2. i \in 1 .. n
  OBVIOUS
<1>3. \A c : PositionsOf(c, i - 1)' = PositionsOf(c, i - 1)
  <2>1. ASSUME NEW c PROVE PositionsOf(c, i - 1)' = PositionsOf(c, i - 1)
    <3>1. i - 1 \in 0 .. Len(events)
      BY <1>1, <1>2
    <3> QED
      BY <3>1, PositionsAppended
  <2> QED
    BY <2>1
<1> HIDE DEF n
<1>4. PICK c : events[i].event.case = c /\ events'[i] = events[i]
  BY <1>1, <1>2
<1>5. RecordVerifies(i)'
  <2>1. PositionsOf(c, i - 1) \subseteq 1 .. n
    BY <1>1, <1>2 DEF PositionsOf
  <2>2. RecordVerifies(i)
    BY DEF EvidenceVerifies
  <2>3. \/ PositionsOf(c, i - 1) = {} /\ events'[i].previous_hash = GenesisHash
        \/ \E j \in PositionsOf(c, i - 1) : /\ \A l \in PositionsOf(c, i - 1) : l <= j
                                            /\ events'[i].previous_hash = events'[j].event_hash
    <3>1. CASE PositionsOf(c, i - 1) = {} /\ events[i].previous_hash = GenesisHash
      BY <1>4, <3>1
    <3>2. CASE \E j \in PositionsOf(c, i - 1) : /\ \A l \in PositionsOf(c, i - 1) : l <= j
                                                /\ events[i].previous_hash = events[j].event_hash
      BY <1>1, <1>4, <2>1, <3>2
    <3> QED
      BY <1>4, <2>2, <3>1, <3>2 DEF RecordVerifies
  <2>4. events'[i].event_hash = Digest(events'[i].event, events'[i].previous_hash)
    BY <1>4, <2>2 DEF RecordVerifies
  <2>5. events'[i].event.case = c /\ PositionsOf(c, i - 1)' = PositionsOf(c, i - 1)
    BY <1>3, <1>4
  <2> QED
    BY <2>3, <2>4, <2>5 DEF RecordVerifies
<1>6. StepInOrder(i)'
  <2>1. StepInOrder(i)
    BY DEF ScenarioInOrder
  <2> QED
    BY <1>3, <1>4, <2>1 DEF StepInOrder
<1> QED
  BY <1>5, <1>6

\* The appended event is the next of its script, extends the last event of its
\* case, and is the one that is still to be folded.
LEMMA SerialInsert == ASSUME SerialInv, NEW t \in Workers, InsertEvent(t) PROVE SerialInv'
<1> DEFINE row == NewRow(t)
<1>1. /\ Doing(t, "apply") /\ at[t] = "insert" /\ ~Idle(t) /\ Reach(t, "beliefs")
      /\ events' = Append(events, row) /\ UNCHANGED <<present, beliefs, local, interruptions>>
  BY DEF InsertEvent, Doing, Ambient
<1>2. PICK k, s : Case(t) = k /\ Step(t) = s
  OBVIOUS
<1>3. /\ row.event.case = k /\ row.event.step = s /\ row.previous_hash = local[t].head
      /\ row.event_hash = Digest(row.event, row.previous_hash)
  BY <1>2 DEF NewRow
<1> HIDE DEF row
<1>4. events \in Seq({events[i] : i \in DOMAIN events})
  BY DEF SerialInv, EvidenceTypeOK
<1>5. PICK n \in Nat : n = Len(events)
  BY <1>4, LenProperties
<1>6. Len(events') = n + 1 /\ events'[n + 1] = row /\ \A i \in 1 .. n : events'[i] = events[i]
  BY <1>1, <1>4, <1>5, AppendedEvent
<1>7. /\ k \in present /\ local[t].prior = beliefs[k] /\ local[t].head = HeadOf(k, n)
      /\ s = NextStep(k, n) /\ (More(t) => Count(k, n) = s - 1)
  BY <1>1, <1>2, <1>5 DEF SerialInv, TaskInOrder
<1>8. EvidenceTypeOK'
  <2>1. events' \in Seq({events'[i] : i \in DOMAIN events'})
    BY <1>1, <1>4, AppendedEvent
  <2> QED
    BY <1>1, <2>1 DEF SerialInv, EvidenceTypeOK, Reach, Places
<1>9. OthersWait(t) /\ at'[t] = "beliefs" /\ Doing(t, "apply")' /\ Case(t)' = k /\ Step(t)' = s /\ todo'[t] = todo[t]
  <2>1. todo'[t] = todo[t]
    BY <1>1 DEF Reach
  <2> QED
    BY <1>1, <1>2, <1>8, <2>1, ReachTypes DEF SerialInv
<1>10. OneAtATime' /\ \A u \in Workers \ {t} : TaskInOrder(u)' /\ PlanInOrder(u)'
  BY <1>1, <1>9, OthersIdle DEF SerialInv
<1>11. PositionsOf(k, n)' = PositionsOf(k, n) /\ NextStep(k, n)' = NextStep(k, n)
  <2>1. \A m \in 0 .. Len(events) : PositionsOf(k, m)' = PositionsOf(k, m)
    BY <1>1, <1>4, PositionsAppended
  <2>2. PositionsOf(k, n)' = PositionsOf(k, n)
    BY <1>5, <2>1
  <2> QED
    BY <2>2 DEF NextStep, ListedCount
<1>12. RecordVerifies(n + 1)'
  <2>1. (n + 1) - 1 = n /\ PositionsOf(k, n) \subseteq 1 .. n
    BY DEF PositionsOf
  <2>2. \/ PositionsOf(k, n) = {} /\ row.previous_hash = GenesisHash
        \/ \E j \in PositionsOf(k, n) : (\A l \in PositionsOf(k, n) : l <= j) /\ row.previous_hash = events[j].event_hash
    BY <1>3, <1>7, HeadIsLast
  <2>3. \/ PositionsOf(k, n) = {} /\ row.previous_hash = GenesisHash
        \/ \E j \in PositionsOf(k, n) : (\A l \in PositionsOf(k, n) : l <= j) /\ row.previous_hash = events'[j].event_hash
    BY <1>6, <2>1, <2>2
  <2> QED
    BY <1>3, <1>6, <1>11, <2>1, <2>3 DEF RecordVerifies
<1>13. EvidenceVerifies'
  <2>1. \A i \in 1 .. n : RecordVerifies(i)'
    BY <1>1, <1>4, <1>5, EarlierRecordsKept DEF SerialInv
  <2> QED
    BY <1>5, <1>6, <1>12, <2>1 DEF EvidenceVerifies
<1>14. ScenarioInOrder'
  <2>1. \A i \in 1 .. n : StepInOrder(i)'
    BY <1>1, <1>4, <1>5, EarlierRecordsKept DEF SerialInv
  <2>2. StepInOrder(n + 1)'
    <3>1. (n + 1) - 1 = n
      OBVIOUS
    <3> QED
      BY <1>3, <1>6, <1>7, <1>11, <3>1 DEF StepInOrder, NextStep, ListedCount
  <2> QED
    BY <1>5, <1>6, <2>1, <2>2 DEF ScenarioInOrder
<1>15. EventsHaveCases'
  BY <1>1, <1>3, <1>5, <1>6, <1>7 DEF SerialInv, EventsHaveCases
<1>16. TaskInOrder(t)' /\ PlanInOrder(t)'
  <2>1. Count(k, Len(events))' = Count(k, Len(events)) + 1 /\ Count(k, Len(events)) \in Nat
    BY <1>1, <1>3, <1>4, PositionsAppended
  <2>2. More(t) => Count(k, Len(events))' = s
    <3>1. NextStep(k, n) \in Nat
      <4>1. k \in Cases
        BY <1>1, <1>2, TailOfTasks DEF SerialInv
      <4> QED
        BY <4>1, NextStepIsNat
    <3> QED
      BY <1>5, <1>7, <2>1, <3>1
  <2>3. More(t)' = More(t) /\ ~Doing(t, "create")'
    BY <1>9 DEF More, Doing
  <2>4. TaskInOrder(t)'
    BY <1>1, <1>7, <1>9, <2>2, <2>3 DEF TaskInOrder
  <2>5. PlanInOrder(t)'
    BY <1>9 DEF SerialInv, PlanInOrder
  <2> QED
    BY <2>4, <2>5
<1>17. LostToInterruptions'
  <2> SUFFICES ASSUME NEW c \in Cases, NEW r \in Steps
               PROVE  EventCount(c, r)' <= beliefs'[c][r] + interruptions' + (IF \E u \in Workers : Folding(u, c, r)' THEN 1 ELSE 0)
    BY DEF LostToInterruptions
  <2>1. /\ EventCount(c, r) \in Nat
        /\ EventCount(c, r)' = IF k = c /\ s = r THEN EventCount(c, r) + 1 ELSE EventCount(c, r)
    <3>1. EventCount(c, r)' = IF row.event.case = c /\ row.event.step = r THEN EventCount(c, r) + 1 ELSE EventCount(c, r)
      BY <1>1, <1>4, AppendCounts
    <3>2. EventCount(c, r) \in Nat
      BY <1>4, EventCountIsNat
    <3> QED
      BY <1>3, <3>1, <3>2
  <2>2. ~ \E u \in Workers : Folding(u, c, r)
    BY <1>1, <1>9, OthersIdle DEF SerialInv, Folding
  <2>3. EventCount(c, r) <= beliefs[c][r] + interruptions + 0
    BY <2>2 DEF SerialInv, LostToInterruptions
  <2>4. k = c /\ s = r => Folding(t, c, r)'
    BY <1>9 DEF Folding
  <2>5. beliefs'[c][r] = beliefs[c][r] /\ beliefs[c][r] \in Nat /\ interruptions' = interruptions /\ interruptions \in Nat
    BY <1>1 DEF SerialInv, EvidenceTypeOK
  <2>6. CASE k = c /\ s = r
    <3>1. \E u \in Workers : Folding(u, c, r)'
      BY <2>4, <2>6
    <3> QED
      BY <2>1, <2>3, <2>5, <2>6, <3>1
  <2>7. CASE ~(k = c /\ s = r)
    BY <2>1, <2>3, <2>5, <2>7
  <2> QED
    BY <2>6, <2>7
<1>18. interruptions' \in Nat
  BY <1>1 DEF SerialInv
<1> QED
  BY <1>8, <1>10, <1>13, <1>14, <1>15, <1>16, <1>17, <1>18 DEF SerialInv

\* Folding the event brings the beliefs up to date with the evidence.
LEMMA SerialWrite == ASSUME SerialInv, NEW t \in Workers, WriteBeliefs(t) PROVE SerialInv'
<1>1. /\ Doing(t, "apply") /\ at[t] = "beliefs" /\ ~Idle(t) /\ Proceed(t, << >>)
      /\ UNCHANGED <<present, events, interruptions>>
      /\ beliefs' = IF Case(t) \in present THEN [beliefs EXCEPT ![Case(t)] = Fold(local[t].prior, Step(t))] ELSE beliefs
  BY DEF WriteBeliefs, Doing, Ambient
<1>2. PICK k \in Cases, s \in Nat : Case(t) = k /\ Step(t) = s
  BY <1>1, TailOfTasks DEF SerialInv
<1>3. /\ local[t].prior = beliefs[k] /\ k \in present /\ beliefs[k] \in [Steps -> Nat]
      /\ More(t) => Count(k, Len(events)) = s
  BY <1>1, <1>2 DEF SerialInv, TaskInOrder, EvidenceTypeOK
<1>4. beliefs' = [beliefs EXCEPT ![k] = Fold(beliefs[k], s)]
  BY <1>1, <1>2, <1>3
<1>5. /\ Fold(beliefs[k], s) \in [Steps -> Nat]
      /\ \A r \in Steps : Fold(beliefs[k], s)[r] = IF r = s THEN beliefs[k][r] + 1 ELSE beliefs[k][r]
  BY <1>3, FoldCounts
<1>6. beliefs' \in [Cases -> [Steps -> Nat]] /\ << >> \in Seq(Tasks)
  BY <1>4, <1>5, EmptySeq DEF SerialInv, EvidenceTypeOK
<1>7. OthersWait(t)
  <2>1. EvidenceTypeOK /\ events' \in Seq({events'[i] : i \in DOMAIN events'})
    BY <1>1 DEF SerialInv, EvidenceTypeOK
  <2> QED
    BY <1>1, <1>6, <2>1, ProceedTypes
<1>8. /\ PlanInOrder(t)' /\ at'[t] = "start"
      /\ ~Idle(t)' => Len(todo[t]) > 1 /\ todo'[t][1] = todo[t][2] /\ Follows(todo[t][2], todo[t][1])
  BY <1>1, RestInOrder DEF SerialInv
<1>9. TaskInOrder(t)'
  <2> SUFFICES ASSUME Doing(t, "apply")'
               PROVE  Case(t)' = k /\ Step(t)' = NextStep(k, Len(events)) /\ Count(k, Len(events)) = Step(t)' - 1
    <3>1. \A n : NextStep(k, n)' = NextStep(k, n) /\ Count(k, n)' = Count(k, n)
      BY <1>1, SameEvents
    <3>2. ~Doing(t, "create")'
      BY <1>8 DEF Doing, Follows
    <3> QED
      BY <1>1, <1>8, <3>1, <3>2 DEF TaskInOrder
  <2>1. /\ todo'[t][1].op = "apply" /\ todo'[t][1].case = k /\ todo'[t][1].step = s + 1 /\ s + 1 <= BootLength[k]
        /\ More(t)
    BY <1>1, <1>2, <1>8 DEF Doing, Follows, More, Case, Step
  <2>2. Count(k, Len(events)) = s
    BY <1>3, <2>1
  <2>3. NextStep(k, Len(events)) = s + 1
    <3>1. Count(k, Len(events)) \in Nat /\ Count(k, Len(events)) < BootLength[k]
      BY <2>1, <2>2, EvidenceAssumption
    <3>2. NextStep(k, Len(events)) = Count(k, Len(events)) + 1
      BY <3>1, NextInScript
    <3> QED
      BY <2>2, <3>2
  <2> QED
    BY <2>1, <2>2, <2>3 DEF Case, Step
<1>10. LostToInterruptions'
  <2> SUFFICES ASSUME NEW c \in Cases, NEW r \in Steps
               PROVE  EventCount(c, r)' <= beliefs'[c][r] + interruptions' + (IF \E u \in Workers : Folding(u, c, r)' THEN 1 ELSE 0)
    BY DEF LostToInterruptions
  <2>1. EventCount(c, r)' = EventCount(c, r) /\ EventCount(c, r) \in Nat
    BY <1>1, SameEvents, EventCountIsNat DEF SerialInv, EvidenceTypeOK
  <2>2. \A u \in Workers : Folding(u, c, r) => u = t /\ c = k /\ r = s
    BY <1>1, <1>2, <1>7, OthersIdle DEF SerialInv, Folding
  <2>3. EventCount(c, r) <= beliefs[c][r] + interruptions + (IF c = k /\ r = s THEN 1 ELSE 0)
    <3>1. EventCount(c, r) <= beliefs[c][r] + interruptions + (IF \E u \in Workers : Folding(u, c, r) THEN 1 ELSE 0)
      BY DEF SerialInv, LostToInterruptions
    <3>2. beliefs[c][r] \in Nat /\ interruptions \in Nat
      BY DEF SerialInv, EvidenceTypeOK
    <3> QED
      BY <2>1, <2>2, <3>1, <3>2
  <2>4. beliefs'[c][r] = IF c = k /\ r = s THEN beliefs[c][r] + 1 ELSE beliefs[c][r]
    <3>1. CASE c = k
      BY <1>4, <1>5, <3>1 DEF SerialInv, EvidenceTypeOK
    <3>2. CASE c # k
      BY <1>4, <3>2 DEF SerialInv, EvidenceTypeOK
    <3> QED
      BY <3>1, <3>2
  <2>5. beliefs[c][r] \in Nat /\ interruptions \in Nat /\ interruptions' = interruptions
    BY <1>1 DEF SerialInv, EvidenceTypeOK
  <2> QED
    BY <2>1, <2>3, <2>4, <2>5
<1>11. present \subseteq present'
  BY <1>1
<1> QED
  BY <1>1, <1>6, <1>8, <1>9, <1>10, <1>11, SerialProceed

\* A restart costs at most the event that was being folded.
LEMMA SerialRestart == ASSUME SerialInv, Restart PROVE SerialInv'
<1>1. /\ todo' = [t \in Workers |-> IF t = Boot THEN Bootstrap ELSE << >>]
      /\ at' = [t \in Workers |-> "start"] /\ local' = [t \in Workers |-> NoLocal]
      /\ UNCHANGED <<present, events, beliefs>> /\ interruptions' = interruptions + 1
  BY DEF Restart, tables, Interrupt
<1>2. EvidenceTypeOK'
  BY <1>1, BootstrapEnsures, EmptySeq, NoLocalIsLocal DEF SerialInv, EvidenceTypeOK, Places
<1>3. OneAtATime'
  BY <1>1 DEF OneAtATime, Idle
<1>4. LostToInterruptions'
  BY <1>1, NothingMoreIsLost DEF SerialInv
<1>5. EvidenceVerifies' /\ ScenarioInOrder' /\ EventsHaveCases'
  <2>1. EvidenceVerifies' /\ ScenarioInOrder'
    BY <1>1, SameEvents DEF SerialInv
  <2> QED
    BY <1>1, <2>1 DEF SerialInv, EventsHaveCases
<1>6. ASSUME NEW t \in Workers PROVE TaskInOrder(t)' /\ PlanInOrder(t)'
  <2>1. CASE t = Boot
    <3>1. todo'[t] = Bootstrap
      BY <1>1, <2>1
    <3>2. ~Idle(t)' => todo'[t][1].op = "ensure"
      <4> SUFFICES ASSUME Bootstrap # << >> PROVE 1 \in 1 .. Len(Bootstrap)
        BY <3>1, BootstrapEnsures DEF Idle
      <4>1. Len(Bootstrap) \in Nat /\ Len(Bootstrap) # 0
        BY BootstrapEnsures, EmptySeq, LenProperties
      <4> QED
        BY <4>1, SomeLeft
    <3>3. \A i \in 2 .. Len(todo'[t]) : Follows(todo'[t][i], todo'[t][i - 1])
      <4>1. Len(Bootstrap) \in Nat
        BY BootstrapEnsures, LenProperties
      <4> QED
        BY <3>1, <4>1, BootstrapEnsures DEF Follows
    <3>4. PlanInOrder(t)'
      BY <3>3 DEF PlanInOrder, Follows
    <3> QED
      BY <3>2, <3>4 DEF TaskInOrder, Doing
  <2>2. CASE t # Boot
    <3>1. todo'[t] = << >>
      BY <1>1, <2>2
    <3> QED
      BY <3>1 DEF Idle, TaskInOrder, PlanInOrder, Doing
  <2> QED
    BY <2>1, <2>2
<1>7. interruptions' \in Nat
  BY <1>1 DEF SerialInv
<1> QED
  BY <1>2, <1>3, <1>4, <1>5, <1>6, <1>7 DEF SerialInv

\* The clock, or nothing, moves.
LEMMA SerialIdle ==
  ASSUME SerialInv, UNCHANGED <<present, events, beliefs, todo, at, local, interruptions>>
  PROVE  SerialInv'
<1>1. EvidenceTypeOK' /\ OneAtATime' /\ EventsHaveCases'
  BY DEF SerialInv, EvidenceTypeOK, OneAtATime, EventsHaveCases, Idle
<1>2. EvidenceVerifies' /\ ScenarioInOrder'
  BY SameEvents DEF SerialInv
<1>3. LostToInterruptions'
  <2>1. \A u \in Workers : \A k, s : Folding(u, k, s) => Folding(u, k, s)'
    BY DEF Folding, Doing, Idle, Case, Step
  <2> QED
    BY <2>1, NothingMoreIsLost DEF SerialInv
<1>4. \A t \in Workers : TaskInOrder(t)' /\ PlanInOrder(t)'
  <2> SUFFICES ASSUME NEW t \in Workers PROVE TaskInOrder(t)' /\ PlanInOrder(t)'
    OBVIOUS
  <2>1. PICK k : Case(t) = k
    OBVIOUS
  <2>2. \A n : NextStep(k, n)' = NextStep(k, n) /\ Count(k, n)' = Count(k, n) /\ HeadOf(k, n)' = HeadOf(k, n)
    BY SameEvents
  <2>3. Case(t)' = k /\ Step(t)' = Step(t) /\ More(t)' = More(t) /\ \A op : Doing(t, op)' = Doing(t, op)
    BY <2>1 DEF Case, Step, More, Doing, Idle
  <2>4. TaskInOrder(t) /\ PlanInOrder(t)
    BY DEF SerialInv
  <2>5. TaskInOrder(t)'
    BY <2>1, <2>2, <2>3, <2>4 DEF TaskInOrder
  <2>6. PlanInOrder(t)'
    BY <2>4 DEF PlanInOrder
  <2> QED
    BY <2>5, <2>6
<1> QED
  BY <1>1, <1>2, <1>3, <1>4 DEF SerialInv

LEMMA SerialStep == ASSUME OneThread PROVE SerialInv /\ [Next]_vars => SerialInv'
<1> SUFFICES ASSUME SerialInv, [Next]_vars PROVE SerialInv'
  OBVIOUS
<1>1. ASSUME NEW t \in Threads, Simulate(t) \/ ResetDemo(t) PROVE SerialInv'
  BY <1>1, SerialRequest
<1>2. ASSUME NEW t \in Workers, StoreCall(t) PROVE SerialInv'
  <2>1. CASE MissCase(t) \/ RefuseInsert(t)
    <3>1. /\ ~Idle(t) /\ Abandon(t) /\ UNCHANGED tables /\ UNCHANGED interruptions /\ at[t] # "beliefs"
      BY <2>1 DEF MissCase, RefuseInsert, Doing, Ambient
    <3> QED
      BY <3>1, SerialAbandon
  <2> QED
    BY <1>2, <2>1, SerialCount, SerialEnsure, SerialCreate, SerialWipe, SerialReadCase, SerialReadHead, SerialInsert,
       SerialWrite DEF StoreCall
<1>3. ASSUME NEW t \in Workers, StoreFails(t) PROVE SerialInv'
  <2>1. ~Idle(t) /\ Abandon(t) /\ UNCHANGED tables /\ interruptions' = interruptions + 1
    BY <1>3 DEF StoreFails, Interrupt, tables
  <2> QED
    BY <2>1, SerialAbandon
<1>4. CASE Restart
  BY <1>4, SerialRestart
<1>5. CASE Tick
  BY <1>5, SerialIdle DEF Tick, tables
<1>6. CASE UNCHANGED vars
  BY <1>6, SerialIdle DEF vars, tables
<1> QED
  BY <1>1, <1>2, <1>3, <1>4, <1>5, <1>6 DEF Next

\* What every reachable state satisfies while one operation runs at a time.
LEMMA SerialInvariant == ASSUME OneThread PROVE Spec => []SerialInv
  BY SerialInitial, SerialStep, PTL DEF Spec

------------------------------------------------------------------------------
(* Theorems *)

\* However simulate calls interleave, fail and are cut off by restarts, a step
\* is folded into a case no more often than the case has events for it.
THEOREM BeliefsNeverOutrun == ASSUME ~Resets PROVE Spec => []BeliefsAreBacked
<1>1. EvidenceInv => BeliefsAreBacked
  BY DEF EvidenceInv
<1> QED
  BY <1>1, EvidenceInvariant, PTL

\* Concurrent appends may fork the evidence of a case; every event still extends
\* an earlier event of its own case, or is a first one.
THEOREM EvidenceNeverDangles == ASSUME ~Resets PROVE Spec => []AncestryIntact
<1>1. EvidenceInv => AncestryIntact
  BY DEF EvidenceInv
<1> QED
  BY <1>1, EvidenceInvariant, PTL

\* As long as one operation runs at a time, whatever interrupts it, every record
\* of a case names the hash of the case's previous one.
THEOREM SerialEvidenceVerifies == ASSUME OneThread PROVE Spec => []EvidenceVerifies
<1>1. SerialInv => EvidenceVerifies
  BY DEF SerialInv
<1> QED
  BY <1>1, SerialInvariant, PTL

\* As long as one operation runs at a time, the events of a case are the steps
\* of its script in their order, across bootstraps, restarts and resets.
THEOREM ScriptStaysInOrder == ASSUME OneThread PROVE Spec => []ScenarioInOrder
<1>1. SerialInv => ScenarioInOrder
  BY DEF SerialInv
<1> QED
  BY <1>1, SerialInvariant, PTL

\* As long as one operation runs at a time, an interruption costs a case at most
\* one belief update.
THEOREM InterruptionsCostOneUpdate == ASSUME OneThread PROVE Spec => []AtMostOneUpdateLostPerInterruption
<1>1. SerialInv => AtMostOneUpdateLostPerInterruption
  <2> SUFFICES ASSUME SerialInv, \A t \in Workers : Idle(t), NEW k \in Cases, NEW s \in Steps
               PROVE  EventCount(k, s) <= beliefs[k][s] + interruptions
    BY DEF AtMostOneUpdateLostPerInterruption
  <2>1. ~ \E t \in Workers : Folding(t, k, s)
    BY IdleInOrder
  <2>2. EventCount(k, s) <= beliefs[k][s] + interruptions + 0
    BY <2>1 DEF SerialInv, LostToInterruptions
  <2>3. beliefs[k][s] \in Nat /\ interruptions \in Nat
    BY DEF SerialInv, EvidenceTypeOK
  <2> QED
    BY <2>2, <2>3
<1> QED
  BY <1>1, SerialInvariant, PTL

==============================================================================
