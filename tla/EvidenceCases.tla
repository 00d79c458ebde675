----------------------------- MODULE EvidenceCases -----------------------------
(***************************************************************************)
(* The synthetic cases of aegis/service.py over the cases and events       *)
(* tables of aegis/store.py: bootstrap, simulate and reset_demo, each a    *)
(* list of store calls made by one handler thread, with every store call   *)
(* a step of its own.  The per-case hash chain is the one verify_records   *)
(* (aegis/evidence.py) checks; SHA-256 is abstracted as an injective pair. *)
(*                                                                         *)
(* A case's beliefs are abstracted to how often each scenario step has     *)
(* been folded into them: update_beliefs multiplies one likelihood per     *)
(* step and normalises, so up to rounding and its 1e-9 floor the order of  *)
(* the steps does not matter.                                              *)
(***************************************************************************)
EXTENDS Naturals, Sequences, FiniteSets

CONSTANTS
  Cases,              \* the primary and the secondary case
  Threads,            \* handler threads of the HTTP server
  Boot,               \* the thread that constructs the service
  ScenarioLength,     \* ScenarioLength[k]: scripted events of case k
  BootLength,         \* BootLength[k]: events bootstrap applies to case k
  CaseOrder,          \* the cases in the order bootstrap visits them
  ListLimit,          \* the most events list_events is asked for
  Resets,             \* whether clients call reset_demo
  MaxOperations,      \* bound on the operations clients start
  MaxInterruptions,   \* bound on crashes and failing store calls
  MaxClock            \* bound on the clock, in the seconds timestamps have

ASSUME EvidenceAssumption ==
  /\ Boot \notin Threads
  /\ ScenarioLength \in [Cases -> Nat \ {0}]
  /\ BootLength \in [Cases -> Nat]
  /\ \A k \in Cases : BootLength[k] <= ScenarioLength[k]
  /\ CaseOrder \in Seq(Cases) /\ CaseOrder # << >>
  /\ ListLimit \in Nat /\ \A k \in Cases : BootLength[k] <= ListLimit
  /\ Resets \in BOOLEAN
  /\ MaxOperations \in Nat /\ MaxInterruptions \in Nat /\ MaxClock \in Nat

VARIABLES
  present,        \* the cases the cases table holds
  beliefs,        \* beliefs[k][s]: times step s was folded into case k
  events,         \* the events table, in sequence order
  clock,          \* utc_now, in whole seconds
  todo,           \* todo[t]: the store work thread t has left
  at,             \* at[t]: where t stands in the task at the head of todo
  local,          \* local[t]: what t has read for that task
  operations,     \* client operations started
  interruptions   \* crashes and failed store calls

tables == <<present, beliefs, events>>
vars == <<tables, clock, todo, at, local, operations, interruptions>>

Workers == Threads \cup {Boot}

\* Scenario steps are numbered from 1 in every case.
Steps == 1 .. (CHOOSE n \in {ScenarioLength[k] : k \in Cases} :
                 \A k \in Cases : ScenarioLength[k] <= n)

NoCounts == [s \in Steps |-> 0]
Fold(counts, s) == [counts EXCEPT ![s] = @ + 1]

Places == {"start", "head", "insert", "beliefs"}
------------------------------------------------------------------------------
(* The evidence chain *)

GenesisHash == << >>

Digest(event, previous) == <<event, previous>>

\* The events of case k among the first n rows of the table.
PositionsOf(k, n) == {i \in 1 .. n : events[i].event.case = k}

\* len(list_events(k, limit)): a longer case counts as long as the limit.
ListedCount(k, n) ==
  LET count == Cardinality(PositionsOf(k, n)) IN IF count < ListLimit THEN count ELSE ListLimit

\* The row of greatest sequence.
HeadOf(k, n) ==
  LET mine == PositionsOf(k, n)
      last == CHOOSE i \in mine : \A j \in mine : j <= i
  IN  IF mine = {} THEN GenesisHash ELSE events[last].event_hash

\* verify_records, at one record of its case: the record names the hash of
\* the case's previous record, and hashes to what it says.
RecordVerifies(i) ==
  LET earlier == PositionsOf(events[i].event.case, i - 1)
  IN  /\ \/ earlier = {} /\ events[i].previous_hash = GenesisHash
         \/ \E j \in earlier : /\ \A l \in earlier : l <= j
                               /\ events[i].previous_hash = events[j].event_hash
      /\ events[i].event_hash = Digest(events[i].event, events[i].previous_hash)

\* The step of its script a case goes on with after n rows of the table.
NextStep(k, n) == (ListedCount(k, n) % ScenarioLength[k]) + 1

------------------------------------------------------------------------------
(* What a thread has to do *)

TaskOf(op, k, s) == [op |-> op, case |-> k, step |-> s]

Bootstrap == [i \in 1 .. Len(CaseOrder) |-> TaskOf("ensure", CaseOrder[i], 1)]

\* create_case, then the first scripted events.
Establish(k) ==
  <<TaskOf("create", k, 1)>> \o [s \in 1 .. BootLength[k] |-> TaskOf("apply", k, s)]

NoLocal == [prior |-> NoCounts, stamp |-> 0, head |-> GenesisHash]

Init ==
  /\ present = {} /\ events = << >>
  /\ beliefs = [k \in Cases |-> NoCounts]
  /\ clock = 0
  /\ todo = [t \in Workers |-> IF t = Boot THEN Bootstrap ELSE << >>]
  /\ at = [t \in Workers |-> "start"]
  /\ local = [t \in Workers |-> NoLocal]
  /\ operations = 0 /\ interruptions = 0

Idle(t) == todo[t] = << >>
Doing(t, op) == ~Idle(t) /\ todo[t][1].op = op
Case(t) == todo[t][1].case
Step(t) == todo[t][1].step

\* The task at the head is done; more, if any, takes its place.
Proceed(t, more) ==
  /\ todo' = [todo EXCEPT ![t] = more \o Tail(@)]
  /\ at' = [at EXCEPT ![t] = "start"]
  /\ local' = [local EXCEPT ![t] = NoLocal]

Reach(t, place) == at' = [at EXCEPT ![t] = place] /\ UNCHANGED todo

\* An exception ends the operation; what was committed stays.
Abandon(t) ==
  /\ t # Boot
  /\ todo' = [todo EXCEPT ![t] = << >>]
  /\ at' = [at EXCEPT ![t] = "start"]
  /\ local' = [local EXCEPT ![t] = NoLocal]

Ambient == UNCHANGED <<clock, operations, interruptions>>

------------------------------------------------------------------------------
(* Clients *)

\* The server starts to serve once the constructor has bootstrapped.
StartOperation(t, tasks) ==
  /\ t \in Threads /\ Idle(t) /\ Idle(Boot)
  /\ operations < MaxOperations
  /\ operations' = operations + 1
  /\ todo' = [todo EXCEPT ![t] = tasks]
  /\ UNCHANGED <<tables, clock, at, local, interruptions>>

Simulate(t) == \E k \in Cases : StartOperation(t, <<TaskOf("count", k, 1)>>)

ResetDemo(t) ==
  /\ Resets
  /\ StartOperation(t, <<TaskOf("wipe", CaseOrder[1], 1)>> \o Bootstrap)

------------------------------------------------------------------------------
(* Store calls *)

\* simulate: the next scripted event is chosen by the number of events listed.
CountEvents(t) ==
  /\ Doing(t, "count")
  /\ Proceed(t, <<TaskOf("apply", Case(t), NextStep(Case(t), Len(events)))>>)
  /\ UNCHANGED tables /\ Ambient

EnsureCase(t) ==
  /\ Doing(t, "ensure")
  /\ Proceed(t, IF Case(t) \in present THEN << >> ELSE Establish(Case(t)))
  /\ UNCHANGED tables /\ Ambient

\* INSERT OR IGNORE.
CreateCase(t) ==
  /\ Doing(t, "create")
  /\ present' = present \cup {Case(t)}
  /\ beliefs' = IF Case(t) \in present THEN beliefs
                ELSE [beliefs EXCEPT ![Case(t)] = NoCounts]
  /\ Proceed(t, << >>)
  /\ UNCHANGED events /\ Ambient

\* Variant: reset leaves the evidence of the wiped cases behind.
WipeCasesOnly(t) ==
  /\ Doing(t, "wipe")
  /\ present' = {}
  /\ beliefs' = [k \in Cases |-> NoCounts]
  /\ Proceed(t, << >>)
  /\ UNCHANGED events /\ Ambient

\* store.reset: certificates, events and cases go in one transaction.
Wipe(t) ==
  /\ Doing(t, "wipe")
  /\ present' = {} /\ events' = << >>
  /\ beliefs' = [k \in Cases |-> NoCounts]
  /\ Proceed(t, << >>)
  /\ Ambient

\* Variant: the posterior is stored before the event is.
RememberBeliefs(t) ==
  /\ Doing(t, "apply") /\ at[t] = "start"
  /\ Case(t) \in present
  /\ local' = [local EXCEPT ![t].prior = Fold(beliefs[Case(t)], Step(t)), ![t].stamp = clock]
  /\ beliefs' = [beliefs EXCEPT ![Case(t)] = Fold(@, Step(t))]
  /\ Reach(t, "head")
  /\ UNCHANGED <<present, events>> /\ Ambient

\* get_case and the construction of the event with its timestamp.
ReadCase(t) ==
  /\ Doing(t, "apply") /\ at[t] = "start"
  /\ Case(t) \in present
  /\ local' = [local EXCEPT ![t].prior = beliefs[Case(t)], ![t].stamp = clock]
  /\ Reach(t, "head")
  /\ UNCHANGED tables /\ Ambient

\* "case bootstrap failed"
MissCase(t) ==
  /\ Doing(t, "apply") /\ at[t] = "start"
  /\ Case(t) \notin present
  /\ Abandon(t)
  /\ UNCHANGED tables /\ Ambient

\* Variant: the head of the whole table is read, not the head of the case.
ReadTableHead(t) ==
  /\ Doing(t, "apply") /\ at[t] = "head"
  /\ local' = [local EXCEPT ![t].head =
                 IF events = << >> THEN GenesisHash ELSE events[Len(events)].event_hash]
  /\ Reach(t, "insert")
  /\ UNCHANGED tables /\ Ambient

\* append_event reads the chain head before its transaction begins.
ReadHead(t) ==
  /\ Doing(t, "apply") /\ at[t] = "head"
  /\ local' = [local EXCEPT ![t].head = HeadOf(Case(t), Len(events))]
  /\ Reach(t, "insert")
  /\ UNCHANGED tables /\ Ambient

NewRow(t) ==
  LET event == [case |-> Case(t), step |-> Step(t), timestamp |-> local[t].stamp]
  IN  [event |-> event, previous_hash |-> local[t].head,
       event_hash |-> Digest(event, local[t].head)]

\* The foreign key on cases and the UNIQUE event_hash.
Insertable(t) ==
  /\ Case(t) \in present
  /\ \A i \in 1 .. Len(events) : events[i].event_hash # NewRow(t).event_hash

InsertEvent(t) ==
  /\ Doing(t, "apply") /\ at[t] = "insert"
  /\ Insertable(t)
  /\ events' = Append(events, NewRow(t))
  /\ Reach(t, "beliefs")
  /\ UNCHANGED <<present, beliefs, local>> /\ Ambient

\* sqlite3.IntegrityError
RefuseInsert(t) ==
  /\ Doing(t, "apply") /\ at[t] = "insert"
  /\ ~Insertable(t)
  /\ Abandon(t)
  /\ UNCHANGED tables /\ Ambient

\* Variant: the posterior is computed from the uniform prior.
WriteBeliefsAfresh(t) ==
  /\ Doing(t, "apply") /\ at[t] = "beliefs"
  /\ beliefs' = IF Case(t) \in present
                THEN [beliefs EXCEPT ![Case(t)] = Fold(NoCounts, Step(t))]
                ELSE beliefs
  /\ Proceed(t, << >>)
  /\ UNCHANGED <<present, events>> /\ Ambient

\* update_case_beliefs: the posterior is computed from the case as it was
\* read before the event was appended. An UPDATE of no row is no error.
WriteBeliefs(t) ==
  /\ Doing(t, "apply") /\ at[t] = "beliefs"
  /\ beliefs' = IF Case(t) \in present
                THEN [beliefs EXCEPT ![Case(t)] = Fold(local[t].prior, Step(t))]
                ELSE beliefs
  /\ Proceed(t, << >>)
  /\ UNCHANGED <<present, events>> /\ Ambient

StoreCall(t) ==
  \/ CountEvents(t) \/ EnsureCase(t) \/ CreateCase(t) \/ Wipe(t)
  \/ ReadCase(t) \/ MissCase(t) \/ ReadHead(t)
  \/ InsertEvent(t) \/ RefuseInsert(t) \/ WriteBeliefs(t)

------------------------------------------------------------------------------
(* Failures and time *)

Interrupt ==
  /\ interruptions < MaxInterruptions
  /\ interruptions' = interruptions + 1

\* A store call raises: locked out for ten seconds, disk full.
StoreFails(t) ==
  /\ ~Idle(t) /\ Interrupt /\ Abandon(t)
  /\ UNCHANGED <<tables, clock, operations>>

\* The process ends and is started again; the constructor bootstraps.
Restart ==
  /\ Interrupt
  /\ todo' = [t \in Workers |-> IF t = Boot THEN Bootstrap ELSE << >>]
  /\ at' = [t \in Workers |-> "start"]
  /\ local' = [t \in Workers |-> NoLocal]
  /\ UNCHANGED <<tables, clock, operations>>

Tick ==
  /\ clock < MaxClock
  /\ clock' = clock + 1
  /\ UNCHANGED <<tables, todo, at, local, operations, interruptions>>

Next ==
  \/ \E t \in Threads : Simulate(t) \/ ResetDemo(t)
  \/ \E t \in Workers : StoreCall(t) \/ StoreFails(t)
  \/ Restart
  \/ Tick

Spec == Init /\ [][Next]_vars

------------------------------------------------------------------------------
(* Correctness *)

EventCount(k, s) ==
  Cardinality({i \in 1 .. Len(events) : events[i].event.case = k /\ events[i].event.step = s})

\* docs/ARCHITECTURE.md: evidence storage appends each case event to a
\* per-case cryptographic chain. Every case verifies (verify_evidence).
EvidenceVerifies == \A i \in 1 .. Len(events) : RecordVerifies(i)

\* An event is the step of its script that the number of events before it
\* calls for; past the limit of list_events one step repeats for ever.
StepInOrder(i) ==
  LET k == events[i].event.case
      earlier == Cardinality(PositionsOf(k, i - 1))
      listed == IF earlier < ListLimit THEN earlier ELSE ListLimit
  IN  events[i].event.step = (listed % ScenarioLength[k]) + 1

\* Whatever was interrupted, the n-th event of a case is the n-th step of its
\* script, repeated from the start: the count in the table drives simulate.
ScenarioInOrder == \A i \in 1 .. Len(events) : StepInOrder(i)

\* No belief without evidence: a step is folded into a case no more often
\* than the case has events for it.
BeliefsAreBacked == \A k \in Cases, s \in Steps : beliefs[k][s] <= EventCount(k, s)

\* Whatever an interruption cuts short, it costs at most one belief update:
\* at rest, the events not folded are no more than the interruptions.
AtMostOneUpdateLostPerInterruption ==
  (\A t \in Workers : Idle(t)) =>
    \A k \in Cases, s \in Steps : EventCount(k, s) <= beliefs[k][s] + interruptions

\* Under concurrent appends every event still extends an earlier event of its
\* own case, or is a first one: evidence may fork, it never dangles.
AncestryIntact ==
  \A i \in 1 .. Len(events) :
    \/ events[i].previous_hash = GenesisHash
    \/ \E j \in 1 .. (i - 1) :
         /\ events[j].event_hash = events[i].previous_hash
         /\ events[j].event.case = events[i].event.case

\* docs/LEARNING_GUIDE.md: the Bayesian update revises the hypotheses after
\* each event. At rest and uninterrupted, every event has been folded.
EveryEventIsFolded ==
  (\A t \in Workers : Idle(t)) /\ interruptions = 0 =>
    \A k \in Cases, s \in Steps : beliefs[k][s] = EventCount(k, s)

==============================================================================
