# AEGIS: TLA+ models, checks and proofs

AEGIS is a local cyber-deception research console: a Python control plane
(`aegis/`) that serves a web console over loopback HTTP, keeps its state in
SQLite, and seals every state-changing command in a keyed, hash-linked journal.
This directory holds the TLA+ models of that code, the TLC configurations that
check them on small instances, and the theorems TLAPS proves about them.
`PROJECT.json` maps every definition to the lines it models.

## 1. The system

`ThreadingHTTPServer` runs one thread per request. All threads share one
`AegisService`, its in-memory objects, and one SQLite file through a connection
per store call. A second process (resident Windows service, desktop host,
development server) may be opened on the same installation root.

| Component (source) | State | Operations | What is hard | What makes it correct |
|---|---|---|---|---|
| Operator journal (`audit.py`) | key file, key in memory, `operator_audit` table, write lock | open (load or create key), append, verify | creation race of two processes, crash between creating and writing the key file, append transactions of several processes | the chain verifies under every key held; a key that sealed rows is never replaced |
| Command gate (`server.py`) | per-request locals, `_audit_completion` | `do_POST`, `deny_post`, `record_post_event`, `send_json` | decision, receipt, execution and outcome are separate steps, each may fail or be cut short | one denial, or ACCEPTED and at most one outcome per command; receipts, effects and answers agree |
| Role contract (`access.py`) | none (constants) | `contract_for`, `authorize` | one table decides every route | nothing runs without its scope; a license can be repaired under a broken license |
| Licensing (`licensing.py`) | cached status | `reload`, `is_entitled` | cached status against a moving clock and a replaced file | entitlements follow the envelope |
| Evidence cases (`service.py`, `store.py`, `evidence.py`, `belief.py`) | `cases`, `events` tables | `bootstrap`, `simulate`, `reset_demo`, `verify_evidence` | several store calls per operation without a common transaction | chains verify; scripts stay in order; beliefs match evidence |
| Telemetry (`telemetry.py`) | loop thread, stop event, lock, `telemetry_events`, `collector_runs` | `start`, `stop`, `collect_once` | loop thread against `stop` and manual collection; a raising store | one loop at a time; a stop ends it; no row is claimed by two runs |
| Evidence gateway (`sensor_gateway.py`) | `telemetry_events`, `gateway_imports` | preview, import | one transaction per observation; overlapping imports; retries | an import record describes what is stored; no raw address is |
| Governance registry (`registry.py`) | key file, `artifact_registry`, `promotion_ledger`, identities cached in each process | open, register, bootstrap, evaluate, append, verify | no lock over any of it; a lost key | one key of record; the ledger verifies; the first decision is the bootstrap's |
| Safety gate, hardware (`safety.py`, `hardware.py`, `models.py`) | `certificates` | evaluate, dry run | two programs that must agree on one digest | what the gateway accepts is within every rule of the gate |
| Lifecycle (`runtime.py`, `desktop.py`, `windows_service.py`) | server loop, threads, service state | construct, run, stop request, close | a stop before the loop, in the middle of a failure, or twice | a stop ends what it stops, and in order |
| Experiment caches (`service.py`) | five dictionaries by seed | look up, run, store, read, drop | no lock between look-up and read | only a rerun of the same seed can make a request fail |
| TRACE linker, graph (`trace.py`, `trace_graph_research.py`) | none | link two sessions, cluster a graph, rate clusters | order of merges, bounds met exactly, caps and penalties | cohorts are supported as a whole; more agreement never weakens a link |
| Case similarity (`investigation.py`, `service.py`) | none | `compare_cases`, `campaigns` | a fixed narrative over changing cases | a campaign rests on evidence of both cases |
| Console (`web/app.js`) | selection, preview, disabled buttons | fetch and render | answers out of order, a preview stale at commit | what is committed was previewed; what is selected is shown |
| Belief update, learning, steering, classification, TRACE statistics | - | floating-point inference and experiments | - | - |
| Agent, configuration, license authority tool, packaging, CI | host facts, settings, files | input and output only | - | - |

Interactions. The gate consults the contract, the license manager and the
journal for every POST, then calls one method of the service; the service calls
the store, the telemetry runtime, the gateway, the registry or the safety gate.
A host (service or desktop) owns the control plane, which starts and stops the
telemetry loop around its server loop. The console sends requests and applies
answers. Below the gate the shared state is SQLite, the license status, the
telemetry runtime's fields, the identities of the governance and the experiment
caches. `hazards` in `PROJECT.json` lists what can go wrong in this code, line
by line, with the properties that watch it.

## 2. Modules

```
Installation                 processes, commands, which process serves which
 |- AuditJournal             key life cycle, append transaction, hash chain
 |    '- AuditJournalProofs
 |- Licensing                envelope, clock, cached status
 '- InstallKey               registry.key and node.key
      '- GovernanceRegistry  registration, bootstrap, decisions
           '- GovernanceRegistryProofs
AccessControl                roles, routes, scopes, entitlements
 '- CommandGate              = AuditJournal + Licensing + AccessControl + do_POST
      |- CommandGateProofs   (extends AuditJournalProofs too)
      '- MCCommandGate       instances
CommandReceipts              the receipt contract CommandGate implements
EvidenceCases                bootstrap, simulate, reset_demo over the store
 |- EvidenceCasesProofs
 '- MCEvidenceCases          instances
TelemetryRuntime             collection under its lock, the resident loop
 '- ControlPlaneLifecycle    run and request_stop around the server loop
      |- ServiceHost         the Windows service
      '- DesktopHost         the desktop window
EvidenceGateway              normalization, preview, import
SafetyKernel                 certificates and dry runs
ExperimentCaches             look up, run, store, read
GraphClustering              union-find, the guard, the metrics
TraceLinker                  scores and strengths of session links
CaseSimilarity               compare_cases and campaigns
ConsoleUser                  a user who waits for answers, or does not
 |- GatewayConsole           the evidence gateway page
 '- CaseConsole              the case pages

MCControlPlane = ServiceHost + DesktopHost + the telemetry runtime alone
MCHandlers     = GovernanceRegistry + EvidenceGateway + ExperimentCaches + SafetyKernel
MCAnalysis     = GraphClustering + TraceLinker + CaseSimilarity
MCConsole      = GatewayConsole + CaseConsole

ControlPlaneProofs   proofs about TelemetryRuntime, ServiceHost, DesktopHost
HandlerProofs        proofs about EvidenceGateway, ExperimentCaches, SafetyKernel
AnalysisProofs       proofs about GraphClustering, TraceLinker, CaseSimilarity
ConsoleProofs        proofs about GatewayConsole, CaseConsole
```

The four `MC` modules at the end are sums: their parts share no variable that both change (the two
hosts share the control plane, of which one of them is the owner), the first state
says which part a behaviour is of, and the others stand still. One run then
covers what would be several, and its state count is the sum of theirs. The
properties are stated and proved on the parts.

### AuditJournal and CommandGate

| Variable | Code |
|---|---|
| `keyFile` | `audit.key`: absent, created but without a full key, or a key |
| `stage[p]` | how far `_load_or_create_key` has come in process `p` |
| `key[p]` | `AuditJournal._key` |
| `rows` | the `operator_audit` table |
| `writer`, `headRead` | the holder of `BEGIN IMMEDIATE` and the head it selected |
| `envelope`, `now`, `license[p]` | `license.json`, the clock, `LicenseManager._status` |
| `role[p]` | the role of the bound `OperatorSession` |
| `request[c]`, `pc[c]` | what the client sent, where `do_POST` stands |
| `receipt[c]` | the decision and status given to `record_post_event` |
| `response[c]`, `executed` | the status sent, the commands whose route was called |

A handler is cut into the steps at which it touches shared state or can fail:
`Receive` (with the early 503), `CheckScope` (host, session, role),
`CheckEntitlement`, `ReadBody`, `StartSeal` (lock and head), `FinishSeal`
(insert, commit, then the continuation of `do_POST`), `FailSeal`,
`ExecuteRoute`, `RouteRaises`, `RouteNotFound`. `EndProcess` ends a process at
any of them: its handler threads are daemons and die, SQLite rolls back.
`StartProcess` and the steps of `OpenStep` are the constructor.

Three details carry the correctness of the journal: the write lock is taken before the
head is read; the key is created with `O_EXCL` after the rows were counted; an
opening that fails leaves the process running without a key, answering 503.

Abstractions: SHA-256 and HMAC are injective pairs. A route is its possible
statuses, plus the possibility of an uncaught exception. Every envelope that
`_verify` refuses is one form, `malformed`; any key file that is not 32 bytes
long is `empty`. `list_events`, `summary` and the static files only read.
The GET routes take no receipt and are not in the gate; those of the experiments
may run one into its cache (`ExperimentCaches`), and the governance status may
bootstrap the registry (`GovernanceRegistry`). `journal.verify` is the operator
`Verifies`. A Host or Origin that `urlparse` refuses and a session token that is
not ASCII raise out of the checks (`RefuseOrigin`): the thread ends with neither a
receipt nor an answer. A request target `urlparse` refuses ends its thread
before the first check and is left out.

`CommandReceipts` is the abstract specification of the boundary: a journal of
decisions and the set of called commands. A command is denied for good, or
accepted, called at most once and concluded at most once, COMPLETED only if
called. `CommandGate` implements it under the mapping that forgets keys, hashes
and locks.

### EvidenceCases

Each operation is the list of store calls the code makes (`todo[t]`), and each
store call is an action: reading the case, reading the chain head, inserting the
event and updating the beliefs are four steps of `_apply_scenario_event`, as
they are four connections (head and insert share one, but the read happens
before SQLite's implicit transaction starts). `Restart` ends the process at any
step and runs the constructor's `bootstrap` again; `StoreFails` makes any store
call of an operation raise. Timestamps are whole seconds of `clock`, since
`UNIQUE(event_hash)` can refuse two equal events of one second. The chain and
the script of a case are followed on the one table of events, position by
position (`PositionsOf(k, n)`: the rows of case `k` among the first `n`), as the
queries of the store order it by `sequence`.

Abstractions: a belief vector is the number of times each step was folded into
it. `update_beliefs` multiplies by one likelihood per step and normalises, so
this determines the vector up to rounding and the 1e-9 floor. Risk score, stage
and summary text are left out.

### TelemetryRuntime, ControlPlaneLifecycle, ServiceHost, DesktopHost

`collect_once` is `Begin` (the non-blocking acquire), one `Collect` per
collector, one `AppendTelemetry` per observation, `SaveRun`; `StoreFails` raises
out of any store call. What raises ends a loop thread for good, and a handler's
request. `Wait` is the loop's timed wait, `StartLoop` and `SetStop` are `start`
and `stop`, whose join of five seconds may time out (`stopEvent` is set while a
collection goes on, which then still appends and saves). `start` tests and
creates the thread without a lock; it is one step here because each host has one
caller of it, in sequence. `events` holds digests: a second append of one is ignored
and counts for nobody.

The control plane adds the thread of `run()`, the two flags of
`socketserver.BaseServer` as `shutdown()` and `serve_forever()` use them, and
the threads in `request_stop`. The constructor may raise (`ConstructFails`), and
`serve_forever` may return or raise (`raising`): then `run()` still stops the services and closes
the socket, and ends as "raised". A handler thread is a daemon born of an accepted request and may call `collect_once`
after the loop has ended. `host` says whether the telemetry runtime is
alone, in the service or on the desktop. `ServiceHost` reports to the service
control manager, whose control handler runs beside the service's main thread;
the main thread reports STOPPED once, in its `finally` (`mainDone`), and any
report may fail, which ends the thread that makes it (`managerFailed`).
`DesktopHost` attaches to a healthy service or embeds a control plane, which the
window's `closed` event and the `finally` of `main` both stop; a `start()` that
finds the failure of `run()` raises it and stops nothing (`Probe`). A probe that
raises counts as one that found no healthy server.

### InstallKey and GovernanceRegistry

`InstallKey` is the other two keys' life cycle: unlike `audit.key` they are created
whenever they are missing, whatever the tables hold. A governance request
registers the built-in artifacts in their order (`LookUp`, `InsertArtifact`,
`Settle`), appends the bootstrap decision to an empty ledger (`CheckLedger`),
and then its own (`Decide`, `AppendDecision`, `ReadBack`); each connection is a
step. `ready[p]` is the cached identities, `Start`, `EndProcess` and
`DeleteKeyFile` are the world around.

### EvidenceGateway

A record is what the conversions tell apart: whether the event is supported, the
time parses, which of an address, a token or a number each field holds. One
field stands for those converted alike (`name` for tokens, `link` for what
becomes a local reference, `size` for numbers, `content` for what is dropped).
`Disposition` and `Accepted` are the disposition of a record and of a batch; the
actions are the preview and the import, observation by observation, which may
break off anywhere (`Raises`, `BreakOff`). `inserted[t]` is the set of rows an
import has put into the table, of which the code keeps the number: what `INSERT
OR IGNORE` ignored is not among them, so that of two imports only one can count
a row.

### SafetyKernel

An action is one value for every field the eight rules read, a digest is what
was serialized, by the gate's serializer or by the gateway's. Between the two a
certificate may be altered in any one field. The dry run has four outcomes.

### ExperimentCaches

One module for the five caches, which are alike: `in cache`, run, store, read
again, and the `pop` of a rerun, as separate steps of concurrent handlers.

### GraphClustering, TraceLinker, CaseSimilarity

Graph: `Init` chooses the edge of every pair and a guard (or none, for the
ordinary components); each step takes the strongest edge left, ties by name, and
merges, refuses on record, or passes it. Probabilities are percentages. The
threshold of the pair model (`PairThreshold`) is that of the ordinary components
and of the injected bridges; the guard has one of its own (`guard.threshold`),
chosen on the validation data. The averages of the metrics are counted in parts
of `Unit`, 60 in the run, which every size a group has there divides, so nothing
is rounded. Linker: each step changes the similarity of one pair of sessions in
one signal family;
score, caps and strength are exact integers where the code has floats rounded to
four digits. `Cap` gives each link its one cap, the rules taken in the code's
order. Similarity: each step appends an observation to one of the two cases, along the
service's scripts or arbitrary; `compare_cases` and `campaigns` are operators,
and the table of the longest common subsequence is a recursive function over its
cells. `NarrativeAssumption` says of the two scripts what `SCENARIO_EVENTS` and
`SECONDARY_SCENARIO_EVENTS` (`service.py`) have: scans, privileged-route probes
and one client fingerprint, in the primary case's first three events and in what
bootstrap applies to the secondary case.

### GatewayConsole, CaseConsole

Every request is a record in flight that is answered, or fails, at a moment of
its own, in any order; the answer is applied to the page as it is then, as the
closures of `app.js` do. On the gateway page `patient` is whether the user waits
for one answer before the next act. On the case pages nobody waits: two
simulations, a reset, an export and any number of selections overlap, each button
disabled while what it began goes on. Being served and being answered are two steps,
so that an answer can be older than the server's state, and `FailCase` is every
`catch`: a request that fails before or after it was served ends its act and leaves
the page as it was. `wanted`, `course` and `steady` are history: which case the
last act that turns the page is for, whether it ran alone and to its end, and
whether anything turned the page under the export.

## 3. Runs

All instances use finitely many commands or operations, and threads that have
finished do nothing more, so every configuration switches deadlock checking off.

| Run | Instance | Shows |
|---|---|---|
| `gate` | one process, two commands, twelve requests (each way through `do_POST`, those that raise in the checks included), two roles, a malformed and a short license, clock 0..1 | `ReceiptDiscipline`, `JournalTellsWhatRan`, `ResponseIsTruthful`, `ReloadNeverLockedOut`, `ExecutionIsAuthorized` |
| `gate_shared` | two processes, one command each, two keys, fair handlers | `JournalInv`, `JournalVerifies`, `NoSilentRekey`, `ImplementsReceiptContract`, `HandlersFinish` |
| `gate_outcome` | one process, two commands, plain requests | finding 1 |
| `gate_expiry` | one envelope that expires at time 1 | finding 2 |
| `evidence_serial` | one client thread, two cases, four operations, two interruptions, resets | `EvidenceVerifies`, `ScenarioInOrder`, `AtMostOneUpdateLostPerInterruption` |
| `evidence_concurrent` | two client threads, two cases, four operations, one interruption | `BeliefsAreBacked`, `AncestryIntact` |
| `evidence_fork` | two client threads, one case, no interruption | finding 3 |
| `evidence_lost_update` | two client threads, one case, no interruption | finding 4 |
| `control_plane` | two successive loop threads, one handler thread, the two-channel event log, two stopping threads, a constructor and a server loop that may raise, reports that may fail | `NoRowClaimedTwice`, `OneResidentLoop`, `StopEndsLoop`; in the service `ReportsInOrder`, `StopCompletes`, `QuietAfterReturn`; on the desktop `CloseEnds` |
| `handlers` | governance: two processes with a request each, two keys that get lost, three artifacts, three decisions; gateway: three threads, overlapping and odd batches; caches: three handlers, two seeds; safety: sizes below, at and above each ceiling, two certificates | `OneKeyOfRecord`, `ReadyProcessVerifies`, `BootstrapDecidesFirst`; `ImportIsBacked`, `RawAddressIsNeverKept`; `FailuresAreOvertaken`; `AcceptedIsWithinEveryRule`, `GateAndGatewayAgree` |
| `analysis` | every graph of four sessions with five kinds of edge and a bridge, two guards and none; one pair of sessions over six families, a report of two links; two cases on the scripts (up to seven events) and with any four observations | `CohortsAreSupported`, `DecisionsExplainClusters`, `MetricsAgree`; `AgreementNeverWeakens`, `LeadingIsStrongest`; `SequenceTableIsRight`, `CampaignRestsOnEvidence` |
| `console` | two connectors, two record lists and an empty one, five requests, users who wait and who do not; two cases of up to two events, three requests under way at a time and any number in all, each of which may fail, a user who does not wait | `NoButtonIsStuck`, `CommitIsPreviewed`, `SelectedIsShown` |

Why the bounds suffice. Gate: the interesting conflicts are between two writers
of one table and two creators of one key file, so two commands and two processes
exhibit them; each command writes up to two receipts, so chains of length four
arise, with denials and outcomes in every order. Processes restart without
limit. Clock 0..1 with an envelope `[0,1)` and one `[1,2)` reaches every license
state. Evidence: four operations on a two-step script pass the end of the script
twice; `ListLimit = 3` in `evidence_serial` stands for the 10000 of the code and
is exceeded within the four operations; two interruptions can hit one
operation's recovery. Control plane: a second loop is what a premature `start`
would create, and it needs a second loop thread and no third; one handler
against one loop contends for the lock; two channels let one fail while the
other delivers. A host starts the loop once, so that which of the two loop
threads it is makes no difference (`OneLoop`). Handlers: a lost key can be
recreated by the other process while one still holds the first; three decisions
let an evaluation come between two bootstraps; three importing threads contend
for two observations that three batches share; three handlers are a reader, one
that runs the experiment and one that drops its seed; in the gateway
the ceilings are 1, so sizes 0, 1 and 2 are below, at and above. Analysis: four
sessions are two campaigns of two, the least in which a bridge joins two cohorts
and the cap of three bites; edge strengths lie below the threshold, at it and
so within the guard's margin, above it, and at the seed level with and without diverse evidence.
Linker similarities include the caps' and weights' ends and both sides of the
thresholds; seven events run past the end of both scripts. Console: five requests
are a sample and a preview of each of two connectors and a commit, in every order of
answers. On the case page three requests under way are two acts that overtake
each other and an export between them; two events tell a page that is up to date
from one that is not, also of the other case. What tells requests apart is
compared and nothing else, so they are symmetric.

Bounds and their names: `MaxTime`, `MaxOperations`, `MaxInterruptions`,
`MaxClock`, `ListLimit`, `MaxRecords`, `MaxRows`, `MaxScripted`, `MaxAny`,
`MaxRequests`, `MaxEvents`, `RequestIds`, and the sizes of the constant
sets.

Fairness. In `gate_shared` (`FairSpec`) weak fairness of `HandlerStep(c)` for
each command: the operating system schedules started threads; a client either
sends the announced body or closes the connection, which ends the read; and a
wait for the write lock ends because SQLite gives up after ten seconds
(`FailSeal` from `sealing`). A thread that may always fail to get the lock is
allowed to. In `control_plane` weak fairness of every thread that can run: a
loop thread's waiting and collecting (`wevtutil` is given 12 seconds, the wait
is timed), a handler that has begun a collection, the thread of `run()`, those
in `request_stop`, the control handler, and the desktop's threads. Nothing makes
a client call, `start` or `stop` be called, a control arrive, a process start or
end, a report fail, or a user close the window. `StopEndsLoop` excepts a `start` after the
stop, which clears the event, and the end of the desktop process, whose daemon
threads end with it. No other run assumes any fairness.

Type invariants are in no run: those of the gate, the telemetry runtime and the
governance registry are theorems, TLC having checked them beforehand, and part
of the inductive invariants. The same goes for `GateInv`,
`CollectionIsExclusive`, `FailuresAreReported`, `DecisionsAreConservative`,
`HeldKeyIsOnDisk` of the registry, `SomePreviewCameFirst` and `PreviewIsOfPage`,
which are proved for all values of the constants.

Each property of a passing run is paired, in `PROJECT.json`, with a plausible
bug (the definitions commented "Variant:") under which TLC refutes it.

## 4. Findings

With a run each:

1. `CalledRouteIsConcluded` (`server.py:190`). An exception a route raises and
   `do_POST` does not catch ends the thread: the command stays ACCEPTED with
   neither outcome nor answer, where `docs/ACCESS_AUDIT_GUIDE.md:34` promises a
   `COMPLETED` or `FAILED` receipt, or a 500.
2. `EntitlementIsCurrent` (`licensing.py:291`). Entitlements come from the
   status of the last reload; a license that expires in a running process keeps
   granting them. The guide says "Current license" (line 30) and that an expired
   one grants `local_audit` only (line 92).
3. `EvidenceVerifies` with two threads (`store.py:247`). The head is read before
   the transaction begins, so two threads can append two successors of one
   event, and the case does not verify until the demo is reset. Run
   `evidence_concurrent` shows what still holds: the evidence forks but no event
   dangles.
4. `EveryEventIsFolded` (`service.py:804`). The posterior is computed from the
   beliefs read before the append; of two concurrent updates one is lost.

Met while modelling, in the models as the code has them, without a run of their
own; each is why a property above is stated as it is:

- `telemetry.py:418`: a store exception ends the resident loop for the life of
  the process (until the next `start`).
- `sensor_gateway.py:211`: a domain name passes the token filter of a free-text
  field, so `RawAddressIsNeverKept` is about addresses.
- `sensor_gateway.py:232`: an infinite number raises `OverflowError` and fails
  the whole batch, not its record.
- `registry.py:373`: the decision answered may be one that another request
  appended in between, never an older one.
- `hardware.py:15` and `safety.py:46`: the serializers differ for text beyond
  ASCII, so a permitted action with such text is refused;
  `GateAndGatewayAgree` assumes ASCII labels.
- `service.py:521`: a rerun between look-up and read makes a reader's request
  fail with a `KeyError`; `FailuresAreOvertaken` says nothing else does.
- `service.py:331`: the campaign's narrative names things the cases do not show
  right after bootstrap or a reset; `CampaignRestsOnEvidence` begins with the
  primary case's third event.
- `desktop.py`: if `run()` raises before the server loop, `shutdown()` waits for
  an event nobody sets; `CloseEnds` excepts it. If the serve loop raises while
  `start()` waits for the server, `start()` raises too (lines 89-90) and nobody
  calls `stop`; `EndedIsStopped` says that `run()` has stopped everything by itself.
- `windows_service.py:179`: the handler of a control given to a service that
  then ends of itself reports STOP_PENDING after STOPPED, and STOPPED is reported
  once, so the manager sees a service that is stopping for ever.
  `ReportsInOrder` allows this one report and no other. A report of STOP_PENDING
  that fails (line 178) raises before the stopping thread is started, so the stop
  is lost; `StopCompletes` excepts a manager that takes no report.
- `telemetry.py:390`: the join of `stop` gives up after five seconds, and the
  collection it waited for still appends and saves after `run()` has returned;
  `QuietAfterReturn` allows that collection to end and no other to begin.
- `app.js:1185`: to a user who does not wait, a preview of other records may
  enable the commit. `CommitIsPreviewed` is about users who wait; of the others
  `SomePreviewCameFirst` is all that holds.
- `app.js:222`, `app.js:1271`, `app.js:1334`: of overlapping acts the last answer and
  not the last click decides what is shown; a simulation that was served and whose
  dashboard fails leaves the stale page; and a bundle may be saved under another
  case's name. `selectCase` swallows its error (line 225), so a simulation or a
  reset whose last selection fails still announces success over the stale page.
  `SelectedIsShown` is about an act that ran alone and to its end, whatever came
  before, and an export during which nothing turned the page.
- `trace_graph_research.py:212`: `guarded_components` passes over an edge whose
  sessions are one group already with no record, an injected bridge too, where
  `docs/ARCHITECTURE.md:255` says "Every adversarial bridge receives an auditable
  decision record." and `docs/GRAPH_RESEARCH_GUIDE.md:72` "Every injected stress
  edge receives an explicit `MERGE` or `REJECT` record". The function does not keep that
  promise for every graph: with sessions 1, 2 and 3 merged over stronger edges, a
  bridge between 1 and 3 goes unrecorded. The experiment itself, run
  with the seeds 1 to 1099, recorded all seven bridges every time, and would show a
  missing record in its own `bridge_rejections_auditable` (line 582).
  `DecisionsExplainClusters` asks what the code guarantees: a bridge whose
  sessions are not in one cluster has its refusal on record.
- `service.py:278`: a case page and its bundle hold the oldest 100 events.

## 5. Proofs

Checked by TLAPS for all values of the constants, from the named assumptions of
the modules (which TLC evaluates in the runs): `HomeAssumption`,
`KeysAssumption`, `LossAssumption`, `CommandsAssumption`, `LicensingAssumption`,
`GateAssumption`; `ThreadsAssumption`, `CollectorsAssumption`;
`ScriptAssumption`, `ArtifactsAssumption`; `BatchAssumption`;
`CeilingsAssumption`; `SeedAssumption`; `ConsoleAssumption`, `CaseAssumption`;
`EvidenceAssumption`; `GraphAssumption`, `LinkerAssumption`,
`SimilarityAssumption`, `NarrativeAssumption`. Those that say more than of what
kind a constant is follow the code: bootstrap applies no more events than
`list_events` returns and ensures at least one case (`EvidenceAssumption`); the
association threshold of a guard is at most 0.40, its seed threshold at least
0.62 and its least support at least 0.35 (`_select_graph_guard`), of which
`GraphAssumption` keeps that a bridge passes every threshold and a seed its
margin. Of the unit the averages are counted in it asks only that it is positive:
the theorem holds of rounded shares too.

| Theorem | Says |
|---|---|
| `JournalStep` | every step of the journal preserves `JournalInv` |
| `HeldKeyVerifies` | under `JournalInv` a key in memory verifies the whole table |
| `JournalInvariant` | `Spec => []JournalInv` |
| `JournalAlwaysVerifies`, `NeverRekeyed` | `JournalVerifies`, `NoSilentRekey` |
| `TypeCorrect`, `GateInvariant` | `Spec => []TypeOK`, `Spec => []GateInv` |
| `ReceiptsAreDisciplined`, `JournalIsTruthful`, `AnswersAreTruthful` | the three invariants on receipts, effects and answers |
| `OnlyAuthorizedExecution` | `ExecutionIsAuthorized`, an action property |
| `ReloadIsNeverLockedOut` | `ReloadNeverLockedOut` |
| `ContractIsImplemented` | `Spec => ImplementsReceiptContract`: the gate refines `CommandReceipts` |
| `SerialEvidenceVerifies`, `ScriptStaysInOrder`, `InterruptionsCostOneUpdate` | `EvidenceVerifies`, `ScenarioInOrder`, `AtMostOneUpdateLostPerInterruption`, while one operation runs at a time, resets included |
| `BeliefsNeverOutrun`, `EvidenceNeverDangles` | `BeliefsAreBacked`, `AncestryIntact`, while nobody resets the demo, for any number of threads |
| `TelemetryIsTyped`, `TelemetryIsExclusive` | the runtime's types, and that one thread collects at a time, holding the lock exactly while it does |
| `RowsAreClaimedOnce`, `FailuresReachTheRun`, `ResidentLoopIsUnique` | `NoRowClaimedTwice`, `FailuresAreReported`, `OneResidentLoop` |
| `ReturnedIsQuiet`, `ReportsAreInOrder` | `QuietAfterReturn` and `ReportsInOrder` of the service, action properties: after `run()` is over no loop begins a collection, and at most the one the join gave up on still writes; reports are in order also when the service ends of itself or a report fails |
| `EndedDesktopIsStopped`, `DesktopReturnedIsQuiet` | the condition `CloseEnds` reaches (the server loop has been left or never entered, the resident loop was told to stop and begins nothing), and `QuietAfterReturn`'s counterpart on the desktop |
| `GovernanceIsTyped`, `RegistryHasOneKey`, `ReadyIsVerified`, `BootstrapIsFirst` | the registry's types, `OneKeyOfRecord`, `ReadyProcessVerifies`, `BootstrapDecidesFirst` |
| `DecisionsStayConservative` | nothing becomes eligible for release; what is held in shadow rests on attested artifacts |
| `CreationRaceIsSafe` | while the key file is not lost, an open process holds the key on disk |
| `ImportsAreBacked`, `NoRawAddressIsKept` | `ImportIsBacked`, `RawAddressIsNeverKept`, for any batches and importers |
| `AcceptedIsPermitted`, `AsciiCertificatesAgree` | `AcceptedIsWithinEveryRule` for any alteration; `GateAndGatewayAgree` while all text is ASCII |
| `OnlyOvertakenRequestsFail` | `FailuresAreOvertaken` |
| `CohortsAreAlwaysSupported`, `DecisionsAlwaysExplain` | `CohortsAreSupported`, `DecisionsExplainClusters`, for any sessions, scores, bridges and guards |
| `MetricsAlwaysAgree` | `MetricsAgree`, for any sessions, campaigns, guards and unit; the zero denominators of the pairwise scores are not modelled |
| `LeadingIsStrongestAlways`, `AgreementIsMonotone` | `LeadingIsStrongest`; `AgreementNeverWeakens`, an action property |
| `CampaignsRestOnEvidence`, `TheTableIsRight` | `CampaignRestsOnEvidence`; `SequenceTableIsRight`, for cases of any length |
| `ButtonsComeBack`, `PreviewComesFirst` | `NoButtonIsStuck`, `SomePreviewCameFirst`, for every user |
| `PatientCommitsArePreviewed`, `PatientPreviewsAreOfPage` | `CommitIsPreviewed`, `PreviewIsOfPage` |
| `SelectionIsShown` | `SelectedIsShown`, for any cases, any number of requests under way, answered in any order or failing |

The arguments.

Journal. `JournalVerifies` is not inductive. It needs that a key in memory
is the key on disk (`HeldKeyIsOnDisk`), which needs that nobody can replace the
file while it is held: a process past its row count may still create the file
(`OneKeyCreator`), and the file beside rows is their key or absent
(`KeyOfRows`). The append then extends an intact chain (`RowsVerify`) because
the writer's head is still the head (`WriterHoldsHead`). Each journal action is
one lemma of `AuditJournalProofs`; `GateStepIsJournalStep` shows that every step
of the gate is a journal step or leaves the journal alone, so the invariant
carries over without reproving it.

Gate. `GateInv` ties the receipts of each command to its `pc`: `SealedAsFarAs` says
which receipts exist at each place, `Cleared` which gates were passed, `Told`
what was answered. The lemmas `SealedKept`, `SealedAppended` and `CommandKept`
say how `SealedOf` changes under an append and that other commands do not notice,
so each handler step is proved for its own command only. `ReloadInv` adds that
a pending denial of a reload has another reason than the entitlement, since the
baseline entitlement is in every status the license manager can cache.

Receipt contract. The refinement mapping reads the journal off `rows` and the
called routes off `executed`. Only two kinds of step change either:
`FinishSealContract` shows that a receipt becoming durable is a `Deny`, `Accept`
or `Conclude` (its decision and `SealedAsFarAs` say which), `CallRouteContract`
that a route call, also one that raises, is a `Call`; every other step is a
stutter (`ContractStutters`).

Evidence. A simulate call reads the beliefs, reads the head, appends and writes
the posterior in four store calls, so neither property is inductive. `EvidenceInv` adds what each
thread carries between them: the prior it has read is backed by the
events there are (`PriorBacked`), the posterior it will write is backed once its
event is appended (`AppendCounts`), and the head it has read is that of an event
of its case (`HeadKnown`). Evidence only grows (`NothingIsLost`), so whatever other
threads append, fail at or lose to a restart, this stays so. That is why the theorems
assume `~Resets`: a reset between two of these calls deletes the events a thread
has read from, and what it then inserts or writes rests on evidence that is gone.

Evidence, one operation at a time. `SerialInv` needs no such exclusion, since a
reset then runs between operations. It says of the one thread at work
(`OneAtATime`) that what it has read is still so and what it is about to do is
what the tables call for (`TaskInOrder`: the head it holds is the head, the step
it applies is the next of the script), that its later tasks go on from there
(`PlanInOrder`, for bootstrap), and that of the events of a step at most the
interruptions so far, and the one event under way, are not folded
(`LostToInterruptions`). Crashes and failing store calls may come between any two
of its store calls. The theorems assume `OneThread`; finding 3 shows they fail
without it.

Telemetry. `TelemetryInv` adds to the properties that the rows a collecting
thread has counted are in the table and that only the lock's holder has counted
any; `claimed` and the one open count then never exceed the table.
`OneResidentLoop` rests on `start` testing the thread of the last start: a loop
that is alive is that thread.

Control plane. `QuietLoop`: before `run()` starts the services, and when it raised before the
server loop, there is no loop thread (`Unstarted`). From the stop on the event is set, and past the
join no loop is due (`Joined`), since a loop becomes due only while the event is
clear (`LoopMoves`) and nothing clears it after the stop; a loop that outlives its join
holds the lock (`JoinedIsQuiet`) and so only ends what it is at. `ServiceLife` ties the
status last reported to where the thread of `run()` and the main thread are and
says that nobody has asked for a stop before the control is handled;
`DesktopLife` says of each of the desktop's threads that it still has the
runtime's thread to wait for or knows the runtime halted (`Left`). Both hosts step the
telemetry runtime by its own steps (`ServiceStepTelemetry`,
`DesktopStepTelemetry`), so `TelemetryInv` carries over.

Governance. `GovernanceInv` carries what a request has verified so far: up to
`at[c]` the script is attested under the request's own key (`Prepared`), and
tables only grow, under the key of record. So a process whose key is another
can never get past the first artifact that exists, and appends nothing.
`KeyInv` is proved under `~KeysGetLost` only, since nothing protects
`registry.key` from being recreated beside rows.

Gateway. `GatewayInv` adds to the two properties that an importer has appended
what it has passed (`PassedIsAppended`), that rows are only added, and that the
rows two imports have inserted are disjoint, because a row that is there is not
inserted again. That accepted observations hold no raw address is a lemma about
`Disposition` (`AcceptedIsClean`).

Safety. `KernelInv` says that a stored certificate is what `evaluate` made of
some proposal; a digest binds the body (`DigestBindsBody`), so what the gateway
accepts is a body the gate issued with PERMIT, and a PERMIT passed all eight
rules. Labels in ASCII serialize alike in both programs.

Caches. `KeptUnlessOvertaken`: from its look-up on, or its own store, a
handler's seed is in the cache or has been dropped since.

Linker. `AgreementIsMonotone` compares two similarities that differ in one
family: the weighted mean grows (`EvidenceGrows`; a family that becomes available
may dilute it unless the overlap is full), the families that match only become more
and with them the bonus (`CountsGrow`), the penalty shrinks (`PenaltyShrinks`),
and the cap rises if it changes. `LeadingIsStrongestAlways` then follows
from `StrengthByConfidence`: strength is a function of the capped confidence.

Clustering. `Forest(parent, groups)` is the invariant of the union-find: the
roots are the groups' names, parents stay within a group, and no group has a
part that the parents do not lead out of to its root. From it `Path` reaches the
root of the group (`PathIsAbove`, `RootOfGroup`), path compression and union by
size preserve it (`FindKeepsForest`, `UnionKeepsForest`), and `find` decides
membership in a group. The guard tests the merged cohort through the pairs
across; supports and scores of pairs within and across add up (`SupportAdds`), so
what it accepts stays supported (`CohortsHold`). What the recorded merges connect
are the groups (`JoinedBy`, `JoinedMerges`), and each merge is one group less.

Metrics. The library's sum of a function folds in a chosen order, about which
nothing can be assumed. `SumIsCounted` shows that whatever the order, the sum is
the number of points under the graph; from there sums are compared, added and
split by counting pairs (`SumsCompare`, `SumAdds`, `SumOfParts`). An average is
perfect only when every share is (`PerfectAverage`), and a share is whole only when
the cluster lies within the campaign (`SharesOfOne`), which is when no pair of it is
merged wrongly (`WrongPairs`; `MissedPairs` for recall). Precision stays below
purity cluster by cluster: no member shares its cluster with more of its campaign
than the largest campaign there (`PrecisionBelowPurity`).

Comparison. Without a common type the sets of types and the sequences of types
have an overlap of 0, and what is left of the weights cannot lift the confidence
past 0.30 (`LowWithoutCommonType`). On the scripts a case holds at least what
bootstrap applies and starts as its script (`FollowsScripts`). The table is the
only function that satisfies its own rule (`OneTable`: two would differ first
at a cell whose neighbours agree), and the lengths of the longest common
subsequences of all prefixes satisfy it (`LongestCommonIsRight`).

Console. `ButtonInv`: a disabled button waits for a request in flight that will
enable it, and a commit under way had a preview. `PatientInv` is
`patient => Calm`: with at most one request in flight, its answer finds the page
as it was sent from. `CaseInv` is about the requests that will turn the case page: while the
last act runs alone there is at most one of them, and it leads to the
wanted case (`LeadsToWanted`); once the act has shown it there is none, and no
event of any case has been added since. A steady export is the only one
(`OneExport`) and nothing will turn the page under it.

Model-checked only: liveness (`HandlersFinish`, `StopEndsLoop`, `StopCompletes`,
and `CloseEnds`), which is out of TLAPS's reach. Every invariant
and every action property of a passing run is stated by a theorem. The properties about one operation at a time, no reset, no lost
key or ASCII text are proved under these hypotheses, which the runs share or
whose failure a finding shows.

Where a definition is recursive (`Path`, the table and the prefixes of
sequences), it is a recursive function, that is, a chosen solution of its
equation; the proofs exhibit a solution and show, by the least place where it
could fail, that it is what is claimed.

## 6. Assumptions and what is left out

- `audit.key` is lost only while no process has the journal open. If it were
  deleted beneath a running process with an empty table, a second process could
  create another key. `registry.key` may be lost at any time.
- The process that serves a command keeps its role; the session token and host
  check are constants of a request.
- `response` is the status the handler sends; whether the client still reads it
  is not modelled.
- A COMMIT either succeeds or raises and writes nothing.
- `EvidenceCases` models one process.
- A certificate is altered in one field between gate and gateway; digests do
  not collide.
- `start` of the telemetry runtime is called by one thread at a time; its test
  and the creation of the thread are not under a lock.
- A request of the console that fails has either been served or not; rendering an
  answer does not itself fail.
- On the case page a case has at most two events in the run, so that a second
  simulation of one case is served only after a reset; the theorem has no bound.
- Floats of the linker and the clustering are exact integers or percentages; a
  difference below the code's rounding is not seen.

Not modelled, and why:

- Belief update, adaptive learning, classification and steering research, corpus
  generation and the statistics of the TRACE experiments: floating-point
  inference over pseudo-random data, a function of its seed with no state; what
  could be wrong is numeric accuracy, which TLC cannot tell. The caches in front
  of them, the clustering and the linking rules are modelled.
- Local node agent and configuration: reads host facts and settings.
- License authority tool: an offline command line that signs one file; a
  refused envelope is `malformed` in `Licensing`.
- The other pages of the console: each shows one answer. Rendering.
- Bundles and summaries: they only read.
- Packaging, installation scripts, CI.

## 7. What is left

1. `BeliefsAreBacked` and `AncestryIntact` with resets between operations, for
   threads that do not overlap a reset.
2. A second process in `EvidenceCases`.
