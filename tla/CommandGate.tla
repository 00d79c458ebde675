----------------------------- MODULE CommandGate -----------------------------
(***************************************************************************)
(* The POST command pipeline of aegis/server.py (do_POST, deny_post,       *)
(* record_post_event, send_json) over the audit journal, the license       *)
(* manager and the role contract.  Each command is one handler thread of   *)
(* ThreadingHTTPServer; threads of all processes interleave at every step  *)
(* that touches shared state, and any process may end at any step.         *)
(***************************************************************************)
EXTENDS AuditJournal, Licensing, AccessControl

CONSTANTS
  Requests,   \* the requests clients send
  Roles       \* the operator roles a process may be started with

\* host and session: what the request's Host and Origin, and its session
\* token, are. A malformed one urlparse refuses, and a token beyond ASCII
\* compare_digest: both raise. body: what read_json_body finds; "broken" is a
\* connection that fails meanwhile.
Request == [route: Routes, host: {"loopback", "foreign", "malformed"},
            session: {"valid", "wrong", "garbled"},
            body: {"object", "invalid", "too_large", "broken"}]

InScope(q) == q.host = "loopback" /\ q.session = "valid"

ASSUME GateAssumption == Requests \subseteq Request /\ Roles \subseteq OperatorRoles

VARIABLES
  role,      \* role[p]: the role bound to process p's handler class
  request,   \* request[c]: what the client of command c sent
  pc,        \* pc[c]: where the handler thread of c stands
  receipt,   \* receipt[c]: the receipt the thread is sealing or sealed last
  response,  \* response[c]: the status sent to the client, 0 for none
  executed   \* the commands whose route was called

commandVars == <<request, pc, receipt, response, executed>>
vars == <<journalVars, licenseVars, role, commandVars>>

PCs == {"idle", "received", "scoped", "entitled", "sealing", "committing", "accepted",
        "answered", "died", "lost"}

Denials == {"DENIED_HOST", "DENIED_SESSION", "DENIED_ROLE", "DENIED_LICENSE", "DENIED_INPUT"}
Outcomes == {"COMPLETED", "FAILED"}
Decisions == Denials \cup {"ACCEPTED"} \cup Outcomes

NoRequest == [route |-> "none"]
NoReceipt == [decision |-> "none", status |-> 0]
Receipts == [decision: Decisions, status: Nat]

TypeOK ==
  /\ JournalTypeOK /\ LicenseTypeOK
  /\ role \in [Procs -> Roles]
  /\ request \in [Commands -> Requests \cup {NoRequest}]
  /\ pc \in [Commands -> PCs]
  /\ receipt \in [Commands -> Receipts \cup {NoReceipt}]
  /\ response \in [Commands -> Nat]
  /\ executed \subseteq Commands

Init ==
  /\ JournalInit /\ LicenseInit
  /\ role \in [Procs -> Roles]
  /\ request = [c \in Commands |-> NoRequest]
  /\ pc = [c \in Commands |-> "idle"]
  /\ receipt = [c \in Commands |-> NoReceipt]
  /\ response = [c \in Commands |-> 0]
  /\ executed = {}

------------------------------------------------------------------------------
(* Process life *)

\* The constructor loads the license, then starts to open the journal.
StartProcess(p) ==
  /\ stage[p] = "down"
  /\ Enter(p, "locating")
  /\ ReloadLicense(p)
  /\ \E r \in Roles : role' = [role EXCEPT ![p] = r]
  /\ UNCHANGED <<keyFile, key>> /\ KeepTable
  /\ UNCHANGED commandVars

OpenJournal(p) ==
  /\ OpenStep(p)
  /\ UNCHANGED <<licenseVars, role, commandVars>>

InFlight(c) == pc[c] \notin {"idle", "answered", "died", "lost"}

\* Exit, kill or power loss: handler threads are daemons and die with it.
EndProcess(p) ==
  /\ StopJournal(p)
  /\ license' = [license EXCEPT ![p] = Unloaded]
  /\ pc' = [c \in Commands |-> IF Home[c] = p /\ InFlight(c) THEN "lost" ELSE pc[c]]
  /\ UNCHANGED <<envelope, now, role, request, receipt, response, executed>>

------------------------------------------------------------------------------
(* One handler thread *)

Go(c, next) == pc' = [pc EXCEPT ![c] = next]

Answer(c, status) ==
  /\ Go(c, "answered")
  /\ response' = [response EXCEPT ![c] = status]

\* record_post_event is about to append this receipt.
Record(c, decision, status) ==
  /\ Go(c, "sealing")
  /\ receipt' = [receipt EXCEPT ![c] = [decision |-> decision, status |-> status]]

OutsideGate == UNCHANGED <<journalVars, licenseVars, role>>

\* The thread starts; without an audit key it answers 503 and records nothing.
Receive(c) ==
  /\ pc[c] = "idle"
  /\ stage[Home[c]] = "up"
  /\ \E q \in Requests : request' = [request EXCEPT ![c] = q]
  /\ \/ ~Operational(Home[c]) /\ Answer(c, 503)
     \/ Operational(Home[c]) /\ Go(c, "received") /\ UNCHANGED response
  /\ UNCHANGED <<receipt, executed>> /\ OutsideGate

\* The Host and the token are refused, or the check raises: the thread ends
\* with neither a receipt nor an answer.
RefuseOrigin(c) ==
  LET q == request[c]
  IN  \/ q.host = "foreign" /\ Record(c, "DENIED_HOST", 421)
      \/ q.host = "loopback" /\ q.session = "wrong" /\ Record(c, "DENIED_SESSION", 403)
      \/ /\ q.host = "malformed" \/ (q.host = "loopback" /\ q.session = "garbled")
         /\ Go(c, "died") /\ UNCHANGED receipt

\* Variant: the operator role is never consulted.
CheckScopeWithoutRole(c) ==
  /\ pc[c] = "received"
  /\ \/ RefuseOrigin(c)
     \/ InScope(request[c]) /\ Go(c, "scoped") /\ UNCHANGED receipt
  /\ UNCHANGED <<request, response, executed>> /\ OutsideGate

\* Host, session token and role: none of them changes while a process runs.
CheckScope(c) ==
  LET scoped == Authorized(role[Home[c]], request[c].route)
  IN  /\ pc[c] = "received"
      /\ \/ RefuseOrigin(c)
         \/ InScope(request[c]) /\ ~scoped /\ Record(c, "DENIED_ROLE", 403)
         \/ InScope(request[c]) /\ scoped /\ Go(c, "scoped") /\ UNCHANGED receipt
      /\ UNCHANGED <<request, response, executed>> /\ OutsideGate

CheckEntitlement(c) ==
  LET entitled == IsEntitled(Home[c], RequiredEntitlement(request[c].route))
  IN  /\ pc[c] = "scoped"
      /\ \/ entitled /\ Go(c, "entitled") /\ UNCHANGED receipt
         \/ ~entitled /\ Record(c, "DENIED_LICENSE", 403)
      /\ UNCHANGED <<request, response, executed>> /\ OutsideGate

ReadBody(c) ==
  /\ pc[c] = "entitled"
  /\ \/ request[c].body = "object"    /\ Record(c, "ACCEPTED", 0)
     \/ request[c].body = "invalid"   /\ Record(c, "DENIED_INPUT", 400)
     \/ request[c].body = "too_large" /\ Record(c, "DENIED_INPUT", 413)
     \/ request[c].body = "broken"    /\ Go(c, "died") /\ UNCHANGED receipt
  /\ UNCHANGED <<request, response, executed>> /\ OutsideGate

StartSeal(c) ==
  /\ pc[c] = "sealing"
  /\ BeginAppend(c)
  /\ Go(c, "committing")
  /\ UNCHANGED <<licenseVars, role, request, receipt, response, executed>>

Entry(c) == [command |-> c, decision |-> receipt[c].decision, status |-> receipt[c].status]

\* Variant: the pending completion is not cleared, so it may be sealed again.
FinishSealTwice(c) ==
  /\ pc[c] = "committing"
  /\ CommitAppend(c, Entry(c))
  /\ \/ receipt[c].decision = "ACCEPTED" /\ Go(c, "accepted") /\ UNCHANGED response
     \/ receipt[c].decision # "ACCEPTED" /\ Answer(c, receipt[c].status)
     \/ receipt[c].decision \in Outcomes /\ Go(c, "sealing") /\ UNCHANGED response
  /\ UNCHANGED <<licenseVars, role, request, receipt, executed>>

\* The receipt is durable: an accepted command goes on to its route, a
\* denial or an outcome is answered with its own status.
FinishSeal(c) ==
  /\ pc[c] = "committing"
  /\ CommitAppend(c, Entry(c))
  /\ \/ receipt[c].decision = "ACCEPTED" /\ Go(c, "accepted") /\ UNCHANGED response
     \/ receipt[c].decision # "ACCEPTED" /\ Answer(c, receipt[c].status)
  /\ UNCHANGED <<licenseVars, role, request, receipt, executed>>

\* Variant: every failed append is answered as if nothing had run.
AlwaysUnavailable(c) == 503

\* The status of a failed append: 500 once the route has run, 503 before.
FailureStatus(c) == IF receipt[c].decision \in Outcomes THEN 500 ELSE 503

\* Variant: a transaction that rolls back is retried without limit.
FailSealAndRetry(c) ==
  /\ \/ pc[c] = "sealing" /\ UNCHANGED journalVars /\ Answer(c, FailureStatus(c))
     \/ pc[c] = "committing" /\ RollbackAppend(c) /\ Go(c, "sealing") /\ UNCHANGED response
  /\ UNCHANGED <<licenseVars, role, request, receipt, executed>>

\* The lock is not obtained in time, or the transaction rolls back.
FailSeal(c) ==
  /\ \/ pc[c] = "sealing" /\ UNCHANGED journalVars
     \/ pc[c] = "committing" /\ RollbackAppend(c)
  /\ Answer(c, FailureStatus(c))
  /\ UNCHANGED <<licenseVars, role, request, receipt, executed>>

\* What a served route can return: its success status, or 400 where do_POST
\* catches the route's validation error.
RouteStatuses(route) ==
  CASE route \in {"demo/reset", "license/reload"}           -> {200}
    [] route \in GatewayRoutes \cup {"governance/evaluate"} -> {201, 400}
    [] OTHER                                                -> {201}

\* Variant: a client error counts as completion.
OutcomeBelow500(status) == IF status < 500 THEN "COMPLETED" ELSE "FAILED"

OutcomeOf(status) == IF status < 400 THEN "COMPLETED" ELSE "FAILED"

CallRoute(c) ==
  /\ pc[c] = "accepted"
  /\ request[c].route \in ServedRoutes
  /\ executed' = executed \cup {c}

ExecuteRoute(c) ==
  /\ CallRoute(c)
  /\ IF request[c].route = "license/reload"
       THEN ReloadLicense(Home[c])
       ELSE UNCHANGED licenseVars
  /\ \E s \in RouteStatuses(request[c].route) : Record(c, OutcomeOf(s), s)
  /\ UNCHANGED <<journalVars, role, request, response>>

\* Variant: every exception of a route is turned into an input denial.
RouteRaisesAsDenial(c) ==
  /\ CallRoute(c)
  /\ Record(c, "DENIED_INPUT", 400)
  /\ UNCHANGED <<request, response>> /\ OutsideGate

\* An exception do_POST does not catch ends the handler thread: the
\* connection closes with no response and no further receipt.
RouteRaises(c) ==
  /\ CallRoute(c)
  /\ Go(c, "died")
  /\ UNCHANGED <<request, receipt, response>> /\ OutsideGate

\* An unlisted path passes every gate and ends in the final 404.
RouteNotFound(c) ==
  /\ pc[c] = "accepted"
  /\ request[c].route \notin ServedRoutes
  /\ Record(c, OutcomeOf(404), 404)
  /\ UNCHANGED <<request, response, executed>> /\ OutsideGate

HandlerStep(c) ==
  \/ CheckScope(c) \/ CheckEntitlement(c) \/ ReadBody(c)
  \/ StartSeal(c) \/ FinishSeal(c) \/ FailSeal(c)
  \/ ExecuteRoute(c) \/ RouteRaises(c) \/ RouteNotFound(c)

Environment ==
  \/ LoseKeyFile /\ UNCHANGED <<licenseVars, role, commandVars>>
  \/ InstallEnvelope /\ UNCHANGED <<journalVars, role, commandVars>>
  \/ Tick /\ UNCHANGED <<journalVars, role, commandVars>>

Next ==
  \/ \E p \in Procs : StartProcess(p) \/ OpenJournal(p) \/ EndProcess(p)
  \/ \E c \in Commands : Receive(c) \/ HandlerStep(c)
  \/ Environment

Spec == Init /\ [][Next]_vars

\* The operating system schedules every started thread, and a client sends
\* the body it announced or closes the connection.
Fairness == \A c \in Commands : WF_vars(HandlerStep(c))

FairSpec == Spec /\ Fairness

------------------------------------------------------------------------------
(* Correctness *)

EntryAt(i) == rows[i].record.entry

SealedAs(c, decisions) ==
  \E i \in 1 .. Len(rows) : EntryAt(i).command = c /\ EntryAt(i).decision \in decisions

\* The whole journal verifies under the key of every process that can append
\* to it or vouch for it: no interleaving of appends, rollbacks, restarts and
\* key creation breaks a link (AuditJournal.append, verify).
JournalVerifies == \A p \in Procs : Operational(p) => Verifies(key[p], rows)

\* Once a receipt exists, the key file is the key that sealed it or is gone:
\* no start or creation race replaces it (_load_or_create_key).
NoSilentRekey == rows # << >> => keyFile \in {"absent", rows[1].record.key_id}

\* A denial or an outcome is the last receipt of its command; only ACCEPTED
\* is followed by another, which is its outcome; an outcome has its
\* ACCEPTED before it (do_POST, deny_post, send_json).
ReceiptDiscipline ==
  /\ \A i, j \in 1 .. Len(rows) :
       i < j /\ EntryAt(i).command = EntryAt(j).command =>
         EntryAt(i).decision = "ACCEPTED" /\ EntryAt(j).decision \in Outcomes
  /\ \A j \in 1 .. Len(rows) :
       EntryAt(j).decision \in Outcomes =>
         \E i \in 1 .. (j - 1) :
           EntryAt(i).command = EntryAt(j).command /\ EntryAt(i).decision = "ACCEPTED"

\* What the journal says of a command is what happened to it: a called route
\* was accepted first, a denied command never ran, a COMPLETED one did.
JournalTellsWhatRan ==
  /\ \A c \in executed : SealedAs(c, {"ACCEPTED"}) /\ ~SealedAs(c, Denials)
  /\ \A c \in Commands : SealedAs(c, {"COMPLETED"}) => c \in executed

\* What the client is told is what the journal holds: 503 means nothing was
\* recorded and nothing ran, 500 that the outcome is missing, and every
\* other status is the one of the command's last receipt.
ResponseIsTruthful ==
  \A c \in Commands :
    /\ response[c] = 503 => c \notin executed /\ ~SealedAs(c, Decisions)
    /\ response[c] = 500 => SealedAs(c, {"ACCEPTED"}) /\ ~SealedAs(c, Outcomes)
    /\ response[c] \notin {0, 500, 503} =>
         \E i \in 1 .. Len(rows) :
           /\ EntryAt(i).command = c /\ EntryAt(i).status = response[c]
           /\ EntryAt(i).decision \in Denials \cup Outcomes

(* The inductive invariant of one command, in named parts. *)

AcceptedReceipt == [decision |-> "ACCEPTED", status |-> 0]

\* The receipts record_post_event is given: no status stands for its failure.
FinalReceipts == [decision: Denials \cup Outcomes, status: Nat \ {0, 500, 503}]

\* The receipts of command c that are durable.
SealedOf(c) ==
  {[decision |-> EntryAt(i).decision, status |-> EntryAt(i).status] :
     i \in {i \in 1 .. Len(rows) : EntryAt(i).command = c}}

Pending(c, decisions) == pc[c] \in {"sealing", "committing"} /\ receipt[c].decision \in decisions

\* Up to its first receipt nothing of the command has happened; between
\* ACCEPTED and its outcome, ACCEPTED is all there is.
SealedAsFarAs(c) ==
  /\ pc[c] \in {"sealing", "committing"} => receipt[c] \in FinalReceipts \cup {AcceptedReceipt}
  /\ pc[c] \in {"idle", "received", "scoped", "entitled"} \/ Pending(c, Denials \cup {"ACCEPTED"})
       => SealedOf(c) = {} /\ c \notin executed
  /\ pc[c] = "accepted" => SealedOf(c) = {AcceptedReceipt} /\ c \notin executed
  /\ Pending(c, Outcomes) => SealedOf(c) = {AcceptedReceipt}
  /\ Pending(c, {"COMPLETED"}) => c \in executed
  /\ pc[c] # "answered" => response[c] = 0

\* A command in flight runs in a process whose journal is available, and is
\* past only those gates it satisfies.
Cleared(c) ==
  LET q == request[c]
  IN  /\ InFlight(c) => Operational(Home[c]) /\ q \in Requests
      /\ pc[c] \in {"scoped", "entitled", "accepted"} \/ Pending(c, {"ACCEPTED"})
           => InScope(q) /\ Authorized(role[Home[c]], q.route)
      /\ pc[c] = "accepted" \/ Pending(c, {"ACCEPTED"}) => q.body = "object"

\* What is durable and what was answered agree with what ran.
Told(c) ==
  LET decided == {r.decision : r \in SealedOf(c)}
  IN  /\ c \in executed => "ACCEPTED" \in decided /\ decided \cap Denials = {}
      /\ "COMPLETED" \in decided => c \in executed
      /\ response[c] = 503 => c \notin executed /\ SealedOf(c) = {}
      /\ response[c] = 500 => SealedOf(c) = {AcceptedReceipt}
      /\ response[c] \notin {0, 500, 503} =>
           \E r \in SealedOf(c) :
             r.status = response[c] /\ r.decision \in Denials \cup Outcomes

CommandOK(c) == SealedAsFarAs(c) /\ Cleared(c) /\ Told(c)

\* What every step preserves: the receipts, the route calls and the answers
\* of every command agree with how far its handler thread has come.
GateInv ==
  /\ ReceiptDiscipline
  /\ \A c \in Commands : CommandOK(c)

\* A route is called only by a request that passed the host, session, role
\* and body gates, with its ACCEPTED receipt durable in a journal its own
\* process verifies: without an audit key nothing runs.
ExecutionIsAuthorized ==
  [][\A c \in executed' \ executed :
       LET p == Home[c] IN
       /\ InScope(request[c]) /\ request[c].body = "object"
       /\ Authorized(role[p], request[c].route)
       /\ Operational(p) /\ Verifies(key[p], rows)
       /\ SealedAs(c, {"ACCEPTED"}) /\ ~SealedAs(c, Outcomes)]_vars

\* The license can never lock out its own replacement: a license reload is
\* never denied for want of an entitlement (access.py, license/reload).
ReloadNeverLockedOut ==
  \A i \in 1 .. Len(rows) :
    EntryAt(i).decision = "DENIED_LICENSE" =>
      request[EntryAt(i).command].route # "license/reload"

\* Every handler thread that starts ends: answered, dead of an exception, or
\* lost with its process. No thread waits for the write lock for ever.
HandlersFinish == \A c \in Commands : pc[c] = "received" ~> ~InFlight(c)

\* The gate implements the receipt contract: the journal's entries and the
\* called routes behave as CommandReceipts says.
Contract == INSTANCE CommandReceipts WITH
  journal <- [i \in 1 .. Len(rows) |->
               [command |-> EntryAt(i).command, decision |-> EntryAt(i).decision]],
  called  <- executed

ImplementsReceiptContract == Contract!Spec

\* docs/ACCESS_AUDIT_GUIDE.md, order 9: a COMPLETED or FAILED receipt is
\* appended after the route executes, or the failure to do so is surfaced as
\* 500. Stated for the handler threads that ended while their process lived.
CalledRouteIsConcluded ==
  \A c \in executed :
    pc[c] \in {"answered", "died"} => SealedAs(c, Outcomes) \/ response[c] = 500

\* docs/ACCESS_AUDIT_GUIDE.md, order 5 and section 3.2: a command passes the
\* license gate only if the installed license, as it stands now, contains
\* the route's entitlement. Stated while no envelope is replaced.
EntitlementIsCurrent ==
  [][\A c \in Commands :
       pc[c] = "scoped" /\ pc'[c] = "entitled" =>
         LET needed == RequiredEntitlement(request[c].route)
         IN  needed = "none" \/ needed \in StatusOf(envelope, now).entitlements]_vars

==============================================================================
