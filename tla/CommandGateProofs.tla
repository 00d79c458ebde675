--------------------------- MODULE CommandGateProofs ---------------------------
(***************************************************************************)
(* Theorems about the POST command pipeline, for every set of processes,   *)
(* commands, keys, requests, roles and envelopes.  The inductive invariant *)
(* is TypeOK /\ JournalInv /\ GateInv: TypeOK and JournalInv are inductive *)
(* by themselves, GateInv on top of them.                                  *)
(***************************************************************************)
EXTENDS CommandGate, AuditJournalProofs

------------------------------------------------------------------------------
(* The journal *)

\* Every step of the gate is, for the journal, a step of the journal.
LEMMA GateStepIsJournalStep == [Next]_vars => JournalNext
<1> SUFFICES ASSUME [Next]_vars PROVE JournalNext
  OBVIOUS
<1>1. ASSUME NEW p \in Procs, StartProcess(p) \/ OpenJournal(p) \/ EndProcess(p)
      PROVE  JournalNext
  BY <1>1 DEF StartProcess, OpenJournal, EndProcess, BeginOpening, JournalNext
<1>2. ASSUME NEW c \in Commands, Receive(c) \/ HandlerStep(c)
      PROVE  JournalNext
  <2>1. CASE Receive(c) \/ CheckScope(c) \/ CheckEntitlement(c) \/ ReadBody(c) \/ ExecuteRoute(c)
               \/ RouteRaises(c) \/ RouteNotFound(c)
    <3>1. UNCHANGED journalVars
      BY <2>1 DEF Receive, CheckScope, CheckEntitlement, ReadBody, ExecuteRoute, RouteRaises,
                  RouteNotFound, OutsideGate
    <3> QED
      BY <3>1 DEF JournalNext
  <2>2. CASE StartSeal(c) \/ FinishSeal(c) \/ FailSeal(c)
    BY <2>2 DEF StartSeal, FinishSeal, FailSeal, JournalNext
  <2> QED
    BY <1>2, <2>1, <2>2 DEF HandlerStep
<1>3. CASE Environment
  BY <1>3 DEF Environment, JournalNext
<1>4. CASE UNCHANGED vars
  BY <1>4 DEF vars, JournalNext
<1> QED
  BY <1>1, <1>2, <1>3, <1>4 DEF Next

\* The journal's invariant holds throughout every run of the gate.
THEOREM JournalInvariant == Spec => []JournalInv
<1>1. Init => JournalInv
  BY JournalInitially DEF Init
<1>2. JournalInv /\ [Next]_vars => JournalInv'
  BY GateStepIsJournalStep, JournalStep
<1> QED
  BY <1>1, <1>2, PTL DEF Spec

\* However many processes append, restart and race for the key, the journal
\* verifies under every key that is held (AuditJournal.append, verify).
THEOREM JournalAlwaysVerifies == Spec => []JournalVerifies
<1>1. JournalInv => JournalVerifies
  BY HeldKeyVerifies DEF JournalVerifies
<1> QED
  BY <1>1, JournalInvariant, PTL

\* The key that sealed the first receipt is never replaced by another one
\* (_load_or_create_key).
THEOREM NeverRekeyed == Spec => []NoSilentRekey
<1>1. JournalInv => NoSilentRekey
  BY DEF JournalInv, KeyOfRows, NoSilentRekey
<1> QED
  BY <1>1, JournalInvariant, PTL

------------------------------------------------------------------------------
(* Types *)

\* What reload computes is a status, whatever the envelope and the clock
\* (LicenseManager.reload).
LEMMA StatusOfIsStatus ==
  ASSUME NEW e \in Envelopes, NEW t \in Nat
  PROVE  StatusOf(e, t) \in Status
<1>1. /\ e.form \in {"absent", "malformed", "signed"} /\ VerifierInstalled \in BOOLEAN
      /\ e.entitlements \subseteq KnownEntitlements /\ e.from \in Nat /\ e.until \in Nat
  BY LicensingAssumption DEF Forms
<1>2. ResearchEntitlements \subseteq KnownEntitlements /\ "local_audit" \in KnownEntitlements
  BY DEF ResearchEntitlements, KnownEntitlements
<1> QED
  BY <1>1, <1>2 DEF StatusOf, Locked, Status, States

\* Reloading the license preserves the types of the license state.
LEMMA ReloadLicenseTypes ==
  ASSUME LicenseTypeOK, NEW p \in Procs, ReloadLicense(p)
  PROVE  LicenseTypeOK'
<1>1. StatusOf(envelope, now) \in Status
  BY StatusOfIsStatus, LicensingAssumption DEF LicenseTypeOK
<1> QED
  BY <1>1 DEF ReloadLicense, LicenseTypeOK

\* Every status a served route returns is one a final receipt may carry.
LEMMA RouteStatusIsFinal ==
  ASSUME NEW route, NEW s \in RouteStatuses(route)
  PROVE  s \in Nat \ {0, 500, 503} /\ OutcomeOf(s) \in Outcomes
<1>1. s \in {200, 201, 400}
  BY DEF RouteStatuses
<1> QED
  BY <1>1 DEF OutcomeOf, Outcomes

\* Recording a receipt preserves the types of the command's state.
LEMMA RecordTypes ==
  ASSUME TypeOK, NEW c \in Commands, NEW d \in Decisions, NEW s \in Nat, Record(c, d, s)
  PROVE  pc' \in [Commands -> PCs] /\ receipt' \in [Commands -> Receipts \cup {NoReceipt}]
BY DEF TypeOK, Record, Go, PCs, Receipts

\* The handler steps preserve the types of the command's state.
LEMMA HandlerTypes ==
  ASSUME TypeOK, NEW c \in Commands, Receive(c) \/ HandlerStep(c)
  PROVE  /\ LicenseTypeOK' /\ role' \in [Procs -> Roles]
         /\ request' \in [Commands -> Requests \cup {NoRequest}]
         /\ pc' \in [Commands -> PCs]
         /\ receipt' \in [Commands -> Receipts \cup {NoReceipt}]
         /\ response' \in [Commands -> Nat]
         /\ executed' \subseteq Commands
<1> DEFINE Kept == UNCHANGED <<licenseVars, role>>
           KeptCommand == UNCHANGED <<request, response, executed>>
<1>1. ASSUME Kept PROVE LicenseTypeOK' /\ role' \in [Procs -> Roles]
  BY <1>1 DEF TypeOK, LicenseTypeOK, licenseVars
<1>2. CASE Receive(c)
  BY <1>1, <1>2 DEF Receive, OutsideGate, Answer, Go, TypeOK, PCs
<1>3. CASE CheckScope(c)
  <2>1. Kept /\ KeptCommand
    BY <1>3 DEF CheckScope, OutsideGate
  <2>2. pc' \in [Commands -> PCs] /\ receipt' \in [Commands -> Receipts \cup {NoReceipt}]
    BY <1>3, RecordTypes DEF CheckScope, RefuseOrigin, Decisions, Denials, Go, TypeOK, PCs
  <2> QED
    BY <1>1, <2>1, <2>2 DEF TypeOK
<1>4. CASE CheckEntitlement(c)
  <2>1. Kept /\ KeptCommand
    BY <1>4 DEF CheckEntitlement, OutsideGate
  <2>2. pc' \in [Commands -> PCs] /\ receipt' \in [Commands -> Receipts \cup {NoReceipt}]
    BY <1>4, RecordTypes DEF CheckEntitlement, Decisions, Denials, Go, TypeOK, PCs
  <2> QED
    BY <1>1, <2>1, <2>2 DEF TypeOK
<1>5. CASE ReadBody(c)
  <2>1. Kept /\ KeptCommand
    BY <1>5 DEF ReadBody, OutsideGate
  <2>2. pc' \in [Commands -> PCs] /\ receipt' \in [Commands -> Receipts \cup {NoReceipt}]
    BY <1>5, RecordTypes DEF ReadBody, Decisions, Denials, Go, TypeOK, PCs
  <2> QED
    BY <1>1, <2>1, <2>2 DEF TypeOK
<1>6. CASE StartSeal(c)
  BY <1>1, <1>6 DEF StartSeal, Go, TypeOK, PCs
<1>7. CASE FinishSeal(c)
  <2>1. pc[c] = "committing" /\ Kept /\ UNCHANGED <<request, receipt, executed>>
    BY <1>7 DEF FinishSeal
  <2>2. receipt[c].status \in Nat
    BY DEF TypeOK, Receipts, NoReceipt
  <2>3. pc' \in [Commands -> PCs] /\ response' \in [Commands -> Nat]
    BY <1>7, <2>2 DEF FinishSeal, Answer, Go, TypeOK, PCs
  <2> QED
    BY <1>1, <2>1, <2>3 DEF TypeOK
<1>8. CASE FailSeal(c)
  BY <1>1, <1>8 DEF FailSeal, FailureStatus, Answer, Go, TypeOK, PCs
<1>9. CASE ExecuteRoute(c)
  <2>1. LicenseTypeOK'
    <3>1. CASE ReloadLicense(Home[c])
      BY <3>1, ReloadLicenseTypes, HomeAssumption DEF TypeOK
    <3>2. CASE UNCHANGED licenseVars
      BY <3>2 DEF TypeOK, LicenseTypeOK, licenseVars
    <3> QED
      BY <1>9, <3>1, <3>2 DEF ExecuteRoute
  <2>2. PICK s \in RouteStatuses(request[c].route) : Record(c, OutcomeOf(s), s)
    BY <1>9 DEF ExecuteRoute
  <2>3. pc' \in [Commands -> PCs] /\ receipt' \in [Commands -> Receipts \cup {NoReceipt}]
    BY <2>2, RouteStatusIsFinal, RecordTypes DEF Decisions
  <2> QED
    BY <1>9, <2>1, <2>3 DEF ExecuteRoute, CallRoute, TypeOK
<1>10. CASE RouteRaises(c)
  BY <1>1, <1>10 DEF RouteRaises, CallRoute, OutsideGate, Go, TypeOK, PCs
<1>11. CASE RouteNotFound(c)
  <2>1. Kept /\ KeptCommand
    BY <1>11 DEF RouteNotFound, OutsideGate
  <2>2. pc' \in [Commands -> PCs] /\ receipt' \in [Commands -> Receipts \cup {NoReceipt}]
    BY <1>11, RecordTypes DEF RouteNotFound, OutcomeOf, Decisions, Outcomes
  <2> QED
    BY <1>1, <2>1, <2>2 DEF TypeOK
<1> QED
  BY <1>2, <1>3, <1>4, <1>5, <1>6, <1>7, <1>8, <1>9, <1>10, <1>11 DEF HandlerStep

\* Every variable of the gate keeps its type.
THEOREM TypeCorrect == Spec => []TypeOK
<1>1. Init => TypeOK
  BY JournalInitially, LicensingAssumption
    DEF Init, TypeOK, JournalInv, LicenseInit, LicenseTypeOK, Unloaded, Status, States,
        PCs
<1>2. TypeOK /\ JournalInv' /\ [Next]_vars => TypeOK'
  <2> SUFFICES ASSUME TypeOK, JournalInv', [Next]_vars PROVE TypeOK'
    OBVIOUS
  <2>1. JournalTypeOK'
    BY DEF JournalInv
  <2>2. ASSUME NEW p \in Procs, StartProcess(p) PROVE TypeOK'
    BY <2>1, <2>2, ReloadLicenseTypes DEF StartProcess, TypeOK, commandVars
  <2>3. ASSUME NEW p \in Procs, OpenJournal(p) PROVE TypeOK'
    BY <2>1, <2>3 DEF OpenJournal, TypeOK, LicenseTypeOK, licenseVars, commandVars
  <2>4. ASSUME NEW p \in Procs, EndProcess(p) PROVE TypeOK'
    <3>1. Unloaded \in Status
      BY DEF Unloaded, Status, States
    <3> QED
      BY <2>1, <2>4, <3>1 DEF EndProcess, TypeOK, LicenseTypeOK, PCs
  <2>5. ASSUME NEW c \in Commands, Receive(c) \/ HandlerStep(c) PROVE TypeOK'
    BY <2>1, <2>5, HandlerTypes DEF TypeOK
  <2>6. CASE Environment
    <3>1. UNCHANGED <<role, commandVars>>
      BY <2>6 DEF Environment
    <3>2. LicenseTypeOK'
      BY <2>6, LicensingAssumption
        DEF Environment, InstallEnvelope, Tick, TypeOK, LicenseTypeOK, licenseVars
    <3> QED
      BY <2>1, <3>1, <3>2 DEF TypeOK, commandVars
  <2>7. CASE UNCHANGED vars
    BY <2>1, <2>7 DEF vars, TypeOK, LicenseTypeOK, licenseVars, commandVars
  <2> QED
    BY <2>2, <2>3, <2>4, <2>5, <2>6, <2>7 DEF Next
<1> QED
  BY <1>1, <1>2, JournalInvariant, PTL DEF Spec

------------------------------------------------------------------------------
(* What is sealed, when the table is kept and when a receipt is appended *)

\* A step that keeps the table keeps what is sealed of every command.
LEMMA SealedKept ==
  ASSUME rows' = rows
  PROVE  /\ \A d \in Commands : SealedOf(d)' = SealedOf(d)
         /\ ReceiptDiscipline => ReceiptDiscipline'
BY DEF SealedOf, ReceiptDiscipline, EntryAt

\* Finishing a seal adds the command's receipt to what is sealed of it, and
\* nothing to what is sealed of the others.
LEMMA SealedAppended ==
  ASSUME TypeOK, NEW c \in Commands, CommitAppend(c, Entry(c)), receipt[c] \in Receipts
  PROVE  /\ Len(rows) \in Nat /\ Len(rows') = Len(rows) + 1
         /\ \A i \in 1 .. Len(rows) : rows'[i].record.entry = EntryAt(i)
         /\ rows'[Len(rows) + 1].record.entry = Entry(c)
         /\ SealedOf(c)' = SealedOf(c) \cup {receipt[c]}
         /\ \A d \in Commands \ {c} : SealedOf(d)' = SealedOf(d)
<1> DEFINE row == Seal(key[Home[c]], headRead, Entry(c))
           n == Len(rows)
<1>1. /\ n \in Nat /\ Len(rows') = n + 1
      /\ \A i \in 1 .. n : rows'[i] = rows[i]
      /\ rows'[n + 1] = row
  <2>1. rows \in Seq({rows[i] : i \in DOMAIN rows})
    BY DEF TypeOK, JournalTypeOK
  <2>2. rows' = Append(rows, row)
    BY DEF CommitAppend
  <2> HIDE DEF row
  <2> QED
    BY <2>1, <2>2, AppendedRow
<1>2. row.record.entry = Entry(c)
  BY DEF Seal
<1>3. /\ \A i \in 1 .. n : rows'[i].record.entry = EntryAt(i)
      /\ rows'[n + 1].record.entry = Entry(c)
  BY <1>1, <1>2 DEF EntryAt
<1>4. /\ Entry(c).command = c
      /\ [decision |-> Entry(c).decision, status |-> Entry(c).status] = receipt[c]
  BY DEF Entry, Receipts
<1> DEFINE At(i) == rows'[i].record.entry
           Of(d) == {i \in 1 .. n : EntryAt(i).command = d}
           OfNext(d) == {i \in 1 .. n + 1 : At(i).command = d}
           View(e) == [decision |-> e.decision, status |-> e.status]
<1>5. \A d : /\ SealedOf(d) = {View(EntryAt(i)) : i \in Of(d)}
             /\ SealedOf(d)' = {View(At(i)) : i \in OfNext(d)}
  BY <1>1 DEF SealedOf, EntryAt
<1>6. OfNext(c) = Of(c) \cup {n + 1}
  BY <1>1, <1>3, <1>4
<1>7. ASSUME NEW d \in Commands \ {c} PROVE OfNext(d) = Of(d)
  BY <1>1, <1>3, <1>4
<1>8. \A d : \A i \in Of(d) : At(i) = EntryAt(i)
  BY <1>3
<1>9. View(At(n + 1)) = receipt[c]
  BY <1>3, <1>4
<1> HIDE DEF n, At, Of, OfNext, View
<1>10. SealedOf(c)' = SealedOf(c) \cup {receipt[c]}
  BY <1>5, <1>6, <1>8, <1>9
<1>11. ASSUME NEW d \in Commands \ {c} PROVE SealedOf(d)' = SealedOf(d)
  BY <1>5, <1>7, <1>8
<1> QED
  BY <1>1, <1>3, <1>10, <1>11 DEF n

\* A row of a command is a sealed receipt of it, and the other way round.
LEMMA SealedOfRows ==
  /\ \A i \in 1 .. Len(rows) :
       [decision |-> EntryAt(i).decision, status |-> EntryAt(i).status]
         \in SealedOf(EntryAt(i).command)
  /\ \A c \in Commands : \A r \in SealedOf(c) : \E i \in 1 .. Len(rows) :
       EntryAt(i).command = c /\ EntryAt(i).decision = r.decision /\ EntryAt(i).status = r.status
BY DEF SealedOf

------------------------------------------------------------------------------
(* Commands a step is not about *)

\* A step that changes nothing a command's invariant reads preserves it.
LEMMA CommandKept ==
  ASSUME NEW c \in Commands, CommandOK(c),
         pc'[c] = pc[c], request'[c] = request[c], receipt'[c] = receipt[c],
         response'[c] = response[c], c \in executed' <=> c \in executed,
         SealedOf(c)' = SealedOf(c),
         InFlight(c) => /\ role'[Home[c]] = role[Home[c]]
                        /\ Operational(Home[c])'
  PROVE  CommandOK(c)'
<1>1. SealedAsFarAs(c)'
  BY DEF CommandOK, SealedAsFarAs, Pending
<1>2. Cleared(c)'
  BY DEF CommandOK, Cleared, Pending, InFlight
<1>3. Told(c)'
  BY DEF CommandOK, Told
<1> QED
  BY <1>1, <1>2, <1>3 DEF CommandOK

\* A handler thread's step preserves the invariant of every other command.
LEMMA OtherCommands ==
  ASSUME TypeOK, GateInv, NEW c \in Commands, Receive(c) \/ HandlerStep(c),
         NEW d \in Commands \ {c}
  PROVE  CommandOK(d)'
<1>1. UNCHANGED role /\ UNCHANGED key
  BY DEF Receive, HandlerStep, CheckScope, CheckEntitlement, ReadBody, StartSeal, FinishSeal,
         FailSeal, ExecuteRoute, RouteRaises, RouteNotFound, OutsideGate, journalVars,
         BeginAppend, CommitAppend, RollbackAppend
<1>2. /\ pc'[d] = pc[d] /\ request'[d] = request[d] /\ receipt'[d] = receipt[d]
      /\ response'[d] = response[d] /\ (d \in executed' <=> d \in executed)
  BY DEF TypeOK, Receive, HandlerStep, CheckScope, RefuseOrigin, CheckEntitlement, ReadBody, StartSeal,
         FinishSeal, FailSeal, ExecuteRoute, RouteRaises, RouteNotFound, CallRoute, Record,
         Answer, Go
<1>3. SealedOf(d)' = SealedOf(d)
  <2>1. CASE FinishSeal(c)
    <3>1. receipt[c] \in Receipts
      BY <2>1 DEF FinishSeal, GateInv, CommandOK, SealedAsFarAs, FinalReceipts,
                  AcceptedReceipt, Receipts, Decisions
    <3> QED
      BY <2>1, <3>1, SealedAppended DEF FinishSeal
  <2>2. CASE ~FinishSeal(c)
    <3>1. rows' = rows
      BY <2>2
        DEF Receive, HandlerStep, CheckScope, CheckEntitlement, ReadBody, StartSeal, FailSeal,
            ExecuteRoute, RouteRaises, RouteNotFound, OutsideGate, journalVars, BeginAppend,
            RollbackAppend
    <3> QED
      BY <3>1, SealedKept
  <2> QED
    BY <2>1, <2>2
<1> QED
  BY <1>1, <1>2, <1>3, CommandKept DEF GateInv, CommandOK, Cleared, Operational

------------------------------------------------------------------------------
(* The command whose handler thread takes the step *)

\* A first receipt, recorded before anything ran, preserves the invariant:
\* a denial, or ACCEPTED once every gate is passed.
LEMMA FirstReceipt ==
  ASSUME TypeOK, NEW c \in Commands, CommandOK(c), SealedOf(c) = {}, c \notin executed,
         InFlight(c), pc[c] # "answered", NEW d, NEW s, Record(c, d, s),
         [decision |-> d, status |-> s] \in FinalReceipts \cup {AcceptedReceipt},
         d \notin Outcomes,
         d = "ACCEPTED" => /\ InScope(request[c])
                           /\ Authorized(role[Home[c]], request[c].route)
                           /\ request[c].body = "object",
         UNCHANGED <<request, response, executed>>, OutsideGate
  PROVE  CommandOK(c)'
<1>1. pc'[c] = "sealing" /\ receipt'[c] = [decision |-> d, status |-> s]
  BY DEF Record, Go, TypeOK
<1>2. SealedOf(c)' = SealedOf(c)
  BY SealedKept DEF OutsideGate, journalVars
<1>3. SealedAsFarAs(c)'
  BY <1>1, <1>2 DEF CommandOK, SealedAsFarAs, Pending, Outcomes
<1>4. Cleared(c)'
  BY <1>1 DEF CommandOK, Cleared, Pending, InFlight, Operational, OutsideGate, journalVars
<1>5. Told(c)'
  BY <1>2 DEF CommandOK, Told
<1> QED
  BY <1>3, <1>4, <1>5 DEF CommandOK

\* The gates before the first receipt preserve the command's invariant
\* (do_POST up to the ACCEPTED receipt, deny_post).
LEMMA GateSteps ==
  ASSUME TypeOK, GateInv, NEW c \in Commands,
         CheckScope(c) \/ CheckEntitlement(c) \/ ReadBody(c)
  PROVE  CommandOK(c)'
<1>1. /\ CommandOK(c) /\ pc[c] \in {"received", "scoped", "entitled"}
      /\ UNCHANGED <<request, response, executed>> /\ OutsideGate
  BY DEF GateInv, CheckScope, CheckEntitlement, ReadBody
<1>2. SealedOf(c) = {} /\ c \notin executed /\ InFlight(c) /\ pc[c] # "answered"
  BY <1>1 DEF CommandOK, SealedAsFarAs, InFlight
<1>3. ASSUME NEW d \in Denials, NEW s \in {400, 403, 413, 421}, Record(c, d, s)
      PROVE  CommandOK(c)'
  <2>1. /\ [decision |-> d, status |-> s] \in FinalReceipts \cup {AcceptedReceipt}
        /\ d \notin Outcomes /\ d # "ACCEPTED"
    BY DEF FinalReceipts, Denials, Outcomes
  <2>2. Record(c, d, s)
    BY <1>3
  <2> QED
    BY <1>1, <1>2, <2>1, <2>2, FirstReceipt
<1>4. ASSUME NEW next \in {"scoped", "entitled"}, Go(c, next), UNCHANGED receipt,
             InScope(request[c]), Authorized(role[Home[c]], request[c].route)
      PROVE  CommandOK(c)'
  <2>1. pc'[c] = next /\ receipt'[c] = receipt[c]
    BY <1>4 DEF Go, TypeOK
  <2>2. SealedOf(c)' = SealedOf(c)
    BY <1>1, SealedKept DEF OutsideGate, journalVars
  <2>3. SealedAsFarAs(c)' /\ Told(c)'
    BY <1>1, <1>2, <2>1, <2>2 DEF CommandOK, SealedAsFarAs, Told, Pending
  <2>4. Cleared(c)'
    BY <1>1, <1>2, <1>4, <2>1
      DEF CommandOK, Cleared, Pending, InFlight, Operational, OutsideGate, journalVars
  <2> QED
    BY <2>3, <2>4 DEF CommandOK
<1>5. ASSUME Go(c, "died"), UNCHANGED receipt PROVE CommandOK(c)'
  <2>1. pc'[c] = "died"
    BY <1>5 DEF Go, TypeOK
  <2>2. SealedOf(c)' = SealedOf(c)
    BY <1>1, SealedKept DEF OutsideGate, journalVars
  <2> QED
    BY <1>1, <1>2, <2>1, <2>2
      DEF CommandOK, SealedAsFarAs, Cleared, Told, Pending, InFlight
<1>6. CASE CheckScope(c)
  <2>1. CASE RefuseOrigin(c)
    BY <1>3, <1>5, <2>1 DEF RefuseOrigin, Denials
  <2>2. CASE InScope(request[c])
    BY <1>3, <1>4, <1>6, <2>2 DEF CheckScope, RefuseOrigin, InScope, Denials
  <2> QED
    BY <1>6, <2>1, <2>2 DEF CheckScope
<1>7. CASE CheckEntitlement(c)
  <2>1. InScope(request[c]) /\ Authorized(role[Home[c]], request[c].route)
    BY <1>1, <1>7 DEF CheckEntitlement, CommandOK, Cleared
  <2> QED
    BY <1>3, <1>4, <1>7, <2>1 DEF CheckEntitlement, Denials
<1>8. CASE ReadBody(c)
  <2>1. InScope(request[c]) /\ Authorized(role[Home[c]], request[c].route)
    BY <1>1, <1>8 DEF ReadBody, CommandOK, Cleared
  <2>2. ASSUME Record(c, "ACCEPTED", 0), request[c].body = "object" PROVE CommandOK(c)'
    BY <1>1, <1>2, <2>1, <2>2, FirstReceipt DEF AcceptedReceipt, Outcomes
  <2> QED
    BY <1>3, <1>5, <1>8, <2>2 DEF ReadBody, Denials
<1> QED
  BY <1>6, <1>7, <1>8

\* Arriving at the server preserves the command's invariant.
LEMMA ReceiveStep ==
  ASSUME TypeOK, GateInv, NEW c \in Commands, Receive(c)
  PROVE  CommandOK(c)'
<1>1. /\ pc[c] = "idle" /\ request'[c] \in Requests /\ UNCHANGED <<receipt, executed>>
      /\ OutsideGate /\ CommandOK(c)
      /\ \/ pc'[c] = "answered" /\ response'[c] = 503
         \/ Operational(Home[c]) /\ pc'[c] = "received" /\ response'[c] = response[c]
  BY DEF Receive, GateInv, Answer, Go, TypeOK
<1>2. SealedOf(c) = {} /\ c \notin executed /\ response[c] = 0
  BY <1>1 DEF CommandOK, SealedAsFarAs
<1>3. SealedOf(c)' = SealedOf(c)
  BY <1>1, SealedKept DEF OutsideGate, journalVars
<1>4. SealedAsFarAs(c)' /\ Told(c)'
  BY <1>1, <1>2, <1>3 DEF SealedAsFarAs, Told, Pending
<1>5. Cleared(c)'
  BY <1>1 DEF Cleared, Pending, InFlight, Operational, OutsideGate, journalVars
<1> QED
  BY <1>4, <1>5 DEF CommandOK

\* Taking the write lock preserves the command's invariant.
LEMMA StartSealStep ==
  ASSUME TypeOK, GateInv, NEW c \in Commands, StartSeal(c)
  PROVE  CommandOK(c)'
<1>1. /\ pc[c] = "sealing" /\ pc'[c] = "committing" /\ CommandOK(c)
      /\ UNCHANGED <<role, request, receipt, response, executed, key, rows>>
  BY DEF StartSeal, BeginAppend, GateInv, Go, TypeOK
<1>2. SealedOf(c)' = SealedOf(c)
  BY <1>1, SealedKept
<1>3. SealedAsFarAs(c)' /\ Told(c)'
  BY <1>1, <1>2 DEF CommandOK, SealedAsFarAs, Told, Pending
<1>4. Cleared(c)'
  BY <1>1 DEF CommandOK, Cleared, Pending, InFlight, Operational
<1> QED
  BY <1>3, <1>4 DEF CommandOK

\* A durable receipt preserves the command's invariant and the discipline of
\* the whole journal.
LEMMA FinishSealStep ==
  ASSUME TypeOK, GateInv, NEW c \in Commands, FinishSeal(c)
  PROVE  CommandOK(c)' /\ ReceiptDiscipline'
<1> DEFINE r == receipt[c]
           n == Len(rows)
<1>1. /\ pc[c] = "committing" /\ CommandOK(c) /\ CommitAppend(c, Entry(c))
      /\ UNCHANGED <<role, request, receipt, executed, key>>
      /\ \/ r.decision = "ACCEPTED" /\ pc'[c] = "accepted" /\ response'[c] = response[c]
         \/ r.decision # "ACCEPTED" /\ pc'[c] = "answered" /\ response'[c] = r.status
  BY DEF FinishSeal, CommitAppend, GateInv, Answer, Go, TypeOK
<1>2. /\ r \in FinalReceipts \cup {AcceptedReceipt} /\ r \in Receipts
      /\ r.decision = "ACCEPTED" => r = AcceptedReceipt
      /\ r.decision \in Denials \cup {"ACCEPTED"} => SealedOf(c) = {} /\ c \notin executed
      /\ r.decision \in Outcomes => SealedOf(c) = {AcceptedReceipt}
      /\ r.decision = "COMPLETED" => c \in executed
      /\ response[c] = 0
  BY <1>1 DEF CommandOK, SealedAsFarAs, Pending, FinalReceipts, AcceptedReceipt, Receipts,
              Decisions, Denials, Outcomes
<1>3. /\ n \in Nat /\ Len(rows') = n + 1
      /\ \A i \in 1 .. n : rows'[i].record.entry = EntryAt(i)
      /\ rows'[n + 1].record.entry = Entry(c)
      /\ SealedOf(c)' = SealedOf(c) \cup {r}
  BY <1>1, <1>2, SealedAppended
<1>4. /\ r.decision \in Denials \cup {"ACCEPTED"} \cup Outcomes
      /\ r.decision # "ACCEPTED" => r.status \notin {0, 500, 503}
  BY <1>2 DEF FinalReceipts, AcceptedReceipt, Decisions
<1>5. SealedAsFarAs(c)'
  BY <1>1, <1>2, <1>3 DEF SealedAsFarAs, Pending
<1>6. Cleared(c)'
  BY <1>1 DEF CommandOK, Cleared, Pending, InFlight, Operational
<1>7. Told(c)'
  <2> DEFINE decided == {q.decision : q \in SealedOf(c)}
  <2>1. {q.decision : q \in SealedOf(c)'} = decided \cup {r.decision}
    BY <1>3
  <2>2. Told(c)
    BY <1>1 DEF CommandOK
  <2>3. CASE r.decision = "ACCEPTED"
    <3>1. decided = {} /\ response'[c] = 0 /\ c \notin executed
      BY <1>1, <1>2, <2>3
    <3>2. {q.decision : q \in SealedOf(c)'} = {"ACCEPTED"}
      BY <2>1, <2>3, <3>1
    <3>3. c \notin executed' /\ response'[c] = 0
      BY <1>1, <3>1
    <3> QED
      BY <3>2, <3>3 DEF Told
  <2>4. CASE r.decision \in Denials
    <3>1. decided = {} /\ r.decision # "ACCEPTED" /\ r.decision # "COMPLETED" /\ c \notin executed
      BY <1>2, <2>4 DEF Denials
    <3>2. response'[c] = r.status /\ r.status \notin {0, 500, 503} /\ r \in SealedOf(c)'
      BY <1>1, <1>3, <1>4, <3>1
    <3> QED
      BY <1>1, <2>1, <2>4, <3>1, <3>2 DEF Told
  <2>5. CASE r.decision \in Outcomes
    <3>1. /\ decided = {"ACCEPTED"} /\ r.decision # "ACCEPTED"
          /\ r.decision \notin Denials /\ "ACCEPTED" \notin Denials
      BY <1>2, <2>5 DEF Outcomes, Denials, AcceptedReceipt
    <3>2. response'[c] = r.status /\ r.status \notin {0, 500, 503} /\ r \in SealedOf(c)'
      BY <1>1, <1>3, <1>4, <3>1
    <3> QED
      BY <1>1, <1>2, <2>1, <2>5, <3>1, <3>2 DEF Told
  <2> QED
    BY <1>4, <2>3, <2>4, <2>5
<1>8. ReceiptDiscipline'
  <2> DEFINE At(i) == rows'[i].record.entry
  <2>1. Entry(c).command = c /\ Entry(c).decision = r.decision
    BY DEF Entry
  <2>2. ASSUME NEW i \in 1 .. n, EntryAt(i).command = c
        PROVE  EntryAt(i).decision = "ACCEPTED" /\ r.decision \in Outcomes
    <3>1. [decision |-> EntryAt(i).decision, status |-> EntryAt(i).status] \in SealedOf(c)
      BY <2>2, SealedOfRows
    <3>2. r.decision \in Outcomes /\ SealedOf(c) = {AcceptedReceipt}
      BY <1>2, <1>4, <3>1
    <3> QED
      BY <3>1, <3>2 DEF AcceptedReceipt
  <2>3. r.decision \in Outcomes =>
          \E i \in 1 .. n : EntryAt(i).command = c /\ EntryAt(i).decision = "ACCEPTED"
    BY <1>2, SealedOfRows DEF AcceptedReceipt
  <2>4. ReceiptDiscipline
    BY DEF GateInv
  <2> HIDE DEF r, n
  <2>5. ASSUME NEW i \in 1 .. n + 1, NEW j \in 1 .. n + 1, i < j, At(i).command = At(j).command
        PROVE  At(i).decision = "ACCEPTED" /\ At(j).decision \in Outcomes
    <3>1. CASE j \in 1 .. n
      <4>1. i \in 1 .. n
        BY <1>3, <2>5, <3>1
      <4>2. EntryAt(i).command = EntryAt(j).command
        BY <1>3, <2>5, <3>1, <4>1
      <4> QED
        BY <1>3, <2>4, <2>5, <3>1, <4>1, <4>2 DEF ReceiptDiscipline, n
    <3>2. CASE j = n + 1
      <4>1. i \in 1 .. n
        BY <1>3, <2>5, <3>2
      <4> QED
        BY <1>3, <2>1, <2>2, <2>5, <3>2, <4>1
    <3> QED
      BY <1>3, <3>1, <3>2
  <2>6. ASSUME NEW j \in 1 .. n + 1, At(j).decision \in Outcomes
        PROVE  \E i \in 1 .. (j - 1) : At(i).command = At(j).command /\ At(i).decision = "ACCEPTED"
    <3>1. CASE j \in 1 .. n
      <4>1. PICK i \in 1 .. (j - 1) :
              EntryAt(i).command = EntryAt(j).command /\ EntryAt(i).decision = "ACCEPTED"
        BY <1>3, <2>4, <2>6, <3>1 DEF ReceiptDiscipline, n
      <4>2. i \in 1 .. n
        BY <1>3, <3>1, <4>1
      <4> QED
        BY <1>3, <3>1, <4>1, <4>2
    <3>2. CASE j = n + 1
      BY <1>3, <2>1, <2>3, <2>6, <3>2
    <3> QED
      BY <1>3, <3>1, <3>2
  <2> QED
    BY <1>3, <2>5, <2>6 DEF ReceiptDiscipline, EntryAt
<1> QED
  BY <1>5, <1>6, <1>7, <1>8 DEF CommandOK

\* A failed append preserves the command's invariant: what is answered says
\* whether the route has run.
LEMMA FailSealStep ==
  ASSUME TypeOK, GateInv, NEW c \in Commands, FailSeal(c)
  PROVE  CommandOK(c)'
<1>1. /\ pc[c] \in {"sealing", "committing"} /\ CommandOK(c)
      /\ pc'[c] = "answered" /\ response'[c] = FailureStatus(c)
      /\ UNCHANGED <<role, request, receipt, executed, key, rows>>
  BY DEF FailSeal, RollbackAppend, journalVars, GateInv, Answer, Go, TypeOK
<1>2. SealedOf(c)' = SealedOf(c)
  BY <1>1, SealedKept
<1>3. /\ receipt[c].decision \in Outcomes => SealedOf(c) = {AcceptedReceipt}
      /\ receipt[c].decision \notin Outcomes => SealedOf(c) = {} /\ c \notin executed
  BY <1>1 DEF CommandOK, SealedAsFarAs, Pending, FinalReceipts, AcceptedReceipt
<1>4. SealedAsFarAs(c)' /\ Cleared(c)'
  BY <1>1 DEF SealedAsFarAs, Cleared, Pending, InFlight
<1>5. Told(c)'
  BY <1>1, <1>2, <1>3 DEF CommandOK, Told, FailureStatus
<1> QED
  BY <1>4, <1>5 DEF CommandOK

\* Calling a route, or not finding one, preserves the command's invariant.
LEMMA RouteStep ==
  ASSUME TypeOK, GateInv, NEW c \in Commands,
         ExecuteRoute(c) \/ RouteRaises(c) \/ RouteNotFound(c)
  PROVE  CommandOK(c)'
<1>1. /\ pc[c] = "accepted" /\ CommandOK(c)
      /\ UNCHANGED <<journalVars, role, request, response>>
  BY DEF ExecuteRoute, RouteRaises, RouteNotFound, CallRoute, OutsideGate, GateInv
<1>2. /\ SealedOf(c) = {AcceptedReceipt} /\ c \notin executed /\ response[c] = 0
      /\ SealedOf(c)' = SealedOf(c)
  BY <1>1, SealedKept DEF CommandOK, SealedAsFarAs, journalVars
<1>3. Told(c)'
  <2>1. {q.decision : q \in SealedOf(c)'} = {"ACCEPTED"}
    BY <1>2 DEF AcceptedReceipt
  <2> QED
    BY <1>1, <1>2, <2>1 DEF Told, Denials
<1>4. ASSUME NEW s \in Nat \ {0, 500, 503}, NEW d \in Outcomes, Record(c, d, s),
             d = "COMPLETED" => c \in executed'
      PROVE  SealedAsFarAs(c)' /\ Cleared(c)'
  <2>1. pc'[c] = "sealing" /\ receipt'[c] = [decision |-> d, status |-> s]
    BY <1>4 DEF Record, Go, TypeOK
  <2>2. receipt'[c] \in FinalReceipts /\ d \notin Denials \cup {"ACCEPTED"}
    BY <2>1 DEF FinalReceipts, Outcomes, Denials
  <2>3. SealedAsFarAs(c)'
    BY <1>1, <1>2, <1>4, <2>1, <2>2 DEF SealedAsFarAs, Pending
  <2>4. Cleared(c)'
    BY <1>1, <2>1, <2>2 DEF CommandOK, Cleared, Pending, InFlight, Operational, journalVars
  <2> QED
    BY <2>3, <2>4
<1>5. CASE ExecuteRoute(c)
  <2>1. PICK s \in RouteStatuses(request[c].route) : Record(c, OutcomeOf(s), s)
    BY <1>5 DEF ExecuteRoute
  <2>2. c \in executed'
    BY <1>5 DEF ExecuteRoute, CallRoute
  <2> QED
    BY <1>3, <1>4, <2>1, <2>2, RouteStatusIsFinal DEF CommandOK
<1>6. CASE RouteRaises(c)
  <2>1. pc'[c] = "died"
    BY <1>6 DEF RouteRaises, Go, TypeOK
  <2>2. SealedAsFarAs(c)' /\ Cleared(c)'
    BY <1>1, <1>2, <2>1 DEF SealedAsFarAs, Cleared, Pending, InFlight
  <2> QED
    BY <1>3, <2>2 DEF CommandOK
<1>7. CASE RouteNotFound(c)
  <2>1. Record(c, "FAILED", 404)
    BY <1>7 DEF RouteNotFound, OutcomeOf
  <2> QED
    BY <1>3, <1>4, <2>1 DEF CommandOK, Outcomes
<1> QED
  BY <1>5, <1>6, <1>7

------------------------------------------------------------------------------
(* The steps of processes and of the environment *)

\* Starting a process, opening its journal and ending it preserve the
\* invariant of every command: no command is in flight in a process that
\* starts or opens, and those of a process that ends are lost.
LEMMA ProcessSteps ==
  ASSUME TypeOK, JournalInv, GateInv, NEW p \in Procs,
         StartProcess(p) \/ OpenJournal(p) \/ EndProcess(p),
         NEW c \in Commands
  PROVE  CommandOK(c)'
<1>1. /\ CommandOK(c) /\ UNCHANGED <<request, receipt, response, executed>>
      /\ rows' = rows
  BY DEF GateInv, StartProcess, OpenJournal, EndProcess, OpenStep, StopJournal, OpenUnavailable,
         KeepTable, LoadKey, RefuseMalformedKey, MissKey, RefuseOrphanedRows, FindNoRows,
         LoseCreationRace, CreateKeyFile, WriteKey, OpenFails, commandVars
<1>2. SealedOf(c)' = SealedOf(c)
  BY <1>1, SealedKept
<1>3. InFlight(c) => Operational(Home[c]) /\ stage[Home[c]] = "up" /\ Home[c] \in Procs
  BY <1>1, HomeAssumption DEF CommandOK, Cleared, JournalInv, HeldKeyIsOnDisk
<1>4. CASE StartProcess(p)
  <2>1. pc' = pc /\ key' = key /\ (InFlight(c) => role'[Home[c]] = role[Home[c]])
    BY <1>3, <1>4 DEF StartProcess, commandVars, TypeOK
  <2> QED
    BY <1>1, <1>2, <1>3, <2>1, CommandKept DEF Operational
<1>5. CASE OpenJournal(p)
  <2>1. pc' = pc /\ role' = role
    BY <1>5 DEF OpenJournal, commandVars
  <2>2. InFlight(c) => key'[Home[c]] = key[Home[c]]
    BY <1>3, <1>5
      DEF OpenJournal, OpenStep, OpenUnavailable, LoadKey, RefuseMalformedKey, MissKey,
          RefuseOrphanedRows, FindNoRows, LoseCreationRace, CreateKeyFile, WriteKey, OpenFails,
          TypeOK, JournalTypeOK
  <2> QED
    BY <1>1, <1>2, <1>3, <2>1, <2>2, CommandKept DEF Operational
<1>6. CASE EndProcess(p)
  <2>1. role' = role
    BY <1>6 DEF EndProcess
  <2>2. CASE Home[c] = p /\ InFlight(c)
    <3>1. pc'[c] = "lost" /\ pc[c] # "answered"
      BY <1>6, <2>2 DEF EndProcess, InFlight
    <3> QED
      BY <1>1, <1>2, <3>1
        DEF CommandOK, SealedAsFarAs, Cleared, Told, Pending, InFlight
  <2>3. CASE ~(Home[c] = p /\ InFlight(c))
    <3>1. pc'[c] = pc[c]
      BY <1>6, <2>3 DEF EndProcess
    <3>2. InFlight(c) => key'[Home[c]] = key[Home[c]]
      BY <1>3, <1>6, <2>3 DEF EndProcess, StopJournal, TypeOK, JournalTypeOK
    <3> QED
      BY <1>1, <1>2, <1>3, <2>1, <3>1, <3>2, CommandKept DEF Operational
  <2> QED
    BY <2>2, <2>3
<1> QED
  BY <1>4, <1>5, <1>6

\* Every step of the gate preserves its invariant.
LEMMA GateStep == TypeOK /\ JournalInv /\ GateInv /\ [Next]_vars => GateInv'
<1> SUFFICES ASSUME TypeOK, JournalInv, GateInv, [Next]_vars PROVE GateInv'
  OBVIOUS
<1>1. ASSUME NEW p \in Procs, StartProcess(p) \/ OpenJournal(p) \/ EndProcess(p)
      PROVE  GateInv'
  <2>1. rows' = rows
    BY <1>1 DEF StartProcess, OpenJournal, EndProcess, OpenStep, StopJournal, OpenUnavailable,
         KeepTable, LoadKey, RefuseMalformedKey, MissKey, RefuseOrphanedRows, FindNoRows,
         LoseCreationRace, CreateKeyFile, WriteKey, OpenFails
  <2> QED
    BY <1>1, <2>1, ProcessSteps, SealedKept DEF GateInv
<1>2. ASSUME NEW c \in Commands, Receive(c) \/ HandlerStep(c)
      PROVE  GateInv'
  <2>1. CommandOK(c)'
    BY <1>2, ReceiveStep, GateSteps, StartSealStep, FinishSealStep, FailSealStep, RouteStep
      DEF HandlerStep
  <2>2. ReceiptDiscipline'
    <3>1. CASE FinishSeal(c)
      BY <3>1, FinishSealStep
    <3>2. CASE ~FinishSeal(c)
      <4>1. rows' = rows
        BY <1>2, <3>2
          DEF Receive, HandlerStep, CheckScope, CheckEntitlement, ReadBody, StartSeal, FailSeal,
              ExecuteRoute, RouteRaises, RouteNotFound, OutsideGate, journalVars, BeginAppend,
              RollbackAppend
      <4> QED
        BY <4>1, SealedKept DEF GateInv
    <3> QED
      BY <3>1, <3>2
  <2> QED
    BY <1>2, <2>1, <2>2, OtherCommands DEF GateInv
<1>3. CASE Environment \/ UNCHANGED vars
  <2>1. UNCHANGED <<rows, key, role, request, pc, receipt, response, executed>>
    BY <1>3 DEF Environment, LoseKeyFile, KeepTable, vars, journalVars, commandVars
  <2>2. \A c \in Commands : CommandOK(c)'
    BY <2>1, SealedKept, CommandKept DEF GateInv, CommandOK, Cleared, Operational
  <2> QED
    BY <2>1, <2>2, SealedKept DEF GateInv
<1> QED
  BY <1>1, <1>2, <1>3 DEF Next

\* The receipts, route calls and answers of every command agree with how far
\* its handler thread has come, throughout every run.
THEOREM GateInvariant == Spec => []GateInv
<1>1. Init => GateInv
  BY EmptySeq
    DEF Init, JournalInit, GateInv, CommandOK, SealedAsFarAs, Cleared, Told, SealedOf, Pending,
        InFlight, ReceiptDiscipline
<1> QED
  BY <1>1, GateStep, TypeCorrect, JournalInvariant, PTL DEF Spec

------------------------------------------------------------------------------
(* What the invariant says *)

\* The receipts of every command are one denial, or ACCEPTED and at most one
\* outcome, in that order (do_POST, deny_post, send_json).
THEOREM ReceiptsAreDisciplined == Spec => []ReceiptDiscipline
<1>1. GateInv => ReceiptDiscipline
  BY DEF GateInv
<1> QED
  BY <1>1, GateInvariant, PTL

\* What is sealed of a command, read from the rows.
LEMMA DecidedIsSealedAs ==
  ASSUME NEW c \in Commands, NEW decisions
  PROVE  SealedAs(c, decisions) <=> {r.decision : r \in SealedOf(c)} \cap decisions # {}
<1>1. ASSUME SealedAs(c, decisions)
      PROVE  {r.decision : r \in SealedOf(c)} \cap decisions # {}
  <2>1. PICK i \in 1 .. Len(rows) : EntryAt(i).command = c /\ EntryAt(i).decision \in decisions
    BY <1>1 DEF SealedAs
  <2>2. [decision |-> EntryAt(i).decision, status |-> EntryAt(i).status] \in SealedOf(c)
    BY <2>1 DEF SealedOf
  <2> QED
    BY <2>1, <2>2
<1>2. ASSUME {r.decision : r \in SealedOf(c)} \cap decisions # {}
      PROVE  SealedAs(c, decisions)
  BY <1>2, SealedOfRows DEF SealedAs
<1> QED
  BY <1>1, <1>2

\* The journal says of every command what happened to it.
THEOREM JournalIsTruthful == Spec => []JournalTellsWhatRan
<1>1. TypeOK /\ GateInv => JournalTellsWhatRan
  <2> SUFFICES ASSUME TypeOK, GateInv
               PROVE  JournalTellsWhatRan
    OBVIOUS
  <2>1. ASSUME NEW c \in Commands
        PROVE  /\ c \in executed => SealedAs(c, {"ACCEPTED"}) /\ ~SealedAs(c, Denials)
               /\ SealedAs(c, {"COMPLETED"}) => c \in executed
    <3> DEFINE decided == {r.decision : r \in SealedOf(c)}
    <3>1. /\ c \in executed => "ACCEPTED" \in decided /\ decided \cap Denials = {}
          /\ "COMPLETED" \in decided => c \in executed
      BY DEF GateInv, CommandOK, Told
    <3>2. \A decisions : SealedAs(c, decisions) <=> decided \cap decisions # {}
      BY DecidedIsSealedAs
    <3> HIDE DEF decided
    <3> QED
      BY <3>1, <3>2
  <2>2. executed \subseteq Commands
    BY DEF TypeOK
  <2> QED
    BY <2>1, <2>2 DEF JournalTellsWhatRan
<1> QED
  BY <1>1, TypeCorrect, GateInvariant, PTL

\* The client is told what the journal holds.
THEOREM AnswersAreTruthful == Spec => []ResponseIsTruthful
<1>1. GateInv => ResponseIsTruthful
  <2> SUFFICES ASSUME GateInv, NEW c \in Commands
               PROVE  /\ response[c] = 503 => c \notin executed /\ ~SealedAs(c, Decisions)
                      /\ response[c] = 500 => SealedAs(c, {"ACCEPTED"}) /\ ~SealedAs(c, Outcomes)
                      /\ response[c] \notin {0, 500, 503} =>
                           \E i \in 1 .. Len(rows) :
                             /\ EntryAt(i).command = c /\ EntryAt(i).status = response[c]
                             /\ EntryAt(i).decision \in Denials \cup Outcomes
    BY DEF ResponseIsTruthful
  <2>1. Told(c)
    BY DEF GateInv, CommandOK
  <2>2. response[c] = 503 => c \notin executed /\ ~SealedAs(c, Decisions)
    BY <2>1, DecidedIsSealedAs DEF Told
  <2>3. response[c] = 500 => SealedAs(c, {"ACCEPTED"}) /\ ~SealedAs(c, Outcomes)
    <3>1. SealedOf(c) = {AcceptedReceipt} =>
            {r.decision : r \in SealedOf(c)} = {"ACCEPTED"}
      BY DEF AcceptedReceipt
    <3> QED
      BY <2>1, <3>1, DecidedIsSealedAs DEF Told, Outcomes
  <2>4. response[c] \notin {0, 500, 503} =>
          \E i \in 1 .. Len(rows) :
            /\ EntryAt(i).command = c /\ EntryAt(i).status = response[c]
            /\ EntryAt(i).decision \in Denials \cup Outcomes
    BY <2>1, SealedOfRows DEF Told
  <2> QED
    BY <2>2, <2>3, <2>4
<1> QED
  BY <1>1, GateInvariant, PTL

\* A route is called only by a request that passed every gate, with its
\* ACCEPTED receipt durable in a journal its own process verifies.
THEOREM OnlyAuthorizedExecution == Spec => ExecutionIsAuthorized
<1> DEFINE Permitted ==
      \A c \in executed' \ executed :
        LET p == Home[c] IN
        /\ InScope(request[c]) /\ request[c].body = "object"
        /\ Authorized(role[p], request[c].route)
        /\ Operational(p) /\ Verifies(key[p], rows)
        /\ SealedAs(c, {"ACCEPTED"}) /\ ~SealedAs(c, Outcomes)
<1>1. ASSUME TypeOK, JournalInv, GateInv, [Next]_vars
      PROVE  Permitted \/ UNCHANGED vars
  <2> SUFFICES ASSUME NEW c \in executed', c \notin executed
               PROVE  LET p == Home[c] IN
                      /\ InScope(request[c]) /\ request[c].body = "object"
                      /\ Authorized(role[p], request[c].route)
                      /\ Operational(p) /\ Verifies(key[p], rows)
                      /\ SealedAs(c, {"ACCEPTED"}) /\ ~SealedAs(c, Outcomes)
    OBVIOUS
  <2>1. CallRoute(c) /\ c \in Commands
    BY <1>1
      DEF Next, StartProcess, OpenJournal, EndProcess, Receive, HandlerStep, CheckScope,
          CheckEntitlement, ReadBody, StartSeal, FinishSeal, FailSeal, ExecuteRoute, RouteRaises,
          RouteNotFound, CallRoute, Environment, vars, commandVars
  <2>2. /\ pc[c] = "accepted" /\ InFlight(c) /\ CommandOK(c) /\ Home[c] \in Procs
    BY <1>1, <2>1, HomeAssumption DEF CallRoute, InFlight, GateInv
  <2>3. /\ InScope(request[c]) /\ request[c].body = "object"
        /\ Authorized(role[Home[c]], request[c].route) /\ Operational(Home[c])
    BY <2>2 DEF CommandOK, Cleared
  <2>4. Verifies(key[Home[c]], rows)
    BY <1>1, <2>2, <2>3, HeldKeyVerifies
  <2>5. {r.decision : r \in SealedOf(c)} = {"ACCEPTED"}
    <3>1. SealedOf(c) = {AcceptedReceipt}
      BY <2>2 DEF CommandOK, SealedAsFarAs
    <3> QED
      BY <3>1 DEF AcceptedReceipt
  <2>6. SealedAs(c, {"ACCEPTED"}) /\ ~SealedAs(c, Outcomes)
    BY <2>1, <2>5, DecidedIsSealedAs DEF Outcomes
  <2> QED
    BY <2>3, <2>4, <2>6
<1> QED
  BY <1>1, TypeCorrect, JournalInvariant, GateInvariant, PTL DEF Spec, ExecutionIsAuthorized

------------------------------------------------------------------------------
(* License reload *)

\* No reload is denied for its entitlement, in the journal or about to be.
ReloadSpared(c) ==
  request[c].route = "license/reload" =>
    /\ ~Pending(c, {"DENIED_LICENSE"})
    /\ \A r \in SealedOf(c) : r.decision # "DENIED_LICENSE"

ReloadInv ==
  /\ \A c \in Commands : ReloadSpared(c)
  /\ \A i \in 1 .. Len(rows) : EntryAt(i).command \in Commands

\* A step that keeps the table, the requests and the receipts of those that
\* are about to be sealed keeps reloads spared.
LEMMA ReloadKept ==
  ASSUME ReloadInv, UNCHANGED <<rows, request>>,
         \A c \in Commands : Pending(c, {"DENIED_LICENSE"})' =>
           Pending(c, {"DENIED_LICENSE"}) \/ request[c].route # "license/reload"
  PROVE  ReloadInv'
<1>1. \A c \in Commands : SealedOf(c)' = SealedOf(c)
  BY SealedKept
<1>2. \A c \in Commands : ReloadSpared(c)'
  BY <1>1 DEF ReloadInv, ReloadSpared
<1>3. \A i \in 1 .. Len(rows') : EntryAt(i)' \in {EntryAt(i)}
  BY DEF EntryAt
<1> QED
  BY <1>2, <1>3 DEF ReloadInv

LEMMA ReloadStep == TypeOK /\ GateInv /\ ReloadInv /\ [Next]_vars => ReloadInv'
<1> SUFFICES ASSUME TypeOK, GateInv, ReloadInv, [Next]_vars PROVE ReloadInv'
  OBVIOUS
<1>1. ASSUME NEW p \in Procs, StartProcess(p) \/ OpenJournal(p) \/ EndProcess(p)
      PROVE  ReloadInv'
  <2>1. rows' = rows /\ request' = request /\ receipt' = receipt
    BY <1>1 DEF StartProcess, OpenJournal, EndProcess, OpenStep, StopJournal, OpenUnavailable,
         KeepTable, LoadKey, RefuseMalformedKey, MissKey, RefuseOrphanedRows, FindNoRows,
         LoseCreationRace, CreateKeyFile, WriteKey, OpenFails, commandVars
  <2>2. \A c \in Commands : pc'[c] \in {pc[c], "lost"}
    BY <1>1 DEF StartProcess, OpenJournal, EndProcess, commandVars
  <2> QED
    BY <2>1, <2>2, ReloadKept DEF Pending
<1>2. ASSUME NEW c \in Commands, Receive(c) PROVE ReloadInv'
  <2>1. /\ rows' = rows /\ receipt' = receipt
        /\ pc'[c] \in {"answered", "received"}
        /\ \A d \in Commands \ {c} : pc'[d] = pc[d] /\ request'[d] = request[d]
    BY <1>2 DEF Receive, Answer, Go, OutsideGate, journalVars, TypeOK
  <2>2. SealedOf(c) = {}
    BY <1>2 DEF Receive, GateInv, CommandOK, SealedAsFarAs
  <2>3. \A d \in Commands : SealedOf(d)' = SealedOf(d)
    BY <2>1, SealedKept
  <2>4. ReloadSpared(c)'
    BY <2>1, <2>2, <2>3 DEF ReloadSpared, Pending
  <2>5. \A d \in Commands \ {c} : ReloadSpared(d)'
    BY <2>1, <2>3 DEF ReloadInv, ReloadSpared, Pending
  <2>6. \A i \in 1 .. Len(rows') : rows'[i].record.entry.command \in Commands
    BY <2>1 DEF ReloadInv, EntryAt
  <2> QED
    BY <2>4, <2>5, <2>6 DEF ReloadInv, EntryAt
<1>3. ASSUME NEW c \in Commands, CheckEntitlement(c) PROVE ReloadInv'
  <2>1. request[c].route = "license/reload" => IsEntitled(Home[c], RequiredEntitlement(request[c].route))
    BY DEF IsEntitled, RequiredEntitlement, ResearchRoutes, GatewayRoutes
  <2>2. UNCHANGED <<rows, request>> /\ pc[c] = "scoped"
    BY <1>3 DEF CheckEntitlement, OutsideGate, journalVars
  <2>3. \A d \in Commands \ {c} : pc'[d] = pc[d] /\ receipt'[d] = receipt[d]
    BY <1>3 DEF CheckEntitlement, Record, Go, TypeOK
  <2>4. request[c].route = "license/reload" => pc'[c] = "entitled"
    BY <1>3, <2>1 DEF CheckEntitlement, Go, TypeOK
  <2> QED
    BY <2>2, <2>3, <2>4, ReloadKept DEF Pending
<1>4. ASSUME NEW c \in Commands,
             CheckScope(c) \/ ReadBody(c) \/ ExecuteRoute(c) \/ RouteNotFound(c) \/ RouteRaises(c)
      PROVE  ReloadInv'
  <2>1. UNCHANGED <<rows, request>>
    BY <1>4 DEF CheckScope, ReadBody, ExecuteRoute, RouteNotFound, RouteRaises, OutsideGate, journalVars
  <2>2. \A d \in Commands \ {c} : pc'[d] = pc[d] /\ receipt'[d] = receipt[d]
    BY <1>4 DEF CheckScope, RefuseOrigin, ReadBody, ExecuteRoute, RouteNotFound, RouteRaises, Record, Go, TypeOK
  <2>3. pc'[c] # "sealing" \/ receipt'[c].decision # "DENIED_LICENSE"
    BY <1>4
    DEF CheckScope, RefuseOrigin, ReadBody, ExecuteRoute, RouteNotFound, RouteRaises, Record, Go, OutcomeOf, TypeOK
  <2>4. pc'[c] # "committing"
    BY <1>4 DEF CheckScope, RefuseOrigin, ReadBody, ExecuteRoute, RouteNotFound, RouteRaises, Record, Go, TypeOK
  <2> QED
    BY <2>1, <2>2, <2>3, <2>4, ReloadKept DEF Pending
<1>5. ASSUME NEW c \in Commands, StartSeal(c) \/ FailSeal(c) PROVE ReloadInv'
  <2>1. UNCHANGED <<rows, request, receipt>>
    BY <1>5 DEF StartSeal, FailSeal, journalVars, BeginAppend, RollbackAppend
  <2>2. \A d \in Commands \ {c} : pc'[d] = pc[d]
    BY <1>5 DEF StartSeal, FailSeal, Answer, Go, TypeOK
  <2>3. pc[c] \in {"sealing", "committing"}
    BY <1>5 DEF StartSeal, FailSeal
  <2> QED
    BY <2>1, <2>2, <2>3, ReloadKept DEF Pending
<1>6. ASSUME NEW c \in Commands, FinishSeal(c) PROVE ReloadInv'
  <2>1. receipt[c] \in Receipts
    BY <1>6 DEF FinishSeal, GateInv, CommandOK, SealedAsFarAs, FinalReceipts,
                AcceptedReceipt, Receipts, Decisions
  <2>2. /\ Len(rows) \in Nat /\ Len(rows') = Len(rows) + 1
        /\ \A i \in 1 .. Len(rows) : rows'[i].record.entry = EntryAt(i)
        /\ rows'[Len(rows) + 1].record.entry = Entry(c)
        /\ SealedOf(c)' = SealedOf(c) \cup {receipt[c]}
        /\ \A d \in Commands \ {c} : SealedOf(d)' = SealedOf(d)
    BY <1>6, <2>1, SealedAppended DEF FinishSeal
  <2>3. UNCHANGED <<request, receipt>> /\ pc'[c] \in {"accepted", "answered"}
          /\ (\A d \in Commands \ {c} : pc'[d] = pc[d])
    BY <1>6 DEF FinishSeal, Answer, Go, TypeOK
  <2>4. receipt[c].decision = "DENIED_LICENSE" => Pending(c, {"DENIED_LICENSE"})
    BY <1>6 DEF FinishSeal, Pending
  <2>5. ReloadSpared(c)'
    BY <2>2, <2>3, <2>4 DEF ReloadInv, ReloadSpared, Pending
  <2>6. \A d \in Commands \ {c} : ReloadSpared(d)'
    BY <2>2, <2>3 DEF ReloadInv, ReloadSpared, Pending
  <2>7. \A i \in 1 .. Len(rows') : rows'[i].record.entry.command \in Commands
    <3>1. Entry(c).command = c
      BY DEF Entry
    <3> QED
      BY <2>2, <3>1 DEF ReloadInv, EntryAt
  <2> QED
    BY <2>5, <2>6, <2>7 DEF ReloadInv, EntryAt
<1>7. CASE Environment \/ UNCHANGED vars
  <2>1. UNCHANGED <<rows, request, pc, receipt>>
    BY <1>7 DEF Environment, LoseKeyFile, KeepTable, vars, journalVars, commandVars
  <2> QED
    BY <2>1, ReloadKept DEF Pending
<1> QED
  BY <1>1, <1>2, <1>3, <1>4, <1>5, <1>6, <1>7 DEF Next, HandlerStep

\* A license reload is never denied for want of an entitlement, whatever the
\* license, so a bad license can always be replaced (access.py).
THEOREM ReloadIsNeverLockedOut == Spec => []ReloadNeverLockedOut
<1>1. Init => ReloadInv
  BY EmptySeq DEF Init, JournalInit, ReloadInv, ReloadSpared, Pending, SealedOf
<1>2. ReloadInv => ReloadNeverLockedOut
  BY SealedOfRows DEF ReloadInv, ReloadSpared, ReloadNeverLockedOut
<1> QED
  BY <1>1, <1>2, ReloadStep, TypeCorrect, GateInvariant, PTL DEF Spec

------------------------------------------------------------------------------
(* The receipt contract *)

\* The journal as the contract sees it.
ReceiptAt(i) == [command |-> EntryAt(i).command, decision |-> EntryAt(i).decision]
Journal == [i \in 1 .. Len(rows) |-> ReceiptAt(i)]

\* A step that keeps the table keeps the receipts.
LEMMA ReceiptsKept == ASSUME rows' = rows PROVE Journal' = Journal
BY DEF Journal, ReceiptAt, EntryAt

\* They are as many as there are rows.
LEMMA JournalIsSequence ==
  ASSUME TypeOK
  PROVE  /\ Len(rows) \in Nat /\ Journal \in Seq({ReceiptAt(i) : i \in 1 .. Len(rows)})
         /\ Len(Journal) = Len(rows) /\ \A i \in 1 .. Len(rows) : Journal[i] = ReceiptAt(i)
<1>1. rows \in Seq({rows[i] : i \in DOMAIN rows})
  BY DEF TypeOK, JournalTypeOK
<1>2. Len(rows) \in Nat
  BY <1>1, LenProperties
<1> DEFINE n == Len(rows)
           S == {ReceiptAt(i) : i \in 1 .. n}
<1>3. Journal = [i \in 1 .. n |-> ReceiptAt(i)] /\ \A i \in 1 .. n : ReceiptAt(i) \in S
  BY DEF Journal
<1> HIDE DEF n, S
<1>4. n \in Nat /\ Journal \in Seq(S)
  BY <1>2, <1>3, IsASeq DEF n
<1>5. Len(Journal) = n
  BY <1>3, <1>4, LenProperties
<1> QED
  BY <1>3, <1>4, <1>5 DEF n, S

\* Finishing a seal appends the command's receipt to those the contract sees.
LEMMA ReceiptAppended ==
  ASSUME TypeOK, NEW c \in Commands, CommitAppend(c, Entry(c)), receipt[c] \in Receipts
  PROVE  Journal' = Append(Journal, [command |-> c, decision |-> receipt[c].decision])
<1> DEFINE n == Len(rows)
           next == [command |-> c, decision |-> receipt[c].decision]
           S == {ReceiptAt(i) : i \in 1 .. n} \cup {next}
<1>1. /\ n \in Nat /\ Len(rows') = n + 1
      /\ \A i \in 1 .. n : rows'[i].record.entry = EntryAt(i)
      /\ rows'[n + 1].record.entry = Entry(c)
  BY SealedAppended
<1>2. Journal' = [i \in 1 .. n + 1 |-> IF i = n + 1 THEN next ELSE ReceiptAt(i)]
  <2> DEFINE At(i) == rows'[i].record.entry
  <2>1. Journal' = [i \in 1 .. n + 1 |-> [command |-> At(i).command, decision |-> At(i).decision]]
    BY <1>1 DEF Journal, ReceiptAt, EntryAt
  <2>2. \A i \in 1 .. n : [command |-> At(i).command, decision |-> At(i).decision] = ReceiptAt(i)
    BY <1>1 DEF ReceiptAt
  <2>3. [command |-> At(n + 1).command, decision |-> At(n + 1).decision] = next
    BY <1>1 DEF Entry
  <2>4. n + 1 \notin 1 .. n /\ \A i \in 1 .. n + 1 : i = n + 1 \/ i \in 1 .. n
    BY <1>1
  <2> HIDE DEF n, next, At
  <2> QED
    BY <2>1, <2>2, <2>3, <2>4
<1>3. Journal \in Seq(S) /\ Len(Journal) = n
  BY JournalIsSequence, SeqMonotonic
<1>4. next \in S
  OBVIOUS
<1> HIDE DEF S, next
<1>5. /\ Append(Journal, next) \in Seq(S) /\ Len(Append(Journal, next)) = n + 1
      /\ \A i \in 1 .. n : Append(Journal, next)[i] = Journal[i]
      /\ Append(Journal, next)[n + 1] = next
  BY <1>3, <1>4, AppendProperties
<1> QED
  BY <1>1, <1>2, <1>5 DEF next, Journal

\* What is sealed of a command is what the contract finds recorded of it.
LEMMA SealedIsRecorded ==
  ASSUME TypeOK, NEW c \in Commands
  PROVE  /\ Contract!Recorded(c) => SealedOf(c) # {}
         /\ \A D : Contract!RecordedAs(c, D) <=> \E r \in SealedOf(c) : r.decision \in D
<1>1. /\ Contract!Recorded(c) <=> \E i \in 1 .. Len(Journal) : Journal[i].command = c
      /\ \A D : Contract!RecordedAs(c, D)
                  <=> \E i \in 1 .. Len(Journal) : Journal[i].command = c /\ Journal[i].decision \in D
  BY DEF Contract!Recorded, Contract!RecordedAs, Journal, ReceiptAt
<1>2. /\ Len(Journal) = Len(rows)
      /\ \A i \in 1 .. Len(rows) : /\ Journal[i].command = EntryAt(i).command
                                   /\ Journal[i].decision = EntryAt(i).decision
  <2>1. Len(Journal) = Len(rows) /\ \A i \in 1 .. Len(rows) : Journal[i] = ReceiptAt(i)
    BY JournalIsSequence
  <2>2. \A i : ReceiptAt(i).command = EntryAt(i).command /\ ReceiptAt(i).decision = EntryAt(i).decision
    BY DEF ReceiptAt
  <2> QED
    BY <2>1, <2>2
<1>3. /\ Contract!Recorded(c) <=> \E i \in 1 .. Len(rows) : EntryAt(i).command = c
      /\ \A D : Contract!RecordedAs(c, D)
                  <=> \E i \in 1 .. Len(rows) : EntryAt(i).command = c /\ EntryAt(i).decision \in D
  BY <1>1, <1>2
<1>4. Contract!Recorded(c) => SealedOf(c) # {}
  BY <1>3, SealedOfRows
<1>5. ASSUME NEW D
      PROVE  (\E i \in 1 .. Len(rows) : EntryAt(i).command = c /\ EntryAt(i).decision \in D)
               <=> \E r \in SealedOf(c) : r.decision \in D
  <2> DEFINE View(i) == [decision |-> EntryAt(i).decision, status |-> EntryAt(i).status]
  <2>1. \A i \in 1 .. Len(rows) : EntryAt(i).command = c => View(i) \in SealedOf(c) /\ View(i).decision = EntryAt(i).decision
    BY SealedOfRows
  <2> HIDE DEF View
  <2> QED
    BY <2>1, SealedOfRows
<1> QED
  BY <1>3, <1>4, <1>5

\* The receipts of a command in whose name the next one is appended.
LEMMA ReceiptIsDue ==
  ASSUME TypeOK, GateInv, NEW c \in Commands, FinishSeal(c)
  PROVE  /\ receipt[c] \in Receipts /\ receipt[c].decision \in Decisions
         /\ receipt[c].decision \in Denials \cup {"ACCEPTED"} => ~Contract!Recorded(c)
         /\ receipt[c].decision \in Outcomes =>
              Contract!Open(c) /\ (receipt[c].decision = "COMPLETED" => c \in executed)
<1>1. SealedAsFarAs(c) /\ pc[c] = "committing"
  BY DEF FinishSeal, GateInv, CommandOK
<1>2. receipt[c] \in Receipts /\ receipt[c].decision \in Decisions
  BY <1>1 DEF SealedAsFarAs, FinalReceipts, AcceptedReceipt, Receipts, Decisions
<1>3. CASE receipt[c].decision \in Denials \cup {"ACCEPTED"}
  <2>1. SealedOf(c) = {}
    BY <1>1, <1>3 DEF SealedAsFarAs, Pending
  <2>2. receipt[c].decision \notin Outcomes
    BY <1>3 DEF Denials, Outcomes
  <2> QED
    BY <1>2, <2>1, <2>2, SealedIsRecorded
<1>4. CASE receipt[c].decision \in Outcomes
  <2>1. SealedOf(c) = {AcceptedReceipt} /\ (receipt[c].decision = "COMPLETED" => c \in executed)
    BY <1>1, <1>4 DEF SealedAsFarAs, Pending
  <2>2. AcceptedReceipt.decision = "ACCEPTED" /\ "ACCEPTED" \notin Outcomes
    BY DEF AcceptedReceipt, Outcomes
  <2>3. Contract!Open(c)
    BY <2>1, <2>2, SealedIsRecorded DEF Contract!Open
  <2>4. receipt[c].decision \notin Denials \cup {"ACCEPTED"}
    BY <1>4 DEF Denials, Outcomes
  <2> QED
    BY <1>2, <2>1, <2>3, <2>4
<1> QED
  BY <1>2, <1>3, <1>4 DEF Decisions

\* A receipt that becomes durable is one the contract lets be put.
LEMMA FinishSealContract ==
  ASSUME TypeOK, GateInv, NEW c \in Commands, FinishSeal(c)
  PROVE  Contract!Next
<1>1. /\ receipt[c] \in Receipts /\ receipt[c].decision \in Decisions
      /\ receipt[c].decision \in Denials \cup {"ACCEPTED"} => ~Contract!Recorded(c)
      /\ receipt[c].decision \in Outcomes =>
           Contract!Open(c) /\ (receipt[c].decision = "COMPLETED" => c \in executed)
  BY ReceiptIsDue
<1>2. executed' = executed /\ Journal' = Append(Journal, [command |-> c, decision |-> receipt[c].decision])
  BY <1>1, ReceiptAppended DEF FinishSeal
<1>3. Contract!Put(c, receipt[c].decision)
  BY <1>2 DEF Contract!Put, Journal, ReceiptAt
<1>4. Contract!Deny(c) \/ Contract!Accept(c) \/ Contract!Conclude(c)
  BY <1>1, <1>2, <1>3 DEF Decisions, Contract!Deny, Contract!Accept, Contract!Conclude
<1> QED
  BY <1>4 DEF Contract!Next

\* A step that leaves the table and the called routes alone is a stutter.
LEMMA ContractStutters ==
  ASSUME UNCHANGED <<rows, executed>>
  PROVE  UNCHANGED Contract!receiptVars
<1>1. Journal' = Journal
  BY ReceiptsKept
<1> QED
  BY <1>1 DEF Contract!receiptVars, Journal, ReceiptAt

\* A called route is called in the contract too.
LEMMA CallRouteContract ==
  ASSUME TypeOK, GateInv, NEW c \in Commands, CallRoute(c), rows' = rows
  PROVE  Contract!Next
<1>1. SealedOf(c) = {AcceptedReceipt} /\ c \notin executed
  BY DEF CallRoute, GateInv, CommandOK, SealedAsFarAs
<1>2. AcceptedReceipt.decision = "ACCEPTED" /\ "ACCEPTED" \notin Outcomes
  BY DEF AcceptedReceipt, Outcomes
<1>3. Contract!Open(c)
  BY <1>1, <1>2, SealedIsRecorded DEF Contract!Open
<1>4. Journal' = Journal
  BY ReceiptsKept
<1>5. Contract!Call(c)
  BY <1>1, <1>3, <1>4 DEF Contract!Call, CallRoute, Journal, ReceiptAt
<1> QED
  BY <1>5 DEF Contract!Next

\* Every step of the gate is a step of the contract or a stutter.
LEMMA ContractStep == TypeOK /\ GateInv /\ [Next]_vars => [Contract!Next]_(Contract!receiptVars)
<1> SUFFICES ASSUME TypeOK, GateInv, [Next]_vars PROVE [Contract!Next]_(Contract!receiptVars)
  OBVIOUS
<1>1. ASSUME NEW p \in Procs, StartProcess(p) \/ OpenJournal(p) \/ EndProcess(p)
      PROVE  UNCHANGED <<rows, executed>>
  BY <1>1 DEF StartProcess, OpenJournal, EndProcess, KeepTable, commandVars, StopJournal, OpenStep,
              LoadKey, RefuseMalformedKey, MissKey, RefuseOrphanedRows, FindNoRows, LoseCreationRace,
              CreateKeyFile, WriteKey, OpenFails, OpenUnavailable
<1>2. ASSUME NEW c \in Commands,
             Receive(c) \/ CheckScope(c) \/ CheckEntitlement(c) \/ ReadBody(c) \/ RouteNotFound(c)
      PROVE  UNCHANGED <<rows, executed>>
  BY <1>2 DEF Receive, CheckScope, CheckEntitlement, ReadBody, RouteNotFound, OutsideGate, journalVars
<1>3. ASSUME NEW c \in Commands, StartSeal(c) \/ FailSeal(c) PROVE UNCHANGED <<rows, executed>>
  BY <1>3 DEF StartSeal, FailSeal, BeginAppend, RollbackAppend, journalVars
<1>4. ASSUME NEW c \in Commands, FinishSeal(c) PROVE Contract!Next
  BY <1>4, FinishSealContract
<1>5. ASSUME NEW c \in Commands, ExecuteRoute(c) \/ RouteRaises(c) PROVE Contract!Next
  BY <1>5, CallRouteContract DEF ExecuteRoute, RouteRaises, OutsideGate, journalVars
<1>6. ASSUME Environment PROVE UNCHANGED <<rows, executed>>
  BY <1>6 DEF Environment, LoseKeyFile, KeepTable, journalVars, commandVars
<1>7. ASSUME UNCHANGED vars PROVE UNCHANGED <<rows, executed>>
  BY <1>7 DEF vars, journalVars, commandVars
<1> QED
  BY <1>1, <1>2, <1>3, <1>4, <1>5, <1>6, <1>7, ContractStutters DEF Next, HandlerStep

\* The gate implements the receipt contract: with keys, hashes, the write lock
\* and the handler threads left out, a command is denied once and for all, or is
\* accepted, then called at most once, then concluded at most once (do_POST).
THEOREM ContractIsImplemented == Spec => ImplementsReceiptContract
<1>1. Init => Contract!Init
  BY EmptySeq DEF Init, JournalInit, Contract!Init
<1> QED
  BY <1>1, ContractStep, TypeCorrect, GateInvariant, PTL
  DEF Spec, ImplementsReceiptContract, Contract!Spec

==============================================================================
