---------------------------- MODULE HandlerProofs ----------------------------
(***************************************************************************)
(* Three parts of the service that handler threads run without a lock:     *)
(* what ExperimentCaches promises for every set of threads and seeds,      *)
(* EvidenceGateway for every set of threads and batches, and SafetyKernel  *)
(* for all ceilings, sizes and identifiers.                                *)
(***************************************************************************)
EXTENDS ExperimentCaches, EvidenceGateway, SafetyKernel, SequenceTheorems, TLAPS

------------------------------------------------------------------------------
(* Experiment caches *)

Places == {"idle", "look", "run", "read", "answered", "failed"}

CacheTypeOK ==
  /\ cache \subseteq Seeds
  /\ handlerPc \in [Handlers -> Places]
  /\ seed \in [Handlers -> Seeds]
  /\ overtaken \in [Handlers -> BOOLEAN]

\* A handler about to read finds its seed unless it was overtaken.
KeptUnlessOvertaken ==
  \A t \in Handlers : handlerPc[t] = "read" => seed[t] \in cache \/ overtaken[t]

CacheInv == CacheTypeOK /\ KeptUnlessOvertaken /\ FailuresAreOvertaken

LEMMA CacheInitial == CacheInit => CacheInv
  BY SeedAssumption DEF CacheInit, CacheInv, CacheTypeOK, Places, KeptUnlessOvertaken, FailuresAreOvertaken

\* A rerun drops one seed and marks whoever holds it; a look-up clears the
\* mark of the handler that is yet to find its seed.
LEMMA CacheStep == CacheInv /\ [CacheNext]_cacheVars => CacheInv'
<1> SUFFICES ASSUME CacheInv, [CacheNext]_cacheVars PROVE CacheInv'
  OBVIOUS
<1> USE DEF CacheInv, CacheTypeOK, Places, KeptUnlessOvertaken, FailuresAreOvertaken, Go
<1>1. ASSUME NEW t \in Handlers, Get(t) PROVE CacheInv'
  BY <1>1, SeedAssumption DEF Get, Idle
<1>2. ASSUME NEW t \in Handlers, Rerun(t) PROVE CacheInv'
  BY <1>2 DEF Rerun, Idle, Drop
<1>3. ASSUME NEW t \in Handlers, FindCached(t) PROVE CacheInv'
  BY <1>3 DEF FindCached
<1>4. ASSUME NEW t \in Handlers, Keep(t) PROVE CacheInv'
  BY <1>4 DEF Keep
<1>5. ASSUME NEW t \in Handlers, Read(t) PROVE CacheInv'
  BY <1>5 DEF Read
<1>6. CASE UNCHANGED cacheVars
  BY <1>6 DEF cacheVars
<1> QED
  BY <1>1, <1>2, <1>3, <1>4, <1>5, <1>6 DEF CacheNext

\* A request fails only if a rerun of its own seed overtook it, however many
\* handlers look up, run and rerun any seeds (research_experiment and the
\* caches like it).
THEOREM OnlyOvertakenRequestsFail == CacheSpec => []FailuresAreOvertaken
<1>1. CacheInv => FailuresAreOvertaken
  BY DEF CacheInv
<1> QED
  BY CacheInitial, CacheStep, <1>1, PTL DEF CacheSpec

------------------------------------------------------------------------------
(* Evidence gateway *)

\* A thread that appends has a batch; one that is idle has begun nothing.
GatewayTypeOK ==
  /\ DOMAIN importPc = Importers /\ DOMAIN batch = Importers
  /\ DOMAIN importAt = Importers /\ DOMAIN inserted = Importers
  /\ \A t \in Importing : batch[t] \in Batches /\ importAt[t] \in Nat
  /\ \A t \in Importers : importPc[t] = "idle" => inserted[t] = {} /\ importAt[t] = 1

\* A thread has appended what it has passed.
PassedIsAppended ==
  \A t \in Importing : \A p \in AcceptedPositions(batch[t]) :
    p < importAt[t] => Observation(batch[t][p]) \in telemetry

GatewayInv ==
  /\ GatewayTypeOK /\ PassedIsAppended /\ ImportIsBacked /\ RawAddressIsNeverKept

\* Positions of a batch are numbers.
LEMMA PositionsAreNumbers == ASSUME NEW b \in Batches PROVE AcceptedPositions(b) \subseteq Nat \ {0}
<1>1. b \in Seq({b[i] : i \in DOMAIN b})
  BY BatchAssumption
<1>2. DOMAIN b = 1 .. Len(b) /\ Len(b) \in Nat
  BY <1>1, LenProperties
<1> QED
  BY <1>2 DEF AcceptedPositions

\* No accepted observation holds a raw address.
LEMMA AcceptedIsClean ==
  ASSUME NEW b, NEW p \in AcceptedPositions(b)
  PROVE  LET o == Observation(b[p]) IN ~("ip" \in {o.name, o.link})
<1>1. Disposition(b[p]) = "ACCEPTED"
  BY DEF AcceptedPositions
<1>2. ~ContainsRawIp(Observation(b[p]))
  BY <1>1 DEF Disposition
<1> QED
  BY <1>2 DEF ContainsRawIp

LEMMA GatewayInitial == GatewayInit => GatewayInv
  BY DEF GatewayInit, GatewayInv, GatewayTypeOK, PassedIsAppended, ImportIsBacked, RawAddressIsNeverKept, Importing

LEMMA ProcessStep == ASSUME GatewayInv, NEW t \in Importers, Process(t) PROVE GatewayInv'
<1>1. PICK b \in Batches, commit \in BOOLEAN :
        /\ batch' = [batch EXCEPT ![t] = b]
        /\ \E step \in {"error", "append", "report"} : ImportGoto(t, step)
  BY DEF Process
<1>2. importPc[t] = "idle" /\ UNCHANGED <<telemetry, imports, importAt, inserted>>
  BY DEF Process
<1>3. inserted[t] = {} /\ importAt[t] = 1
  BY <1>2 DEF GatewayInv, GatewayTypeOK
<1>4. Importing' \subseteq Importing \cup {t} /\ \A u \in Importing : u # t
  BY <1>1, <1>2 DEF Importing, ImportGoto, GatewayInv, GatewayTypeOK
<1>5. GatewayTypeOK'
  BY <1>1, <1>2, <1>3, <1>4 DEF GatewayInv, GatewayTypeOK, ImportGoto
<1>6. PassedIsAppended'
  <2> SUFFICES ASSUME NEW u \in Importing', NEW p \in AcceptedPositions(batch'[u]), p < importAt'[u]
               PROVE  Observation(batch'[u][p]) \in telemetry
    BY <1>2 DEF PassedIsAppended
  <2>1. CASE u = t
    <3>1. batch'[t] \in Batches /\ importAt'[t] = 1
      BY <1>1, <1>2, <1>3 DEF GatewayInv, GatewayTypeOK
    <3>2. p \in Nat \ {0}
      BY <2>1, <3>1, PositionsAreNumbers
    <3> QED
      BY <2>1, <3>1, <3>2
  <2>2. CASE u # t
    BY <1>1, <1>2, <1>4, <2>2 DEF GatewayInv, GatewayTypeOK, PassedIsAppended, Importing
  <2> QED
    BY <2>1, <2>2
<1>7. ImportIsBacked'
  BY <1>2, <1>3, <1>4 DEF GatewayInv, ImportIsBacked, Accepted
<1>8. RawAddressIsNeverKept'
  BY <1>2 DEF GatewayInv, RawAddressIsNeverKept
<1> QED
  BY <1>5, <1>6, <1>7, <1>8 DEF GatewayInv

\* The next accepted record is appended; what was passed is at most it.
LEMMA AppendNextStep == ASSUME GatewayInv, NEW t \in Importers, AppendNext(t) PROVE GatewayInv'
<1>1. PICK i \in Remaining(t) :
        /\ \A j \in Remaining(t) : i <= j
        /\ telemetry' = telemetry \cup {Observation(batch[t][i])}
        /\ inserted' = [inserted EXCEPT ![t] = @ \cup ({Observation(batch[t][i])} \ telemetry)]
        /\ importAt' = [importAt EXCEPT ![t] = i + 1]
  BY DEF AppendNext
<1>2. importPc[t] = "append" /\ t \in Importing /\ Importing' = Importing /\ UNCHANGED <<imports, importPc, batch>>
  BY DEF AppendNext, Importing
<1>3. /\ batch[t] \in Batches /\ importAt[t] \in Nat /\ i \in AcceptedPositions(batch[t]) /\ i \in Nat
      /\ \A p \in AcceptedPositions(batch[t]) : p \in Nat
  <2>1. batch[t] \in Batches /\ importAt[t] \in Nat
    BY <1>2 DEF GatewayInv, GatewayTypeOK
  <2>2. \A p \in AcceptedPositions(batch[t]) : p \in Nat
    BY <2>1, PositionsAreNumbers
  <2> QED
    BY <2>1, <2>2 DEF Remaining
<1> DEFINE o == Observation(batch[t][i])
<1>4. /\ telemetry' = telemetry \cup {o} /\ inserted'[t] = inserted[t] \cup ({o} \ telemetry) /\ importAt'[t] = i + 1
      /\ \A u \in Importers \ {t} : inserted'[u] = inserted[u] /\ importAt'[u] = importAt[u]
      /\ DOMAIN inserted' = Importers /\ DOMAIN importAt' = Importers
  BY <1>1 DEF GatewayInv, GatewayTypeOK
<1>5. \A p \in AcceptedPositions(batch[t]) : p < i + 1 => Observation(batch[t][p]) \in telemetry \cup {o}
  <2> SUFFICES ASSUME NEW p \in AcceptedPositions(batch[t]), p < i + 1, p # i
               PROVE  Observation(batch[t][p]) \in telemetry
    OBVIOUS
  <2>a. p \in Nat /\ i \in Nat /\ importAt[t] \in Nat
    BY <1>3
  <2>b. p \in Remaining(t) => i <= p
    BY <1>1
  <2>c. importAt[t] <= p => p \in Remaining(t)
    BY DEF Remaining
  <2>1. p < importAt[t]
    BY <2>a, <2>b, <2>c
  <2> QED
    BY <1>2, <2>1 DEF GatewayInv, PassedIsAppended
<1>6. ~("ip" \in {o.name, o.link})
  BY <1>3, AcceptedIsClean
<1> HIDE DEF o
<1>7. GatewayTypeOK'
  BY <1>2, <1>3, <1>4 DEF GatewayInv, GatewayTypeOK, Importing
<1>8. PassedIsAppended'
  BY <1>2, <1>4, <1>5 DEF GatewayInv, PassedIsAppended, Importing
<1>9. ImportIsBacked'
  <2>1. \A k \in imports' : Accepted(k.batch)' \cup k.inserted \subseteq telemetry'
    BY <1>2, <1>4 DEF GatewayInv, ImportIsBacked, Accepted
  <2>2. \A u \in Importing' : inserted'[u] \subseteq telemetry'
    BY <1>2, <1>4 DEF GatewayInv, ImportIsBacked, Importing
  <2>3. \A u, v \in Importing' : u # v => inserted'[u] \cap inserted'[v] = {}
    BY <1>2, <1>4 DEF GatewayInv, ImportIsBacked, Importing
  <2>4. \A k \in imports', u \in Importing' : k.inserted \cap inserted'[u] = {}
    BY <1>2, <1>4 DEF GatewayInv, ImportIsBacked, Importing
  <2>5. \A j, k \in imports' : j # k => j.inserted \cap k.inserted = {}
    BY <1>2 DEF GatewayInv, ImportIsBacked
  <2> QED
    BY <2>1, <2>2, <2>3, <2>4, <2>5 DEF ImportIsBacked
<1>10. RawAddressIsNeverKept'
  BY <1>4, <1>6 DEF GatewayInv, RawAddressIsNeverKept
<1> QED
  BY <1>7, <1>8, <1>9, <1>10 DEF GatewayInv

\* An import is recorded when all of its accepted observations were appended,
\* with what its thread claimed.
LEMMA SaveImportStep == ASSUME GatewayInv, NEW t \in Importers, SaveImport(t) PROVE GatewayInv'
<1> DEFINE new == [batch |-> batch[t], inserted |-> inserted[t]]
<1>1. /\ imports' = imports \/ imports' = imports \cup {new}
      /\ Remaining(t) = {} /\ ImportGoto(t, "report") /\ UNCHANGED <<telemetry, batch, importAt, inserted>>
  BY DEF SaveImport
<1>2. t \in Importing /\ Importing' = Importing \ {t}
  BY <1>1 DEF SaveImport, Importing, ImportGoto, GatewayInv, GatewayTypeOK
<1>3. Accepted(batch[t]) \subseteq telemetry
  <2> SUFFICES ASSUME NEW p \in AcceptedPositions(batch[t]) PROVE Observation(batch[t][p]) \in telemetry
    BY DEF Accepted
  <2>1. p \in Nat /\ importAt[t] \in Nat
    BY <1>2, PositionsAreNumbers DEF GatewayInv, GatewayTypeOK
  <2>2. p < importAt[t]
    BY <1>1, <2>1 DEF Remaining
  <2> QED
    BY <1>2, <2>2 DEF GatewayInv, PassedIsAppended
<1>4. new.batch = batch[t] /\ new.inserted = inserted[t]
  OBVIOUS
<1> HIDE DEF new
<1>5. GatewayTypeOK' /\ PassedIsAppended'
  BY <1>1, <1>2 DEF GatewayInv, GatewayTypeOK, PassedIsAppended, ImportGoto
<1>6. ImportIsBacked'
  <2>1. \A k \in imports' : k \in imports \/ k = new
    BY <1>1
  <2>2. \A k \in imports' : Accepted(k.batch)' \cup k.inserted \subseteq telemetry'
    <3>1. \A b : Accepted(b)' = Accepted(b)
      BY DEF Accepted
    <3> QED
      BY <1>1, <1>2, <1>3, <1>4, <2>1, <3>1 DEF GatewayInv, ImportIsBacked
  <2>3. \A j, k \in imports' : j # k => j.inserted \cap k.inserted = {}
    BY <1>2, <1>4, <2>1 DEF GatewayInv, ImportIsBacked
  <2>4. \A k \in imports', u \in Importing' : k.inserted \cap inserted'[u] = {}
    BY <1>1, <1>2, <1>4, <2>1 DEF GatewayInv, ImportIsBacked
  <2>5. /\ \A u \in Importing' : inserted'[u] \subseteq telemetry'
        /\ \A u, v \in Importing' : u # v => inserted'[u] \cap inserted'[v] = {}
    BY <1>1, <1>2 DEF GatewayInv, ImportIsBacked
  <2> QED
    BY <2>2, <2>3, <2>4, <2>5 DEF ImportIsBacked
<1>7. RawAddressIsNeverKept'
  BY <1>1 DEF GatewayInv, RawAddressIsNeverKept
<1> QED
  BY <1>5, <1>6, <1>7 DEF GatewayInv

\* A thread that ends takes its claims with it and leaves its rows.
LEMMA LeaveStep == ASSUME GatewayInv, NEW t \in Importers, Leave(t), UNCHANGED <<telemetry, imports>> PROVE GatewayInv'
<1>1. Importing' = Importing \ {t}
  BY DEF Leave, Importing, ImportGoto, GatewayInv, GatewayTypeOK
<1>2. \A u \in Importers \ {t} : /\ inserted'[u] = inserted[u] /\ importAt'[u] = importAt[u]
                                 /\ batch'[u] = batch[u] /\ importPc'[u] = importPc[u]
  BY DEF Leave, ImportGoto, GatewayInv, GatewayTypeOK
<1>3. GatewayTypeOK'
  BY <1>1, <1>2 DEF Leave, ImportGoto, GatewayInv, GatewayTypeOK
<1>4. PassedIsAppended'
  BY <1>1, <1>2 DEF GatewayInv, PassedIsAppended, Importing
<1>5. ImportIsBacked'
  <2>1. \A b : Accepted(b)' = Accepted(b)
    BY DEF Accepted
  <2> QED
    BY <1>1, <1>2, <2>1 DEF GatewayInv, ImportIsBacked, Importing
<1>6. RawAddressIsNeverKept'
  BY DEF GatewayInv, RawAddressIsNeverKept
<1> QED
  BY <1>3, <1>4, <1>5, <1>6 DEF GatewayInv

LEMMA GatewayStep == GatewayInv /\ [GatewayNext]_gatewayVars => GatewayInv'
<1> SUFFICES ASSUME GatewayInv, [GatewayNext]_gatewayVars PROVE GatewayInv'
  OBVIOUS
<1>1. CASE UNCHANGED gatewayVars
  BY <1>1 DEF gatewayVars, GatewayInv, GatewayTypeOK, PassedIsAppended, ImportIsBacked, RawAddressIsNeverKept, Importing
<1>2. ASSUME NEW t \in Importers, Respond(t) \/ BreakOff(t) PROVE GatewayInv'
  BY <1>2, LeaveStep DEF Respond, BreakOff
<1> QED
  BY <1>1, <1>2, ProcessStep, AppendNextStep, SaveImportStep DEF GatewayNext

LEMMA GatewayInvariant == GatewaySpec => []GatewayInv
  BY GatewayInitial, GatewayStep, PTL DEF GatewaySpec

\* However imports overlap and break off, each import on record is backed by the
\* observations it accepted, and no row is claimed by two imports.
THEOREM ImportsAreBacked == GatewaySpec => []ImportIsBacked
<1>1. GatewayInv => ImportIsBacked
  BY DEF GatewayInv
<1> QED
  BY <1>1, GatewayInvariant, PTL

\* Whatever fields clients put an address in, none reaches the telemetry table.
THEOREM NoRawAddressIsKept == GatewaySpec => []RawAddressIsNeverKept
<1>1. GatewayInv => RawAddressIsNeverKept
  BY DEF GatewayInv
<1> QED
  BY <1>1, GatewayInvariant, PTL

------------------------------------------------------------------------------
(* Safety gate. The gateway does not check every rule itself: it accepts a *)
(* certificate that verifies, and one that verifies says of an action what *)
(* the gate said.                                                          *)

\* What is presented carries the digest of an issued certificate; one that is
\* not altered is issued.
KernelInv ==
  /\ certificates \in Seq(Issued)
  /\ receipt # None => receipt = DryRun(presented) /\ \E c \in Issued : presented.digest = c.digest
  /\ receipt # None /\ ~altered => presented \in Issued

------------------------------------------------------------------------------
(* Safety gate: proposals and certificates *)

\* Every proposal asks for numbers, and its text is one of the labels.
LEMMA ProposalFields ==
  ASSUME NEW a \in Proposals
  PROVE  a.memory \in Nat /\ a.cpu \in Nat /\ a.ttl \in Nat /\ a.label \in Labels
<1>1. PICK label \in Labels, id \in Ids : a \in Around(Default(label, id))
  BY DEF Proposals
<1>0. PICK d : d = Default(label, id)
  OBVIOUS
<1>2. CASE a \in {[d EXCEPT !.namespace = p[1], !.target = p[2]] : p \in {"authorized", "other"} \X {"decoy", "other"}}
  <2>1. PICK p \in {"authorized", "other"} \X {"decoy", "other"} : a = [d EXCEPT !.namespace = p[1], !.target = p[2]]
    BY <1>2
  <2> QED
    BY <1>0, <2>1 DEF Default
<1>3. CASE a \in {[d EXCEPT !.decoy = AsBool(p[1]), !.egress = AsBool(p[2])] : p \in Flags \X Flags}
  <2>1. PICK p \in Flags \X Flags : a = [d EXCEPT !.decoy = AsBool(p[1]), !.egress = AsBool(p[2])]
    BY <1>3
  <2> QED
    BY <1>0, <2>1 DEF Default
<1>4. CASE a \in {[d EXCEPT !.synthetic = AsBool(p[1]), !.reversible = AsBool(p[2])] : p \in Flags \X Flags}
  <2>1. PICK p \in Flags \X Flags : a = [d EXCEPT !.synthetic = AsBool(p[1]), !.reversible = AsBool(p[2])]
    BY <1>4
  <2> QED
    BY <1>0, <2>1 DEF Default
<1>5. CASE a \in {[d EXCEPT !.memory = s] : s \in Sizes}
  <2>1. PICK s \in Sizes : a = [d EXCEPT !.memory = s]
    BY <1>5
  <2>2. s \in Nat
    BY CeilingsAssumption
  <2> QED
    BY <1>0, <2>1, <2>2 DEF Default
<1>6. CASE a \in {[d EXCEPT !.cpu = s] : s \in Sizes}
  <2>1. PICK s \in Sizes : a = [d EXCEPT !.cpu = s]
    BY <1>6
  <2>2. s \in Nat
    BY CeilingsAssumption
  <2> QED
    BY <1>0, <2>1, <2>2 DEF Default
<1>7. CASE a \in {[d EXCEPT !.ttl = s] : s \in Sizes}
  <2>1. PICK s \in Sizes : a = [d EXCEPT !.ttl = s]
    BY <1>7
  <2>2. s \in Nat
    BY CeilingsAssumption
  <2> QED
    BY <1>0, <2>1, <2>2 DEF Default
<1> QED
  BY <1>0, <1>1, <1>2, <1>3, <1>4, <1>5, <1>6, <1>7 DEF Around

LEMMA EvaluateFields ==
  ASSUME NEW a
  PROVE  /\ Evaluate(a).body = Body(a) /\ Evaluate(a).digest = Canonical(Body(a), "escaped")
         /\ Body(a).action = a /\ Body(a).failed = {rule \in Rules : ~Passes(rule, a)}
         /\ Body(a).decision = IF \A rule \in Rules : Passes(rule, a) THEN "PERMIT" ELSE "DENY"
BY DEF Evaluate, Body

\* A change on the way leaves the digest.
LEMMA ChangedKeepsDigest ==
  ASSUME NEW c \in Issued, NEW d \in Changed(c)
  PROVE  d.digest = c.digest
<1>1. PICK a \in Proposals : c = Evaluate(a)
  BY DEF Issued
<1>2. c = [body |-> Body(a), digest |-> Canonical(Body(a), "escaped")]
  BY <1>1 DEF Evaluate
<1> QED
  BY <1>2 DEF Changed

\* Only what the gate said of an action verifies against its digest.
LEMMA DigestBindsBody ==
  ASSUME NEW a, NEW body, Canonical(body, "utf8") = Canonical(Body(a), "escaped")
  PROVE  body = Body(a)
BY DEF Canonical

\* A permit means that every rule passes.
LEMMA PermitPassesAll ==
  ASSUME NEW a \in Proposals, Body(a).decision = "PERMIT"
  PROVE  /\ a.namespace = "authorized" /\ a.target = "decoy" /\ a.decoy /\ ~a.egress /\ a.synthetic /\ a.reversible
         /\ a.memory \in 1 .. MaxMemory /\ a.cpu \in 1 .. MaxCpu /\ a.ttl \in 1 .. MaxTtl
<1>1. \A rule \in Rules : Passes(rule, a)
  BY EvaluateFields
<1>2. /\ Passes("authorized_namespace", a) /\ Passes("decoy_target", a) /\ Passes("no_network_egress", a)
      /\ Passes("synthetic_data", a) /\ Passes("reversible", a) /\ Passes("memory_ceiling", a)
      /\ Passes("cpu_ceiling", a) /\ Passes("ttl_ceiling", a)
  BY <1>1 DEF Rules
<1>3. /\ a.namespace = "authorized" /\ a.target = "decoy" /\ a.decoy /\ ~a.egress /\ a.synthetic /\ a.reversible
  BY <1>2 DEF Passes
<1>4. 0 < a.memory /\ a.memory <= MaxMemory /\ 0 < a.cpu /\ a.cpu <= MaxCpu /\ 0 < a.ttl /\ a.ttl <= MaxTtl
  BY <1>2 DEF Passes
<1> QED
  BY <1>3, <1>4, ProposalFields, CeilingsAssumption

------------------------------------------------------------------------------
(* Safety gate: the invariant *)

LEMMA KernelInitial == SafetyInit => KernelInv
  BY DEF SafetyInit, KernelInv

LEMMA KernelStep == KernelInv /\ [SafetyNext]_safetyVars => KernelInv'
<1> SUFFICES ASSUME KernelInv, [SafetyNext]_safetyVars PROVE KernelInv'
  OBVIOUS
<1> USE DEF KernelInv
<1>1. CASE EvaluateAction
  <2>1. certificates' \in Seq(Issued)
    BY <1>1 DEF EvaluateAction
  <2>2. UNCHANGED <<presented, altered, receipt>>
    BY <1>1 DEF EvaluateAction
  <2> QED
    BY <2>1, <2>2 DEF DryRun, CertificateAdmissible, DigestVerifies, ActionAdmissible
<1>2. CASE HardwareDryRun
  BY <1>2 DEF HardwareDryRun, Present, DryRun, CertificateAdmissible, DigestVerifies, ActionAdmissible
<1>3. CASE PresentAltered
  <2> DEFINE last == certificates[Len(certificates)]
  <2>1. last \in Issued
    BY <1>3 DEF PresentAltered
  <2>2. PICK c \in Changed(last) : Present(c) /\ altered' = (c # last)
    BY <1>3 DEF PresentAltered
  <2>3. c.digest = last.digest
    BY <2>1, <2>2, ChangedKeepsDigest
  <2> HIDE DEF last
  <2>4. presented' = c /\ receipt' = DryRun(c) /\ certificates' = certificates
    BY <2>2 DEF Present
  <2>5. DryRun(presented)' = DryRun(c)
    BY <2>4 DEF DryRun, CertificateAdmissible, DigestVerifies, ActionAdmissible
  <2> QED
    BY <2>1, <2>2, <2>3, <2>4, <2>5
<1>4. CASE Reset
  BY <1>4 DEF Reset, DryRun, CertificateAdmissible, DigestVerifies, ActionAdmissible
<1>5. CASE UNCHANGED safetyVars
  BY <1>5 DEF safetyVars, DryRun, CertificateAdmissible, DigestVerifies, ActionAdmissible
<1> QED
  BY <1>1, <1>2, <1>3, <1>4, <1>5 DEF SafetyNext

LEMMA KernelInvariant == SafetySpec => []KernelInv
  BY KernelInitial, KernelStep, PTL DEF SafetySpec

------------------------------------------------------------------------------
(* Safety gate: the properties *)

\* What the gateway accepts is within all eight rules of the gate, for any
\* ceilings and whatever was changed in the certificate on its way
\* (_certificate_failures, verify_certificate_digest).
THEOREM AcceptedIsPermitted == SafetySpec => []AcceptedIsWithinEveryRule
<1>1. KernelInv => AcceptedIsWithinEveryRule
  <2> SUFFICES ASSUME KernelInv, receipt = "ACCEPTED_DRY_RUN" PROVE AcceptedIsWithinEveryRule
    BY DEF AcceptedIsWithinEveryRule
  <2>1. CertificateAdmissible(presented) /\ \E c \in Issued : presented.digest = c.digest
    BY DEF KernelInv, DryRun, None
  <2>2. PICK a \in Proposals : presented.digest = Evaluate(a).digest
    BY <2>1 DEF Issued
  <2>3. presented.digest = Canonical(presented.body, "utf8")
    BY <2>1 DEF CertificateAdmissible, DigestVerifies
  <2>4. Canonical(presented.body, "utf8") = Canonical(Body(a), "escaped")
    BY <2>2, <2>3, EvaluateFields
  <2>5. presented.body = Body(a)
    BY <2>4, DigestBindsBody
  <2>6. presented.body.action = a /\ Body(a).decision = "PERMIT"
    BY <2>1, <2>5, EvaluateFields DEF CertificateAdmissible
  <2> QED
    BY <2>6, PermitPassesAll DEF AcceptedIsWithinEveryRule
<1> QED
  BY KernelInvariant, <1>1, PTL

\* While all text is ASCII, gate and gateway agree on every certificate as it
\* was issued: their serializers differ on nothing else.
THEOREM AsciiCertificatesAgree == ASSUME Labels \subseteq {"ascii"} PROVE SafetySpec => []GateAndGatewayAgree
<1>1. KernelInv => GateAndGatewayAgree
  <2> SUFFICES ASSUME KernelInv, receipt # None, ~altered
               PROVE  receipt = "ACCEPTED_DRY_RUN" <=> presented.body.decision = "PERMIT"
    BY DEF GateAndGatewayAgree
  <2>1. PICK a \in Proposals : presented = Evaluate(a)
    BY DEF KernelInv, Issued
  <2>2. receipt = DryRun(presented)
    BY DEF KernelInv
  <2>3. presented.body = Body(a) /\ presented.digest = Canonical(Body(a), "escaped") /\ Body(a).action = a
    BY <2>1, EvaluateFields
  <2>4. Canonical(Body(a), "escaped") = Canonical(Body(a), "utf8")
    <3>1. Body(a).action.label = "ascii"
      BY <2>3, ProposalFields
    <3> QED
      BY <3>1 DEF Canonical
  <2>5. ASSUME Body(a).decision = "PERMIT" PROVE Body(a).failed = {} /\ ActionAdmissible(a)
    <3>1. Body(a).failed = {}
      BY <2>5, EvaluateFields
    <3> QED
      BY <2>5, <3>1, PermitPassesAll, CeilingsAssumption DEF ActionAdmissible
  <2>6. CertificateAdmissible(presented) <=> Body(a).decision = "PERMIT"
    BY <2>3, <2>4, <2>5 DEF CertificateAdmissible, DigestVerifies
  <2> QED
    BY <2>2, <2>3, <2>6 DEF DryRun
<1> QED
  BY KernelInvariant, <1>1, PTL

==============================================================================
