-------------------------- MODULE GovernanceRegistry --------------------------
(***************************************************************************)
(* The artifact registry and promotion ledger of aegis/registry.py, driven *)
(* by the governance routes of aegis/service.py. Every governance request  *)
(* first materializes the built-in artifacts in a fixed order and appends  *)
(* a bootstrap decision to an empty ledger; each process remembers having  *)
(* done so. No lock covers any of it: handler threads of one process, and  *)
(* processes on one installation root, interleave at every connection.     *)
(*                                                                         *)
(* SHA-256 and HMAC are abstracted as injective: an attestation is the key *)
(* it was made with, a record hash is the position of its record, and an   *)
(* artifact id is the artifact.                                            *)
(***************************************************************************)
EXTENDS InstallKey, Naturals, Sequences

CONSTANTS
  Artifacts,   \* the built-in artifacts
  Script,      \* the order in which they are registered
  Lineage,     \* Lineage[a]: the parents of artifact a
  Models,      \* the artifacts of type model
  Sound,       \* those whose descriptor passes the quality criteria
  Candidate,   \* the default candidate of the bootstrap decision
  MaxRecords   \* bound on the ledger

ASSUME ScriptAssumption ==
  /\ Script \in Seq(Artifacts) /\ Script # << >>
  /\ Lineage \in [Artifacts -> SUBSET Artifacts]
ASSUME ArtifactsAssumption ==
  /\ Models \subseteq Artifacts /\ Sound \subseteq Artifacts
  /\ Candidate \in Artifacts
  /\ MaxRecords \in Nat

VARIABLES
  registry,    \* registry[a]: the key artifact a is attested with
  ledger,      \* the promotion_ledger table, in sequence order
  ready,       \* ready[p]: p has cached the governance identities
  pc,          \* pc[c]: where the thread of request c is
  at,          \* at[c]: the position in Script c has come to
  wanted,      \* wanted[c]: the candidate c has to decide on
  appended,    \* appended[c]: the sequence of the record c appended last
  answered     \* answered[c]: the sequence of the record c answers with

tables == <<registry, ledger>>
threadVars == <<pc, at, wanted, appended, answered>>
governanceVars == <<keyVars, tables, ready, threadVars>>

Unregistered == "nokey"
Nothing == "nothing"

Steps == {"idle", "look", "insert", "first", "decide", "append", "readback", "answer", "refused"}
Verdicts == {"REJECT_CANDIDATE", "HOLD_SHADOW", "ELIGIBLE_FOR_SIGNED_RELEASE"}
Actors == {"SYSTEM_BOOTSTRAP", "LOOPBACK_API"}

Record == [candidate: Artifacts, decision: Verdicts, actor: Actors, previous: Nat, key: Keys]

GovernanceTypeOK ==
  /\ KeyTypeOK
  /\ registry \in [Artifacts -> Keys \cup {Unregistered}]
  /\ ledger \in Seq(Record)
  /\ ready \in [Procs -> BOOLEAN]
  /\ pc \in [Commands -> Steps]
  /\ at \in [Commands -> Nat]
  /\ wanted \in [Commands -> Artifacts \cup {Nothing}]
  /\ appended \in [Commands -> Nat] /\ answered \in [Commands -> Nat]

GovernanceInit ==
  /\ KeyInit
  /\ registry = [a \in Artifacts |-> Unregistered]
  /\ ledger = << >>
  /\ ready = [p \in Procs |-> FALSE]
  /\ pc = [c \in Commands |-> "idle"]
  /\ at = [c \in Commands |-> 1]
  /\ wanted = [c \in Commands |-> Nothing]
  /\ appended = [c \in Commands |-> 0]
  /\ answered = [c \in Commands |-> 0]

------------------------------------------------------------------------------
(* Verification and evaluation *)

Registered(a) == registry[a] # Unregistered

\* verify_artifact under key k.
Attested(a, k) == registry[a] = k

\* verify_registry and verify_ledger under key k.
RegistryVerifies(k) == \A a \in Artifacts : Registered(a) => Attested(a, k)
LedgerVerifies(k) == \A i \in 1 .. Len(ledger) : ledger[i].previous = i - 1 /\ ledger[i].key = k

QualityPassed(a, k) ==
  /\ a \in Models /\ a \in Sound
  /\ Attested(a, k)
  /\ Lineage[a] # {} /\ \A b \in Lineage[a] : Attested(b, k)

\* The trusted release evidence the routes and the bootstrap supply: none.
ReleaseEvidence == [enterprise |-> FALSE, shadow |-> 0, signoff |-> FALSE, rollback |-> FALSE]

ReleaseReady(e) == e.enterprise /\ e.shadow >= 10000 /\ e.signoff /\ e.rollback

Verdict(a, k) ==
  CASE ~QualityPassed(a, k) -> "REJECT_CANDIDATE"
    [] QualityPassed(a, k) /\ ReleaseReady(ReleaseEvidence) -> "ELIGIBLE_FOR_SIGNED_RELEASE"
    [] OTHER -> "HOLD_SHADOW"

------------------------------------------------------------------------------
(* One governance request *)

Key(c) == key[Home[c]]

Goto(c, step) == pc' = [pc EXCEPT ![c] = step]

\* The locals of the threads of S die with them.
Forget(S) ==
  /\ pc' = [c \in Commands |-> IF c \in S THEN "idle" ELSE pc[c]]
  /\ at' = [c \in Commands |-> IF c \in S THEN 1 ELSE at[c]]
  /\ wanted' = [c \in Commands |-> IF c \in S THEN Nothing ELSE wanted[c]]
  /\ appended' = [c \in Commands |-> IF c \in S THEN 0 ELSE appended[c]]
  /\ answered' = [c \in Commands |-> IF c \in S THEN 0 ELSE answered[c]]

\* Variant: the registry is not materialized before the route runs.
BeginUnprepared(c) ==
  /\ pc[c] = "idle" /\ IsOpen(Home[c])
  /\ \E w \in Artifacts \cup {Nothing} : wanted' = [wanted EXCEPT ![c] = w]
  /\ \E step \in {"decide", "look"} : Goto(c, step)
  /\ UNCHANGED <<keyVars, tables, ready, at, appended, answered>>

\* _ensure_governance_registry returns at once when the process is ready;
\* evaluate_governance_candidate then has a decision to make, the status
\* and verify routes have none.
Begin(c) ==
  /\ pc[c] = "idle" /\ IsOpen(Home[c])
  /\ \E w \in Artifacts \cup {Nothing} : wanted' = [wanted EXCEPT ![c] = w]
  /\ Goto(c, IF ready[Home[c]] THEN "decide" ELSE "look")
  /\ UNCHANGED <<keyVars, tables, ready, at, appended, answered>>

\* On to the next built-in artifact, or to the bootstrap decision.
Advance(c) ==
  /\ at' = [at EXCEPT ![c] = @ + 1]
  /\ Goto(c, IF at[c] < Len(Script) THEN "look" ELSE "first")

Refuse(c) == Goto(c, "refused") /\ UNCHANGED at

\* Variant: an existing artifact is returned without verifying it.
SettleUnverified(c, a) == Advance(c)

Settle(c, a) == IF Attested(a, Key(c)) THEN Advance(c) ELSE Refuse(c)

\* register_artifact: every parent must be known, and an artifact that
\* exists already must carry an attestation of this process's key.
LookUp(c) ==
  /\ pc[c] = "look"
  /\ LET a == Script[at[c]]
     IN  CASE \E b \in Lineage[a] : ~Registered(b) -> Refuse(c)
           [] (\A b \in Lineage[a] : Registered(b)) /\ Registered(a) -> Settle(c, a)
           [] OTHER -> Goto(c, "insert") /\ UNCHANGED at
  /\ UNCHANGED <<keyVars, tables, ready, wanted, appended, answered>>

\* Variant: INSERT OR REPLACE.
ReplaceArtifact(c) ==
  /\ pc[c] = "insert"
  /\ registry' = [registry EXCEPT ![Script[at[c]]] = Key(c)]
  /\ Advance(c)
  /\ UNCHANGED <<keyVars, ledger, ready, wanted, appended, answered>>

\* The INSERT, and what follows an IntegrityError.
InsertArtifact(c) ==
  /\ pc[c] = "insert"
  /\ LET a == Script[at[c]]
     IN  \/ /\ ~Registered(a)
            /\ registry' = [registry EXCEPT ![a] = Key(c)]
            /\ Advance(c)
         \/ /\ Registered(a)
            /\ Settle(c, a)
            /\ UNCHANGED registry
  /\ UNCHANGED <<keyVars, ledger, ready, wanted, appended, answered>>

\* The bootstrap decision is made if list_decisions returns nothing.
CheckLedger(c) ==
  /\ pc[c] = "first"
  /\ \/ ledger = << >> /\ Goto(c, "append") /\ UNCHANGED ready
     \/ ledger # << >> /\ ready' = [ready EXCEPT ![Home[c]] = TRUE] /\ Goto(c, "decide")
  /\ UNCHANGED <<keyVars, tables, at, wanted, appended, answered>>

\* evaluate_governance_candidate answers without a decision when there is
\* none to make, and refuses what is not a registered model.
Decide(c) ==
  /\ pc[c] = "decide"
  /\ LET a == wanted[c]
     IN  Goto(c, CASE a = Nothing -> "answer"
                   [] a # Nothing /\ a \in Models /\ Registered(a) -> "append"
                   [] OTHER -> "refused")
  /\ at' = [at EXCEPT ![c] = 0]
  /\ UNCHANGED <<keyVars, tables, ready, wanted, appended, answered>>

\* While at[c] is past the script, the bootstrap decision is due.
BootstrapDue(c) == at[c] > Len(Script)
Subject(c) == IF BootstrapDue(c) THEN Candidate ELSE wanted[c]
Actor(c) == IF BootstrapDue(c) THEN "SYSTEM_BOOTSTRAP" ELSE "LOOPBACK_API"

\* evaluate_candidate and append_decision: the head is read inside the
\* transaction (BEGIN IMMEDIATE) that inserts the record, so the append is
\* one step; what it is decided on is immutable.
AppendDecision(c) ==
  /\ pc[c] = "append" /\ Len(ledger) < MaxRecords
  /\ ledger' = Append(ledger,
       [candidate |-> Subject(c), decision |-> Verdict(Subject(c), Key(c)), actor |-> Actor(c),
        previous |-> Len(ledger), key |-> Key(c)])
  /\ appended' = [appended EXCEPT ![c] = Len(ledger) + 1]
  /\ Goto(c, "readback")
  /\ UNCHANGED <<keyVars, registry, ready, at, wanted, answered>>

\* Its value is list_decisions(limit=1)[0], read in another connection.
ReadBack(c) ==
  /\ pc[c] = "readback"
  /\ IF BootstrapDue(c)
     THEN /\ ready' = [ready EXCEPT ![Home[c]] = TRUE]
          /\ Goto(c, "decide")
          /\ UNCHANGED answered
     ELSE /\ answered' = [answered EXCEPT ![c] = Len(ledger)]
          /\ Goto(c, "answer")
          /\ UNCHANGED ready
  /\ UNCHANGED <<keyVars, tables, at, wanted, appended>>

\* The response leaves, or an exception ends the handler: a refusal, or a
\* store that fails at any of its connections.
Finish(c) ==
  /\ pc[c] # "idle"
  /\ Forget({c})
  /\ UNCHANGED <<keyVars, tables, ready>>

RequestStep(c) ==
  \/ Begin(c) \/ LookUp(c) \/ InsertArtifact(c) \/ CheckLedger(c)
  \/ Decide(c) \/ AppendDecision(c) \/ ReadBack(c) \/ Finish(c)

------------------------------------------------------------------------------
(* Processes *)

Start(p) == OpenKey(p) /\ UNCHANGED <<tables, ready, threadVars>>

\* What has been committed stays; the cache and the threads are gone.
EndProcess(p) ==
  /\ DropKey(p)
  /\ ready' = [ready EXCEPT ![p] = FALSE]
  /\ Forget({c \in Commands : Home[c] = p})
  /\ UNCHANGED tables

DeleteKeyFile == LoseKey /\ UNCHANGED <<tables, ready, threadVars>>

GovernanceNext ==
  \/ \E c \in Commands : RequestStep(c)
  \/ \E p \in Procs : Start(p) \/ EndProcess(p)
  \/ DeleteKeyFile

GovernanceSpec == GovernanceInit /\ [][GovernanceNext]_governanceVars

------------------------------------------------------------------------------
(* Correctness *)

\* Decisions stay conservative: no record of any request or bootstrap makes
\* a candidate eligible for release, and one that is held in shadow rests
\* on a candidate and parents attested under the key that sealed it
\* (evaluate_candidate, docs/MODEL_GOVERNANCE_GUIDE.md, quality gates).
DecisionsAreConservative ==
  \A i \in 1 .. Len(ledger) :
    /\ ledger[i].decision # "ELIGIBLE_FOR_SIGNED_RELEASE"
    /\ ledger[i].decision = "HOLD_SHADOW" =>
         /\ Lineage[ledger[i].candidate] # {}
         /\ \A a \in Lineage[ledger[i].candidate] \cup {ledger[i].candidate} : Attested(a, ledger[i].key)

\* Losing registry.key prevents extension: however processes lose the key
\* file, create another and race, artifacts and decisions of one root are
\* all attested under one key (register_artifact's verification of what
\* exists, redone by every process before its first decision).
OneKeyOfRecord ==
  \A k, l \in {registry[a] : a \in {b \in Artifacts : Registered(b)}} \cup {ledger[i].key : i \in 1 .. Len(ledger)} :
    k = l

\* A process that has cached the governance identities finds the whole
\* registry there and can verify it and the whole ledger, whatever other
\* threads and processes append or however they end.
ReadyProcessVerifies ==
  \A p \in Procs : ready[p] =>
    /\ \A i \in 1 .. Len(Script) : Registered(Script[i])
    /\ ledger # << >>
    /\ RegistryVerifies(key[p]) /\ LedgerVerifies(key[p])

\* No decision of a client precedes the bootstrap decision, even though
\* several threads may each make a bootstrap decision of their own.
BootstrapDecidesFirst ==
  ledger # << >> => ledger[1].actor = "SYSTEM_BOOTSTRAP" /\ ledger[1].candidate = Candidate

\* While the key file is not lost, every process that has opened it holds
\* the key on disk, however their creations race or crash.
HeldKeyIsOnDisk == \A p \in Procs : IsOpen(p) => key[p] = keyFile /\ key[p] \in Keys

==============================================================================
