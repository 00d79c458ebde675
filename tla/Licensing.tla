------------------------------ MODULE Licensing ------------------------------
(***************************************************************************)
(* The license manager of aegis/licensing.py. Each control-plane process   *)
(* keeps the status it computed when it last read the envelope; the        *)
(* envelope on disk and the wall clock move on without it.                 *)
(***************************************************************************)
EXTENDS Installation, Naturals

CONSTANTS
  Envelopes,          \* envelopes an administrator may install
  MaxTime,            \* bound on the wall clock
  VerifierInstalled   \* whether the Ed25519 dependency can be imported

VARIABLES
  envelope,   \* the license envelope on disk
  now,        \* the wall clock
  license     \* license[p]: the status process p caches in memory

licenseVars == <<envelope, now, license>>

KnownEntitlements ==
  {"desktop_control_plane", "resident_node", "research_lab", "offline_evidence_gateway",
   "hardware_dry_run", "local_audit", "multi_node", "enterprise_connectors"}

ResearchEntitlements == KnownEntitlements \ {"multi_node", "enterprise_connectors"}

\* "malformed" stands for every envelope _verify refuses with an error:
\* unreadable, wrong contract, bad claims, wrong key, bad signature.
Forms == {"absent", "malformed", "signed"}

ASSUME LicensingAssumption ==
  /\ MaxTime \in Nat
  /\ VerifierInstalled \in BOOLEAN
  /\ \A e \in Envelopes :
       /\ e.form \in Forms
       /\ e.entitlements \in SUBSET KnownEntitlements
       /\ e.from \in Nat /\ e.until \in Nat
       /\ e.form = "signed" => "local_audit" \in e.entitlements /\ e.from < e.until

States == {"UNLOADED", "RESEARCH", "VALID", "NOT_YET_VALID", "EXPIRED", "INVALID", "VERIFIER_UNAVAILABLE"}

\* The empty status a manager holds before its first reload.
Unloaded == [state |-> "UNLOADED", entitlements |-> {}]

Locked(state) == [state |-> state, entitlements |-> {"local_audit"}]

\* What reload computes from envelope e at time t.
StatusOf(e, t) ==
  CASE e.form = "absent"    -> [state |-> "RESEARCH", entitlements |-> ResearchEntitlements]
    [] e.form = "malformed" -> Locked("INVALID")
    [] e.form = "signed" /\ ~VerifierInstalled -> Locked("VERIFIER_UNAVAILABLE")
    [] e.form = "signed" /\ VerifierInstalled /\ t < e.from   -> Locked("NOT_YET_VALID")
    [] e.form = "signed" /\ VerifierInstalled /\ t >= e.until -> Locked("EXPIRED")
    [] OTHER -> [state |-> "VALID", entitlements |-> e.entitlements]

Status == [state: States, entitlements: SUBSET KnownEntitlements]

LicenseTypeOK ==
  /\ envelope \in Envelopes
  /\ now \in 0 .. MaxTime
  /\ license \in [Procs -> Status]

LicenseInit ==
  /\ envelope \in Envelopes
  /\ now = 0
  /\ license = [p \in Procs |-> Unloaded]

\* is_entitled reads the cached status, never the clock.
IsEntitled(p, entitlement) ==
  entitlement = "none" \/ entitlement \in license[p].entitlements

\* Read the envelope and the clock, and replace the cached status.
ReloadLicense(p) ==
  /\ license' = [license EXCEPT ![p] = StatusOf(envelope, now)]
  /\ UNCHANGED <<envelope, now>>

\* An administrator installs or removes an envelope.
InstallEnvelope ==
  /\ envelope' \in Envelopes \ {envelope}
  /\ UNCHANGED <<now, license>>

Tick ==
  /\ now < MaxTime
  /\ now' = now + 1
  /\ UNCHANGED <<envelope, license>>

==============================================================================
