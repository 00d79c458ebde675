----------------------------- MODULE SafetyKernel -----------------------------
(***************************************************************************)
(* SafetyGate of aegis/safety.py, which certifies proposed actions, and    *)
(* HardwareEnforcementGateway of aegis/hardware.py, which believes a       *)
(* certificate only if it verifies it itself. The two compute the digest   *)
(* of a certificate with serializers of their own. SHA-256 is abstracted   *)
(* as injective: a digest is what was serialized.                          *)
(***************************************************************************)
EXTENDS Naturals, FiniteSets, Sequences

CONSTANTS
  MaxMemory, MaxCpu, MaxTtl,  \* the ceilings of config.py
  Sizes,     \* the integers a proposal may ask for, zero and beyond the ceilings
  Labels,    \* what its free text may be made of: "ascii", "wide"
  Ids,       \* action identifiers and creation times, told apart or not
  MaxRows    \* bound on the certificates table

ASSUME CeilingsAssumption == {MaxMemory, MaxCpu, MaxTtl} \cup Sizes \subseteq Nat /\ MaxRows \in Nat

VARIABLES
  certificates,  \* the certificates table, in order of id
  presented,     \* the certificate the dry run was last given
  altered,       \* whether it is other than the gate issued it
  receipt        \* the receipt of that dry run

safetyVars == <<certificates, presented, altered, receipt>>

------------------------------------------------------------------------------
(* Proposals *)

\* A JSON value given for a flag: bool() holds of every nonempty text.
Flags == {"true", "false", "text"}
AsBool(v) == v # "false"

\* The proposals of the instance: one flag and one size at a time leave the
\* defaults, which are within every rule.
Default(label, id) ==
  [namespace |-> "authorized", target |-> "decoy", label |-> label, id |-> id, decoy |-> TRUE, egress |-> FALSE,
   synthetic |-> TRUE, reversible |-> TRUE, memory |-> 1, cpu |-> 1, ttl |-> 1]

Around(a) ==
  {[a EXCEPT !.namespace = p[1], !.target = p[2]] : p \in {"authorized", "other"} \X {"decoy", "other"}}
    \cup {[a EXCEPT !.decoy = AsBool(p[1]), !.egress = AsBool(p[2])] : p \in Flags \X Flags}
    \cup {[a EXCEPT !.synthetic = AsBool(p[1]), !.reversible = AsBool(p[2])] : p \in Flags \X Flags}
    \cup {[a EXCEPT !.memory = s] : s \in Sizes}
    \cup {[a EXCEPT !.cpu = s] : s \in Sizes}
    \cup {[a EXCEPT !.ttl = s] : s \in Sizes}

Proposals == UNION {Around(Default(label, id)) : label \in Labels, id \in Ids}

------------------------------------------------------------------------------
(* The gate *)

Rules == {"authorized_namespace", "decoy_target", "no_network_egress", "synthetic_data", "reversible",
          "memory_ceiling", "cpu_ceiling", "ttl_ceiling"}

\* Variant: the ceiling itself is not compared.
PassesUnbounded(rule, a) ==
  CASE rule = "authorized_namespace" -> a.namespace = "authorized"
    [] rule = "decoy_target"         -> a.decoy /\ a.target = "decoy"
    [] rule = "no_network_egress"    -> ~a.egress
    [] rule = "synthetic_data"       -> a.synthetic
    [] rule = "reversible"           -> a.reversible
    [] OTHER                         -> 0 < a.memory /\ 0 < a.cpu /\ 0 < a.ttl

Passes(rule, a) ==
  CASE rule = "authorized_namespace" -> a.namespace = "authorized"
    [] rule = "decoy_target"         -> a.decoy /\ a.target = "decoy"
    [] rule = "no_network_egress"    -> ~a.egress
    [] rule = "synthetic_data"       -> a.synthetic
    [] rule = "reversible"           -> a.reversible
    [] rule = "memory_ceiling"       -> 0 < a.memory /\ a.memory <= MaxMemory
    [] rule = "cpu_ceiling"          -> 0 < a.cpu /\ a.cpu <= MaxCpu
    [] rule = "ttl_ceiling"          -> 0 < a.ttl /\ a.ttl <= MaxTtl

\* json.dumps escapes what is not ASCII, or with ensure_ascii=False writes
\* it out: two serializations of one content unless all of it is ASCII.
Canonical(body, serializer) == [body |-> body, as |-> IF body.action.label = "ascii" THEN "plain" ELSE serializer]

Body(a) ==
  [action |-> a, failed |-> {rule \in Rules : ~Passes(rule, a)},
   decision |-> IF \A rule \in Rules : Passes(rule, a) THEN "PERMIT" ELSE "DENY"]

Evaluate(a) == [body |-> Body(a), digest |-> Canonical(Body(a), "escaped")]

------------------------------------------------------------------------------
(* The gateway *)

\* Variant: a digest of the right form is believed.
DigestBelieved(c) == c.digest.as \in {"plain", "escaped"}

\* verify_certificate_digest.
DigestVerifies(c) == c.digest = Canonical(c.body, "utf8")

\* The independent checks of _certificate_failures, which look neither at
\* memory and processor nor at the origin of the data.
ActionAdmissible(a) ==
  /\ a.namespace = "authorized" /\ a.decoy /\ a.target = "decoy"
  /\ ~a.egress /\ a.reversible
  /\ 0 < a.ttl /\ a.ttl <= MaxTtl

CertificateAdmissible(c) ==
  /\ DigestVerifies(c)
  /\ c.body.decision = "PERMIT" /\ c.body.failed = {}
  /\ ActionAdmissible(c.body.action)

DryRun(c) == IF CertificateAdmissible(c) THEN "ACCEPTED_DRY_RUN" ELSE "REFUSED"

------------------------------------------------------------------------------

None == "none"
Issued == {Evaluate(a) : a \in Proposals}

\* An issued certificate, one field of which was changed on its way, as in
\* tests/test_hardware.py.
Changed(c) ==
  {[c EXCEPT !.body.action = a] : a \in Proposals}
    \cup {[c EXCEPT !.body.decision = "PERMIT", !.body.failed = {}]}

SafetyInit == certificates = << >> /\ presented = None /\ altered = FALSE /\ receipt = None

Rows == {certificates[i] : i \in DOMAIN certificates}

\* evaluate_action: INSERT OR IGNORE on the digest.
EvaluateAction ==
  /\ \E c \in Issued :
       certificates' = IF c.digest \in {row.digest : row \in Rows} THEN certificates ELSE Append(certificates, c)
  /\ Len(certificates') <= MaxRows
  /\ UNCHANGED <<presented, altered, receipt>>

Present(c) == presented' = c /\ receipt' = DryRun(c) /\ UNCHANGED certificates

\* hardware_dry_run: evaluated, presented and not saved.
HardwareDryRun == \E c \in Issued : Present(c) /\ altered' = FALSE

\* A certificate read back with latest_certificate and presented changed.
PresentAltered ==
  /\ certificates # << >>
  /\ \E c \in Changed(certificates[Len(certificates)]) :
       /\ Present(c)
       /\ altered' = (c # certificates[Len(certificates)])

\* The certificates go with the cases.
Reset == certificates # << >> /\ certificates' = << >> /\ UNCHANGED <<presented, altered, receipt>>

SafetyNext == EvaluateAction \/ HardwareDryRun \/ PresentAltered \/ Reset

SafetySpec == SafetyInit /\ [][SafetyNext]_safetyVars

------------------------------------------------------------------------------

\* What the gateway accepts is within all eight rules, those it does not
\* check itself included, whatever was changed in the certificate after
\* the gate issued it.
AcceptedIsWithinEveryRule ==
  receipt = "ACCEPTED_DRY_RUN" => LET a == presented.body.action IN
    /\ a.namespace = "authorized" /\ a.target = "decoy" /\ a.decoy /\ ~a.egress /\ a.synthetic /\ a.reversible
    /\ a.memory \in 1 .. MaxMemory /\ a.cpu \in 1 .. MaxCpu /\ a.ttl \in 1 .. MaxTtl

\* The gateway accepts exactly what the gate permits, of the certificates
\* it is given as issued: the complete certificate digest verifies, and
\* nothing but a PERMIT is admissible (profile of hardware.py).
GateAndGatewayAgree ==
  receipt # None /\ ~altered => (receipt = "ACCEPTED_DRY_RUN" <=> presented.body.decision = "PERMIT")

==============================================================================
