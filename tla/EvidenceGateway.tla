--------------------------- MODULE EvidenceGateway ---------------------------
(***************************************************************************)
(* The offline evidence gateway of aegis/sensor_gateway.py: a batch of     *)
(* sensor records is normalized in memory, record by record, and on commit *)
(* appended to the telemetry table observation by observation, each in a   *)
(* transaction of its own, before the import is recorded in another.       *)
(*                                                                         *)
(* The value of a field is abstracted to what the conversions tell apart.  *)
(* One field stands for those converted alike: "name" for the protocol,    *)
(* application, service, state and history tokens, "link" for what becomes *)
(* a local HMAC reference, "size" for ports and byte counts, and "content" *)
(* for all that is dropped.  Where the code counts the rows an import has  *)
(* inserted, the model keeps the rows themselves.                          *)
(***************************************************************************)
EXTENDS Naturals, Sequences

CONSTANTS
  Importers,   \* handler threads of the gateway routes
  Batches      \* the batches clients import

ASSUME BatchAssumption == \A b \in Batches : b \in Seq({b[i] : i \in DOMAIN b})

\* A word or an address or a domain name of token characters, other text,
\* or nothing.
Texts == {"word", "ip", "domain", "text", "absent"}
Numbers == {"inrange", "outofrange", "notnumber", "infinite"}

VARIABLES
  telemetry,   \* the gateway's rows of telemetry_events
  imports,     \* the gateway_imports table
  importPc,    \* importPc[t]: where thread t is
  batch,       \* batch[t]: the batch t processes
  importAt,    \* importAt[t]: the position in it where t goes on
  inserted     \* inserted[t]: the rows t has inserted of it

gatewayVars == <<telemetry, imports, importPc, batch, importAt, inserted>>

------------------------------------------------------------------------------
(* Conversions *)

\* Words over a-z0-9_.:+- survive: addresses and domain names among them.
Token(v) == IF v \in {"word", "ip", "domain"} THEN v ELSE "unknown"

Reference(v) == IF v = "absent" THEN v ELSE "ref"

\* Ports and byte counts: int() of an infinite float is an OverflowError,
\* which neither conversion catches.
Size(v) == IF v = "inrange" THEN v ELSE "absent"

\* Variant: the privacy invariant is not checked on the output.
UncheckedRawIp(observation) == FALSE

ContainsRawIp(observation) == "ip" \in {observation.name, observation.link}

\* _suricata and _zeek, past their checks.
Observation(r) ==
  [event |-> r.event, time |-> r.time, name |-> Token(r.name), link |-> Reference(r.link), size |-> Size(r.size)]

\* The checks in their order: event type and timestamp and both endpoints,
\* then the conversion, then the privacy invariant.
Disposition(r) ==
  IF r.event = "unsupported" \/ r.time = "bad" \/ r.endpoint # "ip" THEN "REJECTED"
  ELSE IF r.size = "infinite" THEN "RAISED"
  ELSE IF ContainsRawIp(Observation(r)) THEN "REJECTED" ELSE "ACCEPTED"

AcceptedPositions(b) == {i \in DOMAIN b : Disposition(b[i]) = "ACCEPTED"}

Raises(b) == \E i \in 1 .. Len(b) : Disposition(b[i]) = "RAISED"

------------------------------------------------------------------------------

NoBatch == CHOOSE b \in Batches : TRUE

GatewayInit ==
  /\ telemetry = {} /\ imports = {}
  /\ importPc = [t \in Importers |-> "idle"]
  /\ batch = [t \in Importers |-> NoBatch]
  /\ importAt = [t \in Importers |-> 1]
  /\ inserted = [t \in Importers |-> {}]

ImportGoto(t, step) == importPc' = [importPc EXCEPT ![t] = step]

Leave(t) ==
  /\ ImportGoto(t, "idle")
  /\ batch' = [batch EXCEPT ![t] = NoBatch]
  /\ importAt' = [importAt EXCEPT ![t] = 1]
  /\ inserted' = [inserted EXCEPT ![t] = {}]

\* Normalization touches nothing shared; a preview ends with it.
Process(t) ==
  /\ importPc[t] = "idle"
  /\ \E b \in Batches, commit \in BOOLEAN :
       /\ batch' = [batch EXCEPT ![t] = b]
       /\ ImportGoto(t, CASE Raises(b)            -> "error"
                    [] ~Raises(b) /\ commit -> "append"
                    [] OTHER                -> "report")
  /\ UNCHANGED <<telemetry, imports, importAt, inserted>>

\* The accepted records t has not come to.
Remaining(t) == {i \in AcceptedPositions(batch[t]) : importAt[t] <= i}

\* append_telemetry of the next accepted observation: INSERT OR IGNORE.
AppendNext(t) ==
  /\ importPc[t] = "append"
  /\ \E i \in Remaining(t) :
       /\ \A j \in Remaining(t) : i <= j
       /\ telemetry' = telemetry \cup {Observation(batch[t][i])}
       /\ inserted' = [inserted EXCEPT ![t] = @ \cup ({Observation(batch[t][i])} \ telemetry)]
       /\ importAt' = [importAt EXCEPT ![t] = i + 1]
  /\ UNCHANGED <<imports, importPc, batch>>

\* Variant: the import is recorded before its observations are appended.
SaveEarly(t) ==
  /\ importPc[t] = "append"
  /\ imports' = IF \E i \in imports : i.batch = batch[t] THEN imports
                ELSE imports \cup {[batch |-> batch[t], inserted |-> inserted[t]]}
  /\ ImportGoto(t, IF Remaining(t) = {} THEN "report" ELSE "append")
  /\ UNCHANGED <<telemetry, batch, importAt, inserted>>

\* save_gateway_import: an import id recorded before is ignored.
SaveImport(t) ==
  /\ importPc[t] = "append" /\ Remaining(t) = {}
  /\ imports' = IF \E i \in imports : i.batch = batch[t] THEN imports
                ELSE imports \cup {[batch |-> batch[t], inserted |-> inserted[t]]}
  /\ ImportGoto(t, "report")
  /\ UNCHANGED <<telemetry, batch, importAt, inserted>>

\* The response is sent, or the handler ends with the exception.
Respond(t) ==
  /\ importPc[t] \in {"report", "error"}
  /\ Leave(t)
  /\ UNCHANGED <<telemetry, imports>>

\* The store raises, or the process dies, between any two transactions.
BreakOff(t) ==
  /\ importPc[t] = "append"
  /\ Leave(t)
  /\ UNCHANGED <<telemetry, imports>>

GatewayNext == \E t \in Importers : Process(t) \/ AppendNext(t) \/ SaveImport(t) \/ Respond(t) \/ BreakOff(t)

GatewaySpec == GatewayInit /\ [][GatewayNext]_gatewayVars

------------------------------------------------------------------------------
(* Correctness *)

\* No raw address reaches the telemetry table, whatever field it comes in
\* ("raw_ip_persisted": False in status).
RawAddressIsNeverKept == \A o \in telemetry : ~("ip" \in {o.name, o.link})

\* The observations of the accepted records of a batch.
Accepted(b) == {Observation(b[p]) : p \in AcceptedPositions(b)}

Importing == {t \in Importers : importPc[t] = "append"}

\* An import on record is backed by every observation its report accepts,
\* although they are appended one by one and any append may be the last, and
\* the imports, those under way included, claim rows there are and none twice
\* (docs/EVIDENCE_GATEWAY_GUIDE.md, provenance and deduplication).
ImportIsBacked ==
  /\ \A i \in imports : Accepted(i.batch) \cup i.inserted \subseteq telemetry
  /\ \A t \in Importing : inserted[t] \subseteq telemetry
  /\ \A i, j \in imports : i # j => i.inserted \cap j.inserted = {}
  /\ \A t, u \in Importing : t # u => inserted[t] \cap inserted[u] = {}
  /\ \A i \in imports, t \in Importing : i.inserted \cap inserted[t] = {}

==============================================================================
