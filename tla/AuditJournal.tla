----------------------------- MODULE AuditJournal -----------------------------
(***************************************************************************)
(* The operator command journal of aegis/audit.py: the installation key    *)
(* beside the database, the hash-linked operator_audit table, and the      *)
(* steps of opening the journal and of appending one receipt.              *)
(*                                                                         *)
(* Several processes may be opened on one installation root. They share    *)
(* the key file and the table; each holds the key in memory.  The write    *)
(* lock is SQLite's (BEGIN IMMEDIATE), taken inside the journal's own      *)
(* thread lock. HMAC-SHA256 is abstracted as an injective pair.            *)
(***************************************************************************)
EXTENDS Installation, Naturals, Sequences

CONSTANT Keys   \* 32-byte keys secrets.token_bytes may return

ASSUME KeysAssumption == Keys \cap {"absent", "empty", "nokey"} = {}
ASSUME CommandsAssumption == "nowriter" \notin Commands

VARIABLES
  keyFile,    \* the key file: absent, created but still empty, or a key
  stage,      \* stage[p]: how far process p has come in opening the journal
  key,        \* key[p]: the key p holds in memory
  rows,       \* the operator_audit table, in sequence order
  writer,     \* the command whose transaction holds the write lock
  headRead    \* the record hash that transaction read as the chain head

journalVars == <<keyFile, stage, key, rows, writer, headRead>>

NoKey == "nokey"
NoWriter == "nowriter"

Stages == {"down", "locating", "counting", "creating", "writing", "up"}

------------------------------------------------------------------------------
(* The chain *)

GenesisHash == << >>

Hmac(k, record) == <<k, record>>

Seal(k, previous, entry) ==
  LET record == [entry |-> entry, previous_hash |-> previous, key_id |-> k]
  IN  [record |-> record, record_hash |-> Hmac(k, record)]

ChainHead(table) == IF table = << >> THEN GenesisHash ELSE table[Len(table)].record_hash

\* The verifier's test of row i of a table under key k.
RowVerifies(k, table, i) ==
  /\ table[i].record.previous_hash = IF i = 1 THEN GenesisHash ELSE table[i - 1].record_hash
  /\ table[i].record_hash = Hmac(k, table[i].record)
  /\ table[i].record.key_id = k

Verifies(k, table) == \A i \in 1 .. Len(table) : RowVerifies(k, table, i)

------------------------------------------------------------------------------

JournalTypeOK ==
  /\ keyFile \in Keys \cup {"absent", "empty"}
  /\ stage \in [Procs -> Stages]
  /\ key \in [Procs -> Keys \cup {NoKey}]
  /\ rows \in Seq({rows[i] : i \in DOMAIN rows})
  /\ writer \in Commands \cup {NoWriter}

JournalInit ==
  /\ keyFile = "absent"
  /\ stage = [p \in Procs |-> "down"]
  /\ key = [p \in Procs |-> NoKey]
  /\ rows = << >>
  /\ writer = NoWriter
  /\ headRead = GenesisHash

Operational(p) == key[p] # NoKey

(* The inductive invariant of the journal, in named parts. *)

\* A key in memory is the key on disk.
HeldKeyIsOnDisk == \A p \in Procs : Operational(p) => keyFile = key[p] /\ stage[p] = "up"

\* The key file is created by one process at a time, beside an empty table.
OneKeyCreator ==
  /\ \A p \in Procs : stage[p] = "creating" /\ keyFile = "absent" => rows = << >>
  /\ \A p \in Procs : stage[p] = "writing" => keyFile = "empty"
  /\ \A p, q \in Procs : stage[p] = "writing" /\ stage[q] = "writing" => p = q

\* Beside a row, a key file is never empty and holds the first row's key.
KeyOfRows ==
  rows # << >> => keyFile # "empty" /\ keyFile \in {"absent", rows[1].record.key_id}

\* The holder of the write lock can seal, and has read the head as it is.
WriterHoldsHead ==
  writer # NoWriter => Operational(Home[writer]) /\ headRead = ChainHead(rows)

RowsVerify == rows # << >> => Verifies(rows[1].record.key_id, rows)

\* What every step of the journal preserves: together these make each
\* append extend an intact chain under its own key (AuditJournal.append,
\* _load_or_create_key).
JournalInv ==
  /\ JournalTypeOK /\ HeldKeyIsOnDisk /\ OneKeyCreator
  /\ KeyOfRows /\ WriterHoldsHead /\ RowsVerify

------------------------------------------------------------------------------
(* Opening the journal *)

Enter(p, next) == stage' = [stage EXCEPT ![p] = next]

KeepTable == UNCHANGED <<rows, writer, headRead>>

ReleaseWriteLock ==
  /\ writer' = NoWriter
  /\ headRead' = GenesisHash

\* The journal stays unavailable: _key is None for the life of the process.
OpenUnavailable(p) ==
  /\ Enter(p, "up")
  /\ UNCHANGED <<keyFile, key>> /\ KeepTable

LoadKey(p) ==
  /\ stage[p] = "locating"
  /\ keyFile \in Keys
  /\ key' = [key EXCEPT ![p] = keyFile]
  /\ Enter(p, "up")
  /\ UNCHANGED keyFile /\ KeepTable

RefuseMalformedKey(p) ==
  /\ stage[p] = "locating"
  /\ keyFile = "empty"
  /\ OpenUnavailable(p)

MissKey(p) ==
  /\ stage[p] = "locating"
  /\ keyFile = "absent"
  /\ Enter(p, "counting")
  /\ UNCHANGED <<keyFile, key>> /\ KeepTable

\* A missing key beside existing rows is never replaced.
RefuseOrphanedRows(p) ==
  /\ stage[p] = "counting"
  /\ rows # << >>
  /\ OpenUnavailable(p)

\* Variant: the rows already in the table are not counted.
FindNoKeyOnly(p) ==
  /\ stage[p] = "counting"
  /\ Enter(p, "creating")
  /\ UNCHANGED <<keyFile, key>> /\ KeepTable

FindNoRows(p) ==
  /\ stage[p] = "counting"
  /\ rows = << >>
  /\ Enter(p, "creating")
  /\ UNCHANGED <<keyFile, key>> /\ KeepTable

\* os.open with O_EXCL: the loser of a creation race stays unavailable.
LoseCreationRace(p) ==
  /\ stage[p] = "creating"
  /\ keyFile # "absent"
  /\ OpenUnavailable(p)

\* Variant: os.open without O_EXCL truncates a file another process created.
CreateOrTruncateKeyFile(p) ==
  /\ stage[p] = "creating"
  /\ keyFile' = "empty"
  /\ Enter(p, "writing")
  /\ UNCHANGED key /\ KeepTable

CreateKeyFile(p) ==
  /\ stage[p] = "creating"
  /\ keyFile = "absent"
  /\ keyFile' = "empty"
  /\ Enter(p, "writing")
  /\ UNCHANGED key /\ KeepTable

WriteKey(p) ==
  /\ stage[p] = "writing"
  /\ \E k \in Keys :
       /\ keyFile' = k
       /\ key' = [key EXCEPT ![p] = k]
  /\ Enter(p, "up")
  /\ KeepTable

\* Any OSError on the way leaves the journal unavailable.
OpenFails(p) ==
  /\ stage[p] \notin {"down", "up"}
  /\ OpenUnavailable(p)

OpenStep(p) ==
  \/ LoadKey(p) \/ RefuseMalformedKey(p) \/ MissKey(p)
  \/ RefuseOrphanedRows(p) \/ FindNoRows(p)
  \/ LoseCreationRace(p) \/ CreateKeyFile(p) \/ WriteKey(p)
  \/ OpenFails(p)

\* The process ends, at any point: memory is gone, SQLite drops its lock.
StopJournal(p) ==
  /\ stage[p] # "down"
  /\ Enter(p, "down")
  /\ key' = [key EXCEPT ![p] = NoKey]
  /\ IF writer \in Commands /\ Home[writer] = p
       THEN ReleaseWriteLock
       ELSE UNCHANGED <<writer, headRead>>
  /\ UNCHANGED <<keyFile, rows>>

\* The key file is deleted while no process has the journal open.
LoseKeyFile ==
  /\ \A p \in Procs : stage[p] = "down"
  /\ keyFile' = "absent"
  /\ keyFile # "absent"
  /\ UNCHANGED <<stage, key>> /\ KeepTable

------------------------------------------------------------------------------
(* Appending a receipt *)

\* Variant: the rows are ordered the wrong way, so the oldest is the head.
BeginAppendAtOldest(c) ==
  /\ Operational(Home[c])
  /\ writer = NoWriter
  /\ writer' = c
  /\ headRead' = IF rows = << >> THEN GenesisHash ELSE rows[1].record_hash
  /\ UNCHANGED <<keyFile, stage, key, rows>>

\* BEGIN IMMEDIATE, then read the chain head.
BeginAppend(c) ==
  /\ Operational(Home[c])
  /\ writer = NoWriter
  /\ writer' = c
  /\ headRead' = ChainHead(rows)
  /\ UNCHANGED <<keyFile, stage, key, rows>>

\* Seal the record onto the head that was read, insert it and commit.
CommitAppend(c, entry) ==
  /\ writer = c
  /\ rows' = Append(rows, Seal(key[Home[c]], headRead, entry))
  /\ ReleaseWriteLock
  /\ UNCHANGED <<keyFile, stage, key>>

\* The insert or the commit raises: rollback, nothing is written.
RollbackAppend(c) ==
  /\ writer = c
  /\ ReleaseWriteLock
  /\ UNCHANGED <<keyFile, stage, key, rows>>

==============================================================================
