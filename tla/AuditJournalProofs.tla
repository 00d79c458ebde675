-------------------------- MODULE AuditJournalProofs --------------------------
(***************************************************************************)
(* Every step of the operator journal preserves JournalInv, for every set  *)
(* of processes, commands and keys.  One lemma per group of steps; the     *)
(* specifications that contain the journal cite JournalStep.               *)
(***************************************************************************)
EXTENDS AuditJournal, SequenceTheorems, TLAPS

\* A process is started and goes to look for its key.
BeginOpening(p) ==
  /\ stage[p] = "down"
  /\ Enter(p, "locating")
  /\ UNCHANGED <<keyFile, key>> /\ KeepTable

\* Every step of the journal, whoever takes it.
JournalNext ==
  \/ \E p \in Procs : BeginOpening(p) \/ OpenStep(p) \/ StopJournal(p)
  \/ LoseKeyFile
  \/ \E c \in Commands : BeginAppend(c) \/ RollbackAppend(c)
  \/ \E c \in Commands : \E entry : CommitAppend(c, entry)
  \/ UNCHANGED journalVars

------------------------------------------------------------------------------
(* Appending to a sequence whose element set is its own range *)

\* Append keeps such a sequence one, adds one element at the end and leaves
\* the others where they are (the INSERT of AuditJournal.append).
LEMMA AppendedRow ==
  ASSUME NEW s, NEW e, s \in Seq({s[i] : i \in DOMAIN s})
  PROVE  LET t == Append(s, e)
         IN  /\ t \in Seq({t[i] : i \in DOMAIN t})
             /\ Len(s) \in Nat /\ Len(t) = Len(s) + 1 /\ t # << >>
             /\ \A i \in 1 .. Len(s) : t[i] = s[i]
             /\ t[Len(s) + 1] = e
<1> DEFINE S == {s[i] : i \in DOMAIN s} \cup {e}
           t == Append(s, e)
<1>1. s \in Seq(S)
  <2>1. {s[i] : i \in DOMAIN s} \subseteq S
    OBVIOUS
  <2> QED
    BY <2>1, SeqMonotonic
<1>2. /\ t \in Seq(S) /\ t # << >> /\ Len(t) = Len(s) + 1
      /\ \A i \in 1 .. Len(s) : t[i] = s[i]
      /\ t[Len(s) + 1] = e
  <2>1. e \in S
    OBVIOUS
  <2> HIDE DEF S
  <2> QED
    BY <1>1, <2>1, AppendProperties
<1>3. Len(s) \in Nat
  BY <1>1, LenProperties
<1>4. t \in Seq({t[i] : i \in DOMAIN t})
  <2>1. t \in Seq(Range(t))
    BY <1>2, SeqOfRange
  <2> QED
    BY <2>1 DEF Range
<1> QED
  BY <1>2, <1>3, <1>4

------------------------------------------------------------------------------
(* The journal before anything is opened *)

\* A fresh installation satisfies the invariant.
LEMMA JournalInitially == JournalInit => JournalInv
<1> SUFFICES ASSUME JournalInit PROVE JournalInv
  OBVIOUS
<1>1. JournalTypeOK
  BY EmptySeq DEF JournalInit, JournalTypeOK, NoKey, NoWriter, Stages
<1>2. HeldKeyIsOnDisk /\ OneKeyCreator
  BY DEF JournalInit, HeldKeyIsOnDisk, OneKeyCreator, Operational
<1>3. KeyOfRows /\ WriterHoldsHead /\ RowsVerify
  BY DEF JournalInit, KeyOfRows, WriterHoldsHead, RowsVerify
<1> QED
  BY <1>1, <1>2, <1>3 DEF JournalInv

------------------------------------------------------------------------------
(* Steps that leave the table and the lock alone *)

\* What the invariant says of the table survives a step that touches neither
\* the table nor the lock, keeps the key file or finds the table empty, and
\* keeps the key of the lock's holder.
LEMMA TableKept ==
  ASSUME JournalInv, KeepTable,
         keyFile' = keyFile \/ keyFile' = "absent" \/ rows = << >>,
         writer # NoWriter => key'[Home[writer]] = key[Home[writer]]
  PROVE  KeyOfRows' /\ WriterHoldsHead' /\ RowsVerify'
<1>1. KeyOfRows'
  BY DEF JournalInv, KeyOfRows, KeepTable
<1>2. WriterHoldsHead'
  BY DEF JournalInv, WriterHoldsHead, KeepTable, Operational, ChainHead
<1>3. RowsVerify'
  BY DEF JournalInv, RowsVerify, KeepTable, Verifies, RowVerifies
<1> QED
  BY <1>1, <1>2, <1>3

\* A step of opening that only moves on: nothing else changes.
LEMMA OnlyMovesOn ==
  ASSUME JournalInv, NEW p \in Procs, NEW next \in Stages,
         stage[p] # "up", Enter(p, next), next # "writing",
         next = "creating" => rows = << >>,
         UNCHANGED <<keyFile, key>>, KeepTable
  PROVE  JournalInv'
<1>1. JournalTypeOK'
  BY DEF JournalInv, JournalTypeOK, Enter, KeepTable
<1>2. HeldKeyIsOnDisk'
  BY DEF JournalInv, JournalTypeOK, HeldKeyIsOnDisk, Operational, Enter
<1>3. OneKeyCreator'
  BY DEF JournalInv, JournalTypeOK, OneKeyCreator, Enter, KeepTable
<1>4. KeyOfRows' /\ WriterHoldsHead' /\ RowsVerify'
  BY TableKept
<1> QED
  BY <1>1, <1>2, <1>3, <1>4 DEF JournalInv

\* Starting to open the journal preserves the invariant.
LEMMA BeginOpeningStep ==
  ASSUME JournalInv, NEW p \in Procs, BeginOpening(p)
  PROVE  JournalInv'
BY OnlyMovesOn DEF BeginOpening, Stages

\* Every step of _load_or_create_key preserves the invariant.
LEMMA OpenStepStep ==
  ASSUME JournalInv, NEW p \in Procs, OpenStep(p)
  PROVE  JournalInv'
<1>1. CASE LoadKey(p)
  <2>1. JournalTypeOK'
    BY <1>1 DEF LoadKey, JournalInv, JournalTypeOK, Enter, KeepTable, Stages
  <2>2. HeldKeyIsOnDisk'
    BY <1>1 DEF LoadKey, JournalInv, JournalTypeOK, HeldKeyIsOnDisk, Operational, Enter
  <2>3. OneKeyCreator'
    BY <1>1 DEF LoadKey, JournalInv, JournalTypeOK, OneKeyCreator, Enter, KeepTable
  <2>4. key[p] = NoKey
    BY <1>1 DEF LoadKey, JournalInv, HeldKeyIsOnDisk, Operational
  <2>5. writer # NoWriter => key'[Home[writer]] = key[Home[writer]]
    BY <1>1, <2>4, HomeAssumption
      DEF LoadKey, JournalInv, JournalTypeOK, WriterHoldsHead, Operational
  <2>6. KeyOfRows' /\ WriterHoldsHead' /\ RowsVerify'
    BY <1>1, <2>5, TableKept DEF LoadKey
  <2> QED
    BY <2>1, <2>2, <2>3, <2>6 DEF JournalInv
<1>2. CASE RefuseMalformedKey(p) \/ RefuseOrphanedRows(p) \/ LoseCreationRace(p) \/ OpenFails(p)
  BY <1>2, OnlyMovesOn
    DEF RefuseMalformedKey, RefuseOrphanedRows, LoseCreationRace, OpenFails, OpenUnavailable,
        Stages
<1>3. CASE MissKey(p)
  BY <1>3, OnlyMovesOn DEF MissKey, Stages
<1>4. CASE FindNoRows(p)
  BY <1>4, OnlyMovesOn DEF FindNoRows, Stages
<1>5. CASE CreateKeyFile(p)
  <2>1. rows = << >> /\ keyFile \notin Keys
    BY <1>5, KeysAssumption DEF CreateKeyFile, JournalInv, OneKeyCreator
  <2>2. \A q \in Procs : ~Operational(q)
    BY <2>1 DEF JournalInv, JournalTypeOK, HeldKeyIsOnDisk, Operational
  <2>3. JournalTypeOK'
    BY <1>5 DEF CreateKeyFile, JournalInv, JournalTypeOK, Enter, KeepTable, Stages
  <2>4. HeldKeyIsOnDisk'
    BY <1>5, <2>2 DEF CreateKeyFile, HeldKeyIsOnDisk, Operational
  <2>5. OneKeyCreator'
    BY <1>5, <2>1
      DEF CreateKeyFile, JournalInv, JournalTypeOK, OneKeyCreator, Enter, KeepTable
  <2>6. KeyOfRows' /\ WriterHoldsHead' /\ RowsVerify'
    BY <1>5, <2>1, TableKept DEF CreateKeyFile
  <2> QED
    BY <2>3, <2>4, <2>5, <2>6 DEF JournalInv
<1>6. CASE WriteKey(p)
  <2>1. PICK k \in Keys : keyFile' = k /\ key' = [key EXCEPT ![p] = k]
    BY <1>6 DEF WriteKey
  <2>2. keyFile = "empty" /\ keyFile \notin Keys
    BY <1>6, KeysAssumption DEF WriteKey, JournalInv, OneKeyCreator
  <2>3. \A q \in Procs : ~Operational(q)
    BY <2>2 DEF JournalInv, JournalTypeOK, HeldKeyIsOnDisk, Operational
  <2>4. JournalTypeOK'
    BY <1>6, <2>1 DEF WriteKey, JournalInv, JournalTypeOK, Enter, KeepTable, Stages
  <2>5. HeldKeyIsOnDisk'
    BY <1>6, <2>1, <2>3 DEF WriteKey, JournalInv, JournalTypeOK, HeldKeyIsOnDisk, Operational, Enter
  <2>6. OneKeyCreator'
    BY <1>6, <2>1, KeysAssumption
      DEF WriteKey, JournalInv, JournalTypeOK, OneKeyCreator, Enter, KeepTable
  <2>7. rows = << >> /\ writer = NoWriter
    BY <2>2, <2>3, HomeAssumption
      DEF JournalInv, JournalTypeOK, OneKeyCreator, KeyOfRows, WriterHoldsHead
  <2>8. KeyOfRows' /\ WriterHoldsHead' /\ RowsVerify'
    BY <1>6, <2>7, TableKept DEF WriteKey
  <2> QED
    BY <2>4, <2>5, <2>6, <2>8 DEF JournalInv
<1> QED
  BY <1>1, <1>2, <1>3, <1>4, <1>5, <1>6 DEF OpenStep

------------------------------------------------------------------------------
(* Ends of processes and the lost key file *)

\* The end of a process, with or without the write lock, preserves the
\* invariant (SQLite rolls the open transaction back).
LEMMA StopJournalStep ==
  ASSUME JournalInv, NEW p \in Procs, StopJournal(p)
  PROVE  JournalInv'
<1>1. JournalTypeOK'
  BY DEF StopJournal, ReleaseWriteLock, JournalInv, JournalTypeOK, Enter, Stages
<1>2. HeldKeyIsOnDisk'
  BY DEF StopJournal, JournalInv, JournalTypeOK, HeldKeyIsOnDisk, Operational, Enter
<1>3. OneKeyCreator'
  BY DEF StopJournal, JournalInv, JournalTypeOK, OneKeyCreator, Enter
<1>4. KeyOfRows' /\ RowsVerify'
  BY DEF StopJournal, JournalInv, KeyOfRows, RowsVerify, Verifies, RowVerifies
<1>5. WriterHoldsHead'
  <2>1. CASE writer \in Commands /\ Home[writer] = p
    BY <2>1 DEF StopJournal, ReleaseWriteLock, WriterHoldsHead
  <2>2. CASE ~(writer \in Commands /\ Home[writer] = p)
    <3>1. writer # NoWriter => key'[Home[writer]] = key[Home[writer]]
      BY <2>2, HomeAssumption DEF StopJournal, JournalInv, JournalTypeOK
    <3> QED
      BY <2>2, <3>1
        DEF StopJournal, JournalInv, WriterHoldsHead, Operational, ChainHead
  <2> QED
    BY <2>1, <2>2
<1> QED
  BY <1>1, <1>2, <1>3, <1>4, <1>5 DEF JournalInv

\* Losing the key file while no process runs preserves the invariant: the
\* rows stay sealed by the key that is gone.
LEMMA LoseKeyFileStep ==
  ASSUME JournalInv, LoseKeyFile
  PROVE  JournalInv'
<1>1. JournalTypeOK' /\ OneKeyCreator'
  BY DEF LoseKeyFile, KeepTable, JournalInv, JournalTypeOK, OneKeyCreator
<1>2. HeldKeyIsOnDisk'
  BY DEF LoseKeyFile, JournalInv, HeldKeyIsOnDisk, Operational
<1>3. KeyOfRows' /\ WriterHoldsHead' /\ RowsVerify'
  BY TableKept DEF LoseKeyFile
<1> QED
  BY <1>1, <1>2, <1>3 DEF JournalInv

------------------------------------------------------------------------------
(* The append transaction *)

\* Taking the write lock and reading the head preserves the invariant.
LEMMA BeginAppendStep ==
  ASSUME JournalInv, NEW c \in Commands, BeginAppend(c)
  PROVE  JournalInv'
<1>1. JournalTypeOK' /\ OneKeyCreator'
  BY DEF BeginAppend, JournalInv, JournalTypeOK, OneKeyCreator
<1>2. HeldKeyIsOnDisk' /\ KeyOfRows' /\ WriterHoldsHead'
  BY DEF BeginAppend, JournalInv, HeldKeyIsOnDisk, KeyOfRows, WriterHoldsHead,
         Operational, ChainHead
<1>3. RowsVerify'
  BY DEF BeginAppend, JournalInv, RowsVerify, Verifies, RowVerifies
<1> QED
  BY <1>1, <1>2, <1>3 DEF JournalInv

\* A rolled back append preserves the invariant.
LEMMA RollbackAppendStep ==
  ASSUME JournalInv, NEW c \in Commands, RollbackAppend(c)
  PROVE  JournalInv'
<1>1. JournalTypeOK' /\ OneKeyCreator'
  BY DEF RollbackAppend, ReleaseWriteLock, JournalInv, JournalTypeOK, OneKeyCreator
<1>2. HeldKeyIsOnDisk' /\ KeyOfRows' /\ WriterHoldsHead'
  BY DEF RollbackAppend, ReleaseWriteLock, JournalInv, HeldKeyIsOnDisk, KeyOfRows,
         WriterHoldsHead, Operational
<1>3. RowsVerify'
  BY DEF RollbackAppend, JournalInv, RowsVerify, Verifies, RowVerifies
<1> QED
  BY <1>1, <1>2, <1>3 DEF JournalInv

\* A committed append preserves the invariant: the new row extends the head
\* that was read under the lock and is sealed with the key of the others.
LEMMA CommitAppendStep ==
  ASSUME JournalInv, NEW c \in Commands, NEW entry, CommitAppend(c, entry)
  PROVE  JournalInv'
<1> DEFINE k == key[Home[c]]
           row == Seal(k, headRead, entry)
           n == Len(rows)
<1>1. /\ keyFile = k /\ k \in Keys /\ k # "absent" /\ k # "empty"
      /\ headRead = ChainHead(rows)
      /\ UNCHANGED <<keyFile, stage, key>> /\ writer' = NoWriter
  BY CommandsAssumption, KeysAssumption, HomeAssumption
    DEF CommitAppend, ReleaseWriteLock, JournalInv, JournalTypeOK, WriterHoldsHead,
        HeldKeyIsOnDisk, Operational, NoWriter, NoKey
<1>2. /\ rows' \in Seq({rows'[i] : i \in DOMAIN rows'})
      /\ n \in Nat /\ Len(rows') = n + 1 /\ rows' # << >>
      /\ \A i \in 1 .. n : rows'[i] = rows[i]
      /\ rows'[n + 1] = row
  <2>1. rows \in Seq({rows[i] : i \in DOMAIN rows})
    BY DEF JournalInv, JournalTypeOK
  <2>2. rows' = Append(rows, row)
    BY DEF CommitAppend
  <2> HIDE DEF row
  <2> QED
    BY <2>1, <2>2, AppendedRow
<1>3. JournalTypeOK'
  BY <1>1, <1>2 DEF JournalInv, JournalTypeOK
<1>4. HeldKeyIsOnDisk'
  BY <1>1 DEF JournalInv, HeldKeyIsOnDisk, Operational
<1>5. OneKeyCreator'
  BY <1>1 DEF JournalInv, OneKeyCreator
<1>6. WriterHoldsHead'
  BY <1>1 DEF WriterHoldsHead
<1>7. /\ row.record.key_id = k /\ row.record.previous_hash = headRead
      /\ row.record_hash = Hmac(k, row.record)
  BY DEF Seal
<1>8. rows = << >> <=> n = 0
  BY EmptySeq, <1>2 DEF JournalInv, JournalTypeOK
<1>9. rows'[1].record.key_id = k
  <2>1. CASE rows = << >>
    BY <1>2, <1>7, <1>8, <2>1
  <2>2. CASE rows # << >>
    <3>1. rows'[1] = rows[1]
      BY <1>2, <1>8, <2>2
    <3> QED
      BY <1>1, <2>2, <3>1 DEF JournalInv, KeyOfRows
  <2> QED
    BY <2>1, <2>2
<1>10. KeyOfRows'
  BY <1>1, <1>9 DEF KeyOfRows
<1>11. RowsVerify'
  <2>1. SUFFICES ASSUME NEW i \in 1 .. n + 1
                 PROVE  RowVerifies(k, rows', i)
    BY <1>2, <1>9 DEF RowsVerify, Verifies, RowVerifies
  <2>2. CASE i \in 1 .. n
    <3>1. rows # << >> /\ rows[1].record.key_id = k
      BY <1>1, <1>2, <1>8, <2>2 DEF JournalInv, KeyOfRows
    <3>2. RowVerifies(k, rows, i)
      BY <2>2, <3>1 DEF JournalInv, RowsVerify, Verifies
    <3>3. rows'[i] = rows[i] /\ (i # 1 => rows'[i - 1] = rows[i - 1])
      <4> HIDE DEF n, k, row
      <4>1. \A j \in 1 .. n : rows'[j] = rows[j]
        BY <1>2
      <4>2. n \in Nat
        BY <1>2
      <4>3. i # 1 => i - 1 \in 1 .. n
        BY <4>2, <2>2
      <4> QED
        BY <4>1, <4>3, <2>2
    <3> QED
      BY <3>2, <3>3 DEF RowVerifies
  <2>3. CASE i = n + 1
    <3>1. headRead = IF i = 1 THEN GenesisHash ELSE rows'[i - 1].record_hash
      BY <1>1, <1>2, <1>8, <2>3 DEF ChainHead
    <3> QED
      BY <1>2, <1>7, <2>3, <3>1 DEF RowVerifies
  <2> QED
    BY <1>2, <2>2, <2>3
<1> QED
  BY <1>3, <1>4, <1>5, <1>6, <1>10, <1>11 DEF JournalInv

------------------------------------------------------------------------------

\* Every step of the journal preserves the invariant: the interleavings of
\* key creation, appends, rollbacks, restarts and the lost key file.
THEOREM JournalStep == JournalInv /\ JournalNext => JournalInv'
<1> SUFFICES ASSUME JournalInv, JournalNext PROVE JournalInv'
  OBVIOUS
<1>1. ASSUME NEW p \in Procs, BeginOpening(p) \/ OpenStep(p) \/ StopJournal(p)
      PROVE  JournalInv'
  BY <1>1, BeginOpeningStep, OpenStepStep, StopJournalStep
<1>2. CASE LoseKeyFile
  BY <1>2, LoseKeyFileStep
<1>3. ASSUME NEW c \in Commands, BeginAppend(c) \/ RollbackAppend(c)
      PROVE  JournalInv'
  BY <1>3, BeginAppendStep, RollbackAppendStep
<1>4. ASSUME NEW c \in Commands, NEW entry, CommitAppend(c, entry)
      PROVE  JournalInv'
  BY <1>4, CommitAppendStep
<1>5. CASE UNCHANGED journalVars
  BY <1>5 DEF journalVars, JournalInv, JournalTypeOK, HeldKeyIsOnDisk, OneKeyCreator,
              KeyOfRows, WriterHoldsHead, RowsVerify, Operational, ChainHead, Verifies,
              RowVerifies
<1> QED
  BY <1>1, <1>2, <1>3, <1>4, <1>5 DEF JournalNext

\* Under the invariant, the key of every process that holds one verifies the
\* whole table (AuditJournal.verify).
THEOREM HeldKeyVerifies ==
  ASSUME JournalInv, NEW p \in Procs, Operational(p)
  PROVE  Verifies(key[p], rows)
<1>1. keyFile = key[p] /\ keyFile # "absent"
  BY KeysAssumption DEF JournalInv, JournalTypeOK, HeldKeyIsOnDisk, Operational, NoKey
<1>2. CASE rows = << >>
  BY <1>2, EmptySeq DEF Verifies
<1>3. CASE rows # << >>
  BY <1>1, <1>3 DEF JournalInv, KeyOfRows, RowsVerify
<1> QED
  BY <1>2, <1>3

==============================================================================
