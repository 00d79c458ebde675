----------------------------- MODULE InstallKey -----------------------------
(***************************************************************************)
(* A key file beside the database, as registry.py and telemetry.py open    *)
(* it (_load_or_create_key): the two are alike. Unlike audit.key, it is    *)
(* created whenever it is missing, whatever the tables already hold, and a *)
(* key that cannot be loaded ends the start of the process.                *)
(***************************************************************************)
EXTENDS Installation

CONSTANTS
  Keys,        \* 32-byte keys secrets.token_bytes may return
  KeysGetLost  \* whether the key file may be deleted while the system is in use

ASSUME KeysAssumption == Keys \cap {"absent", "empty", "nokey"} = {}
ASSUME LossAssumption == KeysGetLost \in BOOLEAN

VARIABLES
  keyFile,    \* the key file: absent, created but still empty, or a key
  opening,    \* opening[p]: how far process p has come in opening it
  key         \* key[p]: the key p holds in memory

keyVars == <<keyFile, opening, key>>

NoKey == "nokey"

Stages == {"closed", "creating", "writing", "failed", "open"}

KeyTypeOK ==
  /\ keyFile \in Keys \cup {"absent", "empty"}
  /\ opening \in [Procs -> Stages]
  /\ key \in [Procs -> Keys \cup {NoKey}]

KeyInit ==
  /\ keyFile = "absent"
  /\ opening = [p \in Procs |-> "closed"]
  /\ key = [p \in Procs |-> NoKey]

IsOpen(p) == opening[p] = "open"

Hold(p, k) ==
  /\ opening' = [opening EXCEPT ![p] = "open"]
  /\ key' = [key EXCEPT ![p] = k]

\* A file of 32 bytes is the key; a shorter one refuses the start.
Load(p) ==
  \/ keyFile \in Keys /\ Hold(p, keyFile)
  \/ /\ keyFile = "empty"
     /\ opening' = [opening EXCEPT ![p] = "failed"]
     /\ UNCHANGED key

\* is_file, then read_bytes.
FindKey(p) ==
  /\ opening[p] = "closed"
  /\ \/ Load(p)
     \/ /\ keyFile = "absent"
        /\ opening' = [opening EXCEPT ![p] = "creating"]
        /\ UNCHANGED key
  /\ UNCHANGED keyFile

\* os.open with O_EXCL: the loser of the race reads the winner's file.
CreateKey(p) ==
  /\ opening[p] = "creating"
  /\ \/ /\ keyFile = "absent"
        /\ keyFile' = "empty"
        /\ opening' = [opening EXCEPT ![p] = "writing"]
        /\ UNCHANGED key
     \/ Load(p) /\ UNCHANGED keyFile

\* The 32 bytes reach the file when the stream is closed.
WriteKey(p) ==
  /\ opening[p] = "writing"
  /\ \E k \in Keys : Hold(p, k) /\ keyFile' = k

OpenKey(p) == FindKey(p) \/ CreateKey(p) \/ WriteKey(p)

\* The process ends, or is killed, wherever it is.
DropKey(p) ==
  /\ opening[p] # "closed"
  /\ opening' = [opening EXCEPT ![p] = "closed"]
  /\ key' = [key EXCEPT ![p] = NoKey]
  /\ UNCHANGED keyFile

\* An open file cannot be deleted on the product's platform, Windows.
LoseKey ==
  /\ KeysGetLost
  /\ keyFile # "absent" /\ \A p \in Procs : opening[p] # "writing"
  /\ keyFile' = "absent"
  /\ UNCHANGED <<opening, key>>

==============================================================================
