----------------------- MODULE GovernanceRegistryProofs -----------------------
(***************************************************************************)
(* What GovernanceRegistry promises for any processes, requests, artifacts *)
(* and keys, key files that get lost included. The argument: the first     *)
(* artifact of the script is registered once, under one key, and nobody    *)
(* gets past it with another.                                              *)
(***************************************************************************)
EXTENDS GovernanceRegistry, TLAPS

Root == Script[1]
RootKey == registry[Root]

\* The first n artifacts of the script, or all of them, are attested with k.
Upto(k, n) == \A i \in 1 .. n : registry[Script[i]] = k
Whole(k) == Upto(k, Len(Script))

\* Only open processes work, with a key.
OpenWorks ==
  /\ \A p \in Procs : IsOpen(p) => key[p] \in Keys
  /\ \A p \in Procs : ready[p] => IsOpen(p)
  /\ \A c \in Commands : pc[c] # "idle" => IsOpen(Home[c])

RootDecides ==
  /\ \A a \in Artifacts : Registered(a) => registry[a] = RootKey
  /\ \A i \in 1 .. Len(ledger) : ledger[i].previous = i - 1 /\ ledger[i].key = RootKey

\* How much of the script a request or a process has seen verified.
Prepared ==
  /\ \A c \in Commands : pc[c] = "idle" => at[c] = 1
  /\ \A c \in Commands : pc[c] \in {"look", "insert"} => at[c] \in 1 .. Len(Script) /\ Upto(Key(c), at[c] - 1)
  /\ \A c \in Commands : pc[c] = "first" => at[c] = Len(Script) + 1
  /\ \A c \in Commands : pc[c] \in {"first", "decide", "append", "readback"} => Whole(Key(c))
  /\ \A p \in Procs : ready[p] => Whole(key[p])

\* Whoever may decide for a client finds the bootstrap decision made.
Booted ==
  /\ \A c \in Commands : pc[c] \in {"decide", "readback"} => ledger # << >>
  /\ \A c \in Commands : pc[c] = "append" =>
       BootstrapDue(c) \/ (at[c] = 0 /\ wanted[c] \in Artifacts /\ ledger # << >>)
  /\ \A p \in Procs : ready[p] => ledger # << >>

GovernanceInv ==
  GovernanceTypeOK /\ OpenWorks /\ RootDecides /\ Prepared /\ Booted /\ BootstrapDecidesFirst /\ DecisionsAreConservative

LEMMA ScriptFacts ==
  /\ Len(Script) \in Nat /\ Len(Script) >= 1 /\ Root \in Artifacts
  /\ \A i \in 1 .. Len(Script) : Script[i] \in Artifacts
  /\ Unregistered \notin Keys
  /\ \A a \in Artifacts : Lineage[a] \subseteq Artifacts
BY ScriptAssumption, KeysAssumption DEF Root, Unregistered

------------------------------------------------------------------------------
(* The steps that change no table *)

\* What is said of the tables alone.
TablesOK == RootDecides /\ BootstrapDecidesFirst /\ DecisionsAreConservative

LEMMA TablesKept == ASSUME TablesOK, UNCHANGED tables PROVE TablesOK'
BY DEF TablesOK, tables, RootDecides, RootKey, Root, Registered, BootstrapDecidesFirst, DecisionsAreConservative, Attested

\* A step of one request that leaves registry and keys alone need only be
\* looked at for that request.
LEMMA OthersStayPrepared ==
  ASSUME Prepared, NEW c \in Commands,
         UNCHANGED <<registry, key>>,
         \A d \in Commands \ {c} : pc'[d] = pc[d] /\ at'[d] = at[d],
         pc'[c] = "idle" => at'[c] = 1,
         pc'[c] \in {"look", "insert"} => at'[c] \in 1 .. Len(Script) /\ Upto(Key(c), at'[c] - 1),
         pc'[c] = "first" => at'[c] = Len(Script) + 1,
         pc'[c] \in {"first", "decide", "append", "readback"} => Whole(Key(c)),
         \A p \in Procs : ready'[p] => ready[p] \/ Whole(key[p])
  PROVE  Prepared'
<1>2. \A d \in Commands : Key(d)' = Key(d)
  BY DEF Key
<1>3. \A d \in Commands : Whole(Key(d))' <=> Whole(Key(d))
  BY <1>2 DEF Whole, Upto
<1>4. \A d \in Commands : pc'[d] \in {"look", "insert"} => at'[d] \in 1 .. Len(Script) /\ Upto(Key(d), at[d] - 1)'
  BY <1>2 DEF Prepared, Upto
<1>5. \A p \in Procs : ready'[p] => Whole(key[p])'
  BY DEF Prepared, Whole, Upto
<1> QED
  BY <1>3, <1>4, <1>5 DEF Prepared

\* What is stored is a record.
LEMMA LedgerFacts ==
  ASSUME GovernanceTypeOK
  PROVE  /\ Len(ledger) \in Nat
         /\ \A i \in 1 .. Len(ledger) : ledger[i].key \in Keys /\ ledger[i].candidate \in Artifacts
<1>1. ledger \in Seq(Record)
  BY DEF GovernanceTypeOK
<1>2. Len(ledger) \in Nat /\ \A i \in 1 .. Len(ledger) : ledger[i] \in Record
  BY <1>1
<1> QED
  BY <1>2 DEF Record

LEMMA GovernanceInitial == GovernanceInit => GovernanceInv
<1> SUFFICES ASSUME GovernanceInit PROVE GovernanceInv
  OBVIOUS
<1> USE ScriptFacts DEF GovernanceInit, KeyInit
<1>1. GovernanceTypeOK
  BY DEF GovernanceTypeOK, KeyTypeOK, Stages, Steps
<1>2. OpenWorks /\ Prepared /\ Booted
  BY HomeAssumption DEF OpenWorks, IsOpen, Prepared, Booted
<1>3. TablesOK
  BY DEF TablesOK, RootDecides, Registered, BootstrapDecidesFirst, DecisionsAreConservative
<1> QED
  BY <1>1, <1>2, <1>3 DEF GovernanceInv, TablesOK

\* A process opens the key before it serves anything.
LEMMA StartStep == ASSUME GovernanceInv, NEW p \in Procs, Start(p) PROVE GovernanceInv'
<1> USE DEF GovernanceInv, Start, threadVars
<1>1. /\ KeyTypeOK' /\ ~IsOpen(p)
      /\ opening'[p] = "open" => key'[p] \in Keys
      /\ \A q \in Procs \ {p} : key'[q] = key[q] /\ opening'[q] = opening[q]
  BY DEF OpenKey, FindKey, CreateKey, WriteKey, Load, Hold, GovernanceTypeOK, KeyTypeOK, Stages, IsOpen
<1>2. GovernanceTypeOK'
  BY <1>1 DEF GovernanceTypeOK, tables
<1>3. OpenWorks'
  <2>1. \A q \in Procs \ {p} : IsOpen(q)' = IsOpen(q)
    BY <1>1 DEF IsOpen
  <2>2. \A q \in Procs : IsOpen(q)' => key'[q] \in Keys
    <3> SUFFICES ASSUME NEW q \in Procs, opening'[q] = "open" PROVE key'[q] \in Keys
      BY DEF IsOpen
    <3>1. CASE q = p
      BY <3>1, <1>1 DEF IsOpen
    <3>2. CASE q # p
      <4>1. opening[q] = "open" /\ key'[q] = key[q]
        BY <3>2, <1>1
      <4> QED
        BY <4>1 DEF OpenWorks, IsOpen
    <3> QED
      BY <3>1, <3>2
  <2>3. \A q \in Procs : ready'[q] => IsOpen(q)'
    BY <1>1, <2>1 DEF OpenWorks
  <2>4. \A c \in Commands : pc'[c] # "idle" => IsOpen(Home[c])'
    BY <1>1, <2>1, HomeAssumption DEF OpenWorks
  <2> QED
    BY <2>2, <2>3, <2>4 DEF OpenWorks
<1>4. Prepared'
  BY <1>1, HomeAssumption DEF OpenWorks, Prepared, Upto, Whole, Key, tables
<1>5. Booted'
  BY DEF Booted, BootstrapDue, tables
<1> QED
  BY <1>2, <1>3, <1>4, <1>5, TablesKept DEF TablesOK

LEMMA EndProcessStep == ASSUME GovernanceInv, NEW p \in Procs, EndProcess(p) PROVE GovernanceInv'
<1> USE DEF GovernanceInv, EndProcess, DropKey, Forget
<1>1. GovernanceTypeOK'
  BY DEF GovernanceTypeOK, KeyTypeOK, Stages, Steps, NoKey, tables
<1>2. OpenWorks'
  BY HomeAssumption DEF OpenWorks, IsOpen, GovernanceTypeOK, KeyTypeOK
<1>3. Prepared'
  BY HomeAssumption DEF Prepared, Upto, Whole, Key, tables, GovernanceTypeOK, KeyTypeOK
<1>4. Booted'
  BY DEF Booted, BootstrapDue, tables, GovernanceTypeOK
<1> QED
  BY <1>1, <1>2, <1>3, <1>4, TablesKept DEF TablesOK

LEMMA DeleteKeyFileStep == ASSUME GovernanceInv, DeleteKeyFile PROVE GovernanceInv'
<1> USE DEF GovernanceInv, DeleteKeyFile, LoseKey, threadVars
<1>1. GovernanceTypeOK'
  BY DEF GovernanceTypeOK, KeyTypeOK, tables
<1>2. OpenWorks' /\ Prepared' /\ Booted'
  BY DEF OpenWorks, IsOpen, Prepared, Upto, Whole, Key, Booted, BootstrapDue, tables
<1> QED
  BY <1>1, <1>2, TablesKept DEF TablesOK

LEMMA BeginStep == ASSUME GovernanceInv, NEW c \in Commands, Begin(c) PROVE GovernanceInv'
<1> USE ScriptFacts DEF GovernanceInv, Begin, Goto, keyVars
<1>1. GovernanceTypeOK'
  BY HomeAssumption DEF GovernanceTypeOK, KeyTypeOK, Steps, tables
<1>2. OpenWorks'
  BY DEF OpenWorks, IsOpen, GovernanceTypeOK
<1>3. Prepared'
  <2>1. /\ \A d \in Commands \ {c} : pc'[d] = pc[d] /\ at'[d] = at[d]
        /\ at'[c] = 1 /\ pc'[c] = IF ready[Home[c]] THEN "decide" ELSE "look"
        /\ UNCHANGED <<registry, key, ready>>
    BY DEF Prepared, GovernanceTypeOK, tables
  <2>2. Upto(Key(c), 0) /\ (ready[Home[c]] => Whole(Key(c)))
    BY HomeAssumption DEF Upto, Prepared, Key
  <2> QED
    BY <2>1, <2>2, OthersStayPrepared
<1>4. Booted'
  BY HomeAssumption DEF Booted, BootstrapDue, GovernanceTypeOK, tables
<1> QED
  BY <1>1, <1>2, <1>3, <1>4, TablesKept DEF TablesOK

LEMMA FinishStep == ASSUME GovernanceInv, NEW c \in Commands, Finish(c) PROVE GovernanceInv'
<1> USE DEF GovernanceInv, Finish, Forget, keyVars
<1>1. GovernanceTypeOK'
  BY DEF GovernanceTypeOK, KeyTypeOK, Steps, tables
<1>2. OpenWorks'
  BY DEF OpenWorks, IsOpen, GovernanceTypeOK
<1>3. Prepared'
  BY DEF Prepared, Upto, Whole, Key, GovernanceTypeOK, tables
<1>4. Booted'
  BY DEF Booted, BootstrapDue, GovernanceTypeOK, tables
<1> QED
  BY <1>1, <1>2, <1>3, <1>4, TablesKept DEF TablesOK

\* An artifact attested with this process's key lengthens what c has seen.
LEMMA SettleStep ==
  ASSUME GovernanceInv, NEW c \in Commands, pc[c] \in {"look", "insert"},
         Settle(c, Script[at[c]]),
         UNCHANGED <<keyVars, tables, ready, wanted, appended, answered>>
  PROVE  GovernanceInv'
<1> USE ScriptFacts DEF GovernanceInv, Settle, Advance, Refuse, Goto, keyVars
<1>1. GovernanceTypeOK'
  <2>1. CASE Attested(Script[at[c]], Key(c))
    <3>1. at' = [at EXCEPT ![c] = @ + 1]
      BY <2>1
    <3>2. pc' = [pc EXCEPT ![c] = IF at[c] < Len(Script) THEN "look" ELSE "first"]
      BY <2>1
    <3>3. pc' \in [Commands -> Steps] /\ at' \in [Commands -> Nat]
      BY <3>1, <3>2 DEF GovernanceTypeOK, Steps
    <3> QED
      BY <3>3 DEF GovernanceTypeOK, KeyTypeOK, tables
  <2>2. CASE ~Attested(Script[at[c]], Key(c))
    BY <2>2 DEF GovernanceTypeOK, KeyTypeOK, Steps, tables
  <2> QED
    BY <2>1, <2>2
<1>2. OpenWorks'
  BY DEF OpenWorks, IsOpen, GovernanceTypeOK
<1>3. Prepared'
  <2>1. CASE Attested(Script[at[c]], Key(c))
    <3>1. at[c] \in 1 .. Len(Script) /\ Upto(Key(c), at[c])
      BY <2>1 DEF Prepared, Upto, Attested
    <3>2. at'[c] = at[c] + 1 /\ \A d \in Commands \ {c} : at'[d] = at[d] /\ pc'[d] = pc[d]
      BY <2>1 DEF GovernanceTypeOK
    <3>3. pc'[c] = IF at[c] < Len(Script) THEN "look" ELSE "first"
      BY <2>1 DEF GovernanceTypeOK
    <3>4. UNCHANGED <<registry, key, ready>>
      BY DEF tables
    <3>5. at[c] < Len(Script) \/ at[c] = Len(Script)
      BY <3>1
    <3> QED
      BY <3>1, <3>2, <3>3, <3>4, <3>5 DEF Prepared, Upto, Whole, Key
  <2>2. CASE ~Attested(Script[at[c]], Key(c))
    <3>1. UNCHANGED <<at, registry, key, ready>>
      BY <2>2 DEF tables
    <3>2. pc'[c] = "refused" /\ \A d \in Commands \ {c} : pc'[d] = pc[d]
      BY <2>2 DEF GovernanceTypeOK
    <3> QED
      BY <3>1, <3>2 DEF Prepared, Upto, Whole, Key
  <2> QED
    BY <2>1, <2>2
<1>4. Booted'
  BY DEF Booted, BootstrapDue, GovernanceTypeOK, tables
<1> QED
  BY <1>1, <1>2, <1>3, <1>4, TablesKept DEF TablesOK

LEMMA LookUpStep == ASSUME GovernanceInv, NEW c \in Commands, LookUp(c) PROVE GovernanceInv'
<1>1. CASE Settle(c, Script[at[c]])
  BY <1>1, SettleStep DEF LookUp
<1>2. ASSUME NEW step \in {"refused", "insert"}, Goto(c, step), UNCHANGED at PROVE GovernanceInv'
  <2> USE <1>2 DEF GovernanceInv, LookUp, Goto, keyVars
  <2>1. GovernanceTypeOK'
    BY DEF GovernanceTypeOK, KeyTypeOK, Steps, tables
  <2>2. OpenWorks'
    BY DEF OpenWorks, IsOpen, GovernanceTypeOK
  <2>3. Prepared'
    BY DEF Prepared, Upto, Whole, Key, GovernanceTypeOK, tables
  <2>4. Booted'
    BY DEF Booted, BootstrapDue, GovernanceTypeOK, tables
  <2> QED
    BY <2>1, <2>2, <2>3, <2>4, TablesKept DEF TablesOK
<1> QED
  BY <1>1, <1>2 DEF LookUp, Refuse

LEMMA CheckLedgerStep == ASSUME GovernanceInv, NEW c \in Commands, CheckLedger(c) PROVE GovernanceInv'
<1> USE ScriptFacts DEF GovernanceInv, CheckLedger, Goto, keyVars
<1>1. GovernanceTypeOK'
  BY DEF GovernanceTypeOK, KeyTypeOK, Steps, tables
<1>2. OpenWorks'
  BY HomeAssumption DEF OpenWorks, IsOpen, GovernanceTypeOK
<1>3. Prepared'
  <2>1. /\ \A d \in Commands \ {c} : pc'[d] = pc[d] /\ at'[d] = at[d]
        /\ at'[c] = at[c] /\ pc'[c] \in {"append", "decide"}
        /\ \A p \in Procs : ready'[p] => ready[p] \/ p = Home[c]
        /\ UNCHANGED <<registry, key>>
    BY DEF GovernanceTypeOK, tables
  <2>2. Whole(Key(c)) /\ Whole(key[Home[c]])
    BY DEF Prepared, Key
  <2> QED
    BY <2>1, <2>2, OthersStayPrepared
<1>4. Booted'
  BY HomeAssumption DEF Booted, Prepared, BootstrapDue, GovernanceTypeOK, tables
<1> QED
  BY <1>1, <1>2, <1>3, <1>4, TablesKept DEF TablesOK

LEMMA DecideStep == ASSUME GovernanceInv, NEW c \in Commands, Decide(c) PROVE GovernanceInv'
<1> USE ScriptFacts, ArtifactsAssumption DEF GovernanceInv, Decide, Goto, keyVars
<1>1. GovernanceTypeOK'
  BY DEF GovernanceTypeOK, KeyTypeOK, Steps, tables
<1>2. OpenWorks'
  BY DEF OpenWorks, IsOpen, GovernanceTypeOK
<1>3. Prepared'
  BY DEF Prepared, Upto, Whole, Key, GovernanceTypeOK, tables
<1>4. Booted'
  BY DEF Booted, BootstrapDue, GovernanceTypeOK, tables
<1> QED
  BY <1>1, <1>2, <1>3, <1>4, TablesKept DEF TablesOK

LEMMA ReadBackStep == ASSUME GovernanceInv, NEW c \in Commands, ReadBack(c) PROVE GovernanceInv'
<1> USE ScriptFacts DEF GovernanceInv, ReadBack, Goto, keyVars
<1>1. GovernanceTypeOK'
  <2>1. Len(ledger) \in Nat
    BY LedgerFacts
  <2>2. pc' \in [Commands -> Steps] /\ answered' \in [Commands -> Nat] /\ ready' \in [Procs -> BOOLEAN]
    BY <2>1 DEF GovernanceTypeOK, Steps
  <2> QED
    BY <2>2 DEF GovernanceTypeOK, KeyTypeOK, tables
<1>2. OpenWorks'
  BY HomeAssumption DEF OpenWorks, IsOpen, GovernanceTypeOK
<1>3. Prepared'
  <2>1. /\ \A d \in Commands \ {c} : pc'[d] = pc[d] /\ at'[d] = at[d]
        /\ pc'[c] \in {"answer", "decide"}
        /\ \A p \in Procs : ready'[p] => ready[p] \/ p = Home[c]
        /\ UNCHANGED <<registry, key>>
    BY DEF GovernanceTypeOK, tables
  <2>2. Whole(Key(c)) /\ Whole(key[Home[c]])
    BY DEF Prepared, Key
  <2> QED
    BY <2>1, <2>2, OthersStayPrepared
<1>4. Booted'
  BY HomeAssumption DEF Booted, BootstrapDue, GovernanceTypeOK, tables
<1> QED
  BY <1>1, <1>2, <1>3, <1>4, TablesKept DEF TablesOK

------------------------------------------------------------------------------
(* The two steps that change a table *)

\* Nobody inserts the root over another key, and nobody gets to any other
\* artifact without having seen the root under his own.
LEMMA InsertStep == ASSUME GovernanceInv, NEW c \in Commands, InsertArtifact(c) PROVE GovernanceInv'
<1>1. CASE Registered(Script[at[c]])
  BY <1>1, SettleStep DEF InsertArtifact, tables
<1>2. CASE ~Registered(Script[at[c]])
  <2> DEFINE a == Script[at[c]]
  <2> USE ScriptFacts DEF GovernanceInv
  <2>1. /\ pc[c] = "insert" /\ registry' = [registry EXCEPT ![a] = Key(c)]
        /\ at' = [at EXCEPT ![c] = @ + 1]
        /\ pc' = [pc EXCEPT ![c] = IF at[c] < Len(Script) THEN "look" ELSE "first"]
        /\ UNCHANGED <<keyVars, ledger, ready, wanted, appended, answered>>
    BY <1>2 DEF InsertArtifact, Advance, Goto
  <2>2. at[c] \in 1 .. Len(Script) /\ Upto(Key(c), at[c] - 1) /\ a \in Artifacts
    BY <2>1 DEF Prepared
  <2>3. Key(c) \in Keys /\ Key(c) # Unregistered
    BY <2>1, HomeAssumption DEF OpenWorks, Key
  <2>4. registry[a] = Unregistered
    BY <1>2 DEF Registered
  <2>5. registry'[a] = Key(c) /\ \A b \in Artifacts \ {a} : registry'[b] = registry[b]
    BY <2>1, <2>2 DEF GovernanceTypeOK
  <2>6. UNCHANGED <<keyFile, opening, key>>
    BY <2>1 DEF keyVars
  <2>7. \A k \in Keys : \A n \in 0 .. Len(Script) : Upto(k, n) => Upto(k, n)'
    BY <2>2, <2>4, <2>5 DEF Upto
  <2> HIDE DEF a
  <2>8. GovernanceTypeOK'
    BY <2>1, <2>2, <2>3, <2>6 DEF GovernanceTypeOK, KeyTypeOK, Steps
  <2>9. OpenWorks'
    BY <2>1, <2>6 DEF OpenWorks, IsOpen, GovernanceTypeOK
  <2>10. RootDecides'
    <3>1. CASE at[c] = 1
      <4>1. a = Root
        BY <3>1 DEF a, Root
      <4>2. \A b \in Artifacts : ~Registered(b)
        BY <4>1, <2>4 DEF RootDecides, RootKey, Registered
      <4>3. Len(ledger) \in Nat /\ \A i \in 1 .. Len(ledger) : ledger[i].key \in Keys
        BY LedgerFacts
      <4>4. ~(\E i \in 1 .. Len(ledger) : TRUE)
        BY <4>1, <4>3, <2>4 DEF RootDecides, RootKey
      <4> QED
        BY <4>1, <4>2, <4>4, <2>1, <2>5 DEF RootDecides, RootKey, Registered
    <3>2. CASE at[c] # 1
      <4>1. RootKey = Key(c)
        BY <3>2, <2>2 DEF Upto, RootKey, Root
      <4>2. a # Root
        BY <4>1, <2>3, <2>4 DEF RootKey
      <4>3. RootKey' = RootKey
        BY <4>2, <2>5 DEF RootKey, Root
      <4> QED
        BY <4>1, <4>3, <2>1, <2>5 DEF RootDecides, Registered
    <3> QED
      BY <3>1, <3>2
  <2>11. \A i \in 1 .. at[c] : registry'[Script[i]] = Key(c)
    <3>1. \A i \in 1 .. at[c] : i \in 1 .. at[c] - 1 \/ i = at[c]
      BY <2>2
    <3>2. \A i \in 1 .. at[c] - 1 : registry[Script[i]] = Key(c) /\ Script[i] \in Artifacts
      BY <2>2 DEF Upto
    <3> QED
      BY <3>1, <3>2, <2>3, <2>4, <2>5 DEF a
  <2>12. Prepared'
    <3>1. \A d \in Commands \ {c} : pc'[d] = pc[d] /\ at'[d] = at[d] /\ Key(d)' = Key(d)
      BY <2>1, <2>6 DEF GovernanceTypeOK, Key
    <3>2. \A d \in Commands : pc[d] # "idle" => Key(d) \in Keys
      BY HomeAssumption DEF OpenWorks, Key
    <3>3. \A d \in Commands \ {c} : pc[d] \in {"look", "insert"} => Upto(Key(d), at[d] - 1)'
      <4> SUFFICES ASSUME NEW d \in Commands \ {c}, pc[d] \in {"look", "insert"}
                   PROVE  Upto(Key(d), at[d] - 1)'
        OBVIOUS
      <4>1. at[d] \in 1 .. Len(Script) /\ Upto(Key(d), at[d] - 1) /\ Key(d) \in Keys
        BY <3>2 DEF Prepared
      <4>2. registry[a] # Key(d)
        BY <4>1, <2>4
      <4> QED
        BY <3>1, <4>1, <4>2, <2>5 DEF Upto
    <3>4. \A d \in Commands \ {c} : pc[d] \in {"first", "decide", "append", "readback"} => Whole(Key(d))'
      <4> SUFFICES ASSUME NEW d \in Commands \ {c}, pc[d] \in {"first", "decide", "append", "readback"}
                   PROVE  Whole(Key(d))'
        OBVIOUS
      <4>1. Upto(Key(d), Len(Script)) /\ Key(d) \in Keys
        BY <3>2 DEF Prepared, Whole
      <4>2. registry[a] # Key(d)
        BY <4>1, <2>4
      <4> QED
        BY <3>1, <4>1, <4>2, <2>5 DEF Upto, Whole
    <3>5. \A p \in Procs : ready'[p] => Whole(key[p])'
      <4> SUFFICES ASSUME NEW p \in Procs, ready[p] PROVE Whole(key[p])'
        BY <2>1
      <4>1. Upto(key[p], Len(Script)) /\ key[p] \in Keys
        BY DEF Prepared, Whole, OpenWorks
      <4>2. registry[a] # key[p]
        BY <4>1, <2>4
      <4> QED
        BY <4>1, <4>2, <2>5, <2>6 DEF Upto, Whole
    <3>6. /\ at'[c] = at[c] + 1
          /\ pc'[c] = IF at[c] < Len(Script) THEN "look" ELSE "first"
          /\ at[c] < Len(Script) \/ at[c] = Len(Script)
          /\ Key(c)' = Key(c)
      BY <2>1, <2>2, <2>6 DEF GovernanceTypeOK, Key
    <3>7. /\ pc'[c] \in {"look", "insert"} => at'[c] \in 1 .. Len(Script) /\ Upto(Key(c), at[c] - 1)'
          /\ pc'[c] = "first" => at'[c] = Len(Script) + 1 /\ Whole(Key(c))'
          /\ pc'[c] \in {"look", "first"}
      BY <3>6, <2>2, <2>11 DEF Upto, Whole
    <3> QED
      BY <3>1, <3>3, <3>4, <3>5, <3>7 DEF Prepared
  <2>13. Booted'
    BY <2>1 DEF Booted, BootstrapDue, GovernanceTypeOK
  <2>14. BootstrapDecidesFirst'
    BY <2>1 DEF BootstrapDecidesFirst
  <2>15. DecisionsAreConservative'
    <3>1. Len(ledger) \in Nat /\ \A i \in 1 .. Len(ledger) : ledger[i].key \in Keys /\ ledger[i].candidate \in Artifacts
      BY LedgerFacts
    <3>2. \A b \in Artifacts, k \in Keys : Attested(b, k) => Attested(b, k)'
      BY <2>4, <2>5 DEF Attested
    <3> QED
      BY <3>1, <3>2, <2>1 DEF DecisionsAreConservative
  <2> QED
    BY <2>8, <2>9, <2>10, <2>12, <2>13, <2>14, <2>15
<1> QED
  BY <1>1, <1>2

\* A candidate held in shadow is attested, with its parents, under the key
\* of the process that decides; nothing makes it eligible for release.
LEMMA VerdictFacts ==
  ASSUME NEW a \in Artifacts, NEW k
  PROVE  /\ Verdict(a, k) \in {"REJECT_CANDIDATE", "HOLD_SHADOW"}
         /\ Verdict(a, k) = "HOLD_SHADOW" => QualityPassed(a, k)
<1>1. ~ReleaseReady(ReleaseEvidence)
  BY DEF ReleaseReady, ReleaseEvidence
<1> QED
  BY <1>1 DEF Verdict

LEMMA AppendStep == ASSUME GovernanceInv, NEW c \in Commands, AppendDecision(c) PROVE GovernanceInv'
<1> DEFINE record == [candidate |-> Subject(c), decision |-> Verdict(Subject(c), Key(c)), actor |-> Actor(c),
                      previous |-> Len(ledger), key |-> Key(c)]
<1> USE ScriptFacts DEF GovernanceInv
<1>1. /\ pc[c] = "append" /\ ledger' = Append(ledger, record)
      /\ appended' = [appended EXCEPT ![c] = Len(ledger) + 1]
      /\ pc' = [pc EXCEPT ![c] = "readback"]
      /\ UNCHANGED <<keyVars, registry, ready, at, wanted, answered>>
  BY DEF AppendDecision, Goto
<1>2. UNCHANGED <<keyFile, opening, key>>
  BY <1>1 DEF keyVars
<1>3. Key(c) \in Keys /\ Whole(Key(c))
  BY <1>1, HomeAssumption DEF OpenWorks, Key, Prepared
<1>4. Subject(c) \in Artifacts
  BY <1>1, ArtifactsAssumption DEF Booted, Subject
<1>5. Len(ledger) \in Nat /\ ledger \in Seq(Record)
  BY DEF GovernanceTypeOK
<1>6. Verdict(Subject(c), Key(c)) \in {"REJECT_CANDIDATE", "HOLD_SHADOW"}
  BY <1>4, VerdictFacts
<1>7. record \in Record
  BY <1>3, <1>4, <1>5, <1>6 DEF Record, Verdicts, Actors, Actor
<1>8. /\ record.key = Key(c) /\ record.previous = Len(ledger) /\ record.candidate = Subject(c)
      /\ record.decision = Verdict(Subject(c), Key(c)) /\ record.actor = Actor(c)
  OBVIOUS
<1> HIDE DEF record
<1>9. /\ Len(ledger') = Len(ledger) + 1 /\ ledger'[Len(ledger) + 1] = record
      /\ \A i \in 1 .. Len(ledger) : ledger'[i] = ledger[i]
      /\ ledger' # << >>
  BY <1>1, <1>5, <1>7
<1>10. GovernanceTypeOK'
  BY <1>1, <1>2, <1>5, <1>7 DEF GovernanceTypeOK, KeyTypeOK, Steps
<1>11. OpenWorks'
  BY <1>1, <1>2 DEF OpenWorks, IsOpen, GovernanceTypeOK
<1>12. RootDecides'
  <2>1. Key(c) = RootKey
    BY <1>3 DEF Whole, Upto, RootKey, Root
  <2>2. RootKey' = RootKey /\ \A a \in Artifacts : Registered(a)' => registry'[a] = RootKey
    BY <1>1 DEF RootKey, RootDecides, Registered
  <2>3. \A i \in 1 .. Len(ledger) + 1 : ledger'[i].previous = i - 1 /\ ledger'[i].key = RootKey
    <3> SUFFICES ASSUME NEW i \in 1 .. Len(ledger) + 1
                 PROVE  ledger'[i].previous = i - 1 /\ ledger'[i].key = RootKey
      OBVIOUS
    <3>1. CASE i = Len(ledger) + 1
      BY <3>1, <1>5, <1>8, <1>9, <2>1
    <3>2. CASE i \in 1 .. Len(ledger)
      BY <3>2, <1>9 DEF RootDecides
    <3> QED
      BY <3>1, <3>2, <1>5
  <2> QED
    BY <2>2, <2>3, <1>9 DEF RootDecides
<1>13. Prepared'
  BY <1>1, <1>2 DEF Prepared, Upto, Whole, Key, GovernanceTypeOK
<1>14. Booted'
  BY <1>1, <1>9 DEF Booted, BootstrapDue, GovernanceTypeOK
<1>15. BootstrapDecidesFirst'
  <2>1. CASE ledger = << >>
    <3>1. BootstrapDue(c)
      BY <2>1, <1>1 DEF Booted
    <3>2. Len(ledger) = 0
      BY <2>1
    <3> QED
      BY <3>1, <3>2, <1>8, <1>9 DEF BootstrapDecidesFirst, Subject, Actor
  <2>2. CASE ledger # << >>
    <3>1. 1 \in 1 .. Len(ledger)
      BY <2>2, <1>5
    <3> QED
      BY <2>2, <3>1, <1>9 DEF BootstrapDecidesFirst
  <2> QED
    BY <2>1, <2>2
<1>16. DecisionsAreConservative'
  <2>1. \A a : \A k : Attested(a, k)' = Attested(a, k)
    BY <1>1 DEF Attested
  <2> SUFFICES ASSUME NEW i \in 1 .. Len(ledger) + 1
               PROVE  /\ ledger'[i].decision # "ELIGIBLE_FOR_SIGNED_RELEASE"
                      /\ ledger'[i].decision = "HOLD_SHADOW" =>
                           /\ Lineage[ledger'[i].candidate] # {}
                           /\ \A a \in Lineage[ledger'[i].candidate] \cup {ledger'[i].candidate} :
                                Attested(a, ledger'[i].key)
    BY <2>1, <1>9 DEF DecisionsAreConservative
  <2>2. CASE i = Len(ledger) + 1
    <3>1. ledger'[i] = record
      BY <2>2, <1>9
    <3>2. record.decision = "HOLD_SHADOW" => QualityPassed(Subject(c), Key(c))
      BY <1>4, <1>8, VerdictFacts
    <3> QED
      BY <3>1, <3>2, <1>6, <1>8 DEF QualityPassed
  <2>3. CASE i \in 1 .. Len(ledger)
    BY <2>3, <1>9 DEF DecisionsAreConservative
  <2> QED
    BY <2>2, <2>3, <1>5
<1> QED
  BY <1>10, <1>11, <1>12, <1>13, <1>14, <1>15, <1>16

------------------------------------------------------------------------------

LEMMA GovernanceStep == GovernanceInv /\ [GovernanceNext]_governanceVars => GovernanceInv'
<1> SUFFICES ASSUME GovernanceInv, [GovernanceNext]_governanceVars PROVE GovernanceInv'
  OBVIOUS
<1>1. ASSUME NEW c \in Commands, RequestStep(c) PROVE GovernanceInv'
  BY <1>1, BeginStep, LookUpStep, InsertStep, CheckLedgerStep, DecideStep, AppendStep, ReadBackStep, FinishStep
     DEF RequestStep
<1>2. ASSUME NEW p \in Procs, Start(p) \/ EndProcess(p) PROVE GovernanceInv'
  BY <1>2, StartStep, EndProcessStep
<1>3. CASE DeleteKeyFile
  BY <1>3, DeleteKeyFileStep
<1>4. CASE UNCHANGED governanceVars
  <2>1. GovernanceTypeOK' /\ OpenWorks' /\ Prepared' /\ Booted'
    BY <1>4 DEF governanceVars, keyVars, tables, threadVars, GovernanceInv, GovernanceTypeOK, KeyTypeOK, OpenWorks, IsOpen, Prepared,
       Upto, Whole, Key, Booted, BootstrapDue
  <2> QED
    BY <2>1, <1>4, TablesKept DEF governanceVars, GovernanceInv, TablesOK
<1> QED
  BY <1>1, <1>2, <1>3, <1>4 DEF GovernanceNext

LEMMA GovernanceInvariant == GovernanceSpec => []GovernanceInv
  BY GovernanceInitial, GovernanceStep, PTL DEF GovernanceSpec

\* Every table, key and local stays of its kind.
THEOREM GovernanceIsTyped == GovernanceSpec => []GovernanceTypeOK
<1>1. GovernanceInv => GovernanceTypeOK
  BY DEF GovernanceInv
<1> QED
  BY GovernanceInvariant, <1>1, PTL

\* Artifacts and decisions of one root are attested under one key, however
\* processes lose the key file, create another and race (register_artifact).
THEOREM RegistryHasOneKey == GovernanceSpec => []OneKeyOfRecord
<1>1. GovernanceInv => OneKeyOfRecord
  <2>1. GovernanceInv => \A k \in {registry[a] : a \in {b \in Artifacts : Registered(b)}}
                                  \cup {ledger[i].key : i \in 1 .. Len(ledger)} : k = RootKey
    BY DEF GovernanceInv, RootDecides
  <2> QED
    BY <2>1 DEF OneKeyOfRecord
<1> QED
  BY GovernanceInvariant, <1>1, PTL

\* A process that has cached the governance identities can verify the whole
\* registry and ledger (_ensure_governance_registry).
THEOREM ReadyIsVerified == GovernanceSpec => []ReadyProcessVerifies
<1>1. GovernanceInv => ReadyProcessVerifies
  <2> SUFFICES ASSUME GovernanceInv, NEW p \in Procs, ready[p]
               PROVE  /\ \A i \in 1 .. Len(Script) : Registered(Script[i])
                      /\ ledger # << >>
                      /\ RegistryVerifies(key[p]) /\ LedgerVerifies(key[p])
    BY DEF ReadyProcessVerifies
  <2> USE ScriptFacts DEF GovernanceInv
  <2>1. Whole(key[p]) /\ key[p] \in Keys /\ ledger # << >>
    BY DEF Prepared, OpenWorks, Booted
  <2>2. RootKey = key[p]
    BY <2>1 DEF Whole, Upto, RootKey, Root
  <2>3. \A i \in 1 .. Len(Script) : Registered(Script[i])
    BY <2>1 DEF Whole, Upto, Registered
  <2>4. RegistryVerifies(key[p]) /\ LedgerVerifies(key[p])
    BY <2>2 DEF RootDecides, RegistryVerifies, LedgerVerifies, Attested
  <2> QED
    BY <2>1, <2>3, <2>4
<1> QED
  BY GovernanceInvariant, <1>1, PTL

\* No client's decision precedes the bootstrap decision, whatever races.
THEOREM BootstrapIsFirst == GovernanceSpec => []BootstrapDecidesFirst
<1>1. GovernanceInv => BootstrapDecidesFirst
  BY DEF GovernanceInv
<1> QED
  BY GovernanceInvariant, <1>1, PTL

\* No record makes a candidate eligible for release, and one that is held in
\* shadow rests on attested artifacts (evaluate_candidate).
THEOREM DecisionsStayConservative == GovernanceSpec => []DecisionsAreConservative
<1>1. GovernanceInv => DecisionsAreConservative
  BY DEF GovernanceInv
<1> QED
  BY GovernanceInvariant, <1>1, PTL

------------------------------------------------------------------------------
(* The key file, while it is not lost *)

\* The file is empty exactly while its one creator writes it, or for good.
KeyInv ==
  /\ KeyTypeOK
  /\ HeldKeyIsOnDisk
  /\ \A p \in Procs : opening[p] = "writing" => keyFile = "empty"
  /\ \A p, q \in Procs : opening[p] = "writing" /\ opening[q] = "writing" => p = q

LEMMA KeyInitial == GovernanceInit => KeyInv
  BY DEF GovernanceInit, KeyInit, KeyInv, KeyTypeOK, HeldKeyIsOnDisk, IsOpen, Stages

LEMMA KeyStep == ASSUME ~KeysGetLost PROVE KeyInv /\ [GovernanceNext]_governanceVars => KeyInv'
<1> SUFFICES ASSUME KeyInv, [GovernanceNext]_governanceVars PROVE KeyInv'
  OBVIOUS
<1> USE KeysAssumption DEF KeyInv, KeyTypeOK, HeldKeyIsOnDisk, IsOpen, Stages, keyVars
<1>1. ASSUME NEW c \in Commands, RequestStep(c) PROVE KeyInv'
  <2>1. UNCHANGED keyVars
    BY <1>1 DEF RequestStep, Begin, LookUp, InsertArtifact, CheckLedger, Decide, AppendDecision, ReadBack, Finish
  <2> QED
    BY <2>1
<1>2. ASSUME NEW p \in Procs, FindKey(p) PROVE KeyInv'
  BY <1>2 DEF FindKey, Load, Hold
<1>3. ASSUME NEW p \in Procs, CreateKey(p) PROVE KeyInv'
  BY <1>3 DEF CreateKey, Load, Hold
<1>4. ASSUME NEW p \in Procs, WriteKey(p) PROVE KeyInv'
  BY <1>4 DEF WriteKey, Hold
<1>5. ASSUME NEW p \in Procs, EndProcess(p) PROVE KeyInv'
  BY <1>5 DEF EndProcess, DropKey
<1>6. CASE DeleteKeyFile
  BY <1>6 DEF DeleteKeyFile, LoseKey
<1>7. CASE UNCHANGED governanceVars
  BY <1>7 DEF governanceVars
<1> QED
  BY <1>1, <1>2, <1>3, <1>4, <1>5, <1>6, <1>7 DEF GovernanceNext, Start, OpenKey

\* Every process that has opened the key file holds the key on disk, however
\* creations race or crash (_load_or_create_key), while the file is not lost.
THEOREM CreationRaceIsSafe == ASSUME ~KeysGetLost PROVE GovernanceSpec => []HeldKeyIsOnDisk
<1>1. KeyInv => HeldKeyIsOnDisk
  BY DEF KeyInv
<1>2. KeyInv /\ [GovernanceNext]_governanceVars => KeyInv'
  BY KeyStep
<1> QED
  BY KeyInitial, <1>1, <1>2, PTL DEF GovernanceSpec

==============================================================================
