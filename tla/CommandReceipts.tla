---------------------------- MODULE CommandReceipts ----------------------------
(***************************************************************************)
(* What the command boundary promises about its receipts, without keys,    *)
(* hashes, locks or threads: a command is denied once and for all, or is   *)
(* accepted, then called at most once, then concluded at most once.        *)
(***************************************************************************)
EXTENDS Naturals, Sequences

CONSTANTS Commands, Denials, Outcomes

VARIABLES
  journal,   \* the receipts in the order they became durable
  called     \* the commands whose route was called

receiptVars == <<journal, called>>

Recorded(c) == \E i \in 1 .. Len(journal) : journal[i].command = c

RecordedAs(c, decisions) ==
  \E i \in 1 .. Len(journal) : journal[i].command = c /\ journal[i].decision \in decisions

Put(c, decision) == journal' = Append(journal, [command |-> c, decision |-> decision])

Init == journal = << >> /\ called = {}

Deny(c) ==
  /\ ~Recorded(c)
  /\ \E d \in Denials : Put(c, d)
  /\ UNCHANGED called

Accept(c) ==
  /\ ~Recorded(c)
  /\ Put(c, "ACCEPTED")
  /\ UNCHANGED called

Open(c) == RecordedAs(c, {"ACCEPTED"}) /\ ~RecordedAs(c, Outcomes)

Call(c) ==
  /\ Open(c) /\ c \notin called
  /\ called' = called \cup {c}
  /\ UNCHANGED journal

\* Only a command whose route was called can be COMPLETED.
Conclude(c) ==
  /\ Open(c)
  /\ \E d \in Outcomes : (d = "COMPLETED" => c \in called) /\ Put(c, d)
  /\ UNCHANGED called

Next == \E c \in Commands : Deny(c) \/ Accept(c) \/ Call(c) \/ Conclude(c)

Spec == Init /\ [][Next]_receiptVars

==============================================================================
