---------------------------- MODULE MCEvidenceCases ----------------------------
(* Instances of EvidenceCases for TLC. *)
EXTENDS EvidenceCases

\* A script of two steps with one applied at bootstrap, as in the primary
\* case, and one of a single step applied in full, as in the secondary one.
Scripts == [k \in Cases |-> IF k = "primary" THEN 2 ELSE 1]
BootScripts == [k \in Cases |-> 1]
BothCases == <<"primary", "secondary">>

\* The primary case alone, with a script of two steps.
OneScript == [k \in Cases |-> 2]
OneCase == <<"primary">>

==============================================================================
