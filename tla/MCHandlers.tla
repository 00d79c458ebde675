------------------------------ MODULE MCHandlers ------------------------------
(***************************************************************************)
(* Four parts of the service that handler threads run side by side: the    *)
(* governance registry, the evidence gateway, the experiment caches and    *)
(* the safety gate. They share no state, so that a behaviour is one of     *)
(* one part: the first state says of which.                                *)
(***************************************************************************)
EXTENDS GovernanceRegistry, EvidenceGateway, ExperimentCaches, SafetyKernel, FiniteSetsExt

VARIABLE part

vars == <<part, governanceVars, gatewayVars, cacheVars, safetyVars>>

Init ==
  /\ part \in {"governance", "overlapping imports", "odd records", "caches", "safety"}
  /\ GovernanceInit /\ GatewayInit /\ CacheInit /\ SafetyInit

\* Overlapping batches are imported by all threads at once, batches with
\* records of every kind by one.
Good == [event |-> "supported", time |-> "t1", endpoint |-> "ip", name |-> "word",
         link |-> "text", size |-> "inrange", content |-> "c1"]
Twin == [Good EXCEPT !.content = "c2"]
Later == [Good EXCEPT !.time = "t2", !.link = "absent", !.size = "outofrange"]
Overlapping == {<<Good, Later>>, <<Twin, Later, Good>>, <<Later>>}

OddTexts == {[Later EXCEPT !.time = t, !.name = n, !.link = l] : t \in {"t3", "bad"}, n \in Texts, l \in Texts}
OddRest ==
  {[Later EXCEPT !.event = e, !.endpoint = p] : e \in {"supported", "unsupported"}, p \in Texts}
    \cup {[Later EXCEPT !.size = z] : z \in Numbers \ {"infinite"}}
InSomeOrder(S) == FoldSet(LAMBDA r, s : Append(s, r), << >>, S)
Odd == {InSomeOrder(OddTexts), InSomeOrder(OddRest), <<Good, [Later EXCEPT !.size = "infinite"]>>}

AllBatches == Overlapping \cup Odd

OverlappingImports == GatewayNext /\ \A t \in Importers : importPc'[t] # "idle" => batch'[t] \in Overlapping
OddRecords == GatewayNext /\ \A t \in Importers : importPc'[t] # "idle" => batch'[t] \in Odd /\ t = "g1"

Next ==
  /\ UNCHANGED part
  /\ \/ part = "governance" /\ GovernanceNext /\ UNCHANGED <<gatewayVars, cacheVars, safetyVars>>
     \/ part = "overlapping imports" /\ OverlappingImports /\ UNCHANGED <<governanceVars, cacheVars, safetyVars>>
     \/ part = "odd records" /\ OddRecords /\ UNCHANGED <<governanceVars, cacheVars, safetyVars>>
     \/ part = "caches" /\ CacheNext /\ UNCHANGED <<governanceVars, gatewayVars, safetyVars>>
     \/ part = "safety" /\ SafetyNext /\ UNCHANGED <<governanceVars, gatewayVars, cacheVars>>

Spec == Init /\ [][Next]_vars

\* A corpus and two models trained on it, one of which is of poor quality.
Order == <<"corpus", "champion", "candidate">>
Parents == [a \in Artifacts |-> IF a = "corpus" THEN {} ELSE {"corpus"}]

\* A request of the service and one of a second process on the same root.
TwoRoots == [c \in Commands |-> IF c = "c1" THEN "service" ELSE "desktop"]

==============================================================================
