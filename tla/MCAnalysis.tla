------------------------------ MODULE MCAnalysis ------------------------------
(***************************************************************************)
(* The deterministic analyses side by side: the guarded clustering of the  *)
(* session graph, the linker of two sessions, and the comparison of the    *)
(* two cases. Each reads its own data; the first state says which runs.    *)
(***************************************************************************)
EXTENDS GraphClustering, TraceLinker, CaseSimilarity

VARIABLE analysis

vars == <<analysis, graphVars, similarity, observed, scripted>>

\* The clustering: edges below the threshold, at it and so within its margin,
\* above both, and able to seed a cohort, the last with too few evidence
\* families too; the sessions 1, 2 and 3, 4 of two campaigns, and a bridge that may
\* seed a cohort under the first guard, whose cap never bites.
Edge(p, diverse) == [p |-> p, diverse |-> diverse, bridge |-> FALSE]
AllKinds == {Edge(20, TRUE), Edge(28, TRUE), Edge(40, TRUE), Edge(75, TRUE), Edge(75, FALSE)}
TwoPerCampaign == [m \in Members |-> (m + 1) \div 2]
OneBridge == {<<1, 3>>}
TwoGuards == {[threshold |-> 28, seed |-> 66, support |-> 65, size |-> 4],
              [threshold |-> 20, seed |-> 70, support |-> 45, size |-> 3]}

\* The linker: one pair of sessions in all families, two in three of them
\* with fewer overlaps.
OnePair == TraceNext /\ similarity'["l2"] = NothingShared
TwoPairs ==
  /\ TraceNext
  /\ \A l \in Links, f \in {"infrastructure", "transport", "behavior"} : similarity'[l][f] = Unavailable
  /\ \A l \in Links, f \in Families : similarity'[l][f] # 250

\* The cases: the two scripts of the service, and three other observations,
\* two of them of one client, two of one target, one without a client.
Obs(type, family, fingerprint) == [type |-> type, family |-> family, fingerprint |-> fingerprint]
Scan == Obs("network_scan", "edge", "fp")
Probe == Obs("admin_route_probe", "admin", "fp")
Mixed == {Scan, Obs("admin_route_probe", "edge", "fp"), Obs("ssh_login_failure", "bastion", None)}
Scripted == [c \in Cases |->
  IF c = "primary"
  THEN <<Scan, Obs("ssh_login_failure", "bastion", "fp"), Probe,
         Obs("synthetic_credential_opened", "other", "fp"), Obs("decoy_service_pivot", "inventory", "fp"),
         Obs("synthetic_archive_requested", "finance", "fp")>>
  ELSE <<Scan, Probe, Obs("synthetic_credential_opened", "identity", "fp")>>]
BootAll == [c \in Cases |-> IF c = "primary" THEN 1 ELSE 3]

Init ==
  /\ analysis \in {"graph", "pair", "report", "cases"}
  /\ GraphInit /\ TraceInit /\ SimilarityInit
  /\ analysis # "graph" => guard = Unguarded /\ \A key \in Keys \ Bridges : graph[key] = Edge(20, TRUE)
  /\ analysis # "cases" => scripted

Next ==
  /\ UNCHANGED analysis
  /\ \/ analysis = "graph" /\ GraphNext /\ UNCHANGED <<similarity, observed, scripted>>
     \/ analysis = "pair" /\ OnePair /\ UNCHANGED <<graphVars, observed, scripted>>
     \/ analysis = "report" /\ TwoPairs /\ UNCHANGED <<graphVars, observed, scripted>>
     \/ analysis = "cases" /\ SimilarityNext /\ UNCHANGED <<graphVars, similarity>>

Spec == Init /\ [][Next]_vars

==============================================================================
