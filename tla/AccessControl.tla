---------------------------- MODULE AccessControl ----------------------------
(***************************************************************************)
(* The role and route contract of aegis/access.py: which scope a role      *)
(* holds, and which scope and license entitlement a POST route requires.   *)
(* Pure operators: the contract is a constant of the program.              *)
(***************************************************************************)

OperatorRoles == {"viewer", "analyst", "administrator"}

RoleScopes(role) ==
  CASE role = "viewer"        -> {"read"}
    [] role = "analyst"       -> {"read", "operate"}
    [] role = "administrator" -> {"read", "operate", "administer"}

ResearchRoutes ==
  {"research/experiment/run", "trace/experiment/run", "trace/graph-experiment/run",
   "steering/experiment/run", "models/fabric/evaluate"}

ControlRoutes == {"simulate", "actions/evaluate", "demo/reset"}

GatewayRoutes == {"gateway/preview", "gateway/import"}

AdministerRoutes == {"demo/reset", "governance/evaluate", "license/reload"}

\* The routes do_POST dispatches. Every other path reaches its final 404.
ServedRoutes ==
  ControlRoutes \cup ResearchRoutes \cup GatewayRoutes \cup AdministerRoutes
    \cup {"hardware/dry-run", "telemetry/collect"}

Routes == ServedRoutes \cup {"unlisted"}

Permission(route) == IF route \in AdministerRoutes THEN "administer" ELSE "operate"

\* Variant: the recovery route is left to the default contract.
EntitlementWithoutRecovery(route) ==
  CASE route \in ResearchRoutes \cup {"governance/evaluate"} -> "research_lab"
    [] route \in GatewayRoutes                               -> "offline_evidence_gateway"
    [] route = "hardware/dry-run"                            -> "hardware_dry_run"
    [] route = "telemetry/collect"                           -> "resident_node"
    [] OTHER                                                 -> "desktop_control_plane"

\* "none" is the contract's None: a route that needs no entitlement.
RequiredEntitlement(route) ==
  CASE route \in ResearchRoutes \cup {"governance/evaluate"} -> "research_lab"
    [] route \in GatewayRoutes                               -> "offline_evidence_gateway"
    [] route = "hardware/dry-run"                            -> "hardware_dry_run"
    [] route = "telemetry/collect"                           -> "resident_node"
    [] route = "license/reload"                              -> "none"
    [] OTHER                                                 -> "desktop_control_plane"

Authorized(role, route) == Permission(route) \in RoleScopes(role)

==============================================================================
