------------------------------- MODULE MCConsole -------------------------------
(***************************************************************************)
(* Two pages of the web console. They share the user and nothing else; the *)
(* first state says which is used. Only the gateway page asks whether the  *)
(* user waits.                                                             *)
(***************************************************************************)
EXTENDS GatewayConsole, CaseConsole, TLC

VARIABLE page

vars == <<page, pageVars, casesVars>>

\* Both connectors accept the one batch, one of them the other.
SomeAccepted == {<<"suricata", "b1">>, <<"zeek", "b1">>, <<"zeek", "b2">>}

\* What tells the requests of the case page apart is compared and nothing else.
CaseSymmetry == Permutations(RequestIds)

Init ==
  /\ page \in {"gateway", "cases"}
  /\ PageInit /\ CasesInit
  /\ page = "cases" => ~patient /\ connector = "zeek"

Next ==
  /\ UNCHANGED page
  /\ \/ /\ page = "gateway" /\ PageNext
        /\ UNCHANGED casesVars
     \/ /\ page = "cases" /\ CasesNext
        /\ UNCHANGED pageVars

Spec == Init /\ [][Next]_vars

==============================================================================
