----------------------------- MODULE Installation -----------------------------
(***************************************************************************)
(* One installation root and what runs on it: control-plane processes      *)
(* (resident service, desktop, development server) and the commands their  *)
(* HTTP handler threads serve.                                             *)
(***************************************************************************)

CONSTANTS
  Procs,      \* control-plane processes opened on the installation root
  Commands,   \* command ids, one handler thread each
  Home        \* Home[c]: the process that serves command c

ASSUME HomeAssumption == Home \in [Commands -> Procs]

==============================================================================
