------------------------------ MODULE CaseConsole ------------------------------
(***************************************************************************)
(* The case pages of web/app.js: a case is selected, advanced, reset and   *)
(* exported. A request is served at one moment and its answer arrives, or  *)
(* it fails, at a later one; answers overtake each other, and what follows *)
(* an answer is a request for a case chosen before it was sent. The user   *)
(* waits for nothing: a button is disabled while what it began goes on,    *)
(* the list of cases never is.                                             *)
(***************************************************************************)
EXTENDS ConsoleUser, Naturals, FiniteSets

CONSTANTS
  Cases,        \* the two synthetic cases
  DefaultCase,  \* the one the server advances when none is named
  MaxEvents,    \* bound on the events of a case
  RequestIds    \* what tells requests apart; bounds those under way

ASSUME CaseAssumption == DefaultCase \in Cases /\ None \notin Cases /\ MaxEvents \in Nat

VARIABLES
  listed,        \* whether the list of cases is rendered
  events,        \* the server's events of each case
  active,        \* state.activeCase: the case shown and its events as shown
  caseRequests,  \* what was requested and not answered yet
  exported,      \* the last download, a set of at most one [named, of, steady]
  course,        \* how the last act that turns the page goes: "alone",
                 \* "disturbed" or "shown", history
  wanted,        \* the case it is to show if alone, None for any, history
  steady         \* whether nothing turned the page during the export, history

casesVars == <<listed, events, active, caseRequests, exported, course, wanted, steady>>

\* A request belongs to the act of a button; it is about a case, which for a
\* dashboard is the preferred one; serving a selection fixes the events it shows.
CaseRequest(id, by, kind, case) ==
  [id |-> id, by |-> by, kind |-> kind, case |-> case, served |-> FALSE, events |-> 0]
Send(by, kind, case) == \E id \in RequestIds :
  /\ \A r \in caseRequests : r.id # id
  /\ caseRequests' = caseRequests \cup {CaseRequest(id, by, kind, case)}
SendInstead(r, kind, case) ==
  caseRequests' = (caseRequests \ {r}) \cup {CaseRequest(r.id, r.by, kind, case)}

\* The requests whose answers end in a change of the page.
Turning == {r \in caseRequests : r.kind # "export"}

\* The page has loaded and asks for its first dashboard.
CasesInit ==
  /\ listed = FALSE
  /\ events = [c \in Cases |-> 1]
  /\ active = [case |-> None, events |-> 0]
  /\ \E id \in RequestIds : caseRequests = {CaseRequest(id, "load", "dashboard", None)}
  /\ exported = {}
  /\ wanted = None /\ course = "alone" /\ steady = FALSE

------------------------------------------------------------------------------
(* What the user does *)

Enabled(button) == \A r \in caseRequests : r.by # button

\* An act that will turn the page to a case, with no other of them under way
\* or on top of one.
Begin(case) ==
  /\ \/ Turning = {} /\ course' = "alone" /\ wanted' = case
     \/ Turning # {} /\ course' = "disturbed" /\ wanted' = None
  /\ steady' = FALSE

SelectCase ==
  /\ listed
  /\ \E c \in Cases : Send("list", "select", c) /\ Begin(c)
  /\ UNCHANGED <<listed, events, active, exported>>

\* The case shown is advanced, chosen when one of the two buttons is clicked;
\* none shown, the server advances its default.
Simulate ==
  /\ \E button \in {"simulate", "caseSimulate"}, c \in Cases :
       /\ Enabled(button)
       /\ c = IF active.case = None THEN DefaultCase ELSE active.case
       /\ Send(button, "simulate", c) /\ Begin(c)
  /\ UNCHANGED <<listed, events, active, exported>>

Reset ==
  /\ Enabled("reset")
  /\ Send("reset", "reset", None) /\ Begin(active.case)
  /\ UNCHANGED <<listed, events, active, exported>>

\* With no case shown the click is refused.
Export ==
  /\ Enabled("export") /\ active.case # None
  /\ Send("export", "export", active.case)
  /\ steady' = (Turning = {})
  /\ UNCHANGED <<listed, events, active, exported, wanted, course>>

------------------------------------------------------------------------------
(* The server *)

Serve == \E r \in caseRequests :
  /\ ~r.served
  /\ events' =
       CASE r.kind = "simulate" -> [events EXCEPT ![r.case] = @ + 1]
         [] r.kind = "reset"    -> [c \in Cases |-> 1]
         [] OTHER               -> events
  /\ \A c \in Cases : events'[c] <= MaxEvents
  /\ caseRequests' = (caseRequests \ {r})
       \cup {[r EXCEPT !.served = TRUE, !.events = IF r.kind = "select" THEN events'[r.case] ELSE 0]}
  /\ UNCHANGED <<listed, active, exported, wanted, course, steady>>

------------------------------------------------------------------------------
(* What an answer does *)

\* renderCase.
ShowCase == \E r \in caseRequests :
  /\ r.kind = "select" /\ r.served
  /\ active' = [case |-> r.case, events |-> r.events]
  /\ caseRequests' = caseRequests \ {r}
  /\ course' = IF course = "alone" THEN "shown" ELSE course
  /\ UNCHANGED <<listed, events, exported, wanted, steady>>

\* Variant: the dashboard is loaded for no case in particular.
LoadAfterSimulateAny == \E r \in caseRequests :
  /\ r.kind = "simulate" /\ r.served
  /\ SendInstead(r, "dashboard", None)
  /\ UNCHANGED <<listed, events, active, exported, wanted, course, steady>>

\* performSimulation goes on with the case it advanced.
LoadAfterSimulate == \E r \in caseRequests :
  /\ r.kind = "simulate" /\ r.served
  /\ SendInstead(r, "dashboard", r.case)
  /\ UNCHANGED <<listed, events, active, exported, wanted, course, steady>>

\* After a reset with the case shown by then.
LoadAfterReset == \E r \in caseRequests :
  /\ r.kind = "reset" /\ r.served
  /\ SendInstead(r, "dashboard", active.case)
  /\ UNCHANGED <<listed, events, active, exported, wanted, course, steady>>

\* loadDashboard selects the preferred case, or else the first of the list,
\* which is the one updated last.
ShowDashboard == \E r \in caseRequests :
  /\ r.kind = "dashboard" /\ r.served
  /\ \E c \in Cases : (r.case # None => c = r.case) /\ SendInstead(r, "select", c)
  /\ listed' = TRUE
  /\ UNCHANGED <<events, active, exported, wanted, course, steady>>

\* The file is named for the case shown when the bundle has come.
SaveExport == \E r \in caseRequests :
  /\ r.kind = "export" /\ r.served
  /\ exported' = {[named |-> active.case, of |-> r.case, steady |-> steady]}
  /\ caseRequests' = caseRequests \ {r}
  /\ steady' = FALSE
  /\ UNCHANGED <<listed, events, active, wanted, course>>

\* A request that fails, served or not, ends its act with a toast and leaves
\* the page as it was: no case after a simulation is loaded, nothing saved.
FailCase == \E r \in caseRequests :
  /\ caseRequests' = caseRequests \ {r}
  /\ \/ /\ r.kind = "export" /\ steady' = FALSE
        /\ UNCHANGED <<wanted, course>>
     \/ /\ r.kind # "export" /\ course' = "disturbed" /\ wanted' = None
        /\ UNCHANGED steady
  /\ UNCHANGED <<listed, events, active, exported>>

CaseAct == SelectCase \/ Simulate \/ Reset \/ Export
CaseAnswer == ShowCase \/ LoadAfterSimulate \/ LoadAfterReset \/ ShowDashboard \/ SaveExport \/ FailCase

CasesNext == CaseAct \/ Serve \/ CaseAnswer

CasesSpec == CasesInit /\ [][CasesNext]_casesVars

------------------------------------------------------------------------------

\* Once an act that turns the page has run alone and without a failure, the
\* case it was for is shown with the evidence the server has of it, whatever
\* overlapped, overtook or failed before: the selected case, the one "Advance
\* selected case" advanced (web/index.html:156), the one a reset found. A
\* bundle exported while nothing turned the page bears the name of its case.
SelectedIsShown ==
  /\ course = "shown" =>
       /\ wanted # None => active.case = wanted
       /\ active.events = events[active.case]
  /\ \A e \in exported : e.steady => e.named = e.of

==============================================================================
