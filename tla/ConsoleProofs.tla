---------------------------- MODULE ConsoleProofs ----------------------------
(***************************************************************************)
(* What the pages of the console promise for any number of requests.       *)
(* GatewayConsole, for every set of connectors and records: buttons for a  *)
(* user who never waits, and what is committed for one who waits for every *)
(* answer.  CaseConsole, for every set of cases and any number of requests *)
(* under way: what an act that nothing disturbs shows and exports.         *)
(***************************************************************************)
EXTENDS GatewayConsole, CaseConsole, TLAPS

------------------------------------------------------------------------------
(* The gateway page *)

Kinds == {"sample", "file", "preview", "import", "refresh"}

RequestsOK ==
  \A r \in requests : r.kind \in Kinds /\ r = [id |-> r.id, kind |-> r.kind, of |-> r.of]

\* A disabled button waits for a request of its own.
ButtonsWait ==
  /\ enabled \subseteq Buttons
  /\ "sample" \notin enabled => \E r \in requests : r.kind = "sample"
  /\ pending \notin {None, EmptyBatch} /\ "preview" \notin enabled =>
       \E r \in requests : r.kind = "preview"

\* Whatever may enable the commit button again came after a preview.
CommitsWait ==
  /\ "commit" \in enabled => previewed # {}
  /\ committed # {} => previewed # {}
  /\ \A r \in requests : r.kind \in {"import", "refresh"} => previewed # {}

ButtonInv == RequestsOK /\ ButtonsWait /\ CommitsWait

LEMMA ButtonInitial == PageInit => ButtonInv
  BY DEF PageInit, UserInit, ButtonInv, RequestsOK, ButtonsWait, CommitsWait, Buttons, None

LEMMA ButtonStep == ButtonInv /\ [PageNext]_pageVars => ButtonInv'
<1> SUFFICES ASSUME ButtonInv, [PageNext]_pageVars PROVE ButtonInv'
  OBVIOUS
<1> USE DEF ButtonInv, RequestsOK, ButtonsWait, CommitsWait, Kinds, Buttons
<1>1. CASE ChangeConnector
  <2>1. RequestsOK' /\ CommitsWait'
    BY <1>1 DEF ChangeConnector
  <2>2. enabled' \subseteq Buttons /\ pending' = None
    BY <1>1 DEF ChangeConnector
  <2>3. "sample" \in enabled' <=> "sample" \in enabled
    BY <1>1 DEF ChangeConnector
  <2>4. requests' = requests
    BY <1>1 DEF ChangeConnector
  <2> QED
    BY <2>1, <2>2, <2>3, <2>4
<1>2. CASE ClickSample
  <2>1. RequestsOK' /\ CommitsWait'
    BY <1>2 DEF ClickSample, SendFrom, Request
  <2>2. /\ requests \cup {Request("sample", <<connector, None>>)} = requests'
        /\ enabled' = enabled \ {"sample"} /\ pending' = pending
    BY <1>2 DEF ClickSample, SendFrom
  <2>3. \E r \in requests' : r.kind = "sample"
    <3>1. Request("sample", <<connector, None>>) \in requests'
      BY <2>2
    <3>2. Request("sample", <<connector, None>>).kind = "sample"
      BY DEF Request
    <3> QED
      BY <3>1, <3>2
  <2>4. "preview" \in enabled' <=> "preview" \in enabled
    BY <2>2
  <2>5. ButtonsWait'
    BY <2>2, <2>3, <2>4
  <2> QED
    BY <2>1, <2>5
<1>3. CASE ChooseFile
  BY <1>3 DEF ChooseFile, SendFrom, Request
<1>4. CASE ClickPreview
  <2>1. RequestsOK' /\ CommitsWait'
    BY <1>4 DEF ClickPreview, SendFrom, Request
  <2>2. /\ requests \cup {Request("preview", <<connector, pending>>)} = requests'
        /\ enabled' = enabled \ {"preview"} /\ pending' = pending
    BY <1>4 DEF ClickPreview, SendFrom
  <2>3. \E r \in requests' : r.kind = "preview"
    <3>1. Request("preview", <<connector, pending>>) \in requests'
      BY <2>2
    <3>2. Request("preview", <<connector, pending>>).kind = "preview"
      BY DEF Request
    <3> QED
      BY <3>1, <3>2
  <2>4. "sample" \in enabled' <=> "sample" \in enabled
    BY <2>2
  <2>5. ButtonsWait'
    BY <2>2, <2>3, <2>4
  <2> QED
    BY <2>1, <2>5
<1>5. CASE ClickCommit
  BY <1>5 DEF ClickCommit, SendFrom, Request
<1>6. CASE LoadRecords
  BY <1>6 DEF LoadRecords, Answered
<1>7. CASE ShowPreview
  BY <1>7 DEF ShowPreview, Answered
<1>8. CASE ShowImport
  BY <1>8 DEF ShowImport
<1>9. CASE ShowStatus
  BY <1>9 DEF ShowStatus, Answered
<1>10. CASE Fail
  BY <1>10 DEF Fail, Answered
<1>11. CASE LoadDashboard
  BY <1>11 DEF LoadDashboard
<1>12. CASE UNCHANGED pageVars
  BY <1>12 DEF pageVars
<1> QED
  BY <1>1, <1>2, <1>3, <1>4, <1>5, <1>6, <1>7, <1>8, <1>9, <1>10, <1>11, <1>12 DEF PageNext, Act, Answer

LEMMA ButtonInvariant == PageSpec => []ButtonInv
  BY ButtonInitial, ButtonStep, PTL DEF PageSpec

\* However answers interleave and fail, no button of the gateway page is left
\* disabled for ever.
THEOREM ButtonsComeBack == PageSpec => []NoButtonIsStuck
<1>1. ButtonInv => NoButtonIsStuck
  BY DEF ButtonInv, ButtonsWait, NoButtonIsStuck
<1> QED
  BY ButtonInvariant, <1>1, PTL

\* Even on a page that never waits the first commit needs an accepted preview.
THEOREM PreviewComesFirst == PageSpec => []SomePreviewCameFirst
<1>1. ButtonInv => SomePreviewCameFirst
  BY DEF ButtonInv, CommitsWait, SomePreviewCameFirst
<1> QED
  BY ButtonInvariant, <1>1, PTL

------------------------------------------------------------------------------
(* The gateway page of a user who waits *)

\* What is on the page is what every unanswered request is of, and the commit
\* button is enabled only over what was previewed.
Calm ==
  /\ \A r, s \in requests : r = s
  /\ \A r \in requests : r = [id |-> r.id, kind |-> r.kind, of |-> r.of]
  /\ \A r \in requests : r.kind \in Kinds
  /\ \A r \in requests : r.kind \in {"preview", "import", "refresh"} => r.of = <<connector, pending>>
  /\ \A r \in requests : r.kind \in {"import", "refresh"} => r.of \in previewed
  /\ "commit" \in enabled => <<connector, pending>> \in previewed
  /\ preview.mode = "PREVIEW" => preview.of = <<connector, pending>>
  /\ committed \subseteq previewed

PatientInv == patient => Calm

LEMMA PatientInitial == PageInit => PatientInv
  BY DEF PageInit, PatientInv, Calm, NoReport, Report, None

LEMMA PatientStep == PatientInv /\ [PageNext]_pageVars => PatientInv'
<1> SUFFICES ASSUME PatientInv, [PageNext]_pageVars, patient' PROVE Calm'
  BY DEF PatientInv
<1>0. patient /\ Calm
  BY DEF PatientInv, PageNext, pageVars
<1> USE <1>0 DEF Calm, Kinds, MayAct
<1>1. CASE ChangeConnector
  BY <1>1 DEF ChangeConnector, NoReport, Report
<1>2. CASE ClickSample
  BY <1>2 DEF ClickSample, SendFrom, Request
<1>3. CASE ChooseFile
  BY <1>3 DEF ChooseFile, SendFrom, Request
<1>4. CASE ClickPreview
  BY <1>4 DEF ClickPreview, SendFrom, Request
<1>5. CASE ClickCommit
  BY <1>5 DEF ClickCommit, SendFrom, Request
<1>6. CASE LoadRecords
  BY <1>6 DEF LoadRecords, Answered, NoReport, Report
<1>7. CASE ShowPreview
  BY <1>7 DEF ShowPreview, Answered, Report
<1>8. CASE ShowImport
  BY <1>8 DEF ShowImport, Report
<1>9. CASE ShowStatus
  BY <1>9 DEF ShowStatus, Answered, NoReport, Report
<1>10. CASE Fail
  BY <1>10 DEF Fail, Answered
<1>11. CASE LoadDashboard
  BY <1>11 DEF LoadDashboard, Report
<1>12. CASE UNCHANGED pageVars
  BY <1>12 DEF pageVars
<1> QED
  BY <1>1, <1>2, <1>3, <1>4, <1>5, <1>6, <1>7, <1>8, <1>9, <1>10, <1>11, <1>12 DEF PageNext, Act, Answer

\* A user who waits for every answer commits only records an accepted preview
\* of which was shown for the same connector, whatever fails in between.
THEOREM PatientCommitsArePreviewed == PageSpec => []CommitIsPreviewed
<1>1. PatientInv => CommitIsPreviewed
  BY DEF PatientInv, Calm, CommitIsPreviewed
<1> QED
  BY PatientInitial, PatientStep, <1>1, PTL DEF PageSpec

\* A preview shown to a user who waits is of what is on the page.
THEOREM PatientPreviewsAreOfPage == PageSpec => []PreviewIsOfPage
<1>1. PatientInv => PreviewIsOfPage
  BY DEF PatientInv, Calm, PreviewIsOfPage
<1> QED
  BY PatientInitial, PatientStep, <1>1, PTL DEF PageSpec

------------------------------------------------------------------------------
(* The case page *)

CaseKinds == {"dashboard", "select", "simulate", "reset", "export"}

\* A record of a request, made by Send and marked by Serve.
CaseRequestsOK ==
  \A r \in caseRequests :
    /\ r = [id |-> r.id, by |-> r.by, kind |-> r.kind, case |-> r.case, served |-> r.served, events |-> r.events]
    /\ r.kind \in CaseKinds
    /\ r.kind \in {"select", "simulate"} => r.case \in Cases

\* What is shown is what is wanted, and up to date.
Shown ==
  /\ wanted # None => active.case = wanted
  /\ active.events = events[active.case]

\* What the one act that turns the page will lead to: a selection brings the
\* wanted case up to date, a dashboard selects it, and what ends in a dashboard
\* was asked for about it or with it shown.
LeadsToWanted(r) ==
  /\ r.kind = "select" => (wanted # None => r.case = wanted) /\ (r.served => r.events = events[r.case])
  /\ r.kind \in {"dashboard", "simulate"} => r.case = wanted
  /\ r.kind = "reset" => active.case = wanted

\* An act that ran alone still does, or has shown what it was for; nothing
\* turns the page under an export that is steady.
Undisturbed ==
  /\ course \in {"alone", "disturbed", "shown"}
  /\ course = "alone" => \A r, s \in Turning : r = s
  /\ course = "alone" => \A r \in Turning : LeadsToWanted(r)
  /\ course = "shown" => Turning = {} /\ Shown
  /\ steady => Turning = {}
  /\ steady => \A r \in caseRequests : r.kind = "export" => r.case = active.case
  /\ \A e \in exported : e.steady => e.named = e.of

\* At most one export is under way.
OneExport ==
  /\ \A r \in caseRequests : r.kind = "export" <=> r.by = "export"
  /\ \A r, s \in caseRequests : r.by = "export" /\ s.by = "export" => r = s

CaseInv == DOMAIN events = Cases /\ CaseRequestsOK /\ OneExport /\ Undisturbed

LEMMA CaseInitial == CasesInit => CaseInv
<1> SUFFICES ASSUME CasesInit PROVE CaseInv
  OBVIOUS
<1>1. PICK id \in RequestIds : caseRequests = {CaseRequest(id, "load", "dashboard", None)}
  BY DEF CasesInit
<1>2. \A r \in caseRequests :
        /\ r = [id |-> r.id, by |-> r.by, kind |-> r.kind, case |-> r.case, served |-> r.served, events |-> r.events]
        /\ r.kind = "dashboard" /\ r.case = None /\ r.by = "load"
  BY <1>1 DEF CaseRequest
<1>3. \A r, s \in caseRequests : r = s
  BY <1>1
<1>4. DOMAIN events = Cases /\ wanted = None /\ course = "alone" /\ ~steady /\ exported = {}
  BY DEF CasesInit
<1> QED
  BY <1>2, <1>3, <1>4 DEF CaseInv, CaseRequestsOK, CaseKinds, OneExport, Undisturbed, LeadsToWanted, Turning

\* A new request is unserved and about what it was made for.
LEMMA NewRequest ==
  ASSUME NEW id, NEW by, NEW kind, NEW case
  PROVE  \E new : /\ new = CaseRequest(id, by, kind, case)
                  /\ new = [id |-> new.id, by |-> new.by, kind |-> new.kind, case |-> new.case,
                            served |-> new.served, events |-> new.events]
                  /\ new.by = by /\ new.kind = kind /\ new.case = case /\ ~new.served
<1> DEFINE new == CaseRequest(id, by, kind, case)
<1>1. /\ new = [id |-> new.id, by |-> new.by, kind |-> new.kind, case |-> new.case,
                served |-> new.served, events |-> new.events]
      /\ new.by = by /\ new.kind = kind /\ new.case = case /\ ~new.served
  BY DEF CaseRequest
<1>2. new = CaseRequest(id, by, kind, case)
  OBVIOUS
<1> HIDE DEF new
<1> QED
  BY <1>1, <1>2

\* An act that turns the page and does not act for the export button.
LEMMA BeginStep ==
  ASSUME CaseInv, NEW by, NEW kind \in CaseKinds, NEW case, NEW goal,
         by # "export", kind # "export", Send(by, kind, case), Begin(goal),
         kind \in {"select", "simulate"} => case \in Cases,
         kind \in {"select", "simulate", "dashboard"} => case = goal,
         kind = "reset" => active.case = goal,
         UNCHANGED <<listed, events, active, exported>>
  PROVE  CaseInv'
<1>1. PICK new :
        /\ caseRequests' = caseRequests \cup {new}
        /\ new = [id |-> new.id, by |-> new.by, kind |-> new.kind, case |-> new.case, served |-> new.served, events |-> new.events]
        /\ new.by = by /\ new.kind = kind /\ new.case = case /\ ~new.served
  <2>1. PICK id : caseRequests' = caseRequests \cup {CaseRequest(id, by, kind, case)}
    BY DEF Send
  <2> QED
    BY <2>1, NewRequest
<1>2. DOMAIN events' = Cases /\ CaseRequestsOK' /\ OneExport'
  BY <1>1 DEF CaseInv, CaseRequestsOK, OneExport
<1>3. Turning' = Turning \cup {new}
  BY <1>1 DEF Turning
<1>4. CASE Turning = {} /\ course' = "alone" /\ wanted' = goal
  <2>1. \A r \in Turning' : LeadsToWanted(r)'
    BY <1>1, <1>3, <1>4 DEF LeadsToWanted
  <2> QED
    BY <1>2, <1>3, <1>4, <2>1 DEF CaseInv, Undisturbed, Begin
<1>5. CASE course' = "disturbed"
  BY <1>2, <1>5 DEF CaseInv, Undisturbed, Begin
<1> QED
  BY <1>4, <1>5 DEF Begin

\* What follows an answer keeps an act going for the case it was for.
LEMMA FollowStep ==
  ASSUME CaseInv, NEW r \in caseRequests, NEW kind \in {"dashboard", "select"}, NEW case,
         r.kind # "export", SendInstead(r, kind, case),
         kind = "select" => case \in Cases,
         LeadsToWanted(r) /\ kind = "dashboard" => case = wanted,
         LeadsToWanted(r) /\ kind = "select" /\ wanted # None => case = wanted,
         UNCHANGED <<events, active, exported, wanted, course, steady>>
  PROVE  CaseInv'
<1>1. PICK new :
        /\ caseRequests' = (caseRequests \ {r}) \cup {new}
        /\ new = [id |-> new.id, by |-> new.by, kind |-> new.kind, case |-> new.case, served |-> new.served, events |-> new.events]
        /\ new.by = r.by /\ new.kind = kind /\ new.case = case /\ ~new.served
  <2>1. caseRequests' = (caseRequests \ {r}) \cup {CaseRequest(r.id, r.by, kind, case)}
    BY DEF SendInstead
  <2> QED
    BY <2>1, NewRequest
<1>2. DOMAIN events' = Cases /\ CaseRequestsOK' /\ OneExport'
  BY <1>1 DEF CaseInv, CaseRequestsOK, OneExport, CaseKinds
<1>3. r \in Turning /\ Turning' = (Turning \ {r}) \cup {new}
  BY <1>1 DEF Turning
<1>4. course = "alone" => \A q, s \in Turning' : q = s
  BY <1>3 DEF CaseInv, Undisturbed
<1>5. course = "alone" => \A q \in Turning' : LeadsToWanted(q)'
  <2> SUFFICES ASSUME course = "alone", NEW q \in Turning' PROVE LeadsToWanted(q)'
    OBVIOUS
  <2>1. q = new
    BY <1>3 DEF CaseInv, Undisturbed
  <2>2. LeadsToWanted(r)
    BY <1>3 DEF CaseInv, Undisturbed
  <2> QED
    BY <1>1, <2>1, <2>2 DEF LeadsToWanted
<1> QED
  BY <1>1, <1>2, <1>3, <1>4, <1>5 DEF CaseInv, Undisturbed

LEMMA ServeStep == CaseInv /\ Serve => CaseInv'
<1> SUFFICES ASSUME CaseInv, Serve PROVE CaseInv'
  OBVIOUS
<1>1. PICK r \in caseRequests :
        /\ events' = CASE r.kind = "simulate" -> [events EXCEPT ![r.case] = @ + 1]
                       [] r.kind = "reset"    -> [c \in Cases |-> 1]
                       [] OTHER               -> events
        /\ caseRequests' = (caseRequests \ {r})
             \cup {[r EXCEPT !.served = TRUE, !.events = IF r.kind = "select" THEN events'[r.case] ELSE 0]}
  BY DEF Serve
<1>2. UNCHANGED <<active, exported, wanted, course, steady>>
  BY DEF Serve
<1>3. PICK new :
        /\ caseRequests' = (caseRequests \ {r}) \cup {new}
        /\ new = [id |-> new.id, by |-> new.by, kind |-> new.kind, case |-> new.case, served |-> new.served, events |-> new.events]
        /\ new.by = r.by /\ new.kind = r.kind /\ new.case = r.case
        /\ new.kind = "select" => new.events = events'[r.case]
  <2>1. PICK x : x = (IF r.kind = "select" THEN events'[r.case] ELSE 0)
    OBVIOUS
  <2>2. PICK y : y = TRUE
    OBVIOUS
  <2>3. PICK i, b, k, c, v, n : r = [id |-> i, by |-> b, kind |-> k, case |-> c, served |-> v, events |-> n]
    BY DEF CaseInv, CaseRequestsOK
  <2> DEFINE answered == [r EXCEPT !.served = y]
             marked   == [id |-> i, by |-> b, kind |-> k, case |-> c, served |-> y, events |-> x]
  <2>4. answered = [id |-> i, by |-> b, kind |-> k, case |-> c, served |-> y, events |-> n]
    BY <2>3
  <2>5. [answered EXCEPT !.events = x] = marked
    <3> HIDE DEF answered
    <3> QED
      BY <2>4
  <2>6. [r EXCEPT !.served = y, !.events = x] = [answered EXCEPT !.events = x]
    OBVIOUS
  <2>7. /\ marked = [id |-> marked.id, by |-> marked.by, kind |-> marked.kind, case |-> marked.case,
                     served |-> marked.served, events |-> marked.events]
        /\ marked.by = r.by /\ marked.kind = r.kind /\ marked.case = r.case /\ marked.events = x
    BY <2>3
  <2> HIDE DEF answered, marked
  <2>8. [r EXCEPT !.served = TRUE, !.events = IF r.kind = "select" THEN events'[r.case] ELSE 0] = marked
    <3>1. [r EXCEPT !.served = TRUE, !.events = IF r.kind = "select" THEN events'[r.case] ELSE 0]
            = [r EXCEPT !.served = y, !.events = x]
      BY <2>1, <2>2
    <3> QED
      BY <2>5, <2>6, <3>1
  <2>9. caseRequests' = (caseRequests \ {r}) \cup {marked}
    BY <1>1, <2>8
  <2> QED
    BY <2>1, <2>7, <2>9
<1>4. DOMAIN events' = Cases /\ (r.kind \notin {"simulate", "reset"} => events' = events)
  BY <1>1 DEF CaseInv
<1>5. CaseRequestsOK' /\ OneExport'
  BY <1>3 DEF CaseInv, CaseRequestsOK, OneExport
<1>6. Turning' = IF r.kind = "export" THEN Turning ELSE (Turning \ {r}) \cup {new}
  BY <1>3 DEF Turning
<1>7. r.kind # "export" => r \in Turning
  BY DEF Turning
<1>8. course = "alone" => \A q, s \in Turning' : q = s
  BY <1>6, <1>7 DEF CaseInv, Undisturbed
<1>9. course = "alone" => \A q \in Turning' : LeadsToWanted(q)'
  <2> SUFFICES ASSUME course = "alone", NEW q \in Turning' PROVE LeadsToWanted(q)'
    OBVIOUS
  <2>1. CASE r.kind = "export"
    BY <1>2, <1>4, <1>6, <2>1 DEF CaseInv, Undisturbed, LeadsToWanted
  <2>2. CASE r.kind # "export"
    <3>1. q = new /\ LeadsToWanted(r)
      BY <1>6, <1>7, <2>2 DEF CaseInv, Undisturbed
    <3> QED
      BY <1>2, <1>3, <3>1 DEF LeadsToWanted
  <2> QED
    BY <2>1, <2>2
<1>10. Turning = {} => Turning' = {} /\ events' = events
  BY <1>4, <1>6, <1>7
<1>11. steady => \A q \in caseRequests' : q.kind = "export" => q.case = active.case
  BY <1>3 DEF CaseInv, Undisturbed
<1> QED
  BY <1>2, <1>4, <1>5, <1>8, <1>9, <1>10, <1>11 DEF CaseInv, Undisturbed, Shown

LEMMA CaseStep == CaseInv /\ [CasesNext]_casesVars => CaseInv'
<1> SUFFICES ASSUME CaseInv, [CasesNext]_casesVars PROVE CaseInv'
  OBVIOUS
<1>1. CASE SelectCase
  <2>1. PICK c \in Cases : Send("list", "select", c) /\ Begin(c)
    BY <1>1 DEF SelectCase
  <2> QED
    BY <1>1, <2>1, BeginStep DEF SelectCase, CaseKinds
<1>2. CASE Simulate
  <2>1. PICK button \in {"simulate", "caseSimulate"}, c \in Cases : Send(button, "simulate", c) /\ Begin(c)
    BY <1>2 DEF Simulate
  <2> QED
    BY <1>2, <2>1, BeginStep DEF Simulate, CaseKinds
<1>3. CASE Reset
  BY <1>3, BeginStep DEF Reset, CaseKinds
<1>4. CASE Export
  <2>1. PICK new :
          /\ caseRequests' = caseRequests \cup {new}
          /\ new = [id |-> new.id, by |-> new.by, kind |-> new.kind, case |-> new.case, served |-> new.served, events |-> new.events]
          /\ new.by = "export" /\ new.kind = "export" /\ new.case = active.case
    <3>1. PICK id : caseRequests' = caseRequests \cup {CaseRequest(id, "export", "export", active.case)}
      BY <1>4 DEF Export, Send
    <3> QED
      BY <3>1, NewRequest
  <2>2. UNCHANGED <<events, active, exported, wanted, course>> /\ steady' = (Turning = {})
    BY <1>4 DEF Export
  <2>3. \A r \in caseRequests : r.by # "export"
    BY <1>4 DEF Export, Enabled
  <2>4. CaseRequestsOK'
    BY <2>1, <2>2 DEF CaseInv, CaseRequestsOK, CaseKinds
  <2>5. OneExport'
    BY <2>1, <2>3 DEF CaseInv, OneExport
  <2>6. Turning' = Turning
    BY <2>1 DEF Turning
  <2>7. \A r \in caseRequests' : r.kind = "export" => r.case = active.case
    BY <2>1, <2>3 DEF CaseInv, OneExport
  <2> QED
    BY <2>2, <2>4, <2>5, <2>6, <2>7 DEF CaseInv, Undisturbed, LeadsToWanted, Shown
<1>5. CASE Serve
  BY <1>5, ServeStep
<1>6. CASE ShowCase
  <2>1. PICK r \in caseRequests :
          /\ r.kind = "select" /\ r.served /\ active' = [case |-> r.case, events |-> r.events]
          /\ caseRequests' = caseRequests \ {r}
          /\ course' = IF course = "alone" THEN "shown" ELSE course
          /\ UNCHANGED <<listed, events, exported, wanted, steady>>
    BY <1>6 DEF ShowCase
  <2>2. r \in Turning /\ Turning' = Turning \ {r}
    BY <2>1 DEF Turning
  <2>3. CaseRequestsOK' /\ OneExport'
    BY <2>1 DEF CaseInv, CaseRequestsOK, OneExport
  <2>4. ~steady /\ course # "shown"
    BY <2>2 DEF CaseInv, Undisturbed
  <2>5. CASE course = "alone"
    <3>1. Turning' = {} /\ LeadsToWanted(r)
      BY <2>2, <2>5 DEF CaseInv, Undisturbed
    <3>2. Shown'
      BY <2>1, <3>1 DEF Shown, LeadsToWanted
    <3> QED
      BY <2>1, <2>3, <2>4, <2>5, <3>1, <3>2 DEF CaseInv, Undisturbed
  <2>6. CASE course # "alone"
    BY <2>1, <2>3, <2>4, <2>6 DEF CaseInv, Undisturbed
  <2> QED
    BY <2>5, <2>6
<1>7. CASE LoadAfterSimulate
  <2>1. PICK r \in caseRequests : r.kind = "simulate" /\ SendInstead(r, "dashboard", r.case)
    BY <1>7 DEF LoadAfterSimulate
  <2>2. LeadsToWanted(r) => r.case = wanted
    BY <2>1 DEF LeadsToWanted
  <2> QED
    BY <1>7, <2>1, <2>2, FollowStep DEF LoadAfterSimulate
<1>8. CASE LoadAfterReset
  <2>1. PICK r \in caseRequests : r.kind = "reset" /\ SendInstead(r, "dashboard", active.case)
    BY <1>8 DEF LoadAfterReset
  <2>2. LeadsToWanted(r) => active.case = wanted
    BY <2>1 DEF LeadsToWanted
  <2> QED
    BY <1>8, <2>1, <2>2, FollowStep DEF LoadAfterReset
<1>9. CASE ShowDashboard
  <2>1. PICK r \in caseRequests, c \in Cases :
          r.kind = "dashboard" /\ (r.case # None => c = r.case) /\ SendInstead(r, "select", c)
    BY <1>9 DEF ShowDashboard
  <2>2. LeadsToWanted(r) /\ wanted # None => c = wanted
    BY <2>1 DEF LeadsToWanted
  <2> QED
    BY <1>9, <2>1, <2>2, FollowStep DEF ShowDashboard
<1>10. CASE SaveExport
  <2>1. PICK r \in caseRequests :
          /\ r.kind = "export"
          /\ exported' = {[named |-> active.case, of |-> r.case, steady |-> steady]}
          /\ caseRequests' = caseRequests \ {r}
          /\ steady' = FALSE
          /\ UNCHANGED <<listed, events, active, wanted, course>>
    BY <1>10 DEF SaveExport
  <2>2. Turning' = Turning
    BY <2>1 DEF Turning
  <2>3. CaseRequestsOK' /\ OneExport'
    BY <2>1 DEF CaseInv, CaseRequestsOK, OneExport
  <2>4. \A e \in exported' : e.steady => e.named = e.of
    BY <2>1 DEF CaseInv, Undisturbed
  <2> QED
    BY <2>1, <2>2, <2>3, <2>4 DEF CaseInv, Undisturbed, LeadsToWanted, Shown
<1>11. CASE FailCase
  <2>1. PICK r \in caseRequests :
          /\ caseRequests' = caseRequests \ {r}
          /\ \/ /\ r.kind = "export" /\ steady' = FALSE
                /\ UNCHANGED <<wanted, course>>
             \/ /\ r.kind # "export" /\ course' = "disturbed" /\ wanted' = None
                /\ UNCHANGED steady
          /\ UNCHANGED <<listed, events, active, exported>>
    BY <1>11 DEF FailCase
  <2>2. Turning' = Turning \ {r}
    BY <2>1 DEF Turning
  <2>3. CaseRequestsOK' /\ OneExport'
    BY <2>1 DEF CaseInv, CaseRequestsOK, OneExport
  <2>4. CASE r.kind = "export" /\ steady' = FALSE /\ UNCHANGED <<wanted, course>>
    BY <2>1, <2>2, <2>3, <2>4 DEF CaseInv, Undisturbed, LeadsToWanted, Shown
  <2>5. CASE course' = "disturbed" /\ UNCHANGED steady
    BY <2>1, <2>2, <2>3, <2>5 DEF CaseInv, Undisturbed
  <2> QED
    BY <2>1, <2>4, <2>5
<1>12. CASE UNCHANGED casesVars
  BY <1>12 DEF casesVars, CaseInv, CaseRequestsOK, OneExport, Undisturbed, Turning, LeadsToWanted, Shown
<1> QED
  BY <1>1, <1>2, <1>3, <1>4, <1>5, <1>6, <1>7, <1>8, <1>9, <1>10, <1>11, <1>12
     DEF CasesNext, CaseAct, CaseAnswer

\* However answers overtake each other and requests fail, an act on the case
\* page that ran alone and to its end shows the case it was for as the server
\* has it, and a bundle exported meanwhile bears the name of its case.
THEOREM SelectionIsShown == CasesSpec => []SelectedIsShown
<1>1. CaseInv => SelectedIsShown
  BY DEF CaseInv, Undisturbed, Shown, SelectedIsShown
<1> QED
  BY CaseInitial, CaseStep, <1>1, PTL DEF CasesSpec

==============================================================================
