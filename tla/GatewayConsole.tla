---------------------------- MODULE GatewayConsole ----------------------------
(***************************************************************************)
(* The evidence gateway page of web/app.js: records are loaded for a       *)
(* connector, previewed and committed. Every request is answered, or       *)
(* fails, at a moment of its own, and the page goes on meanwhile: what a   *)
(* response changes is read from the page as it is when it arrives.        *)
(***************************************************************************)
EXTENDS ConsoleUser, Naturals, FiniteSets

CONSTANTS
  Connectors,   \* the contracts of the select box
  Batches,      \* record lists of samples and files
  EmptyBatch,   \* the one of them without records
  Accepts,      \* <<connector, records>> of which the server accepts a record
  MaxRequests   \* bound on the requests of a behaviour

ASSUME ConsoleAssumption ==
  /\ EmptyBatch \in Batches /\ Accepts \subseteq Connectors \X (Batches \ {EmptyBatch})
  /\ MaxRequests \in Nat

VARIABLES
  connector,   \* the value of the select box
  pending,     \* state.gatewayPendingRecords
  preview,     \* state.gatewayPreview: the report shown
  enabled,     \* which of the buttons are enabled
  requests,    \* the requests not answered yet
  sent,        \* how many were made
  previewed,   \* what an accepted preview has been shown of
  committed    \* what was sent to be imported

pageVars == <<patient, connector, pending, preview, enabled, requests, sent, previewed, committed>>

Buttons == {"sample", "preview", "commit"}
Report(mode, of) == [mode |-> mode, of |-> of]
NoReport == Report("NONE", <<None, None>>)

PageInit ==
  /\ UserInit
  /\ connector \in Connectors
  /\ pending = None /\ preview = NoReport
  /\ enabled = {"sample"}
  /\ requests = {} /\ sent = 0
  /\ previewed = {} /\ committed = {}

------------------------------------------------------------------------------
(* What the user does *)

MayAct == patient => requests = {}

Request(kind, of) == [id |-> sent + 1, kind |-> kind, of |-> of]
SendFrom(button, kind, of) ==
  /\ sent < MaxRequests /\ sent' = sent + 1
  /\ requests' = requests \cup {Request(kind, of)}
  /\ enabled' = enabled \ {button}

\* Variant: the records of the old connector stay.
ChangeConnectorKeepsCommit ==
  /\ MayAct
  /\ connector' \in Connectors \ {connector}
  /\ preview' = NoReport
  /\ UNCHANGED <<pending, enabled, requests, sent, previewed, committed>>

ChangeConnector ==
  /\ MayAct
  /\ connector' \in Connectors \ {connector}
  /\ pending' = None /\ preview' = NoReport
  /\ enabled' = enabled \ {"preview", "commit"}
  /\ UNCHANGED <<requests, sent, previewed, committed>>

\* A sample is the server's for the connector shown when it was asked for.
ClickSample ==
  /\ MayAct /\ "sample" \in enabled
  /\ SendFrom("sample", "sample", <<connector, None>>)
  /\ UNCHANGED <<connector, pending, preview, previewed, committed>>

\* A chosen file is read while the page goes on.
ChooseFile ==
  /\ MayAct
  /\ SendFrom("none", "file", <<connector, None>>)
  /\ UNCHANGED <<connector, pending, preview, previewed, committed>>

ClickPreview ==
  /\ MayAct /\ "preview" \in enabled /\ pending # None
  /\ SendFrom("preview", "preview", <<connector, pending>>)
  /\ UNCHANGED <<connector, pending, preview, previewed, committed>>

ClickCommit ==
  /\ MayAct /\ "commit" \in enabled /\ pending # None
  /\ SendFrom("commit", "import", <<connector, pending>>)
  /\ committed' = committed \cup {<<connector, pending>>}
  /\ UNCHANGED <<connector, pending, preview, previewed>>

------------------------------------------------------------------------------
(* What the answers do, in whatever order they come *)

Answered(r) == requests' = requests \ {r} /\ UNCHANGED <<connector, sent, committed>>

\* setGatewayRecords, and setLoading for the sample button.
LoadRecords == \E r \in requests : \E records \in Batches :
  /\ r.kind = "file" \/ (r.kind = "sample" /\ records # EmptyBatch)
  /\ Answered(r)
  /\ pending' = records /\ preview' = NoReport
  /\ enabled' = (enabled \ {"preview", "commit"})
                  \cup (IF records = EmptyBatch THEN {} ELSE {"preview"})
                  \cup (IF r.kind = "sample" THEN {"sample"} ELSE {})
  /\ UNCHANGED previewed

\* renderGatewayReport, and the preview button again whatever it was.
ShowPreview == \E r \in requests :
  /\ r.kind = "preview" /\ r.of[2] # EmptyBatch
  /\ Answered(r)
  /\ preview' = Report("PREVIEW", r.of)
  /\ enabled' = (IF r.of \in Accepts THEN enabled \cup {"commit"} ELSE enabled \ {"commit"}) \cup {"preview"}
  /\ previewed' = IF r.of \in Accepts THEN previewed \cup {r.of} ELSE previewed
  /\ UNCHANGED pending

\* The import is shown; the commit button stays disabled until the four
\* requests that follow it are answered.
ShowImport == \E r \in requests :
  /\ r.kind = "import"
  /\ requests' = (requests \ {r}) \cup {[r EXCEPT !.kind = "refresh"]}
  /\ preview' = Report("COMMITTED", r.of)
  /\ enabled' = enabled \ {"commit"}
  /\ UNCHANGED <<connector, pending, sent, previewed, committed>>

\* renderGatewayStatus shows the last import where no report is shown, and
\* setLoading enables the commit button.
ShowStatus == \E r \in requests :
  /\ r.kind = "refresh"
  /\ Answered(r)
  /\ preview' = IF preview = NoReport THEN Report("COMMITTED", r.of) ELSE preview
  /\ enabled' = enabled \cup {"commit"}
  /\ UNCHANGED <<pending, previewed>>

\* Variant: the button of a request that failed stays disabled.
FailForGood == \E r \in requests :
  /\ Answered(r)
  /\ UNCHANGED <<pending, preview, enabled, previewed>>

Fail == \E r \in requests :
  /\ Answered(r)
  /\ enabled' = enabled \cup
       (CASE r.kind = "file" -> {} [] r.kind \in {"import", "refresh"} -> {"commit"} [] OTHER -> {r.kind})
  /\ UNCHANGED <<pending, preview, previewed>>

\* Any load of the dashboard shows the server's last import where no report
\* is shown.
LoadDashboard ==
  /\ preview = NoReport
  /\ \E of \in Accepts : preview' = Report("COMMITTED", of)
  /\ enabled' = enabled \ {"commit"}
  /\ UNCHANGED <<connector, pending, requests, sent, previewed, committed>>

Act == ChangeConnector \/ ClickSample \/ ChooseFile \/ ClickPreview \/ ClickCommit
Answer == LoadRecords \/ ShowPreview \/ ShowImport \/ ShowStatus \/ Fail \/ LoadDashboard

PageNext == (Act \/ Answer) /\ UNCHANGED patient

PageSpec == PageInit /\ [][PageNext]_pageVars

------------------------------------------------------------------------------

\* A user who waits for every answer commits nothing of which no accepted
\* preview was shown (the gateway previews every transformation before
\* persistence, docs/EVIDENCE_GATEWAY_GUIDE.md). One who does not wait may.
CommitIsPreviewed == patient => committed \subseteq previewed

\* A preview shown to a user who waits is of the records and the connector on
\* the page.
PreviewIsOfPage == patient /\ preview.mode = "PREVIEW" => preview.of = <<connector, pending>>

\* However answers interleave and fail, no button is left disabled for ever:
\* once they are all in, samples can be loaded and loaded records previewed.
NoButtonIsStuck ==
  requests = {} =>
    /\ "sample" \in enabled
    /\ pending \notin {None, EmptyBatch} => "preview" \in enabled
    /\ enabled \subseteq Buttons

\* Even on a page that never waits the first commit needs an accepted preview.
SomePreviewCameFirst == committed # {} => previewed # {}

==============================================================================
