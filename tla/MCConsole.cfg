\* A gateway page with two connectors and three record lists, whose user waits
\* for answers or not; a case page with two cases, whose user never waits.
SPECIFICATION Spec
CONSTANTS
  Connectors = {"suricata", "zeek"}
  Batches = {"b1", "b2", "empty"}
  EmptyBatch = "empty"
  Accepts <- SomeAccepted
  MaxRequests = 5
  Cases = {"primary", "secondary"}
  DefaultCase = "primary"
  MaxEvents = 2
  RequestIds = {r1, r2, r3}
SYMMETRY CaseSymmetry
INVARIANTS
  NoButtonIsStuck
  CommitIsPreviewed
  SelectedIsShown
CHECK_DEADLOCK FALSE
