\* Four sessions with every kind of edge, one bridge, two guards of which one
\* caps cohorts at three; a pair of sessions and a report of
\* two; the two scripts of the service or any four observations a case.
SPECIFICATION Spec
CONSTANTS
  Members = {1, 2, 3, 4}
  CampaignOf <- TwoPerCampaign
  Bridges <- OneBridge
  Kinds <- AllKinds
  PairThreshold = 28
  Guards <- TwoGuards
  Unit = 60
  Links = {"l1", "l2"}
  Observed = {"source", "infrastructure", "transport", "tooling", "behavior", "deception"}
  Similarities = {0, 250, 570, 1000}
  Observations <- Mixed
  Script <- Scripted
  Boot <- BootAll
  MaxScripted = 7
  MaxAny = 4
INVARIANTS
  CohortsAreSupported
  DecisionsExplainClusters
  MetricsAgree
  LeadingIsStrongest
  SequenceTableIsRight
  CampaignRestsOnEvidence
PROPERTIES
  AgreementNeverWeakens
CHECK_DEADLOCK FALSE
