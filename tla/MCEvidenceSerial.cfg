\* One operation at a time, with crashes, failing calls and resets.
SPECIFICATION Spec
CONSTANTS
  Boot = boot
  Threads = {t1}
  Cases = {"primary", "secondary"}
  ScenarioLength <- Scripts
  BootLength <- BootScripts
  CaseOrder <- BothCases
  ListLimit = 3
  Resets = TRUE
  MaxOperations = 4
  MaxInterruptions = 2
  MaxClock = 1
INVARIANTS
  EvidenceVerifies
  ScenarioInOrder
  AtMostOneUpdateLostPerInterruption
CHECK_DEADLOCK FALSE
