\* Two concurrent simulate calls fork the chain of a case.
SPECIFICATION Spec
CONSTANTS
  Boot = boot
  Threads = {t1, t2}
  Cases = {"primary"}
  ScenarioLength <- OneScript
  BootLength <- BootScripts
  CaseOrder <- OneCase
  ListLimit = 9
  Resets = FALSE
  MaxOperations = 3
  MaxInterruptions = 0
  MaxClock = 1
INVARIANTS
  EvidenceVerifies
CHECK_DEADLOCK FALSE
