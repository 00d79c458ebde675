\* Two simulate threads on two cases, with crashes and failing calls, no reset.
SPECIFICATION Spec
CONSTANTS
  Boot = boot
  Threads = {t1, t2}
  Cases = {"primary", "secondary"}
  ScenarioLength <- Scripts
  BootLength <- BootScripts
  CaseOrder <- BothCases
  ListLimit = 9
  Resets = FALSE
  MaxOperations = 4
  MaxInterruptions = 1
  MaxClock = 1
INVARIANTS
  BeliefsAreBacked
  AncestryIntact
CHECK_DEADLOCK FALSE
