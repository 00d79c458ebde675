\* Every way through do_POST: two handler threads of one process.
SPECIFICATION Spec
CONSTANTS
  p1 = p1
  p2 = p2
  c1 = c1
  c2 = c2
  Procs = {p1}
  Commands = {c1, c2}
  Home <- OneHome
  Keys = {k1}
  Requests <- GateRequests
  Roles = {"analyst", "administrator"}
  Envelopes <- TwoEnvelopes
  MaxTime = 1
  VerifierInstalled = TRUE
INVARIANTS
  ReceiptDiscipline
  JournalTellsWhatRan
  ResponseIsTruthful
  ReloadNeverLockedOut
PROPERTIES
  ExecutionIsAuthorized
CHECK_DEADLOCK FALSE
