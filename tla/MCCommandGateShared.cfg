\* Two processes open one installation root, with one command each: key
\* creation races, restarts and a lost key file. Handler threads are fair.
SPECIFICATION FairSpec
CONSTANTS
  p1 = p1
  p2 = p2
  c1 = c1
  c2 = c2
  Procs = {p1, p2}
  Commands = {c1, c2}
  Home <- TwoHomes
  Keys = {k1, k2}
  Requests <- PlainRequests
  Roles = {"administrator"}
  Envelopes <- NoEnvelopes
  MaxTime = 0
  VerifierInstalled = TRUE
INVARIANTS
  JournalInv
  JournalVerifies
  NoSilentRekey
PROPERTIES
  ImplementsReceiptContract
  HandlersFinish
CHECK_DEADLOCK FALSE
