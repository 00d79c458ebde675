\* A license that expires while the process runs keeps its entitlements.
SPECIFICATION Spec
CONSTANTS
  p1 = p1
  p2 = p2
  c1 = c1
  c2 = c2
  Procs = {p1}
  Commands = {c1, c2}
  Home <- OneHome
  Keys = {k1}
  Requests <- PlainRequests
  Roles = {"administrator"}
  Envelopes <- ShortOnly
  MaxTime = 1
  VerifierInstalled = TRUE
PROPERTIES
  EntitlementIsCurrent
CHECK_DEADLOCK FALSE
