\* A route that raises leaves its command without an outcome receipt.
SPECIFICATION Spec
CONSTANTS
  p1 = p1
  p2 = p2
  c1 = c1
  c2 = c2
  Procs = {p1}
  Commands = {c1, c2}
  Home <- OneHome
  Keys = {k1}
  Requests <- PlainRequests
  Roles = {"administrator"}
  Envelopes <- NoEnvelopes
  MaxTime = 0
  VerifierInstalled = TRUE
INVARIANTS
  CalledRouteIsConcluded
CHECK_DEADLOCK FALSE
