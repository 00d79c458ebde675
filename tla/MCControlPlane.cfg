\* One loop thread after another, a handler thread, two threads that may stop
\* the server loop, which may fail.
SPECIFICATION Spec
CONSTANTS
  Loops = {"loop1", "loop2"}
  Callers = {"h1"}
  Collectors <- EventLogOnly
  Channels = {"Security", "System"}
  EventsOf <- SeenBy
  Stoppers = {"main", "closed"}
  ServeMayFail = TRUE
INVARIANTS
  NoRowClaimedTwice
  OneResidentLoop
PROPERTIES
  StopEndsLoop
  ReportsInOrder
  StopCompletes
  QuietAfterReturn
  CloseEnds
CHECK_DEADLOCK FALSE
