\* A request in the first sleep: the wait for suspension has no end.
CONSTANTS
  Procs = {"a", "b"}
  Order <- MCOrder
  ENTRIES = 3
  Arrivals <- MCRequestOnly
  CmdLine <- MCCmdLine
  Requests <- MCRequests
  EarlyRequests = TRUE
  LateSignals = FALSE
  MaxRestarts = 0
SPECIFICATION Spec
CHECK_DEADLOCK FALSE
INVARIANTS WaitsForThreads
