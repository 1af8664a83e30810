\* A pause that is signalled while the check returns, and taken back before the next.
CONSTANTS
  Procs = {"a", "b"}
  Order <- MCOrder
  ENTRIES = 3
  Arrivals <- MCPauses
  CmdLine <- MCCmdLine
  Requests <- MCRequests
  EarlyRequests = FALSE
  LateSignals = TRUE
  MaxRestarts = 0
SPECIFICATION Spec
CHECK_DEADLOCK FALSE
INVARIANTS ReleasedAfterPause
