\* Everything, with one restart.  The client may end.
CONSTANTS
  Procs = {"a", "b"}
  Order <- MCOrder
  ENTRIES = 3
  Arrivals <- MCArrivals
  CmdLine <- MCCmdLine
  Requests <- MCRequests
  EarlyRequests = FALSE
  LateSignals = FALSE
  MaxRestarts = 1
SPECIFICATION FairSpec
CHECK_DEADLOCK FALSE
INVARIANTS PolledOnce HeldInPause
PROPERTIES PauseTakesEffect NoneForgotten RunEnds
