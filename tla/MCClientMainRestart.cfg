\* A restart leaves the count of registered procedures too high; an interrupt that
\* falls into a restart is lost.  TLC reports the latter; to see the former, take
\* the last line out.
CONSTANTS
  Procs = {"a", "b"}
  Order <- MCOrder
  ENTRIES = 3
  Arrivals <- MCRestart
  CmdLine <- MCCmdLine
  Requests <- MCRequests
  EarlyRequests = FALSE
  LateSignals = FALSE
  MaxRestarts = 1
SPECIFICATION Spec
CHECK_DEADLOCK FALSE
INVARIANTS PausedIsIdle
PROPERTIES InterruptEnds
