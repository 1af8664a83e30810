CONSTANTS
  Crunchers = 2
  SlowStart = FALSE
  User = {"benchmark", "pause", "exit"}
SPECIFICATION FairSpec
INVARIANTS SuspendedSoon StoppedBeforeFree
PROPERTIES RefillNoticed WaitsEnd
CHECK_DEADLOCK FALSE
