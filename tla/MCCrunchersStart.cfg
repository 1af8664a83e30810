CONSTANTS
  Crunchers = 1
  SlowStart = TRUE
  User = {"benchmark", "pause", "exit"}
SPECIFICATION Spec
INVARIANTS StoppedBeforeFree
CHECK_DEADLOCK FALSE
