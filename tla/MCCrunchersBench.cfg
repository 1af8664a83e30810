CONSTANTS
  Crunchers = 1
  SlowStart = FALSE
  User = {"benchmark", "pause", "exit"}
SPECIFICATION Spec
INVARIANTS BenchmarkAlone
CHECK_DEADLOCK FALSE
