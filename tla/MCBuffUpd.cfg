CONSTANTS
  p1 = p1 p2 = p2 p3 = p3 None = None
  Packet = {p1, p2}
  Threshold = {2, 3}
  Looped = {FALSE, TRUE}
  Fails = {"get", "put", "putback", "net"}
SPECIFICATION FairSpec
INVARIANTS PacketsKept ResultTruthful BackoffConsistent
PROPERTIES UpdateEnds
CHECK_DEADLOCK FALSE
