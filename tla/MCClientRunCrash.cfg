CONSTANTS
  p1 = p1 p2 = p2 p3 = p3 None = None
  Packet = {p1, p2}
  Crunchers = 2
  Blockcount <- AnyLimit
  RandomBlocks = TRUE
  MaxRuns = 2
  Happens = {"get", "early", "put", "load", "abort", "thread", "crash"}
SPECIFICATION FairSpec
PROPERTIES ImplementsWorkLife LimitedRunsEnd
CHECK_DEADLOCK FALSE
