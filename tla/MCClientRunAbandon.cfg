CONSTANTS
  p1 = p1 p2 = p2 p3 = p3 None = None
  Packet = {p1, p2}
  Crunchers = 2
  Blockcount = {0}
  RandomBlocks = FALSE
  MaxRuns = 1
  Happens = {"early"}
SPECIFICATION Spec
INVARIANTS NoneAbandoned
CHECK_DEADLOCK FALSE
