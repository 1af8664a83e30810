CONSTANTS
  p1 = p1 p2 = p2 p3 = p3 None = None
  Packet = {p1}
  Crunchers = 1
  Blockcount = {0}
  RandomBlocks = FALSE
  MaxRuns = 2
  Happens = {"crash"}
SPECIFICATION Spec
PROPERTIES CheckpointRecovered
CHECK_DEADLOCK FALSE
