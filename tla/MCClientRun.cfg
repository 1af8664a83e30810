CONSTANTS
  p1 = p1 p2 = p2 p3 = p3 None = None
  Packet = {p1, p2, p3}
  Crunchers = 3
  Blockcount <- AnyLimit
  RandomBlocks = FALSE
  MaxRuns = 1
  Happens = {"get", "early", "put", "load", "abort", "thread", "pause"}
SPECIFICATION Spec
INVARIANTS BlockLimit CheckpointFresh ExitKeepsWork
SYMMETRY PacketSymmetry
CHECK_DEADLOCK FALSE
