SPECIFICATION RC5Spec
CONSTANTS
  BYTE = 2
  MINIMUM_ITERATIONS = 3
  DUMMY_ITERATIONS = 2
  Packets <- MCPackets
  Suggested = {0, 5, 8}
  Partial <- MCPartial
  MaxLoads = 3
CHECK_DEADLOCK FALSE
INVARIANTS KeysExact NoKeySkipped FoundIsKey CheckExact ServerPacketsEnd
