CONSTANTS
  p1 = p1 p2 = p2 p3 = p3 None = None
  Packet = {p1, p2}
  Threshold = {2}
  Looped = {FALSE}
  Fails = {}
SPECIFICATION Spec
PROPERTIES DelayAfterFailure
CHECK_DEADLOCK FALSE
