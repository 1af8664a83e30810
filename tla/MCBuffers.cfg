CONSTANTS
  Blank = Blank
  p1 = p1 p2 = p2 rc5 = rc5 ogr = ogr
  Contest = {rc5, ogr}
  Packet = {p1, p2}
  Disk = {TRUE, FALSE}
  MembuffSteps = 1
  MembuffMax = 1
  CountFails = TRUE
SPECIFICATION FairSpec
INVARIANTS OnePlace
PROPERTIES NoneVanishes GetReturns
CHECK_DEADLOCK FALSE
