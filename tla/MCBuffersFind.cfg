CONSTANTS
  Blank = Blank
  p1 = p1 p2 = p2 rc5 = rc5 ogr = ogr
  Contest = {rc5, ogr}
  Packet = {p1, p2}
  Disk = {TRUE}
  MembuffSteps = 1
  MembuffMax = 1
  CountFails = FALSE
SPECIFICATION Spec
PROPERTIES GetFindsRequested
CHECK_DEADLOCK FALSE
