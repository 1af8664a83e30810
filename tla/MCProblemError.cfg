CONSTANTS
  s1 = s1 rc5 = rc5 ogr = ogr
  Slot = {s1}
  Contest = {ogr}
  Steps = 1
  MaxLoads = 1
SPECIFICATION FairSpec
PROPERTIES CoreErrorDiscards
