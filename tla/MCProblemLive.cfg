CONSTANTS
  s1 = s1 rc5 = rc5 ogr = ogr
  Slot = {s1}
  Contest = {rc5}
  Steps = 1
  MaxLoads = 2
SPECIFICATION ProgressSpec
PROPERTIES PacketsFinish
