CONSTANTS
  s1 = s1 rc5 = rc5 ogr = ogr
  Slot = {s1}
  Contest = {rc5}
  Steps = 2
  MaxLoads = 1
SPECIFICATION Spec
PROPERTIES DiscardFlagKept
