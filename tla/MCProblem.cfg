CONSTANTS
  s1 = s1 rc5 = rc5 ogr = ogr
  Slot = {s1}
  Contest = {rc5, ogr}
  Steps = 2
  MaxLoads = 3
SPECIFICATION Spec
INVARIANTS NoStaleResult SnapshotConsistent LoadedProblemsExact
PROPERTIES PurgesWhatWasSaved ImplementsWorkSlot
