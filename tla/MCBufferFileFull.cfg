CONSTANTS
  Blank = Blank
  c1 = c1 c2 = c2 r1 = r1 r2 = r2 r3 = r3
  Client = {c1}
  WorkRecord = {r1, r2}
  CloseFails = TRUE
SPECIFICATION FileSpec
PROPERTIES PutMeansStored
