SPECIFICATION Spec
CONSTANTS
  OGR_NG_MIN = 5
  OGR_NG_MAX = 7
  OGR_STUB_MAX = 7
  OGRNG_BITMAPS_LENGTH = 8
  SCALAR_BITS = 4
  CHOOSE_DIST_BITS = 3
  CHOOSE_MARKS = 5
  OGR <- MCLengths
  choose_dat <- MCChoose
  Rulers <- MCRulers
  Stubs <- MCStubs
  Slices = {1, 2}
  MaxResets = 1
INVARIANTS BitmapsExact FoundIsGolomb SavedStateLoads StubRestored NothingMissed
PROPERTIES SearchEnds
