SPECIFICATION Spec
CONSTANTS
  p1 = p1
  p2 = p2
  c1 = c1
  c2 = c2
  g1 = g1
  j1 = j1
  Procs = {p1}
  Candidates = {c1, c2}
  Stores = {g1}
  DotStores = {g1}
  Texts <- MCTexts
  CaptureRules <- MCOneRule
  SeedLedger <- MCSeedLedger
  MaxId = 3
  MaxCrashes = 0
  MaxEdits = 0
  EditsRaceApply = TRUE
  NoProc = NoProc
  NoPlan = NoPlan
  NoRule = NoRule
  Seed = Seed
SYMMETRY Symmetry
INVARIANTS
  ExactDuplicateBlocks
CHECK_DEADLOCK FALSE
