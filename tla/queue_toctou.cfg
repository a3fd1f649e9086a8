SPECIFICATION Spec
CONSTANTS
  p1 = p1
  p2 = p2
  c1 = c1
  c2 = c2
  g1 = g1
  j1 = j1
  Procs = {p1}
  Candidates = {c1}
  Stores = {j1}
  DotStores = {}
  Texts <- MCTexts
  CaptureRules <- MCOneRule
  SeedLedger <- MCSeedLedger
  MaxId = 2
  MaxCrashes = 0
  MaxEdits = 1
  EditsRaceApply = TRUE
  NoProc = NoProc
  NoPlan = NoPlan
  NoRule = NoRule
  Seed = Seed
SYMMETRY Symmetry
PROPERTIES
  ChangedLedgerRefused
CHECK_DEADLOCK FALSE
