SPECIFICATION FairSpec
CONSTANTS
  p1 = p1
  p2 = p2
  c1 = c1
  c2 = c2
  g1 = g1
  j1 = j1
  Procs = {p1}
  Candidates = {c1, c2}
  Stores = {j1}
  DotStores = {}
  Texts <- MCTexts
  CaptureRules <- MCTwoRules
  SeedLedger <- MCSeedLedger
  MaxId = 2
  MaxCrashes = 1
  MaxEdits = 0
  EditsRaceApply = TRUE
  NoProc = NoProc
  NoPlan = NoPlan
  NoRule = NoRule
  Seed = Seed
PROPERTIES
  RetryConverges
CHECK_DEADLOCK FALSE
