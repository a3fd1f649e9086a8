SPECIFICATION Spec
CONSTANTS
  p1 = p1
  p2 = p2
  c1 = c1
  c2 = c2
  g1 = g1
  j1 = j1
  Procs = {p1, p2}
  Candidates = {c1, c2}
  Stores = {j1}
  DotStores = {}
  Texts <- MCTexts
  CaptureRules <- MCOneRule
  SeedLedger <- MCSeedLedger
  MaxId = 3
  MaxCrashes = 1
  MaxEdits = 1
  EditsRaceApply = FALSE
  NoProc = NoProc
  NoPlan = NoPlan
  NoRule = NoRule
  Seed = Seed
SYMMETRY Symmetry
INVARIANTS
  OneFate
  LedgerIdsUnique
  SupersedeLinked
  NoActiveDuplicate
PROPERTIES
  NoLessonLost
CHECK_DEADLOCK FALSE
