SPECIFICATION Spec
CONSTANTS
  p1 = p1
  p2 = p2
  Procs = {p1, p2}
  N = 2
  Data = {"A", "B"}
  HandData = {"u"}
  HandFiles <- MCHandFiles
  Trees <- MCTrees
  Legacies <- MCNoLegacy
  RaceWindows = {}
  MaxChanges = 1
  MaxEdits = 2
  MaxFaults = 1
  MaxCrashes = 1
  Absent = Absent
  Damaged = Damaged
  NoRow = NoRow
  NoData = NoData
  NoSnap = NoSnap
  NoPlan = NoPlan
  NoProc = NoProc
SYMMETRY Symmetry
INVARIANTS
  ReceiptTrue
  HandKept
PROPERTIES
  AtomicSpec
CHECK_DEADLOCK FALSE
