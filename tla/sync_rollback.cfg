SPECIFICATION Spec
CONSTANTS
  p1 = p1
  p2 = p2
  Procs = {p1}
  N = 2
  Data = {"A", "B"}
  HandData = {"u"}
  HandFiles <- MCForeign
  Trees <- MCTrees
  Legacies <- MCNoLegacy
  RaceWindows = {}
  MaxChanges = 1
  MaxEdits = 0
  MaxFaults = 1
  MaxCrashes = 0
  Absent = Absent
  Damaged = Damaged
  NoRow = NoRow
  NoData = NoData
  NoSnap = NoSnap
  NoPlan = NoPlan
  NoProc = NoProc
PROPERTIES
  RollbackRestores
CHECK_DEADLOCK FALSE
