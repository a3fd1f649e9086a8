SPECIFICATION FairSpec
CONSTANTS
  p1 = p1
  p2 = p2
  Procs = {p1}
  N = 2
  Data = {"A", "B"}
  HandData = {"u"}
  HandFiles <- MCForeign
  Trees <- MCTrees
  Legacies <- MCLegacies
  RaceWindows = {}
  MaxChanges = 2
  MaxEdits = 0
  MaxFaults = 1
  MaxCrashes = 1
  Absent = Absent
  Damaged = Damaged
  NoRow = NoRow
  NoData = NoData
  NoSnap = NoSnap
  NoPlan = NoPlan
  NoProc = NoProc
INVARIANTS
  TypeOK
  NeverSelfBlocked
  KilledSyncRecoverable
PROPERTIES
  EventuallyHealthy
CHECK_DEADLOCK FALSE
